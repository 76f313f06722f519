SPECIFICATION SpecSistema
CONSTANTS
  MARCOS_POR_PROCESO = 3
  ALGORITMO_REEMPLAZO = "CLOCK"
  Tamanio <- PaginasNecesarias
  PROCESS_SIZE <- BytesDeDos
  TAM_PAGINA = 8
  ENTRADAS_POR_TABLA = 2
  Direcciones = {0, 4, 12, 16}
  CANTIDAD_FRAMES = 4
  Salientes = {}
  MaxSuspensiones = 0
  ENTRADAS_TLB = 2
  REEMPLAZO_TLB = "LRU"
INVARIANTS AccesoVigente TlbSinDuplicados TraduccionExacta SlotEnArchivo
CHECK_DEADLOCK FALSE
