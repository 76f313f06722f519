SPECIFICATION Spec
CONSTANTS
  MARCOS_POR_PROCESO = 1
  ALGORITMO_REEMPLAZO = "CLOCK"
  Tamanio <- UnaYDos
  CANTIDAD_FRAMES = 3
  Salientes = {1}
  MaxSuspensiones = 1
INVARIANTS  VictimaDisponible
PROPERTIES PedidosRespondidos
CHECK_DEADLOCK FALSE
