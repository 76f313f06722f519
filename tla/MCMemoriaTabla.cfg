SPECIFICATION Spec
CONSTANTS
  MARCOS_POR_PROCESO = 2
  ALGORITMO_REEMPLAZO = "CLOCK-M"
  Tamanio <- DosProcesos
  CANTIDAD_FRAMES = 4
  Salientes = {1, 2}
  MaxSuspensiones = 1
INVARIANTS SuspensionGuarda
CHECK_DEADLOCK FALSE
