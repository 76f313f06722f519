SPECIFICATION Spec
CONSTANTS
  MARCOS_POR_PROCESO = 2
  ALGORITMO_REEMPLAZO = "CLOCK-M"
  Tamanio <- UnProceso
  CANTIDAD_FRAMES = 4
  Salientes = {1}
  MaxSuspensiones = 1
INVARIANTS PresenteEnMemoria
CHECK_DEADLOCK FALSE
