SPECIFICATION Spec
CONSTANTS
  MARCOS_POR_PROCESO = 2
  ALGORITMO_REEMPLAZO = "CLOCK-M"
  Tamanio <- UnProceso
  CANTIDAD_FRAMES = 4
  Salientes = {}
  MaxSuspensiones = 0
INVARIANTS FramesUsadosExactos
CHECK_DEADLOCK FALSE
