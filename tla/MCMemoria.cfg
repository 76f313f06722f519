SPECIFICATION Spec
CONSTANTS
  MARCOS_POR_PROCESO = 2
  ALGORITMO_REEMPLAZO = "CLOCK-M"
  Tamanio <- DosProcesos
  CANTIDAD_FRAMES = 4
  Salientes = {}
  MaxSuspensiones = 0
INVARIANTS TypeOK PresenteEnMemoria SinDatosPerdidos FramesExactos VictimaDisponible
CHECK_DEADLOCK FALSE
