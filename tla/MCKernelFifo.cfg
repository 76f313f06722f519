SPECIFICATION Spec
CONSTANTS
  GRADO_MULTIPROGRAMACION = 2
  TIEMPO_MAXIMO_BLOQUEADO = 200
  ALGORITMO_PLANIFICACION = "FIFO"
  ESTIMACION_INICIAL = 4
  ALFA_NUM = 1
  ALFA_DEN = 2
  UINT = 256
  MaxProcesos = 3
  Programas <- ProgramasES
INVARIANTS TypeOK SinPopVacio GradoRespetado SemaforosCuentan UnaCopiaPorConsola ConsolasPorExit EsperasOrdenadas
PROPERTIES ImplementaCiclo
CHECK_DEADLOCK FALSE
