SPECIFICATION Spec
CONSTANTS
  GRADO_MULTIPROGRAMACION = 2
  TIEMPO_MAXIMO_BLOQUEADO = 100
  ALGORITMO_PLANIFICACION = "SRT"
  ESTIMACION_INICIAL = 4
  ALFA_NUM = 1
  ALFA_DEN = 2
  UINT = 256
  MaxProcesos = 3
  Programas <- ProgramasSRT
INVARIANTS SinPopVacio SemaforosCuentan UnaCopiaPorConsola
PROPERTIES ImplementaCiclo
CHECK_DEADLOCK FALSE
