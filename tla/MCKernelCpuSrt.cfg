SPECIFICATION SpecSistema
CONSTANTS
  GRADO_MULTIPROGRAMACION = 2
  TIEMPO_MAXIMO_BLOQUEADO = 200
  ALGORITMO_PLANIFICACION = "SRT"
  ESTIMACION_INICIAL = 4
  ALFA_NUM = 1
  ALFA_DEN = 2
  UINT = 256
  MaxProcesos = 2
  Programas <- ProgramasSRT
INVARIANTS CpuEjecutaElDespachado
PROPERTIES ImplementaKernel  
CHECK_DEADLOCK FALSE
