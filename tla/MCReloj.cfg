SPECIFICATION Spec
CONSTANTS
  MARCOS_POR_PROCESO = 4
  ALGORITMO_REEMPLAZO = "CLOCK-M"
INVARIANTS TypeOK ClockSegundaOportunidad ClockMejorClase
