CONSTANTS
  PROCESOS = {p1, p2}
  NULO = NULO
  GRADO_MAX_MULTIPROGRAMACION = 1
  ALGORITMO_PLANIFICACION = "HRRN"
  LARGO_PROGRAMA = 1
SPECIFICATION SpecJusta
CHECK_DEADLOCK FALSE
PROPERTIES PasoDeNewAReady
