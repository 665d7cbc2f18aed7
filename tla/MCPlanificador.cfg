CONSTANTS
  PROCESOS = {p1, p2, p3}
  NULO = NULO
  GRADO_MAX_MULTIPROGRAMACION = 2
  ALGORITMO_PLANIFICACION = "HRRN"
  LARGO_PROGRAMA = 2
SPECIFICATION SpecJusta
INVARIANTS
  TypeOK
  GuardaRedundante
  TokensREADY
  UnSoloLugar
  GradoExacto
  TraspasoIO
PROPERTIES
  CumpleCiclo
  TerminaSalvoAbrazo
CHECK_DEADLOCK FALSE
