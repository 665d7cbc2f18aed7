CONSTANTS
  PROCESOS = {p1, p2, p3}
  NULO = NULO
  GRADO_MAX_MULTIPROGRAMACION = 2
  ALGORITMO_PLANIFICACION = "FIFO"
  LARGO_PROGRAMA = 2
SPECIFICATION Spec
SYMMETRY Simetria
INVARIANTS AdmitidosEnMemoria
CHECK_DEADLOCK FALSE
