SPECIFICATION Spec
CONSTANTS
  PROCESOS = {p1, p2, p3}
  NULO = NULO
  CAIDO = CAIDO
  LARGO_PROGRAMA = 2
SYMMETRY Simetria
INVARIANT CompactacionEspera
CHECK_DEADLOCK FALSE
