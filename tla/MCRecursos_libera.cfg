CONSTANTS
  PROCESOS = {p1, p2, p3}
  NULO = NULO
  RECURSOS = {disco, ram}
  INSTANCIAS <- UnaDeCada
  SIN_INSTANCIAS = otro
  DESCONOCIDO = otro
  ARCHIVOS = {}
  POSICIONES = {0}
  LARGO_PROGRAMA = 2
SPECIFICATION SpecTabla
SYMMETRY Simetria
INVARIANTS
  Conservacion
CHECK_DEADLOCK FALSE
