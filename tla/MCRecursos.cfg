CONSTANTS
  PROCESOS = {p1, p2, p3}
  NULO = NULO
  RECURSOS = {disco, ram, aviso}
  INSTANCIAS <- UnaDeCada
  SIN_INSTANCIAS = aviso
  DESCONOCIDO = otro
  ARCHIVOS = {notas, datos}
  POSICIONES = {0, 1}
  LARGO_PROGRAMA = 3
SPECIFICATION SpecTabla
SYMMETRY Simetria
INVARIANTS
  TypeOKTabla
  Exclusion
  ColaExacta
  EsperaUnaCosa
  AtascoExplicado
  CaidaConTres
  UnDuenio
PROPERTY
  ImplementaTurnos
CHECK_DEADLOCK FALSE
