CONSTANTS
  PROCESOS = {p1, p2, p3}
  NULO = NULO
  ANCHO <- Anchos
  REGISTROS <- Registros
  TAM_MAX_SEGMENTO = 4
  CANT_SEGMENTOS = 3
  CELDAS = {"nul", "a", "b", "archivo"}
  PROGRAMAS <- Programas
  TAM_MEMORIA = 8
  TAM_SEGMENTO_0 = 1
SPECIFICATION Spec
SYMMETRY Simetria
INVARIANTS
  TypeOK
  DireccionVigente
  CaidaExplicada
  MemoriaCaidaExplicada
PROPERTY
  ImplementaAislados
CHECK_DEADLOCK FALSE
