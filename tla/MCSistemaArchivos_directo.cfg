SPECIFICATION Spec
CONSTANTS
  ARCHIVOS = {a, b}
  BLOCK_SIZE = 8
  BLOCK_COUNT = 6
  POSICIONES <- PosicionesMC
  TAMANIOS = {0, 8, 24}
INVARIANT DirectoPropio
CHECK_DEADLOCK FALSE
