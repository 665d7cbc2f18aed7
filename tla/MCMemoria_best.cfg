CONSTANTS
  PIDS = {p1, p2}
  TAM_MEMORIA = 9
  TAM_SEGMENTO_0 = 1
  CANT_SEGMENTOS = 3
  ALGORITMOS = {"BEST"}
  TAMANIOS = {1, 2, 3, 5}
SPECIFICATION Spec
SYMMETRY Simetria
INVARIANTS BestElMenor
