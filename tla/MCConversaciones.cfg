SPECIFICATION SpecJusta
CONSTANTS
  PROCESOS = {p1, p2, p3}
  NULO = NULO
  CAIDO = CAIDO
  LARGO_PROGRAMA = 2
INVARIANTS TypeOK RespuestasJustas CompactacionEsperaSinCruce AbiertosExisten
PROPERTIES NadiePerdido TodosReciben
CHECK_DEADLOCK FALSE
