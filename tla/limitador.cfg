SPECIFICATION Spec
CONSTANTS
  k1 = k1
  k2 = k2
  r1 = r1
  r2 = r2
  r3 = r3
  Nulo = Nulo
  Chaves <- AsChaves
  ChavesNoRedis <- UmaChave
  Requisicoes <- TresRequisicoes
  Ficha = 3
  Taxa = 2
  Burst = 3
  Folga = 1
  MaxKeys = 1
  Atraso = 1
  MaxTempo = 7
SYMMETRY Simetria
INVARIANTS
  TypeOK
  SemExcesso
  EsperaBasta
PROPERTIES
  RecusaJustificada
CHECK_DEADLOCK FALSE
