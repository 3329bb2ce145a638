SPECIFICATION Spec
CONSTANTS
  r1 = r1
  r2 = r2
  r3 = r3
  s1 = s1
  s2 = s2
  velha = velha
  nova = nova
  Nulo = Nulo
  Requisicoes <- Tres
  Tokens <- DoisTokens
  Senhas <- AsSenhas
  SessionTTL = 3
  SessionIdleTimeout = 1
  TouchInterval = 1
  FreeAttempts = 1
  BaseLock = 2
  MaxLock = 3
  Window = 2
  MaxTempo = 3
SYMMETRY Simetria
INVARIANTS
  TypeOK
  IndiceConfere
  RevogacaoAlcanca
  BloqueioTemTeto
PROPERTIES
  SessaoEncerradaNaoVolta
CHECK_DEADLOCK FALSE
