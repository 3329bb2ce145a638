SPECIFICATION Spec
CONSTANTS
  a1 = a1
  a2 = a2
  d1 = d1
  d2 = d2
  m1 = m1
  m2 = m2
  Nulo = Nulo
  App <- DoisApps
  Slots <- DoisAppsUmaEntrega
  Mensagens <- UmaMensagem
  CanaisUsados <- SoTelefone
  JaVerificados <- OsDoisCanais
  MaxCodigos = 2
  MaxTentativas = 2
  ExigeTelefone = TRUE
  ExigeEmail = TRUE
  MaxFalhas = 0
SYMMETRY Simetria
INVARIANTS
  ProvaDePosse
  TentativasTemTeto
  SoRegistraVerificado
CHECK_DEADLOCK FALSE
