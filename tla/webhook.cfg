SPECIFICATION Spec
CONSTANTS
  a1 = a1
  a2 = a2
  d1 = d1
  d2 = d2
  m1 = m1
  m2 = m2
  Nulo = Nulo
  App <- Ninguem
  Slots <- DuasEntregas
  Mensagens <- DuasMensagens
  CanaisUsados <- Ninguem
  JaVerificados <- Ninguem
  MaxCodigos = 0
  MaxTentativas = 1
  ExigeTelefone = FALSE
  ExigeEmail = FALSE
  MaxFalhas = 2
INVARIANTS
  UmRegistroPorMensagem
  RespostaConfere
  AckConfere
PROPERTIES
  TodaMensagemConfirmada
CHECK_DEADLOCK FALSE
