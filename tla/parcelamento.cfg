SPECIFICATION SpecJusta
CONSTANTS
  r1 = r1
  r2 = r2
  r3 = r3
  p1 = p1
  Nulo = Nulo
  Requisicoes <- Tres
  Parcelamentos <- UmParcelamento
  MaxParcelas = 2
  Meses <- AgoraEDepois
  Hoje = 0
INVARIANTS
  ParcelasDoPlano
  SemOrfas
  ParcelaESaida
PROPERTIES
  ManterPagas
  TodaRequisicaoTermina
  RefinaAtomico
CHECK_DEADLOCK FALSE
