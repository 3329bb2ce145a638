SPECIFICATION SpecP
CONSTANTS
  r1 = r1
  r2 = r2
  Req <- DoisPedidos
  Dias <- DiasDiferentes
  DatasCompra <- Mar10
  ValoresCompra = {3}
  Parcelas = {2}
  Competencias <- AbrilEMaio
  DatasPagamento <- Abr1
  ValoresInformados = {1, 5}
  EdicoesTransacao <- UmaEdicao
  MaxMoney = 1000
  MaxIds = 4
  MaxCartoes = 1
SYMMETRY Simetria
INVARIANTS
  CompraInteira
PROPERTIES
  DinheiroEPagamentoJuntos
  PagamentoSoLiberaASuaFatura
  EscritaEhOperacao
  EnganoSoPorLeituraVelha
  SoEdicaoEscondeFatura
CHECK_DEADLOCK FALSE
