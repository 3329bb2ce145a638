SPECIFICATION SpecP
CONSTANTS
  r1 = r1
  r2 = r2
  Req <- UmPedido
  Dias <- UmDia
  DatasCompra <- Mar10
  ValoresCompra = {4}
  Parcelas = {1, 2}
  Competencias <- AbrilEMaio
  DatasPagamento <- Abr1
  ValoresInformados = {}
  EdicoesTransacao <- Nenhum
  MaxMoney = 1000
  MaxIds = 4
  MaxCartoes = 2
PROPERTIES
  FaturaComPagamentoNaoMuda
CHECK_DEADLOCK FALSE
