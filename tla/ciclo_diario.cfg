SPECIFICATION Spec
CONSTANTS
  Fechamentos <- DiasDeBorda
  Vencimentos <- DiasDeBorda
  PrimeiroMes <- Dez2027
  UltimoMes <- Mar2029
  Fuso = 3
INVARIANTS
  CompraDentroDoCiclo
  VencimentoDepoisDoFechamento
  ParcelasAteDia28
  StatusAcompanhaOCiclo
PROPERTIES
  AberturaDeFaturas
