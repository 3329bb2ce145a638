SPECIFICATION Spec
CONSTANTS
  Fechamentos = {20}
  Vencimentos = {5}
  PrimeiroMes <- Dez2027
  UltimoMes <- Mar2029
  Fuso = 3
INVARIANTS
  ResumoAcompanhaOCiclo
