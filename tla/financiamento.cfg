SPECIFICATION Spec
CONSTANTS
  Taxas <- AsTaxas
  TaxaZero = "zero"
  MaxValor = 60
  MaxPrazo = 4
  MaxExtra = 6
  JurosDoMes <- OsJuros
  Pmt <- OPmt
INVARIANTS
  AmortizaOValor
  PriceAmortiza
  AporteNaoEncarece
PROPERTIES
  SACNaoCresce
CHECK_DEADLOCK FALSE
