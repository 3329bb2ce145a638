---------------------------- MODULE Financiamento ----------------------------
(***************************************************************************)
(* The amortization table of a financing: Cronograma, of financiamento.go, *)
(* one action per turn of its loop, in cents.                              *)
(*                                                                         *)
(* Simular runs the loop twice, with the extra payment of every month and  *)
(* without it, to show what the extra is worth.  The two runs share no     *)
(* state, so the model turns them side by side: "com" and "sem" are at the *)
(* same month, and their balances can be compared there.                   *)
(*                                                                         *)
(* The float64 arithmetic is two constants, tabulated over the balances:   *)
(* the interest of a month, rounded to the cent, and the constant payment  *)
(* of the Price table.  Of them only what the rounding of a monotonic      *)
(* product gives is assumed.                                               *)
(***************************************************************************)
EXTENDS Integers

CONSTANTS
  Taxas,       \* monthly rates
  TaxaZero,    \* the rate of a contract without interest
  MaxValor,    \* bound of ValorFinanciado (MaxMoney in the code)
  MaxPrazo,    \* bound of totalParcelas (MaxParcelas)
  MaxExtra,    \* bound of ExtraMensal
  JurosDoMes,  \* [rate][balance]: arredondaCentavos(saldo * i)
  Pmt          \* [rate][value][term]: the payment of the Price table

ComJuros == Taxas \ {TaxaZero}

\* saldo * i grows with saldo, rounding keeps the order, and
\* fator / (fator - 1) > 1: the payment covers the interest of the first month.
ASSUME FinanciamentoAssumption ==
  /\ TaxaZero \in Taxas
  /\ MaxValor \in Nat \ {0} /\ MaxPrazo \in Nat \ {0} /\ MaxExtra \in Nat
  /\ JurosDoMes \in [ComJuros -> [0..MaxValor -> Nat]]
  /\ Pmt \in [ComJuros -> [1..MaxValor -> [1..MaxPrazo -> Nat]]]
  /\ \A t \in ComJuros, s \in 0..MaxValor, u \in 0..MaxValor :
       s <= u => JurosDoMes[t][s] <= JurosDoMes[t][u]
  /\ \A t \in ComJuros, v \in 1..MaxValor, n \in 1..MaxPrazo :
       JurosDoMes[t][v] <= Pmt[t][v][n]

VARIABLES
  contrato,    \* the contract, as Validate accepted it
  k,           \* the loop's counter
  saldo,       \* the balance, of each scenario
  amortizado,  \* the sums of the rows written so far
  juros,
  linhas,      \* how many rows there are
  ultima       \* the last row: its interest and its amortization
vars == <<contrato, k, saldo, amortizado, juros, linhas, ultima>>

Cenarios == {"com", "sem"}

Price(c) == c.sistema = "price" /\ c.taxa # TaxaZero

Aceito(c) ==
  /\ c.valor >= c.prazo
  /\ Price(c) => Pmt[c.taxa][c.valor][c.prazo] > 0

Contratos ==
  {c \in [sistema : {"sac", "price"}, taxa : Taxas, valor : 1..MaxValor,
          prazo : 1..MaxPrazo, extra : 0..MaxExtra] : Aceito(c)}

-------------------------------------------------------------------------------

\* A wrong version: any fraction of a cent is charged as a cent.
JurosParaCima(c, s) ==
  IF c.taxa = TaxaZero THEN 0 ELSE JurosDoMes[c.taxa][s] + 1

Juros(c, s) == IF c.taxa = TaxaZero THEN 0 ELSE JurosDoMes[c.taxa][s]

Base(c) == c.valor \div c.prazo
Resto(c) == c.valor - Base(c) * c.prazo

\* A wrong version: the cents left over are for the last month to settle.
PelaTabelaRestoNoFim(c, m, s) ==
  IF Price(c) THEN Pmt[c.taxa][c.valor][c.prazo] - Juros(c, s) ELSE Base(c)

\* What the system of amortization takes from the balance s in month m: with
\* Price the payment less the interest, otherwise the value divided by the
\* term, the first month with the cents left over.
PelaTabela(c, m, s) ==
  IF Price(c) THEN Pmt[c.taxa][c.valor][c.prazo] - Juros(c, s)
  ELSE IF m = 0 THEN Base(c) + Resto(c)
  ELSE Base(c)

\* A wrong version: the last month is like any other.
QuitandoSemUltima(c, m, s) ==
  LET a == PelaTabela(c, m, s) IN IF a > s THEN s ELSE a

\* The last month settles the balance, and no month takes more than it.
Quitando(c, m, s) ==
  LET a == PelaTabela(c, m, s)
  IN IF m = c.prazo - 1 \/ a > s THEN s ELSE a

Extra(c, cenario) == IF cenario = "com" THEN c.extra ELSE 0

\* A wrong version: the extra payment is made instead of the amortization.
AplicaSoExtra(a, extra, s) ==
  IF extra = 0 THEN a ELSE IF extra > s THEN s ELSE extra

\* aplicaExtra: the extra payment is also held to the balance.
AplicaExtra(a, extra, s) == IF a + extra > s THEN s ELSE a + extra

Amortizacao(c, cenario, m, s) ==
  AplicaExtra(Quitando(c, m, s), Extra(c, cenario), s)

Aberto(cenario) == k < contrato.prazo /\ saldo[cenario] > 0
Terminou(cenario) == ~ Aberto(cenario)

TypeOK ==
  /\ contrato \in Contratos
  /\ k \in 0..contrato.prazo
  /\ saldo \in [Cenarios -> 0..MaxValor]
  /\ amortizado \in [Cenarios -> Int]
  /\ juros \in [Cenarios -> Nat]
  /\ linhas \in [Cenarios -> 0..MaxPrazo]
  /\ ultima \in [Cenarios -> [juros : Nat, amortizacao : Int]]

Init ==
  /\ contrato \in Contratos
  /\ k = 0
  /\ saldo = [x \in Cenarios |-> contrato.valor]
  /\ amortizado = [x \in Cenarios |-> 0]
  /\ juros = [x \in Cenarios |-> 0]
  /\ linhas = [x \in Cenarios |-> 0]
  /\ ultima = [x \in Cenarios |-> [juros |-> 0, amortizacao |-> 0]]

\* One turn of the loop: add writes the row and takes it from the balance,
\* which is never left below zero.
Mes ==
  LET c == contrato
      a(x) == Amortizacao(c, x, k, saldo[x])
      j(x) == Juros(c, saldo[x])
      resta(x) == saldo[x] - a(x)
  IN /\ \E x \in Cenarios : Aberto(x)
     /\ k' = k + 1
     /\ saldo' = [x \in Cenarios |-> IF ~ Aberto(x) THEN saldo[x]
                                     ELSE IF resta(x) < 0 THEN 0 ELSE resta(x)]
     /\ amortizado' = [x \in Cenarios |->
                         IF Aberto(x) THEN amortizado[x] + a(x) ELSE amortizado[x]]
     /\ juros' = [x \in Cenarios |->
                    IF Aberto(x) THEN juros[x] + j(x) ELSE juros[x]]
     /\ linhas' = [x \in Cenarios |->
                     IF Aberto(x) THEN linhas[x] + 1 ELSE linhas[x]]
     /\ ultima' = [x \in Cenarios |->
                     IF Aberto(x) THEN [juros |-> j(x), amortizacao |-> a(x)]
                                  ELSE ultima[x]]
     /\ UNCHANGED contrato

Next == Mes
Spec == Init /\ [][Next]_vars

-------------------------------------------------------------------------------
(* What must hold *)

\* The rows amortize the value financed, to the cent: the floor at zero of the
\* balance hides no amortization, and the last payment absorbs all the rounding.
AmortizaOValor ==
  \A x \in Cenarios :
    /\ saldo[x] + amortizado[x] = contrato.valor
    /\ Terminou(x) => saldo[x] = 0

\* No row is zero: the table transacoes refuses one, and with it the contract.
ParcelaPositiva ==
  \A x \in Cenarios :
    linhas[x] > 0 => ultima[x].juros + ultima[x].amortizacao > 0

\* The interest of a month never exceeds the payment of the Price table: the
\* error Cronograma has for that case is not reached, however the cents round.
PriceAmortiza ==
  \A x \in Cenarios :
    Aberto(x) /\ Price(contrato) => PelaTabela(contrato, k, saldo[x]) >= 0

\* SAC: "a parcela começa maior e vai diminuindo", also with the rounding in
\* the first row, the extra, and the last row that settles the balance.
SACNaoCresce ==
  [][\A x \in Cenarios :
       Aberto(x) /\ k > 0 /\ ~ Price(contrato) =>
         ultima'[x].juros + ultima'[x].amortizacao
           <= ultima[x].juros + ultima[x].amortizacao]_vars

\* The extra payment never makes the contract dearer or longer, in any month:
\* "o prazo encurta e o total de juros cai".
AporteNaoEncarece ==
  /\ saldo["com"] <= saldo["sem"]
  /\ juros["com"] <= juros["sem"]
  /\ linhas["com"] <= linhas["sem"]

=============================================================================
