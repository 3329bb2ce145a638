-------------------------- MODULE FinanciamentoProofs --------------------------
(***************************************************************************)
(* The properties of Financiamento, for every table of interests and of    *)
(* payments that FinanciamentoAssumption admits, and for every bound.      *)
(*                                                                         *)
(* The inductive invariant keeps the two scenarios apart only where they   *)
(* differ: each balance is what the rows left of the value (Saldos), the   *)
(* one with the extra payment is never behind the other (AporteNaoEncarece)*)
(* and, out of the Price table, the balance is at most one Base per month  *)
(* to go (NoRitmo), which is what makes the last row the smallest.         *)
(***************************************************************************)
EXTENDS Financiamento, TLAPS

\* What Validate and the checks of Cronograma leave of a contract.
LEMMA DoContrato ==
  ASSUME NEW c \in Contratos
  PROVE  /\ c.valor \in 1..MaxValor /\ c.prazo \in 1..MaxPrazo
         /\ c.extra \in Nat /\ c.taxa \in Taxas
         /\ c.valor \in Nat /\ c.prazo \in Nat /\ MaxValor \in Nat
         /\ Price(c) => /\ Pmt[c.taxa][c.valor][c.prazo] \in Nat \ {0}
                        /\ c.taxa \in ComJuros
         /\ c.taxa # TaxaZero => c.taxa \in ComJuros
         /\ Base(c) \in Nat \ {0} /\ Resto(c) \in Nat
         /\ Base(c) * c.prazo + Resto(c) = c.valor
  <1>1. /\ c.valor \in 1..MaxValor /\ c.prazo \in 1..MaxPrazo
        /\ c.extra \in 0..MaxExtra /\ c.taxa \in Taxas /\ c.valor >= c.prazo
        /\ Price(c) => Pmt[c.taxa][c.valor][c.prazo] > 0
    BY DEF Contratos, Aceito
  <1>2. MaxValor \in Nat /\ MaxPrazo \in Nat /\ MaxExtra \in Nat
    BY FinanciamentoAssumption
  <1>3. c.taxa # TaxaZero => c.taxa \in ComJuros  BY <1>1 DEF ComJuros
  <1>4. ASSUME c.taxa \in ComJuros PROVE Pmt[c.taxa][c.valor][c.prazo] \in Nat
    <2>1. Pmt[c.taxa] \in [1..MaxValor -> [1..MaxPrazo -> Nat]]
      BY <1>4, FinanciamentoAssumption
    <2>2. Pmt[c.taxa][c.valor] \in [1..MaxPrazo -> Nat]  BY <1>1, <2>1
    <2> QED  BY <1>1, <2>2
  <1>5. /\ c.valor \div c.prazo \in Nat \ {0}
        /\ c.valor - (c.valor \div c.prazo) * c.prazo \in Nat
    <2> DEFINE q == c.valor \div c.prazo
               s == c.valor % c.prazo
    <2>1. c.valor \in Nat /\ c.prazo \in Nat \ {0}  BY <1>1, <1>2
    <2>2. q \in Nat /\ s \in 0..(c.prazo - 1) /\ c.valor = c.prazo * q + s  BY <2>1
    <2>3. q >= 1  BY <1>1, <2>1, <2>2
    <2> HIDE DEF q, s
    <2>4. c.valor - q * c.prazo = s  BY <2>1, <2>2
    <2> QED  BY <2>2, <2>3, <2>4 DEF q
  <1>6. Base(c) \in Nat \ {0} /\ Resto(c) \in Nat
    BY <1>5 DEF Base, Resto
  <1>7. Base(c) * c.prazo + Resto(c) = c.valor
    BY <1>1, <1>2, <1>6 DEF Resto
  <1> QED  BY <1>1, <1>2, <1>3, <1>4, <1>6, <1>7 DEF Price

\* The interest grows with the balance, and the payment of Price covers it.
LEMMA DosJuros ==
  ASSUME NEW c \in Contratos, NEW s \in 0..c.valor, NEW u \in 0..c.valor
  PROVE  /\ Juros(c, s) \in Nat
         /\ s <= u => Juros(c, s) <= Juros(c, u)
         /\ Price(c) => Juros(c, s) <= Pmt[c.taxa][c.valor][c.prazo]
  <1>1. s \in 0..MaxValor /\ u \in 0..MaxValor /\ c.valor \in 0..MaxValor
    BY DoContrato
  <1>2. CASE c.taxa = TaxaZero
    BY <1>2 DEF Juros, Price
  <1>3. CASE c.taxa # TaxaZero
    <2>1. c.taxa \in ComJuros  BY <1>3, DoContrato
    <2>2. /\ JurosDoMes[c.taxa][s] \in Nat /\ JurosDoMes[c.taxa][u] \in Nat
          /\ JurosDoMes[c.taxa][c.valor] \in Nat
      BY <1>1, <2>1, FinanciamentoAssumption
    <2>3. /\ s <= u => JurosDoMes[c.taxa][s] <= JurosDoMes[c.taxa][u]
          /\ JurosDoMes[c.taxa][s] <= JurosDoMes[c.taxa][c.valor]
      <3>1. \A y \in 0..MaxValor, z \in 0..MaxValor :
              y <= z => JurosDoMes[c.taxa][y] <= JurosDoMes[c.taxa][z]
        BY <2>1, FinanciamentoAssumption
      <3>2. s <= c.valor  BY DoContrato
      <3> QED  BY <1>1, <3>1, <3>2
    <2>4. Price(c) =>
            /\ JurosDoMes[c.taxa][c.valor] <= Pmt[c.taxa][c.valor][c.prazo]
            /\ Pmt[c.taxa][c.valor][c.prazo] \in Nat
      <3>1. c.valor \in 1..MaxValor /\ c.prazo \in 1..MaxPrazo  BY DoContrato
      <3>2. JurosDoMes[c.taxa][c.valor] <= Pmt[c.taxa][c.valor][c.prazo]
        BY <2>1, <3>1, FinanciamentoAssumption
      <3> QED  BY <3>2, DoContrato
    <2> QED  BY <1>3, <2>2, <2>3, <2>4 DEF Juros
  <1> QED  BY <1>2, <1>3

\* The system of amortization takes something that is not negative, and leaves
\* a larger balance of a larger balance.
LEMMA DaTabela ==
  ASSUME NEW c \in Contratos, NEW m \in Nat, NEW s \in 0..c.valor, NEW u \in 0..c.valor
  PROVE  /\ PelaTabela(c, m, s) \in Nat
         /\ PelaTabela(c, m, s) + Juros(c, s) > 0
         /\ s <= u => s - PelaTabela(c, m, s) <= u - PelaTabela(c, m, u)
  <1>1. /\ Juros(c, s) \in Nat /\ Juros(c, u) \in Nat
        /\ s <= u => Juros(c, s) <= Juros(c, u)
        /\ Price(c) => Juros(c, s) <= Pmt[c.taxa][c.valor][c.prazo]
        /\ Price(c) => Pmt[c.taxa][c.valor][c.prazo] \in Nat \ {0}
        /\ Base(c) \in Nat \ {0} /\ Resto(c) \in Nat
    BY DosJuros, DoContrato
  <1>2. CASE Price(c)  BY <1>1, <1>2 DEF PelaTabela
  <1>3. CASE ~ Price(c)  BY <1>1, <1>3 DEF PelaTabela
  <1> QED  BY <1>2, <1>3

\* What a month takes: never more than the balance, never nothing of value, and
\* at least what the contract asks, unless it settles the balance.
LEMMA DaAmortizacao ==
  ASSUME NEW c \in Contratos, NEW x \in Cenarios, NEW m \in Nat,
         NEW s \in 0..c.valor, s > 0
  PROVE  LET a == Amortizacao(c, x, m, s)
             p == PelaTabela(c, m, s)
         IN /\ a \in 0..s
            /\ a + Juros(c, s) > 0
            /\ m = c.prazo - 1 => a = s
            /\ a = s \/ a = p + Extra(c, x)
            /\ a <= p + Extra(c, x) \/ m = c.prazo - 1
            /\ x = "sem" /\ m # c.prazo - 1 => a = IF p > s THEN s ELSE p
  <1>0. c.valor \in Nat /\ s \in Nat  BY DoContrato
  <1>1. /\ PelaTabela(c, m, s) \in Nat /\ Juros(c, s) \in Nat
        /\ PelaTabela(c, m, s) + Juros(c, s) > 0
    BY DaTabela, DosJuros
  <1>2. Extra(c, x) \in Nat  BY DoContrato DEF Extra
  <1>3. x = "sem" => Extra(c, x) = 0  BY DEF Extra
  <1> DEFINE p == PelaTabela(c, m, s)
             e == Extra(c, x)
             q == IF m = c.prazo - 1 \/ p > s THEN s ELSE p
  <1>4. Quitando(c, m, s) = q  BY DEF Quitando
  <1>5. Amortizacao(c, x, m, s) = IF q + e > s THEN s ELSE q + e
    BY <1>4 DEF Amortizacao, AplicaExtra
  <1>6. p \in Nat /\ e \in Nat /\ q \in Nat /\ q <= s  BY <1>0, <1>1, <1>2
  <1> QED  BY <1>0, <1>1, <1>2, <1>3, <1>5, <1>6

-------------------------------------------------------------------------------
Saldos ==
  \A x \in Cenarios : /\ saldo[x] \in 0..contrato.valor
                      /\ saldo[x] + amortizado[x] = contrato.valor
                      /\ k = contrato.prazo => saldo[x] = 0

NoRitmo ==
  ~ Price(contrato) /\ k > 0 =>
    \A x \in Cenarios :
      /\ saldo[x] <= Base(contrato) * (contrato.prazo - k)
      /\ saldo[x] > 0 =>
           /\ ultima[x].amortizacao >= Base(contrato) + Extra(contrato, x)
           /\ ultima[x].juros >= Juros(contrato, saldo[x])

IInv ==
  /\ TypeOK
  /\ \A x \in Cenarios : linhas[x] <= k
  /\ Saldos /\ ParcelaPositiva /\ AporteNaoEncarece /\ NoRitmo

LEMMA InitIInv == Init => IInv
  <1> SUFFICES ASSUME Init PROVE IInv  OBVIOUS
  <1>1. /\ contrato \in Contratos /\ k = 0
        /\ contrato.valor \in 1..MaxValor /\ contrato.prazo \in 1..MaxPrazo
        /\ MaxValor \in Nat /\ MaxPrazo \in Nat
    BY DoContrato, FinanciamentoAssumption DEF Init
  <1>2. TypeOK  BY <1>1 DEF Init, TypeOK, Cenarios
  <1>3. Saldos  BY <1>1 DEF Init, Saldos
  <1>4. ParcelaPositiva /\ NoRitmo /\ \A x \in Cenarios : linhas[x] <= k
    BY <1>1 DEF Init, ParcelaPositiva, NoRitmo
  <1>5. AporteNaoEncarece  BY <1>1 DEF Init, AporteNaoEncarece, Cenarios
  <1> QED  BY <1>2, <1>3, <1>4, <1>5 DEF IInv

\* What a month does to a scenario.
LEMMA UmMes ==
  ASSUME IInv, Mes, NEW x \in Cenarios
  PROVE  /\ contrato' = contrato /\ k' = k + 1
         /\ k \in Nat /\ k < contrato.prazo
         /\ saldo[x] \in 0..contrato.valor
         /\ ~ Aberto(x) <=> saldo[x] = 0
         /\ saldo[x] = 0 => /\ saldo'[x] = 0
                            /\ UNCHANGED <<amortizado[x], juros[x], linhas[x], ultima[x]>>
         /\ saldo[x] > 0 =>
              LET a == Amortizacao(contrato, x, k, saldo[x])
                  j == Juros(contrato, saldo[x])
              IN /\ a \in 0..saldo[x] /\ j \in Nat
                 /\ saldo'[x] = saldo[x] - a
                 /\ amortizado'[x] = amortizado[x] + a
                 /\ juros'[x] = juros[x] + j
                 /\ linhas'[x] = linhas[x] + 1
                 /\ ultima'[x] = [juros |-> j, amortizacao |-> a]
  <1>1. contrato' = contrato /\ k' = k + 1  BY DEF Mes
  <1>2. /\ contrato \in Contratos /\ k \in Nat /\ contrato.prazo \in Nat
        /\ saldo[x] \in 0..contrato.valor /\ contrato.valor \in Nat
    BY DoContrato DEF IInv, TypeOK, Saldos
  <1>3. k < contrato.prazo
    BY DEF Mes, Aberto
  <1>4. ~ Aberto(x) <=> saldo[x] = 0  BY <1>2, <1>3 DEF Aberto
  <1> DEFINE a == Amortizacao(contrato, x, k, saldo[x])
             j == Juros(contrato, saldo[x])
  <1>5. CASE saldo[x] = 0
    <2>1. ~ Aberto(x)  BY <1>4, <1>5
    <2>2. /\ saldo'[x] = saldo[x] /\ amortizado'[x] = amortizado[x]
          /\ juros'[x] = juros[x] /\ linhas'[x] = linhas[x] /\ ultima'[x] = ultima[x]
      BY <2>1 DEF Mes
    <2> QED  BY <1>1, <1>2, <1>3, <1>4, <1>5, <2>2
  <1>6. CASE saldo[x] > 0
    <2>1. Aberto(x)  BY <1>2, <1>4, <1>6
    <2>2. a \in 0..saldo[x]  BY <1>2, <1>6, DaAmortizacao
    <2>3. j \in Nat  BY <1>2, DosJuros
    <2>4. /\ saldo'[x] = IF saldo[x] - a < 0 THEN 0 ELSE saldo[x] - a
          /\ amortizado'[x] = amortizado[x] + a
          /\ juros'[x] = juros[x] + j
          /\ linhas'[x] = linhas[x] + 1
          /\ ultima'[x] = [juros |-> j, amortizacao |-> a]
      BY <2>1 DEF Mes
    <2>5. saldo'[x] = saldo[x] - a  BY <1>2, <2>2, <2>4
    <2> QED  BY <1>1, <1>2, <1>3, <1>4, <1>6, <2>2, <2>3, <2>4, <2>5
  <1> QED  BY <1>2, <1>5, <1>6

LEMMA PassoTipos == IInv /\ [Next]_vars => TypeOK' /\ Saldos' /\ ParcelaPositiva'
                                          /\ \A x \in Cenarios : linhas'[x] <= k'
  <1> SUFFICES ASSUME IInv, [Next]_vars
               PROVE  /\ TypeOK' /\ Saldos' /\ ParcelaPositiva'
                      /\ \A x \in Cenarios : linhas'[x] <= k'
    OBVIOUS
  <1>1. CASE Mes
    <2>1. /\ contrato \in Contratos /\ contrato' = contrato /\ k' = k + 1
          /\ k \in Nat /\ k < contrato.prazo
          /\ contrato.prazo \in 1..MaxPrazo /\ MaxPrazo \in Nat
          /\ contrato.valor \in 1..MaxValor /\ MaxValor \in Nat
      BY <1>1, UmMes, DoContrato, FinanciamentoAssumption DEF IInv, TypeOK, Cenarios
    <2>2. ASSUME NEW x \in Cenarios
          PROVE  /\ saldo'[x] \in 0..contrato.valor /\ amortizado'[x] \in Int
                 /\ juros'[x] \in Nat /\ linhas'[x] \in 0..MaxPrazo /\ linhas'[x] <= k'
                 /\ ultima'[x] \in [juros : Nat, amortizacao : Int]
                 /\ saldo'[x] + amortizado'[x] = contrato.valor
                 /\ k' = contrato.prazo => saldo'[x] = 0
                 /\ linhas'[x] > 0 => ultima'[x].juros + ultima'[x].amortizacao > 0
      <3>1. /\ saldo[x] \in 0..contrato.valor /\ amortizado[x] \in Int
            /\ juros[x] \in Nat /\ linhas[x] \in 0..MaxPrazo /\ linhas[x] <= k
            /\ ultima[x] \in [juros : Nat, amortizacao : Int]
            /\ saldo[x] + amortizado[x] = contrato.valor
            /\ linhas[x] > 0 => ultima[x].juros + ultima[x].amortizacao > 0
        BY DEF IInv, TypeOK, Saldos, ParcelaPositiva
      <3>2. CASE saldo[x] = 0
        <4>1. /\ saldo'[x] = 0 /\ amortizado'[x] = amortizado[x]
              /\ juros'[x] = juros[x] /\ linhas'[x] = linhas[x]
              /\ ultima'[x] = ultima[x]
          BY <1>1, <3>2, UmMes
        <4> QED  BY <2>1, <3>1, <3>2, <4>1
      <3>3. CASE saldo[x] > 0
        <4> DEFINE a == Amortizacao(contrato, x, k, saldo[x])
                   j == Juros(contrato, saldo[x])
        <4>1. /\ a \in 0..saldo[x] /\ j \in Nat
              /\ saldo'[x] = saldo[x] - a
              /\ amortizado'[x] = amortizado[x] + a
              /\ juros'[x] = juros[x] + j
              /\ linhas'[x] = linhas[x] + 1
              /\ ultima'[x] = [juros |-> j, amortizacao |-> a]
          BY <1>1, <3>3, UmMes
        <4>2. a + j > 0 /\ (k = contrato.prazo - 1 => a = saldo[x])
          BY <2>1, <3>1, <3>3, DaAmortizacao
        <4> HIDE DEF a, j
        <4>3. ultima'[x] \in [juros : Nat, amortizacao : Int]
              /\ ultima'[x].juros + ultima'[x].amortizacao > 0
          BY <3>1, <4>1, <4>2
        <4> QED  BY <2>1, <3>1, <4>1, <4>2, <4>3
      <3> QED  BY <2>1, <3>1, <3>2, <3>3
    <2>3. TypeOK'
      <3>1. /\ saldo' = [x \in Cenarios |-> saldo'[x]]
            /\ amortizado' = [x \in Cenarios |-> amortizado'[x]]
            /\ juros' = [x \in Cenarios |-> juros'[x]]
            /\ linhas' = [x \in Cenarios |-> linhas'[x]]
            /\ ultima' = [x \in Cenarios |-> ultima'[x]]
        BY <1>1 DEF Mes
      <3>2. k' \in 0..contrato'.prazo  BY <2>1
      <3>3. \A x \in Cenarios : saldo'[x] \in 0..MaxValor  BY <2>1, <2>2
      <3> QED  BY <2>1, <2>2, <3>1, <3>2, <3>3 DEF TypeOK
    <2> QED  BY <2>1, <2>2, <2>3 DEF Saldos, ParcelaPositiva
  <1>2. CASE UNCHANGED vars
    BY <1>2 DEF vars, IInv, TypeOK, Saldos, ParcelaPositiva
  <1> QED  BY <1>1, <1>2 DEF Next

\* What is left of a natural number is one.
LEMMA Diferenca ==
  ASSUME NEW v \in Nat, NEW s \in 0..v, NEW a \in 0..s PROVE s - a >= 0
  OBVIOUS

\* The month with the extra, of a balance behind the other, leaves one behind
\* the other.
LEMMA MesComExtra ==
  ASSUME NEW s \in Nat, NEW u \in Nat, s <= u, NEW p \in Nat, NEW q \in Nat,
         s - p <= u - q, NEW e \in Nat, NEW ultimo \in BOOLEAN,
         NEW a \in 0..s, NEW b \in 0..u,
         ultimo => a = s, a = s \/ a = p + e,
         ~ ultimo => b = IF q > u THEN u ELSE q
  PROVE  s - a <= u - b
  OBVIOUS

\* The extra payment: a month keeps the balance with it behind the other, and
\* so the interest and the number of rows.
LEMMA PassoAporte == IInv /\ [Next]_vars => AporteNaoEncarece'
  <1> SUFFICES ASSUME IInv, [Next]_vars PROVE AporteNaoEncarece'  OBVIOUS
  <1> DEFINE c == contrato
             sc == saldo["com"]
             ss == saldo["sem"]
             ax == Amortizacao(c, "com", k, sc)
             az == Amortizacao(c, "sem", k, ss)
  <1>1. CASE Mes
    <2>1. /\ "com" \in Cenarios /\ "sem" \in Cenarios /\ c \in Contratos
          /\ k \in Nat /\ c.valor \in Nat /\ c.prazo \in Nat
          /\ sc \in 0..c.valor /\ ss \in 0..c.valor
          /\ sc <= ss /\ juros["com"] <= juros["sem"] /\ linhas["com"] <= linhas["sem"]
          /\ juros["com"] \in Nat /\ juros["sem"] \in Nat
          /\ linhas["com"] \in 0..MaxPrazo /\ linhas["sem"] \in 0..MaxPrazo
      <3>1. "com" \in Cenarios /\ "sem" \in Cenarios  BY DEF Cenarios
      <3> QED  BY <3>1, DoContrato DEF IInv, TypeOK, Saldos, AporteNaoEncarece
    <2>2. MaxPrazo \in Nat  BY FinanciamentoAssumption
    <2>3. CASE sc = 0
      <3>1. /\ saldo'["com"] = 0 /\ juros'["com"] = juros["com"]
            /\ linhas'["com"] = linhas["com"]
        BY <1>1, <2>1, <2>3, UmMes
      <3>2. CASE ss = 0
        <4>1. /\ saldo'["sem"] = 0 /\ juros'["sem"] = juros["sem"]
              /\ linhas'["sem"] = linhas["sem"]
          BY <1>1, <2>1, <3>2, UmMes
        <4> QED  BY <2>1, <3>1, <4>1 DEF AporteNaoEncarece
      <3>3. CASE ss > 0
        <4>1. /\ az \in 0..ss /\ Juros(c, ss) \in Nat
              /\ saldo'["sem"] = ss - az
              /\ juros'["sem"] = juros["sem"] + Juros(c, ss)
              /\ linhas'["sem"] = linhas["sem"] + 1
          BY <1>1, <2>1, <3>3, UmMes
        <4>2. saldo'["com"] <= saldo'["sem"]
          BY <2>1, <3>1, <4>1, Diferenca
        <4>3. juros'["com"] <= juros'["sem"]  BY <2>1, <3>1, <4>1
        <4>4. linhas'["com"] <= linhas'["sem"]  BY <2>1, <2>2, <3>1, <4>1
        <4> QED  BY <4>2, <4>3, <4>4 DEF AporteNaoEncarece
      <3> QED  BY <2>1, <3>2, <3>3
    <2>4. CASE sc > 0
      <3>1. ss > 0  BY <2>1, <2>4
      <3>2. /\ ax \in 0..sc /\ az \in 0..ss
            /\ saldo'["com"] = sc - ax /\ saldo'["sem"] = ss - az
            /\ juros'["com"] = juros["com"] + Juros(c, sc)
            /\ juros'["sem"] = juros["sem"] + Juros(c, ss)
            /\ linhas'["com"] = linhas["com"] + 1
            /\ linhas'["sem"] = linhas["sem"] + 1
        BY <1>1, <2>1, <2>4, <3>1, UmMes
      <3>3. /\ Juros(c, sc) \in Nat /\ Juros(c, ss) \in Nat
            /\ Juros(c, sc) <= Juros(c, ss)
        BY <2>1, DosJuros
      <3>4. sc - ax <= ss - az
        <4> DEFINE pc == PelaTabela(c, k, sc)
                   ps == PelaTabela(c, k, ss)
                   e == Extra(c, "com")
        <4>1. pc \in Nat /\ ps \in Nat /\ sc - pc <= ss - ps
          BY <2>1, DaTabela
        <4>2. k = c.prazo - 1 => ax = sc
          BY <2>1, <2>4, DaAmortizacao
        <4>5. ax = sc \/ ax = pc + e
          BY <2>1, <2>4, DaAmortizacao
        <4>3. k # c.prazo - 1 => az = IF ps > ss THEN ss ELSE ps
          BY <2>1, <3>1, DaAmortizacao
        <4>4. e \in Nat  BY <2>1, DoContrato DEF Extra
        <4>6. sc \in Nat /\ ss \in Nat  BY <2>1
        <4> DEFINE ultimo == k = c.prazo - 1
        <4>7. ultimo \in BOOLEAN  OBVIOUS
        <4> HIDE DEF c, ax, az, pc, ps, e, sc, ss, ultimo
        <4>8. (ultimo => ax = sc) /\ (~ ultimo => az = IF ps > ss THEN ss ELSE ps)
          BY <4>2, <4>3 DEF ultimo
        <4> QED  BY <2>1, <3>2, <4>1, <4>4, <4>5, <4>6, <4>7, <4>8, MesComExtra
      <3>5. saldo'["com"] <= saldo'["sem"]  BY <3>2, <3>4
      <3>6. juros'["com"] <= juros'["sem"]  BY <2>1, <3>2, <3>3
      <3>7. linhas'["com"] <= linhas'["sem"]  BY <2>1, <2>2, <3>2
      <3> QED  BY <3>5, <3>6, <3>7 DEF AporteNaoEncarece
    <2> QED  BY <2>1, <2>3, <2>4
  <1>2. CASE UNCHANGED vars
    BY <1>2 DEF vars, IInv, AporteNaoEncarece
  <1> QED  BY <1>1, <1>2 DEF Next

\* Out of the Price table the balance goes down by a Base a month at least, and
\* a row that leaves a balance amortizes a Base and the extra at least.
LEMMA PassoRitmo == IInv /\ [Next]_vars => NoRitmo'
  <1> SUFFICES ASSUME IInv, [Next]_vars PROVE NoRitmo'  OBVIOUS
  <1>1. CASE Mes
    <2>1. /\ contrato \in Contratos /\ contrato' = contrato /\ k' = k + 1
          /\ k \in Nat /\ contrato.prazo \in Nat /\ k < contrato.prazo
          /\ contrato.valor \in Nat
      BY <1>1, UmMes, DoContrato DEF IInv, TypeOK, Cenarios
    <2> DEFINE c == contrato
               b == Base(c)
    <2>2. /\ b \in Nat \ {0} /\ Resto(c) \in Nat
          /\ b * c.prazo + Resto(c) = c.valor
      BY <2>1, DoContrato
    <2>3. ASSUME ~ Price(c), NEW x \in Cenarios
          PROVE  /\ saldo'[x] <= b * (c.prazo - k')
                 /\ saldo'[x] > 0 =>
                      /\ ultima'[x].amortizacao >= b + Extra(c, x)
                      /\ ultima'[x].juros >= Juros(c, saldo'[x])
      <3>1. saldo[x] \in 0..c.valor  BY DEF IInv, Saldos
      <3>2. CASE saldo[x] = 0
        <4>1. saldo'[x] = 0  BY <1>1, <3>2, UmMes
        <4>2. c.prazo - k' \in Nat  BY <2>1
        <4> HIDE DEF b
        <4>3. b * (c.prazo - k') \in Nat  BY <2>2, <4>2
        <4> QED  BY <4>1, <4>3
      <3>3. CASE saldo[x] > 0
        <4> DEFINE a == Amortizacao(c, x, k, saldo[x])
                   j == Juros(c, saldo[x])
                   t == b + (IF k = 0 THEN Resto(c) ELSE 0)
        <4>1. /\ a \in 0..saldo[x] /\ j \in Nat
              /\ saldo'[x] = saldo[x] - a
              /\ ultima'[x] = [juros |-> j, amortizacao |-> a]
          BY <1>1, <3>3, UmMes
        <4>2. PelaTabela(c, k, saldo[x]) = t
          BY <2>2, <2>3 DEF PelaTabela
        <4>3. a = saldo[x] \/ a = t + Extra(c, x)
          BY <2>1, <3>1, <3>3, <4>2, DaAmortizacao
        <4>4. Extra(c, x) \in Nat  BY <2>1, DoContrato DEF Extra
        <4>5. k > 0 => saldo[x] <= b * (c.prazo - k)
          BY <2>3 DEF IInv, NoRitmo
        <4>6. saldo'[x] > 0 => j >= Juros(c, saldo'[x])
          <5>1. saldo'[x] \in 0..c.valor /\ saldo'[x] <= saldo[x]
            <6> HIDE DEF a
            <6> QED  BY <2>1, <3>1, <4>1
          <5> QED  BY <2>1, <3>1, <5>1, DosJuros
        <4> HIDE DEF a, j, b
        <4>7. /\ b * (c.prazo - k') \in Nat
              /\ b * (c.prazo - k) = b * (c.prazo - k') + b
              /\ k = 0 => c.valor = b * (c.prazo - k') + b + Resto(c)
          <5>1. c.prazo - k' \in Nat /\ c.prazo - k = (c.prazo - k') + 1  BY <2>1
          <5> DEFINE n == c.prazo - k'
          <5>2. n \in Nat /\ c.prazo - k = n + 1 /\ (k = 0 => c.prazo = n + 1)
            BY <2>1, <5>1
          <5> HIDE DEF n
          <5>3. b * n \in Nat /\ b * (n + 1) = b * n + b  BY <2>2, <5>2
          <5> QED  BY <2>2, <5>2, <5>3 DEF n
        <4>8. saldo[x] <= b * (c.prazo - k') + t
          BY <2>1, <2>2, <3>1, <4>5, <4>7
        <4>9. saldo'[x] <= b * (c.prazo - k')
          BY <2>2, <3>1, <4>1, <4>3, <4>4, <4>7, <4>8
        <4>10. saldo'[x] > 0 => a >= b + Extra(c, x)
          BY <2>2, <3>1, <4>1, <4>3, <4>4
        <4> QED  BY <4>1, <4>6, <4>9, <4>10
      <3> QED  BY <2>1, <3>1, <3>2, <3>3
    <2> QED  BY <2>1, <2>3 DEF NoRitmo, Price
  <1>2. CASE UNCHANGED vars
    BY <1>2 DEF vars, IInv, NoRitmo
  <1> QED  BY <1>1, <1>2 DEF Next

LEMMA PassoIInv == IInv /\ [Next]_vars => IInv'
  BY PassoTipos, PassoAporte, PassoRitmo DEF IInv

THEOREM Invariante == Spec => []IInv
  <1> QED  BY InitIInv, PassoIInv, PTL DEF Spec

-------------------------------------------------------------------------------
\* The table has the types of its columns, for every contract.
THEOREM TiposCorretos == Spec => []TypeOK
  <1>1. IInv => TypeOK  BY DEF IInv
  <1> QED  BY <1>1, Invariante, PTL

\* The rows sum the value financed to the cent, and when there are no more rows
\* nothing is owed.
THEOREM AmortizaTudo == Spec => []AmortizaOValor
  <1>1. IInv => AmortizaOValor
    <2> SUFFICES ASSUME IInv, NEW x \in Cenarios
                 PROVE  /\ saldo[x] + amortizado[x] = contrato.valor
                        /\ Terminou(x) => saldo[x] = 0
      BY DEF AmortizaOValor
    <2>1. /\ k \in 0..contrato.prazo /\ contrato.prazo \in Nat /\ contrato.valor \in Nat
          /\ saldo[x] \in 0..contrato.valor
          /\ saldo[x] + amortizado[x] = contrato.valor
          /\ k = contrato.prazo => saldo[x] = 0
      BY DoContrato DEF IInv, TypeOK, Saldos
    <2> QED  BY <2>1 DEF Terminou, Aberto
  <1> QED  BY <1>1, Invariante, PTL

\* No row is worth zero.
THEOREM NenhumaParcelaNula == Spec => []ParcelaPositiva
  <1>1. IInv => ParcelaPositiva  BY DEF IInv
  <1> QED  BY <1>1, Invariante, PTL

\* The error "os juros do mês superam a parcela" is not reached, in any contract.
THEOREM PriceSempreAmortiza == Spec => []PriceAmortiza
  <1>1. IInv => PriceAmortiza
    <2> SUFFICES ASSUME IInv, NEW x \in Cenarios
                 PROVE  PelaTabela(contrato, k, saldo[x]) >= 0
      BY DEF PriceAmortiza
    <2>1. contrato \in Contratos /\ saldo[x] \in 0..contrato.valor
          /\ k \in Nat
      BY DoContrato DEF IInv, TypeOK, Saldos
    <2>2. PelaTabela(contrato, k, saldo[x]) \in Nat  BY <2>1, DaTabela
    <2> QED  BY <2>2
  <1> QED  BY <1>1, Invariante, PTL

\* The extra payment makes no contract dearer or longer.
THEOREM AporteSoAjuda == Spec => []AporteNaoEncarece
  <1>1. IInv => AporteNaoEncarece  BY DEF IInv
  <1> QED  BY <1>1, Invariante, PTL

\* The instalments of SAC, and those without interest, never grow.
THEOREM SACDecresce == Spec => SACNaoCresce
  <1> DEFINE A == \A x \in Cenarios :
                    Aberto(x) /\ k > 0 /\ ~ Price(contrato) =>
                      ultima'[x].juros + ultima'[x].amortizacao
                        <= ultima[x].juros + ultima[x].amortizacao
  <1>1. IInv /\ [Next]_vars => [A]_vars
    <2> SUFFICES ASSUME IInv, Mes, NEW x \in Cenarios,
                        Aberto(x), k > 0, ~ Price(contrato)
                 PROVE  ultima'[x].juros + ultima'[x].amortizacao
                          <= ultima[x].juros + ultima[x].amortizacao
      BY DEF Next
    <2> DEFINE c == contrato
               a == Amortizacao(c, x, k, saldo[x])
               j == Juros(c, saldo[x])
    <2>1. /\ c \in Contratos /\ k \in Nat /\ c.prazo \in Nat /\ c.valor \in Nat
          /\ saldo[x] \in 0..c.valor /\ saldo[x] > 0
          /\ ultima[x] \in [juros : Nat, amortizacao : Int]
          /\ Base(c) \in Nat /\ Extra(c, x) \in Nat
      <3>1. saldo[x] > 0  BY DEF Aberto
      <3>2. contrato.extra \in Nat  BY DoContrato DEF IInv, TypeOK
      <3>3. Extra(c, x) \in Nat  BY <3>2 DEF Extra
      <3> QED  BY <3>1, <3>3, UmMes, DoContrato DEF IInv, TypeOK, Saldos
    <2>2. ultima'[x] = [juros |-> j, amortizacao |-> a] /\ a \in 0..saldo[x] /\ j \in Nat
      BY <2>1, UmMes
    <2>3. /\ saldo[x] <= Base(c) * (c.prazo - k)
          /\ ultima[x].amortizacao >= Base(c) + Extra(c, x)
          /\ ultima[x].juros >= j
      BY <2>1 DEF IInv, NoRitmo
    <2>4. a <= Base(c) + Extra(c, x)
      <3>1. PelaTabela(c, k, saldo[x]) = Base(c)  BY <2>1 DEF PelaTabela
      <3>2. a <= Base(c) + Extra(c, x) \/ k = c.prazo - 1
        BY <2>1, <3>1, DaAmortizacao
      <3>3. k = c.prazo - 1 => saldo[x] <= Base(c)
        <4>1. k = c.prazo - 1 => c.prazo - k = 1  BY <2>1
        <4> QED  BY <2>1, <2>3, <4>1
      <3> HIDE DEF a
      <3> QED  BY <2>1, <2>2, <3>2, <3>3
    <2> HIDE DEF a, j
    <2>5. j + a <= ultima[x].juros + ultima[x].amortizacao
      BY <2>1, <2>2, <2>3, <2>4
    <2> QED  BY <2>2, <2>5
  <1> QED  BY <1>1, Invariante, PTL DEF Spec, SACNaoCresce

=============================================================================
