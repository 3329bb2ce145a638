-------------------------- MODULE CicloDiarioProofs --------------------------
(***************************************************************************)
(* The properties of CicloDiario, for every pair of configured days and    *)
(* every horizon.  The inductive invariant adds to TypeOK that emAberto is *)
(* what FaturaDaCompra computes for today, and that the months of the      *)
(* closed invoices lie before that of the open one.                        *)
(***************************************************************************)
EXTENDS CicloDiario, CicloCartaoProofs

\* Days of the calendar follow days of the calendar.
LEMMA DiaSeguinteData ==
  ASSUME NEW t \in Data
  PROVE  DiaSeguinte(t) \in Data
  <1>1. t.mes \in Int /\ t.dia \in 1 .. 31 /\ t = [mes |-> t.mes, dia |-> t.dia]
    BY DEF Data
  <1>2. UltimoDia(t.mes) \in 28 .. 31 /\ UltimoDia(t.mes + 1) \in 28 .. 31
    BY <1>1, UltimoDiaFaixa
  <1>3. CASE t.dia < UltimoDia(t.mes)
    <2>1. DiaSeguinte(t) = [mes |-> t.mes, dia |-> t.dia + 1]
      BY <1>1, <1>3 DEF DiaSeguinte
    <2> QED  BY <1>1, <1>2, <1>3, <2>1 DEF Data
  <1>4. CASE ~ (t.dia < UltimoDia(t.mes))
    <2>1. DiaSeguinte(t) = [mes |-> t.mes + 1, dia |-> 1]  BY <1>4 DEF DiaSeguinte
    <2> QED  BY <1>1, <1>2, <2>1 DEF Data
  <1> QED  BY <1>3, <1>4

\* From one day to the next the invoice of the purchases stays the same, except
\* on the day of a closing, after which it is the one of the next month.
LEMMA ViradaDoDia ==
  ASSUME NEW c, c.diaFechamento \in Dia, c.diaVencimento \in Dia, NEW t \in Data
  PROVE  LET e == FaturaDaCompra(c, t)
             n == FaturaDaCompra(c, DiaSeguinte(t))
         IN \/ n = e
            \/ /\ t = FimDoCiclo(c, e)
               /\ DiaSeguinte(t) = MelhorDiaCompra(c, t)
               /\ DiaSeguinte(t) = InicioDoCiclo(c, n)
               /\ n.mes = e.mes + 1
  <1> DEFINE F(m) == FechamentoDoMes(c, m)
             u == DiaSeguinte(t)
             e == FaturaDaCompra(c, t)
             n == FaturaDaCompra(c, u)
  <1>1. t.mes \in Int /\ t.dia \in Dia /\ t.dia <= UltimoDia(t.mes)
        /\ t = [mes |-> t.mes, dia |-> t.dia]
    BY DEF Data, Dia
  <1>2. \A m \in Int : /\ F(m) = [mes |-> m, dia |-> F(m).dia]
                       /\ F(m).dia \in Dia /\ F(m).dia <= UltimoDia(m)
                       /\ F(m) \in Data
    <2>1. \A m \in Int : F(m) \in Data
      BY DiaNoMesData DEF FechamentoDoMes
    <2>2. \A m \in Int : F(m) = [mes |-> m, dia |-> F(m).dia]
      BY DEF FechamentoDoMes, DiaNoMes
    <2> QED  BY <2>1, <2>2 DEF Data, Dia
  <1>3. u \in Data  BY DiaSeguinteData
  <1>4. u = IF t.dia < UltimoDia(t.mes) THEN [mes |-> t.mes, dia |-> t.dia + 1]
                                        ELSE [mes |-> t.mes + 1, dia |-> 1]
    BY <1>1 DEF DiaSeguinte
  <1>5. CASE t = F(t.mes)
    <2>1. e = VencimentoDoFechamento(c, F(t.mes)) /\ FimDoCiclo(c, e) = F(t.mes)
      <3>1. ~ Antes(F(t.mes), t)  BY <1>1, <1>5 DEF Antes, Dia
      <3> QED  BY <1>1, <3>1, FechamentoDaCompra DEF FaturaDaCompra
    <2>2. n = VencimentoDoFechamento(c, F(t.mes + 1)) /\ FimDoCiclo(c, n) = F(t.mes + 1)
      <3>1. \/ u.mes = t.mes /\ Antes(F(u.mes), u)
            \/ u.mes = t.mes + 1 /\ ~ Antes(F(u.mes), u)
        BY <1>1, <1>2, <1>4, <1>5 DEF Antes, Dia
      <3> QED  BY <1>3, <3>1, FechamentoDaCompra DEF FaturaDaCompra
    <2>3. u = MelhorDiaCompra(c, t)  BY <1>5 DEF MelhorDiaCompra
    <2>4. u = InicioDoCiclo(c, n)
      <3>1. F(t.mes + 1).mes - 1 = t.mes  BY <1>1, <1>2
      <3> QED  BY <1>5, <2>2, <3>1 DEF InicioDoCiclo
    <2>5. n.mes = e.mes + 1
      <3>1. /\ F(t.mes) \in Data /\ F(t.mes).mes = t.mes
            /\ F(t.mes + 1) \in Data /\ F(t.mes + 1).mes = t.mes + 1
        BY <1>1, <1>2
      <3>2. e.mes = t.mes + MesesAteVencer(c)
            /\ n.mes = t.mes + 1 + MesesAteVencer(c) /\ MesesAteVencer(c) \in Int
        BY <2>1, <2>2, <3>1, MesesDoCiclo
      <3> QED  BY <1>1, <3>2
    <2> QED  BY <1>5, <2>1, <2>3, <2>4, <2>5
  <1>6. CASE t # F(t.mes)
    <2>1. F(t.mes).dia # t.dia  BY <1>1, <1>2, <1>6
    <2>2. CASE Antes(F(t.mes), t)
      <3>1. \/ u.mes = t.mes /\ Antes(F(u.mes), u)
            \/ u.mes = t.mes + 1 /\ ~ Antes(F(u.mes), u)
        BY <1>1, <1>2, <1>4, <2>2 DEF Antes, Dia
      <3> QED  BY <2>2, <3>1 DEF FaturaDaCompra
    <2>3. CASE ~ Antes(F(t.mes), t)
      <3>1. F(t.mes).mes = t.mes /\ F(t.mes).dia \in 1 .. 31
            /\ F(t.mes).dia <= UltimoDia(t.mes)
        BY <1>1, <1>2 DEF Dia
      <3>2. t.dia < F(t.mes).dia  BY <1>1, <2>1, <2>3, <3>1 DEF Antes, Dia
      <3>3. UltimoDia(t.mes) \in Int  BY <1>1, UltimoDiaFaixa
      <3>4. u = [mes |-> t.mes, dia |-> t.dia + 1]
        BY <1>1, <1>4, <3>1, <3>2, <3>3 DEF Dia
      <3>5. u.mes = t.mes /\ ~ Antes(F(u.mes), u)
        BY <1>1, <3>1, <3>2, <3>4 DEF Antes, Dia
      <3> QED  BY <2>3, <3>5 DEF FaturaDaCompra
    <2> QED  BY <2>2, <2>3
  <1> QED  BY <1>5, <1>6

-------------------------------------------------------------------------------
IInv ==
  /\ TypeOK
  /\ emAberto = FaturaDaCompra(cartao, hoje)
  /\ \A f \in fechadas : f.mes < emAberto.mes
  /\ UmaFaturaPorMes

LEMMA InitIInv == Init => IInv
  <1> SUFFICES ASSUME Init PROVE IInv  OBVIOUS
  <1>1. cartao \in [diaFechamento : Dia, diaVencimento : Dia]
    BY DiasAssumption DEF Init
  <1>2. hoje \in Data
    <2>1. UltimoDia(PrimeiroMes) \in 28 .. 31  BY MesesAssumption, UltimoDiaFaixa
    <2> QED  BY <2>1, MesesAssumption DEF Init, Data
  <1>3. emAberto = FaturaDaCompra(cartao, hoje) /\ fechadas = {}  BY DEF Init
  <1>4. emAberto \in Data  BY <1>1, <1>2, <1>3, FaturaDaCompraData
  <1> QED  BY <1>1, <1>2, <1>3, <1>4 DEF IInv, TypeOK, UmaFaturaPorMes

LEMMA PassoIInv == IInv /\ [Next]_vars => IInv'
  <1> SUFFICES ASSUME IInv, [Next]_vars PROVE IInv'  OBVIOUS
  <1>1. CASE PassaODia
    <2>1. cartao' = cartao /\ hoje' = DiaSeguinte(hoje)
          /\ emAberto' = FaturaDaCompra(cartao, hoje')
      BY <1>1 DEF PassaODia
    <2>2. /\ cartao \in [diaFechamento : Dia, diaVencimento : Dia]
          /\ cartao.diaFechamento \in Dia /\ cartao.diaVencimento \in Dia
          /\ hoje \in Data /\ emAberto \in Data
      BY DEF IInv, TypeOK
    <2>3. hoje' \in Data  BY <2>1, <2>2, DiaSeguinteData
    <2>4. emAberto' \in Data  BY <2>1, <2>2, <2>3, FaturaDaCompraData
    <2>5. emAberto' = emAberto \/ emAberto'.mes = emAberto.mes + 1
      BY <2>1, <2>2, ViradaDoDia DEF IInv
    <2>6. fechadas' = IF emAberto' = emAberto THEN fechadas ELSE fechadas \cup {emAberto}
      BY <1>1 DEF PassaODia
    <2>7. TypeOK'  BY <2>1, <2>2, <2>3, <2>4, <2>6 DEF IInv, TypeOK
    <2>8. \A f \in fechadas' : f.mes < emAberto'.mes
      BY <2>2, <2>5, <2>6 DEF IInv, TypeOK, Data
    <2>9. UmaFaturaPorMes'
      BY <2>5, <2>6 DEF IInv, UmaFaturaPorMes
    <2> QED  BY <2>1, <2>7, <2>8, <2>9 DEF IInv
  <1>2. CASE UNCHANGED vars
    BY <1>2 DEF vars, IInv, TypeOK, UmaFaturaPorMes
  <1> QED  BY <1>1, <1>2 DEF Next, FimDoHorizonte

\* The inductive invariant of the passing days.
THEOREM Invariante == Spec => []IInv
  <1> QED  BY InitIInv, PassoIInv, PTL DEF Spec

\* All the dates of the cycle are dates of the calendar.
THEOREM TiposCorretos == Spec => []TypeOK
  <1>1. IInv => TypeOK  BY DEF IInv
  <1> QED  BY <1>1, Invariante, PTL

\* Every purchase is made within the cycle of its invoice, whatever the card's
\* days and however far the calendar goes.
THEOREM DentroDoCiclo == Spec => []CompraDentroDoCiclo
  <1>1. IInv => CompraDentroDoCiclo
    BY CompraNoCiclo DEF IInv, TypeOK, CompraDentroDoCiclo
  <1> QED  BY <1>1, Invariante, PTL

\* An invoice falls due on or after its closing, on the date its competence
\* stands for, and the closing leads back to it.
THEOREM DepoisDoFechamento == Spec => []VencimentoDepoisDoFechamento
  <1>1. IInv => VencimentoDepoisDoFechamento
    <2> SUFFICES ASSUME IInv PROVE VencimentoDepoisDoFechamento  OBVIOUS
    <2>1. /\ cartao.diaFechamento \in Dia /\ cartao.diaVencimento \in Dia
          /\ hoje \in Data /\ hoje.mes \in Int /\ hoje.mes + 1 \in Int
          /\ emAberto = FaturaDaCompra(cartao, hoje)
      BY DEF IInv, TypeOK, Data
    <2>2. PICK m \in Int : /\ FimDoCiclo(cartao, emAberto) = FechamentoDoMes(cartao, m)
                           /\ emAberto = VencimentoDoFechamento(cartao, FechamentoDoMes(cartao, m))
      BY <2>1, FechamentoDaCompra DEF FaturaDaCompra
    <2> QED  BY <2>1, <2>2, VenceDepoisDeFechar, FaturaDaCompraData
             DEF VencimentoDepoisDoFechamento
  <1> QED  BY <1>1, Invariante, PTL

\* Every month has its invoice.
THEOREM UmaPorMes == Spec => []UmaFaturaPorMes
  <1>1. IInv => UmaFaturaPorMes  BY DEF IInv
  <1> QED  BY <1>1, Invariante, PTL

\* Today is within the cycle of the open invoice and after those of the others.
LEMMA HojeNoCiclo ==
  ASSUME IInv
  PROVE  /\ ~ Antes(FimDoCiclo(cartao, emAberto), hoje)
         /\ \A f \in fechadas : Antes(FimDoCiclo(cartao, f), hoje)
  <1>1. /\ cartao.diaFechamento \in Dia /\ cartao.diaVencimento \in Dia
        /\ hoje \in Data /\ emAberto \in Data
        /\ emAberto = FaturaDaCompra(cartao, hoje)
        /\ \A f \in fechadas : f \in Data /\ f.mes < emAberto.mes
    BY DEF IInv, TypeOK
  <1> DEFINE n == MesesAteVencer(cartao)
             fim == FimDoCiclo(cartao, emAberto)
             anterior == FechamentoDoMes(cartao, fim.mes - 1)
  <1>2. n \in 0 .. 1 /\ fim \in Data /\ fim.mes = emAberto.mes - n
    BY <1>1, MesesDoCiclo
  <1>3. AteADataDe(DiaSeguinte(anterior), hoje) /\ AteADataDe(hoje, fim)
    BY <1>1, CompraNoCiclo DEF InicioDoCiclo
  <1>4. hoje.mes \in Int /\ hoje.dia \in Int /\ fim.mes \in Int /\ fim.dia \in Int
    BY <1>1, <1>2 DEF Data
  <1>5. ~ Antes(fim, hoje)
    BY <1>3, <1>4 DEF AteADataDe, Antes
  <1>6. ASSUME NEW f \in fechadas PROVE Antes(FimDoCiclo(cartao, f), hoje)
    <2>1. /\ FimDoCiclo(cartao, f) \in Data
          /\ FimDoCiclo(cartao, f) = FechamentoDoMes(cartao, f.mes - n)
          /\ f.mes \in Int /\ emAberto.mes \in Int /\ f.mes < emAberto.mes
          /\ FimDoCiclo(cartao, f).mes = f.mes - n
      BY <1>1, MesesDoCiclo DEF FimDoCiclo, Data
    <2>2. anterior \in Data /\ anterior.mes = fim.mes - 1
      BY <1>1, <1>4, DiaNoMesData DEF FechamentoDoMes
    <2>3. \/ FimDoCiclo(cartao, f).mes < anterior.mes
          \/ FimDoCiclo(cartao, f) = anterior
      BY <1>2, <2>1, <2>2
    <2>4. /\ DiaSeguinte(anterior).mes \in Int /\ DiaSeguinte(anterior).dia \in Int
          /\ Antes(anterior, DiaSeguinte(anterior))
      <3>1. anterior.mes \in Int /\ anterior.dia \in 1 .. 31  BY <2>2 DEF Data
      <3> HIDE DEF anterior
      <3> QED  BY <3>1 DEF DiaSeguinte, Antes
    <2>5. /\ FimDoCiclo(cartao, f).mes \in Int /\ FimDoCiclo(cartao, f).dia \in Int
          /\ anterior.mes \in Int /\ anterior.dia \in Int
      BY <2>1, <2>2 DEF Data
    <2> HIDE DEF anterior
    <2> QED  BY <1>3, <1>4, <2>3, <2>4, <2>5 DEF Antes, AteADataDe
  <1> QED  BY <1>5, <1>6

\* The page of an invoice follows its cycle: open through the closing day,
\* closed from the next morning on.
THEOREM StatusDaPagina == Spec => []StatusAcompanhaOCiclo
  <1>1. IInv => StatusAcompanhaOCiclo
    <2> SUFFICES ASSUME IInv PROVE StatusAcompanhaOCiclo  OBVIOUS
    <2>1. \A f : StatusNaPagina(f) = IF Antes(FimDoCiclo(cartao, f), hoje)
                                     THEN "fechada" ELSE "aberta"
      BY FusoAssumption
         DEF StatusNaPagina, DefinirStatus, Quitada, DepoisDe, Instante
    <2> QED  BY <2>1, HojeNoCiclo DEF StatusAcompanhaOCiclo
  <1> QED  BY <1>1, Invariante, PTL

\* The summaries differ from the pages on the closing day and only then, in any
\* zone west of Greenwich.
THEOREM StatusDoResumo == Spec => []ResumoFechaUmDiaAntes
  <1>1. ASSUME NEW f
        PROVE  StatusNoResumo(f) = IF hoje = FimDoCiclo(cartao, f) THEN "fechada"
                                   ELSE StatusNaPagina(f)
    <2>1. Fuso > 0 /\ ~ (Fuso > Fuso)  BY FusoAssumption
    <2>2. StatusNaPagina(f) = IF Antes(FimDoCiclo(cartao, f), hoje)
                              THEN "fechada" ELSE "aberta"
      BY <2>1 DEF StatusNaPagina, DefinirStatus, Quitada, DepoisDe, Instante
    <2>3. StatusNoResumo(f) = IF \/ Antes(FimDoCiclo(cartao, f), hoje)
                                 \/ hoje = FimDoCiclo(cartao, f)
                              THEN "fechada" ELSE "aberta"
      BY <2>1 DEF StatusNoResumo, DefinirStatus, Quitada, DepoisDe, Instante
    <2> QED  BY <2>2, <2>3
  <1>2. ResumoFechaUmDiaAntes  BY <1>1 DEF ResumoFechaUmDiaAntes
  <1> QED  BY <1>2, PTL

\* With a due day up to the 28th, all the instalments of a purchase of any day
\* fall in invoices of the card.
THEOREM ParcelasNasFaturas == Spec => []ParcelasAteDia28
  <1>1. IInv => ParcelasAteDia28
    <2> SUFFICES ASSUME IInv, cartao.diaVencimento <= 28, NEW i \in 1 .. 36
                 PROVE  VencimentoDe(cartao, VencimentoDaParcela(cartao, hoje, i).mes)
                          = VencimentoDaParcela(cartao, hoje, i)
      BY DEF ParcelasAteDia28, ParcelasEmFaturasDoCartao
    <2>1. cartao.diaFechamento \in Dia /\ cartao.diaVencimento \in 1 .. 28 /\ hoje \in Data
      BY DEF IInv, TypeOK, Dia
    <2>2. i \in Nat  OBVIOUS
    <2> QED  BY <2>1, <2>2, ParcelaNaFaturaDoCartao
  <1> QED  BY <1>1, Invariante, PTL

\* The open invoice changes only on the morning after a closing day, for the one
\* of the next month.
THEOREM Abertura == Spec => AberturaDeFaturas
  <1> DEFINE A == emAberto' # emAberto =>
                    /\ hoje = FimDoCiclo(cartao, emAberto)
                    /\ hoje' = MelhorDiaCompra(cartao, hoje)
                    /\ hoje' = InicioDoCiclo(cartao, emAberto')
                    /\ emAberto'.mes = emAberto.mes + 1
  <1>1. IInv /\ [Next]_vars => [A]_vars
    <2> SUFFICES ASSUME IInv, PassaODia PROVE A
      BY DEF Next, FimDoHorizonte, vars
    <2>1. cartao.diaFechamento \in Dia /\ cartao.diaVencimento \in Dia /\ hoje \in Data
          /\ emAberto = FaturaDaCompra(cartao, hoje)
      BY DEF IInv, TypeOK
    <2>2. hoje' = DiaSeguinte(hoje) /\ emAberto' = FaturaDaCompra(cartao, hoje')
      BY DEF PassaODia
    <2> QED  BY <2>1, <2>2, ViradaDoDia
  <1> QED  BY <1>1, Invariante, PTL DEF Spec, AberturaDeFaturas

===============================================================================
