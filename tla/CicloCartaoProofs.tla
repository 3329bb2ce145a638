-------------------------- MODULE CicloCartaoProofs --------------------------
(***************************************************************************)
(* Facts about the billing cycle, for every card and every date.  The      *)
(* calendar enters only through UltimoDiaFaixa: nothing else depends on    *)
(* how many days each month has, as long as it has at least 28.            *)
(***************************************************************************)
EXTENDS CicloCartao, TLAPS

\* Every month has from 28 to 31 days.
LEMMA UltimoDiaFaixa ==
  ASSUME NEW m \in Int
  PROVE  UltimoDia(m) \in 28 .. 31
  BY DEF UltimoDia

\* The requested day of a month, adjusted to short months, is a date of it.
LEMMA DiaNoMesData ==
  ASSUME NEW m \in Int, NEW d \in Dia
  PROVE  /\ DiaNoMes(m, d) \in Data
         /\ DiaNoMes(m, d).mes = m
         /\ DiaNoMes(m, d).dia <= d
         /\ d <= 28 => DiaNoMes(m, d).dia = d
  BY UltimoDiaFaixa DEF DiaNoMes, Menor, Data, Dia

\* The months of the two dates of an invoice.
LEMMA MesesDoCiclo ==
  ASSUME NEW c, c.diaFechamento \in Dia, c.diaVencimento \in Dia, NEW f \in Data
  PROVE  /\ MesesAteVencer(c) \in 0 .. 1
         /\ VencimentoDoFechamento(c, f) \in Data
         /\ VencimentoDoFechamento(c, f).mes = f.mes + MesesAteVencer(c)
         /\ FimDoCiclo(c, f) \in Data
         /\ FimDoCiclo(c, f).mes = f.mes - MesesAteVencer(c)
  <1>1. MesesAteVencer(c) \in 0 .. 1  BY DEF MesesAteVencer
  <1>2. f.mes \in Int  BY DEF Data
  <1> QED  BY <1>1, <1>2, DiaNoMesData
           DEF VencimentoDoFechamento, FimDoCiclo, FechamentoDoMes

\* FimDoCiclo is the exact inverse of VencimentoDoFechamento (comment of
\* FimDoCiclo): from the due date one gets back the closing it came from.
THEOREM FimDoCicloInverso ==
  ASSUME NEW c, c.diaFechamento \in Dia, c.diaVencimento \in Dia, NEW m \in Int
  PROVE  LET f == FechamentoDoMes(c, m)
         IN FimDoCiclo(c, VencimentoDoFechamento(c, f)) = f
  <1> DEFINE f == FechamentoDoMes(c, m)
  <1>1. f \in Data /\ f.mes = m  BY DiaNoMesData DEF FechamentoDoMes
  <1>2. VencimentoDoFechamento(c, f).mes = m + MesesAteVencer(c)
        /\ MesesAteVencer(c) \in 0 .. 1
    BY <1>1, MesesDoCiclo
  <1> QED  BY <1>2 DEF FimDoCiclo

\* Two closings never share an invoice (the 961 combinations of the tests, for
\* all months): the due date determines the month of the closing.
THEOREM VencimentoInjetivo ==
  ASSUME NEW c, c.diaFechamento \in Dia, c.diaVencimento \in Dia,
         NEW m \in Int, NEW n \in Int,
         VencimentoDoFechamento(c, FechamentoDoMes(c, m))
           = VencimentoDoFechamento(c, FechamentoDoMes(c, n))
  PROVE  m = n
  <1>1. FechamentoDoMes(c, m).mes = m /\ FechamentoDoMes(c, n).mes = n
    BY DiaNoMesData DEF FechamentoDoMes
  <1> QED  BY <1>1, FimDoCicloInverso

\* The invoice a purchase falls in: a date, and the due date of its month.
LEMMA FaturaDaCompraData ==
  ASSUME NEW c, c.diaFechamento \in Dia, c.diaVencimento \in Dia, NEW t \in Data
  PROVE  /\ FaturaDaCompra(c, t) \in Data
         /\ VencimentoDe(c, FaturaDaCompra(c, t).mes) = FaturaDaCompra(c, t)
  <1>1. t.mes \in Int /\ t.mes + 1 \in Int  BY DEF Data
  <1> DEFINE f == IF Antes(FechamentoDoMes(c, t.mes), t)
                    THEN FechamentoDoMes(c, t.mes + 1)
                    ELSE FechamentoDoMes(c, t.mes)
  <1>2. f \in Data  BY <1>1, DiaNoMesData DEF FechamentoDoMes
  <1>3. FaturaDaCompra(c, t) = VencimentoDoFechamento(c, f)  BY DEF FaturaDaCompra
  <1>4. f.mes + MesesAteVencer(c) \in Int  BY <1>2, MesesDoCiclo DEF Data
  <1> HIDE DEF f
  <1> QED  BY <1>2, <1>3, <1>4, DiaNoMesData, MesesDoCiclo
           DEF VencimentoDoFechamento, VencimentoDe

\* A purchase falls in the invoice of the first closing that is not before it.
LEMMA FechamentoDaCompra ==
  ASSUME NEW c, c.diaFechamento \in Dia, c.diaVencimento \in Dia, NEW t \in Data
  PROVE  LET f == FimDoCiclo(c, FaturaDaCompra(c, t))
         IN \/ /\ ~ Antes(FechamentoDoMes(c, t.mes), t)
               /\ f = FechamentoDoMes(c, t.mes)
            \/ /\ Antes(FechamentoDoMes(c, t.mes), t)
               /\ f = FechamentoDoMes(c, t.mes + 1)
  <1>1. t.mes \in Int /\ t.mes + 1 \in Int  BY DEF Data
  <1> QED  BY <1>1, FimDoCicloInverso DEF FaturaDaCompra

\* A purchase of any day is made within the cycle shown for its invoice.
THEOREM CompraNoCiclo ==
  ASSUME NEW c, c.diaFechamento \in Dia, c.diaVencimento \in Dia, NEW t \in Data
  PROVE  /\ AteADataDe(InicioDoCiclo(c, FaturaDaCompra(c, t)), t)
         /\ AteADataDe(t, FimDoCiclo(c, FaturaDaCompra(c, t)))
  <1> DEFINE F(m) == FechamentoDoMes(c, m)
             f == FimDoCiclo(c, FaturaDaCompra(c, t))
  <1>1. t.mes \in Int /\ t.dia \in Dia /\ t.dia <= UltimoDia(t.mes)
        /\ t = [mes |-> t.mes, dia |-> t.dia]
    BY DEF Data, Dia
  <1>2. \A m \in Int : F(m) = [mes |-> m, dia |-> F(m).dia] /\ F(m).dia \in Dia
                        /\ F(m).dia <= UltimoDia(m)
                        /\ (F(m).dia = UltimoDia(m) \/ F(m).dia = c.diaFechamento)
    BY UltimoDiaFaixa DEF FechamentoDoMes, DiaNoMes, Menor, Dia
  <1>3. \A m \in Int : UltimoDia(m) \in 28 .. 31  BY UltimoDiaFaixa
  <1>4. InicioDoCiclo(c, FaturaDaCompra(c, t)) = DiaSeguinte(F(f.mes - 1))
    BY DEF InicioDoCiclo
  <1>5. CASE ~ Antes(F(t.mes), t)
    <2>1. f = F(t.mes)  BY <1>5, FechamentoDaCompra
    <2>2. AteADataDe(t, f)  BY <1>1, <1>2, <1>5, <2>1 DEF AteADataDe, Antes, Dia
    <2>3. f.mes - 1 = t.mes - 1 /\ t.mes - 1 \in Int  BY <1>1, <1>2, <2>1
    <2>4. AteADataDe(DiaSeguinte(F(t.mes - 1)), t)
      BY <1>1, <1>2, <1>3, <2>3 DEF DiaSeguinte, AteADataDe, Antes, Dia
    <2> QED  BY <1>4, <2>2, <2>3, <2>4
  <1>6. CASE Antes(F(t.mes), t)
    <2>1. f = F(t.mes + 1) /\ t.mes + 1 \in Int  BY <1>1, <1>6, FechamentoDaCompra
    <2>2. AteADataDe(t, f)  BY <1>1, <1>2, <2>1 DEF AteADataDe, Antes
    <2>3. f.mes - 1 = t.mes  BY <1>1, <1>2, <2>1
    <2>4. AteADataDe(DiaSeguinte(F(t.mes)), t)
      BY <1>1, <1>2, <1>3, <1>6 DEF DiaSeguinte, AteADataDe, Antes, Dia
    <2> QED  BY <1>4, <2>2, <2>3, <2>4
  <1> QED  BY <1>5, <1>6

\* No invoice falls due before it closes.
THEOREM VenceDepoisDeFechar ==
  ASSUME NEW c, c.diaFechamento \in Dia, c.diaVencimento \in Dia, NEW m \in Int
  PROVE  AteADataDe(FechamentoDoMes(c, m),
                    VencimentoDoFechamento(c, FechamentoDoMes(c, m)))
  <1>1. UltimoDia(m) \in 28 .. 31  BY UltimoDiaFaixa
  <1> QED  BY <1>1 DEF FechamentoDoMes, VencimentoDoFechamento, DiaNoMes, Menor,
                      MesesAteVencer, AteADataDe, Antes, Dia

\* With a due day up to the 28th every instalment falls due on the card's due
\* date of its month, so it is in an invoice that vencimentoDe reaches.  The
\* bound is needed: due on the 31st, an instalment may start from a 30th.
THEOREM ParcelaNaFaturaDoCartao ==
  ASSUME NEW c, c.diaFechamento \in Dia, c.diaVencimento \in 1 .. 28,
         NEW t \in Data, NEW i \in Nat
  PROVE  /\ VencimentoDaParcela(c, t, i) \in Data
         /\ VencimentoDaParcela(c, t, i).mes = FaturaDaCompra(c, t).mes + i - 1
         /\ VencimentoDe(c, VencimentoDaParcela(c, t, i).mes)
              = VencimentoDaParcela(c, t, i)
  <1> DEFINE f == FaturaDaCompra(c, t)
  <1>1. c.diaVencimento \in Dia  BY DEF Dia
  <1>2. f \in Data /\ f = DiaNoMes(f.mes, c.diaVencimento)
    BY <1>1, FaturaDaCompraData DEF VencimentoDe
  <1>3. f.mes \in Int /\ f.mes + (i - 1) \in Int  BY <1>2 DEF Data
  <1>4. f.dia = c.diaVencimento  BY <1>1, <1>2, <1>3, DiaNoMesData
  <1>5. VencimentoDaParcela(c, t, i) = DiaNoMes(f.mes + (i - 1), c.diaVencimento)
    BY <1>4 DEF VencimentoDaParcela, AddMonthsClamped
  <1>6. f.mes + (i - 1) = f.mes + i - 1  BY <1>3
  <1> QED  BY <1>1, <1>3, <1>5, <1>6, DiaNoMesData DEF VencimentoDe

\* The instalments are worth at least a cent each, and together exactly the
\* purchase: the cents left over go in the first.
THEOREM SomaDasParcelas ==
  ASSUME NEW valor \in Nat, NEW n \in Nat, CompraValida(valor, n)
  PROVE  /\ \A i \in 1 .. n : ValorDaParcela(valor, n, i) \in Nat \ {0}
         /\ ValorDaParcela(valor, n, 1) + (n - 1) * PorParcela(valor, n) = valor
         /\ \A i \in 2 .. n : ValorDaParcela(valor, n, i) = PorParcela(valor, n)
  <1>1. n \in 1 .. 36 /\ valor >= n  BY DEF CompraValida
  <1> DEFINE q == valor \div n
             s == valor % n
  <1>2. q \in Nat /\ s \in 0 .. n - 1 /\ valor = n * q + s  BY <1>1
  <1>3. q >= 1  BY <1>1, <1>2
  <1>4. Residuo(valor, n) = s /\ PorParcela(valor, n) = q
    BY <1>1, <1>2 DEF Residuo, PorParcela
  <1>5. ValorDaParcela(valor, n, 1) = q + s
        /\ \A i \in 2 .. n : ValorDaParcela(valor, n, i) = q
    BY <1>1, <1>2, <1>4 DEF ValorDaParcela
  <1>6. q + s + (n - 1) * q = valor  BY <1>1, <1>2
  <1> HIDE DEF q, s
  <1> QED  BY <1>1, <1>2, <1>3, <1>4, <1>5, <1>6

===============================================================================
