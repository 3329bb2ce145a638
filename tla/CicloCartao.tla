----------------------------- MODULE CicloCartao -----------------------------
(***************************************************************************)
(* The billing cycle of a credit card (core/domain/cartao.go) and the way  *)
(* a purchase is split into the invoices of consecutive months             *)
(* (NewCompraCartao in core/domain/fatura.go).  Pure functions of a card   *)
(* c with the configured days c.diaFechamento and c.diaVencimento.  An     *)
(* invoice ("fatura") is not stored: it is identified by its due date.     *)
(***************************************************************************)
EXTENDS Calendario

Dia == 1 .. 31

FechamentoDoMes(c, mes) == DiaNoMes(mes, c.diaFechamento)

\* A fixed offset, decided once by the configured days and not month by month.
MesesAteVencer(c) == IF c.diaVencimento > c.diaFechamento THEN 0 ELSE 1

VencimentoDoFechamento(c, fechamento) ==
  DiaNoMes(fechamento.mes + MesesAteVencer(c), c.diaVencimento)

\* Mutants of FaturaDaCompra: a purchase on the closing day counted as late, and
\* the comparison swapped.
FaturaSemODiaDoFechamento(c, dataCompra) ==
  LET doMes == FechamentoDoMes(c, dataCompra.mes)
  IN VencimentoDoFechamento(c, IF AteADataDe(doMes, dataCompra)
                                 THEN FechamentoDoMes(c, dataCompra.mes + 1)
                                 ELSE doMes)
FaturaComparacaoTrocada(c, dataCompra) ==
  LET doMes == FechamentoDoMes(c, dataCompra.mes)
  IN VencimentoDoFechamento(c, IF Antes(dataCompra, doMes)
                                 THEN FechamentoDoMes(c, dataCompra.mes + 1)
                                 ELSE doMes)

FaturaDaCompra(c, dataCompra) ==
  LET doMes == FechamentoDoMes(c, dataCompra.mes)
      fechamento == IF Antes(doMes, dataCompra)
                      THEN FechamentoDoMes(c, dataCompra.mes + 1)
                      ELSE doMes
  IN VencimentoDoFechamento(c, fechamento)

\* Mutant of MelhorDiaCompra: the closing day itself.
MelhorDiaNoFechamento(c, ref) == FechamentoDoMes(c, ref.mes)

MelhorDiaCompra(c, ref) == DiaSeguinte(FechamentoDoMes(c, ref.mes))

\* Mutant of FimDoCiclo: the months are not walked back.
FimNoMesDoVencimento(c, vencimento) == FechamentoDoMes(c, vencimento.mes)

FimDoCiclo(c, vencimento) ==
  FechamentoDoMes(c, vencimento.mes - MesesAteVencer(c))

InicioDoCiclo(c, vencimento) ==
  DiaSeguinte(FechamentoDoMes(c, FimDoCiclo(c, vencimento).mes - 1))

\* vencimentoDe of the service: the due date an API reference "2026-10" stands
\* for, computed from the day configured in the card NOW.
VencimentoDe(c, competencia) == DiaNoMes(competencia, c.diaVencimento)

-------------------------------------------------------------------------------
(* The status of an invoice (definirStatus). *)

Quitada(total, pago) == pago > 0 /\ pago >= total
Restante(total, pago) == IF total > pago THEN total - pago ELSE 0

\* The midnight of a date is an instant, whose hour is that of UTC: 0 for what
\* the database returns, and the offset of the application for what it computes.
Instante(data, hora) == [data |-> data, hora |-> hora]
DepoisDe(a, b) ==
  Antes(b.data, a.data) \/ (a.data = b.data /\ a.hora > b.hora)

\* Mutant of DefinirStatus: the closing day itself is closed.
StatusSemODia(total, pago, hoje, fimCiclo) ==
  IF Quitada(total, pago) THEN "paga"
  ELSE IF pago > 0 THEN "parcial"
  ELSE IF DepoisDe(fimCiclo, hoje) THEN "aberta"
  ELSE "fechada"

DefinirStatus(total, pago, hoje, fimCiclo) ==
  IF Quitada(total, pago) THEN "paga"
  ELSE IF pago > 0 THEN "parcial"
  ELSE IF ~ DepoisDe(hoje, fimCiclo) THEN "aberta"
  ELSE "fechada"

-------------------------------------------------------------------------------
(* The instalments of a purchase. *)

PorParcela(valor, n) == valor \div n
Residuo(valor, n) == valor - PorParcela(valor, n) * n

\* NewCompraCartao accepts the purchase: at least one cent per instalment.
CompraValida(valor, n) == n \in 1 .. 36 /\ valor > 0 /\ valor >= n

\* One row per instalment: the cents left over go in the first, and the i-th
\* falls due i - 1 months after the first.
ValorDaParcela(valor, n, i) ==
  PorParcela(valor, n) + (IF i = 1 THEN Residuo(valor, n) ELSE 0)
\* Mutant of VencimentoDaParcela: months counted from the purchase.
ParcelaDesdeACompra(c, dataCompra, i) == AddMonthsClamped(dataCompra, i - 1)
VencimentoDaParcela(c, dataCompra, i) ==
  AddMonthsClamped(FaturaDaCompra(c, dataCompra), i - 1)

===============================================================================
