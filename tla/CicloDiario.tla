----------------------------- MODULE CicloDiario -----------------------------
(***************************************************************************)
(* The rules of CicloCartao over time: a card is configured once and the   *)
(* days go by.  "emAberto" is the invoice that would receive a purchase    *)
(* made today, which is how the service finds the open invoice (resumo,    *)
(* line 165), and "fechadas" are the invoices that stopped receiving.      *)
(***************************************************************************)
EXTENDS CicloCartao, FiniteSets

CONSTANTS Fechamentos, Vencimentos,  \* the configured days
          PrimeiroMes, UltimoMes,    \* bound: the months that go by
          Fuso                       \* hour of UTC at the midnight of the application

ASSUME DiasAssumption == Fechamentos \subseteq Dia /\ Vencimentos \subseteq Dia
ASSUME MesesAssumption == PrimeiroMes \in Int /\ UltimoMes \in Int
\* West of Greenwich, as America/Sao_Paulo, the default of the configuration.
ASSUME FusoAssumption == Fuso \in 1 .. 12

VARIABLES cartao, hoje, emAberto, fechadas
vars == <<cartao, hoje, emAberto, fechadas>>

Init ==
  /\ cartao \in [diaFechamento : Fechamentos, diaVencimento : Vencimentos]
  /\ hoje = [mes |-> PrimeiroMes, dia |-> 1]
  /\ emAberto = FaturaDaCompra(cartao, hoje)
  /\ fechadas = {}

\* Midnight: the clock moves to the next day.
PassaODia ==
  /\ hoje.mes <= UltimoMes
  /\ hoje' = DiaSeguinte(hoje)
  /\ emAberto' = FaturaDaCompra(cartao, hoje')
  /\ fechadas' = IF emAberto' = emAberto THEN fechadas
                                        ELSE fechadas \cup {emAberto}
  /\ UNCHANGED cartao

\* The horizon of the check: the clock of the model stops after UltimoMes.
FimDoHorizonte == hoje.mes > UltimoMes /\ UNCHANGED vars

Next == PassaODia \/ FimDoHorizonte
Spec == Init /\ [][Next]_vars

\* The status of an invoice not paid yet, today.  Its page computes the due date
\* (vencimentoDe), and with it the end of the cycle, in the zone of the
\* application; the summaries take the one the database returns, in UTC.
StatusNaPagina(fatura) ==
  DefinirStatus(1, 0, Instante(hoje, Fuso), Instante(FimDoCiclo(cartao, fatura), Fuso))
StatusNoResumo(fatura) ==
  DefinirStatus(1, 0, Instante(hoje, Fuso), Instante(FimDoCiclo(cartao, fatura), 0))

-------------------------------------------------------------------------------
\* Type correctness: dates that exist in the calendar.
TypeOK ==
  /\ cartao \in [diaFechamento : Dia, diaVencimento : Dia]
  /\ hoje \in Data
  /\ emAberto \in Data
  /\ \A f \in fechadas : f \in Data

\* A purchase of any day lies in the cycle the application displays for the
\* invoice it falls in: no day is outside a cycle (InicioDoCiclo, FimDoCiclo).
CompraDentroDoCiclo ==
  /\ AteADataDe(InicioDoCiclo(cartao, emAberto), hoje)
  /\ AteADataDe(hoje, FimDoCiclo(cartao, emAberto))

\* The open invoice only changes on the morning after a closing day, and it
\* then is the one due in the next month (FaturaDaCompra, MelhorDiaCompra).
AberturaDeFaturas ==
  [][emAberto' # emAberto =>
        /\ hoje = FimDoCiclo(cartao, emAberto)
        /\ hoje' = MelhorDiaCompra(cartao, hoje)
        /\ hoje' = InicioDoCiclo(cartao, emAberto')
        /\ emAberto'.mes = emAberto.mes + 1]_vars

\* No invoice falls due before it closes, and the one in which today's purchase
\* falls is the one its competence names (vencimentoDe of the service).
VencimentoDepoisDoFechamento ==
  /\ AteADataDe(FimDoCiclo(cartao, emAberto), emAberto)
  /\ VencimentoDe(cartao, emAberto.mes) = emAberto
  /\ VencimentoDoFechamento(cartao, FimDoCiclo(cartao, emAberto)) = emAberto

\* No month goes without an invoice: those that closed follow each other month
\* by month, up to the open one.
UmaFaturaPorMes ==
  \A f \in fechadas :
     \E g \in fechadas \cup {emAberto} : g.mes = f.mes + 1

\* The page of an invoice says "aberta" exactly while purchases of the day fall
\* in it, through the closing day, and "fechada" from the next morning on
\* (FaturaAberta "ainda acumula compras").
StatusAcompanhaOCiclo ==
  /\ StatusNaPagina(emAberto) = "aberta"
  /\ \A f \in fechadas : StatusNaPagina(f) = "fechada"

\* The summaries of the cards, too, show as "aberta" the invoice in which the
\* purchases of the day fall (comment of FaturaAberta: "ainda acumula compras").
ResumoAcompanhaOCiclo == StatusNoResumo(emAberto) = "aberta"

\* What they do show: as the page, on every day but one; on the closing day,
\* while its purchases still fall in the invoice, "fechada".
ResumoFechaUmDiaAntes ==
  \A f \in fechadas \cup {emAberto} :
    StatusNoResumo(f) = IF hoje = FimDoCiclo(cartao, f) THEN "fechada"
                        ELSE StatusNaPagina(f)

\* Every instalment of a purchase made today falls in the invoice of the card in
\* its month (RegistrarCompra: "Parcelada, cai em faturas consecutivas"), whatever
\* their number and the day.
ParcelasEmFaturasDoCartao ==
  \A i \in 1 .. 36 :
     LET v == VencimentoDaParcela(cartao, hoje, i)
     IN v = VencimentoDe(cartao, v.mes)

\* That much is so when every month has the due day: the instalments are months
\* added to the first due date (NewCompraCartao), and nothing was clamped in it.
ParcelasAteDia28 == cartao.diaVencimento <= 28 => ParcelasEmFaturasDoCartao

===============================================================================
