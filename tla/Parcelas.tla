------------------------------- MODULE Parcelas -------------------------------
(***************************************************************************)
(* A parcelamento and its instalments, as parcelamento.go makes them and   *)
(* as the tables parcelamentos and transacoes keep them.                   *)
(*                                                                         *)
(* A month is an integer, and Hoje the current one: an instalment is dated *)
(* one month after the other, and only whether its date has come matters   *)
(* here.  A row is named by the request that wrote it and the number of    *)
(* the instalment, which stands for the uuid the database gives it.        *)
(***************************************************************************)
EXTENDS Integers

CONSTANTS
  Requisicoes,    \* the requests; each performs one operation
  Parcelamentos,  \* the ids the database may give to a parcelamento
  MaxParcelas,    \* the largest total_parcelas
  Meses,          \* the months a first instalment or an edition may have
  Hoje,           \* the current month
  Nulo            \* no row, NULL

ASSUME ParcelasAssumption ==
  /\ MaxParcelas \in Nat \ {0}
  /\ Meses \subseteq Int
  /\ Hoje \in Int
  /\ Nulo \notin Parcelamentos /\ Nulo \notin Requisicoes

Numeros == 1..MaxParcelas

\* What NewParcelamento accepts: the instalments paid before the registration
\* are fewer than all of them.
Plano == {p \in [autor : Requisicoes, total : Numeros,
                 jaPagas : 0..MaxParcelas, primeira : Meses] :
            p.jaPagas < p.total}

Chave == Requisicoes \X Numeros

\* A row of transacoes born of a parcelamento.  plano is its parcelamento_id;
\* numero, the numero_parcela, is 0 for NULL.
Linha == [plano : Parcelamentos \cup {Nulo}, numero : 0..MaxParcelas,
          data : Int, tipo : {"saida", "entrada"}, editada : BOOLEAN]

ASSUME NuloAssumption == Nulo \notin Plano /\ Nulo \notin Linha

\* Every instalment of the contract but those already paid, under the number
\* of the contract.
GerarParcelas(p) == {<<p.autor, n>> : n \in (p.jaPagas + 1)..p.total}

\* The row of instalment k of the plan p of the parcelamento id.
LinhaDaParcela(id, p, k) ==
  [plano |-> id, numero |-> k[2], data |-> p.primeira + k[2] - 1,
   tipo |-> "saida", editada |-> FALSE]

=============================================================================
