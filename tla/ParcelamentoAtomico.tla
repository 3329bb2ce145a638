------------------------- MODULE ParcelamentoAtomico -------------------------
(***************************************************************************)
(* What the operations on parcelamentos promise: each happens at once, and *)
(* no statement of another request is seen in the middle of it.            *)
(*                                                                         *)
(* plano[id] is the parcelamento, parcelas[id] its instalments, avulsas    *)
(* the instalments a removal left behind as loose transactions; an id in   *)
(* usados was given once and is never given again.  Dates and editions are *)
(* not seen at this level, so a removal may keep any of the instalments:   *)
(* which ones is said by the properties of Parcelamento.                   *)
(***************************************************************************)
EXTENDS Parcelas

VARIABLES usados, plano, parcelas, avulsas
vars == <<usados, plano, parcelas, avulsas>>

Init ==
  /\ usados = {}
  /\ plano = [id \in Parcelamentos |-> Nulo]
  /\ parcelas = [id \in Parcelamentos |-> {}]
  /\ avulsas = {}

\* The instalments are those of the plan, all of them and no other.
Gravar(id, p) ==
  /\ plano' = [plano EXCEPT ![id] = p]
  /\ parcelas' = [parcelas EXCEPT ![id] = GerarParcelas(p)]
  /\ UNCHANGED avulsas

Registrar(id, p) ==
  /\ id \notin usados
  /\ usados' = usados \cup {id}
  /\ Gravar(id, p)

\* What was removed is not brought back by an edition.
Editar(id, p) ==
  /\ plano[id] # Nulo
  /\ Gravar(id, p)
  /\ UNCHANGED usados

\* The removal takes the parcelamento and what it does not keep.
Remover(id, mantidas) ==
  /\ plano[id] # Nulo
  /\ mantidas \subseteq parcelas[id]
  /\ plano' = [plano EXCEPT ![id] = Nulo]
  /\ parcelas' = [parcelas EXCEPT ![id] = {}]
  /\ avulsas' = avulsas \cup mantidas
  /\ UNCHANGED usados

\* A single instalment is removed only once loose.
RemoverAvulsa(k) ==
  /\ k \in avulsas
  /\ avulsas' = avulsas \ {k}
  /\ UNCHANGED <<usados, plano, parcelas>>

Next ==
  \/ \E id \in Parcelamentos, p \in Plano : Registrar(id, p) \/ Editar(id, p)
  \/ \E id \in Parcelamentos, m \in SUBSET Chave : Remover(id, m)
  \/ \E k \in Chave : RemoverAvulsa(k)

Spec == Init /\ [][Next]_vars

=============================================================================
