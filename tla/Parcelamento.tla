----------------------------- MODULE Parcelamento -----------------------------
(***************************************************************************)
(* The operations on parcelamentos and on their instalments, served        *)
(* concurrently: ParcelamentoService, the edition and removal of a single  *)
(* transaction (TransacaoService), and the SQL of their repositories, one  *)
(* action per statement.                                                   *)
(*                                                                         *)
(* planos and linhas are the committed tables.  What an open transaction   *)
(* has changed is visible to itself only: the rows it removed (apagadas)   *)
(* or detached (soltas), and the row of parcelamentos it changed (dono).   *)
(* Those rows are locked until it ends.  PostgreSQL runs it at READ        *)
(* COMMITTED: a statement takes the committed rows that match when it      *)
(* starts (alvo), visits them one by one, waits for a locked one, and then *)
(* checks the new version of the row against its WHERE.  Rows committed    *)
(* after its start are not seen by it.                                     *)
(*                                                                         *)
(* A request performs one operation.  Its transaction may be rolled back   *)
(* at any moment (Cair: the context is cancelled, the connection or the    *)
(* server falls), and a circle of waits is broken by the database          *)
(* (Impasse).                                                              *)
(***************************************************************************)
EXTENDS Parcelas, FiniteSets

VARIABLES
  criados,     \* the ids given so far: gen_random_uuid() never repeats one
  planos,      \* parcelamentos: id -> the plan, or Nulo
  linhas,      \* transacoes: key -> the row, or Nulo
  dono,        \* the open transaction that locked the row of a parcelamento
  pc,          \* the statement each request runs next
  pedido,      \* what each request asked for, with what it read
  alvo,        \* the rows its running statement still has to visit
  apagadas,    \* the rows it removed and did not commit yet
  soltas,      \* the rows it detached and did not commit yet
  resposta     \* its answer

tabelas == <<criados, planos, linhas>>
transacao == <<dono, alvo, apagadas, soltas>>
vars == <<criados, planos, linhas, dono, pc, pedido, alvo, apagadas, soltas,
          resposta>>

Passos == {"chegou", "atualizarPlano", "apagarParcelas", "apagando",
           "inserirParcelas", "soltar", "soltando", "apagarPlano",
           "cascata", "gravarLinha", "excluirLinha", "fim"}
Respostas == {"nenhuma", "ok", "404", "409", "erro"}

Edicoes == [op : {"substituir"}, id : Parcelamentos, novo : Plano]
Remocoes == [op : {"remover"}, id : Parcelamentos, manter : BOOLEAN, pagas : SUBSET Chave]
EdicoesDeLinha == [op : {"editar"}, linha : Chave, data : Meses, tipo : {"saida", "entrada"}]
Exclusoes == [op : {"excluir"}, linha : Chave]
Pedidos == Edicoes \cup Remocoes \cup EdicoesDeLinha \cup Exclusoes

TypeOK ==
  /\ criados \subseteq Parcelamentos
  /\ planos \in [Parcelamentos -> Plano \cup {Nulo}]
  /\ linhas \in [Chave -> Linha \cup {Nulo}]
  /\ dono \in [Parcelamentos -> Requisicoes \cup {Nulo}]
  /\ pc \in [Requisicoes -> Passos]
  /\ pedido \in [Requisicoes -> Pedidos \cup {Nulo}]
  /\ alvo \in [Requisicoes -> SUBSET Chave]
  /\ apagadas \in [Requisicoes -> SUBSET Chave]
  /\ soltas \in [Requisicoes -> SUBSET Chave]
  /\ resposta \in [Requisicoes -> Respostas]

Init ==
  /\ criados = {}
  /\ planos = [id \in Parcelamentos |-> Nulo]
  /\ linhas = [k \in Chave |-> Nulo]
  /\ dono = [id \in Parcelamentos |-> Nulo]
  /\ pc = [r \in Requisicoes |-> "chegou"]
  /\ pedido = [r \in Requisicoes |-> Nulo]
  /\ alvo = [r \in Requisicoes |-> {}]
  /\ apagadas = [r \in Requisicoes |-> {}]
  /\ soltas = [r \in Requisicoes |-> {}]
  /\ resposta = [r \in Requisicoes |-> "nenhuma"]

-------------------------------------------------------------------------------
(* Rows and locks *)

ParcelasDe(id) == {k \in Chave : linhas[k] # Nulo /\ linhas[k].plano = id}

\* A wrong version: today's instalment is not kept.
AntesDeHoje(l) == l.data < Hoje

\* The date filter of the removal that keeps the paid instalments.
AteHoje(l) == l.data <= Hoje

Mexidas(r) == apagadas[r] \cup soltas[r]
TravadaPor(k, u) == k \in Mexidas(u)
Travada(k, r) == \E u \in Requisicoes \ {r} : TravadaPor(k, u)
PlanoTravado(id, r) == dono[id] \notin {r, Nulo}

Vai(r, passo) == pc' = [pc EXCEPT ![r] = passo]

\* A wrong version: the transaction is not closed, and the row of
\* parcelamentos stays locked.
RespondeComTrava(r, x) ==
  /\ Vai(r, "fim")
  /\ resposta' = [resposta EXCEPT ![r] = x]
  /\ alvo' = [alvo EXCEPT ![r] = {}]
  /\ apagadas' = [apagadas EXCEPT ![r] = {}]
  /\ soltas' = [soltas EXCEPT ![r] = {}]
  /\ UNCHANGED <<dono, pedido>>

\* The end of a request: its transaction is over and its locks are free.
Responde(r, x) ==
  /\ Vai(r, "fim")
  /\ resposta' = [resposta EXCEPT ![r] = x]
  /\ dono' = [id \in Parcelamentos |-> IF dono[id] = r THEN Nulo ELSE dono[id]]
  /\ alvo' = [alvo EXCEPT ![r] = {}]
  /\ apagadas' = [apagadas EXCEPT ![r] = {}]
  /\ soltas' = [soltas EXCEPT ![r] = {}]
  /\ UNCHANGED pedido

\* A statement starts on the committed rows that match.
Comeca(r, passo, linhasDoComando) ==
  /\ Vai(r, passo)
  /\ alvo' = [alvo EXCEPT ![r] = linhasDoComando]
  /\ UNCHANGED <<tabelas, dono, pedido, apagadas, soltas, resposta>>

\* A statement ends when it has visited all of its rows.
Termina(r, de, para) ==
  /\ pc[r] = de /\ alvo[r] = {}
  /\ Vai(r, para)
  /\ UNCHANGED <<tabelas, transacao, pedido, resposta>>

Aceita(r, p, passo) ==
  /\ pc[r] = "chegou"
  /\ Vai(r, passo)
  /\ pedido' = [pedido EXCEPT ![r] = p]
  /\ UNCHANGED <<tabelas, transacao, resposta>>

-------------------------------------------------------------------------------
(* Registration *)

\* CreateWithParcelas.  Nothing of it is seen before the commit, and no other
\* request knows the id: the transaction is one step.
Criar(r) ==
  \E id \in Parcelamentos \ criados, p \in Plano :
    /\ pc[r] = "chegou" /\ p.autor = r
    /\ criados' = criados \cup {id}
    /\ planos' = [planos EXCEPT ![id] = p]
    /\ linhas' = [k \in Chave |-> IF k \in GerarParcelas(p)
                                  THEN LinhaDaParcela(id, p, k) ELSE linhas[k]]
    /\ Responde(r, "ok")

-------------------------------------------------------------------------------
(* Edition: Update and ReplaceWithParcelas *)

\* FindByID, and the new plan is built from the input.
Ler(r) ==
  \E id \in Parcelamentos, p \in Plano :
    /\ planos[id] # Nulo /\ p.autor = r
    /\ Aceita(r, [op |-> "substituir", id |-> id, novo |-> p], "atualizarPlano")

\* A wrong version: the row is written after the instalments, and nothing
\* holds another edition back.
AtualizarPlanoSemTrava(r) ==
  LET id == pedido[r].id
  IN /\ pc[r] = "atualizarPlano"
     /\ \/ /\ planos[id] = Nulo
           /\ Responde(r, "404")
           /\ UNCHANGED tabelas
        \/ /\ planos[id] # Nulo
           /\ Vai(r, "apagarParcelas")
           /\ UNCHANGED <<tabelas, dono, pedido, alvo, apagadas, soltas,
                          resposta>>

\* A wrong version: the rows affected are not looked at, and an edition goes
\* on although the parcelamento was removed.
AtualizarPlanoSemConferir(r) ==
  LET id == pedido[r].id
  IN /\ pc[r] = "atualizarPlano"
     /\ ~ PlanoTravado(id, r)
     /\ dono' = [dono EXCEPT ![id] = r]
     /\ Vai(r, "apagarParcelas")
     /\ UNCHANGED <<tabelas, pedido, alvo, apagadas, soltas, resposta>>

\* UPDATE parcelamentos waits for the row; no row, 404.
AtualizarPlano(r) ==
  LET id == pedido[r].id
  IN /\ pc[r] = "atualizarPlano"
     /\ ~ PlanoTravado(id, r)
     /\ \/ /\ planos[id] = Nulo
           /\ Responde(r, "404")
           /\ UNCHANGED tabelas
        \/ /\ planos[id] # Nulo
           /\ dono' = [dono EXCEPT ![id] = r]
           /\ Vai(r, "apagarParcelas")
           /\ UNCHANGED <<tabelas, pedido, alvo, apagadas, soltas, resposta>>

\* DELETE FROM transacoes WHERE parcelamento_id = id, of both the edition and
\* the removal.
ApagarParcelas(r) ==
  /\ pc[r] = "apagarParcelas"
  /\ Comeca(r, "apagando", ParcelasDe(pedido[r].id) \ soltas[r])

\* It waits for a locked row; one that went away or was detached meanwhile no
\* longer matches.
ApagarLinhaVisitada(r) ==
  \E k \in alvo[r] :
    /\ pc[r] \in {"apagando", "cascata"}
    /\ ~ Travada(k, r)
    /\ alvo' = [alvo EXCEPT ![r] = @ \ {k}]
    /\ apagadas' = [apagadas EXCEPT ![r] =
                      IF k \in ParcelasDe(pedido[r].id) THEN @ \cup {k} ELSE @]
    /\ UNCHANGED <<tabelas, dono, pc, pedido, soltas, resposta>>

FimDoApagar(r) ==
  Termina(r, "apagando", IF pedido[r].op = "substituir" THEN "inserirParcelas"
                                                        ELSE "apagarPlano")

\* The INSERTs are not seen before the commit: they are one step with it.
InserirParcelas(r) ==
  LET id == pedido[r].id
      p == pedido[r].novo
  IN /\ pc[r] = "inserirParcelas"
     /\ planos' = [planos EXCEPT ![id] = p]
     /\ linhas' = [k \in Chave |->
                     IF k \in GerarParcelas(p) THEN LinhaDaParcela(id, p, k)
                     ELSE IF k \in apagadas[r] THEN Nulo
                     ELSE linhas[k]]
     /\ Responde(r, "ok")
     /\ UNCHANGED criados

-------------------------------------------------------------------------------
(* Removal: Delete *)

\* SELECT EXISTS, which locks nothing.  pagas is what the user sees as paid.
VerExiste(r) ==
  \E id \in Parcelamentos, manter \in BOOLEAN :
    /\ planos[id] # Nulo
    /\ Aceita(r, [op |-> "remover", id |-> id, manter |-> manter,
                  pagas |-> {k \in ParcelasDe(id) : linhas[k].data <= Hoje}],
              IF manter THEN "soltar" ELSE "apagarParcelas")

\* UPDATE transacoes SET parcelamento_id = NULL ... data_transacao <= hoje.
Soltar(r) ==
  /\ pc[r] = "soltar"
  /\ Comeca(r, "soltando", {k \in ParcelasDe(pedido[r].id) : AteHoje(linhas[k])})

SoltarLinhaVisitada(r) ==
  \E k \in alvo[r] :
    /\ pc[r] = "soltando"
    /\ ~ Travada(k, r)
    /\ alvo' = [alvo EXCEPT ![r] = @ \ {k}]
    /\ soltas' = [soltas EXCEPT ![r] =
                    IF k \in ParcelasDe(pedido[r].id) /\ AteHoje(linhas[k])
                    THEN @ \cup {k} ELSE @]
    /\ UNCHANGED <<tabelas, dono, pc, pedido, apagadas, resposta>>

FimDoSoltar(r) == Termina(r, "soltando", "apagarParcelas")

\* A wrong version: the foreign key does not cascade.
ApagarPlanoSemCascata(r) ==
  LET id == pedido[r].id
  IN /\ pc[r] = "apagarPlano"
     /\ ~ PlanoTravado(id, r)
     /\ Vai(r, "cascata")
     /\ dono' = IF planos[id] = Nulo THEN dono ELSE [dono EXCEPT ![id] = r]
     /\ UNCHANGED <<tabelas, pedido, alvo, apagadas, soltas, resposta>>

\* DELETE FROM parcelamentos waits for the row.  With it gone, ON DELETE
\* CASCADE visits the rows that reference it by then; a row already gone is no
\* error.
ApagarPlano(r) ==
  LET id == pedido[r].id
  IN /\ pc[r] = "apagarPlano"
     /\ ~ PlanoTravado(id, r)
     /\ Vai(r, "cascata")
     /\ IF planos[id] = Nulo
        THEN UNCHANGED <<dono, alvo>>
        ELSE /\ dono' = [dono EXCEPT ![id] = r]
             /\ alvo' = [alvo EXCEPT ![r] = ParcelasDe(id) \ Mexidas(r)]
     /\ UNCHANGED <<tabelas, pedido, apagadas, soltas, resposta>>

\* The commit.
Remover(r) ==
  LET id == pedido[r].id
  IN /\ pc[r] = "cascata" /\ alvo[r] = {}
     /\ planos' = [planos EXCEPT ![id] = Nulo]
     /\ linhas' = [k \in Chave |->
                     IF k \in apagadas[r] THEN Nulo
                     ELSE IF k \in soltas[r]
                          THEN [linhas[k] EXCEPT !.plano = Nulo, !.numero = 0]
                     ELSE linhas[k]]
     /\ Responde(r, "ok")
     /\ UNCHANGED criados

-------------------------------------------------------------------------------
(* One transaction: TransacaoService *)

\* A wrong version: the type of an instalment is taken as it comes.
EditarLinhaSemTipo(r) ==
  \E k \in Chave, data \in Meses, tipo \in {"saida", "entrada"} :
    /\ linhas[k] # Nulo
    /\ Aceita(r, [op |-> "editar", linha |-> k, data |-> data, tipo |-> tipo],
              "gravarLinha")

\* Update, up to FindByID: Aplicar keeps an instalment an expense.
EditarLinha(r) ==
  \E k \in Chave, data \in Meses, tipo \in {"saida", "entrada"} :
    /\ linhas[k] # Nulo
    /\ linhas[k].plano # Nulo => tipo = "saida"
    /\ Aceita(r, [op |-> "editar", linha |-> k, data |-> data, tipo |-> tipo],
              "gravarLinha")

\* The UPDATE is a transaction by itself: it waits for the row and commits.
GravarLinha(r) ==
  LET k == pedido[r].linha
  IN /\ pc[r] = "gravarLinha"
     /\ ~ Travada(k, r)
     /\ linhas' = [linhas EXCEPT ![k] =
                     IF @ = Nulo THEN Nulo
                     ELSE [@ EXCEPT !.data = pedido[r].data,
                                    !.tipo = pedido[r].tipo,
                                    !.editada = TRUE]]
     /\ Responde(r, IF linhas[k] = Nulo THEN "404" ELSE "ok")
     /\ UNCHANGED <<criados, planos>>

\* Delete, up to FindByID: an instalment is refused with 409.
PedirExclusao(r) ==
  \E k \in Chave :
    /\ linhas[k] # Nulo
    /\ linhas[k].plano = Nulo
    /\ Aceita(r, [op |-> "excluir", linha |-> k], "excluirLinha")

RecusarExclusao(r) ==
  /\ pc[r] = "chegou"
  /\ \E k \in Chave : linhas[k] # Nulo /\ linhas[k].plano # Nulo
  /\ Responde(r, "409")
  /\ UNCHANGED tabelas

ExcluirLinha(r) ==
  LET k == pedido[r].linha
  IN /\ pc[r] = "excluirLinha"
     /\ ~ Travada(k, r)
     /\ linhas' = [linhas EXCEPT ![k] = Nulo]
     /\ Responde(r, IF linhas[k] = Nulo THEN "404" ELSE "ok")
     /\ UNCHANGED <<criados, planos>>

-------------------------------------------------------------------------------
(* Failures and waits *)

\* The request is lost, or its checks fail: whatever it did is rolled back.
Cair(r) ==
  /\ pc[r] # "fim"
  /\ Responde(r, "erro")
  /\ UNCHANGED tabelas

\* r can run nothing but wait for u.
EsperaPlano(r, u) ==
  pc[r] \in {"atualizarPlano", "apagarPlano"} /\ dono[pedido[r].id] = u
EsperaLinha(r, u) ==
  \/ /\ pc[r] \in {"apagando", "soltando", "cascata"}
     /\ alvo[r] # {}
     /\ \A k \in alvo[r] : Travada(k, r)
     /\ \E k \in alvo[r] : TravadaPor(k, u)
  \/ /\ pc[r] \in {"gravarLinha", "excluirLinha"}
     /\ TravadaPor(pedido[r].linha, u)
Espera(r, u) == r # u /\ (EsperaPlano(r, u) \/ EsperaLinha(r, u))

\* Nobody in G can run: each waits for another of G.
Circulo(G) == G # {} /\ \A r \in G : \E u \in G : Espera(r, u)

\* The deadlock detector of PostgreSQL ends a transaction of the circle.
Impasse(r) ==
  /\ \E G \in SUBSET Requisicoes : r \in G /\ Circulo(G)
  /\ Responde(r, "erro")
  /\ UNCHANGED tabelas

-------------------------------------------------------------------------------

\* What the server does for a request it accepted.
Passo(r) ==
  \/ AtualizarPlano(r) \/ ApagarParcelas(r) \/ ApagarLinhaVisitada(r)
  \/ FimDoApagar(r) \/ InserirParcelas(r)
  \/ Soltar(r) \/ SoltarLinhaVisitada(r) \/ FimDoSoltar(r)
  \/ ApagarPlano(r) \/ Remover(r)
  \/ GravarLinha(r) \/ ExcluirLinha(r)

Chega(r) ==
  \/ Criar(r) \/ Ler(r) \/ VerExiste(r)
  \/ EditarLinha(r) \/ PedirExclusao(r) \/ RecusarExclusao(r)

Next == \E r \in Requisicoes : Chega(r) \/ Passo(r) \/ Cair(r) \/ Impasse(r)

\* The server keeps running what it accepted, and the database its detector of
\* deadlocks.  Nothing obliges a request to arrive, nor a connection to fall.
Justica ==
  \A r \in Requisicoes : WF_vars(Passo(r)) /\ WF_vars(Impasse(r))

Spec == Init /\ [][Next]_vars
SpecJusta == Spec /\ Justica

-------------------------------------------------------------------------------
(* What must hold *)

\* At every commit the instalments of a parcelamento are those of its plan,
\* under their numbers, none of them missing, doubled or left from the plan
\* before: editions and removals that run together do not mix their rows.
ParcelasDoPlano ==
  \A id \in Parcelamentos :
    planos[id] # Nulo =>
      /\ ParcelasDe(id) = GerarParcelas(planos[id])
      /\ \A k \in ParcelasDe(id) : linhas[k].numero = k[2]

\* No instalment outlives its parcelamento, not even one written while the
\* removal was running.
SemOrfas == \A id \in Parcelamentos : planos[id] = Nulo => ParcelasDe(id) = {}

\* An instalment is an expense, although the edition that checks it read the
\* row in another transaction.
ParcelaESaida ==
  \A k \in Chave :
    linhas[k] # Nulo => (linhas[k].plano # Nulo => linhas[k].tipo = "saida")

\* The removal that keeps the paid instalments (manter_pagas) leaves every
\* instalment the user saw as paid when it started, unless someone edited or
\* replaced it meanwhile.
Removendo(r) == pc[r] = "cascata" /\ resposta'[r] = "ok"
PagasDe(r) ==
  IF pedido[r].manter
  THEN {k \in pedido[r].pagas : linhas[k] # Nulo /\ ~ linhas[k].editada}
  ELSE {}
ManterPagas ==
  [][\A r \in Requisicoes :
       Removendo(r) => \A k \in PagasDe(r) : linhas'[k] # Nulo]_vars

\* "com manter_pagas=true, parcelas com data <= hoje são desvinculadas"
\* (ARQUITETURA.md): every instalment of the parcelamento at the commit.
VencidasDe(r) ==
  {k \in ParcelasDe(pedido[r].id) :
     pedido[r].manter /\ ~ linhas[k].editada /\ linhas[k].data <= Hoje}
ManterTodasAsPagas ==
  [][\A r \in Requisicoes :
       Removendo(r) => \A k \in VencidasDe(r) : linhas'[k] # Nulo]_vars

\* An accepted request is answered, although an edition and a removal take the
\* same locks in opposite orders.
TodaRequisicaoTermina ==
  \A r \in Requisicoes : pc[r] # "chegou" ~> pc[r] = "fim"

\* Every commit is one operation of ParcelamentoAtomico.
Atomico ==
  INSTANCE ParcelamentoAtomico WITH
    usados <- criados,
    plano <- planos,
    parcelas <- [id \in Parcelamentos |-> ParcelasDe(id)],
    avulsas <- ParcelasDe(Nulo)
RefinaAtomico == Atomico!Spec

=============================================================================
