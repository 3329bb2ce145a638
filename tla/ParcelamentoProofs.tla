--------------------------- MODULE ParcelamentoProofs ---------------------------
(***************************************************************************)
(* The safety of Parcelamento, and that it implements ParcelamentoAtomico, *)
(* for any number of requests, parcelamentos, instalments and months.      *)
(*                                                                         *)
(* The inductive invariant has what every commit leaves in the tables, and *)
(* for each request Andamento: what it holds and what it knows at the      *)
(* statement it is at.  The heart of it is what an edition knows after its *)
(* DELETE started (every instalment is in alvo or already removed) and     *)
(* what a removal knows once it has the row of the parcelamento.  Another  *)
(* request cannot take that away (Preserva), because whoever commits       *)
(* instalments of a parcelamento holds its row.                            *)
(*                                                                         *)
(* Last, the removal that keeps what was paid (MInv): an instalment it has *)
(* to save is out of its reach once detached, and until then only the      *)
(* edition of that row, or a transaction that detaches or replaces it,     *)
(* takes it away from the plan.                                            *)
(***************************************************************************)
EXTENDS Parcelamento, TLAPS

\* r holds no row.
SemTravas(r) ==
  /\ alvo[r] = {} /\ apagadas[r] = {} /\ soltas[r] = {}
  /\ \A id \in Parcelamentos : dono[id] # r

SemDono(r) == \A id \in Parcelamentos : dono[id] # r

\* r holds the row of its parcelamento, and of no other.
ComDono(r) ==
  /\ planos[pedido[r].id] # Nulo
  /\ \A id \in Parcelamentos : dono[id] = r <=> id = pedido[r].id

Parado(r) == pc[r] \in {"chegou", "fim"} /\ SemTravas(r)

Minhas(r) == ParcelasDe(pedido[r].id)

Editando(r) ==
  /\ pedido[r] \in Edicoes /\ pedido[r].novo.autor = r /\ pedido[r].id \in criados
  /\ soltas[r] = {}
  /\ \/ pc[r] = "atualizarPlano" /\ SemTravas(r)
     \/ pc[r] = "apagarParcelas" /\ ComDono(r) /\ alvo[r] = {} /\ apagadas[r] = {}
     \/ /\ pc[r] = "apagando" /\ ComDono(r)
        /\ Minhas(r) \subseteq alvo[r] \cup apagadas[r]
     \/ /\ pc[r] = "inserirParcelas" /\ ComDono(r) /\ alvo[r] = {}
        /\ Minhas(r) \subseteq apagadas[r]

EmRemocao(r) ==
  /\ pedido[r] \in Remocoes /\ pedido[r].id \in criados
  /\ \/ pc[r] = "soltar" /\ SemTravas(r)
     \/ pc[r] = "soltando" /\ SemDono(r) /\ apagadas[r] = {}
     \/ pc[r] = "apagarParcelas" /\ SemDono(r) /\ alvo[r] = {} /\ apagadas[r] = {}
     \/ pc[r] = "apagando" /\ SemDono(r)
     \/ pc[r] = "apagarPlano" /\ SemDono(r) /\ alvo[r] = {}
     \/ /\ pc[r] = "cascata" /\ ComDono(r)
        /\ Minhas(r) \subseteq alvo[r] \cup Mexidas(r)
     \/ pc[r] = "cascata" /\ SemDono(r) /\ planos[pedido[r].id] = Nulo

Solta(k) == linhas[k] # Nulo => linhas[k].plano = Nulo

NaLinha(r) ==
  /\ SemTravas(r)
  /\ \/ /\ pc[r] = "gravarLinha" /\ pedido[r] \in EdicoesDeLinha
        /\ pedido[r].tipo = "saida" \/ Solta(pedido[r].linha)
     \/ pc[r] = "excluirLinha" /\ pedido[r] \in Exclusoes /\ Solta(pedido[r].linha)
  /\ pc[pedido[r].linha[1]] = "fim"

\* The rows a request changed are there, and still of its parcelamento.
Segura(r) ==
  \A k \in Mexidas(r) : linhas[k] # Nulo /\ linhas[k].plano = pedido[r].id

Andamento(r) ==
  /\ Parado(r) \/ Editando(r) \/ EmRemocao(r) \/ NaLinha(r)
  /\ Segura(r)

\* A row is written at the end of the request that names it.
Autoria == \A k \in Chave : linhas[k] # Nulo => pc[k[1]] = "fim"

Nascidos == \A id \in Parcelamentos : planos[id] # Nulo => id \in criados

\* A row is locked by one transaction.
Exclusivas ==
  \A r, u \in Requisicoes : r # u => Mexidas(r) \cap Mexidas(u) = {}

Tabelas ==
  /\ TypeOK /\ Autoria /\ Nascidos
  /\ ParcelasDoPlano /\ SemOrfas /\ ParcelaESaida

PInv ==
  /\ Tabelas /\ Exclusivas
  /\ \A r \in Requisicoes : Andamento(r)

-------------------------------------------------------------------------------
(* What another request may do *)

Iguais(r) ==
  /\ pc'[r] = pc[r] /\ pedido'[r] = pedido[r] /\ alvo'[r] = alvo[r]
  /\ apagadas'[r] = apagadas[r] /\ soltas'[r] = soltas[r]

Preserva(r) ==
  /\ Iguais(r)
  /\ \A id \in Parcelamentos : dono'[id] = r <=> dono[id] = r
  /\ criados \subseteq criados'
  /\ \A id \in criados : planos[id] = Nulo => planos'[id] = Nulo
  /\ \A id \in Parcelamentos : dono[id] = r =>
       /\ planos[id] # Nulo => planos'[id] # Nulo
       /\ ParcelasDe(id)' \subseteq ParcelasDe(id)
  /\ \A k \in Mexidas(r) : linhas[k] # Nulo =>
       linhas'[k] # Nulo /\ linhas'[k].plano = linhas[k].plano
  /\ \A k \in Chave : pc[k[1]] = "fim" => pc'[k[1]] = "fim" /\ (Solta(k) => Solta(k)')

LEMMA Preservado ==
  ASSUME TypeOK, NEW r \in Requisicoes, Andamento(r), Preserva(r) PROVE Andamento(r)'
  <1>1. Mexidas(r)' = Mexidas(r)  BY DEF Preserva, Iguais, Mexidas
  <1>2. Segura(r)'  BY <1>1 DEF Preserva, Iguais, Andamento, Segura
  <1>3. SemTravas(r) => SemTravas(r)'  BY DEF Preserva, Iguais, SemTravas
  <1>4. SemDono(r) => SemDono(r)'  BY DEF Preserva, SemDono
  <1>5. pedido[r] \in Edicoes \cup Remocoes => pedido[r].id \in Parcelamentos
    BY DEF Edicoes, Remocoes
  <1>6. pedido[r] \in Edicoes \cup Remocoes /\ ComDono(r) =>
          ComDono(r)' /\ Minhas(r)' \subseteq Minhas(r)
    <2> HAVE pedido[r] \in Edicoes \cup Remocoes /\ ComDono(r)
    <2> DEFINE id == pedido[r].id
    <2>1. id \in Parcelamentos /\ pedido'[r].id = id /\ dono[id] = r /\ planos[id] # Nulo
      BY <1>5 DEF Preserva, Iguais, ComDono
    <2>2. Minhas(r)' = {k \in Chave : linhas'[k] # Nulo /\ linhas'[k].plano = id}
      BY <2>1 DEF Minhas, ParcelasDe
    <2>3. Minhas(r) = {k \in Chave : linhas[k] # Nulo /\ linhas[k].plano = id}
      BY <2>1 DEF Minhas, ParcelasDe
    <2>4. \A k \in Chave : linhas'[k] # Nulo /\ linhas'[k].plano = id =>
                           linhas[k] # Nulo /\ linhas[k].plano = id
      BY <2>1 DEF Preserva, ParcelasDe
    <2>5. ComDono(r)'  BY <2>1 DEF Preserva, ComDono
    <2> QED  BY <2>2, <2>3, <2>4, <2>5
  <1>7. ASSUME Parado(r) PROVE Parado(r)'  BY <1>3, <1>7 DEF Parado, Preserva, Iguais
  <1>8. ASSUME Editando(r) PROVE Editando(r)'
    <2>1. /\ pedido'[r] \in Edicoes /\ pedido'[r].novo.autor = r /\ pedido'[r].id \in criados'
          /\ soltas'[r] = {} /\ pedido[r].id \in Parcelamentos
      BY <1>5, <1>8 DEF Editando, Preserva, Iguais
    <2> QED  BY <1>3, <1>6, <1>8, <2>1 DEF Editando, Preserva, Iguais
  <1>9. ASSUME EmRemocao(r) PROVE EmRemocao(r)'
    <2>1. /\ pedido'[r] \in Remocoes /\ pedido'[r].id \in criados'
          /\ pedido[r].id \in Parcelamentos
      BY <1>5, <1>9 DEF EmRemocao, Preserva, Iguais
    <2>3. planos[pedido[r].id] = Nulo => planos'[pedido'[r].id] = Nulo
      BY <1>9 DEF EmRemocao, Preserva, Iguais
    <2> QED  BY <1>1, <1>3, <1>4, <1>6, <1>9, <2>1, <2>3 DEF EmRemocao, Preserva, Iguais
  <1>10. ASSUME NaLinha(r) PROVE NaLinha(r)'
    <2>1. pedido[r].linha \in Chave  BY <1>10 DEF NaLinha, EdicoesDeLinha, Exclusoes
    <2>2. pedido'[r] = pedido[r] /\ pc'[r] = pc[r]  BY DEF Preserva, Iguais
    <2> DEFINE k == pedido[r].linha
    <2>3. pc'[k[1]] = "fim" /\ (Solta(k) => (linhas'[k] # Nulo => linhas'[k].plano = Nulo))
      BY <1>10, <2>1 DEF NaLinha, Preserva, Solta
    <2>4. pedido'[r].linha = k  BY <2>2
    <2>5. Solta(k) => Solta(pedido[r].linha)'  BY <2>3, <2>4 DEF Solta
    <2> HIDE DEF k
    <2>6. k = pedido[r].linha  BY DEF k
    <2> QED  BY <1>3, <1>10, <2>2, <2>3, <2>4, <2>5, <2>6 DEF NaLinha
  <1> QED  BY <1>2, <1>7, <1>8, <1>9, <1>10 DEF Andamento

\* The tables do not change, and u takes a step of its own.
LEMMA PassoInterno ==
  ASSUME PInv, NEW u \in Requisicoes, TypeOK', UNCHANGED tabelas,
         \A r \in Requisicoes \ {u} : Iguais(r),
         \A id \in Parcelamentos : dono'[id] = dono[id] \/ {dono[id], dono'[id]} \subseteq {u, Nulo},
         pc[u] # "fim",
         \A k \in Mexidas(u)' : k \in Mexidas(u) \/ ~ Travada(k, u),
         Andamento(u)'
  PROVE  PInv'
  <1>1. /\ criados' = criados /\ planos' = planos /\ linhas' = linhas
        /\ \A id : ParcelasDe(id)' = ParcelasDe(id)
    BY DEF tabelas, ParcelasDe
  <1>2. \A k \in Chave : pc[k[1]] = "fim" => pc'[k[1]] = "fim"
    BY DEF Chave, Iguais
  <1>3. \A r \in Requisicoes \ {u} : Preserva(r)
    <2> SUFFICES ASSUME NEW r \in Requisicoes \ {u} PROVE Preserva(r)  OBVIOUS
    <2>1. \A id \in Parcelamentos : dono'[id] = r <=> dono[id] = r
      BY ParcelasAssumption
    <2>2. \A k \in Chave : Solta(k) => Solta(k)'  BY <1>1 DEF Solta
    <2> QED  BY <1>1, <1>2, <2>1, <2>2 DEF Preserva
  <1>4. \A r \in Requisicoes : Andamento(r)'
    BY <1>3, Preservado DEF PInv, Tabelas
  <1>5. Tabelas'
    <2>1. Autoria'  BY <1>1, <1>2 DEF PInv, Tabelas, Autoria
    <2>2. Nascidos' /\ ParcelasDoPlano' /\ SemOrfas' /\ ParcelaESaida'
      BY <1>1 DEF PInv, Tabelas, Nascidos, ParcelasDoPlano, SemOrfas, ParcelaESaida
    <2> QED  BY <2>1, <2>2 DEF Tabelas
  <1>6. Exclusivas'
    <2>1. \A r \in Requisicoes \ {u} : Mexidas(r)' = Mexidas(r)  BY DEF Iguais, Mexidas
    <2>2. \A r \in Requisicoes \ {u}, k \in Mexidas(u)' : k \notin Mexidas(r)
      BY DEF PInv, Exclusivas, Travada, TravadaPor
    <2> QED  BY <2>1, <2>2 DEF PInv, Exclusivas
  <1> QED  BY <1>4, <1>5, <1>6 DEF PInv

-------------------------------------------------------------------------------
(* Requests that arrive, and requests that end without a commit *)

LEMMA RespondeLocal ==
  ASSUME TypeOK, NEW u \in Requisicoes, NEW x \in Respostas, Responde(u, x)
  PROVE  /\ \A r \in Requisicoes \ {u} : Iguais(r)
         /\ \A id \in Parcelamentos :
              dono'[id] = IF dono[id] = u THEN Nulo ELSE dono[id]
         /\ pc'[u] = "fim" /\ Mexidas(u)' = {} /\ Andamento(u)'
         /\ pc' \in [Requisicoes -> Passos] /\ pedido' = pedido
         /\ dono' \in [Parcelamentos -> Requisicoes \cup {Nulo}]
         /\ alvo' \in [Requisicoes -> SUBSET Chave]
         /\ apagadas' \in [Requisicoes -> SUBSET Chave]
         /\ soltas' \in [Requisicoes -> SUBSET Chave]
         /\ resposta' \in [Requisicoes -> Respostas]
  <1>1. /\ pc' = [pc EXCEPT ![u] = "fim"] /\ resposta' = [resposta EXCEPT ![u] = x]
        /\ dono' = [id \in Parcelamentos |-> IF dono[id] = u THEN Nulo ELSE dono[id]]
        /\ alvo' = [alvo EXCEPT ![u] = {}] /\ apagadas' = [apagadas EXCEPT ![u] = {}]
        /\ soltas' = [soltas EXCEPT ![u] = {}] /\ pedido' = pedido
    BY DEF Responde, Vai
  <1>2. /\ pc \in [Requisicoes -> Passos] /\ alvo \in [Requisicoes -> SUBSET Chave]
        /\ apagadas \in [Requisicoes -> SUBSET Chave]
        /\ soltas \in [Requisicoes -> SUBSET Chave]
        /\ resposta \in [Requisicoes -> Respostas]
        /\ dono \in [Parcelamentos -> Requisicoes \cup {Nulo}]
    BY DEF TypeOK
  <1>3. \A r \in Requisicoes \ {u} : Iguais(r)  BY <1>1, <1>2 DEF Iguais
  <1>4. /\ pc'[u] = "fim" /\ alvo'[u] = {} /\ apagadas'[u] = {} /\ soltas'[u] = {}
    BY <1>1, <1>2
  <1>5. \A id \in Parcelamentos : dono'[id] = IF dono[id] = u THEN Nulo ELSE dono[id]
    BY <1>1
  <1>6. SemTravas(u)'
    BY <1>4, <1>5, ParcelasAssumption DEF SemTravas
  <1>7. Mexidas(u)' = {} /\ Andamento(u)'
    BY <1>4, <1>6 DEF Mexidas, Andamento, Parado, Segura
  <1>8. dono' \in [Parcelamentos -> Requisicoes \cup {Nulo}]
    BY <1>1, <1>2
  <1> QED  BY <1>1, <1>2, <1>3, <1>4, <1>5, <1>7, <1>8 DEF Passos

\* An answer with the tables as they were.
LEMMA SoResponde ==
  ASSUME PInv, NEW u \in Requisicoes, NEW x \in Respostas, Responde(u, x),
         UNCHANGED tabelas, pc[u] # "fim"
  PROVE  PInv'
  <1>0. TypeOK  BY DEF PInv, Tabelas
  <1>1. TypeOK'  BY <1>0, RespondeLocal DEF TypeOK, tabelas
  <1>2. \A id \in Parcelamentos :
          dono'[id] = dono[id] \/ {dono[id], dono'[id]} \subseteq {u, Nulo}
    BY <1>0, RespondeLocal
  <1> QED  BY <1>0, <1>1, <1>2, RespondeLocal, PassoInterno

\* Where each request is, by the statement it is at.
LEMMA Fases ==
  ASSUME PInv, NEW r \in Requisicoes
  PROVE  /\ Andamento(r)
         /\ pc[r] \in {"chegou", "fim"} => Parado(r)
         /\ pc[r] \in {"atualizarPlano", "inserirParcelas"} => Editando(r)
         /\ pc[r] \in {"apagarParcelas", "apagando"} => Editando(r) \/ EmRemocao(r)
         /\ pc[r] \in {"soltar", "soltando", "apagarPlano", "cascata"} => EmRemocao(r)
         /\ pc[r] \in {"gravarLinha", "excluirLinha"} => NaLinha(r)
  BY DEF PInv, Andamento, Parado, Editando, EmRemocao, NaLinha

\* A request that arrives holds nothing yet.
LEMMA Aceitou ==
  ASSUME PInv, NEW u \in Requisicoes, NEW p \in Pedidos, NEW passo \in Passos,
         Aceita(u, p, passo)
  PROVE  /\ TypeOK' /\ UNCHANGED tabelas /\ UNCHANGED transacao
         /\ \A r \in Requisicoes \ {u} : Iguais(r)
         /\ pc[u] = "chegou" /\ pc'[u] = passo /\ pedido'[u] = p
         /\ SemTravas(u) /\ SemTravas(u)' /\ Mexidas(u)' = {}
         /\ \A r \in Requisicoes : pc[r] = "fim" => pc'[r] = "fim"
  <1>1. TypeOK  BY DEF PInv, Tabelas
  <1>2. /\ pc[u] = "chegou" /\ pc' = [pc EXCEPT ![u] = passo]
        /\ pedido' = [pedido EXCEPT ![u] = p] /\ resposta' = resposta
        /\ UNCHANGED <<criados, planos, linhas>>
        /\ dono' = dono /\ alvo' = alvo /\ apagadas' = apagadas /\ soltas' = soltas
    BY DEF Aceita, Vai, tabelas, transacao
  <1>3. pc \in [Requisicoes -> Passos] /\ pedido \in [Requisicoes -> Pedidos \cup {Nulo}]
    BY <1>1 DEF TypeOK
  <1>4. pc' \in [Requisicoes -> Passos] /\ pedido' \in [Requisicoes -> Pedidos \cup {Nulo}]
    BY <1>2, <1>3
  <1>5. TypeOK'  BY <1>1, <1>2, <1>4 DEF TypeOK
  <1>6. SemTravas(u)  BY <1>2, Fases DEF Parado
  <1>7. SemTravas(u)'  BY <1>2, <1>6 DEF SemTravas
  <1>8. Mexidas(u)' = {}  BY <1>7 DEF SemTravas, Mexidas
  <1>9. /\ pc'[u] = passo /\ pedido'[u] = p /\ \A r \in Requisicoes \ {u} : Iguais(r)
        /\ \A r \in Requisicoes : pc[r] = "fim" => pc'[r] = "fim"
    BY <1>2, <1>3 DEF Iguais
  <1> QED  BY <1>2, <1>5, <1>6, <1>7, <1>8, <1>9 DEF tabelas, transacao

LEMMA AceitaConfere ==
  ASSUME PInv, NEW u \in Requisicoes, NEW p \in Pedidos, NEW passo \in Passos,
         Aceita(u, p, passo),
         Editando(u)' \/ EmRemocao(u)' \/ NaLinha(u)'
  PROVE  PInv'
  <1>1. Andamento(u)'  BY Aceitou DEF Andamento, Segura
  <1>2. \A id \in Parcelamentos : dono'[id] = dono[id]  BY Aceitou DEF transacao
  <1>3. \A k \in Mexidas(u)' : k \in Mexidas(u) \/ ~ Travada(k, u)  BY Aceitou
  <1> QED  BY <1>1, <1>2, <1>3, Aceitou, PassoInterno

LEMMA PassoLer == ASSUME PInv, NEW u \in Requisicoes, Ler(u) PROVE PInv'
  <1>1. PICK id \in Parcelamentos, n \in Plano :
          /\ planos[id] # Nulo /\ n.autor = u
          /\ Aceita(u, [op |-> "substituir", id |-> id, novo |-> n], "atualizarPlano")
    BY DEF Ler
  <1> DEFINE p == [op |-> "substituir", id |-> id, novo |-> n]
  <1>2. /\ p \in Edicoes /\ p \in Pedidos /\ p.novo = n /\ p.id = id
        /\ "atualizarPlano" \in Passos
    BY DEF Edicoes, Pedidos, Passos
  <1> HIDE DEF p
  <1>3. id \in criados  BY <1>1 DEF PInv, Tabelas, Nascidos
  <1>4. Aceita(u, p, "atualizarPlano")  BY <1>1 DEF p
  <1>5. Editando(u)'
    BY <1>1, <1>2, <1>3, <1>4, Aceitou DEF Editando, SemTravas, tabelas
  <1> QED  BY <1>2, <1>4, <1>5, AceitaConfere

LEMMA PassoVerExiste == ASSUME PInv, NEW u \in Requisicoes, VerExiste(u) PROVE PInv'
  <1>1. PICK id \in Parcelamentos, manter \in BOOLEAN :
          /\ planos[id] # Nulo
          /\ Aceita(u, [op |-> "remover", id |-> id, manter |-> manter,
                        pagas |-> {k \in ParcelasDe(id) : linhas[k].data <= Hoje}],
                    IF manter THEN "soltar" ELSE "apagarParcelas")
    BY DEF VerExiste
  <1> DEFINE pagas == {k \in ParcelasDe(id) : linhas[k].data <= Hoje}
             p == [op |-> "remover", id |-> id, manter |-> manter, pagas |-> pagas]
             passo == IF manter THEN "soltar" ELSE "apagarParcelas"
  <1>2. pagas \in SUBSET Chave  BY DEF ParcelasDe
  <1>3. p \in Remocoes /\ p.id = id
    <2> HIDE DEF pagas
    <2> QED  BY <1>2 DEF Remocoes
  <1>4. p \in Pedidos /\ passo \in {"soltar", "apagarParcelas"} /\ passo \in Passos
    BY <1>3 DEF Pedidos, Passos
  <1>5. id \in criados  BY <1>1 DEF PInv, Tabelas, Nascidos
  <1>6. Aceita(u, p, passo)  BY <1>1
  <1> HIDE DEF p, passo
  <1>7. EmRemocao(u)'
    BY <1>3, <1>4, <1>5, <1>6, Aceitou DEF EmRemocao, SemTravas, SemDono, tabelas
  <1> QED  BY <1>4, <1>6, <1>7, AceitaConfere

LEMMA PassoEditarLinha == ASSUME PInv, NEW u \in Requisicoes, EditarLinha(u) PROVE PInv'
  <1>1. PICK k \in Chave, data \in Meses, tipo \in {"saida", "entrada"} :
          /\ linhas[k] # Nulo
          /\ linhas[k].plano # Nulo => tipo = "saida"
          /\ Aceita(u, [op |-> "editar", linha |-> k, data |-> data, tipo |-> tipo],
                    "gravarLinha")
    BY DEF EditarLinha
  <1> DEFINE p == [op |-> "editar", linha |-> k, data |-> data, tipo |-> tipo]
  <1>2. /\ p \in EdicoesDeLinha /\ p \in Pedidos /\ p.linha = k /\ p.tipo = tipo
        /\ "gravarLinha" \in Passos
    BY DEF EdicoesDeLinha, Pedidos, Passos
  <1>3. Aceita(u, p, "gravarLinha")  BY <1>1
  <1> HIDE DEF p
  <1>4. pc[k[1]] = "fim" /\ k[1] \in Requisicoes
    BY <1>1 DEF PInv, Tabelas, Autoria, Chave
  <1>5. tipo = "saida" \/ Solta(pedido[u].linha)'
    BY <1>1, <1>2, <1>3, Aceitou DEF Solta, tabelas
  <1>6. NaLinha(u)'
    BY <1>2, <1>3, <1>4, <1>5, Aceitou DEF NaLinha
  <1> QED  BY <1>2, <1>3, <1>6, AceitaConfere

LEMMA PassoPedirExclusao == ASSUME PInv, NEW u \in Requisicoes, PedirExclusao(u) PROVE PInv'
  <1>1. PICK k \in Chave :
          /\ linhas[k] # Nulo /\ linhas[k].plano = Nulo
          /\ Aceita(u, [op |-> "excluir", linha |-> k], "excluirLinha")
    BY DEF PedirExclusao
  <1> DEFINE p == [op |-> "excluir", linha |-> k]
  <1>2. p \in Exclusoes /\ p \in Pedidos /\ p.linha = k /\ "excluirLinha" \in Passos
    BY DEF Exclusoes, Pedidos, Passos
  <1>3. Aceita(u, p, "excluirLinha")  BY <1>1
  <1> HIDE DEF p
  <1>4. pc[k[1]] = "fim" /\ k[1] \in Requisicoes
    BY <1>1 DEF PInv, Tabelas, Autoria, Chave
  <1>5. Solta(pedido[u].linha)'
    BY <1>1, <1>2, <1>3, Aceitou DEF Solta, tabelas
  <1>6. NaLinha(u)'
    BY <1>2, <1>3, <1>4, <1>5, Aceitou DEF NaLinha
  <1> QED  BY <1>2, <1>3, <1>6, AceitaConfere

-------------------------------------------------------------------------------
(* The statements inside a transaction *)

\* A statement of u moves on to passo, and leaves it with these rows.
SoMuda(u, passo, a, b, c) ==
  /\ pc' = [pc EXCEPT ![u] = passo]
  /\ alvo' = [alvo EXCEPT ![u] = a]
  /\ apagadas' = [apagadas EXCEPT ![u] = b]
  /\ soltas' = [soltas EXCEPT ![u] = c]
  /\ UNCHANGED tabelas /\ pedido' = pedido /\ resposta' = resposta

LEMMA Interno ==
  ASSUME PInv, NEW u \in Requisicoes, NEW passo \in Passos,
         NEW a \in SUBSET Chave, NEW b \in SUBSET Chave, NEW c \in SUBSET Chave,
         SoMuda(u, passo, a, b, c), pc[u] # "fim",
         \/ dono' = dono
         \/ \E id \in Parcelamentos :
              dono[id] \in {u, Nulo} /\ dono' = [dono EXCEPT ![id] = u],
         \A k \in b \cup c : k \in Mexidas(u) \/ ~ Travada(k, u),
         Andamento(u)'
  PROVE  PInv'
  <1>0. /\ pc' = [pc EXCEPT ![u] = passo] /\ alvo' = [alvo EXCEPT ![u] = a]
        /\ apagadas' = [apagadas EXCEPT ![u] = b] /\ soltas' = [soltas EXCEPT ![u] = c]
        /\ UNCHANGED tabelas /\ pedido' = pedido /\ resposta' = resposta
    BY DEF SoMuda
  <1>1. /\ criados' = criados /\ planos' = planos /\ linhas' = linhas
        /\ TypeOK
    BY <1>0 DEF tabelas, PInv, Tabelas
  <1>2. \A r \in Requisicoes \ {u} : Iguais(r)
    BY <1>0, <1>1 DEF TypeOK, Iguais
  <1>3. \A id \in Parcelamentos :
          dono'[id] = dono[id] \/ {dono[id], dono'[id]} \subseteq {u, Nulo}
    BY <1>1 DEF TypeOK
  <1>4. Mexidas(u)' = b \cup c  BY <1>0, <1>1 DEF TypeOK, Mexidas
  <1>5. TypeOK'
    <2>1. /\ dono' \in [Parcelamentos -> Requisicoes \cup {Nulo}]
          /\ pc' \in [Requisicoes -> Passos]
      BY <1>0, <1>1 DEF TypeOK
    <2>2. /\ alvo' \in [Requisicoes -> SUBSET Chave]
          /\ apagadas' \in [Requisicoes -> SUBSET Chave]
          /\ soltas' \in [Requisicoes -> SUBSET Chave]
      BY <1>0, <1>1 DEF TypeOK
    <2> QED  BY <1>0, <1>1, <2>1, <2>2 DEF TypeOK
  <1> QED  BY <1>0, <1>2, <1>3, <1>4, <1>5, PassoInterno

\* What a request is after the step of Interno.
LEMMA DepoisDoInterno ==
  ASSUME TypeOK, NEW u \in Requisicoes, NEW passo, NEW a, NEW b, NEW c,
         SoMuda(u, passo, a, b, c)
  PROVE  /\ pc'[u] = passo /\ alvo'[u] = a /\ apagadas'[u] = b /\ soltas'[u] = c
         /\ pedido'[u] = pedido[u] /\ criados' = criados /\ planos' = planos
         /\ linhas' = linhas /\ Minhas(u)' = Minhas(u) /\ Mexidas(u)' = b \cup c
         /\ dono' = dono => (SemDono(u) => SemDono(u)') /\ (ComDono(u) => ComDono(u)')
         /\ (\A k \in b \cup c : k \in Mexidas(u) \/ k \in Minhas(u)) /\ Segura(u) => Segura(u)'
  <1>1. /\ pc'[u] = passo /\ alvo'[u] = a /\ apagadas'[u] = b /\ soltas'[u] = c
        /\ pedido'[u] = pedido[u]
    BY DEF TypeOK, SoMuda
  <1>2. criados' = criados /\ planos' = planos /\ linhas' = linhas  BY DEF tabelas, SoMuda
  <1>3. Minhas(u)' = Minhas(u)  BY <1>1, <1>2 DEF Minhas, ParcelasDe
  <1>4. Mexidas(u)' = b \cup c  BY <1>1 DEF Mexidas
  <1>5. dono' = dono => (SemDono(u) => SemDono(u)') /\ (ComDono(u) => ComDono(u)')
    BY <1>1, <1>2 DEF SemDono, ComDono
  <1>6. (\A k \in b \cup c : k \in Mexidas(u) \/ k \in Minhas(u)) /\ Segura(u) => Segura(u)'
    BY <1>1, <1>2, <1>4 DEF Segura, Minhas, ParcelasDe
  <1> QED  BY <1>1, <1>2, <1>3, <1>4, <1>5, <1>6

LEMMA MesmaFuncao ==
  ASSUME NEW f, NEW S, NEW D, f \in [D -> S], NEW u \in D PROVE f = [f EXCEPT ![u] = f[u]]
  OBVIOUS

LEMMA Conjuntos ==
  ASSUME PInv, NEW u \in Requisicoes
  PROVE  /\ TypeOK /\ alvo[u] \in SUBSET Chave /\ apagadas[u] \in SUBSET Chave
         /\ soltas[u] \in SUBSET Chave /\ Minhas(u) \in SUBSET Chave
         /\ alvo = [alvo EXCEPT ![u] = alvo[u]]
         /\ apagadas = [apagadas EXCEPT ![u] = apagadas[u]]
         /\ soltas = [soltas EXCEPT ![u] = soltas[u]]
         /\ pc = [pc EXCEPT ![u] = pc[u]] /\ pc[u] \in Passos
         /\ Segura(u) /\ \A k \in apagadas[u] \cup soltas[u] : k \in Mexidas(u)
  <1>1. TypeOK  BY DEF PInv, Tabelas
  <1>2. Minhas(u) \in SUBSET Chave  BY DEF Minhas, ParcelasDe
  <1>3. Segura(u)  BY DEF PInv, Andamento
  <1>4. /\ alvo \in [Requisicoes -> SUBSET Chave] /\ apagadas \in [Requisicoes -> SUBSET Chave]
        /\ soltas \in [Requisicoes -> SUBSET Chave] /\ pc \in [Requisicoes -> Passos]
    BY <1>1 DEF TypeOK
  <1>5. \A k \in apagadas[u] \cup soltas[u] : k \in Mexidas(u)  BY DEF Mexidas
  <1> QED  BY <1>1, <1>2, <1>3, <1>4, <1>5, MesmaFuncao

LEMMA NomesDosPassos ==
  /\ "apagarParcelas" \in Passos /\ "apagando" \in Passos /\ "inserirParcelas" \in Passos
  /\ "soltando" \in Passos /\ "apagarPlano" \in Passos /\ "cascata" \in Passos
  BY DEF Passos

LEMMA PassoAtualizarPlano ==
  ASSUME PInv, NEW u \in Requisicoes, AtualizarPlano(u) PROVE PInv'
  <1> DEFINE id == pedido[u].id
  <1>1. pc[u] = "atualizarPlano" /\ ~ PlanoTravado(id, u)  BY DEF AtualizarPlano
  <1>2. CASE Responde(u, "404") /\ UNCHANGED tabelas
    BY <1>1, <1>2, SoResponde DEF Respostas
  <1>3. CASE /\ planos[id] # Nulo /\ dono' = [dono EXCEPT ![id] = u]
             /\ Vai(u, "apagarParcelas")
             /\ UNCHANGED <<tabelas, pedido, alvo, apagadas, soltas, resposta>>
    <2>1. Editando(u) /\ SemTravas(u) /\ id \in Parcelamentos
      BY <1>1, Fases DEF Editando, Edicoes
    <2>2. SoMuda(u, "apagarParcelas", {}, {}, {})
      BY <1>3, <2>1, Conjuntos DEF SemTravas, Vai, SoMuda
    <2>3. dono[id] \in {u, Nulo}  BY <1>1 DEF PlanoTravado
    <2>4. ComDono(u)'
      <3>1. pedido'[u].id = id /\ planos' = planos  BY <2>2 DEF SoMuda, tabelas
      <3>2. \A i \in Parcelamentos : dono'[i] = u <=> i = id
        BY <1>3, <2>1, Conjuntos DEF SemTravas, TypeOK
      <3> QED  BY <1>3, <3>1, <3>2 DEF ComDono
    <2>5. Andamento(u)'
      <3>1. /\ pc'[u] = "apagarParcelas" /\ alvo'[u] = {} /\ apagadas'[u] = {} /\ soltas'[u] = {}
            /\ pedido'[u] = pedido[u] /\ criados' = criados /\ Mexidas(u)' = {}
        BY <2>2, Conjuntos, DepoisDoInterno
      <3> QED  BY <2>1, <2>4, <3>1 DEF Andamento, Editando, Segura
    <2>6. \E i \in Parcelamentos : dono[i] \in {u, Nulo} /\ dono' = [dono EXCEPT ![i] = u]
      BY <1>3, <2>1, <2>3
    <2>7. /\ {} \in SUBSET Chave /\ pc[u] # "fim"
          /\ \A k \in {} \cup {} : k \in Mexidas(u) \/ ~ Travada(k, u)
      BY <1>1
    <2> QED  BY <2>2, <2>5, <2>6, <2>7, NomesDosPassos, Interno
  <1> QED  BY <1>2, <1>3 DEF AtualizarPlano

\* From here on an edition knows every instalment it has to remove: no other
\* can appear.
LEMMA PassoApagarParcelas ==
  ASSUME PInv, NEW u \in Requisicoes, ApagarParcelas(u) PROVE PInv'
  <1> DEFINE a == Minhas(u) \ soltas[u]
  <1>1. /\ pc[u] = "apagarParcelas" /\ pc' = [pc EXCEPT ![u] = "apagando"]
        /\ SoMuda(u, "apagando", a, apagadas[u], soltas[u]) /\ dono' = dono
    BY Conjuntos DEF ApagarParcelas, Comeca, Vai, Minhas, SoMuda
  <1>2. a \in SUBSET Chave  BY Conjuntos
  <1> HIDE DEF a
  <1>3. /\ pc'[u] = "apagando" /\ alvo'[u] = a /\ apagadas'[u] = apagadas[u]
        /\ soltas'[u] = soltas[u] /\ pedido'[u] = pedido[u] /\ criados' = criados
        /\ Minhas(u)' = Minhas(u) /\ Segura(u)'
        /\ (SemDono(u) => SemDono(u)') /\ (ComDono(u) => ComDono(u)')
    BY <1>1, Conjuntos, DepoisDoInterno DEF Mexidas
  <1>4. Editando(u) \/ EmRemocao(u)  BY <1>1, Fases
  <1>5. CASE Editando(u)
    <2>1. a = Minhas(u)  BY <1>5 DEF Editando, a
    <2>2. ComDono(u) BY <1>1, <1>5 DEF Editando
    <2>3. Editando(u)'  BY <1>3, <1>5, <2>1, <2>2 DEF Editando
    <2>4. Andamento(u)'  BY <1>3, <2>3 DEF Andamento
    <2> QED  BY <1>1, <1>2, <2>4, Conjuntos, NomesDosPassos, Interno
  <1>6. CASE EmRemocao(u)
    <2>2. SemDono(u) BY <1>1, <1>6 DEF EmRemocao
    <2>3. EmRemocao(u)'  BY <1>3, <1>6, <2>2 DEF EmRemocao
    <2>4. Andamento(u)'  BY <1>3, <2>3 DEF Andamento
    <2> QED  BY <1>1, <1>2, <2>4, Conjuntos, NomesDosPassos, Interno
  <1> QED  BY <1>4, <1>5, <1>6

LEMMA PassoApagarLinhaVisitada ==
  ASSUME PInv, NEW u \in Requisicoes, ApagarLinhaVisitada(u) PROVE PInv'
  <1>1. PICK k \in alvo[u] :
          /\ pc[u] \in {"apagando", "cascata"} /\ ~ Travada(k, u)
          /\ alvo' = [alvo EXCEPT ![u] = alvo[u] \ {k}]
          /\ apagadas' = [apagadas EXCEPT ![u] =
                            IF k \in Minhas(u) THEN apagadas[u] \cup {k} ELSE apagadas[u]]
          /\ UNCHANGED <<tabelas, dono, pc, pedido, soltas, resposta>>
    BY DEF ApagarLinhaVisitada, Minhas
  <1> DEFINE a == alvo[u] \ {k}
             b == IF k \in Minhas(u) THEN apagadas[u] \cup {k} ELSE apagadas[u]
  <1>2. SoMuda(u, pc[u], a, b, soltas[u]) /\ dono' = dono
    BY <1>1, Conjuntos DEF SoMuda
  <1>3. a \in SUBSET Chave /\ b \in SUBSET Chave /\ k \in Chave  BY Conjuntos
  <1>4. Minhas(u) \cap (alvo[u] \cup apagadas[u]) \subseteq a \cup b
    OBVIOUS
  <1>5. \A j \in b : j \in apagadas[u] \/ (j = k /\ k \in Minhas(u))
    OBVIOUS
  <1>6. apagadas[u] \subseteq b  OBVIOUS
  <1> HIDE DEF a, b
  <1>7. /\ \A j \in b \cup soltas[u] : j \in Mexidas(u) \/ ~ Travada(j, u)
        /\ \A j \in b \cup soltas[u] : j \in Mexidas(u) \/ j \in Minhas(u)
    BY <1>1, <1>5 DEF Mexidas
  <1>8. /\ pc'[u] = pc[u] /\ alvo'[u] = a /\ apagadas'[u] = b
        /\ soltas'[u] = soltas[u] /\ pedido'[u] = pedido[u] /\ criados' = criados
        /\ planos' = planos
        /\ Minhas(u)' = Minhas(u) /\ Segura(u)' /\ Mexidas(u)' = b \cup soltas[u]
        /\ (SemDono(u) => SemDono(u)') /\ (ComDono(u) => ComDono(u)')
    BY <1>2, <1>7, Conjuntos, DepoisDoInterno
  <1>9. Editando(u) \/ EmRemocao(u)  BY <1>1, Fases
  <1>10. CASE Editando(u)
    <2>1. Minhas(u) \subseteq alvo[u] \cup apagadas[u] /\ ComDono(u)
      BY <1>1, <1>10 DEF Editando
    <2>2. Minhas(u) \subseteq a \cup b  BY <1>4, <2>1
    <2>3. Editando(u)'  BY <1>1, <1>8, <1>10, <2>1, <2>2 DEF Editando
    <2>4. Andamento(u)'  BY <1>8, <2>3 DEF Andamento
    <2>5. pc[u] # "fim"  BY <1>1
    <2> QED  BY <1>2, <1>3, <1>7, <2>4, <2>5, Conjuntos, Interno
  <1>11. CASE EmRemocao(u)
    <2>1. ASSUME pc[u] = "cascata", ComDono(u), Minhas(u) \subseteq alvo[u] \cup Mexidas(u)
          PROVE  EmRemocao(u)'
      <3>1. Minhas(u) \subseteq a \cup b \cup soltas[u]
        BY <1>4, <1>6, <2>1 DEF Mexidas
      <3> QED  BY <1>8, <1>11, <2>1, <3>1 DEF EmRemocao
    <2>2. ASSUME pc[u] = "cascata", SemDono(u), planos[pedido[u].id] = Nulo
          PROVE  EmRemocao(u)'
      BY <1>8, <1>11, <2>2 DEF EmRemocao
    <2>3. ASSUME pc[u] = "apagando", SemDono(u) PROVE EmRemocao(u)'
      BY <1>8, <1>11, <2>3 DEF EmRemocao
    <2>4. EmRemocao(u)'
      <3>1. \/ pc[u] = "cascata" /\ ComDono(u) /\ Minhas(u) \subseteq alvo[u] \cup Mexidas(u)
            \/ pc[u] = "cascata" /\ SemDono(u) /\ planos[pedido[u].id] = Nulo
            \/ pc[u] = "apagando" /\ SemDono(u)
        BY <1>1, <1>11 DEF EmRemocao
      <3> QED  BY <2>1, <2>2, <2>3, <3>1
    <2>5. Andamento(u)'  BY <1>8, <2>4 DEF Andamento
    <2>6. pc[u] # "fim"  BY <1>1
    <2> QED  BY <1>2, <1>3, <1>7, <2>5, <2>6, Conjuntos, Interno
  <1> QED  BY <1>9, <1>10, <1>11

LEMMA PassoFimDoApagar ==
  ASSUME PInv, NEW u \in Requisicoes, FimDoApagar(u) PROVE PInv'
  <1> DEFINE passo == IF pedido[u].op = "substituir" THEN "inserirParcelas" ELSE "apagarPlano"
  <1>1. /\ pc[u] = "apagando" /\ alvo[u] = {} /\ dono' = dono
        /\ SoMuda(u, passo, alvo[u], apagadas[u], soltas[u])
    BY Conjuntos DEF FimDoApagar, Termina, Vai, transacao, SoMuda
  <1>2. passo \in Passos /\ pc[u] # "fim"  BY <1>1, NomesDosPassos
  <1>3. Editando(u) \/ EmRemocao(u)  BY <1>1, Fases
  <1>4. Editando(u) => passo = "inserirParcelas"  BY DEF Editando, Edicoes
  <1>5. EmRemocao(u) => passo = "apagarPlano"  BY DEF EmRemocao, Remocoes
  <1> HIDE DEF passo
  <1>6. /\ pc'[u] = passo /\ alvo'[u] = alvo[u] /\ apagadas'[u] = apagadas[u]
        /\ soltas'[u] = soltas[u] /\ pedido'[u] = pedido[u] /\ criados' = criados
        /\ Minhas(u)' = Minhas(u) /\ Segura(u)'
        /\ (SemDono(u) => SemDono(u)') /\ (ComDono(u) => ComDono(u)')
    BY <1>1, Conjuntos, DepoisDoInterno DEF Mexidas
  <1>7. CASE Editando(u)
    <2>1. ComDono(u) /\ Minhas(u) \subseteq apagadas[u]  BY <1>1, <1>7 DEF Editando
    <2>2. Editando(u)'  BY <1>1, <1>4, <1>6, <1>7, <2>1 DEF Editando
    <2>3. Andamento(u)'  BY <1>6, <2>2 DEF Andamento
    <2> QED  BY <1>1, <1>2, <2>3, Conjuntos, Interno
  <1>8. CASE EmRemocao(u)
    <2>1. SemDono(u)  BY <1>1, <1>8 DEF EmRemocao
    <2>2. EmRemocao(u)'  BY <1>1, <1>5, <1>6, <1>8, <2>1 DEF EmRemocao
    <2>3. Andamento(u)'  BY <1>6, <2>2 DEF Andamento
    <2> QED  BY <1>1, <1>2, <2>3, Conjuntos, Interno
  <1> QED  BY <1>3, <1>7, <1>8

LEMMA PassoSoltar ==
  ASSUME PInv, NEW u \in Requisicoes, Soltar(u) PROVE PInv'
  <1> DEFINE a == {k \in Minhas(u) : AteHoje(linhas[k])}
  <1>1. /\ pc[u] = "soltar" /\ dono' = dono
        /\ SoMuda(u, "soltando", a, apagadas[u], soltas[u])
    BY Conjuntos DEF Soltar, Comeca, Vai, Minhas, SoMuda
  <1>2. a \in SUBSET Chave /\ pc[u] # "fim"  BY <1>1, Conjuntos
  <1> HIDE DEF a
  <1>3. EmRemocao(u) /\ SemTravas(u)  BY <1>1, Fases DEF EmRemocao
  <1>4. SemDono(u) /\ apagadas[u] = {}  BY <1>3 DEF SemTravas, SemDono
  <1>5. /\ pc'[u] = "soltando" /\ apagadas'[u] = {} /\ pedido'[u] = pedido[u]
        /\ criados' = criados /\ Segura(u)' /\ SemDono(u)'
    BY <1>1, <1>4, Conjuntos, DepoisDoInterno
  <1>6. Andamento(u)'  BY <1>3, <1>5 DEF Andamento, EmRemocao
  <1> QED  BY <1>1, <1>2, <1>6, Conjuntos, NomesDosPassos, Interno

LEMMA PassoSoltarLinhaVisitada ==
  ASSUME PInv, NEW u \in Requisicoes, SoltarLinhaVisitada(u) PROVE PInv'
  <1>1. PICK k \in alvo[u] :
          /\ pc[u] = "soltando" /\ ~ Travada(k, u)
          /\ alvo' = [alvo EXCEPT ![u] = alvo[u] \ {k}]
          /\ soltas' = [soltas EXCEPT ![u] =
                          IF k \in Minhas(u) /\ AteHoje(linhas[k])
                          THEN soltas[u] \cup {k} ELSE soltas[u]]
          /\ UNCHANGED <<tabelas, dono, pc, pedido, apagadas, resposta>>
    BY DEF SoltarLinhaVisitada, Minhas
  <1> DEFINE a == alvo[u] \ {k}
             c == IF k \in Minhas(u) /\ AteHoje(linhas[k]) THEN soltas[u] \cup {k}
                                                         ELSE soltas[u]
  <1>2. SoMuda(u, pc[u], a, apagadas[u], c) /\ dono' = dono
    BY <1>1, Conjuntos DEF SoMuda
  <1>3. a \in SUBSET Chave /\ c \in SUBSET Chave  BY Conjuntos
  <1>4. \A j \in c : j \in soltas[u] \/ (j = k /\ k \in Minhas(u))
    OBVIOUS
  <1> HIDE DEF a, c
  <1>5. /\ \A j \in apagadas[u] \cup c : j \in Mexidas(u) \/ ~ Travada(j, u)
        /\ \A j \in apagadas[u] \cup c : j \in Mexidas(u) \/ j \in Minhas(u)
    BY <1>1, <1>4 DEF Mexidas
  <1>6. EmRemocao(u) /\ SemDono(u) /\ apagadas[u] = {} /\ pc[u] # "fim"
    BY <1>1, Fases DEF EmRemocao
  <1>7. /\ pc'[u] = pc[u] /\ apagadas'[u] = {} /\ pedido'[u] = pedido[u]
        /\ criados' = criados /\ Segura(u)' /\ SemDono(u)'
    BY <1>2, <1>5, <1>6, Conjuntos, DepoisDoInterno
  <1>8. Andamento(u)'  BY <1>1, <1>6, <1>7 DEF Andamento, EmRemocao
  <1> QED  BY <1>2, <1>3, <1>5, <1>6, <1>8, Conjuntos, Interno

LEMMA PassoFimDoSoltar ==
  ASSUME PInv, NEW u \in Requisicoes, FimDoSoltar(u) PROVE PInv'
  <1>1. /\ pc[u] = "soltando" /\ alvo[u] = {} /\ dono' = dono
        /\ SoMuda(u, "apagarParcelas", alvo[u], apagadas[u], soltas[u])
    BY Conjuntos DEF FimDoSoltar, Termina, Vai, transacao, SoMuda
  <1>2. EmRemocao(u) /\ SemDono(u) /\ apagadas[u] = {} /\ pc[u] # "fim"
    BY <1>1, Fases DEF EmRemocao
  <1>3. /\ pc'[u] = "apagarParcelas" /\ alvo'[u] = {} /\ apagadas'[u] = {}
        /\ pedido'[u] = pedido[u] /\ criados' = criados /\ Segura(u)' /\ SemDono(u)'
    BY <1>1, <1>2, Conjuntos, DepoisDoInterno
  <1>4. Andamento(u)'  BY <1>2, <1>3 DEF Andamento, EmRemocao
  <1> QED  BY <1>1, <1>2, <1>4, Conjuntos, NomesDosPassos, Interno

\* From here on a removal has the row of the parcelamento, and the cascade
\* knows every instalment left.
LEMMA PassoApagarPlano ==
  ASSUME PInv, NEW u \in Requisicoes, ApagarPlano(u) PROVE PInv'
  <1> DEFINE id == pedido[u].id
  <1>1. pc[u] = "apagarPlano" /\ dono[id] \in {u, Nulo}
    BY DEF ApagarPlano, PlanoTravado
  <1>2. EmRemocao(u) /\ SemDono(u) /\ alvo[u] = {} /\ pc[u] # "fim" /\ id \in Parcelamentos
    BY <1>1, Fases DEF EmRemocao, Remocoes
  <1>3. CASE planos[id] = Nulo
    <2>1. dono' = dono /\ SoMuda(u, "cascata", alvo[u], apagadas[u], soltas[u])
      BY <1>3, Conjuntos DEF ApagarPlano, Vai, SoMuda
    <2>2. /\ pc'[u] = "cascata" /\ pedido'[u] = pedido[u] /\ planos' = planos
          /\ criados' = criados /\ Segura(u)' /\ SemDono(u)'
      BY <1>2, <2>1, Conjuntos, DepoisDoInterno
    <2>3. Andamento(u)'  BY <1>2, <1>3, <2>2 DEF Andamento, EmRemocao
    <2> QED  BY <1>2, <2>1, <2>3, Conjuntos, NomesDosPassos, Interno
  <1>4. CASE planos[id] # Nulo
    <2> DEFINE a == Minhas(u) \ Mexidas(u)
    <2>1. /\ dono' = [dono EXCEPT ![id] = u]
          /\ SoMuda(u, "cascata", a, apagadas[u], soltas[u])
      BY <1>4, Conjuntos DEF ApagarPlano, Vai, SoMuda, Minhas
    <2>2. a \in SUBSET Chave /\ Minhas(u) \subseteq a \cup (apagadas[u] \cup soltas[u])
      BY Conjuntos DEF Mexidas
    <2> HIDE DEF a
    <2>3. /\ pc'[u] = "cascata" /\ alvo'[u] = a /\ pedido'[u] = pedido[u] /\ planos' = planos
          /\ criados' = criados /\ Segura(u)' /\ Minhas(u)' = Minhas(u)
          /\ Mexidas(u)' = apagadas[u] \cup soltas[u]
      BY <2>1, Conjuntos, DepoisDoInterno
    <2>4. ComDono(u)'
      <3>1. \A i \in Parcelamentos : dono'[i] = u <=> i = id
        BY <1>2, <2>1, Conjuntos DEF SemDono, TypeOK
      <3> QED  BY <1>4, <2>3, <3>1 DEF ComDono
    <2>5. Andamento(u)'  BY <1>2, <2>2, <2>3, <2>4 DEF Andamento, EmRemocao
    <2>6. \E i \in Parcelamentos : dono[i] \in {u, Nulo} /\ dono' = [dono EXCEPT ![i] = u]
      BY <1>1, <1>2, <2>1
    <2>7. /\ apagadas[u] \in SUBSET Chave /\ soltas[u] \in SUBSET Chave
          /\ \A k \in apagadas[u] \cup soltas[u] : k \in Mexidas(u) \/ ~ Travada(k, u)
          /\ "cascata" \in Passos /\ a \in SUBSET Chave /\ pc[u] # "fim"
      BY <1>2, <2>2, Conjuntos, NomesDosPassos
    <2>8. SoMuda(u, "cascata", a, apagadas[u], soltas[u])  BY <2>1
    <2> HIDE DEF id
    <2> QED  BY <2>5, <2>6, <2>7, <2>8, Interno
  <1> QED  BY <1>3, <1>4

-------------------------------------------------------------------------------
(* The commits *)

LEMMA Geradas ==
  ASSUME NEW p \in Plano, NEW id \in Parcelamentos, NEW k \in GerarParcelas(p)
  PROVE  /\ k \in Chave /\ k[1] = p.autor
         /\ LinhaDaParcela(id, p, k) \in Linha
         /\ LinhaDaParcela(id, p, k).plano = id
         /\ LinhaDaParcela(id, p, k).numero = k[2]
         /\ LinhaDaParcela(id, p, k).tipo = "saida"
  <1>1. /\ p.autor \in Requisicoes /\ p.total \in 1..MaxParcelas
        /\ p.jaPagas \in 0..MaxParcelas /\ p.primeira \in Int /\ MaxParcelas \in Nat
    BY ParcelasAssumption DEF Plano, Numeros
  <1>2. PICK n \in (p.jaPagas + 1)..p.total : k = <<p.autor, n>>
    BY DEF GerarParcelas
  <1>3. n \in 1..MaxParcelas /\ n \in Int /\ n \in 0..MaxParcelas  BY <1>1, <1>2
  <1>4. k[1] = p.autor /\ k[2] = n /\ k \in Chave
    BY <1>1, <1>2, <1>3 DEF Chave, Numeros
  <1>5. p.primeira + k[2] - 1 \in Int  BY <1>1, <1>3, <1>4
  <1> QED  BY <1>3, <1>4, <1>5 DEF LinhaDaParcela, Linha

\* Whoever has the row of a parcelamento keeps it from going away.
LEMMA DonoTemPlano ==
  ASSUME PInv, NEW r \in Requisicoes, NEW id \in Parcelamentos, dono[id] = r
  PROVE  planos[id] # Nulo /\ id = pedido[r].id /\ ComDono(r)
  <1>1. ~ SemDono(r) /\ ~ SemTravas(r)  BY DEF SemDono, SemTravas
  <1>2. ComDono(r)
    BY <1>1 DEF PInv, Andamento, Parado, Editando, EmRemocao, NaLinha
  <1> QED  BY <1>2 DEF ComDono

LEMMA PassoCommit ==
  ASSUME PInv, NEW u \in Requisicoes, NEW x \in Respostas, Responde(u, x),
         Tabelas', \A r \in Requisicoes \ {u} : Preserva(r)
  PROVE  PInv'
  <1>1. TypeOK  BY DEF PInv, Tabelas
  <1>2. \A r \in Requisicoes : Andamento(r)'
    BY <1>1, RespondeLocal, Preservado DEF PInv
  <1>3. Exclusivas'
    <2>1. \A r \in Requisicoes \ {u} : Mexidas(r)' = Mexidas(r)
      BY DEF Preserva, Iguais, Mexidas
    <2>2. Mexidas(u)' = {}  BY <1>1, RespondeLocal
    <2> QED  BY <2>1, <2>2 DEF PInv, Exclusivas
  <1> QED  BY <1>2, <1>3 DEF PInv

\* The instalments of the plan p become those of the parcelamento id, and the
\* rows of D, which were all it had, are gone.
Grava(u, id, p, D) ==
  /\ id \in Parcelamentos /\ p \in Plano /\ p.autor = u /\ pc[u] # "fim"
  /\ D \subseteq Chave /\ ParcelasDe(id) \subseteq D
  /\ \A k \in D : linhas[k] # Nulo /\ linhas[k].plano = id
  /\ linhas' = [k \in Chave |-> IF k \in GerarParcelas(p) THEN LinhaDaParcela(id, p, k)
                                ELSE IF k \in D THEN Nulo
                                ELSE linhas[k]]
  /\ planos' = [planos EXCEPT ![id] = p]

LEMMA Gravacao ==
  ASSUME PInv, NEW u \in Requisicoes, NEW id, NEW p, NEW D, Grava(u, id, p, D)
  PROVE  /\ planos' \in [Parcelamentos -> Plano \cup {Nulo}]
         /\ linhas' \in [Chave -> Linha \cup {Nulo}]
         /\ planos'[id] = p /\ planos'[id] # Nulo
         /\ \A i \in Parcelamentos \ {id} : planos'[i] = planos[i]
         /\ \A k \in GerarParcelas(p) : linhas[k] = Nulo
         /\ \A k \in Chave \ (D \cup GerarParcelas(p)) : linhas'[k] = linhas[k]
         /\ \A k \in D \ GerarParcelas(p) : linhas'[k] = Nulo
         /\ ParcelasDe(id)' = GerarParcelas(p)
         /\ \A k \in GerarParcelas(p) : linhas'[k] = LinhaDaParcela(id, p, k)
         /\ \A i \in (Parcelamentos \cup {Nulo}) \ {id} : ParcelasDe(i)' = ParcelasDe(i)
  <1>1. /\ id \in Parcelamentos /\ p \in Plano /\ p.autor = u /\ pc[u] # "fim"
        /\ D \subseteq Chave /\ ParcelasDe(id) \subseteq D
        /\ \A k \in D : linhas[k] # Nulo /\ linhas[k].plano = id
        /\ linhas' = [k \in Chave |-> IF k \in GerarParcelas(p) THEN LinhaDaParcela(id, p, k)
                                      ELSE IF k \in D THEN Nulo
                                      ELSE linhas[k]]
        /\ planos' = [planos EXCEPT ![id] = p]
    BY DEF Grava
  <1>2. /\ planos \in [Parcelamentos -> Plano \cup {Nulo}]
        /\ linhas \in [Chave -> Linha \cup {Nulo}] /\ Autoria
    BY DEF PInv, Tabelas, TypeOK
  <1>3. /\ planos' \in [Parcelamentos -> Plano \cup {Nulo}]
        /\ planos'[id] = p /\ planos'[id] # Nulo
        /\ \A i \in Parcelamentos \ {id} : planos'[i] = planos[i]
    BY <1>1, <1>2, NuloAssumption
  <1>4. \A k \in GerarParcelas(p) :
          /\ k \in Chave /\ linhas[k] = Nulo
          /\ linhas'[k] = LinhaDaParcela(id, p, k)
          /\ linhas'[k] \in Linha /\ linhas'[k].plano = id
    BY <1>1, <1>2, Geradas DEF Autoria
  <1>5. /\ \A k \in Chave \ (D \cup GerarParcelas(p)) : linhas'[k] = linhas[k]
        /\ \A k \in D \ GerarParcelas(p) : linhas'[k] = Nulo
    BY <1>1
  <1>6. linhas' \in [Chave -> Linha \cup {Nulo}]
    <2>1. \A k \in Chave : linhas'[k] \in Linha \cup {Nulo}  BY <1>2, <1>4, <1>5
    <2>2. linhas' = [k \in Chave |-> linhas'[k]]  BY <1>1
    <2> QED  BY <2>1, <2>2
  <1>7. ParcelasDe(id)' = GerarParcelas(p)
    <2>1. \A k \in GerarParcelas(p) : linhas'[k] # Nulo  BY <1>4, NuloAssumption
    <2>2. \A k \in Chave \ GerarParcelas(p) :
            linhas'[k] = Nulo \/ (k \notin D /\ linhas'[k] = linhas[k])
      BY <1>5
    <2> QED  BY <1>1, <1>4, <2>1, <2>2 DEF ParcelasDe
  <1>8. \A i \in (Parcelamentos \cup {Nulo}) \ {id} : ParcelasDe(i)' = ParcelasDe(i)
    BY <1>1, <1>4, <1>5 DEF ParcelasDe
  <1> QED  BY <1>3, <1>4, <1>5, <1>6, <1>7, <1>8

\* The tables after it.
LEMMA GravacaoTabelas ==
  ASSUME PInv, NEW u \in Requisicoes, NEW id, NEW p, NEW D, Grava(u, id, p, D),
         NEW x \in Respostas, Responde(u, x),
         criados \cup {id} \subseteq criados', criados' \subseteq Parcelamentos
  PROVE  Tabelas'
  <1>1. id \in Parcelamentos /\ p \in Plano /\ p.autor = u  BY DEF Grava
  <1>2. TypeOK /\ Autoria /\ Nascidos /\ ParcelasDoPlano /\ SemOrfas /\ ParcelaESaida
    BY DEF PInv, Tabelas
  <1>3. TypeOK'  BY <1>2, RespondeLocal, Gravacao DEF TypeOK
  <1>4. \A k \in Chave : linhas'[k] = linhas[k] \/ linhas'[k] = Nulo \/ k \in GerarParcelas(p)
    BY Gravacao DEF Grava
  <1>5. \A k \in GerarParcelas(p) :
          /\ k \in Chave /\ k[1] = u /\ linhas'[k].numero = k[2] /\ linhas'[k].tipo = "saida"
    BY <1>1, Gravacao, Geradas
  <1>6. \A r \in Requisicoes : pc[r] = "fim" \/ r = u => pc'[r] = "fim"
    BY <1>2, RespondeLocal DEF Iguais
  <1>7. Autoria'
    <2> SUFFICES ASSUME NEW k \in Chave, linhas'[k] # Nulo PROVE pc'[k[1]] = "fim"
      BY DEF Autoria
    <2>1. k[1] \in Requisicoes  BY DEF Chave
    <2> QED  BY <1>2, <1>4, <1>5, <1>6, <2>1 DEF Autoria
  <1>8. Nascidos'  BY <1>2, Gravacao DEF Nascidos
  <1>9. ParcelasDoPlano'
    <2> SUFFICES ASSUME NEW i \in Parcelamentos, planos'[i] # Nulo
                 PROVE  /\ ParcelasDe(i)' = GerarParcelas(planos'[i])
                        /\ \A k \in ParcelasDe(i)' : linhas'[k].numero = k[2]
      BY DEF ParcelasDoPlano
    <2>1. CASE i = id  BY <1>5, <2>1, Gravacao
    <2>2. CASE i # id
      <3>1. planos[i] # Nulo /\ ParcelasDe(i)' = ParcelasDe(i) /\ planos'[i] = planos[i]
        BY <2>2, Gravacao
      <3>2. \A k \in ParcelasDe(i) : linhas'[k] = linhas[k]
        <4> SUFFICES ASSUME NEW k \in ParcelasDe(i) PROVE linhas'[k] = linhas[k]  OBVIOUS
        <4>1. k \in Chave /\ linhas[k] # Nulo /\ linhas[k].plano = i  BY DEF ParcelasDe
        <4>2. k \notin D  BY <2>2, <4>1 DEF Grava
        <4>3. k \notin GerarParcelas(p)  BY <4>1, Gravacao
        <4> QED  BY <4>1, <4>2, <4>3, Gravacao
      <3> QED  BY <1>2, <3>1, <3>2 DEF ParcelasDoPlano
    <2> QED  BY <2>1, <2>2
  <1>10. SemOrfas'  BY <1>2, Gravacao DEF SemOrfas
  <1>11. ParcelaESaida'  BY <1>2, <1>4, <1>5 DEF ParcelaESaida
  <1> QED  BY <1>3, <1>7, <1>8, <1>9, <1>10, <1>11 DEF Tabelas

\* What another request r keeps through it.
LEMMA GravacaoPreserva ==
  ASSUME PInv, NEW u \in Requisicoes, NEW id, NEW p, NEW D, Grava(u, id, p, D),
         NEW x \in Respostas, Responde(u, x), criados \subseteq criados',
         id \in criados => planos[id] # Nulo,
         NEW r \in Requisicoes \ {u}, dono[id] # r, D \cap Mexidas(r) = {}
  PROVE  Preserva(r)
  <1>1. id \in Parcelamentos /\ p.autor = u /\ pc[u] # "fim" /\ p \in Plano  BY DEF Grava
  <1>2. TypeOK /\ Autoria  BY DEF PInv, Tabelas
  <1>3. Iguais(r)  BY <1>2, RespondeLocal
  <1>4. \A i \in Parcelamentos : dono'[i] = r <=> dono[i] = r
    BY <1>2, RespondeLocal, ParcelasAssumption
  <1>5. \A i \in criados : planos[i] = Nulo => planos'[i] = Nulo
    BY <1>2, Gravacao DEF TypeOK
  <1>6. \A i \in Parcelamentos : dono[i] = r =>
          /\ planos[i] # Nulo => planos'[i] # Nulo
          /\ ParcelasDe(i)' \subseteq ParcelasDe(i)
    BY Gravacao
  <1>7. \A k \in Mexidas(r) : k \in Chave  BY <1>2 DEF Mexidas, TypeOK
  <1>8. \A k \in Mexidas(r) : linhas[k] # Nulo =>
          linhas'[k] # Nulo /\ linhas'[k].plano = linhas[k].plano
    BY <1>7, Gravacao
  <1>9. \A k \in Chave : pc[k[1]] = "fim" => pc'[k[1]] = "fim" /\ (Solta(k) => Solta(k)')
    <2> SUFFICES ASSUME NEW k \in Chave, pc[k[1]] = "fim"
                 PROVE  pc'[k[1]] = "fim" /\ (Solta(k) => Solta(k)')
      OBVIOUS
    <2>1. k[1] \in Requisicoes /\ k[1] # u  BY <1>1 DEF Chave
    <2>2. pc'[k[1]] = "fim"  BY <1>2, <2>1, RespondeLocal DEF Iguais
    <2>3. k \notin GerarParcelas(p)  BY <1>1, <2>1, Geradas
    <2>4. linhas'[k] = linhas[k] \/ linhas'[k] = Nulo  BY <2>3, Gravacao
    <2> QED  BY <2>2, <2>4 DEF Solta
  <1> QED  BY <1>3, <1>4, <1>5, <1>6, <1>8, <1>9 DEF Preserva

LEMMA CriarGrava ==
  ASSUME PInv, NEW u \in Requisicoes, NEW id \in Parcelamentos \ criados, NEW p \in Plano,
         pc[u] = "chegou", p.autor = u,
         planos' = [planos EXCEPT ![id] = p],
         linhas' = [k \in Chave |-> IF k \in GerarParcelas(p)
                                    THEN LinhaDaParcela(id, p, k) ELSE linhas[k]]
  PROVE  Grava(u, id, p, {}) /\ planos[id] = Nulo /\ \A r \in Requisicoes : dono[id] # r
  <1>1. planos[id] = Nulo  BY DEF PInv, Tabelas, Nascidos
  <1>2. ParcelasDe(id) = {}  BY <1>1 DEF PInv, Tabelas, SemOrfas
  <1>3. \A r \in Requisicoes : dono[id] # r  BY <1>1, DonoTemPlano
  <1> QED  BY <1>1, <1>2, <1>3 DEF Grava

LEMMA PassoCriar == ASSUME PInv, NEW u \in Requisicoes, Criar(u) PROVE PInv'
  <1>1. PICK id \in Parcelamentos \ criados, p \in Plano :
          /\ pc[u] = "chegou" /\ p.autor = u
          /\ criados' = criados \cup {id}
          /\ planos' = [planos EXCEPT ![id] = p]
          /\ linhas' = [k \in Chave |-> IF k \in GerarParcelas(p)
                                        THEN LinhaDaParcela(id, p, k) ELSE linhas[k]]
          /\ Responde(u, "ok")
    BY DEF Criar
  <1>2. Grava(u, id, p, {}) /\ \A r \in Requisicoes : dono[id] # r  BY <1>1, CriarGrava
  <1>3. "ok" \in Respostas  BY DEF Respostas
  <1>4. /\ criados \cup {id} \subseteq criados' /\ criados' \subseteq Parcelamentos
        /\ criados \subseteq criados' /\ id \notin criados
    BY <1>1 DEF PInv, Tabelas, TypeOK
  <1>5. Tabelas'  BY <1>1, <1>2, <1>3, <1>4, GravacaoTabelas
  <1>6. \A r \in Requisicoes \ {u} : Preserva(r)
    BY <1>1, <1>2, <1>3, <1>4, GravacaoPreserva
  <1> QED  BY <1>1, <1>3, <1>5, <1>6, PassoCommit

LEMMA InserirGrava ==
  ASSUME PInv, NEW u \in Requisicoes, InserirParcelas(u)
  PROVE  /\ Grava(u, pedido[u].id, pedido[u].novo, apagadas[u])
         /\ Responde(u, "ok") /\ criados' = criados
         /\ pedido[u].id \in criados /\ planos[pedido[u].id] # Nulo
         /\ dono[pedido[u].id] = u
  <1> DEFINE id == pedido[u].id
             p == pedido[u].novo
  <1>1. /\ pc[u] = "inserirParcelas" /\ planos' = [planos EXCEPT ![id] = p]
        /\ linhas' = [k \in Chave |-> IF k \in GerarParcelas(p) THEN LinhaDaParcela(id, p, k)
                                      ELSE IF k \in apagadas[u] THEN Nulo
                                      ELSE linhas[k]]
        /\ Responde(u, "ok") /\ criados' = criados
    BY DEF InserirParcelas
  <1>2. /\ pedido[u] \in Edicoes /\ p.autor = u /\ id \in criados /\ ComDono(u)
        /\ ParcelasDe(id) \subseteq apagadas[u] /\ Segura(u)
    BY <1>1, Fases DEF Editando, Andamento, Minhas
  <1>3. id \in Parcelamentos /\ p \in Plano  BY <1>2 DEF Edicoes
  <1>4. apagadas[u] \subseteq Chave  BY Conjuntos
  <1>5. \A k \in apagadas[u] : linhas[k] # Nulo /\ linhas[k].plano = id
    BY <1>2 DEF Segura, Mexidas
  <1>6. planos[id] # Nulo /\ dono[id] = u  BY <1>2, <1>3 DEF ComDono
  <1> HIDE DEF id, p
  <1>7. Grava(u, id, p, apagadas[u])  BY <1>1, <1>2, <1>3, <1>4, <1>5 DEF Grava
  <1> QED  BY <1>1, <1>2, <1>6, <1>7 DEF id, p

LEMMA PassoInserirParcelas ==
  ASSUME PInv, NEW u \in Requisicoes, InserirParcelas(u) PROVE PInv'
  <1> DEFINE id == pedido[u].id
             p == pedido[u].novo
             D == apagadas[u]
  <1>1. /\ Grava(u, id, p, D) /\ Responde(u, "ok") /\ criados' = criados
        /\ id \in criados /\ planos[id] # Nulo /\ dono[id] = u
    BY InserirGrava
  <1> HIDE DEF id, p, D
  <1>2. "ok" \in Respostas  BY DEF Respostas
  <1>3. /\ criados \cup {id} \subseteq criados' /\ criados' \subseteq Parcelamentos
        /\ criados \subseteq criados'
    BY <1>1 DEF PInv, Tabelas, TypeOK
  <1>4. Tabelas'  BY <1>1, <1>2, <1>3, GravacaoTabelas
  <1>5. \A r \in Requisicoes \ {u} : Preserva(r)
    <2> SUFFICES ASSUME NEW r \in Requisicoes \ {u} PROVE Preserva(r)  OBVIOUS
    <2>1. D \cap Mexidas(r) = {}  BY DEF PInv, Exclusivas, Mexidas, D
    <2>2. dono[id] # r  BY <1>1
    <2> QED  BY <1>1, <1>2, <1>3, <2>1, <2>2, GravacaoPreserva
  <1> QED  BY <1>1, <1>2, <1>4, <1>5, PassoCommit

-------------------------------------------------------------------------------
(* Rows that change or go away, with no new ones *)

\* The rows of S go away or leave their parcelamento, and planos loses at most
\* the parcelamento id, which then has no row left.
LEMMA PassoSemLinhaNova ==
  ASSUME PInv, NEW u \in Requisicoes, NEW x \in Respostas, Responde(u, x),
         pc[u] # "fim", criados' = criados,
         planos' \in [Parcelamentos -> Plano \cup {Nulo}],
         linhas' \in [Chave -> Linha \cup {Nulo}],
         \A k \in Chave : linhas'[k] # Nulo => linhas[k] # Nulo,
         \A i \in Parcelamentos :
           \/ planos'[i] = planos[i] /\ ParcelasDe(i)' = ParcelasDe(i)
           \/ /\ planos'[i] = Nulo /\ ParcelasDe(i)' = {}
              /\ \A r \in Requisicoes \ {u} : dono[i] # r,
         \A k \in Chave : linhas'[k] # Nulo /\ linhas'[k].plano # Nulo =>
           /\ linhas'[k].plano = linhas[k].plano /\ linhas'[k].numero = linhas[k].numero
           /\ linhas'[k].tipo = linhas[k].tipo \/ linhas'[k].tipo = "saida",
         \A r \in Requisicoes \ {u} : \A k \in Mexidas(r) : linhas[k] # Nulo =>
           linhas'[k] # Nulo /\ linhas'[k].plano = linhas[k].plano
  PROVE  PInv'
  <1>1. TypeOK /\ Autoria /\ Nascidos /\ ParcelasDoPlano /\ SemOrfas /\ ParcelaESaida
    BY DEF PInv, Tabelas
  <1>2. TypeOK'  BY <1>1, RespondeLocal DEF TypeOK
  <1>3. \A r \in Requisicoes : pc[r] = "fim" \/ r = u => pc'[r] = "fim"
    BY <1>1, RespondeLocal DEF Iguais
  <1>4. \A k \in Chave : k[1] \in Requisicoes  BY DEF Chave
  <1>5. Autoria'  BY <1>1, <1>3, <1>4 DEF Autoria
  <1>6. Nascidos'  BY <1>1 DEF Nascidos
  <1>7. ParcelasDoPlano'
    <2> SUFFICES ASSUME NEW i \in Parcelamentos, planos'[i] # Nulo
                 PROVE  /\ ParcelasDe(i)' = GerarParcelas(planos'[i])
                        /\ \A k \in ParcelasDe(i)' : linhas'[k].numero = k[2]
      BY DEF ParcelasDoPlano
    <2>1. planos'[i] = planos[i] /\ ParcelasDe(i)' = ParcelasDe(i)  OBVIOUS
    <2>2. \A k \in ParcelasDe(i)' : linhas'[k].numero = linhas[k].numero
      BY ParcelasAssumption DEF ParcelasDe
    <2> QED  BY <1>1, <2>1, <2>2 DEF ParcelasDoPlano
  <1>8. SemOrfas'  BY <1>1 DEF SemOrfas
  <1>9. ParcelaESaida'  BY <1>1 DEF ParcelaESaida
  <1>10. Tabelas'  BY <1>2, <1>5, <1>6, <1>7, <1>8, <1>9 DEF Tabelas
  <1>11. \A r \in Requisicoes \ {u} : Preserva(r)
    <2> SUFFICES ASSUME NEW r \in Requisicoes \ {u} PROVE Preserva(r)  OBVIOUS
    <2>1. Iguais(r) /\ \A i \in Parcelamentos : dono'[i] = r <=> dono[i] = r
      BY <1>1, RespondeLocal, ParcelasAssumption
    <2>2. \A i \in criados : planos[i] = Nulo => planos'[i] = Nulo
      BY <1>1 DEF TypeOK
    <2>3. \A i \in Parcelamentos : dono[i] = r =>
            /\ planos[i] # Nulo => planos'[i] # Nulo
            /\ ParcelasDe(i)' \subseteq ParcelasDe(i)
      OBVIOUS
    <2>4. \A k \in Chave : pc[k[1]] = "fim" => pc'[k[1]] = "fim" /\ (Solta(k) => Solta(k)')
      BY <1>3, <1>4 DEF Solta
    <2> QED  BY <2>1, <2>2, <2>3, <2>4 DEF Preserva
  <1> QED  BY <1>10, <1>11, PassoCommit

LEMMA LinhaSolta ==
  ASSUME NEW l \in Linha
  PROVE  /\ [l EXCEPT !.plano = Nulo, !.numero = 0] \in Linha
         /\ [l EXCEPT !.plano = Nulo, !.numero = 0].plano = Nulo
  <1>1. 0 \in 0..MaxParcelas  BY ParcelasAssumption
  <1> DEFINE N == 0..MaxParcelas
  <1>2. 0 \in N  BY <1>1
  <1>3. Linha = [plano : Parcelamentos \cup {Nulo}, numero : N, data : Int,
                 tipo : {"saida", "entrada"}, editada : BOOLEAN]
    BY DEF Linha
  <1> HIDE DEF N
  <1> QED  BY <1>2, <1>3

\* The removal commits: every instalment left of the parcelamento is among the
\* rows it removed or detached.
LEMMA RemoverConfere ==
  ASSUME PInv, NEW u \in Requisicoes, Remover(u)
  PROVE  LET id == pedido[u].id IN
         /\ id \in Parcelamentos /\ pc[u] = "cascata" /\ Responde(u, "ok") /\ criados' = criados
         /\ planos' = [planos EXCEPT ![id] = Nulo]
         /\ planos' \in [Parcelamentos -> Plano \cup {Nulo}]
         /\ linhas' \in [Chave -> Linha \cup {Nulo}]
         /\ ParcelasDe(id) = Mexidas(u)
         /\ \A k \in Chave \ Mexidas(u) : linhas'[k] = linhas[k]
         /\ \A k \in apagadas[u] : linhas'[k] = Nulo
         /\ \A k \in soltas[u] \ apagadas[u] : linhas'[k] # Nulo /\ linhas'[k].plano = Nulo
         /\ \A r \in Requisicoes \ {u} : dono[id] # r \/ planos[id] = Nulo
  <1> DEFINE id == pedido[u].id
             solta(k) == [linhas[k] EXCEPT !.plano = Nulo, !.numero = 0]
  <1>1. /\ pc[u] = "cascata" /\ alvo[u] = {} /\ Responde(u, "ok") /\ criados' = criados
        /\ planos' = [planos EXCEPT ![id] = Nulo]
        /\ linhas' = [k \in Chave |-> IF k \in apagadas[u] THEN Nulo
                                      ELSE IF k \in soltas[u] THEN solta(k)
                                      ELSE linhas[k]]
    BY DEF Remover
  <1>2. EmRemocao(u) /\ Segura(u) /\ TypeOK  BY <1>1, Fases, Conjuntos DEF Andamento
  <1>3. id \in Parcelamentos  BY <1>2 DEF EmRemocao, Remocoes
  <1>4. Mexidas(u) \subseteq Chave  BY Conjuntos DEF Mexidas
  <1>5. Mexidas(u) \subseteq ParcelasDe(id)  BY <1>2, <1>4 DEF Segura, ParcelasDe
  <1>6. ParcelasDe(id) \subseteq Mexidas(u)
    <2>1. CASE planos[id] = Nulo  BY <1>3, <2>1 DEF PInv, Tabelas, SemOrfas
    <2>2. CASE planos[id] # Nulo
      BY <1>1, <1>2, <2>2 DEF EmRemocao, Minhas
    <2> QED  BY <2>1, <2>2
  <1>7. \A k \in soltas[u] : k \in Chave /\ solta(k) \in Linha /\ solta(k).plano = Nulo
    <2> SUFFICES ASSUME NEW k \in soltas[u]
                 PROVE  k \in Chave /\ solta(k) \in Linha /\ solta(k).plano = Nulo
      OBVIOUS
    <2>1. k \in Chave /\ linhas[k] \in Linha
      BY <1>2, <1>4 DEF Mexidas, Segura, TypeOK
    <2> QED  BY <2>1, LinhaSolta
  <1> HIDE DEF solta
  <1>8. linhas' \in [Chave -> Linha \cup {Nulo}]
    BY <1>1, <1>2, <1>7 DEF TypeOK
  <1>9. planos' \in [Parcelamentos -> Plano \cup {Nulo}]
    BY <1>1, <1>2 DEF TypeOK
  <1>10. /\ \A k \in Chave \ Mexidas(u) : linhas'[k] = linhas[k]
         /\ \A k \in apagadas[u] : linhas'[k] = Nulo
         /\ \A k \in soltas[u] \ apagadas[u] : linhas'[k] = solta(k)
    BY <1>1, <1>4, <1>7 DEF Mexidas
  <1>11. \A k \in soltas[u] : solta(k) # Nulo  BY <1>7, NuloAssumption
  <1>12. \A r \in Requisicoes \ {u} : dono[id] # r \/ planos[id] = Nulo
    BY <1>1, <1>2, <1>3 DEF EmRemocao, ComDono
  <1> QED  BY <1>1, <1>3, <1>5, <1>6, <1>7, <1>8, <1>9, <1>10, <1>11, <1>12

LEMMA PassoRemover ==
  ASSUME PInv, NEW u \in Requisicoes, Remover(u) PROVE PInv'
  <1>1. PICK id \in Parcelamentos :
        /\ pc[u] = "cascata" /\ Responde(u, "ok") /\ criados' = criados
        /\ planos' = [planos EXCEPT ![id] = Nulo]
        /\ planos' \in [Parcelamentos -> Plano \cup {Nulo}]
        /\ linhas' \in [Chave -> Linha \cup {Nulo}]
        /\ ParcelasDe(id) = Mexidas(u)
        /\ \A k \in Chave \ Mexidas(u) : linhas'[k] = linhas[k]
        /\ \A k \in apagadas[u] : linhas'[k] = Nulo
        /\ \A k \in soltas[u] \ apagadas[u] : linhas'[k] # Nulo /\ linhas'[k].plano = Nulo
        /\ \A r \in Requisicoes \ {u} : dono[id] # r \/ planos[id] = Nulo
    BY RemoverConfere
  <1>2. "ok" \in Respostas  BY DEF Respostas
  <1>3. \A k \in Mexidas(u) : k \in Chave /\ (linhas'[k] # Nulo => linhas'[k].plano = Nulo)
    BY <1>1, Conjuntos DEF Mexidas
  <1>4. \A k \in Mexidas(u) : linhas[k] # Nulo  BY Conjuntos DEF Segura
  <1>5. \A k \in Chave : linhas'[k] # Nulo => linhas[k] # Nulo
    BY <1>1, <1>4
  <1>6. \A k \in Chave : linhas'[k] # Nulo /\ linhas'[k].plano # Nulo =>
          linhas'[k] = linhas[k]
    BY <1>1, <1>3
  <1>7. ParcelasDe(id)' = {}
    <2> SUFFICES ASSUME NEW k \in ParcelasDe(id)' PROVE FALSE  OBVIOUS
    <2>1. k \in Chave /\ linhas'[k] # Nulo /\ linhas'[k].plano = id  BY DEF ParcelasDe
    <2>2. linhas'[k] = linhas[k]  BY <1>1, <1>6, <2>1, ParcelasAssumption
    <2>3. k \in ParcelasDe(id)  BY <2>1, <2>2 DEF ParcelasDe
    <2> QED  BY <1>1, <1>3, <2>1, <2>3, ParcelasAssumption
  <1>8. \A i \in Parcelamentos \ {id} : ParcelasDe(i)' = ParcelasDe(i)
    <2> SUFFICES ASSUME NEW i \in Parcelamentos \ {id}, NEW k \in Chave
                 PROVE  linhas'[k] # Nulo /\ linhas'[k].plano = i <=>
                          linhas[k] # Nulo /\ linhas[k].plano = i
      BY DEF ParcelasDe
    <2>1. CASE k \in Mexidas(u)
      <3>1. linhas[k].plano = id  BY <1>1, <2>1 DEF ParcelasDe
      <3> QED  BY <1>3, <2>1, <3>1, ParcelasAssumption
    <2>2. CASE k \notin Mexidas(u)  BY <1>1, <2>2
    <2> QED  BY <2>1, <2>2
  <1>9. planos'[id] = Nulo /\ \A i \in Parcelamentos \ {id} : planos'[i] = planos[i]
    BY <1>1 DEF PInv, Tabelas, TypeOK
  <1>10. \A i \in Parcelamentos :
           \/ planos'[i] = planos[i] /\ ParcelasDe(i)' = ParcelasDe(i)
           \/ /\ planos'[i] = Nulo /\ ParcelasDe(i)' = {}
              /\ \A r \in Requisicoes \ {u} : dono[i] # r
    <2> SUFFICES ASSUME NEW i \in Parcelamentos
                 PROVE  \/ planos'[i] = planos[i] /\ ParcelasDe(i)' = ParcelasDe(i)
                        \/ /\ planos'[i] = Nulo /\ ParcelasDe(i)' = {}
                           /\ \A r \in Requisicoes \ {u} : dono[i] # r
      OBVIOUS
    <2>1. CASE i = id /\ planos[id] = Nulo
      <3>1. ParcelasDe(id) = {}  BY <2>1 DEF PInv, Tabelas, SemOrfas
      <3> QED  BY <1>7, <1>9, <2>1, <3>1
    <2>2. CASE i = id /\ planos[id] # Nulo  BY <1>1, <1>7, <1>9, <2>2
    <2>3. CASE i # id  BY <1>8, <1>9, <2>3
    <2> QED  BY <2>1, <2>2, <2>3
  <1>11. \A r \in Requisicoes \ {u} : \A k \in Mexidas(r) : linhas[k] # Nulo =>
           linhas'[k] # Nulo /\ linhas'[k].plano = linhas[k].plano
    <2> SUFFICES ASSUME NEW r \in Requisicoes \ {u}, NEW k \in Mexidas(r)
                 PROVE  linhas'[k] = linhas[k]
      OBVIOUS
    <2>1. k \in Chave  BY Conjuntos DEF Mexidas
    <2>2. k \notin Mexidas(u)  BY DEF PInv, Exclusivas
    <2> QED  BY <1>1, <2>1, <2>2
  <1> QED  BY <1>1, <1>2, <1>5, <1>6, <1>10, <1>11, PassoSemLinhaNova

\* One transaction edited: its row stays where it was.
LEMMA PassoGravarLinha ==
  ASSUME PInv, NEW u \in Requisicoes, GravarLinha(u) PROVE PInv'
  <1> DEFINE k == pedido[u].linha
             l == linhas[k]
             nova == [l EXCEPT !.data = pedido[u].data, !.tipo = pedido[u].tipo,
                               !.editada = TRUE]
             x == IF l = Nulo THEN "404" ELSE "ok"
  <1>1. /\ pc[u] = "gravarLinha" /\ ~ Travada(k, u) /\ Responde(u, x)
        /\ linhas' = [linhas EXCEPT ![k] = IF l = Nulo THEN Nulo ELSE nova]
        /\ criados' = criados /\ planos' = planos
    BY DEF GravarLinha
  <1>2. x \in Respostas  BY DEF Respostas
  <1>3. /\ pedido[u] \in EdicoesDeLinha /\ SemTravas(u)
        /\ pedido[u].tipo = "saida" \/ Solta(k)
    BY <1>1, Fases DEF NaLinha
  <1>4. k \in Chave /\ pedido[u].data \in Int /\ pedido[u].tipo \in {"saida", "entrada"}
    BY <1>3, ParcelasAssumption DEF EdicoesDeLinha
  <1>5. /\ linhas \in [Chave -> Linha \cup {Nulo}]
        /\ planos \in [Parcelamentos -> Plano \cup {Nulo}]
    BY DEF PInv, Tabelas, TypeOK
  <1>6. l # Nulo => /\ l \in Linha /\ nova \in Linha /\ nova # Nulo
                    /\ nova.plano = l.plano /\ nova.numero = l.numero
                    /\ nova.tipo = pedido[u].tipo
    BY <1>4, <1>5, NuloAssumption DEF Linha
  <1>7. l = Nulo \/ l.plano = Nulo \/ pedido[u].tipo = "saida"
    BY <1>3 DEF Solta
  <1> HIDE DEF nova, x
  <1>8. /\ linhas' \in [Chave -> Linha \cup {Nulo}]
        /\ linhas'[k] = IF l = Nulo THEN Nulo ELSE nova
        /\ \A j \in Chave \ {k} : linhas'[j] = linhas[j]
    BY <1>1, <1>4, <1>5, <1>6
  <1> HIDE DEF k
  <1>9. \A j \in Chave : /\ linhas'[j] # Nulo <=> linhas[j] # Nulo
                         /\ linhas[j] # Nulo => /\ linhas'[j].plano = linhas[j].plano
                                                /\ linhas'[j].numero = linhas[j].numero
    BY <1>4, <1>6, <1>8
  <1>10. \A j \in Chave : linhas'[j] # Nulo /\ linhas'[j].plano # Nulo =>
           linhas'[j].tipo = linhas[j].tipo \/ linhas'[j].tipo = "saida"
    BY <1>4, <1>6, <1>7, <1>8
  <1>11. \A i \in Parcelamentos : planos'[i] = planos[i] /\ ParcelasDe(i)' = ParcelasDe(i)
    BY <1>1, <1>9 DEF ParcelasDe
  <1>12. \A r \in Requisicoes \ {u} : \A j \in Mexidas(r) : linhas[j] # Nulo =>
           linhas'[j] # Nulo /\ linhas'[j].plano = linhas[j].plano
    BY <1>9, Conjuntos DEF Mexidas
  <1>13. pc[u] # "fim"  BY <1>1
  <1>14. planos' \in [Parcelamentos -> Plano \cup {Nulo}]  BY <1>1, <1>5
  <1> HIDE DEF l
  <1> QED  BY <1>1, <1>2, <1>8, <1>9, <1>10, <1>11, <1>12, <1>13, <1>14, PassoSemLinhaNova

\* What a deletion removes was loose when it was asked for, and a loose row
\* never enters a parcelamento.
LEMMA ExcluirConfere ==
  ASSUME PInv, NEW u \in Requisicoes, ExcluirLinha(u)
  PROVE  LET k == pedido[u].linha IN
         /\ k \in Chave /\ Solta(k) /\ linhas' = [linhas EXCEPT ![k] = Nulo]
         /\ linhas'[k] = Nulo /\ \A j \in Chave \ {k} : linhas'[j] = linhas[j]
         /\ criados' = criados /\ planos' = planos
         /\ \A i \in Parcelamentos : ParcelasDe(i)' = ParcelasDe(i)
  <1> DEFINE k == pedido[u].linha
  <1>1. /\ pc[u] = "excluirLinha" /\ linhas' = [linhas EXCEPT ![k] = Nulo]
        /\ criados' = criados /\ planos' = planos
    BY DEF ExcluirLinha
  <1>2. pedido[u] \in Exclusoes /\ Solta(k)  BY <1>1, Fases DEF NaLinha
  <1>3. k \in Chave  BY <1>2 DEF Exclusoes
  <1>4. linhas'[k] = Nulo /\ \A j \in Chave \ {k} : linhas'[j] = linhas[j]
    BY <1>1, <1>3 DEF PInv, Tabelas, TypeOK
  <1> HIDE DEF k
  <1>5. \A i \in Parcelamentos : ParcelasDe(i)' = ParcelasDe(i)
    BY <1>2, <1>4, ParcelasAssumption DEF ParcelasDe, Solta
  <1> QED  BY <1>1, <1>2, <1>3, <1>4, <1>5 DEF k

LEMMA PassoExcluirLinha ==
  ASSUME PInv, NEW u \in Requisicoes, ExcluirLinha(u) PROVE PInv'
  <1> DEFINE k == pedido[u].linha
             x == IF linhas[k] = Nulo THEN "404" ELSE "ok"
  <1>1. pc[u] = "excluirLinha" /\ ~ Travada(k, u) /\ Responde(u, x)
    BY DEF ExcluirLinha
  <1>2. x \in Respostas  BY DEF Respostas
  <1>3. /\ k \in Chave /\ Solta(k) /\ linhas' = [linhas EXCEPT ![k] = Nulo]
        /\ linhas'[k] = Nulo /\ \A j \in Chave \ {k} : linhas'[j] = linhas[j]
        /\ criados' = criados /\ planos' = planos
        /\ \A i \in Parcelamentos : ParcelasDe(i)' = ParcelasDe(i)
    BY ExcluirConfere
  <1> HIDE DEF k, x
  <1>4. /\ linhas' \in [Chave -> Linha \cup {Nulo}]
        /\ planos' \in [Parcelamentos -> Plano \cup {Nulo}]
    BY <1>3 DEF PInv, Tabelas, TypeOK
  <1>5. \A j \in Chave : linhas'[j] # Nulo => linhas'[j] = linhas[j]
    BY <1>3
  <1>6. \A r \in Requisicoes \ {u} : \A j \in Mexidas(r) : linhas[j] # Nulo =>
           linhas'[j] # Nulo /\ linhas'[j].plano = linhas[j].plano
    <2> SUFFICES ASSUME NEW r \in Requisicoes \ {u}, NEW j \in Mexidas(r)
                 PROVE  linhas'[j] = linhas[j]
      OBVIOUS
    <2>1. j \in Chave  BY Conjuntos DEF Mexidas
    <2>2. j # k  BY <1>1 DEF Travada, TravadaPor
    <2> QED  BY <1>3, <2>1, <2>2
  <1>7. pc[u] # "fim"  BY <1>1
  <1>8. \A i \in Parcelamentos : planos'[i] = planos[i] /\ ParcelasDe(i)' = ParcelasDe(i)
    BY <1>3
  <1> QED  BY <1>1, <1>2, <1>3, <1>4, <1>5, <1>6, <1>7, <1>8, PassoSemLinhaNova

-------------------------------------------------------------------------------
(* Every step *)

LEMMA PInit == Init => PInv
  <1> SUFFICES ASSUME Init PROVE PInv  OBVIOUS
  <1>1. /\ criados = {} /\ \A id \in Parcelamentos : planos[id] = Nulo /\ dono[id] = Nulo
        /\ \A k \in Chave : linhas[k] = Nulo
        /\ \A r \in Requisicoes :
             /\ pc[r] = "chegou" /\ alvo[r] = {} /\ apagadas[r] = {} /\ soltas[r] = {}
    BY DEF Init
  <1>2. TypeOK  BY DEF Init, TypeOK, Passos, Respostas
  <1>3. \A id \in Parcelamentos : ParcelasDe(id) = {}  BY <1>1 DEF ParcelasDe
  <1>4. Tabelas
    BY <1>1, <1>2, <1>3
    DEF Tabelas, Autoria, Nascidos, ParcelasDoPlano, SemOrfas, ParcelaESaida
  <1>5. \A r \in Requisicoes : Mexidas(r) = {} /\ SemTravas(r)
    BY <1>1, ParcelasAssumption DEF Mexidas, SemTravas
  <1>6. \A r \in Requisicoes : Andamento(r)
    BY <1>1, <1>5 DEF Andamento, Parado, Segura
  <1>7. Exclusivas  BY <1>5 DEF Exclusivas
  <1> QED  BY <1>4, <1>6, <1>7 DEF PInv

LEMMA PassoChega ==
  ASSUME PInv, NEW u \in Requisicoes, Chega(u) PROVE PInv'
  <1>1. CASE RecusarExclusao(u)
    <2>1. /\ pc[u] = "chegou" /\ Responde(u, "409") /\ UNCHANGED tabelas
      BY <1>1 DEF RecusarExclusao
    <2>2. "409" \in Respostas  BY DEF Respostas
    <2>3. pc[u] # "fim"  BY <2>1
    <2> QED  BY <2>1, <2>2, <2>3, SoResponde
  <1> QED
    BY <1>1, PassoCriar, PassoLer, PassoVerExiste, PassoEditarLinha, PassoPedirExclusao
    DEF Chega

LEMMA PassoServido ==
  ASSUME PInv, NEW u \in Requisicoes, Passo(u) PROVE PInv'
  BY PassoAtualizarPlano, PassoApagarParcelas, PassoApagarLinhaVisitada,
     PassoFimDoApagar, PassoInserirParcelas, PassoSoltar, PassoSoltarLinhaVisitada,
     PassoFimDoSoltar, PassoApagarPlano, PassoRemover, PassoGravarLinha,
     PassoExcluirLinha DEF Passo

\* A transaction that falls, or that the deadlock detector ends, leaves the
\* tables as they were.
LEMMA PassoPerdido ==
  ASSUME PInv, NEW u \in Requisicoes, Cair(u) \/ Impasse(u)
  PROVE  PInv' /\ UNCHANGED tabelas
  <1>1. Responde(u, "erro") /\ UNCHANGED tabelas  BY DEF Cair, Impasse
  <1>2. pc[u] # "fim"
    <2>1. CASE Cair(u)  BY <2>1 DEF Cair
    <2>2. CASE Impasse(u)
      <3>1. PICK G \in SUBSET Requisicoes : u \in G /\ Circulo(G)  BY <2>2 DEF Impasse
      <3>2. PICK v \in G : Espera(u, v)  BY <3>1 DEF Circulo
      <3> QED  BY <3>2 DEF Espera, EsperaPlano, EsperaLinha
    <2> QED  BY <2>1, <2>2
  <1>3. "erro" \in Respostas  BY DEF Respostas
  <1> QED  BY <1>1, <1>2, <1>3, SoResponde

LEMMA Parada ==
  ASSUME PInv, UNCHANGED vars PROVE PInv'
  <1>1. TypeOK  BY DEF PInv, Tabelas
  <1>2. TypeOK'  BY <1>1 DEF TypeOK, vars
  <1>3. /\ criados' = criados /\ planos' = planos /\ linhas' = linhas /\ dono' = dono
        /\ pc' = pc /\ pedido' = pedido /\ alvo' = alvo /\ apagadas' = apagadas
        /\ soltas' = soltas
    BY DEF vars
  <1>4. \A i \in Parcelamentos : ParcelasDe(i)' = ParcelasDe(i)  BY <1>3 DEF ParcelasDe
  <1>5. \A r \in Requisicoes : Preserva(r)
    BY <1>3, <1>4 DEF Preserva, Iguais, Solta
  <1>6. \A r \in Requisicoes : Andamento(r)'  BY <1>1, <1>5, Preservado DEF PInv
  <1>7. Tabelas'
    BY <1>2, <1>3, <1>4
    DEF PInv, Tabelas, Autoria, Nascidos, ParcelasDoPlano, SemOrfas, ParcelaESaida
  <1>8. Exclusivas'  BY <1>3 DEF PInv, Exclusivas, Mexidas
  <1> QED  BY <1>6, <1>7, <1>8 DEF PInv

LEMMA PNext == PInv /\ [Next]_vars => PInv'
  <1> SUFFICES ASSUME PInv, [Next]_vars PROVE PInv'  OBVIOUS
  <1>1. CASE UNCHANGED vars  BY <1>1, Parada
  <1>2. CASE Next
    <2>1. PICK u \in Requisicoes : Chega(u) \/ Passo(u) \/ Cair(u) \/ Impasse(u)
      BY <1>2 DEF Next
    <2> QED  BY <2>1, PassoChega, PassoServido, PassoPerdido
  <1> QED  BY <1>1, <1>2

-------------------------------------------------------------------------------
(* What every behaviour has *)

\* PInv holds at every state: it is inductive.
THEOREM Invariante == Spec => []PInv
  <1> QED  BY PInit, PNext, PTL DEF Spec

\* The tables and the requests in progress have their types: numero stays
\* between 0 and MaxParcelas, and nothing but a row of the tables is locked.
THEOREM TiposCorretos == Spec => []TypeOK
  <1>1. PInv => TypeOK  BY DEF PInv, Tabelas
  <1> QED  BY <1>1, Invariante, PTL

\* The instalments of a parcelamento are those of its plan, whatever editions
\* and removals run together (Update and Delete of ParcelamentoRepository).
THEOREM ParcelasSaoDoPlano == Spec => []ParcelasDoPlano
  <1>1. PInv => ParcelasDoPlano  BY DEF PInv, Tabelas
  <1> QED  BY <1>1, Invariante, PTL

\* The cascade leaves no instalment behind, however late it was written.
THEOREM NaoHaOrfas == Spec => []SemOrfas
  <1>1. PInv => SemOrfas  BY DEF PInv, Tabelas
  <1> QED  BY <1>1, Invariante, PTL

\* An instalment is never turned into an income: what Aplicar checked on the
\* row it read still holds of the row the UPDATE finds.
THEOREM ParcelaSempreSaida == Spec => []ParcelaESaida
  <1>1. PInv => ParcelaESaida  BY DEF PInv, Tabelas
  <1> QED  BY <1>1, Invariante, PTL

-------------------------------------------------------------------------------
(* Every commit is one operation of ParcelamentoAtomico *)

PorPlano == [id \in Parcelamentos |-> ParcelasDe(id)]

\* The instalments of one parcelamento change, and no other's.
LEMMA SoUma ==
  ASSUME NEW id \in Parcelamentos, NEW S, ParcelasDe(id)' = S,
         \A i \in Parcelamentos \ {id} : ParcelasDe(i)' = ParcelasDe(i)
  PROVE  PorPlano' = [PorPlano EXCEPT ![id] = S]
  BY DEF PorPlano

LEMMA GravarRefina ==
  ASSUME PInv, NEW u \in Requisicoes, NEW id, NEW p, NEW D, Grava(u, id, p, D)
  PROVE  Atomico!Gravar(id, p)
  <1>1. id \in Parcelamentos /\ planos' = [planos EXCEPT ![id] = p]  BY DEF Grava
  <1>2. PorPlano' = [PorPlano EXCEPT ![id] = GerarParcelas(p)]
    BY <1>1, Gravacao, SoUma
  <1>3. ParcelasDe(Nulo)' = ParcelasDe(Nulo)
    BY <1>1, Gravacao, ParcelasAssumption
  <1>4. Atomico!GerarParcelas(p) = GerarParcelas(p)
    BY DEF GerarParcelas, Atomico!GerarParcelas
  <1> QED  BY <1>1, <1>2, <1>3, <1>4 DEF Atomico!Gravar, PorPlano

LEMMA CriarRefina ==
  ASSUME PInv, NEW u \in Requisicoes, Criar(u) PROVE Atomico!Next
  <1>1. PICK id \in Parcelamentos \ criados, p \in Plano :
          /\ pc[u] = "chegou" /\ p.autor = u
          /\ criados' = criados \cup {id}
          /\ planos' = [planos EXCEPT ![id] = p]
          /\ linhas' = [k \in Chave |-> IF k \in GerarParcelas(p)
                                        THEN LinhaDaParcela(id, p, k) ELSE linhas[k]]
    BY DEF Criar
  <1>2. Grava(u, id, p, {})  BY <1>1, CriarGrava
  <1>3. Atomico!Registrar(id, p)  BY <1>1, <1>2, GravarRefina DEF Atomico!Registrar
  <1>4. Atomico!Plano = Plano  BY DEF Plano, Atomico!Plano, Numeros, Atomico!Numeros
  <1> QED  BY <1>1, <1>3, <1>4 DEF Atomico!Next

LEMMA InserirRefina ==
  ASSUME PInv, NEW u \in Requisicoes, InserirParcelas(u) PROVE Atomico!Next
  <1>1. PICK id, p : /\ Grava(u, id, p, apagadas[u]) /\ criados' = criados
                     /\ planos[id] # Nulo
    BY InserirGrava
  <1>2. id \in Parcelamentos /\ p \in Plano  BY <1>1 DEF Grava
  <1>3. Atomico!Editar(id, p)  BY <1>1, GravarRefina DEF Atomico!Editar
  <1>4. Atomico!Plano = Plano  BY DEF Plano, Atomico!Plano, Numeros, Atomico!Numeros
  <1> QED  BY <1>2, <1>3, <1>4 DEF Atomico!Next

LEMMA RemoverRefina ==
  ASSUME PInv, NEW u \in Requisicoes, Remover(u)
  PROVE  Atomico!Next \/ UNCHANGED Atomico!vars
  <1>1. PICK id \in Parcelamentos :
        /\ criados' = criados
        /\ planos' = [planos EXCEPT ![id] = Nulo]
        /\ ParcelasDe(id) = Mexidas(u)
        /\ \A k \in Chave \ Mexidas(u) : linhas'[k] = linhas[k]
        /\ \A k \in apagadas[u] : linhas'[k] = Nulo
        /\ \A k \in soltas[u] \ apagadas[u] : linhas'[k] # Nulo /\ linhas'[k].plano = Nulo
    BY RemoverConfere
  <1> DEFINE m == soltas[u] \ apagadas[u]
  <1>2. /\ m \subseteq Mexidas(u) /\ m \in SUBSET Chave /\ Mexidas(u) \subseteq Chave
        /\ \A k \in Mexidas(u) \ m : linhas'[k] = Nulo
        /\ \A k \in m : linhas'[k] # Nulo /\ linhas'[k].plano = Nulo
    BY <1>1, Conjuntos DEF Mexidas
  <1>3. \A k \in Mexidas(u) : linhas[k] # Nulo /\ linhas[k].plano = id
    BY <1>1 DEF ParcelasDe
  <1> HIDE DEF m
  <1>4. ParcelasDe(id)' = {}  BY <1>1, <1>2, <1>3, ParcelasAssumption DEF ParcelasDe
  <1>5. \A i \in Parcelamentos \ {id} : ParcelasDe(i)' = ParcelasDe(i)
    BY <1>1, <1>2, <1>3, ParcelasAssumption DEF ParcelasDe
  <1>6. ParcelasDe(Nulo)' = ParcelasDe(Nulo) \cup m
    BY <1>1, <1>2, <1>3, ParcelasAssumption DEF ParcelasDe
  <1>7. PorPlano' = [PorPlano EXCEPT ![id] = {}]  BY <1>4, <1>5, SoUma
  <1>8. CASE planos[id] # Nulo
    <2>1. m \subseteq PorPlano[id]  BY <1>1, <1>2 DEF PorPlano
    <2>2. Atomico!Remover(id, m)
      BY <1>1, <1>6, <1>7, <1>8, <2>1 DEF Atomico!Remover, PorPlano
    <2>3. m \in SUBSET Atomico!Chave  BY <1>2 DEF Chave, Numeros, Atomico!Chave, Atomico!Numeros
    <2> QED  BY <2>2, <2>3 DEF Atomico!Next
  <1>9. CASE planos[id] = Nulo
    <2>1. planos' = planos  BY <1>1, <1>9 DEF PInv, Tabelas, TypeOK
    <2>2. ParcelasDe(id) = {}  BY <1>9 DEF PInv, Tabelas, SemOrfas
    <2>3. m = {} /\ PorPlano' = PorPlano  BY <1>1, <1>2, <1>7, <2>2 DEF PorPlano
    <2> QED  BY <1>1, <1>6, <2>1, <2>3 DEF Atomico!vars, PorPlano
  <1> QED  BY <1>8, <1>9

LEMMA ExcluirRefina ==
  ASSUME PInv, NEW u \in Requisicoes, ExcluirLinha(u)
  PROVE  Atomico!Next \/ UNCHANGED Atomico!vars
  <1>1. PICK k \in Chave :
          /\ Solta(k) /\ linhas'[k] = Nulo /\ \A j \in Chave \ {k} : linhas'[j] = linhas[j]
          /\ criados' = criados /\ planos' = planos
          /\ \A i \in Parcelamentos : ParcelasDe(i)' = ParcelasDe(i)
    BY ExcluirConfere
  <1>2. PorPlano' = PorPlano  BY <1>1 DEF PorPlano
  <1>3. ParcelasDe(Nulo)' = ParcelasDe(Nulo) \ {k}  BY <1>1 DEF ParcelasDe
  <1>4. CASE linhas[k] # Nulo
    <2>1. k \in ParcelasDe(Nulo)  BY <1>1, <1>4 DEF Solta, ParcelasDe
    <2>2. k \in Atomico!Chave  BY DEF Chave, Numeros, Atomico!Chave, Atomico!Numeros
    <2>3. Atomico!RemoverAvulsa(k)
      BY <1>1, <1>2, <1>3, <2>1 DEF Atomico!RemoverAvulsa, PorPlano
    <2> QED  BY <2>2, <2>3 DEF Atomico!Next
  <1>5. CASE linhas[k] = Nulo
    <2>1. k \notin ParcelasDe(Nulo)  BY <1>5 DEF ParcelasDe
    <2> QED  BY <1>1, <1>2, <1>3, <2>1 DEF Atomico!vars, PorPlano
  <1> QED  BY <1>4, <1>5

\* An edited row stays where it was.
LEMMA GravarLinhaRefina ==
  ASSUME PInv, NEW u \in Requisicoes, GravarLinha(u)
  PROVE  UNCHANGED Atomico!vars
  <1> DEFINE k == pedido[u].linha
             l == linhas[k]
             nova == [l EXCEPT !.data = pedido[u].data, !.tipo = pedido[u].tipo,
                               !.editada = TRUE]
  <1>1. /\ pc[u] = "gravarLinha" /\ criados' = criados /\ planos' = planos
        /\ linhas' = [linhas EXCEPT ![k] = IF l = Nulo THEN Nulo ELSE nova]
    BY DEF GravarLinha
  <1>2. pedido[u] \in EdicoesDeLinha  BY <1>1, Fases DEF NaLinha
  <1>3. k \in Chave /\ pedido[u].data \in Int /\ pedido[u].tipo \in {"saida", "entrada"}
    BY <1>2, ParcelasAssumption DEF EdicoesDeLinha
  <1>4. linhas \in [Chave -> Linha \cup {Nulo}]  BY DEF PInv, Tabelas, TypeOK
  <1>5. l # Nulo => nova # Nulo /\ nova.plano = l.plano
    BY <1>3, <1>4, NuloAssumption DEF Linha
  <1> HIDE DEF nova
  <1>6. \A j \in Chave : /\ linhas'[j] # Nulo <=> linhas[j] # Nulo
                         /\ linhas[j] # Nulo => linhas'[j].plano = linhas[j].plano
    BY <1>1, <1>3, <1>4, <1>5
  <1>7. \A i \in Parcelamentos \cup {Nulo} : ParcelasDe(i)' = ParcelasDe(i)
    BY <1>6 DEF ParcelasDe
  <1> QED  BY <1>1, <1>7 DEF Atomico!vars

\* The steps that commit nothing are not seen.
LEMMA TabelasIguais ==
  ASSUME UNCHANGED tabelas PROVE UNCHANGED Atomico!vars
  BY DEF tabelas, ParcelasDe, Atomico!vars

LEMMA ServidoRefina ==
  ASSUME PInv, NEW u \in Requisicoes, Chega(u) \/ Passo(u)
  PROVE  Atomico!Next \/ UNCHANGED Atomico!vars
  <1>1. CASE Ler(u) \/ VerExiste(u) \/ EditarLinha(u) \/ PedirExclusao(u)
    <2>1. UNCHANGED tabelas
      BY <1>1 DEF Ler, VerExiste, EditarLinha, PedirExclusao, Aceita
    <2> QED  BY <2>1, TabelasIguais
  <1>2. CASE \/ RecusarExclusao(u) \/ AtualizarPlano(u) \/ ApagarParcelas(u)
             \/ ApagarLinhaVisitada(u) \/ FimDoApagar(u) \/ Soltar(u)
             \/ SoltarLinhaVisitada(u) \/ FimDoSoltar(u) \/ ApagarPlano(u)
    <2>1. UNCHANGED tabelas
      BY <1>2
      DEF RecusarExclusao, AtualizarPlano, ApagarParcelas, ApagarLinhaVisitada,
          FimDoApagar, Soltar, SoltarLinhaVisitada, FimDoSoltar, ApagarPlano,
          Comeca, Termina
    <2> QED  BY <2>1, TabelasIguais
  <1> QED
    BY <1>1, <1>2, CriarRefina, InserirRefina, RemoverRefina, ExcluirRefina,
       GravarLinhaRefina DEF Chega, Passo

LEMMA InitRefina == Init => Atomico!Init
  BY ParcelasAssumption DEF Init, ParcelasDe, Atomico!Init

LEMMA NextRefina == PInv /\ [Next]_vars => [Atomico!Next]_(Atomico!vars)
  <1> SUFFICES ASSUME PInv, [Next]_vars
               PROVE  Atomico!Next \/ UNCHANGED Atomico!vars
    OBVIOUS
  <1>1. CASE UNCHANGED vars
    <2>1. UNCHANGED tabelas  BY <1>1 DEF vars, tabelas
    <2> QED  BY <2>1, TabelasIguais
  <1>2. CASE Next
    <2>1. PICK u \in Requisicoes : Chega(u) \/ Passo(u) \/ Cair(u) \/ Impasse(u)
      BY <1>2 DEF Next
    <2> QED  BY <2>1, ServidoRefina, PassoPerdido, TabelasIguais
  <1> QED  BY <1>1, <1>2

\* The statements of concurrent transactions, with their locks, waits and
\* rollbacks, implement the operations that happen at once.
THEOREM ImplementaAtomico == Spec => RefinaAtomico
  <1> QED  BY InitRefina, NextRefina, Invariante, PTL DEF Spec, RefinaAtomico, Atomico!Spec

-------------------------------------------------------------------------------
(* The removal that keeps the paid instalments *)

\* Neither detached, nor removed, nor edited.
Intacta(k, id) == linhas[k] # Nulo /\ linhas[k].plano = id /\ ~ linhas[k].editada

\* What the user saw as paid and nobody touched since.
PagasIntactas(r) == {k \in pedido[r].pagas : Intacta(k, pedido[r].id)}

DepoisDeSoltar == {"apagarParcelas", "apagando", "apagarPlano", "cascata"}
Protegendo(r) ==
  /\ pedido[r] \in Remocoes /\ pedido[r].manter
  /\ pc[r] \in {"soltar", "soltando"} \cup DepoisDeSoltar

\* Every such row is still to be visited by the UPDATE, or detached by it; and
\* a detached row is removed by neither DELETE.
Salvas(r) ==
  /\ apagadas[r] \cap soltas[r] = {}
  /\ pc[r] = "soltando" => PagasIntactas(r) \subseteq alvo[r] \cup soltas[r]
  /\ pc[r] \in DepoisDeSoltar => PagasIntactas(r) \subseteq soltas[r]
  /\ pc[r] \in {"apagando", "cascata"} => alvo[r] \cap soltas[r] = {}

Protegidas(r) ==
  Protegendo(r) =>
    /\ \A k \in pedido[r].pagas : pc[k[1]] = "fim"
    /\ \A k \in PagasIntactas(r) : linhas[k].data <= Hoje
    /\ Salvas(r)

MInv == \A r \in Requisicoes : Protegidas(r)

\* What a step may do to the row k.
Envelhece(k) ==
  linhas'[k] # Nulo /\ ~ linhas'[k].editada =>
    /\ linhas[k] # Nulo /\ ~ linhas[k].editada /\ linhas'[k].data = linhas[k].data
    /\ linhas'[k].plano \in {linhas[k].plano, Nulo}

\* A step of u.
Da(u) == Chega(u) \/ Passo(u) \/ Cair(u) \/ Impasse(u)

LEMMA SoResponder ==
  ASSUME NEW u, \/ Criar(u) \/ RecusarExclusao(u) \/ InserirParcelas(u) \/ Remover(u)
                \/ GravarLinha(u) \/ ExcluirLinha(u) \/ Cair(u) \/ Impasse(u)
  PROVE  \E x \in Respostas : Responde(u, x)
  <1>1. {"ok", "404", "409", "erro"} \subseteq Respostas  BY DEF Respostas
  <1> QED
    BY <1>1 DEF Criar, RecusarExclusao, InserirParcelas, Remover, GravarLinha, ExcluirLinha,
                Cair, Impasse

LEMMA UmPorVez ==
  ASSUME PInv, NEW u \in Requisicoes, Da(u)
  PROVE  /\ \A r \in Requisicoes \ {u} : Iguais(r)
         /\ \A r \in Requisicoes : pc[r] = "fim" => pc'[r] = "fim"
  <1>1. TypeOK  BY DEF PInv, Tabelas
  <1>2. /\ pc \in [Requisicoes -> Passos] /\ pedido \in [Requisicoes -> Pedidos \cup {Nulo}]
        /\ alvo \in [Requisicoes -> SUBSET Chave] /\ apagadas \in [Requisicoes -> SUBSET Chave]
        /\ soltas \in [Requisicoes -> SUBSET Chave]
    BY <1>1 DEF TypeOK
  <1>3. ASSUME NEW x \in Respostas, Responde(u, x)
        PROVE  (\A r \in Requisicoes \ {u} : Iguais(r)) /\ pc'[u] = "fim"
    BY <1>1, <1>3, RespondeLocal
  <1>4. CASE \E x \in Respostas : Responde(u, x)  BY <1>3, <1>4 DEF Iguais
  <1>5. CASE Ler(u) \/ VerExiste(u) \/ EditarLinha(u) \/ PedirExclusao(u)
    <2>1. PICK p, passo : Aceita(u, p, passo)
      BY <1>5 DEF Ler, VerExiste, EditarLinha, PedirExclusao
    <2>2. /\ pc[u] = "chegou" /\ pc' = [pc EXCEPT ![u] = passo]
          /\ pedido' = [pedido EXCEPT ![u] = p]
          /\ alvo' = alvo /\ apagadas' = apagadas /\ soltas' = soltas
      BY <2>1 DEF Aceita, Vai, transacao
    <2> QED  BY <1>2, <2>2 DEF Iguais
  <1>6. CASE ApagarParcelas(u) \/ Soltar(u)
    <2>1. PICK passo, S : /\ pc[u] # "fim" /\ pc' = [pc EXCEPT ![u] = passo]
                          /\ alvo' = [alvo EXCEPT ![u] = S]
                          /\ pedido' = pedido /\ apagadas' = apagadas /\ soltas' = soltas
      BY <1>6 DEF ApagarParcelas, Soltar, Comeca, Vai
    <2> QED  BY <1>2, <2>1 DEF Iguais
  <1>7. CASE FimDoApagar(u) \/ FimDoSoltar(u)
    <2>1. PICK passo : /\ pc[u] # "fim" /\ pc' = [pc EXCEPT ![u] = passo] /\ alvo' = alvo
                       /\ pedido' = pedido /\ apagadas' = apagadas /\ soltas' = soltas
      BY <1>7 DEF FimDoApagar, FimDoSoltar, Termina, Vai, transacao
    <2> QED  BY <1>2, <2>1 DEF Iguais
  <1>8. CASE ApagarLinhaVisitada(u) \/ SoltarLinhaVisitada(u)
    <2>1. PICK S, A, B : /\ pc[u] # "fim" /\ pc' = pc /\ alvo' = [alvo EXCEPT ![u] = S]
                         /\ pedido' = pedido /\ apagadas' = [apagadas EXCEPT ![u] = A]
                         /\ soltas' = [soltas EXCEPT ![u] = B]
      <3>1. CASE ApagarLinhaVisitada(u)
        <4>1. soltas' = [soltas EXCEPT ![u] = soltas[u]]
          BY <1>2, <3>1 DEF ApagarLinhaVisitada
        <4> QED  BY <3>1, <4>1 DEF ApagarLinhaVisitada
      <3>2. CASE SoltarLinhaVisitada(u)
        <4>1. apagadas' = [apagadas EXCEPT ![u] = apagadas[u]]
          BY <1>2, <3>2 DEF SoltarLinhaVisitada
        <4> QED  BY <3>2, <4>1 DEF SoltarLinhaVisitada
      <3> QED  BY <1>8, <3>1, <3>2
    <2> QED  BY <1>2, <2>1 DEF Iguais
  <1>9. CASE AtualizarPlano(u)
    <2>1. CASE Responde(u, "404")  BY <1>4, <2>1 DEF Respostas
    <2>2. CASE /\ Vai(u, "apagarParcelas")
               /\ UNCHANGED <<tabelas, pedido, alvo, apagadas, soltas, resposta>>
      <3>1. pc[u] # "fim"  BY <1>9 DEF AtualizarPlano
      <3> QED  BY <1>2, <2>2, <3>1 DEF Vai, Iguais
    <2> QED  BY <1>9, <2>1, <2>2 DEF AtualizarPlano
  <1>10. CASE ApagarPlano(u)
    <2>1. pc[u] # "fim" /\ pc' = [pc EXCEPT ![u] = "cascata"]
          /\ pedido' = pedido /\ apagadas' = apagadas /\ soltas' = soltas
      BY <1>10 DEF ApagarPlano, Vai
    <2>2. \E S : alvo' = [alvo EXCEPT ![u] = S]
      <3>1. alvo = [alvo EXCEPT ![u] = alvo[u]]  BY <1>2
      <3> QED  BY <1>10, <3>1 DEF ApagarPlano
    <2> QED  BY <1>2, <2>1, <2>2 DEF Iguais
  <1> QED
    BY <1>4, <1>5, <1>6, <1>7, <1>8, <1>9, <1>10, SoResponder DEF Da, Chega, Passo

\* A row of a request that ended is not written again: its date and its
\* parcelamento change only with a mark.
LEMMA Envelhecem ==
  ASSUME PInv, NEW u \in Requisicoes, Da(u), NEW k \in Chave, pc[k[1]] = "fim"
  PROVE  Envelhece(k)
  <1>1. CASE linhas'[k] = linhas[k] \/ linhas'[k] = Nulo
    BY <1>1 DEF Envelhece
  <1>2. CASE UNCHANGED tabelas  BY <1>1, <1>2 DEF tabelas
  <1>3. ASSUME NEW id, NEW p, NEW D, Grava(u, id, p, D) PROVE Envelhece(k)
    <2>1. id \in Parcelamentos /\ p \in Plano /\ p.autor = u /\ pc[u] # "fim"
      BY <1>3 DEF Grava
    <2>2. k \notin GerarParcelas(p)  BY <2>1, Geradas
    <2> QED  BY <1>1, <1>3, <2>2 DEF Grava
  <1>4. CASE Criar(u)
    <2>1. PICK id \in Parcelamentos \ criados, p \in Plano :
            /\ pc[u] = "chegou" /\ p.autor = u
            /\ planos' = [planos EXCEPT ![id] = p]
            /\ linhas' = [j \in Chave |-> IF j \in GerarParcelas(p)
                                          THEN LinhaDaParcela(id, p, j) ELSE linhas[j]]
      BY <1>4 DEF Criar
    <2> QED  BY <1>3, <2>1, CriarGrava
  <1>5. CASE InserirParcelas(u)  BY <1>3, <1>5, InserirGrava
  <1>6. CASE Remover(u)
    <2>1. CASE k \in soltas[u] /\ k \notin apagadas[u]
      <3>1. linhas'[k] = [linhas[k] EXCEPT !.plano = Nulo, !.numero = 0]
        BY <1>6, <2>1 DEF Remover
      <3>2. linhas[k] # Nulo  BY <2>1, Conjuntos DEF Segura
      <3>3. linhas[k] \in Linha  BY <3>2, Conjuntos DEF TypeOK
      <3>4. /\ linhas'[k].plano = Nulo /\ linhas'[k].data = linhas[k].data
            /\ linhas'[k].editada = linhas[k].editada
        BY <3>1, <3>3 DEF Linha
      <3> QED  BY <3>2, <3>4 DEF Envelhece
    <2>2. CASE k \in apagadas[u] \/ k \notin soltas[u]
      <3>1. linhas'[k] = Nulo \/ linhas'[k] = linhas[k]  BY <1>6, <2>2 DEF Remover
      <3> QED  BY <1>1, <3>1
    <2> QED  BY <2>1, <2>2
  <1>7. CASE GravarLinha(u)
    <2> DEFINE nova == [linhas[k] EXCEPT !.data = pedido[u].data, !.tipo = pedido[u].tipo,
                                         !.editada = TRUE]
    <2>1. linhas'[k] = linhas[k] \/ linhas'[k] = Nulo \/ (linhas[k] # Nulo /\ linhas'[k] = nova)
      <3>1. linhas' = [linhas EXCEPT ![pedido[u].linha] =
                         IF @ = Nulo THEN Nulo
                         ELSE [@ EXCEPT !.data = pedido[u].data, !.tipo = pedido[u].tipo,
                                        !.editada = TRUE]]
        BY <1>7 DEF GravarLinha
      <3>2. linhas \in [Chave -> Linha \cup {Nulo}]  BY Conjuntos DEF TypeOK
      <3> QED  BY <3>1, <3>2
    <2>2. linhas[k] # Nulo => nova.editada
      <3>1. linhas[k] # Nulo => linhas[k] \in Linha  BY Conjuntos DEF TypeOK
      <3> QED  BY <3>1 DEF Linha
    <2> HIDE DEF nova
    <2>3. CASE linhas[k] # Nulo /\ linhas'[k] = nova
      <3>1. linhas'[k].editada  BY <2>2, <2>3
      <3> QED  BY <3>1 DEF Envelhece
    <2> QED  BY <1>1, <2>1, <2>3
  <1>8. CASE ExcluirLinha(u)
    <2>1. linhas'[k] = linhas[k] \/ linhas'[k] = Nulo
      BY <1>8, Conjuntos DEF ExcluirLinha, TypeOK
    <2> QED  BY <1>1, <2>1
  <1>9. CASE \/ Ler(u) \/ VerExiste(u) \/ EditarLinha(u) \/ PedirExclusao(u)
             \/ RecusarExclusao(u) \/ AtualizarPlano(u) \/ ApagarParcelas(u)
             \/ ApagarLinhaVisitada(u) \/ FimDoApagar(u) \/ Soltar(u)
             \/ SoltarLinhaVisitada(u) \/ FimDoSoltar(u) \/ ApagarPlano(u)
             \/ Cair(u) \/ Impasse(u)
    <2>1. UNCHANGED tabelas
      BY <1>9
      DEF Ler, VerExiste, EditarLinha, PedirExclusao, Aceita,
          RecusarExclusao, AtualizarPlano, ApagarParcelas, ApagarLinhaVisitada,
          FimDoApagar, Soltar, SoltarLinhaVisitada, FimDoSoltar, ApagarPlano,
          Comeca, Termina, Cair, Impasse
    <2> QED  BY <1>2, <2>1
  <1> QED  BY <1>4, <1>5, <1>6, <1>7, <1>8, <1>9 DEF Da, Chega, Passo

\* What the others do takes nothing of it away.
LEMMA ProtegidasDosOutros ==
  ASSUME PInv, NEW u \in Requisicoes, Da(u), NEW r \in Requisicoes \ {u}, Protegidas(r)
  PROVE  Protegidas(r)'
  <1> SUFFICES ASSUME Protegendo(r)'
               PROVE  /\ \A k \in pedido'[r].pagas : pc'[k[1]] = "fim"
                      /\ \A k \in PagasIntactas(r)' : linhas'[k].data <= Hoje
                      /\ Salvas(r)'
    BY DEF Protegidas
  <1>1. /\ pc'[r] = pc[r] /\ pedido'[r] = pedido[r] /\ alvo'[r] = alvo[r]
        /\ apagadas'[r] = apagadas[r] /\ soltas'[r] = soltas[r]
    BY UmPorVez DEF Iguais
  <1>2. Protegendo(r)  BY <1>1 DEF Protegendo
  <1>3. /\ \A k \in pedido[r].pagas : pc[k[1]] = "fim"
        /\ \A k \in PagasIntactas(r) : linhas[k].data <= Hoje
        /\ Salvas(r)
    BY <1>2 DEF Protegidas
  <1>4. pedido[r].pagas \in SUBSET Chave /\ pedido[r].id \in Parcelamentos
    BY <1>2 DEF Protegendo, Remocoes
  <1>5. \A k \in pedido[r].pagas : k \in Chave /\ k[1] \in Requisicoes  BY <1>4 DEF Chave
  <1>6. \A k \in pedido'[r].pagas : pc'[k[1]] = "fim"  BY <1>1, <1>3, <1>5, UmPorVez
  <1>7. \A k \in pedido[r].pagas : Envelhece(k)  BY <1>3, <1>5, Envelhecem
  <1>8. \A k \in PagasIntactas(r)' : k \in PagasIntactas(r) /\ linhas'[k].data = linhas[k].data
    <2> SUFFICES ASSUME NEW k \in PagasIntactas(r)'
                 PROVE  k \in PagasIntactas(r) /\ linhas'[k].data = linhas[k].data
      OBVIOUS
    <2>1. /\ k \in pedido[r].pagas /\ linhas'[k] # Nulo /\ linhas'[k].plano = pedido[r].id
          /\ ~ linhas'[k].editada
      BY <1>1 DEF PagasIntactas, Intacta
    <2>2. /\ linhas[k] # Nulo /\ ~ linhas[k].editada /\ linhas'[k].data = linhas[k].data
          /\ linhas'[k].plano \in {linhas[k].plano, Nulo}
      BY <1>7, <2>1 DEF Envelhece
    <2>3. linhas[k].plano = pedido[r].id  BY <1>4, <2>1, <2>2, ParcelasAssumption
    <2> QED  BY <2>1, <2>2, <2>3 DEF PagasIntactas, Intacta
  <1>9. \A k \in PagasIntactas(r)' : linhas'[k].data <= Hoje  BY <1>3, <1>8
  <1>10. PagasIntactas(r)' \subseteq PagasIntactas(r)  BY <1>8
  <1>11. Salvas(r)'  BY <1>1, <1>3, <1>10 DEF Salvas
  <1> QED  BY <1>6, <1>9, <1>11

\* A statement of u that leaves the tables as they were.
LEMMA ProtegidasNoComando ==
  ASSUME PInv, NEW u \in Requisicoes, Da(u), Protegidas(u),
         UNCHANGED tabelas, pedido'[u] = pedido[u],
         Protegendo(u)' => Protegendo(u),
         Protegendo(u) /\ Protegendo(u)' /\ Salvas(u) /\ PagasIntactas(u)' = PagasIntactas(u)
           => Salvas(u)'
  PROVE  Protegidas(u)'
  <1> SUFFICES ASSUME Protegendo(u)'
               PROVE  /\ \A k \in pedido'[u].pagas : pc'[k[1]] = "fim"
                      /\ \A k \in PagasIntactas(u)' : linhas'[k].data <= Hoje
                      /\ Salvas(u)'
    BY DEF Protegidas
  <1>1. linhas' = linhas  BY DEF tabelas
  <1>2. PagasIntactas(u)' = PagasIntactas(u)  BY <1>1 DEF PagasIntactas, Intacta
  <1>3. /\ \A k \in pedido[u].pagas : pc[k[1]] = "fim"
        /\ \A k \in PagasIntactas(u) : linhas[k].data <= Hoje
        /\ Salvas(u)
    BY DEF Protegidas
  <1>4. \A k \in pedido[u].pagas : k[1] \in Requisicoes
    BY DEF Protegendo, Remocoes, Chave
  <1>5. \A k \in pedido'[u].pagas : pc'[k[1]] = "fim"  BY <1>3, <1>4, UmPorVez
  <1> QED  BY <1>1, <1>2, <1>3, <1>5

\* The rows the removal starts with.
LEMMA ProtegidasAoChegar ==
  ASSUME PInv, NEW u \in Requisicoes, VerExiste(u) PROVE Protegidas(u)'
  <1>1. PICK id \in Parcelamentos, manter \in BOOLEAN :
          /\ planos[id] # Nulo
          /\ Aceita(u, [op |-> "remover", id |-> id, manter |-> manter,
                        pagas |-> {k \in ParcelasDe(id) : linhas[k].data <= Hoje}],
                    IF manter THEN "soltar" ELSE "apagarParcelas")
    BY DEF VerExiste
  <1> SUFFICES ASSUME Protegendo(u)'
               PROVE  /\ \A k \in pedido'[u].pagas : pc'[k[1]] = "fim"
                      /\ \A k \in PagasIntactas(u)' : linhas'[k].data <= Hoje
                      /\ Salvas(u)'
    BY DEF Protegidas
  <1> DEFINE pagas == {k \in ParcelasDe(id) : linhas[k].data <= Hoje}
  <1>2. /\ pc \in [Requisicoes -> Passos] /\ pedido \in [Requisicoes -> Pedidos \cup {Nulo}]
    BY DEF PInv, Tabelas, TypeOK
  <1>3. /\ pc[u] = "chegou" /\ linhas' = linhas
        /\ pc' = [pc EXCEPT ![u] = IF manter THEN "soltar" ELSE "apagarParcelas"]
        /\ pedido' = [pedido EXCEPT ![u] =
             [op |-> "remover", id |-> id, manter |-> manter, pagas |-> pagas]]
        /\ apagadas' = apagadas /\ soltas' = soltas
    BY <1>1 DEF Aceita, Vai, tabelas, transacao
  <1>4. pedido'[u].manter = manter /\ pedido'[u].pagas = pagas  BY <1>2, <1>3
  <1>5. pc'[u] = "soltar"  BY <1>2, <1>3, <1>4 DEF Protegendo
  <1>6. \A k \in pagas : k \in Chave /\ linhas[k] # Nulo /\ linhas[k].data <= Hoje
    BY DEF ParcelasDe
  <1> HIDE DEF pagas
  <1>7. \A k \in pagas : pc'[k[1]] = "fim"
    <2> SUFFICES ASSUME NEW k \in pagas PROVE pc'[k[1]] = "fim"  OBVIOUS
    <2>1. k[1] \in Requisicoes /\ pc[k[1]] = "fim"
      BY <1>6 DEF PInv, Tabelas, Autoria, Chave
    <2> QED  BY <1>2, <1>3, <2>1
  <1>8. \A k \in PagasIntactas(u)' : linhas'[k].data <= Hoje
    BY <1>3, <1>4, <1>6 DEF PagasIntactas
  <1>9. apagadas'[u] = {}
    BY <1>3, Fases DEF Parado, SemTravas
  <1>10. Salvas(u)'  BY <1>5, <1>9 DEF Salvas, DepoisDeSoltar
  <1> QED  BY <1>4, <1>7, <1>8, <1>10

LEMMA ProtegidasSuas ==
  ASSUME PInv, NEW u \in Requisicoes, Da(u), Protegidas(u) PROVE Protegidas(u)'
  <1> USE DEF DepoisDeSoltar
  <1>1. ASSUME pc'[u] \notin {"soltar", "soltando"} \cup DepoisDeSoltar PROVE Protegidas(u)'
    BY <1>1 DEF Protegidas, Protegendo
  <1>2. TypeOK  BY DEF PInv, Tabelas
  <1>3. /\ pc \in [Requisicoes -> Passos] /\ pedido \in [Requisicoes -> Pedidos \cup {Nulo}]
        /\ alvo \in [Requisicoes -> SUBSET Chave] /\ apagadas \in [Requisicoes -> SUBSET Chave]
        /\ soltas \in [Requisicoes -> SUBSET Chave]
    BY <1>2 DEF TypeOK
  <1>4. CASE \E x \in Respostas : Responde(u, x)  BY <1>1, <1>2, <1>4, RespondeLocal
  <1>5. CASE Ler(u) \/ EditarLinha(u) \/ PedirExclusao(u)
    <2>1. PICK passo \in {"atualizarPlano", "gravarLinha", "excluirLinha"} :
            pc' = [pc EXCEPT ![u] = passo]
      BY <1>5 DEF Ler, EditarLinha, PedirExclusao, Aceita, Vai
    <2> QED  BY <1>1, <1>3, <2>1
  <1>6. CASE VerExiste(u)  BY <1>6, ProtegidasAoChegar
  <1>7. CASE AtualizarPlano(u)
    <2>1. CASE Responde(u, "404")  BY <1>4, <2>1 DEF Respostas
    <2>2. CASE pedido' = pedido
      <3>1. pedido[u] \in Edicoes  BY <1>7, Fases DEF AtualizarPlano, Editando
      <3>2. pedido'[u] \notin Remocoes  BY <2>2, <3>1 DEF Edicoes, Remocoes
      <3> QED  BY <3>2 DEF Protegidas, Protegendo
    <2> QED  BY <1>7, <2>1, <2>2 DEF AtualizarPlano
  <1>8. CASE ApagarParcelas(u)
    <2>1. /\ pc[u] = "apagarParcelas" /\ pc'[u] = "apagando"
          /\ alvo'[u] = Minhas(u) \ soltas[u] /\ apagadas'[u] = apagadas[u]
          /\ soltas'[u] = soltas[u] /\ pedido'[u] = pedido[u] /\ UNCHANGED tabelas
      BY <1>3, <1>8 DEF ApagarParcelas, Comeca, Vai, Minhas
    <2>2. Protegendo(u)' => Protegendo(u)  BY <2>1 DEF Protegendo
    <2>3. Salvas(u) /\ PagasIntactas(u)' = PagasIntactas(u) => Salvas(u)'
      BY <2>1 DEF Salvas
    <2> QED  BY <2>1, <2>2, <2>3, ProtegidasNoComando
  <1>9. CASE ApagarLinhaVisitada(u)
    <2>1. PICK k \in alvo[u] :
            /\ pc[u] \in {"apagando", "cascata"} /\ pc'[u] = pc[u]
            /\ alvo'[u] = alvo[u] \ {k} /\ apagadas'[u] \subseteq apagadas[u] \cup {k}
            /\ soltas'[u] = soltas[u] /\ pedido'[u] = pedido[u] /\ UNCHANGED tabelas
      BY <1>3, <1>9 DEF ApagarLinhaVisitada
    <2>2. Protegendo(u)' => Protegendo(u)  BY <2>1 DEF Protegendo
    <2>3. Salvas(u) /\ PagasIntactas(u)' = PagasIntactas(u) => Salvas(u)'
      BY <2>1 DEF Salvas
    <2> QED  BY <2>1, <2>2, <2>3, ProtegidasNoComando
  <1>10. CASE FimDoApagar(u)
    <2>1. /\ pc[u] = "apagando" /\ pc'[u] \in {"inserirParcelas", "apagarPlano"}
          /\ alvo'[u] = alvo[u] /\ apagadas'[u] = apagadas[u]
          /\ soltas'[u] = soltas[u] /\ pedido'[u] = pedido[u] /\ UNCHANGED tabelas
      BY <1>3, <1>10 DEF FimDoApagar, Termina, Vai, transacao
    <2>2. Protegendo(u)' => Protegendo(u)  BY <2>1 DEF Protegendo
    <2>3. Salvas(u) /\ PagasIntactas(u)' = PagasIntactas(u) => Salvas(u)'
      BY <2>1 DEF Salvas
    <2> QED  BY <2>1, <2>2, <2>3, ProtegidasNoComando
  <1>11. CASE Soltar(u)
    <2>1. /\ pc[u] = "soltar" /\ pc'[u] = "soltando"
          /\ alvo'[u] = {k \in Minhas(u) : AteHoje(linhas[k])} /\ apagadas'[u] = apagadas[u]
          /\ soltas'[u] = soltas[u] /\ pedido'[u] = pedido[u] /\ UNCHANGED tabelas
      BY <1>3, <1>11 DEF Soltar, Comeca, Vai, Minhas
    <2>2. Protegendo(u)' => Protegendo(u)  BY <2>1 DEF Protegendo
    <2>3. Protegendo(u) => PagasIntactas(u) \subseteq alvo'[u]
      <3> SUFFICES ASSUME Protegendo(u), NEW k \in PagasIntactas(u) PROVE k \in alvo'[u]
        OBVIOUS
      <3>1. linhas[k].data <= Hoje  BY DEF Protegidas
      <3>2. k \in Chave /\ linhas[k] # Nulo /\ linhas[k].plano = pedido[u].id
        BY DEF Protegendo, PagasIntactas, Intacta, Remocoes
      <3> QED  BY <2>1, <3>1, <3>2 DEF Minhas, ParcelasDe, AteHoje
    <2>4. Protegendo(u) /\ Salvas(u) /\ PagasIntactas(u)' = PagasIntactas(u) => Salvas(u)'
      BY <2>1, <2>3 DEF Salvas
    <2> QED  BY <2>1, <2>2, <2>4, ProtegidasNoComando
  <1>12. CASE SoltarLinhaVisitada(u)
    <2>1. PICK k \in alvo[u] :
            /\ pc[u] = "soltando" /\ pc'[u] = pc[u]
            /\ alvo'[u] = alvo[u] \ {k} /\ apagadas'[u] = apagadas[u]
            /\ soltas'[u] = IF k \in Minhas(u) /\ AteHoje(linhas[k])
                            THEN soltas[u] \cup {k} ELSE soltas[u]
            /\ pedido'[u] = pedido[u] /\ UNCHANGED tabelas
      BY <1>3, <1>12 DEF SoltarLinhaVisitada, Minhas
    <2>2. Protegendo(u)' => Protegendo(u)  BY <2>1 DEF Protegendo
    <2>3. Protegendo(u) /\ k \in PagasIntactas(u) => k \in soltas'[u]
      <3> HAVE Protegendo(u) /\ k \in PagasIntactas(u)
      <3>1. linhas[k].data <= Hoje  BY DEF Protegidas
      <3>2. k \in Chave /\ linhas[k] # Nulo /\ linhas[k].plano = pedido[u].id
        BY DEF Protegendo, PagasIntactas, Intacta, Remocoes
      <3> QED  BY <2>1, <3>1, <3>2 DEF Minhas, ParcelasDe, AteHoje
    <2>4. apagadas[u] = {}  BY <2>1, Fases DEF EmRemocao
    <2>5. Protegendo(u) /\ Salvas(u) /\ PagasIntactas(u)' = PagasIntactas(u) => Salvas(u)'
      <3> HAVE Protegendo(u) /\ Salvas(u) /\ PagasIntactas(u)' = PagasIntactas(u)
      <3>1. PagasIntactas(u) \subseteq alvo[u] \cup soltas[u]  BY <2>1 DEF Salvas
      <3>2. PagasIntactas(u) \subseteq alvo'[u] \cup soltas'[u]  BY <2>1, <2>3, <3>1
      <3> QED  BY <2>1, <2>4, <3>2 DEF Salvas
    <2> QED  BY <2>1, <2>2, <2>5, ProtegidasNoComando
  <1>13. CASE FimDoSoltar(u)
    <2>1. /\ pc[u] = "soltando" /\ alvo[u] = {} /\ pc'[u] = "apagarParcelas"
          /\ alvo'[u] = alvo[u] /\ apagadas'[u] = apagadas[u]
          /\ soltas'[u] = soltas[u] /\ pedido'[u] = pedido[u] /\ UNCHANGED tabelas
      BY <1>3, <1>13 DEF FimDoSoltar, Termina, Vai, transacao
    <2>2. Protegendo(u)' => Protegendo(u)  BY <2>1 DEF Protegendo
    <2>3. Salvas(u) /\ PagasIntactas(u)' = PagasIntactas(u) => Salvas(u)'
      BY <2>1 DEF Salvas
    <2> QED  BY <2>1, <2>2, <2>3, ProtegidasNoComando
  <1>14. CASE ApagarPlano(u)
    <2>1. /\ pc[u] = "apagarPlano" /\ pc'[u] = "cascata"
          /\ apagadas'[u] = apagadas[u] /\ soltas'[u] = soltas[u]
          /\ pedido'[u] = pedido[u] /\ UNCHANGED tabelas
      BY <1>3, <1>14 DEF ApagarPlano, Vai
    <2>2. alvo'[u] \cap soltas[u] = {}
      <3>1. alvo[u] = {}  BY <2>1, Fases DEF EmRemocao
      <3>2. alvo' = alvo \/ alvo'[u] \cap Mexidas(u) = {}
        BY <1>3, <1>14 DEF ApagarPlano
      <3> QED  BY <3>1, <3>2 DEF Mexidas
    <2>3. Protegendo(u)' => Protegendo(u)  BY <2>1 DEF Protegendo
    <2>4. Salvas(u) /\ PagasIntactas(u)' = PagasIntactas(u) => Salvas(u)'
      BY <2>1, <2>2 DEF Salvas
    <2> QED  BY <2>1, <2>3, <2>4, ProtegidasNoComando
  <1> QED
    BY <1>4, <1>5, <1>6, <1>7, <1>8, <1>9, <1>10, <1>11, <1>12, <1>13, <1>14, SoResponder
    DEF Da, Chega, Passo

LEMMA MInit == Init => MInv
  BY DEF Init, MInv, Protegidas, Protegendo, DepoisDeSoltar

LEMMA MNext == PInv /\ MInv /\ [Next]_vars => MInv'
  <1> SUFFICES ASSUME PInv, MInv, [Next]_vars, NEW r \in Requisicoes PROVE Protegidas(r)'
    BY DEF MInv
  <1>1. Protegidas(r)  BY DEF MInv
  <1>2. CASE UNCHANGED vars
    BY <1>1, <1>2
    DEF vars, Protegidas, Protegendo, Salvas, PagasIntactas, Intacta, DepoisDeSoltar
  <1>3. CASE Next
    <2>1. PICK u \in Requisicoes : Da(u)  BY <1>3 DEF Next, Da
    <2> QED  BY <1>1, <2>1, ProtegidasDosOutros, ProtegidasSuas
  <1> QED  BY <1>2, <1>3

\* A request in progress has no answer yet.
EmAberto == \A r \in Requisicoes : pc[r] # "fim" => resposta[r] = "nenhuma"

LEMMA SoElaResponde ==
  ASSUME PInv, NEW u \in Requisicoes, Da(u)
  PROVE  (\E x \in Respostas : Responde(u, x)) \/ resposta' = resposta
  <1>1. CASE AtualizarPlano(u)
    <2>1. CASE Responde(u, "404")  BY <2>1 DEF Respostas
    <2>2. CASE resposta' = resposta  BY <2>2
    <2> QED  BY <1>1, <2>1, <2>2 DEF AtualizarPlano
  <1>2. CASE \/ Ler(u) \/ VerExiste(u) \/ EditarLinha(u) \/ PedirExclusao(u)
             \/ ApagarParcelas(u) \/ ApagarLinhaVisitada(u) \/ FimDoApagar(u)
             \/ Soltar(u) \/ SoltarLinhaVisitada(u) \/ FimDoSoltar(u) \/ ApagarPlano(u)
    BY <1>2
    DEF Ler, VerExiste, EditarLinha, PedirExclusao, Aceita, ApagarParcelas,
        ApagarLinhaVisitada, FimDoApagar, Soltar, SoltarLinhaVisitada, FimDoSoltar,
        ApagarPlano, Comeca, Termina
  <1> QED  BY <1>1, <1>2, SoResponder DEF Da, Chega, Passo

LEMMA EmAbertoNext == PInv /\ EmAberto /\ [Next]_vars => EmAberto'
  <1> SUFFICES ASSUME PInv, EmAberto, [Next]_vars, NEW r \in Requisicoes, pc'[r] # "fim"
               PROVE  resposta'[r] = "nenhuma"
    BY DEF EmAberto
  <1>1. CASE UNCHANGED vars  BY <1>1 DEF vars, EmAberto
  <1>2. CASE Next
    <2>1. PICK u \in Requisicoes : Da(u)  BY <1>2 DEF Next, Da
    <2>2. pc[r] # "fim" /\ resposta[r] = "nenhuma"  BY <2>1, UmPorVez DEF EmAberto
    <2>3. CASE resposta' = resposta  BY <2>2, <2>3
    <2>4. CASE \E x \in Respostas : Responde(u, x)
      <3>1. PICK x \in Respostas : Responde(u, x)  BY <2>4
      <3>2. TypeOK  BY DEF PInv, Tabelas
      <3>3. pc'[u] = "fim"  BY <3>1, <3>2, RespondeLocal
      <3>4. r # u  BY <3>3
      <3>5. resposta' = [resposta EXCEPT ![u] = x]  BY <3>1 DEF Responde
      <3>6. resposta \in [Requisicoes -> Respostas]  BY <3>2 DEF TypeOK
      <3> QED  BY <2>2, <3>4, <3>5, <3>6
    <2> QED  BY <2>1, <2>3, <2>4, SoElaResponde
  <1> QED  BY <1>1, <1>2

\* The commit of a removal deletes no row that was paid, nor one that left the
\* parcelamento meanwhile.
LEMMA NaoPerde ==
  ASSUME PInv, MInv, NEW u \in Requisicoes, Remover(u), NEW k \in PagasDe(u)
  PROVE  linhas'[k] # Nulo
  <1>1. pedido[u].manter /\ k \in pedido[u].pagas /\ linhas[k] # Nulo /\ ~ linhas[k].editada
    BY DEF PagasDe
  <1>2. pc[u] = "cascata" /\ EmRemocao(u)  BY Fases DEF Remover
  <1>3. Protegendo(u)  BY <1>1, <1>2 DEF Protegendo, EmRemocao, DepoisDeSoltar
  <1>4. k \in Chave  BY <1>1, <1>3 DEF Protegendo, Remocoes
  <1>5. CASE linhas[k].plano = pedido[u].id
    <2>1. k \in PagasIntactas(u)  BY <1>1, <1>5 DEF PagasIntactas, Intacta
    <2>2. k \in soltas[u] \ apagadas[u]
      BY <1>2, <1>3, <2>1 DEF MInv, Protegidas, Salvas, DepoisDeSoltar
    <2> QED  BY <2>2, RemoverConfere
  <1>6. CASE linhas[k].plano # pedido[u].id
    <2>1. k \notin Mexidas(u)  BY <1>6, Conjuntos DEF Segura
    <2> QED  BY <1>1, <1>4, <2>1, RemoverConfere
  <1> QED  BY <1>5, <1>6

LEMMA ManterNext ==
  PInv /\ MInv /\ EmAberto /\ [Next]_vars =>
    [\A r \in Requisicoes : Removendo(r) => \A k \in PagasDe(r) : linhas'[k] # Nulo]_vars
  <1> SUFFICES ASSUME PInv, MInv, EmAberto, Next, NEW r \in Requisicoes, Removendo(r),
                      NEW k \in PagasDe(r)
               PROVE  linhas'[k] # Nulo
    OBVIOUS
  <1>1. pc[r] = "cascata" /\ resposta'[r] = "ok"  BY DEF Removendo
  <1>2. linhas[k] # Nulo  BY DEF PagasDe
  <1>3. PICK u \in Requisicoes : Da(u)  BY DEF Next, Da
  <1>4. CASE u = r
    <2>1. CASE Remover(r)  BY <2>1, NaoPerde
    <2>2. CASE UNCHANGED tabelas  BY <1>2, <2>2 DEF tabelas
    <2>3. Remover(r) \/ UNCHANGED tabelas
      BY <1>1, <1>3, <1>4
      DEF Da, Chega, Passo, Criar, Ler, VerExiste, EditarLinha, PedirExclusao, Aceita,
          RecusarExclusao, AtualizarPlano, ApagarParcelas, ApagarLinhaVisitada,
          FimDoApagar, InserirParcelas, Soltar, SoltarLinhaVisitada, FimDoSoltar,
          ApagarPlano, GravarLinha, ExcluirLinha, Comeca, Termina, Cair, Impasse
    <2> QED  BY <2>1, <2>2, <2>3
  <1>5. CASE u # r
    <2>1. resposta[r] = "nenhuma"  BY <1>1 DEF EmAberto
    <2>2. PICK x \in Respostas : Responde(u, x)  BY <1>1, <1>3, <2>1, SoElaResponde
    <2>3. resposta' = [resposta EXCEPT ![u] = x]  BY <2>2 DEF Responde
    <2>4. resposta \in [Requisicoes -> Respostas]  BY DEF PInv, Tabelas, TypeOK
    <2> QED  BY <1>1, <1>5, <2>1, <2>3, <2>4
  <1> QED  BY <1>4, <1>5

\* The removal with manter_pagas never deletes an instalment the user saw as
\* paid, whatever editions, removals and rollbacks run with it: only an edition
\* of the row itself may cost it (Delete of ParcelamentoRepository).
THEOREM ManterPagasVale == Spec => ManterPagas
  <1>1. Init => EmAberto  BY DEF Init, EmAberto
  <1> QED
    BY <1>1, PInit, PNext, MInit, MNext, EmAbertoNext, ManterNext, PTL DEF Spec, ManterPagas

=============================================================================
