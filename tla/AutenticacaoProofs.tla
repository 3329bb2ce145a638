--------------------------- MODULE AutenticacaoProofs ---------------------------
(***************************************************************************)
(* The sessions of Autenticacao, for any number of requests, sessions and  *)
(* passwords and any times: a session that ended stays ended, the set of   *)
(* the user in Redis reaches every session that lives, and whoever ends    *)
(* sessions ends all that were there.                                      *)
(*                                                                         *)
(* The proof has two halves.  Depositos is about the stores alone: every   *)
(* step is one of their operations, or none (Efeito), and none of them     *)
(* gives life to a session that was created before.  Pedidos is about what *)
(* a request that ends sessions knows at each call: the sessions that are  *)
(* left are among those it is about to delete, or there are none left.     *)
(*                                                                         *)
(* Apart from these, TInv: the types, what a request carries to the call   *)
(* that uses it, and that a lock is measured from a reading of the clock   *)
(* that is never ahead, so that none is longer than MaxLock.               *)
(***************************************************************************)
EXTENDS Autenticacao, TLAPS

\* What the stores of sessions hold.
Depositos ==
  /\ agora \in Nat /\ indiceAte \in Nat /\ criados \subseteq Tokens
  /\ DOMAIN sessoes = Tokens
  /\ \A s \in Tokens : sessoes[s] # Nulo =>
       /\ s \in criados
       /\ DOMAIN sessoes[s] = {"visto", "expira"} /\ sessoes[s].expira \in Nat
  /\ Redis => \A s \in Vivas : s \in indice /\ sessoes[s].expira <= indiceAte

\* What a request that ends sessions knows.
Sobram(r) == pedido[r].antes \cap Vivas
Encerrando(r) ==
  /\ IF pedido[r].op = "trocar" THEN pedido[r].token = Nulo
                                ELSE pc[r] # "gravarSenha"
  /\ pedido[r].token \notin pedido[r].antes
  /\ pc[r] \in {"gravarSenha", "encerrar", "encerrarLidas", "zerar", "criar", "fim"}
  /\ pc[r] = "encerrarLidas" => Sobram(r) \subseteq pedido[r].lidas
  /\ pc[r] \in {"zerar", "criar"} \/ pedido[r].resposta = "ok" => Sobram(r) = {}

Pedidos(r) ==
  /\ DOMAIN pedido[r] = DOMAIN SemPedido
  /\ pedido[r].antes \subseteq criados
  /\ pc[r] = "chegou" => pedido[r] = SemPedido
  /\ pc[r] # "fim" => pedido[r].resposta = "nenhuma"
  /\ pedido[r].op \in {"trocar", "revogar"} => Encerrando(r)

AInv ==
  /\ Depositos
  /\ DOMAIN pc = Requisicoes /\ DOMAIN pedido = Requisicoes
  /\ \A r \in Requisicoes : Pedidos(r)

-------------------------------------------------------------------------------
(* The stores *)

Efeito ==
  \/ /\ agora' = agora /\ loja' = loja
     /\ \/ UNCHANGED asSessoes
        \/ \E s \in Tokens : Create(s)
        \/ \E s, now : Touch(s, now)
        \/ \E T : Remove(T)
  \/ Limpar
  \/ Passa

\* No session that was created lives again.
SemVolta ==
  /\ loja' = loja /\ criados \subseteq criados'
  /\ \A s \in criados : Viva(s)' => Viva(s)

LEMMA EfeitoCreate ==
  ASSUME Depositos, NEW s \in Tokens, Create(s), agora' = agora, loja' = loja
  PROVE  Depositos' /\ SemVolta
  <1> DEFINE nova == [visto |-> agora, expira |-> agora + SessionTTL]
  <1>1. /\ s \notin criados /\ criados' = criados \cup {s}
        /\ sessoes' = [sessoes EXCEPT ![s] = nova]
        /\ IF Redis
           THEN /\ indice' = Indexadas \cup {s}
                /\ indiceAte' = IF Indexadas = {} THEN agora + SessionTTL
                                ELSE Maior(indiceAte, agora + SessionTTL)
           ELSE indice' = indice /\ indiceAte' = indiceAte
    BY DEF Create
  <1>2. /\ agora \in Nat /\ indiceAte \in Nat /\ SessionTTL \in Nat
        /\ DOMAIN sessoes = Tokens /\ criados \subseteq Tokens
    BY AutenticacaoAssumption DEF Depositos
  <1>3. /\ DOMAIN nova = {"visto", "expira"} /\ nova.expira = agora + SessionTTL
        /\ nova.expira \in Nat
    BY <1>2
  <1> HIDE DEF nova
  <1>4. /\ DOMAIN sessoes' = Tokens /\ sessoes'[s] = nova
        /\ \A t \in Tokens \ {s} : sessoes'[t] = sessoes[t]
    BY <1>1, <1>2
  <1>5. indiceAte' \in Nat  BY <1>1, <1>2 DEF Maior
  <1>6. \A t \in Tokens : sessoes'[t] # Nulo =>
          /\ t \in criados'
          /\ DOMAIN sessoes'[t] = {"visto", "expira"} /\ sessoes'[t].expira \in Nat
    BY <1>1, <1>3, <1>4 DEF Depositos
  <1>7. \A t \in Tokens \ {s} : Viva(t)' <=> Viva(t)
    BY <1>4 DEF Viva
  <1>8. Redis' => \A t \in Vivas' : t \in indice' /\ sessoes'[t].expira <= indiceAte'
    <2> SUFFICES ASSUME Redis, NEW t \in Tokens, Viva(t)'
                 PROVE  t \in indice' /\ sessoes'[t].expira <= indiceAte'
      BY DEF Vivas, Redis
    <2>1. CASE t = s  BY <1>1, <1>2, <1>3, <1>4, <2>1 DEF Maior
    <2>2. CASE t # s
      <3>1. /\ t \in indice /\ sessoes[t].expira <= indiceAte
            /\ sessoes[t].expira \in Nat /\ agora < sessoes[t].expira
        BY <1>7, <2>2 DEF Depositos, Vivas, Viva
      <3>2. t \in Indexadas  BY <1>2, <3>1 DEF Indexadas
      <3> QED  BY <1>1, <1>2, <1>4, <2>2, <3>1, <3>2 DEF Maior
    <2> QED  BY <2>1, <2>2
  <1>9. Depositos'  BY <1>1, <1>2, <1>4, <1>5, <1>6, <1>8 DEF Depositos
  <1> QED  BY <1>1, <1>2, <1>7, <1>9 DEF SemVolta

\* Sessions that go, or are seen, and time that passes.
LEMMA EfeitoMenor ==
  ASSUME Depositos, loja' = loja, criados' = criados, indiceAte' = indiceAte,
         agora' \in Nat, agora <= agora', DOMAIN sessoes' = Tokens,
         \A s \in Tokens : sessoes'[s] # Nulo =>
           /\ sessoes[s] # Nulo /\ DOMAIN sessoes'[s] = DOMAIN sessoes[s]
           /\ sessoes'[s].expira = sessoes[s].expira,
         \A s \in Tokens : Redis /\ s \in Indexadas /\ sessoes'[s] # Nulo => s \in indice'
  PROVE  Depositos' /\ SemVolta
  <1>1. \A s \in Tokens : Viva(s)' => Viva(s)
    BY DEF Depositos, Viva
  <1>2. Redis' => \A s \in Vivas' : s \in indice' /\ sessoes'[s].expira <= indiceAte'
    <2> SUFFICES ASSUME Redis, NEW s \in Tokens, Viva(s)'
                 PROVE  s \in indice' /\ sessoes'[s].expira <= indiceAte'
      BY DEF Vivas, Redis
    <2>1. s \in indice /\ sessoes[s].expira <= indiceAte /\ agora < sessoes[s].expira
      BY <1>1 DEF Depositos, Vivas, Viva
    <2>2. sessoes'[s] # Nulo /\ sessoes'[s].expira = sessoes[s].expira /\ sessoes[s] # Nulo
      BY DEF Viva
    <2>3. s \in Indexadas  BY <2>1, <2>2 DEF Indexadas, Depositos
    <2> QED  BY <2>1, <2>2, <2>3
  <1>3. Depositos'  BY <1>2 DEF Depositos
  <1> QED  BY <1>1, <1>3 DEF SemVolta, Depositos

LEMMA EfeitoConfere ==
  ASSUME Depositos, Efeito PROVE Depositos' /\ SemVolta
  <1>1. CASE agora' = agora /\ loja' = loja /\ UNCHANGED asSessoes
    BY <1>1, EfeitoMenor DEF asSessoes, Depositos, Indexadas
  <1>2. CASE agora' = agora /\ loja' = loja /\ \E s \in Tokens : Create(s)
    BY <1>2, EfeitoCreate
  <1>3. CASE agora' = agora /\ loja' = loja /\ \E s, now : Touch(s, now)
    <2>1. PICK s, now : Touch(s, now)  BY <1>3
    <2>2. /\ criados' = criados /\ indice' = indice /\ indiceAte' = indiceAte
          /\ sessoes' = IF sessoes[s] # Nulo THEN [sessoes EXCEPT ![s].visto = now]
                        ELSE sessoes
      BY <2>1 DEF Touch
    <2>3. DOMAIN sessoes' = Tokens  BY <2>2 DEF Depositos
    <2>4. \A t \in Tokens : sessoes'[t] # Nulo =>
            /\ sessoes[t] # Nulo /\ DOMAIN sessoes'[t] = DOMAIN sessoes[t]
            /\ sessoes'[t].expira = sessoes[t].expira
      BY <2>2 DEF Depositos
    <2> QED  BY <1>3, <2>2, <2>3, <2>4, EfeitoMenor DEF Depositos, Indexadas
  <1>4. CASE agora' = agora /\ loja' = loja /\ \E T : Remove(T)
    <2>1. PICK T : Remove(T)  BY <1>4
    <2>2. /\ criados' = criados /\ indiceAte' = indiceAte
          /\ indice' = IF Redis THEN Indexadas \ T ELSE indice
          /\ sessoes' = [s \in Tokens |-> IF s \in T THEN Nulo ELSE sessoes[s]]
      BY <2>1 DEF Remove
    <2>3. \A s \in Tokens : s \in T => sessoes'[s] = Nulo  BY <2>2
    <2>4. \A s \in Tokens : Redis /\ s \in Indexadas /\ sessoes'[s] # Nulo => s \in indice'
      BY <2>2, <2>3
    <2> QED  BY <1>4, <2>2, <2>4, EfeitoMenor DEF Depositos
  <1>5. CASE Limpar
    <2>1. /\ loja' = loja /\ agora' = agora /\ criados' = criados
          /\ indice' = indice /\ indiceAte' = indiceAte
          /\ sessoes' = IF Redis THEN sessoes
                        ELSE [s \in Tokens |-> IF Viva(s) THEN sessoes[s] ELSE Nulo]
      BY <1>5 DEF Limpar
    <2> QED  BY <2>1, EfeitoMenor DEF Depositos, Indexadas
  <1>6. CASE Passa
    <2>1. /\ loja' = loja /\ agora' = agora + 1 /\ UNCHANGED asSessoes
      BY <1>6 DEF Passa
    <2> QED  BY <2>1, EfeitoMenor DEF asSessoes, Depositos, Indexadas
  <1> QED  BY <1>1, <1>2, <1>3, <1>4, <1>5, <1>6 DEF Efeito

-------------------------------------------------------------------------------
(* The requests *)

\* Another request keeps what it knows: no session it counted out comes back.
LEMMA Alheio ==
  ASSUME NEW r \in Requisicoes, Pedidos(r), SemVolta,
         pedido'[r] = pedido[r], pc'[r] = pc[r]
  PROVE  Pedidos(r)'
  <1>1. criados \subseteq criados'  BY DEF SemVolta
  <1>2. pedido[r].antes \subseteq criados => Sobram(r)' \subseteq Sobram(r)
    BY DEF Sobram, Vivas, SemVolta
  <1> QED  BY <1>1, <1>2 DEF Pedidos, Encerrando

\* A step of the request u.
Local(u) ==
  /\ \A r \in Requisicoes \ {u} : pedido'[r] = pedido[r] /\ pc'[r] = pc[r]
  /\ DOMAIN pc' = Requisicoes /\ DOMAIN pedido' = Requisicoes

LEMMA PassoLocal ==
  ASSUME AInv, NEW u \in Requisicoes, Efeito, Local(u), Pedidos(u)'
  PROVE  AInv'
  BY Alheio, EfeitoConfere DEF AInv, Local

\* The next call, and the fields of the request a step writes.
LEMMA VaiLocal ==
  ASSUME AInv, NEW u \in Requisicoes, NEW passo, NEW q, Vai(u, passo),
         pedido' = [pedido EXCEPT ![u] = q]
  PROVE  Local(u) /\ pc'[u] = passo /\ pedido'[u] = q
  BY DEF AInv, Vai, Local

LEMMA SegueLocal ==
  ASSUME AInv, NEW u \in Requisicoes, NEW passo, Segue(u, passo)
  PROVE  Local(u) /\ pc'[u] = passo /\ pedido'[u] = pedido[u]
  BY DEF AInv, Segue, Vai, Local

LEMMA RespondeLocal ==
  ASSUME AInv, NEW u \in Requisicoes, NEW x, Responde(u, x)
  PROVE  /\ Local(u) /\ pc'[u] = "fim" /\ pedido'[u] = [pedido[u] EXCEPT !.resposta = x]
         /\ DOMAIN pedido'[u] = DOMAIN SemPedido
         /\ pedido'[u].resposta = x /\ pedido'[u].op = pedido[u].op
         /\ pedido'[u].antes = pedido[u].antes /\ pedido'[u].token = pedido[u].token
  <1>1. Local(u) /\ pc'[u] = "fim" /\ pedido'[u] = [pedido[u] EXCEPT !.resposta = x]
    BY DEF AInv, Responde, Vai, Local
  <1>2. DOMAIN pedido[u] = DOMAIN SemPedido  BY DEF AInv, Pedidos
  <1> QED  BY <1>1, <1>2 DEF SemPedido

\* A request that ends no sessions.
LEMMA OutroPedido ==
  ASSUME AInv, NEW u \in Requisicoes, Efeito, Local(u),
         DOMAIN pedido'[u] = DOMAIN SemPedido, pedido'[u].antes = pedido[u].antes,
         pedido'[u].op \notin {"trocar", "revogar"}, pc'[u] # "chegou",
         pc'[u] = "fim" \/ pedido'[u].resposta = "nenhuma"
  PROVE  AInv'
  <1>1. pedido'[u].antes \subseteq criados'
    BY EfeitoConfere DEF AInv, Pedidos, SemVolta
  <1> QED  BY <1>1, PassoLocal DEF Pedidos

LEMMA NadaNasLojas == ASSUME UNCHANGED guardado PROVE Efeito
  BY DEF guardado, Efeito, asSessoes

\* The calls of the other operations: a request that ends sessions is at none
\* of them.
Outras == {"credenciais", "rehash", "registrar", "bloquear", "apagar", "tocar"}
LEMMA OutrasOps ==
  ASSUME AInv, NEW u \in Requisicoes, pc[u] \in Outras
  PROVE  /\ pedido[u].op \notin {"trocar", "revogar"} /\ pedido[u].resposta = "nenhuma"
         /\ DOMAIN pedido[u] = DOMAIN SemPedido
  <1>1. Pedidos(u)  BY DEF AInv
  <1>2. pc[u] \in {"credenciais", "rehash", "registrar", "bloquear", "apagar", "tocar"}
    BY DEF Outras
  <1> QED  BY <1>1, <1>2 DEF Pedidos, Encerrando

LEMMA Nova ==
  ASSUME AInv, NEW u \in Requisicoes, pc[u] = "chegou"
  PROVE  pedido[u] = SemPedido
  BY DEF AInv, Pedidos

LEMMA PassoLogin == ASSUME AInv, NEW u \in Requisicoes, Login(u) PROVE AInv'
  <1>1. pc[u] = "chegou" /\ UNCHANGED guardado  BY DEF Login, Esta
  <1>2. Efeito /\ pedido[u] = SemPedido  BY <1>1, NadaNasLojas, Nova
  <1>3. CASE /\ Vai(u, "credenciais")
             /\ pedido' = [pedido EXCEPT ![u].op = "login", ![u].now = agora]
    <2>1. pedido' = [pedido EXCEPT ![u] = [SemPedido EXCEPT !.op = "login", !.now = agora]]
      BY <1>2, <1>3 DEF AInv
    <2>2. /\ Local(u) /\ pc'[u] = "credenciais"
          /\ pedido'[u] = [SemPedido EXCEPT !.op = "login", !.now = agora]
      BY <1>3, <2>1, VaiLocal
    <2> QED  BY <1>2, <2>2, OutroPedido DEF SemPedido
  <1>4. CASE /\ Vai(u, "fim")
             /\ pedido' = [pedido EXCEPT ![u].op = "login", ![u].resposta = "429"]
    <2>1. pedido' = [pedido EXCEPT ![u] = [SemPedido EXCEPT !.op = "login", !.resposta = "429"]]
      BY <1>2, <1>4 DEF AInv
    <2>2. /\ Local(u) /\ pc'[u] = "fim"
          /\ pedido'[u] = [SemPedido EXCEPT !.op = "login", !.resposta = "429"]
      BY <1>4, <2>1, VaiLocal
    <2> QED  BY <1>2, <2>2, OutroPedido DEF SemPedido
  <1> QED  BY <1>3, <1>4 DEF Login

LEMMA PassoCredenciais == ASSUME AInv, NEW u \in Requisicoes, Credenciais(u) PROVE AInv'
  <1>1. PICK p \in Senhas, passo \in {"registrar", "rehash", "zerar"} :
          /\ pc[u] = "credenciais" /\ Vai(u, passo)
          /\ pedido' = [pedido EXCEPT ![u].senha = p] /\ UNCHANGED guardado
    BY DEF Credenciais, Esta
  <1>2. Efeito /\ pc[u] \in Outras  BY <1>1, NadaNasLojas DEF Outras
  <1>3. pedido' = [pedido EXCEPT ![u] = [pedido[u] EXCEPT !.senha = p]]  BY <1>1 DEF AInv
  <1>4. Local(u) /\ pc'[u] = passo /\ pedido'[u] = [pedido[u] EXCEPT !.senha = p]
    BY <1>1, <1>3, VaiLocal
  <1> QED  BY <1>1, <1>2, <1>4, OutrasOps, OutroPedido DEF SemPedido

LEMMA PassoRehash == ASSUME AInv, NEW u \in Requisicoes, Rehash(u) PROVE AInv'
  <1>1. /\ pc[u] = "rehash" /\ Segue(u, "zerar")
        /\ UNCHANGED <<loja, agora, tentativas, asSessoes>>
    BY DEF Rehash, Esta
  <1>2. Efeito /\ pc[u] \in Outras  BY <1>1 DEF Outras, Efeito
  <1>3. Local(u) /\ pc'[u] = "zerar" /\ pedido'[u] = pedido[u]  BY <1>1, SegueLocal
  <1> QED  BY <1>2, <1>3, OutrasOps, OutroPedido

\* The answer of one of the other operations.
LEMMA OutraResposta ==
  ASSUME AInv, NEW u \in Requisicoes, pc[u] \in Outras, Efeito, NEW x, Responde(u, x)
  PROVE  AInv'
  BY OutrasOps, RespondeLocal, OutroPedido

LEMMA PassoRegistrar == ASSUME AInv, NEW u \in Requisicoes, Registrar(u) PROVE AInv'
  <1>1. pc[u] = "registrar" /\ UNCHANGED <<loja, agora, senha, asSessoes>>
    BY DEF Registrar, Esta
  <1>2. Efeito /\ pc[u] \in Outras  BY <1>1 DEF Outras, Efeito
  <1>3. CASE Responde(u, "401")  BY <1>2, <1>3, OutraResposta
  <1>4. CASE ~ Responde(u, "401")
    <2>1. PICK x : Vai(u, "bloquear") /\ pedido' = [pedido EXCEPT ![u].ate = x]
      BY <1>4 DEF Registrar
    <2>2. pedido' = [pedido EXCEPT ![u] = [pedido[u] EXCEPT !.ate = x]]  BY <2>1 DEF AInv
    <2>3. Local(u) /\ pc'[u] = "bloquear" /\ pedido'[u] = [pedido[u] EXCEPT !.ate = x]
      BY <2>1, <2>2, VaiLocal
    <2> QED  BY <1>2, <2>3, OutrasOps, OutroPedido DEF SemPedido
  <1> QED  BY <1>3, <1>4

LEMMA PassoBloquear == ASSUME AInv, NEW u \in Requisicoes, Bloquear(u) PROVE AInv'
  <1>1. pc[u] = "bloquear" /\ UNCHANGED <<loja, agora, senha, asSessoes>>
    BY DEF Bloquear, Esta
  <1>2. Efeito /\ pc[u] \in Outras  BY <1>1 DEF Outras, Efeito
  <1> QED  BY <1>2, OutraResposta DEF Bloquear

LEMMA PassoApagar == ASSUME AInv, NEW u \in Requisicoes, Apagar(u) PROVE AInv'
  <1>1. /\ pc[u] = "apagar" /\ UNCHANGED <<loja, agora, senha, tentativas>>
        /\ Remove({pedido[u].token})
    BY DEF Apagar, Esta
  <1>2. Efeito /\ pc[u] \in Outras  BY <1>1 DEF Outras, Efeito
  <1> QED  BY <1>2, OutraResposta DEF Apagar

LEMMA PassoTocar == ASSUME AInv, NEW u \in Requisicoes, Tocar(u) PROVE AInv'
  <1>1. /\ pc[u] = "tocar" /\ UNCHANGED <<loja, agora, senha, tentativas>>
        /\ Touch(pedido[u].token, pedido[u].now) \/ UNCHANGED asSessoes
        /\ Responde(u, "ok")
    BY DEF Tocar, Esta
  <1>2. Efeito /\ pc[u] \in Outras  BY <1>1 DEF Outras, Efeito
  <1> QED  BY <1>1, <1>2, OutraResposta

LEMMA PassoLogout == ASSUME AInv, NEW u \in Requisicoes, Logout(u) PROVE AInv'
  <1>1. PICK s \in Vivas :
          /\ pc[u] = "chegou" /\ Vai(u, "apagar") /\ UNCHANGED guardado
          /\ pedido' = [pedido EXCEPT ![u].op = "logout", ![u].token = s]
    BY DEF Logout, Esta
  <1>2. Efeito /\ pedido[u] = SemPedido  BY <1>1, NadaNasLojas, Nova
  <1>3. pedido' = [pedido EXCEPT ![u] = [SemPedido EXCEPT !.op = "logout", !.token = s]]
    BY <1>1, <1>2 DEF AInv
  <1>4. /\ Local(u) /\ pc'[u] = "apagar"
        /\ pedido'[u] = [SemPedido EXCEPT !.op = "logout", !.token = s]
    BY <1>1, <1>3, VaiLocal
  <1> QED  BY <1>2, <1>4, OutroPedido DEF SemPedido

LEMMA PassoAuthenticate == ASSUME AInv, NEW u \in Requisicoes, Authenticate(u) PROVE AInv'
  <1>1. PICK s \in Vivas, passo \in {"apagar", "tocar"} :
          /\ pc[u] = "chegou" /\ Vai(u, passo) /\ UNCHANGED guardado
          /\ pedido' = [pedido EXCEPT ![u].op = "authenticate", ![u].token = s,
                                      ![u].now = agora]
    BY DEF Authenticate, Esta
  <1>2. Efeito /\ pedido[u] = SemPedido  BY <1>1, NadaNasLojas, Nova
  <1>3. pedido' = [pedido EXCEPT ![u] = [SemPedido EXCEPT !.op = "authenticate", !.token = s,
                                                          !.now = agora]]
    BY <1>1, <1>2 DEF AInv
  <1>4. /\ Local(u) /\ pc'[u] = passo
        /\ pedido'[u] = [SemPedido EXCEPT !.op = "authenticate", !.token = s, !.now = agora]
    BY <1>1, <1>3, VaiLocal
  <1> QED  BY <1>2, <1>4, OutroPedido DEF SemPedido

\* The sessions a request is about to end exist, and are known to exist.
LEMMA VivasCriadas == ASSUME AInv PROVE Vivas \subseteq criados /\ Vivas \subseteq Tokens
  BY DEF AInv, Depositos, Vivas, Viva

LEMMA PassoChangePassword ==
  ASSUME AInv, NEW u \in Requisicoes, ChangePassword(u) PROVE AInv'
  <1>1. PICK nova \in Senhas :
          /\ pc[u] = "chegou" /\ Vai(u, "gravarSenha") /\ UNCHANGED guardado
          /\ pedido' = [pedido EXCEPT ![u].op = "trocar", ![u].senha = nova]
    BY DEF ChangePassword, Esta
  <1>2. Efeito /\ pedido[u] = SemPedido  BY <1>1, NadaNasLojas, Nova
  <1>3. pedido' = [pedido EXCEPT ![u] = [SemPedido EXCEPT !.op = "trocar", !.senha = nova]]
    BY <1>1, <1>2 DEF AInv
  <1>4. /\ Local(u) /\ pc'[u] = "gravarSenha"
        /\ pedido'[u] = [SemPedido EXCEPT !.op = "trocar", !.senha = nova]
    BY <1>1, <1>3, VaiLocal
  <1>5. /\ DOMAIN pedido'[u] = DOMAIN SemPedido /\ pedido'[u].antes = {}
        /\ pedido'[u].token = Nulo /\ pedido'[u].resposta = "nenhuma"
    BY <1>4 DEF SemPedido
  <1>6. Pedidos(u)'  BY <1>4, <1>5 DEF Pedidos, Encerrando
  <1> QED  BY <1>2, <1>4, <1>6, PassoLocal

LEMMA PassoRevokeSessions ==
  ASSUME AInv, NEW u \in Requisicoes, RevokeSessions(u) PROVE AInv'
  <1>1. PICK s \in Vivas, manter \in BOOLEAN :
          /\ pc[u] = "chegou" /\ Vai(u, "encerrar") /\ UNCHANGED guardado
          /\ pedido' = [pedido EXCEPT
               ![u].op = "revogar", ![u].token = IF manter THEN s ELSE Nulo,
               ![u].antes = IF manter THEN Vivas \ {s} ELSE Vivas]
    BY DEF RevokeSessions, Esta
  <1> DEFINE token == IF manter THEN s ELSE Nulo
             antes == IF manter THEN Vivas \ {s} ELSE Vivas
  <1>2. antes \subseteq criados /\ token \notin antes
    BY VivasCriadas, AutenticacaoAssumption
  <1> HIDE DEF token, antes
  <1>3. Efeito /\ pedido[u] = SemPedido  BY <1>1, NadaNasLojas, Nova
  <1>4. pedido' = [pedido EXCEPT ![u] = [SemPedido EXCEPT !.op = "revogar", !.token = token,
                                                          !.antes = antes]]
    BY <1>1, <1>3 DEF AInv, token, antes
  <1>5. /\ Local(u) /\ pc'[u] = "encerrar"
        /\ pedido'[u] = [SemPedido EXCEPT !.op = "revogar", !.token = token, !.antes = antes]
    BY <1>1, <1>4, VaiLocal
  <1>6. /\ DOMAIN pedido'[u] = DOMAIN SemPedido /\ pedido'[u].antes = antes
        /\ pedido'[u].token = token /\ pedido'[u].resposta = "nenhuma"
        /\ pedido'[u].op = "revogar"
    BY <1>5 DEF SemPedido
  <1>7. criados' = criados  BY <1>1 DEF guardado, asSessoes
  <1>8. Pedidos(u)'  BY <1>2, <1>5, <1>6, <1>7 DEF Pedidos, Encerrando
  <1> QED  BY <1>3, <1>5, <1>8, PassoLocal

LEMMA PassoGravarSenha ==
  ASSUME AInv, NEW u \in Requisicoes, GravarSenha(u) PROVE AInv'
  <1>1. /\ pc[u] = "gravarSenha" /\ Vai(u, "encerrar")
        /\ pedido' = [pedido EXCEPT ![u].antes = Vivas]
        /\ UNCHANGED <<loja, agora, tentativas, asSessoes>>
    BY DEF GravarSenha, Esta
  <1>2. Efeito  BY <1>1 DEF Efeito
  <1>3. pedido' = [pedido EXCEPT ![u] = [pedido[u] EXCEPT !.antes = Vivas]]
    BY <1>1 DEF AInv
  <1>4. /\ Local(u) /\ pc'[u] = "encerrar"
        /\ pedido'[u] = [pedido[u] EXCEPT !.antes = Vivas]
    BY <1>1, <1>3, VaiLocal
  <1>5. Pedidos(u)  BY DEF AInv
  <1>6. /\ DOMAIN pedido'[u] = DOMAIN SemPedido /\ pedido'[u].antes = Vivas
        /\ pedido'[u].token = pedido[u].token /\ pedido'[u].resposta = pedido[u].resposta
        /\ pedido'[u].op = pedido[u].op
    BY <1>4, <1>5 DEF Pedidos, SemPedido
  <1>7. criados' = criados /\ Vivas \subseteq criados
    BY <1>1, VivasCriadas DEF asSessoes
  <1>8. Nulo \notin Vivas  BY VivasCriadas, AutenticacaoAssumption
  <1>9. pedido[u].op \in {"trocar", "revogar"} => pedido[u].token \notin Vivas
    BY <1>1, <1>5, <1>8 DEF Pedidos, Encerrando
  <1>10. Pedidos(u)'
    BY <1>1, <1>4, <1>5, <1>6, <1>7, <1>9 DEF Pedidos, Encerrando
  <1> QED  BY <1>2, <1>4, <1>10, PassoLocal

\* The sessions to end were deleted, or those listed are.
LEMMA Encerrou ==
  ASSUME AInv, NEW u \in Requisicoes, Efeito, DepoisDeEncerrar(u),
         pc[u] \in {"encerrar", "encerrarLidas"},
         pedido[u].op \in {"trocar", "revogar"} =>
           \A s \in pedido[u].antes : ~ Viva(s)'
  PROVE  AInv'
  <1>1. Pedidos(u)  BY DEF AInv
  <1>2. criados \subseteq criados'  BY EfeitoConfere DEF AInv, SemVolta
  <1>3. CASE pedido[u].op = "trocar"
    <2>1. Local(u) /\ pc'[u] = "zerar" /\ pedido'[u] = pedido[u]
      BY <1>3, SegueLocal DEF DepoisDeEncerrar
    <2>2. Sobram(u)' = {}  BY <1>3, <2>1 DEF Sobram, Vivas
    <2>3. Pedidos(u)'  BY <1>1, <1>2, <1>3, <2>1, <2>2 DEF Pedidos, Encerrando
    <2> QED  BY <2>1, <2>3, PassoLocal
  <1>4. CASE pedido[u].op # "trocar"
    <2>1. /\ Local(u) /\ pc'[u] = "fim" /\ DOMAIN pedido'[u] = DOMAIN SemPedido
          /\ pedido'[u].resposta = "ok" /\ pedido'[u].op = pedido[u].op
          /\ pedido'[u].antes = pedido[u].antes /\ pedido'[u].token = pedido[u].token
      BY <1>4, RespondeLocal DEF DepoisDeEncerrar
    <2>2. pedido[u].op = "revogar" => Sobram(u)' = {}  BY <2>1 DEF Sobram, Vivas
    <2>3. Pedidos(u)'  BY <1>1, <1>2, <1>4, <2>1, <2>2 DEF Pedidos, Encerrando
    <2> QED  BY <2>1, <2>3, PassoLocal
  <1> QED  BY <1>3, <1>4

LEMMA PassoEncerrar == ASSUME AInv, NEW u \in Requisicoes, Encerrar(u) PROVE AInv'
  <1>1. pc[u] = "encerrar" /\ UNCHANGED <<loja, agora, senha, tentativas>>
    BY DEF Encerrar, Esta
  <1>2. Pedidos(u) /\ Depositos  BY DEF AInv
  <1>3. CASE Redis
    <2> DEFINE lidas == Indexadas \ {pedido[u].token}
    <2>1. /\ Vai(u, "encerrarLidas") /\ UNCHANGED asSessoes
          /\ pedido' = [pedido EXCEPT ![u].lidas = lidas]
      BY <1>3 DEF Encerrar
    <2>2. Efeito  BY <1>1, <2>1 DEF Efeito
    <2> HIDE DEF lidas
    <2>3. pedido' = [pedido EXCEPT ![u] = [pedido[u] EXCEPT !.lidas = lidas]]
      BY <2>1 DEF AInv
    <2>4. /\ Local(u) /\ pc'[u] = "encerrarLidas"
          /\ pedido'[u] = [pedido[u] EXCEPT !.lidas = lidas]
      BY <2>1, <2>3, VaiLocal
    <2>5. /\ DOMAIN pedido'[u] = DOMAIN SemPedido /\ pedido'[u].lidas = lidas
          /\ pedido'[u].token = pedido[u].token /\ pedido'[u].resposta = pedido[u].resposta
          /\ pedido'[u].op = pedido[u].op /\ pedido'[u].antes = pedido[u].antes
      BY <1>2, <2>4 DEF Pedidos, SemPedido
    <2>6. /\ criados' = criados
          /\ Vivas' = Vivas
      BY <1>1, <2>1 DEF asSessoes, Vivas, Viva
    <2>7. Vivas \subseteq Indexadas
      BY <1>2, <1>3 DEF Depositos, Vivas, Viva, Indexadas
    <2>8. pedido[u].op \in {"trocar", "revogar"} => Sobram(u)' \subseteq lidas
      BY <1>2, <2>5, <2>6, <2>7 DEF Sobram, Pedidos, Encerrando, lidas
    <2>9. Pedidos(u)'
      BY <1>1, <1>2, <2>4, <2>5, <2>6, <2>8 DEF Pedidos, Encerrando
    <2> QED  BY <2>2, <2>4, <2>9, PassoLocal
  <1>4. CASE ~ Redis
    <2>1. Remove(Tokens \ {pedido[u].token}) /\ DepoisDeEncerrar(u)
      BY <1>4 DEF Encerrar
    <2>2. Efeito  BY <1>1, <2>1 DEF Efeito
    <2>3. \A s \in Tokens : s # pedido[u].token => sessoes'[s] = Nulo
      BY <2>1 DEF Remove
    <2>4. pedido[u].op \in {"trocar", "revogar"} => \A s \in pedido[u].antes : ~ Viva(s)'
      BY <1>2, <2>3 DEF Pedidos, Encerrando, Depositos, Viva
    <2> QED  BY <1>1, <2>1, <2>2, <2>4, Encerrou
  <1> QED  BY <1>3, <1>4

LEMMA PassoEncerrarLidas == ASSUME AInv, NEW u \in Requisicoes, EncerrarLidas(u) PROVE AInv'
  <1>1. /\ pc[u] = "encerrarLidas" /\ UNCHANGED <<loja, agora, senha, tentativas>>
        /\ Remove(pedido[u].lidas) /\ DepoisDeEncerrar(u)
    BY DEF EncerrarLidas, Esta
  <1>2. Efeito  BY <1>1 DEF Efeito
  <1>3. Pedidos(u) /\ Depositos /\ SemVolta  BY <1>2, EfeitoConfere DEF AInv
  <1>4. \A s \in Tokens : s \in pedido[u].lidas => sessoes'[s] = Nulo
    BY <1>1 DEF Remove
  <1>5. ASSUME pedido[u].op \in {"trocar", "revogar"}, NEW s \in pedido[u].antes, Viva(s)'
        PROVE  FALSE
    <2>1. s \in criados /\ s \in Tokens  BY <1>3, <1>5 DEF Pedidos, Depositos
    <2>2. s \in Sobram(u)  BY <1>3, <1>5, <2>1 DEF SemVolta, Sobram, Vivas
    <2>3. s \in pedido[u].lidas  BY <1>1, <1>3, <1>5, <2>2 DEF Pedidos, Encerrando
    <2> QED  BY <1>4, <1>5, <2>1, <2>3 DEF Viva
  <1> QED  BY <1>1, <1>2, <1>5, Encerrou

LEMMA PassoZerar == ASSUME AInv, NEW u \in Requisicoes, Zerar(u) PROVE AInv'
  <1>1. /\ pc[u] = "zerar" /\ Segue(u, "criar")
        /\ UNCHANGED <<loja, agora, senha, asSessoes>>
    BY DEF Zerar, Esta
  <1>2. Efeito  BY <1>1 DEF Efeito
  <1>3. Local(u) /\ pc'[u] = "criar" /\ pedido'[u] = pedido[u]  BY <1>1, SegueLocal
  <1>4. Pedidos(u) /\ criados' = criados /\ Vivas' = Vivas
    BY <1>1 DEF AInv, asSessoes, Vivas, Viva
  <1>5. Pedidos(u)'  BY <1>1, <1>3, <1>4 DEF Pedidos, Encerrando, Sobram
  <1> QED  BY <1>2, <1>3, <1>5, PassoLocal

\* The answer to a request that ended sessions, or the failure of one.
LEMMA RespondeConfere ==
  ASSUME AInv, NEW u \in Requisicoes, Efeito, NEW x \in {"ok", "erro"}, Responde(u, x),
         \/ x = "erro" /\ pc[u] # "fim"
         \/ pc[u] = "criar"
  PROVE  AInv'
  <1>1. Pedidos(u) /\ SemVolta  BY EfeitoConfere DEF AInv
  <1>2. /\ Local(u) /\ pc'[u] = "fim" /\ DOMAIN pedido'[u] = DOMAIN SemPedido
        /\ pedido'[u].resposta = x /\ pedido'[u].op = pedido[u].op
        /\ pedido'[u].antes = pedido[u].antes /\ pedido'[u].token = pedido[u].token
    BY RespondeLocal
  <1>3. Sobram(u)' \subseteq Sobram(u)
    BY <1>1, <1>2 DEF Pedidos, SemVolta, Sobram, Vivas
  <1>4. criados \subseteq criados'  BY <1>1 DEF SemVolta
  <1>5. Pedidos(u)'  BY <1>1, <1>2, <1>3, <1>4 DEF Pedidos, Encerrando
  <1> QED  BY <1>2, <1>5, PassoLocal

LEMMA PassoCriar == ASSUME AInv, NEW u \in Requisicoes, Criar(u) PROVE AInv'
  <1>1. /\ pc[u] = "criar" /\ Responde(u, "ok") /\ \E s \in Tokens : Create(s)
        /\ UNCHANGED <<loja, agora, senha, tentativas>>
    BY DEF Criar, Esta
  <1>2. Efeito  BY <1>1 DEF Efeito
  <1> QED  BY <1>1, <1>2, RespondeConfere

LEMMA PassoFalhar == ASSUME AInv, NEW u \in Requisicoes, Falhar(u) PROVE AInv'
  <1>1. Responde(u, "erro") /\ UNCHANGED guardado /\ pc[u] # "fim"  BY DEF Falhar
  <1> QED  BY <1>1, NadaNasLojas, RespondeConfere

-------------------------------------------------------------------------------
(* Every step *)

LEMMA AInit == Init => AInv
  <1> SUFFICES ASSUME Init PROVE AInv  OBVIOUS
  <1>1. Depositos  BY DEF Init, Depositos, Vivas, Viva
  <1>2. \A r \in Requisicoes : pc[r] = "chegou" /\ pedido[r] = SemPedido  BY DEF Init
  <1>3. \A r \in Requisicoes : Pedidos(r)  BY <1>2 DEF Pedidos, SemPedido
  <1>4. DOMAIN pc = Requisicoes /\ DOMAIN pedido = Requisicoes  BY DEF Init
  <1> QED  BY <1>1, <1>3, <1>4 DEF AInv

\* The steps that are no request's.
LEMMA PassoDeFora ==
  ASSUME AInv, Efeito, UNCHANGED <<pc, pedido>> PROVE AInv'
  <1>1. Depositos' /\ SemVolta  BY EfeitoConfere DEF AInv
  <1>2. \A r \in Requisicoes : Pedidos(r)'  BY <1>1, Alheio DEF AInv
  <1> QED  BY <1>1, <1>2 DEF AInv

LEMMA ANext == AInv /\ [Next]_vars => AInv'
  <1> SUFFICES ASSUME AInv, [Next]_vars PROVE AInv'  OBVIOUS
  <1>1. CASE UNCHANGED vars
    <2>1. Efeito /\ UNCHANGED <<pc, pedido>>  BY <1>1 DEF vars, Efeito, asSessoes
    <2> QED  BY <2>1, PassoDeFora
  <1>2. CASE Limpar \/ Passa
    <2>1. Efeito /\ UNCHANGED <<pc, pedido>>  BY <1>2 DEF Limpar, Passa, Efeito
    <2> QED  BY <2>1, PassoDeFora
  <1>3. ASSUME NEW u \in Requisicoes, Passo(u) PROVE AInv'
    BY <1>3, PassoLogin, PassoCredenciais, PassoRehash, PassoRegistrar, PassoBloquear,
       PassoZerar, PassoCriar, PassoChangePassword, PassoGravarSenha, PassoRevokeSessions,
       PassoEncerrar, PassoEncerrarLidas, PassoLogout, PassoAuthenticate, PassoApagar,
       PassoTocar, PassoFalhar DEF Passo
  <1> QED  BY <1>1, <1>2, <1>3 DEF Next

\* Every step is an operation of the stores, or none.
LEMMA TodoEfeito == [Next]_vars => Efeito
  <1> SUFFICES ASSUME [Next]_vars PROVE Efeito  OBVIOUS
  <1>1. CASE UNCHANGED vars  BY <1>1 DEF vars, Efeito, asSessoes
  <1>2. CASE Limpar \/ Passa  BY <1>2 DEF Efeito
  <1>3. ASSUME NEW u \in Requisicoes, Passo(u) PROVE Efeito
    <2>1. CASE \/ Login(u) \/ Credenciais(u) \/ ChangePassword(u) \/ RevokeSessions(u)
               \/ Logout(u) \/ Authenticate(u) \/ Falhar(u)
      <3>1. UNCHANGED guardado
        BY <2>1 DEF Login, Credenciais, ChangePassword, RevokeSessions, Logout,
                    Authenticate, Falhar
      <3> QED  BY <3>1, NadaNasLojas
    <2>2. CASE \/ Rehash(u) \/ Registrar(u) \/ Bloquear(u) \/ Zerar(u) \/ GravarSenha(u)
      BY <2>2 DEF Rehash, Registrar, Bloquear, Zerar, GravarSenha, Efeito
    <2>3. CASE Criar(u) \/ Encerrar(u) \/ EncerrarLidas(u) \/ Apagar(u) \/ Tocar(u)
      BY <2>3 DEF Criar, Encerrar, EncerrarLidas, Apagar, Tocar, Efeito
    <2> QED  BY <1>3, <2>1, <2>2, <2>3 DEF Passo
  <1> QED  BY <1>1, <1>2, <1>3 DEF Next

-------------------------------------------------------------------------------
(* The types, and what a lock may be *)

\* What a request carries to the call that uses it.
Traz(r) ==
  /\ pc[r] \in {"rehash", "gravarSenha"} => pedido[r].senha \in Senhas
  /\ pc[r] = "tocar" => pedido[r].token \in Tokens
  /\ pedido[r].now <= agora
  /\ pedido[r].ate <= agora + MaxLock

\* A lock is measured from a reading of the clock, which is never ahead.
TInv ==
  /\ TypeOK
  /\ \A r \in Requisicoes : Traz(r)
  /\ tentativas # Nulo => tentativas.ate <= agora + MaxLock

LEMMA Tempos ==
  ASSUME TypeOK
  PROVE  /\ agora \in Nat /\ agora \in Tempo /\ Sempre \in Tempo /\ 0 \in Tempo
         /\ agora + SessionTTL \in Tempo /\ Tempo \subseteq Nat
         /\ MaxLock \in Nat /\ SessionTTL \in Nat /\ Window \in Nat
         /\ \A x \in Nat : x <= agora + MaxLock => x \in Tempo
  BY AutenticacaoAssumption DEF TypeOK, Tempo, Sempre

\* However many the failures, no lock is longer than MaxLock.
LEMMA LockDurationTipo ==
  ASSUME NEW n PROVE LockDuration(n) \in Nat /\ LockDuration(n) <= MaxLock
  BY AutenticacaoAssumption DEF LockDuration

\* What the requests are after a step that writes one of them.
LEMMA PedidoEscrito ==
  ASSUME TInv, NEW u \in Requisicoes, NEW passo \in Passos, NEW q \in Pedido,
         Vai(u, passo), pedido' = [pedido EXCEPT ![u] = q], agora' = agora,
         passo \in {"rehash", "gravarSenha"} => q.senha \in Senhas,
         passo = "tocar" => q.token \in Tokens,
         q.now <= agora, q.ate <= agora + MaxLock
  PROVE  /\ pc' \in [Requisicoes -> Passos] /\ pedido' \in [Requisicoes -> Pedido]
         /\ \A r \in Requisicoes : Traz(r)'
  <1>1. pc \in [Requisicoes -> Passos] /\ pedido \in [Requisicoes -> Pedido]
    BY DEF TInv, TypeOK
  <1>2. pc' \in [Requisicoes -> Passos] /\ pedido' \in [Requisicoes -> Pedido]
    BY <1>1 DEF Vai
  <1>3. /\ pc'[u] = passo /\ pedido'[u] = q
        /\ \A r \in Requisicoes \ {u} : pc'[r] = pc[r] /\ pedido'[r] = pedido[r]
    BY <1>1 DEF Vai
  <1>4. Traz(u)'  BY <1>3 DEF Traz
  <1>5. \A r \in Requisicoes \ {u} : Traz(r)'  BY <1>3 DEF TInv, Traz
  <1> QED  BY <1>2, <1>4, <1>5

\* The stores after a step of a request: everything but pc and pedido is typed.
Guardado ==
  /\ loja \in Lojas /\ agora \in 0..MaxTempo
  /\ senha \in [de : Senhas, antiga : BOOLEAN]
  /\ tentativas \in Tentativas \cup {Nulo}
  /\ sessoes \in [Tokens -> Sessao \cup {Nulo}]
  /\ criados \subseteq Tokens /\ indice \subseteq Tokens /\ indiceAte \in Tempo
  /\ tentativas # Nulo => tentativas.ate <= agora + MaxLock

LEMMA TInvPartes ==
  ASSUME Guardado', pc' \in [Requisicoes -> Passos], pedido' \in [Requisicoes -> Pedido],
         \A r \in Requisicoes : Traz(r)'
  PROVE  TInv'
  BY DEF TInv, TypeOK, Guardado

\* A request that is given the next call as it is, or an answer.
LEMMA PedidoSegue ==
  ASSUME TInv, NEW u \in Requisicoes, agora' = agora, Guardado',
         \/ \E x \in Respostas : Responde(u, x)
         \/ \E passo \in Passos \ {"rehash", "gravarSenha", "tocar"} : Segue(u, passo)
  PROVE  TInv'
  <1>1. pedido \in [Requisicoes -> Pedido] /\ pedido[u] \in Pedido /\ Traz(u)
    BY DEF TInv, TypeOK
  <1>2. CASE \E x \in Respostas : Responde(u, x)
    <2>1. PICK x \in Respostas : Responde(u, x)  BY <1>2
    <2> DEFINE q == [pedido[u] EXCEPT !.resposta = x]
    <2>2. q \in Pedido /\ q.now = pedido[u].now /\ q.ate = pedido[u].ate
      BY <1>1 DEF Pedido
    <2>3. Vai(u, "fim") /\ pedido' = [pedido EXCEPT ![u] = q]
      BY <1>1, <2>1 DEF Responde
    <2>4. "fim" \in Passos /\ "fim" \notin {"rehash", "gravarSenha", "tocar"}  BY DEF Passos
    <2> HIDE DEF q
    <2>5. /\ pc' \in [Requisicoes -> Passos] /\ pedido' \in [Requisicoes -> Pedido]
          /\ \A r \in Requisicoes : Traz(r)'
      BY <1>1, <2>2, <2>3, <2>4, PedidoEscrito DEF Traz
    <2> QED  BY <2>5, TInvPartes
  <1>3. CASE \E passo \in Passos \ {"rehash", "gravarSenha", "tocar"} : Segue(u, passo)
    <2>1. PICK passo \in Passos \ {"rehash", "gravarSenha", "tocar"} : Segue(u, passo)
      BY <1>3
    <2>2. Vai(u, passo) /\ pedido' = [pedido EXCEPT ![u] = pedido[u]]
      BY <1>1, <2>1 DEF Segue
    <2>3. /\ pc' \in [Requisicoes -> Passos] /\ pedido' \in [Requisicoes -> Pedido]
          /\ \A r \in Requisicoes : Traz(r)'
      BY <1>1, <2>1, <2>2, PedidoEscrito DEF Traz
    <2> QED  BY <2>3, TInvPartes
  <1> QED  BY <1>2, <1>3

\* Nothing that is kept changes.
LEMMA GuardadoFica ==
  ASSUME TInv, UNCHANGED guardado
  PROVE  Guardado' /\ agora' = agora
  BY DEF TInv, TypeOK, Guardado, guardado

\* Only the attempts change, or only the password, or only the sessions.
LEMMA GuardadoTentativas ==
  ASSUME TInv, UNCHANGED <<loja, agora, senha, asSessoes>>,
         tentativas' \in Tentativas \cup {Nulo},
         tentativas' # Nulo => tentativas'.ate <= agora + MaxLock
  PROVE  Guardado'
  BY DEF TInv, TypeOK, Guardado, asSessoes

LEMMA GuardadoSenha ==
  ASSUME TInv, UNCHANGED <<loja, agora, tentativas, asSessoes>>,
         senha' \in [de : Senhas, antiga : BOOLEAN]
  PROVE  Guardado'
  BY DEF TInv, TypeOK, Guardado, asSessoes

LEMMA GuardadoSessoes ==
  ASSUME TInv, UNCHANGED <<loja, agora, senha, tentativas>>,
         sessoes' \in [Tokens -> Sessao \cup {Nulo}],
         criados' \subseteq Tokens, indice' \subseteq Tokens, indiceAte' \in Tempo
  PROVE  Guardado'
  BY DEF TInv, TypeOK, Guardado

LEMMA SessoesTipo ==
  ASSUME TInv, agora' = agora,
         \/ UNCHANGED asSessoes
         \/ \E s \in Tokens : Create(s)
         \/ \E s \in Tokens, now \in Tempo : Touch(s, now)
         \/ \E T : Remove(T)
  PROVE  /\ sessoes' \in [Tokens -> Sessao \cup {Nulo}]
         /\ criados' \subseteq Tokens /\ indice' \subseteq Tokens /\ indiceAte' \in Tempo
  <1>1. /\ sessoes \in [Tokens -> Sessao \cup {Nulo}]
        /\ criados \subseteq Tokens /\ indice \subseteq Tokens /\ indiceAte \in Tempo
        /\ Indexadas \subseteq Tokens
    BY DEF TInv, TypeOK, Indexadas
  <1>2. agora \in Tempo /\ agora + SessionTTL \in Tempo  BY Tempos DEF TInv
  <1>3. CASE UNCHANGED asSessoes  BY <1>1, <1>3 DEF asSessoes
  <1>4. CASE \E s \in Tokens : Create(s)
    <2>1. PICK s \in Tokens : Create(s)  BY <1>4
    <2>2. [visto |-> agora, expira |-> agora + SessionTTL] \in Sessao  BY <1>2 DEF Sessao
    <2> QED  BY <1>1, <1>2, <2>1, <2>2 DEF Create, Maior
  <1>5. CASE \E s \in Tokens, now \in Tempo : Touch(s, now)
    <2>1. PICK s \in Tokens, now \in Tempo : Touch(s, now)  BY <1>5
    <2>2. sessoes[s] # Nulo => [sessoes[s] EXCEPT !.visto = now] \in Sessao
      BY <1>1 DEF Sessao
    <2> QED  BY <1>1, <2>1, <2>2 DEF Touch
  <1>6. CASE \E T : Remove(T)
    <2>1. PICK T : Remove(T)  BY <1>6
    <2> QED  BY <1>1, <2>1 DEF Remove
  <1> QED  BY <1>3, <1>4, <1>5, <1>6

LEMMA TentativasTipo ==
  ASSUME TInv
  PROVE  /\ TentativasDe \in Tentativas \cup {Nulo}
         /\ TentativasDe # Nulo =>
              TentativasDe \in Tentativas /\ TentativasDe.ate <= agora + MaxLock
  BY DEF TInv, TypeOK, TentativasDe

\* Counting a failure says nothing of locks.
LEMMA RegisterFailureTipo ==
  ASSUME TInv, NEW now \in Tempo, RegisterFailure(now)
  PROVE  tentativas' \in Tentativas /\ tentativas'.ate <= agora + MaxLock
  <1>1. /\ agora \in Tempo /\ agora \in Nat /\ 0 \in Tempo /\ MaxLock \in Nat
    BY Tempos DEF TInv
  <1> DEFINE t == TentativasDe
             desde == IF TentativasNoRedis THEN agora ELSE now
             d == IF t.desde = Sempre THEN agora ELSE t.desde
  <1>2. CASE t = Nulo \/ (~ TentativasNoRedis /\ t.desde < now - Window)
    <2>1. tentativas' = [falhas |-> 1, desde |-> desde, em |-> now, ate |-> 0]
      BY <1>2 DEF RegisterFailure
    <2> QED  BY <1>1, <2>1 DEF Tentativas
  <1>3. CASE ~(t = Nulo \/ (~ TentativasNoRedis /\ t.desde < now - Window))
    <2>1. t \in Tentativas /\ t.ate <= agora + MaxLock  BY <1>3, TentativasTipo
    <2>2. tentativas' = [t EXCEPT !.falhas = t.falhas + 1, !.em = now, !.desde = d]
      BY <1>3 DEF RegisterFailure
    <2>3. d \in Tempo  BY <1>1, <2>1 DEF Tentativas
    <2> HIDE DEF t, d
    <2>4. t.falhas + 1 \in Nat  BY <2>1 DEF Tentativas
    <2> QED  BY <2>1, <2>2, <2>3, <2>4 DEF Tentativas
  <1> QED  BY <1>2, <1>3

LEMMA LockTipo ==
  ASSUME TInv, NEW ate \in Tempo, ate <= agora + MaxLock, Lock(ate)
  PROVE  /\ tentativas' \in Tentativas \cup {Nulo}
         /\ tentativas' # Nulo => tentativas'.ate <= agora + MaxLock
  <1>1. agora \in Tempo /\ Sempre \in Tempo  BY Tempos DEF TInv
  <1> DEFINE t == TentativasDe
  <1>2. CASE t # Nulo
    <2>1. t \in Tentativas  BY <1>2, TentativasTipo
    <2>2. tentativas' = [t EXCEPT !.ate = ate, !.em = agora]  BY <1>2 DEF Lock
    <2> HIDE DEF t
    <2> QED  BY <1>1, <2>1, <2>2 DEF Tentativas
  <1>3. CASE t = Nulo  BY <1>1, <1>3 DEF Lock, Tentativas
  <1> QED  BY <1>2, <1>3

\* A request at a given call, with the fields a step writes.
LEMMA TiposDoPedido ==
  ASSUME TInv, NEW u \in Requisicoes
  PROVE  /\ pedido \in [Requisicoes -> Pedido] /\ pedido[u] \in Pedido
         /\ pedido[u].now \in Tempo /\ pedido[u].ate \in Tempo
         /\ pedido[u].now <= agora /\ pedido[u].ate <= agora + MaxLock
         /\ agora \in Tempo /\ agora <= agora
         /\ pc[u] \in {"rehash", "gravarSenha"} => pedido[u].senha \in Senhas
         /\ pc[u] = "tocar" => pedido[u].token \in Tokens
  <1>1. pedido \in [Requisicoes -> Pedido]  BY DEF TInv, TypeOK
  <1>2. pedido[u].now \in Tempo /\ pedido[u].ate \in Tempo /\ pedido[u] \in Pedido
    BY <1>1 DEF Pedido
  <1>3. agora \in Tempo /\ agora <= agora  BY Tempos DEF TInv
  <1> QED  BY <1>1, <1>2, <1>3 DEF TInv, Traz

LEMMA VivasTokens == Vivas \subseteq Tokens  BY DEF Vivas

\* A step that keeps everything and writes the request u.
LEMMA TipoDaLeitura ==
  ASSUME TInv, NEW u \in Requisicoes, UNCHANGED guardado,
         NEW passo \in Passos, NEW q \in Pedido,
         Vai(u, passo), pedido' = [pedido EXCEPT ![u] = q],
         passo \in {"rehash", "gravarSenha"} => q.senha \in Senhas,
         passo = "tocar" => q.token \in Tokens,
         q.now <= agora, q.ate <= agora + MaxLock
  PROVE  TInv'
  <1>1. Guardado' /\ agora' = agora  BY GuardadoFica
  <1>2. /\ pc' \in [Requisicoes -> Passos] /\ pedido' \in [Requisicoes -> Pedido]
        /\ \A r \in Requisicoes : Traz(r)'
    BY <1>1, PedidoEscrito
  <1> QED  BY <1>1, <1>2, TInvPartes

LEMMA TipoLogin == ASSUME TInv, NEW u \in Requisicoes, Login(u) PROVE TInv'
  <1>1. UNCHANGED guardado  BY DEF Login
  <1>2. CASE /\ Vai(u, "credenciais")
             /\ pedido' = [pedido EXCEPT ![u].op = "login", ![u].now = agora]
    <2> DEFINE q == [pedido[u] EXCEPT !.op = "login", !.now = agora]
    <2>1. q \in Pedido /\ q.now = agora /\ q.ate = pedido[u].ate
      BY TiposDoPedido DEF Pedido, Ops
    <2>2. pedido' = [pedido EXCEPT ![u] = q]  BY <1>2, TiposDoPedido
    <2> HIDE DEF q
    <2> QED  BY <1>1, <1>2, <2>1, <2>2, TiposDoPedido, TipoDaLeitura DEF Passos
  <1>3. CASE /\ Vai(u, "fim")
             /\ pedido' = [pedido EXCEPT ![u].op = "login", ![u].resposta = "429"]
    <2> DEFINE q == [pedido[u] EXCEPT !.op = "login", !.resposta = "429"]
    <2>1. q \in Pedido /\ q.now = pedido[u].now /\ q.ate = pedido[u].ate
      BY TiposDoPedido DEF Pedido, Ops, Respostas
    <2>2. pedido' = [pedido EXCEPT ![u] = q]  BY <1>3, TiposDoPedido
    <2> HIDE DEF q
    <2> QED  BY <1>1, <1>3, <2>1, <2>2, TiposDoPedido, TipoDaLeitura DEF Passos
  <1> QED  BY <1>2, <1>3 DEF Login

LEMMA TipoCredenciais == ASSUME TInv, NEW u \in Requisicoes, Credenciais(u) PROVE TInv'
  <1>1. PICK p \in Senhas, passo \in {"registrar", "rehash", "zerar"} :
          /\ Vai(u, passo) /\ pedido' = [pedido EXCEPT ![u].senha = p]
          /\ UNCHANGED guardado
    BY DEF Credenciais
  <1> DEFINE q == [pedido[u] EXCEPT !.senha = p]
  <1>2. q \in Pedido /\ q.now = pedido[u].now /\ q.ate = pedido[u].ate /\ q.senha = p
    BY TiposDoPedido DEF Pedido
  <1>3. pedido' = [pedido EXCEPT ![u] = q]  BY <1>1, TiposDoPedido
  <1> HIDE DEF q
  <1>4. passo \in Passos /\ passo # "tocar"  BY DEF Passos
  <1> QED  BY <1>1, <1>2, <1>3, <1>4, TiposDoPedido, TipoDaLeitura

LEMMA TipoRehash == ASSUME TInv, NEW u \in Requisicoes, Rehash(u) PROVE TInv'
  <1>1. /\ pc[u] = "rehash" /\ Segue(u, "zerar") /\ agora' = agora
        /\ UNCHANGED <<loja, agora, tentativas, asSessoes>>
        /\ senha' \in {senha, [de |-> pedido[u].senha, antiga |-> FALSE]}
    BY DEF Rehash, Esta
  <1>2. senha' \in [de : Senhas, antiga : BOOLEAN]
    <2>1. pedido[u].senha \in Senhas  BY <1>1, TiposDoPedido
    <2>2. [de |-> pedido[u].senha, antiga |-> FALSE] \in [de : Senhas, antiga : BOOLEAN]
      BY <2>1
    <2>3. senha \in [de : Senhas, antiga : BOOLEAN]  BY DEF TInv, TypeOK
    <2> QED  BY <1>1, <2>2, <2>3
  <1>3. Guardado'  BY <1>1, <1>2, GuardadoSenha
  <1>4. "zerar" \in Passos \ {"rehash", "gravarSenha", "tocar"}  BY DEF Passos
  <1> QED  BY <1>1, <1>3, <1>4, PedidoSegue

LEMMA TipoRegistrar == ASSUME TInv, NEW u \in Requisicoes, Registrar(u) PROVE TInv'
  <1>1. UNCHANGED <<loja, agora, senha, asSessoes>> /\ agora' = agora  BY DEF Registrar
  <1>2. tentativas' \in Tentativas \cup {Nulo}
        /\ (tentativas' # Nulo => tentativas'.ate <= agora + MaxLock)
    <2>1. CASE UNCHANGED tentativas  BY <2>1 DEF TInv, TypeOK
    <2>2. CASE RegisterFailure(pedido[u].now)
      BY <2>2, TiposDoPedido, RegisterFailureTipo
    <2> QED  BY <2>1, <2>2 DEF Registrar
  <1>3. Guardado'  BY <1>1, <1>2, GuardadoTentativas
  <1>4. CASE Responde(u, "401")
    <2>1. "401" \in Respostas  BY DEF Respostas
    <2> QED  BY <1>1, <1>3, <1>4, <2>1, PedidoSegue
  <1>5. CASE /\ Vai(u, "bloquear")
             /\ pedido' = [pedido EXCEPT
                  ![u].ate = pedido[u].now + LockDuration(tentativas'.falhas)]
    <2> DEFINE ate == pedido[u].now + LockDuration(tentativas'.falhas)
               q == [pedido[u] EXCEPT !.ate = ate]
    <2>1. ate \in Tempo /\ ate <= agora + MaxLock
      <3>1. /\ LockDuration(tentativas'.falhas) \in Nat
            /\ LockDuration(tentativas'.falhas) <= MaxLock
        BY LockDurationTipo
      <3>2. /\ agora \in Nat /\ MaxLock \in Nat /\ Tempo \subseteq Nat
            /\ \A x \in Nat : x <= agora + MaxLock => x \in Tempo
        BY Tempos DEF TInv
      <3>3. pedido[u].now \in Nat /\ pedido[u].now <= agora  BY <3>2, TiposDoPedido
      <3>4. ate \in Nat /\ ate <= agora + MaxLock  BY <3>1, <3>2, <3>3
      <3> QED  BY <3>2, <3>4
    <2> HIDE DEF ate
    <2>2. q \in Pedido /\ q.now = pedido[u].now /\ q.ate = ate
      BY <2>1, TiposDoPedido DEF Pedido
    <2>3. pedido' = [pedido EXCEPT ![u] = q]  BY <1>5, TiposDoPedido DEF ate
    <2> HIDE DEF q
    <2>4. "bloquear" \in Passos  BY DEF Passos
    <2>5. /\ pc' \in [Requisicoes -> Passos] /\ pedido' \in [Requisicoes -> Pedido]
          /\ \A r \in Requisicoes : Traz(r)'
      BY <1>1, <1>5, <2>1, <2>2, <2>3, <2>4, TiposDoPedido, PedidoEscrito
    <2> QED  BY <1>3, <2>5, TInvPartes
  <1> QED  BY <1>4, <1>5 DEF Registrar

LEMMA TipoBloquear == ASSUME TInv, NEW u \in Requisicoes, Bloquear(u) PROVE TInv'
  <1>1. UNCHANGED <<loja, agora, senha, asSessoes>> /\ agora' = agora  BY DEF Bloquear
  <1>2. tentativas' \in Tentativas \cup {Nulo}
        /\ (tentativas' # Nulo => tentativas'.ate <= agora + MaxLock)
    <2>1. CASE UNCHANGED tentativas  BY <2>1 DEF TInv, TypeOK
    <2>2. CASE Lock(pedido[u].ate)  BY <2>2, TiposDoPedido, LockTipo
    <2> QED  BY <2>1, <2>2 DEF Bloquear
  <1>3. Guardado'  BY <1>1, <1>2, GuardadoTentativas
  <1>4. \E x \in Respostas : Responde(u, x)  BY DEF Bloquear, Respostas
  <1> QED  BY <1>1, <1>3, <1>4, PedidoSegue

LEMMA TipoZerar == ASSUME TInv, NEW u \in Requisicoes, Zerar(u) PROVE TInv'
  <1>1. /\ UNCHANGED <<loja, agora, senha, asSessoes>> /\ agora' = agora
        /\ tentativas' \in {Nulo, tentativas} /\ Segue(u, "criar")
    BY DEF Zerar
  <1>2. Guardado'  BY <1>1, GuardadoTentativas DEF TInv, TypeOK
  <1>3. "criar" \in Passos \ {"rehash", "gravarSenha", "tocar"}  BY DEF Passos
  <1> QED  BY <1>1, <1>2, <1>3, PedidoSegue

\* A step on the sessions that goes on or answers.
LEMMA TipoDasSessoes ==
  ASSUME TInv, NEW u \in Requisicoes, UNCHANGED <<loja, agora, senha, tentativas>>,
         \/ UNCHANGED asSessoes
         \/ \E s \in Tokens : Create(s)
         \/ \E s \in Tokens, now \in Tempo : Touch(s, now)
         \/ \E T : Remove(T),
         \/ \E x \in Respostas : Responde(u, x)
         \/ \E passo \in Passos \ {"rehash", "gravarSenha", "tocar"} : Segue(u, passo)
  PROVE  TInv'
  <1>1. /\ sessoes' \in [Tokens -> Sessao \cup {Nulo}]
        /\ criados' \subseteq Tokens /\ indice' \subseteq Tokens /\ indiceAte' \in Tempo
    BY SessoesTipo
  <1>2. Guardado'  BY <1>1, GuardadoSessoes
  <1> QED  BY <1>2, PedidoSegue

LEMMA TipoCriar == ASSUME TInv, NEW u \in Requisicoes, Criar(u) PROVE TInv'
  <1>1. "ok" \in Respostas  BY DEF Respostas
  <1> QED  BY <1>1, TipoDasSessoes DEF Criar

LEMMA TipoApagar == ASSUME TInv, NEW u \in Requisicoes, Apagar(u) PROVE TInv'
  <1>1. \E x \in Respostas : Responde(u, x)  BY DEF Apagar, Respostas
  <1> QED  BY <1>1, TipoDasSessoes DEF Apagar

LEMMA TipoTocar == ASSUME TInv, NEW u \in Requisicoes, Tocar(u) PROVE TInv'
  <1>1. /\ pc[u] = "tocar" /\ UNCHANGED <<loja, agora, senha, tentativas>>
        /\ Touch(pedido[u].token, pedido[u].now) \/ UNCHANGED asSessoes
        /\ Responde(u, "ok")
    BY DEF Tocar, Esta
  <1>2. pedido[u].token \in Tokens /\ pedido[u].now \in Tempo  BY <1>1, TiposDoPedido
  <1>3. "ok" \in Respostas  BY DEF Respostas
  <1> QED  BY <1>1, <1>2, <1>3, TipoDasSessoes

LEMMA DepoisTipo ==
  ASSUME NEW u \in Requisicoes, DepoisDeEncerrar(u)
  PROVE  \/ \E x \in Respostas : Responde(u, x)
         \/ \E passo \in Passos \ {"rehash", "gravarSenha", "tocar"} : Segue(u, passo)
  BY DEF DepoisDeEncerrar, Respostas, Passos

LEMMA TipoEncerrar == ASSUME TInv, NEW u \in Requisicoes, Encerrar(u) PROVE TInv'
  <1>1. UNCHANGED <<loja, agora, senha, tentativas>>  BY DEF Encerrar
  <1>2. CASE Redis
    <2> DEFINE lidas == Indexadas \ {pedido[u].token}
               q == [pedido[u] EXCEPT !.lidas = lidas]
    <2>1. /\ Vai(u, "encerrarLidas") /\ UNCHANGED asSessoes
          /\ pedido' = [pedido EXCEPT ![u].lidas = lidas]
      BY <1>2 DEF Encerrar
    <2>2. lidas \subseteq Tokens  BY DEF TInv, TypeOK, Indexadas
    <2> HIDE DEF lidas
    <2>3. q \in Pedido /\ q.now = pedido[u].now /\ q.ate = pedido[u].ate
      BY <2>2, TiposDoPedido DEF Pedido
    <2>4. pedido' = [pedido EXCEPT ![u] = q]  BY <2>1, TiposDoPedido
    <2>5. UNCHANGED guardado  BY <1>1, <2>1 DEF guardado, asSessoes
    <2> HIDE DEF q
    <2> QED  BY <2>1, <2>3, <2>4, <2>5, TiposDoPedido, TipoDaLeitura DEF Passos
  <1>3. CASE ~ Redis
    BY <1>1, <1>3, DepoisTipo, TipoDasSessoes DEF Encerrar
  <1> QED  BY <1>2, <1>3

LEMMA TipoEncerrarLidas == ASSUME TInv, NEW u \in Requisicoes, EncerrarLidas(u) PROVE TInv'
  BY DepoisTipo, TipoDasSessoes DEF EncerrarLidas

LEMMA TipoChangePassword ==
  ASSUME TInv, NEW u \in Requisicoes, ChangePassword(u) PROVE TInv'
  <1>1. PICK nova \in Senhas :
          /\ Vai(u, "gravarSenha") /\ UNCHANGED guardado
          /\ pedido' = [pedido EXCEPT ![u].op = "trocar", ![u].senha = nova]
    BY DEF ChangePassword
  <1> DEFINE q == [pedido[u] EXCEPT !.op = "trocar", !.senha = nova]
  <1>2. q \in Pedido /\ q.now = pedido[u].now /\ q.ate = pedido[u].ate /\ q.senha = nova
    BY TiposDoPedido DEF Pedido, Ops
  <1>3. pedido' = [pedido EXCEPT ![u] = q]  BY <1>1, TiposDoPedido
  <1> HIDE DEF q
  <1>4. "gravarSenha" \in Passos  BY DEF Passos
  <1> QED  BY <1>1, <1>2, <1>3, <1>4, TiposDoPedido, TipoDaLeitura

LEMMA TipoGravarSenha == ASSUME TInv, NEW u \in Requisicoes, GravarSenha(u) PROVE TInv'
  <1>1. /\ pc[u] = "gravarSenha" /\ Vai(u, "encerrar") /\ agora' = agora
        /\ pedido' = [pedido EXCEPT ![u].antes = Vivas]
        /\ senha' = [de |-> pedido[u].senha, antiga |-> FALSE]
        /\ UNCHANGED <<loja, agora, tentativas, asSessoes>>
    BY DEF GravarSenha, Esta
  <1>2. pedido[u].senha \in Senhas  BY <1>1, TiposDoPedido
  <1>3. senha' \in [de : Senhas, antiga : BOOLEAN]  BY <1>1, <1>2
  <1>4. Guardado'  BY <1>1, <1>3, GuardadoSenha
  <1> DEFINE q == [pedido[u] EXCEPT !.antes = Vivas]
  <1>5. q \in Pedido /\ q.now = pedido[u].now /\ q.ate = pedido[u].ate
    BY VivasTokens, TiposDoPedido DEF Pedido
  <1>6. pedido' = [pedido EXCEPT ![u] = q]  BY <1>1, TiposDoPedido
  <1> HIDE DEF q
  <1>7. "encerrar" \in Passos  BY DEF Passos
  <1>8. /\ pc' \in [Requisicoes -> Passos] /\ pedido' \in [Requisicoes -> Pedido]
        /\ \A r \in Requisicoes : Traz(r)'
    BY <1>1, <1>5, <1>6, <1>7, TiposDoPedido, PedidoEscrito
  <1> QED  BY <1>4, <1>8, TInvPartes

LEMMA TipoRevokeSessions ==
  ASSUME TInv, NEW u \in Requisicoes, RevokeSessions(u) PROVE TInv'
  <1>1. PICK s \in Vivas, manter \in BOOLEAN :
          /\ Vai(u, "encerrar") /\ UNCHANGED guardado
          /\ pedido' = [pedido EXCEPT
               ![u].op = "revogar", ![u].token = IF manter THEN s ELSE Nulo,
               ![u].antes = IF manter THEN Vivas \ {s} ELSE Vivas]
    BY DEF RevokeSessions
  <1> DEFINE token == IF manter THEN s ELSE Nulo
             antes == IF manter THEN Vivas \ {s} ELSE Vivas
             q == [pedido[u] EXCEPT !.op = "revogar", !.token = token, !.antes = antes]
  <1>2. token \in Tokens \cup {Nulo} /\ antes \subseteq Tokens  BY VivasTokens
  <1>3. pedido' = [pedido EXCEPT ![u] = q]  BY <1>1, TiposDoPedido
  <1> HIDE DEF token, antes
  <1>4. q \in Pedido /\ q.now = pedido[u].now /\ q.ate = pedido[u].ate
    BY <1>2, TiposDoPedido DEF Pedido, Ops
  <1> HIDE DEF q
  <1>5. "encerrar" \in Passos  BY DEF Passos
  <1> QED  BY <1>1, <1>3, <1>4, <1>5, TiposDoPedido, TipoDaLeitura

LEMMA TipoLogout == ASSUME TInv, NEW u \in Requisicoes, Logout(u) PROVE TInv'
  <1>1. PICK s \in Tokens :
          /\ Vai(u, "apagar") /\ UNCHANGED guardado
          /\ pedido' = [pedido EXCEPT ![u].op = "logout", ![u].token = s]
    BY VivasTokens DEF Logout
  <1> DEFINE q == [pedido[u] EXCEPT !.op = "logout", !.token = s]
  <1>2. q \in Pedido /\ q.now = pedido[u].now /\ q.ate = pedido[u].ate
    BY TiposDoPedido DEF Pedido, Ops
  <1>3. pedido' = [pedido EXCEPT ![u] = q]  BY <1>1, TiposDoPedido
  <1> HIDE DEF q
  <1>4. "apagar" \in Passos  BY DEF Passos
  <1> QED  BY <1>1, <1>2, <1>3, <1>4, TiposDoPedido, TipoDaLeitura

LEMMA TipoAuthenticate == ASSUME TInv, NEW u \in Requisicoes, Authenticate(u) PROVE TInv'
  <1>1. PICK s \in Tokens, passo \in {"apagar", "tocar"} :
          /\ Vai(u, passo) /\ UNCHANGED guardado
          /\ pedido' = [pedido EXCEPT ![u].op = "authenticate", ![u].token = s,
                                      ![u].now = agora]
    BY VivasTokens DEF Authenticate
  <1> DEFINE q == [pedido[u] EXCEPT !.op = "authenticate", !.token = s, !.now = agora]
  <1>2. q \in Pedido /\ q.now = agora /\ q.ate = pedido[u].ate /\ q.token = s
    BY TiposDoPedido DEF Pedido, Ops
  <1>3. pedido' = [pedido EXCEPT ![u] = q]  BY <1>1, TiposDoPedido
  <1> HIDE DEF q
  <1>4. passo \in Passos /\ passo \notin {"rehash", "gravarSenha"}  BY DEF Passos
  <1> QED  BY <1>1, <1>2, <1>3, <1>4, TiposDoPedido, TipoDaLeitura

LEMMA TipoFalhar == ASSUME TInv, NEW u \in Requisicoes, Falhar(u) PROVE TInv'
  <1>1. Responde(u, "erro") /\ UNCHANGED guardado  BY DEF Falhar
  <1>2. Guardado' /\ agora' = agora /\ "erro" \in Respostas
    BY <1>1, GuardadoFica DEF Respostas
  <1> QED  BY <1>1, <1>2, PedidoSegue

LEMMA TipoLimpar == ASSUME TInv, Limpar PROVE TInv'
  <1>1. /\ UNCHANGED <<loja, agora, senha, criados, indice, indiceAte, pc, pedido>>
        /\ sessoes' = IF Redis THEN sessoes
                      ELSE [s \in Tokens |-> IF Viva(s) THEN sessoes[s] ELSE Nulo]
        /\ tentativas' \in {tentativas, Nulo}
    BY DEF Limpar
  <1>2. Guardado'  BY <1>1 DEF TInv, TypeOK, Guardado
  <1>3. /\ pc' \in [Requisicoes -> Passos] /\ pedido' \in [Requisicoes -> Pedido]
        /\ \A r \in Requisicoes : Traz(r)'
    BY <1>1 DEF TInv, TypeOK, Traz
  <1> QED  BY <1>2, <1>3, TInvPartes

LEMMA TipoPassa == ASSUME TInv, Passa PROVE TInv'
  <1>1. /\ UNCHANGED <<loja, senha, tentativas, asSessoes, pc, pedido>>
        /\ agora' = agora + 1 /\ agora < MaxTempo
    BY DEF Passa
  <1>2. agora \in Nat /\ agora' \in 0..MaxTempo /\ MaxLock \in Nat
        /\ Tempo \subseteq Int
    BY <1>1, AutenticacaoAssumption DEF TInv, TypeOK, Tempo
  <1>3. Guardado'
    <2>1. tentativas # Nulo => tentativas.ate \in Int /\ tentativas.ate <= agora + MaxLock
      BY <1>2 DEF TInv, TypeOK, Tentativas
    <2>2. tentativas' # Nulo => tentativas'.ate <= agora' + MaxLock
      BY <1>1, <1>2, <2>1
    <2> QED  BY <1>1, <1>2, <2>2 DEF TInv, TypeOK, Guardado, asSessoes
  <1>4. ASSUME NEW r \in Requisicoes PROVE Traz(r)'
    <2>1. pedido[r].now \in Int /\ pedido[r].ate \in Int
      BY <1>2, TiposDoPedido
    <2>2. Traz(r)  BY DEF TInv
    <2> QED  BY <1>1, <1>2, <2>1, <2>2 DEF Traz
  <1>5. pc' \in [Requisicoes -> Passos] /\ pedido' \in [Requisicoes -> Pedido]
    BY <1>1 DEF TInv, TypeOK
  <1> QED  BY <1>3, <1>4, <1>5, TInvPartes

LEMMA TInit == Init => TInv
  <1> SUFFICES ASSUME Init PROVE TInv  OBVIOUS
  <1>1. MaxTempo \in Nat /\ MaxLock \in Nat /\ 0 \in Tempo
    BY AutenticacaoAssumption DEF Tempo, Sempre
  <1>2. SemPedido \in Pedido /\ SemPedido.now = 0 /\ SemPedido.ate = 0
    BY <1>1 DEF SemPedido, Pedido, Respostas
  <1>3. TypeOK
    BY <1>1, <1>2 DEF Init, TypeOK, Passos
  <1>4. ASSUME NEW r \in Requisicoes PROVE Traz(r)
    BY <1>1, <1>2 DEF Init, Traz
  <1> QED  BY <1>3, <1>4 DEF TInv, Init

LEMMA TNext == TInv /\ [Next]_vars => TInv'
  <1> SUFFICES ASSUME TInv, [Next]_vars PROVE TInv'  OBVIOUS
  <1>1. CASE UNCHANGED vars
    <2>1. Guardado'  BY <1>1, GuardadoFica DEF vars, guardado, asSessoes
    <2>2. /\ pc' \in [Requisicoes -> Passos] /\ pedido' \in [Requisicoes -> Pedido]
          /\ \A r \in Requisicoes : Traz(r)'
      BY <1>1 DEF TInv, TypeOK, Traz, vars
    <2> QED  BY <2>1, <2>2, TInvPartes
  <1>2. ASSUME NEW u \in Requisicoes, Passo(u) PROVE TInv'
    BY <1>2, TipoLogin, TipoCredenciais, TipoRehash, TipoRegistrar, TipoBloquear,
       TipoZerar, TipoCriar, TipoChangePassword, TipoGravarSenha, TipoRevokeSessions,
       TipoEncerrar, TipoEncerrarLidas, TipoLogout, TipoAuthenticate, TipoApagar,
       TipoTocar, TipoFalhar DEF Passo
  <1> QED  BY <1>1, <1>2, TipoLimpar, TipoPassa DEF Next


-------------------------------------------------------------------------------
(* What every behaviour has *)

\* AInv holds at every state: it is inductive.
THEOREM Invariante == Spec => []AInv
  <1> QED  BY AInit, ANext, PTL DEF Spec

\* The set of the user in Redis has every session that lives and lasts as long
\* (the ExpireGT and ExpireNX of Create).
THEOREM IndiceCompleto == Spec => []IndiceConfere
  <1>1. AInv => IndiceConfere
    BY DEF AInv, Depositos, IndiceConfere, Vivas, Viva, Indexadas
  <1> QED  BY <1>1, Invariante, PTL

\* No session that was created and ended lives again, in either store: a late
\* Touch, a cleanup and the clock included.
THEOREM SessaoNaoRessuscita == Spec => SessaoEncerradaNaoVolta
  <1>1. AInv /\ [Next]_vars =>
          [\A s \in Tokens : ~ Viva(s) /\ Viva(s)' => s \notin criados]_vars
    BY TodoEfeito, EfeitoConfere DEF AInv, SemVolta
  <1> QED  BY <1>1, Invariante, PTL DEF Spec, SessaoEncerradaNaoVolta

\* The answer to a change of password, or to the ending of the sessions, finds
\* no session left of those there were when the password was written or the
\* request made, whatever logins, touches and failures run at the same time.
THEOREM RevogacaoCompleta == Spec => []RevogacaoAlcanca
  <1>1. AInv => RevogacaoAlcanca
    BY DEF AInv, Pedidos, Encerrando, Sobram, RevogacaoAlcanca
  <1> QED  BY <1>1, Invariante, PTL

\* The types, and what a request carries to each call.
THEOREM AutenticacaoTypeOK == Spec => []TypeOK
  <1>1. TInv => TypeOK  BY DEF TInv
  <1> QED  BY <1>1, TInit, TNext, PTL DEF Spec

\* No login is locked for longer than MaxLock, however many failures are counted
\* by however many requests, one of them late.
THEOREM BloqueioLimitado == Spec => []BloqueioTemTeto
  <1>1. ASSUME TInv PROVE BloqueioTemTeto
    <2> SUFFICES ASSUME Bloqueado PROVE TentativasDe.ate - agora <= MaxLock
      BY DEF BloqueioTemTeto
    <2>1. TentativasDe \in Tentativas /\ TentativasDe.ate <= agora + MaxLock
      BY <1>1, TentativasTipo DEF Bloqueado
    <2>2. agora \in Nat /\ MaxLock \in Nat /\ Tempo \subseteq Nat
      BY <1>1, Tempos DEF TInv
    <2>3. TentativasDe.ate \in Nat  BY <2>1, <2>2 DEF Tentativas
    <2> QED  BY <2>1, <2>2, <2>3
  <1> QED  BY <1>1, TInit, TNext, PTL DEF Spec

=============================================================================
