----------------------------- MODULE Autenticacao -----------------------------
(***************************************************************************)
(* The sessions of one user and the progressive lock of his logins:        *)
(* AuthService over the stores of sessions and of login attempts, each in  *)
(* PostgreSQL or in Redis, as configured.                                  *)
(*                                                                         *)
(* Each call to a store is a step, and pc[r] names the call request r      *)
(* makes next.  What the Redis stores send in MULTI/EXEC is one step.  A   *)
(* request performs one operation, and any call of it may fail: where the  *)
(* service only logs the failure the request goes on, otherwise it ends    *)
(* with what it had done.  A session that expires in Redis is gone by      *)
(* itself; in PostgreSQL it stays until the cleanup, and no query sees it. *)
(***************************************************************************)
EXTENDS Integers, FiniteSets

CONSTANTS
  Requisicoes,    \* requests
  Tokens,         \* bound: sessions ever created
  Senhas,         \* passwords
  SessionTTL, SessionIdleTimeout, TouchInterval,   \* AuthConfig, in ticks
  FreeAttempts, BaseLock, MaxLock, Window,         \* LoginLockoutPolicy
  MaxTempo,       \* bound: ticks of the clock
  Nulo

ASSUME AutenticacaoAssumption ==
  /\ SessionTTL \in Nat \ {0} /\ SessionIdleTimeout \in Nat
  /\ TouchInterval \in Nat \ {0}
  /\ FreeAttempts \in Nat \ {0} /\ BaseLock \in Nat \ {0} /\ Window \in Nat \ {0}
  /\ MaxLock \in Nat /\ BaseLock <= MaxLock
  /\ MaxTempo \in Nat
  /\ Nulo \notin Requisicoes \cup Tokens \cup Senhas

VARIABLES
  loja,         \* SESSION_STORE, LOGIN_ATTEMPTS_STORE
  agora,        \* the clock
  senha,        \* users.password_hash: of which password, with old parameters?
  tentativas,   \* the row or hash of login attempts, or Nulo
  sessoes,      \* token -> [visto, expira], or Nulo
  criados,      \* tokens given so far
  indice,       \* Redis: the set of the sessions of the user,
  indiceAte,    \*   and when it expires
  pc,           \* the call each request makes next
  pedido        \* what it asked for and has read

vars == <<loja, agora, senha, tentativas, sessoes, criados, indice, indiceAte,
          pc, pedido>>
guardado == <<loja, agora, senha, tentativas, sessoes, criados, indice, indiceAte>>
asSessoes == <<sessoes, criados, indice, indiceAte>>

Lojas == [sessoes : {"postgres", "redis"}, tentativas : {"postgres", "redis"}]
Sempre == MaxTempo + SessionTTL + Window + MaxLock + 1  \* a key without TTL
Tempo == 0..Sempre
Sessao == [visto : Tempo, expira : Tempo]
\* desde is the first failure of the window, em the last change (updated_at); not
\* locked is ate = 0.
Tentativas == [falhas : Nat, desde : Tempo, em : Tempo, ate : Tempo]
Passos == {"chegou", "credenciais", "rehash", "registrar", "bloquear", "zerar",
           "criar", "gravarSenha", "encerrar", "encerrarLidas", "apagar", "tocar",
           "fim"}
Respostas == {"nenhuma", "ok", "401", "429", "erro"}
Ops == {"login", "trocar", "revogar", "logout", "authenticate"}
Pedido == [op : Ops \cup {"nenhuma"}, now : Tempo, senha : Senhas \cup {Nulo},
           ate : Tempo, token : Tokens \cup {Nulo}, lidas : SUBSET Tokens,
           antes : SUBSET Tokens, resposta : Respostas]
SemPedido == [op |-> "nenhuma", now |-> 0, senha |-> Nulo, ate |-> 0, token |-> Nulo,
              lidas |-> {}, antes |-> {}, resposta |-> "nenhuma"]

TypeOK ==
  /\ loja \in Lojas
  /\ agora \in 0..MaxTempo
  /\ senha \in [de : Senhas, antiga : BOOLEAN]
  /\ tentativas \in Tentativas \cup {Nulo}
  /\ sessoes \in [Tokens -> Sessao \cup {Nulo}]
  /\ criados \subseteq Tokens
  /\ indice \subseteq Tokens
  /\ indiceAte \in Tempo
  /\ pc \in [Requisicoes -> Passos]
  /\ pedido \in [Requisicoes -> Pedido]

Init ==
  /\ loja \in Lojas
  /\ agora = 0
  /\ senha \in [de : Senhas, antiga : BOOLEAN]
  /\ tentativas = Nulo
  /\ sessoes = [s \in Tokens |-> Nulo]
  /\ criados = {}
  /\ indice = {} /\ indiceAte = 0
  /\ pc = [r \in Requisicoes |-> "chegou"]
  /\ pedido = [r \in Requisicoes |-> SemPedido]

Esta(r, passo) == pc[r] = passo
Vai(r, passo) == pc' = [pc EXCEPT ![r] = passo]
Segue(r, passo) == Vai(r, passo) /\ UNCHANGED pedido
Responde(r, x) == Vai(r, "fim") /\ pedido' = [pedido EXCEPT ![r].resposta = x]

-------------------------------------------------------------------------------
(* The stores of sessions *)

Redis == loja.sessoes = "redis"
Viva(s) == sessoes[s] # Nulo /\ agora < sessoes[s].expira
Vivas == {s \in Tokens : Viva(s)}
Indexadas == IF agora < indiceAte THEN indice ELSE {}
Maior(a, b) == IF a > b THEN a ELSE b

\* Mutant of Create: the set of the user keeps its first time to live.
CreateSemRenovar(s) ==
  /\ s \notin criados
  /\ criados' = criados \cup {s}
  /\ sessoes' = [sessoes EXCEPT ![s] = [visto |-> agora, expira |-> agora + SessionTTL]]
  /\ indice' = Indexadas \cup {s}
  /\ indiceAte' = IF Indexadas = {} THEN agora + SessionTTL ELSE indiceAte

\* Create.  In Redis the set of the user outlives the session (ExpireGT and
\* ExpireNX).
Create(s) ==
  /\ s \notin criados
  /\ criados' = criados \cup {s}
  /\ sessoes' = [sessoes EXCEPT ![s] = [visto |-> agora, expira |-> agora + SessionTTL]]
  /\ IF Redis
     THEN /\ indice' = Indexadas \cup {s}
          /\ indiceAte' = IF Indexadas = {} THEN agora + SessionTTL
                          ELSE Maior(indiceAte, agora + SessionTTL)
     ELSE UNCHANGED <<indice, indiceAte>>

\* Mutant of Touch: SET without XX.
TouchSemXX(s, now) ==
  /\ sessoes' = [sessoes EXCEPT ![s] = [visto |-> now, expira |-> now + SessionTTL]]
  /\ UNCHANGED <<criados, indice, indiceAte>>

\* Touch: UPDATE, or SET with XX, so that a session that is gone stays gone.
Touch(s, now) ==
  /\ sessoes' = IF sessoes[s] # Nulo THEN [sessoes EXCEPT ![s].visto = now] ELSE sessoes
  /\ UNCHANGED <<criados, indice, indiceAte>>

\* Delete of a session, and DeleteAllForUser of those given.
Remove(tokens) ==
  /\ sessoes' = [s \in Tokens |-> IF s \in tokens THEN Nulo ELSE sessoes[s]]
  /\ indice' = IF Redis THEN Indexadas \ tokens ELSE indice
  /\ UNCHANGED <<criados, indiceAte>>

-------------------------------------------------------------------------------
(* The stores of login attempts *)

\* Mutant of LockDuration: no ceiling.
LockDurationSemTeto(n) ==
  IF n <= FreeAttempts THEN 0 ELSE BaseLock * 2 ^ (n - FreeAttempts - 1)

\* Doubled at each failure beyond the free ones, up to MaxLock.
LockDuration(n) ==
  LET d == BaseLock * 2 ^ (n - FreeAttempts - 1)
  IN IF n <= FreeAttempts THEN 0 ELSE IF d \in 0..MaxLock THEN d ELSE MaxLock

TentativasNoRedis == loja.tentativas = "redis"

\* The state Get sees.  In Redis the window is the time to live of the hash,
\* which lasts at least as long as the lock.
TentativasDe ==
  IF /\ tentativas # Nulo /\ TentativasNoRedis
     /\ agora >= tentativas.desde + Window /\ agora >= tentativas.ate
  THEN Nulo ELSE tentativas

\* Mutant of RegisterFailure: the failures left are counted down.
RegisterFailureRegressiva(now) ==
  tentativas' = IF TentativasDe = Nulo
                THEN [falhas |-> 1, desde |-> now, em |-> now, ate |-> 0]
                ELSE [TentativasDe EXCEPT !.falhas = @ - 1]

\* RegisterFailure: outside of its window the count starts again.  A hash that
\* has no time to live receives one.
RegisterFailure(now) ==
  LET t == TentativasDe
      desde == IF TentativasNoRedis THEN agora ELSE now
  IN tentativas' =
       IF t = Nulo \/ (~ TentativasNoRedis /\ t.desde < now - Window)
       THEN [falhas |-> 1, desde |-> desde, em |-> now, ate |-> 0]
       ELSE [t EXCEPT !.falhas = @ + 1, !.em = now,
                      !.desde = IF @ = Sempre THEN agora ELSE @]

\* Lock.  The UPDATE finds no row when the attempts were reset meanwhile; the
\* HSET of Redis creates the hash again, without a time to live.
Lock(ate) ==
  LET t == TentativasDe
  IN tentativas' =
       IF t # Nulo THEN [t EXCEPT !.ate = ate, !.em = agora]
       ELSE IF TentativasNoRedis
            THEN [falhas |-> 0, desde |-> Sempre, em |-> agora, ate |-> ate]
       ELSE Nulo

Bloqueado == TentativasDe # Nulo /\ TentativasDe.ate > agora

-------------------------------------------------------------------------------
(* Login *)

\* The clock and Get; the login goes on if Get fails.
Login(r) ==
  /\ Esta(r, "chegou")
  /\ \/ /\ Vai(r, "credenciais")
        /\ pedido' = [pedido EXCEPT ![r].op = "login", ![r].now = agora]
     \/ /\ Bloqueado
        /\ Vai(r, "fim")
        /\ pedido' = [pedido EXCEPT ![r].op = "login", ![r].resposta = "429"]
  /\ UNCHANGED guardado

\* checkCredentials, of whatever password was typed.
Credenciais(r) ==
  \E p \in Senhas :
    /\ Esta(r, "credenciais")
    /\ Vai(r, IF p # senha.de THEN "registrar"
              ELSE IF senha.antiga THEN "rehash" ELSE "zerar")
    /\ pedido' = [pedido EXCEPT ![r].senha = p]
    /\ UNCHANGED guardado

\* UpdatePasswordHash, with the hash of the password that was verified.
Rehash(r) ==
  /\ Esta(r, "rehash")
  /\ senha' \in {senha, [de |-> pedido[r].senha, antiga |-> FALSE]}
  /\ Segue(r, "zerar")
  /\ UNCHANGED <<loja, agora, tentativas, asSessoes>>

\* A failure that is not counted, or does not lock, is an ordinary 401.
Registrar(r) ==
  /\ Esta(r, "registrar")
  /\ \/ Responde(r, "401") /\ UNCHANGED tentativas
     \/ /\ RegisterFailure(pedido[r].now)
        /\ IF LockDuration(tentativas'.falhas) = 0
           THEN Responde(r, "401")
           ELSE /\ Vai(r, "bloquear")
                /\ pedido' = [pedido EXCEPT
                                ![r].ate = pedido[r].now + LockDuration(tentativas'.falhas)]
  /\ UNCHANGED <<loja, agora, senha, asSessoes>>

Bloquear(r) ==
  /\ Esta(r, "bloquear")
  /\ \/ Lock(pedido[r].ate) /\ Responde(r, "429")
     \/ Responde(r, "401") /\ UNCHANGED tentativas
  /\ UNCHANGED <<loja, agora, senha, asSessoes>>

\* Reset, of a login and of a change of password.
Zerar(r) ==
  /\ Esta(r, "zerar")
  /\ tentativas' \in {Nulo, tentativas}
  /\ Segue(r, "criar")
  /\ UNCHANGED <<loja, agora, senha, asSessoes>>

\* newSession
Criar(r) ==
  /\ Esta(r, "criar")
  /\ \E s \in Tokens : Create(s)
  /\ Responde(r, "ok")
  /\ UNCHANGED <<loja, agora, senha, tentativas>>

-------------------------------------------------------------------------------
(* The other operations, of someone with a session *)

\* ChangePassword, up to the checks on the two passwords.
ChangePassword(r) ==
  \E nova \in Senhas \ {senha.de} :
    /\ Esta(r, "chegou") /\ Vivas # {}
    /\ Vai(r, "gravarSenha")
    /\ pedido' = [pedido EXCEPT ![r].op = "trocar", ![r].senha = nova]
    /\ UNCHANGED guardado

\* Mutant of GravarSenha: the sessions are left open.
GravarSemEncerrar(r) ==
  /\ Esta(r, "gravarSenha")
  /\ senha' = [de |-> pedido[r].senha, antiga |-> FALSE]
  /\ Vai(r, "zerar")
  /\ pedido' = [pedido EXCEPT ![r].antes = Vivas]
  /\ UNCHANGED <<loja, agora, tentativas, asSessoes>>

GravarSenha(r) ==
  /\ Esta(r, "gravarSenha")
  /\ senha' = [de |-> pedido[r].senha, antiga |-> FALSE]
  /\ Vai(r, "encerrar")
  /\ pedido' = [pedido EXCEPT ![r].antes = Vivas]
  /\ UNCHANGED <<loja, agora, tentativas, asSessoes>>

\* RevokeSessions, of all or of the others.
RevokeSessions(r) ==
  \E s \in Vivas, manter \in BOOLEAN :
    /\ Esta(r, "chegou")
    /\ Vai(r, "encerrar")
    /\ pedido' = [pedido EXCEPT ![r].op = "revogar",
                                ![r].token = IF manter THEN s ELSE Nulo,
                                ![r].antes = IF manter THEN Vivas \ {s} ELSE Vivas]
    /\ UNCHANGED guardado

DepoisDeEncerrar(r) ==
  IF pedido[r].op = "trocar" THEN Segue(r, "zerar") ELSE Responde(r, "ok")

\* DeleteAllForUser: one DELETE, or in Redis SMEMBERS and then the deletion of
\* the sessions it listed.
Encerrar(r) ==
  /\ Esta(r, "encerrar")
  /\ IF Redis
     THEN /\ Vai(r, "encerrarLidas")
          /\ pedido' = [pedido EXCEPT ![r].lidas = Indexadas \ {pedido[r].token}]
          /\ UNCHANGED asSessoes
     ELSE /\ Remove(Tokens \ {pedido[r].token})
          /\ DepoisDeEncerrar(r)
  /\ UNCHANGED <<loja, agora, senha, tentativas>>

EncerrarLidas(r) ==
  /\ Esta(r, "encerrarLidas")
  /\ Remove(pedido[r].lidas)
  /\ DepoisDeEncerrar(r)
  /\ UNCHANGED <<loja, agora, senha, tentativas>>

Logout(r) ==
  \E s \in Vivas :
    /\ Esta(r, "chegou")
    /\ Vai(r, "apagar")
    /\ pedido' = [pedido EXCEPT ![r].op = "logout", ![r].token = s]
    /\ UNCHANGED guardado

\* Authenticate, up to FindByTokenHash: an idle session is deleted, and one not
\* seen for a while is touched.
Authenticate(r) ==
  \E s \in Vivas :
    /\ Esta(r, "chegou")
    /\ pedido' = [pedido EXCEPT ![r].op = "authenticate", ![r].token = s,
                                ![r].now = agora]
    /\ \/ /\ SessionIdleTimeout > 0 /\ agora - sessoes[s].visto > SessionIdleTimeout
          /\ Vai(r, "apagar")
       \/ /\ SessionIdleTimeout > 0 => agora - sessoes[s].visto <= SessionIdleTimeout
          /\ agora - sessoes[s].visto >= TouchInterval
          /\ Vai(r, "tocar")
    /\ UNCHANGED guardado

Apagar(r) ==
  /\ Esta(r, "apagar")
  /\ Remove({pedido[r].token})
  /\ Responde(r, IF pedido[r].op = "logout" THEN "ok" ELSE "401")
  /\ UNCHANGED <<loja, agora, senha, tentativas>>

Tocar(r) ==
  /\ Esta(r, "tocar")
  /\ \/ Touch(pedido[r].token, pedido[r].now)
     \/ UNCHANGED asSessoes
  /\ Responde(r, "ok")
  /\ UNCHANGED <<loja, agora, senha, tentativas>>

-------------------------------------------------------------------------------
(* Failures, the cleanup job and the clock *)

\* A call fails and the request ends with an error; the other failures, which
\* are only logged, are in the actions above.
Falhar(r) ==
  /\ pc[r] \in {"credenciais", "criar", "gravarSenha", "encerrar", "encerrarLidas",
                "apagar"}
  /\ Responde(r, "erro")
  /\ UNCHANGED guardado

\* DeleteExpired and DeleteStale, in PostgreSQL.
Limpar ==
  /\ sessoes' = IF Redis THEN sessoes
                 ELSE [s \in Tokens |-> IF Viva(s) THEN sessoes[s] ELSE Nulo]
  /\ tentativas' =
       IF \/ TentativasNoRedis \/ tentativas = Nulo
          \/ tentativas.em >= agora - Window \/ tentativas.ate >= agora
       THEN tentativas ELSE Nulo
  /\ UNCHANGED <<loja, agora, senha, criados, indice, indiceAte, pc, pedido>>

\* A login takes less than the window of the attempts.
Passa ==
  /\ agora < MaxTempo
  /\ \A r \in Requisicoes :
       pc[r] \in {"registrar", "bloquear"} => agora + 1 - pedido[r].now < Window
  /\ agora' = agora + 1
  /\ UNCHANGED <<loja, senha, tentativas, asSessoes, pc, pedido>>

Passo(r) ==
  \/ Login(r) \/ Credenciais(r) \/ Rehash(r) \/ Registrar(r) \/ Bloquear(r)
  \/ Zerar(r) \/ Criar(r)
  \/ ChangePassword(r) \/ GravarSenha(r)
  \/ RevokeSessions(r) \/ Encerrar(r) \/ EncerrarLidas(r)
  \/ Logout(r) \/ Authenticate(r) \/ Apagar(r) \/ Tocar(r)
  \/ Falhar(r)

Next == (\E r \in Requisicoes : Passo(r)) \/ Limpar \/ Passa
Spec == Init /\ [][Next]_vars

-------------------------------------------------------------------------------
(* What must hold *)

\* A session that ended, by logout, revocation or expiry, is never there again:
\* the late Touch of a request that had read it does not bring it back.
SessaoEncerradaNaoVolta ==
  [][\A s \in Tokens : ~ Viva(s) /\ Viva(s)' => s \notin criados]_vars

\* In Redis the set of the user has every session he has, for as long as they
\* last: only those in it are reached when all are ended.
IndiceConfere == Redis => Vivas \subseteq Indexadas

\* When the change of the password, or the request to end the sessions, is
\* answered, no session that was there when the password was written, or when
\* the request was made, is left but the one to keep ("apaga todas as sessões").
RevogacaoAlcanca ==
  \A r \in Requisicoes :
    pedido[r].op \in {"trocar", "revogar"} /\ pedido[r].resposta = "ok" =>
      pedido[r].antes \cap Vivas = {}

\* No lock lasts longer than MaxLock, however many the failures ("máx 30 min").
BloqueioTemTeto == Bloqueado => TentativasDe.ate - agora <= MaxLock

\* The password is only replaced by who changes it: the rehash of a login is
\* "transparente" (auth_service.go).
SoTrocaQuemPede ==
  [][senha'.de # senha.de =>
       \E r \in Requisicoes : pc[r] = "gravarSenha" /\ pc'[r] = "encerrar"]_vars

=============================================================================
