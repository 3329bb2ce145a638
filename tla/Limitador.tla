------------------------------ MODULE Limitador ------------------------------
(***************************************************************************)
(* The rate limiter: a token bucket per key ("escopo|IP"), kept in the     *)
(* memory of the process (middlewares/ratelimit.go) or in Redis            *)
(* (db/redis/ratelimiter.go), as configured.                               *)
(*                                                                         *)
(* Time is counted in ticks and tokens in units: a token is Ficha units    *)
(* and a tick brings Taxa units.  In memory a request reads the clock      *)
(* first and waits for the mutex afterwards, so that requests are counted  *)
(* out of the order of their readings; the script in Redis reads its clock *)
(* where it runs.  A bucket that is gone stands for a full one: in memory  *)
(* a job removes those idle for long, in Redis the key expires.            *)
(***************************************************************************)
EXTENDS Integers, FiniteSets

CONSTANTS
  Chaves,        \* keys
  ChavesNoRedis, \* bound: those used in Redis, where keys have nothing in common
  Requisicoes,   \* requests served at the same time
  Ficha,         \* units of a token
  Taxa,          \* units a tick brings (rate)
  Burst,         \* tokens of a full bucket
  Folga,         \* ticks a bucket is kept after it is full: 1 min, or 1 s in Redis
  MaxKeys,       \* maxKeys
  Atraso,        \* how long a request may wait for the mutex
  MaxTempo,      \* bound: ticks of the clock
  Nulo

\* The margin covers the wait twice: a bucket removed may have owed what one wait
\* took back, and the next may be made at a reading as old as another.
ASSUME LimitadorAssumption ==
  /\ Ficha \in Nat \ {0} /\ Taxa \in Nat \ {0} /\ Burst \in Nat \ {0}
  /\ Folga \in Nat /\ Atraso \in Nat /\ 2 * Atraso <= Folga + 1
  /\ MaxKeys \in Nat /\ MaxTempo \in Nat
  /\ ChavesNoRedis \subseteq Chaves

VARIABLES
  loja,      \* RATE_LIMIT_STORE
  agora,     \* the clock
  buckets,   \* key -> [tokens, last], or Nulo
  leitura,   \* request -> its key and its reading of the clock, or Nulo
  aceitas,   \* history: requests accepted, by key and window of readings
  promessa   \* history: when a refused key may come back, or Nulo

vars == <<loja, agora, buckets, leitura, aceitas, promessa>>

Cheio == Burst * Ficha
Tempo == 0..MaxTempo
Vez == [chave : Chaves, now : Tempo]
Bucket == [tokens : Int, last : Tempo]

ASSUME NuloAssumption == Nulo \notin Int /\ Nulo \notin Vez /\ Nulo \notin Bucket

TypeOK ==
  /\ loja \in {"memory", "redis"}
  /\ agora \in Tempo
  /\ buckets \in [Chaves -> Bucket \cup {Nulo}]
  /\ leitura \in [Requisicoes -> Vez \cup {Nulo}]
  /\ aceitas \in [Chaves -> [Tempo -> [Tempo -> Nat]]]
  /\ promessa \in [Chaves -> Nat \cup {Nulo}]

Init ==
  /\ loja \in {"memory", "redis"}
  /\ agora = 0
  /\ buckets = [k \in Chaves |-> Nulo]
  /\ leitura = [r \in Requisicoes |-> Nulo]
  /\ aceitas = [k \in Chaves |-> [s \in Tempo |-> [t \in Tempo |-> 0]]]
  /\ promessa = [k \in Chaves |-> Nulo]

\* Rounded up.
Divide(a, b) == -((-a) \div b)
\* Mutant of Idle: the margin alone.
IdleFixo == Folga

\* The ticks an empty bucket takes to fill up, and then the margin.
Idle == Divide(Cheio, Taxa) + Folga

Existentes == {k \in Chaves : buckets[k] # Nulo}

\* Units in the bucket at the reading now, which may be older than last.
Tokens(b, now) ==
  LET tokens == b.tokens + (now - b.last) * Taxa
  IN IF tokens < Cheio THEN tokens ELSE Cheio

\* Mutant of Espera: the wait of an empty bucket, whatever it owes.
EsperaDeVazio(tokens) == Divide(Ficha, Taxa)

\* How long until the bucket has a token again.
Espera(tokens) == Divide(Ficha - tokens, Taxa)

\* A request accepted at the reading now counts in every window around it.
Aceita(k, now) ==
  aceitas' = [aceitas EXCEPT ![k] =
    [s \in Tempo |-> [t \in Tempo |->
       IF s <= now /\ now <= t THEN aceitas[k][s][t] + 1 ELSE aceitas[k][s][t]]]]

\* Mutant of Conta: what a bucket has of its next token is lost.
ContaInteiros(k, b, now) ==
  LET tokens == Tokens(b, now)
  IN IF tokens >= Ficha
     THEN /\ buckets' = [buckets EXCEPT ![k] = [tokens |-> tokens - Ficha, last |-> now]]
          /\ Aceita(k, now)
          /\ promessa' = [promessa EXCEPT ![k] = Nulo]
     ELSE /\ buckets' = [buckets EXCEPT ![k] = [tokens |-> 0, last |-> now]]
          /\ promessa' = [promessa EXCEPT ![k] = now + Espera(tokens)]
          /\ UNCHANGED aceitas

\* A token is taken, or the client is told how long to wait.
Conta(k, b, now) ==
  LET tokens == Tokens(b, now)
  IN IF tokens >= Ficha
     THEN /\ buckets' = [buckets EXCEPT ![k] = [tokens |-> tokens - Ficha, last |-> now]]
          /\ Aceita(k, now)
          /\ promessa' = [promessa EXCEPT ![k] = Nulo]
     ELSE /\ buckets' = [buckets EXCEPT ![k] = [tokens |-> tokens, last |-> now]]
          /\ promessa' = [promessa EXCEPT ![k] = now + Espera(tokens)]
          /\ UNCHANGED aceitas

-------------------------------------------------------------------------------
(* In memory *)

\* Mutant of LerRelogio: the clock of another machine, one tick ahead.
LerRelogioAdiantado(r) ==
  \E k \in Chaves :
    /\ loja = "memory" /\ leitura[r] = Nulo
    /\ leitura' = [leitura EXCEPT ![r] = [chave |-> k, now |-> agora + 1]]
    /\ UNCHANGED <<loja, agora, buckets, aceitas, promessa>>

\* now := time.Now(), and then the request waits for the mutex.
LerRelogio(r) ==
  \E k \in Chaves :
    /\ loja = "memory" /\ leitura[r] = Nulo
    /\ leitura' = [leitura EXCEPT ![r] = [chave |-> k, now |-> agora]]
    /\ UNCHANGED <<loja, agora, buckets, aceitas, promessa>>

\* Allow, with the mutex: a new key has no place in a full map.
Allow(r) ==
  LET k == leitura[r].chave
      now == leitura[r].now
  IN /\ leitura[r] # Nulo
     /\ \/ buckets[k] # Nulo /\ Conta(k, buckets[k], now)
        \/ /\ buckets[k] = Nulo /\ Cardinality(Existentes) < MaxKeys
           /\ Conta(k, [tokens |-> Cheio, last |-> now], now)
        \/ /\ buckets[k] = Nulo /\ Cardinality(Existentes) >= MaxKeys
           /\ UNCHANGED <<buckets, aceitas, promessa>>
     /\ leitura' = [leitura EXCEPT ![r] = Nulo]
     /\ UNCHANGED <<loja, agora>>

\* cleanup, with the mutex; the time comes from the ticker.
Cleanup ==
  LET idle == {k \in Existentes : agora - buckets[k].last > Idle}
  IN /\ loja = "memory" /\ idle # {}
     /\ buckets' = [k \in Chaves |-> IF k \in idle THEN Nulo ELSE buckets[k]]
     /\ UNCHANGED <<loja, agora, leitura, aceitas, promessa>>

-------------------------------------------------------------------------------
(* In Redis *)

\* The script: an expired key is one that is not there.
Script(k) ==
  LET novo == [tokens |-> Cheio, last |-> agora]
      b == IF buckets[k] = Nulo THEN novo
           ELSE IF agora >= buckets[k].last + Idle THEN novo ELSE buckets[k]
  IN /\ loja = "redis"
     /\ Conta(k, b, agora)
     /\ UNCHANGED <<loja, agora, leitura>>

-------------------------------------------------------------------------------

\* The clock moves on; nobody waits for the mutex longer than Atraso.
Passa ==
  /\ agora < MaxTempo
  /\ \A r \in Requisicoes : leitura[r] # Nulo => agora - leitura[r].now < Atraso
  /\ agora' = agora + 1
  /\ UNCHANGED <<loja, buckets, leitura, aceitas, promessa>>

Next ==
  \/ \E r \in Requisicoes : LerRelogio(r) \/ Allow(r)
  \/ Cleanup
  \/ \E k \in ChavesNoRedis : Script(k)
  \/ Passa

Spec == Init /\ [][Next]_vars

-------------------------------------------------------------------------------
(* What must hold *)

\* No client gets more than its burst and the rate of the window, in any window
\* of time, although requests are counted out of order and buckets come and go
\* ("liberam exatamente o burst").
SemExcesso ==
  \A k \in Chaves : \A s \in 0..agora : \A t \in s..agora :
    aceitas[k][s][t] * Ficha <= Cheio + (t - s) * Taxa

\* What a bucket full at s and perfect from there on would hold.
NivelIdeal(k, s) == Cheio + (agora - s) * Taxa - aceitas[k][s][agora] * Ficha

\* A client is only told to wait when it has used up what it may: a perfect
\* bucket, full at some time, has no token for it either.  In memory that is so
\* up to what waiting for the mutex is worth, twice: the request told to wait is
\* judged by its own, older reading, and one that was counted before others that
\* read the clock earlier took away what the bucket brought them.
Tolerancia == IF loja = "memory" THEN 2 * Atraso * Taxa ELSE 0
RecusaJustificada ==
  [][\A k \in Chaves :
       promessa'[k] # promessa[k] /\ promessa'[k] # Nulo =>
         \E s \in 0..agora : NivelIdeal(k, s) < Ficha + Tolerancia]_vars

\* A client that waits as long as it was told (Retry-After), and had nothing
\* accepted meanwhile, finds a token.
EsperaBasta ==
  \A k \in Chaves :
    promessa[k] # Nulo /\ agora >= promessa[k] /\ buckets[k] # Nulo =>
      Tokens(buckets[k], agora) >= Ficha

=============================================================================
