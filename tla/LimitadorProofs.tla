---------------------------- MODULE LimitadorProofs ----------------------------
(***************************************************************************)
(* The rate limiter keeps its promises for every burst, rate, number of    *)
(* keys and requests, and any wait for the mutex that the margin of the    *)
(* buckets covers: what every client gets in every window, whom it turns   *)
(* away, and what Retry-After is worth.                                    *)
(*                                                                         *)
(* The argument follows one quantity, the level of a bucket carried back   *)
(* to time 0 (Nivel), in which the order of the readings disappears: it    *)
(* falls by a token for each request accepted and to what a full bucket    *)
(* would hold, whatever the clock said.                                    *)
(***************************************************************************)
EXTENDS Limitador, TLAPS

\* The level of a bucket carried back to time 0: it only falls while the bucket
\* lives, by a token for each request accepted and to what a full bucket holds.
Nivel(b) == b.tokens - b.last * Taxa

\* How old a reading may be when it is counted.
Defasagem == IF loja = "memory" THEN Atraso ELSE 0

LeituraRecente ==
  \A r \in Requisicoes :
    leitura[r] # Nulo =>
      /\ loja = "memory"
      /\ leitura[r].now <= agora /\ agora <= leitura[r].now + Atraso

\* No window has more than its burst and its rate.
JanelaCabe(k) ==
  \A s, t \in Tempo :
    s <= t => aceitas[k][s][t] * Ficha <= Cheio + (t - s) * Taxa

\* What was accepted in a window that has something has been paid by a bucket
\* that was full no earlier than the window began.
Paga(k, b) ==
  \A s, t \in Tempo :
    s <= t /\ aceitas[k][s][t] > 0 =>
      Nivel(b) + aceitas[k][s][t] * Ficha + s * Taxa <= Cheio

\* A bucket owes no more than what older readings took back.
Sadio(k, b) ==
  /\ b \in Bucket /\ b.last <= agora
  /\ 0 <= Nivel(b) + agora * Taxa
  /\ 0 <= Nivel(b) + (b.last + Defasagem) * Taxa
  /\ Paga(k, b)

\* With its bucket gone, whatever was accepted of a key fits the rate alone, up
\* to the oldest reading that may still be counted.
Esquecido(k) ==
  \A s, t \in Tempo :
    s <= t /\ aceitas[k][s][t] > 0 =>
      aceitas[k][s][t] * Ficha <= (agora - Atraso - s) * Taxa

\* At the time promised the bucket has a token.
Cumpre(k, b) == promessa[k] # Nulo => Ficha <= Nivel(b) + promessa[k] * Taxa

\* The bucket was full at some time, and all that it lacks since was accepted
\* with readings no older than s.
Justa(k, b) ==
  \E s \in Tempo :
    /\ s = 0 \/ s + Defasagem <= agora
    /\ \A t \in agora..MaxTempo :
         Cheio <= Nivel(b) + (s + Defasagem) * Taxa + aceitas[k][s][t] * Ficha

ChaveInv(k) ==
  /\ JanelaCabe(k)
  /\ buckets[k] = Nulo => Esquecido(k)
  /\ buckets[k] # Nulo => /\ Sadio(k, buckets[k])
                          /\ Cumpre(k, buckets[k])
                          /\ Justa(k, buckets[k])

LInv == TypeOK /\ LeituraRecente /\ \A k \in Chaves : ChaveInv(k)

-------------------------------------------------------------------------------
(* Arithmetic *)

\* Time brings units: no product of two variables is left to the provers.
LEMMA TaxaCresce ==
  ASSUME NEW a \in Int, NEW b \in Int, a <= b
  PROVE  a * Taxa <= b * Taxa
  BY LimitadorAssumption, SMT

LEMMA TaxaSoma ==
  ASSUME NEW a \in Int, NEW b \in Int
  PROVE  /\ (a + b) * Taxa = a * Taxa + b * Taxa
         /\ (a - b) * Taxa = a * Taxa - b * Taxa
         /\ a * Taxa \in Int
  BY LimitadorAssumption, SMT

LEMMA MaisUmaFicha ==
  ASSUME NEW a \in Int
  PROVE  /\ (a + 1) * Ficha = a * Ficha + Ficha
         /\ a * Ficha \in Int
  BY LimitadorAssumption, SMT

LEMMA CheioTemFicha == Cheio \in Nat /\ Ficha <= Cheio
  BY LimitadorAssumption, SMT DEF Cheio

LEMMA DivideBasta ==
  ASSUME NEW a \in Int
  PROVE  /\ Divide(a, Taxa) \in Int
         /\ a <= Divide(a, Taxa) * Taxa
         /\ a > 0 => Divide(a, Taxa) > 0
  BY LimitadorAssumption, SMT DEF Divide

LEMMA TempoInt == Tempo \subseteq Int /\ 0 \in Tempo
  BY LimitadorAssumption DEF Tempo

-------------------------------------------------------------------------------
(* One bucket *)

\* What a bucket holds at a reading: all that time brought it, or it is full.
LEMMA TokensDe ==
  ASSUME NEW b \in Bucket, NEW now \in Tempo
  PROVE  /\ Nivel(b) \in Int
         /\ Tokens(b, now) \in Int
         /\ Tokens(b, now) <= Cheio
         /\ Tokens(b, now) <= Nivel(b) + now * Taxa
         /\ Tokens(b, now) = Nivel(b) + now * Taxa \/ Tokens(b, now) = Cheio
  <1>1. b.tokens \in Int /\ b.last \in Int /\ now \in Int
    BY TempoInt DEF Bucket
  <1>2. /\ (now - b.last) * Taxa = now * Taxa - b.last * Taxa
        /\ now * Taxa \in Int /\ b.last * Taxa \in Int
    BY <1>1, TaxaSoma
  <1> QED  BY <1>1, <1>2, CheioTemFicha DEF Tokens, Nivel

\* A bucket is made full.
LEMMA NovoSadio ==
  ASSUME TypeOK, NEW k \in Chaves, NEW now \in Tempo, now <= agora,
         \A s, t \in Tempo :
           s <= t /\ aceitas[k][s][t] > 0 => aceitas[k][s][t] * Ficha <= (now - s) * Taxa
  PROVE  /\ Sadio(k, [tokens |-> Cheio, last |-> now])
         /\ Tokens([tokens |-> Cheio, last |-> now], now) = Cheio
  <1> DEFINE b == [tokens |-> Cheio, last |-> now]
  <1>1. b \in Bucket /\ b.tokens = Cheio /\ b.last = now
    BY CheioTemFicha DEF Bucket
  <1>2. /\ now \in Int /\ agora \in Int /\ Defasagem \in Int /\ 0 <= Defasagem
    BY TempoInt, LimitadorAssumption DEF TypeOK, Defasagem
  <1>3. /\ now * Taxa \in Int /\ agora * Taxa \in Int
        /\ now * Taxa <= agora * Taxa
        /\ now * Taxa <= (now + Defasagem) * Taxa /\ (now + Defasagem) * Taxa \in Int
    <2>1. now + Defasagem \in Int /\ now <= now + Defasagem  BY <1>2
    <2> QED  BY <1>2, <2>1, TaxaSoma, TaxaCresce
  <1>4. Paga(k, b)
    <2> SUFFICES ASSUME NEW s \in Tempo, NEW t \in Tempo, s <= t, aceitas[k][s][t] > 0
                 PROVE  Nivel(b) + aceitas[k][s][t] * Ficha + s * Taxa <= Cheio
      BY DEF Paga
    <2>1. aceitas[k][s][t] \in Int  BY DEF TypeOK
    <2>2. /\ aceitas[k][s][t] * Ficha <= now * Taxa - s * Taxa
          /\ aceitas[k][s][t] * Ficha \in Int /\ s * Taxa \in Int
      BY <1>2, <2>1, TempoInt, TaxaSoma, MaisUmaFicha
    <2> QED  BY <1>1, <1>3, <2>2, CheioTemFicha DEF Nivel
  <1>5. (now - now) * Taxa = 0
    BY <1>2, <1>3, TaxaSoma
  <1> HIDE DEF b
  <1>6. Sadio(k, b)
    BY <1>1, <1>2, <1>3, <1>4, CheioTemFicha DEF Sadio, Nivel
  <1>7. Tokens(b, now) = Cheio
    BY <1>1, <1>5, CheioTemFicha DEF Tokens
  <1> QED  BY <1>6, <1>7 DEF b

\* What the limiter asks of a request it counts: its reading is recent, and the
\* bucket it finds is sound, be it the one stored or a full one.
Contavel(k, b, now) ==
  /\ now <= agora /\ agora <= now + Defasagem
  /\ Sadio(k, b)
  /\ Tokens(b, now) = Cheio \/ (Cumpre(k, b) /\ Justa(k, b))

\* An accepted request leaves the key sound.
LEMMA AceitaPreserva ==
  ASSUME TypeOK, NEW k \in Chaves, NEW now \in Tempo, NEW b, Contavel(k, b, now),
         JanelaCabe(k), Tokens(b, now) >= Ficha, Conta(k, b, now), UNCHANGED <<loja, agora>>
  PROVE  /\ buckets' \in [Chaves -> Bucket \cup {Nulo}]
         /\ aceitas' \in [Chaves -> [Tempo -> [Tempo -> Nat]]]
         /\ promessa' \in [Chaves -> Nat \cup {Nulo}] /\ promessa'[k] = Nulo
         /\ ChaveInv(k)'
  <1> DEFINE tk == Tokens(b, now)
             nb == [tokens |-> tk - Ficha, last |-> now]
             a(s, t) == aceitas[k][s][t]
             n(s, t) == aceitas'[k][s][t]
  <1>1. b \in Bucket  BY DEF Contavel, Sadio
  <1>2. /\ Nivel(b) \in Int /\ tk \in Int /\ tk <= Cheio /\ tk <= Nivel(b) + now * Taxa
        /\ tk = Nivel(b) + now * Taxa \/ tk = Cheio
    BY <1>1, TokensDe
  <1>3. /\ buckets' = [buckets EXCEPT ![k] = nb]
        /\ promessa' = [promessa EXCEPT ![k] = Nulo]
        /\ aceitas' = [aceitas EXCEPT ![k] =
             [s \in Tempo |-> [t \in Tempo |->
                IF s <= now /\ now <= t THEN aceitas[k][s][t] + 1 ELSE aceitas[k][s][t]]]]
    BY DEF Conta, Aceita
  <1>4. nb \in Bucket /\ nb # Nulo /\ nb.tokens = tk - Ficha /\ nb.last = now
    BY <1>2, LimitadorAssumption, NuloAssumption DEF Bucket
  <1>5. /\ now \in Int /\ agora \in Int /\ Defasagem \in Int /\ 0 <= Defasagem
        /\ Ficha \in Int /\ 0 < Ficha /\ Cheio \in Int /\ Ficha <= Cheio
        /\ now * Taxa \in Int
    BY TempoInt, LimitadorAssumption, CheioTemFicha, TaxaSoma DEF TypeOK, Defasagem
  <1>6. /\ buckets' \in [Chaves -> Bucket \cup {Nulo}] /\ buckets'[k] = nb
        /\ promessa' \in [Chaves -> Nat \cup {Nulo}] /\ promessa'[k] = Nulo
    BY <1>3, <1>4 DEF TypeOK
  <1>7. /\ aceitas' \in [Chaves -> [Tempo -> [Tempo -> Nat]]]
        /\ \A s, t \in Tempo :
             n(s, t) = IF s <= now /\ now <= t THEN a(s, t) + 1 ELSE a(s, t)
    BY <1>3 DEF TypeOK
  <1>8. ASSUME NEW s \in Tempo, NEW t \in Tempo
        PROVE  /\ a(s, t) \in Nat /\ n(s, t) \in Nat
               /\ s \in Int /\ t \in Int /\ s * Taxa \in Int
               /\ (t - s) * Taxa = t * Taxa - s * Taxa /\ t * Taxa \in Int
               /\ a(s, t) * Ficha \in Int /\ n(s, t) * Ficha \in Int
               /\ 0 <= a(s, t) * Ficha
               /\ s <= now /\ now <= t => n(s, t) * Ficha = a(s, t) * Ficha + Ficha
    <2>1. a(s, t) \in Nat /\ n(s, t) \in Nat  BY <1>7 DEF TypeOK
    <2>2. s \in Int /\ t \in Int  BY TempoInt
    <2> HIDE DEF a, n
    <2>3. /\ (a(s, t) + 1) * Ficha = a(s, t) * Ficha + Ficha
          /\ a(s, t) * Ficha \in Int /\ n(s, t) * Ficha \in Int
      BY <2>1, MaisUmaFicha
    <2>4. 0 <= a(s, t) * Ficha  BY <2>1, <1>5, SMT
    <2> QED  BY <1>7, <2>1, <2>2, <2>3, <2>4, TaxaSoma
  <1>9. Nivel(nb) = tk - Ficha - now * Taxa /\ Nivel(nb) \in Int
    BY <1>2, <1>4, <1>5 DEF Nivel
  <1> HIDE DEF tk, nb, a, n
  <1>10. ASSUME NEW s \in Tempo, NEW t \in Tempo, s <= t
         PROVE  n(s, t) * Ficha <= Cheio + (t - s) * Taxa
    <2>1. CASE ~(s <= now /\ now <= t)
      <3>1. n(s, t) = a(s, t)  BY <1>7, <2>1
      <3> QED  BY <1>10, <3>1 DEF JanelaCabe, a
    <2>2. CASE s <= now /\ now <= t /\ a(s, t) = 0
      <3>1. a(s, t) * Ficha = 0 /\ n(s, t) * Ficha = Ficha  BY <1>5, <1>8, <2>2
      <3>2. s * Taxa <= t * Taxa  BY <1>8, <1>10, TaxaCresce
      <3>3. 0 <= (t - s) * Taxa /\ (t - s) * Taxa \in Int  BY <1>8, <3>2
      <3> QED  BY <1>5, <3>1, <3>3
    <2>3. CASE s <= now /\ now <= t /\ a(s, t) > 0
      <3>1. Nivel(b) + a(s, t) * Ficha + s * Taxa <= Cheio
        BY <1>10, <2>3 DEF Contavel, Sadio, Paga, a
      <3>2. now * Taxa <= t * Taxa  BY <1>5, <1>8, <2>3, TaxaCresce
      <3>3. Ficha <= tk  BY DEF tk
      <3> QED  BY <1>2, <1>5, <1>8, <2>3, <3>1, <3>2, <3>3
    <2> QED  BY <1>8, <2>1, <2>2, <2>3
  <1>11. ASSUME NEW s \in Tempo, NEW t \in Tempo, s <= t, n(s, t) > 0
         PROVE  Nivel(nb) + n(s, t) * Ficha + s * Taxa <= Cheio
    <2>1. CASE ~(s <= now /\ now <= t)
      <3>1. n(s, t) = a(s, t)  BY <1>7, <2>1
      <3>2. Nivel(b) + a(s, t) * Ficha + s * Taxa <= Cheio
        BY <1>11, <3>1 DEF Contavel, Sadio, Paga, a
      <3> QED  BY <1>2, <1>5, <1>8, <1>9, <3>1, <3>2
    <2>2. CASE s <= now /\ now <= t /\ a(s, t) = 0
      <3>1. a(s, t) * Ficha = 0 /\ n(s, t) * Ficha = Ficha  BY <1>5, <1>8, <2>2
      <3>2. s * Taxa <= now * Taxa  BY <1>5, <1>8, <2>2, TaxaCresce
      <3> QED  BY <1>2, <1>5, <1>8, <1>9, <2>2, <3>1, <3>2
    <2>3. CASE s <= now /\ now <= t /\ a(s, t) > 0
      <3>1. Nivel(b) + a(s, t) * Ficha + s * Taxa <= Cheio
        BY <1>11, <2>3 DEF Contavel, Sadio, Paga, a
      <3> QED  BY <1>2, <1>5, <1>8, <1>9, <2>3, <3>1
    <2> QED  BY <1>8, <2>1, <2>2, <2>3
  <1>12. /\ 0 <= Nivel(nb) + agora * Taxa
         /\ 0 <= Nivel(nb) + (now + Defasagem) * Taxa
    <2>1. /\ now * Taxa <= agora * Taxa /\ agora * Taxa \in Int
          /\ now * Taxa <= (now + Defasagem) * Taxa /\ (now + Defasagem) * Taxa \in Int
      <3>1. now + Defasagem \in Int /\ now <= now + Defasagem  BY <1>5
      <3> QED  BY <1>5, <3>1, TaxaCresce, TaxaSoma DEF Contavel
    <2>2. Ficha <= tk  BY DEF tk
    <2> QED  BY <1>2, <1>5, <1>9, <2>1, <2>2
  <1>13. \E s \in Tempo :
           /\ s = 0 \/ s + Defasagem <= agora
           /\ \A t \in agora..MaxTempo :
                Cheio <= Nivel(nb) + (s + Defasagem) * Taxa + n(s, t) * Ficha
    <2>1. \A t \in agora..MaxTempo : t \in Tempo /\ now <= t
      BY LimitadorAssumption DEF TypeOK, Tempo, Contavel
    <2>2. CASE tk = Cheio
      <3> DEFINE s == IF Defasagem <= now THEN now - Defasagem ELSE 0
      <3>1. s \in Tempo /\ s <= now /\ now <= s + Defasagem /\ (s = 0 \/ s + Defasagem <= agora)
        BY <1>5, LimitadorAssumption DEF Tempo, Contavel
      <3> HIDE DEF s
      <3>2. now * Taxa <= (s + Defasagem) * Taxa /\ (s + Defasagem) * Taxa \in Int
        <4>1. s + Defasagem \in Int  BY <1>5, <3>1, TempoInt
        <4> QED  BY <1>5, <3>1, <4>1, TaxaCresce, TaxaSoma
      <3>3. ASSUME NEW t \in agora..MaxTempo
            PROVE  Cheio <= Nivel(nb) + (s + Defasagem) * Taxa + n(s, t) * Ficha
        <4>1. n(s, t) * Ficha = a(s, t) * Ficha + Ficha /\ 0 <= a(s, t) * Ficha
              /\ a(s, t) * Ficha \in Int
          BY <1>8, <2>1, <3>1
        <4> QED  BY <1>2, <1>5, <1>9, <2>2, <3>2, <4>1
      <3> QED  BY <3>1, <3>3
    <2>3. CASE tk # Cheio
      <3>1. Justa(k, b) /\ tk = Nivel(b) + now * Taxa  BY <1>2, <2>3 DEF Contavel, tk
      <3>2. PICK s \in Tempo :
              /\ s = 0 \/ s + Defasagem <= agora
              /\ \A t \in agora..MaxTempo :
                   Cheio <= Nivel(b) + (s + Defasagem) * Taxa + a(s, t) * Ficha
        BY <3>1 DEF Justa, a
      <3>3. s <= now
        BY <1>5, <3>2, TempoInt, LimitadorAssumption DEF Contavel, Tempo
      <3>4. (s + Defasagem) * Taxa \in Int  BY <1>5, TempoInt, TaxaSoma
      <3>5. ASSUME NEW t \in agora..MaxTempo
            PROVE  Cheio <= Nivel(nb) + (s + Defasagem) * Taxa + n(s, t) * Ficha
        <4>1. n(s, t) * Ficha = a(s, t) * Ficha + Ficha /\ a(s, t) * Ficha \in Int
          BY <1>8, <2>1, <3>3
        <4>2. Cheio <= Nivel(b) + (s + Defasagem) * Taxa + a(s, t) * Ficha
          BY <3>2
        <4> QED  BY <1>2, <1>5, <1>9, <3>1, <3>4, <4>1, <4>2
      <3> QED  BY <3>2, <3>5
    <2> QED  BY <2>2, <2>3
  <1>14. Defasagem' = Defasagem  BY DEF Defasagem
  <1>15. ChaveInv(k)'
    <2>1. JanelaCabe(k)'  BY <1>10 DEF JanelaCabe, n
    <2>2. buckets'[k] = nb /\ buckets'[k] # Nulo  BY <1>4, <1>6
    <2>3. Paga(k, buckets[k])'  BY <1>11, <2>2 DEF Paga, Nivel, n
    <2>4. Sadio(k, buckets[k])'
      BY <1>4, <1>12, <1>14, <2>2, <2>3 DEF Sadio, Nivel, Contavel
    <2>5. Cumpre(k, buckets[k])'  BY <1>6 DEF Cumpre
    <2>6. Justa(k, buckets[k])'  BY <1>13, <1>14, <2>2 DEF Justa, Nivel, n
    <2> QED  BY <2>1, <2>2, <2>4, <2>5, <2>6 DEF ChaveInv
  <1> QED  BY <1>6, <1>7, <1>15

\* A refused request leaves the key sound, is told a time that suffices, and
\* has used up what it may.
LEMMA RecusaPreserva ==
  ASSUME TypeOK, NEW k \in Chaves, NEW now \in Tempo, NEW b, Contavel(k, b, now),
         JanelaCabe(k), ~(Tokens(b, now) >= Ficha), Conta(k, b, now), UNCHANGED <<loja, agora>>
  PROVE  /\ buckets' \in [Chaves -> Bucket \cup {Nulo}]
         /\ promessa' \in [Chaves -> Nat \cup {Nulo}]
         /\ aceitas' = aceitas
         /\ ChaveInv(k)'
         /\ \E s \in 0..agora : NivelIdeal(k, s) < Ficha + Tolerancia
  <1> DEFINE tk == Tokens(b, now)
             nb == [tokens |-> tk, last |-> now]
             a(s, t) == aceitas[k][s][t]
             p == now + Espera(tk)
  <1>1. b \in Bucket  BY DEF Contavel, Sadio
  <1>2. /\ now \in Int /\ agora \in Int /\ Defasagem \in Int /\ 0 <= Defasagem /\ 0 <= now
        /\ Ficha \in Int /\ 0 < Ficha /\ Cheio \in Int /\ Ficha <= Cheio
        /\ now * Taxa \in Int /\ agora * Taxa \in Int
    BY TempoInt, LimitadorAssumption, CheioTemFicha, TaxaSoma DEF TypeOK, Defasagem, Tempo
  <1>3. /\ Nivel(b) \in Int /\ tk \in Int /\ tk < Ficha /\ tk = Nivel(b) + now * Taxa
    BY <1>1, <1>2, TokensDe
  <1>4. /\ buckets' = [buckets EXCEPT ![k] = nb]
        /\ promessa' = [promessa EXCEPT ![k] = p]
        /\ aceitas' = aceitas
    BY <1>2, <1>3 DEF Conta
  <1>5. nb \in Bucket /\ nb # Nulo /\ nb.tokens = tk /\ nb.last = now
    BY <1>3, NuloAssumption DEF Bucket
  <1>6. p \in Nat /\ Ficha - tk <= (p - now) * Taxa
    <2>1. Ficha - tk \in Int /\ Ficha - tk > 0  BY <1>2, <1>3
    <2>2. Espera(tk) \in Int /\ Espera(tk) > 0 /\ Ficha - tk <= Espera(tk) * Taxa
      BY <2>1, DivideBasta DEF Espera
    <2>3. p - now = Espera(tk)  BY <1>2, <2>2
    <2> QED  BY <1>2, <2>2, <2>3
  <1>7. /\ buckets' \in [Chaves -> Bucket \cup {Nulo}] /\ buckets'[k] = nb
        /\ promessa' \in [Chaves -> Nat \cup {Nulo}] /\ promessa'[k] = p
    BY <1>4, <1>5, <1>6 DEF TypeOK
  <1>8. Nivel(nb) = Nivel(b)
    BY <1>2, <1>3, <1>5 DEF Nivel
  <1>9. Cumpre(k, b) /\ Justa(k, b)
    BY <1>2, <1>3 DEF Contavel
  <1> HIDE DEF tk, nb, a, p
  <1>10. Ficha <= Nivel(nb) + p * Taxa
    <2>1. (p - now) * Taxa = p * Taxa - now * Taxa /\ p * Taxa \in Int
      BY <1>2, <1>6, TaxaSoma
    <2> QED  BY <1>2, <1>3, <1>6, <1>8, <2>1
  <1>11. Defasagem' = Defasagem  BY DEF Defasagem
  <1>12. 0 <= Nivel(nb) + agora * Taxa /\ 0 <= Nivel(nb) + (now + Defasagem) * Taxa
    <2>1. 0 <= Nivel(b) + agora * Taxa  BY DEF Contavel, Sadio
    <2>2. agora * Taxa <= (now + Defasagem) * Taxa /\ (now + Defasagem) * Taxa \in Int
      <3>1. now + Defasagem \in Int /\ agora <= now + Defasagem  BY <1>2 DEF Contavel
      <3> QED  BY <1>2, <3>1, TaxaCresce, TaxaSoma
    <2> QED  BY <1>2, <1>3, <1>8, <2>1, <2>2
  <1>13. ChaveInv(k)'
    <2>1. JanelaCabe(k)'  BY <1>4 DEF JanelaCabe
    <2>2. buckets'[k] = nb /\ buckets'[k] # Nulo  BY <1>5, <1>7
    <2>3. Nivel(buckets[k])' = Nivel(b)  BY <1>8, <2>2 DEF Nivel
    <2>4. Paga(k, b)  BY DEF Contavel, Sadio
    <2>5. Paga(k, buckets[k])'  BY <1>4, <2>3, <2>4 DEF Paga
    <2>6. Sadio(k, buckets[k])'
      BY <1>5, <1>8, <1>11, <1>12, <2>2, <2>3, <2>5 DEF Sadio, Contavel
    <2>7. Cumpre(k, buckets[k])'  BY <1>7, <1>8, <1>10, <2>3 DEF Cumpre
    <2>8. Justa(k, buckets[k])'  BY <1>4, <1>9, <1>11, <2>3 DEF Justa
    <2> QED  BY <2>1, <2>2, <2>6, <2>7, <2>8 DEF ChaveInv
  <1>14. \E s \in 0..agora : NivelIdeal(k, s) < Ficha + Tolerancia
    <2>1. PICK s \in Tempo :
            /\ s = 0 \/ s + Defasagem <= agora
            /\ \A t \in agora..MaxTempo :
                 Cheio <= Nivel(b) + (s + Defasagem) * Taxa + aceitas[k][s][t] * Ficha
      BY <1>9 DEF Justa
    <2>2. /\ s \in 0..agora /\ s \in Int /\ agora \in agora..MaxTempo /\ agora \in Tempo
      BY <1>2, <2>1, LimitadorAssumption DEF Tempo, TypeOK
    <2>3. Cheio <= Nivel(b) + (s + Defasagem) * Taxa + a(s, agora) * Ficha
      BY <2>1, <2>2 DEF a
    <2>4. a(s, agora) * Ficha \in Int
      <3>1. a(s, agora) \in Int  BY <2>2 DEF a, TypeOK
      <3> QED  BY <3>1, MaisUmaFicha
    <2>5. /\ (s + Defasagem) * Taxa = s * Taxa + Defasagem * Taxa
          /\ s * Taxa \in Int /\ Defasagem * Taxa \in Int
          /\ (agora - s) * Taxa = agora * Taxa - s * Taxa
      BY <1>2, <2>2, TaxaSoma
    <2>6. agora * Taxa <= now * Taxa + Defasagem * Taxa
      <3>1. now + Defasagem \in Int /\ agora <= now + Defasagem  BY <1>2 DEF Contavel
      <3> QED  BY <1>2, <3>1, TaxaCresce, TaxaSoma
    <2>7. Tolerancia = 2 * (Defasagem * Taxa)
      BY <2>5, LimitadorAssumption DEF Tolerancia, Defasagem
    <2>8. NivelIdeal(k, s) = Cheio + (agora - s) * Taxa - a(s, agora) * Ficha
      BY DEF NivelIdeal, a
    <2>9. NivelIdeal(k, s) < Ficha + Tolerancia
      BY <1>2, <1>3, <2>3, <2>4, <2>5, <2>6, <2>7, <2>8
    <2> QED  BY <2>2, <2>9
  <1> QED  BY <1>4, <1>7, <1>13, <1>14

-------------------------------------------------------------------------------
(* The steps *)

\* What a key has, nobody else touches.
LEMMA ChaveEstavel ==
  ASSUME NEW k \in Chaves, ChaveInv(k), UNCHANGED <<loja, agora>>,
         buckets'[k] = buckets[k], aceitas'[k] = aceitas[k], promessa'[k] = promessa[k]
  PROVE  ChaveInv(k)'
  <1>1. Defasagem' = Defasagem  BY DEF Defasagem
  <1>2. JanelaCabe(k)'  BY DEF ChaveInv, JanelaCabe
  <1>3. ASSUME buckets'[k] = Nulo PROVE Esquecido(k)'
    BY <1>3 DEF ChaveInv, Esquecido
  <1>4. ASSUME buckets'[k] # Nulo
        PROVE  /\ Sadio(k, buckets[k])' /\ Cumpre(k, buckets[k])' /\ Justa(k, buckets[k])'
    <2>1. Nivel(buckets[k])' = Nivel(buckets[k])  BY DEF Nivel
    <2>2. Paga(k, buckets[k])'  BY <1>4, <2>1 DEF ChaveInv, Sadio, Paga
    <2>3. Sadio(k, buckets[k])'  BY <1>1, <1>4, <2>1, <2>2 DEF ChaveInv, Sadio
    <2>4. Cumpre(k, buckets[k])'  BY <1>4, <2>1 DEF ChaveInv, Cumpre
    <2>5. Justa(k, buckets[k])'  BY <1>1, <1>4, <2>1 DEF ChaveInv, Justa
    <2> QED  BY <2>3, <2>4, <2>5
  <1> QED  BY <1>2, <1>3, <1>4 DEF ChaveInv

\* Counting a request keeps every key sound, and a refusal is justified.
LEMMA ContaPreserva ==
  ASSUME LInv, NEW k \in Chaves, NEW now \in Tempo, NEW b, Contavel(k, b, now),
         Conta(k, b, now), UNCHANGED <<loja, agora>>
  PROVE  /\ buckets' \in [Chaves -> Bucket \cup {Nulo}]
         /\ aceitas' \in [Chaves -> [Tempo -> [Tempo -> Nat]]]
         /\ promessa' \in [Chaves -> Nat \cup {Nulo}]
         /\ \A j \in Chaves : ChaveInv(j)'
         /\ promessa'[k] # Nulo => \E s \in 0..agora : NivelIdeal(k, s) < Ficha + Tolerancia
         /\ \A j \in Chaves \ {k} : promessa'[j] = promessa[j]
  <1>1. TypeOK /\ JanelaCabe(k)  BY DEF LInv, ChaveInv
  <1>2. /\ buckets' \in [Chaves -> Bucket \cup {Nulo}]
        /\ aceitas' \in [Chaves -> [Tempo -> [Tempo -> Nat]]]
        /\ promessa' \in [Chaves -> Nat \cup {Nulo}]
        /\ ChaveInv(k)'
        /\ promessa'[k] # Nulo => \E s \in 0..agora : NivelIdeal(k, s) < Ficha + Tolerancia
    <2>1. CASE Tokens(b, now) >= Ficha  BY <1>1, <2>1, AceitaPreserva
    <2>2. CASE ~(Tokens(b, now) >= Ficha)
      <3>1. aceitas \in [Chaves -> [Tempo -> [Tempo -> Nat]]]  BY <1>1 DEF TypeOK
      <3> QED  BY <1>1, <2>2, <3>1, RecusaPreserva
    <2> QED  BY <2>1, <2>2
  <1>3. ASSUME NEW j \in Chaves \ {k}
        PROVE  buckets'[j] = buckets[j] /\ aceitas'[j] = aceitas[j] /\ promessa'[j] = promessa[j]
    BY <1>1 DEF TypeOK, Conta, Aceita
  <1>4. ASSUME NEW j \in Chaves \ {k} PROVE ChaveInv(j)'
    BY <1>3, ChaveEstavel DEF LInv
  <1> QED  BY <1>2, <1>3, <1>4

\* After the time an empty bucket takes to fill up, all that was accepted fits
\* the rate alone.
LEMMA Repaga ==
  ASSUME TypeOK, NEW k \in Chaves, NEW b, Sadio(k, b), NEW d \in Int,
         b.last + Defasagem + Divide(Cheio, Taxa) <= d,
         NEW s \in Tempo, NEW t \in Tempo, s <= t, aceitas[k][s][t] > 0
  PROVE  aceitas[k][s][t] * Ficha <= (d - s) * Taxa
  <1>1. /\ s \in Int /\ b.last \in Int /\ Defasagem \in Int /\ Cheio \in Int
        /\ aceitas[k][s][t] \in Int
    <2>1. b.last \in Tempo  BY DEF Sadio, Bucket
    <2>2. aceitas[k][s][t] \in Nat  BY DEF TypeOK
    <2>3. s \in Int /\ b.last \in Int  BY <2>1, TempoInt
    <2>4. Defasagem \in Int  BY LimitadorAssumption DEF Defasagem
    <2> QED  BY <2>2, <2>3, <2>4, CheioTemFicha
  <1>2. Divide(Cheio, Taxa) \in Int /\ Cheio <= Divide(Cheio, Taxa) * Taxa
    BY <1>1, DivideBasta
  <1>3. b.last + Defasagem \in Int  BY <1>1
  <1>4. /\ (b.last + Defasagem + Divide(Cheio, Taxa)) * Taxa
             = (b.last + Defasagem) * Taxa + Divide(Cheio, Taxa) * Taxa
        /\ (d - s) * Taxa = d * Taxa - s * Taxa
        /\ d * Taxa \in Int /\ s * Taxa \in Int /\ (b.last + Defasagem) * Taxa \in Int
        /\ Divide(Cheio, Taxa) * Taxa \in Int
    BY <1>1, <1>2, <1>3, TaxaSoma
  <1>5. b.last + Defasagem + Divide(Cheio, Taxa) \in Int  BY <1>2, <1>3
  <1>6. (b.last + Defasagem + Divide(Cheio, Taxa)) * Taxa <= d * Taxa
    BY <1>5, TaxaCresce
  <1>7. /\ Nivel(b) + aceitas[k][s][t] * Ficha + s * Taxa <= Cheio
        /\ 0 <= Nivel(b) + (b.last + Defasagem) * Taxa
    BY DEF Sadio, Paga
  <1>8. aceitas[k][s][t] * Ficha \in Int  BY <1>1, MaisUmaFicha
  <1>9. Nivel(b) \in Int
    <2>1. 0 \in Tempo /\ b \in Bucket  BY TempoInt DEF Sadio
    <2> QED  BY <2>1, TokensDe
  <1> QED  BY <1>1, <1>2, <1>4, <1>6, <1>7, <1>8, <1>9

LEMMA InitInv == Init => LInv
  <1> SUFFICES ASSUME Init PROVE LInv  OBVIOUS
  <1>1. TypeOK /\ LeituraRecente
    BY TempoInt DEF Init, TypeOK, LeituraRecente
  <1>2. ASSUME NEW k \in Chaves PROVE ChaveInv(k)
    <2>1. \A s, t \in Tempo : aceitas[k][s][t] = 0  BY DEF Init
    <2>2. JanelaCabe(k)
      <3> SUFFICES ASSUME NEW s \in Tempo, NEW t \in Tempo, s <= t
                   PROVE  aceitas[k][s][t] * Ficha <= Cheio + (t - s) * Taxa
        BY DEF JanelaCabe
      <3>1. s \in Int /\ t \in Int  BY TempoInt
      <3>2. /\ (t - s) * Taxa = t * Taxa - s * Taxa
            /\ t * Taxa \in Int /\ s * Taxa \in Int /\ s * Taxa <= t * Taxa
        BY <3>1, TaxaSoma, TaxaCresce
      <3>3. 0 * Ficha = 0  BY LimitadorAssumption
      <3> QED  BY <2>1, <3>2, <3>3, CheioTemFicha
    <2>3. Esquecido(k)  BY <2>1 DEF Esquecido
    <2> QED  BY <2>2, <2>3 DEF Init, ChaveInv
  <1> QED  BY <1>1, <1>2 DEF LInv

LEMMA LerRelogioInv ==
  ASSUME LInv, NEW r \in Requisicoes, LerRelogio(r)
  PROVE  LInv'
  <1>1. TypeOK' /\ LeituraRecente'
    <2>1. PICK k \in Chaves : leitura' = [leitura EXCEPT ![r] = [chave |-> k, now |-> agora]]
      BY DEF LerRelogio
    <2>2. [chave |-> k, now |-> agora] \in Vez  BY DEF LInv, TypeOK, Vez
    <2>3. TypeOK'  BY <2>1, <2>2 DEF LInv, TypeOK, LerRelogio
    <2>4. agora \in Int /\ Atraso \in Int /\ 0 <= Atraso
      BY TempoInt, LimitadorAssumption DEF LInv, TypeOK
    <2>5. leitura'[r].now = agora /\ \A q \in Requisicoes \ {r} : leitura'[q] = leitura[q]
      BY <2>1 DEF LInv, TypeOK
    <2> QED  BY <2>3, <2>4, <2>5 DEF LInv, LeituraRecente, LerRelogio
  <1>2. \A k \in Chaves : ChaveInv(k)'
    BY ChaveEstavel DEF LInv, LerRelogio
  <1> QED  BY <1>1, <1>2 DEF LInv

\* Allow finds the bucket stored, or makes a full one of a key whose requests
\* have been repaid.
LEMMA AllowConta ==
  ASSUME LInv, NEW r \in Requisicoes, Allow(r),
         ~ UNCHANGED <<buckets, aceitas, promessa>>
  PROVE  /\ leitura[r].chave \in Chaves /\ leitura[r].now \in Tempo
         /\ \E b : /\ Contavel(leitura[r].chave, b, leitura[r].now)
                   /\ Conta(leitura[r].chave, b, leitura[r].now)
  <1> DEFINE k == leitura[r].chave
             now == leitura[r].now
             novo == [tokens |-> Cheio, last |-> now]
  <1>1. /\ leitura[r] # Nulo /\ k \in Chaves /\ now \in Tempo
    BY DEF Allow, LInv, TypeOK, Vez
  <1>2. /\ now <= agora /\ agora <= now + Atraso /\ Defasagem = Atraso
    BY <1>1 DEF LInv, LeituraRecente, Defasagem
  <1>3. /\ now \in Int /\ agora \in Int /\ Atraso \in Int /\ 0 <= Atraso
    <2>1. agora \in Tempo  BY DEF LInv, TypeOK
    <2>2. now \in Int /\ agora \in Int  BY <1>1, <2>1, TempoInt
    <2>3. Atraso \in Int /\ 0 <= Atraso  BY LimitadorAssumption
    <2> QED  BY <2>2, <2>3
  <1>4. CASE buckets[k] # Nulo
    <2>1. Conta(k, buckets[k], now)  BY <1>4 DEF Allow
    <2>2. Contavel(k, buckets[k], now)
      BY <1>1, <1>2, <1>4 DEF LInv, ChaveInv, Contavel
    <2> QED  BY <1>1, <2>1, <2>2
  <1>5. CASE buckets[k] = Nulo
    <2>1. Conta(k, novo, now)  BY <1>5 DEF Allow
    <2>2. ASSUME NEW s \in Tempo, NEW t \in Tempo, s <= t, aceitas[k][s][t] > 0
          PROVE  aceitas[k][s][t] * Ficha <= (now - s) * Taxa
      <3>1. aceitas[k][s][t] * Ficha <= (agora - Atraso - s) * Taxa
        BY <1>1, <1>5, <2>2 DEF LInv, ChaveInv, Esquecido
      <3>2. s \in Int  BY TempoInt
      <3>3. /\ agora - Atraso - s \in Int /\ now - s \in Int
            /\ agora - Atraso - s <= now - s
        BY <1>2, <1>3, <3>2
      <3>4. /\ (agora - Atraso - s) * Taxa <= (now - s) * Taxa
            /\ (agora - Atraso - s) * Taxa \in Int /\ (now - s) * Taxa \in Int
        BY <3>3, TaxaCresce, TaxaSoma
      <3>5. aceitas[k][s][t] * Ficha \in Int
        <4>1. aceitas[k][s][t] \in Int  BY <1>1 DEF LInv, TypeOK
        <4> QED  BY <4>1, MaisUmaFicha
      <3> QED  BY <3>1, <3>4, <3>5
    <2>3. Sadio(k, novo) /\ Tokens(novo, now) = Cheio
      <3>1. TypeOK  BY DEF LInv
      <3> QED  BY <1>1, <1>2, <2>2, <3>1, NovoSadio
    <2>4. Contavel(k, novo, now)  BY <1>2, <2>3 DEF Contavel
    <2> QED  BY <1>1, <2>1, <2>4
  <1> QED  BY <1>4, <1>5

LEMMA AllowInv ==
  ASSUME LInv, NEW r \in Requisicoes, Allow(r)
  PROVE  LInv'
  <1>1. LeituraRecente' /\ leitura' \in [Requisicoes -> Vez \cup {Nulo}]
    BY DEF Allow, LInv, TypeOK, LeituraRecente
  <1>2. CASE UNCHANGED <<buckets, aceitas, promessa>>
    <2>1. TypeOK'  BY <1>1, <1>2 DEF Allow, LInv, TypeOK
    <2>2. \A k \in Chaves : ChaveInv(k)'
      BY <1>2, ChaveEstavel DEF Allow, LInv
    <2> QED  BY <1>1, <2>1, <2>2 DEF LInv
  <1>3. CASE ~ UNCHANGED <<buckets, aceitas, promessa>>
    <2>1. UNCHANGED <<loja, agora>>  BY DEF Allow
    <2>2. /\ buckets' \in [Chaves -> Bucket \cup {Nulo}]
          /\ aceitas' \in [Chaves -> [Tempo -> [Tempo -> Nat]]]
          /\ promessa' \in [Chaves -> Nat \cup {Nulo}]
          /\ \A j \in Chaves : ChaveInv(j)'
      BY <1>3, <2>1, AllowConta, ContaPreserva
    <2>3. TypeOK'  BY <1>1, <2>1, <2>2 DEF LInv, TypeOK
    <2> QED  BY <1>1, <2>2, <2>3 DEF LInv
  <1> QED  BY <1>2, <1>3

LEMMA CleanupInv ==
  ASSUME LInv, Cleanup
  PROVE  LInv'
  <1> DEFINE idle == {k \in Existentes : agora - buckets[k].last > Idle}
  <1>1. /\ loja = "memory" /\ UNCHANGED <<loja, agora, leitura, aceitas, promessa>>
        /\ buckets' = [k \in Chaves |-> IF k \in idle THEN Nulo ELSE buckets[k]]
    BY DEF Cleanup
  <1>2. TypeOK'  BY <1>1 DEF LInv, TypeOK
  <1>3. LeituraRecente'  BY <1>1 DEF LInv, LeituraRecente
  <1>4. ASSUME NEW k \in Chaves \ idle PROVE ChaveInv(k)'
    <2>1. buckets'[k] = buckets[k]  BY <1>1, <1>4
    <2> QED  BY <1>1, <2>1, ChaveEstavel DEF LInv
  <1>5. ASSUME NEW k \in idle PROVE ChaveInv(k)'
    <2>1. /\ k \in Chaves /\ buckets[k] # Nulo /\ agora - buckets[k].last > Idle
          /\ buckets'[k] = Nulo
      BY <1>1 DEF Existentes
    <2>2. Sadio(k, buckets[k]) /\ JanelaCabe(k) /\ TypeOK
      BY <2>1 DEF LInv, ChaveInv
    <2>3. JanelaCabe(k)'  BY <1>1, <2>2 DEF JanelaCabe
    <2>4. agora - Atraso \in Int
          /\ buckets[k].last + Defasagem + Divide(Cheio, Taxa) <= agora - Atraso
      <3>1. agora \in Tempo /\ buckets[k].last \in Tempo
        BY <2>1, <2>2 DEF TypeOK, Sadio, Bucket
      <3>2. Divide(Cheio, Taxa) \in Int  BY CheioTemFicha, DivideBasta
      <3>3. agora \in Int /\ buckets[k].last \in Int  BY <3>1, TempoInt
      <3> QED  BY <1>1, <2>1, <3>2, <3>3, LimitadorAssumption DEF Idle, Defasagem
    <2>5. ASSUME NEW s \in Tempo, NEW t \in Tempo, s <= t, aceitas[k][s][t] > 0
          PROVE  aceitas[k][s][t] * Ficha <= (agora - Atraso - s) * Taxa
      BY <2>1, <2>2, <2>4, <2>5, Repaga
    <2>6. Esquecido(k)'  BY <1>1, <2>5 DEF Esquecido
    <2> QED  BY <2>1, <2>3, <2>6 DEF ChaveInv
  <1> QED  BY <1>2, <1>3, <1>4, <1>5 DEF LInv

\* So does the script, where an expired key is one that is not there.
LEMMA ScriptConta ==
  ASSUME LInv, NEW k \in Chaves, Script(k)
  PROVE  agora \in Tempo /\ \E b : Contavel(k, b, agora) /\ Conta(k, b, agora)
  <1> DEFINE novo == [tokens |-> Cheio, last |-> agora]
  <1>1. /\ agora \in Tempo /\ agora \in Int /\ Defasagem = 0 /\ TypeOK
        /\ Atraso \in Int /\ 0 <= Atraso /\ Folga \in Int /\ 0 <= Folga
    BY TempoInt, LimitadorAssumption DEF LInv, TypeOK, Defasagem, Script
  <1>2. CASE buckets[k] # Nulo /\ ~(agora >= buckets[k].last + Idle)
    <2>1. Conta(k, buckets[k], agora)  BY <1>2 DEF Script
    <2>2. Contavel(k, buckets[k], agora)
      BY <1>1, <1>2 DEF LInv, ChaveInv, Contavel
    <2> QED  BY <1>1, <2>1, <2>2
  <1>3. CASE buckets[k] = Nulo \/ agora >= buckets[k].last + Idle
    <2>1. Conta(k, novo, agora)  BY <1>3 DEF Script
    <2>2. ASSUME NEW s \in Tempo, NEW t \in Tempo, s <= t, aceitas[k][s][t] > 0
          PROVE  aceitas[k][s][t] * Ficha <= (agora - s) * Taxa
      <3>1. CASE buckets[k] = Nulo
        <4>1. aceitas[k][s][t] * Ficha <= (agora - Atraso - s) * Taxa
          BY <2>2, <3>1 DEF LInv, ChaveInv, Esquecido
        <4>2. s \in Int  BY TempoInt
        <4>3. /\ agora - Atraso - s \in Int /\ agora - s \in Int
              /\ agora - Atraso - s <= agora - s
          BY <1>1, <4>2
        <4>4. /\ (agora - Atraso - s) * Taxa <= (agora - s) * Taxa
              /\ (agora - Atraso - s) * Taxa \in Int /\ (agora - s) * Taxa \in Int
          BY <4>3, TaxaCresce, TaxaSoma
        <4>5. aceitas[k][s][t] * Ficha \in Int
          <5>1. aceitas[k][s][t] \in Int  BY <1>1 DEF TypeOK
          <5> QED  BY <5>1, MaisUmaFicha
        <4> QED  BY <4>1, <4>4, <4>5
      <3>2. CASE buckets[k] # Nulo /\ agora >= buckets[k].last + Idle
        <4>1. Sadio(k, buckets[k])  BY <3>2 DEF LInv, ChaveInv
        <4>2. buckets[k].last + Defasagem + Divide(Cheio, Taxa) <= agora
          <5>1. buckets[k].last \in Tempo  BY <4>1 DEF Sadio, Bucket
          <5>2. Divide(Cheio, Taxa) \in Int  BY CheioTemFicha, DivideBasta
          <5>3. buckets[k].last \in Int  BY <5>1, TempoInt
          <5> QED  BY <1>1, <3>2, <5>2, <5>3 DEF Idle
        <4> QED  BY <1>1, <2>2, <4>1, <4>2, Repaga
      <3> QED  BY <1>3, <3>1, <3>2
    <2>3. Sadio(k, novo) /\ Tokens(novo, agora) = Cheio
      BY <1>1, <2>2, NovoSadio
    <2>4. Contavel(k, novo, agora)  BY <1>1, <2>3 DEF Contavel
    <2> QED  BY <1>1, <2>1, <2>4
  <1> QED  BY <1>2, <1>3

LEMMA ScriptInv ==
  ASSUME LInv, NEW k \in Chaves, Script(k)
  PROVE  LInv'
  <1>1. UNCHANGED <<loja, agora, leitura>>  BY DEF Script
  <1>2. /\ buckets' \in [Chaves -> Bucket \cup {Nulo}]
        /\ aceitas' \in [Chaves -> [Tempo -> [Tempo -> Nat]]]
        /\ promessa' \in [Chaves -> Nat \cup {Nulo}]
        /\ \A j \in Chaves : ChaveInv(j)'
    BY <1>1, ScriptConta, ContaPreserva
  <1>3. TypeOK'  BY <1>1, <1>2 DEF LInv, TypeOK
  <1>4. LeituraRecente'  BY <1>1 DEF LInv, LeituraRecente
  <1> QED  BY <1>2, <1>3, <1>4 DEF LInv

LEMMA PassaInv ==
  ASSUME LInv, Passa
  PROVE  LInv'
  <1>1. /\ agora' = agora + 1 /\ agora < MaxTempo /\ agora \in Int /\ agora' \in Tempo
        /\ UNCHANGED <<loja, buckets, leitura, aceitas, promessa>>
    BY LimitadorAssumption DEF Passa, LInv, TypeOK, Tempo
  <1>2. TypeOK'  BY <1>1 DEF LInv, TypeOK
  <1>3. LeituraRecente'
    <2> SUFFICES ASSUME NEW r \in Requisicoes, leitura[r] # Nulo
                 PROVE  /\ loja = "memory"
                        /\ leitura[r].now <= agora + 1 /\ agora + 1 <= leitura[r].now + Atraso
      BY <1>1 DEF LeituraRecente
    <2>1. leitura[r].now \in Tempo  BY DEF LInv, TypeOK, Vez
    <2>2. leitura[r].now \in Int  BY <2>1, TempoInt
    <2>3. /\ loja = "memory" /\ leitura[r].now <= agora /\ agora - leitura[r].now < Atraso
      BY DEF LInv, LeituraRecente, Passa
    <2>4. Atraso \in Int  BY LimitadorAssumption
    <2> QED  BY <1>1, <2>2, <2>3, <2>4
  <1>4. agora * Taxa \in Int /\ agora' * Taxa \in Int /\ agora * Taxa <= agora' * Taxa
    BY <1>1, TaxaSoma, TaxaCresce
  <1>5. Defasagem' = Defasagem /\ Defasagem \in Int
    BY <1>1, LimitadorAssumption DEF Defasagem
  <1>6. ASSUME NEW k \in Chaves PROVE ChaveInv(k)'
    <2>1. JanelaCabe(k)'  BY <1>1 DEF LInv, ChaveInv, JanelaCabe
    <2>2. ASSUME buckets[k] = Nulo PROVE Esquecido(k)'
      <3> SUFFICES ASSUME NEW s \in Tempo, NEW t \in Tempo, s <= t, aceitas[k][s][t] > 0
                   PROVE  aceitas[k][s][t] * Ficha <= (agora' - Atraso - s) * Taxa
        BY <1>1 DEF Esquecido
      <3>1. aceitas[k][s][t] * Ficha <= (agora - Atraso - s) * Taxa
        BY <2>2 DEF LInv, ChaveInv, Esquecido
      <3>2. s \in Int  BY TempoInt
      <3>3. /\ agora - Atraso - s \in Int /\ agora' - Atraso - s \in Int
            /\ agora - Atraso - s <= agora' - Atraso - s
        BY <1>1, <3>2, LimitadorAssumption
      <3>4. /\ (agora - Atraso - s) * Taxa <= (agora' - Atraso - s) * Taxa
            /\ (agora - Atraso - s) * Taxa \in Int /\ (agora' - Atraso - s) * Taxa \in Int
        BY <3>3, TaxaCresce, TaxaSoma
      <3>5. aceitas[k][s][t] * Ficha \in Int
        <4>1. aceitas[k][s][t] \in Int  BY DEF LInv, TypeOK
        <4> QED  BY <4>1, MaisUmaFicha
      <3> QED  BY <3>1, <3>4, <3>5
    <2>3. ASSUME buckets[k] # Nulo
          PROVE  Sadio(k, buckets[k])' /\ Cumpre(k, buckets[k])' /\ Justa(k, buckets[k])'
      <3>1. Sadio(k, buckets[k]) /\ Cumpre(k, buckets[k]) /\ Justa(k, buckets[k])
        BY <2>3 DEF LInv, ChaveInv
      <3>2. Nivel(buckets[k])' = Nivel(buckets[k])  BY <1>1 DEF Nivel
      <3>3. Nivel(buckets[k]) \in Int /\ buckets[k].last \in Int
        <4>1. buckets[k] \in Bucket /\ buckets[k].last \in Tempo  BY <3>1 DEF Sadio, Bucket
        <4> QED  BY <4>1, TempoInt, TokensDe
      <3>4. Paga(k, buckets[k])'  BY <1>1, <3>1, <3>2 DEF Sadio, Paga
      <3>5. /\ 0 <= Nivel(buckets[k]) + agora' * Taxa
            /\ buckets[k].last <= agora'
        BY <1>1, <1>4, <3>1, <3>3 DEF Sadio
      <3>6. Sadio(k, buckets[k])'
        BY <1>1, <1>5, <3>1, <3>2, <3>4, <3>5 DEF Sadio
      <3>7. Cumpre(k, buckets[k])'  BY <1>1, <3>1, <3>2 DEF Cumpre
      <3>8. Justa(k, buckets[k])'
        <4>1. PICK s \in Tempo :
                /\ s = 0 \/ s + Defasagem <= agora
                /\ \A t \in agora..MaxTempo :
                     Cheio <= Nivel(buckets[k]) + (s + Defasagem) * Taxa + aceitas[k][s][t] * Ficha
          BY <3>1 DEF Justa
        <4>2. s = 0 \/ s + Defasagem <= agora'  BY <1>1, <1>5, <4>1, TempoInt
        <4>3. agora'..MaxTempo \subseteq agora..MaxTempo  BY <1>1, LimitadorAssumption
        <4> QED  BY <1>1, <1>5, <3>2, <4>1, <4>2, <4>3 DEF Justa
      <3> QED  BY <3>6, <3>7, <3>8
    <2> QED  BY <1>1, <2>1, <2>2, <2>3 DEF ChaveInv
  <1> QED  BY <1>2, <1>3, <1>6 DEF LInv

LEMMA NextInv == LInv /\ [Next]_vars => LInv'
  <1> SUFFICES ASSUME LInv, [Next]_vars PROVE LInv'  OBVIOUS
  <1>1. ASSUME NEW r \in Requisicoes, LerRelogio(r) PROVE LInv'
    BY <1>1, LerRelogioInv
  <1>2. ASSUME NEW r \in Requisicoes, Allow(r) PROVE LInv'
    BY <1>2, AllowInv
  <1>3. ASSUME NEW k \in ChavesNoRedis, Script(k) PROVE LInv'
    BY <1>3, ScriptInv, LimitadorAssumption
  <1>4. CASE UNCHANGED vars
    <2>1. TypeOK' /\ LeituraRecente'
      BY <1>4 DEF LInv, TypeOK, LeituraRecente, vars
    <2>2. \A k \in Chaves : ChaveInv(k)'
      BY <1>4, ChaveEstavel DEF LInv, vars
    <2> QED  BY <2>1, <2>2 DEF LInv
  <1> QED  BY <1>1, <1>2, <1>3, <1>4, CleanupInv, PassaInv DEF Next

-------------------------------------------------------------------------------
(* What is proved of the limiter *)

\* The types, whatever the store and however the readings are interleaved.
THEOREM LimitadorTypeOK == Spec => []TypeOK
  <1>1. LInv => TypeOK  BY DEF LInv
  <1> QED  BY <1>1, InitInv, NextInv, PTL DEF Spec

\* No client gets more than its burst and the rate of the window, whatever the
\* order its requests are counted in and however buckets come and go.
THEOREM LimitadorSemExcesso == Spec => []SemExcesso
  <1>1. ASSUME LInv PROVE SemExcesso
    <2>1. agora \in Nat /\ agora <= MaxTempo
      BY <1>1, LimitadorAssumption DEF LInv, TypeOK, Tempo
    <2>2. \A s \in 0..agora : \A t \in s..agora : s \in Tempo /\ t \in Tempo /\ s <= t
      BY <2>1, LimitadorAssumption DEF Tempo
    <2> QED  BY <1>1, <2>2 DEF LInv, ChaveInv, JanelaCabe, SemExcesso
  <1> QED  BY <1>1, InitInv, NextInv, PTL DEF Spec

\* A client that waits as long as it was told finds a token.
THEOREM LimitadorEsperaBasta == Spec => []EsperaBasta
  <1>1. ASSUME LInv PROVE EsperaBasta
    <2> SUFFICES ASSUME NEW k \in Chaves, promessa[k] # Nulo, agora >= promessa[k],
                        buckets[k] # Nulo
                 PROVE  Tokens(buckets[k], agora) >= Ficha
      BY DEF EsperaBasta
    <2>1. Sadio(k, buckets[k]) /\ Ficha <= Nivel(buckets[k]) + promessa[k] * Taxa
      BY <1>1 DEF LInv, ChaveInv, Cumpre
    <2>2. buckets[k] \in Bucket /\ agora \in Tempo /\ promessa[k] \in Int
      BY <1>1, <2>1 DEF LInv, TypeOK, Sadio
    <2>3. agora \in Int /\ promessa[k] * Taxa <= agora * Taxa
          /\ promessa[k] * Taxa \in Int /\ agora * Taxa \in Int
      BY <2>2, TempoInt, TaxaCresce, TaxaSoma
    <2>4. Ficha \in Int  BY LimitadorAssumption
    <2> QED  BY <2>1, <2>2, <2>3, <2>4, TokensDe, CheioTemFicha
  <1> QED  BY <1>1, InitInv, NextInv, PTL DEF Spec

\* A client is only told to wait when it has used up what it may, up to what two
\* waits for the mutex are worth, and exactly so in Redis.
THEOREM LimitadorRecusaJustificada == Spec => RecusaJustificada
  <1> DEFINE R == \A k \in Chaves :
               promessa'[k] # promessa[k] /\ promessa'[k] # Nulo =>
                 \E s \in 0..agora : NivelIdeal(k, s) < Ficha + Tolerancia
  <1>1. ASSUME LInv, [Next]_vars PROVE [R]_vars
    <2>1. ASSUME UNCHANGED promessa PROVE R  BY <2>1
    <2>2. ASSUME NEW r \in Requisicoes, Allow(r) PROVE R
      <3>1. CASE UNCHANGED <<buckets, aceitas, promessa>>  BY <2>1, <3>1
      <3>2. CASE ~ UNCHANGED <<buckets, aceitas, promessa>>
        <4>1. UNCHANGED <<loja, agora>>  BY <2>2 DEF Allow
        <4> QED  BY <1>1, <2>2, <3>2, <4>1, AllowConta, ContaPreserva
      <3> QED  BY <3>1, <3>2
    <2>3. ASSUME NEW k \in ChavesNoRedis, Script(k) PROVE R
      <3>1. UNCHANGED <<loja, agora>> /\ k \in Chaves
        BY <2>3, LimitadorAssumption DEF Script
      <3> QED  BY <1>1, <2>3, <3>1, ScriptConta, ContaPreserva
    <2>4. ASSUME NEW r \in Requisicoes, LerRelogio(r) PROVE R
      BY <2>1, <2>4 DEF LerRelogio
    <2>5. Cleanup => R  BY <2>1 DEF Cleanup
    <2>6. Passa => R  BY <2>1 DEF Passa
    <2> QED  BY <1>1, <2>2, <2>3, <2>4, <2>5, <2>6 DEF Next
  <1> QED  BY <1>1, InitInv, NextInv, PTL DEF Spec, RecusaJustificada

=============================================================================
