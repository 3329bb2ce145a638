----------------------------- MODULE WebhookProofs -----------------------------
(***************************************************************************)
(* The safety of Verificacao and of Webhook, for any number of requests,   *)
(* deliveries, messages, codes and failures.                               *)
(*                                                                         *)
(* The inductive invariant is in two parts.  VInv is about the codes: each *)
(* was drawn for one channel and one method, so it can only be found where *)
(* that challenge sent it, and what a request typed it had read there.     *)
(* WInv is about the deliveries: where each is in its batch, what has been *)
(* decided of the messages behind it, and what a delivery that is about to *)
(* register has already checked.  The ceiling of the attempts has one of   *)
(* its own, TetoInv, at the end.                                           *)
(***************************************************************************)
EXTENDS Webhook, FiniteSetTheorems, TLAPS

\* Where a challenge of this channel and method sends its code.
Destino(canal, metodo) == IF metodo = "codigo" THEN canal ELSE "app"

\* A code is found only where its challenge sent it.
CodigoNoDestino ==
  \A c \in Canais, m \in Meios :
    desafio[c] # Nulo /\ desafio[c].codigo \in recebidos[m] =>
      m = Destino(c, desafio[c].metodo)

\* The code being sent is the one of the challenge of that channel, or of none.
EnvioNoCanal ==
  \A s \in Slots, c \in Canais :
    Chamou(s, "enviar") /\ desafio[c] # Nulo /\ desafio[c].codigo = pedido[s].codigo =>
      c = pedido[s].canal /\ desafio[c].metodo = "codigo"

CodigosGerados ==
  /\ \A m \in Meios : recebidos[m] \subseteq 1..codigos
  /\ \A c \in Canais : desafio[c] # Nulo => desafio[c].codigo \in 1..codigos
  /\ \A s \in Slots : Chamou(s, "enviar") => pedido[s].codigo \in 1..codigos

\* What the application is checking was typed by the user, who had received it.
DigitadoRecebido ==
  \A s \in App :
    Chamou(s, "ler") =>
      /\ pedido[s].metodo = "codigo"
      /\ pedido[s].codigo # 0 => \E m \in Meios : pedido[s].codigo \in recebidos[m]

UsadoVerificado ==
  \A s \in Slots : Chamou(s, "apagarUsado") => verificado[pedido[s].canal]

VInv ==
  /\ VerificacaoTypeOK
  /\ CodigosGerados /\ CodigoNoDestino /\ EnvioNoCanal
  /\ DigitadoRecebido /\ ProvaDePosse
  /\ UsadoVerificado /\ CacheConfere

LEMMA VInit == VerificacaoInit => VInv
  <1> SUFFICES ASSUME VerificacaoInit PROVE VInv  OBVIOUS
  <1>0. MaxCodigos \in Nat  BY VerificacaoAssumption
  <1>1. \A s : \/ s \notin Slots
               \/ /\ ~ Chamou(s, "enviar") /\ ~ Chamou(s, "ler")
                  /\ ~ Chamou(s, "marcar") /\ ~ Chamou(s, "apagarUsado")
    BY DEF VerificacaoInit, Chamou, Livre
  <1>2. VerificacaoTypeOK
    <2>1. Livre \in Chamada
      BY <1>0 DEF Livre, Chamada, Ops, Canais, Metodos, Codigo
    <2>2. pedido \in [Slots -> Chamada]  BY <2>1 DEF VerificacaoInit
    <2>3. recebidos \in [Meios -> SUBSET (1..MaxCodigos)]  BY DEF VerificacaoInit
    <2>4. verificado \in [Canais -> BOOLEAN]  BY DEF VerificacaoInit
    <2>5. desafio \in [Canais -> Desafio \cup {Nulo}]  BY DEF VerificacaoInit
    <2>6. codigos \in Codigo /\ cache \in BOOLEAN
      <3>1. codigos = 0  BY DEF VerificacaoInit
      <3>2. cache = FALSE  BY DEF VerificacaoInit
      <3>3. codigos \in Codigo  BY <1>0, <3>1 DEF Codigo
      <3>4. cache \in BOOLEAN  BY <3>2
      <3> QED  BY <3>3, <3>4
    <2> QED  BY <2>2, <2>3, <2>4, <2>5, <2>6 DEF VerificacaoTypeOK
  <1>3. CodigosGerados /\ CodigoNoDestino /\ CacheConfere
    BY <1>1 DEF VerificacaoInit, CodigosGerados, CodigoNoDestino, CacheConfere
  <1>4. EnvioNoCanal /\ DigitadoRecebido /\ ProvaDePosse /\ UsadoVerificado
    BY <1>1, VerificacaoAssumption
       DEF EnvioNoCanal, DigitadoRecebido, ProvaDePosse, UsadoVerificado
  <1> QED  BY <1>2, <1>3, <1>4 DEF VInv

-------------------------------------------------------------------------------
(* The steps of the verification *)

\* What the operation a request goes on with has to be careful about, when the
\* codes and their whereabouts stay the same.
PodeSeguir(t) ==
  \/ pedido'[t] = pedido[t]
  \/ pedido'[t].op \in Ops \ {"enviar", "ler", "marcar", "apagarUsado"}
  \/ /\ pedido'[t].op = "marcar"
     /\ t \in App => pedido'[t].codigo \in recebidos[pedido'[t].canal]
  \/ /\ pedido'[t].op = "apagarUsado"
     /\ verificado'[pedido'[t].canal]
  \/ /\ pedido'[t].op = "ler"
     /\ t \in App =>
          /\ pedido'[t].metodo = "codigo"
          /\ pedido'[t].codigo # 0 => \E m \in Meios : pedido'[t].codigo \in recebidos[m]

\* A step that draws and sends no code: challenges only go away or change their
\* counters.
SemCodigoNovo ==
  /\ UNCHANGED <<codigos, recebidos>>
  /\ \A c \in Canais : desafio'[c] # Nulo =>
       /\ desafio[c] # Nulo
       /\ desafio'[c].codigo = desafio[c].codigo
       /\ desafio'[c].metodo = desafio[c].metodo
  /\ \A c \in Canais : verificado[c] => verificado'[c]
  /\ cache' => verificado'["email"]
  /\ \A t \in Slots : PodeSeguir(t)

LEMMA PassoSemCodigo ==
  ASSUME VInv, VerificacaoTypeOK', SemCodigoNovo
  PROVE  VInv'
  <1>1. CodigosGerados'
    <2>1. \A t \in Slots : pedido'[t].op = "enviar" => pedido'[t] = pedido[t]
      BY DEF SemCodigoNovo, PodeSeguir
    <2> QED  BY <2>1 DEF VInv, CodigosGerados, SemCodigoNovo, Chamou
  <1>2. CodigoNoDestino'
    BY DEF VInv, CodigoNoDestino, SemCodigoNovo
  <1>3. EnvioNoCanal'
    <2> SUFFICES ASSUME NEW s \in Slots, NEW c \in Canais,
                        pedido'[s].op = "enviar", desafio'[c] # Nulo,
                        desafio'[c].codigo = pedido'[s].codigo
                 PROVE  c = pedido'[s].canal /\ desafio'[c].metodo = "codigo"
      BY DEF EnvioNoCanal, Chamou
    <2>1. pedido'[s] = pedido[s]  BY DEF SemCodigoNovo, PodeSeguir
    <2>2. /\ desafio[c] # Nulo /\ desafio'[c].codigo = desafio[c].codigo
          /\ desafio'[c].metodo = desafio[c].metodo
      BY DEF SemCodigoNovo
    <2> QED  BY <2>1, <2>2 DEF VInv, EnvioNoCanal, Chamou
  <1>4. DigitadoRecebido' /\ ProvaDePosse'
    <2> SUFFICES ASSUME NEW s \in App
                 PROVE  /\ pedido'[s].op = "ler" =>
                             /\ pedido'[s].metodo = "codigo"
                             /\ pedido'[s].codigo # 0 =>
                                  \E m \in Meios : pedido'[s].codigo \in recebidos'[m]
                        /\ pedido'[s].op = "marcar" =>
                             pedido'[s].codigo \in recebidos'[pedido'[s].canal]
      BY DEF DigitadoRecebido, ProvaDePosse, Chamou
    <2>1. s \in Slots /\ PodeSeguir(s) /\ recebidos' = recebidos
      BY VerificacaoAssumption DEF SemCodigoNovo
    <2> QED  BY <2>1 DEF VInv, DigitadoRecebido, ProvaDePosse, PodeSeguir, Chamou
  <1>5. UsadoVerificado'
    <2> SUFFICES ASSUME NEW s \in Slots, pedido'[s].op = "apagarUsado"
                 PROVE  verificado'[pedido'[s].canal]
      BY DEF UsadoVerificado, Chamou
    <2>1. CASE pedido'[s] = pedido[s]
      <3>1. pedido[s].canal \in Canais  BY DEF VInv, VerificacaoTypeOK, Chamada
      <3> QED  BY <2>1, <3>1 DEF VInv, UsadoVerificado, SemCodigoNovo, Chamou
    <2> QED  BY <2>1 DEF SemCodigoNovo, PodeSeguir
  <1>6. CacheConfere'  BY DEF SemCodigoNovo, CacheConfere
  <1> QED  BY <1>1, <1>2, <1>3, <1>4, <1>5, <1>6 DEF VInv

\* The types that a slot's record keeps when only its operation changes.
LEMMA MudaOp ==
  ASSUME VInv, NEW s \in Slots, NEW op \in Ops, Segue(s, op)
  PROVE  /\ pedido' \in [Slots -> Chamada]
         /\ pedido'[s].op = op /\ pedido'[s].canal = pedido[s].canal
         /\ pedido'[s].codigo = pedido[s].codigo /\ pedido'[s].metodo = pedido[s].metodo
         /\ pedido[s].canal \in Canais /\ pedido[s].codigo \in Codigo
         /\ \A t \in Slots : t # s => pedido'[t] = pedido[t]
  <1>1. pedido \in [Slots -> Chamada] /\ pedido[s] \in Chamada
    BY DEF VInv, VerificacaoTypeOK
  <1>2. pedido' = [pedido EXCEPT ![s] = [pedido[s] EXCEPT !.op = op]]
    BY DEF Segue
  <1>3. [pedido[s] EXCEPT !.op = op] \in Chamada  BY <1>1 DEF Chamada
  <1> QED  BY <1>1, <1>2, <1>3 DEF Chamada

LEMMA LivreTipo == Livre \in Chamada /\ Livre.op = "livre"
  <1>1. MaxCodigos \in Nat  BY VerificacaoAssumption
  <1> QED  BY <1>1 DEF Livre, Chamada, Ops, Canais, Metodos, Codigo

\* The calls that go on with nothing changed but the operation.
LEMMA SoSegue ==
  ASSUME VInv, NEW s \in Slots, NEW op \in Ops \ {"enviar", "ler"}, Segue(s, op),
         op = "marcar" /\ s \in App => pedido[s].codigo \in recebidos[pedido[s].canal],
         op = "apagarUsado" => verificado'[pedido[s].canal],
         UNCHANGED <<codigos, recebidos>>,
         verificado' \in [Canais -> BOOLEAN],
         \A c \in Canais : verificado[c] => verificado'[c],
         desafio' \in [Canais -> Desafio \cup {Nulo}],
         \A c \in Canais : desafio'[c] # Nulo =>
           /\ desafio[c] # Nulo
           /\ desafio'[c].codigo = desafio[c].codigo
           /\ desafio'[c].metodo = desafio[c].metodo,
         cache' \in BOOLEAN, cache' => verificado'["email"]
  PROVE  VInv'
  <1>1. VerificacaoTypeOK'
    BY MudaOp DEF VInv, VerificacaoTypeOK
  <1>2. \A t \in Slots : PodeSeguir(t)
    BY MudaOp DEF PodeSeguir
  <1>3. SemCodigoNovo  BY <1>2 DEF SemCodigoNovo
  <1> QED  BY <1>1, <1>3, PassoSemCodigo

\* The calls after which tables and cache are as they were.
LEMMA SegueIgual ==
  ASSUME VInv, NEW s \in Slots, NEW op \in Ops \ {"enviar", "ler", "marcar", "apagarUsado"},
         Segue(s, op), UNCHANGED verificacao
  PROVE  VInv'
  <1>1. /\ verificado' = verificado /\ desafio' = desafio /\ cache' = cache
        /\ codigos' = codigos /\ recebidos' = recebidos
    BY DEF verificacao
  <1>2. /\ verificado' \in [Canais -> BOOLEAN]
        /\ desafio' \in [Canais -> Desafio \cup {Nulo}]
    BY <1>1 DEF VInv, VerificacaoTypeOK
  <1>3. cache' \in BOOLEAN
    <2>1. cache \in BOOLEAN  BY DEF VInv, VerificacaoTypeOK
    <2> QED  BY <1>1, <2>1
  <1>4. cache' => verificado'["email"]
    <2>1. cache => verificado["email"]  BY DEF VInv, CacheConfere
    <2> QED  BY <1>1, <2>1
  <1>5. op \in Ops \ {"enviar", "ler"} /\ op # "marcar" /\ op # "apagarUsado"
    OBVIOUS
  <1> QED  BY <1>1, <1>2, <1>3, <1>4, <1>5, SoSegue

\* A slot takes a new record, or becomes free.
LEMMA Recebe ==
  ASSUME VInv, NEW s \in Slots, NEW p \in Chamada,
         pedido' = [pedido EXCEPT ![s] = p],
         UNCHANGED verificacao,
         \/ p.op \in Ops \ {"enviar", "ler", "marcar", "apagarUsado"}
         \/ /\ p.op = "ler"
            /\ s \in App => /\ p.metodo = "codigo"
                            /\ p.codigo # 0 => \E m \in Meios : p.codigo \in recebidos[m]
  PROVE  VInv'
  <1>1. VerificacaoTypeOK'
    BY DEF VInv, VerificacaoTypeOK, verificacao
  <1>2. \A t \in Slots : PodeSeguir(t)
    <2>1. /\ pedido'[s] = p /\ \A t \in Slots : t # s => pedido'[t] = pedido[t]
      BY DEF VInv, VerificacaoTypeOK
    <2> QED  BY <2>1 DEF PodeSeguir
  <1>3. SemCodigoNovo  BY <1>2 DEF SemCodigoNovo, VInv, CacheConfere, verificacao
  <1> QED  BY <1>1, <1>3, PassoSemCodigo

\* The tables and the cache stay, or the cache is lost; slots become free.
LEMMA Liberam ==
  ASSUME VInv, UNCHANGED <<verificado, desafio, codigos, recebidos>>,
         cache' \in {cache, FALSE},
         pedido' \in [Slots -> Chamada],
         \A t \in Slots : pedido'[t] \in {pedido[t], Livre}
  PROVE  VInv'
  <1>1. VerificacaoTypeOK'
    BY DEF VInv, VerificacaoTypeOK
  <1>2. \A t \in Slots : PodeSeguir(t)
    BY DEF PodeSeguir, Livre, Ops
  <1>3. cache' => verificado'["email"]  BY DEF VInv, CacheConfere
  <1>4. SemCodigoNovo  BY <1>2, <1>3 DEF SemCodigoNovo
  <1> QED  BY <1>1, <1>4, PassoSemCodigo

LEMMA PassoStart ==
  ASSUME VInv, NEW s \in Slots, Start(s) PROVE VInv'
  <1>1. PICK canal \in CanaisUsados, metodo \in Metodos :
          /\ pedido' = [pedido EXCEPT ![s] = [op |-> "salvar", canal |-> canal,
                                              metodo |-> metodo, codigo |-> 0]]
          /\ UNCHANGED verificacao
    BY DEF Start, Pede
  <1> DEFINE p == [op |-> "salvar", canal |-> canal, metodo |-> metodo, codigo |-> 0]
  <1>2. p \in Chamada /\ p.op = "salvar"
    BY VerificacaoAssumption DEF Chamada, Ops, Canais, Codigo
  <1> QED  BY <1>1, <1>2, Recebe DEF Ops

LEMMA PassoConfirm ==
  ASSUME VInv, NEW s \in Slots, Confirm(s) PROVE VInv'
  <1>1. PICK canal \in CanaisUsados, codigo \in {0} \cup UNION {recebidos[m] : m \in Meios} :
          /\ pedido' = [pedido EXCEPT ![s] = [op |-> "ler", canal |-> canal,
                                              metodo |-> "codigo", codigo |-> codigo]]
          /\ UNCHANGED verificacao
    BY DEF Confirm, Pede
  <1> DEFINE p == [op |-> "ler", canal |-> canal, metodo |-> "codigo", codigo |-> codigo]
  <1>2. codigo \in Codigo
    BY VerificacaoAssumption DEF VInv, VerificacaoTypeOK, Codigo
  <1>3. p \in Chamada /\ p.op = "ler" /\ p.metodo = "codigo" /\ p.codigo = codigo
    BY <1>2, VerificacaoAssumption DEF Chamada, Ops, Canais, Metodos
  <1>4. codigo # 0 => \E m \in Meios : codigo \in recebidos[m]  OBVIOUS
  <1> QED  BY <1>1, <1>3, <1>4, Recebe

\* A new code: no challenge, request or user has one like it.
LEMMA PassoSalvar ==
  ASSUME VInv, NEW s \in Slots, Salvar(s) PROVE VInv'
  <1> DEFINE p == pedido[s]
             novo == codigos + 1
             v == [codigo |-> novo, metodo |-> p.metodo, tentativas |-> 0,
                   recente |-> TRUE, vencido |-> FALSE]
  <1>1. /\ p \in Chamada /\ p.canal \in Canais /\ p.metodo \in Metodos
        /\ pedido \in [Slots -> Chamada]
        /\ codigos \in Nat /\ MaxCodigos \in Nat /\ novo \in 1..MaxCodigos
        /\ desafio \in [Canais -> Desafio \cup {Nulo}]
        /\ recebidos \in [Meios -> SUBSET (1..MaxCodigos)]
    BY VerificacaoAssumption
       DEF VInv, VerificacaoTypeOK, Chamada, Codigo, Salvar
  <1>2. /\ codigos' = novo /\ desafio' = [desafio EXCEPT ![p.canal] = v]
        /\ verificado' = verificado /\ cache' = cache
    BY DEF Salvar, Save
  <1>3. v \in Desafio /\ v.codigo = novo /\ v.metodo = p.metodo
    BY <1>1 DEF Desafio
  <1>4. CASE p.metodo = "mensagem"
    <2>1. /\ recebidos' = [recebidos EXCEPT !["app"] = @ \cup {novo}]
          /\ pedido' = [pedido EXCEPT ![s] = Livre]
      BY <1>4 DEF Salvar
    <2>2. /\ pedido'[s] = Livre /\ \A t \in Slots : t # s => pedido'[t] = pedido[t]
          /\ pedido' \in [Slots -> Chamada]
      BY <1>1, <2>1, LivreTipo
    <2>3. /\ "app" \in Meios /\ recebidos'["app"] = recebidos["app"] \cup {novo}
          /\ \A m \in Meios : m # "app" => recebidos'[m] = recebidos[m]
          /\ recebidos' \in [Meios -> SUBSET (1..MaxCodigos)]
      BY <1>1, <2>1 DEF Meios
    <2>4. \A t \in Slots : pedido'[t].op # "livre" => pedido'[t] = pedido[t]
      BY <2>2, LivreTipo
    <2> HIDE DEF p, novo, v
    <2>5. VerificacaoTypeOK'
      BY <1>1, <1>2, <1>3, <2>2, <2>3 DEF VInv, VerificacaoTypeOK, Codigo
    <2>6. CodigosGerados'
      <3>1. novo = codigos + 1  BY DEF novo
      <3> QED  BY <1>1, <1>2, <1>3, <2>3, <2>4, <3>1
               DEF VInv, CodigosGerados, Chamou
    <2>7. CodigoNoDestino'
      <3> SUFFICES ASSUME NEW c \in Canais, NEW m \in Meios, desafio'[c] # Nulo,
                          desafio'[c].codigo \in recebidos'[m]
                   PROVE  m = Destino(c, desafio'[c].metodo)
        BY DEF CodigoNoDestino
      <3>1. novo = codigos + 1  BY DEF novo
      <3>2. CASE c = p.canal
        <4>1. desafio'[c] = v  BY <1>1, <1>2, <3>2
        <4>2. novo \notin recebidos[m]
          BY <1>1, <3>1 DEF VInv, CodigosGerados
        <4>3. m = "app"  BY <1>3, <2>3, <4>1, <4>2
        <4> QED  BY <1>3, <1>4, <4>1, <4>3 DEF Destino
      <3>3. CASE c # p.canal
        <4>1. desafio'[c] = desafio[c]  BY <1>1, <1>2, <3>3
        <4>2. desafio[c].codigo # novo
          BY <1>1, <3>1, <4>1 DEF VInv, CodigosGerados
        <4> QED  BY <2>3, <4>1, <4>2 DEF VInv, CodigoNoDestino
      <3> QED  BY <3>2, <3>3
    <2>8. EnvioNoCanal'
      <3> SUFFICES ASSUME NEW t \in Slots, NEW c \in Canais,
                          pedido'[t].op = "enviar", desafio'[c] # Nulo,
                          desafio'[c].codigo = pedido'[t].codigo
                   PROVE  c = pedido'[t].canal /\ desafio'[c].metodo = "codigo"
        BY DEF EnvioNoCanal, Chamou
      <3>1. pedido'[t] = pedido[t]  BY <2>4
      <3>2. pedido[t].codigo # novo
        BY <1>1, <3>1 DEF VInv, CodigosGerados, Chamou, novo
      <3>3. desafio'[c] = desafio[c]  BY <1>1, <1>2, <1>3, <3>1, <3>2
      <3> QED  BY <3>1, <3>3 DEF VInv, EnvioNoCanal, Chamou
    <2>9. DigitadoRecebido' /\ ProvaDePosse' /\ UsadoVerificado' /\ CacheConfere'
      <3>1. App \subseteq Slots  BY VerificacaoAssumption
      <3>2. \A t \in Slots : pedido[t].canal \in Meios  BY <1>1 DEF Chamada, Meios
      <3>3. \A m \in Meios : recebidos[m] \subseteq recebidos'[m]  BY <2>3
      <3>4. DigitadoRecebido'
        BY <2>4, <3>1, <3>3 DEF VInv, DigitadoRecebido, Chamou
      <3>5. ProvaDePosse'
        BY <2>4, <3>1, <3>2, <3>3 DEF VInv, ProvaDePosse, Chamou
      <3> QED  BY <1>2, <2>4, <3>4, <3>5 DEF VInv, UsadoVerificado, CacheConfere, Chamou
    <2> QED  BY <2>5, <2>6, <2>7, <2>8, <2>9 DEF VInv
  <1>5. CASE p.metodo # "mensagem"
    <2>0. p.metodo = "codigo"  BY <1>1, <1>5 DEF Metodos
    <2> DEFINE q == [p EXCEPT !.op = "enviar", !.codigo = novo]
    <2>1. recebidos' = recebidos /\ pedido' = [pedido EXCEPT ![s] = q]
      BY <1>5 DEF Salvar
    <2>2. q \in Chamada /\ q.op = "enviar" /\ q.canal = p.canal /\ q.codigo = novo
      <3>1. novo \in Codigo /\ "enviar" \in Ops  BY <1>1 DEF Codigo, Ops
      <3> HIDE DEF p, novo
      <3> QED  BY <1>1, <3>1 DEF Chamada
    <2> HIDE DEF q
    <2>3. /\ pedido'[s] = q /\ \A t \in Slots : t # s => pedido'[t] = pedido[t]
          /\ pedido' \in [Slots -> Chamada]
      BY <1>1, <2>1, <2>2
    <2> HIDE DEF p, novo, v
    <2>5. VerificacaoTypeOK'
      BY <1>1, <1>2, <1>3, <2>1, <2>3 DEF VInv, VerificacaoTypeOK, Codigo
    <2>6. CodigosGerados'
      <3>1. novo = codigos + 1  BY DEF novo
      <3>2. \A m \in Meios : recebidos'[m] \subseteq 1..codigos'
        BY <1>1, <1>2, <2>1, <3>1 DEF VInv, CodigosGerados
      <3>3. \A c \in Canais : desafio'[c] # Nulo => desafio'[c].codigo \in 1..codigos'
        BY <1>1, <1>2, <1>3, <3>1 DEF VInv, CodigosGerados
      <3>4. \A t \in Slots : pedido'[t].op = "enviar" => pedido'[t].codigo \in 1..codigos'
        BY <1>1, <1>2, <2>2, <2>3, <3>1 DEF VInv, CodigosGerados, Chamou
      <3> QED  BY <3>2, <3>3, <3>4 DEF CodigosGerados, Chamou
    <2>7. CodigoNoDestino'
      <3> SUFFICES ASSUME NEW c \in Canais, NEW m \in Meios, desafio'[c] # Nulo,
                          desafio'[c].codigo \in recebidos'[m]
                   PROVE  m = Destino(c, desafio'[c].metodo)
        BY DEF CodigoNoDestino
      <3>1. novo = codigos + 1  BY DEF novo
      <3>2. novo \notin recebidos[m]
        BY <1>1, <3>1 DEF VInv, CodigosGerados
      <3>3. desafio'[c] = desafio[c]  BY <1>1, <1>2, <1>3, <2>1, <3>2
      <3> QED  BY <2>1, <3>3 DEF VInv, CodigoNoDestino
    <2>8. EnvioNoCanal'
      <3> SUFFICES ASSUME NEW t \in Slots, NEW c \in Canais,
                          pedido'[t].op = "enviar", desafio'[c] # Nulo,
                          desafio'[c].codigo = pedido'[t].codigo
                   PROVE  c = pedido'[t].canal /\ desafio'[c].metodo = "codigo"
        BY DEF EnvioNoCanal, Chamou
      <3>1. novo = codigos + 1  BY DEF novo
      <3>2. CASE t = s
        <4>1. c # p.canal => desafio'[c] = desafio[c] /\ desafio[c].codigo # novo
          BY <1>1, <1>2, <3>1 DEF VInv, CodigosGerados
        <4>2. c = p.canal  BY <2>2, <2>3, <3>2, <4>1
        <4>3. desafio'[c] = v  BY <1>1, <1>2, <4>2
        <4> QED  BY <1>3, <2>0, <2>2, <2>3, <3>2, <4>2, <4>3
      <3>3. CASE t # s
        <4>1. pedido'[t] = pedido[t]  BY <2>3, <3>3
        <4>2. pedido[t].codigo # novo
          BY <1>1, <3>1, <4>1 DEF VInv, CodigosGerados, Chamou
        <4>3. desafio'[c] = desafio[c]  BY <1>1, <1>2, <1>3, <4>1, <4>2
        <4> QED  BY <4>1, <4>3 DEF VInv, EnvioNoCanal, Chamou
      <3> QED  BY <3>2, <3>3
    <2>9. DigitadoRecebido' /\ ProvaDePosse' /\ UsadoVerificado' /\ CacheConfere'
      <3>1. \A t \in Slots : pedido'[t].op # "enviar" => pedido'[t] = pedido[t]
        BY <2>2, <2>3
      <3>2. App \subseteq Slots  BY VerificacaoAssumption
      <3> QED  BY <1>2, <2>1, <3>1, <3>2
               DEF VInv, DigitadoRecebido, ProvaDePosse, UsadoVerificado, CacheConfere,
                   Chamou
    <2> QED  BY <2>5, <2>6, <2>7, <2>8, <2>9 DEF VInv
  <1> QED  BY <1>4, <1>5

\* The code reaches the user where its challenge was asked for.
LEMMA PassoEnviar ==
  ASSUME VInv, NEW s \in Slots, Enviar(s) PROVE VInv'
  <1> DEFINE p == pedido[s]
  <1>1. /\ Chamou(s, "enviar") /\ UNCHANGED <<verificado, desafio, codigos, cache>>
        /\ p \in Chamada /\ p.canal \in Canais /\ p.canal \in Meios
        /\ p.codigo \in 1..codigos /\ codigos \in Nat /\ codigos <= MaxCodigos
        /\ MaxCodigos \in Nat
        /\ pedido \in [Slots -> Chamada]
        /\ recebidos \in [Meios -> SUBSET (1..MaxCodigos)]
    BY VerificacaoAssumption
       DEF Enviar, VInv, VerificacaoTypeOK, CodigosGerados, Chamada, Meios, Codigo
  <1>2. CASE /\ recebidos' = [recebidos EXCEPT ![p.canal] = @ \cup {p.codigo}]
             /\ pedido' = [pedido EXCEPT ![s] = Livre]
    <2>1. /\ pedido'[s] = Livre /\ \A t \in Slots : t # s => pedido'[t] = pedido[t]
          /\ pedido' \in [Slots -> Chamada]
      BY <1>1, <1>2, LivreTipo
    <2>2. /\ recebidos'[p.canal] = recebidos[p.canal] \cup {p.codigo}
          /\ \A m \in Meios : m # p.canal => recebidos'[m] = recebidos[m]
          /\ recebidos' \in [Meios -> SUBSET (1..MaxCodigos)]
      BY <1>1, <1>2
    <2>3. \A t \in Slots : pedido'[t].op # "livre" => pedido'[t] = pedido[t]
      BY <2>1, LivreTipo
    <2>4. \A c \in Canais : desafio[c] # Nulo /\ desafio[c].codigo = p.codigo =>
                              c = p.canal /\ desafio[c].metodo = "codigo"
      BY <1>1 DEF VInv, EnvioNoCanal
    <2> HIDE DEF p
    <2>5. VerificacaoTypeOK'
      BY <1>1, <2>1, <2>2 DEF VInv, VerificacaoTypeOK
    <2>6. CodigosGerados'
      BY <1>1, <2>2, <2>3 DEF VInv, CodigosGerados, Chamou
    <2>7. CodigoNoDestino'
      <3> SUFFICES ASSUME NEW c \in Canais, NEW m \in Meios, desafio[c] # Nulo,
                          desafio[c].codigo \in recebidos'[m]
                   PROVE  m = Destino(c, desafio[c].metodo)
        BY <1>1 DEF CodigoNoDestino
      <3>1. CASE desafio[c].codigo \in recebidos[m]
        BY <3>1 DEF VInv, CodigoNoDestino
      <3>2. CASE desafio[c].codigo \notin recebidos[m]
        <4>1. m = p.canal /\ desafio[c].codigo = p.codigo  BY <2>2, <3>2
        <4> QED  BY <2>4, <4>1 DEF Destino
      <3> QED  BY <3>1, <3>2
    <2>8. EnvioNoCanal'
      BY <1>1, <2>3 DEF VInv, EnvioNoCanal, Chamou
    <2>9. DigitadoRecebido' /\ ProvaDePosse' /\ UsadoVerificado' /\ CacheConfere'
      <3>1. App \subseteq Slots  BY VerificacaoAssumption
      <3>2. \A t \in Slots : pedido[t].canal \in Meios  BY <1>1 DEF Chamada, Meios
      <3>3. \A m \in Meios : recebidos[m] \subseteq recebidos'[m]  BY <2>2
      <3>4. DigitadoRecebido'
        BY <2>3, <3>1, <3>3 DEF VInv, DigitadoRecebido, Chamou
      <3>5. ProvaDePosse'
        BY <2>3, <3>1, <3>2, <3>3 DEF VInv, ProvaDePosse, Chamou
      <3> QED  BY <1>1, <2>3, <3>4, <3>5 DEF VInv, UsadoVerificado, CacheConfere, Chamou
    <2> QED  BY <2>5, <2>6, <2>7, <2>8, <2>9 DEF VInv
  <1>3. CASE Segue(s, "apagarEnvio") /\ UNCHANGED recebidos
    <2>1. "apagarEnvio" \in Ops \ {"enviar", "ler"}  BY DEF Ops
    <2> QED  BY <1>1, <1>3, <2>1, SoSegue DEF VInv, VerificacaoTypeOK, CacheConfere
  <1> QED  BY <1>2, <1>3 DEF Enviar


LEMMA PassoApagarEnvio ==
  ASSUME VInv, NEW s \in Slots, ApagarEnvio(s) PROVE VInv'
  <1>1. pedido' \in [Slots -> Chamada] /\ \A t \in Slots : pedido'[t] \in {pedido[t], Livre}
    BY LivreTipo DEF ApagarEnvio, VInv, VerificacaoTypeOK
  <1>2. UNCHANGED <<verificado, codigos, recebidos, cache>>  BY DEF ApagarEnvio
  <1>3. /\ desafio' \in [Canais -> Desafio \cup {Nulo}]
        /\ \A c \in Canais : desafio'[c] \in {desafio[c], Nulo}
    BY DEF ApagarEnvio, Delete, VInv, VerificacaoTypeOK
  <1>4. VerificacaoTypeOK'  BY <1>1, <1>2, <1>3 DEF VInv, VerificacaoTypeOK
  <1>5. \A t \in Slots : PodeSeguir(t)  BY <1>1 DEF PodeSeguir, Livre, Ops
  <1>6. cache' => verificado'["email"]  BY <1>2 DEF VInv, CacheConfere
  <1>7. SemCodigoNovo  BY <1>2, <1>3, <1>5, <1>6 DEF SemCodigoNovo
  <1> QED  BY <1>4, <1>7, PassoSemCodigo

\* What the application typed is the code of a challenge of the method "codigo",
\* which sent it nowhere but to the channel being confirmed.
LEMMA PassoLer ==
  ASSUME VInv, NEW s \in Slots, Ler(s) PROVE VInv'
  <1> DEFINE p == pedido[s]
             v == desafio[p.canal]
             op == Decisao(v, p)
  <1>1. /\ p \in Chamada /\ p.canal \in Canais /\ Chamou(s, "ler") /\ Segue(s, op)
        /\ UNCHANGED <<verificado, desafio, codigos, recebidos, cache>>
    BY DEF VInv, VerificacaoTypeOK, Chamada, Ler, verificacao
  <1>2. op \in {"recusado", "apagar", "marcar", "errou"}
    BY DEF Decisao
  <1>3. op = "marcar" =>
          v # Nulo /\ v.metodo = p.metodo /\ v.codigo = p.codigo
    BY DEF Decisao
  <1>4. op = "marcar" /\ s \in App => p.codigo \in recebidos[p.canal]
    <2> HAVE op = "marcar" /\ s \in App
    <2>1. v # Nulo /\ v.metodo = "codigo" /\ v.codigo = p.codigo
      BY <1>1, <1>3 DEF VInv, DigitadoRecebido
    <2>2. v \in Desafio
      BY <1>1, <2>1 DEF VInv, VerificacaoTypeOK
    <2>3. p.codigo # 0
      BY <2>1, <2>2, VerificacaoAssumption DEF Desafio
    <2>4. PICK m \in Meios : p.codigo \in recebidos[m]
      BY <1>1, <2>3 DEF VInv, DigitadoRecebido
    <2>5. m = p.canal
      BY <1>1, <2>1, <2>4 DEF VInv, CodigoNoDestino, Destino
    <2> QED  BY <2>4, <2>5
  <1>5. op \in Ops \ {"enviar", "ler"} /\ op # "apagarUsado"
    BY <1>2 DEF Ops
  <1> HIDE DEF op
  <1> QED  BY <1>1, <1>4, <1>5, SoSegue DEF VInv, VerificacaoTypeOK, CacheConfere

\* The failed attempt, and the challenges that go away.
LEMMA PassoErrou ==
  ASSUME VInv, NEW s \in Slots, Errou(s) PROVE VInv'
  <1> DEFINE canal == pedido[s].canal
             v == desafio[canal]
  <1>1. /\ canal \in Canais /\ UNCHANGED <<verificado, codigos, recebidos, cache>>
        /\ desafio \in [Canais -> Desafio \cup {Nulo}]
        /\ cache \in BOOLEAN /\ cache => verificado["email"]
        /\ verificado \in [Canais -> BOOLEAN]
    BY DEF VInv, VerificacaoTypeOK, CacheConfere, Chamada, Errou
  <1>2. PICK op \in {"recusado", "apagar"} : Segue(s, op)
    BY DEF Errou
  <1>3. op \in Ops \ {"enviar", "ler", "marcar", "apagarUsado"}
    BY <1>2 DEF Ops
  <1>4. CASE v = Nulo
    <2>1. desafio' = desafio  BY <1>4 DEF Errou
    <2>2. UNCHANGED verificacao  BY <1>1, <2>1 DEF verificacao
    <2> QED  BY <1>2, <1>3, <2>2, SegueIgual
  <1>5. CASE v # Nulo
    <2> DEFINE w == [v EXCEPT !.tentativas = @ + 1]
    <2>1. v \in Desafio  BY <1>1, <1>5
    <2>2. w \in Desafio /\ w.codigo = v.codigo /\ w.metodo = v.metodo
      BY <2>1 DEF Desafio
    <2>3. desafio' = [desafio EXCEPT ![canal] = w]
      BY <1>5 DEF Errou
    <2> HIDE DEF w
    <2>4. /\ desafio' \in [Canais -> Desafio \cup {Nulo}]
          /\ \A c \in Canais : desafio'[c] # Nulo =>
               /\ desafio[c] # Nulo
               /\ desafio'[c].codigo = desafio[c].codigo
               /\ desafio'[c].metodo = desafio[c].metodo
      BY <1>1, <1>5, <2>2, <2>3
    <2>5. /\ verificado' \in [Canais -> BOOLEAN]
          /\ \A c \in Canais : verificado[c] => verificado'[c]
      BY <1>1
    <2>6. cache' \in BOOLEAN /\ (cache' => verificado'["email"])
      <3>1. cache' = cache  BY <1>1
      <3>2. verificado' = verificado  BY <1>1
      <3>0. cache \in BOOLEAN  BY DEF VInv, VerificacaoTypeOK
      <3>3. cache' \in BOOLEAN  BY <3>0, <3>1
      <3> QED  BY <1>1, <3>1, <3>2, <3>3
    <2>7. codigos' = codigos /\ recebidos' = recebidos  BY <1>1
    <2>8. op \in Ops \ {"enviar", "ler"} /\ op # "marcar" /\ op # "apagarUsado"
      BY <1>3
    <2> QED  BY <1>2, <2>4, <2>5, <2>6, <2>7, <2>8, SoSegue
  <1> QED  BY <1>4, <1>5

LEMMA PassoApagar ==
  ASSUME VInv, NEW s \in Slots, Apagar(s) PROVE VInv'
  <1>1. "recusado" \in Ops \ {"enviar", "ler"}  BY DEF Ops
  <1>2. /\ Segue(s, "recusado") /\ UNCHANGED <<verificado, codigos, recebidos, cache>>
        /\ desafio' \in [Canais -> Desafio \cup {Nulo}]
        /\ \A c \in Canais : desafio'[c] \in {desafio[c], Nulo}
    BY DEF Apagar, Delete, VInv, VerificacaoTypeOK
  <1> QED  BY <1>1, <1>2, SoSegue DEF VInv, VerificacaoTypeOK, CacheConfere

LEMMA PassoMarcar ==
  ASSUME VInv, NEW s \in Slots, Marcar(s) PROVE VInv'
  <1>1. "apagarUsado" \in Ops \ {"enviar", "ler"}  BY DEF Ops
  <1>2. pedido[s].canal \in Canais /\ verificado \in [Canais -> BOOLEAN]
    BY DEF VInv, VerificacaoTypeOK, Chamada
  <1>3. /\ Segue(s, "apagarUsado") /\ UNCHANGED <<desafio, codigos, recebidos, cache>>
        /\ verificado' \in [Canais -> BOOLEAN] /\ verificado'[pedido[s].canal]
        /\ \A c \in Canais : verificado[c] => verificado'[c]
    BY <1>2 DEF Marcar
  <1>4. cache' => verificado'["email"]
    BY <1>3 DEF VInv, CacheConfere, Canais
  <1> QED  BY <1>1, <1>3, <1>4, SoSegue DEF VInv, VerificacaoTypeOK

LEMMA PassoApagarUsado ==
  ASSUME VInv, NEW s \in Slots,
         Chamou(s, "apagarUsado"), Segue(s, "confirmado"),
         cache' = (cache \/ pedido[s].canal = "email"),
         UNCHANGED <<verificado, codigos, recebidos>>,
         desafio' \in [Canais -> Desafio \cup {Nulo}],
         \A c \in Canais : desafio'[c] \in {desafio[c], Nulo}
  PROVE  VInv'
  <1>1. "confirmado" \in Ops \ {"enviar", "ler"}  BY DEF Ops
  <1>2. verificado[pedido[s].canal]  BY DEF VInv, UsadoVerificado
  <1>3. cache' \in BOOLEAN  BY DEF VInv, VerificacaoTypeOK
  <1>4. cache' => verificado'["email"]  BY <1>2 DEF VInv, CacheConfere
  <1> QED  BY <1>1, <1>3, <1>4, SoSegue DEF VInv, VerificacaoTypeOK

LEMMA PassoFalhar ==
  ASSUME VInv, NEW s \in Slots, Falhar(s) PROVE VInv'
  <1>0. \A op \in {"falhou", "recusado"} :
          op \in Ops \ {"enviar", "ler", "marcar", "apagarUsado"}
    BY DEF Ops
  <1>1. CASE Segue(s, "falhou") /\ UNCHANGED verificacao  BY <1>0, <1>1, SegueIgual
  <1>2. CASE Segue(s, "recusado") /\ UNCHANGED verificacao  BY <1>0, <1>2, SegueIgual
  <1>3. CASE /\ Chamou(s, "apagarUsado")
             /\ cache' = (cache \/ pedido[s].canal = "email")
             /\ Segue(s, "confirmado")
             /\ UNCHANGED <<verificado, desafio, codigos, recebidos>>
    <2>1. /\ UNCHANGED <<verificado, codigos, recebidos>>
          /\ desafio' \in [Canais -> Desafio \cup {Nulo}]
          /\ \A c \in Canais : desafio'[c] \in {desafio[c], Nulo}
      BY <1>3 DEF VInv, VerificacaoTypeOK
    <2> QED  BY <1>3, <2>1, PassoApagarUsado
  <1>4. CASE pedido' = [pedido EXCEPT ![s] = Livre] /\ UNCHANGED verificacao
    <2>1. /\ pedido' \in [Slots -> Chamada]
          /\ \A t \in Slots : pedido'[t] \in {pedido[t], Livre}
      BY <1>4, LivreTipo DEF VInv, VerificacaoTypeOK
    <2> QED  BY <1>4, <2>1, Liberam DEF verificacao
  <1> QED  BY <1>1, <1>2, <1>3, <1>4 DEF Falhar

LEMMA PassoResponder ==
  ASSUME VInv, NEW s \in Slots, pedido' = [pedido EXCEPT ![s] = Livre],
         UNCHANGED verificacao
  PROVE  VInv'
  <1>1. /\ pedido' \in [Slots -> Chamada]
        /\ \A t \in Slots : pedido'[t] \in {pedido[t], Livre}
    BY LivreTipo DEF VInv, VerificacaoTypeOK
  <1> QED  BY <1>1, Liberam DEF verificacao

LEMMA PassoIsVerified == ASSUME VInv, IsVerified PROVE VInv'
  <1>1. /\ UNCHANGED <<verificado, desafio, codigos, recebidos, pedido>>
        /\ cache' \in BOOLEAN /\ cache' => verificado'["email"]
    BY DEF IsVerified
  <1>2. VerificacaoTypeOK'
    <2>1. /\ verificado' \in [Canais -> BOOLEAN] /\ codigos' \in Codigo
          /\ desafio' \in [Canais -> Desafio \cup {Nulo}]
          /\ recebidos' \in [Meios -> SUBSET (1..MaxCodigos)]
          /\ pedido' \in [Slots -> Chamada]
      BY <1>1 DEF VInv, VerificacaoTypeOK
    <2>2. cache' = TRUE  BY DEF IsVerified
    <2>3. cache' \in BOOLEAN  BY <2>2
    <2> QED  BY <2>1, <2>3 DEF VerificacaoTypeOK
  <1>3. SemCodigoNovo  BY <1>1 DEF SemCodigoNovo, PodeSeguir
  <1> QED  BY <1>2, <1>3, PassoSemCodigo

LEMMA PassoPassaOTempo == ASSUME VInv, PassaOTempo PROVE VInv'
  <1>1. PICK canal \in Canais :
          /\ desafio[canal] # Nulo
          /\ desafio' = [desafio EXCEPT ![canal].recente = FALSE,
                                        ![canal].vencido = ~ desafio[canal].recente]
          /\ UNCHANGED <<verificado, codigos, recebidos, cache, pedido>>
    BY DEF PassaOTempo
  <1> DEFINE v == desafio[canal]
             w == [v EXCEPT !.recente = FALSE, !.vencido = ~ v.recente]
  <1>2. desafio \in [Canais -> Desafio \cup {Nulo}] /\ v \in Desafio
    BY <1>1 DEF VInv, VerificacaoTypeOK
  <1>3. w \in Desafio /\ w.codigo = v.codigo /\ w.metodo = v.metodo
    BY <1>2 DEF Desafio
  <1>4. desafio' = [desafio EXCEPT ![canal] = w]  BY <1>1, <1>2
  <1> HIDE DEF w
  <1>5. /\ desafio' \in [Canais -> Desafio \cup {Nulo}]
        /\ \A c \in Canais : desafio'[c] # Nulo =>
             /\ desafio[c] # Nulo
             /\ desafio'[c].codigo = desafio[c].codigo
             /\ desafio'[c].metodo = desafio[c].metodo
    BY <1>1, <1>2, <1>3, <1>4
  <1>6. VerificacaoTypeOK'  BY <1>1, <1>5 DEF VInv, VerificacaoTypeOK
  <1>7. SemCodigoNovo
    BY <1>1, <1>5 DEF SemCodigoNovo, PodeSeguir, VInv, CacheConfere
  <1> QED  BY <1>6, <1>7, PassoSemCodigo

LEMMA PassoConfirmacao ==
  ASSUME VInv, NEW s \in Slots, Confirmacao(s) PROVE VInv'
  <1>1. CASE ApagarUsado(s)
    BY <1>1, PassoApagarUsado DEF ApagarUsado, Delete, VInv, VerificacaoTypeOK
  <1> QED  BY <1>1, PassoLer, PassoErrou, PassoApagar, PassoMarcar DEF Confirmacao

LEMMA PassoNoApp ==
  ASSUME VInv, NoApp PROVE VInv'
  <1>1. CASE \E s \in App : PassoDoApp(s)
    <2>1. PICK s \in App : PassoDoApp(s)  BY <1>1
    <2>2. s \in Slots  BY VerificacaoAssumption
    <2>3. Responder(s) => VInv'  BY <2>2, PassoResponder DEF Responder
    <2> QED  BY <2>1, <2>2, <2>3, PassoStart, PassoSalvar, PassoEnviar, PassoApagarEnvio,
                PassoConfirm, PassoConfirmacao, PassoFalhar
             DEF PassoDoApp
  <1> QED  BY <1>1, PassoIsVerified, PassoPassaOTempo DEF NoApp

\* What is verified stays verified.
VerificadoFica == \A c \in Canais : verificado[c] => verificado'[c]

LEMMA ConfirmacaoFica ==
  ASSUME VInv, NEW s \in Slots, Confirmacao(s) PROVE VerificadoFica
  <1>1. verificado \in [Canais -> BOOLEAN]  BY DEF VInv, VerificacaoTypeOK
  <1> QED  BY <1>1 DEF Confirmacao, Ler, Errou, Apagar, Marcar, ApagarUsado, verificacao,
                       VerificadoFica

LEMMA FalharFica ==
  ASSUME NEW s \in Slots, Falhar(s) PROVE verificado' = verificado
  BY DEF Falhar, verificacao

LEMMA NoAppFica ==
  ASSUME VInv, NoApp PROVE VerificadoFica
  <1>1. CASE \E s \in App : PassoDoApp(s)
    <2>1. PICK s \in App : PassoDoApp(s)  BY <1>1
    <2>2. s \in Slots  BY VerificacaoAssumption
    <2>3. CASE Start(s) \/ Salvar(s) \/ Enviar(s) \/ ApagarEnvio(s) \/ Confirm(s)
      BY <2>3 DEF Start, Salvar, Enviar, ApagarEnvio, Confirm, verificacao, VerificadoFica
    <2>4. CASE Confirmacao(s)  BY <2>2, <2>4, ConfirmacaoFica
    <2>5. CASE Falhar(s) \/ Responder(s)
      BY <2>2, <2>5, FalharFica DEF Responder, verificacao, VerificadoFica
    <2> QED  BY <2>1, <2>3, <2>4, <2>5 DEF PassoDoApp
  <1>2. CASE IsVerified \/ PassaOTempo
    BY <1>2 DEF IsVerified, PassaOTempo, VerificadoFica
  <1> QED  BY <1>1, <1>2 DEF NoApp

-------------------------------------------------------------------------------
(* The deliveries *)

\* Where a delivery is in its batch.
Posicao ==
  \A d \in Entregas :
    /\ passo[d] \in {"processar", "confirmar", "gravar"} => pos[d] \in 1..Len(lote[d])
    /\ passo[d] = "livre" => pos[d] = 1
    /\ passo[d] = "ack" => pos[d] = Len(lote[d]) + 1

\* The messages a delivery left behind have a status.
Tratadas ==
  \A d \in Entregas : \A i \in 1..Len(lote[d]) :
    i < pos[d] => desfecho[lote[d][i]] # Nulo

\* What is delivered was written.
Escritas ==
  \A d \in Entregas : \A i \in 1..Len(lote[d]) : texto[lote[d][i]] # Nulo

\* The rows of each message, its replies and its status.
Registros ==
  \A m \in Mensagens :
    /\ registros[m] \in {0, 1}
    /\ aEnviar[m] + enviadas[m] <= registros[m]
    /\ desfecho[m] \in {"criada", "duplicada"} => registros[m] = 1

Exigido == (ExigeTelefone => verificado["telefone"]) /\ (ExigeEmail => verificado["email"])

\* A delivery that is about to register has seen what is required verified.
SoGravaVerificado == \A d \in Entregas : passo[d] = "gravar" => Exigido

Registrado == \A m \in Mensagens : registros[m] > 0 => Exigido

Confirmadas == \A m \in confirmadas : desfecho[m] # Nulo

WInv ==
  /\ TypeOK /\ VInv
  /\ Posicao /\ Tratadas /\ Escritas /\ Registros
  /\ SoGravaVerificado /\ Registrado /\ Confirmadas

LEMMA WInit == Init => WInv
  <1> SUFFICES ASSUME Init PROVE WInv  OBVIOUS
  <1>1. VInv /\ VerificacaoTypeOK  BY VInit DEF Init, VInv
  <1>2. TypeOK
    <2>1. \A d \in Entregas : lote[d] = <<>> /\ <<>> \in Seq(Mensagens)  BY DEF Init
    <2>2. lote \in [Entregas -> Seq(Mensagens)]  BY <2>1 DEF Init
    <2> QED  BY <1>1, <2>2, WebhookAssumption DEF Init, TypeOK, Passos
  <1>3. Posicao /\ Tratadas /\ Escritas /\ SoGravaVerificado
    BY DEF Init, Posicao, Tratadas, Escritas, SoGravaVerificado
  <1>4. Registros /\ Registrado /\ Confirmadas
    BY NuloAssumption DEF Init, Registros, Registrado, Confirmadas, Status
  <1> QED  BY <1>1, <1>2, <1>3, <1>4 DEF WInv

\* The steps of the verification alone.
LEMMA SoVerificacao ==
  ASSUME WInv, VInv', VerificadoFica, UNCHANGED webhook PROVE WInv'
  <1>1. TypeOK'  BY DEF WInv, VInv, TypeOK, webhook
  <1>2. Posicao' /\ Tratadas' /\ Escritas' /\ Registros' /\ Confirmadas'
    BY DEF WInv, Posicao, Tratadas, Escritas, Registros, Confirmadas, webhook
  <1>3. Exigido => Exigido'  BY DEF VerificadoFica, Exigido, Canais
  <1>4. SoGravaVerificado' /\ Registrado'
    BY <1>3 DEF WInv, SoGravaVerificado, Registrado, webhook
  <1> QED  BY <1>1, <1>2, <1>4 DEF WInv

\* A message has its status.
LEMMA PassoProxima ==
  ASSUME WInv, VInv', verificado' = verificado, NEW d \in Entregas, NEW status \in Status,
         passo[d] \in {"processar", "confirmar", "gravar"}, Proxima(d, status),
         UNCHANGED <<texto, confirmadas, lote, enviadas, falhas>>,
         registros' \in [Mensagens -> Nat], aEnviar' \in [Mensagens -> Nat],
         \A m \in Mensagens :
           /\ registros'[m] \in {0, 1} /\ registros'[m] >= registros[m]
           /\ aEnviar'[m] + enviadas[m] <= registros'[m],
         status \in {"criada", "duplicada"} => registros'[Mensagem(d)] = 1,
         Registrado'
  PROVE  WInv'
  <1> DEFINE n == Mensagem(d)
  <1>1. /\ lote[d] \in Seq(Mensagens) /\ pos[d] \in 1..Len(lote[d])
        /\ Len(lote[d]) \in Nat /\ n \in Mensagens /\ n = lote[d][pos[d]]
        /\ lote' = lote
    <2>1. lote[d] \in Seq(Mensagens)  BY DEF WInv, TypeOK
    <2>2. pos[d] \in 1..Len(lote[d])  BY DEF WInv, Posicao
    <2>3. lote[d][pos[d]] \in Mensagens /\ Len(lote[d]) \in Nat  BY <2>1, <2>2
    <2> QED  BY <2>1, <2>2, <2>3 DEF Mensagem
  <1>2. /\ desfecho' = [desfecho EXCEPT ![n] = status]
        /\ pos' = [pos EXCEPT ![d] = pos[d] + 1]
        /\ passo' = [passo EXCEPT ![d] = IF pos[d] = Len(lote[d]) THEN "ack" ELSE "processar"]
    BY DEF Proxima, Vai
  <1>3. /\ desfecho \in [Mensagens -> Status \cup {Nulo}]
        /\ pos \in [Entregas -> Nat] /\ passo \in [Entregas -> Passos]
    BY DEF WInv, TypeOK
  <1> HIDE DEF n
  <1>4. TypeOK'
    <2>1. /\ desfecho' \in [Mensagens -> Status \cup {Nulo}]
          /\ pos' \in [Entregas -> Nat] /\ passo' \in [Entregas -> Passos]
      BY <1>1, <1>2, <1>3 DEF Passos
    <2> QED  BY <2>1 DEF WInv, VInv, TypeOK
  <1>5. Posicao'
    BY <1>1, <1>2, <1>3 DEF WInv, Posicao
  <1>6. \A m \in Mensagens : desfecho[m] # Nulo \/ m = n => desfecho'[m] # Nulo
    BY <1>1, <1>2, <1>3, NuloAssumption
  <1>7. Tratadas'
    <2> SUFFICES ASSUME NEW e \in Entregas, NEW i \in 1..Len(lote[e]), i < pos'[e]
                 PROVE  desfecho'[lote[e][i]] # Nulo
      BY <1>1 DEF Tratadas
    <2>1. lote[e] \in Seq(Mensagens) /\ lote[e][i] \in Mensagens
      BY DEF WInv, TypeOK
    <2>2. CASE i < pos[e]  BY <1>6, <2>1, <2>2 DEF WInv, Tratadas
    <2>3. CASE ~ (i < pos[e])
      <3>1. e = d /\ i = pos[d]  BY <1>1, <1>2, <1>3, <2>3
      <3> QED  BY <1>1, <1>6, <2>1, <3>1
    <2> QED  BY <2>2, <2>3
  <1>8. Registros'
    <2> SUFFICES ASSUME NEW m \in Mensagens, desfecho'[m] \in {"criada", "duplicada"}
                 PROVE  registros'[m] = 1
      BY DEF Registros
    <2>1. CASE m = n  BY <1>1, <1>2, <1>3, <2>1 DEF n
    <2>2. CASE m # n
      <3>1. desfecho'[m] = desfecho[m]  BY <1>1, <1>2, <1>3, <2>2
      <3>2. registros[m] = 1  BY <3>1 DEF WInv, Registros
      <3> QED  BY <3>2
    <2> QED  BY <2>1, <2>2
  <1>9. SoGravaVerificado' /\ Confirmadas'
    <2>1. Exigido' = Exigido  BY DEF Exigido
    <2>2. \A e \in Entregas : passo'[e] = "gravar" => passo[e] = "gravar"
      BY <1>2, <1>3
    <2>3. confirmadas \subseteq Mensagens /\ confirmadas' = confirmadas
      BY DEF WInv, TypeOK
    <2> QED  BY <1>6, <2>1, <2>2, <2>3 DEF WInv, SoGravaVerificado, Confirmadas
  <1>10. Escritas'  BY DEF WInv, Escritas
  <1> QED  BY <1>4, <1>5, <1>7, <1>8, <1>9, <1>10 DEF WInv

\* A delivery is over, dealt with or not.
LEMMA PassoEncerra ==
  ASSUME WInv, VInv', verificado' = verificado, NEW d \in Entregas, Encerra(d),
         UNCHANGED <<texto, aEnviar, enviadas, desfecho>>, falhas' \in 0..MaxFalhas,
         registros' \in [Mensagens -> Nat],
         \A m \in Mensagens : registros'[m] \in {0, 1} /\ registros'[m] >= registros[m],
         Registrado',
         \A m \in confirmadas' : m \in Mensagens /\ desfecho[m] # Nulo
  PROVE  WInv'
  <1>1. /\ passo' = [passo EXCEPT ![d] = "livre"] /\ lote' = [lote EXCEPT ![d] = <<>>]
        /\ pos' = [pos EXCEPT ![d] = 1]
    BY DEF Encerra, Vai
  <1>2. /\ pos \in [Entregas -> Nat] /\ passo \in [Entregas -> Passos]
        /\ lote \in [Entregas -> Seq(Mensagens)] /\ <<>> \in Seq(Mensagens) /\ Len(<<>>) = 0
    BY DEF WInv, TypeOK
  <1>3. /\ passo'[d] = "livre" /\ lote'[d] = <<>> /\ pos'[d] = 1
        /\ \A e \in Entregas \ {d} : passo'[e] = passo[e] /\ lote'[e] = lote[e] /\ pos'[e] = pos[e]
    BY <1>1, <1>2
  <1>4. TypeOK'
    <2>1. /\ pos' \in [Entregas -> Nat] /\ passo' \in [Entregas -> Passos]
          /\ lote' \in [Entregas -> Seq(Mensagens)]
      BY <1>1, <1>2 DEF Passos
    <2> QED  BY <2>1 DEF WInv, VInv, TypeOK
  <1>5. Posicao'  BY <1>3 DEF WInv, Posicao
  <1>6. Tratadas'
    <2> SUFFICES ASSUME NEW e \in Entregas, NEW i \in 1..Len(lote'[e]), i < pos'[e]
                 PROVE  desfecho[lote'[e][i]] # Nulo
      BY DEF Tratadas
    <2>1. CASE e = d  BY <1>2, <1>3, <2>1
    <2>2. CASE e # d  BY <1>3, <2>2 DEF WInv, Tratadas
    <2> QED  BY <2>1, <2>2
  <1>7. Registros'
    <2> SUFFICES ASSUME NEW m \in Mensagens
                 PROVE  /\ aEnviar[m] + enviadas[m] <= registros'[m]
                        /\ desfecho[m] \in {"criada", "duplicada"} => registros'[m] = 1
      BY DEF Registros
    <2>1. /\ aEnviar[m] \in Nat /\ enviadas[m] \in Nat /\ registros[m] \in Nat
          /\ registros'[m] \in Nat
      BY DEF WInv, TypeOK
    <2> QED  BY <2>1 DEF WInv, Registros
  <1>8. SoGravaVerificado' /\ Confirmadas'
    BY <1>3 DEF WInv, SoGravaVerificado, Confirmadas, Exigido
  <1>9. Escritas'
    <2> SUFFICES ASSUME NEW e \in Entregas, NEW i \in 1..Len(lote'[e])
                 PROVE  texto[lote'[e][i]] # Nulo
      BY DEF Escritas
    <2>1. CASE e = d  BY <1>2, <1>3, <2>1
    <2>2. CASE e # d  BY <1>3, <2>2 DEF WInv, Escritas
    <2> QED  BY <2>1, <2>2
  <1> QED  BY <1>4, <1>5, <1>6, <1>7, <1>8, <1>9 DEF WInv

\* A delivery changes only what it does next.
LEMMA PassoVai ==
  ASSUME WInv, VInv', VerificadoFica, NEW d \in Entregas, NEW p \in Passos \ {"livre", "ack"},
         passo[d] = "processar", Vai(d, p),
         p = "gravar" => Exigido,
         UNCHANGED <<texto, confirmadas, lote, pos, registros, aEnviar, enviadas, desfecho,
                     falhas>>
  PROVE  WInv'
  <1>1. passo \in [Entregas -> Passos] /\ passo' = [passo EXCEPT ![d] = p]
    BY DEF WInv, TypeOK, Vai
  <1>2. TypeOK'
    <2>1. passo' \in [Entregas -> Passos]  BY <1>1
    <2> QED  BY <2>1 DEF WInv, VInv, TypeOK
  <1>3. passo'[d] = p /\ \A e \in Entregas \ {d} : passo'[e] = passo[e]  BY <1>1
  <1>4. Posicao'  BY <1>3 DEF WInv, Posicao, Passos
  <1>5. Tratadas' /\ Escritas' /\ Registros' /\ Confirmadas'
    BY DEF WInv, Tratadas, Escritas, Registros, Confirmadas
  <1>6. Exigido => Exigido'  BY DEF VerificadoFica, Exigido, Canais
  <1>7. SoGravaVerificado' /\ Registrado'
    BY <1>3, <1>6 DEF WInv, SoGravaVerificado, Registrado
  <1> QED  BY <1>2, <1>4, <1>5, <1>7 DEF WInv

\* The tables of the verification do not change, nor do the requests.
LEMMA Igual ==
  ASSUME VInv, UNCHANGED verificacao, UNCHANGED pedido PROVE VInv' /\ VerificadoFica
  <1>1. /\ pedido' \in [Slots -> Chamada]
        /\ \A t \in Slots : pedido'[t] \in {pedido[t], Livre}
    BY DEF VInv, VerificacaoTypeOK
  <1>2. VInv'  BY <1>1, Liberam DEF verificacao
  <1>3. VerificadoFica  BY DEF verificacao, VerificadoFica
  <1> QED  BY <1>2, <1>3

\* A message has its status, and no row comes of it.
LEMMA ProximaSemRegistro ==
  ASSUME WInv, VInv', verificado' = verificado, NEW d \in Entregas,
         NEW status \in Status \ {"criada", "duplicada"},
         passo[d] \in {"processar", "confirmar", "gravar"}, Proxima(d, status),
         UNCHANGED <<texto, confirmadas, lote, registros, aEnviar, enviadas, falhas>>
  PROVE  WInv'
  <1>1. registros' \in [Mensagens -> Nat] /\ aEnviar' \in [Mensagens -> Nat]
    BY DEF WInv, TypeOK
  <1>2. \A m \in Mensagens :
           /\ registros'[m] \in {0, 1} /\ registros'[m] >= registros[m]
           /\ aEnviar'[m] + enviadas[m] <= registros'[m]
    BY DEF WInv, Registros
  <1>3. Registrado'  BY DEF WInv, Registrado, Exigido
  <1> QED  BY <1>1, <1>2, <1>3, PassoProxima

LEMMA TextoDaMensagem ==
  ASSUME WInv, NEW d \in Entregas, passo[d] \in {"processar", "confirmar", "gravar"}
  PROVE  Mensagem(d) \in Mensagens
  <1>1. lote[d] \in Seq(Mensagens)  BY DEF WInv, TypeOK
  <1>2. pos[d] \in 1..Len(lote[d])  BY DEF WInv, Posicao
  <1> QED  BY <1>1, <1>2 DEF Mensagem

LEMMA PassoProcessarCodigo ==
  ASSUME WInv, NEW d \in Entregas, ProcessarCodigo(d), texto[Mensagem(d)] # Nulo PROVE WInv'
  <1> DEFINE t == texto[Mensagem(d)]
             p == [op |-> "ler", canal |-> "telefone", metodo |-> "mensagem",
                   codigo |-> t.codigo]
  <1>1. /\ passo[d] = "processar" /\ UNCHANGED verificacao
        /\ UNCHANGED <<texto, confirmadas, lote, registros, aEnviar, enviadas, falhas>>
    BY DEF ProcessarCodigo, Esta
  <1>2. CASE Proxima(d, "ignorada") /\ UNCHANGED pedido
    <2>1. VInv' /\ verificado' = verificado  BY <1>1, <1>2, Igual DEF WInv, verificacao
    <2> QED  BY <1>1, <1>2, <2>1, ProximaSemRegistro DEF Status
  <1>3. CASE Pede(d, p) /\ Vai(d, "confirmar") /\ UNCHANGED <<desfecho, pos>>
    <2>1. t \in Texto  BY <1>1, TextoDaMensagem DEF WInv, TypeOK
    <2>2. p \in Chamada /\ p.op = "ler"
      BY <2>1 DEF Texto, Chamada, Ops, Canais, Metodos
    <2>3. d \in Slots /\ d \notin App  BY DEF Entregas
    <2>4. pedido' = [pedido EXCEPT ![d] = p]  BY <1>3 DEF Pede
    <2> HIDE DEF p
    <2>5. VInv'  BY <1>1, <2>2, <2>3, <2>4, Recebe DEF WInv
    <2>6. VerificadoFica  BY <1>1 DEF VerificadoFica, verificacao
    <2> QED  BY <1>1, <1>3, <2>5, <2>6, PassoVai DEF Passos
  <1> QED  BY <1>2, <1>3 DEF ProcessarCodigo

LEMMA RecusaConfere == Recusa = Nulo => Exigido
  BY NuloAssumption, WebhookAssumption DEF Recusa, Exigido, Status

LEMMA PassoProcessar ==
  ASSUME WInv, NEW d \in Entregas, Processar(d) PROVE WInv'
  <1>1. /\ passo[d] = "processar" /\ UNCHANGED verificacao /\ UNCHANGED pedido
        /\ UNCHANGED <<texto, confirmadas, lote, registros, aEnviar, enviadas, falhas>>
    BY DEF Processar, Esta
  <1>2. VInv' /\ verificado' = verificado /\ VerificadoFica
    BY <1>1, Igual DEF WInv, verificacao
  <1>3. CASE Recusa # Nulo /\ Proxima(d, Recusa)
    <2>1. Recusa \in Status \ {"criada", "duplicada"}  BY <1>3 DEF Recusa, Status
    <2> QED  BY <1>1, <1>2, <1>3, <2>1, ProximaSemRegistro
  <1>4. CASE Proxima(d, "nao_interpretada")
    BY <1>1, <1>2, <1>4, ProximaSemRegistro DEF Status
  <1>5. CASE Recusa = Nulo /\ Vai(d, "gravar") /\ UNCHANGED <<desfecho, pos>>
    BY <1>1, <1>2, <1>5, RecusaConfere, PassoVai DEF Passos
  <1> QED  BY <1>3, <1>4, <1>5 DEF Processar

LEMMA PassoConfirmou ==
  ASSUME WInv, NEW d \in Entregas, Confirmou(d) PROVE WInv'
  <1>1. /\ passo[d] = "confirmar" /\ UNCHANGED verificacao
        /\ pedido' = [pedido EXCEPT ![d] = Livre]
        /\ UNCHANGED <<texto, confirmadas, lote, registros, aEnviar, enviadas, falhas>>
    BY DEF Confirmou, Esta
  <1>2. VInv' /\ verificado' = verificado
    BY <1>1, PassoResponder DEF WInv, verificacao, Entregas
  <1>3. CASE Proxima(d, "verificacao_confirmada")
    BY <1>1, <1>2, <1>3, ProximaSemRegistro DEF Status
  <1>4. CASE Proxima(d, "verificacao_invalida")
    BY <1>1, <1>2, <1>4, ProximaSemRegistro DEF Status
  <1> QED  BY <1>3, <1>4 DEF Confirmou

LEMMA PassoGravar ==
  ASSUME WInv, NEW d \in Entregas, Gravar(d) PROVE WInv'
  <1> DEFINE m == Mensagem(d)
  <1>1. /\ passo[d] = "gravar" /\ UNCHANGED verificacao /\ UNCHANGED pedido
        /\ UNCHANGED <<texto, confirmadas, lote, enviadas, falhas>>
    BY DEF Gravar, Esta
  <1>2. VInv' /\ verificado' = verificado  BY <1>1, Igual DEF WInv, verificacao
  <1>3. m \in Mensagens  BY <1>1, TextoDaMensagem
  <1>4. /\ registros \in [Mensagens -> Nat] /\ aEnviar \in [Mensagens -> Nat]
        /\ enviadas \in [Mensagens -> Nat]
    BY DEF WInv, TypeOK
  <1>5. Exigido /\ Exigido'
    BY <1>1, <1>2 DEF WInv, SoGravaVerificado, Exigido
  <1>6. Registrado'  BY <1>5 DEF Registrado
  <1>7. "criada" \in Status /\ "duplicada" \in Status  BY DEF Status
  <1>8. CASE registros[m] > 0
    <2>1. Proxima(d, "duplicada") /\ UNCHANGED <<registros, aEnviar>>
      BY <1>8 DEF Gravar
    <2>2. registros[m] = 1  BY <1>3, <1>8 DEF WInv, Registros
    <2>3. \A n \in Mensagens :
            /\ registros'[n] \in {0, 1} /\ registros'[n] >= registros[n]
            /\ aEnviar'[n] + enviadas[n] <= registros'[n]
      BY <2>1 DEF WInv, Registros
    <2> QED  BY <1>1, <1>2, <1>4, <1>6, <1>7, <2>1, <2>2, <2>3, PassoProxima
  <1>9. CASE ~ (registros[m] > 0)
    <2>1. /\ Proxima(d, "criada")
          /\ registros' = [registros EXCEPT ![m] = registros[m] + 1]
          /\ aEnviar' = [aEnviar EXCEPT ![m] = aEnviar[m] + 1]
      BY <1>9 DEF Gravar
    <2>2. registros[m] = 0  BY <1>3, <1>9 DEF WInv, Registros
    <2>3. registros' \in [Mensagens -> Nat] /\ aEnviar' \in [Mensagens -> Nat]
      BY <1>3, <1>4, <2>1
    <2>4. /\ registros'[m] = 1 /\ aEnviar'[m] = aEnviar[m] + 1
          /\ \A n \in Mensagens \ {m} : registros'[n] = registros[n] /\ aEnviar'[n] = aEnviar[n]
      BY <1>3, <1>4, <2>1, <2>2
    <2> HIDE DEF m
    <2>5. \A n \in Mensagens :
            /\ registros'[n] \in {0, 1} /\ registros'[n] >= registros[n]
            /\ aEnviar'[n] + enviadas[n] <= registros'[n]
      <3> SUFFICES ASSUME NEW n \in Mensagens
                   PROVE  /\ registros'[n] \in {0, 1} /\ registros'[n] >= registros[n]
                          /\ aEnviar'[n] + enviadas[n] <= registros'[n]
        OBVIOUS
      <3>1. aEnviar[n] + enviadas[n] <= registros[n] /\ registros[n] \in {0, 1}
        BY DEF WInv, Registros
      <3>2. aEnviar[n] \in Nat /\ enviadas[n] \in Nat  BY <1>4
      <3>3. CASE n = m  BY <2>2, <2>4, <3>1, <3>2, <3>3
      <3>4. CASE n # m  BY <2>4, <3>1, <3>4
      <3> QED  BY <3>3, <3>4
    <2>6. registros'[Mensagem(d)] = 1  BY <2>4 DEF m
    <2> QED  BY <1>1, <1>2, <1>6, <1>7, <2>1, <2>3, <2>5, <2>6, PassoProxima
  <1> QED  BY <1>8, <1>9

-------------------------------------------------------------------------------
(* The end of a delivery *)

LEMMA EncerraSemRegistro ==
  ASSUME WInv, VInv', verificado' = verificado, NEW d \in Entregas, Encerra(d),
         UNCHANGED <<texto, confirmadas, registros, aEnviar, enviadas, desfecho>>,
         falhas' \in 0..MaxFalhas
  PROVE  WInv'
  <1>1. registros' \in [Mensagens -> Nat]  BY DEF WInv, TypeOK
  <1>2. \A m \in Mensagens : registros'[m] \in {0, 1} /\ registros'[m] >= registros[m]
    BY DEF WInv, Registros
  <1>3. Registrado'  BY DEF WInv, Registrado, Exigido
  <1>4. \A m \in confirmadas' : m \in Mensagens /\ desfecho[m] # Nulo
    BY DEF WInv, TypeOK, Confirmadas
  <1> QED  BY <1>1, <1>2, <1>3, <1>4, PassoEncerra

LEMMA FalhaConta ==
  ASSUME WInv PROVE falhas \in 0..MaxFalhas /\ (Falha => falhas' \in 0..MaxFalhas)
  BY WebhookAssumption DEF WInv, TypeOK, Falha

LEMMA PassoErro500 ==
  ASSUME WInv, NEW d \in Entregas, Erro500(d), falhas' \in 0..MaxFalhas PROVE WInv'
  <1>1. VInv' /\ verificado' = verificado
    BY PassoResponder DEF WInv, Erro500, Entregas, verificacao
  <1> QED  BY <1>1, EncerraSemRegistro DEF Erro500

\* 200: the whole batch is behind the delivery.
LEMMA PassoAck ==
  ASSUME WInv, NEW d \in Entregas, Ack(d) PROVE WInv'
  <1>1. VInv' /\ verificado' = verificado  BY Igual DEF WInv, Ack, verificacao
  <1>2. falhas' \in 0..MaxFalhas /\ registros' \in [Mensagens -> Nat]
    BY FalhaConta DEF WInv, TypeOK, Ack
  <1>3. \A m \in Mensagens : registros'[m] \in {0, 1} /\ registros'[m] >= registros[m]
    BY DEF WInv, Registros, Ack
  <1>4. Registrado'  BY <1>1 DEF WInv, Registrado, Exigido, Ack
  <1>5. \A m \in confirmadas' : m \in Mensagens /\ desfecho[m] # Nulo
    <2> SUFFICES ASSUME NEW m \in confirmadas' PROVE m \in Mensagens /\ desfecho[m] # Nulo
      OBVIOUS
    <2>1. CASE m \in confirmadas  BY <2>1 DEF WInv, TypeOK, Confirmadas
    <2>2. CASE m \in Range(lote[d])
      <3>1. lote[d] \in Seq(Mensagens)  BY DEF WInv, TypeOK
      <3>2. PICK i \in 1..Len(lote[d]) : m = lote[d][i]
        BY <2>2, <3>1 DEF Range
      <3>3. pos[d] = Len(lote[d]) + 1  BY DEF WInv, Posicao, Ack, Esta
      <3>4. i < pos[d]  BY <3>1, <3>3
      <3> QED  BY <3>1, <3>2, <3>4 DEF WInv, Tratadas
    <2> QED  BY <2>1, <2>2 DEF Ack
  <1> QED  BY <1>1, <1>2, <1>3, <1>4, <1>5, PassoEncerra DEF Ack

LEMMA PassoGravarSemResposta ==
  ASSUME WInv, NEW d \in Entregas, GravarSemResposta(d) PROVE WInv'
  <1> DEFINE m == Mensagem(d)
  <1>1. /\ passo[d] = "gravar" /\ registros[m] = 0 /\ Encerra(d)
        /\ registros' = [registros EXCEPT ![m] = registros[m] + 1]
        /\ UNCHANGED <<texto, confirmadas, aEnviar, enviadas, desfecho>>
    BY DEF GravarSemResposta, Esta
  <1>2. VInv' /\ verificado' = verificado
    BY Igual DEF WInv, GravarSemResposta, verificacao
  <1>3. m \in Mensagens  BY <1>1, TextoDaMensagem
  <1>4. falhas' \in 0..MaxFalhas  BY FalhaConta DEF GravarSemResposta
  <1>5. registros \in [Mensagens -> Nat]  BY DEF WInv, TypeOK
  <1>6. /\ registros'[m] = 1 /\ registros' \in [Mensagens -> Nat]
        /\ \A n \in Mensagens \ {m} : registros'[n] = registros[n]
    BY <1>1, <1>3, <1>5
  <1>7. \A n \in Mensagens : registros'[n] \in {0, 1} /\ registros'[n] >= registros[n]
    BY <1>1, <1>6 DEF WInv, Registros
  <1>8. Registrado'
    BY <1>1, <1>2 DEF WInv, SoGravaVerificado, Exigido, Registrado
  <1>9. \A n \in confirmadas' : n \in Mensagens /\ desfecho[n] # Nulo
    BY <1>1 DEF WInv, TypeOK, Confirmadas
  <1> QED  BY <1>1, <1>2, <1>4, <1>6, <1>7, <1>8, <1>9, PassoEncerra

\* The provider posts messages that were written and that it has no 200 for.
LEMMA PassoEntregar ==
  ASSUME WInv, NEW d \in Entregas, NEW ms \in Lotes, Entregar(d, ms) PROVE WInv'
  <1>1. VInv' /\ verificado' = verificado  BY Igual DEF WInv, Entregar, verificacao
  <1>2. /\ lote' = [lote EXCEPT ![d] = ms] /\ passo' = [passo EXCEPT ![d] = "processar"]
        /\ UNCHANGED <<texto, confirmadas, pos, registros, aEnviar, enviadas, desfecho, falhas>>
        /\ passo[d] = "livre" /\ Range(ms) \subseteq Pendentes
    BY DEF Entregar, Vai, Esta
  <1>3. ms \in Seq(Mensagens) /\ Len(ms) \in Nat \ {0}
    <2>1. Cardinality(Mensagens) \in Nat  BY WebhookAssumption, FS_CardinalityType
    <2>2. PICK n \in 1..Cardinality(Mensagens) : ms \in [1..n -> Mensagens]  BY DEF Lotes
    <2>3. n \in Nat \ {0}  BY <2>1
    <2> QED  BY <2>2, <2>3
  <1>4. lote \in [Entregas -> Seq(Mensagens)] /\ passo \in [Entregas -> Passos]
    BY DEF WInv, TypeOK
  <1>5. /\ lote'[d] = ms /\ passo'[d] = "processar"
        /\ \A e \in Entregas \ {d} : lote'[e] = lote[e] /\ passo'[e] = passo[e]
        /\ lote' \in [Entregas -> Seq(Mensagens)] /\ passo' \in [Entregas -> Passos]
    BY <1>2, <1>3, <1>4 DEF Passos
  <1>6. TypeOK'  BY <1>1, <1>2, <1>5 DEF WInv, VInv, TypeOK
  <1>7. pos[d] = 1  BY <1>2 DEF WInv, Posicao
  <1>8. Posicao'  BY <1>2, <1>3, <1>5, <1>7 DEF WInv, Posicao
  <1>9. Tratadas'
    <2> SUFFICES ASSUME NEW e \in Entregas, NEW i \in 1..Len(lote'[e]), i < pos[e]
                 PROVE  desfecho[lote'[e][i]] # Nulo
      BY <1>2 DEF Tratadas
    <2>1. CASE e = d  BY <1>3, <1>5, <1>7, <2>1
    <2>2. CASE e # d  BY <1>5, <2>2 DEF WInv, Tratadas
    <2> QED  BY <2>1, <2>2
  <1>10. Escritas'
    <2> SUFFICES ASSUME NEW e \in Entregas, NEW i \in 1..Len(lote'[e])
                 PROVE  texto[lote'[e][i]] # Nulo
      BY <1>2 DEF Escritas
    <2>1. CASE e = d
      <3>1. ms[i] \in Range(ms)  BY <1>3, <1>5, <2>1 DEF Range
      <3> QED  BY <1>2, <1>5, <2>1, <3>1 DEF Pendentes
    <2>2. CASE e # d  BY <1>5, <2>2 DEF WInv, Escritas
    <2> QED  BY <2>1, <2>2
  <1>11. Registros' /\ Registrado' /\ Confirmadas'
    BY <1>1, <1>2 DEF WInv, Registros, Registrado, Confirmadas, Exigido
  <1>12. SoGravaVerificado'  BY <1>1, <1>5 DEF WInv, SoGravaVerificado, Exigido
  <1> QED  BY <1>1, <1>6, <1>8, <1>9, <1>10, <1>11, <1>12 DEF WInv

LEMMA PassoEscrever ==
  ASSUME WInv, NEW m \in Mensagens, Escrever(m) PROVE WInv'
  <1>1. PICK t \in Texto : texto' = [texto EXCEPT ![m] = t]  BY DEF Escrever
  <1>2. /\ UNCHANGED verificacao /\ UNCHANGED pedido
        /\ UNCHANGED <<confirmadas, lote, pos, passo, registros, aEnviar, enviadas, desfecho,
                       falhas>>
    BY DEF Escrever
  <1>3. VInv' /\ verificado' = verificado  BY <1>2, Igual DEF WInv, verificacao
  <1>4. texto \in [Mensagens -> Texto \cup {Nulo}]  BY DEF WInv, TypeOK
  <1>5. TypeOK'
    <2>1. texto' \in [Mensagens -> Texto \cup {Nulo}]  BY <1>1, <1>4
    <2> QED  BY <1>2, <1>3, <2>1 DEF WInv, VInv, TypeOK
  <1>6. Escritas'
    <2> SUFFICES ASSUME NEW e \in Entregas, NEW i \in 1..Len(lote[e])
                 PROVE  texto'[lote[e][i]] # Nulo
      BY <1>2 DEF Escritas
    <2>1. lote[e] \in Seq(Mensagens) /\ lote[e][i] \in Mensagens  BY DEF WInv, TypeOK
    <2>2. texto[lote[e][i]] # Nulo  BY DEF WInv, Escritas
    <2>3. texto[m] = Nulo  BY DEF Escrever
    <2> QED  BY <1>1, <1>4, <2>1, <2>2, <2>3
  <1>7. Posicao' /\ Tratadas' /\ Registros' /\ Confirmadas'
    BY <1>2 DEF WInv, Posicao, Tratadas, Registros, Confirmadas
  <1>8. SoGravaVerificado' /\ Registrado'
    BY <1>2, <1>3 DEF WInv, SoGravaVerificado, Registrado, Exigido
  <1> QED  BY <1>3, <1>5, <1>6, <1>7, <1>8 DEF WInv

LEMMA PassoEnviarResposta ==
  ASSUME WInv, NEW m \in Mensagens, EnviarResposta(m) PROVE WInv'
  <1>1. /\ aEnviar[m] > 0 /\ aEnviar' = [aEnviar EXCEPT ![m] = aEnviar[m] - 1]
        /\ \/ enviadas' = [enviadas EXCEPT ![m] = enviadas[m] + 1]
           \/ enviadas' = enviadas
        /\ UNCHANGED verificacao /\ UNCHANGED pedido
        /\ UNCHANGED <<texto, confirmadas, lote, pos, passo, registros, desfecho, falhas>>
    BY DEF EnviarResposta
  <1>2. VInv' /\ verificado' = verificado  BY <1>1, Igual DEF WInv, verificacao
  <1>3. /\ aEnviar \in [Mensagens -> Nat] /\ enviadas \in [Mensagens -> Nat]
        /\ registros \in [Mensagens -> Nat]
    BY DEF WInv, TypeOK
  <1>4. /\ aEnviar' \in [Mensagens -> Nat] /\ enviadas' \in [Mensagens -> Nat]
        /\ \A n \in Mensagens : aEnviar'[n] + enviadas'[n] <= aEnviar[n] + enviadas[n]
    <2>1. aEnviar[m] \in Nat /\ enviadas[m] \in Nat /\ aEnviar[m] - 1 \in Nat
      BY <1>1, <1>3
    <2>2. CASE enviadas' = enviadas
      <3>1. aEnviar' \in [Mensagens -> Nat]  BY <1>1, <1>3, <2>1
      <3>2. \A n \in Mensagens : aEnviar'[n] <= aEnviar[n]
        BY <1>1, <1>3, <2>1
      <3> QED  BY <1>3, <2>2, <3>1, <3>2
    <2>3. CASE enviadas' = [enviadas EXCEPT ![m] = enviadas[m] + 1]
      <3>1. aEnviar' \in [Mensagens -> Nat] /\ enviadas' \in [Mensagens -> Nat]
        BY <1>1, <1>3, <2>1, <2>3
      <3>2. aEnviar'[m] = aEnviar[m] - 1 /\ enviadas'[m] = enviadas[m] + 1
        BY <1>1, <1>3, <2>3
      <3>3. \A n \in Mensagens \ {m} : aEnviar'[n] = aEnviar[n] /\ enviadas'[n] = enviadas[n]
        BY <1>1, <1>3, <2>3
      <3>4. aEnviar'[m] + enviadas'[m] = aEnviar[m] + enviadas[m]  BY <2>1, <3>2
      <3>5. \A n \in Mensagens : aEnviar[n] \in Nat /\ enviadas[n] \in Nat  BY <1>3
      <3> QED  BY <3>1, <3>3, <3>4, <3>5
    <2> QED  BY <1>1, <2>2, <2>3
  <1>5. TypeOK'  BY <1>1, <1>2, <1>4 DEF WInv, VInv, TypeOK
  <1>6. Registros'
    <2> SUFFICES ASSUME NEW n \in Mensagens
                 PROVE  /\ aEnviar'[n] + enviadas'[n] <= registros[n]
                        /\ registros[n] \in {0, 1}
                        /\ desfecho[n] \in {"criada", "duplicada"} => registros[n] = 1
      BY <1>1 DEF Registros
    <2>1. /\ aEnviar[n] \in Nat /\ enviadas[n] \in Nat /\ registros[n] \in Nat
          /\ aEnviar'[n] \in Nat /\ enviadas'[n] \in Nat
      BY <1>3, <1>4
    <2>2. /\ aEnviar[n] + enviadas[n] <= registros[n] /\ registros[n] \in {0, 1}
          /\ desfecho[n] \in {"criada", "duplicada"} => registros[n] = 1
      BY DEF WInv, Registros
    <2>3. aEnviar'[n] + enviadas'[n] <= aEnviar[n] + enviadas[n]  BY <1>4
    <2> QED  BY <2>1, <2>2, <2>3
  <1>7. Posicao' /\ Tratadas' /\ Escritas' /\ Confirmadas'
    BY <1>1 DEF WInv, Posicao, Tratadas, Escritas, Confirmadas
  <1>8. SoGravaVerificado' /\ Registrado'
    BY <1>1, <1>2 DEF WInv, SoGravaVerificado, Registrado, Exigido
  <1> QED  BY <1>2, <1>5, <1>6, <1>7, <1>8 DEF WInv

\* The rows, the statuses and what was sent outlive the fall of the server.
LEMMA PassoCair ==
  ASSUME WInv, Cair PROVE WInv'
  <1>1. /\ pedido' \in [Slots -> Chamada] /\ \A t \in Slots : pedido'[t] \in {pedido[t], Livre}
        /\ cache' \in {cache, FALSE} /\ UNCHANGED <<verificado, desafio, codigos, recebidos>>
    BY LivreTipo DEF Cair
  <1>2. VInv'  BY <1>1, Liberam DEF WInv
  <1>3. /\ lote' = [e \in Entregas |-> <<>>] /\ pos' = [e \in Entregas |-> 1]
        /\ passo' = [e \in Entregas |-> "livre"] /\ aEnviar' = [m \in Mensagens |-> 0]
        /\ UNCHANGED <<texto, confirmadas, registros, enviadas, desfecho>>
    BY DEF Cair
  <1>4. falhas' \in 0..MaxFalhas  BY FalhaConta DEF Cair
  <1>5. \A e \in Entregas : lote'[e] = <<>> /\ pos'[e] = 1 /\ passo'[e] = "livre"
    BY <1>3
  <1>6. TypeOK'
    <2>1. <<>> \in Seq(Mensagens)  OBVIOUS
    <2>2. lote' \in [Entregas -> Seq(Mensagens)]  BY <1>3, <2>1
    <2>3. pos' \in [Entregas -> Nat] /\ passo' \in [Entregas -> Passos]
      BY <1>3 DEF Passos
    <2>4. aEnviar' \in [Mensagens -> Nat]  BY <1>3
    <2> QED  BY <1>2, <1>3, <1>4, <2>2, <2>3, <2>4 DEF WInv, VInv, TypeOK
  <1>7. Posicao' /\ SoGravaVerificado'  BY <1>5 DEF Posicao, SoGravaVerificado
  <1>8. Tratadas' /\ Escritas'
    <2>1. \A e \in Entregas : 1..Len(lote'[e]) = {}  BY <1>5
    <2> QED  BY <2>1 DEF Tratadas, Escritas
  <1>9. Registros'
    <2> SUFFICES ASSUME NEW m \in Mensagens
                 PROVE  /\ registros[m] \in {0, 1}
                        /\ 0 + enviadas[m] <= registros[m]
                        /\ desfecho[m] \in {"criada", "duplicada"} => registros[m] = 1
      BY <1>3 DEF Registros
    <2>1. aEnviar[m] \in Nat /\ enviadas[m] \in Nat  BY DEF WInv, TypeOK
    <2> QED  BY <2>1 DEF WInv, Registros
  <1>10. Registrado' /\ Confirmadas'
    BY <1>1, <1>3 DEF WInv, Registrado, Confirmadas, Exigido
  <1> QED  BY <1>2, <1>6, <1>7, <1>8, <1>9, <1>10 DEF WInv

-------------------------------------------------------------------------------
(* The theorems *)

LEMMA PassoAvanca ==
  ASSUME WInv, NEW d \in Entregas, Avanca(d) PROVE WInv'
  <1>1. d \in Slots /\ d \notin App  BY DEF Entregas
  <1>2. CASE ProcessarCodigo(d)
    <2>1. passo[d] = "processar"  BY <1>2 DEF ProcessarCodigo, Esta
    <2>2. lote[d] \in Seq(Mensagens) /\ pos[d] \in 1..Len(lote[d])
      <3>1. lote[d] \in Seq(Mensagens)  BY DEF WInv, TypeOK
      <3> QED  BY <2>1, <3>1 DEF WInv, Posicao
    <2>3. texto[Mensagem(d)] # Nulo  BY <2>2 DEF WInv, Escritas, Mensagem
    <2> QED  BY <1>2, <2>3, PassoProcessarCodigo
  <1>3. CASE Confirmar(d)
    <2>1. VInv' /\ VerificadoFica
      BY <1>1, <1>3, PassoConfirmacao, ConfirmacaoFica DEF Confirmar, WInv
    <2> QED  BY <1>3, <2>1, SoVerificacao DEF Confirmar
  <1>4. CASE ConfirmacaoFalhou(d)
    BY <1>4, FalhaConta, PassoErro500 DEF ConfirmacaoFalhou
  <1> QED  BY <1>2, <1>3, <1>4, PassoProcessar, PassoConfirmou, PassoGravar, PassoAck
           DEF Avanca

LEMMA PassoFalhou ==
  ASSUME WInv, NEW d \in Entregas, Falhou(d) PROVE WInv'
  <1>1. CASE FalharMensagem(d)
    BY <1>1, FalhaConta, PassoErro500 DEF FalharMensagem
  <1>2. CASE FalharConfirmacao(d)
    <2>1. VInv' /\ verificado' = verificado
      BY <1>2, PassoFalhar, FalharFica DEF FalharConfirmacao, WInv, Entregas
    <2>2. falhas' \in 0..MaxFalhas  BY <1>2, FalhaConta DEF FalharConfirmacao
    <2>3. UNCHANGED <<texto, confirmadas, lote, pos, passo, registros, aEnviar, enviadas,
                      desfecho>>
      BY <1>2 DEF FalharConfirmacao
    <2>4. TypeOK'  BY <2>1, <2>2, <2>3 DEF WInv, VInv, TypeOK
    <2>5. Posicao' /\ Tratadas' /\ Escritas' /\ Registros' /\ Confirmadas'
      BY <2>3 DEF WInv, Posicao, Tratadas, Escritas, Registros, Confirmadas
    <2>6. SoGravaVerificado' /\ Registrado'
      BY <2>1, <2>3 DEF WInv, SoGravaVerificado, Registrado, Exigido
    <2> QED  BY <2>1, <2>4, <2>5, <2>6 DEF WInv
  <1>3. CASE AckPerdido(d)
    <2>1. VInv' /\ verificado' = verificado
      BY <1>3, Igual DEF WInv, AckPerdido, verificacao
    <2> QED  BY <1>3, <2>1, FalhaConta, EncerraSemRegistro DEF AckPerdido
  <1> QED  BY <1>1, <1>2, <1>3, PassoGravarSemResposta DEF Falhou

\* WInv is inductive.
THEOREM Invariante == Spec => []WInv
  <1>1. WInv /\ [Next]_vars => WInv'
    <2> SUFFICES ASSUME WInv, [Next]_vars PROVE WInv'  OBVIOUS
    <2>1. CASE NoApp
      <3>1. VInv' /\ VerificadoFica  BY <2>1, PassoNoApp, NoAppFica DEF WInv
      <3> QED  BY <2>1, <3>1, SoVerificacao DEF NoApp
    <2>2. CASE \E m \in Mensagens : Escrever(m) \/ EnviarResposta(m)
      BY <2>2, PassoEscrever, PassoEnviarResposta
    <2>3. CASE \E d \in Entregas :
                 Avanca(d) \/ Falhou(d) \/ (\E ms \in Lotes : Entregar(d, ms))
      BY <2>3, PassoAvanca, PassoFalhou, PassoEntregar
    <2>4. CASE Cair  BY <2>4, PassoCair
    <2>5. CASE UNCHANGED vars
      <3>1. UNCHANGED verificacao /\ UNCHANGED pedido /\ UNCHANGED webhook
        BY <2>5 DEF vars, verificacao, webhook
      <3>2. VInv' /\ VerificadoFica  BY <3>1, Igual DEF WInv
      <3> QED  BY <3>1, <3>2, SoVerificacao
    <2> QED  BY <2>1, <2>2, <2>3, <2>4, <2>5 DEF Next
  <1> QED  BY WInit, <1>1, PTL DEF Spec

\* Every table, request, batch and counter keeps its type.
THEOREM TiposCorretos == Spec => []TypeOK
  BY Invariante, PTL DEF WInv

\* However many deliveries carry a message, at once or after failures, it is
\* registered at most once.
THEOREM RegistroUnico == Spec => []UmRegistroPorMensagem
  <1>1. WInv => UmRegistroPorMensagem  BY DEF WInv, Registros, UmRegistroPorMensagem
  <1> QED  BY <1>1, Invariante, PTL

\* "registrada" is said at most once of a message, and only of one that is in
\* the database.
THEOREM RespostaVerdadeira == Spec => []RespostaConfere
  <1>1. WInv => RespostaConfere  BY DEF WInv, Registros, RespostaConfere
  <1> QED  BY <1>1, Invariante, PTL

\* The provider has a 200 only for messages that are dealt with, and one whose
\* status says it is registered is.
THEOREM AckVerdadeiro == Spec => []AckConfere
  <1>1. WInv => AckConfere
    BY DEF WInv, TypeOK, Registros, Confirmadas, AckConfere
  <1> QED  BY <1>1, Invariante, PTL

\* No row is registered before what the configuration requires is verified.
THEOREM NaoVerificadoNaoLanca == Spec => []SoRegistraVerificado
  <1>1. WInv => SoRegistraVerificado
    BY DEF WInv, Registrado, Exigido, SoRegistraVerificado
  <1> QED  BY <1>1, Invariante, PTL

\* What the application confirms is a code that reached the channel confirmed,
\* however the challenges replaced each other meanwhile.
THEOREM PosseProvada == Spec => []ProvaDePosse
  <1>1. WInv => ProvaDePosse  BY DEF WInv, VInv
  <1> QED  BY <1>1, Invariante, PTL

\* The cache of the process never says verified before the database does.
THEOREM CacheVerdadeiro == Spec => []CacheConfere
  <1>1. WInv => CacheConfere  BY DEF WInv, VInv
  <1> QED  BY <1>1, Invariante, PTL

-------------------------------------------------------------------------------
(* The attempts.  A confirmation that is about to count a wrong code saw the  *)
(* counter below the maximum, and there are no more of them than slots: what  *)
(* is counted and what is about to be counted has a ceiling (TetoInv).        *)

Errando(c) == {s \in Slots : pedido[s].op = "errou" /\ pedido[s].canal = c}

TetoInv ==
  \A c \in Canais : desafio[c] # Nulo =>
    desafio[c].tentativas + Cardinality(Errando(c)) < MaxTentativas + Cardinality(Slots)

\* A step by which no request comes to count, and that counts nothing.
NaoConta ==
  /\ \A t \in Slots : pedido'[t] = pedido[t] \/ pedido'[t].op # "errou"
  /\ \A c \in Canais : desafio'[c] # Nulo =>
       \/ desafio'[c].tentativas = 0
       \/ desafio[c] # Nulo /\ desafio'[c].tentativas = desafio[c].tentativas

LEMMA ErrandoContam ==
  /\ Cardinality(Slots) \in Nat
  /\ \A E \in SUBSET Slots : /\ IsFiniteSet(E) /\ Cardinality(E) \in Nat
                            /\ Cardinality(E) <= Cardinality(Slots)
                            /\ \A D \in SUBSET E : Cardinality(D) <= Cardinality(E)
  <1>1. IsFiniteSet(Slots)  BY VerificacaoAssumption
  <1>2. Cardinality(Slots) \in Nat  BY <1>1, FS_CardinalityType
  <1>3. ASSUME NEW E \in SUBSET Slots
        PROVE  /\ IsFiniteSet(E) /\ Cardinality(E) \in Nat
               /\ Cardinality(E) <= Cardinality(Slots)
               /\ \A D \in SUBSET E : Cardinality(D) <= Cardinality(E)
    <2>1. IsFiniteSet(E) /\ Cardinality(E) <= Cardinality(Slots)  BY <1>1, FS_Subset
    <2> QED  BY <2>1, FS_Subset, FS_CardinalityType
  <1> QED  BY <1>2, <1>3

LEMMA TetoFica ==
  ASSUME WInv, WInv', TetoInv, NaoConta
  PROVE  TetoInv'
  <1> SUFFICES ASSUME NEW c \in Canais, desafio'[c] # Nulo
               PROVE  desafio'[c].tentativas + Cardinality(Errando(c)')
                        < MaxTentativas + Cardinality(Slots)
    BY DEF TetoInv
  <1>1. Errando(c)' \subseteq Errando(c) /\ Errando(c) \subseteq Slots
    BY DEF NaoConta, Errando
  <1>2. /\ Cardinality(Errando(c)') \in Nat /\ Cardinality(Errando(c)) \in Nat
        /\ Cardinality(Errando(c)') <= Cardinality(Errando(c))
        /\ Cardinality(Errando(c)) <= Cardinality(Slots) /\ Cardinality(Slots) \in Nat
    BY <1>1, ErrandoContam
  <1>3. desafio'[c].tentativas \in Nat
    BY DEF WInv, TypeOK, VerificacaoTypeOK, Desafio
  <1>4. MaxTentativas \in Nat /\ MaxTentativas > 0  BY VerificacaoAssumption
  <1>5. CASE desafio'[c].tentativas = 0  BY <1>2, <1>4, <1>5
  <1>6. CASE desafio[c] # Nulo /\ desafio'[c].tentativas = desafio[c].tentativas
    <2>1. desafio[c].tentativas + Cardinality(Errando(c)) < MaxTentativas + Cardinality(Slots)
      BY <1>6 DEF TetoInv
    <2> QED  BY <1>2, <1>3, <1>4, <1>6, <2>1
  <1> QED  BY <1>5, <1>6 DEF NaoConta

\* A confirmation reads the challenge.
LEMMA LerTeto ==
  ASSUME WInv, WInv', TetoInv, NEW s \in Slots, Ler(s)
  PROVE  TetoInv'
  <1>0. pedido \in [Slots -> Chamada] /\ pedido[s].canal \in Canais
    BY DEF WInv, TypeOK, VerificacaoTypeOK, Chamada
  <1> DEFINE c == pedido[s].canal
             decide == Decisao(desafio[c], pedido[s])
  <1>1. /\ pedido'[s].op = decide /\ pedido'[s].canal = c
        /\ \A t \in Slots : t # s => pedido'[t] = pedido[t]
        /\ desafio' = desafio
    BY <1>0 DEF Ler, Segue, verificacao, Chamada
  <1> HIDE DEF decide
  <1>2. CASE decide # "errou"
    <2>1. NaoConta  BY <1>1, <1>2 DEF NaoConta
    <2> QED  BY <2>1, TetoFica
  <1>3. CASE decide = "errou"
    <2> SUFFICES ASSUME NEW k \in Canais, desafio[k] # Nulo
                 PROVE  desafio[k].tentativas + Cardinality(Errando(k)')
                          < MaxTentativas + Cardinality(Slots)
      BY <1>1 DEF TetoInv
    <2>1. desafio[k].tentativas \in Nat /\ MaxTentativas \in Nat
      BY VerificacaoAssumption DEF WInv, TypeOK, VerificacaoTypeOK, Desafio
    <2>2. Errando(k)' \subseteq Slots /\ Errando(k) \subseteq Slots  BY DEF Errando
    <2>3. /\ Cardinality(Errando(k)') \in Nat /\ Cardinality(Errando(k)) \in Nat
          /\ Cardinality(Errando(k)') <= Cardinality(Slots) /\ Cardinality(Slots) \in Nat
      BY <2>2, ErrandoContam
    <2>4. CASE k = c
      <3>1. desafio[k].tentativas < MaxTentativas
        BY <1>3, <2>1, <2>4 DEF decide, Decisao, Esgotado
      <3> QED  BY <2>1, <2>3, <3>1
    <2>5. CASE k # c
      <3>1. Errando(k)' \subseteq Errando(k)  BY <1>1, <2>5 DEF Errando
      <3>2. Cardinality(Errando(k)') <= Cardinality(Errando(k))
        BY <2>2, <3>1, ErrandoContam
      <3>3. desafio[k].tentativas + Cardinality(Errando(k)) < MaxTentativas + Cardinality(Slots)
        BY DEF TetoInv
      <3> QED  BY <2>1, <2>3, <3>2, <3>3
    <2> QED  BY <2>4, <2>5
  <1> QED  BY <1>2, <1>3

\* It counts a wrong code, and is not about to any more.
LEMMA ErrouTeto ==
  ASSUME WInv, WInv', TetoInv, NEW s \in Slots, Errou(s)
  PROVE  TetoInv'
  <1>0. pedido \in [Slots -> Chamada] /\ pedido[s].canal \in Canais
        /\ desafio \in [Canais -> Desafio \cup {Nulo}]
    BY DEF WInv, TypeOK, VerificacaoTypeOK, Chamada
  <1> DEFINE c == pedido[s].canal
  <1>1. /\ pedido[s].op = "errou" /\ pedido'[s].op # "errou"
        /\ \A t \in Slots : t # s => pedido'[t] = pedido[t]
    BY <1>0 DEF Errou, Chamou, Segue, Chamada
  <1>2. CASE desafio[c] = Nulo
    <2>1. desafio' = desafio  BY <1>2 DEF Errou
    <2>2. NaoConta  BY <1>1, <2>1 DEF NaoConta
    <2> QED  BY <2>2, TetoFica
  <1>3. CASE desafio[c] # Nulo
    <2>1. desafio' = [desafio EXCEPT ![c].tentativas = @ + 1]  BY <1>3 DEF Errou
    <2>2. /\ desafio'[c].tentativas = desafio[c].tentativas + 1
          /\ desafio[c].tentativas \in Nat
          /\ \A k \in Canais : k # c => desafio'[k] = desafio[k]
      BY <1>0, <1>3, <2>1 DEF Desafio
    <2> SUFFICES ASSUME NEW k \in Canais, desafio'[k] # Nulo
                 PROVE  desafio'[k].tentativas + Cardinality(Errando(k)')
                          < MaxTentativas + Cardinality(Slots)
      BY DEF TetoInv
    <2>3. desafio[k] # Nulo /\ desafio[k].tentativas \in Nat /\ MaxTentativas \in Nat
      BY <1>0, <1>3, <2>2, VerificacaoAssumption DEF Desafio
    <2>4. Errando(k)' \subseteq Errando(k) /\ Errando(k) \subseteq Slots
      BY <1>1 DEF Errando
    <2>5. /\ Cardinality(Errando(k)') \in Nat /\ Cardinality(Errando(k)) \in Nat
          /\ Cardinality(Errando(k)') <= Cardinality(Errando(k)) /\ Cardinality(Slots) \in Nat
          /\ IsFiniteSet(Errando(k))
      BY <2>4, ErrandoContam
    <2>6. desafio[k].tentativas + Cardinality(Errando(k)) < MaxTentativas + Cardinality(Slots)
      BY <2>3 DEF TetoInv
    <2>7. CASE k = c
      <3>1. Errando(k)' = Errando(k) \ {s} /\ s \in Errando(k)
        BY <1>1, <2>7 DEF Errando
      <3>2. Cardinality(Errando(k)') = Cardinality(Errando(k)) - 1
        BY <2>5, <3>1, FS_RemoveElement
      <3> QED  BY <2>2, <2>3, <2>5, <2>6, <2>7, <3>2
    <2>8. CASE k # c
      BY <2>2, <2>3, <2>5, <2>6, <2>8
    <2> QED  BY <2>7, <2>8
  <1> QED  BY <1>2, <1>3

\* The step that goes on with another call.
LEMMA SegueSemContar ==
  ASSUME WInv, NEW s \in Slots, NEW op \in Ops, op # "errou", Segue(s, op)
  PROVE  \A t \in Slots : pedido'[t] = pedido[t] \/ pedido'[t].op # "errou"
  <1>1. pedido \in [Slots -> Chamada]  BY DEF WInv, TypeOK, VerificacaoTypeOK
  <1> QED  BY <1>1 DEF Segue, Chamada

\* One request is replaced by another that is not about to count.
LEMMA TrocaSemContar ==
  ASSUME WInv, NEW s \in Slots, NEW p, p.op # "errou", pedido' = [pedido EXCEPT ![s] = p]
  PROVE  \A t \in Slots : pedido'[t] = pedido[t] \/ pedido'[t].op # "errou"
  <1>1. pedido \in [Slots -> Chamada]  BY DEF WInv, TypeOK, VerificacaoTypeOK
  <1> QED  BY <1>1

\* The other calls of a confirmation, and its failures.
LEMMA ConfirmacaoTeto ==
  ASSUME WInv, WInv', TetoInv, NEW s \in Slots, Confirmacao(s) \/ Falhar(s)
  PROVE  TetoInv'
  <1>0. /\ {"recusado", "apagarUsado", "confirmado", "falhou"} \subseteq Ops
        /\ desafio \in [Canais -> Desafio \cup {Nulo}]
    BY DEF Ops, WInv, TypeOK, VerificacaoTypeOK
  <1>1. CASE Ler(s)  BY <1>1, LerTeto
  <1>2. CASE Errou(s)  BY <1>2, ErrouTeto
  <1>3. CASE Apagar(s) \/ Marcar(s) \/ ApagarUsado(s) \/ Falhar(s)
    <2>1. \A t \in Slots : pedido'[t] = pedido[t] \/ pedido'[t].op # "errou"
      BY <1>0, <1>3, SegueSemContar, TrocaSemContar, LivreTipo
         DEF Apagar, Marcar, ApagarUsado, Falhar
    <2>2. \A c \in Canais : desafio'[c] \in {desafio[c], Nulo}
      BY <1>0, <1>3 DEF Apagar, Marcar, ApagarUsado, Falhar, Delete, verificacao
    <2>3. NaoConta  BY <2>1, <2>2 DEF NaoConta
    <2> QED  BY <2>3, TetoFica
  <1> QED  BY <1>1, <1>2, <1>3 DEF Confirmacao

LEMMA AppTeto ==
  ASSUME WInv, WInv', TetoInv, NoApp
  PROVE  TetoInv'
  <1>0. /\ pedido \in [Slots -> Chamada]
        /\ desafio \in [Canais -> Desafio \cup {Nulo}]
    BY DEF WInv, TypeOK, VerificacaoTypeOK
  <1>1. ASSUME NEW s \in App, PassoDoApp(s) PROVE TetoInv'
    <2>0. s \in Slots  BY VerificacaoAssumption
    <2>1. CASE Confirmacao(s) \/ Falhar(s)  BY <2>0, <2>1, ConfirmacaoTeto
    <2>2. CASE Salvar(s)
      <3>1. \A t \in Slots : pedido'[t] = pedido[t] \/ pedido'[t].op # "errou"
        BY <1>0, <2>0, <2>2, LivreTipo DEF Salvar, Chamada
      <3>2. \A c \in Canais : desafio'[c] = desafio[c] \/ desafio'[c].tentativas = 0
        BY <1>0, <2>2 DEF Salvar, Save
      <3>3. NaoConta  BY <3>1, <3>2 DEF NaoConta
      <3> QED  BY <3>3, TetoFica
    <2>3. CASE Start(s) \/ Enviar(s) \/ ApagarEnvio(s) \/ Confirm(s) \/ Responder(s)
      <3>1. \A t \in Slots : pedido'[t] = pedido[t] \/ pedido'[t].op # "errou"
        BY <1>0, <2>0, <2>3, LivreTipo
           DEF Start, Enviar, ApagarEnvio, Confirm, Responder, Pede, Segue, Chamada
      <3>2. \A c \in Canais : desafio'[c] \in {desafio[c], Nulo}
        BY <1>0, <2>3 DEF Start, Enviar, ApagarEnvio, Confirm, Responder, Delete, verificacao
      <3>3. NaoConta  BY <3>1, <3>2 DEF NaoConta
      <3> QED  BY <3>3, TetoFica
    <2> QED  BY <1>1, <2>1, <2>2, <2>3 DEF PassoDoApp
  <1>2. CASE IsVerified
    BY <1>2, TetoFica DEF IsVerified, NaoConta
  <1>3. CASE PassaOTempo
    <2>1. pedido' = pedido  BY <1>3 DEF PassaOTempo
    <2>2. \A c \in Canais : desafio'[c] # Nulo =>
            desafio[c] # Nulo /\ desafio'[c].tentativas = desafio[c].tentativas
      BY <1>0, <1>3 DEF PassaOTempo, Desafio
    <2> QED  BY <2>1, <2>2, TetoFica DEF NaoConta
  <1> QED  BY <1>1, <1>2, <1>3 DEF NoApp

\* Outside the confirmations the webhook counts nothing.
LEMMA EntregaTeto ==
  ASSUME WInv, WInv', TetoInv, NEW d \in Entregas,
         Avanca(d) \/ Falhou(d) \/ (\E ms \in Lotes : Entregar(d, ms))
  PROVE  TetoInv'
  <1>0. d \in Slots  BY DEF Entregas
  <1>1. CASE Confirmar(d) \/ FalharConfirmacao(d)
    BY <1>0, <1>1, ConfirmacaoTeto DEF Confirmar, FalharConfirmacao
  <1>2. CASE ~ Confirmar(d) /\ ~ FalharConfirmacao(d)
    <2>1. desafio' = desafio
      BY <1>2 DEF Avanca, Falhou, ProcessarCodigo, Processar, Confirmou, ConfirmacaoFalhou,
                  Gravar, Ack, FalharMensagem, GravarSemResposta, AckPerdido, Entregar,
                  Erro500, verificacao
    <2>2. \/ pedido' = pedido
          \/ \E p : p.op # "errou" /\ pedido' = [pedido EXCEPT ![d] = p]
      BY <1>2, LivreTipo
         DEF Avanca, Falhou, ProcessarCodigo, Processar, Confirmou, ConfirmacaoFalhou,
                  Gravar, Ack, FalharMensagem, GravarSemResposta, AckPerdido, Entregar,
                  Erro500, Pede
    <2>3. \A t \in Slots : pedido'[t] = pedido[t] \/ pedido'[t].op # "errou"
      BY <1>0, <2>2, TrocaSemContar
    <2> QED  BY <2>1, <2>3, TetoFica DEF NaoConta
  <1> QED  BY <1>1, <1>2

\* However many requests and deliveries try codes at once, and although failures
\* may leave the challenge there, the attempts on it have a ceiling.
THEOREM TetoDasTentativas == Spec => []TentativasTemTeto
  <1>1. Init => TetoInv  BY DEF Init, VerificacaoInit, TetoInv
  <1>2. WInv /\ WInv' /\ TetoInv /\ [Next]_vars => TetoInv'
    <2> SUFFICES ASSUME WInv, WInv', TetoInv, [Next]_vars PROVE TetoInv'  OBVIOUS
    <2>1. CASE NoApp  BY <2>1, AppTeto
    <2>2. CASE \E m \in Mensagens : Escrever(m) \/ EnviarResposta(m)
      BY <2>2, TetoFica DEF Escrever, EnviarResposta, verificacao, NaoConta
    <2>3. CASE \E d \in Entregas :
                 Avanca(d) \/ Falhou(d) \/ (\E ms \in Lotes : Entregar(d, ms))
      BY <2>3, EntregaTeto
    <2>4. CASE Cair  BY <2>4, TetoFica, LivreTipo DEF Cair, NaoConta
    <2>5. CASE UNCHANGED vars  BY <2>5, TetoFica DEF vars, NaoConta
    <2> QED  BY <2>1, <2>2, <2>3, <2>4, <2>5 DEF Next
  <1>3. WInv /\ TetoInv => TentativasTemTeto
    <2> SUFFICES ASSUME WInv, TetoInv, NEW c \in Canais, desafio[c] # Nulo
                 PROVE  desafio[c].tentativas < MaxTentativas + Cardinality(Slots)
      BY DEF TentativasTemTeto
    <2>1. Errando(c) \in SUBSET Slots  BY DEF Errando
    <2>2. Cardinality(Errando(c)) \in Nat /\ Cardinality(Slots) \in Nat
      BY <2>1, ErrandoContam
    <2>3. desafio[c].tentativas \in Nat /\ MaxTentativas \in Nat
      BY VerificacaoAssumption DEF WInv, TypeOK, VerificacaoTypeOK, Desafio
    <2> QED  BY <2>2, <2>3 DEF TetoInv
  <1> QED  BY <1>1, <1>2, <1>3, Invariante, PTL DEF Spec

=============================================================================
