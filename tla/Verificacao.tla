----------------------------- MODULE Verificacao -----------------------------
(***************************************************************************)
(* The verification of the phone and of the e-mail of one user:            *)
(* verificacao_service.go and email_verificacao_service.go over their      *)
(* stores (seguranca_store.go) and over the column of users each confirms. *)
(* Both services are the same protocol over a table of their own, with one *)
(* challenge per user, and the differences between them are guards here.   *)
(*                                                                         *)
(* As in the code, each call to the database or to a provider is a step,   *)
(* and pedido[s].op names the call that slot s makes next.  A code is a    *)
(* number drawn in sequence; 0 is a wrong code.  Time passes in two ways:  *)
(* the cooldown of a challenge ends, and the challenge expires.            *)
(***************************************************************************)
EXTENDS Integers, FiniteSets

CONSTANTS
  Slots,          \* requests served at the same time
  App,            \* those of them that come from the application
  MaxCodigos,     \* bound: codes ever generated
  MaxTentativas,  \* policy.MaxAttempts
  CanaisUsados,   \* bound: what the user may verify, phone or e-mail
  JaVerificados,  \* bound: what he may have verified before
  Nulo

ASSUME VerificacaoAssumption ==
  /\ App \subseteq Slots /\ IsFiniteSet(Slots)
  /\ CanaisUsados \subseteq {"telefone", "email"}
  /\ JaVerificados \subseteq {"telefone", "email"}
  /\ MaxCodigos \in Nat /\ MaxTentativas \in Nat \ {0}

VARIABLES
  verificado,   \* users.telefone_verificado_em, users.email_verificado_em
  desafio,      \* phone_verifications, email_verifications: a row or Nulo
  codigos,      \* codes generated so far
  recebidos,    \* the codes that reached the user, by where they reached him
  cache,        \* EmailVerificationService.verified, of this process
  pedido        \* what each slot does next

verificacao == <<verificado, desafio, codigos, recebidos, cache>>

Canais == {"telefone", "email"}
Metodos == {"codigo", "mensagem"}
Meios == Canais \cup {"app"}
Codigo == 0..MaxCodigos

Desafio == [codigo : 1..MaxCodigos, metodo : Metodos, tentativas : Nat,
            recente : BOOLEAN, vencido : BOOLEAN]

Ops == {"livre", "salvar", "enviar", "apagarEnvio", "ler", "apagar", "errou",
        "marcar", "apagarUsado", "confirmado", "recusado", "falhou"}
Chamada == [op : Ops, canal : Canais, metodo : Metodos, codigo : Codigo]
Livre == [op |-> "livre", canal |-> "telefone", metodo |-> "codigo", codigo |-> 0]

VerificacaoTypeOK ==
  /\ verificado \in [Canais -> BOOLEAN]
  /\ desafio \in [Canais -> Desafio \cup {Nulo}]
  /\ codigos \in Codigo
  /\ recebidos \in [Meios -> SUBSET (1..MaxCodigos)]
  /\ cache \in BOOLEAN
  /\ pedido \in [Slots -> Chamada]

VerificacaoInit ==
  /\ verificado \in {v \in [Canais -> BOOLEAN] : \A c \in Canais \ JaVerificados : ~ v[c]}
  /\ desafio = [c \in Canais |-> Nulo]
  /\ codigos = 0
  /\ recebidos = [m \in Meios |-> {}]
  /\ cache = FALSE
  /\ pedido = [s \in Slots |-> Livre]

Chamou(s, op) == pedido[s].op = op
Segue(s, op) == pedido' = [pedido EXCEPT ![s].op = op]
Pede(s, p) == Chamou(s, "livre") /\ pedido' = [pedido EXCEPT ![s] = p]

\* The e-mail has one method only.
Metodo(canal, metodo) == canal = "email" => metodo = "codigo"

-------------------------------------------------------------------------------
(* The stores *)

Save(canal, v) == desafio' = [desafio EXCEPT ![canal] = v]
Delete(canal) == desafio' = [desafio EXCEPT ![canal] = Nulo]

-------------------------------------------------------------------------------
(* Start *)

\* FindByID and Get: a verified user is refused, and one who asked a moment ago
\* has to wait.
Start(s) ==
  \E canal \in CanaisUsados, metodo \in Metodos :
    /\ Metodo(canal, metodo)
    /\ ~ verificado[canal]
    /\ desafio[canal] # Nulo => ~ desafio[canal].recente
    /\ Pede(s, [op |-> "salvar", canal |-> canal, metodo |-> metodo, codigo |-> 0])
    /\ UNCHANGED verificacao

\* Save replaces the challenge there was.  With the method "mensagem" the
\* answer shows the code, otherwise it goes to the phone or to the e-mail.
Salvar(s) ==
  LET p == pedido[s]
      novo == codigos + 1
  IN /\ Chamou(s, "salvar")
     /\ novo <= MaxCodigos
     /\ codigos' = novo
     /\ Save(p.canal, [codigo |-> novo, metodo |-> p.metodo, tentativas |-> 0,
                       recente |-> TRUE, vencido |-> FALSE])
     /\ IF p.metodo = "mensagem"
        THEN /\ recebidos' = [recebidos EXCEPT !["app"] = @ \cup {novo}]
             /\ pedido' = [pedido EXCEPT ![s] = Livre]
        ELSE /\ pedido' = [pedido EXCEPT ![s].op = "enviar", ![s].codigo = novo]
             /\ UNCHANGED recebidos
     /\ UNCHANGED <<verificado, cache>>

\* SendText or Send; when it fails the challenge is deleted.
Enviar(s) ==
  LET p == pedido[s]
  IN /\ Chamou(s, "enviar")
     /\ \/ /\ recebidos' = [recebidos EXCEPT ![p.canal] = @ \cup {p.codigo}]
           /\ pedido' = [pedido EXCEPT ![s] = Livre]
        \/ /\ Segue(s, "apagarEnvio")
           /\ UNCHANGED recebidos
     /\ UNCHANGED <<verificado, desafio, codigos, cache>>

ApagarEnvio(s) ==
  /\ Chamou(s, "apagarEnvio")
  /\ Delete(pedido[s].canal)
  /\ pedido' = [pedido EXCEPT ![s] = Livre]
  /\ UNCHANGED <<verificado, codigos, recebidos, cache>>

-------------------------------------------------------------------------------
(* Confirm *)

\* The user types in the application a code he received, or a wrong one.
Confirm(s) ==
  \E canal \in CanaisUsados, codigo \in {0} \cup UNION {recebidos[m] : m \in Meios} :
    /\ Pede(s, [op |-> "ler", canal |-> canal, metodo |-> "codigo", codigo |-> codigo])
    /\ UNCHANGED verificacao

\* A wrong version: the attempts are not counted.
SoVencido(v) == v.vencido
Esgotado(v) == v.vencido \/ v.tentativas >= MaxTentativas

\* A wrong version: the method of the challenge is not compared.
DecisaoSemMetodo(v, p) ==
  IF v = Nulo THEN "recusado"
  ELSE IF Esgotado(v) THEN "apagar"
  ELSE IF v.codigo = p.codigo THEN "marcar" ELSE "errou"

\* What Confirm decides on the challenge it read.
Decisao(v, p) ==
  IF v = Nulo THEN "recusado"
  ELSE IF Esgotado(v) THEN "apagar"
  ELSE IF v.metodo # p.metodo THEN "recusado"
  ELSE IF v.codigo = p.codigo THEN "marcar" ELSE "errou"

\* Get and FindByID.  Neither the phone nor the e-mail of a user changes, so
\* the comparison with those of the challenge never refuses.
Ler(s) ==
  /\ Chamou(s, "ler")
  /\ Segue(s, Decisao(desafio[pedido[s].canal], pedido[s]))
  /\ UNCHANGED verificacao

\* IncrementAttempts: the last attempt deletes the challenge.
Errou(s) ==
  LET canal == pedido[s].canal
      v == desafio[canal]
  IN /\ Chamou(s, "errou")
     /\ IF v = Nulo
        THEN Segue(s, "recusado") /\ UNCHANGED desafio
        ELSE /\ desafio' = [desafio EXCEPT ![canal].tentativas = @ + 1]
             /\ Segue(s, IF v.tentativas + 1 >= MaxTentativas
                         THEN "apagar" ELSE "recusado")
     /\ UNCHANGED <<verificado, codigos, recebidos, cache>>

Apagar(s) ==
  /\ Chamou(s, "apagar")
  /\ Delete(pedido[s].canal)
  /\ Segue(s, "recusado")
  /\ UNCHANGED <<verificado, codigos, recebidos, cache>>

\* MarkPhoneVerified, MarkEmailVerified.
Marcar(s) ==
  /\ Chamou(s, "marcar")
  /\ verificado' = [verificado EXCEPT ![pedido[s].canal] = TRUE]
  /\ Segue(s, "apagarUsado")
  /\ UNCHANGED <<desafio, codigos, recebidos, cache>>

\* The challenge used is deleted, and the e-mail service remembers the user.
ApagarUsado(s) ==
  /\ Chamou(s, "apagarUsado")
  /\ Delete(pedido[s].canal)
  /\ cache' = (cache \/ pedido[s].canal = "email")
  /\ Segue(s, "confirmado")
  /\ UNCHANGED <<verificado, codigos, recebidos>>

\* A call fails, and so does the operation: the failure of a Delete is ignored.
Falhar(s) ==
  \/ /\ pedido[s].op \in {"salvar", "ler", "marcar"}
     /\ Segue(s, "falhou")
     /\ UNCHANGED verificacao
  \/ /\ pedido[s].op \in {"errou", "apagar"}
     /\ Segue(s, "recusado")
     /\ UNCHANGED verificacao
  \/ /\ Chamou(s, "apagarUsado")
     /\ cache' = (cache \/ pedido[s].canal = "email")
     /\ Segue(s, "confirmado")
     /\ UNCHANGED <<verificado, desafio, codigos, recebidos>>
  \/ /\ Chamou(s, "apagarEnvio")
     /\ pedido' = [pedido EXCEPT ![s] = Livre]
     /\ UNCHANGED verificacao

\* IsVerified, asked by every request that needs a verified e-mail; Start does
\* the same when it refuses a user whose e-mail is verified.
IsVerified ==
  /\ verificado["email"]
  /\ cache' = TRUE
  /\ UNCHANGED <<verificado, desafio, codigos, recebidos, pedido>>

\* The application has its answer.
Responder(s) ==
  /\ pedido[s].op \in {"confirmado", "recusado", "falhou"}
  /\ pedido' = [pedido EXCEPT ![s] = Livre]
  /\ UNCHANGED verificacao

\* The calls of a confirmation, whoever asked for it.
Confirmacao(s) ==
  Ler(s) \/ Errou(s) \/ Apagar(s) \/ Marcar(s) \/ ApagarUsado(s)

PassoDoApp(s) ==
  \/ Start(s) \/ Salvar(s) \/ Enviar(s) \/ ApagarEnvio(s)
  \/ Confirm(s) \/ Confirmacao(s) \/ Falhar(s) \/ Responder(s)

\* The cooldown of a challenge is over, and later its time to live.
PassaOTempo ==
  \E canal \in Canais :
    /\ desafio[canal] # Nulo /\ ~ desafio[canal].vencido
    /\ desafio' = [desafio EXCEPT
                     ![canal].recente = FALSE,
                     ![canal].vencido = ~ desafio[canal].recente]
    /\ UNCHANGED <<verificado, codigos, recebidos, cache, pedido>>

-------------------------------------------------------------------------------
(* What must hold *)

\* A confirmation from the application proves the possession of the phone or of
\* the e-mail: the code typed is one that reached it, never one that the
\* application itself had shown, whatever challenges replace each other while
\* the code is being checked.
ProvaDePosse ==
  \A s \in App :
    Chamou(s, "marcar") => pedido[s].codigo \in recebidos[pedido[s].canal]

\* Guessing has an end: the attempts counted on a challenge may pass the maximum,
\* since each confirmation looks at them before it counts its own, but by no more
\* than the confirmations that were being served at once, even when the challenge
\* that ran out of them could not be deleted.
TentativasTemTeto ==
  \A c \in Canais :
    desafio[c] # Nulo => desafio[c].tentativas < MaxTentativas + Cardinality(Slots)

\* What the process remembers of the e-mail is in the database: it never opens
\* the routes before the column says so.
CacheConfere == cache => verificado["email"]

=============================================================================
