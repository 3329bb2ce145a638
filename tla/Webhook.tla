------------------------------- MODULE Webhook -------------------------------
(***************************************************************************)
(* The WhatsApp webhook (webhook_handler.go, webhook_service.go) together  *)
(* with the verification it confirms: the messages of one user, and a      *)
(* provider that posts them in batches and posts again whatever was not    *)
(* answered with 200.                                                      *)
(*                                                                         *)
(* A delivery goes through its batch in order; passo[d] is what delivery d *)
(* does next, and pedido[d] the call it makes while it confirms a code.    *)
(* Two deliveries may carry the same message at the same time.  A call to  *)
(* the database may fail, the commit or the answer to the provider may be  *)
(* lost, and the server may fall at any moment, with the replies it had    *)
(* not sent yet; a bound on the failures stands for their not being        *)
(* permanent.                                                              *)
(***************************************************************************)
EXTENDS Verificacao, SequencesExt

CONSTANTS
  Mensagens,     \* the messages the user may write, by their MessageID
  ExigeTelefone, \* the opposite of AllowUnverifiedPhone (skipVerif)
  ExigeEmail,    \* RequireVerifiedEmail
  MaxFalhas      \* bound: failures of the infrastructure

ASSUME WebhookAssumption ==
  /\ ExigeTelefone \in BOOLEAN /\ ExigeEmail \in BOOLEAN /\ MaxFalhas \in Nat
  /\ IsFiniteSet(Mensagens)

VARIABLES
  texto,         \* what each message says, or Nulo
  confirmadas,   \* messages the provider had a 200 for
  lote,          \* the batch of each delivery
  pos,           \* the message of the batch it is at
  passo,         \* what it does next
  registros,     \* rows of transacoes with the external_id of each message
  aEnviar,       \* "registrada" replies, in their goroutines
  enviadas,      \* and those that reached the user
  desfecho,      \* the last status of each message
  falhas

webhook == <<texto, confirmadas, lote, pos, passo, registros, aEnviar, enviadas,
             desfecho, falhas>>
vars == <<verificado, desafio, codigos, recebidos, cache, pedido, texto,
          confirmadas, lote, pos, passo, registros, aEnviar, enviadas,
          desfecho, falhas>>

Entregas == Slots \ App

Texto == [tipo : {"lancamento", "outro", "verificar"}, codigo : Codigo]
Passos == {"livre", "processar", "confirmar", "gravar", "ack"}
Status == {"criada", "duplicada", "ignorada", "nao_interpretada",
           "telefone_nao_verificado", "email_nao_verificado",
           "verificacao_confirmada", "verificacao_invalida"}

ASSUME NuloAssumption == Nulo \notin Status

TypeOK ==
  /\ VerificacaoTypeOK
  /\ texto \in [Mensagens -> Texto \cup {Nulo}]
  /\ confirmadas \subseteq Mensagens
  /\ lote \in [Entregas -> Seq(Mensagens)]
  /\ pos \in [Entregas -> Nat]
  /\ passo \in [Entregas -> Passos]
  /\ registros \in [Mensagens -> Nat]
  /\ aEnviar \in [Mensagens -> Nat]
  /\ enviadas \in [Mensagens -> Nat]
  /\ desfecho \in [Mensagens -> Status \cup {Nulo}]
  /\ falhas \in 0..MaxFalhas

Init ==
  /\ VerificacaoInit
  /\ texto = [m \in Mensagens |-> Nulo]
  /\ confirmadas = {}
  /\ lote = [d \in Entregas |-> <<>>]
  /\ pos = [d \in Entregas |-> 1]
  /\ passo = [d \in Entregas |-> "livre"]
  /\ registros = [m \in Mensagens |-> 0]
  /\ aEnviar = [m \in Mensagens |-> 0]
  /\ enviadas = [m \in Mensagens |-> 0]
  /\ desfecho = [m \in Mensagens |-> Nulo]
  /\ falhas = 0

Mensagem(d) == lote[d][pos[d]]
Esta(d, p) == passo[d] = p
Vai(d, p) == passo' = [passo EXCEPT ![d] = p]

\* The message has its status, and the delivery goes on to the next one.
Proxima(d, status) ==
  /\ desfecho' = [desfecho EXCEPT ![Mensagem(d)] = status]
  /\ pos' = [pos EXCEPT ![d] = @ + 1]
  /\ Vai(d, IF pos[d] = Len(lote[d]) THEN "ack" ELSE "processar")

\* The delivery is over.
Encerra(d) ==
  /\ Vai(d, "livre")
  /\ lote' = [lote EXCEPT ![d] = <<>>]
  /\ pos' = [pos EXCEPT ![d] = 1]

Falha == falhas < MaxFalhas /\ falhas' = falhas + 1

-------------------------------------------------------------------------------
(* The user and the provider *)

\* An expense, something else, or "verificar" with a code he knows or a wrong
\* one.
Escrever(m) ==
  \E t \in Texto :
    /\ texto[m] = Nulo
    /\ t.tipo = "verificar" =>
         t.codigo \in {0} \cup recebidos["app"] \cup recebidos["telefone"]
    /\ t.tipo # "verificar" => t.codigo = 0
    /\ texto' = [texto EXCEPT ![m] = t]
    /\ UNCHANGED <<verificacao, pedido, confirmadas, lote, pos, passo, registros,
                   aEnviar, enviadas, desfecho, falhas>>

Pendentes == {m \in Mensagens : texto[m] # Nulo} \ confirmadas

\* The provider posts messages it has no 200 for, even if another delivery of
\* them did not end.
Entregar(d, ms) ==
  /\ Esta(d, "livre")
  /\ ms # <<>> /\ Range(ms) \subseteq Pendentes /\ IsInjective(ms)
  /\ lote' = [lote EXCEPT ![d] = ms]
  /\ Vai(d, "processar")
  /\ UNCHANGED <<verificacao, pedido, texto, confirmadas, pos, registros, aEnviar,
                 enviadas, desfecho, falhas>>

Lotes == UNION {[1..n -> Mensagens] : n \in 1..Cardinality(Mensagens)}

-------------------------------------------------------------------------------
(* ProcessMessage *)

\* FindByPhones, and what the checks on the user and on the text decide.
\* A verification command runs the confirmation.
ProcessarCodigo(d) ==
  LET t == texto[Mensagem(d)]
  IN /\ Esta(d, "processar") /\ t.tipo = "verificar"
     /\ IF verificado["telefone"]
        THEN /\ Proxima(d, "ignorada")
             /\ UNCHANGED pedido
        ELSE /\ Pede(d, [op |-> "ler", canal |-> "telefone", metodo |-> "mensagem",
                         codigo |-> t.codigo])
             /\ Vai(d, "confirmar")
             /\ UNCHANGED <<desfecho, pos>>
     /\ UNCHANGED <<verificacao, texto, confirmadas, lote, registros, aEnviar,
                    enviadas, falhas>>

\* A wrong version: only the phone is required.
RecusaSemEmail ==
  IF ExigeTelefone /\ ~ verificado["telefone"] THEN "telefone_nao_verificado"
  ELSE Nulo

Recusa ==
  IF ExigeTelefone /\ ~ verificado["telefone"] THEN "telefone_nao_verificado"
  ELSE IF ExigeEmail /\ ~ verificado["email"] THEN "email_nao_verificado"
  ELSE Nulo

Processar(d) ==
  LET t == texto[Mensagem(d)]
  IN /\ Esta(d, "processar") /\ t.tipo # "verificar"
     /\ \/ Recusa # Nulo /\ Proxima(d, Recusa)
        \/ Recusa = Nulo /\ t.tipo = "outro" /\ Proxima(d, "nao_interpretada")
        \/ /\ Recusa = Nulo /\ t.tipo = "lancamento"
           /\ Vai(d, "gravar")
           /\ UNCHANGED <<desfecho, pos>>
     /\ UNCHANGED <<verificacao, pedido, texto, confirmadas, lote, registros,
                    aEnviar, enviadas, falhas>>

\* A wrong version: an error is logged and answered with 200.
Erro200(d) ==
  /\ confirmadas' = confirmadas \cup Range(lote[d])
  /\ Encerra(d)
  /\ pedido' = [pedido EXCEPT ![d] = Livre]
  /\ UNCHANGED <<verificacao, texto, registros, aEnviar, enviadas, desfecho>>

\* 500 for the whole batch, whatever was done of it.
Erro500(d) ==
  /\ Encerra(d)
  /\ pedido' = [pedido EXCEPT ![d] = Livre]
  /\ UNCHANGED <<verificacao, texto, confirmadas, registros, aEnviar, enviadas,
                 desfecho>>

\* The confirmation goes on call by call, and its result is the status.
Confirmar(d) ==
  /\ Esta(d, "confirmar")
  /\ Confirmacao(d)
  /\ UNCHANGED webhook

Confirmou(d) ==
  /\ Esta(d, "confirmar")
  /\ \/ Chamou(d, "confirmado") /\ Proxima(d, "verificacao_confirmada")
     \/ Chamou(d, "recusado") /\ Proxima(d, "verificacao_invalida")
  /\ pedido' = [pedido EXCEPT ![d] = Livre]
  /\ UNCHANGED <<verificacao, texto, confirmadas, lote, registros, aEnviar,
                 enviadas, falhas>>

\* An error of the confirmation is one of ProcessMessage.
ConfirmacaoFalhou(d) ==
  /\ Esta(d, "confirmar") /\ Chamou(d, "falhou")
  /\ Erro500(d)
  /\ UNCHANGED falhas

\* A wrong version: no index on external_id.
GravarSempre(d) ==
  LET m == Mensagem(d)
  IN /\ Esta(d, "gravar")
     /\ registros' = [registros EXCEPT ![m] = @ + 1]
     /\ aEnviar' = [aEnviar EXCEPT ![m] = @ + 1]
     /\ Proxima(d, "criada")
     /\ UNCHANGED <<verificacao, pedido, texto, confirmadas, lote, enviadas, falhas>>

\* A wrong version: a message already registered is replied to again.
GravarRespondendo(d) ==
  LET m == Mensagem(d)
      nova == registros[m] = 0
  IN /\ Esta(d, "gravar")
     /\ registros' = [registros EXCEPT ![m] = 1]
     /\ aEnviar' = [aEnviar EXCEPT ![m] = @ + 1]
     /\ Proxima(d, IF nova THEN "criada" ELSE "duplicada")
     /\ UNCHANGED <<verificacao, pedido, texto, confirmadas, lote, enviadas, falhas>>

\* A wrong version: a message already registered is an error like any other.
GravarComErro(d) ==
  LET m == Mensagem(d)
  IN /\ Esta(d, "gravar")
     /\ IF registros[m] > 0
        THEN Erro500(d)
        ELSE /\ registros' = [registros EXCEPT ![m] = @ + 1]
             /\ aEnviar' = [aEnviar EXCEPT ![m] = @ + 1]
             /\ Proxima(d, "criada")
             /\ UNCHANGED <<verificacao, pedido, texto, confirmadas, lote, enviadas>>
     /\ UNCHANGED falhas

\* Create.  The index on external_id refuses a message already registered;
\* otherwise the reply goes to a goroutine of its own.
Gravar(d) ==
  LET m == Mensagem(d)
  IN /\ Esta(d, "gravar")
     /\ IF registros[m] > 0
        THEN /\ Proxima(d, "duplicada")
             /\ UNCHANGED <<registros, aEnviar>>
        ELSE /\ registros' = [registros EXCEPT ![m] = @ + 1]
             /\ aEnviar' = [aEnviar EXCEPT ![m] = @ + 1]
             /\ Proxima(d, "criada")
     /\ UNCHANGED <<verificacao, pedido, texto, confirmadas, lote, enviadas, falhas>>

\* 200, and the provider forgets the batch.
Ack(d) ==
  /\ Esta(d, "ack")
  /\ confirmadas' = confirmadas \cup Range(lote[d])
  /\ Encerra(d)
  /\ UNCHANGED <<verificacao, pedido, texto, registros, aEnviar, enviadas,
                 desfecho, falhas>>

\* The goroutine of a reply; a failure to send is only logged.
EnviarResposta(m) ==
  /\ aEnviar[m] > 0
  /\ aEnviar' = [aEnviar EXCEPT ![m] = @ - 1]
  /\ \/ enviadas' = [enviadas EXCEPT ![m] = @ + 1]
     \/ UNCHANGED enviadas
  /\ UNCHANGED <<verificacao, pedido, texto, confirmadas, lote, pos, passo,
                 registros, desfecho, falhas>>

-------------------------------------------------------------------------------
(* Failures *)

\* A call of ProcessMessage fails.
FalharMensagem(d) ==
  /\ Falha
  /\ passo[d] \in {"processar", "gravar"}
  /\ Erro500(d)

\* A call of the confirmation fails.
FalharConfirmacao(d) ==
  /\ Falha
  /\ Esta(d, "confirmar")
  /\ Falhar(d)
  /\ UNCHANGED <<texto, confirmadas, lote, pos, passo, registros, aEnviar, enviadas,
                 desfecho>>

\* The INSERT was committed, and its answer was lost.
GravarSemResposta(d) ==
  LET m == Mensagem(d)
  IN /\ Falha
     /\ Esta(d, "gravar") /\ registros[m] = 0
     /\ registros' = [registros EXCEPT ![m] = @ + 1]
     /\ Encerra(d)
     /\ UNCHANGED <<verificacao, pedido, texto, confirmadas, aEnviar, enviadas,
                    desfecho>>

\* The provider does not get the 200.
AckPerdido(d) ==
  /\ Falha
  /\ Esta(d, "ack")
  /\ Encerra(d)
  /\ UNCHANGED <<verificacao, pedido, texto, confirmadas, registros, aEnviar,
                 enviadas, desfecho>>

\* The server falls: the requests, the replies and the cache are lost.
Cair ==
  /\ Falha
  /\ pedido' = [s \in Slots |-> Livre]
  /\ cache' = FALSE
  /\ lote' = [d \in Entregas |-> <<>>]
  /\ pos' = [d \in Entregas |-> 1]
  /\ passo' = [d \in Entregas |-> "livre"]
  /\ aEnviar' = [m \in Mensagens |-> 0]
  /\ UNCHANGED <<verificado, desafio, codigos, recebidos, texto, confirmadas,
                 registros, enviadas, desfecho>>

-------------------------------------------------------------------------------

Avanca(d) ==
  \/ ProcessarCodigo(d) \/ Processar(d) \/ Confirmar(d) \/ Confirmou(d)
  \/ ConfirmacaoFalhou(d) \/ Gravar(d) \/ Ack(d)

Falhou(d) ==
  FalharMensagem(d) \/ FalharConfirmacao(d) \/ GravarSemResposta(d) \/ AckPerdido(d)

NoApp ==
  /\ \/ \E s \in App : PassoDoApp(s)
     \/ IsVerified
     \/ PassaOTempo
  /\ UNCHANGED webhook

Next ==
  \/ NoApp
  \/ \E m \in Mensagens : Escrever(m) \/ EnviarResposta(m)
  \/ \E d \in Entregas : Avanca(d) \/ Falhou(d) \/ (\E ms \in Lotes : Entregar(d, ms))
  \/ Cair

\* The server goes on with a delivery, and the provider posts again what it has
\* no 200 for ("o provedor reenvia").
Justica ==
  /\ \A d \in Entregas : WF_vars(Avanca(d))
  /\ \A m \in Mensagens :
       WF_vars(\E d \in Entregas, ms \in Lotes : m \in Range(ms) /\ Entregar(d, ms))

Spec == Init /\ [][Next]_vars /\ Justica

-------------------------------------------------------------------------------
(* What must hold *)

\* A message is registered once, however many times and by however many
\* deliveries at once it is processed.
UmRegistroPorMensagem == \A m \in Mensagens : registros[m] <= 1

\* Nothing is registered before the phone, and the e-mail where it is required,
\* are verified: "números não verificados não podem lançar".
SoRegistraVerificado ==
  \A m \in Mensagens :
    registros[m] > 0 => /\ ExigeTelefone => verificado["telefone"]
                        /\ ExigeEmail => verificado["email"]

\* The user is told "registrada" at most once, and only of what is in the
\* database.
RespostaConfere ==
  \A m \in Mensagens : aEnviar[m] + enviadas[m] <= registros[m]

\* The provider gets 200 only for messages that are dealt with: none is
\* forgotten in the middle of a batch, and one whose status says it is
\* registered is.
AckConfere ==
  \A m \in confirmadas :
    /\ desfecho[m] # Nulo
    /\ desfecho[m] \in {"criada", "duplicada"} => registros[m] = 1

\* Every message ends up dealt with and answered with 200, through failures,
\* falls of the server and redeliveries.
TodaMensagemConfirmada ==
  \A m \in Mensagens : texto[m] # Nulo ~> m \in confirmadas

=============================================================================
