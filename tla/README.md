# A formal model of the QuantoDeu API

QuantoDeu is a personal-finance API in Go: transactions, instalment plans and
loans, credit cards with invoices, a dashboard, an agenda, accounts with
sessions, and a WhatsApp webhook that registers expenses.  It runs as one or more
HTTP processes over PostgreSQL (and optionally Redis).  These modules describe
what the code does, in TLA+; TLC checks them on small instances and TLAPS proves
the main results for every value of the constants.

What makes the system hard is the same almost everywhere: **a use case is several
repository calls, and each call is a database transaction of its own**
(`withTenant`, `internal/adapters/db/postgres/tenant.go:22`).  No use case takes a
lock that spans its calls and no optimistic version is kept, so what a use case
checks may no longer hold when it writes.  Where one call is several statements
(instalment plans), the snapshots of READ COMMITTED and the row locks matter too.
The rest is arithmetic that is easy to get wrong by one: days 29 to 31 in months
that do not have them, cents left over by a division, interest rounded month by
month, tokens of a bucket counted out of order.

- [Inventory](#inventory)
- [The modules](#the-modules)
- [How the model corresponds to the code](#how-the-model-corresponds-to-the-code)
- [The runs](#the-runs)
- [What disagrees with the documents](#what-disagrees-with-the-documents)
- [What is proved](#what-is-proved)
- [What is only model-checked, and what is left out](#what-is-only-model-checked-and-what-is-left-out)

## Inventory

Paths are under `internal/` unless they say otherwise.

| Component | State | Operations | Hard behaviour | Correct when |
|---|---|---|---|---|
| **Billing cycle of a card** `core/domain/cartao.go`, `periodo.go` | none (functions of the configured days) | closing, due date, invoice of a purchase, cycle | short months, new year, leap years | every day is in exactly one cycle, every cycle in one invoice, and the way back is exact |
| **Credit card** `core/services/cartao_service.go`, `adapters/db/postgres/cartao_repository.go`, migrations 0008 and 0009 | tables `cartoes`, `compras_cartao`, `pagamentos_fatura`, and the outgoing `transacoes` of payments | create, edit, archive, delete a card; register and delete a purchase; pay an invoice, undo a payment | checks and writes in different transactions; due dates stored in purchases and recomputed from the card | money moves with its payment, a paid invoice does not change, history is not lost |
| **Invoice** `core/domain/fatura.go` | derived, never stored | total, paid, remaining, status, open and payable invoice, available limit | several reads of different moments; dates in UTC against dates in the local zone | derived numbers agree with the rows |
| **Transactions** `core/domain/transacao.go`, `financas_service.go`, `transacao_repository.go` | table `transacoes` | create, edit, delete, list, totals | the row of a payment or of an instalment is also reached from here | instalments and payments keep what backs them |
| **Instalment plans and loans** `core/domain/parcelamento.go`, `financiamento.go`, `parcelamento_repository.go` | `parcelamentos`, `financiamentos`, their rows in `transacoes` | create, replace, delete with or without keeping the past | rounding to cents month by month; read, recompute and replace; opposite lock orders | the instalments add up; the balance reaches zero; the plan and its rows agree |
| **Dashboard and agenda** `financas_service.go`, `core/domain/resumo.go`, `agenda.go` | none | read-only, several queries | queries of different moments | nothing counted twice |
| **Accounts and sessions** `auth_service.go`, `session_store.go` (PostgreSQL or Redis) | `users.password_hash`, sessions | register, login, authenticate, logout, change password, revoke | hash and sessions written separately; `Touch` after `Delete` | after a change of password only the new session lives |
| **Login lock** `auth_service.go`, `core/domain/seguranca.go`, `seguranca_store.go`, `redis/login_attempts.go` | failures, window, end of the lock | count, lock, reset | count and lock are two calls; two stores | the lock grows with the failures |
| **Phone and e-mail verification** `verificacao_service.go`, `email_verificacao_service.go` | one challenge per user, attempts, per-process cache | start, confirm | send fails late; attempts read before they are counted; a new challenge replaces an old one | a code confirms only the contact it was sent to |
| **WhatsApp webhook** `webhook_service.go`, `webhook_handler.go` | unique `external_id` in `transacoes` | receive a message, reply | at-least-once delivery, late messages, replies after the write | one message, at most one transaction |
| **Tenant isolation** `tenant.go`, migration 0002 | transaction-local setting `app.user_id` | every repository call | pooled connections | a request sees its user's rows only |
| **Rate limiter** `middlewares/ratelimit.go`, `redis/ratelimiter.go` | token buckets | allow, clean up | bound on the keys | a client within its rate is not refused |
| **HTTP, DTOs, parser, providers, infrastructure** | none of the domain | conversions, I/O | — | — |

They interact by direct calls: handlers call services, services call repositories
(each call a transaction) and senders (outside services, which may fail), and the
foreign keys of the database connect the tables: deleting a card takes its
purchases and payments, deleting a transaction takes the payment it backs.  The
credit card writes to `transacoes`, so the transactions API is a second way to its
payments.  There are no background jobs over the tables: invoices are never
"closed" by anyone, a closed invoice is one whose closing day has gone by.

`PROJECT.json` has the full list of components with their state, and the hazards
of the code, each at its line, with the properties that watch it.

## The modules

```
Calendario             dates, months and their lengths
  CicloCartao          the card's cycle, the split of a purchase, the status
    CicloDiario        the cycle over time, one day per step
      MCCicloDiario
    CartaoRepository   the tables, and one operator per database transaction;
                       the properties of the tables
      CartaoAtomico    abstract: each operation checks and writes in one step
        CartaoService  detailed: each operation in its repository calls,
                       requests interleaved
          CartaoInterferencia  which requests write on what somebody changed
            MCCartao           after they had read it, and what that can break

Parcelas               a plan, its instalments and their rows
  ParcelamentoAtomico  abstract: each operation happens at once
  Parcelamento         detailed: one action per SQL statement, with row locks;
    MCParcelamento     INSTANCE ParcelamentoAtomico WITH its refinement mapping
Financiamento          the amortization table, one month per step
  MCFinanciamento

Verificacao            challenges for the phone and for the e-mail
  Webhook              deliveries of WhatsApp, which also confirm challenges
    MCWebhook          (two runs)
Autenticacao           sessions and the login lock, over either store
  MCAutenticacao
Limitador              token buckets, in memory or in Redis
  MCLimitador

CicloCartaoProofs, CicloDiarioProofs            the cycle
CartaoProofs                                    the card
ParcelamentoProofs, FinanciamentoProofs         plans and loans
WebhookProofs                                   webhook and verification together
AutenticacaoProofs                              sessions and the login lock
LimitadorProofs                                 the rate limiter
```

The card writes to `transacoes`, and so do instalment plans and the webhook, but no
row is shared between them: a row is born of a payment, of a plan or of a message,
and each module has those of its own.  What composes is the verification, which
`Webhook` extends: a message may carry a code while the application types another.

Operators marked *Mutant of X* or *A wrong version* are plausible mistakes;
nothing uses them in the specifications.  Substituted for the definition
`PROJECT.json` pairs them with, each one breaks the property of its entry, so each
property is known to be able to fail.

## How the model corresponds to the code

### The card and its cycle

**Dates.** A date is `[mes, dia]`, `mes` counting months from January of year 0.
Every date of the domain goes through `DateOnly`, so the time of day is left out.
The zone matters in one place, `definirStatus`, which compares "today" in the zone of
the application with a due date that may come from the database in UTC: there a
date becomes an `Instante`, the hour of its midnight, and `Fuso` is the offset of a
zone west of Greenwich (the default is `America/Sao_Paulo`, `config/config.go:341`).  `DiaNoMes`,
`AddMonthsClamped`, `FaturaDaCompra`, `FimDoCiclo` and the others are the functions
of the same names.  In `VencimentoDoFechamento` the code first clamps the closing
day into the target month and then replaces the day; only the month survives, so
the model adds the months directly.

**Tables.** `cartoes` and `transacoes` map ids to rows; `compras` and `pagamentos`
are sets of rows.  `transacoes` holds only those born from payments: any other has
no connection with the card.  Ids come from one counter, so a greater id was
inserted later, which is also what `created_at` says.  (A row's `created_at` is the
start of its transaction; two that overlap may be numbered either way, and in the
model the one that commits first is the earlier.)  There is one user: the
repositories filter by user and the row-level policies do so again.

**Database transactions.** Each operator of `CartaoRepository` with primed variables is one
`withTenant` call, all its statements included: the instalments of a purchase
(`CreateCompras`), the outgoing transaction and its payment
(`RegistrarPagamento`), both deletions of an undo (`RemoverUltimoPagamento`),
and the `ON DELETE CASCADE` of the foreign keys.  Foreign keys that would be
violated, and zero rows affected, are errors: the operator is not enabled.

**Requests.** `pedido[r]` holds what request `r` has read, and its `op` names the
repository call it makes next.

| Code | Actions |
|---|---|
| `Create` | `CriarCartao` |
| `Update` | `EditarCartao` (FindByID), `GravarCartao` |
| `Delete` | `ExcluirCartao` (FindByID and ResumoDasFaturas), `ApagarCartao` |
| `RegistrarCompra` | `RegistrarCompra` (FindByID), `ConferirCompra` (PagamentosDaFatura), `GravarCompra` |
| `ExcluirCompra` | `ExcluirCompra` (GrupoTemPagamento), `ApagarCompra` |
| `PagarFatura` | `PagarFatura` (FindByID), `LerCompras`, `LerPagamentos`, `GravarPagamento` |
| `DesfazerPagamento` | `DesfazerPagamento` (FindByID), `ApagarPagamento` |
| `TransacaoService.Update` | `EditarTransacao` (FindByID), `GravarTransacao` |
| `TransacaoService.Delete` | `ExcluirTransacao` |
| an error, a cancelled context, a crash of the server | `Abandonar` |

`Abandonar` is always possible for a request that has begun, because the context of
an HTTP request may be cancelled before any call, a connection may fail and the
process may stop; a request keeps nothing outside its own memory.  It is also how a
failed check ends, so checks are guards.  Two reads are merged with their
neighbour, where the order makes no difference: `FindByID` in `Delete` (nothing of
the card is kept, and a card that disappears in between is found missing by the
`DELETE`) and in `TransacaoService.Delete`.  A repository call is atomic in the
model: PostgreSQL runs at READ COMMITTED, but each of these transactions is one
`SELECT`, one statement that writes, or `INSERT`s and `DELETE`s of rows of its own; an
undo that meets another undo of the same payment affects no row and answers an
error, which is `Abandonar`.

Left out because no property tells them apart: names, categories, descriptions, the
limit, listings, metrics and logs, and the validation of lengths.  Inputs are
constants (`Dias`, `DatasCompra`, `ValoresCompra`, `Parcelas`, `Competencias`,
`DatasPagamento`, `ValoresInformados`, `EdicoesTransacao`); the validations on them
that matter are guards (`CompraValida`, `Valor`).

**What the use cases mean, and interference.** `CartaoAtomico` has the same checks and
the same writes in one step each; the variables of the tables are shared.  The service
does not implement it: two requests are enough for a check to be stale when its write
comes.  `CartaoInterferencia` says how far it does.  `Leitura` is what a request has
read and decides by, as the database has it now: the row of its card, the
purchases of the invoice or of the group it works on, the payments of the invoices that
matter to it, the transaction it edits.  The history variable `perturbado[r]` becomes
true when a step of somebody else changes `Leitura(pedido[r])`, and ends with the
request.  It constrains nothing: `Perturba` defines its next value at every step.

### Instalment plans and loans

`Parcelamento` goes one level deeper than the card, because here one repository
call is several statements on rows that other requests also write.

`planos` and `linhas` are the **committed** tables.  What an open transaction has
removed or detached (`apagadas`, `soltas`) is its own until it commits, and those
rows are locked; `dono` is the lock on the row of `parcelamentos`.  A statement is
modelled as PostgreSQL runs it at READ COMMITTED: it takes the committed rows that
match when it starts (`alvo`), visits them in any order, waits for a locked one, and
checks the new version of the row against its `WHERE`; rows committed after it
started are not seen.  Inserted rows are invisible and unlocked until the commit,
so the `INSERT`s and the commit are one step.

| Code | Actions |
|---|---|
| `Create`, `CreateWithParcelas` | `Criar` |
| `Update`: `FindByID`, then `ReplaceWithParcelas` | `Ler`; `AtualizarPlano` (UPDATE, which waits for the row), `ApagarParcelas`, `ApagarLinhaVisitada`, `FimDoApagar` (DELETE), `InserirParcelas` (INSERTs, commit) |
| `Delete` | `VerExiste` (SELECT EXISTS), `Soltar`, `SoltarLinhaVisitada`, `FimDoSoltar` (the UPDATE of `manter_pagas`), `ApagarParcelas` and its visits, `ApagarPlano` (DELETE), `Remover` (cascade done, commit) |
| `TransacaoService.Update` of an instalment | `EditarLinha` (FindByID and `Aplicar`), `GravarLinha` |
| `TransacaoService.Delete` | `PedirExclusao` or `RecusarExclusao` (409), `ExcluirLinha` |
| a rollback, for any reason | `Cair` |
| the deadlock detector | `Impasse`: some transaction of a circle of waits is cancelled |

A month is an integer and `Hoje` the current one; an instalment's row is named by the
request that wrote it and its number, which stands for its uuid.  Amounts are not
here: `PorParcela` and its remainder are in the card (`SomaDasParcelas`), and those of
a loan in `Financiamento`.

**The abstract specification** is `ParcelamentoAtomico`: registering, replacing,
removing and keeping happen at once, the instalments always being those of the plan.
The mapping of `RefinaAtomico`: `usados` is `criados`, `plano` is `planos`,
`parcelas[id]` the committed rows that reference `id`, `avulsas` the committed rows
that reference none.  What an open transaction did is not in the mapping, so a
commit is the one abstract step and every other statement stutters.

`Financiamento` is `Cronograma`, one action per turn of its loop.  `Simular` runs it
twice, with the monthly extra payment and without, to compare the totals; the model
turns both side by side (`Cenarios`).  Values are cents.  The two products of float64,
the interest of a month (`arredondaCentavos(saldo * i)`) and the payment of the Price
table, are the constants `JurosDoMes` and `Pmt`, of which only this is assumed: interest
does not decrease as the balance grows, and the payment covers the interest of the
first month.  Both follow from rounding a monotonic product; in the run they are
tables computed from the formulas with integers.

### Verification and webhook

The two services of verification are one protocol over a table each, and `canal`
says which.  Each repository or sender call is a step, `pedido[s].op` names it.
Codes are numbers drawn in sequence; `recebidos` says where each became known
(on the phone, in the mailbox, in the application that shows it for the method
`mensagem`), and a user types only codes he knows, or a wrong one.

| Code | Actions |
|---|---|
| `Start` | `Start` (FindByID, Get), `Salvar` (Save), `Enviar` (SendText, Send), `ApagarEnvio` (Delete after a failed send) |
| `Confirm`, `ConfirmByMessage` | `Confirm` or a message; `Ler` (Get and what is decided on it), `Errou` (IncrementAttempts), `Apagar` (Delete), `Marcar` (Mark...Verified), `ApagarUsado` (Delete, and the cache of the e-mail service) |
| `IsVerified` | `IsVerified` |
| a call that fails | `Falhar`, `FalharConfirmacao` |
| the cooldown and the time to live | `PassaOTempo` |

The challenge keeps the phone or the e-mail it was made for and `Confirm` compares it;
neither can be changed in this version of the API, so the comparison never refuses.

| Code of the webhook | Actions |
|---|---|
| a POST of the provider, with a batch | `Entregar`; also of messages another delivery is still processing |
| `process`, up to the decision | `ProcessarCodigo` (a "verificar" command), `Processar` (the checks in their order, `Recusa`; a query of the balance counts as `outro`) |
| `confirm` | `Confirmar` (the actions above), `Confirmou`, `ConfirmacaoFalhou` |
| `Create`, `ErrDuplicateExternalID` | `Gravar` |
| the goroutine of `reply` | `EnviarResposta` |
| 200 and 500 of the handler | `Ack`, `Erro500` (the rest of the batch is not processed) |
| failures | `FalharMensagem`, `GravarSemResposta` (committed, answer lost), `AckPerdido`, `Cair` (requests, replies not sent and cache are lost) |

### Sessions and the login lock

`Autenticacao` has one user.  `loja` chooses, at the start, PostgreSQL or Redis for the
sessions and for the attempts (`SESSION_STORE`, `LOGIN_ATTEMPTS_STORE`); each action of
a store says what both do, and where they differ: Redis keeps the sessions of a user
in a set with a time to live of its own, revokes in two calls (SMEMBERS, then the
deletion), recreates a hash by `HSET` without a time to live, and expires by itself what
PostgreSQL leaves for the cleanup.  A MULTI/EXEC is one step.

| Code | Actions |
|---|---|
| `Login` | `Login` (Get), `Credenciais`, `Rehash` (UpdatePasswordHash), `Registrar` and `Bloquear` (registerFailure), `Zerar` (Reset), `Criar` (newSession) |
| `ChangePassword` | `ChangePassword`, `GravarSenha`, `Encerrar` and `EncerrarLidas` (DeleteAllForUser), `Zerar`, `Criar` |
| `RevokeSessions` | `RevokeSessions`, `Encerrar`, `EncerrarLidas` |
| `Authenticate` | `Authenticate`, `Tocar` (Touch) or `Apagar` (idle) |
| `Logout` | `Logout`, `Apagar` |
| a call that fails and ends the request | `Falhar`; failures that are only logged are choices of each action |
| `cleanupJob` | `Limpar` |

A password is a model value, and its hash the same value with a flag for old
parameters.  One assumption on time: a login takes less than the window of the
attempts (24 hours), see `Passa`.

### Rate limiter

Time is in ticks and tokens in units, so that a tick brings less than a token.
In memory a request reads the clock (`LerRelogio`) and then takes the mutex (`Allow`),
so readings are counted out of order, at most `Atraso` ticks late; `Cleanup` removes
idle buckets.  In Redis the script reads the clock where it runs (`Script`), and the
key expires.  A client told to wait keeps the instant it was promised (`promessa`).
The refusal of a full map has a constant wait of one second and promises nothing.
`2 * Atraso <= Folga + 1` is assumed: nobody waits for the mutex for half a minute,
half of the margin a bucket is kept after it is full again.  Twice, because a request
may wait across the removal: the bucket it finds gone may have owed what an older
reading took back, and the one made in its place starts at a reading as old.  With
`Atraso = Folga = 2` TLC finds a client with more than its burst.
`RecusaJustificada` is exact in Redis; in memory it allows two waits for the mutex,
for the same two reasons.

## The runs

| Run | Bounds | Distinct states | Shows |
|---|---|---|---|
| `ciclo_diario` | closing and due days in {1, 2, 5, 15, 20, 27..31}, all pairs; each day of December 2027 to March 2029; three hours west of UTC | 48,800 | every day is in the cycle of its invoice, invoices follow each other without gap, repetition or merging, none falls due before closing; up to due day 28 all 36 instalments fall in invoices of the card; the page of an invoice is open exactly while its cycle runs |
| `cartao` | 2 requests, one card at a time, 4 inserts, due days 5 and 25, two instalments, two invoices, partial and excess payments, transactions edited and deleted | 1,068,753 | whole purchases, money and payment together, an excess payment frees no limit of other invoices; a write is the whole operation of its request unless somebody changed what it had read, and the mistakes the checks are there to prevent happen only then; invoices get out of reach by an edition of the due day only |
| `parcelamento` | 3 requests, 1 plan, at most 2 instalments, dated this month or the next | 66,908 | plans and rows agree at every commit, no orphans, an instalment stays an expense, what the user saw as paid is kept, every accepted request is answered, and each commit is one abstract step |
| `financiamento` | values to 60 cents, terms to 4, extra to 6 cents, rates 0, 2%, 10% and 50% | 45,563 | the table amortizes the value exactly, Price amortizes every month, SAC never grows, the extra payment never costs more |
| `verificacao` | two requests of the application and a delivery, 1 message, the phone (either contact possibly verified before), 2 codes, 2 attempts | 2,280,269 | only a code that reached a contact confirms it from the application; the attempts on a challenge have a ceiling; nothing is registered before the verification |
| `webhook` | 2 deliveries, 2 messages in batches of either order, 2 failures | 109,114 | one registration per message, replies and acknowledgements are true, every message is confirmed in the end |
| `autenticacao` | 3 requests, 2 sessions, 2 passwords, 3 ticks; session of 3 ticks, idle 1, lock 2 and at most 3, window 2; both stores | 484,142 | ended sessions stay ended, the index in Redis is complete, revocation reaches all, locks have a ceiling |
| `limitador` | 2 keys (1 in Redis), 3 requests, a map of 1 key, a token of 3 units, 2 units per tick, burst 3, 7 ticks | 884,732 | never more than burst and rate in any window, no refusal without reason, waiting as told is enough |

Why these bounds are enough.  The functions of the cycle depend on the days and on
the lengths of at most three consecutive months, so the days around 28 to 31, one in
the middle and one at the start, over an ordinary and a leap February and a new year,
meet every combination of clamping (and the theorems cover the rest).  In the card,
what can go wrong needs one card, a purchase in two invoices and one or two payments:
four inserts.  Two requests are enough for a check that becomes stale, since a check
concerns one invoice or one card, and TLC reaches each of the five mistakes of
`Engano` in this run, in 7 to 13 steps.  There is one card at a time (`MaxCartoes`): requests
on different cards meet in nothing they read, and the theorems cover any number.  Values:
3 cents leave a remainder when split in two, 1 cent is a partial payment and 5 an excess.
`MaxMoney` is 1000 in the runs, far above any sum: no property here is about it.  All
payments have one date: undoing takes the last by date, which no property is about (see
the next section).

A plan needs three requests: one to register it and two to meet, and two rows are enough
for a circle of waits (each holding what the other wants).  The amounts of a loan go
below one cent of interest and above one cent of remainder in every term up to 4, and
rates of 50% exhaust the balance early.  Two deliveries are enough to process a
message twice at once, two messages to fail in the middle of a batch.  Verification
needs two codes and two requests of the application for a challenge to replace another
while a code is being checked, or for the failed sending of one to delete the next; and
two attempts for one to be the last.  That run starts challenges for the phone, which has
both methods (with both contacts it is too large for TLC; the theorems are for both);
`JaVerificados` lets either contact be verified from the start, so that the checks of
the webhook pass and fail in every combination.  Three requests in `autenticacao`: one to create the first session, one to end
it, one that had read it; three ticks let a session, an idle time, a lock and a window
end.  Seven ticks of the limiter fill an empty bucket, keep it idle past its removal
and start again; three requests let two readings wait while a third is counted.

**Deadlock** is checked for the cycle, whose horizon is an explicit action.  The other
configurations say `CHECK_DEADLOCK FALSE` because there the model may stop where the
system would not: a request performs one operation (`Parcelamento`, `Autenticacao`),
ids, codes, tokens and time are bounded, every message has been confirmed, a loan
ends.  That nobody waits for ever is a liveness property of its own,
`TodaRequisicaoTermina`.

**Fairness.** `Parcelamento`: weak fairness of `Passo(r)`, since the server keeps
running a request it accepted and PostgreSQL grants a lock that is free, and of
`Impasse(r)`, since the database runs its detector after `deadlock_timeout`; nothing
obliges a request to arrive nor a connection to fall.  `Webhook`: weak fairness of
the steps of a delivery and, for each message, of its redelivery, which is what the code
itself relies on (the handler answers 500 so that "o provedor reenvia"); failures are
bounded by `MaxFalhas`, which stands for their not being permanent.  The card, the
sessions and the limiter promise nothing that must happen later, and a request may be
abandoned at any point: no fairness there.

## What disagrees with the documents

Each of these runs checks one sentence of the documents or comments, which the code
does not keep; the findings of `PROJECT.json` quote them.

| Run | Requests | What happens |
|---|---|---|
| `v_parcela_em_fatura_paga` | 1 | only the invoice of the first instalment is looked at: the second one enters an invoice already paid |
| `v_manter_pagas` | 3 | a removal with `manter_pagas` detaches the rows its UPDATE sees; those an edition commits meanwhile are seen by the DELETE only, and instalments dated up to today are lost |
| `v_troca_desfeita` | 3 | the rehash of a login writes the hash of the password it verified, over the one a change of password has just written |
| `v_resumo_fecha_antes` | — | on the closing day the summary of the cards says "fechada" of the invoice where the purchases of the day still fall, because the due date comes from the database in UTC and today is in the zone of the application; the test of the status (`fatura_test.go:112`) has both in one zone |

Others were met while modelling and have no run, because their cause is one of a few:

- *Two requests, a check in one transaction and the write in another.*  Two
  simultaneous payments of an invoice both find it unpaid; a purchase is deleted while
  its invoice is being paid; a purchase registered while its card is deleted is lost in
  the cascade; one registered while the card is archived is kept; one registered while
  its first invoice is being paid enters it.  All five happen in the run `cartao`, and
  the code prevents none of them.  `EnganoSoPorLeituraVelha` is what can be said of it: the
  request that wrote had read something that somebody else changed before it wrote.
  A login that verified the former password may create its session after the change of
  password has deleted all.  Simultaneous confirmations pass the maximum of attempts
  (`docs/ARQUITETURA.md:160` says five wrong ones invalidate the challenge), by less than
  the number of requests served at once (`TentativasTemTeto`).
- *Dates stored in one place and recomputed in another.*  After the due day of a card
  is edited, no competence leads to its old invoices (`vencimentoDe` uses the day
  configured now), and `SoEdicaoEscondeFatura` says that nothing else hides them up to
  day 28; with due day 29 to 31, instalments that start in a short month
  fall on days without invoice, since months are added to a date already clamped
  (`ParcelasAteDia28` states the condition).
- *The last payment.*  `RemoverUltimoPagamento` takes the last by date
  (`cartao_repository.go:440`), and its comment (line 430) says it is what the
  person has just done: with a payment registered now and dated in the past, it is not.
- *One use case that does not know of another.*  The transaction of a payment may be
  edited to another value through the transactions API; the answer of a payment
  shows the value of the payment before it.

`docs/REGRAS-DE-NEGOCIO.md:48` still says the due date is the *next occurrence* of the
day after the closing; the comment at `cartao.go:83` explains why the code uses a fixed
offset instead, with which a card that closes on 30 and falls due on 31 falls due on
its closing day in April.  What the code does keep is `VencimentoDepoisDoFechamento`.

## What is proved

All with TLAPS, for every value of the constants: any number of requests, cards,
purchases and inputs, any configured days, any range of months.

**The cycle** (`CicloCartaoProofs`, `CicloDiarioProofs`).  The lemmas say what the
functions give: `DiaNoMes` is a date of its month, `FimDoCiclo` inverts
`VencimentoDoFechamento`, different closings never share a due date, a purchase lies
in the displayed cycle of its invoice.  The invariant `IInv` of `CicloDiario`
adds to the types that `emAberto` is the invoice of today and that the closed ones
are due before it, month by month.  It is needed because `StatusAcompanhaOCiclo` speaks of
all the invoices that ever closed, and a step knows only of the one that closes.  What the
summaries show is stated exactly by `ResumoFechaUmDiaAntes`, for any zone west of
UTC: the status of the page on every day but the closing day.

**Any interleaving** (`CartaoProofs`).  `IInv` is `TabelasInv` (types, references,
whole purchases, ids not yet drawn are used nowhere) and `PedidosInv` (types of
what requests remember; the rows of a purchase not yet written are one whole
purchase of one card).  `CompraInteira` is not inductive without the second: the
rows come from what the request carries.  The ids are needed so that a new group or
transaction cannot meet an old one.  Each transaction preserves `TabelasInv`
(`EscritaTabelasInv`), so each action preserves `IInv`; no lemma speaks of two
requests.  From it: `TypeOK`, `ReferenciasValidas`, `CompraInteira` and
`DinheiroEPagamentoJuntos`.

**Sums** (`CartaoProofs`).  `PagamentoSoLiberaASuaFatura` is about two sums, what each
invoice has left and the sum of that over the invoices of a card, which the model
takes with a fold.  A fold over a set is a function defined by recursion on its parts;
that it exists, that it is the only one (`AcumulaUnica`) and that the order of the
elements does not matter (`AcumulaTira`) follow from the strict order of the parts of a
finite set being well-founded: a set of counterexamples would have a least one
(`SubconjuntoMinimo`).  So the tables must be finite, which is an invariant of its own
(`Finitas`: a purchase has at most 36 rows because no two are the same instalment).  Then
a payment adds its value to the sum of one invoice (`SomaMaisUma`), what is left of that
invoice falls by the lesser of the value and what was left, and the total by as much
(`SomasQueDiferemEmUm`).  It holds for any interleaving; the clipping at zero of each invoice is what the proof turns on, and the reason
`TotalNaoPagoNoBolo` is wrong.

**Interference** (`CartaoProofs`), for any number of requests.  `AtualInv`: what an
undisturbed request carries is what the database still holds, and the checks it has made
hold there (`Atual`).  It is inductive because all that `Atual` says depends on
`Leitura` only (`LeituraDecide`): a step of another request changes it, and the request
is disturbed, or leaves it, and it is as current as before (`PassoGuardaAtual`).
So at the write its checks hold, and the write is the operation of
`CartaoAtomico`: `EscritasSaoOperacoes`.  An operation done at once makes none of the five
mistakes (`OperacaoSemEngano`), and so `EnganosTemUmaCausa` follows.
`EdicaoEscondeFatura` uses the same invariant: the instalments an undisturbed request
is about to write were computed with the days the card has now, and up to due day 28
those are days that a competence leads to (`ParcelaNaFaturaDoCartao`).

**Instalment plans** (`ParcelamentoProofs`), for any number of requests, plans and
instalments.  `PInv` is what every commit leaves in the tables (`ParcelasDoPlano`,
`SemOrfas` and `ParcelaESaida` among it), that a row is changed by one open transaction
at a time (`Exclusivas`), and for each request `Andamento`: what it holds and knows at
the statement it is at.  The heart of it is what an edition knows once its `DELETE`
started, and a removal once it has the row of `parcelamentos`: every committed
instalment of the plan is one it still has to visit or has already removed or
detached.  No other request can take that away (`Preserva`, and the lemma `Preservado`),
because *whoever commits instalments of a plan holds its row*.  A removal that has not
reached the row yet knows nothing of the kind, which is where `v_manter_pagas` comes
from.  From `PInv` the three invariants follow, and `RefinaAtomico`: each commit is one
action of `ParcelamentoAtomico` and every other step leaves the mapped variables alone.

`ManterPagas` needs two invariants more.  `MInv` follows the rows a removal has to save,
those that were paid when it arrived and that nobody touched since: while its UPDATE
runs each is still to be visited or already detached (`Salvas`), afterwards all are
detached, so neither its DELETE nor the cascade reaches them.  That the rows stay as
they are meanwhile is `Envelhece`: a row whose request has finished changes only by being
removed, marked as edited, or taken out of its plan.  `EmAberto`, that a request in progress has
no answer yet, ties the answer of the property to the commit.  `v_manter_pagas` asks the
same of every instalment due at the commit, and is false.

**Loans** (`FinanciamentoProofs`), for any values, terms and rates.  `IInv` adds two
things to the properties: at the end of the term the balance is zero (`Saldos`), and in
SAC (`NoRitmo`) the balance is at most what the remaining rows take and the last row
had no less interest nor amortization than the next one will.  In Price the balance is
never above the value, so its interest never exceeds the payment (there the assumption
on `JurosDoMes` is used).  `AporteNaoEncarece` is inductive because a smaller balance pays
no more interest, so it stays the smaller one.

**Webhook and verification** (`WebhookProofs`).  `VInv` follows a code from where it is
generated to where it is used: it is found only where its challenge sent it
(`CodigoNoDestino`, `EnvioNoCanal`), what a user types he had received
(`DigitadoRecebido`), and a challenge is forgotten only after the column was written
(`UsadoVerificado`).  `ProvaDePosse` alone is not inductive: a code shown in the
application would confirm a phone if a challenge of the other method could take its
number.  `WInv` adds the deliveries: where each is in its batch (`Posicao`), that what
it left behind has a status (`Tratadas`), the rows, replies and status of a message
(`Registros`), and that who is about to register has seen what is required verified.
Every action of `Verificacao` preserves `VInv` on its own, for the application and for
the webhook alike.  `TetoInv` is for the attempts: those counted on a challenge and the
confirmations about to count one more are together below the maximum plus the number
of slots.  A confirmation that begins to count has read a challenge below the maximum,
and there are no more of them than slots; counting moves one from the second term to
the first.

**Sessions** (`AutenticacaoProofs`).  `AInv` has two parts.  `Depositos`: a session in the
table was created, and in Redis one that lives is in the set of the user, which outlives
it.  `Encerrando`: of the sessions a request must end, those left are among the ones
SMEMBERS listed, until the deletion, and then there are none.  Without the first,
SMEMBERS could miss a session; the second needs that no session comes back
(`SemVolta`), which every operation of the stores gives.

**The login lock** (`AutenticacaoProofs`).  `TInv` has the types and what each request
carries to its next call, a lock already computed and not yet written included.
`BloqueioTemTeto` follows from it because every lock is measured from a reading of the
clock, which is never ahead, and `LockDuration` does not exceed `MaxLock` however often it
doubles.

**Rate limiter** (`LimitadorProofs`), for any burst, rate, keys, requests and waits within
the margin.  The readings of the clock come out of order, so the level of a bucket goes
up and down; what only falls, while the bucket lives, is its level carried back to
time 0 (`Nivel`, `tokens - last * Taxa`): by a token for each request accepted, and to
what a full bucket would hold.  `LInv` says of each bucket what that level has paid for
(`Paga`: whatever was accepted in a window comes out of a bucket that was full no earlier
than the window began), how much an older reading may have taken back, and of the promise
made to its key that it is still good.  Of a bucket that is gone (`Esquecido`) it says
that a full one in its place gives no window too much, which is where the margin is
used.  `SemExcesso`, `EsperaBasta` and `RecusaJustificada` follow.

Assumptions: those on the constants, named in each module (`EntradasAssumption`,
`MaxMoneyAssumption`, `MaxIdsAssumption`, `DiasAssumption`, `MesesAssumption`,
`FusoAssumption`, `ParcelasAssumption`, `NuloAssumption`, `FinanciamentoAssumption`,
`VerificacaoAssumption`, `WebhookAssumption`, `AutenticacaoAssumption`,
`LimitadorAssumption`).  TLC evaluates them in each run.  The types of every module
(`TypeOK`) are proved; the runs of `Autenticacao` and `Limitador` check them too, because there
a plausible bug breaks them: failures counted down, and a reading of another clock.

## What is only model-checked, and what is left out

Checked by TLC only: liveness, `TodaRequisicaoTermina` and `TodaMensagemConfirmada`.
Fairness and ENABLED are out of the prover's reach.

Proved and without a run of their own, because another property of the runs says more or
because they only repeat what the schema enforces: `UmaFaturaPorMes`
(`AberturaDeFaturas`), `ResumoFechaUmDiaAntes` (the other side of the violated run),
`ReferenciasValidas`, `ParcelaPositiva`, `CacheConfere`, and the types.

Abstractions that bound what the results mean:

- In the card a repository call is one step, as the section on it explains; a deadlock
  there (an undo against the deletion of its transaction) ends with one of them
  cancelled, which is `Abandonar`.  Only `Parcelamento` models the waiting.
- The arithmetic of float64 in a loan is a table with the assumptions stated.
- One user everywhere; the verification runs with one user and one process.
- A message without an id writes no `external_id`, so its redeliveries are registered
  again; a transaction that its user deletes between two deliveries frees its
  `external_id`.  In `Webhook` every message has an id and its row stays.
- The transaction of a payment of an invoice and the rows of a purchase are each one
  database transaction, hence one step: an error in the middle is a rollback.
- What the properties allow because the code does: an edition of one instalment
  overwritten by an edition of its plan, a lock replaced by a shorter one, a reply
  lost in a crash, sessions left open when a change of password fails half-way.

Not modelled, and why:

- *Dashboard and agenda, summary of a card, listings, totals*: reads only.  They may show
  two moments in one answer; no write depends on them.
- *Parser and money*: regular expressions and text, without state.
- *Tenant isolation*: `set_config(..., true)` ends with its transaction
  (`tenant.go:27`), so the pool carries nothing over; the rest is SQL policies.
- *Registration and profile*: single statements with unique keys and field validation.
- *HTTP, providers, infrastructure*: conversions and I/O.  Failures and redeliveries of
  the providers are in the modules that meet them.
