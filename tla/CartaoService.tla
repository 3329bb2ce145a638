---------------------------- MODULE CartaoService ----------------------------
(***************************************************************************)
(* The credit card as the HTTP requests use it: the operations of          *)
(* cartao_service.go, and the edition and removal of the transactions born *)
(* from payments (TransacaoService), served concurrently.                  *)
(*                                                                         *)
(* A request calls the repository several times, and each call is a        *)
(* transaction of its own (withTenant): between two calls any other        *)
(* request may run.  pedido[r] is what request r remembers between its     *)
(* calls, and its op names the call it makes next; Livre is a request slot *)
(* that serves nothing.  Everything a request computes without touching    *)
(* the database belongs to the step of the call that precedes it.          *)
(*                                                                         *)
(* A request whose checks fail answers an error and writes nothing; so do  *)
(* one whose context is cancelled and one lost in a crash of the server.   *)
(* They are all Abandonar, which may also end a request whose checks pass. *)
(*                                                                         *)
(* CartaoAtomico says what each operation does when nothing comes between  *)
(* its calls; CartaoInterferencia, how far the requests keep to that when  *)
(* others do.                                                              *)
(***************************************************************************)
EXTENDS CartaoAtomico

CONSTANT Req    \* slots of concurrent requests

VARIABLE pedido
vars == <<tabelas, pedido>>

Livre == [op |-> "livre"]

Comeca(r, p) == pedido[r] = Livre /\ pedido' = [pedido EXCEPT ![r] = p]
Segue(r, op, p) == pedido[r].op = op /\ pedido' = [pedido EXCEPT ![r] = p]
Termina(r, op) == Segue(r, op, Livre)

Init == Vazias /\ pedido = [r \in Req |-> Livre]

-------------------------------------------------------------------------------
(* Cards *)

CriarCartao(r) ==
  /\ pedido[r] = Livre
  /\ \E dias \in Dias : Create(CartaoCom(dias, TRUE))
  /\ UNCHANGED pedido

\* Update: FindByID, and the new row keeps the ativo just read unless the
\* client states one.
EditarCartao(r) ==
  /\ \E id \in DOMAIN cartoes, dias \in Dias :
       \/ Comeca(r, [op |-> "update", cartao |-> id, pediuAtivo |-> FALSE,
                     novo |-> CartaoCom(dias, cartoes[id].ativo)])
       \/ \E ativo \in BOOLEAN :
            Comeca(r, [op |-> "update", cartao |-> id, pediuAtivo |-> TRUE,
                       novo |-> CartaoCom(dias, ativo)])
  /\ UNCHANGED tabelas

GravarCartao(r) ==
  /\ Termina(r, "update")
  /\ Update(pedido[r].cartao, pedido[r].novo)

\* Mutant of ExcluirCartao: the history is not looked at.
ExcluirSemHistorico(r) ==
  /\ \E id \in DOMAIN cartoes : Comeca(r, [op |-> "delete", cartao |-> id])
  /\ UNCHANGED tabelas

\* Delete: FindByID and ResumoDasFaturas.  Nothing of the card is kept, and a
\* card that goes between the two is caught again by the DELETE, so the two
\* reads are one step.
ExcluirCartao(r) ==
  /\ \E id \in DOMAIN cartoes :
       /\ ResumoDasFaturas(id) = {}
       /\ Comeca(r, [op |-> "delete", cartao |-> id])
  /\ UNCHANGED tabelas

ApagarCartao(r) ==
  /\ Termina(r, "delete")
  /\ Delete(pedido[r].cartao)

-------------------------------------------------------------------------------
(* Purchases *)

\* RegistrarCompra, up to FindByID: an archived card is refused, and the
\* instalments are computed with the days just read.
RegistrarCompra(r) ==
  /\ \E id \in DOMAIN cartoes, data \in DatasCompra, valor \in ValoresCompra,
        n \in Parcelas :
       /\ cartoes[id].ativo
       /\ CompraValida(valor, n) /\ valor <= MaxMoney
       /\ Comeca(r, [op |-> "conferirCompra", cartao |-> id,
                     linhas |-> LinhasDaCompra(id, cartoes[id], data, valor, n)])
  /\ UNCHANGED tabelas

\* Mutant of ConferirCompra: the payments are not looked at.
ConferirNada(r) ==
  LET p == pedido[r]
  IN /\ Segue(r, "conferirCompra",
              [op |-> "createCompras", cartao |-> p.cartao, linhas |-> p.linhas])
     /\ UNCHANGED tabelas

\* PagamentosDaFatura, of the invoice of the first instalment.
ConferirCompra(r) ==
  LET p == pedido[r]
  IN /\ Segue(r, "conferirCompra",
              [op |-> "createCompras", cartao |-> p.cartao, linhas |-> p.linhas])
     /\ PagamentosDaFatura(p.cartao, Primeira(p.linhas).fatura) = {}
     /\ UNCHANGED tabelas

GravarCompra(r) ==
  /\ Termina(r, "createCompras")
  /\ CreateCompras(pedido[r].cartao, pedido[r].linhas)

\* Mutant of ExcluirCompra: the payments are not looked at.
ExcluirSemConferir(r) ==
  /\ \E grupo \in {l.grupo : l \in compras} :
       Comeca(r, [op |-> "deleteCompraGrupo", grupo |-> grupo])
  /\ UNCHANGED tabelas

ExcluirCompra(r) ==
  /\ \E grupo \in {l.grupo : l \in compras} :
       /\ ~ GrupoTemPagamento(grupo)
       /\ Comeca(r, [op |-> "deleteCompraGrupo", grupo |-> grupo])
  /\ UNCHANGED tabelas

ApagarCompra(r) ==
  /\ Termina(r, "deleteCompraGrupo")
  /\ DeleteCompraGrupo(pedido[r].grupo)

-------------------------------------------------------------------------------
(* Payments *)

\* PagarFatura: FindByID, and the due date the competence stands for now.
PagarFatura(r) ==
  /\ \E id \in DOMAIN cartoes, competencia \in Competencias :
       Comeca(r, [op |-> "comprasDaFatura", cartao |-> id,
                  vencimento |-> VencimentoDe(cartoes[id], competencia)])
  /\ UNCHANGED tabelas

LerCompras(r) ==
  LET p == pedido[r]
  IN /\ Segue(r, "comprasDaFatura",
              [op |-> "pagamentosDaFatura", cartao |-> p.cartao,
               vencimento |-> p.vencimento,
               compras |-> ComprasDaFatura(p.cartao, p.vencimento)])
     /\ UNCHANGED tabelas

\* Mutant of LerPagamentos: a paid invoice is not refused.
LerSemQuitada(r) ==
  LET p == pedido[r]
      pago == Soma(PagamentosDaFatura(p.cartao, p.vencimento))
      total == Soma(p.compras)
  IN /\ p.op = "pagamentosDaFatura"
     /\ total > 0
     /\ \E valor \in ValoresDoPagamento(total, pago), pagoEm \in DatasPagamento :
          Segue(r, "pagamentosDaFatura",
                [op |-> "registrarPagamento", cartao |-> p.cartao,
                 vencimento |-> p.vencimento, valor |-> valor, pagoEm |-> pagoEm])
     /\ UNCHANGED tabelas

\* PagamentosDaFatura, the checks on the invoice put together, and the amount
\* (ValoresDoPagamento).
LerPagamentos(r) ==
  LET p == pedido[r]
      total == Soma(p.compras)
      pago == Soma(PagamentosDaFatura(p.cartao, p.vencimento))
  IN /\ p.op = "pagamentosDaFatura"
     /\ ~ Quitada(total, pago)
     /\ total > 0
     /\ \E valor \in ValoresDoPagamento(total, pago), pagoEm \in DatasPagamento :
          Segue(r, "pagamentosDaFatura",
                [op |-> "registrarPagamento", cartao |-> p.cartao,
                 vencimento |-> p.vencimento, valor |-> valor, pagoEm |-> pagoEm])
     /\ UNCHANGED tabelas

GravarPagamento(r) ==
  LET p == pedido[r]
  IN /\ Termina(r, "registrarPagamento")
     /\ RegistrarPagamento(p.cartao, p.vencimento, p.valor, p.pagoEm)

\* DesfazerPagamento, up to FindByID.
DesfazerPagamento(r) ==
  /\ \E id \in DOMAIN cartoes, competencia \in Competencias :
       Comeca(r, [op |-> "removerUltimoPagamento", cartao |-> id,
                  vencimento |-> VencimentoDe(cartoes[id], competencia)])
  /\ UNCHANGED tabelas

ApagarPagamento(r) ==
  /\ Termina(r, "removerUltimoPagamento")
  /\ RemoverUltimoPagamento(pedido[r].cartao, pedido[r].vencimento)

-------------------------------------------------------------------------------
(* Transactions born from payments (TransacaoService) *)

\* Update: FindByID, and the new row keeps the date just read unless the client
\* states one.  Nothing asks whether the transaction backs a payment.
EditarTransacao(r) ==
  /\ \E t \in DOMAIN transacoes, e \in EdicoesTransacao :
       \E data \in DatasPagamento \cup {transacoes[t].data} :
         /\ e.valor \in Valor
         /\ Comeca(r, [op |-> "updateTransacao", transacao |-> t,
                       novo |-> [tipo |-> e.tipo, valor |-> e.valor, data |-> data]])
  /\ UNCHANGED tabelas

GravarTransacao(r) ==
  /\ Termina(r, "updateTransacao")
  /\ UpdateTransacao(pedido[r].transacao, pedido[r].novo)

\* Delete: FindByID keeps nothing (these transactions have no parcelamento), so
\* it is one step with the DELETE.
ExcluirTransacao(r) ==
  /\ pedido[r] = Livre
  /\ \E t \in DOMAIN transacoes : DeleteTransacao(t)
  /\ UNCHANGED pedido

-------------------------------------------------------------------------------
Abandonar(r) ==
  /\ pedido[r] # Livre
  /\ pedido' = [pedido EXCEPT ![r] = Livre]
  /\ UNCHANGED tabelas

Passo(r) ==
  \/ CriarCartao(r) \/ EditarCartao(r) \/ GravarCartao(r)
  \/ ExcluirCartao(r) \/ ApagarCartao(r)
  \/ RegistrarCompra(r) \/ ConferirCompra(r) \/ GravarCompra(r)
  \/ ExcluirCompra(r) \/ ApagarCompra(r)
  \/ PagarFatura(r) \/ LerCompras(r) \/ LerPagamentos(r) \/ GravarPagamento(r)
  \/ DesfazerPagamento(r) \/ ApagarPagamento(r)
  \/ EditarTransacao(r) \/ GravarTransacao(r) \/ ExcluirTransacao(r)
  \/ Abandonar(r)

Next == \E r \in Req : Passo(r)
Spec == Init /\ [][Next]_vars

-------------------------------------------------------------------------------
(* Type correctness *)

\* What a request may remember, by the call it makes next.
PedidoCartao == [op : {"update"}, cartao : Id, pediuAtivo : BOOLEAN, novo : Cartao]
PedidoDelete == [op : {"delete"}, cartao : Id]
PedidoCompra == [op : {"conferirCompra", "createCompras"}, cartao : Id,
                 linhas : SUBSET Compra]
PedidoGrupo == [op : {"deleteCompraGrupo"}, grupo : Nat]
PedidoFatura == [op : {"comprasDaFatura", "removerUltimoPagamento"}, cartao : Id,
                 vencimento : Data]
PedidoTotal == [op : {"pagamentosDaFatura"}, cartao : Id, vencimento : Data,
                compras : SUBSET Compra]
PedidoPagamento == [op : {"registrarPagamento"}, cartao : Id, vencimento : Data,
                    valor : Valor, pagoEm : Data]
PedidoTransacao == [op : {"updateTransacao"}, transacao : Id, novo : Transacao]

Pedido ==
  {Livre} \cup PedidoCartao \cup PedidoDelete \cup PedidoCompra \cup PedidoGrupo
    \cup PedidoFatura \cup PedidoTotal \cup PedidoPagamento \cup PedidoTransacao

\* Type correctness of the tables and of what the requests remember.
TypeOK == TabelasTypeOK /\ pedido \in [Req -> Pedido]

===============================================================================
