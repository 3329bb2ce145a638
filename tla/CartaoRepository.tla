--------------------------- MODULE CartaoRepository ---------------------------
(***************************************************************************)
(* The tables of the credit card (migrations 0008 and 0009) of one user    *)
(* and the database transactions of cartao_repository.go and               *)
(* transacao_repository.go over them.  Every operator below that has a     *)
(* primed variable is ONE transaction, so it is atomic; what is not        *)
(* atomic, the services that chain several of them, is in CartaoService.   *)
(*                                                                         *)
(* A table is a function from ids to rows (cartoes, transacoes) or a set   *)
(* of rows (compras: one per instalment; pagamentos: identified by their   *)
(* transacao, which is UNIQUE).  Ids are drawn from one counter, so they   *)
(* are never reused (UUIDs) and a larger id means a later created_at.      *)
(* Names, categories and descriptions are left out.                        *)
(***************************************************************************)
EXTENDS CicloCartao, FiniteSetsExt

CONSTANTS MaxMoney,   \* domain.MaxMoney, the largest amount of a transaction
          MaxIds,     \* bound: rows that are ever inserted
          MaxCartoes  \* bound: cards there are at a time

ASSUME MaxMoneyAssumption == MaxMoney \in Nat \ {0}
ASSUME MaxIdsAssumption == MaxIds \in Nat /\ MaxCartoes \in Nat

VARIABLES cartoes,     \* id -> [diaFechamento, diaVencimento, ativo]
          compras,     \* instalments: [cartao, grupo, parcela, total, valor, fatura]
          pagamentos,  \* [cartao, vencimento, transacao, valor, pagoEm]
          transacoes,  \* id -> [tipo, valor, data], those born as payments
          proximoId

tabelas == <<cartoes, compras, pagamentos, transacoes, proximoId>>

Id == Nat \ {0}
Valor == 1 .. MaxMoney
Cartao == [diaFechamento : Dia, diaVencimento : Dia, ativo : BOOLEAN]
Compra == [cartao : Id, grupo : Nat, parcela : 1 .. 36, total : 1 .. 36,
           valor : Nat \ {0}, fatura : Data]
Pagamento == [cartao : Id, vencimento : Data, transacao : Id, valor : Valor,
              pagoEm : Data]
Transacao == [tipo : {"entrada", "saida"}, valor : Valor, data : Data]

SemLinhas == [id \in {} |-> id]
Vazias == /\ cartoes = SemLinhas
          /\ transacoes = SemLinhas
          /\ compras = {}
          /\ pagamentos = {}
          /\ proximoId = 1

Inserir(tabela, id, linha) ==
  [k \in DOMAIN tabela \cup {id} |-> IF k = id THEN linha ELSE tabela[k]]
Remover(tabela, id) == [k \in DOMAIN tabela \ {id} |-> tabela[k]]

NovoId == proximoId <= MaxIds /\ proximoId' = proximoId + 1

-------------------------------------------------------------------------------
(* Queries *)

ComprasDaFatura(id, vencimento) ==
  {l \in compras : l.cartao = id /\ l.fatura = vencimento}

PagamentosDaFatura(id, vencimento) ==
  {p \in pagamentos : p.cartao = id /\ p.vencimento = vencimento}

GrupoTemPagamento(grupo) ==
  \E l \in compras : l.grupo = grupo /\ PagamentosDaFatura(l.cartao, l.fatura) # {}

\* ResumoDasFaturas has a row per invoice that has purchases.
ResumoDasFaturas(id) == {l.fatura : l \in {k \in compras : k.cartao = id}}

\* ORDER BY pago_em, created_at
PagoAntes(p, q) ==
  Antes(p.pagoEm, q.pagoEm) \/ (p.pagoEm = q.pagoEm /\ p.transacao < q.transacao)
EhOUltimo(p, pagos) == p \in pagos /\ \A q \in pagos : q = p \/ PagoAntes(q, p)

-------------------------------------------------------------------------------
(* The invoice made of purchases and payments (core/domain/fatura.go) *)

Soma(linhas) == MapThenSumSet(LAMBDA l : l.valor, linhas)

RestanteDaFatura(id, vencimento) ==
  Restante(Soma(ComprasDaFatura(id, vencimento)),
           Soma(PagamentosDaFatura(id, vencimento)))

\* Mutant of TotalNaoPago: one account for all the invoices of the card.
TotalNaoPagoNoBolo(id) ==
  Restante(Soma({l \in compras : l.cartao = id}), Soma({p \in pagamentos : p.cartao = id}))

\* What holds the limit of the card: GREATEST(total - pago, 0) of each invoice.
TotalNaoPago(id) ==
  MapThenSumSet(LAMBDA v : RestanteDaFatura(id, v), ResumoDasFaturas(id))

FaturaQuitada(id, vencimento) ==
  Quitada(Soma(ComprasDaFatura(id, vencimento)), Soma(PagamentosDaFatura(id, vencimento)))

-------------------------------------------------------------------------------
(* Transactions *)

Create(cartao) ==
  /\ Cardinality(DOMAIN cartoes) < MaxCartoes
  /\ NovoId
  /\ cartoes' = Inserir(cartoes, proximoId, cartao)
  /\ UNCHANGED <<compras, pagamentos, transacoes>>

\* 0 rows affected is an error: the card has to be there.
Update(id, cartao) ==
  /\ id \in DOMAIN cartoes
  /\ cartoes' = [cartoes EXCEPT ![id] = cartao]
  /\ UNCHANGED <<compras, pagamentos, transacoes, proximoId>>

\* ON DELETE CASCADE takes purchases and payments along, not the transactions.
Delete(id) ==
  /\ id \in DOMAIN cartoes
  /\ cartoes' = Remover(cartoes, id)
  /\ compras' = {l \in compras : l.cartao # id}
  /\ pagamentos' = {p \in pagamentos : p.cartao # id}
  /\ UNCHANGED <<transacoes, proximoId>>

\* The foreign key refuses the rows of a card that is gone.  grupo_id is drawn
\* here, one for all the instalments.
CreateCompras(id, linhas) ==
  /\ id \in DOMAIN cartoes
  /\ NovoId
  /\ compras' = compras \cup {[l EXCEPT !.grupo = proximoId] : l \in linhas}
  /\ UNCHANGED <<cartoes, pagamentos, transacoes>>

\* Mutant of DeleteCompraGrupo: only the instalment the client clicked on.
DeleteUmaParcela(grupo) ==
  /\ compras' = {l \in compras : l.grupo # grupo \/ l.parcela # 1}
  /\ UNCHANGED <<cartoes, pagamentos, transacoes, proximoId>>

DeleteCompraGrupo(grupo) ==
  /\ compras' = {l \in compras : l.grupo # grupo}
  /\ UNCHANGED <<cartoes, pagamentos, transacoes, proximoId>>

\* The outgoing transaction and the payment, both or none.
RegistrarPagamento(id, vencimento, valor, pagoEm) ==
  /\ id \in DOMAIN cartoes
  /\ NovoId
  /\ transacoes' = Inserir(transacoes, proximoId,
                           [tipo |-> "saida", valor |-> valor, data |-> pagoEm])
  /\ pagamentos' = pagamentos \cup
                     {[cartao |-> id, vencimento |-> vencimento,
                       transacao |-> proximoId, valor |-> valor, pagoEm |-> pagoEm]}
  /\ UNCHANGED <<cartoes, compras>>

\* Mutant of RemoverUltimoPagamento: the money stays out of the account.
RemoverSoOPagamento(id, vencimento) ==
  \E ultimo \in PagamentosDaFatura(id, vencimento) :
    /\ EhOUltimo(ultimo, PagamentosDaFatura(id, vencimento))
    /\ pagamentos' = pagamentos \ {ultimo}
    /\ UNCHANGED <<cartoes, compras, transacoes, proximoId>>

\* The payment that comes last in date, and its transaction.
RemoverUltimoPagamento(id, vencimento) ==
  \E ultimo \in PagamentosDaFatura(id, vencimento) :
    /\ EhOUltimo(ultimo, PagamentosDaFatura(id, vencimento))
    /\ pagamentos' = pagamentos \ {ultimo}
    /\ transacoes' = Remover(transacoes, ultimo.transacao)
    /\ UNCHANGED <<cartoes, compras, proximoId>>

UpdateTransacao(t, transacao) ==
  /\ t \in DOMAIN transacoes
  /\ transacoes' = [transacoes EXCEPT ![t] = transacao]
  /\ UNCHANGED <<cartoes, compras, pagamentos, proximoId>>

\* ON DELETE CASCADE: the payment goes with its transaction.
DeleteTransacao(t) ==
  /\ t \in DOMAIN transacoes
  /\ transacoes' = Remover(transacoes, t)
  /\ pagamentos' = {p \in pagamentos : p.transacao # t}
  /\ UNCHANGED <<cartoes, compras, proximoId>>

-------------------------------------------------------------------------------
(* Properties of the tables *)

\* Type correctness of the tables.
TabelasTypeOK ==
  /\ DOMAIN cartoes \subseteq Id /\ cartoes \in [DOMAIN cartoes -> Cartao]
  /\ DOMAIN transacoes \subseteq Id /\ transacoes \in [DOMAIN transacoes -> Transacao]
  /\ compras \subseteq Compra
  /\ pagamentos \subseteq Pagamento
  /\ proximoId \in Id

\* No request, however late it writes, leaves a row that points to nothing:
\* instalments and payments have their card, each payment has a transaction of
\* its own (migration 0009: "lastreia um pagamento e só um").
ReferenciasValidas ==
  /\ \A l \in compras : l.cartao \in DOMAIN cartoes
  /\ \A p \in pagamentos : p.cartao \in DOMAIN cartoes
  /\ \A p \in pagamentos : p.transacao \in DOMAIN transacoes
  /\ \A p, q \in pagamentos : p.transacao = q.transacao => p = q

\* The rows of one purchase: all its instalments, on one card, falling due in
\* consecutive months.
UmaCompra(linhas) ==
  \A l \in linhas :
    /\ \A i \in 1 .. l.total : \E m \in linhas : m.parcela = i
    /\ \A m \in linhas :
         /\ m.cartao = l.cartao /\ m.total = l.total
         /\ m.fatura.mes - l.fatura.mes = m.parcela - l.parcela
         /\ m.parcela = l.parcela => m = l

\* A purchase is in the database with all its instalments or not at all
\* (CreateCompras: "ou a compra inteira entra, ou nada entra"; ExcluirCompra:
\* "todas as parcelas").
CompraInteira ==
  \A l \in compras : UmaCompra({m \in compras : m.grupo = l.grupo})

\* Money and payment go together, both ways: a payment only appears along with
\* a new outgoing transaction of its value and date, and while its card exists
\* it only disappears along with that transaction (RegistrarPagamento: "ou os
\* dois entram, ou nenhum"; PLANO-V2: "as duas coisas vivem na mesma transação
\* de banco, nos dois sentidos").
DinheiroEPagamentoJuntos ==
  [][/\ \A p \in pagamentos' \ pagamentos :
          /\ p.transacao \in DOMAIN transacoes' \ DOMAIN transacoes
          /\ transacoes'[p.transacao] =
               [tipo |-> "saida", valor |-> p.valor, data |-> p.pagoEm]
     /\ \A p \in pagamentos \ pagamentos' :
          p.cartao \in DOMAIN cartoes' => p.transacao \notin DOMAIN transacoes']_tabelas

\* An invoice that received a payment keeps its purchases: while a payment
\* stands, no purchase enters or leaves it (comment of RegistrarCompra, lines
\* 343 to 345; PLANO-V2: "Compras mexendo em fatura paga").
FaturaComPagamentoNaoMuda ==
  [][\A p \in pagamentos \cap pagamentos' :
       ComprasDaFatura(p.cartao, p.vencimento)' = ComprasDaFatura(p.cartao, p.vencimento)]_tabelas

\* A payment gives back the limit its own invoice was holding and no more, even
\* when it exceeds what was left to pay (comment of TotalNaoPago: "pagar R$ 450
\* numa fatura de R$ 433 não libera limite das outras").
PagamentoSoLiberaASuaFatura ==
  [][\A p \in pagamentos' \ pagamentos :
       TotalNaoPago(p.cartao) - TotalNaoPago(p.cartao)'
         = Menor(p.valor, RestanteDaFatura(p.cartao, p.vencimento))]_tabelas

===============================================================================
