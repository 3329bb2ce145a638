------------------------- MODULE CartaoInterferencia -------------------------
(***************************************************************************)
(* How the requests of CartaoService disturb each other.  Each one reads   *)
(* the database in transactions before the one that writes it, and no lock *)
(* or version ties them together: when another request commits in between, *)
(* the write goes ahead on what is no longer so.                           *)
(*                                                                         *)
(* The history variable perturbado says of which requests this is so: it   *)
(* is set when a step of somebody else changes a row that the request has  *)
(* read and decides by (Leitura), and only then.  What the service keeps   *)
(* of the operations of CartaoAtomico, however many requests run, can then *)
(* be said exactly: all of it, except for the writes of such requests.     *)
(***************************************************************************)
EXTENDS CartaoService

VARIABLE perturbado
varsP == <<vars, perturbado>>

Linha(tabela, id) == {tabela[k] : k \in DOMAIN tabela \cap {id}}

DaFatura == {"pagamentosDaFatura", "registrarPagamento"}

-------------------------------------------------------------------------------
(* What a request has read so far, as it is in the database now *)

\* The row of the card: its days and ativo, when the client leaves it alone.
LeuCartao(p) ==
  \/ p.op \in {"conferirCompra", "createCompras", "comprasDaFatura",
               "removerUltimoPagamento"}
  \/ p.op \in DaFatura
  \/ p.op = "update" /\ ~ p.pediuAtivo

\* The history of the card that goes, the purchase that goes, the invoice paid.
LeuCompra(p, l) ==
  \/ p.op = "delete" /\ l.cartao = p.cartao
  \/ p.op = "deleteCompraGrupo" /\ l.grupo = p.grupo
  \/ p.op \in DaFatura /\ l.cartao = p.cartao /\ l.fatura = p.vencimento

\* The payments of the invoices of the purchase that goes, of the first invoice
\* of the one that comes, of the invoice paid.
LeuPagamento(p, g) ==
  \/ /\ p.op = "deleteCompraGrupo"
     /\ \E l \in compras : /\ l.grupo = p.grupo
                           /\ l.cartao = g.cartao /\ l.fatura = g.vencimento
  \/ /\ p.op = "createCompras"
     /\ g.cartao = p.cartao /\ g.vencimento = Primeira(p.linhas).fatura
  \/ /\ p.op = "registrarPagamento"
     /\ g.cartao = p.cartao /\ g.vencimento = p.vencimento

Leitura(p) ==
  [cartao |-> IF LeuCartao(p) THEN Linha(cartoes, p.cartao) ELSE {},
   compras |-> {l \in compras : LeuCompra(p, l)},
   pagamentos |-> {g \in pagamentos : LeuPagamento(p, g)},
   transacao |-> IF p.op = "updateTransacao" THEN Linha(transacoes, p.transacao)
                 ELSE {}]

\* A request starts and ends undisturbed; its own steps do not disturb it.
Mudou(r) ==
  /\ tabelas' # tabelas
  /\ pedido'[r] = pedido[r]
  /\ Leitura(pedido[r])' # Leitura(pedido[r])

Perturba ==
  perturbado' = [r \in Req |-> pedido'[r] # Livre /\ (perturbado[r] \/ Mudou(r))]

InitP == Init /\ perturbado = [r \in Req |-> FALSE]
NextP == \E r \in Req : Passo(r) /\ Perturba
SpecP == InitP /\ [][NextP]_varsP

-------------------------------------------------------------------------------
(* What the service keeps *)

Terminou(r) == pedido[r] # Livre /\ pedido'[r] = Livre

\* A request wrote after somebody changed what it had read.
EscritaPerturbada == \E r \in Req : Terminou(r) /\ perturbado[r]

\* The operation of CartaoAtomico that a request is in the middle of.
OperacaoDe(p) ==
  \/ p.op = "update" /\ IF p.pediuAtivo THEN Alterar ELSE AlterarDias
  \/ p.op = "delete" /\ Excluir
  \/ p.op = "createCompras" /\ Comprar
  \/ p.op = "deleteCompraGrupo" /\ Estornar
  \/ p.op = "registrarPagamento" /\ Pagar
  \/ p.op = "removerUltimoPagamento" /\ Desfazer
  \/ p.op = "updateTransacao" /\ AlterarTransacao

\* However the calls of the requests interleave, a write is the whole operation
\* its request is for, checked and done at once on the database as it is, unless
\* somebody changed exactly what the request had read: requests on other cards,
\* other invoices or other purchases never disturb it.
EscritaEhOperacao ==
  [][\/ EscritaPerturbada
     \/ \E r \in Req : Terminou(r) /\ OperacaoDe(pedido[r])
     \/ Cadastrar \/ RemoverTransacao]_tabelas

\* What the checks of the service are there to prevent: an invoice paid twice
\* over, a purchase in an archived card, a card that goes with its purchases,
\* a payment left without any, a paid invoice that loses a purchase or gains
\* one that starts in it.
PagaDeNovo == \E p \in pagamentos' \ pagamentos : FaturaQuitada(p.cartao, p.vencimento)
CompraEmArquivado == \E l \in compras' \ compras : ~ cartoes[l.cartao].ativo
CartaoSomeComCompras ==
  \E id \in DOMAIN cartoes \ DOMAIN cartoes' : \E l \in compras : l.cartao = id
TemCompra(p) == ComprasDaFatura(p.cartao, p.vencimento) # {}
PagamentoFicaSemCompra ==
  \E p \in pagamentos' : ~ TemCompra(p)' /\ (p \in pagamentos => TemCompra(p))
FaturaPagaMuda ==
  \E p \in pagamentos \cap pagamentos' :
    LET antes == ComprasDaFatura(p.cartao, p.vencimento)
        depois == ComprasDaFatura(p.cartao, p.vencimento)'
    IN ~ (antes \subseteq depois) \/ \E l \in depois \ antes : l.parcela = 1

Engano ==
  \/ PagaDeNovo \/ CompraEmArquivado \/ CartaoSomeComCompras
  \/ PagamentoFicaSemCompra \/ FaturaPagaMuda

\* None of it happens but by the hand of a request whose reading somebody
\* changed before it wrote: two clicks on "pay", a payment while the purchase is
\* deleted, a purchase while the card is.
EnganoSoPorLeituraVelha == [][Engano => EscritaPerturbada]_tabelas

\* An invoice is found again through its competence (vencimentoDe) with the due
\* day the card has now.
Alcancavel(l) == VencimentoDe(cartoes[l.cartao], l.fatura.mes) = l.fatura

\* A purchase enters invoices that can be found, all its instalments, when every
\* month has the due day, and they are lost in two ways only: the due day of the
\* card is edited, or was while the purchase was being registered.
SoEdicaoEscondeFatura ==
  [][\A l \in compras' :
       \/ Alcancavel(l)'
       \/ l \in compras /\ ~ Alcancavel(l)
       \/ l \in compras
            /\ cartoes'[l.cartao].diaVencimento # cartoes[l.cartao].diaVencimento
       \/ l \notin compras /\ EscritaPerturbada
       \/ l \notin compras /\ cartoes[l.cartao].diaVencimento > 28]_tabelas

===============================================================================
