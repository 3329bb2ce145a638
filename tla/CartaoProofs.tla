----------------------------- MODULE CartaoProofs -----------------------------
(***************************************************************************)
(* What holds of CartaoService however many requests run at once: the      *)
(* types, the references between the tables, whole purchases, and money    *)
(* that moves with its payment.  The inductive invariant IInv adds to      *)
(* these what a request carries between its calls (the rows of a purchase  *)
(* not yet written are already whole and of one card) and that ids are     *)
(* not reused.  It says nothing of the other requests: these properties    *)
(* hold because each repository call is one transaction.  So does what a   *)
(* payment gives back of the limit, which takes facts about sums: the      *)
(* tables are finite, and the sum of a finite set does not depend on the   *)
(* order it is taken in.                                                   *)
(*                                                                         *)
(* How far the requests keep to the atomic operations of CartaoAtomico:     *)
(* AtualInv says that what an undisturbed request remembers is still what  *)
(* the database holds, because it depends on nothing but what Leitura      *)
(* gives; so its write is the operation, and no operation, done at once,   *)
(* is one of the mistakes the checks are there to prevent.                 *)
(***************************************************************************)
EXTENDS CartaoInterferencia, CicloCartaoProofs, FiniteSetTheorems

-------------------------------------------------------------------------------
(* What each transaction of the repository preserves of the tables, whoever  *)
(* calls it.  Escrita is the set of all transactions that write; all that is *)
(* asked of the caller is that its arguments are well typed and that the     *)
(* rows of a new purchase are whole and of the given card.                   *)


LinhasProntas(id, linhas) ==
  /\ linhas \subseteq Compra
  /\ \A l \in linhas : l.cartao = id
  /\ UmaCompra(linhas)

Escrita ==
  \/ \E c \in Cartao : Create(c)
  \/ \E id \in Id, c \in Cartao : Update(id, c)
  \/ \E id \in Id : Delete(id)
  \/ \E id \in Id, linhas \in SUBSET Compra :
       LinhasProntas(id, linhas) /\ CreateCompras(id, linhas)
  \/ \E grupo \in Nat : DeleteCompraGrupo(grupo)
  \/ \E id \in Id, vencimento, pagoEm \in Data, valor \in Valor :
       RegistrarPagamento(id, vencimento, valor, pagoEm)
  \/ \E id \in Id, vencimento \in Data : RemoverUltimoPagamento(id, vencimento)
  \/ \E t \in Id, transacao \in Transacao : UpdateTransacao(t, transacao)
  \/ \E t \in Id : DeleteTransacao(t)

\* Ids of transactions and groups come from the counter, and are behind it.
IdsUsados ==
  /\ \A t \in DOMAIN transacoes : t < proximoId
  /\ \A l \in compras : l.grupo < proximoId

TabelasInv == TabelasTypeOK /\ IdsUsados /\ ReferenciasValidas /\ CompraInteira

LEMMA VaziasInv == Vazias => TabelasInv
  BY DEF Vazias, SemLinhas, TabelasInv, TabelasTypeOK, IdsUsados, ReferenciasValidas,
         CompraInteira, Id

\* The rows of a purchase stay a whole purchase when they get their group.
LEMMA UmaCompraComGrupo ==
  ASSUME NEW linhas \in SUBSET Compra, UmaCompra(linhas), NEW g \in Nat
  PROVE  UmaCompra({[l EXCEPT !.grupo = g] : l \in linhas})
  <1> DEFINE G(l) == [l EXCEPT !.grupo = g]
  <1>1. \A l \in linhas : /\ G(l).cartao = l.cartao /\ G(l).parcela = l.parcela
                          /\ G(l).total = l.total /\ G(l).fatura = l.fatura
    BY DEF Compra
  <1> HIDE DEF G
  <1>2. UmaCompra({G(l) : l \in linhas})
    BY <1>1 DEF UmaCompra
  <1> QED  BY <1>2 DEF G

LEMMA TiposDasTabelas ==
  ASSUME TabelasInv, Escrita
  PROVE  TabelasTypeOK'
  <1> USE DEF TabelasInv, TabelasTypeOK
  <1>0. proximoId \in Nat /\ proximoId + 1 \in Id /\ proximoId \in Id  BY DEF Id
  <1>1. ASSUME NEW c \in Cartao, Create(c) PROVE TabelasTypeOK'
    BY <1>0, <1>1 DEF Create, NovoId, Inserir
  <1>2. ASSUME NEW id \in Id, NEW c \in Cartao, Update(id, c) PROVE TabelasTypeOK'
    BY <1>2 DEF Update
  <1>3. ASSUME NEW id \in Id, Delete(id) PROVE TabelasTypeOK'
    BY <1>3 DEF Delete, Remover
  <1>4. ASSUME NEW id \in Id, NEW linhas \in SUBSET Compra, CreateCompras(id, linhas)
        PROVE  TabelasTypeOK'
    <2>1. \A l \in linhas : [l EXCEPT !.grupo = proximoId] \in Compra
      BY <1>0 DEF Compra
    <2> QED  BY <1>0, <1>4, <2>1 DEF CreateCompras, NovoId
  <1>5. ASSUME NEW g \in Nat, DeleteCompraGrupo(g) PROVE TabelasTypeOK'
    BY <1>5 DEF DeleteCompraGrupo
  <1>6. ASSUME NEW id \in Id, NEW v \in Data, NEW d \in Data, NEW valor \in Valor,
               RegistrarPagamento(id, v, valor, d)
        PROVE  TabelasTypeOK'
    <2>1. [tipo |-> "saida", valor |-> valor, data |-> d] \in Transacao
      BY DEF Transacao
    <2>2. [cartao |-> id, vencimento |-> v, transacao |-> proximoId,
           valor |-> valor, pagoEm |-> d] \in Pagamento
      BY <1>0 DEF Pagamento
    <2> QED  BY <1>0, <1>6, <2>1, <2>2 DEF RegistrarPagamento, NovoId, Inserir
  <1>7. ASSUME NEW id \in Id, NEW v \in Data, RemoverUltimoPagamento(id, v)
        PROVE  TabelasTypeOK'
    BY <1>7 DEF RemoverUltimoPagamento, Remover
  <1>8. ASSUME NEW t \in Id, NEW tr \in Transacao, UpdateTransacao(t, tr)
        PROVE  TabelasTypeOK'
    BY <1>8 DEF UpdateTransacao
  <1>9. ASSUME NEW t \in Id, DeleteTransacao(t) PROVE TabelasTypeOK'
    BY <1>9 DEF DeleteTransacao, Remover
  <1> QED  BY <1>1, <1>2, <1>3, <1>4, <1>5, <1>6, <1>7, <1>8, <1>9 DEF Escrita

LEMMA IdsDasTabelas ==
  ASSUME TabelasInv, Escrita
  PROVE  IdsUsados'
  <1>0. /\ proximoId \in Nat
        /\ \A t \in DOMAIN transacoes : t \in Nat
        /\ \A l \in compras : l.grupo \in Nat
        /\ IdsUsados
    BY DEF TabelasInv, TabelasTypeOK, Id, Compra
  <1>a. ASSUME NovoId
        PROVE  /\ \A t \in DOMAIN transacoes \cup {proximoId} : t < proximoId'
               /\ \A l \in compras : l.grupo < proximoId'
               /\ proximoId < proximoId'
    <2>1. \A x \in Nat : x < proximoId => x < proximoId + 1  BY <1>0
    <2> QED  BY <1>0, <1>a, <2>1 DEF NovoId, IdsUsados
  <1>1. ASSUME NEW c \in Cartao, Create(c) PROVE IdsUsados'
    BY <1>a, <1>1 DEF Create, IdsUsados
  <1>2. ASSUME NEW id \in Id, NEW c \in Cartao, Update(id, c) PROVE IdsUsados'
    BY <1>0, <1>2 DEF Update, IdsUsados
  <1>3. ASSUME NEW id \in Id, Delete(id) PROVE IdsUsados'
    BY <1>0, <1>3 DEF Delete, IdsUsados
  <1>4. ASSUME NEW id \in Id, NEW linhas \in SUBSET Compra, CreateCompras(id, linhas)
        PROVE  IdsUsados'
    <2>1. \A l \in linhas : [l EXCEPT !.grupo = proximoId].grupo = proximoId
      BY DEF Compra
    <2> QED  BY <1>a, <1>4, <2>1 DEF CreateCompras, IdsUsados
  <1>5. ASSUME NEW g \in Nat, DeleteCompraGrupo(g) PROVE IdsUsados'
    BY <1>0, <1>5 DEF DeleteCompraGrupo, IdsUsados
  <1>6. ASSUME NEW id \in Id, NEW v \in Data, NEW d \in Data, NEW valor \in Valor,
               RegistrarPagamento(id, v, valor, d)
        PROVE  IdsUsados'
    <2>1. DOMAIN transacoes' = DOMAIN transacoes \cup {proximoId}
      BY <1>6 DEF RegistrarPagamento, Inserir
    <2> QED  BY <1>a, <1>6, <2>1 DEF RegistrarPagamento, IdsUsados
  <1>7. ASSUME NEW id \in Id, NEW v \in Data, RemoverUltimoPagamento(id, v)
        PROVE  IdsUsados'
    BY <1>0, <1>7 DEF RemoverUltimoPagamento, Remover, IdsUsados
  <1>8. ASSUME NEW t \in Id, NEW tr \in Transacao, UpdateTransacao(t, tr)
        PROVE  IdsUsados'
    BY <1>0, <1>8 DEF UpdateTransacao, IdsUsados
  <1>9. ASSUME NEW t \in Id, DeleteTransacao(t) PROVE IdsUsados'
    BY <1>0, <1>9 DEF DeleteTransacao, Remover, IdsUsados
  <1> QED  BY <1>1, <1>2, <1>3, <1>4, <1>5, <1>6, <1>7, <1>8, <1>9 DEF Escrita

\* Payments of different transactions stay apart: a payment that enters has a
\* transaction no payment had.
LEMMA ReferenciasDasTabelas ==
  ASSUME TabelasInv, Escrita
  PROVE  ReferenciasValidas'
  <1> USE DEF ReferenciasValidas
  <1>0. /\ proximoId \in Nat /\ DOMAIN transacoes \subseteq Nat
        /\ IdsUsados /\ ReferenciasValidas
        /\ compras \subseteq Compra /\ pagamentos \subseteq Pagamento
    BY DEF TabelasInv, TabelasTypeOK, Id
  <1>a. proximoId \notin DOMAIN transacoes
    BY <1>0 DEF IdsUsados
  <1>1. ASSUME NEW c \in Cartao, Create(c) PROVE ReferenciasValidas'
    BY <1>0, <1>1 DEF Create, Inserir
  <1>2. ASSUME NEW id \in Id, NEW c \in Cartao, Update(id, c) PROVE ReferenciasValidas'
    BY <1>0, <1>2 DEF Update
  <1>3. ASSUME NEW id \in Id, Delete(id) PROVE ReferenciasValidas'
    BY <1>0, <1>3 DEF Delete, Remover
  <1>4. ASSUME NEW id \in Id, NEW linhas \in SUBSET Compra, LinhasProntas(id, linhas),
               CreateCompras(id, linhas)
        PROVE  ReferenciasValidas'
    <2>1. \A l \in linhas : [l EXCEPT !.grupo = proximoId].cartao = id
      BY <1>4 DEF Compra, LinhasProntas
    <2> QED  BY <1>0, <1>4, <2>1 DEF CreateCompras
  <1>5. ASSUME NEW g \in Nat, DeleteCompraGrupo(g) PROVE ReferenciasValidas'
    BY <1>0, <1>5 DEF DeleteCompraGrupo
  <1>6. ASSUME NEW id \in Id, NEW v \in Data, NEW d \in Data, NEW valor \in Valor,
               RegistrarPagamento(id, v, valor, d)
        PROVE  ReferenciasValidas'
    BY <1>0, <1>a, <1>6 DEF RegistrarPagamento, Inserir
  <1>7. ASSUME NEW id \in Id, NEW v \in Data, RemoverUltimoPagamento(id, v)
        PROVE  ReferenciasValidas'
    BY <1>0, <1>7 DEF RemoverUltimoPagamento, Remover, PagamentosDaFatura
  <1>8. ASSUME NEW t \in Id, NEW tr \in Transacao, UpdateTransacao(t, tr)
        PROVE  ReferenciasValidas'
    BY <1>0, <1>8 DEF UpdateTransacao
  <1>9. ASSUME NEW t \in Id, DeleteTransacao(t) PROVE ReferenciasValidas'
    BY <1>0, <1>9 DEF DeleteTransacao, Remover
  <1> QED  BY <1>1, <1>2, <1>3, <1>4, <1>5, <1>6, <1>7, <1>8, <1>9 DEF Escrita

\* Groups enter and leave whole: the rows of a new purchase get a group nobody
\* has, and the rows of a card that goes are whole groups.
LEMMA ComprasDasTabelas ==
  ASSUME TabelasInv, Escrita
  PROVE  CompraInteira'
  <1>0. /\ proximoId \in Nat /\ compras \subseteq Compra
        /\ IdsUsados /\ CompraInteira
        /\ \A l \in compras : l.grupo \in Nat
    BY DEF TabelasInv, TabelasTypeOK, Id, Compra
  <1>1. ASSUME compras' = compras PROVE CompraInteira'
    BY <1>0, <1>1 DEF CompraInteira
  <1>2. ASSUME NEW id \in Id, Delete(id) PROVE CompraInteira'
    <2> SUFFICES ASSUME NEW l \in compras'
                 PROVE  UmaCompra({m \in compras' : m.grupo = l.grupo})
      BY DEF CompraInteira
    <2>1. l \in compras /\ l.cartao # id  BY <1>2 DEF Delete
    <2>2. UmaCompra({m \in compras : m.grupo = l.grupo})
      BY <1>0, <2>1 DEF CompraInteira
    <2>3. \A m \in compras : m.grupo = l.grupo => m.cartao = l.cartao
      BY <2>1, <2>2 DEF UmaCompra
    <2>4. {m \in compras' : m.grupo = l.grupo} = {m \in compras : m.grupo = l.grupo}
      BY <1>2, <2>1, <2>3 DEF Delete
    <2> QED  BY <2>2, <2>4
  <1>3. ASSUME NEW id \in Id, NEW linhas \in SUBSET Compra, LinhasProntas(id, linhas),
               CreateCompras(id, linhas)
        PROVE  CompraInteira'
    <2> DEFINE novas == {[l EXCEPT !.grupo = proximoId] : l \in linhas}
    <2>1. UmaCompra(novas)
      BY <1>0, <1>3, UmaCompraComGrupo DEF LinhasProntas
    <2>2. \A l \in novas : l.grupo = proximoId  BY DEF Compra
    <2>3. \A l \in compras : l.grupo # proximoId  BY <1>0 DEF IdsUsados
    <2>4. compras' = compras \cup novas  BY <1>3 DEF CreateCompras
    <2> HIDE DEF novas
    <2>5. ASSUME NEW l \in compras'
          PROVE  UmaCompra({m \in compras' : m.grupo = l.grupo})
      <3>1. CASE l \in novas
        <4>1. {m \in compras' : m.grupo = l.grupo} = novas
          BY <3>1, <2>2, <2>3, <2>4
        <4> QED  BY <4>1, <2>1
      <3>2. CASE l \in compras
        <4>1. {m \in compras' : m.grupo = l.grupo} = {m \in compras : m.grupo = l.grupo}
          BY <3>2, <2>2, <2>3, <2>4
        <4> QED  BY <4>1, <3>2, <1>0 DEF CompraInteira
      <3> QED  BY <2>4, <3>1, <3>2
    <2> QED  BY <2>5 DEF CompraInteira
  <1>4. ASSUME NEW g \in Nat, DeleteCompraGrupo(g) PROVE CompraInteira'
    <2> SUFFICES ASSUME NEW l \in compras'
                 PROVE  UmaCompra({m \in compras' : m.grupo = l.grupo})
      BY DEF CompraInteira
    <2>1. l \in compras /\ l.grupo # g  BY <1>4 DEF DeleteCompraGrupo
    <2>2. {m \in compras' : m.grupo = l.grupo} = {m \in compras : m.grupo = l.grupo}
      BY <1>4, <2>1 DEF DeleteCompraGrupo
    <2> QED  BY <1>0, <2>1, <2>2 DEF CompraInteira
  <1>5. \/ compras' = compras
        \/ \E id \in Id : Delete(id)
        \/ \E id \in Id, linhas \in SUBSET Compra :
             LinhasProntas(id, linhas) /\ CreateCompras(id, linhas)
        \/ \E g \in Nat : DeleteCompraGrupo(g)
    BY DEF Escrita, Create, Update, RegistrarPagamento, RemoverUltimoPagamento,
           UpdateTransacao, DeleteTransacao
  <1> QED  BY <1>1, <1>2, <1>3, <1>4, <1>5

\* Every transaction of the repository preserves the tables.
LEMMA EscritaTabelasInv ==
  ASSUME TabelasInv, Escrita \/ UNCHANGED tabelas
  PROVE  TabelasInv'
  <1>1. CASE Escrita
    BY <1>1, TiposDasTabelas, IdsDasTabelas, ReferenciasDasTabelas, ComprasDasTabelas
       DEF TabelasInv
  <1>2. CASE UNCHANGED tabelas
    BY <1>2 DEF tabelas, TabelasInv, TabelasTypeOK, IdsUsados, ReferenciasValidas,
                CompraInteira, UmaCompra
  <1> QED  BY <1>1, <1>2

\* The step of DinheiroEPagamentoJuntos.
PassoDoDinheiro ==
  /\ \A p \in pagamentos' \ pagamentos :
       /\ p.transacao \in DOMAIN transacoes' \ DOMAIN transacoes
       /\ transacoes'[p.transacao] =
            [tipo |-> "saida", valor |-> p.valor, data |-> p.pagoEm]
  /\ \A p \in pagamentos \ pagamentos' :
       p.cartao \in DOMAIN cartoes' => p.transacao \notin DOMAIN transacoes'

\* No transaction separates a payment from its money.
LEMMA EscritaDoDinheiro ==
  ASSUME TabelasInv, Escrita
  PROVE  PassoDoDinheiro
  <1> USE DEF PassoDoDinheiro
  <1>1. ASSUME pagamentos' = pagamentos PROVE PassoDoDinheiro
    BY <1>1
  <1>2. ASSUME NEW id \in Id, Delete(id) PROVE PassoDoDinheiro
    BY <1>2 DEF Delete, Remover
  <1>3. ASSUME NEW id \in Id, NEW v \in Data, NEW d \in Data, NEW valor \in Valor,
               RegistrarPagamento(id, v, valor, d)
        PROVE  PassoDoDinheiro
    <2>1. proximoId \notin DOMAIN transacoes
      BY DEF TabelasInv, TabelasTypeOK, IdsUsados, Id
    <2> QED  BY <1>3, <2>1 DEF RegistrarPagamento, Inserir
  <1>4. ASSUME NEW id \in Id, NEW v \in Data, RemoverUltimoPagamento(id, v)
        PROVE  PassoDoDinheiro
    BY <1>4 DEF RemoverUltimoPagamento, Remover
  <1>5. ASSUME NEW t \in Id, DeleteTransacao(t) PROVE PassoDoDinheiro
    BY <1>5 DEF DeleteTransacao, Remover
  <1>6. \/ pagamentos' = pagamentos
        \/ \E id \in Id : Delete(id)
        \/ \E id \in Id, v, d \in Data, valor \in Valor : RegistrarPagamento(id, v, valor, d)
        \/ \E id \in Id, v \in Data : RemoverUltimoPagamento(id, v)
        \/ \E t \in Id : DeleteTransacao(t)
    BY DEF Escrita, Create, Update, CreateCompras, DeleteCompraGrupo, UpdateTransacao
  <1> QED  BY <1>1, <1>2, <1>3, <1>4, <1>5, <1>6

-------------------------------------------------------------------------------
(* The service *)

\* The kind of a request tells which record it is.
LEMMA PedidoPorOp ==
  ASSUME NEW p \in Pedido
  PROVE  /\ p.op = "update" => p \in PedidoCartao
         /\ p.op = "delete" => p \in PedidoDelete
         /\ p.op \in {"conferirCompra", "createCompras"} => p \in PedidoCompra
         /\ p.op = "deleteCompraGrupo" => p \in PedidoGrupo
         /\ p.op \in {"comprasDaFatura", "removerUltimoPagamento"} => p \in PedidoFatura
         /\ p.op = "pagamentosDaFatura" => p \in PedidoTotal
         /\ p.op = "registrarPagamento" => p \in PedidoPagamento
         /\ p.op = "updateTransacao" => p \in PedidoTransacao
  BY DEF Pedido, Livre, PedidoCartao, PedidoDelete, PedidoCompra, PedidoGrupo,
         PedidoFatura, PedidoTotal, PedidoPagamento, PedidoTransacao

\* An instalment falls due on a date, i - 1 months after the first.
LEMMA ParcelaData ==
  ASSUME NEW c \in Cartao, NEW t \in Data, NEW i \in Nat
  PROVE  /\ VencimentoDaParcela(c, t, i) \in Data
         /\ VencimentoDaParcela(c, t, i).mes = FaturaDaCompra(c, t).mes + i - 1
         /\ FaturaDaCompra(c, t).mes \in Int
  <1> DEFINE f == FaturaDaCompra(c, t)
  <1>1. c.diaFechamento \in Dia /\ c.diaVencimento \in Dia  BY DEF Cartao
  <1>2. f \in Data  BY <1>1, FaturaDaCompraData
  <1>3. f.mes \in Int /\ f.dia \in Dia /\ f.mes + (i - 1) \in Int
        /\ f.mes + (i - 1) = f.mes + i - 1
    BY <1>2 DEF Data, Dia
  <1>4. VencimentoDaParcela(c, t, i) = DiaNoMes(f.mes + (i - 1), f.dia)
    BY DEF VencimentoDaParcela, AddMonthsClamped
  <1> QED  BY <1>3, <1>4, DiaNoMesData

\* A competence stands for a date of its month.
LEMMA CompetenciaData ==
  ASSUME NEW c \in Cartao, NEW m \in Int
  PROVE  VencimentoDe(c, m) \in Data
  BY DiaNoMesData DEF VencimentoDe, Cartao

\* The rows RegistrarCompra prepares are well typed, all of one card, and one
\* whole purchase.
LEMMA LinhasDaCompraInteira ==
  ASSUME NEW id \in Id, NEW c \in Cartao, NEW data \in Data,
         NEW valor \in Nat, NEW n \in Nat, CompraValida(valor, n)
  PROVE  LET linhas == LinhasDaCompra(id, c, data, valor, n)
         IN /\ linhas \subseteq Compra
            /\ \A l \in linhas : l.cartao = id
            /\ UmaCompra(linhas)
  <1> DEFINE L(i) == [cartao |-> id, grupo |-> 0, parcela |-> i, total |-> n,
                      valor |-> ValorDaParcela(valor, n, i),
                      fatura |-> VencimentoDaParcela(c, data, i)]
             linhas == LinhasDaCompra(id, c, data, valor, n)
             m0 == FaturaDaCompra(c, data).mes
  <1>1. linhas = {L(i) : i \in 1 .. n}  BY DEF LinhasDaCompra
  <1>2. n \in 1 .. 36  BY DEF CompraValida
  <1>3. \A i \in 1 .. n :
          /\ ValorDaParcela(valor, n, i) \in Nat \ {0}
          /\ VencimentoDaParcela(c, data, i) \in Data
          /\ VencimentoDaParcela(c, data, i).mes = m0 + i - 1
          /\ m0 \in Int
    <2>1. \A i \in 1 .. n : ValorDaParcela(valor, n, i) \in Nat \ {0}
      BY SomaDasParcelas
    <2>2. \A i \in 1 .. n : i \in Nat  BY <1>2
    <2> QED  BY <2>1, <2>2, ParcelaData
  <1>4. linhas \subseteq Compra
    <2> SUFFICES ASSUME NEW i \in 1 .. n PROVE L(i) \in Compra  BY <1>1
    <2> QED  BY <1>2, <1>3 DEF Compra, Id
  <1>5. \A l \in linhas : l.cartao = id  BY <1>1
  <1>6. UmaCompra(linhas)
    <2> SUFFICES ASSUME NEW i \in 1 .. n
                 PROVE  /\ \A k \in 1 .. L(i).total : \E m \in linhas : m.parcela = k
                        /\ \A m \in linhas :
                             /\ m.cartao = L(i).cartao /\ m.total = L(i).total
                             /\ m.fatura.mes - L(i).fatura.mes = m.parcela - L(i).parcela
                             /\ m.parcela = L(i).parcela => m = L(i)
      BY <1>1 DEF UmaCompra
    <2>1. \A k \in 1 .. n : L(k) \in linhas /\ L(k).parcela = k  BY <1>1
    <2>2. ASSUME NEW k \in 1 .. n
          PROVE  L(k).fatura.mes - L(i).fatura.mes = k - i
      <3>1. /\ VencimentoDaParcela(c, data, k).mes = m0 + k - 1
            /\ VencimentoDaParcela(c, data, i).mes = m0 + i - 1
            /\ m0 \in Int /\ k \in Int /\ i \in Int
        BY <1>2, <1>3
      <3>2. VencimentoDaParcela(c, data, k).mes - VencimentoDaParcela(c, data, i).mes
              = k - i
        <4> HIDE DEF m0
        <4> QED  BY <3>1
      <3> QED  BY <3>2
    <2>3. ASSUME NEW k \in 1 .. n
          PROVE  /\ L(k).cartao = L(i).cartao /\ L(k).total = L(i).total
                 /\ L(k).fatura.mes - L(i).fatura.mes = L(k).parcela - L(i).parcela
                 /\ L(k).parcela = L(i).parcela => L(k) = L(i)
      BY <2>2
    <2>4. \A k \in 1 .. L(i).total : \E m \in linhas : m.parcela = k  BY <2>1
    <2> HIDE DEF L
    <2> QED  BY <1>1, <2>3, <2>4
  <1> QED  BY <1>4, <1>5, <1>6

-------------------------------------------------------------------------------
\* What the requests hold: well-typed memories, and of a purchase not yet
\* written, rows that are ready to be.
PedidosInv ==
  /\ pedido \in [Req -> Pedido]
  /\ \A r \in Req : pedido[r].op \in {"conferirCompra", "createCompras"} =>
       LinhasProntas(pedido[r].cartao, pedido[r].linhas)

IInv == TabelasInv /\ PedidosInv

\* What one request holds may be replaced by anything that is well formed.
LEMMA TrocaPedido ==
  ASSUME PedidosInv, NEW r \in Req, NEW p \in Pedido,
         pedido' = [pedido EXCEPT ![r] = p],
         p.op \in {"conferirCompra", "createCompras"} => LinhasProntas(p.cartao, p.linhas)
  PROVE  PedidosInv'
  BY DEF PedidosInv, LinhasProntas, UmaCompra

LEMMA LivreEhPedido == Livre \in Pedido /\ Livre.op = "livre"
  BY DEF Pedido, Livre

\* A step writes by one transaction of the repository, or writes nothing.
LEMMA PassoEscreve ==
  ASSUME IInv, NEW r \in Req, Passo(r)
  PROVE  Escrita \/ UNCHANGED tabelas
  <1>0. pedido[r] \in Pedido /\ DOMAIN cartoes \subseteq Id /\ DOMAIN transacoes \subseteq Id
    BY DEF IInv, PedidosInv, TabelasInv, TabelasTypeOK
  <1>1. CASE CriarCartao(r)
    <2>1. PICK dias \in Dias : Create(CartaoCom(dias, TRUE))  BY <1>1 DEF CriarCartao
    <2>2. CartaoCom(dias, TRUE) \in Cartao
      BY EntradasAssumption DEF CartaoCom, Cartao
    <2> QED  BY <2>1, <2>2 DEF Escrita
  <1>2. CASE GravarCartao(r)
    <2>1. pedido[r] \in PedidoCartao
      BY <1>0, <1>2, PedidoPorOp DEF GravarCartao, Termina, Segue
    <2>2. pedido[r].cartao \in Id /\ pedido[r].novo \in Cartao
      BY <2>1 DEF PedidoCartao
    <2> QED  BY <1>2, <2>2 DEF GravarCartao, Escrita
  <1>3. CASE ApagarCartao(r)
    <2>1. pedido[r] \in PedidoDelete
      BY <1>0, <1>3, PedidoPorOp DEF ApagarCartao, Termina, Segue
    <2> QED  BY <1>3, <2>1 DEF ApagarCartao, Escrita, PedidoDelete
  <1>4. CASE GravarCompra(r)
    <2>1. pedido[r] \in PedidoCompra /\ pedido[r].op = "createCompras"
      BY <1>0, <1>4, PedidoPorOp DEF GravarCompra, Termina, Segue
    <2>2. pedido[r].cartao \in Id /\ pedido[r].linhas \in SUBSET Compra
      BY <2>1 DEF PedidoCompra
    <2>3. LinhasProntas(pedido[r].cartao, pedido[r].linhas)
      BY <2>1 DEF IInv, PedidosInv
    <2> QED  BY <1>4, <2>2, <2>3 DEF GravarCompra, Escrita
  <1>5. CASE ApagarCompra(r)
    <2>1. pedido[r] \in PedidoGrupo
      BY <1>0, <1>5, PedidoPorOp DEF ApagarCompra, Termina, Segue
    <2> QED  BY <1>5, <2>1 DEF ApagarCompra, Escrita, PedidoGrupo
  <1>6. CASE GravarPagamento(r)
    <2>1. pedido[r] \in PedidoPagamento
      BY <1>0, <1>6, PedidoPorOp DEF GravarPagamento, Termina, Segue
    <2>2. /\ pedido[r].cartao \in Id /\ pedido[r].vencimento \in Data
          /\ pedido[r].valor \in Valor /\ pedido[r].pagoEm \in Data
      BY <2>1 DEF PedidoPagamento
    <2> QED  BY <1>6, <2>2 DEF GravarPagamento, Escrita
  <1>7. CASE ApagarPagamento(r)
    <2>1. pedido[r] \in PedidoFatura
      BY <1>0, <1>7, PedidoPorOp DEF ApagarPagamento, Termina, Segue
    <2>2. pedido[r].cartao \in Id /\ pedido[r].vencimento \in Data
      BY <2>1 DEF PedidoFatura
    <2> QED  BY <1>7, <2>2 DEF ApagarPagamento, Escrita
  <1>8. CASE GravarTransacao(r)
    <2>1. pedido[r] \in PedidoTransacao
      BY <1>0, <1>8, PedidoPorOp DEF GravarTransacao, Termina, Segue
    <2>2. pedido[r].transacao \in Id /\ pedido[r].novo \in Transacao
      BY <2>1 DEF PedidoTransacao
    <2> QED  BY <1>8, <2>2 DEF GravarTransacao, Escrita
  <1>9. CASE ExcluirTransacao(r)
    BY <1>0, <1>9 DEF ExcluirTransacao, Escrita
  <1>10. CASE UNCHANGED tabelas
    BY <1>10
  <1>11. \/ CriarCartao(r) \/ GravarCartao(r) \/ ApagarCartao(r) \/ GravarCompra(r)
         \/ ApagarCompra(r) \/ GravarPagamento(r) \/ ApagarPagamento(r)
         \/ GravarTransacao(r) \/ ExcluirTransacao(r) \/ UNCHANGED tabelas
    BY DEF Passo, EditarCartao, ExcluirCartao, RegistrarCompra, ConferirCompra,
           ExcluirCompra, PagarFatura, LerCompras, LerPagamentos, DesfazerPagamento,
           EditarTransacao, Abandonar
  <1> QED  BY <1>1, <1>2, <1>3, <1>4, <1>5, <1>6, <1>7, <1>8, <1>9, <1>10, <1>11

\* A step leaves every request with a well-formed memory.
LEMMA PassoGuarda ==
  ASSUME IInv, NEW r \in Req, Passo(r)
  PROVE  PedidosInv'
  <1>0. /\ PedidosInv /\ pedido[r] \in Pedido
        /\ DOMAIN cartoes \subseteq Id /\ DOMAIN transacoes \subseteq Id
        /\ \A id \in DOMAIN cartoes : cartoes[id] \in Cartao
        /\ \A t \in DOMAIN transacoes : transacoes[t].data \in Data
        /\ compras \subseteq Compra /\ pagamentos \subseteq Pagamento
    BY DEF IInv, PedidosInv, TabelasInv, TabelasTypeOK, Transacao
  <1>a. ASSUME NEW p \in Pedido, p.op \notin {"conferirCompra", "createCompras"},
               pedido' = [pedido EXCEPT ![r] = p]
        PROVE  PedidosInv'
    BY <1>0, <1>a, TrocaPedido
  <1>b. \A dias \in Dias, ativo \in BOOLEAN : CartaoCom(dias, ativo) \in Cartao
    BY EntradasAssumption DEF CartaoCom, Cartao
  <1>c. \A id \in DOMAIN cartoes, m \in Competencias : VencimentoDe(cartoes[id], m) \in Data
    BY <1>0, EntradasAssumption, CompetenciaData
  <1>1. CASE pedido' = pedido
    BY <1>0, <1>1 DEF PedidosInv, LinhasProntas, UmaCompra
  <1>2. CASE pedido' = [pedido EXCEPT ![r] = Livre]
    BY <1>a, <1>2, LivreEhPedido
  <1>3. CASE EditarCartao(r)
    <2>1. PICK p \in PedidoCartao : pedido' = [pedido EXCEPT ![r] = p]
      <3>1. PICK id \in DOMAIN cartoes, dias \in Dias, ativo \in BOOLEAN, pediu \in BOOLEAN :
              Comeca(r, [op |-> "update", cartao |-> id, pediuAtivo |-> pediu,
                         novo |-> CartaoCom(dias, ativo)])
        BY <1>0, <1>3 DEF EditarCartao, Cartao
      <3> QED  BY <1>0, <1>b, <3>1 DEF Comeca, PedidoCartao
    <2> QED  BY <1>a, <2>1 DEF PedidoCartao, Pedido
  <1>4. CASE ExcluirCartao(r)
    <2>1. PICK p \in PedidoDelete : pedido' = [pedido EXCEPT ![r] = p]
      BY <1>0, <1>4 DEF ExcluirCartao, Comeca, PedidoDelete
    <2> QED  BY <1>a, <2>1 DEF PedidoDelete, Pedido
  <1>5. CASE RegistrarCompra(r)
    <2>1. PICK id \in DOMAIN cartoes, data \in DatasCompra, valor \in ValoresCompra,
               n \in Parcelas :
            /\ CompraValida(valor, n) /\ valor <= MaxMoney
            /\ Comeca(r, [op |-> "conferirCompra", cartao |-> id,
                          linhas |-> LinhasDaCompra(id, cartoes[id], data, valor, n)])
      BY <1>5 DEF RegistrarCompra
    <2> DEFINE linhas == LinhasDaCompra(id, cartoes[id], data, valor, n)
               p == [op |-> "conferirCompra", cartao |-> id, linhas |-> linhas]
    <2>2. LinhasProntas(id, linhas)
      BY <1>0, <2>1, EntradasAssumption, LinhasDaCompraInteira DEF LinhasProntas
    <2>3. pedido' = [pedido EXCEPT ![r] = p]  BY <2>1 DEF Comeca
    <2> HIDE DEF linhas
    <2>4. p \in Pedido
      BY <1>0, <2>2 DEF PedidoCompra, Pedido, LinhasProntas
    <2> QED  BY <1>0, <2>2, <2>3, <2>4, TrocaPedido
  <1>6. CASE ConferirCompra(r)
    <2> DEFINE p == [op |-> "createCompras", cartao |-> pedido[r].cartao,
                     linhas |-> pedido[r].linhas]
    <2>1. pedido[r].op = "conferirCompra" /\ pedido' = [pedido EXCEPT ![r] = p]
      BY <1>6 DEF ConferirCompra, Segue
    <2>2. pedido[r] \in PedidoCompra /\ LinhasProntas(pedido[r].cartao, pedido[r].linhas)
      BY <1>0, <2>1, PedidoPorOp DEF PedidosInv
    <2>3. p \in Pedido  BY <2>2 DEF PedidoCompra, Pedido
    <2> QED  BY <1>0, <2>1, <2>2, <2>3, TrocaPedido
  <1>7. CASE ExcluirCompra(r)
    <2>1. PICK p \in PedidoGrupo : pedido' = [pedido EXCEPT ![r] = p]
      <3>1. PICK g \in {l.grupo : l \in compras} :
              Comeca(r, [op |-> "deleteCompraGrupo", grupo |-> g])
        BY <1>7 DEF ExcluirCompra
      <3>2. g \in Nat  BY <1>0, <3>1 DEF Compra
      <3> QED  BY <3>1, <3>2 DEF Comeca, PedidoGrupo
    <2> QED  BY <1>a, <2>1 DEF PedidoGrupo, Pedido
  <1>8. CASE PagarFatura(r) \/ DesfazerPagamento(r)
    <2>1. PICK p \in PedidoFatura : pedido' = [pedido EXCEPT ![r] = p]
      BY <1>0, <1>c, <1>8 DEF PagarFatura, DesfazerPagamento, Comeca, PedidoFatura
    <2> QED  BY <1>a, <2>1 DEF PedidoFatura, Pedido
  <1>9. CASE LerCompras(r)
    <2>1. pedido[r] \in PedidoFatura
      BY <1>0, <1>9, PedidoPorOp DEF LerCompras, Segue
    <2>2. PICK p \in PedidoTotal : pedido' = [pedido EXCEPT ![r] = p]
      BY <1>0, <1>9, <2>1 DEF LerCompras, Segue, PedidoFatura, PedidoTotal, ComprasDaFatura
    <2> QED  BY <1>a, <2>2 DEF PedidoTotal, Pedido
  <1>10. CASE LerPagamentos(r)
    <2>1. pedido[r] \in PedidoTotal
      BY <1>0, <1>10, PedidoPorOp DEF LerPagamentos, Segue
    <2>2. PICK valor \in Valor, pagoEm \in DatasPagamento :
            pedido' = [pedido EXCEPT ![r] =
                         [op |-> "registrarPagamento", cartao |-> pedido[r].cartao,
                          vencimento |-> pedido[r].vencimento, valor |-> valor,
                          pagoEm |-> pagoEm]]
      BY <1>10 DEF LerPagamentos, Segue, ValoresDoPagamento
    <2>3. PICK p \in PedidoPagamento : pedido' = [pedido EXCEPT ![r] = p]
      BY <1>0, <2>1, <2>2, EntradasAssumption
         DEF PedidoTotal, PedidoPagamento
    <2> QED  BY <1>a, <2>3 DEF PedidoPagamento, Pedido
  <1>11. CASE EditarTransacao(r)
    <2>1. PICK t \in DOMAIN transacoes, e \in EdicoesTransacao :
            \E data \in DatasPagamento \cup {transacoes[t].data} :
              /\ e.valor \in Valor
              /\ Comeca(r, [op |-> "updateTransacao", transacao |-> t,
                            novo |-> [tipo |-> e.tipo, valor |-> e.valor, data |-> data]])
      BY <1>11 DEF EditarTransacao
    <2>2. PICK data \in Data :
              /\ e.valor \in Valor
              /\ Comeca(r, [op |-> "updateTransacao", transacao |-> t,
                            novo |-> [tipo |-> e.tipo, valor |-> e.valor, data |-> data]])
      BY <1>0, <2>1, EntradasAssumption
    <2>3. [tipo |-> e.tipo, valor |-> e.valor, data |-> data] \in Transacao
      BY <2>2, EntradasAssumption DEF Transacao
    <2>4. PICK p \in PedidoTransacao : pedido' = [pedido EXCEPT ![r] = p]
      BY <1>0, <2>2, <2>3 DEF Comeca, PedidoTransacao
    <2> QED  BY <1>a, <2>4 DEF PedidoTransacao, Pedido
  <1>12. \/ pedido' = pedido \/ pedido' = [pedido EXCEPT ![r] = Livre]
         \/ EditarCartao(r) \/ ExcluirCartao(r) \/ RegistrarCompra(r) \/ ConferirCompra(r)
         \/ ExcluirCompra(r) \/ PagarFatura(r) \/ DesfazerPagamento(r) \/ LerCompras(r)
         \/ LerPagamentos(r) \/ EditarTransacao(r)
    BY DEF Passo, CriarCartao, ExcluirTransacao, Abandonar, GravarCartao, ApagarCartao,
           GravarCompra, ApagarCompra, GravarPagamento, ApagarPagamento, GravarTransacao,
           Termina, Segue
  <1> QED  BY <1>1, <1>2, <1>3, <1>4, <1>5, <1>6, <1>7, <1>8, <1>9, <1>10, <1>11, <1>12

-------------------------------------------------------------------------------
\* IInv holds at every moment, whatever the requests and their interleaving.
THEOREM Invariante == Spec => []IInv
  <1>1. Init => IInv
    BY VaziasInv, LivreEhPedido DEF Init, IInv, PedidosInv
  <1>2. IInv /\ [Next]_vars => IInv'
    <2> SUFFICES ASSUME IInv, [Next]_vars PROVE IInv'  OBVIOUS
    <2>1. ASSUME NEW r \in Req, Passo(r) PROVE IInv'
      BY <2>1, PassoEscreve, PassoGuarda, EscritaTabelasInv DEF IInv
    <2>2. CASE UNCHANGED vars
      <3>1. TabelasInv'  BY <2>2, EscritaTabelasInv DEF IInv, vars
      <3>2. PedidosInv'
        BY <2>2 DEF vars, IInv, PedidosInv, LinhasProntas, UmaCompra
      <3> QED  BY <3>1, <3>2 DEF IInv
    <2> QED  BY <2>1, <2>2 DEF Next
  <1> QED  BY <1>1, <1>2, PTL DEF Spec

\* Type correctness of the tables and of what requests remember.
THEOREM TiposCorretos == Spec => []TypeOK
  <1>1. IInv => TypeOK  BY DEF IInv, TabelasInv, PedidosInv, TypeOK
  <1> QED  BY <1>1, Invariante, PTL

\* No interleaving of requests leaves a row that points to nothing, nor two
\* payments backed by one transaction.
THEOREM Referencias == Spec => []ReferenciasValidas
  <1>1. IInv => ReferenciasValidas  BY DEF IInv, TabelasInv
  <1> QED  BY <1>1, Invariante, PTL

\* No interleaving, error or crash leaves half a purchase.
THEOREM ComprasInteiras == Spec => []CompraInteira
  <1>1. IInv => CompraInteira  BY DEF IInv, TabelasInv
  <1> QED  BY <1>1, Invariante, PTL

\* No interleaving, error or crash separates a payment from its money.
THEOREM DinheiroComPagamento == Spec => DinheiroEPagamentoJuntos
  <1>1. IInv /\ [Next]_vars => [PassoDoDinheiro]_tabelas
    <2> SUFFICES ASSUME IInv, [Next]_vars PROVE PassoDoDinheiro \/ UNCHANGED tabelas
      OBVIOUS
    <2>1. ASSUME NEW r \in Req, Passo(r) PROVE PassoDoDinheiro \/ UNCHANGED tabelas
      BY <2>1, PassoEscreve, EscritaDoDinheiro DEF IInv
    <2>2. CASE UNCHANGED vars  BY <2>2 DEF vars
    <2> QED  BY <2>1, <2>2 DEF Next
  <1>2. Spec => [][PassoDoDinheiro]_tabelas  BY <1>1, Invariante, PTL DEF Spec
  <1> QED  BY <1>2 DEF DinheiroEPagamentoJuntos, PassoDoDinheiro

-------------------------------------------------------------------------------
(* Sums.  Soma and TotalNaoPago are folds over sets, in whatever order CHOOSE *)
(* takes the elements.  The recursion of a fold has one solution (the least   *)
(* part of the set where two of them differ cannot exist: part of a finite    *)
(* set is a well-founded order), and the order does not change what it gives. *)

\* Parts of a finite set have a least one.
LEMMA SubconjuntoMinimo ==
  ASSUME NEW S, IsFiniteSet(S), NEW B, B \subseteq SUBSET S, B # {}
  PROVE  \E T \in B : \A U \in SUBSET T : U # T => U \notin B
  <1>1. IsWellFoundedOn(StrictSubsetOrdering(S), SUBSET S)
    BY FS_StrictSubsetOrderingWellFounded, FS_FiniteSubsetsOfFinite
  <1>2. PICK T \in B : \A U \in B : ~ (<<U, T>> \in StrictSubsetOrdering(S))
    BY <1>1, WFMin
  <1> QED  BY <1>2 DEF StrictSubsetOrdering

\* g[s] is the sum of F over the set s, for each part s of S.
Acumula(g, F, S) ==
  \A s \in SUBSET S :
    g[s] = IF s = {} THEN 0
           ELSE LET x == CHOOSE y \in s : TRUE IN F[x] + g[s \ {x}]

\* The recursion has one solution, on a part of the set too.
LEMMA AcumulaUnica ==
  ASSUME NEW S, IsFiniteSet(S), NEW F, NEW G, NEW g, NEW h, NEW T, T \subseteq S,
         Acumula(g, F, S), Acumula(h, G, T), \A x \in T : F[x] = G[x]
  PROVE  \A U \in SUBSET T : g[U] = h[U]
  <1> DEFINE B == {U \in SUBSET T : g[U] # h[U]}
  <1> SUFFICES ASSUME B # {} PROVE FALSE  OBVIOUS
  <1>1. IsFiniteSet(T)  BY FS_Subset
  <1>0. B \subseteq SUBSET T /\ \A V \in SUBSET T : V \notin B => g[V] = h[V]  OBVIOUS
  <1>a. \A U \in B : g[U] # h[U]  OBVIOUS
  <1> HIDE DEF B
  <1>2. PICK U \in B : \A V \in SUBSET U : V # U => V \notin B
    BY <1>0, <1>1, SubconjuntoMinimo
  <1>3. U \in SUBSET S /\ U \in SUBSET T  BY <1>0, <1>2
  <1>4. CASE U = {}  BY <1>a, <1>2, <1>3, <1>4 DEF Acumula
  <1>5. CASE U # {}
    <2> DEFINE x == CHOOSE y \in U : TRUE
    <2>1. x \in U  BY <1>5
    <2>2. g[U] = F[x] + g[U \ {x}] /\ h[U] = G[x] + h[U \ {x}]
      BY <1>3, <1>5 DEF Acumula
    <2> HIDE DEF x
    <2>3. U \ {x} \in SUBSET U /\ U \ {x} # U /\ F[x] = G[x]  BY <1>3, <2>1
    <2>4. g[U \ {x}] = h[U \ {x}]  BY <1>0, <1>2, <1>3, <2>3
    <2> QED  BY <1>a, <1>2, <2>2, <2>3, <2>4
  <1> QED  BY <1>4, <1>5

\* The recursion has a solution.
LEMMA AcumulaExiste ==
  ASSUME NEW S, IsFiniteSet(S), NEW F
  PROVE  \E g : g = [s \in SUBSET S |-> g[s]] /\ Acumula(g, F, S)
  <1> DEFINE D(g, T) == g = [s \in SUBSET T |-> g[s]] /\ Acumula(g, F, T)
             B == {T \in SUBSET S : ~ \E g : D(g, T)}
  <1> SUFFICES ASSUME B # {} PROVE FALSE  OBVIOUS
  <1>1. PICK T \in B : \A U \in SUBSET T : U # T => U \notin B
    <2>1. B \subseteq SUBSET S  OBVIOUS
    <2> HIDE DEF B
    <2> QED  BY <2>1, SubconjuntoMinimo
  <1> DEFINE G(U) == CHOOSE g : D(g, U)
             x == CHOOSE y \in T : TRUE
             h == [s \in SUBSET T |-> IF s # T THEN G(s)[s]
                                      ELSE IF T = {} THEN 0 ELSE F[x] + G(T \ {x})[T \ {x}]]
  <1>2. \A U \in SUBSET T : U # T => D(G(U), U)
    <2> SUFFICES ASSUME NEW U \in SUBSET T, U # T PROVE D(G(U), U)  OBVIOUS
    <2>1. \E g : D(g, U)  BY <1>1
    <2> HIDE DEF D
    <2> QED  BY <2>1
  <1> HIDE DEF G
  <1>3. \A U \in SUBSET T : U # T => IsFiniteSet(U) /\ Acumula(G(U), F, U)
    BY <1>1, <1>2, FS_Subset
  <1>4. ASSUME NEW s \in SUBSET T
        PROVE  h[s] = IF s = {} THEN 0
                      ELSE LET z == CHOOSE y \in s : TRUE IN F[z] + h[s \ {z}]
    <2> DEFINE z == CHOOSE y \in s : TRUE
    <2>1. s # {} => z \in s  OBVIOUS
    <2>2. CASE s = T
      <3>1. CASE T = {}  BY <2>2, <3>1
      <3>2. CASE T # {}
        <4>1. x \in T  BY <3>2
        <4>2. h[T] = F[x] + G(T \ {x})[T \ {x}]  BY <3>2
        <4>3. T \ {x} \in SUBSET T /\ T \ {x} # T  BY <4>1
        <4>4. h[T \ {x}] = G(T \ {x})[T \ {x}]  BY <4>3
        <4> QED  BY <2>2, <3>2, <4>2, <4>4
      <3> QED  BY <3>1, <3>2
    <2>3. CASE s # T
      <3>1. h[s] = G(s)[s]  BY <2>3
      <3>2. IsFiniteSet(s) /\ Acumula(G(s), F, s)  BY <1>3, <2>3
      <3>3. CASE s = {}  BY <3>1, <3>2, <3>3 DEF Acumula
      <3>4. CASE s # {}
        <4> DEFINE u == s \ {z}
        <4>1. G(s)[s] = F[z] + G(s)[s \ {z}]  BY <3>2, <3>4 DEF Acumula
        <4>2. u \in SUBSET s /\ u \in SUBSET T /\ u # T  BY <2>1, <3>4
        <4>3. Acumula(G(u), F, u)  BY <1>3, <4>2
        <4>4. G(s)[u] = G(u)[u]
          <5> HIDE DEF u
          <5> QED  BY <3>2, <4>2, <4>3, AcumulaUnica
        <4>5. h[u] = G(u)[u]  BY <4>2
        <4> QED  BY <3>1, <3>4, <4>1, <4>4, <4>5
      <3> QED  BY <3>3, <3>4
    <2> QED  BY <2>2, <2>3
  <1>5. h = [s \in SUBSET T |-> h[s]]  OBVIOUS
  <1> HIDE DEF h
  <1>6. D(h, T)  BY <1>4, <1>5 DEF Acumula
  <1>7. T \in B  BY <1>1
  <1> QED  BY <1>6, <1>7

\* What is added may be taken in any order.
LEMMA AcumulaTira ==
  ASSUME NEW S, IsFiniteSet(S), NEW F, \A x \in S : F[x] \in Int, NEW g, Acumula(g, F, S)
  PROVE  \A T \in SUBSET S : g[T] \in Int /\ \A x \in T : g[T] = F[x] + g[T \ {x}]
  <1> DEFINE P(T) == g[T] \in Int /\ \A x \in T : g[T] = F[x] + g[T \ {x}]
             B == {T \in SUBSET S : ~ P(T)}
  <1> SUFFICES ASSUME B # {} PROVE FALSE  OBVIOUS
  <1>1. PICK T \in B : \A U \in SUBSET T : U # T => U \notin B
    <2>1. B \subseteq SUBSET S  OBVIOUS
    <2> HIDE DEF B
    <2> QED  BY <2>1, SubconjuntoMinimo
  <1>2. T \in SUBSET S /\ \A U \in SUBSET T : U # T => P(U)  BY <1>1
  <1>3. P(T)
    <2>1. CASE T = {}
      <3>1. g[T] = 0  BY <1>2, <2>1 DEF Acumula
      <3> QED  BY <2>1, <3>1
    <2>2. CASE T # {}
      <3> DEFINE c == CHOOSE y \in T : TRUE
      <3>1. c \in T  BY <2>2
      <3>2. g[T] = F[c] + g[T \ {c}]  BY <1>2, <2>2 DEF Acumula
      <3> HIDE DEF c
      <3>3. T \ {c} \in SUBSET T /\ T \ {c} # T  BY <3>1
      <3>4. P(T \ {c})  BY <1>2, <3>3
      <3>5. g[T \ {c}] \in Int /\ F[c] \in Int  BY <1>2, <3>1, <3>4
      <3>6. ASSUME NEW x \in T PROVE g[T] = F[x] + g[T \ {x}]
        <4>1. CASE x = c  BY <3>2, <4>1
        <4>2. CASE x # c
          <5>1. T \ {x} \in SUBSET T /\ T \ {x} # T /\ c \in T \ {x} /\ x \in T \ {c}
            BY <3>1, <4>2
          <5>2. g[T \ {c}] = F[x] + g[(T \ {c}) \ {x}]  BY <3>4, <5>1
          <5>3. P(T \ {x})  BY <1>2, <5>1
          <5>4. g[T \ {x}] = F[c] + g[(T \ {x}) \ {c}]  BY <5>1, <5>3
          <5>5. (T \ {c}) \ {x} = (T \ {x}) \ {c}  OBVIOUS
          <5> DEFINE w == (T \ {x}) \ {c}
          <5>6. w \in SUBSET T /\ w # T  BY <3>1
          <5>7. g[w] \in Int  BY <1>2, <5>6
          <5>8. F[x] \in Int  BY <1>2
          <5> QED  BY <3>2, <3>5, <5>2, <5>4, <5>5, <5>7, <5>8
        <4> QED  BY <4>1, <4>2
      <3>7. g[T] \in Int  BY <3>2, <3>5
      <3> QED  BY <3>6, <3>7
    <2> QED  BY <2>1, <2>2
  <1> QED  BY <1>1, <1>3

\* Soma is such a recursion, over the values of the rows.
LEMMA SomaAcumula ==
  ASSUME NEW S, IsFiniteSet(S)
  PROVE  \E g : Acumula(g, [l \in S |-> l.valor], S) /\ Soma(S) = g[S]
  <1> DEFINE op(l) == l.valor
             corpo(f, s) == IF s = {} THEN 0
                            ELSE LET x == CHOOSE y \in s : TRUE IN op(x) + f[s \ {x}]
             g == CHOOSE f : f = [s \in SUBSET S |-> corpo(f, s)]
             F == [l \in S |-> l.valor]
  <1>1. Soma(S) = g[S]
    BY DEF Soma, MapThenSumSet, MapThenFoldSet
  <1>2. \E f : f = [s \in SUBSET S |-> corpo(f, s)]
    <2>1. PICK f : f = [s \in SUBSET S |-> f[s]] /\ Acumula(f, F, S)
      BY AcumulaExiste
    <2>2. ASSUME NEW s \in SUBSET S PROVE f[s] = corpo(f, s)
      <3>1. s # {} => F[CHOOSE y \in s : TRUE] = op(CHOOSE y \in s : TRUE)  OBVIOUS
      <3> QED  BY <2>1, <3>1 DEF Acumula
    <2>3. [s \in SUBSET S |-> f[s]] = [s \in SUBSET S |-> corpo(f, s)]  BY <2>2
    <2> QED  BY <2>1, <2>3
  <1>3. g = [s \in SUBSET S |-> corpo(g, s)]
    <2> HIDE DEF corpo
    <2> QED  BY <1>2
  <1>4. Acumula(g, F, S)
    <2> SUFFICES ASSUME NEW s \in SUBSET S
                 PROVE  g[s] = IF s = {} THEN 0
                               ELSE LET x == CHOOSE y \in s : TRUE IN F[x] + g[s \ {x}]
      BY DEF Acumula
    <2> HIDE DEF g
    <2>1. g[s] = corpo(g, s)  BY <1>3
    <2>2. s # {} => F[CHOOSE y \in s : TRUE] = op(CHOOSE y \in s : TRUE)  OBVIOUS
    <2> QED  BY <2>1, <2>2
  <1> HIDE DEF g
  <1> QED  BY <1>1, <1>4

\* What is left to pay, over the invoices of a card.
LEMMA TotalAcumula ==
  \A id : IsFiniteSet(ResumoDasFaturas(id)) =>
    \E g : /\ Acumula(g, [v \in ResumoDasFaturas(id) |-> RestanteDaFatura(id, v)],
                      ResumoDasFaturas(id))
           /\ TotalNaoPago(id) = g[ResumoDasFaturas(id)]
  <1> SUFFICES ASSUME NEW id, IsFiniteSet(ResumoDasFaturas(id))
               PROVE  \E g : /\ Acumula(g, [v \in ResumoDasFaturas(id) |-> RestanteDaFatura(id, v)],
                                        ResumoDasFaturas(id))
                             /\ TotalNaoPago(id) = g[ResumoDasFaturas(id)]
    OBVIOUS
  <1> DEFINE S == ResumoDasFaturas(id)
             op(v) == RestanteDaFatura(id, v)
             corpo(f, s) == IF s = {} THEN 0
                            ELSE LET x == CHOOSE y \in s : TRUE IN op(x) + f[s \ {x}]
             g == CHOOSE f : f = [s \in SUBSET S |-> corpo(f, s)]
             F == [v \in S |-> RestanteDaFatura(id, v)]
  <1>1. TotalNaoPago(id) = g[S]
    BY DEF TotalNaoPago, MapThenSumSet, MapThenFoldSet
  <1>0. IsFiniteSet(S)  OBVIOUS
  <1> HIDE DEF S
  <1>2. \E f : f = [s \in SUBSET S |-> corpo(f, s)]
    <2>1. PICK f : f = [s \in SUBSET S |-> f[s]] /\ Acumula(f, F, S)
      BY <1>0, AcumulaExiste
    <2>2. ASSUME NEW s \in SUBSET S PROVE f[s] = corpo(f, s)
      <3>1. s # {} => F[CHOOSE y \in s : TRUE] = op(CHOOSE y \in s : TRUE)  OBVIOUS
      <3> QED  BY <2>1, <3>1 DEF Acumula
    <2>3. [s \in SUBSET S |-> f[s]] = [s \in SUBSET S |-> corpo(f, s)]  BY <2>2
    <2> QED  BY <2>1, <2>3
  <1>3. g = [s \in SUBSET S |-> corpo(g, s)]
    <2> HIDE DEF corpo
    <2> QED  BY <1>2
  <1>4. Acumula(g, F, S)
    <2> SUFFICES ASSUME NEW s \in SUBSET S
                 PROVE  g[s] = IF s = {} THEN 0
                               ELSE LET x == CHOOSE y \in s : TRUE IN F[x] + g[s \ {x}]
      BY DEF Acumula
    <2> HIDE DEF g
    <2>1. g[s] = corpo(g, s)  BY <1>3
    <2>2. s # {} => F[CHOOSE y \in s : TRUE] = op(CHOOSE y \in s : TRUE)  OBVIOUS
    <2> QED  BY <2>1, <2>2
  <1> HIDE DEF g
  <1> QED  BY <1>1, <1>4 DEF S

\* The same, after a step.
LEMMA TotalAcumulaDepois ==
  (\A id : IsFiniteSet(ResumoDasFaturas(id)) =>
     \E g : /\ Acumula(g, [v \in ResumoDasFaturas(id) |-> RestanteDaFatura(id, v)],
                       ResumoDasFaturas(id))
            /\ TotalNaoPago(id) = g[ResumoDasFaturas(id)])'
  BY TotalAcumula, PTL

LEMMA SomaVazia == Soma({}) = 0
  <1>1. IsFiniteSet({})  BY FS_EmptySet
  <1>2. PICK g : Acumula(g, [l \in {} |-> l.valor], {}) /\ Soma({}) = g[{}]
    BY <1>1, SomaAcumula
  <1> QED  BY <1>2 DEF Acumula

\* Two sums that differ in one term differ by what it differs.
LEMMA SomasQueDiferemEmUm ==
  ASSUME NEW S, IsFiniteSet(S), NEW F, NEW G, NEW g, NEW h,
         \A x \in S : F[x] \in Int /\ G[x] \in Int,
         Acumula(g, F, S), Acumula(h, G, S),
         NEW v, \A x \in S : x # v => F[x] = G[x]
  PROVE  /\ g[S] \in Int /\ h[S] \in Int
         /\ v \in S => g[S] - h[S] = F[v] - G[v]
         /\ v \notin S => g[S] = h[S]
  <1>1. /\ \A T \in SUBSET S : g[T] \in Int /\ \A x \in T : g[T] = F[x] + g[T \ {x}]
        /\ \A T \in SUBSET S : h[T] \in Int /\ \A x \in T : h[T] = G[x] + h[T \ {x}]
    <2>1. \A x \in S : F[x] \in Int  OBVIOUS
    <2>2. \A x \in S : G[x] \in Int  OBVIOUS
    <2>3. \A T \in SUBSET S : g[T] \in Int /\ \A x \in T : g[T] = F[x] + g[T \ {x}]
      <3> SUFFICES ASSUME NEW T \in SUBSET S
                   PROVE  g[T] \in Int /\ \A x \in T : g[T] = F[x] + g[T \ {x}]
        OBVIOUS
      <3> QED  BY <2>1, AcumulaTira
    <2>4. \A T \in SUBSET S : h[T] \in Int /\ \A x \in T : h[T] = G[x] + h[T \ {x}]
      <3> SUFFICES ASSUME NEW T \in SUBSET S
                   PROVE  h[T] \in Int /\ \A x \in T : h[T] = G[x] + h[T \ {x}]
        OBVIOUS
      <3> QED  BY <2>2, AcumulaTira
    <2> QED  BY <2>3, <2>4
  <1> DEFINE T == S \ {v}
  <1>2. T \in SUBSET S  OBVIOUS
  <1>3. Acumula(h, G, T)  BY DEF Acumula
  <1>4. \A x \in T : F[x] = G[x]  OBVIOUS
  <1> HIDE DEF T
  <1>5. g[T] = h[T]  BY <1>2, <1>3, <1>4, AcumulaUnica
  <1>6. ASSUME v \in S PROVE g[S] - h[S] = F[v] - G[v]
    <2>1. g[S] = F[v] + g[T] /\ h[S] = G[v] + h[T]  BY <1>1, <1>6 DEF T
    <2>2. g[T] \in Int /\ F[v] \in Int /\ G[v] \in Int  BY <1>1, <1>2, <1>6
    <2> QED  BY <1>5, <2>1, <2>2
  <1>7. ASSUME v \notin S PROVE g[S] = h[S]
    BY <1>5, <1>7 DEF T
  <1> QED  BY <1>1, <1>6, <1>7

\* Rows that have whole values have a whole sum.
LEMMA SomaInteira ==
  ASSUME NEW S, IsFiniteSet(S), \A l \in S : l.valor \in Int
  PROVE  Soma(S) \in Int
  <1>1. PICK g : Acumula(g, [l \in S |-> l.valor], S) /\ Soma(S) = g[S]
    BY SomaAcumula
  <1> QED  BY <1>1, AcumulaTira

\* Amounts that are not negative have a sum that is not either.
LEMMA SomaNatural ==
  ASSUME NEW S, IsFiniteSet(S), \A l \in S : l.valor \in Nat
  PROVE  Soma(S) \in Nat
  <1> DEFINE F == [l \in S |-> l.valor]
  <1>1. PICK g : Acumula(g, F, S) /\ Soma(S) = g[S]
    BY SomaAcumula
  <1>2. \A l \in S : F[l] \in Nat  OBVIOUS
  <1> HIDE DEF F
  <1> DEFINE B == {T \in SUBSET S : g[T] \notin Nat}
  <1>3. \A T \in SUBSET S : T \notin B => g[T] \in Nat  OBVIOUS
  <1>4. ASSUME B # {} PROVE FALSE
    <2>1. PICK T \in B : \A U \in SUBSET T : U # T => U \notin B
      <3>1. B \subseteq SUBSET S  OBVIOUS
      <3> HIDE DEF B
      <3> QED  BY <1>4, <3>1, SubconjuntoMinimo
    <2>2. T \in SUBSET S /\ g[T] \notin Nat  OBVIOUS
    <2> HIDE DEF B
    <2>3. CASE T = {}  BY <1>1, <2>2, <2>3 DEF Acumula
    <2>4. CASE T # {}
      <3> DEFINE c == CHOOSE y \in T : TRUE
      <3>1. c \in T  BY <2>4
      <3>2. g[T] = F[c] + g[T \ {c}]  BY <1>1, <2>2, <2>4 DEF Acumula
      <3> HIDE DEF c
      <3>3. T \ {c} \in SUBSET T /\ T \ {c} # T  BY <3>1
      <3>4. g[T \ {c}] \in Nat  BY <1>3, <2>1, <2>2, <3>3
      <3>5. F[c] \in Nat  BY <1>2, <2>2, <3>1
      <3> QED  BY <2>2, <3>2, <3>4, <3>5
    <2> QED  BY <2>3, <2>4
  <1> QED  BY <1>1, <1>3, <1>4

\* A new row adds its value.
LEMMA SomaMaisUma ==
  ASSUME NEW S, IsFiniteSet(S), NEW n, n \notin S, \A l \in S \cup {n} : l.valor \in Int
  PROVE  Soma(S \cup {n}) = Soma(S) + n.valor
  <1> DEFINE T == S \cup {n}
             F == [l \in T |-> l.valor]
             G == [l \in S |-> l.valor]
  <1>1. IsFiniteSet(T)  BY FS_AddElement
  <1>2. T \ {n} = S /\ n \in T /\ S \subseteq T  OBVIOUS
  <1>3. F[n] = n.valor /\ \A x \in S : F[x] = G[x]  OBVIOUS
  <1>4. \A x \in T : F[x] \in Int  OBVIOUS
  <1>a. PICK g : Acumula(g, F, T) /\ Soma(T) = g[T]
    <2> HIDE DEF T
    <2> QED  BY <1>1, SomaAcumula
  <1>b. PICK h : Acumula(h, G, S) /\ Soma(S) = h[S]  BY SomaAcumula
  <1> HIDE DEF T, F, G
  <1>5. g[T] = F[n] + g[T \ {n}]
    <2>1. T \in SUBSET T  OBVIOUS
    <2>2. \A U \in SUBSET T : g[U] \in Int /\ \A x \in U : g[U] = F[x] + g[U \ {x}]
      BY <1>1, <1>4, <1>a, AcumulaTira
    <2> QED  BY <1>2, <2>1, <2>2
  <1>6. g[S] = h[S]  BY <1>1, <1>2, <1>3, <1>a, <1>b, AcumulaUnica
  <1>7. Soma(T) = Soma(S) + n.valor
    <2>1. Soma(S) \in Int /\ n.valor \in Int  BY SomaInteira
    <2>2. Soma(T) = F[n] + g[S]  BY <1>2, <1>5, <1>a
    <2> QED  BY <1>3, <1>6, <1>b, <2>1, <2>2
  <1> QED  BY <1>7 DEF T

-------------------------------------------------------------------------------
\* Sums are over finite tables: the purchases that are written are finite
\* because no two of their rows are the same instalment, of 36 at most.
Finitas == IsFiniteSet(compras) /\ IsFiniteSet(pagamentos)

\* What a finite set gives, row by row, is finite.
LEMMA ImagemFinita ==
  ASSUME NEW S, NEW T, IsFiniteSet(S), NEW f, f = [x \in S |-> f[x]],
         \A y \in T : \E x \in S : f[x] = y, \A x \in S : f[x] \in T
  PROVE  IsFiniteSet(T)
  <1>1. f \in Surjection(S, T)  BY DEF Surjection
  <1> QED  BY <1>1, FS_Surjection

\* Each row of a purchase is one of its instalments.
LEMMA LinhasFinitas ==
  ASSUME NEW id, NEW linhas \in SUBSET Compra, LinhasProntas(id, linhas)
  PROVE  IsFiniteSet(linhas)
  <1> DEFINE f == [l \in linhas |-> l.parcela]
  <1>1. f \in [linhas -> 1 .. 36]  BY DEF Compra
  <1>2. \A l, m \in linhas : f[l] = f[m] => l = m  BY DEF LinhasProntas, UmaCompra
  <1>3. IsFiniteSet(1 .. 36)
    <2>1. 1 \in Int /\ 36 \in Int  OBVIOUS
    <2> QED  BY <2>1, FS_Interval, Zenon
  <1> HIDE DEF f
  <1>4. f \in Injection(linhas, 1 .. 36)  BY <1>1, <1>2 DEF Injection, IsInjective
  <1> QED  BY <1>3, <1>4, FS_Injection

\* No transaction makes a table infinite.
LEMMA EscritaFinita ==
  ASSUME Finitas, Escrita \/ UNCHANGED tabelas
  PROVE  Finitas'
  <1> USE DEF Finitas
  <1>1. CASE compras' \subseteq compras /\ pagamentos' \subseteq pagamentos
    BY <1>1, FS_Subset
  <1>2. ASSUME NEW id \in Id, NEW linhas \in SUBSET Compra, LinhasProntas(id, linhas),
               CreateCompras(id, linhas)
        PROVE  Finitas'
    <2> DEFINE g == [l \in linhas |-> [l EXCEPT !.grupo = proximoId]]
               novas == {[l EXCEPT !.grupo = proximoId] : l \in linhas}
    <2>1. IsFiniteSet(linhas)  BY <1>2, LinhasFinitas
    <2>2. g = [l \in linhas |-> g[l]]  OBVIOUS
    <2>3. (\A y \in novas : \E l \in linhas : g[l] = y) /\ \A l \in linhas : g[l] \in novas
      OBVIOUS
    <2>4. compras' = compras \cup novas /\ pagamentos' = pagamentos
      BY <1>2 DEF CreateCompras
    <2> HIDE DEF g, novas
    <2>5. IsFiniteSet(novas)  BY <2>1, <2>2, <2>3, ImagemFinita
    <2> QED  BY <2>4, <2>5, FS_Union
  <1>3. ASSUME NEW id \in Id, NEW v \in Data, NEW d \in Data, NEW valor \in Valor,
               RegistrarPagamento(id, v, valor, d)
        PROVE  Finitas'
    BY <1>3, FS_AddElement DEF RegistrarPagamento
  <1>4. \/ compras' \subseteq compras /\ pagamentos' \subseteq pagamentos
        \/ \E id \in Id, linhas \in SUBSET Compra :
             LinhasProntas(id, linhas) /\ CreateCompras(id, linhas)
        \/ \E id \in Id, v, d \in Data, valor \in Valor : RegistrarPagamento(id, v, valor, d)
    BY DEF Escrita, Create, Update, Delete, DeleteCompraGrupo, RemoverUltimoPagamento,
           UpdateTransacao, DeleteTransacao, tabelas
  <1> QED  BY <1>1, <1>2, <1>3, <1>4

\* The tables are finite at every moment.
LEMMA TabelasFinitas == Spec => []Finitas
  <1>1. Init => Finitas  BY FS_EmptySet DEF Init, Vazias, Finitas
  <1>2. IInv /\ Finitas /\ [Next]_vars => Finitas'
    <2> SUFFICES ASSUME IInv, Finitas, [Next]_vars PROVE Finitas'  OBVIOUS
    <2>1. Escrita \/ UNCHANGED tabelas  BY PassoEscreve DEF Next, vars
    <2> QED  BY <2>1, EscritaFinita
  <1> QED  BY <1>1, <1>2, Invariante, PTL DEF Spec

\* The step of PagamentoSoLiberaASuaFatura.
PassoDoLimite ==
  \A p \in pagamentos' \ pagamentos :
    TotalNaoPago(p.cartao) - TotalNaoPago(p.cartao)'
      = Menor(p.valor, RestanteDaFatura(p.cartao, p.vencimento))

\* What is left of each invoice, before and after the payment of one of them.
LEMMA RestantesAoPagar ==
  ASSUME TabelasInv, Finitas, NEW id \in Id, NEW v \in Data, NEW valor \in Valor, NEW d \in Data,
         RegistrarPagamento(id, v, valor, d)
  PROVE  /\ \A w \in Data :
              /\ RestanteDaFatura(id, w) \in Nat
              /\ RestanteDaFatura(id, w)' \in Nat
              /\ w # v => RestanteDaFatura(id, w)' = RestanteDaFatura(id, w)
         /\ RestanteDaFatura(id, v) - RestanteDaFatura(id, v)'
              = Menor(valor, RestanteDaFatura(id, v))
         /\ ComprasDaFatura(id, v) = {} => RestanteDaFatura(id, v) = 0
  <1> DEFINE n == [cartao |-> id, vencimento |-> v, transacao |-> proximoId,
                   valor |-> valor, pagoEm |-> d]
             C(w) == ComprasDaFatura(id, w)
             P(w) == PagamentosDaFatura(id, w)
  <1>1. pagamentos' = pagamentos \cup {n} /\ compras' = compras  BY DEF RegistrarPagamento
  <1>2. n \notin pagamentos
    BY DEF TabelasInv, IdsUsados, ReferenciasValidas, TabelasTypeOK, Id
  <1>3. n.cartao = id /\ n.vencimento = v /\ n.valor = valor /\ valor \in Nat /\ valor > 0
    BY MaxMoneyAssumption DEF Valor
  <1>4. (\A l \in compras : l.valor \in Nat) /\ (\A p \in pagamentos : p.valor \in Int)
    BY DEF TabelasInv, TabelasTypeOK, Compra, Pagamento, Valor
  <1> HIDE DEF n
  <1>5. \A w : C(w)' = C(w) /\ (w # v => P(w)' = P(w))
    BY <1>1, <1>3 DEF ComprasDaFatura, PagamentosDaFatura
  <1>6. P(v)' = P(v) \cup {n} /\ n \notin P(v)
    BY <1>1, <1>2, <1>3 DEF PagamentosDaFatura
  <1>7. \A w : /\ IsFiniteSet(C(w)) /\ \A l \in C(w) : l.valor \in Int
               /\ IsFiniteSet(P(w)) /\ \A p \in P(w) : p.valor \in Int
    BY <1>4, FS_Subset DEF Finitas, ComprasDaFatura, PagamentosDaFatura
  <1>8. \A w : Soma(C(w)) \in Int /\ Soma(P(w)) \in Int
    <2> SUFFICES ASSUME NEW w PROVE Soma(C(w)) \in Int /\ Soma(P(w)) \in Int  OBVIOUS
    <2> HIDE DEF C, P
    <2> QED  BY <1>7, SomaInteira
  <1>9. Soma(P(v) \cup {n}) = Soma(P(v)) + valor
    <2> HIDE DEF P
    <2> QED  BY <1>3, <1>6, <1>7, SomaMaisUma
  <1>10. \A w : /\ RestanteDaFatura(id, w) = Restante(Soma(C(w)), Soma(P(w)))
                /\ RestanteDaFatura(id, w)' = Restante(Soma(C(w)'), Soma(P(w)'))
    BY DEF RestanteDaFatura
  <1>11. \A w : w # v => RestanteDaFatura(id, w)' = RestanteDaFatura(id, w)
    BY <1>5, <1>10
  <1>12. RestanteDaFatura(id, v)' = Restante(Soma(C(v)), Soma(P(v)) + valor)
    BY <1>5, <1>6, <1>9, <1>10
  <1> HIDE DEF C, P
  <1>13. RestanteDaFatura(id, v) - RestanteDaFatura(id, v)'
              = Menor(valor, RestanteDaFatura(id, v))
    BY <1>3, <1>8, <1>10, <1>12 DEF Restante, Menor
  <1>14. \A w \in Data : RestanteDaFatura(id, w) \in Nat /\ RestanteDaFatura(id, w)' \in Nat
    <2> SUFFICES ASSUME NEW w \in Data
                 PROVE  RestanteDaFatura(id, w) \in Nat /\ RestanteDaFatura(id, w)' \in Nat
      OBVIOUS
    <2>1. RestanteDaFatura(id, w) \in Nat  BY <1>8, <1>10 DEF Restante
    <2>2. RestanteDaFatura(id, v)' \in Nat  BY <1>3, <1>8, <1>12 DEF Restante
    <2> QED  BY <1>11, <2>1, <2>2
  <1>15. ASSUME ComprasDaFatura(id, v) = {} PROVE RestanteDaFatura(id, v) = 0
    <2>1. Soma(C(v)) = 0  BY <1>15, SomaVazia DEF C
    <2>2. Soma(P(v)) \in Nat
      <3>1. \A p \in P(v) : p.valor \in Nat
        BY DEF P, PagamentosDaFatura, TabelasInv, TabelasTypeOK, Pagamento, Valor
      <3> QED  BY <1>7, <3>1, SomaNatural
    <2> QED  BY <1>10, <2>1, <2>2 DEF Restante
  <1> QED  BY <1>11, <1>13, <1>14, <1>15

\* No other transaction adds a payment.
LEMMA PagarSoLibera ==
  ASSUME TabelasInv, Finitas, Escrita
  PROVE  PassoDoLimite
  <1>1. ASSUME pagamentos' \subseteq pagamentos PROVE PassoDoLimite
    BY <1>1 DEF PassoDoLimite
  <1>2. ASSUME NEW id \in Id, NEW v \in Data, NEW d \in Data, NEW valor \in Valor,
               RegistrarPagamento(id, v, valor, d)
        PROVE  PassoDoLimite
    <2> SUFFICES ASSUME NEW p \in pagamentos' \ pagamentos
                 PROVE  TotalNaoPago(p.cartao) - TotalNaoPago(p.cartao)'
                          = Menor(p.valor, RestanteDaFatura(p.cartao, p.vencimento))
      BY DEF PassoDoLimite
    <2>1. p.cartao = id /\ p.vencimento = v /\ p.valor = valor
      BY <1>2 DEF RegistrarPagamento
    <2> DEFINE S == ResumoDasFaturas(id)
               F == [w \in S |-> RestanteDaFatura(id, w)]
               G == [w \in S |-> RestanteDaFatura(id, w)']
    <2>2. S' = S  BY <1>2 DEF RegistrarPagamento, ResumoDasFaturas
    <2>3. IsFiniteSet(S) /\ S \subseteq Data
      <3> DEFINE K == {k \in compras : k.cartao = id}
                 f == [k \in K |-> k.fatura]
      <3>1. IsFiniteSet(K)  BY FS_Subset DEF Finitas
      <3>2. (\A y \in S : \E k \in K : f[k] = y) /\ \A k \in K : f[k] \in S
        BY DEF ResumoDasFaturas
      <3>3. S \subseteq Data  BY DEF ResumoDasFaturas, TabelasInv, TabelasTypeOK, Compra
      <3>4. f = [k \in K |-> f[k]]  OBVIOUS
      <3> HIDE DEF f, K, S
      <3> QED  BY <3>1, <3>2, <3>3, <3>4, ImagemFinita
    <2>4. PICK g : Acumula(g, F, S) /\ TotalNaoPago(id) = g[S]
      BY <2>3, TotalAcumula
    <2>5. PICK h : Acumula(h, G, S) /\ TotalNaoPago(id)' = h[S]
      <3>1. IsFiniteSet(S')  BY <2>2, <2>3
      <3>2. \E h : Acumula(h, [w \in S' |-> RestanteDaFatura(id, w)'], S') /\ TotalNaoPago(id)' = h[S']
        BY <3>1, TotalAcumulaDepois
      <3> QED  BY <2>2, <3>2
    <2>6. /\ \A w \in S : F[w] \in Nat /\ G[w] \in Nat /\ (w # v => F[w] = G[w])
          /\ RestanteDaFatura(id, v) - RestanteDaFatura(id, v)'
               = Menor(valor, RestanteDaFatura(id, v))
          /\ v \notin S => RestanteDaFatura(id, v) = 0
      <3>1. v \notin S => ComprasDaFatura(id, v) = {}
        BY DEF ResumoDasFaturas, ComprasDaFatura
      <3> QED  BY <1>2, <2>3, <3>1, RestantesAoPagar
    <2>7. v \in S => F[v] = RestanteDaFatura(id, v) /\ G[v] = RestanteDaFatura(id, v)'
      OBVIOUS
    <2> HIDE DEF S, F, G
    <2>8. /\ \A w \in S : F[w] \in Int /\ G[w] \in Int
          /\ \A w \in S : w # v => F[w] = G[w]
      BY <2>6
    <2>9. /\ g[S] \in Int /\ h[S] \in Int
          /\ v \in S => g[S] - h[S] = F[v] - G[v]
          /\ v \notin S => g[S] = h[S]
      BY <2>3, <2>4, <2>5, <2>8, SomasQueDiferemEmUm
    <2>10. CASE v \in S
      BY <2>1, <2>4, <2>5, <2>6, <2>7, <2>9, <2>10
    <2>11. CASE v \notin S
      <3>1. Menor(valor, 0) = 0  BY MaxMoneyAssumption DEF Valor, Menor
      <3> QED  BY <2>1, <2>4, <2>5, <2>6, <2>9, <2>11, <3>1
    <2> QED  BY <2>10, <2>11
  <1>3. \/ pagamentos' \subseteq pagamentos
        \/ \E id \in Id, v, d \in Data, valor \in Valor : RegistrarPagamento(id, v, valor, d)
    BY DEF Escrita, Create, Update, Delete, CreateCompras, DeleteCompraGrupo,
           RemoverUltimoPagamento, UpdateTransacao, DeleteTransacao
  <1> QED  BY <1>1, <1>2, <1>3

\* A payment gives back the limit its own invoice was holding and no more,
\* whatever the other requests do.
THEOREM SoLiberaASuaFatura == Spec => PagamentoSoLiberaASuaFatura
  <1>1. IInv /\ Finitas /\ [Next]_vars => [PassoDoLimite]_tabelas
    <2> SUFFICES ASSUME IInv, Finitas, [Next]_vars PROVE PassoDoLimite \/ UNCHANGED tabelas
      OBVIOUS
    <2>1. Escrita \/ UNCHANGED tabelas  BY PassoEscreve DEF Next, vars
    <2> QED  BY <2>1, PagarSoLibera DEF IInv
  <1>2. Spec => [][PassoDoLimite]_tabelas
    BY <1>1, Invariante, TabelasFinitas, PTL DEF Spec
  <1> QED  BY <1>2 DEF PagamentoSoLiberaASuaFatura, PassoDoLimite

-------------------------------------------------------------------------------
(* What an operation does not do when it checks and writes at once.         *)

\* Each operation is one transaction of the repository.
LEMMA OperacaoEscreve ==
  ASSUME TabelasInv, Operacao
  PROVE  Escrita
  <1>0. /\ DOMAIN cartoes \subseteq Id /\ DOMAIN transacoes \subseteq Id
        /\ \A id \in DOMAIN cartoes : cartoes[id] \in Cartao
        /\ \A t \in DOMAIN transacoes : transacoes[t].data \in Data
        /\ \A l \in compras : l.grupo \in Nat
    BY DEF TabelasInv, TabelasTypeOK, Transacao, Compra
  <1>a. \A dias \in Dias, ativo \in BOOLEAN : CartaoCom(dias, ativo) \in Cartao
    BY EntradasAssumption DEF CartaoCom, Cartao
  <1>b. \A id \in DOMAIN cartoes, m \in Competencias : VencimentoDe(cartoes[id], m) \in Data
    BY <1>0, EntradasAssumption, CompetenciaData
  <1>1. CASE Cadastrar \/ AlterarDias \/ Alterar \/ Excluir
    <2>1. \A id \in DOMAIN cartoes : cartoes[id].ativo \in BOOLEAN  BY <1>0 DEF Cartao
    <2> QED  BY <1>0, <1>a, <1>1, <2>1
               DEF Cadastrar, AlterarDias, Alterar, Excluir, Escrita
  <1>2. CASE Comprar
    <2>1. PICK id \in DOMAIN cartoes, data \in DatasCompra, valor \in ValoresCompra,
               n \in Parcelas :
            /\ CompraValida(valor, n) /\ valor <= MaxMoney
            /\ CreateCompras(id, LinhasDaCompra(id, cartoes[id], data, valor, n))
      BY <1>2 DEF Comprar
    <2>2. LinhasProntas(id, LinhasDaCompra(id, cartoes[id], data, valor, n))
      BY <1>0, <2>1, EntradasAssumption, LinhasDaCompraInteira DEF LinhasProntas
    <2> QED  BY <1>0, <2>1, <2>2 DEF Escrita, LinhasProntas
  <1>3. CASE Estornar
    BY <1>0, <1>3 DEF Estornar, Escrita
  <1>4. CASE Pagar \/ Desfazer
    BY <1>0, <1>b, <1>4, EntradasAssumption
       DEF Pagar, Desfazer, Escrita, ValoresDoPagamento
  <1>5. CASE AlterarTransacao
    <2>1. PICK t \in DOMAIN transacoes, e \in EdicoesTransacao :
            \E data \in DatasPagamento \cup {transacoes[t].data} :
              /\ e.valor \in Valor
              /\ UpdateTransacao(t, [tipo |-> e.tipo, valor |-> e.valor, data |-> data])
      BY <1>5 DEF AlterarTransacao
    <2>2. PICK data \in Data :
              /\ e.valor \in Valor
              /\ UpdateTransacao(t, [tipo |-> e.tipo, valor |-> e.valor, data |-> data])
      BY <1>0, <2>1, EntradasAssumption
    <2>3. [tipo |-> e.tipo, valor |-> e.valor, data |-> data] \in Transacao
      BY <2>2, EntradasAssumption DEF Transacao
    <2> QED  BY <1>0, <2>2, <2>3 DEF Escrita
  <1>6. CASE RemoverTransacao
    BY <1>0, <1>6 DEF RemoverTransacao, Escrita
  <1> QED  BY <1>1, <1>2, <1>3, <1>4, <1>5, <1>6 DEF Operacao

\* A payment is registered for an invoice that has purchases and is not paid.
LEMMA PagarRegistra ==
  ASSUME TabelasInv, Pagar
  PROVE  \E id \in DOMAIN cartoes, v \in Data, pagoEm \in DatasPagamento, valor \in Valor :
           /\ ~ FaturaQuitada(id, v)
           /\ Soma(ComprasDaFatura(id, v)) > 0
           /\ RegistrarPagamento(id, v, valor, pagoEm)
  <1>1. \A id \in DOMAIN cartoes, m \in Competencias : VencimentoDe(cartoes[id], m) \in Data
    BY EntradasAssumption, CompetenciaData DEF TabelasInv, TabelasTypeOK
  <1> QED  BY <1>1 DEF Pagar, ValoresDoPagamento, FaturaQuitada

\* A payment keeps purchases behind it.
LEMMA OperacaoMantemCompras ==
  ASSUME TabelasInv, Operacao
  PROVE  ~ PagamentoFicaSemCompra
  <1> USE DEF PagamentoFicaSemCompra, TemCompra, ComprasDaFatura
  <1>1. CASE pagamentos' \subseteq pagamentos /\ compras \subseteq compras'
    BY <1>1
  <1>2. CASE Excluir
    <2>1. PICK id \in DOMAIN cartoes : ResumoDasFaturas(id) = {} /\ Delete(id)
      BY <1>2 DEF Excluir
    <2>2. \A l \in compras : l.cartao # id  BY <2>1 DEF ResumoDasFaturas
    <2> QED  BY <2>1, <2>2 DEF Delete
  <1>3. CASE Estornar
    <2>1. PICK g \in {l.grupo : l \in compras} :
            ~ GrupoTemPagamento(g) /\ DeleteCompraGrupo(g)
      BY <1>3 DEF Estornar
    <2> SUFFICES ASSUME NEW p \in pagamentos', p \in pagamentos => TemCompra(p)
                 PROVE  \E l \in compras' : l.cartao = p.cartao /\ l.fatura = p.vencimento
      OBVIOUS
    <2>2. p \in pagamentos  BY <2>1 DEF DeleteCompraGrupo
    <2>3. PICK l \in compras : l.cartao = p.cartao /\ l.fatura = p.vencimento  BY <2>2
    <2>4. l.grupo # g
      BY <2>1, <2>2, <2>3 DEF GrupoTemPagamento, PagamentosDaFatura
    <2> QED  BY <2>1, <2>3, <2>4 DEF DeleteCompraGrupo
  <1>4. CASE Pagar
    <2>1. PICK id \in DOMAIN cartoes, v \in Data,
               pagoEm \in DatasPagamento, valor \in Valor :
            Soma(ComprasDaFatura(id, v)) > 0 /\ RegistrarPagamento(id, v, valor, pagoEm)
      BY <1>4, PagarRegistra
    <2>2. ComprasDaFatura(id, v) # {}
      <3> SUFFICES ASSUME ComprasDaFatura(id, v) = {} PROVE FALSE  OBVIOUS
      <3>1. Soma({}) > 0  BY <2>1
      <3> QED  BY <3>1, SomaVazia
    <2> QED  BY <2>1, <2>2 DEF RegistrarPagamento
  <1>5. \/ pagamentos' \subseteq pagamentos /\ compras \subseteq compras'
        \/ Excluir \/ Estornar \/ Pagar
    BY DEF Operacao, Cadastrar, AlterarDias, Alterar, Comprar, Desfazer, AlterarTransacao,
           RemoverTransacao, Create, Update, CreateCompras, RemoverUltimoPagamento,
           UpdateTransacao, DeleteTransacao
  <1> QED  BY <1>1, <1>2, <1>3, <1>4, <1>5

\* A card that goes has no purchases.
LEMMA OperacaoGuardaCartao ==
  ASSUME Operacao
  PROVE  ~ CartaoSomeComCompras
  <1>1. CASE DOMAIN cartoes \subseteq DOMAIN cartoes'
    BY <1>1 DEF CartaoSomeComCompras
  <1>2. CASE Excluir
    <2>1. PICK id \in DOMAIN cartoes : ResumoDasFaturas(id) = {} /\ Delete(id)
      BY <1>2 DEF Excluir
    <2>2. DOMAIN cartoes \ DOMAIN cartoes' \subseteq {id}  BY <2>1 DEF Delete, Remover
    <2> QED  BY <2>1, <2>2 DEF ResumoDasFaturas, CartaoSomeComCompras
  <1>3. DOMAIN cartoes \subseteq DOMAIN cartoes' \/ Excluir
    BY DEF Operacao, Cadastrar, AlterarDias, Alterar, Comprar, Estornar, Pagar, Desfazer,
           AlterarTransacao, RemoverTransacao, Create, Inserir, Update, CreateCompras,
           DeleteCompraGrupo, RegistrarPagamento, RemoverUltimoPagamento,
           UpdateTransacao, DeleteTransacao
  <1> QED  BY <1>1, <1>2, <1>3

\* An invoice whose payments cover it gets no other.
LEMMA OperacaoNaoPagaDeNovo ==
  ASSUME TabelasInv, Operacao
  PROVE  ~ PagaDeNovo
  <1>1. CASE pagamentos' \subseteq pagamentos  BY <1>1 DEF PagaDeNovo
  <1>2. CASE Pagar
    <2>1. PICK id \in DOMAIN cartoes, v \in Data,
               pagoEm \in DatasPagamento, valor \in Valor :
            ~ FaturaQuitada(id, v) /\ RegistrarPagamento(id, v, valor, pagoEm)
      BY <1>2, PagarRegistra
    <2> QED  BY <2>1 DEF RegistrarPagamento, PagaDeNovo
  <1>3. pagamentos' \subseteq pagamentos \/ Pagar
    BY DEF Operacao, Cadastrar, AlterarDias, Alterar, Excluir, Comprar, Estornar, Desfazer,
           AlterarTransacao, RemoverTransacao, Create, Update, Delete, CreateCompras,
           DeleteCompraGrupo, RemoverUltimoPagamento, UpdateTransacao, DeleteTransacao
  <1> QED  BY <1>1, <1>2, <1>3

\* No purchase enters an archived card.
LEMMA OperacaoRespeitaArquivado ==
  ASSUME Operacao
  PROVE  ~ CompraEmArquivado
  <1>1. CASE compras' \subseteq compras  BY <1>1 DEF CompraEmArquivado
  <1>2. CASE Comprar
    <2>1. PICK id \in DOMAIN cartoes, data \in DatasCompra, valor \in ValoresCompra,
               n \in Parcelas :
            /\ cartoes[id].ativo
            /\ CreateCompras(id, LinhasDaCompra(id, cartoes[id], data, valor, n))
      BY <1>2 DEF Comprar
    <2>2. \A l \in LinhasDaCompra(id, cartoes[id], data, valor, n) :
            [l EXCEPT !.grupo = proximoId].cartao = id
      BY DEF LinhasDaCompra
    <2> QED  BY <2>1, <2>2 DEF CreateCompras, CompraEmArquivado
  <1>3. compras' \subseteq compras \/ Comprar
    BY DEF Operacao, Cadastrar, AlterarDias, Alterar, Excluir, Estornar, Pagar, Desfazer,
           AlterarTransacao, RemoverTransacao, Create, Update, Delete,
           DeleteCompraGrupo, RegistrarPagamento, RemoverUltimoPagamento,
           UpdateTransacao, DeleteTransacao
  <1> QED  BY <1>1, <1>2, <1>3

\* An invoice that received a payment keeps its purchases and gains only later
\* instalments.
LEMMA OperacaoGuardaPaga ==
  ASSUME TabelasInv, Operacao
  PROVE  ~ FaturaPagaMuda
  <1> SUFFICES ASSUME NEW p \in pagamentos, p \in pagamentos'
               PROVE  /\ \A l \in compras : l.cartao = p.cartao /\ l.fatura = p.vencimento
                                           => l \in compras'
                      /\ \A l \in compras' \ compras :
                           l.cartao = p.cartao /\ l.fatura = p.vencimento => l.parcela # 1
    BY DEF ComprasDaFatura, FaturaPagaMuda
  <1>1. CASE compras' = compras  BY <1>1
  <1>2. CASE Excluir
    <2>1. PICK id \in DOMAIN cartoes : Delete(id)  BY <1>2 DEF Excluir
    <2> QED  BY <2>1 DEF Delete
  <1>3. CASE Estornar
    <2>1. PICK g \in {l.grupo : l \in compras} :
            ~ GrupoTemPagamento(g) /\ DeleteCompraGrupo(g)
      BY <1>3 DEF Estornar
    <2>2. \A l \in compras : l.cartao = p.cartao /\ l.fatura = p.vencimento => l.grupo # g
      BY <2>1 DEF GrupoTemPagamento, PagamentosDaFatura
    <2> QED  BY <2>1, <2>2 DEF DeleteCompraGrupo
  <1>4. CASE Comprar
    <2>1. PICK id \in DOMAIN cartoes, data \in DatasCompra, valor \in ValoresCompra,
               n \in Parcelas :
            LET linhas == LinhasDaCompra(id, cartoes[id], data, valor, n)
            IN /\ PagamentosDaFatura(id, Primeira(linhas).fatura) = {}
               /\ CreateCompras(id, linhas)
      BY <1>4 DEF Comprar
    <2> DEFINE linhas == LinhasDaCompra(id, cartoes[id], data, valor, n)
    <2>2. \A l \in linhas : l.cartao = id  BY DEF LinhasDaCompra
    <2>3. \A l, m \in linhas : l.parcela = 1 /\ m.parcela = 1 => l = m
      BY DEF LinhasDaCompra
    <2>4. \A l \in linhas : l.parcela = 1 => l = Primeira(linhas)
      BY <2>3 DEF Primeira
    <2>5. \A l \in linhas : LET m == [l EXCEPT !.grupo = proximoId]
                            IN m.cartao = l.cartao /\ m.fatura = l.fatura /\ m.parcela = l.parcela
      BY DEF LinhasDaCompra
    <2>6. compras' = compras \cup {[l EXCEPT !.grupo = proximoId] : l \in linhas}
      BY <2>1 DEF CreateCompras
    <2>7. ~ (id = p.cartao /\ Primeira(linhas).fatura = p.vencimento)
      BY <2>1 DEF PagamentosDaFatura
    <2> HIDE DEF linhas
    <2>8. ASSUME NEW m \in compras', m \notin compras,
                 m.cartao = p.cartao, m.fatura = p.vencimento, m.parcela = 1
          PROVE  FALSE
      <3>1. PICK l \in linhas : m = [l EXCEPT !.grupo = proximoId]  BY <2>6, <2>8
      <3>2. m.cartao = l.cartao /\ m.fatura = l.fatura /\ m.parcela = l.parcela
        BY <2>5, <3>1
      <3>3. l = Primeira(linhas) /\ l.cartao = id  BY <2>2, <2>4, <2>8, <3>2
      <3> QED  BY <2>7, <2>8, <3>2, <3>3
    <2> QED  BY <2>6, <2>8
  <1>5. compras' = compras \/ Excluir \/ Estornar \/ Comprar
    BY DEF Operacao, Cadastrar, AlterarDias, Alterar, Pagar, Desfazer, AlterarTransacao,
           RemoverTransacao, Create, Update, RegistrarPagamento, RemoverUltimoPagamento,
           UpdateTransacao, DeleteTransacao
  <1> QED  BY <1>1, <1>2, <1>3, <1>4, <1>5

\* No operation, done at once, is a mistake.
LEMMA OperacaoSemEngano ==
  ASSUME TabelasInv, Operacao
  PROVE  ~ Engano
  <1> QED  BY OperacaoMantemCompras, OperacaoNaoPagaDeNovo, OperacaoRespeitaArquivado, OperacaoGuardaCartao,
              OperacaoGuardaPaga DEF Engano

-------------------------------------------------------------------------------
(* What an undisturbed request remembers is what the database holds.        *)

EhDaFatura(p) ==
  /\ p.cartao \in DOMAIN cartoes
  /\ \E m \in Competencias : p.vencimento = VencimentoDe(cartoes[p.cartao], m)

EhDaCompra(p) ==
  \E data \in DatasCompra, valor \in ValoresCompra, n \in Parcelas :
    /\ p.cartao \in DOMAIN cartoes
    /\ cartoes[p.cartao].ativo
    /\ CompraValida(valor, n) /\ valor <= MaxMoney
    /\ p.linhas = LinhasDaCompra(p.cartao, cartoes[p.cartao], data, valor, n)

\* Whether a new card row, which the client gave without speaking of ativo,
\* keeps the one of the card.
MantemAtivo(p) ==
  p.cartao \in DOMAIN cartoes
    /\ \E dias \in Dias : p.novo = CartaoCom(dias, cartoes[p.cartao].ativo)

EhDaTransacao(p) ==
  /\ p.transacao \in DOMAIN transacoes
  /\ \E e \in EdicoesTransacao,
        data \in DatasPagamento \cup {transacoes[p.transacao].data} :
       e.valor \in Valor /\ p.novo = [tipo |-> e.tipo, valor |-> e.valor, data |-> data]

\* The checks of PagarFatura, on the purchases and payments of the invoice.
PagamentoCabe(p, comprados, pagos) ==
  /\ ~ Quitada(Soma(comprados), Soma(pagos))
  /\ Soma(comprados) > 0
  /\ p.valor \in ValoresDoPagamento(Soma(comprados), Soma(pagos))
  /\ p.pagoEm \in DatasPagamento

Atual(p) ==
  /\ p.op = "update" /\ ~ p.pediuAtivo => MantemAtivo(p)
  /\ p.op = "update" /\ p.pediuAtivo =>
       \E dias \in Dias, ativo \in BOOLEAN : p.novo = CartaoCom(dias, ativo)
  /\ p.op = "delete" => ResumoDasFaturas(p.cartao) = {}
  /\ p.op \in {"conferirCompra", "createCompras"} => EhDaCompra(p)
  /\ p.op = "createCompras" =>
       PagamentosDaFatura(p.cartao, Primeira(p.linhas).fatura) = {}
  /\ p.op = "deleteCompraGrupo" =>
       p.grupo \in {l.grupo : l \in compras} /\ ~ GrupoTemPagamento(p.grupo)
  /\ p.op \in {"comprasDaFatura", "pagamentosDaFatura", "registrarPagamento",
               "removerUltimoPagamento"} => EhDaFatura(p)
  /\ p.op = "pagamentosDaFatura" => p.compras = ComprasDaFatura(p.cartao, p.vencimento)
  /\ p.op = "registrarPagamento" =>
       PagamentoCabe(p, ComprasDaFatura(p.cartao, p.vencimento),
                     PagamentosDaFatura(p.cartao, p.vencimento))
  /\ p.op = "updateTransacao" => EhDaTransacao(p)

AtualInv ==
  \A r \in Req, p \in Pedido : pedido[r] = p /\ ~ perturbado[r] => Atual(p)

\* The row of an id is there, or is not, as Linha says, and is the same row.
LEMMA LinhaIgual ==
  /\ \A id : Linha(cartoes, id)' = Linha(cartoes, id) /\ id \in DOMAIN cartoes
       => id \in DOMAIN cartoes' /\ cartoes'[id] = cartoes[id]
  /\ \A id : Linha(transacoes, id)' = Linha(transacoes, id) /\ id \in DOMAIN transacoes
       => id \in DOMAIN transacoes' /\ transacoes'[id] = transacoes[id]
  <1>1. ASSUME NEW f, NEW g, NEW id, id \in DOMAIN f,
               {g[k] : k \in DOMAIN g \cap {id}} = {f[k] : k \in DOMAIN f \cap {id}}
        PROVE  id \in DOMAIN g /\ g[id] = f[id]
    <2>1. f[id] \in {f[k] : k \in DOMAIN f \cap {id}}  BY <1>1
    <2> QED  BY <1>1, <2>1
  <1> QED  BY <1>1 DEF Linha

\* What a request remembers stays current while what it has read stays.
LEMMA LeituraDecide ==
  ASSUME NEW p \in Pedido, Atual(p), Leitura(p)' = Leitura(p)
  PROVE  Atual(p)'
  <1>1. /\ LeuCartao(p) => Linha(cartoes, p.cartao)' = Linha(cartoes, p.cartao)
        /\ {l \in compras : LeuCompra(p, l)}' = {l \in compras : LeuCompra(p, l)}
        /\ {g \in pagamentos : LeuPagamento(p, g)}' = {g \in pagamentos : LeuPagamento(p, g)}
        /\ p.op = "updateTransacao" =>
             Linha(transacoes, p.transacao)' = Linha(transacoes, p.transacao)
    BY DEF Leitura, LeuCartao
  <1>2. /\ LeuCartao(p) /\ p.cartao \in DOMAIN cartoes
             => p.cartao \in DOMAIN cartoes' /\ cartoes'[p.cartao] = cartoes[p.cartao]
        /\ p.op = "updateTransacao" /\ p.transacao \in DOMAIN transacoes
             => /\ p.transacao \in DOMAIN transacoes'
                /\ transacoes'[p.transacao] = transacoes[p.transacao]
    BY <1>1, LinhaIgual
  <1>3. (p.op = "update" /\ ~ p.pediuAtivo => MantemAtivo(p))'
    BY <1>2 DEF Atual, MantemAtivo, LeuCartao
  <1>4. (p.op = "delete" => ResumoDasFaturas(p.cartao) = {})'
    BY <1>1 DEF Atual, ResumoDasFaturas, LeuCompra, DaFatura
  <1>5. (p.op \in {"conferirCompra", "createCompras"} => EhDaCompra(p))'
    BY <1>2 DEF Atual, EhDaCompra, LeuCartao
  <1>6. (p.op = "createCompras" =>
          PagamentosDaFatura(p.cartao, Primeira(p.linhas).fatura) = {})'
    BY <1>1 DEF Atual, PagamentosDaFatura, LeuPagamento
  <1>7. (p.op = "deleteCompraGrupo" =>
          p.grupo \in {l.grupo : l \in compras} /\ ~ GrupoTemPagamento(p.grupo))'
    <2> SUFFICES ASSUME p.op = "deleteCompraGrupo"
                 PROVE  (p.grupo \in {l.grupo : l \in compras} /\ ~ GrupoTemPagamento(p.grupo))'
      OBVIOUS
    <2>1. {l \in compras' : l.grupo = p.grupo} = {l \in compras : l.grupo = p.grupo}
      BY <1>1 DEF LeuCompra, DaFatura
    <2>2. {g \in pagamentos' : \E l \in compras' : /\ l.grupo = p.grupo
                              /\ l.cartao = g.cartao /\ l.fatura = g.vencimento}
            = {g \in pagamentos : \E l \in compras : /\ l.grupo = p.grupo
                              /\ l.cartao = g.cartao /\ l.fatura = g.vencimento}
      BY <1>1 DEF LeuPagamento
    <2>3. p.grupo \in {l.grupo : l \in compras} /\ ~ GrupoTemPagamento(p.grupo)
      BY DEF Atual
    <2>4. \A g \in pagamentos, l \in compras :
            l.grupo = p.grupo => ~ (l.cartao = g.cartao /\ l.fatura = g.vencimento)
      BY <2>3 DEF GrupoTemPagamento, PagamentosDaFatura
    <2>5. \A g \in pagamentos', l \in compras' :
            l.grupo = p.grupo => ~ (l.cartao = g.cartao /\ l.fatura = g.vencimento)
      BY <2>2, <2>4
    <2> QED  BY <2>1, <2>3, <2>5 DEF GrupoTemPagamento, PagamentosDaFatura
  <1>8. (p.op \in {"comprasDaFatura", "pagamentosDaFatura", "registrarPagamento",
                   "removerUltimoPagamento"} => EhDaFatura(p))'
    BY <1>2 DEF Atual, EhDaFatura, LeuCartao, DaFatura
  <1>9. ASSUME p.op \in DaFatura
        PROVE  ComprasDaFatura(p.cartao, p.vencimento)' = ComprasDaFatura(p.cartao, p.vencimento)
    BY <1>1, <1>9 DEF LeuCompra, ComprasDaFatura, DaFatura
  <1>10. (p.op = "pagamentosDaFatura" => p.compras = ComprasDaFatura(p.cartao, p.vencimento))'
    BY <1>9 DEF Atual, DaFatura
  <1>11. (p.op = "registrarPagamento" =>
           PagamentoCabe(p, ComprasDaFatura(p.cartao, p.vencimento),
                         PagamentosDaFatura(p.cartao, p.vencimento)))'
    <2> SUFFICES ASSUME p.op = "registrarPagamento"
                 PROVE  PagamentoCabe(p, ComprasDaFatura(p.cartao, p.vencimento),
                                      PagamentosDaFatura(p.cartao, p.vencimento))'
      OBVIOUS
    <2>1. PagamentosDaFatura(p.cartao, p.vencimento)' = PagamentosDaFatura(p.cartao, p.vencimento)
      BY <1>1 DEF LeuPagamento, PagamentosDaFatura
    <2>2. PagamentoCabe(p, ComprasDaFatura(p.cartao, p.vencimento),
                        PagamentosDaFatura(p.cartao, p.vencimento))
      BY DEF Atual
    <2> QED  BY <1>9, <2>1, <2>2 DEF PagamentoCabe, DaFatura
  <1>12. (p.op = "updateTransacao" => EhDaTransacao(p))'
    BY <1>2 DEF Atual, EhDaTransacao
  <1>13. (p.op = "update" /\ p.pediuAtivo =>
           \E dias \in Dias, ativo \in BOOLEAN : p.novo = CartaoCom(dias, ativo))'
    BY DEF Atual
  <1> QED  BY <1>3, <1>4, <1>5, <1>6, <1>7, <1>8, <1>10, <1>11, <1>12, <1>13 DEF Atual

\* What is true of the memory of a request is true of the memory as a value.
LEMMA LeituraDoPedido ==
  ASSUME NEW r \in Req, NEW p \in Pedido, pedido[r] = p, pedido'[r] = p, ~ Mudou(r)
  PROVE  Leitura(p)' = Leitura(p)
  <1>1. CASE UNCHANGED tabelas
    BY <1>1 DEF tabelas, Leitura, LeuCompra, LeuPagamento, Linha
  <1>2. CASE tabelas' # tabelas
    <2>1. Leitura(pedido[r])' = Leitura(pedido[r])  BY <1>2 DEF Mudou
    <2>2. Leitura(pedido[r])' = Leitura(p)'
      BY DEF Leitura, LeuCartao, LeuCompra, LeuPagamento, Linha
    <2> QED  BY <2>1, <2>2
  <1> QED  BY <1>1, <1>2

\* After a step an undisturbed request is free, or what it remembers is what
\* it just read.
LEMMA PassoLeAtual ==
  ASSUME IInv, NEW r \in Req, Passo(r), Atual(pedido[r])
  PROVE  \/ pedido'[r] = Livre
         \/ /\ UNCHANGED tabelas
            /\ \A p : p = pedido'[r] => Atual(p)
  <1>0. \A p : pedido' = [pedido EXCEPT ![r] = p] => pedido'[r] = p
    BY DEF IInv, PedidosInv
  <1> SUFFICES ASSUME pedido'[r] # Livre, NEW p, p = pedido'[r]
               PROVE  UNCHANGED tabelas /\ Atual(p)
    OBVIOUS
  <1>1. CASE EditarCartao(r)
    <2>1. PICK id \in DOMAIN cartoes, dias \in Dias, ativo \in BOOLEAN, pediu \in BOOLEAN :
            /\ p = [op |-> "update", cartao |-> id, pediuAtivo |-> pediu,
                    novo |-> CartaoCom(dias, ativo)]
            /\ ~ pediu => ativo = cartoes[id].ativo
      <3>1. \A id \in DOMAIN cartoes : cartoes[id].ativo \in BOOLEAN
        BY DEF IInv, TabelasInv, TabelasTypeOK, Cartao
      <3> QED  BY <1>0, <1>1, <3>1 DEF EditarCartao, Comeca
    <2>2. UNCHANGED tabelas  BY <1>1 DEF EditarCartao
    <2>3. /\ p.op = "update" /\ p.cartao = id /\ p.pediuAtivo = pediu
          /\ p.novo = CartaoCom(dias, ativo)
      BY <2>1
    <2> QED  BY <2>1, <2>2, <2>3 DEF Atual, MantemAtivo
  <1>2. CASE ExcluirCartao(r)
    BY <1>0, <1>2 DEF Atual, ExcluirCartao, Comeca
  <1>3. CASE RegistrarCompra(r)
    <2>1. PICK id \in DOMAIN cartoes, data \in DatasCompra, valor \in ValoresCompra,
               n \in Parcelas :
            /\ cartoes[id].ativo /\ CompraValida(valor, n) /\ valor <= MaxMoney
            /\ p = [op |-> "conferirCompra", cartao |-> id,
                    linhas |-> LinhasDaCompra(id, cartoes[id], data, valor, n)]
      BY <1>0, <1>3 DEF RegistrarCompra, Comeca
    <2>2. EhDaCompra(p)  BY <2>1 DEF EhDaCompra
    <2> QED  BY <1>3, <2>1, <2>2 DEF Atual, RegistrarCompra
  <1>4. CASE ConferirCompra(r)
    <2>1. /\ EhDaCompra(pedido[r])
          /\ p = [op |-> "createCompras", cartao |-> pedido[r].cartao,
                  linhas |-> pedido[r].linhas]
          /\ PagamentosDaFatura(pedido[r].cartao, Primeira(pedido[r].linhas).fatura) = {}
      BY <1>0, <1>4 DEF Atual, ConferirCompra, Segue
    <2>2. EhDaCompra(p)  BY <2>1 DEF EhDaCompra
    <2> QED  BY <1>4, <2>1, <2>2 DEF Atual, ConferirCompra
  <1>5. CASE ExcluirCompra(r)
    BY <1>0, <1>5 DEF Atual, ExcluirCompra, Comeca
  <1>6. CASE PagarFatura(r) \/ DesfazerPagamento(r)
    <2>1. PICK id \in DOMAIN cartoes, m \in Competencias,
               op \in {"comprasDaFatura", "removerUltimoPagamento"} :
            p = [op |-> op, cartao |-> id, vencimento |-> VencimentoDe(cartoes[id], m)]
      BY <1>0, <1>6 DEF PagarFatura, DesfazerPagamento, Comeca
    <2>2. EhDaFatura(p)  BY <2>1 DEF EhDaFatura
    <2> QED  BY <1>6, <2>1, <2>2 DEF Atual, PagarFatura, DesfazerPagamento
  <1>7. CASE LerCompras(r)
    <2>1. /\ EhDaFatura(pedido[r])
          /\ p = [op |-> "pagamentosDaFatura", cartao |-> pedido[r].cartao,
                  vencimento |-> pedido[r].vencimento,
                  compras |-> ComprasDaFatura(pedido[r].cartao, pedido[r].vencimento)]
      BY <1>0, <1>7 DEF Atual, LerCompras, Segue
    <2>2. EhDaFatura(p)  BY <2>1 DEF EhDaFatura
    <2> QED  BY <1>7, <2>1, <2>2 DEF Atual, LerCompras
  <1>8. CASE LerPagamentos(r)
    <2> DEFINE comprados == pedido[r].compras
               pagos == PagamentosDaFatura(pedido[r].cartao, pedido[r].vencimento)
    <2>1. /\ EhDaFatura(pedido[r])
          /\ comprados = ComprasDaFatura(pedido[r].cartao, pedido[r].vencimento)
          /\ ~ Quitada(Soma(comprados), Soma(pagos)) /\ Soma(comprados) > 0
      BY <1>0, <1>8 DEF Atual, LerPagamentos, Segue
    <2>2. PICK valor \in ValoresDoPagamento(Soma(comprados), Soma(pagos)),
               pagoEm \in DatasPagamento :
            p = [op |-> "registrarPagamento", cartao |-> pedido[r].cartao,
                 vencimento |-> pedido[r].vencimento, valor |-> valor, pagoEm |-> pagoEm]
      BY <1>0, <1>8 DEF LerPagamentos, Segue
    <2>3. EhDaFatura(p)  BY <2>1, <2>2 DEF EhDaFatura
    <2>4. UNCHANGED tabelas  BY <1>8 DEF LerPagamentos
    <2>5. PagamentoCabe(p, ComprasDaFatura(p.cartao, p.vencimento),
                        PagamentosDaFatura(p.cartao, p.vencimento))
      BY <2>1, <2>2 DEF PagamentoCabe
    <2>6. p.op = "registrarPagamento"  BY <2>2
    <2> QED  BY <2>3, <2>4, <2>5, <2>6 DEF Atual
  <1>9. CASE EditarTransacao(r)
    <2>1. PICK t \in DOMAIN transacoes, e \in EdicoesTransacao :
            \E data \in DatasPagamento \cup {transacoes[t].data} :
              /\ e.valor \in Valor
              /\ p = [op |-> "updateTransacao", transacao |-> t,
                      novo |-> [tipo |-> e.tipo, valor |-> e.valor, data |-> data]]
      BY <1>0, <1>9 DEF EditarTransacao, Comeca
    <2>2. PICK data \in DatasPagamento \cup {transacoes[t].data} :
            /\ e.valor \in Valor
            /\ p = [op |-> "updateTransacao", transacao |-> t,
                    novo |-> [tipo |-> e.tipo, valor |-> e.valor, data |-> data]]
      BY <2>1
    <2>3. /\ p.op = "updateTransacao" /\ p.transacao = t
          /\ p.novo = [tipo |-> e.tipo, valor |-> e.valor, data |-> data]
      BY <2>2
    <2>4. EhDaTransacao(p)  BY <2>2, <2>3 DEF EhDaTransacao
    <2> QED  BY <1>9, <2>3, <2>4 DEF Atual, EditarTransacao
  <1>10. \/ EditarCartao(r) \/ ExcluirCartao(r) \/ RegistrarCompra(r) \/ ConferirCompra(r)
         \/ ExcluirCompra(r) \/ PagarFatura(r) \/ DesfazerPagamento(r) \/ LerCompras(r)
         \/ LerPagamentos(r) \/ EditarTransacao(r)
    <2>1. ~ (pedido' = [pedido EXCEPT ![r] = Livre]) /\ ~ (pedido' = pedido /\ pedido[r] = Livre)
      BY <1>0
    <2> QED
      BY <2>1 DEF Passo, CriarCartao, ExcluirTransacao, Abandonar, GravarCartao, ApagarCartao,
           GravarCompra, ApagarCompra, GravarPagamento, ApagarPagamento, GravarTransacao,
           Termina, Segue
  <1> QED  BY <1>1, <1>2, <1>3, <1>4, <1>5, <1>6, <1>7, <1>8, <1>9, <1>10

\* The others remember what they remembered.
LEMMA PassoDeUmSo ==
  ASSUME PedidosInv, NEW r \in Req, Passo(r), NEW q \in Req, q # r
  PROVE  pedido'[q] = pedido[q]
  <1>1. \A p : pedido' = [pedido EXCEPT ![r] = p] => pedido'[q] = pedido[q]
    BY DEF PedidosInv
  <1>2. pedido' = pedido \/ \E p : pedido' = [pedido EXCEPT ![r] = p]
    BY DEF Passo, CriarCartao, EditarCartao, GravarCartao, ExcluirCartao,
           ApagarCartao, RegistrarCompra, ConferirCompra, GravarCompra, ExcluirCompra,
           ApagarCompra, PagarFatura, LerCompras, LerPagamentos, GravarPagamento,
           DesfazerPagamento, ApagarPagamento, EditarTransacao, GravarTransacao,
           ExcluirTransacao, Abandonar, Comeca, Segue, Termina
  <1> QED  BY <1>1, <1>2

\* AtualInv is inductive: a step of the request itself reads what is so, and a
\* step of another that changes what it has read disturbs it.
LEMMA PassoGuardaAtual ==
  ASSUME IInv, AtualInv, NEW r \in Req, Passo(r), Perturba
  PROVE  AtualInv'
  <1> SUFFICES ASSUME NEW q \in Req, NEW p \in Pedido, pedido'[q] = p, ~ perturbado'[q]
               PROVE  Atual(p)'
    BY DEF AtualInv
  <1>0. p = Livre \/ (~ perturbado[q] /\ ~ Mudou(q))
    BY DEF Perturba
  <1>1. CASE p = Livre
    BY <1>1, LivreEhPedido DEF Atual
  <1>2. CASE p # Livre /\ q = r
    <2>1. pedido[q] \in Pedido  BY DEF IInv, PedidosInv
    <2>2. Atual(pedido[q])  BY <1>0, <1>2, <2>1 DEF AtualInv
    <2>3. UNCHANGED tabelas /\ Atual(p)  BY <1>2, <2>2, PassoLeAtual
    <2>4. Leitura(p)' = Leitura(p)
      BY <2>3 DEF tabelas, Leitura, LeuCompra, LeuPagamento, Linha
    <2> QED  BY <2>3, <2>4, LeituraDecide
  <1>3. CASE p # Livre /\ q # r
    <2>1. pedido[q] = p  BY <1>3, PassoDeUmSo DEF IInv
    <2>2. Atual(p)  BY <1>0, <1>3, <2>1 DEF AtualInv
    <2>3. Leitura(p)' = Leitura(p)  BY <1>0, <1>3, <2>1, LeituraDoPedido
    <2> QED  BY <2>2, <2>3, LeituraDecide
  <1> QED  BY <1>1, <1>2, <1>3

-------------------------------------------------------------------------------
(* The service with its history *)

\* The history variable takes nothing from the service.
LEMMA SemAHistoria == SpecP => Spec
  <1>1. InitP => Init  BY DEF InitP
  <1>2. [NextP]_varsP => [Next]_vars  BY DEF NextP, Next, varsP
  <1> QED  BY <1>1, <1>2, PTL DEF SpecP, Spec

\* Whatever the interleaving, what an undisturbed request remembers is current.
LEMMA SempreAtual == SpecP => [](IInv /\ AtualInv)
  <1>1. InitP => AtualInv
    BY LivreEhPedido DEF InitP, Init, AtualInv, Atual
  <1>2. IInv /\ AtualInv /\ [NextP]_varsP => AtualInv'
    <2> SUFFICES ASSUME IInv, AtualInv, [NextP]_varsP PROVE AtualInv'  OBVIOUS
    <2>1. CASE NextP  BY <2>1, PassoGuardaAtual DEF NextP
    <2>2. CASE UNCHANGED varsP
      <3>1. UNCHANGED <<tabelas, pedido, perturbado>>  BY <2>2 DEF varsP, vars
      <3> SUFFICES ASSUME NEW q \in Req, NEW p \in Pedido, pedido'[q] = p, ~ perturbado'[q]
                   PROVE  Atual(p)'
        BY DEF AtualInv
      <3>2. Atual(p)  BY <3>1 DEF AtualInv
      <3>3. Leitura(p)' = Leitura(p)
        BY <3>1 DEF tabelas, Leitura, LeuCompra, LeuPagamento, Linha
      <3> QED  BY <3>2, <3>3, LeituraDecide
    <2> QED  BY <2>1, <2>2
  <1> QED  BY <1>1, <1>2, SemAHistoria, Invariante, PTL DEF SpecP

\* The write of an undisturbed request is the operation it is for.
LEMMA PassoEhOperacao ==
  ASSUME IInv, AtualInv, NEW r \in Req, Passo(r)
  PROVE  \/ UNCHANGED tabelas
         \/ EscritaPerturbada
         \/ Terminou(r) /\ OperacaoDe(pedido[r])
         \/ Cadastrar \/ RemoverTransacao
  <1>0. pedido[r] \in Pedido  BY DEF IInv, PedidosInv
  <1>a. ASSUME NEW op, op # "livre", Termina(r, op) PROVE Terminou(r)
    BY <1>a, LivreEhPedido DEF IInv, PedidosInv, Termina, Segue, Terminou
  <1>b. Terminou(r) => EscritaPerturbada \/ Atual(pedido[r])
    BY <1>0 DEF AtualInv, EscritaPerturbada
  <1>1. CASE CriarCartao(r)
    BY <1>1 DEF CriarCartao, Cadastrar
  <1>2. CASE GravarCartao(r)
    <2>1. Terminou(r)  BY <1>a, <1>2 DEF GravarCartao
    <2>2. CASE Atual(pedido[r])
      <3>1. /\ pedido[r].op = "update" /\ Update(pedido[r].cartao, pedido[r].novo)
            /\ pedido[r].cartao \in DOMAIN cartoes
        BY <1>2 DEF GravarCartao, Termina, Segue, Update
      <3>2. CASE pedido[r].pediuAtivo
        <4>1. \E dias \in Dias, ativo \in BOOLEAN : pedido[r].novo = CartaoCom(dias, ativo)
          BY <2>2, <3>1, <3>2 DEF Atual
        <4> QED  BY <2>1, <3>1, <3>2, <4>1 DEF OperacaoDe, Alterar
      <3>3. CASE ~ pedido[r].pediuAtivo
        <4>1. MantemAtivo(pedido[r])  BY <2>2, <3>1, <3>3 DEF Atual
        <4> QED  BY <2>1, <3>1, <3>3, <4>1 DEF OperacaoDe, AlterarDias, MantemAtivo
      <3> QED  BY <3>2, <3>3
    <2> QED  BY <1>b, <2>1, <2>2
  <1>3. CASE ApagarCartao(r)
    <2>1. Terminou(r)  BY <1>a, <1>3 DEF ApagarCartao
    <2>2. pedido[r].op = "delete" /\ Delete(pedido[r].cartao)
      BY <1>3 DEF ApagarCartao, Termina, Segue
    <2>3. pedido[r].cartao \in DOMAIN cartoes  BY <2>2 DEF Delete
    <2> QED  BY <1>b, <2>1, <2>2, <2>3 DEF Atual, OperacaoDe, Excluir
  <1>4. CASE GravarCompra(r)
    <2>1. Terminou(r)  BY <1>a, <1>4 DEF GravarCompra
    <2>2. CASE Atual(pedido[r])
      <3>1. /\ pedido[r].op = "createCompras" /\ EhDaCompra(pedido[r])
            /\ PagamentosDaFatura(pedido[r].cartao, Primeira(pedido[r].linhas).fatura) = {}
            /\ CreateCompras(pedido[r].cartao, pedido[r].linhas)
        BY <1>4, <2>2 DEF GravarCompra, Termina, Segue, Atual
      <3>2. Comprar  BY <3>1 DEF Comprar, EhDaCompra
      <3> QED  BY <2>1, <3>1, <3>2 DEF OperacaoDe
    <2> QED  BY <1>b, <2>1, <2>2
  <1>5. CASE ApagarCompra(r)
    <2>1. Terminou(r)  BY <1>a, <1>5 DEF ApagarCompra
    <2>2. pedido[r].op = "deleteCompraGrupo" /\ DeleteCompraGrupo(pedido[r].grupo)
      BY <1>5 DEF ApagarCompra, Termina, Segue
    <2> QED  BY <1>b, <2>1, <2>2 DEF Atual, OperacaoDe, Estornar
  <1>6. CASE GravarPagamento(r)
    <2>1. Terminou(r)  BY <1>a, <1>6 DEF GravarPagamento
    <2>2. CASE Atual(pedido[r])
      <3> DEFINE p == pedido[r]
                 total == Soma(ComprasDaFatura(p.cartao, p.vencimento))
                 pago == Soma(PagamentosDaFatura(p.cartao, p.vencimento))
      <3>1. /\ p.op = "registrarPagamento" /\ EhDaFatura(p)
            /\ ~ Quitada(total, pago) /\ total > 0
            /\ p.valor \in ValoresDoPagamento(total, pago) /\ p.pagoEm \in DatasPagamento
            /\ RegistrarPagamento(p.cartao, p.vencimento, p.valor, p.pagoEm)
        BY <1>6, <2>2 DEF GravarPagamento, Termina, Segue, Atual, PagamentoCabe
      <3>2. Pagar  BY <3>1 DEF Pagar, EhDaFatura
      <3> QED  BY <2>1, <3>1, <3>2 DEF OperacaoDe
    <2> QED  BY <1>b, <2>1, <2>2
  <1>7. CASE ApagarPagamento(r)
    <2>1. Terminou(r)  BY <1>a, <1>7 DEF ApagarPagamento
    <2>2. CASE Atual(pedido[r])
      <3>1. /\ pedido[r].op = "removerUltimoPagamento" /\ EhDaFatura(pedido[r])
            /\ RemoverUltimoPagamento(pedido[r].cartao, pedido[r].vencimento)
        BY <1>7, <2>2 DEF ApagarPagamento, Termina, Segue, Atual
      <3>2. Desfazer  BY <3>1 DEF Desfazer, EhDaFatura
      <3> QED  BY <2>1, <3>1, <3>2 DEF OperacaoDe
    <2> QED  BY <1>b, <2>1, <2>2
  <1>8. CASE GravarTransacao(r)
    <2>1. Terminou(r)  BY <1>a, <1>8 DEF GravarTransacao
    <2>2. CASE Atual(pedido[r])
      <3>1. /\ pedido[r].op = "updateTransacao" /\ EhDaTransacao(pedido[r])
            /\ UpdateTransacao(pedido[r].transacao, pedido[r].novo)
        BY <1>8, <2>2 DEF GravarTransacao, Termina, Segue, Atual
      <3>2. AlterarTransacao  BY <3>1 DEF AlterarTransacao, EhDaTransacao
      <3> QED  BY <2>1, <3>1, <3>2 DEF OperacaoDe
    <2> QED  BY <1>b, <2>1, <2>2
  <1>9. CASE ExcluirTransacao(r)
    BY <1>9 DEF ExcluirTransacao, RemoverTransacao
  <1>10. CASE UNCHANGED tabelas
    BY <1>10
  <1>11. \/ CriarCartao(r) \/ GravarCartao(r) \/ ApagarCartao(r) \/ GravarCompra(r)
         \/ ApagarCompra(r) \/ GravarPagamento(r) \/ ApagarPagamento(r)
         \/ GravarTransacao(r) \/ ExcluirTransacao(r) \/ UNCHANGED tabelas
    BY DEF Passo, EditarCartao, ExcluirCartao, RegistrarCompra, ConferirCompra,
           ExcluirCompra, PagarFatura, LerCompras, LerPagamentos, DesfazerPagamento,
           EditarTransacao, Abandonar
  <1> QED  BY <1>1, <1>2, <1>3, <1>4, <1>5, <1>6, <1>7, <1>8, <1>9, <1>10, <1>11

\* However many requests there are and however their calls interleave, a write
\* is the whole operation of its request, checked and done at once, unless what
\* the request had read changed before it wrote.
THEOREM EscritasSaoOperacoes == SpecP => EscritaEhOperacao
  <1> DEFINE A == \/ EscritaPerturbada
                  \/ \E r \in Req : Terminou(r) /\ OperacaoDe(pedido[r])
                  \/ Cadastrar \/ RemoverTransacao
  <1>1. IInv /\ AtualInv /\ [NextP]_varsP => [A]_tabelas
    <2> SUFFICES ASSUME IInv, AtualInv, [NextP]_varsP PROVE A \/ UNCHANGED tabelas
      OBVIOUS
    <2>1. ASSUME NEW r \in Req, Passo(r) PROVE A \/ UNCHANGED tabelas
      BY <2>1, PassoEhOperacao
    <2>2. CASE UNCHANGED varsP  BY <2>2 DEF varsP, vars
    <2> QED  BY <2>1, <2>2 DEF NextP
  <1>2. SpecP => [][A]_tabelas  BY <1>1, SempreAtual, PTL DEF SpecP
  <1> QED  BY <1>2 DEF EscritaEhOperacao

\* The mistakes the checks are there to prevent (an invoice paid again, a
\* purchase in an archived card, a card that goes with its purchases, a payment
\* left without any, a paid invoice that changes) have one cause only.
THEOREM EnganosTemUmaCausa == SpecP => EnganoSoPorLeituraVelha
  <1> DEFINE A == Engano => EscritaPerturbada
  <1>1. IInv /\ AtualInv /\ [NextP]_varsP => [A]_tabelas
    <2> SUFFICES ASSUME IInv, AtualInv, [NextP]_varsP PROVE A \/ UNCHANGED tabelas
      OBVIOUS
    <2>1. ASSUME NEW r \in Req, Passo(r) PROVE A \/ UNCHANGED tabelas
      <3>1. OperacaoDe(pedido[r]) \/ Cadastrar \/ RemoverTransacao => Operacao
        BY DEF OperacaoDe, Operacao
      <3>2. Operacao => ~ Engano  BY OperacaoSemEngano DEF IInv
      <3> QED  BY <2>1, <3>1, <3>2, PassoEhOperacao
    <2>2. CASE UNCHANGED varsP  BY <2>2 DEF varsP, vars
    <2> QED  BY <2>1, <2>2 DEF NextP
  <1>2. SpecP => [][A]_tabelas  BY <1>1, SempreAtual, PTL DEF SpecP
  <1> QED  BY <1>2 DEF EnganoSoPorLeituraVelha

-------------------------------------------------------------------------------
(* The reach of the invoices *)

\* What an undisturbed request is about to write can be found, when every month
\* has the due day of the card.
LEMMA CompraAlcancavel ==
  ASSUME TabelasInv, NEW p, EhDaCompra(p), cartoes[p.cartao].diaVencimento <= 28,
         NEW l \in p.linhas
  PROVE  l.cartao = p.cartao
         /\ VencimentoDe(cartoes[p.cartao], l.fatura.mes) = l.fatura
  <1>1. PICK data \in DatasCompra, valor \in ValoresCompra, n \in Parcelas :
          /\ p.cartao \in DOMAIN cartoes
          /\ p.linhas = LinhasDaCompra(p.cartao, cartoes[p.cartao], data, valor, n)
    BY DEF EhDaCompra
  <1> DEFINE c == cartoes[p.cartao]
  <1>2. c.diaFechamento \in Dia /\ c.diaVencimento \in 1 .. 28 /\ data \in Data
    BY <1>1, EntradasAssumption DEF TabelasInv, TabelasTypeOK, Cartao, Dia
  <1>3. PICK i \in 1 .. n : l = [cartao |-> p.cartao, grupo |-> 0, parcela |-> i, total |-> n,
                               valor |-> ValorDaParcela(valor, n, i),
                               fatura |-> VencimentoDaParcela(c, data, i)]
    BY <1>1 DEF LinhasDaCompra
  <1>4. i \in Nat /\ l.fatura = VencimentoDaParcela(c, data, i) /\ l.cartao = p.cartao
    BY <1>3, EntradasAssumption
  <1> HIDE DEF c
  <1>5. VencimentoDe(c, l.fatura.mes) = l.fatura
    BY <1>2, <1>4, ParcelaNaFaturaDoCartao
  <1> QED  BY <1>4, <1>5 DEF c

\* The step of SoEdicaoEscondeFatura.
PassoAlcancavel(l) ==
  \/ Alcancavel(l)'
  \/ l \in compras /\ ~ Alcancavel(l)
  \/ l \in compras /\ cartoes'[l.cartao].diaVencimento # cartoes[l.cartao].diaVencimento
  \/ l \notin compras /\ EscritaPerturbada
  \/ l \notin compras /\ cartoes[l.cartao].diaVencimento > 28

\* Purchases stop being found through an edition of the due day, and are never
\* registered out of reach, but by a disturbed request or with a due day that
\* not every month has.
THEOREM EdicaoEscondeFatura == SpecP => SoEdicaoEscondeFatura
  <1> DEFINE A == \A l \in compras' : PassoAlcancavel(l)
  <1>1. IInv /\ AtualInv /\ [NextP]_varsP => [A]_tabelas
    <2> SUFFICES ASSUME IInv, AtualInv, NEW r \in Req, Passo(r), ~ UNCHANGED tabelas,
                        NEW l \in compras'
                 PROVE  PassoAlcancavel(l)
      BY DEF NextP, varsP, vars
    <2> USE DEF PassoAlcancavel
    <2>1. CASE l \in compras
      <3>1. cartoes'[l.cartao].diaVencimento = cartoes[l.cartao].diaVencimento
              /\ Alcancavel(l) => Alcancavel(l)'
        BY DEF Alcancavel, VencimentoDe
      <3> QED  BY <2>1, <3>1
    <2>2. CASE l \notin compras
      <3>1. GravarCompra(r)
        BY <2>2 DEF Passo, CriarCartao, EditarCartao, GravarCartao, ExcluirCartao,
           ApagarCartao, RegistrarCompra, ConferirCompra, ExcluirCompra,
           ApagarCompra, PagarFatura, LerCompras, LerPagamentos, GravarPagamento,
           DesfazerPagamento, ApagarPagamento, EditarTransacao, GravarTransacao,
           ExcluirTransacao, Abandonar, Create, Update, Delete, DeleteCompraGrupo,
           RegistrarPagamento, RemoverUltimoPagamento, UpdateTransacao, DeleteTransacao,
           tabelas
      <3>2. /\ pedido[r] \in Pedido /\ pedido[r].op = "createCompras"
            /\ CreateCompras(pedido[r].cartao, pedido[r].linhas)
            /\ pedido'[r] = Livre
        BY <3>1 DEF GravarCompra, Termina, Segue, IInv, PedidosInv
      <3>3. EscritaPerturbada \/ EhDaCompra(pedido[r])
        BY <3>2, LivreEhPedido DEF AtualInv, Atual, EscritaPerturbada, Terminou
      <3>4. PICK m \in pedido[r].linhas : l = [m EXCEPT !.grupo = proximoId]
        BY <2>2, <3>2 DEF CreateCompras
      <3>5. m \in Compra
        BY <3>2 DEF IInv, PedidosInv, LinhasProntas
      <3>6. l.cartao = m.cartao /\ l.fatura = m.fatura  BY <3>4, <3>5 DEF Compra
      <3>7. m.cartao = pedido[r].cartao
        BY <3>2 DEF IInv, PedidosInv, LinhasProntas
      <3>8. cartoes' = cartoes  BY <3>2 DEF CreateCompras
      <3>9. CASE EhDaCompra(pedido[r]) /\ cartoes[pedido[r].cartao].diaVencimento <= 28
        <4>1. VencimentoDe(cartoes[m.cartao], m.fatura.mes) = m.fatura
          BY <3>7, <3>9, CompraAlcancavel DEF IInv
        <4> QED  BY <3>6, <3>8, <4>1 DEF Alcancavel, VencimentoDe
      <3>10. CASE ~ (cartoes[pedido[r].cartao].diaVencimento <= 28) /\ EhDaCompra(pedido[r])
        <4>1. cartoes[pedido[r].cartao].diaVencimento \in Dia
          BY <3>10 DEF EhDaCompra, IInv, TabelasInv, TabelasTypeOK, Cartao
        <4> QED  BY <2>2, <3>6, <3>7, <3>10, <4>1 DEF Dia
      <3> QED  BY <2>2, <3>3, <3>9, <3>10
    <2> QED  BY <2>1, <2>2
  <1>2. SpecP => [][A]_tabelas  BY <1>1, SempreAtual, PTL DEF SpecP
  <1> QED  BY <1>2 DEF SoEdicaoEscondeFatura, PassoAlcancavel

===============================================================================
