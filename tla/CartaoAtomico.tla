---------------------------- MODULE CartaoAtomico ----------------------------
(***************************************************************************)
(* The card operations as the use cases of cartao_service.go read: each    *)
(* one checks the database and writes it in a single step, so that every   *)
(* check still holds when the write happens.  CartaoService breaks each    *)
(* operation up into its repository calls, and CartaoInterferencia says    *)
(* when its write still is one of these.                                   *)
(***************************************************************************)
EXTENDS CartaoRepository

CONSTANTS Dias,               \* configured days: [diaFechamento, diaVencimento]
          DatasCompra, ValoresCompra, Parcelas,
          Competencias,       \* months a client refers to
          DatasPagamento,
          ValoresInformados,  \* amounts a client may state when it pays
          EdicoesTransacao    \* [tipo, valor] a client may put in a transaction

ASSUME EntradasAssumption ==
  /\ Dias \subseteq [diaFechamento : Dia, diaVencimento : Dia]
  /\ DatasCompra \subseteq Data
  /\ ValoresCompra \subseteq Nat
  /\ Parcelas \subseteq Nat
  /\ Competencias \subseteq Int
  /\ DatasPagamento \subseteq Data
  /\ ValoresInformados \subseteq Nat \ {0}
  /\ EdicoesTransacao \subseteq [tipo : {"entrada", "saida"}, valor : Nat]

\* NewCartao of the days, active unless said otherwise.
CartaoCom(dias, ativo) ==
  [diaFechamento |-> dias.diaFechamento, diaVencimento |-> dias.diaVencimento,
   ativo |-> ativo]

\* NewCompraCartao: the rows, whose group is only drawn when they are written.
LinhasDaCompra(id, c, data, valor, n) ==
  {[cartao |-> id, grupo |-> 0, parcela |-> i, total |-> n,
    valor |-> ValorDaParcela(valor, n, i),
    fatura |-> VencimentoDaParcela(c, data, i)] : i \in 1 .. n}

Primeira(linhas) == CHOOSE l \in linhas : l.parcela = 1

\* The amount of a payment: the one stated, or else what is left to pay, within
\* what NewTransacao accepts.
ValoresDoPagamento(total, pago) ==
  (ValoresInformados \cup {Restante(total, pago)}) \cap Valor

-------------------------------------------------------------------------------
Cadastrar == \E dias \in Dias : Create(CartaoCom(dias, TRUE))

\* An edition that does not speak of ativo leaves it as it is.
AlterarDias ==
  \E id \in DOMAIN cartoes, dias \in Dias :
    Update(id, CartaoCom(dias, cartoes[id].ativo))

Alterar ==
  \E id \in DOMAIN cartoes, dias \in Dias, ativo \in BOOLEAN :
    Update(id, CartaoCom(dias, ativo))

Excluir == \E id \in DOMAIN cartoes : ResumoDasFaturas(id) = {} /\ Delete(id)

Comprar ==
  \E id \in DOMAIN cartoes, data \in DatasCompra, valor \in ValoresCompra,
     n \in Parcelas :
    LET linhas == LinhasDaCompra(id, cartoes[id], data, valor, n)
    IN /\ cartoes[id].ativo
       /\ CompraValida(valor, n) /\ valor <= MaxMoney
       /\ PagamentosDaFatura(id, Primeira(linhas).fatura) = {}
       /\ CreateCompras(id, linhas)

Estornar ==
  \E grupo \in {l.grupo : l \in compras} :
    ~ GrupoTemPagamento(grupo) /\ DeleteCompraGrupo(grupo)

Pagar ==
  \E id \in DOMAIN cartoes, competencia \in Competencias, pagoEm \in DatasPagamento :
    LET vencimento == VencimentoDe(cartoes[id], competencia)
        total == Soma(ComprasDaFatura(id, vencimento))
        pago == Soma(PagamentosDaFatura(id, vencimento))
    IN /\ ~ Quitada(total, pago)
       /\ total > 0
       /\ \E valor \in ValoresDoPagamento(total, pago) :
            RegistrarPagamento(id, vencimento, valor, pagoEm)

Desfazer ==
  \E id \in DOMAIN cartoes, competencia \in Competencias :
    RemoverUltimoPagamento(id, VencimentoDe(cartoes[id], competencia))

AlterarTransacao ==
  \E t \in DOMAIN transacoes, e \in EdicoesTransacao :
    \E data \in DatasPagamento \cup {transacoes[t].data} :
      /\ e.valor \in Valor
      /\ UpdateTransacao(t, [tipo |-> e.tipo, valor |-> e.valor, data |-> data])

RemoverTransacao == \E t \in DOMAIN transacoes : DeleteTransacao(t)

Operacao ==
  \/ Cadastrar \/ AlterarDias \/ Alterar \/ Excluir
  \/ Comprar \/ Estornar
  \/ Pagar \/ Desfazer
  \/ AlterarTransacao \/ RemoverTransacao

===============================================================================
