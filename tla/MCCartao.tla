------------------------------ MODULE MCCartao ------------------------------
EXTENDS CartaoInterferencia, TLC

CONSTANTS r1, r2

UmPedido == {r1}
DoisPedidos == {r1, r2}
Simetria == Permutations(Req)

DiasDoCartao(f, v) == [diaFechamento |-> f, diaVencimento |-> v]
EmData(m, d) == [mes |-> Mes(2027, m), dia |-> d]

\* Closes on the 20th, due on the 5th of the next month; or due five days later.
UmDia == {DiasDoCartao(20, 5)}
DiasDiferentes == {DiasDoCartao(20, 5), DiasDoCartao(20, 25)}

Mar10 == {EmData(3, 10)}
AbrilEMaio == {Mes(2027, 4), Mes(2027, 5)}
Abr1 == {EmData(4, 1)}

Nenhum == {}
UmaEdicao == {[tipo |-> "saida", valor |-> 1]}

=============================================================================
