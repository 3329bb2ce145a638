---------------------------- MODULE MCLimitador ----------------------------
EXTENDS Limitador, TLC

CONSTANTS k1, k2, r1, r2, r3

AsChaves == {k1, k2}
UmaChave == {k1}
TresRequisicoes == {r1, r2, r3}
Simetria == Permutations(TresRequisicoes)

=============================================================================
