---------------------------- MODULE MCAutenticacao ----------------------------
EXTENDS Autenticacao, TLC

CONSTANTS r1, r2, r3, s1, s2, velha, nova

Tres == {r1, r2, r3}
DoisTokens == {s1, s2}
AsSenhas == {velha, nova}
Simetria == Permutations(Requisicoes) \cup Permutations(Tokens) \cup Permutations(Senhas)

===============================================================================
