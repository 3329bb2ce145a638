------------------------------ MODULE MCWebhook ------------------------------
EXTENDS Webhook, TLC

CONSTANTS a1, a2, d1, d2, m1, m2

Ninguem == {}
DoisApps == {a1, a2}
DoisAppsUmaEntrega == {a1, a2, d1}
SoTelefone == {"telefone"}
Simetria == Permutations(App)
DuasEntregas == {d1, d2}
UmaMensagem == {m1}
DuasMensagens == {m1, m2}
OsDoisCanais == {"telefone", "email"}

=============================================================================
