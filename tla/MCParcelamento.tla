---------------------------- MODULE MCParcelamento ----------------------------
EXTENDS Parcelamento

CONSTANTS r1, r2, r3, p1

Tres == {r1, r2, r3}
UmParcelamento == {p1}
AgoraEDepois == {0, 1}

=============================================================================
