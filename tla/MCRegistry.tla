----------------------------- MODULE MCRegistry -----------------------------
EXTENDS Registry, TLC

CONSTANTS s1, n1, n2

MCAliases == s1 :> {n1, n2}
=============================================================================
