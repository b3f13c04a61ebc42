----------------------------- MODULE MCSession -----------------------------
\* Small instance of Session for TLC: the table of the static router may name
\* an interface that the switch does not have.
EXTENDS Session, TLC

CONSTANTS v

MCTables == (<<v, "enrutamiento">> :> {{}}) @@ (<<v, "reenvio">> :> {{1}, {1, 3}})
=============================================================================
