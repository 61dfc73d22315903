---------------------------- MODULE MCThreadPool ----------------------------
EXTENDS ThreadPool, TLC

CONSTANTS t1, t2, t3

\* Processing t1 adds t3, or nothing.
MCChildren == [t \in Tasks |-> IF t = t1 THEN {t3} ELSE {}]
NoChildren == [t \in Tasks |-> {}]

Symmetry == Permutations(Workers)
=============================================================================
