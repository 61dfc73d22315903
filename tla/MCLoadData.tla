----------------------------- MODULE MCLoadData -----------------------------
EXTENDS LoadData, TLC

CONSTANTS c1, c2, t1, t2

\* Rows of several lengths, so that the sizes of the sub-chunks differ.
MCRowEnds == [c \in Chunks |-> IF c = c1 THEN {0, 1, 3, 4} ELSE {0, 1}]
MCSize == [c \in Chunks |-> IF c = c1 THEN 4 ELSE 1]

\* A table of its own for every chunk, or one for both.
TwoTables == [c \in Chunks |-> IF c = c1 THEN t1 ELSE t2]
OneTable == [c \in Chunks |-> t1]

Symmetry == Permutations(Workers)
=============================================================================
