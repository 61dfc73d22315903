--------------------------- MODULE MCLoadWorkers ---------------------------
EXTENDS LoadWorkers, TLC

CONSTANTS ddl, data1, data2, bulk, index

\* The DDL of a table, then two chunks of its data, a bulk load of another
\* table which keeps more threads busy than there are, and an index that is
\* created after the chunks.
MCStage == [t \in Tasks |-> IF t = ddl THEN 1 ELSE 2]
MCWeight == [t \in Tasks |-> IF t = bulk THEN 5 ELSE IF t = index THEN 2 ELSE 1]
MCRequires == [t \in Tasks |-> IF t = index THEN {data1, data2} ELSE {}]

Symmetry == Permutations(Workers) \cup Permutations({data1, data2})
=============================================================================
