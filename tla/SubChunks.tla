----------------------------- MODULE SubChunks -----------------------------
(***************************************************************************)
(* What the loader expects of the way a data file is split into            *)
(* transactions: each of them continues where the previous one ended and   *)
(* ends where a row ends, none but the last one is empty, and the last one *)
(* ends where the file ends.  This is the step Commit takes in LoadData.   *)
(***************************************************************************)
EXTENDS Naturals

VARIABLES
  row_ends, size, \* the file: where rows end, and its size
  offset,         \* where the last transaction ended
  finished        \* whether there is nothing more to load

Init ==
  /\ size \in Nat
  /\ row_ends \subseteq 0 .. size
  /\ offset \in 0 .. size
  /\ finished = FALSE

Transaction ==
  /\ ~finished
  /\ offset' \in row_ends \cup {size}
  /\ offset' > offset \/ offset' = size
  /\ finished' \in BOOLEAN
  /\ finished' => offset' = size
  /\ UNCHANGED <<row_ends, size>>

Spec == Init /\ [][Transaction]_<<row_ends, size, offset, finished>>
=============================================================================
