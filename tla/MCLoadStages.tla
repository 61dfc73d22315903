---------------------------- MODULE MCLoadStages ----------------------------
(* Two schemas, the second one has no views.                               *)
EXTENDS LoadStages, TLC

CONSTANTS s1, s2, t1, v1, v2

MCHome == (t1 :> s1) @@ (v1 :> s1) @@ (v2 :> s1)
MCIndexes == t1 :> {"i1", "i2"}
MCExisting == {{}, {t1, v1}}
MCOptionSets == {[ignore_existing_objects |-> FALSE,
                  update_gtid_set |-> "APPEND"],
                 [ignore_existing_objects |-> TRUE,
                  update_gtid_set |-> "REPLACE"]}
=============================================================================
