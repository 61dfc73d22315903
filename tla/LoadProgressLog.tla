-------------------------- MODULE LoadProgressLog --------------------------
(***************************************************************************)
(* The progress log of the dump loader (Load_progress_log).                *)
(*                                                                         *)
(* The file is a sequence of JSON lines; what init() makes of them is one  *)
(* status per step.  A log is represented by that result, kept up to date  *)
(* as lines are appended:                                                  *)
(*   status   the status of the TABLE-DATA step of a chunk,                *)
(*   subs     how many of its TABLE-DATA-SUBCHUNK steps, counted from the  *)
(*            first, are DONE without a gap,                               *)
(*   bytes    the sum of the sizes these sub-chunks were logged with.      *)
(***************************************************************************)
EXTENDS Naturals

CONSTANT Chunks   \* the data files of the dump

\* Load_progress_log::Status
PENDING == "PENDING"
INTERRUPTED == "INTERRUPTED"
DONE == "DONE"

Entries == [status : {PENDING, INTERRUPTED, DONE}, subs : Nat, bytes : Nat]
Logs == [Chunks -> Entries]

EmptyLog == [c \in Chunks |-> [status |-> PENDING, subs |-> 0, bytes |-> 0]]

\* log(start::Table_chunk): `last' is m_last_state, what the previous runs
\* left in the file; a step that is DONE there is not logged again.
LogStart(file, last, c) ==
  IF last[c].status = DONE \/ file[c].status = DONE
  THEN file
  ELSE [file EXCEPT ![c].status = INTERRUPTED]

\* log(end::Table_chunk)
LogEnd(file, last, c) ==
  IF last[c].status = DONE THEN file
                           ELSE [file EXCEPT ![c].status = DONE]

\* log(end::Table_subchunk): the sub-chunk extends the ones which are DONE
\* only if it is the next one.
LogSubchunkEnd(file, last, c, subchunk, size) ==
  IF subchunk < last[c].subs \/ subchunk # file[c].subs
  THEN file
  ELSE [file EXCEPT ![c] = [status |-> @.status, subs |-> @.subs + 1,
                            bytes |-> @.bytes + size]]
=============================================================================
