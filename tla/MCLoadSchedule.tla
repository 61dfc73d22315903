--------------------------- MODULE MCLoadSchedule ---------------------------
EXTENDS LoadSchedule, TLC

CONSTANTS t1, t2, p1, p2, p3

\* A table of two chunks, the first of which is empty, and a table with two
\* partitions, one of two chunks and one of a single file.
MCOwner == (p1 :> t1) @@ (p2 :> t2) @@ (p3 :> t2)
MCChunks == (p1 :> 2) @@ (p2 :> 2) @@ (p3 :> 1)
MCSize == (p1 :> (0 :> 0 @@ 1 :> 2)) @@ (p2 :> (0 :> 1 @@ 1 :> 1))
            @@ (p3 :> (0 :> 3))
MCChecksums == (p1 :> 1) @@ (p2 :> 0) @@ (p3 :> 1)

Opt(data, indexes, bulk, analyze, checksum, wait) ==
  [load_data |-> data, deferred_indexes |-> indexes, bulk |-> bulk,
   analyze |-> analyze, checksum |-> checksum, wait |-> wait]

\* HISTOGRAM and checksums together are in MCHistogram.
MCOptions == {Opt(TRUE, TRUE, TRUE, "ON", TRUE, TRUE),
              Opt(TRUE, TRUE, FALSE, "HISTOGRAM", FALSE, FALSE),
              Opt(FALSE, TRUE, FALSE, "OFF", TRUE, TRUE)}

MCHistogram == {Opt(TRUE, FALSE, FALSE, "HISTOGRAM", TRUE, FALSE)}

Log(chunk0, chunk1, chunk2, bulk3) ==
  [chunk |-> (p1 :> (0 :> chunk0 @@ 1 :> chunk1))
               @@ (p2 :> (0 :> chunk2 @@ 1 :> "PENDING"))
               @@ (p3 :> (0 :> "PENDING")),
   bulk |-> (p1 :> "PENDING") @@ (p2 :> "PENDING") @@ (p3 :> bulk3)]

\* A new load, and one that resumes: a chunk was loaded while the start of
\* the one before it was not logged, and a partition was loaded in bulk.
MCLogs == {Log("PENDING", "PENDING", "PENDING", "PENDING"),
           Log("PENDING", "DONE", "INTERRUPTED", "DONE")}
=============================================================================
