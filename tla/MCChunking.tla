----------------------------- MODULE MCChunking -----------------------------
(* Instances of Chunking for TLC.                                           *)
EXTENDS Chunking

\* No statistics; rows as large as chunks, or larger; a few chunks.
MCStatistics ==
    [row_count : {0, 2}, rows_per_chunk : {2}]
    \cup [row_count : {1, 5}, rows_per_chunk : {0, 1}]
    \cup [row_count : {40, 120}, rows_per_chunk : {20}]
=============================================================================
