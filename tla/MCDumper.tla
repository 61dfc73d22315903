------------------------------ MODULE MCDumper ------------------------------
(* Instances of Dumper for TLC.                                             *)
EXTENDS Dumper

\* dumpInstance() by a user with all the privileges
Instance ==
    [threads |-> 1, consistent |-> TRUE, reload |-> "yes", backup_admin |-> TRUE,
     logged |-> TRUE, instance |-> TRUE, export_only |-> FALSE, ddl |-> TRUE,
     data |-> TRUE, checksum |-> FALSE, skip_consistency_checks |-> FALSE]

\* ddlOnly dumps of users who cannot execute FTWRL
LockedTables == [Instance EXCEPT !.reload = "denied", !.data = FALSE]
Unblocked == [LockedTables EXCEPT !.reload = "no", !.backup_admin = FALSE]

\* dumpSchemas(), checksums only; exportTable() which is not consistent
Verified ==
    [Instance EXCEPT !.instance = FALSE, !.data = FALSE, !.checksum = TRUE,
                     !.threads = 2]
Exported ==
    [Instance EXCEPT !.instance = FALSE, !.export_only = TRUE, !.ddl = FALSE,
                     !.checksum = TRUE, !.consistent = FALSE]

MCOptionSets ==
    {Instance, LockedTables, Unblocked, Verified, Exported,
     [Unblocked EXCEPT !.logged = FALSE],
     [Unblocked EXCEPT !.skip_consistency_checks = TRUE]}

\* dumpInstance() of a user who can neither execute FTWRL, nor block DDL
MCUnblocked == {Unblocked}

\* A table with one partition, a view
MCParts == [o \in Tables \cup Views |-> IF o \in Tables THEN {<<o, 1>>} ELSE {o}]
=============================================================================
