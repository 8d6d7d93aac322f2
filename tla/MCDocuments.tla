---------------------------- MODULE MCDocuments ----------------------------
(* Small instances of Documents for TLC. *)
EXTENDS Documents, TLC

CONSTANTS t1, f1, f2

FilesAlike == Permutations(Files)
=============================================================================
