----------------------------- MODULE MCServicing -----------------------------
(* Small instances of ServicingHistory for TLC. *)
EXTENDS ServicingHistory, TLC

CONSTANTS n1, a1

SharedRecipient == [n \in NoteIds |-> 0]
============================================================================
