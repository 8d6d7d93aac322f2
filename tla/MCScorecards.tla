---------------------------- MODULE MCScorecards ----------------------------
(* Small instances of Scorecards for TLC. *)
EXTENDS Scorecards, TLC

CONSTANTS n1, a1

OneRecipient == [n \in NoteIds |-> 0]
=============================================================================
