------------------------------ MODULE MCIndex ------------------------------
(* Small instances of NotePage for TLC. *)
EXTENDS NotePage, TLC

CONSTANTS n1, a1, a2, borrower, originator, mandate

OneRecipient == [n \in NoteIds |-> 0]
AgentsAlike == Permutations(Agents)
=============================================================================
