------------------------------ MODULE MCMandate ------------------------------
(* Small instances of Lodging, over RepaymentMandate, for TLC. *)
EXTENDS Lodging

CONSTANTS n1, b1, a1

OneRecipient == [n \in NoteIds |-> 0]
OneBorrower  == [n \in NoteIds |-> b1]
NothingSigned == {}
=============================================================================
