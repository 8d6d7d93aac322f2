------------------------------- MODULE MCAgent -------------------------------
(* Small instances of Agent for TLC. *)
EXTENDS Agent

CONSTANTS n1, b1, a1

OneRecipient == [n \in NoteIds |-> 0]
OneBorrower  == [n \in NoteIds |-> b1]
OneNote      == <<n1>>

\* A mandate for the first period, rounded up, whose window stays open for a
\* while after the period's grace.
FirstPeriodSigned ==
  {[note |-> n1, period |-> 0, value |-> 2, validAfter |-> PeriodEnd(0), validBefore |-> 4]}
==============================================================================
