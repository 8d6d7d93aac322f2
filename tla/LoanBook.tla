------------------------------ MODULE LoanBook ------------------------------
(***************************************************************************)
(* What servicing promises about a set of notes, with no contracts, no     *)
(* clock, no counters and no agent in it: money comes in against a note;   *)
(* each period is paid out exactly once, in full, from that note's own     *)
(* money; the standing of a note is a function of the outcomes of its      *)
(* periods, until it is defaulted, which takes an outstanding miss; and a  *)
(* note that has matured or defaulted is closed for good.                  *)
(* ServicingRelay is shown to implement it.                                *)
(***************************************************************************)
EXTENDS Integers

CONSTANTS
  Notes, Slots,   \* the notes, and the periods of each
  DueOf, NetOf    \* [Slots -> Nat]: what a period costs, what holders get of it

VARIABLES
  outcome,        \* what became of each period
  standing,       \* of each note
  held,           \* money in, not yet paid out
  distributed     \* money paid out to the note's holders

bookVars == <<outcome, standing, held, distributed>>

PaidOut == {"Settled", "Cured"}
Open(n) == standing[n] \in {"Active", "Delinquent"}

StandingOf(periods) ==
  CASE \A i \in Slots : periods[i] \in PaidOut -> "Matured"
    [] \E i \in Slots : periods[i] = "Missed"  -> "Delinquent"
    [] OTHER -> "Active"

BookInit ==
  /\ outcome     = [n \in Notes |-> [i \in Slots |-> "Pending"]]
  /\ standing    = [n \in Notes |-> "Active"]
  /\ held        = [n \in Notes |-> 0]
  /\ distributed = [n \in Notes |-> 0]

\* Money is taken for any note, even a closed one.
Receive(n) ==
  /\ held'[n] \in Nat /\ held'[n] > held[n]
  /\ held' = [held EXCEPT ![n] = held'[n]]
  /\ UNCHANGED <<outcome, standing, distributed>>

Resolve(n, i, to) ==
  /\ Open(n)
  /\ outcome'  = [outcome EXCEPT ![n][i] = to]
  /\ standing' = [standing EXCEPT ![n] = StandingOf(outcome'[n])]

PayOut(n, i) ==
  /\ outcome[n][i] \notin PaidOut
  /\ held[n] >= DueOf[i]
  /\ Resolve(n, i, IF outcome[n][i] = "Missed" THEN "Cured" ELSE "Settled")
  /\ held'        = [held EXCEPT ![n] = @ - DueOf[i]]
  /\ distributed' = [distributed EXCEPT ![n] = @ + NetOf[i]]

Miss(n, i) ==
  /\ outcome[n][i] = "Pending"
  /\ Resolve(n, i, "Missed")
  /\ UNCHANGED <<held, distributed>>

Default(n) ==
  /\ Open(n)
  /\ \E i \in Slots : outcome[n][i] = "Missed"
  /\ standing' = [standing EXCEPT ![n] = "Defaulted"]
  /\ UNCHANGED <<outcome, held, distributed>>

BookNext == \E n \in Notes :
              \/ Receive(n)
              \/ Default(n)
              \/ \E i \in Slots : PayOut(n, i) \/ Miss(n, i)

BookSpec == BookInit /\ [][BookNext]_bookVars
============================================================================
