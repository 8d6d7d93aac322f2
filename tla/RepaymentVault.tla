--------------------------- MODULE RepaymentVault ---------------------------
(***************************************************************************)
(* contracts/src/RepaymentVault.sol: the one place value enters servicing. *)
(* A payment names a note and a first period and cascades forward over the *)
(* periods that still have room; what no period can take is surplus.  The  *)
(* relay address is set once at deployment, so release() is a step that    *)
(* only ServicingRelay conjoins.                                           *)
(***************************************************************************)
EXTENDS RWANote, Sums

CONSTANTS
  Payments,       \* the amounts one call of repay may carry
  MaxPaidIn       \* bound: no payment by hand takes a note beyond it

ASSUME PaymentsAssumption ==
  /\ Payments \subseteq Nat \ {0}
  /\ MaxPaidIn \in Nat

VARIABLES
  balanceOf,      \* value held for the note
  paidOf,         \* value credited to each of its periods
  surplusOf       \* value paid in that no period could take

vaultVars == <<balanceOf, paidOf, surplusOf>>

\* The sum of f over the periods.
SumOf(f) == SumTo(f, PeriodCount)

VaultInit ==
  /\ balanceOf = [n \in NoteIds |-> 0]
  /\ paidOf    = [n \in NoteIds |-> [i \in Periods |-> 0]]
  /\ surplusOf = [n \in NoteIds |-> 0]

----------------------------------------------------------------------------
\* What is left in the hands of the loop of repay() when it reaches period i,
\* and what it credits there, for rooms given by the function room.
Taken(left, room) == IF left < room THEN left ELSE room

\* Slip: the first period's share is handed on as well.
RemainingTwice(room, first, value) ==
  LET left[i \in 0..PeriodCount] ==
        IF i <= first + 1 THEN value
        ELSE left[i - 1] - Taken(left[i - 1], room[i - 1])
  IN  left

Remaining(room, first, value) ==
  LET left[i \in 0..PeriodCount] ==
        IF i <= first THEN value
        ELSE left[i - 1] - Taken(left[i - 1], room[i - 1])
  IN  left

Credits(room, first, value) ==
  [i \in Periods |-> IF i < first THEN 0
                     ELSE Taken(Remaining(room, first, value)[i], room[i])]

Room(n) == [i \in Periods |-> IF paidOf[n][i] >= PeriodDue(i) THEN 0
                              ELSE PeriodDue(i) - paidOf[n][i]]

\* The note refuses a payment recorded on a period of a closed note.
MayRepay(n, first, value) ==
  (\E i \in Periods : Credits(Room(n), first, value)[i] > 0) => Live(n)

\* repay(): permissionless, and open on a note that is no longer live as long
\* as no period from `first` on has room.
Repay(n, first, value) ==
  LET credit == Credits(Room(n), first, value)
      left   == Remaining(Room(n), first, value)[PeriodCount]
  IN  /\ balanceOf' = [balanceOf EXCEPT ![n] = @ + value]
      /\ paidOf'    = [paidOf EXCEPT
                         ![n] = [i \in Periods |-> paidOf[n][i] + credit[i]]]
      /\ surplusOf' = [surplusOf EXCEPT ![n] = @ + left]
      /\ RecordPayments(n, credit)

\* release(): the value goes to the caller, which is the relay.
Release(n, amount) ==
  /\ balanceOf[n] >= amount
  /\ balanceOf' = [balanceOf EXCEPT ![n] = @ - amount]
  /\ UNCHANGED <<paidOf, surplusOf>>
============================================================================
