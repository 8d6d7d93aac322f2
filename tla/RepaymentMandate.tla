-------------------------- MODULE RepaymentMandate --------------------------
(***************************************************************************)
(* contracts/src/RepaymentMandate.sol over the contracts of on-chain       *)
(* servicing: repayments the borrower signed for in advance, relayed by    *)
(* anyone.  A mandate proper is a single-use EIP-3009 authorisation, bound *)
(* to a note and a period by its nonce; a standing authorisation is an     *)
(* EIP-2612 permit, that is, an allowance of the borrower's to this        *)
(* contract.                                                               *)
(*                                                                         *)
(* The token counts in units of SCALE of the smallest native unit.  It is  *)
(* a precompile outside the repository: its permit, transferFrom,          *)
(* allowance and transferWithAuthorization are modelled as this contract   *)
(* uses them.                                                              *)
(***************************************************************************)
EXTENDS ServicingRelay

CONSTANTS
  Borrowers, BorrowerOf,   \* [NoteIds -> Borrowers]
  SCALE,                   \* native units to a token unit
  Ceilings,                \* the values a borrower may sign a permit for
  Signed,                  \* the EIP-3009 authorisations the borrowers signed
  Funds,                   \* what each borrower has at first, in native units
  Spendings                \* amounts a borrower may spend elsewhere

Mandate == [note : NoteIds, period : Periods, value : Nat,
            validAfter : Nat, validBefore : Nat]

ASSUME MandateAssumption ==
  /\ BorrowerOf \in [NoteIds -> Borrowers]
  /\ SCALE \in Nat \ {0}
  /\ Ceilings \subseteq Nat
  /\ Signed \subseteq Mandate
  /\ Funds \in Nat
  /\ Spendings \subseteq Nat \ {0}

VARIABLES
  wallet,          \* the borrower's balance, in native units
  allowance,       \* of the borrower to this contract, in token units
  collected,       \* the <<note, period>> pulled under a standing authorisation
  spentNonces,     \* the <<note, period>> whose mandate the token has honoured
  drawn,           \* history: token units pulled for each <<note, period>>, by a mandate
  drawnStanding    \* history: the same, under a standing authorisation

mandateVars == <<wallet, allowance, collected, spentNonces, drawn, drawnStanding>>
allVars == <<vars, mandateVars>>

Slots == NoteIds \X Periods

MandateInit ==
  /\ Init
  /\ wallet        = [b \in Borrowers |-> Funds]
  /\ allowance     = [b \in Borrowers |-> 0]
  /\ collected     = {}
  /\ spentNonces   = {}
  /\ drawn         = [s \in Slots |-> 0]
  /\ drawnStanding = [s \in Slots |-> 0]

----------------------------------------------------------------------------
\* transferWithAuthorization, as _pull calls it: the window is open at both
\* ends, and a nonce is honoured once.
Honoured(m) ==
  /\ now > m.validAfter /\ now < m.validBefore
  /\ <<m.note, m.period>> \notin spentNonces

\* collect(), by anyone who has the signature: the whole value, whatever the
\* period still lacks; what it does not need goes on to the next ones.
Collect(m) ==
  LET b == BorrowerOf[m.note]
      s == <<m.note, m.period>>
  IN  /\ m.value > 0
      /\ Honoured(m)
      /\ wallet[b] >= m.value * SCALE
      /\ wallet'      = [wallet EXCEPT ![b] = @ - m.value * SCALE]
      /\ spentNonces' = spentNonces \cup {s}
      /\ drawn'       = [drawn EXCEPT ![s] = @ + m.value]
      /\ RepayNote(m.note, m.period, m.value * SCALE)
      /\ UNCHANGED <<allowance, collected, drawnStanding>>

\* authorize(), with a permit the note's borrower signed.  The permit sets the
\* allowance; it does not name the note.
Authorize(n, value) ==
  /\ allowance' = [allowance EXCEPT ![BorrowerOf[n]] = value]
  /\ UNCHANGED <<vars, wallet, collected, spentNonces, drawn, drawnStanding>>

Owed(n, i) == PeriodDue(i) - paidOf[n][i]

\* Slip: rounded down.
UnitsDown(native) == native \div SCALE

\* Native to token units, rounded up.
Units(native) == (native + SCALE - 1) \div SCALE

\* What is pulled for a period: the shortfall.
Charge(n, i) == Units(Owed(n, i))

\* Slip: the period need not have ended.
MayCollectEarly(n, i) ==
  /\ <<n, i>> \notin collected
  /\ paidOf[n][i] < PeriodDue(i)
  /\ allowance[BorrowerOf[n]] >= Charge(n, i)

\* The conditions of collectScheduled.
MayCollect(n, i) ==
  /\ <<n, i>> \notin collected
  /\ now >= PeriodEnd(i)
  /\ paidOf[n][i] < PeriodDue(i)
  /\ allowance[BorrowerOf[n]] >= Charge(n, i)

\* collectScheduled(), by anyone.
CollectScheduled(n, i) ==
  LET b     == BorrowerOf[n]
      units == Charge(n, i)
  IN  /\ MayCollect(n, i)
      /\ wallet[b] >= units * SCALE
      /\ collected'     = collected \cup {<<n, i>>}
      /\ allowance'     = [allowance EXCEPT ![b] = @ - units]
      /\ wallet'        = [wallet EXCEPT ![b] = @ - units * SCALE]
      /\ drawnStanding' = [drawnStanding EXCEPT ![<<n, i>>] = @ + units]
      /\ RepayNote(n, i, units * SCALE)
      /\ UNCHANGED <<spentNonces, drawn>>

\* outstanding(): what a permit still has to cover, in token units.
Outstanding(n) ==
  SumOf([i \in Periods |-> IF paidOf[n][i] >= PeriodDue(i) THEN 0 ELSE Units(Owed(n, i))])

----------------------------------------------------------------------------
\* Money the borrower spends on anything else.
Spend(b, amount) ==
  /\ wallet[b] >= amount
  /\ wallet' = [wallet EXCEPT ![b] = @ - amount]
  /\ UNCHANGED <<vars, allowance, collected, spentNonces, drawn, drawnStanding>>

----------------------------------------------------------------------------
(***************************************************************************)
(* What a holder of the borrower's signatures can do with them, in any     *)
(* order and alongside payments by hand: a mandate is drawn once, as       *)
(* signed, and at a moment inside its window, open at both ends; a         *)
(* standing authorisation is drawn once for a period, for at most its due, *)
(* rounded up to a token unit, and not before its end.                     *)
(***************************************************************************)
PullsAs(mandates) ==
  \A s \in Slots :
     /\ drawn'[s] # drawn[s] =>
          /\ drawn[s] = 0
          /\ \E m \in mandates : /\ s = <<m.note, m.period>>
                                 /\ drawn'[s] = m.value
                                 /\ now > m.validAfter /\ now < m.validBefore
     /\ drawnStanding'[s] # drawnStanding[s] =>
          /\ drawnStanding[s] = 0
          /\ now >= PeriodEnd(s[2])
          /\ drawnStanding'[s] <= Units(PeriodDue(s[2]))

(***************************************************************************)
(* "Only the shortfall": a scheduled pull leaves its period exactly paid,  *)
(* and takes less than one token unit more than it lacked.                 *)
(***************************************************************************)
PullStep ==
  \A n \in NoteIds, i \in Periods :
     drawnStanding'[<<n, i>>] # drawnStanding[<<n, i>>] =>
       /\ paidOf'[n][i] = PeriodDue(i)
       /\ (drawnStanding'[<<n, i>>] - drawnStanding[<<n, i>>]) * SCALE - Owed(n, i)
            \in 0..(SCALE - 1)

(***************************************************************************)
(* "One signature, at the start, for the whole schedule": once a permit    *)
(* for all that is outstanding is in place, the allowance covers what is   *)
(* left through every pull, mandate and payment by hand, whatever the      *)
(* rounding, until the borrower signs a smaller one, or the same allowance *)
(* is drawn on for another note of theirs.                                 *)
(***************************************************************************)
CoverStep ==
  \A n \in NoteIds :
     allowance[BorrowerOf[n]] >= Outstanding(n) =>
       \/ allowance'[BorrowerOf[n]] >= Outstanding(n)'
       \/ UNCHANGED <<collected, paidOf>>
       \/ \E s \in collected' \ collected : s[1] # n /\ BorrowerOf[s[1]] = BorrowerOf[n]

\* A standing authorisation for all that is outstanding, and the money for it.
Provided(n) ==
  /\ allowance[BorrowerOf[n]] >= Outstanding(n)
  /\ wallet[BorrowerOf[n]] >= Outstanding(n) * SCALE
=============================================================================
