------------------------------ MODULE Sessions ------------------------------
(***************************************************************************)
(* backend/src/auth/session.ts with the browser's half of it,              *)
(* web/src/lib/use-session.ts: a wallet signs a challenge and gets a token *)
(* that every tab of the browser shares.  Challenges are redeemed by       *)
(* address and signature alone, so the server has to find which of the     *)
(* outstanding ones was answered.                                          *)
(***************************************************************************)
EXTENDS Naturals, Sequences

CONSTANTS
  Tabs,           \* tabs open on the one wallet
  MaxNonces,      \* bound: challenges issued
  MaxTokens       \* bound: sessions opened

ASSUME SessionsAssumption == MaxNonces \in Nat /\ MaxTokens \in Nat

VARIABLES
  used,           \* Nonce.usedAt is set, in the order the challenges were issued
  lapsed,         \* how many of them have expired: a prefix, as all live as long
  sessions,       \* whether the server still knows each token
  stored,         \* localStorage: a token, or 0
  signIn          \* per tab: where its ensureSession is, and on which challenge

sessionVars == <<used, lapsed, sessions, stored, signIn>>

Nonces == DOMAIN used
NotSigning == [at |-> "no", nonce |-> 0]

SessionsInit ==
  /\ used = <<>> /\ lapsed = 0
  /\ sessions = <<>>
  /\ stored = 0
  /\ signIn = [t \in Tabs |-> NotSigning]

----------------------------------------------------------------------------
At(t, where) == signIn[t].at = where
Moves(t, where) == signIn' = [signIn EXCEPT ![t].at = where]

\* issueNonce, for the ensureSession of a tab.
Ask(t) ==
  /\ At(t, "needed")
  /\ Len(used) < MaxNonces
  /\ used' = Append(used, FALSE)
  /\ signIn' = [signIn EXCEPT ![t] = [at |-> "challenged", nonce |-> Len(used')]]
  /\ UNCHANGED <<lapsed, sessions, stored>>

\* Slip: the oldest outstanding challenge is the one looked up.
FoundOldest == LET open == {n \in Nonces : ~used[n]}
               IN  IF open = {} THEN 0 ELSE CHOOSE n \in open : \A k \in open : n <= k
\* The outstanding challenge that expires last; 0 if there is none.
Found == LET open == {n \in Nonces : ~used[n]}
         IN  IF open = {} THEN 0 ELSE CHOOSE n \in open : \A k \in open : k <= n

\* The wallet has signed.  redeemNonce up to the signature's check.
Redeemable(n) == Found = n /\ n > lapsed
Redeem(t) ==
  /\ At(t, "challenged")
  /\ Moves(t, IF Redeemable(signIn[t].nonce) THEN "proven" ELSE "refused")
  /\ UNCHANGED <<used, lapsed, sessions, stored>>

\* redeemNonce from there: unconditional writes.  The answer may be lost.
Admit(t) ==
  /\ At(t, "proven")
  /\ Len(sessions) < MaxTokens
  /\ used' = [used EXCEPT ![signIn[t].nonce] = TRUE]
  /\ sessions' = Append(sessions, TRUE)
  /\ \/ /\ stored' = Len(sessions')
        /\ Moves(t, "no")
     \/ /\ UNCHANGED stored
        /\ Moves(t, "refused")
  /\ UNCHANGED lapsed

\* Five minutes are over for a challenge, a day for a session.
Lapse ==
  /\ UNCHANGED <<used, stored, signIn>>
  /\ \/ /\ lapsed < Len(used)
        /\ lapsed' = lapsed + 1
        /\ UNCHANGED sessions
     \/ \E s \in DOMAIN sessions :
          /\ sessions[s]
          /\ sessions' = [sessions EXCEPT ![s] = FALSE]
          /\ UNCHANGED lapsed

SignInStep(t) == Ask(t) \/ Redeem(t) \/ Admit(t)

\* addressForToken.
Known(token) == token # 0 /\ sessions[token]

----------------------------------------------------------------------------
(***************************************************************************)
(* A wallet that answers its latest challenge before it expires is let in, *)
(* whatever challenges were abandoned before, in this tab or in another: a *)
(* signed answer is turned away only for a later challenge still open or   *)
(* for its age.                                                            *)
(***************************************************************************)
AbandonedChallengesDoNotBlock ==
  [][\A t \in Tabs :
       (Redeem(t) /\ signIn'[t].at = "refused") =>
          LET mine == signIn[t].nonce
          IN  mine <= lapsed \/ \E n \in Nonces : n > mine /\ ~used[n]]_sessionVars
=============================================================================
