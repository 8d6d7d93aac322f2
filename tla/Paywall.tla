------------------------------ MODULE Paywall ------------------------------
(***************************************************************************)
(* backend/src/intel: the routes that are paid for per request, x402       *)
(* style, and the storefront page that buys from them.  A request carries  *)
(* an EIP-3009 authorisation; the server checks it, moves the money, keeps *)
(* a row saying it did, and only then runs the handler.                    *)
(*                                                                         *)
(* Each await of the middleware is a step of its own, so requests          *)
(* interleave there and the process may die there.  The token honours a    *)
(* nonce once, inside its window.  Signatures are taken to be the payer's: *)
(* an authorisation is what the payer signed, and a header that does not   *)
(* decode is refused like one that fails checkPayload.                     *)
(***************************************************************************)
EXTENDS Integers, FiniteSets

CONSTANTS
  Requests,       \* the requests carrying a payment that the server may receive
  Nonces,         \* the nonces the page may draw; 32 random bytes each
  Endpoints,      \* the priced routes
  Unguarded,      \* those whose handler catches nothing: the borrower's card
  PRICES,         \* [Endpoints -> Nat], in base units
  MinRemaining,   \* seconds an authorisation must still have: minRemainingSeconds
  Window,         \* the page signs for this long
  MaxTime,        \* bound: the last block timestamp explored
  None

Authorization == [value : Nat, validAfter : Nat, validBefore : Nat]
Codes == {"ok", "payment_invalid", "payment_replayed", "settlement_failed",
          "settled_unrecorded", "not_found", "upstream_lagging", "internal", "lost"}

ASSUME PaywallAssumption ==
  /\ Unguarded \subseteq Endpoints
  /\ PRICES \in [Endpoints -> Nat]
  /\ MinRemaining \in Nat /\ Window \in Nat /\ MaxTime \in Nat
  /\ None \notin Requests \cup Nonces \cup Endpoints \cup Codes \cup Authorization

VARIABLES
  time,          \* block.timestamp of the latest block
  authorization, \* what was signed under each nonce, None if nothing
  at,            \* where each request is in the middleware
  carries,       \* the nonce of its authorisation
  resource,      \* the route it asks for
  answer,        \* the code it was answered with, None before
  receipt,       \* its settlement transaction: "none", "pending", "success", "reverted"
  honoured,      \* the nonces the token has consumed
  spent,         \* spentAuthorization: the request each recorded nonce was spent on
  phase,         \* the page: "idle", "quoted", "paying", "answered", "failed"
  quoted         \* the route its quote is for

requestVars == <<at, carries, resource, answer>>
chainVars == <<time, honoured, receipt>>
pageVars == <<phase, quoted>>
vars == <<time, authorization, at, carries, resource, answer, receipt,
          honoured, spent, phase, quoted>>

Signed(value, before) == [value |-> value, validAfter |-> 0, validBefore |-> before]

Init ==
  /\ time          = 1
  /\ authorization = [n \in Nonces |-> None]
  /\ at            = [r \in Requests |-> "unsent"]
  /\ carries       = [r \in Requests |-> None]
  /\ resource      = [r \in Requests |-> None]
  /\ answer        = [r \in Requests |-> None]
  /\ receipt       = [r \in Requests |-> "none"]
  /\ honoured      = {}
  /\ spent         = [n \in Nonces |-> None]
  /\ phase         = "idle"
  /\ quoted        = None

Goto(r, step) == at' = [at EXCEPT ![r] = step] /\ UNCHANGED <<carries, resource, answer>>
Reply(r, code) ==
  /\ at'     = [at EXCEPT ![r] = "answered"]
  /\ answer' = [answer EXCEPT ![r] = code]
  /\ UNCHANGED <<carries, resource>>

----------------------------------------------------------------------------
\* The buyers.

\* A request without a payment reads nothing and is answered 402 at once.  The
\* page keeps the quote, or the failure to get one.
Ask(e) ==
  /\ phase # "paying"
  /\ \/ phase' = "quoted" /\ quoted' = e
     \/ phase' = "failed" /\ quoted' = None
  /\ UNCHANGED <<authorization, requestVars, chainVars, spent>>

Send(r, n, e) ==
  /\ at[r] = "unsent"
  /\ at'       = [at EXCEPT ![r] = "received"]
  /\ carries'  = [carries EXCEPT ![r] = n]
  /\ resource' = [resource EXCEPT ![r] = e]
  /\ UNCHANGED answer

\* authorizationFor and pay: a fresh nonce for exactly what was quoted.
Pay(r, n) ==
  /\ phase = "quoted"
  /\ authorization[n] = None
  /\ authorization' = [authorization EXCEPT
                         ![n] = Signed(PRICES[quoted], time + Window)]
  /\ Send(r, n, quoted)
  /\ phase' = "paying" /\ quoted' = None
  /\ UNCHANGED <<chainVars, spent>>

\* The page shows the answer, or what it was refused with.
Show(r) ==
  /\ phase = "paying"
  /\ at[r] = "answered"
  /\ \A q \in Requests : carries[q] = carries[r] => at[q] = "answered"
  /\ phase' = IF answer[r] = "ok" THEN "answered" ELSE "failed"
  /\ UNCHANGED <<authorization, requestVars, quoted, chainVars, spent>>

\* A client that holds a signed authorisation sends it again, for the same
\* route or for another one: "the payer can retry with the same authorization".
Repeat(r, n, e) ==
  /\ authorization[n] # None
  /\ Send(r, n, e)
  /\ UNCHANGED <<authorization, chainVars, spent, pageVars>>

----------------------------------------------------------------------------
\* The middleware.

\* checkPayload, as far as it tells one signed authorisation from another: the
\* exact price, inside the window, with MinRemaining to go.
Acceptable(n, e) ==
  /\ authorization[n].value = PRICES[e]
  /\ time >= authorization[n].validAfter
  /\ time < authorization[n].validBefore
  /\ authorization[n].validBefore - time >= MinRemaining

Check(r) ==
  /\ at[r] = "received"
  /\ IF Acceptable(carries[r], resource[r])
     THEN Goto(r, "checked") ELSE Reply(r, "payment_invalid")
  /\ UNCHANGED <<authorization, chainVars, spent, pageVars>>

\* Slip: the nonce is taken as spent before the money has moved.
LookUpAndRecord(r) ==
  /\ at[r] = "checked"
  /\ IF spent[carries[r]] # None
     THEN Reply(r, "payment_replayed") /\ UNCHANGED spent
     ELSE Goto(r, "unrecorded") /\ spent' = [spent EXCEPT ![carries[r]] = r]
  /\ UNCHANGED <<authorization, chainVars, pageVars>>

LookUp(r) ==
  /\ at[r] = "checked"
  /\ IF spent[carries[r]] # None
     THEN Reply(r, "payment_replayed") ELSE Goto(r, "unrecorded")
  /\ UNCHANGED <<authorization, chainVars, spent, pageVars>>

\* verifySignature, then authorizationState of the token.
AskToken(r) ==
  /\ at[r] = "unrecorded"
  /\ IF carries[r] \in honoured
     THEN Reply(r, "payment_replayed") ELSE Goto(r, "unspent")
  /\ UNCHANGED <<authorization, chainVars, spent, pageVars>>

\* What transferWithAuthorization requires.
Transferable(n) ==
  /\ n \notin honoured
  /\ time > authorization[n].validAfter
  /\ time < authorization[n].validBefore

\* Slip: the hash is taken for the transfer, and the route served.
SubmitAndServe(r) ==
  /\ at[r] = "unspent"
  /\ Transferable(carries[r])
  /\ receipt' = [receipt EXCEPT ![r] = "pending"]
  /\ Goto(r, "settled")
  /\ UNCHANGED <<time, honoured, authorization, spent, pageVars>>

\* settle, up to writeContract: the call is simulated and its gas estimated
\* first; a simulation that reverts sends nothing.
Submit(r) ==
  /\ at[r] = "unspent"
  /\ Transferable(carries[r])
  /\ receipt' = [receipt EXCEPT ![r] = "pending"]
  /\ Goto(r, "sent")
  /\ UNCHANGED <<time, honoured, authorization, spent, pageVars>>

\* The simulation reverts, the estimate is over maxGas, or the node refuses.
SettlementRefused(r) ==
  /\ at[r] = "unspent"
  /\ Reply(r, "settlement_failed")
  /\ UNCHANGED <<authorization, chainVars, spent, pageVars>>

\* settle, from the receipt on.  waitForTransactionReceipt gives up in the end,
\* and the transaction is still out there.
Settled(r) ==
  /\ at[r] = "sent"
  /\ receipt[r] = "success"
  /\ Goto(r, "settled")
  /\ UNCHANGED <<authorization, chainVars, spent, pageVars>>

\* Slip: the wait has no end.
RevertOnly(r) ==
  /\ at[r] = "sent"
  /\ receipt[r] = "reverted"
  /\ Reply(r, "settlement_failed")
  /\ UNCHANGED <<authorization, chainVars, spent, pageVars>>

NotSettled(r) ==
  /\ at[r] = "sent"
  /\ receipt[r] \in {"reverted", "pending"}
  /\ Reply(r, "settlement_failed")
  /\ UNCHANGED <<authorization, chainVars, spent, pageVars>>

\* spentAuthorization.create, whose key is the nonce; it can fail for any
\* reason a database has.
Record(r) ==
  /\ at[r] = "settled"
  /\ \/ /\ spent[carries[r]] = None
        /\ spent' = [spent EXCEPT ![carries[r]] = r]
        /\ Goto(r, "recorded")
     \/ /\ Reply(r, "settled_unrecorded")
        /\ UNCHANGED spent
  /\ UNCHANGED <<authorization, chainVars, pageVars>>

\* The route's own handler, once the money has moved: the reader's answer, or "not
\* an address", "not an ArcAsset note"; and where the node fails the reader,
\* "upstream lagging", or the server's own 500 where nothing catches it.
Outcomes(e) ==
  {"ok", "not_found", IF e \in Unguarded THEN "internal" ELSE "upstream_lagging"}

Handle(r) ==
  /\ at[r] = "recorded"
  /\ \E code \in Outcomes(resource[r]) : Reply(r, code)
  /\ UNCHANGED <<authorization, chainVars, spent, pageVars>>

\* A database or node call before the settlement throws: the server's own 500.
CallFails(r) ==
  /\ at[r] \in {"received", "checked", "unrecorded"}
  /\ Reply(r, "internal")
  /\ UNCHANGED <<authorization, chainVars, spent, pageVars>>

InFlight == {r \in Requests : at[r] \notin {"unsent", "answered"}}

\* The process dies and is started again: every request in it is lost, every
\* transaction it sent is not.
Crash ==
  /\ InFlight # {}
  /\ at'     = [r \in Requests |-> IF r \in InFlight THEN "answered" ELSE at[r]]
  /\ answer' = [r \in Requests |-> IF r \in InFlight THEN "lost" ELSE answer[r]]
  /\ UNCHANGED <<authorization, carries, resource, chainVars, spent, pageVars>>

----------------------------------------------------------------------------
\* The chain: a pending transaction is included, and succeeds if the token
\* accepts it by then.
Mine(r) ==
  /\ receipt[r] = "pending"
  /\ IF Transferable(carries[r])
     THEN /\ receipt'  = [receipt EXCEPT ![r] = "success"]
          /\ honoured' = honoured \cup {carries[r]}
     ELSE /\ receipt' = [receipt EXCEPT ![r] = "reverted"]
          /\ UNCHANGED honoured
  /\ UNCHANGED <<time, authorization, requestVars, spent, pageVars>>

\* transferWithAuthorization is open to anyone who has the signature, the payer
\* included: the money moves, and for no request of this server's.
Redeem(n) ==
  /\ authorization[n] # None
  /\ Transferable(n)
  /\ honoured' = honoured \cup {n}
  /\ UNCHANGED <<time, receipt, authorization, requestVars, spent, pageVars>>

Tick ==
  /\ time < MaxTime
  /\ time' = time + 1
  /\ UNCHANGED <<authorization, requestVars, honoured, receipt, spent, pageVars>>

\* The middleware's own steps for one request.
Serve(r) ==
  \/ Check(r) \/ LookUp(r) \/ AskToken(r) \/ Submit(r) \/ SettlementRefused(r)
  \/ Settled(r) \/ NotSettled(r) \/ Record(r) \/ Handle(r) \/ CallFails(r)

Next ==
  \/ Tick
  \/ Crash
  \/ \E e \in Endpoints : Ask(e)
  \/ \E n \in Nonces : Redeem(n)
  \/ \E r \in Requests :
       \/ Serve(r)
       \/ Mine(r)
       \/ Show(r)
       \/ \E n \in Nonces : Pay(r, n)
       \/ \E n \in Nonces, e \in Endpoints : Repeat(r, n, e)

Spec == Init /\ [][Next]_vars

\* The event loop runs every handler whose await has returned, and every await
\* of the middleware returns or throws; nothing obliges a block to include a
\* transaction.
FairSpec == Spec /\ \A r \in Requests : WF_vars(Serve(r))

----------------------------------------------------------------------------
(***************************************************************************)
(* "Settle on-chain, record the nonce as spent, and only then run the      *)
(* handler": a request that gets its answer paid for it: the token has     *)
(* moved exactly that route's price under its authorisation, by this       *)
(* request's own transaction, the row says so, and no other request got an *)
(* answer for the same authorisation - with requests racing each other     *)
(* between any two awaits, and the process dying between any two.          *)
(***************************************************************************)
Served == {r \in Requests : answer[r] = "ok"}
ServedOncePaid ==
  \A r \in Served :
     /\ carries[r] \in honoured
     /\ receipt[r] = "success"
     /\ authorization[carries[r]].value = PRICES[resource[r]]
     /\ spent[carries[r]] = r
     /\ \A q \in Served : carries[q] = carries[r] => q = r

(***************************************************************************)
(* A refusal says what happened to the money.  "Already used" is only said *)
(* of a nonce the token has consumed; a payload that was found wrong has   *)
(* sent nothing; and the server's own 500 has sent nothing either, or it   *)
(* is the one answer that hides a payment: of a route whose handler        *)
(* catches nothing, to the request the row names.  (A settlement the       *)
(* server gave up waiting for is told as failed and may be mined after     *)
(* all.)  And a row is kept of nobody whose transaction did not move the   *)
(* money, though others redeem what is out there.                          *)
(***************************************************************************)
RefusalsTrue ==
  /\ \A r \in Requests :
       /\ answer[r] = "payment_replayed" => carries[r] \in honoured /\ receipt[r] = "none"
       /\ answer[r] = "payment_invalid" => receipt[r] = "none"
       /\ answer[r] = "internal" =>
            \/ receipt[r] = "none"
            \/ /\ resource[r] \in Unguarded
               /\ receipt[r] = "success" /\ spent[carries[r]] = r
  /\ \A n \in Nonces : spent[n] # None =>
       /\ n \in honoured
       /\ carries[spent[n]] = n /\ receipt[spent[n]] = "success"

(***************************************************************************)
(* Every request is answered, though no block ever includes its            *)
(* transaction.                                                            *)
(***************************************************************************)
EveryRequestAnswered ==
  \A r \in Requests : (at[r] = "received") ~> (at[r] = "answered")
=============================================================================
