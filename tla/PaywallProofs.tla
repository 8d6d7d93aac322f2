--------------------------- MODULE PaywallProofs ---------------------------
(***************************************************************************)
(* One authorisation, one answer: for any number of requests, nonces and   *)
(* routes, any prices, and any number of deaths of the process.            *)
(*                                                                         *)
(* The argument follows one request through the middleware (RequestInv):   *)
(* what it has passed fixes what it will pay and what has moved for it.    *)
(* Two requests meet only at a nonce (NonceInv): the row names the one     *)
(* whose transaction moved the money.                                      *)
(***************************************************************************)
EXTENDS Paywall, TLAPS

Before == {"unsent", "received", "checked", "unrecorded", "unspent"}
Priced == {"checked", "unrecorded", "unspent", "sent", "settled", "recorded"}
Steps  == Before \cup Priced \cup {"answered"}

Typed ==
  /\ time \in Nat
  /\ authorization \in [Nonces -> Authorization \cup {None}]
  /\ at \in [Requests -> Steps]
  /\ carries \in [Requests -> Nonces \cup {None}]
  /\ resource \in [Requests -> Endpoints \cup {None}]
  /\ answer \in [Requests -> Codes \cup {None}]
  /\ receipt \in [Requests -> {"none", "pending", "success", "reverted"}]
  /\ honoured \in SUBSET Nonces
  /\ spent \in [Nonces -> Requests \cup {None}]
  /\ quoted \in Endpoints \cup {None}
  /\ phase = "quoted" => quoted \in Endpoints

RequestInv(r) ==
  /\ at[r] # "unsent" => /\ carries[r] \in Nonces /\ resource[r] \in Endpoints
                         /\ authorization[carries[r]] # None
  /\ at[r] # "answered" => answer[r] = None
  /\ at[r] \in Priced \/ answer[r] = "ok" =>
       authorization[carries[r]].value = PRICES[resource[r]]
  /\ at[r] \in Before \/ answer[r] \in {"payment_invalid", "payment_replayed"}
       => receipt[r] = "none"
  /\ answer[r] = "internal" =>
       \/ receipt[r] = "none"
       \/ /\ resource[r] \in Unguarded
          /\ receipt[r] = "success" /\ spent[carries[r]] = r
  /\ at[r] \in {"settled", "recorded"} \/ answer[r] = "ok" => receipt[r] = "success"
  /\ at[r] = "recorded" \/ answer[r] = "ok" => spent[carries[r]] = r
  /\ receipt[r] = "success" \/ answer[r] = "payment_replayed" => carries[r] \in honoured

NonceInv(n) ==
  spent[n] # None => carries[spent[n]] = n /\ receipt[spent[n]] = "success"

PaywallInv ==
  /\ Typed
  /\ \A r \in Requests : RequestInv(r)
  /\ \A n \in Nonces : NonceInv(n)

LEMMA InitInv == Init => PaywallInv
BY PaywallAssumption DEF Init, PaywallInv, Typed, RequestInv, NonceInv, Steps, Before,
   Priced, Codes

----------------------------------------------------------------------------
\* A new request: nothing is asked of it yet, and no row and no transaction
\* names it.
LEMMA SendInv ==
  ASSUME PaywallInv, NEW r \in Requests, NEW n \in Nonces, NEW e \in Endpoints,
         Send(r, n, e), UNCHANGED <<chainVars, spent>>,
         authorization' \in [Nonces -> Authorization \cup {None}],
         authorization'[n] # None,
         \A k \in Nonces : authorization[k] # None => authorization'[k] = authorization[k],
         quoted' \in Endpoints \cup {None}, phase' = "quoted" => quoted' \in Endpoints
  PROVE  PaywallInv'
<1> USE PaywallAssumption DEF Send, chainVars
<1>1. Typed'
  BY DEF PaywallInv, Typed, Steps, Before
<1>2. ASSUME NEW q \in Requests PROVE RequestInv(q)'
  BY DEF PaywallInv, Typed, RequestInv, Steps, Before, Priced, Codes
<1>3. ASSUME NEW k \in Nonces PROVE NonceInv(k)'
  BY DEF PaywallInv, Typed, RequestInv, NonceInv, Before
<1> QED BY <1>1, <1>2, <1>3 DEF PaywallInv

\* A step that only moves one request on, or answers it.
LEMMA MoveInv ==
  ASSUME PaywallInv, NEW r \in Requests, NEW step \in Steps, NEW code \in Codes \cup {None},
         at[r] # "unsent",
         at' = [at EXCEPT ![r] = step], answer' = [answer EXCEPT ![r] = code],
         UNCHANGED <<authorization, carries, resource, chainVars, spent, pageVars>>,
         RequestInv(r)'
  PROVE  PaywallInv'
<1> USE PaywallAssumption DEF chainVars, pageVars
<1>1. Typed'
  BY DEF PaywallInv, Typed
<1>2. ASSUME NEW q \in Requests, q # r PROVE RequestInv(q)'
  BY <1>2 DEF PaywallInv, Typed, RequestInv
<1>3. ASSUME NEW k \in Nonces PROVE NonceInv(k)'
  BY DEF PaywallInv, Typed, NonceInv
<1> QED BY <1>1, <1>2, <1>3 DEF PaywallInv

----------------------------------------------------------------------------
LEMMA PayInv ==
  ASSUME PaywallInv, NEW r \in Requests, NEW n \in Nonces, Pay(r, n)
  PROVE  PaywallInv'
<1>1. quoted \in Endpoints /\ PRICES[quoted] \in Nat /\ time + Window \in Nat
  BY PaywallAssumption DEF PaywallInv, Typed, Pay
<1>2. Signed(PRICES[quoted], time + Window) \in Authorization
  BY <1>1 DEF Signed, Authorization
<1>3. /\ authorization' \in [Nonces -> Authorization \cup {None}]
      /\ authorization'[n] # None
      /\ \A k \in Nonces : authorization[k] # None => authorization'[k] = authorization[k]
  BY <1>2, PaywallAssumption DEF Pay, PaywallInv, Typed
<1> QED BY <1>1, <1>3, SendInv, PaywallAssumption DEF Pay

LEMMA RepeatInv ==
  ASSUME PaywallInv, NEW r \in Requests, NEW n \in Nonces, NEW e \in Endpoints, Repeat(r, n, e)
  PROVE  PaywallInv'
BY SendInv DEF Repeat, PaywallInv, Typed, pageVars

\* Every step of the middleware but the two that write.
LEMMA ServeInv ==
  ASSUME PaywallInv, NEW r \in Requests,
         \/ Check(r) \/ LookUp(r) \/ AskToken(r) \/ SettlementRefused(r)
         \/ Settled(r) \/ NotSettled(r) \/ Handle(r) \/ CallFails(r)
  PROVE  PaywallInv'
<1> USE DEF Goto, Reply
<1>0. Typed /\ RequestInv(r) /\ \A n \in Nonces : NonceInv(n)
  BY DEF PaywallInv
<1>1. CASE Check(r)
  <2>1. PICK step \in {"checked", "answered"}, code \in {None, "payment_invalid"} :
          /\ at' = [at EXCEPT ![r] = step] /\ answer' = [answer EXCEPT ![r] = code]
          /\ step = "checked" => code = None /\ Acceptable(carries[r], resource[r])
          /\ step = "answered" => code = "payment_invalid"
    BY <1>0, <1>1 DEF Check, RequestInv, Typed
  <2>2. RequestInv(r)'
    BY <1>0, <1>1, <2>1, PaywallAssumption
       DEF Check, RequestInv, Typed, Acceptable, Before, Priced, Codes, chainVars
  <2> QED BY <1>1, <2>1, <2>2, MoveInv DEF Check, Steps, Before, Priced, Codes
<1>2. CASE LookUp(r) \/ AskToken(r)
  <2>0. /\ answer[r] = None /\ answer = [answer EXCEPT ![r] = None]
        /\ spent[carries[r]] # None => carries[r] \in honoured
    <3>1. at[r] # "answered" /\ at[r] # "unsent"
      BY <1>2 DEF LookUp, AskToken
    <3>2. answer[r] = None /\ carries[r] \in Nonces
      BY <1>0, <3>1 DEF RequestInv
    <3>3. ASSUME spent[carries[r]] # None PROVE carries[r] \in honoured
      <4>1. spent[carries[r]] \in Requests
        BY <1>0, <3>2, <3>3 DEF Typed
      <4>2. RequestInv(spent[carries[r]]) /\ NonceInv(carries[r])
        BY <3>2, <4>1 DEF PaywallInv
      <4> QED BY <3>3, <4>2 DEF RequestInv, NonceInv
    <3> QED BY <1>0, <3>2, <3>3 DEF Typed
  <2>1. PICK step \in {"unrecorded", "unspent", "answered"}, code \in {None, "payment_replayed"} :
          /\ at' = [at EXCEPT ![r] = step] /\ answer' = [answer EXCEPT ![r] = code]
          /\ step # "answered" => code = None
          /\ step = "answered" => code = "payment_replayed" /\ carries[r] \in honoured
    <3>1. \/ at' = [at EXCEPT ![r] = "unrecorded"] /\ answer' = answer
          \/ at' = [at EXCEPT ![r] = "unspent"] /\ answer' = answer
          \/ /\ at' = [at EXCEPT ![r] = "answered"]
             /\ answer' = [answer EXCEPT ![r] = "payment_replayed"]
             /\ carries[r] \in honoured
      BY <1>2, <2>0 DEF LookUp, AskToken
    <3> QED BY <2>0, <3>1
  <2>2. RequestInv(r)'
    BY <1>0, <1>2, <2>1, PaywallAssumption
       DEF LookUp, AskToken, RequestInv, Typed, Before, Priced, Codes, chainVars
  <2> QED BY <1>2, <2>1, <2>2, MoveInv DEF LookUp, AskToken, Steps, Before, Priced, Codes
<1>3. CASE SettlementRefused(r) \/ NotSettled(r)
  <2>1. RequestInv(r)'
    BY <1>0, <1>3, PaywallAssumption
       DEF SettlementRefused, NotSettled, RequestInv, Typed, Before, Priced, Codes, chainVars
  <2> QED BY <1>3, <2>1, MoveInv DEF SettlementRefused, NotSettled, Steps, Before, Priced, Codes
<1>4. CASE Settled(r)
  <2>1. answer' = [answer EXCEPT ![r] = None]
    BY <1>0, <1>4 DEF Settled, RequestInv, Typed
  <2>2. RequestInv(r)'
    BY <1>0, <1>4, PaywallAssumption
       DEF Settled, RequestInv, Typed, Before, Priced, Codes, chainVars
  <2> QED BY <1>4, <2>1, <2>2, MoveInv DEF Settled, Steps, Before, Priced, Codes
<1>5. CASE Handle(r)
  <2>1. PICK code \in Outcomes(resource[r]) : Reply(r, code)
    BY <1>5 DEF Handle
  <2>0. /\ code \in {"ok", "not_found", "upstream_lagging", "internal"}
        /\ code = "internal" => resource[r] \in Unguarded
    BY <2>1 DEF Outcomes
  <2>2. RequestInv(r)'
    BY <1>0, <1>5, <2>0, <2>1, PaywallAssumption
       DEF Handle, RequestInv, Typed, Before, Priced, Codes, chainVars
  <2> QED BY <1>5, <2>0, <2>1, <2>2, MoveInv DEF Handle, Steps, Before, Priced, Codes
<1>6. CASE CallFails(r)
  <2>1. RequestInv(r)'
    BY <1>0, <1>6, PaywallAssumption
       DEF CallFails, RequestInv, Typed, Before, Priced, Codes, chainVars
  <2> QED BY <1>6, <2>1, MoveInv DEF CallFails, Steps, Before, Priced, Codes
<1> QED BY <1>1, <1>2, <1>3, <1>4, <1>5, <1>6

\* settle sends its transaction.
LEMMA SubmitInv ==
  ASSUME PaywallInv, NEW r \in Requests, Submit(r)
  PROVE  PaywallInv'
<1> USE PaywallAssumption DEF Submit, Goto, pageVars
<1>1. Typed'
  BY DEF PaywallInv, Typed, Steps, Priced
<1>2. ASSUME NEW q \in Requests PROVE RequestInv(q)'
  <2>0. RequestInv(r) /\ RequestInv(q) /\ Typed
    BY DEF PaywallInv
  <2>1. CASE q = r
    <3>1. /\ at[r] = "unspent" /\ at' = [at EXCEPT ![r] = "sent"]
          /\ receipt' = [receipt EXCEPT ![r] = "pending"]
          /\ UNCHANGED <<authorization, carries, resource, answer, spent, honoured>>
      OBVIOUS
    <3>2. at'[r] = "sent" /\ receipt'[r] = "pending" /\ answer[r] = None
      BY <2>0, <3>1 DEF Typed, RequestInv
    <3> HIDE DEF Submit, Goto
    <3>3. None \notin Codes
      OBVIOUS
    <3> QED BY <2>0, <2>1, <3>1, <3>2, <3>3 DEF RequestInv, Before, Priced, Codes
  <2>2. CASE q # r
    <3>1. at'[q] = at[q] /\ receipt'[q] = receipt[q]
      BY <2>0, <2>2 DEF Typed
    <3> QED BY <2>0, <3>1 DEF RequestInv
  <2> QED BY <2>1, <2>2
<1>3. ASSUME NEW n \in Nonces PROVE NonceInv(n)'
  <2>1. receipt[r] = "none"
    BY DEF PaywallInv, RequestInv, Before
  <2> QED BY <2>1 DEF PaywallInv, Typed, NonceInv
<1> QED BY <1>1, <1>2, <1>3 DEF PaywallInv

\* The row: only for the request whose transaction moved the money, and only
\* where there is none.
LEMMA RecordInv ==
  ASSUME PaywallInv, NEW r \in Requests, Record(r)
  PROVE  PaywallInv'
<1> USE PaywallAssumption DEF Record, Goto, Reply, chainVars, pageVars
<1>1. Typed'
  BY DEF PaywallInv, Typed, RequestInv, Steps, Priced, Codes
<1>2. ASSUME NEW q \in Requests PROVE RequestInv(q)'
  BY DEF PaywallInv, Typed, RequestInv, NonceInv, Before, Priced, Codes
<1>3. ASSUME NEW n \in Nonces PROVE NonceInv(n)'
  BY DEF PaywallInv, Typed, RequestInv, NonceInv
<1> QED BY <1>1, <1>2, <1>3 DEF PaywallInv

LEMMA MineInv ==
  ASSUME PaywallInv, NEW r \in Requests, Mine(r)
  PROVE  PaywallInv'
<1> USE PaywallAssumption DEF Mine, requestVars, pageVars
<1>0. at[r] \notin Before /\ carries[r] \in Nonces
  BY DEF PaywallInv, RequestInv, Before
<1>1. Typed'
  BY <1>0 DEF PaywallInv, Typed
<1>2. ASSUME NEW q \in Requests PROVE RequestInv(q)'
  BY DEF PaywallInv, Typed, RequestInv
<1>3. ASSUME NEW n \in Nonces PROVE NonceInv(n)'
  BY DEF PaywallInv, Typed, NonceInv
<1> QED BY <1>1, <1>2, <1>3 DEF PaywallInv

\* Somebody else has the money moved.
LEMMA RedeemInv ==
  ASSUME PaywallInv, NEW n \in Nonces, Redeem(n)
  PROVE  PaywallInv'
<1> USE PaywallAssumption DEF Redeem, requestVars, pageVars
<1>1. Typed'
  BY DEF PaywallInv, Typed
<1>2. ASSUME NEW q \in Requests PROVE RequestInv(q)'
  BY DEF PaywallInv, Typed, RequestInv
<1>3. ASSUME NEW k \in Nonces PROVE NonceInv(k)'
  BY DEF PaywallInv, Typed, NonceInv
<1> QED BY <1>1, <1>2, <1>3 DEF PaywallInv

\* The process dies: what was in it is lost, what had moved has moved.
LEMMA CrashInv ==
  ASSUME PaywallInv, Crash
  PROVE  PaywallInv'
<1> USE PaywallAssumption DEF Crash, InFlight, chainVars, pageVars
<1>1. Typed'
  BY DEF PaywallInv, Typed, Steps, Codes
<1>2. ASSUME NEW q \in Requests PROVE RequestInv(q)'
  BY DEF PaywallInv, Typed, RequestInv, Before, Priced, Codes
<1>3. ASSUME NEW n \in Nonces PROVE NonceInv(n)'
  BY DEF PaywallInv, Typed, NonceInv
<1> QED BY <1>1, <1>2, <1>3 DEF PaywallInv

\* Time and the page change nothing a request or a nonce depends on.
LEMMA AsideInv ==
  ASSUME PaywallInv, Typed',
         UNCHANGED <<authorization, requestVars, honoured, receipt, spent>>
  PROVE  PaywallInv'
<1>1. ASSUME NEW q \in Requests PROVE RequestInv(q)'
  BY DEF PaywallInv, RequestInv, requestVars
<1>2. ASSUME NEW n \in Nonces PROVE NonceInv(n)'
  BY DEF PaywallInv, NonceInv, requestVars
<1> QED BY <1>1, <1>2 DEF PaywallInv

LEMMA StepInv == PaywallInv /\ [Next]_vars => PaywallInv'
<1> SUFFICES ASSUME PaywallInv, [Next]_vars PROVE PaywallInv'
  OBVIOUS
<1>1. CASE Tick
  BY <1>1, AsideInv DEF Tick, PaywallInv, Typed, requestVars, pageVars
<1>2. CASE Crash
  BY <1>2, CrashInv
<1>3. ASSUME NEW e \in Endpoints, Ask(e) PROVE PaywallInv'
  BY <1>3, AsideInv DEF Ask, PaywallInv, Typed, requestVars, chainVars
<1>4. ASSUME NEW r \in Requests, Serve(r) PROVE PaywallInv'
  BY <1>4, ServeInv, SubmitInv, RecordInv DEF Serve
<1>5. ASSUME NEW r \in Requests, Mine(r) PROVE PaywallInv'
  BY <1>5, MineInv
<1>6. ASSUME NEW r \in Requests, Show(r) PROVE PaywallInv'
  BY <1>6, AsideInv DEF Show, PaywallInv, Typed, requestVars, chainVars
<1>7. ASSUME NEW r \in Requests, NEW n \in Nonces, Pay(r, n) PROVE PaywallInv'
  BY <1>7, PayInv
<1>8. ASSUME NEW r \in Requests, NEW n \in Nonces, NEW e \in Endpoints, Repeat(r, n, e)
      PROVE PaywallInv'
  BY <1>8, RepeatInv
<1>9. ASSUME NEW n \in Nonces, Redeem(n) PROVE PaywallInv'
  BY <1>9, RedeemInv
<1>10. CASE UNCHANGED vars
  BY <1>10, AsideInv DEF vars, PaywallInv, Typed, requestVars
<1> QED BY <1>1, <1>2, <1>3, <1>4, <1>5, <1>6, <1>7, <1>8, <1>9, <1>10 DEF Next

THEOREM PaywallInvariant == Spec => []PaywallInv
BY InitInv, StepInv, PTL DEF Spec

(***************************************************************************)
(* paywall.ts, "settle on-chain, record the nonce as spent, and only then  *)
(* run the handler": an answer was paid for, at its price, and no other    *)
(* request was answered for the same authorisation.                        *)
(***************************************************************************)
THEOREM EveryAnswerPaid == Spec => []ServedOncePaid
<1>1. PaywallInv => ServedOncePaid
  BY DEF PaywallInv, RequestInv, ServedOncePaid, Served
<1> QED BY <1>1, PaywallInvariant, PTL

(***************************************************************************)
(* paywall.ts and routes.ts, the refusals: "already used" only of a nonce  *)
(* the token has consumed, "invalid" only when nothing was sent, the       *)
(* server's own 500 when nothing was or from a handler that catches        *)
(* nothing, and a row for no request whose transaction moved no money.     *)
(***************************************************************************)
THEOREM NoRefusalLies == Spec => []RefusalsTrue
<1>1. PaywallInv => RefusalsTrue
  <2> SUFFICES ASSUME PaywallInv PROVE RefusalsTrue
    OBVIOUS
  <2>1. ASSUME NEW r \in Requests
        PROVE  /\ answer[r] = "payment_replayed" => carries[r] \in honoured /\ receipt[r] = "none"
               /\ answer[r] = "payment_invalid" => receipt[r] = "none"
               /\ answer[r] = "internal" =>
                    \/ receipt[r] = "none"
                    \/ /\ resource[r] \in Unguarded
                       /\ receipt[r] = "success" /\ spent[carries[r]] = r
    BY DEF PaywallInv, RequestInv
  <2>2. ASSUME NEW n \in Nonces, spent[n] # None
        PROVE  /\ n \in honoured
               /\ carries[spent[n]] = n /\ receipt[spent[n]] = "success"
    <3>1. spent[n] \in Requests /\ NonceInv(n)
      BY <2>2 DEF PaywallInv, Typed
    <3>2. RequestInv(spent[n])
      BY <3>1 DEF PaywallInv
    <3> QED BY <2>2, <3>1, <3>2 DEF NonceInv, RequestInv
  <2> QED BY <2>1, <2>2 DEF RefusalsTrue
<1> QED BY <1>1, PaywallInvariant, PTL
=============================================================================
