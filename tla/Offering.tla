------------------------------ MODULE Offering ------------------------------
(***************************************************************************)
(* contracts/src/Offering.sol: the primary sale of one note.  The          *)
(* originator escrows tokens here and names a price; a buyer quotes the    *)
(* listing off the chain (web/src/components/note-offering.tsx) and sends  *)
(* exactly that value in a transaction that is mined later, when the       *)
(* listing may have been repriced, sold, taken back, or the note closed.   *)
(*                                                                         *)
(* The tokens and their coupons are those of CouponLedger; the contract is *)
(* the holder of record of what it escrows, and is holder 1.  Listings of  *)
(* different notes share nothing.                                          *)
(***************************************************************************)
EXTENDS CouponLedger

CONSTANTS
  Prices,         \* the prices the originator may name, in basis points of par
  MaxSales        \* bound: purchases explored

BPS == 10000
MAX_PRICE_BPS == 20000

Escrow == 1
Buyers == Holders \ {Originator, Escrow}

ASSUME OfferingAssumption ==
  /\ HolderCount >= 2
  /\ Prices \subseteq 1..MAX_PRICE_BPS
  /\ MaxSales \in Nat

VARIABLES
  listing,        \* _listings[noteId]: amount, priceBps, open
  defaulted,      \* whether the note has been declared in default
  orders,         \* the purchases sent and not mined, at most one per buyer
  currency,       \* the value the Offering holds between calls
  proceeds,       \* the value forwarded to the originator for tokens sold
  sales,          \* how many purchases were made
  asked,          \* history: amount times price, added up over the purchases
  donated         \* history: the tokens sent to the escrow other than by list()

saleVars     == <<proceeds, sales, asked>>
offeringVars == <<ledgerVars, listing, defaulted, orders, currency, saleVars,
                  donated>>

NoOrder == [amount |-> 0, value |-> 0]

\* Terms.periodCount distributions are all there will be: the note matured.
Terminal == defaulted \/ distributions = MaxDistributions

\* Slip: the price is rounded in the originator's favour.
CostUp(amount, priceBps) == (amount * priceBps + BPS - 1) \div BPS

\* _cost
Cost(amount, priceBps) == (amount * priceBps) \div BPS

OfferingInit ==
  /\ LedgerInit
  /\ listing   = [amount |-> 0, priceBps |-> 0, open |-> FALSE]
  /\ defaulted = FALSE
  /\ orders    = [b \in Buyers |-> NoOrder]
  /\ currency  = 0
  /\ proceeds  = 0
  /\ sales     = 0
  /\ asked     = 0
  /\ donated   = 0

----------------------------------------------------------------------------
\* Slip: what was listed before is forgotten.
ListReplacing(amount, priceBps) ==
  /\ ~Terminal
  /\ amount > 0
  /\ Transfer(Originator, Escrow, amount)
  /\ listing' = [amount |-> amount, priceBps |-> priceBps, open |-> TRUE]
  /\ UNCHANGED <<defaulted, orders, currency, saleVars, donated>>

\* list(), by the originator: the slice is added to what is listed and the
\* whole listing takes the new price.
List(amount, priceBps) ==
  /\ ~Terminal
  /\ amount > 0
  /\ Transfer(Originator, Escrow, amount)
  /\ listing' = [amount   |-> listing.amount + amount,
                 priceBps |-> priceBps,
                 open     |-> TRUE]
  /\ UNCHANGED <<defaulted, orders, currency, saleVars, donated>>

\* relist(), by the originator.
Relist(priceBps) ==
  /\ ~Terminal
  /\ listing.open
  /\ listing' = [listing EXCEPT !.priceBps = priceBps]
  /\ UNCHANGED <<ledgerVars, defaulted, orders, currency, saleVars, donated>>

\* What a purchase or a delisting leaves of the listing.
Less(amount) ==
  [listing EXCEPT !.amount = @ - amount,
                  !.open   = listing.open /\ listing.amount # amount]

\* delist(), by the originator, on a closed note too.
Delist(amount) ==
  /\ amount > 0
  /\ amount <= listing.amount
  /\ listing' = Less(amount)
  /\ Transfer(Escrow, Originator, amount)
  /\ UNCHANGED <<defaulted, orders, currency, saleVars, donated>>

\* The page quotes the listing it sees and sends the purchase.
Order(b, amount) ==
  /\ orders[b] = NoOrder
  /\ amount > 0
  /\ amount <= listing.amount
  /\ orders' = [orders EXCEPT ![b] = [amount |-> amount,
                                      value  |-> Cost(amount, listing.priceBps)]]
  /\ UNCHANGED <<ledgerVars, listing, defaulted, currency, saleVars, donated>>

\* The conditions of buy().
MayBuy(order) ==
  /\ ~Terminal
  /\ order.amount > 0
  /\ listing.open
  /\ order.amount <= listing.amount
  /\ order.value = Cost(order.amount, listing.priceBps)

\* buy(), mined for an originator that accepts value: the tokens go to the
\* buyer and the cost to the originator.
Buy(b) ==
  LET order == orders[b]
      cost  == Cost(order.amount, listing.priceBps)
  IN  /\ sales < MaxSales
      /\ MayBuy(order)
      /\ listing'  = Less(order.amount)
      /\ Transfer(Escrow, b, order.amount)
      /\ currency' = currency + order.value - cost
      /\ proceeds' = proceeds + cost
      /\ sales'    = sales + 1
      /\ asked'    = asked + order.amount * listing.priceBps
      /\ orders'   = [orders EXCEPT ![b] = NoOrder]
      /\ UNCHANGED <<defaulted, donated>>

\* A purchase that meets a listing it does not fit reverts; one may also be
\* refused by the originator, or never be mined.
BuyFails(b) ==
  /\ orders[b] # NoOrder
  /\ orders' = [orders EXCEPT ![b] = NoOrder]
  /\ UNCHANGED <<ledgerVars, listing, defaulted, currency, saleVars, donated>>

\* Slip: what is claimable is sent on, and is claimable still.
SweepUnclaimed ==
  /\ Claimable(Escrow) > 0
  /\ funds >= Claimable(Escrow)
  /\ funds' = funds - Claimable(Escrow)
  /\ UNCHANGED <<balances, accPerShare, dust, snapshot, withdrawable, totalDistributed,
                 totalClaimed, distributions>>
  /\ UNCHANGED <<listing, defaulted, orders, currency, saleVars, donated>>

\* sweepEscrow(), by anyone: the claim of the escrow, sent on in the same call.
SweepEscrow ==
  /\ Claim(Escrow)
  /\ UNCHANGED <<listing, defaulted, orders, currency, saleVars, donated>>

----------------------------------------------------------------------------
\* What the note does under the Offering: other holders trade and claim, also
\* by sending tokens straight to the escrow, and the relay settles periods or
\* declares default.
TradeElsewhere(from, to, amount) ==
  /\ from # Escrow
  /\ Transfer(from, to, amount)
  /\ donated' = donated + (IF to = Escrow THEN amount ELSE 0)
  /\ UNCHANGED <<listing, defaulted, orders, currency, saleVars>>

ClaimElsewhere(h) ==
  /\ h # Escrow
  /\ Claim(h)
  /\ UNCHANGED <<listing, defaulted, orders, currency, saleVars, donated>>

SettleNote(amount) ==
  /\ ~Terminal
  /\ Distribute(amount)
  /\ UNCHANGED <<listing, defaulted, orders, currency, saleVars, donated>>

DefaultNote ==
  /\ ~Terminal
  /\ defaulted' = TRUE
  /\ UNCHANGED <<ledgerVars, listing, orders, currency, saleVars, donated>>

OfferingNext ==
  \/ \E amount \in TokenAmounts, priceBps \in Prices : List(amount, priceBps)
  \/ \E priceBps \in Prices : Relist(priceBps)
  \/ \E amount \in TokenAmounts : Delist(amount)
  \/ \E b \in Buyers, amount \in TokenAmounts : Order(b, amount)
  \/ \E b \in Buyers : Buy(b) \/ BuyFails(b)
  \/ SweepEscrow
  \/ \E from, to \in Holders, amount \in TokenAmounts : TradeElsewhere(from, to, amount)
  \/ \E h \in Holders : ClaimElsewhere(h)
  \/ \E amount \in Distributions : SettleNote(amount)
  \/ DefaultNote

OfferingSpec == OfferingInit /\ [][OfferingNext]_offeringVars

----------------------------------------------------------------------------
OrderType == [amount : TokenAmounts \cup {0}, value : Nat]

OfferingTypeOK ==
  /\ listing   \in [amount : Nat, priceBps : Prices \cup {0}, open : BOOLEAN]
  /\ defaulted \in BOOLEAN
  /\ orders    \in [Buyers -> OrderType]
  /\ currency  \in Nat
  /\ proceeds  \in Nat
  /\ sales     \in Nat
  /\ asked     \in Nat
  /\ donated   \in Nat

(***************************************************************************)
(* "Escrowed rather than approved, so a buy cannot fail to deliver"        *)
(* (Offering.sol): the contract holds every token it lists, whatever was   *)
(* listed, sold, taken back or traded meanwhile, and nothing it was given  *)
(* to sell is stranded: beyond the listing it holds only what was sent to  *)
(* it directly.  A listing is open exactly while something of it is left.  *)
(***************************************************************************)
ListingEscrowed ==
  /\ balances[Escrow] = listing.amount + donated
  /\ listing.open <=> listing.amount > 0

(***************************************************************************)
(* "This contract never holds currency between calls": the value of a      *)
(* purchase quoted on a listing that has changed since is neither kept nor *)
(* short, and what is swept is sent on.                                    *)
(***************************************************************************)
HoldsNoCurrency == currency = 0

(***************************************************************************)
(* However the buyers split their purchases, and whatever prices they were *)
(* quoted on, the originator gets what the listing asked when each was     *)
(* made, short of it by less than one smallest unit per purchase, and no   *)
(* buyer pays more.                                                        *)
(***************************************************************************)
SoldAtTheAskedPrice ==
  /\ proceeds * BPS <= asked
  /\ asked <= proceeds * BPS + (BPS - 1) * sales

(***************************************************************************)
(* The Offering is a holder like any other: every call of it is a transfer *)
(* or a claim of the coupon ledger, and all that holds of the ledger holds *)
(* with an Offering in it.                                                 *)
(***************************************************************************)
OfferingKeepsLedger == LedgerSpec
=============================================================================
