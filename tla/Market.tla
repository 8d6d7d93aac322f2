------------------------------- MODULE Market -------------------------------
(***************************************************************************)
(* The sale of a note as the index and the pages show it: the handlers of  *)
(* subgraph/src/offering.ts, rwa-note.ts and the seeding of                *)
(* note-factory.ts, and web/src/components/note-offering.tsx with          *)
(* note-list.tsx, which quote and send from those rows.                    *)
(*                                                                         *)
(* The rows here are those of the last block (Subgraph models the lag); an *)
(* order waits for its block all the same, so it meets a listing that has  *)
(* changed since the page quoted it.                                       *)
(***************************************************************************)
EXTENDS Offering

CONSTANT MaxListed      \* bound: tokens ever listed and taken back

ASSUME MarketAssumption == MaxListed \in Nat

VARIABLES
  rows,           \* the Note, Listing and Position rows, and the Sale rows' count
  allowance       \* what the Offering may take of the originator's tokens

marketVars == <<offeringVars, rows, allowance>>

NewPosition == [balance |-> 0, bought |-> 0, paid |-> 0, claimed |-> 0]

\* handleNoteIssued: the originator's position is seeded with the supply, and
\* the token's own first Transfer skipped.
Seeded ==
  [note      |-> [listedAmount |-> 0, soldAmount |-> 0, originatorRetained |-> Supply],
   listing   |-> [amount |-> 0, priceBps |-> 0, open |-> FALSE,
                  listedTotal |-> 0, delistedTotal |-> 0],
   positions |-> [h \in Holders |->
                    [NewPosition EXCEPT !.balance = IF h = Originator THEN Supply ELSE 0]],
   sales     |-> 0,
   principalSold |-> 0]

----------------------------------------------------------------------------
\* The handlers: what each event makes of the rows.

\* One side is saved before the other is loaded, so a transfer to oneself
\* leaves its row as it was.
handleTransfer(r, from, to, amount) ==
  LET less  == [r.positions EXCEPT ![from].balance = @ - amount]
      moved == [less EXCEPT ![to].balance = @ + amount]
  IN  [r EXCEPT !.positions = moved,
                !.note.originatorRetained =
                  IF Originator \in {from, to} THEN moved[Originator].balance ELSE @]

handleListed(r, amount, priceBps) ==
  LET listed == [r.listing EXCEPT !.amount = @ + amount, !.priceBps = priceBps,
                                  !.open = TRUE, !.listedTotal = @ + amount]
  IN  [r EXCEPT !.listing = listed, !.note.listedAmount = listed.amount]

handleRepriced(r, priceBps) == [r EXCEPT !.listing.priceBps = priceBps]

handleDelisted(r, amount, remaining) ==
  LET kept == [r.listing EXCEPT !.amount = remaining, !.open = remaining > 0,
                                !.delistedTotal = @ + amount]
  IN  [r EXCEPT !.listing = kept, !.note.listedAmount = remaining]

\* What a purchase leaves of the listing row, and makes of the buyer's.
Left(r, amount) ==
  LET left == IF r.listing.amount > amount THEN r.listing.amount - amount ELSE 0
  IN  [r.listing EXCEPT !.amount = left, !.open = left > 0]

Buyer(r, b, amount, paid) ==
  [r.positions[b] EXCEPT !.bought = @ + amount, !.paid = @ + paid]

\* Slip: the tokens are added to the buyer's row here as well.
handleBoughtTwice(r, b, amount, paid) ==
  [r EXCEPT !.listing = Left(r, amount),
            !.note.listedAmount = Left(r, amount).amount, !.note.soldAmount = @ + amount,
            !.sales = @ + 1,
            !.positions[b] = [Buyer(r, b, amount, paid) EXCEPT !.balance = @ + amount],
            !.principalSold = @ + paid]

handleBought(r, b, amount, paid) ==
  [r EXCEPT !.listing = Left(r, amount),
            !.note.listedAmount = Left(r, amount).amount, !.note.soldAmount = @ + amount,
            !.sales = @ + 1,
            !.positions[b] = Buyer(r, b, amount, paid),
            !.principalSold = @ + paid]

handleClaimed(r, h, amount) == [r EXCEPT !.positions[h].claimed = @ + amount]

----------------------------------------------------------------------------
\* What the pages make of the rows.

ForSale == rows.listing.amount
Open == rows.listing.open /\ ForSale > 0

\* note-list.tsx: what it says is for sale of the note, and at what cost.
Offer == IF Open THEN {[amount |-> ForSale, cost |-> Cost(ForSale, rows.listing.priceBps)]}
         ELSE {}

NeedsApproval(amount) == allowance < amount

----------------------------------------------------------------------------
\* What they send, and what it emits.

\* The first of the two signatures of a listing.
ApproveFromPage(amount) ==
  /\ amount > 0
  /\ amount <= balances[Originator]
  /\ NeedsApproval(amount)
  /\ allowance' = amount
  /\ UNCHANGED <<offeringVars, rows>>

ListFromPage(amount, priceBps) ==
  /\ rows.listing.listedTotal + amount <= MaxListed
  /\ ~NeedsApproval(amount)
  /\ List(amount, priceBps)
  /\ allowance' = allowance - amount
  /\ rows' = handleListed(handleTransfer(rows, Originator, Escrow, amount), amount, priceBps)

RelistFromPage(priceBps) ==
  /\ ForSale > 0
  /\ Relist(priceBps)
  /\ rows' = handleRepriced(rows, priceBps)
  /\ UNCHANGED allowance

\* The page takes the whole of what it shows back; a script may take a part.
DelistEither(amount) ==
  /\ Delist(amount)
  /\ rows' = handleDelisted(handleTransfer(rows, Escrow, Originator, amount),
                            amount, listing'.amount)
  /\ UNCHANGED allowance

\* The purchase is quoted from the rows; a visitor who originated the note is
\* given the other controls.
OrderFromPage(b, amount) ==
  /\ Open
  /\ orders[b] = NoOrder
  /\ amount > 0
  /\ amount <= ForSale
  /\ orders' = [orders EXCEPT ![b] = [amount |-> amount,
                                      value  |-> Cost(amount, rows.listing.priceBps)]]
  /\ UNCHANGED <<ledgerVars, listing, defaulted, currency, saleVars, donated>>
  /\ UNCHANGED <<rows, allowance>>

Bought(b) ==
  LET order == orders[b]
  IN  /\ Buy(b)
      /\ rows' = handleBought(handleTransfer(rows, Escrow, b, order.amount),
                              b, order.amount, proceeds' - proceeds)
      /\ UNCHANGED allowance

NotBought(b) == BuyFails(b) /\ UNCHANGED <<rows, allowance>>

\* Offered to every visitor, whoever they are, while anything is stranded.
SweepFromPage ==
  /\ SweepEscrow
  /\ rows' = handleClaimed(rows, Escrow, funds - funds')
  /\ UNCHANGED allowance

Trade(from, to, amount) ==
  /\ TradeElsewhere(from, to, amount)
  /\ rows' = handleTransfer(rows, from, to, amount)
  /\ UNCHANGED allowance

ClaimBy(h) ==
  /\ ClaimElsewhere(h)
  /\ rows' = handleClaimed(rows, h, funds - funds')
  /\ UNCHANGED allowance

\* The relay's events are the servicing rows' (Subgraph), not these.
NoteMoves ==
  /\ (\E amount \in Distributions : SettleNote(amount)) \/ DefaultNote
  /\ UNCHANGED <<rows, allowance>>

MarketInit ==
  /\ OfferingInit
  /\ rows = Seeded
  /\ allowance = 0

MarketNext ==
  \/ \E amount \in TokenAmounts :
       \/ ApproveFromPage(amount)
       \/ DelistEither(amount)
       \/ \E priceBps \in Prices : ListFromPage(amount, priceBps)
       \/ \E b \in Buyers : OrderFromPage(b, amount)
       \/ \E from, to \in Holders : Trade(from, to, amount)
  \/ \E priceBps \in Prices : RelistFromPage(priceBps)
  \/ \E b \in Buyers : Bought(b) \/ NotBought(b)
  \/ SweepFromPage
  \/ \E h \in Holders : ClaimBy(h)
  \/ NoteMoves

MarketSpec == MarketInit /\ [][MarketNext]_marketVars

----------------------------------------------------------------------------
\* The parts of the property below.
BalancesMirrored ==
  /\ \A h \in Holders : rows.positions[h].balance = balances[h]
  /\ rows.note.originatorRetained = balances[Originator]

ListingMirrored ==
  /\ rows.listing.amount   = listing.amount
  /\ rows.listing.priceBps = listing.priceBps
  /\ rows.listing.open     = listing.open
  /\ rows.note.listedAmount = listing.amount
  /\ rows.listing.listedTotal = listing.amount + rows.listing.delistedTotal
                                               + rows.note.soldAmount

SalesMirrored ==
  /\ SumTo([h \in Holders |-> rows.positions[h].bought], HolderCount) = rows.note.soldAmount
  /\ SumTo([h \in Holders |-> rows.positions[h].paid], HolderCount) = proceeds
  /\ rows.principalSold = proceeds
  /\ rows.sales = sales

ClaimsMirrored ==
  SumTo([h \in Holders |-> rows.positions[h].claimed], HolderCount) = totalClaimed

OfferStands ==
  Offer = IF listing.open
          THEN {[amount |-> listing.amount, cost |-> Cost(listing.amount, listing.priceBps)]}
          ELSE {}

(***************************************************************************)
(* Two contracts emit what four kinds of rows are made from, three events  *)
(* for one purchase.  Through listings, sales, sweeps, gifts to the escrow *)
(* and trades with oneself, the rows say what the contracts hold: every    *)
(* balance and what the originator retained, the listing, and, though no   *)
(* contract keeps them, what was sold, to whom, for how much, and what was *)
(* claimed, with nothing counted twice; and the list of notes shows an     *)
(* offer, at the price the contract will ask, exactly while one stands.    *)
(***************************************************************************)
MarketMirrored ==
  /\ BalancesMirrored
  /\ ListingMirrored
  /\ SalesMirrored
  /\ ClaimsMirrored
  /\ OfferStands
=============================================================================
