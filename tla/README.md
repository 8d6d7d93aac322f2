# ArcAsset in TLA+

ArcAsset (this repository) issues private loans as tokenised notes on Arc, a
chain whose native currency is USDC with 18 decimals. A verified originator
proposes a loan to a verified borrower; the borrower accepts, an admin approves,
the originator mints. From then on the borrower pays into a vault, an agent the
originator has delegated to settles the periods, and the holders of the note's
token claim their coupons.

This directory holds specifications of the parts where that can go wrong, the
TLC configurations that check them on small instances, and TLAPS proofs of the
results that matter most for instances of any size.

    tlc -workers 2 -config MCServicing.cfg MCServicing.tla
    tlapm ServicingProofs.tla

## The system

| Part | Source | State it keeps | Operations that change it |
| --- | --- | --- | --- |
| Note, servicing | `contracts/src/RWANote.sol`, `Types.sol` | status, per period paid/status, `periodsSettled`, `periodsMissed`, `firstMissedAt` | `recordPayment` (vault), `markSettled`, `markMissed`, `markDefaulted` (relay) |
| Note, token | `RWANote.sol` | balances, `accPerShare`, `dust`, snapshots, `withdrawable` | `transfer`, `distribute`, `claim` |
| Vault | `RepaymentVault.sol` | `balanceOf`, `paidOf`, `surplusOf` | `repay` (anyone), `release` (relay), `setRelay` (once) |
| Relay | `ServicingRelay.sol` | `agentOf`, `owedFees` | `delegate`, `revokeDelegation`, `settlePeriod`, `markDelinquent`, `markDefaulted`, `withdrawFees` |
| Offering | `Offering.sol` | one listing per note, the escrowed tokens | `list`, `relist`, `delist`, `buy`, `sweepEscrow` |
| Mandate | `RepaymentMandate.sol` | `collected`; in the token: allowances, spent nonces | `collect`, `authorize`, `collectScheduled` |
| Registry | `PartyRegistry.sol`, `verifiers/AttestedVerifier.sol` | nullifier to address and back, `verifiedAt`, `revoked` | `verify`, `revoke` |
| Queue, factory | `IssuanceQueue.sol`, `NoteFactory.sol` | proposals, admins, notes | `propose`, `accept`, `approve`, `reject`, `mint`, `expire`, `setAdmin`; `setInfrastructure`, `deploy` |
| Agent | `backend/src/agent` | what a tick has read, transactions in flight, collected mandates in the database | a tick: read the clock, read the notes, decide, send one by one |
| Sessions | `backend/src/auth`, `web/src/lib/use-session.ts` | challenges, sessions, the token the tabs share | issue, redeem, expire |
| Documents | `backend/src/documents`, `web/src/lib/use-propose.ts` | drafts, file rows, objects in the store | draft, upload, seal, propose |
| Mandate lodging | `backend/src/mandates`, `web/src/components/mandate-signer.tsx` | lodged signatures | sign group by group, lodge, permit |
| Identity | `backend/src/identity`, `web/src/components/selfie-check-step.tsx` | none of its own | attest, look up, record |
| Paywall | `backend/src/intel/paywall.ts`, `settle.ts`, `x402.ts`, `web/src/components/intel-storefront.tsx` | spent authorisations | pay for one response |
| Intel | `backend/src/intel/reader.ts`, `logs.ts` | none | read a scorecard |
| Subgraph | `subgraph/src` | rows that mirror the above | one handler per event |
| Web | `web/src` | none; forms | shows rows, offers calls, builds transactions and signatures |

How they interact:

- The borrower (or anyone) pays the vault; `repay` credits a period and what is
  over cascades to the later ones, and for each the vault calls the note.
- The agent, through the relay, settles a funded period: relay to vault
  (`release`), relay to note (`distribute`, `markSettled`), relay to the fee
  recipient, whose refusal must not undo the settlement.
- Between the end of grace and the cure window the relay marks a short period
  missed, later cured or the note defaulted.
- Mandates pull from the borrower's wallet and pay the vault in the borrower's
  place. The agent collects them from signatures lodged in its database, or from
  a standing allowance.
- The Offering holds listed tokens, so it is a holder of the coupon ledger
  itself, and hands what it earns to the originator.
- The queue alone deploys notes; the registry gates propose, accept and mint. An
  address gets into the registry by an attestation of the backend, after World
  has vouched that a live human showed their face, under the nullifier it gave them.
- A proposal names a document: the page has the backend seal a draft of files and
  proposes with the hash of its manifest.
- The subgraph applies every event to its rows, some time later; the pages show
  the rows, and send calls that meet the contracts as they are by then.
- The intel routes sell what a reader finds on the chain, each answer for one
  signed transfer of the token.

What is hard in it: money that lives in three contracts at once; two ledgers of
the same payment; counters updated incrementally; one timestamp that times
several misses; an accumulator that rounds in two directions; quotes, reads and
allowances that are stale when used; an agent that may crash, time out and
retry between reading and writing; handlers of one server that interleave at
every await, go on when their page has given up, and write what they decided
before; rows counted from events of several contracts; a payment that cannot be
undone in front of an answer that may fail. `PROJECT.json` lists each under
"hazards" at its line, with the property that watches it or the reason why none
does.

What makes each part correct, in a line each: the vault can always pay what the
periods it holds need, and holders get it once; the note's status is what its
periods say; nothing is un-missed, and nothing moves after the end; coupons
follow the balance at the moment of each distribution, whatever is traded
later; every listed token is there, and sells at the price asked; a signature
moves what it was signed for, once; the agent settles what is funded, marks what
is late and never what was not; a note exists only because the holders of two
nullifiers and an admin agreed to it, in time, to exactly the files the originator
chose; a nullifier has one verified address; an answer is paid for once, and a refusal does
not misreport the money; and what the index counts and the pages offer is what
the contracts hold and would take.

## Modules

### Servicing: `RWANote`, `RepaymentVault`, `ServicingRelay`

One module per contract, each extending the one below it: `RWANote` (variables
`status`, `periodStatus`, `periodPaid`, `periodsSettled`, `periodsMissed`,
`firstMissedAt`), `RepaymentVault` (`balanceOf`, `paidOf`, `surplusOf`) and
`ServicingRelay` (`agentOf`, `owedFees`, `relayFunds`, `totalDistributed`, and
the specification `Spec`). Every variable has the name of the storage it models
and is a function of the note. A transaction is one action, with all it does in
all three contracts; one that reverts is no step. `relayFunds` is the native
balance of the relay, `totalDistributed` what has been given to the note's
holders, of whom nothing more is said here. `Tick` moves `block.timestamp`.

The amount a period owes is that of the code: the coupon
`principal * couponBps / BPS`, plus the principal in the last one.

`LoanBook` is what the three promise together: a book with one amount held per
note, where a period is settled by paying out its net once, at most missed and
cured before that, and a note is closed when all are done or it is defaulted.
`ServicingRelay` implements it (`ImplementsLoanBook`, by the mapping at its end).

`ServicingHistory` adds the moment of each miss, which no contract keeps.

### Coupons: `CouponLedger`, `CouponHistory`

The token side of `RWANote.sol`: a per-unit accumulator `accPerShare` at scale
`PRECISION`, snapshots and `withdrawable` per holder, and the remainder `dust`
carried from one distribution to the next. `Distribute` is `distribute` as the
relay calls it, `Transfer` is `_update` (a transfer to oneself and one of
nothing included), `Claim` is `claim`. The arithmetic is the code's, division
included; only `PRECISION` (1e27) and the supply are small. `CouponHistory`
remembers what share each holder had at each distribution.

### The market: `Offering`, `Market`

`Offering` is over `CouponLedger`, with the escrow as holder number 0. A purchase
is two steps, since the page computes the value from a listing it has read
and the transaction meets another one: `Order`, then `Buy` or `BuyFails`. Others
trade, claim, and send tokens straight to the escrow; the relay distributes and
the note closes. `Market` adds the rows of the sale (`rows`: listing, positions,
what was retained, sold and raised) as the handlers of `subgraph/src/offering.ts`
and `rwa-note.ts` make them, and `note-offering.tsx`, which approves, lists, quotes
and buys from them.

### Mandates: `RepaymentMandate`, `Lodging`

`RepaymentMandate` is over the whole of `ServicingRelay`, so that a pull really pays
periods. The token (a precompile, not in the repository) is external: `Honoured` is
its `transferWithAuthorization`, and `Authorize`, `CollectScheduled` use its
allowance. `wallet` counts native units, `allowance` token units, `SCALE` native
units to one.

`Lodging` says where the signatures come from: the page splits the open periods
into groups, has one mandate signed per group for the group's sum, and posts each
(`Authorise`, `SignGroup`, `Post`); the route looks the row up and writes it in two
steps; the agent reads rows, collects, and marks (`ReadRows`, `CollectNext`,
`MarkRow`), in between all of it; and anybody else submits a signature once it is given,
also one that the route refused or that was replaced (`Collect`). Or the page has one permit signed for the whole
schedule (`SignPermit`, `AuthorizeOnce`).

### The agent: `Agent`

Over `RepaymentMandate`, so that everything it does has its effect on chain.
A tick (`StartTick`, `Read`, `Consider`, `Receipt`, `EndTick`) reads the clock
first, then headers, periods and authorisations, decides period by period
(`Decide`, from `decide.ts`, in its order), and sends one transaction at a time.
A transaction that simulates well enters `pending`; `Mine` executes it later,
when it may revert. `Timeout`, `Stop` (a crash, or a read that throws) and a lost
write of `collectedTx` are bounded by `MaxFaults`. Everyone else moves in
between: payments by hand, delegation, permits, relayed signatures.

Reads the code issues together (`Promise.all`) are one step, and so are two that it
makes one after the other, the allowance and the collected marks of a standing
authorisation (`ReadStanding`): marks are only ever set, and any of them may fail to be
read, so the later reads answer with a subset of what the first moment had. Lagging
sources and an empty gas tank make the code skip a tick; a skipped tick is a step not
taken, so they are left out.

### Issuance: `PartyRegistry`, `Issuance`

`PartyRegistry` binds an address to the nullifier an attestation names;
`Attestations` are those the attestor signed, which anyone may submit until they
expire. They may name any nullifier for any address, several for one included:
how many nullifiers one person can come by is the credential's business, and the
repository is at pains not to say one (`docs/06-identity.md:16`, `:45`,
`PartyRegistry.sol:19-26`). Nothing here is said of people.

`Issuance` adds the queue and the factory: proposals with the status and stamps of
the struct, and every operation with its guards. The CREATE2 address of a note, and `predictNote`, which computes it, are left out. `mint` compares the
digest of the stored terms with the same digest; that can never fail and is left
out. `IssuancePages` composes it with the rows of the index, the form that proposes,
the page of a proposal and the list that says whose turn it is, opened at any time
before it is looked at. The form's fields are strings: `Draft` is what was typed and
`Sent` what goes to the queue, after `Number` (not a number, a fraction, or one that
the ABI refuses as `uint16`).

### Who is who: `Identity`

Over `PartyRegistry`: per address, the widget's proof, the backend's attestation
(`Attest`, of whatever nullifier World gave), the page's look whether that nullifier
is taken by another address (`LookUp`), and the transaction (`Submit`, `Mined`), with
reloads, refusals, failed reads, revocations and attestations submitted by anybody in
between.

### What was agreed: `Sessions`, `Documents`

`Sessions` is a wallet's way to a token: challenges, of which the one expiring last
is looked up, their use and their lapse. `Documents` composes it with the drafts.
Every request is a record in `requests` that reads its draft first and writes it
after the object store has answered, so that uploads, seals and time-outs overlap;
a page (`page`) sends them one after another, and goes away when it likes. A file is
its bytes, a hash the set of files it covers. Another client uploads and seals at
the same time.

### Paid answers: `Paywall`

One action per await of the middleware (`Check`, `LookUp`, `AskToken`, `Submit`,
`Settled` or `NotSettled`, `Record`, `Handle`), with `at` the place of each request.
The transaction is mined by `Mine`, when it likes; `Crash` loses every request in
flight and none of the transactions. A handler may throw after the money has moved:
where the route catches, the answer is "upstream_lagging"; the borrower's does not
(`Unguarded`), and the server answers 500, "internal". The storefront page pays with
a fresh nonce (`Pay`); other clients send an authorisation again (`Repeat`); and
whoever has the signature may give it to the token themselves (`Redeem`).

### What is shown and sold: `Subgraph`, `NotePage`, `Scorecards`

`Subgraph` composes `ServicingRelay` with the handlers of `servicing-relay.ts`,
`repayment-vault.ts`, `repayment-mandate.ts` and the status of `rwa-note.ts`: each
transaction appends the events it emits, in order, to `unindexed`, and `Index`
applies one transaction's at a time to `mirror` (`Applied`). A repayment's events are
those of the loop of `repay` (`CreditEvents`), with the amounts credited and what each
period then has. The counters are recounted for the parties, per note and per agent,
with the fees. `NotePage` is what the pages make of
those rows and what they send, at most `MaxLag` transactions behind.
`Scorecards` is the reader that is paid for: a card is put together by one `Call`
after another, each answered from the latest block, and logs are read window by
window, halved when the node refuses one.

### Supporting modules

`Sums` (finite sums, by a recursive function), `SumLemmas` (that such functions exist
and unfold, and how sums change), and the modules `*Proofs`. `MC*` are the instances.

## What the runs check

| Run | Instance | What it shows |
| --- | --- | --- |
| `servicing` | one note, 3 periods, grace and cure 1, payments short, exact and over several periods, time to 8 | six invariants of servicing, that a cure never restarts the cure window, the refinement of `LoanBook`, and `FundedNotesClose` |
| `coupons` | 3 holders, supply 3 at scale 10, distributions of 0, 1 and 2 | the bound of over-crediting, and `FairShare` |
| `offering` | an escrow, an originator, a buyer, 2 prices, 2 sales, supply 2 at scale 8 | escrow and price, that every call is one of the ledger's, and that rows and page say what the contract holds and asks (`MarketMirrored`) |
| `mandate` | one note, 2 periods, 2 signatures of every grouping, permits, payments by hand | pulls are as signed, the page is done when what it lodged covers (`DoneCovers`), a row marked collected was collected and stays marked (`MarksHold`), a permit for the schedule is enough and stays enough (`StandingHonoured`), and `SchedulePaid` |
| `agent` | one note, 2 periods, a lodged mandate too small for its period, a permit, one fault, dry run off | `MissedOnlyIfLate`, `NothingStranded`, `PeriodsResolved` |
| `issuance` | 3 addresses, 2 nullifiers, one address attested for both and both addresses of one, 2 proposals, 3 sheets of terms, 20 drafts of the form | who agreed to what, and when; the rows, the pages and the form of it |
| `paywall` | 3 requests, one authorisation, 2 routes of different price, one of them without a catch, time to 2 | `ServedOncePaid`, `RefusalsTrue`, `EveryRequestAnswered` |
| `index` | one note, 2 periods, 2 agents, 2 transactions of lag | the counters recount what the rows say at every lag, the rows are the contracts' state at none, and the pages offer what the contracts take |
| `scorecards` | one note, 2 periods, windows of 4 blocks down to 1 | a card put together while blocks are mined describes the time of its reading |
| `documents` | one page and another client, 2 files, 2 drafts, 2 requests at once, 2 challenges, 2 tokens | what is proposed is what was chosen; a sealed draft opens; abandoned challenges do not block |
| `identity` | 2 addresses, 2 nullifiers, attestations good for one tick, time to 3 | one address per nullifier, and the page's verdict holds |

A component's safety and liveness are one run: the fair specification has the
same steps, and the instance is the larger of the two they would need.

One run, `mandate_twice`, checks something the repository says of itself, and TLC
refutes it. `mandate-signer.tsx` tells the borrower that "nothing is taken twice",
and that what is left can be authorised later. Its own bookkeeping has only the
anchors of the groups, so it offers the other periods of a lodged group again, and
both mandates are collected. The finding in `PROJECT.json` has the lines.

Other disagreements between the code and what its documents or comments say are in
the modules, but have no run of their own:

- `docs/02-contracts.md:310` has the claims never exceed the money. They may, by at
  most one smallest unit per distribution, unless supply and scale divide
  (`RWANote.sol:140`; `OverCreditIsBounded` and `CoveredWhenExact` prove how far).
- `docs/02-contracts.md:575` has a default need a miss older than the cure window.
  The window is that of the first miss of a streak, cured or not
  (`RWANote.sol:274`); `CureWindowTimed` states what is so.
- `docs/02-contracts.md:218-219` has `expire` clear a revoked party's proposal. It
  does not clear an accepted one, by any condition. Nor does anything in the
  repository call `expire`: no property says that a proposal ends.
- `IssuanceQueue.sol:104`: "two verified addresses are two humans". `docs/06-identity.md:45`
  and `PartyRegistry.sol:19-26` say that this is what cannot be claimed. They are
  two nullifiers (`OneAddressPerNullifier`, `AgreedByAll`).
- `terms.ts:4-5` says it makes "the exact checks `IssuanceQueue.propose` performs". It also
  refuses a cure window shorter than the grace period (`:107-112`), which the queue
  takes. `FormMatches` has the form let through what the queue takes but for that one.
- `docs/04-backend.md:722` and the codes listed at `:650` have a failing upstream
  answered 503. The borrower's route does not catch (`intel/routes.ts:115-125`): a node
  that fails after the settlement makes it a 500, outside that list, for money that
  moved. `RefusalsTrue` does not count that answer as one that says nothing was paid.
- The comment that a permit is the ceiling for one note: the allowance is one per
  borrower, behind every note they owe (`RepaymentMandate.sol:231`). `CoverStep`
  says that a sufficient permit stays sufficient, but for a draw on another note of
  the same borrower: without that exception the proof of `PermitsSuffice` fails, and
  with two notes behind one allowance so does the statement.
- `docs/04-backend.md:196` settles a paid period first. A default outranks it
  (`decide.ts:104`), and in a dry run nobody acts on a default. `:198-199` marks a
  short period past its grace; not while an allowance too small for it is on offer
  (`decide.ts:131`). `PeriodsResolved` is stated with the dry run off and without a
  standing allowance.
- `docs/02-contracts.md:469` has every call of the Offering refused on a closed
  note; `delist` (`Offering.sol:88`) goes through, which is how an originator gets
  unsold tokens back. `Delist` has no such guard.
- `docs/04-backend.md:234` bounds the transactions of a tick by
  `MAX_ACTIONS_PER_TICK`; `loop.ts:167` counts those that succeeded. `Receipt`
  leaves `acted` alone after a revert, `Timeout` always.
- `docs/04-backend.md:267` says not to resend after a timeout; the next tick
  derives the same decision and sends it again while the first is pending. The
  contracts refuse the second, and `NothingStranded` and `HoldersCreditedOnce`
  hold regardless.
- `NoteFactory.sol:94` has a note's address known ahead of its mint; it depends on
  the number the note gets, so another mint landing first changes it. The
  address is not modelled.
- `paywall.ts:86` and `:113` tell a payer whose settlement timed out, or whose row could
  not be written, that the same authorisation may be sent again. The token may have
  honoured its nonce, and then the retry is answered "already used" (`:79`).
  `RefusalsTrue` states what the answers do guarantee.
- The scorecard's `selfCureRate` may exceed 1: misses are counted before cures, each
  from the latest block, and a period that is missed and cured while the card is
  being read is in the cures only (`reader.ts:106`, `:136`); `CardOfItsTime` claims a
  rate for punctuality only. In the index, `periodsCuredBySelf` counts every repayment
  of the originator's into a missed period, several of one period included, and a
  note's page counts cured periods as "on time" (`note-view.tsx:310`).
- The page of a proposal offers `mint` past its window
  and with a revoked party, and the list shows lapsed proposals as waiting; the
  originator's row has a count of accepted notes that nothing increments.
- A position whose balance is zero has no claim button, though coupons may be
  claimable; a closed note's listing keeps its buy button. The contract refuses
  the purchase. What is paid above the last period's due goes to the surplus,
  where the page says that it carries over.

### Bounds, and why they are enough

Time, money paid in by hand, distributions, sales, proposals and faults are
bounded (`MaxTime`, `MaxPaidIn`, `MaxDistributions`, `MaxSales`, `MaxProposals`,
`LastTime`, `MaxFaults`, `MaxSignatures`, `MaxListed`, `MaxLag`, `MaxDelegations`,
`MaxDrafts`, `MaxRequests`, `MaxNonces`, `MaxTokens`); each is a constant and a guard. `MaxPaidIn` bounds only
`PayByHand`: what a mandate pulls is bounded by the wallet. `MaxTime` lets all
periods end, grace and the cure window of the last one run out, and a default
follow. Three periods are the least with a first, an inner and a last one, and
with a cascade that skips one; two misses outstanding while a third period is
open are within it. Payments are chosen below, at and above a due, and the
largest pays several periods at once. `PRECISION` 10 against a supply of 3 makes
both roundings happen at every distribution, which 1e27 does rarely; the proofs
cover all values. Two notes matter only where notes share something: the vault's
balance, of which the theorems say for any number of notes that each has its own
part; the relay's, which has a theorem for any number of notes and recipients;
and the allowance of a borrower, whose runs have one note each. In `agent` the
cure window and grace are 0, so that every deadline is met, missed and passed
within four ticks of the clock; `servicing` has both at 1. In `issuance` the terms
are one good sheet, one that names the proposer, and one above the coupon limit,
and the attestations let one address try two nullifiers and two addresses one. The
drafts go through every field's boundary, with what is not a number and what does not
fit a `uint16`. In `identity` both addresses and both nullifiers are alike, and so
a symmetry set.

In `mandate` two signatures are one for each period, or one for both and one again
for the second, which is the overlap `mandate_twice` is about. In `index` two
transactions of lag let a page act on rows that two others have made stale, and two
agents hand a note over. In `paywall` three requests are one that pays, one that
races it and one that comes after; two prices let an authorisation be good for one
route and not for the other; and time 2 is past what the page signs for. In
`documents` two files are one chosen and one left over from an attempt given up, and
two requests at once are enough for a seal to overtake an upload; the files are
interchangeable and so are a symmetry set, as are the agents of `index`. In
`scorecards` the chain goes on for as many blocks as two periods need to be missed
and cured while the card is read, and four blocks are read in every mixture of
windows.

Deadlock is checked in `servicing`, `coupons`, `agent` and `issuance`. In
the others the system may really stop: everything sold, claimed and closed
(`offering`), every signature given and every period paid (`mandate`), the notes
closed, every row indexed, and the clock at its bound (`index`, `scorecards`), every
challenge and draft that the bounds allow used up (`documents`), everybody verified
or turned away and the time up (`identity`), every request answered (`paywall`).

### Fairness

- `FairHSpec`, by `Fairness`: time passes (`Tick`), and `settlePeriod` is called for
  a period for which it would succeed, while the note is not past its cure window
  (`AgentSettles`). That is the agent's loop with the dry run off (it is on unless
  configured, `config.ts:69`), which reschedules itself
  whatever a tick did (`runner.ts`, `finally` of `runOnce`). For a note past its
  cure window the loop has only a default (`decide.ts:104`), on which the fairness
  does not insist, so `FundedNotesClose` has a note closed or left there for good.
  Nobody is obliged to pay, nor to default or withdraw.
- `FairLodgingSpec`: time passes, and the agent sends `collectScheduled` for a period
  that is due and authorised (`AgentPulls`), under the same two conditions and a third:
  a lodged row that nobody collected hides the standing permit from the agent, even
  past its window (`source.ts:159-165`; `RowHides`). `SchedulePaid` is for a note that
  stays in the agent's hands in this sense (`LeftToTheAgent`). Nobody is obliged to sign.
- `FairAgentSpec` assumes nothing of the agent's decisions: only that the process
  takes its next step, that sent transactions are mined, and that blocks come.
  The decisions are the model's, so this is where the two above are earned.
- `FairSpec` of `Paywall`: the event loop runs a handler whose await has returned, and
  every await of the middleware returns or throws. No block is obliged to include a
  transaction.

`FundedNotesClose` and `PeriodsResolved` are for notes that stay delegated: an
originator may revoke at any moment, and then nothing settles. `SchedulePaid` is for a
borrower who leaves money and allowance in place.

## What is proved

For every number of notes, periods, holders, every amount, rate and clock:

| Theorem | Statement |
| --- | --- |
| `TypeCorrect`, `VaultSolvent`, `LedgersCorrect`, `HoldersPaidOnce`, `StandingCorrect`, `CureWindowCorrect` (`ServicingProofs`) | `Spec => []P` for the first six invariants of `servicing` |
| `RelaySolvent` | `Spec => []RelayHoldsOwedFees`, for any number of notes and recipients |
| `WindowHolds` | `HSpec => []WindowNeverRestarts` |
| `TerminalStays`, `RecordStays` | a closed note stays as it is; a recorded miss, settlement or cure stays recorded |
| `Refinement` | `Spec => Book!BookSpec` |
| `LedgerTypeCorrect`, `OverCreditIsBounded`, `CoveredWhenExact`, `DustIsBounded`, `TransfersNeutral`, `EntitlementsPreserved` (`OfferingProofs`) | the coupon ledger |
| `SharesAreFair` (`OfferingProofs`) | each holder gets their share of every distribution, within a unit each |
| `OfferingImplementsLedger`, `ListingIsEscrowed`, `SalesRoundDown` (`OfferingProofs`) | the Offering |
| `MarketIsMirrored`, `MarketImplementsOffering` | the rows of the sale and the page's offer are the contract's (`MarketSpec => []MarketMirrored`); `MarketSpec => OfferingSpec` |
| `PulledAsSigned`, `DoneIsCovered`, `MarksAreKept`, `PermitsSuffice` (`MandateProofs`) | `LodgingSpec => P` for `[]PullsAsSigned`, `DoneCovers`, `MarksHold`, `StandingHonoured`: any schedule, any size of group, any number of signatures and of notes per borrower |
| `MissesAreLate`, `MarkedWereHonoured` | `AgentSpec => []P` for `MissedOnlyIfLate`, `NothingStranded`, whatever is lost and however often the process dies |
| `OneNullifierOneAddress`, `EverybodyAgreed`, `OneNoteEach` (`IssuanceProofs`) | `PagesSpec => []P` for `OneAddressPerNullifier`, `AgreedByAll`, `MintedOnce`, whatever was attested for whom |
| `CountersAreCounts`, `PagesTellTheTruth` | `PagesSpec => []P` for `RowsRecount`, `PagesMatchTheQueue` |
| `VerdictsAreTrue`, `OneAddressAttested` | `IdentitySpec => []P` for `VerdictsHold`, `OneAddressPerNullifier` |
| `DocumentsInvariant`, `ProposedAreChosen`, `SealedAreReadable` (`DocumentsProofs`) | `DocumentsSpec => []P` for `DocumentsInv`, `ProposedAsChosen`, `SealedFilesReadable` |
| `LatestAnswerIsHeard` | `DocumentsSpec => AbandonedChallengesDoNotBlock` |
| `IndexFollows` (`ReaderProofs`) | `PageSpec => []IndexInv` |
| `CountersHold`, `MirrorHolds`, `OffersHold` | `PageSpec => []P` for `CountersRecount`, `MirrorCurrent`, `OffersWhatIsTaken`: any notes, agents, payers, terms and lag |
| `CardHolds` | `ScoreSpec => []CardOfItsTime`, for any number of notes and periods and any windows |
| `EveryAnswerPaid`, `NoRefusalLies` (`PaywallProofs`) | `Spec => []ServedOncePaid`, `Spec => []RefusalsTrue`, for any number of requests and deaths of the process |

They assume what the modules assume of their constants (`TermsAssumption`,
`RelayAssumption`, `LedgerAssumption`, ...): natural numbers, fees and
coupons within the limits `_validateTerms` enforces, at least one period, and, for
what goes through all notes, finitely many.

The argument for servicing. None of the invariants is inductive alone. That the
vault can release what a settlement takes needs the ledgers to agree; that the
counters do not underflow needs them to count the periods; that a settlement
matures the note exactly when all are done needs the same; that a note in default
has waited needs the cure window to be running exactly while a miss is
outstanding. So `IndInv` is all of them together, stated note by note
(`NoteAt(n)`), and there is a lemma for each operation on one note, and one that
all others are left alone. The cascade of `repay` is a fold over the later
periods; what it credits and what it leaves are lemmas about sums, by
induction on the last period.

The argument for the coupons. `ScaledInv` follows the accumulator in units of
1/`PRECISION`, where nothing is rounded: the scaled claims plus what was claimed
stay below `accPerShare * Supply`, which stays within one unit per distribution
of what was distributed. Fairness (`ShareKept`) needs to know when a holder can
lose a fraction: the first time they are settled after a distribution, and not
again before the next.

The Offering inherits all of that by `OfferingImplementsLedger`; its own
invariant adds that escrow and listing change together. The rows of the sale are
correct handler by handler, one lemma each, and then transaction by transaction, as
several handlers run for one: `MirrorInv` is the Offering's invariant with
`MarketMirrored`, whose five parts relate one group of rows each to the balances,
the listing, the sales, the claims and the page's offer. What was raised and sold is
a sum over the buyers' positions, of which a handler changes one.

The argument for the windows. `firstMissedAt` is set by the first of a streak and
cleared when none is left, so it is never later than a miss that is outstanding;
`ServicingHistory` keeps the moments of the misses, which all are in the past, and
the rest is `CureWindowCorrect`.

The argument for the agent. A miss is marked without looking at what was paid, so
that it is deserved has to survive the whole way from the read to the block that
mines it. `LateInv` follows it: the clock the agent read is not ahead of the
block's; a period read as short after its grace by that clock was late when it was
read, hence is for ever (`lateSlots` only grows); so everything still to be
considered and every transaction sent or pending that marks a miss is of a late
period. A tick that reads the clock after the periods breaks the second step.
`StrandInv` adds what the answer to a transaction is about: one authorisation is
presented per period, the transaction waited for is the last one sent, and a success
means that the nonces of its mandates are spent (`AnswerKnown`). Dying, timing out
and losing a write only drop knowledge.

The argument for the mandates. `LodgingInv` carries through the page, the route and
the agent what each has in hand: everything lodged, being posted, read or collected
was signed on the page, for its own period and inside its window, and a row marked
collected has a spent nonce. A pull is then as signed because the token honours a
nonce once. A permit is enough because what is outstanding, rounded up period by
period, only falls, and by at least as many units as a pull takes (`CoverStep`).
`DoneCovers` is about arithmetic: the groups of the page are consecutive batches
of the open periods in order (`InOrder`), each mandate is its batch's sum rounded up
to a unit, and `LodgedCovers`, by induction on the number of groups, says that what is
lodged up to a period is then at least what is due up to it and less than a unit a
group above the whole.

The argument for issuance. `Bound` says that the registry's two tables are each
other's inverse where they have entries; that is why a revoked address keeps its
nullifier. A page that turns somebody away for good has seen their nullifier bound to
another address, and a binding is never undone; `IdentityInv` says so place by place of
the flow, and that an attestation a page holds is for its own address. Each
proposal carries its stamps in order, its status says which it has, and
its terms never change (`Agreed`); each note points to a minted proposal and no two
to the same one. A party revoked later does not undo what was agreed before, so the
invariant speaks of the moment of the mint, in the stamps. The counters of the index
are cardinalities of sets of proposals (`Tally`): a transaction moves one proposal
from one such set to another and its handlers change the same counters
(`CountChange`, `OfGrows`). From that and the stamps it follows, without a further
invariant, that what the pages derive from the rows is what the guards of the queue
say, but for the time, which the page has from when it was opened. For the form it is
arithmetic: what passes is whole, since the ABI takes nothing else (`WholeNumbers`),
and each complaint is one of the queue's reverts, or the cure window's (`Complaints`).

The argument for the documents. Nothing but the program of the page keeps a late
request off a draft: the page sends one call at a time, and what it gives up on it
never comes back to. `DocumentsInv` says so: of the requests that are on a page's
draft one at most is out and it is the one the page waits for, no request is on a
draft that was proposed, and what was chosen is what was answered for and what is
still to be sent. `SealedFilesReadable` needs only that every request that has
stored its object says which, as the other client's do as well. For the challenges
(`SessionsInv`), the one a tab answers is spent by that tab alone; being turned away
then means that the lookup found another that expires later and is open, or none.

The argument for the index. Every handler writes the rows of one period, one note,
its agent and the two parties, and there is a lemma for what each does to the
counters: a period moves from one status to another (`Gain`), so that each
cardinality changes by as much as the counter the handler increments. An agent is
credited only if it has a row, which is why the rows have to be `Registered`: the
delegation was indexed before anything the agent sent. In between, the rows are
behind, so `IndexInv` speaks of the chain of rows the transactions not yet indexed
lead through: `ms[k + 1]` is what the k-th makes of `ms[k]`, the counters are right in
each, and the last says what the contracts hold (`Latest`). A transaction of the
contracts extends the chain by a link, one lemma for each with the order of its
events; `Index` drops the first link. A repayment is marked as collected by its
transaction, and `TxBelow` says that no row has the identity of one to come. The
pages then read rows that are `Current`: the shortfall they prefill is the vault's
room, what they say is left over is what the cascade credits (`CreditsGoOver`), and
the totals of the preview add up as the settlements do.

The argument for the scorecards. Nothing a card counts is undone by the chain
(`ChainGrows`): a period that was missed stays missed or is cured, a closed note stays
closed, what was paid in stays. So a count made over many blocks is the size of a set
`c` between two others (`Tally`): it lies within what is so now, and has all of `b`, what
was so when the reading began, that has been asked for. A call adds what it asks for to
the one side and, if it is so in its block, to the other; when nothing is left to ask
for, `b` is within `c` and the count between the sizes. That every slot is asked for,
and once, is what the loops over notes and periods make of the queue of calls
(`CallsForAll`). For the amounts the sets are grids of what each period had been paid.
The cures ask only for periods a log was found for: `CuresAhead` keeps, for each cure
the originator had paid for by then, a log that is found or still ahead of the windows,
however they shrink. `ScoreInv` is all of it, over the invariant of servicing.

The argument for the paywall follows one request (`RequestInv`): what it has passed
fixes what it will pay and what has moved for it. Requests meet only at a nonce
(`NonceInv`): the token moved money under it once, for one request, and the row, if
there is one, names that request. A death of the process takes requests from any
place to "lost" and leaves token and rows, which is all the invariant says of the
other requests. That somebody else may redeem an authorisation only takes a nonce
away (`RedeemInv`): no request is then served on it.

Only model-checked:

- Liveness: `FundedNotesClose`, `SchedulePaid`, `PeriodsResolved`,
  `EveryRequestAnswered`. The prover has neither ENABLED nor fairness. Every safety
  property of the runs is a theorem.

## What is not modelled

- Reentrancy: every function that sends value is `nonReentrant` or sends last; an
  action is a whole transaction.
- Widths: amounts and times are naturals. `end + gracePeriod` in uint64 can
  overflow for an absurd grace period, which `_validateTerms` does not bound.
- Signatures and hashes: a signature is a member of a set; the digest of the terms
  is the terms, and a manifest's hash the set of files it covers.
- World's verification of a proof, the flag that skips it, and whether two nullifiers
  are two people; the token precompile; the object store and the database beyond
  that a call may fail.
- `WorldIDVerifier`: a stateless check of a zero-knowledge proof, not deployed.
- The CREATE2 address of a note and `predictNote`, a view.
- Set-once wiring of the vault (`setRelay`), ownership transfer and ERC-20
  approvals, which are OpenZeppelin's.
- Reorganisations of the chain: the subgraph's rows are undone by graph-node, the
  agent reads the latest block.
- In the subgraph, the rows that only copy an event and the daily and protocol
  totals; in the reader, the timeline and the manifest, which list what one or
  two calls return, and the status of the originator's proposals, one call each. The
  reader's loops over the notes' logs and cures are one loop each for all notes.
- Pages of a query: the console asks for notes without a limit, which graph-node
  takes as the first 100 (`agent-console.tsx:74`), and a note's page for 200 periods
  (`note-view.tsx:95`), fewer than `_validateTerms` admits. The rows beyond are not
  shown; `OffersWhatIsTaken` is about fewer.
- Presentation: the landing pages, charts (`ribbon.ts`), wording (`agent-log.ts`,
  `note.ts`, most of `format.ts`), wallet plumbing, wiring and scripts.

What could follow: two notes of one borrower behind one allowance, with the sum of
their outstandings as the permit; and the terms at the boundaries of their widths.
