# TrueBook: a verification project

TLA+ specifications of TrueBook, a sports book whose bets, prices and outcomes
live in a Solana program and are proven against the odds and scores that the
TxLINE oracle anchors on chain. The modules are written from the source, not
from its documents; where the two disagree a run shows it (see *Findings*).

## 1. The system

| Component | State | Operations | Interacts through |
| --- | --- | --- | --- |
| House and liquidity (`initialize_house.rs`, `manage_liquidity.rs`) | one `House` account (margin, caps, `open_exposure`, `market_count`), one vault token account | initialize, deposit, withdraw | every bet, payment and release reads or writes both |
| Markets (`create_market.rs`, `post_quote.rs`, `lock_market.rs`, `verify_market.rs`, `void_market.rs`) | a `Market` per question: state, predicate, kickoff, quote and its provenance, side aggregates; a `VerifiedOutcome` once proven | create and quote (authority), lock, verify, void (anyone; the authority voids at once, others after a grace window) | tickets read the quote and the state |
| Tickets (`place_bet.rs`, `settle_ticket.rs`, `refund_ticket.rs`) | a `Ticket`: side, stake, odds and provenance snapshot, payout, state, verdict, `exposure_released` | bet (bettor), settle and refund (anyone) | the vault pays, `open_exposure` rises and falls |
| Price audits (`audit_ticket.rs`, `math.rs`) | the ticket's verdict | audit (anyone, any time, any number of times); pays a bounty once | the oracle's odds records |
| Cash-out (`cash_out.rs`, `audit_cash_out.rs`, `claim_cash_out_repair.rs`) | a `CashOutReceipt`: paid amount, odds snapshot, verdict, prover, shortfall, `made_whole` | sell back (bettor), audit (anyone), claim the repair (anyone) | the vault, the oracle |
| Odds mapping (`oddsmap.rs`, `marketCatalog.ts`) | none | predicate to the odds record it must be priced and audited from | create_market, both audits; the keeper and the app hold a second copy |
| Keeper loop (`keeper/src/jobs.ts`, `pricing.ts`) | none of its own but what it read, and its place in a job | a serve cycle: create, lock, in-play windows, quote, settle, re-rig; a one-shot tick | transactions built from reads that grow stale |
| Keeper commands (`keeper/src/index.ts`, `jobs.ts`) | a TxLINE session, the faucet | setup, fund, bet, cash out, audit, audit a cash-out and claim, refund | as the loop; one wallet for the house and the bettor |
| Receipts (`keeper/src/receipt.ts`, `shared/src/receipt.ts`, `verifyReceipt.ts`, `api/receipt`) | exported documents | assemble a ticket's history with its proofs by many reads; verify it later | RPC reads of a chain that moves; simulation |
| App transactions (`app/src/lib/chain/placeBet.ts`, `audit.ts`) | the attempts of one wallet | prepare, sign, send, confirm, each under a deadline | RPC, the wallet |
| App pages (`BetSlip.tsx`, `TicketsScreen.tsx`, `CashOutSheet.tsx`, `AuditPanel.tsx`, `useChain*.ts`, `JudgePanel.tsx`) | React state: snapshots, requests in flight, what each request answered | poll, open, click, retry, switch wallet, close | the functions above, which go on when their page is closed |
| App server (`rateLimit.ts`, `api/*`) | a log of requests per server instance | limit, answer | browsers |
| TxLINE oracle (external) | Merkle roots, odds and score feeds | `validate_stat`, `validate_odds`, feed calls | verify, both audits, the keeper, receipts |

What is hard. Every instruction but the authority's own is open to anyone, in
any order, repeatedly: settlement, voids, refunds, audits, cash-outs and repairs
of the same ticket interleave. Audits judge a price long after the market's
quote has been overwritten. One vault and one exposure counter are shared by all
markets, and the house withdraws whatever is free the moment it is freed. Prices
are computed in doubles by the keeper and judged in flooring integers by the
program. The keeper acts on snapshots it read many awaits earlier, and its cycle
stops at the first error that is not caught. A transaction whose sender hears
nothing may be executed later. The app shows, counts down and acts on snapshots,
and its functions outlive the components that called them. `PROJECT.json` lists
these hazards line by line, with the properties that guard against each.

What makes each component correct:

- house and tickets: the exposure counter is the sum of the unreleased payouts;
  the vault covers it; each bettor is paid what the ticket's end says, once;
- markets: an outcome and a void exclude each other and are final;
- audits: a verdict is a function of the sale, so it is final; a violation is
  paid for once; a proven violation turns into a refund exactly where the bettor
  has not been paid;
- mapping: both copies agree, and the record prices the question that is settled;
- keeper loop: a question is open once; its honest quotes audit as honest; a
  market settles on the last score; markets get quoted, locked and proven and
  tickets paid in the end, whatever fails on the way;
- commands: what is reported as done has been achieved, and nothing happens twice;
- receipts: a receipt verifies exactly when the score row it names bears its outcome
  out, and tells the whole story of its ticket;
- app: what is reported or shown of a transaction, a ticket, a price or a balance
  is so on chain; a slip buys one ticket; nothing waits for ever;
- limiter: its limit is kept, and waiting is enough.

## 2. Modules

| Module | Models |
| --- | --- |
| `BookMath` | `math.rs`, the constants, and the arithmetic inside the audits |
| `OddsMap` | `oddsmap.rs`, `describeMarketParams` of the shared catalog, and (external) what TxLINE means by a predicate and by a record |
| `Catalog` | the questions of `marketCatalog.ts` |
| `Totals` | sums over ticket ids, as a recursive function |
| `TrueBook` | the on-chain program: one action per instruction of `lib.rs` |
| `TicketClaims` | the abstract specification: what the book promises the holder of a ticket |
| `Transactions` | how a client reaches the program: executed, refused, or unanswered and perhaps late |
| `KeeperPricing` | `keeper/src/pricing.ts`, in doubles |
| `HouseQuotes` | the keeper's prices against the program's audit |
| `Keeper` | the jobs of `serveBoard` and of a one-shot run, over `TrueBook` |
| `KeeperCommands` | the operator's commands, over `TrueBook` |
| `Receipts` | a receipt assembled by the keeper or the app's route, and verified |
| `WalletFlow` | an app wallet's transactions, over `TrueBook` |
| `BetSlip`, `TicketsPage` | the two pages that use it |
| `ChainViews` | the hooks that poll the board, the tickets and the verify page |
| `JudgeFunding` | the judge panel and its two faucets |
| `RateLimiter` | the limiter of the two public routes |
| `MCTrueBook`, `MCPrices`, `MCKeeper`, `MCKeeperCommands`, `MCReceipts`, `MCPages`, `MCApp` | instances for TLC |
| `BookMathProofs` | lemmas about sums and about the arithmetic |
| `TrueBookProofs` | types, the exposure ledger, solvency and what it costs; verdicts, payments, outcomes, tickets against markets; market aggregates, bounties; `TrueBook` implements `TicketClaims`; all of it for whoever runs the program (`ProgramInv`) |
| `PricesProofs` | the odds mapping, honest quotes, round trips, the payable floor, where a rigged quote shows |
| `KeeperProofs` | the loops: tickets of unrigged markets audit as honest; a question is open twice only after a race for it; markets settle on the final score where the feed ends quietly and confirms it |
| `CommandsProofs` | the commands: what is done is achieved, and executed once |
| `ReceiptsProofs` | receipts verify exactly when the row they name bears their outcome out, and tell their story |
| `AppProofs` | the limiter keeps its word, the judge panel tells the truth, what is verified stays shown, the board offers what is bettable |
| `PagesProofs` | the two pages: what they report and show is so |

An operator that stands just before another of the same parameters and is used
nowhere is a plausible mistake in it (see *Mutants*).

### TrueBook

A Solana instruction runs alone and leaves no trace when anything in it fails,
so each is one action whose conjuncts are its `require!`s, its checked
arithmetic and the balance its transfers need. Interleaving is between
instructions, and any account may submit any of them, so every action is always
on offer; only argument values are limited by CONSTANTS.

| State | Stands for |
| --- | --- |
| `now` | the cluster clock; it only moves forward |
| `house`, `vault` | the house account, the vault's balance |
| `market`, `outcome` | market accounts by `market_id`, their `VerifiedOutcome` |
| `ticket`, `receipt` | ticket accounts by order of sale, their cash-out receipts |
| `paid`, `bounty`, `unreserved` | history variables: what the vault has paid to a ticket's bettor, for proving its violations, and to bettors with no reserved payout behind it. No guard reads them |

Each action carries the name of its instruction. The enum values `Settled` and
`Claimed`, which no instruction ever assigns, are left out of `MarketState` and
`TicketState`; `Vacant` is an account that does not exist. `paused` is never set
by the program either and stays FALSE. Abstracted away: keys, bumps, seeds, mints
and signers (an authority's instruction is one that may happen with any
arguments), events, the market's committed price index (checked at creation to
be the predicate's, and never read again), `seq`, timestamps that nothing reads.

The oracle appears as two constants. `OddsFeed` maps a record id (message id and
timestamp) to the anchored record; an id outside its domain cannot be
authenticated. `ScoreProofs` is the set of score proofs that validate, each with
its fixture, its predicate and the value TxLINE returns; a fixture may have
proofs with both values, since any anchored score of the right period will do.

Amounts are naturals up to `U64_MAX`. Where Rust would overflow a `u64` the
action is disabled, as the instruction would fail; the `u128` intermediates
cannot overflow. A `u32` conversion in the audits becomes the bound
`MAX_RAW_PRICE`.

### TicketClaims

To its holder a ticket is a claim that opens with a stake and a promise, then is
won, lost, disputed, refunded or sold, and what has been received on it is what
that end says; a sale may be repaired once. House, vault, markets and oracle are
not mentioned. `TrueBook` instantiates it with a refinement mapping from
`ticket`, `receipt` and `paid` (`ImplementsClaims`). A ticket settled to Lost and
then proven overcharged is the one claim that changes its end.

### OddsMap, Catalog, KeeperPricing and HouseQuotes

These are pure functions. The keeper's doubles are modelled by the set of whole
odds that `Math.floor` can return: the exact floor, and one less when the
quotient is mathematically whole, because the double may fall just below it.
`MCPrices` makes each input a state: a consensus price, a margin and a stake, or
a predicate; a step takes the next.

### Transactions

`Send` is the one way the keeper and the app reach the program. A transaction is
executed as an action of `TrueBook`, or refused because that action is disabled,
or its sender learns nothing (`faults`, at most `MaxFaults`) and it stays in
`inflight`, from where it may be executed (`LandLate`) until its blockhash
expires, `TxLifetime` later. A creation is of the market that was next when it
was built, since its address is derived from `market_count`.

### Keeper

`run` holds, for each process, its job, its phase in it, the list it read
(`todo`), where it is, the open lines and odds it remembers for the pass, and the
transaction it is about to send. A process is a `serve` loop or a one-shot
`tick`, which leaves after quoting. Each job reads the accounts in one step and
then takes its items one at a time, one step for each answer of the feed and one
for each send, so anything may happen between any two awaits: a bet, a crank by
others, the clock, a late landing, another process, a crash that forgets
everything. Where the code catches an error the item is dropped; where it does
not (`Throw`), a loop sleeps until its next cycle and a tick dies. The board
is read once for all creations, `market_count` again before each, which names the
account. The walk over score rows goes from the latest down, over
`MAX_SEQ_ATTEMPTS` rows, to the first whose proof is fetched and matches.
The feed is what has been published by `now`: `RecordTs`, `ScoreRows`.

### KeeperCommands

`session` is the list of commands given, the last one perhaps running, each with
its plan: the reads, the faucet calls and the transactions of the command in its
order. The plan stops when a guard of the code declines, or crashes with the
first error nothing catches (`index.ts:239-242`). The TxLINE session of the
commands that need proofs (guest token, subscription, activation) is part of the
plan. `hasAccount` and `spare` are the wallet's test USDT. The serve loop quotes
and others audit and repair meanwhile.

### Receipts

`log` is the history of transactions that `getSignaturesForAddress` serves, by
instruction, accounts touched and slot; `exporting` is the document as it grows,
read by read; `button` is the app's export button; `claimed` is the row that whoever
verified the market said they proved. Several transactions may share a slot
(`SlotsPerTick` of them go by at one reading of the clock, and the log's slots never
fall). The history of an account is served newest first and sorted by slot alone
(`BySlot`, a stable sort), so those that share a slot stay newest first; what
anchored the outcome is pushed behind the ticket's own before the last sort
(`Merged`). Transactions that failed change nothing and are not in the log.

What the service proves of a score row is `ScoreStats`: the row, the period asked
for, and the period and goals of the answer, which may be another's. `verify_market`
compares the period with the market's and takes only what is of it (`ScoreProofs`);
the keeper, the route and `verifyReceipt.ts` do not compare it. The keeper and the
route differ in what they do with a proof served incomplete. Verification is the
list of checks of `verifyReceipt.ts`, the simulation of a proof standing for what it
returns.

### WalletFlow, BetSlip, TicketsPage

Each click is an entry of `attempt`, in stages: prepare, sign, send, confirm, and
what it reported. A deadline ends the stage and reports; a transaction that was
sent can land all the same (`landed` says which attempt did). `BetSlip` adds the
polled `board` and the `slip` over a snapshot of it, with its countdown;
`TicketsPage` the polled `list`, the cash-out `sheet` over a snapshot of an offer,
the `panel` of each row and the `verdict` each audit found, the panels dying with
their rows. The rows poll as the code does; the quotes, cranks and score proofs
of others go on. Both pages start from any books of their constants (one market for
the slip, `BooksAtFirst` for the tickets); `MCPages` picks one page for a behaviour,
and its bounds.

### ChainViews, JudgeFunding, RateLimiter

`ChainViews` is the `hook` of one page: loads are asked, read by a node, and
arrive in any order or fail; `state` is what is shown. `JudgeFunding` is the panel
(`judge`, `connected`), the funding requests that go on without it (`request`),
the balance `read` and what was `granted`. `RateLimiter` is `requestLog` by
client, cut to its window, dropped whole at its cap; `asked` is the history.
`MCApp` picks one of the three for a behaviour (`page`), and the others rest.

## 3. Runs

| Run | Instance | Shows |
| --- | --- | --- |
| `book` (`MCTrueBook.cfg`) | 1 market, 2 tickets, an honest and a rigged quote, proofs of both outcomes, clock 2..5 with kickoff at 4 | all properties of the program, and that it implements `TicketClaims` |
| `two_markets` (`MCTwoMarkets.cfg`) | 2 markets with different predicates and outcomes, 2 tickets, one shared vault of at most 100 | the shared counters when markets differ |
| `prices` (`MCPrices.cfg`) | 304 consensus prices, 4 margins, 3 stakes, 7 dishonest odds; 8748 predicates, thresholds -2..3, scores up to 4 goals a side | honest quotes pass the audit, round trips never gain, floors are payable; the two mappings agree and price the question settled |
| `keeper` (`MCKeeper.cfg`) | one serve loop on an empty board, 2 markets, 1 ticket, clock 2..8, one fault | the keeper's safety and liveness |
| `commands` (`MCKeeperCommands.cfg`) | three commands from a cluster with or without a house, one fault, late landings | what is done is achieved, and once |
| `receipts` (`MCReceipts.cfg`) | two tickets of one market, an export by either side, a log of 5, one fault | a receipt passes iff the row it names bears its outcome out, and tells its whole story |
| `pages` (`MCPages.cfg`) | a slip (three clicks, two slips), or a tickets page at one instant, or while its market ends | what the pages report and show is so |
| `app` (`MCApp.cfg`) | a hook, the judge panel, or the limiter | what is shown, granted and let through; nothing with a deadline waits for ever |
| `solvency` (`MCSolvency.cfg`) | as `book` | **violated**: the vault need not cover the open exposure |
| `rigged_quote` (`MCRiggedQuote.cfg`) | the prices at the devnet margin | **violated**: a rigged quote that audits as honest |
| `late_goal` (`MCLateGoal.cfg`) | as `keeper`, the goal in the last row that has a proof | **violated**: a market settles on a score before the last goal |
| `refund_offer` (`MCRefundOffer.cfg`) | as `pages` | **violated**: the page does not offer a refund that is due |

### What the properties say

The program (`TrueBook`):

- `ExposureExact`: `open_exposure` equals the sum over tickets of what has not
  been released. This is the "exposure invariant" of the technical overview, made
  exact: a Refundable ticket still counts.
- `MarketAggregates`: side totals equal what was ever sold, within the cap.
- `SolventButForUnreserved`: `vault + unreserved >= open_exposure`.
- `PaidOnce`, `NeverOverpaid`: payments against ticket and receipt states.
- `TicketsMatchMarkets`: ticket state against market state, outcome, verdict and
  receipt.
- `BountyOncePerViolation`: bounties against verdicts.
- `VerdictsAreFinal`, `OutcomesAreFinal`: action properties.
- `ImplementsClaims`: refinement of `TicketClaims`.

The keeper loop (`Keeper`): `OneMarketPerQuestion` (no question is open to bets
twice), `HonestTicketsPassAudits` (a ticket of an unrigged market audits as
honest, however stale the list and the odds its quote came from),
`SettlesOnFinalScore`; and, as leads-to, `LocksWhatIsDue`, `ProvesWhatIsLocked`,
`QuotesEveryOpenMarket`, which hold in spite of faults and a crash, and
`PaysWhileNothingFails`, which does not claim more than the code does (see the
divergences). The commands: `DoneIsAchieved`, `ExecutedAtMostOnce`. Receipts:
`PassesIffBorneOut` (a receipt whose row is answered with the market's own period
passes iff the row proves its outcome; one answered with another period, iff those
goals evaluate alike) and `StoryIsTold` (each transaction of the ticket once, none
before one of an earlier slot).

The pages: `ReportsAreTrue` (a confirmed bet is the ticket clicked, a refused one
is never executed), `SlipBuysOneTicket`, `SlipLeavesTime`, `AuditsShowTheChain`,
`PaidAsShown`. What else the app runs: `BoardOffersTheBettable`,
`WhatIsShownStays`, `PanelTellsTheTruth`, `LimiterKeepsItsWord`, and
`NothingSpinsForever` under fairness.

### Bounds, and why they are enough for what they show

`book` and `two_markets`. The hazards are about one ticket's instructions in every
order, and about a second ticket whose reserved payout the first one's payments
may eat: two tickets. A stake of 20 makes payouts of 39 and 26 and a bounty of 1,
so the two sides, a payout and a refund, and a bounty and none are all different
amounts. `U64_MAX` is 120 so that deposits end; `max_payout_per_ticket` and
`max_exposure_per_market` are 40 and 60, so a second ticket of 39 on a side is
refused and one of 26 on the other is not. With quotes valid for one tick, a
kickoff two ticks after the start and a grace of one, a quote is fresh, stale,
refreshed, cashed out against before and after the kickoff, and a market is voided
by the authority before the grace ends and by anyone after it. In `two_markets`
every quote cites the totals record, so tickets of the result market can never be
audited. There is no symmetry: the two tickets are told apart by the order of sale.

`keeper`. Two market ids leave room for the pre-match question and an in-play
line, or for a wrongful duplicate; market 1 is in `RigSkip`, so one market is
quoted honestly and the other re-rigged. The fixture starts at 3 and is past full
time at 5, a quote lives one tick, and a goal comes in the rows of 6, after the
row of full time: a keeper that settles at once is wrong. One fault is any failed
read, call, send or crash at any point, and others lock, void and settle
themselves. A behaviour is of this fixture or of one that starts long after the
last instant (`isDaysAhead`): then nobody bets, but the board must be quoted until
the clock stops at 4. In this run `TxLifetime` is 0, a lost transaction being
lost; `MCLateCreate.cfg` has it at 2.

`commands`. Three commands are enough for a bet, a cash-out or an audit of it, and
one more that repeats or undoes; the faucet grants twice; an unanswered
transaction lands within two ticks; quotes live two and the clock goes from 3 to 4.

`receipts`. Two score rows prove the two outcomes; a third has no proof, and for a
fourth the service answers with the score of full time alone. Each can be claimed
(`ClaimsAnyRow`, for `verify_market` does not tie the claimed `seq` to the proof).
Two slots go by at each reading of the clock, so neighbours in the log share a slot
or do not. One ticket cites an anchored record, the other one
that is not, and a third key belongs to nobody. Five transactions in the log let
a ticket be sold, its market verified, and the ticket settled and audited, with a
sibling's among them.

`pages`. Every deadline is one tick and an unanswered transaction lives one, so
it lands on both sides of the deadline; quotes live two and the slip calls them
expired one earlier; kickoff is at 5 and the clock stops at 6. Two bets on a slip
and a second slip make a retry and an afterthought. `selling` has no time: every
order of quote, offer, cash-out, audit and claim at one instant; `ending` adds the
end of the market, with a ticket sold at a rigged price, and two clicks
(`TwoClicks`).

`app`. Two wallets and two loads in flight make answers arrive for the other
wallet and out of order; the board, whose property is about what a load would
read, has one, and it alone has quotes. The clock goes to 9 for the board, past a
kickoff and an in-play deadline, to 6 for the tickets and to 8 for a resolution.
Two requests of the panel, one of them for a wallet with no token account, make
one overtake the other; the wallets all sign or none does; the limiter has a window of two
ticks, a cap of two clients and limits of 3 and 1, in the ratio of the routes' 30
and 10, for four requests.

`CHECK_DEADLOCK FALSE` in all runs but `prices` and `rigged_quote`: the clock, the
accounts, the clicks and the requests are bounded, so the instance, but not the
program, comes to an end.

### Fairness

`FairKeeper` (`MCFair` in the instance): each loop keeps taking steps and the
clock keeps ticking, since `serveBoard` is an endless loop whose cycles are
wrapped in a `try`. Nothing obliges bettors, other crankers, an operator or a
lost transaction. A fault is no step of a fair action to be counted on: faults
are bounded, so in the end reads are answered.

`FairApp`: a load of the tickets or verify page arrives or fails, and a stage of a
funding request ends, because `connection.ts` puts a deadline on each. There is
none on the board's reads (see the divergences), so a board that is loading is
left out of `NothingSpinsForever`. Nothing obliges the user.

Every other run checks safety only, and assumes nothing. The program alone has no
liveness: whether anything happens depends on who calls the permissionless
instructions, and nothing in this code voids a market whose outcome nobody proves.

### Mutants

Each property of a passing run comes with a mistake in the modelled code that it
must catch, written just before the definition it replaces.

| Property | Mistake |
| --- | --- |
| `TypeOK` | the free liquidity is a plain subtraction |
| `ExposureExact` | a refund ignores `exposure_released` |
| `MarketAggregates` | the YES side is credited with every bet |
| `SolventButForUnreserved` | the bounty is not capped by the free liquidity |
| `PaidOnce` | the repair can be claimed again |
| `NeverOverpaid`, `ImplementsClaims` | a proven violation makes even a paid winner refundable |
| `TicketsMatchMarkets` | settlement forgets the ticket's side |
| `BountyOncePerViolation` | every proof of a violation is paid for |
| `VerdictsAreFinal` | the audit judges the market's current odds |
| `OutcomesAreFinal` | a verified market can be voided |
| `KeeperQuoteIsHonest` | the audit forgets the stated margin |
| `RoundTripNeverGains` | the cash-out uses the opposite probability, not its complement |
| `ViolationFloorIsPayable` | the floor is computed from the ticket's own side |
| `CatalogAgreesWithProgram` | the program wants at least one goal in a totals line |
| `RecordPricesTheQuestion` | the draw is taken for the last price |
| `RecordDeterminesQuestion` | the period is not part of the record |
| `OneMarketPerQuestion` | a market counts as on the board only once it is quoted |
| `HonestTicketsPassAudits` | the freshest record of any kind is quoted |
| `SettlesOnFinalScore` | a match is finished with its time, the feed still moving |
| `LocksWhatIsDue` | markets left to the rig are not locked |
| `ProvesWhatIsLocked` | only the latest score row is tried |
| `PaysWhileNothingFails` | only winners are settled |
| `QuotesEveryOpenMarket` | a market is quoted once |
| `ReportsAreTrue` | a signature that comes after its deadline is sent |
| `SlipBuysOneTicket` | the slip can bet again while it is placing |
| `SlipLeavesTime` | the countdown starts again only when the odds have changed |
| `AuditsShowTheChain` | the verdict is returned though its repair failed |
| `PaidAsShown` | the offer is priced from the ticket's own side |
| `PassesIffBorneOut` | verification asks whether the proof validates, not what it says |
| `StoryIsTold` | a refund is not a receipt's transaction |
| `DoneIsAchieved` | a command goes on after a transaction that failed |
| `ExecutedAtMostOnce` | a command sends again what was not answered |
| `BoardOffersTheBettable` | a fixture is on the board when all its markets are open |
| `PanelTellsTheTruth` | the balance read last is shown, whosever it is |
| `WhatIsShownStays` | the timer of the funded row before is not cleared |
| `NothingSpinsForever` | the panel is told the result and not that the request is over |
| `LimiterKeepsItsWord` | a refused request is recorded |

## 4. Proofs

The theorems about `TrueBook` hold for any number of markets and tickets, any
arguments, records and proofs, and any clock. The steps are proved for
`[Instruction]_vars`, any instruction with arguments of the right type, so that what
composes the program with a client inherits them: a client's step is an instruction
or leaves the book alone (see *Composition*). They rest on the named assumptions of
`TrueBook`: `BoundsAssumption` and `ArgumentsAssumption` type the constants,
`ClockAssumption` says that the clock has passed the quote validity (so that the zero
timestamp of a market without a quote is stale, as it is for Unix time and 120
seconds), `OracleAssumption` types the oracle. Every property of the run `book` is
proved. The argument goes in layers, each using the ones before it.

1. `TypeCorrect`. `TypeOK` is not inductive: that a bet's odds are above 1.0
   follows from its freshness and from `QuotesArePriced`, and that a ticket's
   market exists, that its stake is at most its payout and that a live ticket
   holds its reservation from `TicketsAreSound`. Together they are `BookInv`.
2. `ExposureLedger`. `open_exposure` is compared with a sum over all tickets.
   `BookMathProofs` shows that changing one value of a function changes its
   sum by the difference (`TotalUpdate`); each instruction is then shown to move
   `open_exposure` by what it changes one ticket's reservation by
   (`ReservedChange`). `HouseComesFirst` is needed so that initialization, which
   sets the counter to zero, happens with nothing reserved. That
   `settle_ticket` and `cash_out` never fail on `checked_sub`, and that
   `saturating_sub` never saturates in `refund_ticket`, are consequences.
3. `Solvency`. Each instruction that takes tokens from the vault either releases
   as much exposure, or takes free liquidity only, or is counted in `unreserved`.
4. `VerdictFinality`. The verdict is recomputed at every audit from the ticket,
   its market and the house. `VerdictsAreRight` says that each recorded verdict is
   the one an audit would reach now; it is inductive because no instruction
   changes those terms of an account that exists (`TermsNext`,
   `JudgementsAreFixed`).
5. `PaymentsAreExact` and `PaymentsAreBounded`. Payments follow the states
   (`PaidOnce` with the verdicts of layer 4), and a receipt never promises more
   than the payout (`ReceiptsAreBounded`), because the honest floor is a fraction
   of it.
6. `OutcomeFinality` and `TicketsMatch`. Markets are numbered in order of
   creation, so creation never overwrites one; tickets then keep the story of
   their markets, since verdicts (layer 4) and outcomes are final.
7. `AggregatesAreExact`. As for the exposure, a market's side totals are sums over
   the tickets sold on them. The terms of a sold ticket never change (`SumsStay`),
   so only a sale moves a sum, by its own ticket; nothing is sold in a market
   before it is created (`NothingSoldBefore`).
8. `BountiesArePaidOnce`. The bounty is compared with the verdict; it is inductive
   with layer 4, since a second proof finds the verdict `Violation` already.
9. `ClaimsImplemented`. A step simulation: the initial book maps to initial
   claims, and each instruction maps to a step of `TicketClaims` or to a stutter.
   The invariants of layers 1, 4 and 5 supply what a step's abstract guard asks
   for; `PaymentIsBounded` types what is received. An audit of a cash-out decides
   its receipt or does nothing.

10. `SolventUntilProven` and `DeficitIsTheViolations` say what layer 3 says without
   the history variable `unreserved`, which no account keeps. `CostOf` reads off the
   accounts of a ticket what proven violations of its prices have cost: its stake, if
   it was refunded for one, and its shortfall, if that was repaid. `unreserved` never
   exceeds the sum of these (`UnreservedIsExplained`; `CostNext` has one case per
   instruction, and rests on layer 6: what is refundable after its settlement has been
   proven a violation). So the vault lacks at most that sum, and nothing as long as no
   served price has been proven a violation: then the comment at `place_bet.rs:65`,
   which run `solvency` refutes, is true.
   `LiveTicketsFunded` takes this to one ticket: its reservation is a term of
   `open_exposure` (layer 2's `ExposureExact`), so the checked subtraction of
   `settle_ticket.rs:59` never fails on a live ticket, the saturating one of
   `refund_ticket.rs:49` never saturates, and until a price is proven wrong the vault
   holds its payout, which is at least what settling, refunding or selling it back
   pays. That such an instruction is then enabled is not stated (`ENABLED`); its
   remaining guards are the states of the ticket and its market.

*Composition.* `ProgramInv` conjoins the invariants of the layers and `BookIsSound`
what they say of the accounts. `ClientNext` shows that any step that is an
instruction or leaves the book alone keeps `ProgramInv`, keeps verdicts and outcomes,
and is a step of `TicketClaims` or a stutter; `ProgramAtFirst`, that every book a
client may start from satisfies it. Such a book is one that markets were created in
and tickets sold in, one after another (`IsBook` of `Transactions`), whose totals are
those of its tickets (`AddsUp`). What is left to show of a client is that its steps,
among them a transaction that lands late, are instructions with arguments of the
right type, which follows from the client's own invariant: `KeepersRunTheProgram`,
`CommandsRunTheProgram`, `ReceiptsReadTheProgram`, `PagesRunTheProgram` and
`ViewsReadTheProgram` (by `HonestIsInstruction`, `CommandsAct`, `ChainKeeps`,
`SlipActs` with `TicketsAct`, and `ViewsRead`). So what TLC checks of the program by
itself in `book` is proved of the program under each of its clients. The first two
start with no ticket sold, which the initial claims of `TicketClaims` are about, and
so conclude `ImplementsClaims` whole; the others may start from sold tickets and
conclude its steps.

`PricesProofs` proves the six properties of the run `prices` for every set of
inputs it may be given. `CatalogIsTheProgram`, `PricesTheQuestion` and
`RecordIsOfOneQuestion` go by cases of the mapping (any stat keys, periods,
thresholds and scores). `KeeperIsHonest` and `NobodyGainsByTrading` divide by
variables, which the solver cannot do: `BookMathProofs` bounds each quotient by
multiplications (the doubles of `pricing.ts` as exact fractions rounded as the code
rounds them) and compares the bounds. `FloorsArePayable` follows from
`CashOutDecreases` and `FloorIsPayable`: the honest floor of a proven violation is
above what was paid and no more than the payout. `RiggedQuotesShow` is the positive
half of finding 2: a rigged price is an overcharge wherever 0.99, where it is capped,
is more than the audit lets pass (`AuditedProb`), and the factor is large enough to
outweigh the margin, the tolerance and the floors (`RigShows`; `RigExceeds` has the
arithmetic). At the devnet margin and a factor of 1.5 these are the consensus
probabilities of NO between 0.0057 and 0.9681; on the instance of `rigged_quote` no other
rigged quote is caught. No proof uses
the bound of 46000 in `RawsAssumption`: it is there because up to it a quotient
that is no whole number is further from one than a few operations in doubles can
err, which `KeeperPricing` counts on.

`KeeperProofs` proves `HonestTicketsPass` for any number of loops and ticks, any
board, fixtures, feed and score rows. It is not inductive, since the odds of a
ticket were decided long before it was sold. `KeeperInv` follows them back: a
ticket took them from its market's quote (`QuotesAreHonest`); the quote came from a
transaction, which may have been in flight while the board changed
(`InflightIsSound`); the transaction was built from a list of markets and an
answer of the feed, both read earlier (`RunsAreSound`). What makes it hold is that
nothing a quote was computed from changes under it: the margin of the house, the
predicate and the fixture of a market that exists, and the records (`TermsKept`);
and that a market is never recreated under its number (`NumberingInv`). One lemma
per job says that its step leaves the process sound, one per instruction that it
keeps the book honest, and `Send` brings the two together. `KeeperAssumption`
types the instance; that a rigging factor is above 100% is what the code demands
of it, and that the board names no predicate twice is so of `PREMATCH_CATALOG`.

`OnlyRivalsAskTwice` says when `OneMarketPerQuestion` can fail: only after a race for
a question, that is after it stood on the list of one process while it stood on
another's too, or while a creation of it that its sender gave up on could still land.
`NoRivals` is the absence of such a race, as a predicate on states, and the theorem is
about any number of processes and any `TxLifetime` (`KeeperSpec /\ []NoRivals =>
[]OneMarketPerQuestion`). Both halves of it are needed: `MCTickBesideServe.cfg` runs
into the first, `MCLateCreate.cfg` into the second. What is left, and is proved
harmless, is everything else that fails, is read too early, lands late or crashes;
the run `keeper` has one process and `TxLifetime = 0`, so `NoRivals` holds throughout
it and the property can be checked by itself. What a process looked for when it read
the board it creates several transactions later, so `AskInv` says of the whole list
that no market is open on what is still on it (`ListIsNew`), and of a creation, in
hand (`TxIsNew`) or still in flight (`LateIsNew`), that as long as it can be executed
its question is open nowhere: it names the market that was next when it was built
(`IsNextMarket`), so any other creation in between makes the program refuse it. A
creation opens one market (`CreateOpensOne`), which leaves the rest of the list new
because no two items are about one question (`ItemsDiffer`, by the arithmetic that
numbers the pairs of fixture and blueprint); nothing else that anybody does opens any
(`NothingElseOpens`).

`SettledOnFinalScores` proves `SettlesOnFinalScore`, which is not true of every feed
(finding 3), from the two things that the keeper's wait rests on and the code does
not check. `FeedEndsQuietly`: a feed that has been quiet for `FEED_QUIET` past full
time publishes nothing more. `LastScoreIsConfirmed`: the last score of a period
stands in more than one row, so that whichever one proof cannot be fetched, the walk
of `verifyAndSettleMarket` ends at the same score. The feed of the run `keeper` has
both and that of `late_goal` lacks the second (`FeedsAssumption` of `MCKeeper`); a
feed that goes quiet and then shows a goal breaks it as well, so both are needed. The
keeper does not know when a match started: it takes the earliest deadline of the
fixture's markets for the kickoff, so `FinalInv` says that no market closes before
its match starts (`MarketsCloseInTime`), and of the in-play pass, which sets such a
deadline from the time it read its list at, that its fixtures had started by then
(`ListIsFinal`). The same predicate says of a list of markets to settle that every row
of their fixtures was published before it was read; the rows asked for are the latest
(`CandidatesAreLatest`), so the proof found is of the latest row but for the lost
one (`FoundIsLatest`) and its verdict final (`FoundIsFinal`), and stays so while the
transaction waits, is lost, or lands late (`TxIsFinal`). The theorem is about what
the keepers prove: in `Keeper` others lock, void and settle, and nobody else proves
a score.

`CommandsProofs` proves `CommandsDo` and `ExecutedOnce` for any number of
commands, in any order, over any book that markets have been created in one after
another (`BookAssumption`), with well-formed command lines (`ArgvAssumption`).
`CommandsInv` says where a command is in its plan and what it has had executed by
then (`CountIsSound`, `ResultIsSound`), and that at most one transaction of a
crashed command is still in flight and counts as not executed (`InflightIsSound`).
The other half is that nobody undoes what a command achieved (`IsAchieved`): the
house stays, a refunded ticket stays so, a sold ticket keeps its stake and an
audit its verdict (`HouseStays`, `RefundedStays`, `RepairedStays`, `TermsNext`,
`KeepsVerdicts`), which rests on `VerdictInv` of layer 4.

`ReceiptsProofs` proves `ReceiptsVerify` and `StoriesAreTold` for any feed, score
rows and claims of crank, any number of failures, and any book of markets created
and tickets sold one after another on questions the app has (`BookAssumption`);
that a score row has one score of a period and the service one answer to a request,
and that the proofs `verify_market` takes of a question are the scores of its period,
is `ScoresAssumption`, from which a row has one verdict on a question
(`RowHasOneVerdict`). A receipt
is put together from states of the chain that never were at once, so `Sound` says,
for each stage of the export, what of each thing read is still true: the market
and the record of a ticket never change (`TermsKept`), and what an account that was
read tells has happened stays in the history (`HappenedStays`). That no account
tells of a transaction which is not in the history is `AccountsAreBacked`, one lemma
per instruction; since the export reads its accounts first and its history last,
the history names all they tell (`CollectedHistory`, and `MergedHistory` for what
anchored the outcome). A history served newest first lists each transaction once
(`NewestFirstLists`), and the stable sort by slot moves them without losing or
doubling any: the rank of a transaction is a bijection (`Ordering`, `SortMoves`,
`SortedHistory`). That a later slot means a later transaction is `SlotsInvariant`. One lemma per read says
that it leaves the document sound (`...Finds`), and `StaysSound` that whatever moves
on chain meanwhile does.

`AppProofs` proves `LimiterHolds` for any clients and keys, limits, window and
cap (`LimiterAssumption`), and any requests. The property is about the history of
requests, of which the limiter knows its log: `LimiterInv` says that what the log
holds was let through, for the client it is under (`LogIsSound`, from which a
refused client has been let through before), and that while fewer clients have been
seen than may be tracked it holds all that passed within the window
(`LogIsComplete`, from which nobody passes beyond a limit).

`PanelsTellTheTruth` holds for any wallets and amounts, any number of requests and
any panels (`JudgeAssumption`, within `PartsAssumption`), though a panel remembers
balances, rows and the request that Retry would make from before the wallet was
switched. What an old balance can be relied on for is what never changes of a
wallet: what it held before the faucet gave it anything (`FirstUsdt`), which no
balance read of it is below, as none is above what it holds now (`HasHad`). So
`PanelIsSound`, `ReadIsSound` and `RequestsAreSound` say of every balance kept, by
the panel, by a read in flight or by a request, that the wallet it is kept under has
had it, and a row then is no more than the faucet gave, unless the request started
from nothing read (`IsGranted`). `RunsAreKnown` ties the panel to its request: each
that runs is of the open panel, on the stage its source has, and it is the only one.
`ShownStays` needs of the panel that a row's one timer and its age add up to its
time, and of the verify page that no load is left once something is shown
(`LoadsAreSound`), since the page does not poll and offers Retry on an error only;
what it shows stays so because no instruction overwrites an outcome
(`OutcomesStay`).

`BettableIsAlwaysOffered` rests on the book: that a market which takes bets has been
quoted at all is so because the clock is past the quote validity. `OfferedIsBettable`
is its converse, and says that an offer that cannot be bet on, as in the divergence
`BoardOffersThePlaceable`, is of a market past its deadline and not yet locked (or of
a paused house, and no instruction pauses one).

`PagesProofs` proves `ReportsAreTrue`, `SlipBuysOneTicket`, `SlipLeavesTime`,
`AuditsShowTheChain` and `PaidAsShown`, of the pages as `MCPages` bounds them and, in
`SlipIsSafe` and `TicketsPageIsSafe`, of each page by itself for any number of
clicks, any deadlines, funds, faults and quotes, and any tickets that the wallet
holds at first (`BooksAssumption`). What an attempt reports rests on what is in
flight for it, so `WalletInv` says of each attempt that at most its own transaction
is in flight, under the expiry it was built with, and none before it is sent or
after it has landed; a confirmation then is of what landed, and a refusal comes only
when nothing can land any more (`OverIsSound`). What landed stays done
(`LandedIsDone`): a ticket sold keeps its side and stake, a receipt its price, an
audit its verdict, a repair stays paid (`DoneStays`, by `TermsNext` and
`KeepsVerdicts`). `SlipInv` adds what the slip goes by: its quote is one the market
has had (`IsPosted`), so that its countdown leaves a first bet the buffer whatever
was posted since; it knows the last of its bets, and all before that one failed or
are unknown (`RetriesAreSound`). `TicketsInv` adds what the tickets page has read:
only what cannot change of a row any more is kept of it (`RowIsSound`), and of an
offer that it is the price of its ticket on the quote it came with (`IsOffer`). One
lemma per action says that it keeps its page's invariant, and `SlipElsewhere` and
`TicketsElsewhere` that whatever moves on chain meanwhile does.

Only model-checked: everything under fairness, which is the leads-to properties of
`keeper` and `NothingSpinsForever` of `app`. They are beyond the provers.

Where a step depends on ENABLED (an instruction that is refused), the proofs use
only what the client does about it, which is the same whatever the reason.

## 5. Findings

1. *The vault does not always cover the open exposure.* `place_bet.rs:65`, the
   technical overview (43-45) and the README (269) say it does. Run `solvency`:
   a cash-out at an overcharged quote releases a payout, the house withdraws what
   that freed, and the repair of the proven overcharge is then paid from what
   another open ticket has reserved (`claim_cash_out_repair.rs:59` compares the
   shortfall with the whole vault). The refund of a ticket settled to Lost before
   it was proven overcharged does the same. Theorems `Solvency` and
   `SolventUntilProven` say that nothing else does.
2. *A rigged quote that audits as honest.* `pricing.ts:36-38` says that
   `audit_ticket` will prove the overcharge of a rigged quote. Run
   `rigged_quote`: at a consensus of 31.95 the NO probability is capped at 0.99,
   which is within margin and tolerance of the fair 0.9687. Theorem
   `RiggedQuotesShow` says where the comment is true.
3. *A market settles on the score before the last goal.* The README (83-84) and
   the technical overview (34-35) say that the outcome is not in the keeper's
   hands. Run `late_goal`: the proof of the last row cannot be fetched, the walk
   goes on to an earlier row of the same period (`jobs.ts:485`), and
   `verify_market` accepts it, since it accepts any anchored score of the period.
   Theorem `SettledOnFinalScores` says of which feeds this cannot happen.
4. *A due refund is not offered.* `AuditPanel.tsx:40-41` says that a proven
   overcharge unlocks the refund. Run `refund_offer`: the audit makes the page
   read its list again, and the refundable ticket has no panel in it
   (`TicketsScreen.tsx:243`), so the button goes with the panel.

### Further divergences

Met while modelling, each stated as a property that is not one of the runs' but can
be checked: with the configuration named, or by giving the property alone to the
configuration in brackets. TLC violates every one of them.

| Property | Configuration | The code | What is said of it |
| --- | --- | --- | --- |
| `OneMarketPerQuestion` | `MCTickBesideServe` | `jobs.ts:101`: a tick beside the loop, each having read the board, both create a question | `README.md:256`: one market of the catalog per fixture |
| `OneMarketPerQuestion` | `MCLateCreate` | `jobs.ts:101`: a creation that landed after it was given up | the same |
| `PaysEveryTicket` | `MCUnpaidTicket` | `jobs.ts:545`: a settlement that fails is logged, and its market, no longer locked, is not looked at again | `jobs.ts:374`: "prove and pay every locked market" |
| `ProvesWhatIsLocked` | `MCStarvedMarket` | `jobs.ts:524`: a market whose proof the chain rejects ends the cycle before the ones after it, every cycle | `jobs.ts:882`: a failed cycle "must not kill the loop" |
| `QuotesEveryOpenMarket` | `MCHeavyFavourite` | `jobs.ts:194`: with the margin the YES odds are 1.0 or below, and `post_quote` refuses the pair | `jobs.ts:3`: "quote every open market" |
| `EmptyWalletDraws` | `MCEmptyWallet` | `jobs.ts:594`: the balance of a token account that does not exist cannot be read, and the command crashes | `jobs.ts:576-577`: draws from the faucet |
| `SettledTicketsReprove` | `MCSettledReprove` | `verify_market.rs:110`: the claimed `seq` is recorded as given, and the receipt proves another row | `docs/TECHNICAL_OVERVIEW.md:117-118`: any settled ticket's receipt re-proves |
| `PassingReceiptsReprove` | `MCOtherPeriod` | `verifyReceipt.ts:281`: the proven period is not compared with the market's, so a claimed row that the service answers with another period's score passes | `verifyReceipt.ts:307`: "validate_stat re-proves the outcome" |
| `OldestFirst` | `MCSameSlot` | `shared/receipt.ts:215`: transactions of one slot stay in the order they were served in, newest first | `shared/receipt.ts:155-157`: "oldest first" |
| `SlipReceiptShowsTicket` | `MCSlipReceipt` | `BetSlip.tsx:314`: the odds of the slip's snapshot; the ticket was sold at a quote posted meanwhile | `docs/UI_DESIGN_SYSTEM.md:160-161`: "a verified receipt" |
| `SlipLeavesRetriesTime` | (`MCPages`) | `BetSlip.tsx:118`: the countdown stands still while a bet is placed | `BetSlip.tsx:63-64`: the buffer prompts a refresh before the program rejects |
| `SheetsPayWhatTheyShow` | (`MCPages`) | `CashOutSheet.tsx:236`: "Received" is the offer of the snapshot | `CashOutSheet.tsx:36-37`: "what this sheet shows is what the program pays" |
| `PillsAreTrue` | (`MCPages`) | `TicketRow.tsx:42`: a refund of a voided market reads "Proven overcharge" | the pill itself |
| `ShownBountiesArePaid` | (`MCPages`) | `audit.ts:222`: what the wallet gained meanwhile, by a settlement too | `audit.ts:64`: "the bounty" |
| `BoardOffersThePlaceable` | (`MCApp`) | `truebookClient.ts:131`: a market past its deadline and not yet locked is offered | `truebookClient.ts:58`: offered "only while it is still safely placeable" |
| `BoardStaysUnderway` | (`MCApp`) | `truebookClient.ts:365`: when the pre-match markets have left the board the first deadline is an in-play one, and the fixture is upcoming again | `truebookClient.ts:364`: "the real kickoff is the earliest deadline" |
| `TicketsAreOfTheConnected` | (`MCApp`) | `useChainTickets.ts:28`: the answer for the wallet connected before is shown | `useChainTickets.ts:15`: "the connected wallet's" |
| `VerifyAwaitsWhatMaySettle` | (`MCApp`) | `truebookClient.ts:239`: a voided market has no outcome and is awaited | `VerifyScreen.tsx:220`: "settles after the score proof anchors" |
| `PanelFundsTheConnected` | (`MCApp`) | `JudgePanel.tsx:220`: Retry asks for the wallet that the failed request was for | `JudgePanel.tsx:315`: "to the connected wallet" |
| `PanelBalanceClimbs` | (`MCApp`) | `JudgePanel.tsx:139`: reads of the balance are not ordered | `JudgePanel.tsx:77-78`: "the balance climbs" |
| `LimiterRefusesMany` | (`MCApp`) | `rateLimit.ts:16`: the two routes share one count | `api/receipt/route.ts:98`: "Too many receipt requests" |

Two more are allowed for inside a property. `LimitIsKept` excepts requests after
every count was dropped at the cap, the caller's own included (`rateLimit.ts:33`,
against 26-27). `NothingSpinsForever` leaves out the board, whose reads have no
deadline (`truebookClient.ts:324`, against `connection.ts:5`).

## 6. Not modelled, and what is left

Not modelled: the Borsh layouts and the Merkle verification behind
`txline_cpi.rs`, which are TxLINE's (what they accept is `OddsFeed` and
`ScoreProofs`); the field-by-field conversion of its payloads into instruction
arguments, which has no state; key files, environment and address derivation; the
commands that only list; layout, formatting, fixture names, charts, clipboard and
the wallet picker of the app; the demo's static data and its scripted replay; the
client types generated from the IDL.

Abstracted, and so not shown: a Solana fork or a rollback of a confirmed
transaction; several wallets of one user; two serve loops at once (two keepers are
a loop and a tick, which already breaks `OneMarketPerQuestion`).

What could come next, in this order: larger instances of `Keeper` (two fixtures, two
tickets, two faults), for which the state space has to be cut first; a
specification of the keeper's promises that `Keeper` implements, as `TicketClaims`
is for the program.
