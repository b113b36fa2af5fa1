------------------------------ MODULE TrueBook ------------------------------
(***************************************************************************)
(* The TrueBook on-chain program: a house whose vault backs bets on binary *)
(* markets, settled from score proofs and audited against odds records.    *)
(* One action per instruction (lib.rs).  An instruction runs alone and     *)
(* leaves no trace when a require!, a checked operation or a transfer in   *)
(* it fails, so each of those is a conjunct of its action.  Anyone may     *)
(* submit any instruction at any time with any arguments; the house        *)
(* authority is not assumed honest.                                        *)
(*                                                                         *)
(* Accounts are abstracted to ids: markets 0..NumMarkets - 1 as the        *)
(* program numbers them, tickets 1..NumTickets in the order they are       *)
(* created.  Token accounts other than the vault appear as what the vault  *)
(* has paid into them, per ticket.                                         *)
(***************************************************************************)
EXTENDS BookMath, OddsMap, Totals

CONSTANTS
    NumMarkets, NumTickets,  \* bounds: accounts that can be created
    U64_MAX,                 \* largest token amount or counter
    Start, MaxTime,          \* bounds: first and last clock reading
    QUOTE_VALIDITY_SECONDS, VOID_GRACE_SECONDS,
    HouseParams,             \* arguments initialize_house is called with
    Amounts,                 \* amounts of liquidity moved at once
    Fixtures, Predicates, Kickoffs, \* arguments of create_market
    Quotes, RecordIds,       \* arguments of post_quote; an id is a (MessageId, Ts)
    Stakes,                  \* arguments of place_bet
    Auditors,                \* accounts that prove cash-out violations
    OddsFeed,                \* the anchored odds records, by id
    ScoreProofs,             \* the score proofs that validate
    None                     \* no odds record, no auditor

Sides == {"Yes", "No"}
MarketIds == 0..(NumMarkets - 1)
TicketIds == 1..NumTickets
Amount == 0..U64_MAX

ASSUME BoundsAssumption ==
    /\ NumMarkets \in Nat /\ NumTickets \in Nat /\ U64_MAX \in Nat
    /\ Start \in Nat /\ MaxTime \in Nat /\ Start <= MaxTime
\* No clock reading is within the quote validity of the zero timestamp that a
\* market is created with.
ASSUME ClockAssumption ==
    /\ QUOTE_VALIDITY_SECONDS \in Nat /\ VOID_GRACE_SECONDS \in Nat
    /\ Start > QUOTE_VALIDITY_SECONDS
ASSUME ArgumentsAssumption ==
    /\ HouseParams \subseteq [margin_bps : Nat, max_exposure_per_market : Amount,
                              max_payout_per_ticket : Amount]
    /\ Amounts \subseteq Amount
    /\ Predicates \subseteq MarketParams
    /\ Kickoffs \subseteq Nat
    /\ Quotes \subseteq [Sides -> Nat]
    /\ Stakes \subseteq Amount
    /\ None \notin RecordIds /\ None \notin Auditors
ASSUME OracleAssumption ==
    /\ DOMAIN OddsFeed \subseteq RecordIds
    /\ \A r \in DOMAIN OddsFeed :
         /\ OddsFeed[r].prices \in [DOMAIN OddsFeed[r].prices -> Nat]
    /\ \A proof \in ScoreProofs :
         proof.holds \in BOOLEAN

VARIABLES
    now,       \* the cluster clock
    house,     \* the house account
    vault,     \* the balance of the house's vault
    market,    \* the market accounts
    outcome,   \* the VerifiedOutcome accounts, by market
    ticket,    \* the ticket accounts
    receipt,   \* the CashOutReceipt accounts, by ticket
    paid,      \* tokens the vault has paid to a ticket's bettor
    bounty,    \* tokens the vault has paid for proving a ticket's violations
    unreserved \* tokens paid to bettors with no reserved payout behind them

accounts == <<house, vault, market, outcome, ticket, receipt>>
ledger == <<paid, bounty, unreserved>>
vars == <<now, accounts, ledger>>

-----------------------------------------------------------------------------
(* Account types and the accounts that do not exist yet.                   *)

MarketState == {"Vacant", "Open", "Locked", "Verified", "Voided"}
TicketState ==
    {"Vacant", "Live", "Won", "Lost", "Refundable", "Refunded", "CashedOut"}
AuditStatus == {"Unaudited", "Honest", "Violation"}

House ==
    [initialized : BOOLEAN, margin_bps : Nat, max_exposure_per_market : Amount,
     max_payout_per_ticket : Amount, open_exposure : Amount, total_volume : Amount,
     market_count : 0..NumMarkets, paused : BOOLEAN]

Market ==
    [state : MarketState, fixture_id : Fixtures \cup {None}, params : Predicates \cup {None},
     kickoff_ts : Nat, odds : [Sides -> Nat], odds_record : RecordIds \cup {None},
     quote_posted_ts : Nat, stake : [Sides -> Amount], payout : [Sides -> Amount]]

Ticket ==
    [state : TicketState, market : MarketIds \cup {None}, side : Sides, stake : Amount,
     quoted_odds_bps : Nat, odds_record : RecordIds \cup {None}, potential_payout : Amount,
     audit_status : AuditStatus, exposure_released : BOOLEAN]

CashOutReceipt ==
    [exists : BOOLEAN, paid_amount : Amount, opposite_odds_bps : Nat,
     odds_record : RecordIds \cup {None}, audit_status : AuditStatus,
     auditor : Auditors \cup {None}, shortfall_owed : Amount, made_whole : BOOLEAN]

NoHouse ==
    [initialized |-> FALSE, margin_bps |-> 0, max_exposure_per_market |-> 0,
     max_payout_per_ticket |-> 0, open_exposure |-> 0, total_volume |-> 0,
     market_count |-> 0, paused |-> FALSE]

NoMarket ==
    [state |-> "Vacant", fixture_id |-> None, params |-> None, kickoff_ts |-> 0,
     odds |-> [s \in Sides |-> 0], odds_record |-> None, quote_posted_ts |-> 0,
     stake |-> [s \in Sides |-> 0], payout |-> [s \in Sides |-> 0]]

NoTicket ==
    [state |-> "Vacant", market |-> None, side |-> "Yes", stake |-> 0,
     quoted_odds_bps |-> 0, odds_record |-> None, potential_payout |-> 0,
     audit_status |-> "Unaudited", exposure_released |-> FALSE]

NoReceipt ==
    [exists |-> FALSE, paid_amount |-> 0, opposite_odds_bps |-> 0, odds_record |-> None,
     audit_status |-> "Unaudited", auditor |-> None, shortfall_owed |-> 0,
     made_whole |-> FALSE]

Init ==
    /\ now = Start
    /\ house = NoHouse
    /\ vault = 0
    /\ market = [m \in MarketIds |-> NoMarket]
    /\ outcome = [m \in MarketIds |-> "Unverified"]
    /\ ticket = [t \in TicketIds |-> NoTicket]
    /\ receipt = [t \in TicketIds |-> NoReceipt]
    /\ paid = [t \in TicketIds |-> 0]
    /\ bounty = [t \in TicketIds |-> 0]
    /\ unreserved = 0

-----------------------------------------------------------------------------
(* Parts of instructions.                                                  *)

\* The quote a market serves was posted no longer ago than it is valid.
QuoteIsFresh(m) == now - market[m].quote_posted_ts <= QUOTE_VALIDITY_SECONDS

\* A transfer from the vault to the ticket's bettor.
PayBettor(t, amount) ==
    /\ vault >= amount
    /\ vault' = vault - amount
    /\ paid' = [paid EXCEPT ![t] = @ + amount]

\* The ticket's liability leaves open_exposure, at settlement or cash-out.
ReleaseExposure(t) ==
    /\ house.open_exposure >= ticket[t].potential_payout
    /\ house' = [house EXCEPT !.open_exposure = @ - ticket[t].potential_payout]

\* At a refund the liability leaves only if settlement has not released it.
RefundReleasesAgain(t) == SaturatingSub(house.open_exposure, ticket[t].potential_payout)
ExposureAfterRefund(t) ==
    IF ticket[t].exposure_released THEN house.open_exposure
    ELSE SaturatingSub(house.open_exposure, ticket[t].potential_payout)

\* The ticket ends in state s with its liability released.
Close(t, s) ==
    ticket' = [ticket EXCEPT ![t] = [@ EXCEPT !.state = s, !.exposure_released = TRUE]]

UncheckedFreeLiquidity == vault - house.open_exposure
FreeLiquidity == SaturatingSub(vault, house.open_exposure)

\* The market's side takes a bet; the aggregates are never lowered again.
BetOnYes(m, side, stake, payout) ==
    [market[m] EXCEPT !.stake["Yes"] = @ + stake, !.payout["Yes"] = @ + payout]
MarketAfterBet(m, side, stake, payout) ==
    [market[m] EXCEPT !.stake[side] = @ + stake, !.payout[side] = @ + payout]

\* Whether the record a ticket or receipt cites proves a price of market m: it
\* is anchored, about the market's fixture, of the shape its predicate commits
\* to, and prices the YES outcome at more than 1.0.
IsAuditable(m, record_id) ==
    /\ record_id \in DOMAIN OddsFeed
    /\ LET record == OddsFeed[record_id]
           expected == expected_odds_record(market[m].params)
       IN  /\ record.fixture_id = market[m].fixture_id
           /\ record_matches_expectation(expected, record)
           /\ expected.yes_price_index \in DOMAIN record.prices
           /\ IsRawPrice(record.prices[expected.yes_price_index])

\* The price of the YES outcome in that record.
ConsensusPrice(m, record_id) ==
    OddsFeed[record_id].prices[expected_odds_record(market[m].params).yes_price_index]

\* The provenance an audit checks the ticket's price against.
AuditedRecord(t) == ticket[t].odds_record

\* The verdict on the price of ticket t.
CurrentQuoteIsHonest(t) ==
    IsHonest(market[ticket[t].market].odds[ticket[t].side], ticket[t].side,
             ConsensusPrice(ticket[t].market, AuditedRecord(t)), house.margin_bps)
TicketIsHonest(t) ==
    IsHonest(ticket[t].quoted_odds_bps, ticket[t].side,
             ConsensusPrice(ticket[t].market, AuditedRecord(t)), house.margin_bps)

\* The bounty for a ticket's violation, paid for the first proof of it only.
BountyPerProof(t) == bounty_amount(ticket[t].stake, AUDIT_BOUNTY_BPS, FreeLiquidity)
TicketBounty(t) ==
    IF ticket[t].audit_status = "Violation" THEN 0
    ELSE bounty_amount(ticket[t].stake, AUDIT_BOUNTY_BPS, FreeLiquidity)

\* The states a proven violation turns into Refundable.
FlaggedUnlessRefunded == {"Live", "Lost", "Won"}
FlaggedByViolation == {"Live", "Lost"}
StateOnceFlagged(t) ==
    IF ticket[t].state \in FlaggedByViolation THEN "Refundable" ELSE ticket[t].state

\* The states a market can be voided from.
VoidableUnlessVoided == {"Open", "Locked", "Verified"}
Voidable == {"Open", "Locked"}

\* The ticket's side is the verified outcome.
YesWins(t) == outcome[ticket[t].market] = "Yes"
HasWon(t) == ticket[t].side = outcome[ticket[t].market]

\* The cash-out was proven overcharged and its shortfall is still owed.
IsProven(t) == receipt[t].exists /\ receipt[t].audit_status = "Violation"
IsOwedRepair(t) ==
    receipt[t].exists /\ receipt[t].audit_status = "Violation" /\ ~receipt[t].made_whole

-----------------------------------------------------------------------------
(* The house authority's instructions.                                     *)

InitializeHouse(params) ==
    /\ ~house.initialized
    /\ params.margin_bps > 0 /\ params.margin_bps < BPS_DENOMINATOR
    /\ house' = [NoHouse EXCEPT !.initialized = TRUE,
                                !.margin_bps = params.margin_bps,
                                !.max_exposure_per_market = params.max_exposure_per_market,
                                !.max_payout_per_ticket = params.max_payout_per_ticket]
    /\ UNCHANGED <<now, vault, market, outcome, ticket, receipt, ledger>>

DepositLiquidity(amount) ==
    /\ house.initialized
    /\ amount > 0
    /\ vault + amount <= U64_MAX
    /\ vault' = vault + amount
    /\ UNCHANGED <<now, house, market, outcome, ticket, receipt, ledger>>

WithdrawLiquidity(amount) ==
    /\ house.initialized
    /\ amount > 0
    /\ vault >= house.open_exposure
    /\ amount <= vault - house.open_exposure
    /\ vault' = vault - amount
    /\ UNCHANGED <<now, house, market, outcome, ticket, receipt, ledger>>

\* The price index the authority passes must be the predicate's, and so is
\* never read again: the audits take it from the predicate.
CreateMarket(fixture_id, params, kickoff_ts) ==
    /\ house.initialized
    /\ house.market_count < NumMarkets
    /\ IsSupported(params)
    /\ kickoff_ts > now
    /\ market' = [market EXCEPT ![house.market_count] =
                    [NoMarket EXCEPT !.state = "Open", !.fixture_id = fixture_id,
                                     !.params = params, !.kickoff_ts = kickoff_ts]]
    /\ house' = [house EXCEPT !.market_count = @ + 1]
    /\ UNCHANGED <<now, vault, outcome, ticket, receipt, ledger>>

\* Nothing ties the odds to the record they are said to come from, nor the
\* record to anything that exists; that is left to the audits.
PostQuote(m, odds, record_id) ==
    /\ market[m].state = "Open"
    /\ \A s \in Sides : IsOdds(odds[s])
    /\ market' = [market EXCEPT ![m] = [@ EXCEPT !.odds = odds, !.odds_record = record_id,
                                                 !.quote_posted_ts = now]]
    /\ UNCHANGED <<now, house, vault, outcome, ticket, receipt, ledger>>

-----------------------------------------------------------------------------
(* Bets.                                                                   *)

\* The ticket takes the side's served odds and their provenance with it.
PlaceBet(t, m, side, stake) ==
    LET odds == market[m].odds[side]
        payout == potential_payout(stake, odds)
    IN  /\ ticket[t].state = "Vacant"
        /\ \A u \in 1..(t - 1) : ticket[u].state # "Vacant"
        /\ ~house.paused
        /\ market[m].state = "Open"
        /\ stake > 0
        /\ now < market[m].kickoff_ts
        /\ QuoteIsFresh(m)
        /\ payout <= house.max_payout_per_ticket
        /\ house.open_exposure + payout <= U64_MAX
        /\ vault + stake <= U64_MAX
        /\ vault + stake >= house.open_exposure + payout
        /\ market[m].payout[side] + payout <= house.max_exposure_per_market
        /\ market[m].stake[side] + stake <= U64_MAX
        /\ house.total_volume + stake <= U64_MAX
        /\ vault' = vault + stake
        /\ market' = [market EXCEPT ![m] = MarketAfterBet(m, side, stake, payout)]
        /\ house' = [house EXCEPT !.open_exposure = @ + payout,
                                  !.total_volume = @ + stake]
        /\ ticket' = [ticket EXCEPT ![t] =
                        [NoTicket EXCEPT !.state = "Live", !.market = m, !.side = side,
                                         !.stake = stake, !.quoted_odds_bps = odds,
                                         !.odds_record = market[m].odds_record,
                                         !.potential_payout = payout]]
        /\ UNCHANGED <<now, outcome, receipt, ledger>>

\* Only the bettor can sell the ticket back.  Allowed after the kickoff too,
\* as long as nobody has locked the market.
CashOutTicket(t) ==
    LET m == ticket[t].market
        odds == market[m].odds[Opposite(ticket[t].side)]
        amount == cash_out_value(ticket[t].potential_payout, implied_prob_bps(odds))
    IN  /\ ticket[t].state = "Live"
        /\ ~receipt[t].exists
        /\ market[m].state = "Open"
        /\ QuoteIsFresh(m)
        /\ IsOdds(odds)
        /\ amount > 0
        /\ ReleaseExposure(t)
        /\ PayBettor(t, amount)
        /\ Close(t, "CashedOut")
        /\ receipt' = [receipt EXCEPT ![t] =
                         [NoReceipt EXCEPT !.exists = TRUE, !.paid_amount = amount,
                                           !.opposite_odds_bps = odds,
                                           !.odds_record = market[m].odds_record]]
        /\ UNCHANGED <<now, market, outcome, bounty, unreserved>>

-----------------------------------------------------------------------------
(* The permissionless cranks.                                              *)

LockMarket(m) ==
    /\ market[m].state = "Open"
    /\ now >= market[m].kickoff_ts
    /\ market' = [market EXCEPT ![m] = [@ EXCEPT !.state = "Locked"]]
    /\ UNCHANGED <<now, house, vault, outcome, ticket, receipt, ledger>>

\* Any anchored score of the fixture will do, the final one or an earlier one.
VerifyMarket(m, proof) ==
    /\ market[m].state = "Locked"
    /\ proof.fixture_id = market[m].fixture_id
    /\ proof.params = market[m].params
    /\ outcome[m] = "Unverified"
    /\ outcome' = [outcome EXCEPT ![m] = IF proof.holds THEN "Yes" ELSE "No"]
    /\ market' = [market EXCEPT ![m] = [@ EXCEPT !.state = "Verified"]]
    /\ UNCHANGED <<now, house, vault, ticket, receipt, ledger>>

\* The authority voids whenever it likes, anyone else after the grace window.
VoidMarket(m, byAuthority) ==
    /\ market[m].state \in Voidable
    /\ byAuthority \/ now >= market[m].kickoff_ts + VOID_GRACE_SECONDS
    /\ market' = [market EXCEPT ![m] = [@ EXCEPT !.state = "Voided"]]
    /\ UNCHANGED <<now, house, vault, outcome, ticket, receipt, ledger>>

SettleTicket(t) ==
    LET m == ticket[t].market
    IN  /\ ticket[t].state = "Live"
        /\ market[m].state = "Verified"
        /\ ReleaseExposure(t)
        /\ \/ HasWon(t) /\ PayBettor(t, ticket[t].potential_payout) /\ Close(t, "Won")
           \/ ~HasWon(t) /\ Close(t, "Lost") /\ UNCHANGED <<vault, paid>>
        /\ UNCHANGED <<now, market, outcome, receipt, bounty, unreserved>>

\* A flagged ticket that was settled to Lost is refunded from a vault that no
\* longer reserves anything for it.
RefundTicket(t) ==
    /\ \/ ticket[t].state = "Live" /\ market[ticket[t].market].state = "Voided"
       \/ ticket[t].state = "Refundable"
    /\ house' = [house EXCEPT !.open_exposure = ExposureAfterRefund(t)]
    /\ PayBettor(t, ticket[t].stake)
    /\ Close(t, "Refunded")
    /\ unreserved' = unreserved + (IF ticket[t].exposure_released THEN ticket[t].stake ELSE 0)
    /\ UNCHANGED <<now, market, outcome, receipt, bounty>>

\* Possible in every state of the ticket, and again after any verdict.
AuditTicket(t) ==
    /\ ticket[t].state # "Vacant"
    /\ IsAuditable(ticket[t].market, AuditedRecord(t))
    /\ \/ /\ TicketIsHonest(t)
          /\ ticket' = [ticket EXCEPT ![t] = [@ EXCEPT !.audit_status = "Honest"]]
          /\ UNCHANGED <<vault, bounty>>
       \/ /\ ~TicketIsHonest(t)
          /\ vault' = vault - TicketBounty(t)
          /\ bounty' = [bounty EXCEPT ![t] = @ + TicketBounty(t)]
          /\ ticket' = [ticket EXCEPT ![t] =
                          [@ EXCEPT !.audit_status = "Violation",
                                    !.state = StateOnceFlagged(t)]]
    /\ UNCHANGED <<now, house, market, outcome, receipt, paid, unreserved>>

\* The cash-out was priced from the side opposite to the ticket's.
DecideCashOut(t, auditor) ==
    LET r == receipt[t]
        m == ticket[t].market
        opposite == Opposite(ticket[t].side)
        price == ConsensusPrice(m, r.odds_record)
        floor == HonestFloor(ticket[t].potential_payout, opposite, price, house.margin_bps)
    IN  /\ r.exists
        /\ IsAuditable(m, r.odds_record)
        /\ \/ /\ IsHonest(r.opposite_odds_bps, opposite, price, house.margin_bps)
              /\ receipt' = [receipt EXCEPT ![t] = [@ EXCEPT !.audit_status = "Honest"]]
           \/ /\ ~IsHonest(r.opposite_odds_bps, opposite, price, house.margin_bps)
              /\ r.audit_status # "Violation"
              /\ Complementable(house_prob_bps(ConsensusImplied(opposite, price),
                                               house.margin_bps))
              /\ receipt' = [receipt EXCEPT ![t] =
                               [@ EXCEPT !.audit_status = "Violation", !.auditor = auditor,
                                         !.shortfall_owed = SaturatingSub(floor, r.paid_amount)]]
        /\ UNCHANGED <<now, house, vault, market, outcome, ticket, ledger>>

\* A violation is decided once: a later audit of it succeeds and changes nothing.
AuditCashOut(t, auditor) ==
    \/ DecideCashOut(t, auditor)
    \/ /\ receipt[t].exists /\ receipt[t].audit_status = "Violation"
       /\ UNCHANGED vars

\* The shortfall may be paid out of what open tickets have reserved; the bounty
\* may not.
ClaimCashOutRepair(t) ==
    LET shortfall == receipt[t].shortfall_owed
        reward == bounty_amount(ticket[t].stake, AUDIT_BOUNTY_BPS,
                                SaturatingSub(SaturatingSub(vault, shortfall), house.open_exposure))
    IN  /\ IsOwedRepair(t)
        /\ vault >= shortfall
        /\ vault' = vault - shortfall - reward
        /\ paid' = [paid EXCEPT ![t] = @ + shortfall]
        /\ bounty' = [bounty EXCEPT ![t] = @ + reward]
        /\ unreserved' = unreserved + shortfall
        /\ receipt' = [receipt EXCEPT ![t] = [@ EXCEPT !.made_whole = TRUE]]
        /\ UNCHANGED <<now, house, market, outcome, ticket>>

Tick ==
    /\ now < MaxTime
    /\ now' = now + 1
    /\ UNCHANGED <<accounts, ledger>>

Next ==
    \/ \E params \in HouseParams : InitializeHouse(params)
    \/ \E amount \in Amounts : DepositLiquidity(amount) \/ WithdrawLiquidity(amount)
    \/ \E f \in Fixtures, p \in Predicates, k \in Kickoffs : CreateMarket(f, p, k)
    \/ \E m \in MarketIds, q \in Quotes, r \in RecordIds : PostQuote(m, q, r)
    \/ \E t \in TicketIds, m \in MarketIds, s \in Sides, stake \in Stakes :
         PlaceBet(t, m, s, stake)
    \/ \E m \in MarketIds : LockMarket(m)
    \/ \E m \in MarketIds, proof \in ScoreProofs : VerifyMarket(m, proof)
    \/ \E m \in MarketIds, byAuthority \in BOOLEAN : VoidMarket(m, byAuthority)
    \/ \E t \in TicketIds : \/ CashOutTicket(t)
                            \/ SettleTicket(t)
                            \/ RefundTicket(t)
                            \/ AuditTicket(t)
                            \/ ClaimCashOutRepair(t)
    \/ \E t \in TicketIds, a \in Auditors : AuditCashOut(t, a)
    \/ Tick

Spec == Init /\ [][Next]_vars

-----------------------------------------------------------------------------
(* Properties.                                                             *)

\* Every account keeps its type: no amount goes negative or past a u64.
TypeOK ==
    /\ now \in Start..MaxTime
    /\ house \in House
    /\ vault \in Amount
    /\ market \in [MarketIds -> Market]
    /\ outcome \in [MarketIds -> {"Unverified", "Yes", "No"}]
    /\ ticket \in [TicketIds -> Ticket]
    /\ receipt \in [TicketIds -> CashOutReceipt]
    /\ paid \in [TicketIds -> Nat]
    /\ bounty \in [TicketIds -> Nat]
    /\ unreserved \in Nat

\* What the house still reserves for each ticket.
Reserved ==
    [t \in TicketIds |-> IF ticket[t].exposure_released THEN 0 ELSE ticket[t].potential_payout]

\* open_exposure is exactly the payouts of the tickets whose liability has not
\* been released: each is added once and removed once, whichever of settle,
\* refund and cash-out comes first, and however audits interleave with them.
\* So no checked_sub of settle_ticket or cash_out ever reverts, and the
\* saturating_sub of refund_ticket never hides a deficit.
ExposureExact == house.open_exposure = Total(NumTickets, Reserved)

\* A market's side aggregates are exactly the stakes and payouts of the tickets
\* ever sold on that side, and the side's payouts are within the house's cap.
MarketAggregates ==
    \A m \in MarketIds, s \in Sides :
        LET sold(t) == ticket[t].market = m /\ ticket[t].side = s
        IN  /\ market[m].stake[s] =
                 Total(NumTickets, [t \in TicketIds |-> IF sold(t) THEN ticket[t].stake ELSE 0])
            /\ market[m].payout[s] =
                 Total(NumTickets,
                       [t \in TicketIds |-> IF sold(t) THEN ticket[t].potential_payout ELSE 0])
            /\ market[m].payout[s] <= house.max_exposure_per_market

\* The vault covers every reserved payout but for what it has paid to bettors
\* out of no reservation: refunds of tickets already settled to Lost, and
\* cash-out shortfalls.  Bounties and withdrawals are never to blame.
SolventButForUnreserved == vault + unreserved >= house.open_exposure

\* The vault covers every reserved payout (place_bet.rs:65).
VaultCoversExposure == vault >= house.open_exposure

\* What a ticket's bettor is due by the ticket's state: a winner its payout, a
\* refund its stake, a cash-out its value and the repaired shortfall.
Due(t) ==
    CASE ticket[t].state = "Won" -> ticket[t].potential_payout
      [] ticket[t].state = "Refunded" -> ticket[t].stake
      [] ticket[t].state = "CashedOut" ->
           receipt[t].paid_amount
             + (IF receipt[t].made_whole THEN receipt[t].shortfall_owed ELSE 0)
      [] OTHER -> 0

\* A bettor is paid what its ticket's state says, no more and no less, however
\* settlement, refund, cash-out, audits and repairs follow each other.
PaidOnce == \A t \in TicketIds : paid[t] = Due(t)

\* No bettor gets more from the vault than the payout the ticket promised.
NeverOverpaid == \A t \in TicketIds : paid[t] <= ticket[t].potential_payout

\* A ticket's state, its market's, the outcome and the audit verdict tell one
\* story, in whatever order settlement, audits, voids and refunds came.
TicketMatchesMarket(t) ==
    LET k == ticket[t]
    IN  /\ k.state = "Won" => outcome[k.market] = k.side
        /\ k.state = "Lost" => /\ outcome[k.market] = Opposite(k.side)
                               /\ k.audit_status # "Violation"
        /\ k.state = "Live" => k.audit_status # "Violation"
        /\ k.state = "Refundable" => k.audit_status = "Violation"
        /\ k.state = "Refunded" =>
             k.audit_status = "Violation" \/ market[k.market].state = "Voided"
        /\ k.state = "CashedOut" <=> receipt[t].exists
TicketsMatchMarkets == \A t \in TicketIds : TicketMatchesMarket(t)

\* Bounties are paid at most once per proven violation, of the opening price
\* and of the cash-out price, and each is at most 5 percent of the stake.
BountyOncePerViolation ==
    \A t \in TicketIds :
        LET violations == (IF ticket[t].audit_status = "Violation" THEN 1 ELSE 0)
                            + (IF receipt[t].made_whole THEN 1 ELSE 0)
        IN  bounty[t] <= violations * bounty_amount(ticket[t].stake, AUDIT_BOUNTY_BPS, U64_MAX)

\* A verdict, once reached, is never changed by a later audit of the same
\* ticket or cash-out, by anyone and whatever the market quotes by then; nor is
\* the prover of a cash-out violation, or what it is owed, replaced.
KeepsVerdicts ==
    \A t \in TicketIds :
        /\ ticket[t].audit_status # "Unaudited" =>
             ticket'[t].audit_status = ticket[t].audit_status
        /\ receipt[t].audit_status # "Unaudited" =>
             /\ receipt'[t].audit_status = receipt[t].audit_status
             /\ receipt'[t].auditor = receipt[t].auditor
             /\ receipt'[t].shortfall_owed = receipt[t].shortfall_owed
VerdictsAreFinal == [][KeepsVerdicts]_vars

\* A market never leaves Verified or Voided, and has an outcome if and only if
\* it is Verified: a voided market is never also settled.
KeepsOutcomes ==
    \A m \in MarketIds :
        /\ market[m].state \in {"Verified", "Voided"} => market'[m].state = market[m].state
        /\ outcome[m] # "Unverified" => outcome'[m] = outcome[m]
        /\ outcome'[m] # "Unverified" <=> market'[m].state = "Verified"
OutcomesAreFinal == [][KeepsOutcomes]_vars

\* The claim a ticket is, for its bettor: the rest of the book hidden.
ClaimOf(t) ==
    CASE ticket[t].state = "Vacant" -> "None"
      [] ticket[t].state = "Live" -> "Open"
      [] ticket[t].state = "Refundable" -> "Disputed"
      [] ticket[t].state = "CashedOut" -> "Sold"
      [] OTHER -> ticket[t].state
Claims == INSTANCE TicketClaims WITH
    Tickets <- TicketIds,
    claim <- [t \in TicketIds |-> ClaimOf(t)],
    stake <- [t \in TicketIds |-> ticket[t].stake],
    promise <- [t \in TicketIds |-> ticket[t].potential_payout],
    received <- paid,
    repaired <- [t \in TicketIds |-> receipt[t].made_whole]

\* Whatever the house, other bettors and auditors do, each ticket is a claim
\* that ends once and pays what its end says: no bettor is paid twice, moved
\* back from an end, or repaired past the payout it was promised.
ImplementsClaims == Claims!ClaimSpec

=============================================================================
