--------------------------- MODULE TrueBookProofs ---------------------------
(***************************************************************************)
(* Proofs about the on-chain program, for any number of markets, tickets   *)
(* and auditors, any arguments, records and score proofs, and any clock.   *)
(* They build one on the other: the type invariant and what makes it       *)
(* inductive (BookInv), then the exposure ledger, then solvency, and then  *)
(* what the accounts hold for good.  A verdict is recomputed at every      *)
(* audit from accounts that other instructions write; it is final because  *)
(* none of them changes, once a ticket is sold, anything that the verdict  *)
(* is computed from.  From the verdicts follow the payments, and from      *)
(* those the two ledgers kept beside the exposure: what each market has    *)
(* sold (MarketAggregates), and what the proofs of violations have earned  *)
(* (BountyOncePerViolation); and the one that the holders of tickets keep: *)
(* the program implements TicketClaims.                                    *)
(* Last, what the vault may lack, told by the accounts alone, and what all *)
(* of this comes to for the clients that run the program (ProgramInv).     *)
(***************************************************************************)
EXTENDS Transactions, BookMathProofs, FiniteSetTheorems

\* A market that has ever been quoted serves odds above 1.0 on both sides.
QuotesArePriced ==
    \A m \in MarketIds :
        market[m].quote_posted_ts # 0 => \A s \in Sides : IsOdds(market[m].odds[s])

\* What the states of a ticket and its receipt say about their other fields.
TicketsAreSound ==
    \A t \in TicketIds :
        /\ ticket[t].state = "Vacant" =>
             ~ticket[t].exposure_released /\ ticket[t].potential_payout = 0
        /\ ticket[t].state # "Vacant" =>
             ticket[t].market \in MarketIds /\ ticket[t].stake <= ticket[t].potential_payout
        /\ ticket[t].state = "Live" => ~ticket[t].exposure_released
        /\ receipt[t].exists => ticket[t].state = "CashedOut"

\* TypeOK is not inductive alone: a refund stays within the vault's type only
\* because stakes do not exceed payouts, and a ticket must know its market.
BookInv == TypeOK /\ QuotesArePriced /\ TicketsAreSound

-----------------------------------------------------------------------------
(* The values that have not been used yet, and the constants.              *)

\* What the assumptions on the constants say of their members.
LEMMA ConstantTypes ==
    /\ 0 \in Amount /\ Amount \subseteq Nat
    /\ 0 \in 0..NumMarkets /\ Start..MaxTime \subseteq Nat
    /\ Amounts \subseteq Amount /\ Stakes \subseteq Amount /\ Kickoffs \subseteq Nat
    /\ Quotes \subseteq [Sides -> Nat]
    /\ HouseParams \subseteq [margin_bps : Nat, max_exposure_per_market : Amount,
                              max_payout_per_ticket : Amount]
  BY BoundsAssumption, ArgumentsAssumption DEF Amount

\* Any instruction, with any arguments of the right types: what an invariant of
\* the program has to survive, whoever sends them.
Instruction ==
    \/ \E params \in HouseParams : InitializeHouse(params)
    \/ \E amount \in Amount : DepositLiquidity(amount) \/ WithdrawLiquidity(amount)
    \/ \E f \in Fixtures, p \in Predicates, k \in Nat : CreateMarket(f, p, k)
    \/ \E m \in MarketIds, q \in [Sides -> Nat], r \in RecordIds : PostQuote(m, q, r)
    \/ \E t \in TicketIds, m \in MarketIds, s \in Sides, stake \in Amount :
         PlaceBet(t, m, s, stake)
    \/ \E m \in MarketIds : LockMarket(m)
    \/ \E m \in MarketIds, proof \in ScoreProofs : VerifyMarket(m, proof)
    \/ \E m \in MarketIds, byAuthority \in BOOLEAN : VoidMarket(m, byAuthority)
    \/ \E t \in TicketIds : \/ CashOutTicket(t)
                            \/ SettleTicket(t)
                            \/ RefundTicket(t)
                            \/ AuditTicket(t)
                            \/ ClaimCashOutRepair(t)
    \/ \E t \in TicketIds, a \in Auditors : AuditCashOut(t, a)
    \/ Tick

LEMMA NextIsInstruction == Next => Instruction
<1> SUFFICES ASSUME Next PROVE Instruction
  OBVIOUS
<1>1. ASSUME NEW f \in Fixtures, NEW p \in Predicates, NEW k \in Kickoffs, CreateMarket(f, p, k)
      PROVE  Instruction
  BY <1>1, ConstantTypes DEF Instruction
<1>2. ASSUME NEW m \in MarketIds, NEW q \in Quotes, NEW r \in RecordIds, PostQuote(m, q, r)
      PROVE  Instruction
  BY <1>2, ConstantTypes DEF Instruction
<1>3. ASSUME NEW t \in TicketIds, NEW m \in MarketIds, NEW s \in Sides, NEW stake \in Stakes,
             PlaceBet(t, m, s, stake)
      PROVE  Instruction
  BY <1>3, ConstantTypes DEF Instruction
<1>4. ASSUME NEW amount \in Amounts, DepositLiquidity(amount) \/ WithdrawLiquidity(amount)
      PROVE  Instruction
  BY <1>4, ConstantTypes DEF Instruction
<1> QED BY <1>1, <1>2, <1>3, <1>4 DEF Next, Instruction

\* Accounts that do not exist yet have the types of their accounts.
LEMMA NoAccountTypes ==
    NoHouse \in House /\ NoMarket \in Market /\ NoTicket \in Ticket
      /\ NoReceipt \in CashOutReceipt
<1>1. NoHouse \in House
  BY ConstantTypes DEF NoHouse, House
<1>2. NoMarket \in Market
  <2>1. [s \in Sides |-> 0] \in [Sides -> Nat] /\ [s \in Sides |-> 0] \in [Sides -> Amount]
    BY ConstantTypes
  <2> QED BY <2>1 DEF NoMarket, Market, MarketState
<1>3. NoTicket \in Ticket
  BY ConstantTypes DEF NoTicket, Ticket, TicketState, AuditStatus, Sides
<1>4. NoReceipt \in CashOutReceipt
  BY ConstantTypes DEF NoReceipt, CashOutReceipt, AuditStatus
<1> QED BY <1>1, <1>2, <1>3, <1>4

\* Before the house exists the book is empty, so every part of BookInv holds.
LEMMA BookInvInit == Init => BookInv
<1> SUFFICES ASSUME Init
             PROVE  BookInv
  OBVIOUS
<1>1. TypeOK
  BY NoAccountTypes, ConstantTypes, BoundsAssumption DEF Init, TypeOK
<1>2. QuotesArePriced
  BY DEF Init, NoMarket, QuotesArePriced
<1>3. TicketsAreSound
  BY DEF Init, NoTicket, NoReceipt, TicketsAreSound
<1> QED BY <1>1, <1>2, <1>3 DEF BookInv

-----------------------------------------------------------------------------
(* What the parts of instructions guarantee.                               *)

\* The free liquidity that caps a bounty leaves what is reserved in the vault.
LEMMA FreeLiquidityBound ==
    ASSUME BookInv
    PROVE  /\ FreeLiquidity \in 0..vault
           /\ vault >= house.open_exposure => vault - FreeLiquidity = house.open_exposure
           /\ vault < house.open_exposure => FreeLiquidity = 0
<1>1. vault \in Nat /\ house.open_exposure \in Nat
  BY ConstantTypes DEF BookInv, TypeOK, House
<1> QED BY <1>1 DEF FreeLiquidity, SaturatingSub

\* A bounty of audit_ticket comes out of the free liquidity only.
LEMMA TicketBountyBound ==
    ASSUME BookInv, NEW t \in TicketIds
    PROVE  TicketBounty(t) \in 0..FreeLiquidity
<1>1. FreeLiquidity \in Nat /\ ticket[t].stake \in Nat
  <2>1. vault \in Nat /\ ticket[t] \in Ticket
    BY ConstantTypes DEF BookInv, TypeOK
  <2>2. FreeLiquidity \in Nat
    BY <2>1, FreeLiquidityBound
  <2> QED BY <2>1, <2>2, ConstantTypes DEF Ticket
<1>2. bounty_amount(ticket[t].stake, AUDIT_BOUNTY_BPS, FreeLiquidity) \in 0..FreeLiquidity
  BY <1>1, BountyAtMostFree
<1> QED BY <1>1, <1>2 DEF TicketBounty

\* A bet is taken only at odds above 1.0, so its payout covers its stake: the
\* quote is fresh, and a market that was never quoted has a stale timestamp.
LEMMA BetPayout ==
    ASSUME BookInv, NEW t \in TicketIds, NEW m \in MarketIds, NEW s \in Sides,
           NEW stake \in Amount, PlaceBet(t, m, s, stake)
    PROVE  /\ potential_payout(stake, market[m].odds[s]) \in Amount
           /\ stake <= potential_payout(stake, market[m].odds[s])
<1> DEFINE payout == potential_payout(stake, market[m].odds[s])
<1>1. stake \in Nat /\ market[m].odds[s] \in Nat /\ house.max_payout_per_ticket \in Amount
  BY ConstantTypes DEF BookInv, TypeOK, Market, House
<1>2. now - market[m].quote_posted_ts <= QUOTE_VALIDITY_SECONDS /\ now >= Start
  BY DEF PlaceBet, QuoteIsFresh, BookInv, TypeOK
<1>3. market[m].quote_posted_ts # 0
  <2>1. now \in Nat
    BY ConstantTypes DEF BookInv, TypeOK
  <2> QED BY <1>2, <2>1, ClockAssumption, BoundsAssumption
<1>4. IsOdds(market[m].odds[s])
  BY <1>3 DEF BookInv, QuotesArePriced
<1>5. payout \in Nat /\ stake <= payout
  BY <1>1, <1>4, PayoutAtLeastStake
<1>6. payout <= house.max_payout_per_ticket
  BY DEF PlaceBet
<1> HIDE DEF payout
<1>7. payout \in Amount
  BY <1>1, <1>5, <1>6, BoundsAssumption DEF Amount
<1> QED BY <1>5, <1>7 DEF payout

\* What a cash-out pays.
CashOutAmount(t) ==
    cash_out_value(ticket[t].potential_payout,
                   implied_prob_bps(market[ticket[t].market].odds[Opposite(ticket[t].side)]))

\* cash_out pays at most the payout the ticket promised.
LEMMA CashOutBound ==
    ASSUME BookInv, NEW t \in TicketIds, CashOutTicket(t)
    PROVE  CashOutAmount(t) \in 0..ticket[t].potential_payout
<1> DEFINE m == ticket[t].market
           odds == market[m].odds[Opposite(ticket[t].side)]
<1>1. ticket[t] \in Ticket /\ m \in MarketIds
  BY DEF BookInv, TypeOK, TicketsAreSound, CashOutTicket
<1>2. Opposite(ticket[t].side) \in Sides
  BY <1>1 DEF Opposite, Sides, Ticket
<1>3. odds \in Nat
  BY <1>1, <1>2 DEF BookInv, TypeOK, Market
<1>4. IsOdds(odds)
  BY DEF CashOutTicket
<1>5. ticket[t].potential_payout \in Nat
  BY <1>1, ConstantTypes DEF Ticket
<1>6. implied_prob_bps(odds) \in 0..BPS_DENOMINATOR
  BY <1>3, <1>4, ImpliedProbBound
<1> QED BY <1>5, <1>6, CashOutAtMostPayout DEF CashOutAmount

\* The verdict of audit_cash_out, and the honest floor that it records a
\* shortfall against.
CashOutIsHonest(t) ==
    IsHonest(receipt[t].opposite_odds_bps, Opposite(ticket[t].side),
             ConsensusPrice(ticket[t].market, receipt[t].odds_record), house.margin_bps)
CashOutFloor(t) ==
    HonestFloor(ticket[t].potential_payout, Opposite(ticket[t].side),
                ConsensusPrice(ticket[t].market, receipt[t].odds_record), house.margin_bps)

\* The honest floor of audit_cash_out is at most the ticket's payout.
LEMMA CashOutFloorBound ==
    ASSUME BookInv, NEW t \in TicketIds, NEW a \in Auditors, DecideCashOut(t, a),
           ~CashOutIsHonest(t)
    PROVE  CashOutFloor(t) \in 0..ticket[t].potential_payout
<1> DEFINE m == ticket[t].market
           record_id == receipt[t].odds_record
           opposite == Opposite(ticket[t].side)
           price == ConsensusPrice(m, record_id)
<1>1. ticket[t].potential_payout \in Nat /\ house.margin_bps \in Nat
  BY ConstantTypes DEF BookInv, TypeOK, Ticket, House
<1>2. IsAuditable(m, record_id)
  BY DEF DecideCashOut
<1>3. record_id \in DOMAIN OddsFeed /\ IsRawPrice(price)
      /\ expected_odds_record(market[m].params).yes_price_index \in
           DOMAIN OddsFeed[record_id].prices
  BY <1>2 DEF IsAuditable, ConsensusPrice
<1>4. price \in Nat
  BY <1>3, OracleAssumption DEF ConsensusPrice
<1>5. Complementable(house_prob_bps(ConsensusImplied(opposite, price), house.margin_bps))
  BY DEF DecideCashOut, CashOutIsHonest
<1> QED BY <1>1, <1>3, <1>4, <1>5, FloorAtMostPayout DEF CashOutFloor

\* A payment leaves the vault and its records in their types.
LEMMA PayBettorEffect ==
    ASSUME TypeOK, NEW t \in TicketIds, NEW amount \in Nat, PayBettor(t, amount)
    PROVE  /\ vault' \in Amount /\ vault' = vault - amount
           /\ paid' \in [TicketIds -> Nat] /\ paid'[t] = paid[t] + amount
           /\ \A u \in TicketIds : u # t => paid'[u] = paid[u]
<1>1. vault \in Amount /\ paid \in [TicketIds -> Nat]
  BY DEF TypeOK
<1>2. vault' \in Amount /\ vault' = vault - amount
  BY <1>1, BoundsAssumption DEF PayBettor, Amount
<1>3. paid' = [paid EXCEPT ![t] = paid[t] + amount] /\ paid[t] + amount \in Nat
  BY <1>1 DEF PayBettor
<1> QED BY <1>1, <1>2, <1>3

\* Releasing a liability keeps the house in its type.
LEMMA ReleaseExposureEffect ==
    ASSUME TypeOK, NEW t \in TicketIds, ReleaseExposure(t)
    PROVE  /\ house' \in House
           /\ house' = [house EXCEPT !.open_exposure =
                                       house.open_exposure - ticket[t].potential_payout]
           /\ house.open_exposure >= ticket[t].potential_payout
<1>1. house \in House /\ ticket[t].potential_payout \in Nat /\ house.open_exposure \in Nat
  BY ConstantTypes DEF TypeOK, House, Ticket
<1>2. house.open_exposure - ticket[t].potential_payout \in Amount
  BY <1>1, BoundsAssumption DEF ReleaseExposure, Amount, House
<1> QED BY <1>1, <1>2 DEF ReleaseExposure, House

\* A closed ticket is a ticket, and no other ticket changes.
LEMMA CloseEffect ==
    ASSUME TypeOK, NEW t \in TicketIds, NEW s \in TicketState, Close(t, s)
    PROVE  /\ ticket' \in [TicketIds -> Ticket]
           /\ ticket'[t].state = s /\ ticket'[t].exposure_released
           /\ ticket'[t].stake = ticket[t].stake
           /\ ticket'[t].potential_payout = ticket[t].potential_payout
           /\ ticket'[t].market = ticket[t].market
           /\ ticket'[t].side = ticket[t].side
           /\ ticket'[t].quoted_odds_bps = ticket[t].quoted_odds_bps
           /\ ticket'[t].odds_record = ticket[t].odds_record
           /\ ticket'[t].audit_status = ticket[t].audit_status
           /\ \A u \in TicketIds : u # t => ticket'[u] = ticket[u]
<1> DEFINE closed == [ticket[t] EXCEPT !.state = s, !.exposure_released = TRUE]
<1>1. ticket \in [TicketIds -> Ticket] /\ ticket[t] \in Ticket
  BY DEF TypeOK
<1>2. ticket' = [ticket EXCEPT ![t] = closed]
  BY DEF Close
<1>3. /\ closed \in Ticket /\ closed.state = s /\ closed.exposure_released
      /\ closed.stake = ticket[t].stake /\ closed.side = ticket[t].side
      /\ closed.potential_payout = ticket[t].potential_payout
      /\ closed.market = ticket[t].market /\ closed.audit_status = ticket[t].audit_status
      /\ closed.quoted_odds_bps = ticket[t].quoted_odds_bps
      /\ closed.odds_record = ticket[t].odds_record
  BY <1>1 DEF Ticket
<1> HIDE DEF closed
<1> QED BY <1>1, <1>2, <1>3

\* What a repair pays the prover: at most what no ticket has reserved, after
\* the shortfall.
RepairBounty(t) ==
    bounty_amount(ticket[t].stake, AUDIT_BOUNTY_BPS,
                  SaturatingSub(SaturatingSub(vault, receipt[t].shortfall_owed),
                                house.open_exposure))

\* A bounty of claim_cash_out_repair leaves the shortfall and the reserves.
LEMMA RepairBountyBound ==
    ASSUME BookInv, NEW t \in TicketIds, ClaimCashOutRepair(t)
    PROVE  /\ RepairBounty(t) \in Nat
           /\ RepairBounty(t) <= vault - receipt[t].shortfall_owed
           /\ \/ RepairBounty(t) = 0
              \/ RepairBounty(t) <= vault - receipt[t].shortfall_owed - house.open_exposure
<1> DEFINE left == SaturatingSub(SaturatingSub(vault, receipt[t].shortfall_owed),
                                 house.open_exposure)
<1>1. /\ vault \in Nat /\ house.open_exposure \in Nat /\ ticket[t].stake \in Nat
      /\ receipt[t].shortfall_owed \in Nat
  BY ConstantTypes DEF BookInv, TypeOK, House, Ticket, CashOutReceipt
<1>2. vault >= receipt[t].shortfall_owed
  BY DEF ClaimCashOutRepair
<1>3. left \in Nat
  BY <1>1 DEF SaturatingSub
<1>4. RepairBounty(t) \in 0..left
  BY <1>1, <1>3, BountyAtMostFree DEF RepairBounty
<1>5. \/ left = 0
      \/ left = vault - receipt[t].shortfall_owed - house.open_exposure
  BY <1>1, <1>2 DEF SaturatingSub
<1> HIDE DEF left
<1> QED BY <1>1, <1>2, <1>3, <1>4, <1>5

\* An audit of a ticket changes its verdict, perhaps its state, and what its
\* violations have cost the vault.
LEMMA AuditTicketEffect ==
    ASSUME BookInv, NEW t \in TicketIds, AuditTicket(t)
    PROVE  /\ UNCHANGED <<now, house, market, outcome, receipt, paid, unreserved>>
           /\ vault' \in Amount /\ bounty' \in [TicketIds -> Nat]
           /\ vault - vault' \in 0..FreeLiquidity
           /\ ticket' \in [TicketIds -> Ticket]
           /\ \A u \in TicketIds : u # t => ticket'[u] = ticket[u]
           /\ ticket'[t].stake = ticket[t].stake
           /\ ticket'[t].market = ticket[t].market
           /\ ticket'[t].side = ticket[t].side
           /\ ticket'[t].potential_payout = ticket[t].potential_payout
           /\ ticket'[t].quoted_odds_bps = ticket[t].quoted_odds_bps
           /\ ticket'[t].odds_record = ticket[t].odds_record
           /\ ticket'[t].exposure_released = ticket[t].exposure_released
           /\ TicketIsHonest(t) =>
                ticket'[t].audit_status = "Honest" /\ ticket'[t].state = ticket[t].state
           /\ ~TicketIsHonest(t) =>
                ticket'[t].audit_status = "Violation" /\ ticket'[t].state = StateOnceFlagged(t)
           /\ \/ ticket'[t].state = ticket[t].state
              \/ ticket[t].state \in FlaggedByViolation /\ ticket'[t].state = "Refundable"
<1> DEFINE honest == [ticket[t] EXCEPT !.audit_status = "Honest"]
           flagged == StateOnceFlagged(t)
           violated == [ticket[t] EXCEPT !.audit_status = "Violation", !.state = flagged]
           SameBet(k) ==
             /\ k \in Ticket /\ k.stake = ticket[t].stake /\ k.market = ticket[t].market
             /\ k.side = ticket[t].side /\ k.potential_payout = ticket[t].potential_payout
             /\ k.exposure_released = ticket[t].exposure_released
             /\ k.quoted_odds_bps = ticket[t].quoted_odds_bps
             /\ k.odds_record = ticket[t].odds_record
<1>1. /\ ticket \in [TicketIds -> Ticket] /\ ticket[t] \in Ticket /\ vault \in Amount
      /\ bounty \in [TicketIds -> Nat] /\ vault \in Nat
  BY ConstantTypes DEF BookInv, TypeOK
<1>2. UNCHANGED <<now, house, market, outcome, receipt, paid, unreserved>>
  BY DEF AuditTicket
<1>3. SameBet(honest) /\ honest.state = ticket[t].state /\ honest.audit_status = "Honest"
  BY <1>1 DEF Ticket, AuditStatus
<1>4. flagged \in TicketState
  BY <1>1 DEF Ticket, TicketState, StateOnceFlagged
<1>5. SameBet(violated) /\ violated.state = flagged /\ violated.audit_status = "Violation"
  <2> HIDE DEF flagged
  <2> QED BY <1>1, <1>4 DEF Ticket, AuditStatus
<1>6. FreeLiquidity \in Nat /\ FreeLiquidity <= vault
  BY <1>1, FreeLiquidityBound
<1>7. CASE TicketIsHonest(t)
  <2>1. ticket' = [ticket EXCEPT ![t] = honest] /\ UNCHANGED <<vault, bounty>>
    BY <1>7 DEF AuditTicket
  <2> HIDE DEF honest
  <2> QED BY <1>1, <1>2, <1>3, <1>6, <1>7, <2>1
<1>8. CASE ~TicketIsHonest(t)
  <2>1. /\ ticket' = [ticket EXCEPT ![t] = violated]
        /\ vault' = vault - TicketBounty(t)
        /\ bounty' = [bounty EXCEPT ![t] = @ + TicketBounty(t)]
    BY <1>8 DEF AuditTicket
  <2>2. TicketBounty(t) \in Nat /\ TicketBounty(t) <= FreeLiquidity
    BY <1>6, TicketBountyBound
  <2>3. /\ vault' \in Amount /\ bounty' \in [TicketIds -> Nat]
        /\ vault - vault' \in 0..FreeLiquidity
    BY <1>1, <1>6, <2>1, <2>2, BoundsAssumption DEF Amount
  <2>4. \/ flagged = ticket[t].state
        \/ ticket[t].state \in FlaggedByViolation /\ flagged = "Refundable"
    BY DEF StateOnceFlagged
  <2> HIDE DEF violated
  <2> QED BY <1>1, <1>2, <1>5, <1>8, <2>1, <2>3, <2>4
<1> QED BY <1>7, <1>8

\* An audit of a cash-out changes its verdict, and at the first violation who
\* proved it and what is owed.
LEMMA AuditCashOutEffect ==
    ASSUME BookInv, NEW t \in TicketIds, NEW a \in Auditors, DecideCashOut(t, a)
    PROVE  /\ UNCHANGED <<now, house, vault, market, outcome, ticket, ledger>>
           /\ receipt[t].exists
           /\ receipt' \in [TicketIds -> CashOutReceipt]
           /\ \A u \in TicketIds : u # t => receipt'[u] = receipt[u]
           /\ receipt'[t].exists = receipt[t].exists
           /\ receipt'[t].paid_amount = receipt[t].paid_amount
           /\ receipt'[t].opposite_odds_bps = receipt[t].opposite_odds_bps
           /\ receipt'[t].odds_record = receipt[t].odds_record
           /\ receipt'[t].made_whole = receipt[t].made_whole
           /\ CashOutIsHonest(t) => /\ receipt'[t].audit_status = "Honest"
                                    /\ receipt'[t].auditor = receipt[t].auditor
                                    /\ receipt'[t].shortfall_owed = receipt[t].shortfall_owed
           /\ ~CashOutIsHonest(t) =>
                /\ receipt[t].audit_status # "Violation"
                /\ receipt'[t].audit_status = "Violation"
                /\ receipt'[t].shortfall_owed =
                     SaturatingSub(CashOutFloor(t), receipt[t].paid_amount)
<1> DEFINE honest == [receipt[t] EXCEPT !.audit_status = "Honest"]
           owed == SaturatingSub(CashOutFloor(t), receipt[t].paid_amount)
           violated == [receipt[t] EXCEPT !.audit_status = "Violation", !.auditor = a,
                                          !.shortfall_owed = owed]
           SameSale(r) ==
             /\ r \in CashOutReceipt /\ r.exists = receipt[t].exists
             /\ r.paid_amount = receipt[t].paid_amount
             /\ r.opposite_odds_bps = receipt[t].opposite_odds_bps
             /\ r.odds_record = receipt[t].odds_record /\ r.made_whole = receipt[t].made_whole
<1>1. /\ receipt \in [TicketIds -> CashOutReceipt]
      /\ receipt[t] \in CashOutReceipt /\ receipt[t].paid_amount \in Nat
  BY ConstantTypes DEF BookInv, TypeOK, CashOutReceipt
<1>2. UNCHANGED <<now, house, vault, market, outcome, ticket, ledger>> /\ receipt[t].exists
  BY DEF DecideCashOut
<1>3. CASE CashOutIsHonest(t)
  <2>1. receipt' = [receipt EXCEPT ![t] = honest]
    BY <1>3 DEF DecideCashOut, CashOutIsHonest
  <2>2. /\ SameSale(honest) /\ honest.audit_status = "Honest"
        /\ honest.auditor = receipt[t].auditor
        /\ honest.shortfall_owed = receipt[t].shortfall_owed
    BY <1>1 DEF CashOutReceipt, AuditStatus
  <2> HIDE DEF honest
  <2> QED BY <1>1, <1>2, <1>3, <2>1, <2>2
<1>4. CASE ~CashOutIsHonest(t)
  <2>1. receipt' = [receipt EXCEPT ![t] = violated] /\ receipt[t].audit_status # "Violation"
    BY <1>4 DEF DecideCashOut, CashOutIsHonest, CashOutFloor
  <2>2. owed \in Amount
    <3>1. ticket[t].potential_payout \in Amount
      BY DEF BookInv, TypeOK, Ticket
    <3> QED BY <1>1, <1>4, <3>1, CashOutFloorBound, BoundsAssumption DEF SaturatingSub, Amount
  <2>3. /\ SameSale(violated) /\ violated.audit_status = "Violation"
        /\ violated.shortfall_owed = owed
    <3> HIDE DEF owed
    <3> QED BY <1>1, <2>2 DEF CashOutReceipt, AuditStatus
  <2> HIDE DEF violated
  <2> QED BY <1>1, <1>2, <1>4, <2>1, <2>3
<1> QED BY <1>3, <1>4

\* A repair is claimed once, of a proven violation, and changes nothing else.
LEMMA ClaimEffect ==
    ASSUME BookInv, NEW t \in TicketIds, ClaimCashOutRepair(t)
    PROVE  /\ UNCHANGED <<now, house, market, outcome, ticket>>
           /\ receipt[t].exists /\ receipt[t].audit_status = "Violation"
           /\ ~receipt[t].made_whole
           /\ receipt' \in [TicketIds -> CashOutReceipt]
           /\ \A u \in TicketIds : u # t => receipt'[u] = receipt[u]
           /\ receipt'[t].exists = receipt[t].exists
           /\ receipt'[t].paid_amount = receipt[t].paid_amount
           /\ receipt'[t].opposite_odds_bps = receipt[t].opposite_odds_bps
           /\ receipt'[t].odds_record = receipt[t].odds_record
           /\ receipt'[t].audit_status = receipt[t].audit_status
           /\ receipt'[t].auditor = receipt[t].auditor
           /\ receipt'[t].shortfall_owed = receipt[t].shortfall_owed
           /\ receipt'[t].made_whole
<1> DEFINE repaired == [receipt[t] EXCEPT !.made_whole = TRUE]
<1>1. receipt \in [TicketIds -> CashOutReceipt] /\ receipt[t] \in CashOutReceipt
  BY DEF BookInv, TypeOK
<1>2. /\ UNCHANGED <<now, house, market, outcome, ticket>>
      /\ receipt[t].exists /\ receipt[t].audit_status = "Violation" /\ ~receipt[t].made_whole
      /\ receipt' = [receipt EXCEPT ![t] = repaired]
  BY DEF ClaimCashOutRepair, IsOwedRepair
<1>3. /\ repaired \in CashOutReceipt /\ repaired.exists = receipt[t].exists
      /\ repaired.paid_amount = receipt[t].paid_amount
      /\ repaired.opposite_odds_bps = receipt[t].opposite_odds_bps
      /\ repaired.odds_record = receipt[t].odds_record
      /\ repaired.audit_status = receipt[t].audit_status
      /\ repaired.auditor = receipt[t].auditor
      /\ repaired.shortfall_owed = receipt[t].shortfall_owed
      /\ repaired.made_whole
  BY <1>1 DEF CashOutReceipt
<1> HIDE DEF repaired
<1> QED BY <1>1, <1>2, <1>3

-----------------------------------------------------------------------------
(* The type invariant.                                                     *)

\* Every instruction preserves the types and what makes them inductive.
LEMMA BookInvNext ==
    ASSUME BookInv, [Instruction]_vars
    PROVE  BookInv'
<1> USE DEF BookInv
<1>0. /\ now \in Nat /\ house \in House /\ vault \in Amount /\ vault \in Nat
      /\ market \in [MarketIds -> Market] /\ ticket \in [TicketIds -> Ticket]
      /\ receipt \in [TicketIds -> CashOutReceipt]
      /\ paid \in [TicketIds -> Nat] /\ bounty \in [TicketIds -> Nat] /\ unreserved \in Nat
  BY ConstantTypes DEF TypeOK
<1>1. ASSUME NEW params \in HouseParams, InitializeHouse(params)
      PROVE  BookInv'
  <2>1. house' \in House
    <3>1. params \in [margin_bps : Nat, max_exposure_per_market : Amount,
                      max_payout_per_ticket : Amount]
      BY ConstantTypes
    <3> QED BY <1>1, <3>1, NoAccountTypes DEF InitializeHouse, House
  <2>2. TypeOK'
    BY <1>1, <2>1 DEF TypeOK, InitializeHouse, ledger
  <2> QED BY <1>1, <2>2 DEF QuotesArePriced, TicketsAreSound, InitializeHouse
<1>2. ASSUME NEW amount \in Amount, DepositLiquidity(amount)
      PROVE  BookInv'
  <2>1. vault' \in Amount
    BY <1>0, <1>2, ConstantTypes, BoundsAssumption DEF DepositLiquidity, Amount
  <2>2. TypeOK'
    BY <1>2, <2>1 DEF TypeOK, DepositLiquidity, ledger
  <2> QED BY <1>2, <2>2 DEF QuotesArePriced, TicketsAreSound, DepositLiquidity
<1>3. ASSUME NEW amount \in Amount, WithdrawLiquidity(amount)
      PROVE  BookInv'
  <2>1. amount \in Nat /\ house.open_exposure \in Nat
    BY <1>0, ConstantTypes DEF House
  <2>2. vault' \in Amount
    BY <1>0, <1>3, <2>1, BoundsAssumption DEF WithdrawLiquidity, Amount
  <2>3. TypeOK'
    BY <1>3, <2>2 DEF TypeOK, WithdrawLiquidity, ledger
  <2> QED BY <1>3, <2>3 DEF QuotesArePriced, TicketsAreSound, WithdrawLiquidity
<1>4. ASSUME NEW f \in Fixtures, NEW p \in Predicates, NEW k \in Nat, CreateMarket(f, p, k)
      PROVE  BookInv'
  <2> DEFINE created == [NoMarket EXCEPT !.state = "Open", !.fixture_id = f,
                                         !.params = p, !.kickoff_ts = k]
  <2>1. house' \in House
    BY <1>0, <1>4, BoundsAssumption DEF CreateMarket, House
  <2>2. created \in Market /\ created.quote_posted_ts = 0
    <3>1. created \in Market
      BY NoAccountTypes, ConstantTypes DEF Market, MarketState
    <3> QED BY <3>1 DEF NoMarket
  <2>3. market' = [market EXCEPT ![house.market_count] = created]
    BY <1>4 DEF CreateMarket
  <2> HIDE DEF created
  <2>4. TypeOK'
    BY <1>0, <1>4, <2>1, <2>2, <2>3 DEF TypeOK, CreateMarket, ledger
  <2>5. QuotesArePriced'
    BY <1>0, <2>2, <2>3 DEF QuotesArePriced
  <2>6. TicketsAreSound'
    BY <1>4 DEF TicketsAreSound, CreateMarket
  <2> QED BY <2>4, <2>5, <2>6
<1>5. ASSUME NEW m \in MarketIds, NEW q \in [Sides -> Nat], NEW r \in RecordIds, PostQuote(m, q, r)
      PROVE  BookInv'
  <2> DEFINE quoted == [market[m] EXCEPT !.odds = q, !.odds_record = r, !.quote_posted_ts = now]
  <2>1. market[m] \in Market /\ q \in [Sides -> Nat]
    BY <1>0, ConstantTypes
  <2>2. quoted \in Market /\ quoted.odds = q
    BY <1>0, <2>1 DEF Market
  <2>3. market' = [market EXCEPT ![m] = quoted] /\ \A s \in Sides : IsOdds(q[s])
    BY <1>5 DEF PostQuote
  <2> HIDE DEF quoted
  <2>4. TypeOK'
    BY <1>0, <1>5, <2>2, <2>3 DEF TypeOK, PostQuote, ledger
  <2>5. QuotesArePriced'
    BY <1>0, <2>2, <2>3 DEF QuotesArePriced
  <2>6. TicketsAreSound'
    BY <1>5 DEF TicketsAreSound, PostQuote
  <2> QED BY <2>4, <2>5, <2>6
<1>6. ASSUME NEW t \in TicketIds, NEW m \in MarketIds, NEW s \in Sides, NEW stake \in Amount,
             PlaceBet(t, m, s, stake)
      PROVE  BookInv'
  <2> DEFINE odds == market[m].odds[s]
             payout == potential_payout(stake, odds)
             sold == [NoTicket EXCEPT !.state = "Live", !.market = m, !.side = s,
                                      !.stake = stake, !.quoted_odds_bps = odds,
                                      !.odds_record = market[m].odds_record,
                                      !.potential_payout = payout]
  <2>1. market[m] \in Market /\ market[m].odds_record \in RecordIds \cup {None}
        /\ odds \in Nat /\ stake \in Amount /\ stake \in Nat
    BY <1>0, ConstantTypes DEF Market
  <2>2. payout \in Amount /\ stake <= payout
    BY <1>6, BetPayout
  <2>3. /\ house' = [house EXCEPT !.open_exposure = @ + payout, !.total_volume = @ + stake]
        /\ vault' = vault + stake
        /\ market' = [market EXCEPT ![m] = MarketAfterBet(m, s, stake, payout)]
        /\ ticket' = [ticket EXCEPT ![t] = sold]
        /\ UNCHANGED <<now, outcome, receipt, ledger>>
    BY <1>6 DEF PlaceBet
  <2>4. /\ house.open_exposure + payout <= U64_MAX /\ house.total_volume + stake <= U64_MAX
        /\ market[m].payout[s] + payout <= house.max_exposure_per_market
        /\ market[m].stake[s] + stake <= U64_MAX
        /\ vault + stake <= U64_MAX
    BY <1>6 DEF PlaceBet
  <2>5. ticket[t].state = "Vacant"
    BY <1>6 DEF PlaceBet
  <2> HIDE DEF payout, odds
  <2>6. vault' \in Amount
    BY <1>0, <2>1, <2>3, <2>4, BoundsAssumption DEF Amount
  <2>7. house' \in House
    <3>1. house.open_exposure + payout \in Amount /\ house.total_volume + stake \in Amount
      BY <1>0, <2>1, <2>2, <2>4, BoundsAssumption DEF House, Amount
    <3> QED BY <1>0, <2>3, <3>1 DEF House
  <2>8. sold \in Ticket
    BY <2>1, <2>2, NoAccountTypes DEF Ticket, TicketState
  <2>9. MarketAfterBet(m, s, stake, payout) \in Market
        /\ MarketAfterBet(m, s, stake, payout).odds = market[m].odds
        /\ MarketAfterBet(m, s, stake, payout).quote_posted_ts = market[m].quote_posted_ts
    <3>1. market[m].stake \in [Sides -> Amount] /\ market[m].payout \in [Sides -> Amount]
      BY <2>1 DEF Market
    <3>2. market[m].stake[s] + stake \in Amount /\ market[m].payout[s] + payout \in Amount
      BY <1>0, <2>1, <2>2, <2>4, <3>1, BoundsAssumption DEF House, Amount
    <3> DEFINE stakes == [market[m].stake EXCEPT ![s] = @ + stake]
               payouts == [market[m].payout EXCEPT ![s] = @ + payout]
    <3>3. stakes \in [Sides -> Amount] /\ payouts \in [Sides -> Amount]
      BY <3>1, <3>2
    <3>4. MarketAfterBet(m, s, stake, payout) =
            [market[m] EXCEPT !.stake = stakes, !.payout = payouts]
      BY DEF MarketAfterBet
    <3> HIDE DEF stakes, payouts
    <3> QED BY <2>1, <3>3, <3>4 DEF Market
  <2>10. /\ sold.state = "Live" /\ ~sold.exposure_released /\ sold.market = m
         /\ sold.stake = stake /\ sold.potential_payout = payout
    BY DEF NoTicket
  <2> HIDE DEF sold
  <2>11. TypeOK'
    BY <1>0, <2>3, <2>6, <2>7, <2>8, <2>9 DEF TypeOK, ledger
  <2>12. QuotesArePriced'
    BY <1>0, <2>3, <2>9 DEF QuotesArePriced
  <2>13. TicketsAreSound'
    BY <1>0, <2>2, <2>3, <2>5, <2>10 DEF TicketsAreSound
  <2> QED BY <2>11, <2>12, <2>13
<1>7. ASSUME NEW t \in TicketIds, CashOutTicket(t)
      PROVE  BookInv'
  <2> DEFINE sale == [NoReceipt EXCEPT !.exists = TRUE, !.paid_amount = CashOutAmount(t),
                        !.opposite_odds_bps = market[ticket[t].market].odds[Opposite(ticket[t].side)],
                        !.odds_record = market[ticket[t].market].odds_record]
  <2>1. /\ ReleaseExposure(t) /\ PayBettor(t, CashOutAmount(t)) /\ Close(t, "CashedOut")
        /\ receipt' = [receipt EXCEPT ![t] = sale]
        /\ UNCHANGED <<now, market, outcome, bounty, unreserved>>
        /\ ticket[t].state = "Live"
    BY <1>7 DEF CashOutTicket, CashOutAmount
  <2>2. /\ ticket[t] \in Ticket /\ ticket[t].potential_payout \in Amount
        /\ ticket[t].market \in MarketIds /\ ticket[t].side \in Sides
    BY <1>0, <2>1 DEF Ticket, TicketsAreSound
  <2>3. CashOutAmount(t) \in Amount /\ CashOutAmount(t) \in Nat
    BY <1>7, <2>2, CashOutBound, BoundsAssumption DEF Amount
  <2>4. sale \in CashOutReceipt
    <3>1. Opposite(ticket[t].side) \in Sides
      BY DEF Opposite, Sides
    <3>2. market[ticket[t].market] \in Market
      BY <1>0, <2>2
    <3>3. /\ market[ticket[t].market].odds[Opposite(ticket[t].side)] \in Nat
          /\ market[ticket[t].market].odds_record \in RecordIds \cup {None}
      BY <3>1, <3>2 DEF Market
    <3> QED BY <2>3, <3>3, ConstantTypes, NoAccountTypes DEF CashOutReceipt
  <2>5. receipt' \in [TicketIds -> CashOutReceipt]
    BY <1>0, <2>1, <2>4
  <2>6. ticket' \in [TicketIds -> Ticket] /\ ticket'[t].state = "CashedOut"
        /\ ticket'[t].stake = ticket[t].stake /\ ticket'[t].market = ticket[t].market
        /\ ticket'[t].potential_payout = ticket[t].potential_payout
        /\ \A u \in TicketIds : u # t => ticket'[u] = ticket[u]
    BY <2>1, CloseEffect DEF TicketState
  <2>7. TypeOK'
    BY <2>1, <2>3, <2>5, <2>6, PayBettorEffect, ReleaseExposureEffect DEF TypeOK
  <2>8. QuotesArePriced'
    BY <2>1 DEF QuotesArePriced
  <2>9. TicketsAreSound'
    <3>1. \A u \in TicketIds : u # t => receipt'[u] = receipt[u]
      BY <1>0, <2>1
    <3> QED BY <2>1, <2>6, <3>1 DEF TicketsAreSound
  <2> QED BY <2>7, <2>8, <2>9
<1>8. ASSUME NEW m \in MarketIds, NEW s \in MarketState,
             market' = [market EXCEPT ![m] = [@ EXCEPT !.state = s]],
             outcome' \in [MarketIds -> {"Unverified", "Yes", "No"}],
             UNCHANGED <<now, house, vault, ticket, receipt, ledger>>
      PROVE  BookInv'
  <2>1. /\ [market[m] EXCEPT !.state = s] \in Market
        /\ [market[m] EXCEPT !.state = s].odds = market[m].odds
        /\ [market[m] EXCEPT !.state = s].quote_posted_ts = market[m].quote_posted_ts
    BY <1>0 DEF Market
  <2>2. TypeOK'
    BY <1>0, <1>8, <2>1 DEF TypeOK, ledger
  <2>3. QuotesArePriced'
    BY <1>0, <1>8, <2>1 DEF QuotesArePriced
  <2>4. TicketsAreSound'
    BY <1>8 DEF TicketsAreSound
  <2> QED BY <2>2, <2>3, <2>4
<1>9. ASSUME NEW m \in MarketIds, LockMarket(m)
      PROVE  BookInv'
  BY <1>8, <1>9 DEF LockMarket, MarketState, TypeOK
<1>10. ASSUME NEW m \in MarketIds, NEW proof \in ScoreProofs, VerifyMarket(m, proof)
       PROVE  BookInv'
  <2>1. outcome' \in [MarketIds -> {"Unverified", "Yes", "No"}]
    BY <1>10 DEF VerifyMarket, TypeOK
  <2> QED BY <1>8, <1>10, <2>1 DEF VerifyMarket, MarketState
<1>11. ASSUME NEW m \in MarketIds, NEW byAuthority \in BOOLEAN, VoidMarket(m, byAuthority)
       PROVE  BookInv'
  BY <1>8, <1>11 DEF VoidMarket, MarketState, TypeOK
<1>12. ASSUME NEW t \in TicketIds, SettleTicket(t)
       PROVE  BookInv'
  <2>1. PICK s \in {"Won", "Lost"} :
          /\ ReleaseExposure(t) /\ Close(t, s)
          /\ \/ PayBettor(t, ticket[t].potential_payout)
             \/ UNCHANGED <<vault, paid>>
          /\ UNCHANGED <<now, market, outcome, receipt, bounty, unreserved>>
          /\ ticket[t].state = "Live"
    BY <1>12 DEF SettleTicket
  <2>2. ticket[t].potential_payout \in Nat
    BY <1>0, ConstantTypes DEF Ticket
  <2>3. vault' \in Amount /\ paid' \in [TicketIds -> Nat]
    BY <1>0, <2>1, <2>2, PayBettorEffect
  <2>4. /\ ticket' \in [TicketIds -> Ticket] /\ ticket'[t].state = s
        /\ ticket'[t].stake = ticket[t].stake /\ ticket'[t].market = ticket[t].market
        /\ ticket'[t].potential_payout = ticket[t].potential_payout
        /\ \A u \in TicketIds : u # t => ticket'[u] = ticket[u]
    BY <2>1, CloseEffect DEF TicketState
  <2>5. TypeOK'
    BY <2>1, <2>3, <2>4, ReleaseExposureEffect DEF TypeOK
  <2>6. QuotesArePriced'
    BY <2>1 DEF QuotesArePriced
  <2>7. TicketsAreSound'
    BY <2>1, <2>4 DEF TicketsAreSound
  <2> QED BY <2>5, <2>6, <2>7
<1>13. ASSUME NEW t \in TicketIds, RefundTicket(t)
       PROVE  BookInv'
  <2>1. /\ ticket[t].state \in {"Live", "Refundable"}
        /\ house' = [house EXCEPT !.open_exposure = ExposureAfterRefund(t)]
        /\ PayBettor(t, ticket[t].stake) /\ Close(t, "Refunded")
        /\ unreserved' = unreserved + (IF ticket[t].exposure_released THEN ticket[t].stake ELSE 0)
        /\ UNCHANGED <<now, market, outcome, receipt, bounty>>
    BY <1>13 DEF RefundTicket
  <2>2. ticket[t].potential_payout \in Nat /\ ticket[t].stake \in Nat
        /\ house.open_exposure \in Amount /\ house.open_exposure \in Nat
    BY <1>0, ConstantTypes DEF Ticket, House
  <2>3. vault' \in Amount /\ paid' \in [TicketIds -> Nat]
    BY <2>1, <2>2, PayBettorEffect
  <2>4. /\ ticket' \in [TicketIds -> Ticket] /\ ticket'[t].state = "Refunded"
        /\ ticket'[t].stake = ticket[t].stake /\ ticket'[t].market = ticket[t].market
        /\ ticket'[t].potential_payout = ticket[t].potential_payout
        /\ \A u \in TicketIds : u # t => ticket'[u] = ticket[u]
    BY <2>1, CloseEffect DEF TicketState
  <2>5. house' \in House
    <3>1. ExposureAfterRefund(t) \in Amount
      BY <2>2, BoundsAssumption DEF ExposureAfterRefund, SaturatingSub, Amount
    <3> QED BY <1>0, <2>1, <3>1 DEF House
  <2>6. unreserved' \in Nat
    BY <1>0, <2>1, <2>2
  <2>7. TypeOK'
    BY <2>1, <2>3, <2>4, <2>5, <2>6 DEF TypeOK
  <2>8. QuotesArePriced'
    BY <2>1 DEF QuotesArePriced
  <2>9. TicketsAreSound'
    BY <2>1, <2>4 DEF TicketsAreSound
  <2> QED BY <2>7, <2>8, <2>9
<1>14. ASSUME NEW t \in TicketIds, AuditTicket(t)
       PROVE  BookInv'
  <2>1. ticket[t].state # "Vacant"
    BY <1>14 DEF AuditTicket
  <2>2. TypeOK'
    BY <1>0, <1>14, AuditTicketEffect DEF TypeOK
  <2>3. QuotesArePriced'
    BY <1>14, AuditTicketEffect DEF QuotesArePriced
  <2>4. TicketsAreSound'
    BY <1>14, <2>1, AuditTicketEffect DEF TicketsAreSound, FlaggedByViolation
  <2> QED BY <2>2, <2>3, <2>4
<1>15. ASSUME NEW t \in TicketIds, NEW a \in Auditors, DecideCashOut(t, a)
       PROVE  BookInv'
  <2>1. TypeOK'
    BY <1>0, <1>15, AuditCashOutEffect DEF TypeOK, ledger
  <2>2. QuotesArePriced'
    BY <1>15, AuditCashOutEffect DEF QuotesArePriced
  <2>3. TicketsAreSound'
    BY <1>15, AuditCashOutEffect DEF TicketsAreSound
  <2> QED BY <2>1, <2>2, <2>3
<1>16. ASSUME NEW t \in TicketIds, ClaimCashOutRepair(t)
       PROVE  BookInv'
  <2> DEFINE shortfall == receipt[t].shortfall_owed
             reward == RepairBounty(t)
  <2>1. /\ vault >= shortfall /\ vault' = vault - shortfall - reward
        /\ paid' = [paid EXCEPT ![t] = @ + shortfall]
        /\ bounty' = [bounty EXCEPT ![t] = @ + reward]
        /\ unreserved' = unreserved + shortfall
    BY <1>16 DEF ClaimCashOutRepair, RepairBounty
  <2>2. shortfall \in Nat
    BY <1>0, ConstantTypes DEF CashOutReceipt
  <2>3. reward \in Nat /\ reward <= vault - shortfall
    BY <1>16, RepairBountyBound
  <2> HIDE DEF shortfall, reward
  <2>4. vault' \in Amount
    BY <1>0, <2>1, <2>2, <2>3, BoundsAssumption DEF Amount
  <2>5. TypeOK'
    BY <1>0, <1>16, <2>1, <2>2, <2>3, <2>4, ClaimEffect DEF TypeOK
  <2>6. QuotesArePriced'
    BY <1>16, ClaimEffect DEF QuotesArePriced
  <2>7. TicketsAreSound'
    BY <1>16, ClaimEffect DEF TicketsAreSound
  <2> QED BY <2>5, <2>6, <2>7
<1>17. ASSUME Tick
       PROVE  BookInv'
  <2>1. now' \in Start..MaxTime /\ UNCHANGED <<accounts, ledger>>
    BY <1>17, BoundsAssumption DEF Tick, TypeOK
  <2> QED BY <2>1 DEF TypeOK, QuotesArePriced, TicketsAreSound, accounts, ledger
<1>18. ASSUME UNCHANGED vars
       PROVE  BookInv'
  BY <1>18 DEF TypeOK, QuotesArePriced, TicketsAreSound, vars, accounts, ledger
<1> QED
  BY <1>1, <1>2, <1>3, <1>4, <1>5, <1>6, <1>7, <1>9, <1>10, <1>11, <1>12, <1>13, <1>14,
     <1>15, <1>16, <1>17, <1>18 DEF Instruction, AuditCashOut

\* Every account keeps its type: no transfer, release or aggregate of any
\* instruction takes an amount below zero or past a u64.
THEOREM TypeCorrect == Spec => []TypeOK
<1>1. Init => BookInv
  BY BookInvInit
<1>2. BookInv /\ [Next]_vars => BookInv'
  BY NextIsInstruction, BookInvNext
<1>3. BookInv => TypeOK
  BY DEF BookInv
<1> QED BY <1>1, <1>2, <1>3, PTL DEF Spec

-----------------------------------------------------------------------------
(* The exposure ledger.                                                    *)

\* Nothing is reserved, and there are no markets, before the house exists.
HouseComesFirst ==
    ~house.initialized =>
        house.open_exposure = 0 /\ \A m \in MarketIds : market[m].state = "Vacant"

\* open_exposure is compared with a sum over all tickets, so each instruction
\* must be shown to change the sum by what it changes open_exposure by.
ExposureInv == BookInv /\ HouseComesFirst /\ ExposureExact

\* What a ticket reserves is an amount.
LEMMA ReservedType ==
    ASSUME BookInv
    PROVE  Reserved \in [TicketIds -> Nat]
<1>1. \A t \in TicketIds : ticket[t].potential_payout \in Nat
  BY ConstantTypes DEF BookInv, TypeOK, Ticket
<1> QED BY <1>1 DEF Reserved

\* One ticket changes: open_exposure must move by the difference.
LEMMA ReservedChange ==
    ASSUME BookInv, BookInv', ExposureExact, NEW t \in TicketIds,
           \A u \in TicketIds : u # t => ticket'[u] = ticket[u],
           house'.open_exposure = house.open_exposure - Reserved[t] + Reserved'[t]
    PROVE  ExposureExact'
<1> DEFINE v == Reserved'[t]
<1>1. Reserved \in [1..NumTickets -> Int] /\ t \in 1..NumTickets /\ NumTickets \in Nat
  BY ReservedType, BoundsAssumption DEF TicketIds
<1>2. v \in Int
  <2>1. ticket'[t].potential_payout \in Nat
    BY ConstantTypes DEF BookInv, TypeOK, Ticket
  <2> QED BY <2>1 DEF Reserved
<1>3. Reserved' = [Reserved EXCEPT ![t] = v]
  BY DEF Reserved
<1> HIDE DEF v
<1>4. Total(NumTickets, Reserved') = Total(NumTickets, Reserved) - Reserved[t] + v
  BY <1>1, <1>2, <1>3, TotalUpdate
<1> QED BY <1>4 DEF ExposureExact, v

\* No ticket changes what it reserves.
LEMMA ReservedSame ==
    ASSUME BookInv, ExposureExact, house'.open_exposure = house.open_exposure,
           \A t \in TicketIds :
             /\ ticket'[t].exposure_released = ticket[t].exposure_released
             /\ ticket'[t].potential_payout = ticket[t].potential_payout
    PROVE  ExposureExact'
<1>1. Reserved' = Reserved
  BY DEF Reserved
<1> QED BY <1>1 DEF ExposureExact

\* An empty book reserves nothing.
LEMMA ExposureInvInit == Init => ExposureInv
<1> SUFFICES ASSUME Init
             PROVE  ExposureInv
  OBVIOUS
<1>1. HouseComesFirst
  BY DEF Init, NoHouse, NoMarket, HouseComesFirst
<1>2. ExposureExact
  <2>1. Reserved = [i \in 1..NumTickets |-> 0]
    BY DEF Init, NoTicket, Reserved, TicketIds
  <2>2. Total(NumTickets, Reserved) = 0
    BY <2>1, TotalOfZeros, BoundsAssumption
  <2> QED BY <2>2 DEF Init, NoHouse, ExposureExact
<1> QED BY <1>1, <1>2, BookInvInit DEF ExposureInv

\* Every instruction moves open_exposure and the reserved total alike.
LEMMA ExposureInvNext ==
    ASSUME ExposureInv, [Instruction]_vars
    PROVE  ExposureInv'
<1>0. BookInv /\ BookInv' /\ HouseComesFirst /\ ExposureExact
  BY BookInvNext DEF ExposureInv
<1>1. /\ house \in House /\ house.open_exposure \in Nat
      /\ market \in [MarketIds -> Market] /\ ticket \in [TicketIds -> Ticket]
      /\ \A t \in TicketIds : ticket[t].potential_payout \in Nat
  BY <1>0, ConstantTypes DEF BookInv, TypeOK, House, Ticket
<1>2. ASSUME NEW params \in HouseParams, InitializeHouse(params)
      PROVE  HouseComesFirst' /\ ExposureExact'
  <2>1. house'.initialized /\ house'.open_exposure = 0 /\ ticket' = ticket
    BY <1>2 DEF InitializeHouse, NoHouse
  <2>2. house.open_exposure = 0
    BY <1>0, <1>2 DEF InitializeHouse, HouseComesFirst
  <2> QED BY <1>0, <2>1, <2>2, ReservedSame DEF HouseComesFirst
<1>3. ASSUME NEW amount \in Amount, DepositLiquidity(amount) \/ WithdrawLiquidity(amount)
      PROVE  HouseComesFirst' /\ ExposureExact'
  <2>1. UNCHANGED <<house, market, ticket>>
    BY <1>3 DEF DepositLiquidity, WithdrawLiquidity
  <2> QED BY <1>0, <2>1, ReservedSame DEF HouseComesFirst
<1>4. ASSUME NEW f \in Fixtures, NEW p \in Predicates, NEW k \in Nat, CreateMarket(f, p, k)
      PROVE  HouseComesFirst' /\ ExposureExact'
  <2>1. house'.initialized /\ house'.open_exposure = house.open_exposure /\ ticket' = ticket
    BY <1>1, <1>4 DEF CreateMarket, House
  <2> QED BY <1>0, <2>1, ReservedSame DEF HouseComesFirst
<1>5. ASSUME NEW m \in MarketIds, market[m].state # "Vacant", UNCHANGED <<house, ticket>>
      PROVE  HouseComesFirst' /\ ExposureExact'
  BY <1>0, <1>5, ReservedSame DEF HouseComesFirst
<1>6. ASSUME NEW m \in MarketIds, NEW q \in [Sides -> Nat], NEW r \in RecordIds, PostQuote(m, q, r)
      PROVE  HouseComesFirst' /\ ExposureExact'
  BY <1>5, <1>6 DEF PostQuote
<1>7. ASSUME NEW m \in MarketIds, LockMarket(m)
      PROVE  HouseComesFirst' /\ ExposureExact'
  BY <1>5, <1>7 DEF LockMarket
<1>8. ASSUME NEW m \in MarketIds, NEW proof \in ScoreProofs, VerifyMarket(m, proof)
      PROVE  HouseComesFirst' /\ ExposureExact'
  BY <1>5, <1>8 DEF VerifyMarket
<1>9. ASSUME NEW m \in MarketIds, NEW byAuthority \in BOOLEAN, VoidMarket(m, byAuthority)
      PROVE  HouseComesFirst' /\ ExposureExact'
  BY <1>5, <1>9 DEF VoidMarket, Voidable
<1>10. ASSUME NEW t \in TicketIds, NEW m \in MarketIds, NEW s \in Sides, NEW stake \in Amount,
              PlaceBet(t, m, s, stake)
       PROVE  HouseComesFirst' /\ ExposureExact'
  <2> DEFINE payout == potential_payout(stake, market[m].odds[s])
  <2>1. /\ market[m].state = "Open" /\ ticket[t].state = "Vacant"
        /\ house' = [house EXCEPT !.open_exposure = @ + payout, !.total_volume = @ + stake]
        /\ ticket' = [ticket EXCEPT ![t] =
                        [NoTicket EXCEPT !.state = "Live", !.market = m, !.side = s,
                                         !.stake = stake, !.quoted_odds_bps = market[m].odds[s],
                                         !.odds_record = market[m].odds_record,
                                         !.potential_payout = payout]]
    BY <1>10 DEF PlaceBet
  <2>2. house'.open_exposure = house.open_exposure + payout
        /\ house'.initialized = house.initialized
    BY <1>1, <2>1 DEF House
  <2>3. Reserved[t] = 0
    BY <1>0, <2>1 DEF BookInv, TicketsAreSound, Reserved
  <2>4. Reserved'[t] = payout
    BY <1>1, <2>1 DEF NoTicket, Reserved
  <2>5. house.initialized
    BY <1>0, <2>1 DEF HouseComesFirst
  <2>6. payout \in Nat
    BY <1>0, <1>10, BetPayout, ConstantTypes
  <2> HIDE DEF payout
  <2>7. house'.open_exposure = house.open_exposure - Reserved[t] + Reserved'[t]
    BY <1>1, <2>2, <2>3, <2>4, <2>6
  <2>8. \A u \in TicketIds : u # t => ticket'[u] = ticket[u]
    BY <1>1, <2>1
  <2> QED BY <1>0, <2>2, <2>5, <2>7, <2>8, ReservedChange DEF HouseComesFirst
\* A ticket is settled or cashed out: its payout leaves the sum.
<1>11. ASSUME NEW t \in TicketIds, ticket[t].state = "Live", ReleaseExposure(t),
              NEW s \in TicketState, Close(t, s), UNCHANGED market
       PROVE  HouseComesFirst' /\ ExposureExact'
  <2>1. /\ house'.open_exposure = house.open_exposure - ticket[t].potential_payout
        /\ house'.initialized = house.initialized
        /\ house.open_exposure >= ticket[t].potential_payout
    BY <1>0, <1>1, <1>11, ReleaseExposureEffect DEF BookInv, House
  <2>2. /\ ticket'[t].exposure_released
        /\ \A u \in TicketIds : u # t => ticket'[u] = ticket[u]
    BY <1>0, <1>11, CloseEffect DEF BookInv
  <2>3. Reserved[t] = ticket[t].potential_payout /\ Reserved'[t] = 0
    BY <1>0, <1>11, <2>2 DEF BookInv, TicketsAreSound, Reserved
  <2>4. house'.open_exposure = house.open_exposure - Reserved[t] + Reserved'[t]
    BY <1>1, <2>1, <2>3
  <2>5. HouseComesFirst'
    BY <1>0, <1>1, <1>11, <2>1 DEF HouseComesFirst
  <2> QED BY <1>0, <2>2, <2>4, <2>5, ReservedChange
<1>12. ASSUME NEW t \in TicketIds, CashOutTicket(t)
       PROVE  HouseComesFirst' /\ ExposureExact'
  BY <1>11, <1>12 DEF CashOutTicket, TicketState
<1>13. ASSUME NEW t \in TicketIds, SettleTicket(t)
       PROVE  HouseComesFirst' /\ ExposureExact'
  BY <1>11, <1>13 DEF SettleTicket, TicketState
<1>14. ASSUME NEW t \in TicketIds, RefundTicket(t)
       PROVE  HouseComesFirst' /\ ExposureExact'
  <2>1. /\ house' = [house EXCEPT !.open_exposure = ExposureAfterRefund(t)]
        /\ Close(t, "Refunded") /\ UNCHANGED market
    BY <1>14 DEF RefundTicket
  <2>2. /\ house'.open_exposure = ExposureAfterRefund(t)
        /\ house'.initialized = house.initialized
    BY <1>1, <2>1 DEF House
  <2>3. /\ ticket'[t].exposure_released
        /\ \A u \in TicketIds : u # t => ticket'[u] = ticket[u]
    BY <1>0, <2>1, CloseEffect DEF BookInv, TicketState
  <2>4. Reserved[t] <= house.open_exposure /\ Reserved[t] \in Nat
    BY <1>0, ReservedType, TotalAtLeast, BoundsAssumption DEF ExposureExact, TicketIds
  <2>5. Reserved'[t] = 0
    BY <2>3 DEF Reserved
  <2>6. ExposureAfterRefund(t) = house.open_exposure - Reserved[t]
    BY <1>1, <2>4 DEF ExposureAfterRefund, SaturatingSub, Reserved
  <2>7. house'.open_exposure = house.open_exposure - Reserved[t] + Reserved'[t]
    BY <1>1, <2>2, <2>4, <2>5, <2>6
  <2>8. HouseComesFirst'
    <3>1. house.open_exposure = 0 => ExposureAfterRefund(t) = 0
      BY <1>1 DEF ExposureAfterRefund, SaturatingSub
    <3> QED BY <1>0, <2>1, <2>2, <3>1 DEF HouseComesFirst
  <2> QED BY <1>0, <2>3, <2>7, <2>8, ReservedChange
<1>15. ASSUME NEW t \in TicketIds, AuditTicket(t)
       PROVE  HouseComesFirst' /\ ExposureExact'
  <2>1. /\ UNCHANGED <<house, market>>
        /\ \A u \in TicketIds :
             /\ ticket'[u].exposure_released = ticket[u].exposure_released
             /\ ticket'[u].potential_payout = ticket[u].potential_payout
    BY <1>0, <1>15, AuditTicketEffect
  <2> QED BY <1>0, <2>1, ReservedSame DEF HouseComesFirst
<1>16. ASSUME UNCHANGED <<house, market, ticket>>
       PROVE  HouseComesFirst' /\ ExposureExact'
  BY <1>0, <1>16, ReservedSame DEF HouseComesFirst
<1>17. ASSUME NEW t \in TicketIds, NEW a \in Auditors, DecideCashOut(t, a)
       PROVE  HouseComesFirst' /\ ExposureExact'
  BY <1>16, <1>17 DEF DecideCashOut
<1>18. ASSUME NEW t \in TicketIds, ClaimCashOutRepair(t)
       PROVE  HouseComesFirst' /\ ExposureExact'
  BY <1>16, <1>18 DEF ClaimCashOutRepair
<1>19. ASSUME Tick \/ UNCHANGED vars
       PROVE  HouseComesFirst' /\ ExposureExact'
  BY <1>16, <1>19 DEF Tick, vars, accounts
<1>20. HouseComesFirst' /\ ExposureExact'
  BY <1>2, <1>3, <1>4, <1>6, <1>7, <1>8, <1>9, <1>10, <1>12, <1>13, <1>14, <1>15, <1>17,
     <1>18, <1>19 DEF Instruction, AuditCashOut
<1> QED BY <1>0, <1>20 DEF ExposureInv

\* The exposure ledger is exact: every ticket's payout is reserved once and
\* released once, whichever of settlement, refund and cash-out closes it and
\* however audits interleave with them.
THEOREM ExposureLedger == Spec => []ExposureExact
<1>1. Init => ExposureInv
  BY ExposureInvInit
<1>2. ExposureInv /\ [Next]_vars => ExposureInv'
  BY NextIsInstruction, ExposureInvNext
<1>3. ExposureInv => ExposureExact
  BY DEF ExposureInv
<1> QED BY <1>1, <1>2, <1>3, PTL DEF Spec

-----------------------------------------------------------------------------
(* Solvency.                                                               *)

\* An empty vault owes nothing.
LEMMA SolventInit == Init => SolventButForUnreserved
  BY DEF Init, NoHouse, SolventButForUnreserved

\* Every instruction that takes from the vault releases as much, or counts it
\* as unreserved, or leaves what is reserved.
LEMMA SolventNext ==
    ASSUME BookInv, SolventButForUnreserved, [Instruction]_vars
    PROVE  SolventButForUnreserved'
<1>1. /\ house \in House /\ house.open_exposure \in Nat /\ vault \in Nat /\ unreserved \in Nat
      /\ \A t \in TicketIds :
           /\ ticket[t].potential_payout \in Nat /\ ticket[t].stake \in Nat
           /\ receipt[t].shortfall_owed \in Nat
      /\ Amount \subseteq Nat
      /\ vault + unreserved >= house.open_exposure
  <2>1. /\ house \in House /\ vault \in Nat /\ unreserved \in Nat
        /\ ticket \in [TicketIds -> Ticket] /\ receipt \in [TicketIds -> CashOutReceipt]
    BY ConstantTypes DEF BookInv, TypeOK
  <2>2. house.open_exposure \in Nat
    BY <2>1, ConstantTypes DEF House
  <2>3. \A t \in TicketIds : ticket[t].potential_payout \in Nat /\ ticket[t].stake \in Nat
    BY <2>1, ConstantTypes DEF Ticket
  <2>4. \A t \in TicketIds : receipt[t].shortfall_owed \in Nat
    BY <2>1, ConstantTypes DEF CashOutReceipt
  <2> QED BY <2>1, <2>2, <2>3, <2>4, ConstantTypes DEF SolventButForUnreserved
<1>2. ASSUME NEW params \in HouseParams, InitializeHouse(params)
      PROVE  SolventButForUnreserved'
  BY <1>1, <1>2 DEF InitializeHouse, NoHouse, SolventButForUnreserved, ledger
<1>3. ASSUME NEW amount \in Amount, DepositLiquidity(amount)
      PROVE  SolventButForUnreserved'
  BY <1>1, <1>3 DEF DepositLiquidity, SolventButForUnreserved, ledger
<1>4. ASSUME NEW amount \in Amount, WithdrawLiquidity(amount)
      PROVE  SolventButForUnreserved'
  BY <1>1, <1>4 DEF WithdrawLiquidity, SolventButForUnreserved, ledger
<1>5. ASSUME UNCHANGED <<vault, unreserved>>, house'.open_exposure = house.open_exposure
      PROVE  SolventButForUnreserved'
  BY <1>1, <1>5 DEF SolventButForUnreserved
<1>6. ASSUME NEW f \in Fixtures, NEW p \in Predicates, NEW k \in Nat, CreateMarket(f, p, k)
      PROVE  SolventButForUnreserved'
  BY <1>1, <1>5, <1>6 DEF CreateMarket, House, ledger
<1>7. ASSUME NEW m \in MarketIds, NEW q \in [Sides -> Nat], NEW r \in RecordIds, PostQuote(m, q, r)
      PROVE  SolventButForUnreserved'
  BY <1>5, <1>7 DEF PostQuote, ledger
<1>8. ASSUME NEW t \in TicketIds, NEW m \in MarketIds, NEW s \in Sides, NEW stake \in Amount,
             PlaceBet(t, m, s, stake)
      PROVE  SolventButForUnreserved'
  <2> DEFINE payout == potential_payout(stake, market[m].odds[s])
  <2>1. payout \in Nat
    BY <1>8, BetPayout, ConstantTypes
  <2>2. /\ house' = [house EXCEPT !.open_exposure = @ + payout, !.total_volume = @ + stake]
        /\ vault' = vault + stake /\ vault + stake >= house.open_exposure + payout
        /\ unreserved' = unreserved
    BY <1>8 DEF PlaceBet, ledger
  <2> HIDE DEF payout
  <2>3. house'.open_exposure = house.open_exposure + payout
    BY <1>1, <2>2 DEF House
  <2> QED BY <1>1, <2>1, <2>2, <2>3 DEF SolventButForUnreserved
\* A live ticket is closed for at most the payout it releases.
<1>9. ASSUME NEW t \in TicketIds, ReleaseExposure(t), unreserved' = unreserved,
             vault - vault' \in 0..ticket[t].potential_payout, vault' \in Nat
      PROVE  SolventButForUnreserved'
  <2>1. house'.open_exposure = house.open_exposure - ticket[t].potential_payout
    BY <1>1, <1>9, ReleaseExposureEffect DEF BookInv, House
  <2> QED BY <1>1, <1>9, <2>1 DEF SolventButForUnreserved
<1>10. ASSUME NEW t \in TicketIds, CashOutTicket(t)
       PROVE  SolventButForUnreserved'
  <2>1. ReleaseExposure(t) /\ PayBettor(t, CashOutAmount(t)) /\ unreserved' = unreserved
    BY <1>10 DEF CashOutTicket, CashOutAmount
  <2>2. CashOutAmount(t) \in 0..ticket[t].potential_payout
    BY <1>10, CashOutBound
  <2>3. vault' = vault - CashOutAmount(t) /\ vault' \in Nat
    BY <1>1, <2>1, <2>2 DEF PayBettor
  <2> QED BY <1>1, <1>9, <2>1, <2>2, <2>3
<1>11. ASSUME NEW t \in TicketIds, SettleTicket(t)
       PROVE  SolventButForUnreserved'
  <2>1. /\ ReleaseExposure(t) /\ unreserved' = unreserved
        /\ PayBettor(t, ticket[t].potential_payout) \/ vault' = vault
    BY <1>11 DEF SettleTicket
  <2>2. vault' \in Nat /\ vault - vault' \in 0..ticket[t].potential_payout
    BY <1>1, <2>1 DEF PayBettor
  <2> QED BY <1>9, <2>1, <2>2
<1>12. ASSUME NEW t \in TicketIds, RefundTicket(t)
       PROVE  SolventButForUnreserved'
  <2>1. /\ house' = [house EXCEPT !.open_exposure = ExposureAfterRefund(t)]
        /\ vault' = vault - ticket[t].stake /\ vault >= ticket[t].stake
        /\ unreserved' = unreserved + (IF ticket[t].exposure_released THEN ticket[t].stake ELSE 0)
        /\ ticket[t].state # "Vacant"
    BY <1>12 DEF RefundTicket, PayBettor
  <2>2. house'.open_exposure = ExposureAfterRefund(t)
    BY <1>1, <2>1 DEF House
  <2>3. ticket[t].stake <= ticket[t].potential_payout
    BY <2>1 DEF BookInv, TicketsAreSound
  <2>4. CASE ticket[t].exposure_released
    BY <1>1, <2>1, <2>2, <2>4 DEF ExposureAfterRefund, SolventButForUnreserved
  <2>5. CASE ~ticket[t].exposure_released
    BY <1>1, <2>1, <2>2, <2>3, <2>5
       DEF ExposureAfterRefund, SaturatingSub, SolventButForUnreserved
  <2> QED BY <2>4, <2>5
<1>13. ASSUME NEW t \in TicketIds, AuditTicket(t)
       PROVE  SolventButForUnreserved'
  <2>1. /\ vault - vault' \in 0..FreeLiquidity /\ vault' \in Nat
        /\ unreserved' = unreserved /\ house' = house
    BY <1>13, AuditTicketEffect, ConstantTypes
  <2> QED BY <1>1, <2>1, FreeLiquidityBound DEF SolventButForUnreserved
<1>14. ASSUME NEW t \in TicketIds, ClaimCashOutRepair(t)
       PROVE  SolventButForUnreserved'
  <2>1. /\ vault' = vault - receipt[t].shortfall_owed - RepairBounty(t)
        /\ unreserved' = unreserved + receipt[t].shortfall_owed /\ house' = house
    BY <1>14 DEF ClaimCashOutRepair, RepairBounty
  <2> QED BY <1>1, <1>14, <2>1, RepairBountyBound DEF SolventButForUnreserved
<1>15. ASSUME UNCHANGED <<house, vault, unreserved>>
       PROVE  SolventButForUnreserved'
  BY <1>5, <1>15
<1>16. ASSUME NEW m \in MarketIds,
              LockMarket(m) \/ (\E proof \in ScoreProofs : VerifyMarket(m, proof))
                \/ (\E byAuthority \in BOOLEAN : VoidMarket(m, byAuthority))
       PROVE  SolventButForUnreserved'
  BY <1>15, <1>16 DEF LockMarket, VerifyMarket, VoidMarket, ledger
<1>17. ASSUME NEW t \in TicketIds, NEW a \in Auditors, DecideCashOut(t, a)
       PROVE  SolventButForUnreserved'
  BY <1>15, <1>17 DEF DecideCashOut, ledger
<1>18. ASSUME Tick \/ UNCHANGED vars
       PROVE  SolventButForUnreserved'
  BY <1>15, <1>18 DEF Tick, vars, accounts, ledger
<1> QED
  BY <1>2, <1>3, <1>4, <1>6, <1>7, <1>8, <1>10, <1>11, <1>12, <1>13, <1>14, <1>16, <1>17,
     <1>18 DEF Instruction, AuditCashOut

\* The vault covers every reserved payout but for the refunds of tickets that
\* were already settled and the repairs of cash-outs: nothing else the house or
\* anyone does, withdrawals and bounties included, makes it insolvent.
THEOREM Solvency == Spec => []SolventButForUnreserved
<1>1. Init => BookInv /\ SolventButForUnreserved
  BY BookInvInit, SolventInit
<1>2. BookInv /\ SolventButForUnreserved /\ [Next]_vars
        => (BookInv /\ SolventButForUnreserved)'
  BY NextIsInstruction, BookInvNext, SolventNext
<1> QED BY <1>1, <1>2, PTL DEF Spec

-----------------------------------------------------------------------------
(* What the accounts hold for good.                                        *)

\* Markets are numbered in order of creation, and tickets are sold on markets.
MarketsAreNumbered ==
    /\ ~house.initialized => house.market_count = 0
    /\ \A m \in MarketIds : market[m].state = "Vacant" <=> m >= house.market_count
TicketsHaveMarkets ==
    \A t \in TicketIds :
        ticket[t].state # "Vacant" => market[ticket[t].market].state # "Vacant"
NumberingInv == BookInv /\ MarketsAreNumbered /\ TicketsHaveMarkets

\* What no step changes of the accounts that exist.
HouseTermsKept ==
    house.initialized => house'.margin_bps = house.margin_bps
MarketTermsKept ==
    \A m \in MarketIds :
        market[m].state # "Vacant" =>
            /\ market'[m].state # "Vacant"
            /\ market'[m].fixture_id = market[m].fixture_id
            /\ market'[m].params = market[m].params
TicketTermsKept ==
    \A t \in TicketIds :
        ticket[t].state # "Vacant" =>
            /\ ticket'[t].state # "Vacant"
            /\ ticket'[t].market = ticket[t].market
            /\ ticket'[t].side = ticket[t].side
            /\ ticket'[t].quoted_odds_bps = ticket[t].quoted_odds_bps
            /\ ticket'[t].odds_record = ticket[t].odds_record
            /\ ticket'[t].stake = ticket[t].stake
            /\ ticket'[t].potential_payout = ticket[t].potential_payout
ReceiptTermsKept ==
    \A t \in TicketIds :
        receipt[t].exists =>
            /\ receipt'[t].exists
            /\ receipt'[t].opposite_odds_bps = receipt[t].opposite_odds_bps
            /\ receipt'[t].odds_record = receipt[t].odds_record
            /\ receipt'[t].paid_amount = receipt[t].paid_amount
TermsKept == HouseTermsKept /\ MarketTermsKept /\ TicketTermsKept /\ ReceiptTermsKept

\* No market and no ticket exists at the start.
LEMMA NumberingInit == Init => NumberingInv
<1> SUFFICES ASSUME Init
             PROVE  NumberingInv
  OBVIOUS
<1>1. MarketsAreNumbered
  <2>1. \A m \in MarketIds : m >= 0
    BY BoundsAssumption DEF MarketIds
  <2> QED BY <2>1 DEF Init, NoHouse, NoMarket, MarketsAreNumbered
<1>2. TicketsHaveMarkets
  BY DEF Init, NoTicket, TicketsHaveMarkets
<1> QED BY <1>1, <1>2, BookInvInit DEF NumberingInv

\* A sold ticket, and what else selling it changes.
LEMMA PlaceBetEffect ==
    ASSUME BookInv, NEW t \in TicketIds, NEW m \in MarketIds, NEW s \in Sides,
           NEW stake \in Amount, PlaceBet(t, m, s, stake)
    PROVE  /\ UNCHANGED <<outcome, receipt, paid, bounty, unreserved>>
           /\ ticket[t].state = "Vacant" /\ market[m].state = "Open"
           /\ house'.initialized = house.initialized
           /\ house'.market_count = house.market_count
           /\ house'.margin_bps = house.margin_bps
           /\ \A n \in MarketIds : /\ market'[n].state = market[n].state
                                   /\ market'[n].fixture_id = market[n].fixture_id
                                   /\ market'[n].params = market[n].params
           /\ ticket'[t].state = "Live" /\ ticket'[t].market = m /\ ticket'[t].side = s
           /\ ticket'[t].audit_status = "Unaudited"
           /\ ticket'[t].potential_payout = potential_payout(stake, market[m].odds[s])
           /\ \A u \in TicketIds : u # t => ticket'[u] = ticket[u]
<1>1. house \in House /\ market \in [MarketIds -> Market] /\ ticket \in [TicketIds -> Ticket]
  BY DEF BookInv, TypeOK
<1>2. /\ UNCHANGED <<outcome, receipt, paid, bounty, unreserved>>
      /\ ticket[t].state = "Vacant" /\ market[m].state = "Open"
      /\ ticket' = [ticket EXCEPT ![t] =
                      [NoTicket EXCEPT !.state = "Live", !.market = m, !.side = s,
                                       !.stake = stake, !.quoted_odds_bps = market[m].odds[s],
                                       !.odds_record = market[m].odds_record,
                                       !.potential_payout =
                                         potential_payout(stake, market[m].odds[s])]]
      /\ house' = [house EXCEPT !.open_exposure =
                                  @ + potential_payout(stake, market[m].odds[s]),
                                !.total_volume = @ + stake]
      /\ market' = [market EXCEPT ![m] =
                      MarketAfterBet(m, s, stake, potential_payout(stake, market[m].odds[s]))]
  BY DEF PlaceBet, ledger
<1>3. /\ house'.initialized = house.initialized
      /\ house'.market_count = house.market_count
      /\ house'.margin_bps = house.margin_bps
  BY <1>1, <1>2 DEF House
<1>4. ASSUME NEW payout
      PROVE  /\ MarketAfterBet(m, s, stake, payout).state = market[m].state
             /\ MarketAfterBet(m, s, stake, payout).fixture_id = market[m].fixture_id
             /\ MarketAfterBet(m, s, stake, payout).params = market[m].params
  BY <1>1 DEF MarketAfterBet, Market
<1>5. \A n \in MarketIds : /\ market'[n].state = market[n].state
                           /\ market'[n].fixture_id = market[n].fixture_id
                           /\ market'[n].params = market[n].params
  BY <1>1, <1>2, <1>4
<1>6. /\ ticket'[t].state = "Live" /\ ticket'[t].market = m /\ ticket'[t].side = s
      /\ ticket'[t].audit_status = "Unaudited"
      /\ ticket'[t].potential_payout = potential_payout(stake, market[m].odds[s])
      /\ \A u \in TicketIds : u # t => ticket'[u] = ticket[u]
  BY <1>1, <1>2 DEF NoTicket
<1> QED BY <1>2, <1>3, <1>5, <1>6

\* A cash-out opens the ticket's receipt and closes the ticket.
LEMMA CashOutEffect ==
    ASSUME BookInv, NEW t \in TicketIds, CashOutTicket(t)
    PROVE  /\ UNCHANGED <<market, outcome, bounty, unreserved>>
           /\ ReleaseExposure(t) /\ Close(t, "CashedOut")
           /\ PayBettor(t, CashOutAmount(t))
           /\ ticket[t].state = "Live" /\ ~receipt[t].exists
           /\ \A u \in TicketIds : u # t => receipt'[u] = receipt[u]
           /\ receipt'[t].exists /\ receipt'[t].paid_amount = CashOutAmount(t)
           /\ receipt'[t].shortfall_owed = 0 /\ ~receipt'[t].made_whole
           /\ receipt'[t].audit_status = "Unaudited"
<1>1. receipt \in [TicketIds -> CashOutReceipt]
  BY DEF BookInv, TypeOK
<1>2. /\ UNCHANGED <<market, outcome, bounty, unreserved>>
      /\ ReleaseExposure(t) /\ Close(t, "CashedOut") /\ PayBettor(t, CashOutAmount(t))
      /\ ticket[t].state = "Live" /\ ~receipt[t].exists
      /\ receipt' = [receipt EXCEPT ![t] =
            [NoReceipt EXCEPT !.exists = TRUE, !.paid_amount = CashOutAmount(t),
                 !.opposite_odds_bps = market[ticket[t].market].odds[Opposite(ticket[t].side)],
                 !.odds_record = market[ticket[t].market].odds_record]]
  BY DEF CashOutTicket, CashOutAmount
<1> QED BY <1>1, <1>2 DEF NoReceipt

\* No instruction changes the terms of an account that exists.
LEMMA TermsNext ==
    ASSUME NumberingInv, [Instruction]_vars
    PROVE  NumberingInv' /\ TermsKept
<1>0. BookInv /\ BookInv' /\ MarketsAreNumbered /\ TicketsHaveMarkets
  BY BookInvNext DEF NumberingInv
<1>1. /\ house \in House /\ market \in [MarketIds -> Market]
      /\ ticket \in [TicketIds -> Ticket] /\ receipt \in [TicketIds -> CashOutReceipt]
      /\ house.market_count \in Nat /\ NumMarkets \in Nat
  BY <1>0, BoundsAssumption DEF BookInv, TypeOK, House
<1> DEFINE Kept == MarketsAreNumbered' /\ TicketsHaveMarkets' /\ TermsKept
<1> USE DEF TermsKept
<1>2. ASSUME NEW params \in HouseParams, InitializeHouse(params)
      PROVE  Kept
  <2>1. ~house.initialized /\ house'.market_count = 0
        /\ UNCHANGED <<market, ticket, receipt>> /\ house'.initialized
    BY <1>2 DEF InitializeHouse, NoHouse
  <2>2. house.market_count = 0
    BY <1>0, <2>1 DEF MarketsAreNumbered
  <2> QED BY <1>0, <2>1, <2>2
          DEF MarketsAreNumbered, TicketsHaveMarkets, HouseTermsKept, MarketTermsKept,
              TicketTermsKept, ReceiptTermsKept
\* Instructions that leave the numbering and the terms of the accounts alone.
<1>3. ASSUME house'.initialized = house.initialized,
             house'.market_count = house.market_count,
             house'.margin_bps = house.margin_bps,
             \A m \in MarketIds : /\ market'[m].state = "Vacant" <=> market[m].state = "Vacant"
                                  /\ market'[m].fixture_id = market[m].fixture_id
                                  /\ market'[m].params = market[m].params,
             TicketTermsKept, ReceiptTermsKept,
             \A t \in TicketIds :
               ticket[t].state = "Vacant" /\ ticket'[t].state # "Vacant" =>
                 market[ticket'[t].market].state # "Vacant" /\ ticket'[t].market \in MarketIds
      PROVE  Kept
  <2>1. MarketsAreNumbered'
    BY <1>0, <1>3 DEF MarketsAreNumbered
  <2>2. TicketsHaveMarkets'
    <3>1. \A t \in TicketIds : ticket[t].state # "Vacant" => ticket[t].market \in MarketIds
      BY <1>0 DEF BookInv, TicketsAreSound
    <3> QED BY <1>0, <1>3, <3>1 DEF TicketsHaveMarkets, TicketTermsKept
  <2> QED BY <1>3, <2>1, <2>2 DEF HouseTermsKept, MarketTermsKept
<1>4. ASSUME UNCHANGED <<house, market, ticket, receipt>>
      PROVE  Kept
  <2>1. TicketTermsKept /\ ReceiptTermsKept
    BY <1>4 DEF TicketTermsKept, ReceiptTermsKept
  <2> QED BY <1>3, <1>4, <2>1
<1>5. ASSUME NEW f \in Fixtures, NEW p \in Predicates, NEW k \in Nat, CreateMarket(f, p, k)
      PROVE  Kept
  <2> DEFINE n == house.market_count
  <2>1. /\ house.initialized /\ house'.initialized /\ house'.market_count = n + 1
        /\ house'.margin_bps = house.margin_bps
    BY <1>1, <1>5 DEF CreateMarket, House
  <2>2. /\ n \in MarketIds
        /\ market'[n].state = "Open"
        /\ \A m \in MarketIds : m # n => market'[m] = market[m]
        /\ UNCHANGED <<ticket, receipt>>
    BY <1>1, <1>5 DEF CreateMarket, NoMarket, MarketIds
  <2>3. market[n].state = "Vacant"
    BY <1>0, <1>1, <2>2 DEF MarketsAreNumbered
  <2>4. MarketsAreNumbered'
    <3>1. \A m \in MarketIds : m >= n + 1 <=> (m >= n /\ m # n)
      BY <1>1 DEF MarketIds
    <3> QED BY <1>0, <2>1, <2>2, <3>1 DEF MarketsAreNumbered
  <2>5. TicketsHaveMarkets'
    <3>1. \A t \in TicketIds : ticket[t].state # "Vacant" => ticket[t].market \in MarketIds
      BY <1>0 DEF BookInv, TicketsAreSound
    <3> QED BY <1>0, <2>2, <3>1 DEF TicketsHaveMarkets
  <2>6. MarketTermsKept
    BY <2>2, <2>3 DEF MarketTermsKept
  <2> QED BY <2>1, <2>2, <2>4, <2>5, <2>6
          DEF HouseTermsKept, TicketTermsKept, ReceiptTermsKept
\* Instructions on one market.
<1>6. ASSUME NEW m \in MarketIds, market[m].state # "Vacant",
             UNCHANGED <<house, ticket, receipt>>,
             \A n \in MarketIds : n # m => market'[n] = market[n],
             market'[m].state # "Vacant", market'[m].fixture_id = market[m].fixture_id,
             market'[m].params = market[m].params
      PROVE  Kept
  <2>1. TicketTermsKept /\ ReceiptTermsKept
    BY <1>6 DEF TicketTermsKept, ReceiptTermsKept
  <2>2. \A n \in MarketIds : /\ market'[n].state = "Vacant" <=> market[n].state = "Vacant"
                             /\ market'[n].fixture_id = market[n].fixture_id
                             /\ market'[n].params = market[n].params
    BY <1>6
  <2> QED BY <1>3, <1>6, <2>1, <2>2
<1>7. ASSUME NEW m \in MarketIds, NEW q \in [Sides -> Nat], NEW r \in RecordIds, PostQuote(m, q, r)
      PROVE  Kept
  <2>1. /\ market[m].state = "Open" /\ UNCHANGED <<house, ticket, receipt>>
        /\ \A n \in MarketIds : n # m => market'[n] = market[n]
    BY <1>1, <1>7 DEF PostQuote
  <2>2. /\ market'[m].state = market[m].state
        /\ market'[m].fixture_id = market[m].fixture_id
        /\ market'[m].params = market[m].params
    BY <1>1, <1>7 DEF PostQuote, Market
  <2> QED BY <1>6, <2>1, <2>2
<1>8. ASSUME NEW m \in MarketIds, NEW s \in MarketState, s # "Vacant",
             market[m].state # "Vacant", UNCHANGED <<house, ticket, receipt>>,
             market' = [market EXCEPT ![m] = [@ EXCEPT !.state = s]]
      PROVE  Kept
  <2>1. /\ \A n \in MarketIds : n # m => market'[n] = market[n]
        /\ market'[m].state = s
        /\ market'[m].fixture_id = market[m].fixture_id
        /\ market'[m].params = market[m].params
    BY <1>1, <1>8 DEF Market
  <2> QED BY <1>6, <1>8, <2>1
<1>9. ASSUME NEW m \in MarketIds, LockMarket(m)
      PROVE  Kept
  BY <1>8, <1>9 DEF LockMarket, MarketState
<1>10. ASSUME NEW m \in MarketIds, NEW proof \in ScoreProofs, VerifyMarket(m, proof)
       PROVE  Kept
  BY <1>8, <1>10 DEF VerifyMarket, MarketState
<1>11. ASSUME NEW m \in MarketIds, NEW byAuthority \in BOOLEAN, VoidMarket(m, byAuthority)
       PROVE  Kept
  BY <1>8, <1>11 DEF VoidMarket, Voidable, MarketState
<1>12. ASSUME NEW t \in TicketIds, NEW m \in MarketIds, NEW s \in Sides, NEW stake \in Amount,
              PlaceBet(t, m, s, stake)
       PROVE  Kept
  <2>1. TicketTermsKept /\ ReceiptTermsKept
    BY <1>0, <1>12, PlaceBetEffect DEF TicketTermsKept, ReceiptTermsKept
  <2> QED BY <1>0, <1>3, <1>12, <2>1, PlaceBetEffect
\* Instructions that close a ticket.
<1>13. ASSUME NEW t \in TicketIds, ticket[t].state # "Vacant",
              NEW s \in TicketState, s # "Vacant", Close(t, s), UNCHANGED market,
              house'.initialized = house.initialized,
              house'.market_count = house.market_count,
              house'.margin_bps = house.margin_bps,
              ReceiptTermsKept
       PROVE  Kept
  <2>1. TicketTermsKept
    BY <1>0, <1>13, CloseEffect DEF BookInv, TicketTermsKept
  <2>2. \A u \in TicketIds : ticket[u].state = "Vacant" => ticket'[u].state = "Vacant"
    BY <1>0, <1>13, CloseEffect DEF BookInv
  <2> QED BY <1>3, <1>13, <2>1, <2>2
<1>14. ASSUME NEW t \in TicketIds, ReleaseExposure(t)
       PROVE  /\ house'.initialized = house.initialized
              /\ house'.market_count = house.market_count
              /\ house'.margin_bps = house.margin_bps
  BY <1>1, <1>14 DEF ReleaseExposure, House
<1>15. ASSUME NEW t \in TicketIds, CashOutTicket(t)
       PROVE  Kept
  <2>1. ReceiptTermsKept
    BY <1>0, <1>15, CashOutEffect DEF ReceiptTermsKept
  <2> QED BY <1>0, <1>13, <1>14, <1>15, <2>1, CashOutEffect DEF TicketState
<1>16. ASSUME NEW t \in TicketIds, SettleTicket(t)
       PROVE  Kept
  <2>1. ReceiptTermsKept
    BY <1>16 DEF SettleTicket, ReceiptTermsKept
  <2> QED BY <1>13, <1>14, <1>16, <2>1 DEF SettleTicket, TicketState
<1>17. ASSUME NEW t \in TicketIds, RefundTicket(t)
       PROVE  Kept
  <2>1. ReceiptTermsKept
    BY <1>17 DEF RefundTicket, ReceiptTermsKept
  <2>2. /\ house'.initialized = house.initialized
        /\ house'.market_count = house.market_count
        /\ house'.margin_bps = house.margin_bps
    BY <1>1, <1>17 DEF RefundTicket, House
  <2>3. /\ ticket[t].state # "Vacant" /\ Close(t, "Refunded") /\ UNCHANGED market
    BY <1>17 DEF RefundTicket
  <2> QED BY <1>13, <2>1, <2>2, <2>3 DEF TicketState
<1>18. ASSUME NEW t \in TicketIds, AuditTicket(t)
       PROVE  Kept
  <2>1. ticket[t].state # "Vacant" /\ ticket'[t].state # "Vacant"
    BY <1>0, <1>18, AuditTicketEffect DEF AuditTicket
  <2>2. TicketTermsKept /\ ReceiptTermsKept
    BY <1>0, <1>18, <2>1, AuditTicketEffect DEF TicketTermsKept, ReceiptTermsKept
  <2>3. \A u \in TicketIds : ticket[u].state = "Vacant" => ticket'[u].state = "Vacant"
    BY <1>0, <1>18, <2>1, AuditTicketEffect
  <2> QED BY <1>0, <1>3, <1>18, <2>2, <2>3, AuditTicketEffect
<1>19. ASSUME ReceiptTermsKept, UNCHANGED <<house, market, ticket>>
       PROVE  Kept
  <2>1. TicketTermsKept
    BY <1>19 DEF TicketTermsKept
  <2> QED BY <1>3, <1>19, <2>1
<1>20. ASSUME NEW t \in TicketIds, NEW a \in Auditors, DecideCashOut(t, a)
       PROVE  Kept
  <2>1. ReceiptTermsKept
    BY <1>0, <1>20, AuditCashOutEffect DEF ReceiptTermsKept
  <2> QED BY <1>0, <1>19, <1>20, <2>1, AuditCashOutEffect
<1>21. ASSUME NEW t \in TicketIds, ClaimCashOutRepair(t)
       PROVE  Kept
  <2>1. ReceiptTermsKept
    BY <1>0, <1>21, ClaimEffect DEF ReceiptTermsKept
  <2> QED BY <1>0, <1>19, <1>21, <2>1, ClaimEffect
<1>22. ASSUME \/ \E amount \in Amount : DepositLiquidity(amount) \/ WithdrawLiquidity(amount)
              \/ Tick
              \/ UNCHANGED vars
       PROVE  Kept
  BY <1>4, <1>22 DEF DepositLiquidity, WithdrawLiquidity, Tick, vars, accounts
<1> HIDE DEF Kept
<1>23. Kept
  BY <1>2, <1>5, <1>7, <1>9, <1>10, <1>11, <1>12, <1>15, <1>16, <1>17, <1>18, <1>20,
     <1>21, <1>22 DEF Instruction, AuditCashOut
<1> QED BY <1>0, <1>23 DEF Kept, NumberingInv

-----------------------------------------------------------------------------
(* Verdicts.                                                               *)

\* Every verdict is the one an audit would reach now.
VerdictsAreRight ==
    \A t \in TicketIds :
        /\ ticket[t].state = "Vacant" => ticket[t].audit_status = "Unaudited"
        /\ ticket[t].audit_status = "Honest" => TicketIsHonest(t)
        /\ ticket[t].audit_status = "Violation" => ~TicketIsHonest(t)
        /\ ~receipt[t].exists => receipt[t].audit_status = "Unaudited" /\ ~receipt[t].made_whole
        /\ receipt[t].audit_status = "Honest" => CashOutIsHonest(t)
        /\ receipt[t].audit_status = "Violation" => ~CashOutIsHonest(t)
        /\ receipt[t].made_whole => receipt[t].audit_status = "Violation"
VerdictInv == NumberingInv /\ VerdictsAreRight

\* No verdict has been reached at the start.
LEMMA VerdictInit == Init => VerdictInv
<1>1. Init => VerdictsAreRight
  BY DEF Init, NoTicket, NoReceipt, VerdictsAreRight
<1> QED BY <1>1, NumberingInit DEF VerdictInv

\* What a sold ticket's, or a cash-out's, verdict would be never changes.
LEMMA JudgementsAreFixed ==
    ASSUME NumberingInv, [Instruction]_vars, NEW t \in TicketIds, ticket[t].state # "Vacant"
    PROVE  /\ TicketIsHonest(t)' <=> TicketIsHonest(t)
           /\ receipt[t].exists => (CashOutIsHonest(t)' <=> CashOutIsHonest(t))
           /\ ticket'[t].state # "Vacant"
<1>1. TermsKept
  BY TermsNext
<1>2. /\ market[ticket[t].market].state # "Vacant"
      /\ ticket[t].market \in MarketIds
  BY DEF NumberingInv, BookInv, TicketsHaveMarkets, TicketsAreSound
<1>3. house.initialized
  <2>1. house.market_count \in Nat /\ ticket[t].market \in Nat
    BY <1>2, BoundsAssumption DEF NumberingInv, BookInv, TypeOK, House, MarketIds
  <2> QED BY <1>2, <2>1 DEF NumberingInv, MarketsAreNumbered
<1>4. /\ house'.margin_bps = house.margin_bps
      /\ market'[ticket[t].market].params = market[ticket[t].market].params
  BY <1>1, <1>2, <1>3 DEF TermsKept, HouseTermsKept, MarketTermsKept
<1>5. /\ ticket'[t].state # "Vacant" /\ ticket'[t].market = ticket[t].market
      /\ ticket'[t].side = ticket[t].side
      /\ ticket'[t].quoted_odds_bps = ticket[t].quoted_odds_bps
      /\ ticket'[t].odds_record = ticket[t].odds_record
  BY <1>1 DEF TermsKept, TicketTermsKept
<1>6. receipt[t].exists =>
        /\ receipt'[t].opposite_odds_bps = receipt[t].opposite_odds_bps
        /\ receipt'[t].odds_record = receipt[t].odds_record
  BY <1>1 DEF TermsKept, ReceiptTermsKept
<1> QED BY <1>4, <1>5, <1>6 DEF TicketIsHonest, AuditedRecord, ConsensusPrice, CashOutIsHonest

\* What a step may do to the verdict of a ticket and of a cash-out.
TicketVerdictStep(t) ==
    \/ ticket'[t].audit_status = ticket[t].audit_status
    \/ /\ ticket[t].state # "Vacant"
       /\ TicketIsHonest(t) => ticket'[t].audit_status = "Honest"
       /\ ~TicketIsHonest(t) => ticket'[t].audit_status = "Violation"
SameReceipt(t) == receipt'[t] = receipt[t]
NewReceipt(t) ==
    /\ ~receipt[t].exists /\ receipt'[t].exists
    /\ receipt'[t].audit_status = "Unaudited" /\ ~receipt'[t].made_whole
    /\ receipt'[t].shortfall_owed = 0 /\ ticket[t].state = "Live"
    /\ receipt'[t].paid_amount \in 0..ticket[t].potential_payout
RepairedReceipt(t) ==
    /\ receipt[t].exists /\ receipt'[t].exists
    /\ receipt'[t].paid_amount = receipt[t].paid_amount
    /\ receipt'[t].audit_status = receipt[t].audit_status
    /\ receipt'[t].auditor = receipt[t].auditor
    /\ receipt'[t].shortfall_owed = receipt[t].shortfall_owed
    /\ receipt[t].audit_status = "Violation" /\ receipt'[t].made_whole
AuditedReceipt(t) ==
    /\ receipt[t].exists /\ receipt'[t].exists
    /\ receipt'[t].paid_amount = receipt[t].paid_amount
    /\ receipt'[t].made_whole = receipt[t].made_whole
    /\ CashOutIsHonest(t) => /\ receipt'[t].audit_status = "Honest"
                             /\ receipt'[t].auditor = receipt[t].auditor
                             /\ receipt'[t].shortfall_owed = receipt[t].shortfall_owed
    /\ ~CashOutIsHonest(t) =>
         /\ receipt[t].audit_status # "Violation"
         /\ receipt'[t].audit_status = "Violation"
         /\ receipt'[t].shortfall_owed = SaturatingSub(CashOutFloor(t), receipt[t].paid_amount)
         /\ CashOutFloor(t) \in 0..ticket[t].potential_payout
ReceiptStep(t) ==
    SameReceipt(t) \/ NewReceipt(t) \/ RepairedReceipt(t) \/ AuditedReceipt(t)

\* All that an instruction can do to the verdict of a ticket and to a receipt.
LEMMA VerdictSteps ==
    ASSUME BookInv, VerdictsAreRight, [Instruction]_vars, NEW t \in TicketIds
    PROVE  TicketVerdictStep(t) /\ ReceiptStep(t)
<1>1. ticket \in [TicketIds -> Ticket] /\ receipt \in [TicketIds -> CashOutReceipt]
  BY DEF BookInv, TypeOK
<1>2. ASSUME UNCHANGED <<ticket, receipt>>
      PROVE  TicketVerdictStep(t) /\ ReceiptStep(t)
  BY <1>2 DEF TicketVerdictStep, ReceiptStep, SameReceipt
<1>3. ASSUME NEW u \in TicketIds, NEW m \in MarketIds, NEW s \in Sides, NEW stake \in Amount,
             PlaceBet(u, m, s, stake)
      PROVE  TicketVerdictStep(t) /\ ReceiptStep(t)
  BY <1>3, PlaceBetEffect
     DEF VerdictsAreRight, TicketVerdictStep, ReceiptStep, SameReceipt
<1>4. ASSUME NEW u \in TicketIds, CashOutTicket(u)
      PROVE  TicketVerdictStep(t) /\ ReceiptStep(t)
  <2>1. ticket'[t].audit_status = ticket[t].audit_status
    BY <1>4, CashOutEffect, CloseEffect DEF BookInv, TicketState
  <2>2. ReceiptStep(t)
    BY <1>4, CashOutEffect, CashOutBound DEF ReceiptStep, SameReceipt, NewReceipt
  <2> QED BY <2>1, <2>2 DEF TicketVerdictStep
<1>5. ASSUME NEW u \in TicketIds, SettleTicket(u) \/ RefundTicket(u)
      PROVE  TicketVerdictStep(t) /\ ReceiptStep(t)
  <2>1. PICK s \in TicketState : Close(u, s) /\ UNCHANGED receipt
    BY <1>5 DEF SettleTicket, RefundTicket, TicketState
  <2>2. ticket'[t].audit_status = ticket[t].audit_status
    BY <2>1, CloseEffect DEF BookInv
  <2> QED BY <2>1, <2>2 DEF TicketVerdictStep, ReceiptStep, SameReceipt
<1>6. ASSUME NEW u \in TicketIds, AuditTicket(u)
      PROVE  TicketVerdictStep(t) /\ ReceiptStep(t)
  <2>1. receipt' = receipt /\ ticket[u].state # "Vacant"
    BY <1>6, AuditTicketEffect DEF AuditTicket
  <2>2. TicketVerdictStep(t)
    BY <1>6, <2>1, AuditTicketEffect DEF TicketVerdictStep
  <2> QED BY <2>1, <2>2 DEF ReceiptStep, SameReceipt
<1>7. ASSUME NEW u \in TicketIds, NEW a \in Auditors, DecideCashOut(u, a)
      PROVE  TicketVerdictStep(t) /\ ReceiptStep(t)
  <2>1. ticket' = ticket /\ receipt[u].exists
        /\ \A v \in TicketIds : v # u => receipt'[v] = receipt[v]
    BY <1>7, AuditCashOutEffect
  <2>2. CASE t = u
    BY <1>7, <2>1, <2>2, AuditCashOutEffect, CashOutFloorBound
       DEF TicketVerdictStep, ReceiptStep, AuditedReceipt
  <2>3. CASE t # u
    BY <2>1, <2>3 DEF TicketVerdictStep, ReceiptStep, SameReceipt
  <2> QED BY <2>2, <2>3
<1>8. ASSUME NEW u \in TicketIds, ClaimCashOutRepair(u)
      PROVE  TicketVerdictStep(t) /\ ReceiptStep(t)
  BY <1>8, ClaimEffect DEF TicketVerdictStep, ReceiptStep, SameReceipt, RepairedReceipt
<1>9. ASSUME \/ \E params \in HouseParams : InitializeHouse(params)
             \/ \E amount \in Amount : DepositLiquidity(amount) \/ WithdrawLiquidity(amount)
             \/ \E f \in Fixtures, p \in Predicates, k \in Nat : CreateMarket(f, p, k)
             \/ \E m \in MarketIds, q \in [Sides -> Nat], r \in RecordIds : PostQuote(m, q, r)
             \/ \E m \in MarketIds : LockMarket(m)
             \/ \E m \in MarketIds, proof \in ScoreProofs : VerifyMarket(m, proof)
             \/ \E m \in MarketIds, byAuthority \in BOOLEAN : VoidMarket(m, byAuthority)
             \/ Tick
             \/ UNCHANGED vars
      PROVE  TicketVerdictStep(t) /\ ReceiptStep(t)
  BY <1>2, <1>9 DEF InitializeHouse, DepositLiquidity, WithdrawLiquidity, CreateMarket,
       PostQuote, LockMarket, VerifyMarket, VoidMarket, Tick, vars, accounts
<1> QED BY <1>3, <1>4, <1>5, <1>6, <1>7, <1>8, <1>9 DEF Instruction, AuditCashOut

\* An audit can only reach the verdict already recorded.
LEMMA VerdictNext ==
    ASSUME VerdictInv, [Instruction]_vars
    PROVE  VerdictInv' /\ KeepsVerdicts
<1>0. NumberingInv /\ NumberingInv' /\ BookInv /\ BookInv' /\ VerdictsAreRight
  BY TermsNext DEF VerdictInv, NumberingInv
<1>1. ASSUME NEW t \in TicketIds
      PROVE  /\ ticket'[t].state = "Vacant" => ticket'[t].audit_status = "Unaudited"
             /\ ticket'[t].audit_status = "Honest" => TicketIsHonest(t)'
             /\ ticket'[t].audit_status = "Violation" => ~TicketIsHonest(t)'
             /\ ticket[t].audit_status # "Unaudited" =>
                  ticket'[t].audit_status = ticket[t].audit_status
  <2>1. TicketVerdictStep(t)
    BY <1>0, VerdictSteps
  <2>2. ticket[t].audit_status \in AuditStatus
    BY <1>0 DEF BookInv, TypeOK, Ticket
  <2>3. CASE ticket[t].state = "Vacant"
    BY <1>0, <2>1, <2>3 DEF VerdictsAreRight, TicketVerdictStep
  <2>4. CASE ticket[t].state # "Vacant"
    <3>1. (TicketIsHonest(t)' <=> TicketIsHonest(t)) /\ ticket'[t].state # "Vacant"
      BY <1>0, <2>4, JudgementsAreFixed
    <3> QED BY <1>0, <2>1, <2>2, <3>1 DEF VerdictsAreRight, TicketVerdictStep, AuditStatus
  <2> QED BY <2>3, <2>4
<1>2. ASSUME NEW t \in TicketIds
      PROVE  /\ ~receipt'[t].exists =>
                  receipt'[t].audit_status = "Unaudited" /\ ~receipt'[t].made_whole
             /\ receipt'[t].audit_status = "Honest" => CashOutIsHonest(t)'
             /\ receipt'[t].audit_status = "Violation" => ~CashOutIsHonest(t)'
             /\ receipt'[t].made_whole => receipt'[t].audit_status = "Violation"
             /\ receipt[t].audit_status # "Unaudited" =>
                  /\ receipt'[t].audit_status = receipt[t].audit_status
                  /\ receipt'[t].auditor = receipt[t].auditor
                  /\ receipt'[t].shortfall_owed = receipt[t].shortfall_owed
  <2>1. ReceiptStep(t)
    BY <1>0, VerdictSteps
  <2>2. receipt[t].audit_status \in AuditStatus
    BY <1>0 DEF BookInv, TypeOK, CashOutReceipt
  <2>3. CASE ~receipt[t].exists
    BY <1>0, <2>1, <2>3 DEF VerdictsAreRight, ReceiptStep, SameReceipt, NewReceipt,
       RepairedReceipt, AuditedReceipt
  <2>4. CASE receipt[t].exists
    <3>1. ticket[t].state # "Vacant"
      BY <1>0, <2>4 DEF BookInv, TicketsAreSound
    <3>2. CashOutIsHonest(t)' <=> CashOutIsHonest(t)
      BY <1>0, <2>4, <3>1, JudgementsAreFixed
    <3>3. CASE SameReceipt(t)
      BY <1>0, <2>4, <3>2, <3>3 DEF VerdictsAreRight, SameReceipt
    <3>4. CASE RepairedReceipt(t)
      BY <1>0, <2>4, <3>2, <3>4 DEF VerdictsAreRight, RepairedReceipt
    <3>5. CASE AuditedReceipt(t)
      BY <1>0, <2>2, <2>4, <3>2, <3>5 DEF VerdictsAreRight, AuditedReceipt, AuditStatus
    <3> QED BY <2>1, <2>4, <3>3, <3>4, <3>5 DEF ReceiptStep, NewReceipt
  <2> QED BY <2>3, <2>4
<1> QED BY <1>0, <1>1, <1>2 DEF VerdictInv, VerdictsAreRight, KeepsVerdicts

\* No later audit, of anyone's, overturns a verdict, whatever the market quotes
\* by then, and the prover of a cash-out violation and what the bettor is owed
\* are never replaced.
THEOREM VerdictFinality == Spec => VerdictsAreFinal
<1>1. Init => VerdictInv
  BY VerdictInit
<1>2. VerdictInv /\ [Next]_vars => VerdictInv'
  BY NextIsInstruction, VerdictNext
<1>3. VerdictInv /\ [Next]_vars => [KeepsVerdicts]_vars
  BY NextIsInstruction, VerdictNext
<1> QED BY <1>1, <1>2, <1>3, PTL DEF Spec, VerdictsAreFinal

-----------------------------------------------------------------------------
(* Payments.                                                               *)

\* A cash-out and its repair together are worth no more than the payout.
ReceiptsAreBounded ==
    \A t \in TicketIds :
        receipt[t].paid_amount + receipt[t].shortfall_owed <= ticket[t].potential_payout
PaymentInv == VerdictInv /\ PaidOnce /\ ReceiptsAreBounded

\* Nothing is paid and nothing is due at the start.
LEMMA PaymentInit == Init => PaymentInv
<1>1. Init => PaidOnce
  BY DEF Init, NoTicket, PaidOnce, Due
<1>2. Init => ReceiptsAreBounded
  BY DEF Init, NoTicket, NoReceipt, ReceiptsAreBounded
<1> QED BY <1>1, <1>2, VerdictInit DEF PaymentInv

\* No instruction makes a receipt promise more than the ticket's payout.
LEMMA ReceiptsBoundedNext ==
    ASSUME VerdictInv, ReceiptsAreBounded, [Instruction]_vars
    PROVE  ReceiptsAreBounded'
<1>0. BookInv /\ BookInv' /\ NumberingInv /\ VerdictsAreRight
  BY BookInvNext DEF VerdictInv, NumberingInv
<1> SUFFICES ASSUME NEW t \in TicketIds
             PROVE  receipt'[t].paid_amount + receipt'[t].shortfall_owed
                      <= ticket'[t].potential_payout
  BY DEF ReceiptsAreBounded
<1>1. /\ receipt[t].paid_amount \in Nat /\ receipt[t].shortfall_owed \in Nat
      /\ ticket[t].potential_payout \in Nat /\ ticket'[t].potential_payout \in Nat
      /\ receipt[t].paid_amount + receipt[t].shortfall_owed <= ticket[t].potential_payout
  BY <1>0, ConstantTypes DEF BookInv, TypeOK, CashOutReceipt, Ticket, ReceiptsAreBounded
<1>2. ticket[t].potential_payout <= ticket'[t].potential_payout
  <2>1. CASE ticket[t].state = "Vacant"
    BY <1>0, <1>1, <2>1 DEF BookInv, TicketsAreSound
  <2>2. CASE ticket[t].state # "Vacant"
    BY <1>0, <1>1, <2>2, TermsNext DEF TermsKept, TicketTermsKept
  <2> QED BY <2>1, <2>2
<1>3. ReceiptStep(t)
  BY <1>0, VerdictSteps
<1>4. CASE SameReceipt(t) \/ RepairedReceipt(t)
  BY <1>1, <1>2, <1>4 DEF SameReceipt, RepairedReceipt
<1>5. CASE NewReceipt(t)
  BY <1>1, <1>2, <1>5 DEF NewReceipt
<1>6. CASE AuditedReceipt(t)
  BY <1>1, <1>2, <1>6 DEF AuditedReceipt, SaturatingSub
<1> QED BY <1>3, <1>4, <1>5, <1>6 DEF ReceiptStep

\* Every instruction pays a bettor exactly what it makes the ticket's state due.
LEMMA PaidOnceNext ==
    ASSUME VerdictInv, PaidOnce, [Instruction]_vars
    PROVE  PaidOnce'
<1>0. BookInv /\ BookInv' /\ VerdictsAreRight
  BY BookInvNext DEF VerdictInv, NumberingInv
<1>1. /\ ticket \in [TicketIds -> Ticket] /\ paid \in [TicketIds -> Nat]
      /\ receipt \in [TicketIds -> CashOutReceipt]
      /\ \A t \in TicketIds :
           /\ ticket[t].potential_payout \in Nat /\ ticket[t].stake \in Nat
           /\ receipt[t].paid_amount \in Nat /\ receipt[t].shortfall_owed \in Nat
  <2>1. /\ ticket \in [TicketIds -> Ticket] /\ paid \in [TicketIds -> Nat]
        /\ receipt \in [TicketIds -> CashOutReceipt]
    BY <1>0 DEF BookInv, TypeOK
  <2>2. \A t \in TicketIds : ticket[t].potential_payout \in Nat /\ ticket[t].stake \in Nat
    BY <2>1, ConstantTypes DEF Ticket
  <2>3. \A t \in TicketIds :
          receipt[t].paid_amount \in Nat /\ receipt[t].shortfall_owed \in Nat
    BY <2>1, ConstantTypes DEF CashOutReceipt
  <2> QED BY <2>1, <2>2, <2>3
<1>2. \A t \in TicketIds : paid[t] = Due(t)
  BY DEF PaidOnce
\* A step that touches one ticket leaves what the others are due alone.
<1>3. ASSUME NEW t \in TicketIds,
             \A u \in TicketIds : u # t =>
               /\ ticket'[u] = ticket[u] /\ receipt'[u] = receipt[u] /\ paid'[u] = paid[u],
             paid'[t] = Due(t)'
      PROVE  PaidOnce'
  <2>1. ASSUME NEW u \in TicketIds
        PROVE  paid'[u] = Due(u)'
    <3>1. CASE u = t
      BY <1>3, <3>1
    <3>2. CASE u # t
      <4>1. Due(u)' = Due(u)
        BY <1>3, <3>2 DEF Due
      <4> QED BY <1>2, <1>3, <3>2, <4>1
    <3> QED BY <3>1, <3>2
  <2> QED BY <2>1 DEF PaidOnce
<1>4. ASSUME UNCHANGED <<ticket, receipt, paid>>
      PROVE  PaidOnce'
  BY <1>2, <1>4 DEF PaidOnce, Due
<1>5. ASSUME NEW t \in TicketIds, NEW m \in MarketIds, NEW s \in Sides, NEW stake \in Amount,
             PlaceBet(t, m, s, stake)
      PROVE  PaidOnce'
  <2>1. /\ ticket[t].state = "Vacant" /\ ticket'[t].state = "Live"
        /\ UNCHANGED <<receipt, paid>>
        /\ \A u \in TicketIds : u # t => ticket'[u] = ticket[u]
    BY <1>0, <1>5, PlaceBetEffect
  <2>2. paid'[t] = Due(t)'
    BY <1>2, <2>1 DEF Due
  <2> QED BY <1>3, <2>1, <2>2
<1>6. ASSUME NEW t \in TicketIds, CashOutTicket(t)
      PROVE  PaidOnce'
  <2>1. /\ ticket[t].state = "Live" /\ Close(t, "CashedOut") /\ PayBettor(t, CashOutAmount(t))
        /\ CashOutAmount(t) \in Nat
        /\ \A u \in TicketIds : u # t => receipt'[u] = receipt[u]
        /\ receipt'[t].paid_amount = CashOutAmount(t) /\ ~receipt'[t].made_whole
    BY <1>0, <1>1, <1>6, CashOutEffect, CashOutBound
  <2>2. /\ ticket'[t].state = "CashedOut"
        /\ \A u \in TicketIds : u # t => ticket'[u] = ticket[u]
    BY <1>0, <2>1, CloseEffect DEF BookInv, TicketState
  <2>3. /\ paid'[t] = paid[t] + CashOutAmount(t)
        /\ \A u \in TicketIds : u # t => paid'[u] = paid[u]
    BY <1>0, <2>1, PayBettorEffect DEF BookInv
  <2>4. paid[t] = 0
    BY <1>2, <2>1 DEF Due
  <2>5. paid'[t] = Due(t)'
    BY <2>1, <2>2, <2>3, <2>4 DEF Due
  <2> QED BY <1>3, <2>1, <2>2, <2>3, <2>5
<1>7. ASSUME NEW t \in TicketIds, SettleTicket(t)
      PROVE  PaidOnce'
  <2>1. ticket[t].state = "Live" /\ UNCHANGED receipt
    BY <1>7 DEF SettleTicket
  <2>2. paid[t] = 0
    BY <1>2, <2>1 DEF Due
  <2>3. CASE PayBettor(t, ticket[t].potential_payout) /\ Close(t, "Won")
    <3>1. /\ ticket'[t].state = "Won"
          /\ ticket'[t].potential_payout = ticket[t].potential_payout
          /\ \A u \in TicketIds : u # t => ticket'[u] = ticket[u]
      BY <1>0, <2>3, CloseEffect DEF BookInv, TicketState
    <3>2. /\ paid'[t] = paid[t] + ticket[t].potential_payout
          /\ \A u \in TicketIds : u # t => paid'[u] = paid[u]
      BY <1>0, <1>1, <2>3, PayBettorEffect DEF BookInv
    <3>3. paid'[t] = Due(t)'
      BY <1>1, <2>2, <3>1, <3>2 DEF Due
    <3> QED BY <1>3, <2>1, <3>1, <3>2, <3>3
  <2>4. CASE Close(t, "Lost") /\ UNCHANGED paid
    <3>1. /\ ticket'[t].state = "Lost"
          /\ \A u \in TicketIds : u # t => ticket'[u] = ticket[u]
      BY <1>0, <2>4, CloseEffect DEF BookInv, TicketState
    <3>2. paid'[t] = Due(t)'
      BY <2>2, <2>4, <3>1 DEF Due
    <3> QED BY <1>3, <2>1, <2>4, <3>1, <3>2
  <2> QED BY <1>7, <2>3, <2>4 DEF SettleTicket
<1>8. ASSUME NEW t \in TicketIds, RefundTicket(t)
      PROVE  PaidOnce'
  <2>1. /\ ticket[t].state \in {"Live", "Refundable"} /\ UNCHANGED receipt
        /\ PayBettor(t, ticket[t].stake) /\ Close(t, "Refunded")
    BY <1>8 DEF RefundTicket
  <2>2. paid[t] = 0
    BY <1>2, <2>1 DEF Due
  <2>3. /\ ticket'[t].state = "Refunded" /\ ticket'[t].stake = ticket[t].stake
        /\ \A u \in TicketIds : u # t => ticket'[u] = ticket[u]
    BY <1>0, <2>1, CloseEffect DEF BookInv, TicketState
  <2>4. /\ paid'[t] = paid[t] + ticket[t].stake
        /\ \A u \in TicketIds : u # t => paid'[u] = paid[u]
    BY <1>0, <1>1, <2>1, PayBettorEffect DEF BookInv
  <2>5. paid'[t] = Due(t)'
    BY <1>1, <2>2, <2>3, <2>4 DEF Due
  <2> QED BY <1>3, <2>1, <2>3, <2>4, <2>5
<1>9. ASSUME NEW t \in TicketIds, AuditTicket(t)
      PROVE  PaidOnce'
  <2>1. /\ UNCHANGED <<receipt, paid>>
        /\ \A u \in TicketIds : u # t => ticket'[u] = ticket[u]
        /\ ticket'[t].stake = ticket[t].stake
        /\ ticket'[t].potential_payout = ticket[t].potential_payout
        /\ \/ ticket'[t].state = ticket[t].state
           \/ ticket[t].state \in {"Live", "Lost"} /\ ticket'[t].state = "Refundable"
    BY <1>0, <1>9, AuditTicketEffect DEF FlaggedByViolation
  <2>2. Due(t)' = Due(t)
    BY <2>1 DEF Due
  <2> QED BY <1>2, <1>3, <2>1, <2>2
<1>10. ASSUME NEW t \in TicketIds, NEW a \in Auditors, DecideCashOut(t, a)
       PROVE  PaidOnce'
  <2>1. /\ UNCHANGED <<ticket, paid>>
        /\ \A u \in TicketIds : u # t => receipt'[u] = receipt[u]
        /\ receipt'[t].paid_amount = receipt[t].paid_amount
        /\ receipt'[t].made_whole = receipt[t].made_whole
    BY <1>0, <1>10, AuditCashOutEffect DEF ledger
  <2>2. ~receipt[t].made_whole
    BY <1>0, <1>10, AuditCashOutEffect DEF VerdictsAreRight
  <2>3. Due(t)' = Due(t)
    BY <2>1, <2>2 DEF Due
  <2> QED BY <1>2, <1>3, <2>1, <2>3
<1>11. ASSUME NEW t \in TicketIds, ClaimCashOutRepair(t)
       PROVE  PaidOnce'
  <2>1. /\ receipt[t].exists /\ ~receipt[t].made_whole /\ UNCHANGED ticket
        /\ \A u \in TicketIds : u # t => receipt'[u] = receipt[u]
        /\ receipt'[t].paid_amount = receipt[t].paid_amount
        /\ receipt'[t].shortfall_owed = receipt[t].shortfall_owed /\ receipt'[t].made_whole
    BY <1>0, <1>11, ClaimEffect
  <2>2. paid' = [paid EXCEPT ![t] = @ + receipt[t].shortfall_owed]
    BY <1>11 DEF ClaimCashOutRepair
  <2>3. ticket[t].state = "CashedOut"
    BY <1>0, <2>1 DEF BookInv, TicketsAreSound
  <2>4. paid[t] = receipt[t].paid_amount
    BY <1>1, <1>2, <2>1, <2>3 DEF Due
  <2>5. paid'[t] = Due(t)'
    BY <1>1, <2>1, <2>2, <2>3, <2>4 DEF Due
  <2> QED BY <1>1, <1>3, <2>1, <2>2, <2>5
<1>12. ASSUME \/ \E params \in HouseParams : InitializeHouse(params)
              \/ \E amount \in Amount : DepositLiquidity(amount) \/ WithdrawLiquidity(amount)
              \/ \E f \in Fixtures, p \in Predicates, k \in Nat : CreateMarket(f, p, k)
              \/ \E m \in MarketIds, q \in [Sides -> Nat], r \in RecordIds : PostQuote(m, q, r)
              \/ \E m \in MarketIds : LockMarket(m)
              \/ \E m \in MarketIds, proof \in ScoreProofs : VerifyMarket(m, proof)
              \/ \E m \in MarketIds, byAuthority \in BOOLEAN : VoidMarket(m, byAuthority)
              \/ Tick
              \/ UNCHANGED vars
       PROVE  PaidOnce'
  BY <1>4, <1>12 DEF InitializeHouse, DepositLiquidity, WithdrawLiquidity, CreateMarket,
     PostQuote, LockMarket, VerifyMarket, VoidMarket, Tick, vars, accounts, ledger
<1> QED BY <1>5, <1>6, <1>7, <1>8, <1>9, <1>10, <1>11, <1>12 DEF Instruction, AuditCashOut

\* Payments stay exact and bounded together.
LEMMA PaymentNext ==
    ASSUME PaymentInv, [Instruction]_vars
    PROVE  PaymentInv'
  BY VerdictNext, PaidOnceNext, ReceiptsBoundedNext DEF PaymentInv

\* Every bettor is paid exactly what the ticket's state says.
THEOREM PaymentsAreExact == Spec => []PaidOnce
<1>1. PaymentInv => PaidOnce
  BY DEF PaymentInv
<1> QED BY <1>1, NextIsInstruction, PaymentInit, PaymentNext, PTL DEF Spec

\* Exact payments, of bounded receipts, are bounded by the payouts.
LEMMA PaymentIsBounded ==
    ASSUME PaymentInv
    PROVE  NeverOverpaid
<1> SUFFICES ASSUME NEW t \in TicketIds
             PROVE  paid[t] <= ticket[t].potential_payout
  BY DEF NeverOverpaid
<1>1. /\ ticket[t].potential_payout \in Nat /\ ticket[t].stake \in Nat
      /\ receipt[t].paid_amount \in Nat /\ receipt[t].shortfall_owed \in Nat
  BY ConstantTypes
     DEF PaymentInv, VerdictInv, NumberingInv, BookInv, TypeOK, Ticket, CashOutReceipt
<1>2. paid[t] = Due(t)
  BY DEF PaymentInv, PaidOnce
<1>3. receipt[t].paid_amount + receipt[t].shortfall_owed <= ticket[t].potential_payout
  BY DEF PaymentInv, ReceiptsAreBounded
<1>4. ticket[t].state # "Vacant" => ticket[t].stake <= ticket[t].potential_payout
  BY DEF PaymentInv, VerdictInv, NumberingInv, BookInv, TicketsAreSound
<1>5. CASE ticket[t].state = "Won"
  BY <1>1, <1>2, <1>5 DEF Due
<1>6. CASE ticket[t].state = "Refunded"
  BY <1>1, <1>2, <1>4, <1>6 DEF Due
<1>7. CASE ticket[t].state = "CashedOut"
  BY <1>1, <1>2, <1>3, <1>7 DEF Due
<1>8. CASE ticket[t].state \notin {"Won", "Refunded", "CashedOut"}
  BY <1>1, <1>2, <1>8 DEF Due
<1> QED BY <1>5, <1>6, <1>7, <1>8

\* No bettor is paid more than the payout its ticket promised.
THEOREM PaymentsAreBounded == Spec => []NeverOverpaid
  BY NextIsInstruction, PaymentIsBounded, PaymentInit, PaymentNext, PTL DEF Spec

-----------------------------------------------------------------------------
(* Outcomes.                                                               *)

\* A market has an outcome exactly when it is Verified.
OutcomesMatch ==
    \A m \in MarketIds : outcome[m] # "Unverified" <=> market[m].state = "Verified"
OutcomeInv == NumberingInv /\ OutcomesMatch

\* No market is verified at the start.
LEMMA OutcomesInit == Init => OutcomeInv
<1>1. Init => OutcomesMatch
  BY DEF Init, NoMarket, OutcomesMatch
<1> QED BY <1>1, NumberingInit DEF OutcomeInv

\* An outcome is written with the market's move to Verified, and never again.
LEMMA OutcomesNext ==
    ASSUME OutcomeInv, [Instruction]_vars
    PROVE  OutcomeInv' /\ KeepsOutcomes
<1>0. BookInv /\ NumberingInv' /\ NumberingInv /\ MarketsAreNumbered /\ OutcomesMatch
  BY TermsNext DEF OutcomeInv, NumberingInv
<1>1. /\ market \in [MarketIds -> Market]
      /\ outcome \in [MarketIds -> {"Unverified", "Yes", "No"}]
      /\ house.market_count \in Nat
  BY <1>0 DEF BookInv, TypeOK, House
<1> DEFINE Kept == OutcomesMatch' /\ KeepsOutcomes
\* Instructions that take no market from one state to another.
<1>2. ASSUME UNCHANGED outcome, \A m \in MarketIds : market'[m].state = market[m].state
      PROVE  Kept
  BY <1>0, <1>2 DEF OutcomesMatch, KeepsOutcomes
\* Instructions that take one market to another state, and verify it or not.
<1>3. ASSUME NEW m \in MarketIds, market[m].state \notin {"Verified", "Voided"},
             \A n \in MarketIds : n # m =>
               market'[n].state = market[n].state /\ outcome'[n] = outcome[n],
             outcome[m] = "Unverified",
             outcome'[m] # "Unverified" <=> market'[m].state = "Verified"
      PROVE  Kept
  <2>1. OutcomesMatch'
    BY <1>0, <1>3 DEF OutcomesMatch
  <2>2. KeepsOutcomes
    BY <1>0, <1>3, <2>1 DEF OutcomesMatch, KeepsOutcomes
  <2> QED BY <2>1, <2>2
<1>4. ASSUME NEW f \in Fixtures, NEW p \in Predicates, NEW k \in Nat, CreateMarket(f, p, k)
      PROVE  Kept
  <2> DEFINE n == house.market_count
  <2>1. /\ n \in MarketIds /\ UNCHANGED outcome /\ market'[n].state = "Open"
        /\ \A m \in MarketIds : m # n => market'[m].state = market[m].state
    BY <1>1, <1>4, BoundsAssumption DEF CreateMarket, NoMarket, MarketIds
  <2>2. market[n].state = "Vacant" /\ outcome[n] = "Unverified"
    BY <1>0, <1>1, <2>1 DEF MarketsAreNumbered, OutcomesMatch
  <2> QED BY <1>3, <2>1, <2>2
<1>5. ASSUME NEW m \in MarketIds, NEW q \in [Sides -> Nat], NEW r \in RecordIds, PostQuote(m, q, r)
      PROVE  Kept
  <2>1. \A n \in MarketIds : market'[n].state = market[n].state
    BY <1>1, <1>5 DEF PostQuote, Market
  <2> QED BY <1>2, <1>5, <2>1 DEF PostQuote
<1>6. ASSUME NEW t \in TicketIds, NEW m \in MarketIds, NEW s \in Sides, NEW stake \in Amount,
             PlaceBet(t, m, s, stake)
      PROVE  Kept
  BY <1>0, <1>2, <1>6, PlaceBetEffect
<1>7. ASSUME NEW m \in MarketIds, LockMarket(m)
      PROVE  Kept
  <2>1. /\ market[m].state = "Open" /\ market'[m].state = "Locked" /\ UNCHANGED outcome
        /\ \A n \in MarketIds : n # m => market'[n].state = market[n].state
    BY <1>1, <1>7 DEF LockMarket, Market
  <2>2. outcome[m] = "Unverified"
    BY <1>0, <2>1 DEF OutcomesMatch
  <2> QED BY <1>3, <2>1, <2>2
<1>8. ASSUME NEW m \in MarketIds, NEW proof \in ScoreProofs, VerifyMarket(m, proof)
      PROVE  Kept
  <2>1. /\ market[m].state = "Locked" /\ market'[m].state = "Verified"
        /\ \A n \in MarketIds : n # m => market'[n].state = market[n].state
    BY <1>1, <1>8 DEF VerifyMarket, Market
  <2>2. /\ outcome[m] = "Unverified" /\ outcome'[m] # "Unverified"
        /\ \A n \in MarketIds : n # m => outcome'[n] = outcome[n]
    BY <1>1, <1>8 DEF VerifyMarket
  <2> QED BY <1>3, <2>1, <2>2
<1>9. ASSUME NEW m \in MarketIds, NEW byAuthority \in BOOLEAN, VoidMarket(m, byAuthority)
      PROVE  Kept
  <2>1. /\ market[m].state \in {"Open", "Locked"} /\ market'[m].state = "Voided"
        /\ UNCHANGED outcome
        /\ \A n \in MarketIds : n # m => market'[n].state = market[n].state
    BY <1>1, <1>9 DEF VoidMarket, Voidable, Market
  <2>2. outcome[m] = "Unverified"
    BY <1>0, <2>1 DEF OutcomesMatch
  <2> QED BY <1>3, <2>1, <2>2
<1>10. ASSUME UNCHANGED <<market, outcome>>
       PROVE  Kept
  BY <1>2, <1>10
<1>11. ASSUME \/ \E params \in HouseParams : InitializeHouse(params)
              \/ \E amount \in Amount : DepositLiquidity(amount) \/ WithdrawLiquidity(amount)
              \/ \E t \in TicketIds : \/ CashOutTicket(t) \/ SettleTicket(t)
                                      \/ RefundTicket(t) \/ AuditTicket(t)
                                      \/ ClaimCashOutRepair(t)
              \/ \E t \in TicketIds, a \in Auditors : DecideCashOut(t, a)
              \/ Tick
              \/ UNCHANGED vars
       PROVE  Kept
  BY <1>10, <1>11 DEF InitializeHouse, DepositLiquidity, WithdrawLiquidity, CashOutTicket,
     SettleTicket, RefundTicket, AuditTicket, DecideCashOut, ClaimCashOutRepair, Tick, vars,
     accounts
<1> HIDE DEF Kept
<1>12. Kept
  BY <1>4, <1>5, <1>6, <1>7, <1>8, <1>9, <1>11 DEF Instruction, AuditCashOut
<1> QED BY <1>0, <1>12 DEF Kept, OutcomeInv

\* A verified or voided market stays so, with its outcome: no settlement and
\* void of the same market, in whatever order the cranks are called.
THEOREM OutcomeFinality == Spec => OutcomesAreFinal
<1>1. OutcomeInv /\ [Next]_vars => OutcomeInv'
  BY NextIsInstruction, OutcomesNext
<1>2. OutcomeInv /\ [Next]_vars => [KeepsOutcomes]_vars
  BY NextIsInstruction, OutcomesNext
<1> QED BY <1>1, <1>2, OutcomesInit, PTL DEF Spec, OutcomesAreFinal

\* The invariant that relates tickets to markets needs the verdicts, so that no
\* audit changes one, and the outcomes, so that no crank does.
MatchInv == VerdictInv /\ OutcomesMatch /\ TicketsMatchMarkets

\* There is no ticket to contradict a market at the start.
LEMMA MatchInit == Init => MatchInv
<1>1. Init => TicketsMatchMarkets
  BY DEF Init, NoTicket, NoReceipt, TicketsMatchMarkets, TicketMatchesMarket
<1> QED BY <1>1, VerdictInit, OutcomesInit DEF MatchInv, OutcomeInv

\* Every instruction keeps tickets, markets, outcomes and verdicts in one story.
LEMMA MatchNext ==
    ASSUME MatchInv, [Instruction]_vars
    PROVE  MatchInv'
<1>0. /\ VerdictInv /\ VerdictInv' /\ BookInv /\ VerdictsAreRight
      /\ OutcomesMatch /\ OutcomesMatch' /\ KeepsOutcomes
  BY VerdictNext, OutcomesNext DEF MatchInv, VerdictInv, NumberingInv, OutcomeInv
<1>1. /\ ticket \in [TicketIds -> Ticket]
      /\ outcome \in [MarketIds -> {"Unverified", "Yes", "No"}]
      /\ \A t \in TicketIds :
           /\ TicketMatchesMarket(t) /\ ticket[t].side \in Sides
           /\ ticket[t].state # "Vacant" => ticket[t].market \in MarketIds
           /\ receipt[t].exists => ticket[t].state = "CashedOut"
  BY DEF MatchInv, VerdictInv, NumberingInv, BookInv, TypeOK, TicketsAreSound,
         TicketsMatchMarkets, Ticket
\* A ticket that a step does not touch keeps matching: outcomes are final.
<1>2. ASSUME NEW t \in TicketIds, ticket'[t] = ticket[t],
             receipt'[t].exists = receipt[t].exists
      PROVE  TicketMatchesMarket(t)'
  <2> DEFINE m == ticket[t].market
  <2>1. CASE ticket[t].state = "Vacant"
    BY <1>1, <1>2, <2>1 DEF TicketMatchesMarket
  <2>2. CASE ticket[t].state # "Vacant"
    <3>1. m \in MarketIds
      BY <1>1, <2>2
    <3>2. /\ outcome[m] # "Unverified" => outcome'[m] = outcome[m]
          /\ market[m].state = "Voided" => market'[m].state = "Voided"
      BY <1>0, <3>1 DEF KeepsOutcomes
    <3>3. Opposite(ticket[t].side) # "Unverified" /\ ticket[t].side # "Unverified"
      BY <1>1 DEF Opposite, Sides
    <3> QED BY <1>1, <1>2, <3>2, <3>3 DEF TicketMatchesMarket
  <2> QED BY <2>1, <2>2
<1>3. ASSUME NEW u \in TicketIds,
             \A t \in TicketIds : t # u =>
               ticket'[t] = ticket[t] /\ receipt'[t].exists = receipt[t].exists,
             TicketMatchesMarket(u)'
      PROVE  TicketsMatchMarkets'
  BY <1>2, <1>3 DEF TicketsMatchMarkets
<1>4. ASSUME NEW u \in TicketIds, NEW m \in MarketIds, NEW s \in Sides, NEW stake \in Amount,
             PlaceBet(u, m, s, stake)
      PROVE  TicketsMatchMarkets'
  <2>1. /\ ticket[u].state = "Vacant" /\ ticket'[u].state = "Live"
        /\ ticket'[u].audit_status = "Unaudited" /\ UNCHANGED receipt
        /\ \A t \in TicketIds : t # u => ticket'[t] = ticket[t]
    BY <1>0, <1>4, PlaceBetEffect
  <2>2. ~receipt[u].exists
    BY <1>1, <2>1
  <2>3. TicketMatchesMarket(u)'
    BY <2>1, <2>2 DEF TicketMatchesMarket
  <2> QED BY <1>3, <2>1, <2>3
<1>5. ASSUME NEW u \in TicketIds, CashOutTicket(u)
      PROVE  TicketsMatchMarkets'
  <2>1. /\ Close(u, "CashedOut") /\ receipt'[u].exists
        /\ \A t \in TicketIds : t # u => receipt'[t] = receipt[t]
    BY <1>0, <1>5, CashOutEffect
  <2>2. /\ ticket'[u].state = "CashedOut"
        /\ \A t \in TicketIds : t # u => ticket'[t] = ticket[t]
    BY <1>0, <2>1, CloseEffect DEF BookInv, TicketState
  <2>3. TicketMatchesMarket(u)'
    BY <2>1, <2>2 DEF TicketMatchesMarket
  <2> QED BY <1>3, <2>1, <2>2, <2>3
<1>6. ASSUME NEW u \in TicketIds, SettleTicket(u)
      PROVE  TicketsMatchMarkets'
  <2> DEFINE m == ticket[u].market
  <2>1. /\ ticket[u].state = "Live" /\ market[m].state = "Verified"
        /\ UNCHANGED <<market, outcome, receipt>>
    BY <1>6 DEF SettleTicket
  <2>2. PICK s \in {"Won", "Lost"} :
          Close(u, s) /\ (s = "Won" <=> HasWon(u))
    BY <1>6 DEF SettleTicket
  <2>3. /\ ticket'[u].state = s /\ ticket'[u].market = m
        /\ ticket'[u].side = ticket[u].side
        /\ ticket'[u].audit_status = ticket[u].audit_status
        /\ \A t \in TicketIds : t # u => ticket'[t] = ticket[t]
    BY <1>0, <2>2, CloseEffect DEF BookInv, TicketState
  <2>4. outcome[m] \in Sides /\ ticket[u].audit_status # "Violation" /\ ~receipt[u].exists
    BY <1>0, <1>1, <2>1 DEF OutcomesMatch, TicketMatchesMarket, Sides
  <2>5. /\ s = "Won" => outcome[m] = ticket[u].side
        /\ s = "Lost" => outcome[m] = Opposite(ticket[u].side)
    BY <1>1, <2>2, <2>4 DEF HasWon, Opposite, Sides
  <2>6. TicketMatchesMarket(u)'
    BY <2>1, <2>2, <2>3, <2>4, <2>5 DEF TicketMatchesMarket
  <2> QED BY <1>3, <2>1, <2>3, <2>6
<1>7. ASSUME NEW u \in TicketIds, RefundTicket(u)
      PROVE  TicketsMatchMarkets'
  <2>1. /\ \/ ticket[u].state = "Live" /\ market[ticket[u].market].state = "Voided"
           \/ ticket[u].state = "Refundable"
        /\ Close(u, "Refunded") /\ UNCHANGED <<market, outcome, receipt>>
    BY <1>7 DEF RefundTicket
  <2>2. /\ ticket'[u].state = "Refunded" /\ ticket'[u].market = ticket[u].market
        /\ ticket'[u].audit_status = ticket[u].audit_status
        /\ \A t \in TicketIds : t # u => ticket'[t] = ticket[t]
    BY <1>0, <2>1, CloseEffect DEF BookInv, TicketState
  <2>3. TicketMatchesMarket(u)'
    BY <1>1, <2>1, <2>2 DEF TicketMatchesMarket
  <2> QED BY <1>3, <2>1, <2>2, <2>3
<1>8. ASSUME NEW u \in TicketIds, AuditTicket(u)
      PROVE  TicketsMatchMarkets'
  <2>1. /\ UNCHANGED <<market, outcome, receipt>>
        /\ \A t \in TicketIds : t # u => ticket'[t] = ticket[t]
        /\ ticket'[u].market = ticket[u].market /\ ticket'[u].side = ticket[u].side
        /\ TicketIsHonest(u) =>
             ticket'[u].audit_status = "Honest" /\ ticket'[u].state = ticket[u].state
        /\ ~TicketIsHonest(u) =>
             ticket'[u].audit_status = "Violation" /\ ticket'[u].state = StateOnceFlagged(u)
    BY <1>0, <1>8, AuditTicketEffect
  <2>2. ticket[u].audit_status = "Violation" => ~TicketIsHonest(u)
    BY <1>0 DEF VerdictsAreRight
  <2>3. TicketMatchesMarket(u)'
    BY <1>1, <2>1, <2>2 DEF TicketMatchesMarket, StateOnceFlagged, FlaggedByViolation
  <2> QED BY <1>3, <2>1, <2>3
<1>9. ASSUME UNCHANGED ticket, \A t \in TicketIds : receipt'[t].exists = receipt[t].exists
      PROVE  TicketsMatchMarkets'
  BY <1>2, <1>9 DEF TicketsMatchMarkets
<1>10. ASSUME NEW u \in TicketIds, NEW a \in Auditors, DecideCashOut(u, a)
       PROVE  TicketsMatchMarkets'
  BY <1>0, <1>9, <1>10, AuditCashOutEffect
<1>11. ASSUME NEW u \in TicketIds, ClaimCashOutRepair(u)
       PROVE  TicketsMatchMarkets'
  BY <1>0, <1>9, <1>11, ClaimEffect
<1>12. ASSUME \/ \E params \in HouseParams : InitializeHouse(params)
              \/ \E amount \in Amount : DepositLiquidity(amount) \/ WithdrawLiquidity(amount)
              \/ \E f \in Fixtures, p \in Predicates, k \in Nat : CreateMarket(f, p, k)
              \/ \E m \in MarketIds, q \in [Sides -> Nat], r \in RecordIds : PostQuote(m, q, r)
              \/ \E m \in MarketIds : LockMarket(m)
              \/ \E m \in MarketIds, proof \in ScoreProofs : VerifyMarket(m, proof)
              \/ \E m \in MarketIds, byAuthority \in BOOLEAN : VoidMarket(m, byAuthority)
              \/ Tick
              \/ UNCHANGED vars
       PROVE  TicketsMatchMarkets'
  BY <1>9, <1>12 DEF InitializeHouse, DepositLiquidity, WithdrawLiquidity, CreateMarket,
     PostQuote, LockMarket, VerifyMarket, VoidMarket, Tick, vars, accounts
<1>13. TicketsMatchMarkets'
  BY <1>4, <1>5, <1>6, <1>7, <1>8, <1>10, <1>11, <1>12 DEF Instruction, AuditCashOut
<1> QED BY <1>0, <1>13 DEF MatchInv

\* A ticket is won, lost, refundable or refunded only for a reason its market
\* and its verdict give, whatever was called in between.
THEOREM TicketsMatch == Spec => []TicketsMatchMarkets
<1>1. MatchInv => TicketsMatchMarkets
  BY DEF MatchInv
<1> QED BY <1>1, NextIsInstruction, MatchInit, MatchNext, PTL DEF Spec

-----------------------------------------------------------------------------
(* What each market has sold.                                              *)

\* The stakes, and the payouts, of the tickets sold on side s of market m.
IsSoldOn(t, m, s) == ticket[t].market = m /\ ticket[t].side = s
StakesOn(m, s) == [t \in TicketIds |-> IF IsSoldOn(t, m, s) THEN ticket[t].stake ELSE 0]
PayoutsOn(m, s) ==
    [t \in TicketIds |-> IF IsSoldOn(t, m, s) THEN ticket[t].potential_payout ELSE 0]
SideIsSummed(m, s) ==
    /\ market[m].stake[s] = Total(NumTickets, StakesOn(m, s))
    /\ market[m].payout[s] = Total(NumTickets, PayoutsOn(m, s))
    /\ market[m].payout[s] <= house.max_exposure_per_market

\* Nothing has been sold on a market, or for a ticket, that does not exist; so
\* that creating a market, or setting the cap, disturbs no sum.
NothingSoldBefore ==
    /\ \A m \in MarketIds, s \in Sides :
         market[m].state = "Vacant" => market[m].stake[s] = 0 /\ market[m].payout[s] = 0
    /\ \A t \in TicketIds : ticket[t].state = "Vacant" => ticket[t].stake = 0
SalesInv == NumberingInv /\ NothingSoldBefore /\ MarketAggregates

\* MarketAggregates, in terms of those.
LEMMA AggregatesAreSums ==
    MarketAggregates <=> \A m \in MarketIds, s \in Sides : SideIsSummed(m, s)
<1>1. ASSUME MarketAggregates, NEW m \in MarketIds, NEW s \in Sides
      PROVE  SideIsSummed(m, s)
  BY <1>1 DEF MarketAggregates, SideIsSummed, StakesOn, PayoutsOn, IsSoldOn
<1>2. ASSUME \A m \in MarketIds, s \in Sides : SideIsSummed(m, s)
      PROVE  MarketAggregates
  BY <1>2 DEF MarketAggregates, SideIsSummed, StakesOn, PayoutsOn, IsSoldOn
<1> QED BY <1>1, <1>2

\* What was sold has the types that sums are about.
LEMMA SoldTypes ==
    ASSUME BookInv, NEW m \in MarketIds, NEW s \in Sides
    PROVE  /\ StakesOn(m, s) \in [1..NumTickets -> Int]
           /\ PayoutsOn(m, s) \in [1..NumTickets -> Int]
<1>1. \A t \in TicketIds : ticket[t].stake \in Amount /\ ticket[t].potential_payout \in Amount
  BY DEF BookInv, TypeOK, Ticket
<1>2. \A t \in 1..NumTickets : ticket[t].stake \in Int /\ ticket[t].potential_payout \in Int
  <2>1. Amount \subseteq Int
    BY BoundsAssumption DEF Amount
  <2> QED BY <1>1, <2>1 DEF TicketIds
<1>3. TicketIds = 1..NumTickets
  BY DEF TicketIds
<1>4. StakesOn(m, s) \in [1..NumTickets -> Int]
  BY <1>2, <1>3 DEF StakesOn
<1>5. PayoutsOn(m, s) \in [1..NumTickets -> Int]
  BY <1>2, <1>3 DEF PayoutsOn
<1> QED BY <1>4, <1>5

\* No ticket's bet changes in a step.
BetsKept ==
    \A t \in TicketIds :
        /\ ticket'[t].market = ticket[t].market /\ ticket'[t].side = ticket[t].side
        /\ ticket'[t].stake = ticket[t].stake
        /\ ticket'[t].potential_payout = ticket[t].potential_payout
        /\ ticket[t].state # "Vacant" => ticket'[t].state # "Vacant"
\* Nor does what the accounts of the markets say of what they have sold.
SalesKept ==
    /\ \A m \in MarketIds :
         /\ market'[m].stake = market[m].stake /\ market'[m].payout = market[m].payout
         /\ market[m].state # "Vacant" => market'[m].state # "Vacant"
    /\ house'.max_exposure_per_market = house.max_exposure_per_market

\* Where the cap alone may change, and only before anything is sold, and no
\* bet or market account does, all sums stay.
LEMMA SumsStay ==
    ASSUME NothingSoldBefore, MarketAggregates, BetsKept, SalesKept
    PROVE  NothingSoldBefore' /\ MarketAggregates'
<1>1. ASSUME NEW m \in MarketIds, NEW s \in Sides
      PROVE  SideIsSummed(m, s)'
  <2>1. StakesOn(m, s)' = StakesOn(m, s) /\ PayoutsOn(m, s)' = PayoutsOn(m, s)
    BY DEF BetsKept, StakesOn, PayoutsOn, IsSoldOn
  <2> QED BY <2>1, AggregatesAreSums DEF SideIsSummed, SalesKept
<1>2. MarketAggregates'
  BY <1>1 DEF MarketAggregates, SideIsSummed, StakesOn, PayoutsOn, IsSoldOn
<1>3. NothingSoldBefore'
  BY DEF NothingSoldBefore, BetsKept, SalesKept
<1> QED BY <1>2, <1>3

\* An empty book has sold nothing.
LEMMA SalesInit == Init => SalesInv
<1> SUFFICES ASSUME Init
             PROVE  SalesInv
  OBVIOUS
<1>1. NothingSoldBefore
  BY DEF Init, NoMarket, NoTicket, NothingSoldBefore
<1>2. ASSUME NEW m \in MarketIds, NEW s \in Sides
      PROVE  SideIsSummed(m, s)
  <2>1. /\ StakesOn(m, s) = [i \in 1..NumTickets |-> 0]
        /\ PayoutsOn(m, s) = [i \in 1..NumTickets |-> 0]
    BY DEF Init, NoTicket, StakesOn, PayoutsOn, TicketIds
  <2>2. Total(NumTickets, [i \in 1..NumTickets |-> 0]) = 0
    BY TotalOfZeros, BoundsAssumption
  <2>3. /\ market[m].stake[s] = 0 /\ market[m].payout[s] = 0
        /\ house.max_exposure_per_market = 0
    BY DEF Init, NoMarket, NoHouse
  <2> QED BY <2>1, <2>2, <2>3 DEF SideIsSummed
<1> QED BY <1>1, <1>2, NumberingInit, AggregatesAreSums DEF SalesInv

\* A bet adds its stake and payout to one side of one market, and to its sum.
LEMMA SalesOfBet ==
    ASSUME BookInv, NothingSoldBefore, MarketAggregates,
           NEW t \in TicketIds, NEW m \in MarketIds, NEW s \in Sides, NEW stake \in Amount,
           PlaceBet(t, m, s, stake)
    PROVE  NothingSoldBefore' /\ MarketAggregates'
<1> DEFINE payout == potential_payout(stake, market[m].odds[s])
<1>1. /\ ticket[t].state = "Vacant" /\ market[m].state = "Open"
      /\ ticket'[t].state = "Live" /\ ticket'[t].market = m /\ ticket'[t].side = s
      /\ ticket'[t].potential_payout = payout
      /\ \A u \in TicketIds : u # t => ticket'[u] = ticket[u]
      /\ \A n \in MarketIds : market'[n].state = market[n].state
  BY PlaceBetEffect
<1>2. /\ ticket \in [TicketIds -> Ticket] /\ market \in [MarketIds -> Market] /\ house \in House
  BY DEF BookInv, TypeOK
<1>3. ticket'[t].stake = stake
  BY <1>2 DEF PlaceBet, NoTicket
<1>4. stake \in Nat /\ payout \in Nat
  BY ConstantTypes, BetPayout
<1>5. /\ market' = [market EXCEPT ![m] = MarketAfterBet(m, s, stake, payout)]
      /\ house' = [house EXCEPT !.open_exposure = @ + payout, !.total_volume = @ + stake]
      /\ market[m].payout[s] + payout <= house.max_exposure_per_market
  BY DEF PlaceBet
<1> HIDE DEF payout
<1>6. house'.max_exposure_per_market = house.max_exposure_per_market
  BY <1>2, <1>5 DEF House
<1>7. /\ \A n \in MarketIds : n # m => market'[n] = market[n]
      /\ \A z \in Sides : z # s => /\ market'[m].stake[z] = market[m].stake[z]
                                   /\ market'[m].payout[z] = market[m].payout[z]
      /\ market'[m].stake[s] = market[m].stake[s] + stake
      /\ market'[m].payout[s] = market[m].payout[s] + payout
  <2>1. market[m] \in Market /\ market'[m] = MarketAfterBet(m, s, stake, payout)
        /\ \A n \in MarketIds : n # m => market'[n] = market[n]
    BY <1>2, <1>5
  <2>2. market[m].stake \in [Sides -> Amount] /\ market[m].payout \in [Sides -> Amount]
    BY <2>1 DEF Market
  <2>3. /\ MarketAfterBet(m, s, stake, payout).stake = [market[m].stake EXCEPT ![s] = @ + stake]
        /\ MarketAfterBet(m, s, stake, payout).payout = [market[m].payout EXCEPT ![s] = @ + payout]
    BY <2>1 DEF MarketAfterBet, Market
  <2> QED BY <2>1, <2>2, <2>3
<1>8. ticket[t].stake = 0 /\ ticket[t].potential_payout = 0
  BY <1>1 DEF NothingSoldBefore, BookInv, TicketsAreSound
<1>9. ASSUME NEW n \in MarketIds, NEW z \in Sides
      PROVE  SideIsSummed(n, z)'
  <2> DEFINE here == n = m /\ z = s
             v == IF here THEN stake ELSE 0
             w == IF here THEN payout ELSE 0
  <2>1. StakesOn(n, z)[t] = 0 /\ PayoutsOn(n, z)[t] = 0
    BY <1>8 DEF StakesOn, PayoutsOn
  <2>2. /\ StakesOn(n, z)' = [StakesOn(n, z) EXCEPT ![t] = v]
        /\ PayoutsOn(n, z)' = [PayoutsOn(n, z) EXCEPT ![t] = w]
    BY <1>1, <1>3 DEF StakesOn, PayoutsOn, IsSoldOn
  <2>3. v \in Int /\ w \in Int /\ t \in 1..NumTickets /\ NumTickets \in Nat
    BY <1>4, BoundsAssumption DEF TicketIds
  <2>4. SideIsSummed(n, z)
    BY AggregatesAreSums
  <2> HIDE DEF v, w
  <2>5. /\ Total(NumTickets, StakesOn(n, z)') = market[n].stake[z] - 0 + v
        /\ Total(NumTickets, PayoutsOn(n, z)') = market[n].payout[z] - 0 + w
    <3>1. /\ StakesOn(n, z) \in [1..NumTickets -> Int]
          /\ PayoutsOn(n, z) \in [1..NumTickets -> Int]
      BY SoldTypes
    <3>2. /\ Total(NumTickets, [StakesOn(n, z) EXCEPT ![t] = v])
               = Total(NumTickets, StakesOn(n, z)) - StakesOn(n, z)[t] + v
          /\ Total(NumTickets, [PayoutsOn(n, z) EXCEPT ![t] = w])
               = Total(NumTickets, PayoutsOn(n, z)) - PayoutsOn(n, z)[t] + w
      BY <2>3, <3>1, TotalUpdate
    <3> QED BY <2>1, <2>2, <2>4, <3>2 DEF SideIsSummed
  <2>6. /\ market[n].stake[z] \in Nat /\ market[n].payout[z] \in Nat
    BY <1>2, ConstantTypes DEF Market
  <2>7. /\ market'[n].stake[z] = market[n].stake[z] + v
        /\ market'[n].payout[z] = market[n].payout[z] + w
    BY <1>7, <2>6 DEF v, w
  <2>8. market'[n].payout[z] <= house'.max_exposure_per_market
    BY <1>5, <1>6, <1>7, <2>4 DEF SideIsSummed
  <2> QED BY <2>3, <2>5, <2>6, <2>7, <2>8 DEF SideIsSummed
<1>10. MarketAggregates'
  BY <1>9 DEF MarketAggregates, SideIsSummed, StakesOn, PayoutsOn, IsSoldOn
<1>11. NothingSoldBefore'
  BY <1>1, <1>7 DEF NothingSoldBefore
<1> QED BY <1>10, <1>11

\* Every instruction but a bet leaves the sums and what they are sums of.
LEMMA SalesNext ==
    ASSUME SalesInv, [Instruction]_vars
    PROVE  SalesInv'
<1> DEFINE Kept == NothingSoldBefore' /\ MarketAggregates'
<1>0. /\ BookInv /\ BookInv' /\ MarketsAreNumbered /\ NothingSoldBefore /\ MarketAggregates
      /\ NumberingInv'
  BY BookInvNext, TermsNext DEF SalesInv, NumberingInv
<1>1. /\ house \in House /\ market \in [MarketIds -> Market] /\ ticket \in [TicketIds -> Ticket]
  BY <1>0 DEF BookInv, TypeOK
<1>2. ASSUME BetsKept, SalesKept
      PROVE  Kept
  BY <1>0, <1>2, SumsStay
<1>3. ASSUME UNCHANGED <<house, market, ticket>>
      PROVE  Kept
  BY <1>2, <1>3 DEF BetsKept, SalesKept
<1>4. ASSUME NEW params \in HouseParams, InitializeHouse(params)
      PROVE  Kept
  <2>1. /\ market' = market /\ ticket' = ticket
        /\ house'.max_exposure_per_market = params.max_exposure_per_market
        /\ params.max_exposure_per_market \in Nat
    BY <1>4, ConstantTypes DEF InitializeHouse, NoHouse
  <2>2. \A m \in MarketIds : m \in Nat /\ market[m].state = "Vacant"
    <3>1. house.market_count = 0
      BY <1>0, <1>4 DEF InitializeHouse, MarketsAreNumbered
    <3>2. \A m \in MarketIds : m \in Nat /\ m >= 0
      BY BoundsAssumption DEF MarketIds
    <3> QED BY <1>0, <3>1, <3>2 DEF MarketsAreNumbered
  <2>3. ASSUME NEW m \in MarketIds, NEW s \in Sides
        PROVE  SideIsSummed(m, s)'
    <3>1. SideIsSummed(m, s) /\ market[m].payout[s] = 0
      BY <1>0, <2>2, AggregatesAreSums DEF NothingSoldBefore
    <3>2. StakesOn(m, s)' = StakesOn(m, s) /\ PayoutsOn(m, s)' = PayoutsOn(m, s)
      BY <2>1 DEF StakesOn, PayoutsOn, IsSoldOn
    <3>3. market'[m].stake[s] = market[m].stake[s] /\ market'[m].payout[s] = 0
      BY <2>1, <3>1
    <3>4. 0 <= house'.max_exposure_per_market
      BY <2>1
    <3> QED
      <4>1. market'[m].stake[s] = Total(NumTickets, StakesOn(m, s)')
        BY <3>1, <3>2, <3>3 DEF SideIsSummed
      <4>2. market'[m].payout[s] = Total(NumTickets, PayoutsOn(m, s)')
        BY <3>1, <3>2, <3>3 DEF SideIsSummed
      <4> QED BY <3>3, <3>4, <4>1, <4>2 DEF SideIsSummed, Total
  <2>4. MarketAggregates'
    BY <2>3 DEF MarketAggregates, SideIsSummed, StakesOn, PayoutsOn, IsSoldOn
  <2> QED BY <1>0, <2>1, <2>4 DEF NothingSoldBefore
<1>5. ASSUME NEW f \in Fixtures, NEW p \in Predicates, NEW k \in Nat, CreateMarket(f, p, k)
      PROVE  Kept
  <2> DEFINE n == house.market_count
             created == [NoMarket EXCEPT !.state = "Open", !.fixture_id = f,
                                         !.params = p, !.kickoff_ts = k]
             zeros == [s \in Sides |-> 0]
  <2>1. /\ market' = [market EXCEPT ![n] = created]
        /\ house' = [house EXCEPT !.market_count = @ + 1] /\ ticket' = ticket
    BY <1>5 DEF CreateMarket
  <2>2. n \in MarketIds
    BY <1>1, <1>5, BoundsAssumption DEF CreateMarket, House, MarketIds
  <2>3. created.stake = zeros /\ created.payout = zeros /\ created.state = "Open"
    BY DEF NoMarket
  <2>4. market[n].stake = zeros /\ market[n].payout = zeros
    <3>1. market[n].stake \in [Sides -> Amount] /\ market[n].payout \in [Sides -> Amount]
      BY <1>1, <2>2 DEF Market
    <3>2. market[n].state = "Vacant"
      BY <1>0, <1>1, <2>2 DEF MarketsAreNumbered, House
    <3>3. \A s \in Sides : market[n].stake[s] = 0 /\ market[n].payout[s] = 0
      BY <1>0, <2>2, <3>2 DEF NothingSoldBefore
    <3> QED BY <3>1, <3>3
  <2> HIDE DEF created, zeros
  <2>5. SalesKept
    <3>1. house'.max_exposure_per_market = house.max_exposure_per_market
      BY <1>1, <2>1 DEF House
    <3>2. \A m \in MarketIds : IF m = n THEN market'[m] = created ELSE market'[m] = market[m]
      BY <1>1, <2>1
    <3> QED BY <2>3, <2>4, <3>1, <3>2 DEF SalesKept
  <2>6. BetsKept
    BY <2>1 DEF BetsKept
  <2> QED BY <1>2, <2>5, <2>6
\* Markets are quoted, locked, verified and voided in other fields.
<1>6. ASSUME NEW m \in MarketIds, UNCHANGED <<house, ticket>>,
             \/ \E q \in [Sides -> Nat], r \in RecordIds : PostQuote(m, q, r)
             \/ LockMarket(m)
             \/ \E proof \in ScoreProofs : VerifyMarket(m, proof)
             \/ \E byAuthority \in BOOLEAN : VoidMarket(m, byAuthority)
      PROVE  Kept
  <2>1. /\ market'[m].stake = market[m].stake /\ market'[m].payout = market[m].payout
        /\ market'[m].state # "Vacant"
        /\ \A n \in MarketIds : n # m => market'[n] = market[n]
    <3>1. CASE \E q \in [Sides -> Nat], r \in RecordIds : PostQuote(m, q, r)
      BY <1>1, <3>1 DEF PostQuote, Market
    <3>2. CASE LockMarket(m)
      BY <1>1, <3>2 DEF LockMarket, Market
    <3>3. CASE \E proof \in ScoreProofs : VerifyMarket(m, proof)
      BY <1>1, <3>3 DEF VerifyMarket, Market
    <3>4. CASE \E byAuthority \in BOOLEAN : VoidMarket(m, byAuthority)
      BY <1>1, <3>4 DEF VoidMarket, Market
    <3> QED BY <1>6, <3>1, <3>2, <3>3, <3>4
  <2>2. SalesKept /\ BetsKept
    BY <1>6, <2>1 DEF SalesKept, BetsKept
  <2> QED BY <1>2, <2>2
<1>7. ASSUME NEW m \in MarketIds,
             \/ \E q \in [Sides -> Nat], r \in RecordIds : PostQuote(m, q, r)
             \/ LockMarket(m)
             \/ \E proof \in ScoreProofs : VerifyMarket(m, proof)
             \/ \E byAuthority \in BOOLEAN : VoidMarket(m, byAuthority)
      PROVE  Kept
  <2>1. UNCHANGED <<house, ticket>>
    BY <1>7 DEF PostQuote, LockMarket, VerifyMarket, VoidMarket
  <2> QED BY <1>6, <1>7, <2>1
<1>8. ASSUME NEW t \in TicketIds, NEW m \in MarketIds, NEW s \in Sides, NEW stake \in Amount,
             PlaceBet(t, m, s, stake)
      PROVE  Kept
  BY <1>0, <1>8, SalesOfBet
\* A ticket that ends keeps its bet.
<1>9. ASSUME NEW t \in TicketIds, NEW s \in TicketState \ {"Vacant"}, Close(t, s),
             market' = market, house'.max_exposure_per_market = house.max_exposure_per_market
      PROVE  Kept
  <2>1. BetsKept
    BY <1>0, <1>9, CloseEffect DEF BookInv, BetsKept
  <2> QED BY <1>2, <1>9, <2>1 DEF SalesKept
<1>10. ASSUME NEW t \in TicketIds, CashOutTicket(t) \/ SettleTicket(t) \/ RefundTicket(t)
       PROVE  Kept
  <2>1. market' = market /\ \E s \in TicketState \ {"Vacant"} : Close(t, s)
    BY <1>10 DEF CashOutTicket, SettleTicket, RefundTicket, TicketState
  <2>2. \E x : house' = [house EXCEPT !.open_exposure = x]
    BY <1>10 DEF CashOutTicket, SettleTicket, RefundTicket, ReleaseExposure
  <2>3. house'.max_exposure_per_market = house.max_exposure_per_market
    BY <1>1, <2>2 DEF House
  <2> QED BY <1>9, <2>1, <2>3
<1>11. ASSUME NEW t \in TicketIds, AuditTicket(t)
       PROVE  Kept
  <2>1. /\ UNCHANGED <<house, market>>
        /\ \A u \in TicketIds : u # t => ticket'[u] = ticket[u]
        /\ ticket'[t].market = ticket[t].market /\ ticket'[t].side = ticket[t].side
        /\ ticket'[t].stake = ticket[t].stake
        /\ ticket'[t].potential_payout = ticket[t].potential_payout
        /\ ticket[t].state # "Vacant" => ticket'[t].state # "Vacant"
    BY <1>0, <1>11, AuditTicketEffect
  <2> QED BY <1>2, <2>1 DEF SalesKept, BetsKept
<1>12. ASSUME \/ \E amount \in Amount : DepositLiquidity(amount) \/ WithdrawLiquidity(amount)
              \/ \E t \in TicketIds, a \in Auditors : DecideCashOut(t, a)
              \/ \E t \in TicketIds : ClaimCashOutRepair(t)
              \/ Tick
              \/ UNCHANGED vars
       PROVE  Kept
  <2>1. UNCHANGED <<house, market, ticket>>
    BY <1>12 DEF DepositLiquidity, WithdrawLiquidity, DecideCashOut, ClaimCashOutRepair, Tick,
       vars, accounts
  <2> QED BY <1>3, <2>1
<1> HIDE DEF Kept
<1>13. Kept
  BY <1>4, <1>5, <1>7, <1>8, <1>10, <1>11, <1>12 DEF Instruction, AuditCashOut
<1> QED BY <1>0, <1>13 DEF Kept, SalesInv

\* What each side of a market says it has sold is what its tickets add up to,
\* and within the house's cap, for any number of markets and tickets.
THEOREM AggregatesAreExact == Spec => []MarketAggregates
<1>1. SalesInv => MarketAggregates
  BY DEF SalesInv
<1> QED BY <1>1, NextIsInstruction, SalesInit, SalesNext, PTL DEF Spec

-----------------------------------------------------------------------------
(* What the proofs of violations have earned.                              *)

\* The violations proven of a ticket, and the most that one proof can earn.
Violations(t) == (IF ticket[t].audit_status = "Violation" THEN 1 ELSE 0)
                   + (IF receipt[t].made_whole THEN 1 ELSE 0)
MostPerProof(t) == bounty_amount(ticket[t].stake, AUDIT_BOUNTY_BPS, U64_MAX)

BountyInv == VerdictInv /\ BountyOncePerViolation

\* Free liquidity only caps a bounty.
LEMMA LessFreeLessBounty ==
    ASSUME NEW stake \in Nat, NEW most \in Nat, NEW free \in 0..most
    PROVE  /\ bounty_amount(stake, AUDIT_BOUNTY_BPS, most) \in Nat
           /\ bounty_amount(stake, AUDIT_BOUNTY_BPS, free)
                <= bounty_amount(stake, AUDIT_BOUNTY_BPS, most)
<1> DEFINE raw == (stake * AUDIT_BOUNTY_BPS) \div BPS_DENOMINATOR
<1>1. raw \in Nat
  BY DEF AUDIT_BOUNTY_BPS, BPS_DENOMINATOR
<1> HIDE DEF raw
<1>2. \A f \in Nat :
        bounty_amount(stake, AUDIT_BOUNTY_BPS, f) = IF raw <= f THEN raw ELSE f
  BY DEF bounty_amount, raw
<1> QED BY <1>1, <1>2

\* What an instruction may do to the bounties of a ticket: nothing, or pay at
\* most one bounty with one more violation proven.
BountyStep(t) ==
    \/ bounty'[t] = bounty[t] /\ Violations(t)' >= Violations(t)
    \/ /\ ticket[t].state # "Vacant"
       /\ bounty'[t] <= bounty[t] + MostPerProof(t)
       /\ Violations(t)' = Violations(t) + 1

\* The proof of a ticket's violation earns one bounty, the first time only.
LEMMA TicketBountyStep ==
    ASSUME VerdictInv, [Instruction]_vars, NEW t \in TicketIds, AuditTicket(t), NEW u \in TicketIds
    PROVE  BountyStep(u)
<1>0. BookInv /\ VerdictsAreRight
  BY DEF VerdictInv, NumberingInv
<1>1. /\ vault \in 0..U64_MAX /\ U64_MAX \in Nat /\ house.open_exposure \in Nat
      /\ ticket[t].stake \in Nat /\ bounty \in [TicketIds -> Nat]
  BY <1>0, ConstantTypes, BoundsAssumption DEF BookInv, TypeOK, Amount, House, Ticket
<1>2. /\ receipt' = receipt /\ ticket[t].state # "Vacant"
      /\ \A v \in TicketIds : v # t => ticket'[v] = ticket[v]
  BY <1>0, AuditTicketEffect DEF AuditTicket
<1>3. CASE TicketIsHonest(t)
  <2>1. bounty' = bounty
    BY <1>3 DEF AuditTicket
  <2>2. ticket[t].audit_status # "Violation"
    BY <1>0, <1>3 DEF VerdictsAreRight
  <2>3. Violations(u)' >= Violations(u)
    BY <1>0, <1>2, <1>3, <2>2, AuditTicketEffect DEF Violations
  <2> QED BY <2>1, <2>3 DEF BountyStep
<1>4. CASE ~TicketIsHonest(t)
  <2>1. bounty' = [bounty EXCEPT ![t] = @ + TicketBounty(t)]
    BY <1>4 DEF AuditTicket
  <2>2. ticket'[t].audit_status = "Violation"
    BY <1>0, <1>4, AuditTicketEffect
  <2>3. CASE u # t
    BY <1>1, <1>2, <2>1, <2>3 DEF BountyStep, Violations
  <2>4. CASE u = t /\ ticket[t].audit_status = "Violation"
    <3>1. TicketBounty(t) = 0
      BY <2>4 DEF TicketBounty
    <3>2. Violations(t)' = Violations(t)
      BY <1>2, <2>2, <2>4 DEF Violations
    <3> QED BY <1>1, <2>1, <2>4, <3>1, <3>2 DEF BountyStep, Violations
  <2>5. CASE u = t /\ ticket[t].audit_status # "Violation"
    <3>1. TicketBounty(t) <= MostPerProof(t)
      <4>1. FreeLiquidity \in 0..U64_MAX
        BY <1>1 DEF FreeLiquidity, SaturatingSub
      <4> QED BY <1>1, <2>5, <4>1, LessFreeLessBounty DEF TicketBounty, MostPerProof
    <3>2. TicketBounty(t) \in Nat /\ MostPerProof(t) \in Nat
      <4>1. FreeLiquidity \in Nat /\ 0 \in 0..U64_MAX
        BY <1>1 DEF FreeLiquidity, SaturatingSub
      <4>2. TicketBounty(t) \in Nat
        BY <1>0, <4>1, TicketBountyBound
      <4> QED BY <1>1, <4>1, <4>2, LessFreeLessBounty DEF MostPerProof
    <3>3. Violations(t)' = Violations(t) + 1
      BY <1>2, <2>2, <2>5 DEF Violations
    <3> QED BY <1>1, <1>2, <2>1, <2>5, <3>1, <3>2, <3>3 DEF BountyStep
  <2> QED BY <2>3, <2>4, <2>5
<1> QED BY <1>3, <1>4

\* The claim of a repair earns one bounty, and can be made once.
LEMMA RepairBountyStep ==
    ASSUME VerdictInv, NEW t \in TicketIds, ClaimCashOutRepair(t), NEW u \in TicketIds
    PROVE  BountyStep(u)
<1>0. BookInv
  BY DEF VerdictInv, NumberingInv
<1>1. /\ vault \in 0..U64_MAX /\ U64_MAX \in Nat /\ house.open_exposure \in Nat
      /\ ticket[t].stake \in Nat /\ bounty \in [TicketIds -> Nat]
      /\ receipt[t].shortfall_owed \in Nat
  BY <1>0, ConstantTypes, BoundsAssumption
     DEF BookInv, TypeOK, Amount, House, Ticket, CashOutReceipt
<1>2. /\ ticket' = ticket /\ receipt[t].exists /\ ~receipt[t].made_whole
      /\ receipt'[t].made_whole
      /\ \A v \in TicketIds : v # t => receipt'[v] = receipt[v]
  BY <1>0, ClaimEffect
<1> DEFINE left == SaturatingSub(SaturatingSub(vault, receipt[t].shortfall_owed),
                                 house.open_exposure)
           reward == bounty_amount(ticket[t].stake, AUDIT_BOUNTY_BPS, left)
<1>3. bounty' = [bounty EXCEPT ![t] = @ + reward]
  BY DEF ClaimCashOutRepair
<1>4. left \in 0..U64_MAX
  BY <1>1 DEF SaturatingSub
<1> HIDE DEF left
<1>5. reward \in Nat /\ MostPerProof(t) \in Nat /\ reward <= MostPerProof(t)
  <2>1. left \in 0..left /\ left \in Nat
    BY <1>1, <1>4
  <2> QED BY <1>1, <1>4, <2>1, LessFreeLessBounty DEF MostPerProof
<1> HIDE DEF reward
<1>6. ticket[t].state # "Vacant"
  BY <1>0, <1>2 DEF BookInv, TicketsAreSound
<1>7. CASE u = t
  <2>1. Violations(t)' = Violations(t) + 1
    BY <1>2 DEF Violations
  <2> QED BY <1>1, <1>3, <1>5, <1>6, <1>7, <2>1 DEF BountyStep
<1>8. CASE u # t
  BY <1>1, <1>2, <1>3, <1>8 DEF BountyStep, Violations
<1> QED BY <1>7, <1>8

\* No other instruction pays a bounty, and a proven violation stays proven.
LEMMA BountySteps ==
    ASSUME VerdictInv, [Instruction]_vars, NEW t \in TicketIds
    PROVE  BountyStep(t)
<1>0. BookInv /\ VerdictsAreRight
  BY DEF VerdictInv, NumberingInv
<1>1. ASSUME bounty' = bounty,
             receipt[t].made_whole => receipt'[t].made_whole
      PROVE  BountyStep(t)
  <2>1. ticket[t].audit_status = "Violation" => ticket'[t].audit_status = "Violation"
    BY VerdictNext DEF KeepsVerdicts
  <2>2. Violations(t)' >= Violations(t)
    BY <1>1, <2>1 DEF Violations
  <2> QED BY <1>1, <2>2 DEF BountyStep
<1>2. ASSUME UNCHANGED <<receipt, bounty>>
      PROVE  BountyStep(t)
  BY <1>1, <1>2
<1>3. ASSUME NEW u \in TicketIds, CashOutTicket(u)
      PROVE  BountyStep(t)
  BY <1>0, <1>1, <1>3, CashOutEffect DEF VerdictsAreRight
<1>4. ASSUME NEW u \in TicketIds, NEW a \in Auditors, DecideCashOut(u, a)
      PROVE  BountyStep(t)
  BY <1>0, <1>1, <1>4, AuditCashOutEffect DEF ledger
<1>5. ASSUME NEW u \in TicketIds, AuditTicket(u)
      PROVE  BountyStep(t)
  BY <1>5, TicketBountyStep
<1>6. ASSUME NEW u \in TicketIds, ClaimCashOutRepair(u)
      PROVE  BountyStep(t)
  BY <1>6, RepairBountyStep
<1>7. ASSUME NEW u \in TicketIds,
             \/ \E m \in MarketIds, s \in Sides, stake \in Amount : PlaceBet(u, m, s, stake)
             \/ SettleTicket(u)
             \/ RefundTicket(u)
      PROVE  BountyStep(t)
  <2>1. ASSUME NEW m \in MarketIds, NEW s \in Sides, NEW stake \in Amount,
               PlaceBet(u, m, s, stake)
        PROVE  UNCHANGED <<receipt, bounty>>
    BY <1>0, <2>1, PlaceBetEffect
  <2>2. SettleTicket(u) => UNCHANGED <<receipt, bounty>>
    BY DEF SettleTicket
  <2>3. RefundTicket(u) => UNCHANGED <<receipt, bounty>>
    BY DEF RefundTicket
  <2> QED BY <1>2, <1>7, <2>1, <2>2, <2>3
<1>8. ASSUME \/ \E params \in HouseParams : InitializeHouse(params)
             \/ \E amount \in Amount : DepositLiquidity(amount) \/ WithdrawLiquidity(amount)
             \/ \E f \in Fixtures, p \in Predicates, k \in Nat : CreateMarket(f, p, k)
             \/ \E m \in MarketIds, q \in [Sides -> Nat], r \in RecordIds : PostQuote(m, q, r)
             \/ \E m \in MarketIds : LockMarket(m)
             \/ \E m \in MarketIds, proof \in ScoreProofs : VerifyMarket(m, proof)
             \/ \E m \in MarketIds, byAuthority \in BOOLEAN : VoidMarket(m, byAuthority)
             \/ Tick
             \/ UNCHANGED vars
      PROVE  BountyStep(t)
  BY <1>2, <1>8 DEF InitializeHouse, DepositLiquidity, WithdrawLiquidity, CreateMarket,
       PostQuote, LockMarket, VerifyMarket, VoidMarket, Tick, vars, accounts, ledger
<1> QED BY <1>3, <1>4, <1>5, <1>6, <1>7, <1>8 DEF Instruction, AuditCashOut

\* One violation more pays for one bounty more; the stake it is computed from
\* is set once, before any bounty is paid.
LEMMA BountyNext ==
    ASSUME BountyInv, [Instruction]_vars
    PROVE  BountyInv'
<1>0. BookInv /\ BookInv' /\ VerdictInv /\ VerdictInv' /\ NumberingInv /\ VerdictsAreRight
  BY VerdictNext, BookInvNext DEF BountyInv, VerdictInv, NumberingInv
<1> SUFFICES ASSUME NEW t \in TicketIds
             PROVE  bounty'[t] <= Violations(t)' * MostPerProof(t)'
  BY <1>0 DEF BountyInv, BountyOncePerViolation, Violations, MostPerProof
<1>1. /\ bounty[t] \in Nat /\ bounty'[t] \in Nat
      /\ ticket[t].stake \in Nat /\ ticket'[t].stake \in Nat
  BY <1>0, ConstantTypes DEF BookInv, TypeOK, Ticket
<1>2. MostPerProof(t) \in Nat /\ MostPerProof(t)' \in Nat
  <2>1. U64_MAX \in Nat /\ U64_MAX \in 0..U64_MAX
    BY BoundsAssumption
  <2> QED BY <1>1, <2>1, LessFreeLessBounty DEF MostPerProof
<1>3. Violations(t) \in 0..2 /\ Violations(t)' \in 0..2
  BY DEF Violations
<1>4. bounty[t] <= Violations(t) * MostPerProof(t)
  BY DEF BountyInv, BountyOncePerViolation, Violations, MostPerProof
<1>5. BountyStep(t)
  BY <1>0, BountySteps
<1>6. CASE ticket[t].state = "Vacant"
  <2>1. Violations(t) = 0
    BY <1>0, <1>6 DEF VerdictsAreRight, BookInv, TicketsAreSound, Violations
  <2>2. bounty[t] = 0
    BY <1>1, <1>2, <1>4, <2>1
  <2>3. bounty'[t] = 0
    BY <1>5, <1>6, <2>2 DEF BountyStep
  <2>4. Violations(t)' * MostPerProof(t)' >= 0
    BY <1>2, <1>3
  <2> QED BY <2>3, <2>4
<1>7. CASE ticket[t].state # "Vacant"
  <2>1. MostPerProof(t)' = MostPerProof(t)
    BY <1>0, <1>7, TermsNext DEF TermsKept, TicketTermsKept, MostPerProof
  <2> DEFINE b == bounty[t]  bb == bounty'[t]  v == Violations(t)  vv == Violations(t)'
             most == MostPerProof(t)
  <2>2. b \in Nat /\ bb \in Nat /\ v \in 0..2 /\ vv \in 0..2 /\ most \in Nat /\ b <= v * most
    BY <1>1, <1>2, <1>3, <1>4
  <2>3. (bb = b /\ vv >= v) \/ (bb <= b + most /\ vv = v + 1)
    BY <1>5 DEF BountyStep
  <2> HIDE DEF b, bb, v, vv, most
  <2>4. /\ 0 * most = 0 /\ 1 * most = most /\ 2 * most = most + most
    BY <2>2
  <2>5. bb <= vv * most
    <3>1. (v = 0 \/ v = 1 \/ v = 2) /\ (vv = 0 \/ vv = 1 \/ vv = 2)
      BY <2>2
    <3> QED BY <2>2, <2>3, <2>4, <3>1
  <2> QED BY <2>1, <2>5 DEF bb, vv, most
<1> QED BY <1>6, <1>7

\* Nothing has been earned before anything is proven.
LEMMA BountyInit ==
    ASSUME VerdictInv,
           \A t \in TicketIds :
             /\ bounty[t] = 0 /\ ticket[t].audit_status = "Unaudited" /\ ~receipt[t].made_whole
    PROVE  BountyInv
<1>1. ASSUME NEW t \in TicketIds
      PROVE  bounty[t] <= Violations(t) * MostPerProof(t)
  <2>1. bounty[t] = 0 /\ Violations(t) = 0
    BY DEF Violations
  <2>2. ticket[t].stake \in Nat
    BY ConstantTypes DEF VerdictInv, NumberingInv, BookInv, TypeOK, Ticket
  <2>3. MostPerProof(t) \in Nat
    <3>1. U64_MAX \in Nat /\ U64_MAX \in 0..U64_MAX
      BY BoundsAssumption
    <3> QED BY <2>2, <3>1, LessFreeLessBounty DEF MostPerProof
  <2> QED BY <2>1, <2>3
<1>2. BountyOncePerViolation
  BY <1>1 DEF BountyOncePerViolation, Violations, MostPerProof
<1> QED BY <1>2 DEF BountyInv

\* No prover is paid twice for one violation, whoever proves it again: what a
\* ticket's violations have earned is at most one bounty, 5 percent of the
\* stake, for its opening price and one for its cash-out.
THEOREM BountiesArePaidOnce == Spec => []BountyOncePerViolation
<1>1. Init => BountyInv
  BY VerdictInit, BountyInit DEF Init, NoTicket, NoReceipt
<1>2. BountyInv => BountyOncePerViolation
  BY DEF BountyInv
<1> QED BY <1>1, <1>2, NextIsInstruction, BountyNext, PTL DEF Spec

-----------------------------------------------------------------------------
(* What the holder of a ticket sees: each instruction moves one claim the  *)
(* way TicketClaims allows, or none.                                       *)

\* Nothing of ticket t that its holder sees has changed.
SameClaim(t) ==
    /\ ticket'[t].state = ticket[t].state
    /\ ticket'[t].stake = ticket[t].stake
    /\ ticket'[t].potential_payout = ticket[t].potential_payout
    /\ paid'[t] = paid[t]
    /\ receipt'[t].made_whole = receipt[t].made_whole

\* The claims of a book: what TicketClaims' variables stand for.
ClaimMap == [t \in TicketIds |-> ClaimOf(t)]
StakeMap == [t \in TicketIds |-> ticket[t].stake]
PromiseMap == [t \in TicketIds |-> ticket[t].potential_payout]
RepairedMap == [t \in TicketIds |-> receipt[t].made_whole]

\* A book with no ticket is a book of no claims.
LEMMA NoTicketsNoClaims ==
    ASSUME ticket = NoTickets, receipt = [t \in TicketIds |-> NoReceipt],
           paid = [t \in TicketIds |-> 0]
    PROVE  Claims!ClaimInit
<1>1. \A t \in TicketIds : ClaimOf(t) = "None"
  BY DEF NoTickets, NoTicket, ClaimOf
<1>2. \A t \in TicketIds : /\ ticket[t].stake = 0 /\ ticket[t].potential_payout = 0
                           /\ receipt[t].made_whole = FALSE
  BY DEF NoTickets, NoTicket, NoReceipt
<1> QED BY <1>1, <1>2 DEF Claims!ClaimInit

LEMMA ClaimsInit == Init => Claims!ClaimInit
  BY NoTicketsNoClaims DEF Init, NoTickets

\* A claim is what its ticket's state says.
LEMMA ClaimStates ==
    ASSUME NEW t \in TicketIds, ticket[t].state \in TicketState
    PROVE  /\ ticket[t].state = "Vacant" <=> ClaimOf(t) = "None"
           /\ ticket[t].state = "Live" <=> ClaimOf(t) = "Open"
           /\ ticket[t].state = "Refundable" <=> ClaimOf(t) = "Disputed"
           /\ ticket[t].state = "CashedOut" <=> ClaimOf(t) = "Sold"
           /\ ticket[t].state = "Won" <=> ClaimOf(t) = "Won"
           /\ ticket[t].state = "Lost" <=> ClaimOf(t) = "Lost"
           /\ ticket[t].state = "Refunded" <=> ClaimOf(t) = "Refunded"
  BY DEF ClaimOf, TicketState

\* Where no other ticket changes, the claims change at one ticket only.
LEMMA OneClaim ==
    ASSUME NEW t \in TicketIds, paid \in [TicketIds -> Nat], paid' \in [TicketIds -> Nat],
           \A u \in TicketIds : u # t => SameClaim(u)
    PROVE  /\ ClaimMap' = [ClaimMap EXCEPT ![t] = ClaimOf(t)']
           /\ paid' = [paid EXCEPT ![t] = paid'[t]]
           /\ RepairedMap' = [RepairedMap EXCEPT ![t] = receipt'[t].made_whole]
           /\ ticket'[t].stake = ticket[t].stake => StakeMap' = StakeMap
           /\ ticket'[t].potential_payout = ticket[t].potential_payout =>
                PromiseMap' = PromiseMap
<1>1. \A u \in TicketIds : u # t => ClaimOf(u)' = ClaimOf(u)
  BY DEF SameClaim, ClaimOf
<1>2. ClaimMap' = [ClaimMap EXCEPT ![t] = ClaimOf(t)']
  BY <1>1 DEF ClaimMap
<1>3. paid' = [paid EXCEPT ![t] = paid'[t]]
  BY DEF SameClaim
<1>4. RepairedMap' = [RepairedMap EXCEPT ![t] = receipt'[t].made_whole]
  BY DEF SameClaim, RepairedMap
<1>5. ticket'[t].stake = ticket[t].stake => StakeMap' = StakeMap
  BY DEF SameClaim, StakeMap
<1>6. ticket'[t].potential_payout = ticket[t].potential_payout => PromiseMap' = PromiseMap
  BY DEF SameClaim, PromiseMap
<1> QED BY <1>2, <1>3, <1>4, <1>5, <1>6

\* A step that leaves each claim as it is leaves the claims as they are.
LEMMA NoClaim ==
    ASSUME paid \in [TicketIds -> Nat], paid' \in [TicketIds -> Nat],
           \A u \in TicketIds : SameClaim(u)
    PROVE  UNCHANGED Claims!claimVars
<1>1. \A u \in TicketIds : ClaimOf(u)' = ClaimOf(u)
  BY DEF SameClaim, ClaimOf
<1>2. paid' = paid
  BY DEF SameClaim
<1> QED BY <1>1, <1>2 DEF SameClaim, Claims!claimVars

\* The parts of a step of TicketClaims, in the book's terms.
LEMMA ClaimParts ==
    ASSUME NEW t \in TicketIds, NEW From, NEW to, NEW amount
    PROVE  /\ Claims!Moves(t, From, to) <=>
                ClaimOf(t) \in From /\ ClaimMap' = [ClaimMap EXCEPT ![t] = to]
           /\ Claims!Receives(t, amount) <=>
                /\ paid' = [paid EXCEPT ![t] = @ + amount]
                /\ StakeMap' = StakeMap /\ PromiseMap' = PromiseMap
<1>1. ClaimMap[t] = ClaimOf(t)
  BY DEF ClaimMap
<1>2. Claims!Moves(t, From, to) <=>
        ClaimMap[t] \in From /\ ClaimMap' = [ClaimMap EXCEPT ![t] = to]
  BY DEF ClaimMap, Claims!Moves
<1>3. Claims!Receives(t, amount) <=>
        /\ paid' = [paid EXCEPT ![t] = @ + amount]
        /\ StakeMap' = StakeMap /\ PromiseMap' = PromiseMap
  BY DEF StakeMap, PromiseMap, Claims!Receives
<1> QED BY <1>1, <1>2, <1>3

\* Every instruction makes one claim move as TicketClaims allows, or none.
LEMMA ClaimStep ==
    ASSUME PaymentInv, [Instruction]_vars, NeverOverpaid'
    PROVE  [Claims!ClaimNext]_(Claims!claimVars)
<1> DEFINE Step == [Claims!ClaimNext]_(Claims!claimVars)
<1>0. /\ BookInv /\ BookInv' /\ VerdictsAreRight /\ PaidOnce
  BY BookInvNext DEF PaymentInv, VerdictInv, NumberingInv
<1>1. /\ paid \in [TicketIds -> Nat] /\ paid' \in [TicketIds -> Nat]
      /\ \A t \in TicketIds :
           /\ ticket[t].state \in TicketState /\ ticket'[t].state \in TicketState
           /\ ticket[t].potential_payout \in Nat /\ ticket[t].stake \in Nat
           /\ ticket'[t].potential_payout \in Nat /\ ticket'[t].stake \in Nat
           /\ receipt[t].made_whole \in BOOLEAN /\ receipt'[t].made_whole \in BOOLEAN
           /\ receipt[t].shortfall_owed \in Nat
           /\ paid[t] = Due(t)
  <2>1. /\ paid \in [TicketIds -> Nat] /\ paid' \in [TicketIds -> Nat]
        /\ ticket \in [TicketIds -> Ticket] /\ ticket' \in [TicketIds -> Ticket]
        /\ receipt \in [TicketIds -> CashOutReceipt]
        /\ receipt' \in [TicketIds -> CashOutReceipt]
    BY <1>0 DEF BookInv, TypeOK
  <2>2. \A t \in TicketIds :
           /\ ticket[t].state \in TicketState /\ ticket'[t].state \in TicketState
           /\ ticket[t].potential_payout \in Nat /\ ticket[t].stake \in Nat
           /\ ticket'[t].potential_payout \in Nat /\ ticket'[t].stake \in Nat
    BY <2>1, ConstantTypes DEF Ticket
  <2>3. \A t \in TicketIds :
           /\ receipt[t].made_whole \in BOOLEAN /\ receipt'[t].made_whole \in BOOLEAN
           /\ receipt[t].shortfall_owed \in Nat
    BY <2>1, ConstantTypes DEF CashOutReceipt
  <2> QED BY <1>0, <2>1, <2>2, <2>3 DEF PaidOnce
\* What a step that touches ticket t alone does to the claims.
<1>2. ASSUME NEW t \in TicketIds,
             \A u \in TicketIds : u # t =>
               /\ ticket'[u] = ticket[u] /\ receipt'[u] = receipt[u] /\ paid'[u] = paid[u]
      PROVE  /\ ClaimMap' = [ClaimMap EXCEPT ![t] = ClaimOf(t)']
             /\ paid' = [paid EXCEPT ![t] = paid'[t]]
             /\ RepairedMap' = [RepairedMap EXCEPT ![t] = receipt'[t].made_whole]
             /\ ticket'[t].stake = ticket[t].stake => StakeMap' = StakeMap
             /\ ticket'[t].potential_payout = ticket[t].potential_payout =>
                  PromiseMap' = PromiseMap
  <2>1. \A u \in TicketIds : u # t => SameClaim(u)
    BY <1>2 DEF SameClaim
  <2> QED BY <1>1, <2>1, OneClaim
<1>3. ASSUME \A u \in TicketIds : SameClaim(u)
      PROVE  Step
  BY <1>1, <1>3, NoClaim
<1>4. ASSUME NEW t \in TicketIds, NEW m \in MarketIds, NEW s \in Sides, NEW stake \in Amount,
             PlaceBet(t, m, s, stake)
      PROVE  Claims!Buy(t)
  <2>1. /\ ticket[t].state = "Vacant" /\ ticket'[t].state = "Live"
        /\ UNCHANGED <<receipt, paid>>
        /\ \A u \in TicketIds : u # t => ticket'[u] = ticket[u]
    BY <1>0, <1>4, PlaceBetEffect
  <2>2. ClaimOf(t) = "None" /\ ClaimOf(t)' = "Open"
    BY <2>1 DEF ClaimOf
  <2>3. ClaimMap' = [ClaimMap EXCEPT ![t] = "Open"] /\ RepairedMap' = RepairedMap
    BY <1>2, <2>1, <2>2 DEF RepairedMap
  <2>4. Claims!Moves(t, {"None"}, "Open")
    BY <2>2, <2>3, ClaimParts
  <2>5. 0 < ticket'[t].stake /\ ticket'[t].stake <= ticket'[t].potential_payout
    <3>1. ticket'[t].stake = stake /\ stake > 0
      BY <1>0, <1>4 DEF PlaceBet, BookInv, TypeOK, NoTicket
    <3>2. ticket'[t].stake <= ticket'[t].potential_payout
      BY <1>0, <2>1 DEF BookInv, TicketsAreSound
    <3> QED BY <1>1, <3>1, <3>2
  <2> QED BY <2>1, <2>3, <2>4, <2>5 DEF Claims!Buy, RepairedMap
<1>5. ASSUME NEW t \in TicketIds, CashOutTicket(t)
      PROVE  Claims!Sell(t, Claims!Given(t))
  <2>1. /\ ticket[t].state = "Live" /\ Close(t, "CashedOut") /\ PayBettor(t, CashOutAmount(t))
        /\ CashOutAmount(t) \in 0..ticket[t].potential_payout
        /\ \A u \in TicketIds : u # t => receipt'[u] = receipt[u]
        /\ ~receipt[t].exists /\ ~receipt'[t].made_whole
    BY <1>0, <1>5, CashOutEffect, CashOutBound
  <2>2. CashOutAmount(t) > 0
    BY <1>5 DEF CashOutTicket, CashOutAmount
  <2>3. /\ ticket'[t].state = "CashedOut" /\ ticket'[t].stake = ticket[t].stake
        /\ ticket'[t].potential_payout = ticket[t].potential_payout
        /\ \A u \in TicketIds : u # t => ticket'[u] = ticket[u]
    BY <1>0, <2>1, CloseEffect DEF BookInv, TicketState
  <2>4. /\ paid'[t] = paid[t] + CashOutAmount(t)
        /\ \A u \in TicketIds : u # t => paid'[u] = paid[u]
    BY <1>0, <1>1, <2>1, PayBettorEffect DEF BookInv
  <2>5. ClaimOf(t) = "Open" /\ ClaimOf(t)' = "Sold"
    BY <2>1, <2>3 DEF ClaimOf
  <2>6. ~receipt[t].made_whole
    BY <1>0, <2>1 DEF VerdictsAreRight
  <2>7. /\ ClaimMap' = [ClaimMap EXCEPT ![t] = "Sold"] /\ RepairedMap' = RepairedMap
        /\ paid' = [paid EXCEPT ![t] = paid'[t]]
        /\ StakeMap' = StakeMap /\ PromiseMap' = PromiseMap
    BY <1>1, <1>2, <2>1, <2>3, <2>4, <2>5, <2>6 DEF RepairedMap
  <2>8. Claims!Moves(t, {"Open"}, "Sold")
    BY <2>5, <2>7, ClaimParts
  <2>9. Claims!Given(t) = CashOutAmount(t)
    BY <1>1, <2>1, <2>4 DEF Claims!Given
  <2>10. Claims!Receives(t, Claims!Given(t))
    <3>1. paid' = [paid EXCEPT ![t] = paid[t] + Claims!Given(t)]
      BY <2>4, <2>7, <2>9
    <3> QED BY <2>7, <3>1, ClaimParts
  <2> QED BY <1>1, <2>1, <2>2, <2>7, <2>8, <2>9, <2>10 DEF Claims!Sell, RepairedMap
<1>6. ASSUME NEW t \in TicketIds, SettleTicket(t)
      PROVE  Claims!Win(t) \/ Claims!Lose(t)
  <2>1. ticket[t].state = "Live" /\ ClaimOf(t) = "Open" /\ UNCHANGED receipt
    BY <1>6 DEF SettleTicket, ClaimOf
  <2>2. CASE PayBettor(t, ticket[t].potential_payout) /\ Close(t, "Won")
    <3>1. /\ ticket'[t].state = "Won" /\ ticket'[t].stake = ticket[t].stake
          /\ ticket'[t].potential_payout = ticket[t].potential_payout
          /\ \A u \in TicketIds : u # t => ticket'[u] = ticket[u]
      BY <1>0, <2>2, CloseEffect DEF BookInv, TicketState
    <3>2. \A u \in TicketIds : u # t => paid'[u] = paid[u]
      BY <1>0, <1>1, <2>2, PayBettorEffect DEF BookInv
    <3>3. ClaimOf(t)' = "Won"
      BY <3>1 DEF ClaimOf
    <3>4. /\ ClaimMap' = [ClaimMap EXCEPT ![t] = "Won"] /\ RepairedMap' = RepairedMap
          /\ StakeMap' = StakeMap /\ PromiseMap' = PromiseMap
      BY <1>2, <2>1, <3>1, <3>2, <3>3 DEF RepairedMap
    <3>5. Claims!Moves(t, {"Open"}, "Won")
      BY <2>1, <3>4, ClaimParts
    <3>6. Claims!Receives(t, PromiseMap[t])
      BY <2>2, <3>4, ClaimParts DEF PayBettor, PromiseMap
    <3> QED BY <3>4, <3>5, <3>6 DEF Claims!Win, RepairedMap, PromiseMap
  <2>3. CASE Close(t, "Lost") /\ UNCHANGED paid
    <3>1. /\ ticket'[t].state = "Lost" /\ ticket'[t].stake = ticket[t].stake
          /\ ticket'[t].potential_payout = ticket[t].potential_payout
          /\ \A u \in TicketIds : u # t => ticket'[u] = ticket[u]
      BY <1>0, <2>3, CloseEffect DEF BookInv, TicketState
    <3>2. ClaimOf(t)' = "Lost"
      BY <3>1 DEF ClaimOf
    <3>3. /\ ClaimMap' = [ClaimMap EXCEPT ![t] = "Lost"] /\ RepairedMap' = RepairedMap
          /\ StakeMap' = StakeMap /\ PromiseMap' = PromiseMap
      BY <1>2, <2>1, <2>3, <3>1, <3>2 DEF RepairedMap
    <3>4. Claims!Moves(t, {"Open"}, "Lost")
      BY <2>1, <3>3, ClaimParts
    <3> QED BY <2>3, <3>3, <3>4 DEF Claims!Lose, RepairedMap, StakeMap, PromiseMap
  <2> QED BY <1>6, <2>2, <2>3 DEF SettleTicket
<1>7. ASSUME NEW t \in TicketIds, RefundTicket(t)
      PROVE  Claims!Refund(t)
  <2>1. /\ ticket[t].state \in {"Live", "Refundable"} /\ UNCHANGED receipt
        /\ PayBettor(t, ticket[t].stake) /\ Close(t, "Refunded")
    BY <1>7 DEF RefundTicket
  <2>2. /\ ticket'[t].state = "Refunded" /\ ticket'[t].stake = ticket[t].stake
        /\ ticket'[t].potential_payout = ticket[t].potential_payout
        /\ \A u \in TicketIds : u # t => ticket'[u] = ticket[u]
    BY <1>0, <2>1, CloseEffect DEF BookInv, TicketState
  <2>3. \A u \in TicketIds : u # t => paid'[u] = paid[u]
    BY <1>0, <1>1, <2>1, PayBettorEffect DEF BookInv
  <2>4. ClaimOf(t) \in {"Open", "Disputed"} /\ ClaimOf(t)' = "Refunded"
    BY <2>1, <2>2 DEF ClaimOf
  <2>5. /\ ClaimMap' = [ClaimMap EXCEPT ![t] = "Refunded"] /\ RepairedMap' = RepairedMap
        /\ StakeMap' = StakeMap /\ PromiseMap' = PromiseMap
    BY <1>2, <2>1, <2>2, <2>3, <2>4 DEF RepairedMap
  <2>6. Claims!Moves(t, {"Open", "Disputed"}, "Refunded")
    BY <2>4, <2>5, ClaimParts
  <2>7. Claims!Receives(t, StakeMap[t])
    BY <2>1, <2>5, ClaimParts DEF PayBettor, StakeMap
  <2> QED BY <2>5, <2>6, <2>7 DEF Claims!Refund, RepairedMap, StakeMap
<1>8. ASSUME NEW t \in TicketIds, AuditTicket(t)
      PROVE  Claims!Dispute(t) \/ \A u \in TicketIds : SameClaim(u)
  <2>1. /\ UNCHANGED <<receipt, paid>>
        /\ \A u \in TicketIds : u # t => ticket'[u] = ticket[u]
        /\ ticket'[t].stake = ticket[t].stake
        /\ ticket'[t].potential_payout = ticket[t].potential_payout
        /\ \/ ticket'[t].state = ticket[t].state
           \/ ticket[t].state \in {"Live", "Lost"} /\ ticket'[t].state = "Refundable"
    BY <1>0, <1>8, AuditTicketEffect DEF FlaggedByViolation
  <2>2. CASE ticket'[t].state = ticket[t].state
    BY <2>1, <2>2 DEF SameClaim
  <2>3. CASE ticket[t].state \in {"Live", "Lost"} /\ ticket'[t].state = "Refundable"
    <3>1. ClaimOf(t) \in {"Open", "Lost"} /\ ClaimOf(t)' = "Disputed"
      BY <2>3 DEF ClaimOf
    <3>2. /\ ClaimMap' = [ClaimMap EXCEPT ![t] = "Disputed"] /\ RepairedMap' = RepairedMap
          /\ StakeMap' = StakeMap /\ PromiseMap' = PromiseMap
      BY <1>2, <2>1, <3>1 DEF RepairedMap
    <3>3. Claims!Moves(t, {"Open", "Lost"}, "Disputed")
      BY <3>1, <3>2, ClaimParts
    <3> QED BY <2>1, <3>2, <3>3 DEF Claims!Dispute, RepairedMap, StakeMap, PromiseMap
  <2> QED BY <2>1, <2>2, <2>3
<1>9. ASSUME NEW t \in TicketIds, ClaimCashOutRepair(t)
      PROVE  Claims!Repair(t, Claims!Given(t))
  <2>1. /\ receipt[t].exists /\ ~receipt[t].made_whole /\ receipt'[t].made_whole
        /\ UNCHANGED ticket /\ \A u \in TicketIds : u # t => receipt'[u] = receipt[u]
    BY <1>0, <1>9, ClaimEffect
  <2>2. paid' = [paid EXCEPT ![t] = @ + receipt[t].shortfall_owed]
    BY <1>9 DEF ClaimCashOutRepair
  <2>3. ClaimOf(t) = "Sold" /\ ClaimOf(t)' = "Sold"
    BY <1>0, <2>1 DEF BookInv, TicketsAreSound, ClaimOf
  <2>4. paid'[t] <= ticket[t].potential_payout
    BY <2>1 DEF NeverOverpaid
  <2>5. /\ ClaimMap' = ClaimMap /\ RepairedMap' = [RepairedMap EXCEPT ![t] = TRUE]
        /\ StakeMap' = StakeMap /\ PromiseMap' = PromiseMap
    <3>1. ClaimMap' = ClaimMap /\ StakeMap' = StakeMap /\ PromiseMap' = PromiseMap
      BY <2>1 DEF ClaimMap, ClaimOf, StakeMap, PromiseMap
    <3>2. RepairedMap' = [RepairedMap EXCEPT ![t] = TRUE]
      BY <1>1, <2>1 DEF RepairedMap
    <3> QED BY <3>1, <3>2
  <2>6. Claims!Given(t) = receipt[t].shortfall_owed
    BY <1>1, <2>2 DEF Claims!Given
  <2>7. Claims!Receives(t, Claims!Given(t))
    BY <2>2, <2>5, <2>6, ClaimParts
  <2>8. ClaimMap[t] = "Sold" /\ ~RepairedMap[t] /\ paid[t] + receipt[t].shortfall_owed <= PromiseMap[t]
    BY <1>1, <2>1, <2>2, <2>3, <2>4 DEF ClaimMap, RepairedMap, PromiseMap
  <2> QED BY <1>1, <2>5, <2>6, <2>7, <2>8 DEF Claims!Repair, ClaimMap, RepairedMap, PromiseMap
<1>10. ASSUME NEW t \in TicketIds, NEW a \in Auditors, DecideCashOut(t, a)
       PROVE  \A u \in TicketIds : SameClaim(u)
  BY <1>0, <1>10, AuditCashOutEffect DEF SameClaim, ledger
<1>11. ASSUME \/ \E params \in HouseParams : InitializeHouse(params)
              \/ \E amount \in Amount : DepositLiquidity(amount) \/ WithdrawLiquidity(amount)
              \/ \E f \in Fixtures, p \in Predicates, k \in Nat : CreateMarket(f, p, k)
              \/ \E m \in MarketIds, q \in [Sides -> Nat], r \in RecordIds : PostQuote(m, q, r)
              \/ \E m \in MarketIds : LockMarket(m)
              \/ \E m \in MarketIds, proof \in ScoreProofs : VerifyMarket(m, proof)
              \/ \E m \in MarketIds, byAuthority \in BOOLEAN : VoidMarket(m, byAuthority)
              \/ Tick
              \/ UNCHANGED vars
       PROVE  \A u \in TicketIds : SameClaim(u)
  BY <1>11 DEF InitializeHouse, DepositLiquidity, WithdrawLiquidity, CreateMarket,
     PostQuote, LockMarket, VerifyMarket, VoidMarket, Tick, vars, accounts, ledger, SameClaim
<1>12. ASSUME NEW t \in TicketIds,
              \/ Claims!Buy(t) \/ Claims!Win(t) \/ Claims!Lose(t) \/ Claims!Dispute(t)
              \/ Claims!Refund(t) \/ Claims!Sell(t, Claims!Given(t))
              \/ Claims!Repair(t, Claims!Given(t))
       PROVE  Step
  BY <1>12 DEF Claims!ClaimNext
<1> HIDE DEF Step
<1>13. Step
  BY <1>3, <1>4, <1>5, <1>6, <1>7, <1>8, <1>9, <1>10, <1>11, <1>12 DEF Instruction, AuditCashOut
<1> QED BY <1>13 DEF Step

\* The on-chain program implements the life of a ticket that TicketClaims
\* promises, whatever the house, other bettors, auditors and the oracle do.
THEOREM ClaimsImplemented == Spec => ImplementsClaims
  BY NextIsInstruction, ClaimsInit, PaymentInit, ClaimStep, PaymentNext, PaymentIsBounded, PTL
     DEF Spec, ImplementsClaims, Claims!ClaimSpec

-----------------------------------------------------------------------------
(* What it takes for the vault not to cover what it has reserved.          *)

\* What the violations proven of a ticket's prices have cost, as the accounts
\* tell: the stake of a ticket refunded for one, and the shortfall repaid.
CostOf(t) ==
    (IF ticket[t].state = "Refunded" /\ ticket[t].audit_status = "Violation"
     THEN ticket[t].stake ELSE 0)
      + (IF receipt[t].made_whole THEN receipt[t].shortfall_owed ELSE 0)
CostOfViolations == [t \in TicketIds |-> CostOf(t)]

\* What was paid out of no reservation is within it; so `unreserved`, which no
\* account of the program keeps, is only needed to prove what follows from this.
UnreservedIsExplained == unreserved <= Total(NumTickets, CostOfViolations)
CostInv == MatchInv /\ UnreservedIsExplained

\* The vault covers what it has reserved but for the cost of violations.
CoversButForViolations ==
    vault + Total(NumTickets, CostOfViolations) >= house.open_exposure

\* No price that the house has served has been proven to be a violation.
NoViolationProven ==
    \A t \in TicketIds :
        ticket[t].audit_status # "Violation" /\ receipt[t].audit_status # "Violation"
SolventUntilProvenWrong == NoViolationProven => VaultCoversExposure

\* Costs are amounts, and they can be summed.
LEMMA CostTypes ==
    ASSUME BookInv
    PROVE  CostOfViolations \in [1..NumTickets -> Nat]
<1>1. \A t \in TicketIds : ticket[t].stake \in Nat /\ receipt[t].shortfall_owed \in Nat
  BY ConstantTypes DEF BookInv, TypeOK, Ticket, CashOutReceipt
<1>2. \A t \in TicketIds : CostOf(t) \in Nat
  BY <1>1 DEF CostOf
<1> QED BY <1>2 DEF CostOfViolations, TicketIds

\* Where no account of a ticket changes, what was spent stays explained.
LEMMA CostsStay ==
    ASSUME UnreservedIsExplained, UNCHANGED <<ticket, receipt, unreserved>>
    PROVE  UnreservedIsExplained'
<1>1. CostOfViolations' = CostOfViolations
  BY DEF CostOfViolations, CostOf
<1> QED BY <1>1 DEF UnreservedIsExplained

\* Where the accounts of one ticket change, its cost has to grow by what was
\* spent, or by more.
LEMMA OneCostGrows ==
    ASSUME BookInv, BookInv', UnreservedIsExplained,
           NEW t \in TicketIds, NEW spent \in Nat,
           \A u \in TicketIds : u # t => ticket'[u] = ticket[u] /\ receipt'[u] = receipt[u],
           unreserved' = unreserved + spent,
           CostOf(t)' >= CostOf(t) + spent
    PROVE  UnreservedIsExplained'
<1>1. /\ CostOfViolations \in [1..NumTickets -> Nat]
      /\ CostOfViolations' \in [1..NumTickets -> Nat]
  <2>1. \A u \in TicketIds : ticket'[u].stake \in Nat /\ receipt'[u].shortfall_owed \in Nat
    BY ConstantTypes DEF BookInv, TypeOK, Ticket, CashOutReceipt
  <2>2. \A u \in TicketIds : CostOf(u)' \in Nat
    BY <2>1 DEF CostOf
  <2>3. CostOfViolations' \in [1..NumTickets -> Nat]
    BY <2>2 DEF CostOfViolations, TicketIds
  <2> QED BY <2>3, CostTypes
<1>2. PICK before, after :
        before = CostOfViolations /\ after = CostOfViolations'
  OBVIOUS
<1>3. t \in 1..NumTickets /\ NumTickets \in Nat
  BY BoundsAssumption DEF TicketIds
<1>4. before[t] = CostOf(t) /\ after[t] = CostOf(t)'
  BY <1>2 DEF CostOfViolations
<1>5. \A u \in 1..NumTickets : u # t => after[u] = before[u]
  <2>1. \A u \in TicketIds : u # t => CostOf(u)' = CostOf(u)
    BY DEF CostOf
  <2> QED BY <1>2, <2>1 DEF CostOfViolations, TicketIds
<1>6. /\ before \in [1..NumTickets -> Nat] /\ after \in [1..NumTickets -> Nat]
      /\ before \in [1..NumTickets -> Int] /\ after[t] \in Int
  BY <1>1, <1>2, <1>3
<1>7. after = [before EXCEPT ![t] = after[t]]
  BY <1>5, <1>6
<1>8. Total(NumTickets, after) = Total(NumTickets, before) - before[t] + after[t]
  <2>1. \A v \in Int :
          Total(NumTickets, [before EXCEPT ![t] = v]) = Total(NumTickets, before) - before[t] + v
    BY <1>3, <1>6, TotalUpdate
  <2> QED BY <1>6, <1>7, <2>1
<1>9. /\ Total(NumTickets, before) \in Nat /\ before[t] \in Nat /\ after[t] \in Nat
      /\ unreserved \in Nat
  BY <1>3, <1>6, TotalType DEF BookInv, TypeOK
<1>10. unreserved <= Total(NumTickets, before) /\ after[t] >= before[t] + spent
  BY <1>2, <1>4 DEF UnreservedIsExplained
<1>11. unreserved' <= Total(NumTickets, after)
  BY <1>8, <1>9, <1>10
<1> QED BY <1>2, <1>11 DEF UnreservedIsExplained

\* Only the refund of a ticket that had been settled, which is a proven
\* violation, and a repair spend what nothing was reserved for.
LEMMA CostNext ==
    ASSUME CostInv, [Instruction]_vars
    PROVE  CostInv'
<1>0. /\ MatchInv /\ MatchInv' /\ BookInv /\ BookInv' /\ VerdictInv /\ VerdictsAreRight
      /\ UnreservedIsExplained
  BY MatchNext DEF CostInv, MatchInv, VerdictInv, NumberingInv
<1>1. KeepsVerdicts
  BY <1>0, VerdictNext
<1>2. \A t \in TicketIds :
        /\ ticket[t].stake \in Nat /\ ticket'[t].stake \in Nat
        /\ receipt[t].shortfall_owed \in Nat /\ receipt'[t].shortfall_owed \in Nat
        /\ receipt[t].made_whole \in BOOLEAN /\ receipt'[t].made_whole \in BOOLEAN
        /\ ~receipt[t].exists => ~receipt[t].made_whole
        /\ receipt[t].made_whole => receipt[t].audit_status = "Violation"
  BY <1>0, ConstantTypes
     DEF BookInv, TypeOK, Ticket, CashOutReceipt, VerdictsAreRight
<1>3. unreserved \in Nat
  BY <1>0 DEF BookInv, TypeOK
\* Nothing is spent, and no account of a ticket but one changes.
<1>4. ASSUME NEW t \in TicketIds, unreserved' = unreserved, CostOf(t)' >= CostOf(t),
             \A u \in TicketIds : u # t => ticket'[u] = ticket[u] /\ receipt'[u] = receipt[u]
      PROVE  UnreservedIsExplained'
  <2>1. CostOf(t) \in Nat
    BY <1>2 DEF CostOf
  <2>2. unreserved' = unreserved + 0 /\ CostOf(t)' >= CostOf(t) + 0
    BY <1>3, <1>4, <2>1
  <2> QED BY <1>0, <1>4, <2>2, OneCostGrows
<1>5. ASSUME NEW t \in TicketIds, NEW m \in MarketIds, NEW s \in Sides, NEW stake \in Amount,
             PlaceBet(t, m, s, stake)
      PROVE  UnreservedIsExplained'
  <2>1. /\ ticket[t].state = "Vacant" /\ receipt' = receipt /\ unreserved' = unreserved
        /\ \A u \in TicketIds : u # t => ticket'[u] = ticket[u]
    BY <1>0, <1>5, PlaceBetEffect
  <2>2. CostOf(t)' >= CostOf(t)
    BY <1>2, <2>1 DEF CostOf
  <2> QED BY <1>4, <2>1, <2>2
<1>6. ASSUME NEW t \in TicketIds, CashOutTicket(t)
      PROVE  UnreservedIsExplained'
  <2>1. /\ ticket[t].state = "Live" /\ ~receipt[t].exists /\ unreserved' = unreserved
        /\ Close(t, "CashedOut") /\ "CashedOut" \in TicketState
        /\ \A u \in TicketIds : u # t => receipt'[u] = receipt[u]
    BY <1>0, <1>6, CashOutEffect DEF TicketState
  <2>2. \A u \in TicketIds : u # t => ticket'[u] = ticket[u]
    BY <1>0, <2>1, CloseEffect DEF BookInv
  <2>3. CostOf(t)' >= CostOf(t)
    BY <1>2, <2>1 DEF CostOf
  <2> QED BY <1>4, <2>1, <2>2, <2>3
<1>7. ASSUME NEW t \in TicketIds, SettleTicket(t)
      PROVE  UnreservedIsExplained'
  <2>1. /\ ticket[t].state = "Live" /\ receipt' = receipt /\ unreserved' = unreserved
        /\ \E s \in TicketState : Close(t, s)
    BY <1>7 DEF SettleTicket, TicketState
  <2>2. \A u \in TicketIds : u # t => ticket'[u] = ticket[u]
    BY <1>0, <2>1, CloseEffect DEF BookInv
  <2>3. CostOf(t)' >= CostOf(t)
    BY <1>2, <2>1 DEF CostOf
  <2> QED BY <1>4, <2>1, <2>2, <2>3
<1>8. ASSUME NEW t \in TicketIds, RefundTicket(t)
      PROVE  UnreservedIsExplained'
  <2>1. /\ ticket[t].state \in {"Live", "Refundable"} /\ receipt' = receipt
        /\ Close(t, "Refunded") /\ "Refunded" \in TicketState
        /\ unreserved' = unreserved + (IF ticket[t].exposure_released THEN ticket[t].stake ELSE 0)
    BY <1>8 DEF RefundTicket, TicketState
  <2>2. /\ \A u \in TicketIds : u # t => ticket'[u] = ticket[u]
        /\ ticket'[t].state = "Refunded" /\ ticket'[t].stake = ticket[t].stake
        /\ ticket'[t].audit_status = ticket[t].audit_status
    BY <1>0, <2>1, CloseEffect DEF BookInv
  <2>3. CASE ticket[t].exposure_released
    <3>1. ticket[t].state = "Refundable"
      BY <1>0, <2>1, <2>3 DEF BookInv, TicketsAreSound
    <3>2. ticket[t].audit_status = "Violation"
      BY <1>0, <3>1 DEF MatchInv, TicketsMatchMarkets, TicketMatchesMarket
    <3>3. CostOf(t)' >= CostOf(t) + ticket[t].stake
      BY <1>2, <2>1, <2>2, <3>1, <3>2 DEF CostOf
    <3>4. unreserved' = unreserved + ticket[t].stake
      BY <2>1, <2>3
    <3> QED BY <1>0, <1>2, <2>1, <2>2, <3>3, <3>4, OneCostGrows
  <2>4. CASE ~ticket[t].exposure_released
    <3>1. unreserved' = unreserved
      BY <1>3, <2>1, <2>4
    <3>2. CostOf(t)' >= CostOf(t)
      BY <1>2, <2>1, <2>2 DEF CostOf
    <3> QED BY <1>4, <2>1, <2>2, <3>1, <3>2
  <2> QED BY <2>3, <2>4
<1>9. ASSUME NEW t \in TicketIds, AuditTicket(t)
      PROVE  UnreservedIsExplained'
  <2>1. /\ receipt' = receipt /\ unreserved' = unreserved /\ ticket'[t].stake = ticket[t].stake
        /\ \A u \in TicketIds : u # t => ticket'[u] = ticket[u]
        /\ \/ ticket'[t].state = ticket[t].state
           \/ ticket[t].state \in FlaggedByViolation
    BY <1>0, <1>9, AuditTicketEffect
  <2>2. ticket[t].audit_status = "Violation" => ticket'[t].audit_status = "Violation"
    BY <1>1 DEF KeepsVerdicts
  <2>3. CostOf(t)' >= CostOf(t)
    BY <1>2, <2>1, <2>2 DEF CostOf, FlaggedByViolation
  <2> QED BY <1>4, <2>1, <2>3
<1>10. ASSUME NEW t \in TicketIds, NEW a \in Auditors, DecideCashOut(t, a)
       PROVE  UnreservedIsExplained'
  <2>1. /\ ticket' = ticket /\ unreserved' = unreserved
        /\ receipt'[t].made_whole = receipt[t].made_whole
        /\ \A u \in TicketIds : u # t => receipt'[u] = receipt[u]
    BY <1>0, <1>10, AuditCashOutEffect DEF ledger
  <2>2. receipt[t].made_whole => receipt'[t].shortfall_owed = receipt[t].shortfall_owed
    BY <1>1, <1>2 DEF KeepsVerdicts
  <2>3. CostOf(t)' >= CostOf(t)
    BY <1>2, <2>1, <2>2 DEF CostOf
  <2> QED BY <1>4, <2>1, <2>3
<1>11. ASSUME NEW t \in TicketIds, ClaimCashOutRepair(t)
       PROVE  UnreservedIsExplained'
  <2>1. /\ ticket' = ticket /\ ~receipt[t].made_whole /\ receipt'[t].made_whole
        /\ receipt'[t].shortfall_owed = receipt[t].shortfall_owed
        /\ \A u \in TicketIds : u # t => receipt'[u] = receipt[u]
    BY <1>0, <1>11, ClaimEffect
  <2>2. unreserved' = unreserved + receipt[t].shortfall_owed
    BY <1>11 DEF ClaimCashOutRepair
  <2>3. CostOf(t)' >= CostOf(t) + receipt[t].shortfall_owed
    BY <1>2, <2>1 DEF CostOf
  <2> QED BY <1>0, <1>2, <2>1, <2>2, <2>3, OneCostGrows
<1>12. ASSUME \/ \E params \in HouseParams : InitializeHouse(params)
              \/ \E amount \in Amount : DepositLiquidity(amount) \/ WithdrawLiquidity(amount)
              \/ \E f \in Fixtures, p \in Predicates, k \in Nat : CreateMarket(f, p, k)
              \/ \E m \in MarketIds, q \in [Sides -> Nat], r \in RecordIds : PostQuote(m, q, r)
              \/ \E m \in MarketIds : LockMarket(m)
              \/ \E m \in MarketIds, proof \in ScoreProofs : VerifyMarket(m, proof)
              \/ \E m \in MarketIds, byAuthority \in BOOLEAN : VoidMarket(m, byAuthority)
              \/ Tick
              \/ UNCHANGED vars
       PROVE  UnreservedIsExplained'
  <2>1. UNCHANGED <<ticket, receipt, unreserved>>
    BY <1>12 DEF InitializeHouse, DepositLiquidity, WithdrawLiquidity, CreateMarket,
       PostQuote, LockMarket, VerifyMarket, VoidMarket, Tick, vars, accounts, ledger
  <2> QED BY <1>0, <2>1, CostsStay
<1>13. UnreservedIsExplained'
  BY <1>5, <1>6, <1>7, <1>8, <1>9, <1>10, <1>11, <1>12 DEF Instruction, AuditCashOut
<1> QED BY <1>0, <1>13 DEF CostInv

\* What an explained account of the spending says of the vault.
LEMMA CoversWhatIsExplained ==
    ASSUME CostInv, SolventButForUnreserved
    PROVE  CoversButForViolations /\ SolventUntilProvenWrong
<1>1. BookInv /\ VerdictsAreRight
  BY DEF CostInv, MatchInv, VerdictInv, NumberingInv
<1>2. /\ vault \in Nat /\ unreserved \in Nat /\ house.open_exposure \in Nat
      /\ Total(NumTickets, CostOfViolations) \in Nat
  BY <1>1, ConstantTypes, BoundsAssumption, CostTypes, TotalType DEF BookInv, TypeOK, House
<1>3. unreserved <= Total(NumTickets, CostOfViolations)
  BY DEF CostInv, UnreservedIsExplained
<1>4. CoversButForViolations
  BY <1>2, <1>3 DEF SolventButForUnreserved, CoversButForViolations
<1>5. ASSUME NoViolationProven
      PROVE  VaultCoversExposure
  <2>1. \A t \in TicketIds : CostOf(t) = 0
    BY <1>1, <1>5 DEF VerdictsAreRight, NoViolationProven, CostOf
  <2>2. CostOfViolations = [i \in 1..NumTickets |-> 0]
    BY <2>1 DEF CostOfViolations, TicketIds
  <2>3. Total(NumTickets, CostOfViolations) = 0
    BY <2>2, TotalOfZeros, BoundsAssumption
  <2> QED BY <1>2, <1>4, <2>3 DEF CoversButForViolations, VaultCoversExposure
<1> QED BY <1>4, <1>5 DEF SolventUntilProvenWrong

\* Nothing is spent at the start.
LEMMA CostInit == Init => CostInv
<1> SUFFICES ASSUME Init
             PROVE  CostInv
  OBVIOUS
<1>1. MatchInv /\ BookInv
  BY MatchInit, BookInvInit
<1>2. Total(NumTickets, CostOfViolations) \in Nat
  BY <1>1, CostTypes, TotalType, BoundsAssumption
<1> QED BY <1>1, <1>2 DEF Init, CostInv, UnreservedIsExplained

-----------------------------------------------------------------------------
(* The books that clients of the program start from.                       *)

\* The markets of such a book are as many as its house has counted.
LEMMA MarketsAreCounted ==
    ASSUME NEW markets, NEW tickets, NEW liquidity, IsBook(markets, tickets, liquidity)
    PROVE  \E n \in 0..NumMarkets :
             /\ Cardinality({m \in MarketIds : markets[m] # NoMarket}) = n
             /\ \A m \in MarketIds : markets[m].state = "Vacant" <=> m >= n
<1>1. PICK n \in 0..NumMarkets : \A m \in MarketIds :
        /\ m >= n => markets[m] = NoMarket
        /\ m < n => markets[m].state \in {"Open", "Locked", "Voided"}
  <2>1. \A m \in MarketIds : m \in Int
    BY BoundsAssumption DEF MarketIds
  <2>2. PICK n \in 0..NumMarkets : \A m \in MarketIds :
          IF m >= n THEN markets[m] = NoMarket ELSE markets[m].state \in {"Open", "Locked", "Voided"}
    BY DEF IsBook
  <2> QED BY <2>1, <2>2, BoundsAssumption
<1>2. \A m \in MarketIds : markets[m].state = "Vacant" <=> m >= n
  <2>1. \A m \in MarketIds : m >= n \/ m < n
    BY BoundsAssumption DEF MarketIds
  <2> QED BY <1>1, <2>1 DEF NoMarket
<1>3. {m \in MarketIds : markets[m] # NoMarket} = 0..(n - 1)
  <2>1. \A m \in MarketIds : markets[m] # NoMarket <=> m < n
    BY <1>1, <1>2, BoundsAssumption DEF MarketIds, NoMarket
  <2> QED BY <2>1, BoundsAssumption DEF MarketIds
<1>4. Cardinality(0..(n - 1)) = n
  BY BoundsAssumption, FS_Interval
<1> QED BY <1>2, <1>3, <1>4

\* A ticket of such a book is live, or has not been sold.
LEMMA BookTickets ==
    ASSUME NEW markets, NEW tickets, NEW liquidity, IsBook(markets, tickets, liquidity),
           NEW t \in TicketIds
    PROVE  \/ tickets[t] = NoTicket
           \/ /\ tickets[t].state = "Live" /\ tickets[t].audit_status = "Unaudited"
              /\ tickets[t].market \in MarketIds
              /\ markets[tickets[t].market].state # "Vacant"
              /\ tickets[t].stake <= tickets[t].potential_payout
              /\ ~tickets[t].exposure_released
<1>1. PICK n \in 0..NumMarkets : \A m \in MarketIds :
        IF m >= n THEN markets[m] = NoMarket ELSE markets[m].state \in {"Open", "Locked", "Voided"}
  BY DEF IsBook
<1>2. \A m \in MarketIds : markets[m] # NoMarket => markets[m].state # "Vacant"
  BY <1>1
<1>3. \/ tickets[t] = NoTicket
      \/ /\ tickets[t].state = "Live" /\ tickets[t].audit_status = "Unaudited"
         /\ tickets[t].market \in MarketIds /\ markets[tickets[t].market] # NoMarket
         /\ tickets[t].stake <= tickets[t].potential_payout
         /\ ~tickets[t].exposure_released
  BY DEF IsBook
<1> QED BY <1>2, <1>3

\* It is one that the program can have come to.
LEMMA BookAtFirst ==
    ASSUME NEW markets, NEW tickets, NEW liquidity, IsBook(markets, tickets, liquidity),
           BookWith(markets, tickets, liquidity)
    PROVE  PaymentInv
<1>1. /\ market = markets /\ ticket = tickets
      /\ receipt = [t \in TicketIds |-> NoReceipt] /\ now = Start
      /\ outcome = [m \in MarketIds |-> "Unverified"]
      /\ paid = [t \in TicketIds |-> 0] /\ bounty = [t \in TicketIds |-> 0]
      /\ unreserved = 0
  BY DEF BookWith
<1>2. PICK stakes, payouts :
        /\ stakes = Total(NumTickets, [t \in TicketIds |-> tickets[t].stake])
        /\ payouts = Total(NumTickets, [t \in TicketIds |-> tickets[t].potential_payout])
  OBVIOUS
<1>3. /\ stakes \in Amount /\ payouts \in Amount /\ liquidity + stakes \in Amount
      /\ markets \in [MarketIds -> Market] /\ tickets \in [TicketIds -> Ticket]
  BY <1>2 DEF IsBook
<1>4. PICK n \in 0..NumMarkets :
        /\ Cardinality({m \in MarketIds : markets[m] # NoMarket}) = n
        /\ \A m \in MarketIds : markets[m].state = "Vacant" <=> m >= n
  BY MarketsAreCounted
<1>5. vault \in Amount
  <2>1. vault = liquidity + Total(NumTickets, [t \in TicketIds |-> tickets[t].stake])
    BY Zenon DEF BookWith
  <2> QED BY <1>2, <1>3, <2>1
<1>6. PICK h \in HouseParams :
        house = [NoHouse EXCEPT !.initialized = TRUE, !.margin_bps = h.margin_bps,
                   !.max_exposure_per_market = h.max_exposure_per_market,
                   !.max_payout_per_ticket = h.max_payout_per_ticket,
                   !.open_exposure = payouts, !.total_volume = stakes, !.market_count = n]
  <2>1. PICK h \in {params \in HouseParams :
                     params.margin_bps > 0 /\ params.margin_bps < BPS_DENOMINATOR} :
          house = [NoHouse EXCEPT !.initialized = TRUE, !.margin_bps = h.margin_bps,
            !.max_exposure_per_market = h.max_exposure_per_market,
            !.max_payout_per_ticket = h.max_payout_per_ticket,
            !.open_exposure = Total(NumTickets, [t \in TicketIds |-> tickets[t].potential_payout]),
            !.total_volume = Total(NumTickets, [t \in TicketIds |-> tickets[t].stake]),
            !.market_count = Cardinality({m \in MarketIds : markets[m] # NoMarket})]
    BY DEF BookWith
  <2> QED BY <1>2, <1>4, <2>1
<1>7. h \in [margin_bps : Nat, max_exposure_per_market : Amount, max_payout_per_ticket : Amount]
  BY ConstantTypes
<1>8. house \in House /\ house.initialized /\ house.market_count = n
  <2>1. house = [initialized |-> TRUE, margin_bps |-> h.margin_bps,
                 max_exposure_per_market |-> h.max_exposure_per_market,
                 max_payout_per_ticket |-> h.max_payout_per_ticket, open_exposure |-> payouts,
                 total_volume |-> stakes, market_count |-> n, paused |-> FALSE]
    BY <1>6 DEF NoHouse
  <2> QED BY <1>3, <1>7, <2>1, ConstantTypes DEF House
<1>9. TypeOK
  BY <1>1, <1>3, <1>5, <1>8, NoAccountTypes, ConstantTypes, BoundsAssumption DEF TypeOK
<1>10. QuotesArePriced
  <2>1. NoMarket.quote_posted_ts = 0
    BY DEF NoMarket
  <2>2. \A m \in MarketIds :
          markets[m].quote_posted_ts # 0 => \A s \in Sides : IsOdds(markets[m].odds[s])
    BY <2>1 DEF IsBook
  <2> QED BY <1>1, <2>2 DEF QuotesArePriced
<1>11. /\ NoTicket.state = "Vacant" /\ NoTicket.exposure_released = FALSE
       /\ NoTicket.potential_payout = 0 /\ NoTicket.audit_status = "Unaudited"
  BY DEF NoTicket
<1>12. \A t \in TicketIds : /\ ~receipt[t].exists /\ receipt[t].audit_status = "Unaudited"
                            /\ ~receipt[t].made_whole
                            /\ receipt[t].paid_amount = 0 /\ receipt[t].shortfall_owed = 0
  BY <1>1 DEF NoReceipt
<1>13. TicketsAreSound /\ TicketsHaveMarkets
  BY <1>1, <1>11, <1>12, BookTickets DEF TicketsAreSound, TicketsHaveMarkets
<1>14. MarketsAreNumbered
  BY <1>1, <1>4, <1>8 DEF MarketsAreNumbered
<1>15. VerdictsAreRight
  BY <1>1, <1>11, <1>12, BookTickets DEF VerdictsAreRight
<1>16. PaidOnce
  <2>1. \A t \in TicketIds : ticket[t].state \in {"Vacant", "Live"} /\ paid[t] = 0
    BY <1>1, <1>11, BookTickets
  <2> QED BY <2>1 DEF PaidOnce, Due
<1>17. ReceiptsAreBounded
  <2>1. \A t \in TicketIds : ticket[t].potential_payout \in Nat
    BY <1>9, ConstantTypes DEF TypeOK, Ticket
  <2> QED BY <1>12, <2>1 DEF ReceiptsAreBounded
<1> QED BY <1>9, <1>10, <1>13, <1>14, <1>15, <1>16, <1>17
        DEF PaymentInv, VerdictInv, NumberingInv, BookInv

\* It is sold out of a vault that covers it, and adds up.
LEMMA BookAddsUpAtFirst ==
    ASSUME NEW markets, NEW tickets, NEW liquidity, IsBook(markets, tickets, liquidity),
           BookWith(markets, tickets, liquidity)
    PROVE  ExposureExact /\ SolventButForUnreserved /\ MarketAggregates
<1>1. /\ market = markets /\ ticket = tickets /\ unreserved = 0
      /\ vault = liquidity + Total(NumTickets, [t \in TicketIds |-> tickets[t].stake])
  BY DEF BookWith
<1>2. PICK h \in HouseParams :
        /\ house.open_exposure =
             Total(NumTickets, [t \in TicketIds |-> tickets[t].potential_payout])
        /\ house.max_exposure_per_market = h.max_exposure_per_market
  BY DEF BookWith, NoHouse
<1>3. AddsUp(markets, tickets, liquidity)
  BY DEF IsBook
<1>4. ExposureExact
  <2>1. NoTicket.potential_payout = 0
    BY DEF NoTicket
  <2>2. \A t \in TicketIds : ~ticket[t].exposure_released \/ ticket[t].potential_payout = 0
    BY <1>1, <2>1, BookTickets
  <2>3. Reserved = [t \in TicketIds |-> tickets[t].potential_payout]
    BY <1>1, <2>2 DEF Reserved
  <2> QED BY <1>2, <2>3 DEF ExposureExact
<1>5. SolventButForUnreserved
  <2>1. Total(NumTickets, [t \in TicketIds |-> tickets[t].potential_payout])
          <= liquidity + Total(NumTickets, [t \in TicketIds |-> tickets[t].stake])
    BY <1>3 DEF AddsUp
  <2>2. vault \in Nat /\ house.open_exposure \in Nat
    BY BookAtFirst, ConstantTypes
       DEF PaymentInv, VerdictInv, NumberingInv, BookInv, TypeOK, House
  <2> QED BY <1>1, <1>2, <2>1, <2>2 DEF SolventButForUnreserved
<1>6. ASSUME NEW m \in MarketIds, NEW s \in Sides
      PROVE  SideIsSummed(m, s)
  <2>1. /\ markets[m].stake[s] =
             Total(NumTickets, [t \in TicketIds |->
               IF tickets[t].market = m /\ tickets[t].side = s THEN tickets[t].stake ELSE 0])
        /\ markets[m].payout[s] =
             Total(NumTickets, [t \in TicketIds |->
               IF tickets[t].market = m /\ tickets[t].side = s
               THEN tickets[t].potential_payout ELSE 0])
        /\ markets[m].payout[s] <= h.max_exposure_per_market
    BY <1>2, <1>3 DEF AddsUp
  <2> QED BY <1>1, <1>2, <2>1 DEF SideIsSummed, StakesOn, PayoutsOn, IsSoldOn
<1> QED BY <1>4, <1>5, <1>6, AggregatesAreSums

\* Markets that have been created, and maybe quoted, but have sold nothing.
IsUnsold(k) ==
    /\ k.state \in {"Open", "Locked", "Voided"}
    /\ k.quote_posted_ts # 0 =>
         k.quote_posted_ts <= Start /\ \A s \in Sides : IsOdds(k.odds[s])
    /\ \A s \in Sides : k.stake[s] = 0 /\ k.payout[s] = 0
AreUnsold(markets, n) ==
    \A m \in MarketIds : IF m >= n THEN markets[m] = NoMarket ELSE IsUnsold(markets[m])

\* They make a book with no ticket.
LEMMA UnsoldBook ==
    ASSUME NEW markets \in [MarketIds -> Market], NEW n \in 0..NumMarkets, AreUnsold(markets, n),
           NEW liquidity \in Amount
    PROVE  IsBook(markets, NoTickets, liquidity)
<1>1. NoTickets \in [TicketIds -> Ticket]
  BY NoAccountTypes DEF NoTickets
<1>2. \E last \in 0..NumTickets : \A t \in TicketIds : t > last /\ NoTickets[t] = NoTicket
  BY BoundsAssumption DEF TicketIds, NoTickets
<1>3. ASSUME NEW f, f = [t \in TicketIds |-> 0]
      PROVE  Total(NumTickets, f) = 0
  BY <1>3, TotalOfZeros, BoundsAssumption DEF TicketIds
<1>4. /\ NoTicket.stake = 0 /\ NoTicket.potential_payout = 0
      /\ \A t \in TicketIds : NoTickets[t] = NoTicket
  BY DEF NoTickets, NoTicket
<1>5. /\ Total(NumTickets, [t \in TicketIds |-> NoTickets[t].stake]) = 0
      /\ Total(NumTickets, [t \in TicketIds |-> NoTickets[t].potential_payout]) = 0
  <2>1. [t \in TicketIds |-> NoTickets[t].stake] = [t \in TicketIds |-> 0]
    BY <1>4
  <2>2. [t \in TicketIds |-> NoTickets[t].potential_payout] = [t \in TicketIds |-> 0]
    BY <1>4
  <2> QED BY <1>3, <2>1, <2>2
<1>6. \A h \in HouseParams : 0 <= h.max_exposure_per_market
  <2>1. \A h \in HouseParams : h.max_exposure_per_market \in Amount
    BY ConstantTypes
  <2> QED BY <2>1, BoundsAssumption DEF Amount
<1>7. liquidity \in Nat /\ liquidity + 0 = liquidity /\ 0 \in Amount
  BY ConstantTypes
<1>8. AddsUp(markets, NoTickets, liquidity)
  <2>1. ASSUME NEW m \in MarketIds, NEW s \in Sides
        PROVE  /\ markets[m].stake[s] =
                    Total(NumTickets, [t \in TicketIds |->
                      IF NoTickets[t].market = m /\ NoTickets[t].side = s
                      THEN NoTickets[t].stake ELSE 0])
               /\ markets[m].payout[s] =
                    Total(NumTickets, [t \in TicketIds |->
                      IF NoTickets[t].market = m /\ NoTickets[t].side = s
                      THEN NoTickets[t].potential_payout ELSE 0])
               /\ \A h \in HouseParams : markets[m].payout[s] <= h.max_exposure_per_market
    <3>1. markets[m].stake[s] = 0 /\ markets[m].payout[s] = 0
      BY DEF AreUnsold, IsUnsold, NoMarket
    <3>2. [t \in TicketIds |-> IF NoTickets[t].market = m /\ NoTickets[t].side = s
                               THEN NoTickets[t].stake ELSE 0] = [t \in TicketIds |-> 0]
      BY <1>4
    <3>3. [t \in TicketIds |-> IF NoTickets[t].market = m /\ NoTickets[t].side = s
                               THEN NoTickets[t].potential_payout ELSE 0] = [t \in TicketIds |-> 0]
      BY <1>4
    <3> QED BY <1>3, <1>6, <3>1, <3>2, <3>3
  <2>2. Total(NumTickets, [t \in TicketIds |-> NoTickets[t].potential_payout])
          <= liquidity + Total(NumTickets, [t \in TicketIds |-> NoTickets[t].stake])
    BY <1>5, <1>7
  <2> QED BY <2>1, <2>2 DEF AddsUp
<1>9. \E last \in 0..NumMarkets : \A m \in MarketIds :
        IF m >= last THEN markets[m] = NoMarket
        ELSE /\ markets[m].state \in {"Open", "Locked", "Voided"}
             /\ markets[m].quote_posted_ts # 0 =>
                  markets[m].quote_posted_ts <= Start
                    /\ \A s \in Sides : IsOdds(markets[m].odds[s])
  BY DEF AreUnsold, IsUnsold
<1> QED BY <1>1, <1>2, <1>5, <1>7, <1>8, <1>9 DEF IsBook

-----------------------------------------------------------------------------
(* All of it at once: what a client of the program may count on.           *)

\* Everything that the proofs above keep of the program.
ProgramInv ==
    /\ ExposureInv
    /\ SolventButForUnreserved
    /\ PaymentInv
    /\ CostInv
    /\ SalesInv
    /\ BountyInv

\* What they say of its accounts.
BookIsSound ==
    /\ TypeOK
    /\ ExposureExact
    /\ SolventButForUnreserved
    /\ CoversButForViolations
    /\ SolventUntilProvenWrong
    /\ PaidOnce
    /\ NeverOverpaid
    /\ TicketsMatchMarkets
    /\ MarketAggregates
    /\ BountyOncePerViolation

\* The program starts so.
LEMMA ProgramInit == Init => ProgramInv
<1> SUFFICES ASSUME Init
             PROVE  ProgramInv
  OBVIOUS
<1>1. \A t \in TicketIds :
        bounty[t] = 0 /\ ticket[t].audit_status = "Unaudited" /\ ~receipt[t].made_whole
  BY DEF Init, NoTicket, NoReceipt
<1>2. BountyInv
  BY <1>1, VerdictInit, BountyInit
<1> QED BY <1>2, ExposureInvInit, SolventInit, PaymentInit, CostInit, SalesInit DEF ProgramInv

\* So does any book that a client starts from.
LEMMA ProgramAtFirst ==
    ASSUME NEW markets, NEW tickets, NEW liquidity, IsBook(markets, tickets, liquidity),
           BookWith(markets, tickets, liquidity)
    PROVE  ProgramInv
<1>1. /\ market = markets /\ ticket = tickets
      /\ receipt = [t \in TicketIds |-> NoReceipt]
      /\ outcome = [m \in MarketIds |-> "Unverified"]
      /\ bounty = [t \in TicketIds |-> 0]
      /\ unreserved = 0
  BY DEF BookWith
<1>2. PaymentInv /\ VerdictInv /\ NumberingInv /\ BookInv
  BY BookAtFirst DEF PaymentInv, VerdictInv, NumberingInv
<1>3. ExposureExact /\ SolventButForUnreserved /\ MarketAggregates
  BY BookAddsUpAtFirst
<1>4. house.initialized
  BY DEF BookWith, NoHouse
<1>5. ExposureInv
  BY <1>2, <1>3, <1>4 DEF ExposureInv, HouseComesFirst
<1>6. PICK n \in 0..NumMarkets : \A m \in MarketIds :
        IF m >= n THEN markets[m] = NoMarket ELSE markets[m].state \in {"Open", "Locked", "Voided"}
  BY DEF IsBook
<1>7. /\ NoMarket.state = "Vacant"
      /\ \A s \in Sides : NoMarket.stake[s] = 0 /\ NoMarket.payout[s] = 0
  BY DEF NoMarket
<1>8. OutcomesMatch
  BY <1>1, <1>6, <1>7 DEF OutcomesMatch
<1>9. /\ NoTicket.state = "Vacant" /\ NoTicket.audit_status = "Unaudited"
      /\ NoTicket.stake = 0 /\ ~NoReceipt.exists /\ ~NoReceipt.made_whole
  BY DEF NoTicket, NoReceipt
<1>10. \A t \in TicketIds :
         /\ ticket[t].state \in {"Vacant", "Live"} /\ ticket[t].audit_status = "Unaudited"
         /\ ticket[t].state = "Vacant" => ticket[t].stake = 0
         /\ ~receipt[t].exists /\ ~receipt[t].made_whole
  BY <1>1, <1>9, BookTickets
<1>11. TicketsMatchMarkets
  BY <1>10 DEF TicketsMatchMarkets, TicketMatchesMarket
<1>12. Total(NumTickets, CostOfViolations) \in Nat
  BY <1>2, CostTypes, TotalType, BoundsAssumption
<1>13. CostInv
  BY <1>1, <1>2, <1>8, <1>11, <1>12 DEF CostInv, MatchInv, UnreservedIsExplained
<1>14. \A m \in MarketIds, s \in Sides :
         market[m].state = "Vacant" => market[m].stake[s] = 0 /\ market[m].payout[s] = 0
  BY <1>1, <1>6, <1>7
<1>15. SalesInv
  BY <1>2, <1>3, <1>10, <1>14 DEF SalesInv, NothingSoldBefore
<1>16. BountyInv
  BY <1>1, <1>2, <1>10, BountyInit
<1> QED BY <1>2, <1>3, <1>5, <1>13, <1>15, <1>16 DEF ProgramInv

\* Every instruction keeps it, whoever sends it with whatever arguments.
LEMMA ProgramNext ==
    ASSUME ProgramInv, [Instruction]_vars
    PROVE  ProgramInv' /\ KeepsVerdicts /\ KeepsOutcomes
<1>1. /\ ExposureInv /\ BookInv /\ SolventButForUnreserved /\ PaymentInv /\ VerdictInv
      /\ CostInv /\ SalesInv /\ BountyInv
  BY DEF ProgramInv, ExposureInv, PaymentInv
<1>2. NumberingInv /\ OutcomesMatch
  BY <1>1 DEF CostInv, MatchInv, VerdictInv
<1>3. ExposureInv' /\ SolventButForUnreserved' /\ PaymentInv'
  BY <1>1, ExposureInvNext, SolventNext, PaymentNext
<1>4. CostInv' /\ SalesInv' /\ BountyInv'
  BY <1>1, CostNext, SalesNext, BountyNext
<1>5. KeepsVerdicts /\ KeepsOutcomes
  BY <1>1, <1>2, VerdictNext, OutcomesNext DEF OutcomeInv
<1> QED BY <1>3, <1>4, <1>5 DEF ProgramInv

\* And it says so.
LEMMA ProgramIsSound ==
    ASSUME ProgramInv
    PROVE  BookIsSound
<1>1. /\ ExposureInv /\ SolventButForUnreserved /\ PaymentInv /\ CostInv /\ SalesInv /\ BountyInv
  BY DEF ProgramInv
<1>2. CoversButForViolations /\ SolventUntilProvenWrong /\ NeverOverpaid
  BY <1>1, CoversWhatIsExplained, PaymentIsBounded
<1> QED BY <1>1, <1>2
        DEF BookIsSound, ExposureInv, BookInv, PaymentInv, CostInv, MatchInv, SalesInv, BountyInv

\* A client whose steps are instructions keeps it, and moves claims as
\* TicketClaims allows, whatever else its steps are.
LEMMA NeverOverpaidNext == PaymentInv' => NeverOverpaid'
<1>1. PaymentInv => NeverOverpaid
  BY PaymentIsBounded
<1> QED BY <1>1, PTL

LEMMA ClientNext ==
    ASSUME ProgramInv, [Instruction]_vars
    PROVE  /\ ProgramInv'
           /\ [KeepsVerdicts]_vars /\ [KeepsOutcomes]_vars
           /\ [Claims!ClaimNext]_(Claims!claimVars)
<1>1. ProgramInv' /\ KeepsVerdicts /\ KeepsOutcomes
  BY ProgramNext
<1>2. PaymentInv /\ PaymentInv'
  BY <1>1 DEF ProgramInv
<1> QED BY <1>1, <1>2, ClaimStep, NeverOverpaidNext

\* The vault covers every payout it has reserved, as place_bet.rs:65 has it, for
\* as long as no price that the house served has been proven to be a violation.
THEOREM SolventUntilProven == Spec => [](NoViolationProven => VaultCoversExposure)
<1>1. ProgramInv => (NoViolationProven => VaultCoversExposure)
  BY ProgramIsSound DEF BookIsSound, SolventUntilProvenWrong
<1> QED BY <1>1, NextIsInstruction, ProgramInit, ProgramNext, PTL DEF Spec

\* After that, what it may fall short by is at most what the accounts say those
\* violations have cost: the stakes refunded and the shortfalls repaid for them.
THEOREM DeficitIsTheViolations == Spec => []CoversButForViolations
<1>1. ProgramInv => CoversButForViolations
  BY ProgramIsSound DEF BookIsSound
<1> QED BY <1>1, NextIsInstruction, ProgramInit, ProgramNext, PTL DEF Spec

\* The funds of a live ticket: its liability is in open_exposure, so neither the
\* checked subtraction of settle_ticket.rs:59 nor the saturating one of
\* refund_ticket.rs:49 reaches its limit; and its payout is in the vault, but
\* for what violations proven of other tickets have cost.
LiveTicketIsFunded(t) ==
    ticket[t].state = "Live" =>
      /\ house.open_exposure >= ticket[t].potential_payout
      /\ vault + Total(NumTickets, CostOfViolations) >= ticket[t].potential_payout
      /\ NoViolationProven => vault >= ticket[t].potential_payout /\ vault >= ticket[t].stake

\* What one ticket reserves is at most what all of them do.
LEMMA LiveTicketsAreFunded ==
    ASSUME ProgramInv, NEW t \in TicketIds
    PROVE  LiveTicketIsFunded(t)
<1>1. BookInv /\ ExposureExact /\ CoversButForViolations /\ SolventUntilProvenWrong
  BY ProgramIsSound DEF ProgramInv, ExposureInv, BookIsSound
<1>2. /\ vault \in Nat /\ house.open_exposure \in Nat
      /\ Total(NumTickets, CostOfViolations) \in Nat
  BY <1>1, ConstantTypes, BoundsAssumption, CostTypes, TotalType DEF BookInv, TypeOK, House
<1>3. Reserved[t] <= house.open_exposure
  BY <1>1, ReservedType, TotalAtLeast, BoundsAssumption DEF ExposureExact, TicketIds
<1>4. ASSUME ticket[t].state = "Live"
      PROVE  /\ Reserved[t] = ticket[t].potential_payout
             /\ ticket[t].stake <= ticket[t].potential_payout
             /\ ticket[t].stake \in Nat /\ ticket[t].potential_payout \in Nat
  BY <1>1, <1>4, ConstantTypes DEF BookInv, TicketsAreSound, TypeOK, Ticket, Reserved
<1> QED BY <1>1, <1>2, <1>3, <1>4
        DEF LiveTicketIsFunded, CoversButForViolations, SolventUntilProvenWrong, VaultCoversExposure

\* No instruction on a live ticket can fail for what house and vault hold, until
\* a price is proven wrong: the liability it releases (settle_ticket.rs:59,
\* refund_ticket.rs:49) and what its bettor is paid are there, whatever the
\* other tickets have been paid and the house has withdrawn.
THEOREM LiveTicketsFunded == Spec => [](\A t \in TicketIds : LiveTicketIsFunded(t))
<1>1. ProgramInv => \A t \in TicketIds : LiveTicketIsFunded(t)
  BY LiveTicketsAreFunded
<1> QED BY <1>1, NextIsInstruction, ProgramInit, ProgramNext, PTL DEF Spec

=============================================================================
