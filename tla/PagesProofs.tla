----------------------------- MODULE PagesProofs -----------------------------
(***************************************************************************)
(* Proofs about the pages a wallet buys and sells on, for any clicks,      *)
(* deadlines and failures, any quotes, any market and any tickets the      *)
(* wallet holds at first.  WalletInv says what an attempt and its          *)
(* transaction have to do with each other, whatever timed out; SlipInv and *)
(* TicketsInv say what a page knows of the chain it last read.             *)
(***************************************************************************)
EXTENDS MCPages, TrueBookProofs

-----------------------------------------------------------------------------
(* The book, beyond PaymentInv.                                            *)

\* A cash-out was paid at the odds of its receipt.
SalesArePriced ==
    \A t \in TicketIds :
        receipt[t].exists =>
            receipt[t].paid_amount = cash_out_value(ticket[t].potential_payout,
                                                    implied_prob_bps(receipt[t].opposite_odds_bps))
VacantAreNew == \A t \in TicketIds : ticket[t].state = "Vacant" => ticket[t] = NoTicket
QuotesAreDated == \A m \in MarketIds : market[m].quote_posted_ts <= now
SoldHaveReceipts == \A t \in TicketIds : ticket[t].state = "CashedOut" => receipt[t].exists
BookStands == PaymentInv /\ SalesArePriced /\ SoldHaveReceipts /\ VacantAreNew /\ QuotesAreDated

-----------------------------------------------------------------------------
(* The attempts of the wallet.                                             *)

Stages == {"unused", "preparing", "signing", "sending", "confirming", "over"}
Results == {"confirmed", "refused", "unknown"}
IsAttempt(a) ==
    /\ a = [stage |-> a.stage, tx |-> a.tx, since |-> a.since, expires |-> a.expires,
            usdt |-> a.usdt, result |-> a.result]
    /\ a.stage \in Stages /\ a.expires \in Nat
    /\ IF a.stage = "over" THEN a.result \in Results ELSE a.result = None

IsTx(tx) ==
    /\ tx.op \in {"bet", "cashout", "audit", "auditCashOut", "claim", "refund"}
    /\ tx.op = "bet" => tx.m \in MarketIds /\ tx.side \in Sides /\ tx.stake \in Amount
    /\ tx.op # "bet" => tx.t \in TicketIds

SentBy(i) == {sent \in inflight : sent.tx.by = i}

\* What is in flight for an attempt is the one transaction it has sent, not yet
\* landed; and what an attempt reports is so.
AttemptIsSound(i) ==
    /\ IsAttempt(attempt[i])
    /\ IF attempt[i].stage = "unused" THEN attempt[i].tx = None
       ELSE attempt[i].tx.by = i /\ IsTx(attempt[i].tx)
    /\ landed[i] \in TicketIds \cup {Failed, None}
    /\ attempt[i].stage \notin {"confirming", "over"} => landed[i] = None /\ SentBy(i) = {}
    /\ landed[i] # None => SentBy(i) = {}
    /\ \A a, b \in SentBy(i) : a = b
    /\ \A sent \in SentBy(i) :
         /\ sent.tx = attempt[i].tx /\ sent.expires \in Nat
         /\ attempt[i].stage = "confirming" => sent.expires = attempt[i].expires
    /\ attempt[i].result = "confirmed" => landed[i] \in TicketIds
    /\ attempt[i].result = "refused" => IsDead(i)

WalletInv ==
    /\ attempt = [i \in Attempts |-> attempt[i]]
    /\ landed = [i \in Attempts |-> landed[i]]
    /\ \A sent \in inflight : sent.tx.by \in Attempts
    /\ \A i \in Attempts : AttemptIsSound(i)
    /\ \A i, j \in Attempts : i < j /\ attempt[i].stage = "unused" => attempt[j].stage = "unused"

\* What stays of an attempt that was made, whatever happens.
WalletKept ==
    \A i \in Attempts :
        /\ attempt[i].stage # "unused" =>
             attempt'[i].stage # "unused" /\ attempt'[i].tx = attempt[i].tx
        /\ attempt[i].stage = "over" => attempt'[i] = attempt[i]
        /\ landed[i] # None => landed'[i] = landed[i]

\* What a transaction that was executed has done, about ticket t, for good.
HasDone(tx, t) ==
    /\ tx.op = "bet" =>
         ticket[t].state # "Vacant" /\ ticket[t].side = tx.side /\ ticket[t].stake = tx.stake
    /\ tx.op = "cashout" => receipt[tx.t].exists
    /\ tx.op = "audit" => ticket[tx.t].audit_status # "Unaudited"
    /\ tx.op = "auditCashOut" => receipt[tx.t].audit_status # "Unaudited"
    /\ tx.op = "claim" => receipt[tx.t].made_whole
LandedIsDone ==
    \A i \in Attempts : landed[i] \in TicketIds => HasDone(attempt[i].tx, landed[i])

ClientInv == BookStands /\ WalletInv /\ LandedIsDone

-----------------------------------------------------------------------------
(* The match page.                                                         *)

IsUsed(i) == attempt[i].stage # "unused"

\* The quote of a board or a slip is one the market has had.
IsPosted(posted) == posted \in Nat /\ posted <= market[TheMarket].quote_posted_ts
BoardIsSound ==
    board # None => board = [odds |-> board.odds, posted |-> board.posted] /\ IsPosted(board.posted)

\* The slip that is open is the latest, and knows of the last of its bets.
SlipIsSound ==
    slip # None =>
        /\ slip = [quote |-> slip.quote, left |-> slip.left, last |-> slip.last, id |-> slip.id]
        /\ slip.quote = [side |-> slip.quote.side, odds |-> slip.quote.odds,
                         posted |-> slip.quote.posted]
        /\ slip.quote.side \in Sides /\ IsPosted(slip.quote.posted)
        /\ slip.left \in Nat /\ slip.id = slips /\ slips > 0
        /\ \/ slip.last = None
           \/ /\ slip.last \in Attempts /\ IsUsed(slip.last)
              /\ attempt[slip.last].tx.slip = slip.id
        /\ slip.last = None => slip.left = quoteSecondsRemaining(slip.quote.posted)
        /\ \A i \in Attempts :
             IsUsed(i) /\ attempt[i].tx.slip = slip.id => slip.last # None /\ i <= slip.last

\* A first bet was clicked with the safety buffer left.
BetIsSound(i) ==
    /\ attempt[i].tx.op = "bet" /\ attempt[i].tx.slip \in 1..slips
    /\ attempt[i].tx.at \in Nat
    /\ attempt[i].tx.isFirst =>
         attempt[i].tx.at - market[TheMarket].quote_posted_ts
             <= QUOTE_VALIDITY_SECONDS - QUOTE_SAFETY_SECONDS
BetsAreSound == \A i \in Attempts : IsUsed(i) => BetIsSound(i)

\* A slip is retried only after its bets have failed, or are not known of.
RetriesAreSound ==
    \A i, j \in Attempts :
        i < j /\ IsUsed(i) /\ IsUsed(j) /\ attempt[i].tx.slip = attempt[j].tx.slip =>
            attempt[i].result \in {"refused", "unknown"}

SlipInv ==
    /\ ClientInv
    /\ market[TheMarket].state # "Vacant" /\ slips \in Nat
    /\ BoardIsSound /\ SlipIsSound /\ BetsAreSound /\ RetriesAreSound

-----------------------------------------------------------------------------
(* The tickets page.                                                       *)

\* An offer is the price of the ticket on the quote that is shown with it.
IsOffer(t, offer) ==
    /\ offer.quote[Opposite(ticket[t].side)] \in Nat
    /\ offer.amount = cashOutValueRaw(ticket[t].potential_payout,
                                      offer.quote[Opposite(ticket[t].side)])

\* What a row says of a ticket that was over stays so, but for its repair.
RowIsSound(t, row) ==
    /\ t \in TicketIds /\ ticket[t].state # "Vacant"
    /\ row.offer # None => IsOffer(t, row.offer)
    /\ row.status = "won" => ticket[t].state = "Won" /\ row.amount = ticket[t].potential_payout
    /\ row.status = "lost" => ticket[t].state \in {"Lost", "Refundable", "Refunded"} /\ row.amount = 0
    /\ row.status = "refunded" => ticket[t].state = "Refunded" /\ row.amount = ticket[t].stake
    /\ row.status = "cashedOut" => receipt[t].exists /\ row.amount = receipt[t].paid_amount
    /\ row.status # "cashedOut" => row.shortfall = None
    /\ row.shortfall # None =>
         /\ receipt[t].audit_status = "Violation"
         /\ row.shortfall.amount = receipt[t].shortfall_owed
         /\ row.shortfall.repaid => receipt[t].made_whole
ListIsSound == list # None => \A t \in DOMAIN list : RowIsSound(t, list[t])

\* The attempt of the sheet is to sell its ticket.
SheetIsSound ==
    sheet # None =>
        /\ sheet = [t |-> sheet.t, offer |-> sheet.offer, left |-> sheet.left, last |-> sheet.last]
        /\ sheet.t \in TicketIds /\ ticket[sheet.t].state # "Vacant"
        /\ IsOffer(sheet.t, sheet.offer)
        /\ \/ sheet.last = None
           \/ /\ sheet.last \in Attempts /\ IsUsed(sheet.last)
              /\ attempt[sheet.last].tx.op = "cashout" /\ attempt[sheet.last].tx.t = sheet.t

\* The claim that follows an audit is of its ticket.
IsClaimFor(j, t) ==
    j \in Attempts /\ IsUsed(j) /\ attempt[j].tx.op = "claim" /\ attempt[j].tx.t = t
VerdictIsSound(i) ==
    /\ verdict[i].is \in {"honest", "violation"} =>
         /\ attempt[i].stage = "over" /\ attempt[i].result = "confirmed"
         /\ attempt[i].tx.op \in {"audit", "auditCashOut"}
         /\ StatusAudited(i) = (IF verdict[i].is = "violation" THEN "Violation" ELSE "Honest")
    /\ verdict[i].is = "violation" /\ attempt[i].tx.op = "auditCashOut" =>
         IsClaimFor(verdict[i].claim, attempt[i].tx.t)
VerdictsAreSound ==
    verdict = [i \in Attempts |-> verdict[i]] /\ \A i \in Attempts : VerdictIsSound(i)

TicketsInv == ClientInv /\ ListIsSound /\ SheetIsSound /\ VerdictsAreSound

-----------------------------------------------------------------------------
(* Instructions keep the book standing.                                    *)

\* The states a ticket goes through.
TicketStep(t) ==
    \/ ticket'[t] = ticket[t]
    \/ ticket[t].state = "Vacant" /\ ticket'[t].state = "Live"
    \/ ticket[t].state = "Live" /\ ticket'[t].state \in {"Won", "Lost", "CashedOut"}
    \/ ticket[t].state \in {"Live", "Refundable"} /\ ticket'[t].state = "Refunded"
    \/ ticket[t].state # "Vacant" /\ ticket'[t].state = ticket[t].state
    \/ ticket[t].state \in {"Live", "Lost"} /\ ticket'[t].state = "Refundable"

LEMMA TicketSteps ==
    ASSUME BookInv, [Instruction]_vars, NEW t \in TicketIds
    PROVE  TicketStep(t)
<1>1. ASSUME UNCHANGED ticket
      PROVE  TicketStep(t)
  BY <1>1 DEF TicketStep
<1>2. ASSUME NEW u \in TicketIds, NEW m \in MarketIds, NEW s \in Sides, NEW stake \in Amount,
             PlaceBet(u, m, s, stake)
      PROVE  TicketStep(t)
  BY <1>2, PlaceBetEffect DEF TicketStep
<1>3. ASSUME NEW u \in TicketIds, NEW s \in TicketState, Close(u, s),
             \/ ticket[u].state = "Live" /\ s \in {"Won", "Lost", "CashedOut"}
             \/ ticket[u].state \in {"Live", "Refundable"} /\ s = "Refunded"
      PROVE  TicketStep(t)
  BY <1>3, CloseEffect DEF TicketStep, BookInv
<1>4. ASSUME NEW u \in TicketIds, CashOutTicket(u)
      PROVE  TicketStep(t)
  BY <1>3, <1>4 DEF CashOutTicket, TicketState
<1>5. ASSUME NEW u \in TicketIds, SettleTicket(u)
      PROVE  TicketStep(t)
  BY <1>3, <1>5 DEF SettleTicket, TicketState
<1>6. ASSUME NEW u \in TicketIds, RefundTicket(u)
      PROVE  TicketStep(t)
  BY <1>3, <1>6 DEF RefundTicket, TicketState
<1>7. ASSUME NEW u \in TicketIds, AuditTicket(u)
      PROVE  TicketStep(t)
  <2>1. ticket[u].state # "Vacant"
    BY <1>7 DEF AuditTicket
  <2> QED BY <1>7, <2>1, AuditTicketEffect DEF TicketStep, FlaggedByViolation
<1>8. ASSUME NEW u \in TicketIds, NEW a \in Auditors, DecideCashOut(u, a)
      PROVE  TicketStep(t)
  BY <1>1, <1>8, AuditCashOutEffect
<1>9. ASSUME NEW u \in TicketIds, ClaimCashOutRepair(u)
      PROVE  TicketStep(t)
  BY <1>1, <1>9, ClaimEffect
<1>10. ASSUME \/ \E params \in HouseParams : InitializeHouse(params)
              \/ \E amount \in Amount : DepositLiquidity(amount) \/ WithdrawLiquidity(amount)
              \/ \E f \in Fixtures, p \in Predicates, k \in Nat : CreateMarket(f, p, k)
              \/ \E m \in MarketIds, q \in [Sides -> Nat], r \in RecordIds : PostQuote(m, q, r)
              \/ \E m \in MarketIds : LockMarket(m)
              \/ \E m \in MarketIds, proof \in ScoreProofs : VerifyMarket(m, proof)
              \/ \E m \in MarketIds, byAuthority \in BOOLEAN : VoidMarket(m, byAuthority)
              \/ Tick
              \/ UNCHANGED vars
       PROVE  TicketStep(t)
  BY <1>1, <1>10 DEF InitializeHouse, DepositLiquidity, WithdrawLiquidity, CreateMarket,
       PostQuote, LockMarket, VerifyMarket, VoidMarket, Tick, vars, accounts
<1> QED BY <1>2, <1>4, <1>5, <1>6, <1>7, <1>8, <1>9, <1>10 DEF Instruction, AuditCashOut

\* Only a cash-out opens a receipt.
LEMMA SalesAreCashOuts ==
    ASSUME BookInv, [Instruction]_vars, NEW t \in TicketIds, ~receipt[t].exists, receipt'[t].exists
    PROVE  CashOutTicket(t)
<1>1. ASSUME NEW u \in TicketIds, CashOutTicket(u)
      PROVE  CashOutTicket(t)
  BY <1>1, CashOutEffect
<1>2. ASSUME NEW u \in TicketIds, NEW a \in Auditors, DecideCashOut(u, a)
      PROVE  FALSE
  BY <1>2, AuditCashOutEffect
<1>3. ASSUME NEW u \in TicketIds, ClaimCashOutRepair(u)
      PROVE  FALSE
  BY <1>3, ClaimEffect
<1>4. ASSUME NEW u \in TicketIds, NEW m \in MarketIds, NEW s \in Sides, NEW stake \in Amount,
             PlaceBet(u, m, s, stake)
      PROVE  FALSE
  BY <1>4, PlaceBetEffect
<1>5. ASSUME NEW u \in TicketIds, SettleTicket(u) \/ RefundTicket(u) \/ AuditTicket(u)
      PROVE  FALSE
  <2>1. SettleTicket(u) => UNCHANGED receipt
    BY DEF SettleTicket
  <2>2. RefundTicket(u) => UNCHANGED receipt
    BY DEF RefundTicket
  <2>3. AuditTicket(u) => UNCHANGED receipt
    BY DEF AuditTicket
  <2> QED BY <1>5, <2>1, <2>2, <2>3
<1>6. ASSUME \/ \E params \in HouseParams : InitializeHouse(params)
             \/ \E amount \in Amount : DepositLiquidity(amount) \/ WithdrawLiquidity(amount)
             \/ \E f \in Fixtures, p \in Predicates, k \in Nat : CreateMarket(f, p, k)
             \/ \E m \in MarketIds, q \in [Sides -> Nat], r \in RecordIds : PostQuote(m, q, r)
             \/ \E m \in MarketIds : LockMarket(m)
             \/ \E m \in MarketIds, proof \in ScoreProofs : VerifyMarket(m, proof)
             \/ \E m \in MarketIds, byAuthority \in BOOLEAN : VoidMarket(m, byAuthority)
             \/ Tick
             \/ UNCHANGED vars
      PROVE  FALSE
  BY <1>6 DEF InitializeHouse, DepositLiquidity, WithdrawLiquidity, CreateMarket, PostQuote,
       LockMarket, VerifyMarket, VoidMarket, Tick, vars, accounts
<1> QED BY <1>1, <1>2, <1>3, <1>4, <1>5, <1>6 DEF Instruction, AuditCashOut

\* A ticket that is sold back has a receipt.
LEMMA SalesHaveReceipts ==
    ASSUME BookInv, [Instruction]_vars, NEW t \in TicketIds,
           ticket[t].state # "CashedOut", ticket'[t].state = "CashedOut"
    PROVE  receipt'[t].exists
<1>1. ASSUME NEW u \in TicketIds, CashOutTicket(u)
      PROVE  receipt'[t].exists
  <2>1. Close(u, "CashedOut") /\ receipt'[u].exists
    BY <1>1, CashOutEffect
  <2>2. t = u
    BY <2>1, CloseEffect DEF BookInv, TicketState
  <2> QED BY <2>1, <2>2
<1>2. ASSUME NEW u \in TicketIds, NEW s \in TicketState, s # "CashedOut", Close(u, s)
      PROVE  FALSE
  BY <1>2, CloseEffect DEF BookInv
<1>3. ASSUME NEW u \in TicketIds, SettleTicket(u)
      PROVE  FALSE
  BY <1>2, <1>3 DEF SettleTicket, TicketState
<1>4. ASSUME NEW u \in TicketIds, RefundTicket(u)
      PROVE  FALSE
  BY <1>2, <1>4 DEF RefundTicket, TicketState
<1>5. ASSUME NEW u \in TicketIds, NEW m \in MarketIds, NEW s \in Sides, NEW stake \in Amount,
             PlaceBet(u, m, s, stake)
      PROVE  FALSE
  BY <1>5, PlaceBetEffect
<1>6. ASSUME NEW u \in TicketIds, AuditTicket(u)
      PROVE  FALSE
  BY <1>6, AuditTicketEffect
<1>7. ASSUME NEW u \in TicketIds, NEW a \in Auditors, DecideCashOut(u, a)
      PROVE  FALSE
  BY <1>7, AuditCashOutEffect
<1>8. ASSUME NEW u \in TicketIds, ClaimCashOutRepair(u)
      PROVE  FALSE
  BY <1>8, ClaimEffect
<1>9. ASSUME \/ \E params \in HouseParams : InitializeHouse(params)
             \/ \E amount \in Amount : DepositLiquidity(amount) \/ WithdrawLiquidity(amount)
             \/ \E f \in Fixtures, p \in Predicates, k \in Nat : CreateMarket(f, p, k)
             \/ \E m \in MarketIds, q \in [Sides -> Nat], r \in RecordIds : PostQuote(m, q, r)
             \/ \E m \in MarketIds : LockMarket(m)
             \/ \E m \in MarketIds, proof \in ScoreProofs : VerifyMarket(m, proof)
             \/ \E m \in MarketIds, byAuthority \in BOOLEAN : VoidMarket(m, byAuthority)
             \/ Tick
             \/ UNCHANGED vars
      PROVE  FALSE
  BY <1>9 DEF InitializeHouse, DepositLiquidity, WithdrawLiquidity, CreateMarket, PostQuote,
       LockMarket, VerifyMarket, VoidMarket, Tick, vars, accounts
<1> QED BY <1>1, <1>3, <1>4, <1>5, <1>6, <1>7, <1>8, <1>9 DEF Instruction, AuditCashOut

\* A quote is replaced by one that is dated by the clock.
QuoteStep(m) ==
    \/ market'[m].quote_posted_ts = market[m].quote_posted_ts
    \/ market'[m].quote_posted_ts = now
    \/ market[m].state = "Vacant" /\ market'[m].quote_posted_ts = 0
LEMMA QuoteSteps ==
    ASSUME NumberingInv, [Instruction]_vars, NEW m \in MarketIds
    PROVE  QuoteStep(m)
<1>0. market \in [MarketIds -> Market] /\ house \in House
  BY DEF NumberingInv, BookInv, TypeOK
<1>1. ASSUME UNCHANGED market
      PROVE  QuoteStep(m)
  BY <1>1 DEF QuoteStep
<1>2. ASSUME NEW n, NEW new, market' = [market EXCEPT ![n] = new],
             n = m => \/ new.quote_posted_ts = market[m].quote_posted_ts
                      \/ new.quote_posted_ts = now
                      \/ market[m].state = "Vacant" /\ new.quote_posted_ts = 0
      PROVE  QuoteStep(m)
  BY <1>0, <1>2 DEF QuoteStep
<1>3. ASSUME NEW f \in Fixtures, NEW p \in Predicates, NEW k \in Nat, CreateMarket(f, p, k)
      PROVE  QuoteStep(m)
  <2> DEFINE new == [NoMarket EXCEPT !.state = "Open", !.fixture_id = f, !.params = p,
                                     !.kickoff_ts = k]
  <2>1. market' = [market EXCEPT ![house.market_count] = new] /\ house.market_count < NumMarkets
    BY <1>3 DEF CreateMarket
  <2>2. new.quote_posted_ts = 0
    BY DEF NoMarket
  <2>3. house.market_count = m => market[m].state = "Vacant"
    BY <1>0, BoundsAssumption DEF NumberingInv, MarketsAreNumbered, MarketIds
  <2> HIDE DEF new
  <2> QED BY <1>2, <2>1, <2>2, <2>3
<1>4. ASSUME NEW n \in MarketIds, NEW q \in [Sides -> Nat], NEW r \in RecordIds, PostQuote(n, q, r)
      PROVE  QuoteStep(m)
  <2> DEFINE new == [market[n] EXCEPT !.odds = q, !.odds_record = r, !.quote_posted_ts = now]
  <2>1. market' = [market EXCEPT ![n] = new]
    BY <1>4 DEF PostQuote
  <2>2. new.quote_posted_ts = now
    BY <1>0 DEF Market
  <2> HIDE DEF new
  <2> QED BY <1>2, <2>1, <2>2
<1>5. ASSUME NEW u \in TicketIds, NEW n \in MarketIds, NEW s \in Sides, NEW stake \in Amount,
             PlaceBet(u, n, s, stake)
      PROVE  QuoteStep(m)
  <2>1. PICK payout : market' = [market EXCEPT ![n] = MarketAfterBet(n, s, stake, payout)]
    BY <1>5 DEF PlaceBet
  <2>2. MarketAfterBet(n, s, stake, payout).quote_posted_ts = market[n].quote_posted_ts
    BY <1>0 DEF MarketAfterBet, Market
  <2> QED BY <1>2, <2>1, <2>2
<1>6. ASSUME NEW n \in MarketIds, NEW s, market' = [market EXCEPT ![n] = [@ EXCEPT !.state = s]]
      PROVE  QuoteStep(m)
  <2> DEFINE new == [market[n] EXCEPT !.state = s]
  <2>1. market' = [market EXCEPT ![n] = new] /\ new.quote_posted_ts = market[n].quote_posted_ts
    BY <1>0, <1>6 DEF Market
  <2> HIDE DEF new
  <2> QED BY <1>2, <2>1
<1>7. ASSUME \/ \E n \in MarketIds : LockMarket(n)
             \/ \E n \in MarketIds, proof \in ScoreProofs : VerifyMarket(n, proof)
             \/ \E n \in MarketIds, byAuthority \in BOOLEAN : VoidMarket(n, byAuthority)
      PROVE  QuoteStep(m)
  BY <1>6, <1>7 DEF LockMarket, VerifyMarket, VoidMarket
<1>8. ASSUME \/ \E u \in TicketIds, a \in Auditors : DecideCashOut(u, a)
             \/ \E u \in TicketIds : ClaimCashOutRepair(u)
      PROVE  QuoteStep(m)
  BY <1>1, <1>8, AuditCashOutEffect, ClaimEffect DEF NumberingInv
<1>9. ASSUME NEW u \in TicketIds,
             CashOutTicket(u) \/ SettleTicket(u) \/ RefundTicket(u) \/ AuditTicket(u)
      PROVE  QuoteStep(m)
  <2>1. CashOutTicket(u) => UNCHANGED market
    BY DEF CashOutTicket
  <2>2. SettleTicket(u) => UNCHANGED market
    BY DEF SettleTicket
  <2>3. RefundTicket(u) => UNCHANGED market
    BY DEF RefundTicket
  <2>4. AuditTicket(u) => UNCHANGED market
    BY DEF AuditTicket
  <2> QED BY <1>1, <1>9, <2>1, <2>2, <2>3, <2>4
<1>10. ASSUME \/ \E params \in HouseParams : InitializeHouse(params)
              \/ \E amount \in Amount : DepositLiquidity(amount) \/ WithdrawLiquidity(amount)
              \/ Tick
              \/ UNCHANGED vars
       PROVE  QuoteStep(m)
  BY <1>1, <1>10 DEF InitializeHouse, DepositLiquidity, WithdrawLiquidity, Tick, vars, accounts
<1> QED BY <1>3, <1>4, <1>5, <1>7, <1>8, <1>9, <1>10 DEF Instruction, AuditCashOut

\* Time does not run backwards, and runs only when the clock ticks.
LEMMA TimeRuns ==
    ASSUME BookInv, [Instruction]_vars
    PROVE  now' \in Nat /\ now \in Nat /\ now' >= now
<1>1. now \in Nat
  BY ConstantTypes DEF BookInv, TypeOK
<1>2. ASSUME NEW u \in TicketIds, NEW a \in Auditors, DecideCashOut(u, a)
      PROVE  now' = now
  BY <1>2, AuditCashOutEffect
<1>3. ASSUME NEW u \in TicketIds, ClaimCashOutRepair(u) \/ AuditTicket(u)
      PROVE  now' = now
  BY <1>3, ClaimEffect, AuditTicketEffect
<1>4. ASSUME NEW u \in TicketIds, NEW m \in MarketIds, NEW s \in Sides, NEW stake \in Amount,
             PlaceBet(u, m, s, stake)
      PROVE  now' = now
  BY <1>4 DEF PlaceBet
<1>5. ASSUME NEW u \in TicketIds, CashOutTicket(u) \/ SettleTicket(u) \/ RefundTicket(u)
      PROVE  now' = now
  <2>1. CashOutTicket(u) => now' = now
    BY DEF CashOutTicket
  <2>2. SettleTicket(u) => now' = now
    BY DEF SettleTicket
  <2>3. RefundTicket(u) => now' = now
    BY DEF RefundTicket
  <2> QED BY <1>5, <2>1, <2>2, <2>3
<1>6. ASSUME \/ \E params \in HouseParams : InitializeHouse(params)
             \/ \E amount \in Amount : DepositLiquidity(amount) \/ WithdrawLiquidity(amount)
             \/ \E f \in Fixtures, p \in Predicates, k \in Nat : CreateMarket(f, p, k)
             \/ \E m \in MarketIds, q \in [Sides -> Nat], r \in RecordIds : PostQuote(m, q, r)
             \/ \E m \in MarketIds : LockMarket(m)
             \/ \E m \in MarketIds, proof \in ScoreProofs : VerifyMarket(m, proof)
             \/ \E m \in MarketIds, byAuthority \in BOOLEAN : VoidMarket(m, byAuthority)
             \/ UNCHANGED vars
      PROVE  now' = now
  BY <1>6 DEF InitializeHouse, DepositLiquidity, WithdrawLiquidity, CreateMarket, PostQuote,
       LockMarket, VerifyMarket, VoidMarket, vars
<1>7. Tick => now' = now + 1
  BY DEF Tick
<1>8. now' = now \/ now' = now + 1
  BY <1>2, <1>3, <1>4, <1>5, <1>6, <1>7 DEF Instruction, AuditCashOut
<1> QED BY <1>1, <1>8

LEMMA BookStandsNext ==
    ASSUME BookStands, [Instruction]_vars
    PROVE  BookStands' /\ TermsKept /\ KeepsVerdicts
<1>1. PaymentInv /\ VerdictInv /\ NumberingInv /\ BookInv
  BY DEF BookStands, PaymentInv, VerdictInv, NumberingInv
<1>2. PaymentInv' /\ TermsKept /\ KeepsVerdicts
  BY <1>1, PaymentNext, VerdictNext, TermsNext
<1>3. SalesArePriced'
  <2> SUFFICES ASSUME NEW t \in TicketIds, receipt'[t].exists
               PROVE  receipt'[t].paid_amount =
                        cash_out_value(ticket'[t].potential_payout,
                                       implied_prob_bps(receipt'[t].opposite_odds_bps))
    BY DEF SalesArePriced
  <2>1. CASE receipt[t].exists
    <3>1. ticket[t].state # "Vacant"
      BY <1>1, <2>1 DEF BookInv, TicketsAreSound
    <3>2. /\ ticket'[t].potential_payout = ticket[t].potential_payout
          /\ receipt'[t].paid_amount = receipt[t].paid_amount
          /\ receipt'[t].opposite_odds_bps = receipt[t].opposite_odds_bps
      BY <1>2, <2>1, <3>1 DEF TermsKept, TicketTermsKept, ReceiptTermsKept
    <3> QED BY <2>1, <3>2 DEF BookStands, SalesArePriced
  <2>2. CASE ~receipt[t].exists
    <3>1. CashOutTicket(t)
      BY <1>1, <2>2, SalesAreCashOuts
    <3>2. ticket'[t].potential_payout = ticket[t].potential_payout
      BY <1>2, <3>1 DEF CashOutTicket, TermsKept, TicketTermsKept
    <3>3. receipt \in [TicketIds -> CashOutReceipt]
      BY <1>1 DEF BookInv, TypeOK
    <3>4. PICK odds, record, amount :
            /\ amount = cash_out_value(ticket[t].potential_payout, implied_prob_bps(odds))
            /\ receipt' = [receipt EXCEPT ![t] =
                             [NoReceipt EXCEPT !.exists = TRUE, !.paid_amount = amount,
                                               !.opposite_odds_bps = odds,
                                               !.odds_record = record]]
      BY <3>1 DEF CashOutTicket
    <3>5. receipt'[t].paid_amount = amount /\ receipt'[t].opposite_odds_bps = odds
      BY <3>3, <3>4 DEF NoReceipt
    <3> QED BY <3>2, <3>4, <3>5
  <2> QED BY <2>1, <2>2
<1>4. VacantAreNew'
  <2>1. \A t \in TicketIds : TicketStep(t)
    BY <1>1, TicketSteps
  <2> QED BY <2>1 DEF TicketStep, BookStands, VacantAreNew
<1>5. QuotesAreDated'
  <2>1. now' \in Nat /\ now \in Nat /\ now' >= now
    BY <1>1, TimeRuns
  <2>2. \A m \in MarketIds : QuoteStep(m) /\ market[m].quote_posted_ts \in Nat
    BY <1>1, QuoteSteps DEF BookInv, TypeOK, Market
  <2> QED BY <2>1, <2>2 DEF QuoteStep, BookStands, QuotesAreDated
<1>6. SoldHaveReceipts'
  <2> SUFFICES ASSUME NEW t \in TicketIds, ticket'[t].state = "CashedOut"
               PROVE  receipt'[t].exists
    BY DEF SoldHaveReceipts
  <2>1. CASE ticket[t].state = "CashedOut"
    BY <1>2, <2>1 DEF BookStands, SoldHaveReceipts, TermsKept, ReceiptTermsKept
  <2>2. CASE ticket[t].state # "CashedOut"
    BY <1>1, <2>2, SalesHaveReceipts
  <2> QED BY <2>1, <2>2
<1> QED BY <1>2, <1>3, <1>4, <1>5, <1>6 DEF BookStands

\* The books that the pages start from.
LEMMA BookStandsAtFirst ==
    ASSUME NEW markets, NEW tickets, NEW liquidity, IsBook(markets, tickets, liquidity),
           BookWith(markets, tickets, liquidity)
    PROVE  BookStands
<1>1. PaymentInv
  BY BookAtFirst
<1>2. /\ market = markets /\ ticket = tickets /\ now = Start
      /\ receipt = [t \in TicketIds |-> NoReceipt]
  BY DEF BookWith
<1>3. SalesArePriced
  BY <1>2 DEF SalesArePriced, NoReceipt
<1>4. VacantAreNew
  BY <1>2, BookTickets DEF VacantAreNew
<1>5. QuotesAreDated
  <2>1. NoMarket.quote_posted_ts = 0 /\ Start \in Nat
    BY BoundsAssumption DEF NoMarket
  <2>2. \A m \in MarketIds :
          \/ markets[m].quote_posted_ts = 0
          \/ markets[m].quote_posted_ts <= Start
    BY <2>1 DEF IsBook
  <2> QED BY <1>2, <2>1, <2>2 DEF QuotesAreDated
<1>6. SoldHaveReceipts
  BY <1>2, BookTickets DEF SoldHaveReceipts, NoTicket
<1> QED BY <1>1, <1>3, <1>4, <1>5, <1>6 DEF BookStands

-----------------------------------------------------------------------------
(* What a transaction does, for good.                                      *)

\* A shortfall that was repaid stays so.
LEMMA RepairsStay ==
    ASSUME VerdictInv, [Instruction]_vars, NEW t \in TicketIds, receipt[t].made_whole
    PROVE  receipt'[t].made_whole
<1>1. BookInv /\ VerdictsAreRight
  BY DEF VerdictInv, NumberingInv
<1>2. ReceiptStep(t)
  BY <1>1, VerdictSteps
<1>3. receipt[t].exists
  BY <1>1 DEF VerdictsAreRight
<1> QED BY <1>2, <1>3 DEF ReceiptStep, SameReceipt, NewReceipt, RepairedReceipt, AuditedReceipt

LEMMA DoneStays ==
    ASSUME BookStands, [Instruction]_vars, NEW tx, IsTx(tx), NEW t \in TicketIds, HasDone(tx, t)
    PROVE  HasDone(tx, t)'
<1>1. TermsKept /\ KeepsVerdicts /\ VerdictInv
  BY BookStandsNext DEF BookStands, PaymentInv
<1>2. CASE tx.op = "bet"
  BY <1>1, <1>2 DEF HasDone, TermsKept, TicketTermsKept
<1>3. CASE tx.op = "cashout"
  BY <1>1, <1>3 DEF HasDone, IsTx, TermsKept, ReceiptTermsKept
<1>4. CASE tx.op \in {"audit", "auditCashOut"}
  BY <1>1, <1>4 DEF HasDone, IsTx, KeepsVerdicts
<1>5. CASE tx.op = "claim"
  BY <1>1, <1>5, RepairsStay DEF HasDone, IsTx
<1>6. CASE tx.op = "refund"
  BY <1>6 DEF HasDone
<1> QED BY <1>2, <1>3, <1>4, <1>5, <1>6 DEF IsTx

\* A bet is about the ticket that it has sold.
LEMMA BetDoes ==
    ASSUME BookStands, NEW tx, IsTx(tx), tx.op = "bet",
           NEW u \in TicketIds, PlaceBet(u, tx.m, tx.side, tx.stake)
    PROVE  /\ TouchedTicket(tx) = u
           /\ ticket'[u].state = "Live" /\ ticket'[u].side = tx.side /\ ticket'[u].stake = tx.stake
<1>1. BookInv /\ VacantAreNew
  BY DEF BookStands, PaymentInv, VerdictInv, NumberingInv
<1>2. tx.m \in MarketIds /\ tx.side \in Sides /\ tx.stake \in Amount
  BY DEF IsTx
<1>3. /\ ticket[u].state = "Vacant" /\ ticket'[u].state = "Live" /\ ticket'[u].side = tx.side
      /\ \A t \in TicketIds : t # u => ticket'[t] = ticket[t]
  BY <1>1, <1>2, PlaceBetEffect
<1>4. ticket'[u].stake = tx.stake
  <2>1. ticket \in [TicketIds -> Ticket]
    BY <1>1 DEF BookInv, TypeOK
  <2>2. PICK odds, record, payout : ticket' = [ticket EXCEPT ![u] =
          [NoTicket EXCEPT !.state = "Live", !.market = tx.m, !.side = tx.side,
                           !.stake = tx.stake, !.quoted_odds_bps = odds,
                           !.odds_record = record, !.potential_payout = payout]]
    BY DEF PlaceBet
  <2> QED BY <2>1, <2>2 DEF NoTicket
<1>5. ticket[u] = NoTicket /\ ticket'[u] # NoTicket
  BY <1>1, <1>3 DEF VacantAreNew, NoTicket
<1>6. TouchedTicket(tx) = CHOOSE t \in TicketIds : ticket[t] = NoTicket /\ ticket'[t] # NoTicket
  BY DEF TouchedTicket
<1> QED BY <1>3, <1>4, <1>5, <1>6

LEMMA ExecuteDoes ==
    ASSUME BookStands, NEW tx, IsTx(tx), Execute(tx)
    PROVE  /\ Instruction /\ now' = now
           /\ \E t \in TicketIds : t = TouchedTicket(tx) /\ HasDone(tx, t)'
<1>1. BookInv
  BY DEF BookStands, PaymentInv, VerdictInv, NumberingInv
<1>2. CASE tx.op = "bet"
  <2>1. PICK u \in TicketIds : PlaceBet(u, tx.m, tx.side, tx.stake)
    BY <1>2 DEF Execute
  <2>2. tx.m \in MarketIds /\ tx.side \in Sides /\ tx.stake \in Amount
    BY <1>2 DEF IsTx
  <2>3. Instruction
    BY <2>1, <2>2 DEF Instruction
  <2>4. now' = now
    BY <2>1 DEF PlaceBet
  <2>5. u = TouchedTicket(tx) /\ HasDone(tx, u)'
    BY <1>2, <2>1, BetDoes DEF HasDone
  <2> QED BY <2>3, <2>4, <2>5
<1>3. CASE tx.op # "bet"
  <2>1. tx.t \in TicketIds /\ TouchedTicket(tx) = tx.t
    BY <1>3 DEF IsTx, TouchedTicket
  <2>2. CASE tx.op = "cashout"
    <3>1. CashOutTicket(tx.t)
      BY <2>2 DEF Execute
    <3>2. Instruction
      BY <2>1, <3>1 DEF Instruction
    <3>3. now' = now
      BY <3>1 DEF CashOutTicket
    <3>4. HasDone(tx, tx.t)'
      BY <1>1, <2>1, <2>2, <3>1, CashOutEffect DEF HasDone
    <3> QED BY <2>1, <3>2, <3>3, <3>4
  <2>3. CASE tx.op = "audit"
    <3>1. AuditTicket(tx.t)
      BY <2>3 DEF Execute
    <3>2. Instruction
      BY <2>1, <3>1 DEF Instruction
    <3>3. now' = now /\ ticket'[tx.t].audit_status # "Unaudited"
      BY <1>1, <2>1, <3>1, AuditTicketEffect
    <3>4. HasDone(tx, tx.t)'
      BY <2>3, <3>3 DEF HasDone
    <3> QED BY <2>1, <3>2, <3>3, <3>4
  <2>4. CASE tx.op = "auditCashOut"
    <3>1. PICK a \in Auditors : AuditCashOut(tx.t, a)
      BY <2>4 DEF Execute
    <3>2. Instruction
      BY <2>1, <3>1 DEF Instruction
    <3>3. now' = now /\ receipt'[tx.t].audit_status # "Unaudited"
      <4>1. CASE DecideCashOut(tx.t, a)
        BY <1>1, <2>1, <4>1, AuditCashOutEffect
      <4>2. CASE receipt[tx.t].audit_status = "Violation" /\ UNCHANGED vars
        BY <4>2 DEF vars, accounts
      <4> QED BY <3>1, <4>1, <4>2 DEF AuditCashOut
    <3>4. HasDone(tx, tx.t)'
      BY <2>4, <3>3 DEF HasDone
    <3> QED BY <2>1, <3>2, <3>3, <3>4
  <2>5. CASE tx.op = "claim"
    <3>1. ClaimCashOutRepair(tx.t)
      BY <2>5 DEF Execute
    <3>2. Instruction
      BY <2>1, <3>1 DEF Instruction
    <3>3. now' = now /\ receipt'[tx.t].made_whole
      BY <1>1, <2>1, <3>1, ClaimEffect
    <3>4. HasDone(tx, tx.t)'
      BY <2>5, <3>3 DEF HasDone
    <3> QED BY <2>1, <3>2, <3>3, <3>4
  <2>6. CASE tx.op = "refund"
    <3>1. RefundTicket(tx.t)
      BY <2>6 DEF Execute
    <3>2. Instruction
      BY <2>1, <3>1 DEF Instruction
    <3>3. now' = now
      BY <3>1 DEF RefundTicket
    <3>4. HasDone(tx, tx.t)'
      BY <2>6 DEF HasDone
    <3> QED BY <2>1, <3>2, <3>3, <3>4
  <2> QED BY <1>3, <2>2, <2>3, <2>4, <2>5, <2>6 DEF IsTx
<1> QED BY <1>2, <1>3

-----------------------------------------------------------------------------
(* The wallet.                                                             *)

\* The reports, the tickets and None are told apart.
LEMMA NoneIsNoTicket ==
    /\ None \notin TicketIds /\ None # Failed /\ Failed \notin TicketIds
    /\ None \notin Attempts /\ None \notin Results
  BY NoneAssumption, BoundsAssumption DEF TicketIds, Failed, Results

\* An attempt, as a record of its fields.
Attempt(stage, tx, since, expires, usdt, result) ==
    [stage |-> stage, tx |-> tx, since |-> since, expires |-> expires, usdt |-> usdt,
     result |-> result]

\* An attempt that is left alone stays sound while time passes.
LEMMA StaysSound ==
    ASSUME NEW i \in Attempts, AttemptIsSound(i),
           attempt'[i] = attempt[i], landed'[i] = landed[i],
           \A sent \in inflight' : sent.tx.by = i => sent \in inflight,
           now \in Nat, now' \in Nat, now' >= now
    PROVE  AttemptIsSound(i)'
<1>1. SentBy(i)' \subseteq SentBy(i)
  BY DEF SentBy
<1>2. \A sent \in SentBy(i) : sent.expires \in Nat
  BY DEF AttemptIsSound
<1>3. ASSUME IsDead(i) PROVE IsDead(i)'
  <2> SUFFICES ASSUME NEW sent \in inflight', sent.tx.by = i
               PROVE  now' >= sent.expires
    BY <1>3 DEF IsDead
  <2>1. sent \in SentBy(i)
    BY DEF SentBy
  <2>2. now >= sent.expires
    BY <1>3, <2>1 DEF IsDead, SentBy
  <2> QED BY <1>2, <2>1, <2>2
<1>4. /\ IsAttempt(attempt'[i])
      /\ IF attempt'[i].stage = "unused" THEN attempt'[i].tx = None
         ELSE attempt'[i].tx.by = i /\ IsTx(attempt'[i].tx)
      /\ landed'[i] \in TicketIds \cup {Failed, None}
      /\ attempt'[i].stage \notin {"confirming", "over"} => landed'[i] = None /\ SentBy(i)' = {}
      /\ landed'[i] # None => SentBy(i)' = {}
  BY <1>1 DEF AttemptIsSound
<1>5. /\ \A a, b \in SentBy(i)' : a = b
      /\ \A sent \in SentBy(i)' :
           /\ sent.tx = attempt'[i].tx /\ sent.expires \in Nat
           /\ attempt'[i].stage = "confirming" => sent.expires = attempt'[i].expires
  BY <1>1 DEF AttemptIsSound
<1>6. /\ attempt'[i].result = "confirmed" => landed'[i] \in TicketIds
      /\ attempt'[i].result = "refused" => IsDead(i)'
  BY <1>3 DEF AttemptIsSound
<1> QED BY <1>4, <1>5, <1>6 DEF AttemptIsSound

\* A step of one attempt has only that attempt to answer for.
OthersInFlightStay(i) ==
    \A sent \in inflight' : sent.tx.by \in Attempts /\ (sent.tx.by # i => sent \in inflight)
LEMMA AttemptStep ==
    ASSUME WalletInv, NEW i \in Attempts, NEW a, attempt' = [attempt EXCEPT ![i] = a],
           a.stage # "unused", attempt[i].stage # "over",
           attempt[i].stage # "unused" => a.tx = attempt[i].tx,
           \A j \in Attempts : j < i => attempt[j].stage # "unused",
           landed' = landed, OthersInFlightStay(i), now \in Nat, now' = now,
           AttemptIsSound(i)'
    PROVE  WalletInv' /\ WalletKept
<1>1. /\ attempt'[i] = a /\ \A j \in Attempts : j # i => attempt'[j] = attempt[j]
      /\ attempt' = [j \in Attempts |-> attempt'[j]]
  BY DEF WalletInv
<1>2. landed' = [j \in Attempts |-> landed'[j]]
  BY DEF WalletInv
<1>3. \A j \in Attempts : AttemptIsSound(j)'
  <2> SUFFICES ASSUME NEW j \in Attempts, j # i
               PROVE  AttemptIsSound(j)'
    OBVIOUS
  <2>1. AttemptIsSound(j)
    BY DEF WalletInv
  <2>2. \A sent \in inflight' : sent.tx.by = j => sent \in inflight
    BY DEF OthersInFlightStay
  <2> QED BY <1>1, <2>1, <2>2, StaysSound
<1>4. \A j, k \in Attempts : j < k /\ attempt'[j].stage = "unused" => attempt'[k].stage = "unused"
  <2> SUFFICES ASSUME NEW j \in Attempts, NEW k \in Attempts, j < k, attempt'[j].stage = "unused"
               PROVE  attempt'[k].stage = "unused"
    OBVIOUS
  <2>1. j # i /\ attempt[j].stage = "unused"
    BY <1>1
  <2>2. k # i
    BY <2>1
  <2> QED BY <1>1, <2>1, <2>2 DEF WalletInv
<1>5. \A sent \in inflight' : sent.tx.by \in Attempts
  BY DEF OthersInFlightStay
<1>6. WalletKept
  <2> SUFFICES ASSUME NEW j \in Attempts
               PROVE  /\ attempt[j].stage # "unused" =>
                           attempt'[j].stage # "unused" /\ attempt'[j].tx = attempt[j].tx
                      /\ attempt[j].stage = "over" => attempt'[j] = attempt[j]
                      /\ landed[j] # None => landed'[j] = landed[j]
    BY DEF WalletKept
  <2> QED BY <1>1
<1> QED BY <1>1, <1>2, <1>3, <1>4, <1>5, <1>6 DEF WalletInv

\* An attempt that is in use comes after others that are.
LEMMA UsedInOrder ==
    ASSUME WalletInv, NEW i \in Attempts, attempt[i].stage # "unused"
    PROVE  \A j \in Attempts : j < i => attempt[j].stage # "unused"
  BY DEF WalletInv

\* A click starts the attempt that comes next.
LEMMA ClickIsSound ==
    ASSUME WalletInv, NEW i \in Attempts, NEW tx, IsTx(tx), Click(i, tx),
           now \in Nat, now' = now, inflight' = inflight
    PROVE  WalletInv' /\ WalletKept
<1>1. PICK a : /\ a = Attempt("preparing", tx, now, 0, 0, None)
               /\ attempt' = [attempt EXCEPT ![i] = a]
  <2>1. Unused = Attempt("unused", None, 0, 0, 0, None)
    BY DEF Unused, Attempt
  <2>2. PICK v : v = [Unused EXCEPT !.stage = "preparing"]
    OBVIOUS
  <2>3. v = Attempt("preparing", None, 0, 0, 0, None)
    BY <2>1, <2>2 DEF Attempt
  <2>4. PICK w : w = [v EXCEPT !.tx = tx]
    OBVIOUS
  <2>5. w = Attempt("preparing", tx, 0, 0, 0, None)
    BY <2>3, <2>4 DEF Attempt
  <2>6. PICK a : a = [w EXCEPT !.since = now]
    OBVIOUS
  <2>7. a = Attempt("preparing", tx, now, 0, 0, None)
    BY <2>5, <2>6 DEF Attempt
  <2>8. attempt' = [attempt EXCEPT ![i] =
          [Unused EXCEPT !.stage = "preparing", !.tx = tx, !.since = now]]
    BY DEF Click, Becomes
  <2> QED BY <2>2, <2>4, <2>6, <2>7, <2>8
<1>2. attempt'[i] = a /\ landed' = landed /\ attempt[i].stage = "unused" /\ tx.by = i
  BY <1>1 DEF Click, WalletInv, Attempt
<1>3. landed[i] = None /\ SentBy(i) = {} /\ SentBy(i)' = SentBy(i)
  BY <1>2 DEF WalletInv, AttemptIsSound, SentBy
<1>4. IsAttempt(a)
  BY <1>1 DEF IsAttempt, Stages, Attempt
<1>5. AttemptIsSound(i)'
  <2>1. None \notin {"confirmed", "refused"}
    BY NoneIsNoTicket DEF Results
  <2> QED BY <1>1, <1>2, <1>3, <1>4, <2>1 DEF AttemptIsSound, Attempt
<1>6. \A j \in Attempts : j < i => attempt[j].stage # "unused"
  BY DEF Click, Attempts
<1>7. OthersInFlightStay(i)
  BY DEF OthersInFlightStay, WalletInv
<1>8. attempt[i].stage # "over" /\ a.stage # "unused"
  BY <1>1, <1>2 DEF Attempt
<1> QED BY <1>1, <1>2, <1>5, <1>6, <1>7, <1>8, AttemptStep

\* An attempt that goes on to its next stage has nothing on chain yet.
LEMMA GoesOn ==
    ASSUME WalletInv, NEW i \in Attempts, NEW a, attempt' = [attempt EXCEPT ![i] = a],
           IsAttempt(a), a.stage \in {"signing", "sending"}, a.tx = attempt[i].tx,
           attempt[i].stage \in {"preparing", "signing"},
           landed' = landed, inflight' = inflight, now \in Nat, now' = now
    PROVE  WalletInv' /\ WalletKept
<1>1. attempt'[i] = a /\ a.result = None /\ None \notin {"confirmed", "refused"}
  BY NoneIsNoTicket DEF WalletInv, IsAttempt, Results
<1>2. /\ landed[i] = None /\ SentBy(i) = {} /\ SentBy(i)' = SentBy(i)
      /\ attempt[i].tx.by = i /\ IsTx(attempt[i].tx)
  BY DEF WalletInv, AttemptIsSound, SentBy
<1>3. AttemptIsSound(i)'
  BY <1>1, <1>2 DEF AttemptIsSound
<1>4. \A j \in Attempts : j < i => attempt[j].stage # "unused"
  BY UsedInOrder
<1>5. OthersInFlightStay(i)
  BY DEF OthersInFlightStay, WalletInv
<1> QED BY <1>3, <1>4, <1>5, AttemptStep

\* An attempt that is over has nothing more in flight than it had, or what it
\* has just sent; what it reports is so.
LEMMA OverIsSound ==
    ASSUME WalletInv, NEW i \in Attempts, NEW result \in Results, Over(i, result),
           attempt[i].stage \notin {"unused", "over"},
           landed' = landed, now \in Nat, now' = now,
           \/ inflight' = inflight
           \/ /\ attempt[i].stage = "sending"
              /\ inflight' = inflight \cup
                   {[tx |-> attempt[i].tx, expires |-> attempt[i].expires]},
           result = "confirmed" => landed[i] \in TicketIds,
           result = "refused" => IsDead(i) /\ inflight' = inflight
    PROVE  WalletInv' /\ WalletKept
<1>1. AttemptIsSound(i) /\ IsAttempt(attempt[i])
  BY DEF WalletInv, AttemptIsSound
<1>2. PICK a : /\ a = Attempt("over", attempt[i].tx, 0, 0, attempt[i].usdt, result)
               /\ attempt' = [attempt EXCEPT ![i] = a]
  <2>1. PICK old, stage, tx, since, expires, usdt, was :
          /\ old = attempt[i] /\ stage = old.stage /\ tx = old.tx /\ since = old.since
          /\ expires = old.expires /\ usdt = old.usdt /\ was = old.result
          /\ old = Attempt(stage, tx, since, expires, usdt, was)
    BY <1>1, Zenon DEF IsAttempt, Attempt
  <2>2. PICK u : u = [old EXCEPT !.stage = "over"]
    OBVIOUS
  <2>3. u = Attempt("over", tx, since, expires, usdt, was)
    BY <2>1, <2>2 DEF Attempt
  <2>4. PICK v : v = [u EXCEPT !.since = 0]
    OBVIOUS
  <2>5. v = Attempt("over", tx, 0, expires, usdt, was)
    BY <2>3, <2>4 DEF Attempt
  <2>6. PICK w : w = [v EXCEPT !.expires = 0]
    OBVIOUS
  <2>7. w = Attempt("over", tx, 0, 0, usdt, was)
    BY <2>5, <2>6 DEF Attempt
  <2>8. PICK a : a = [w EXCEPT !.result = result]
    OBVIOUS
  <2>9. a = Attempt("over", tx, 0, 0, usdt, result)
    BY <2>7, <2>8 DEF Attempt
  <2>10. attempt' = [attempt EXCEPT ![i] =
           [attempt[i] EXCEPT !.stage = "over", !.since = 0, !.expires = 0, !.result = result]]
    BY DEF Over, Becomes
  <2> QED BY <2>1, <2>2, <2>4, <2>6, <2>8, <2>9, <2>10
<1>3. attempt'[i] = a /\ a.stage = "over" /\ a.tx = attempt[i].tx /\ a.result = result
  BY <1>2 DEF WalletInv, Attempt
<1>4. IsAttempt(a)
  BY <1>2 DEF IsAttempt, Stages, Attempt
<1>5. attempt[i].tx.by = i /\ IsTx(attempt[i].tx) /\ attempt[i].expires \in Nat
  BY <1>1 DEF AttemptIsSound, IsAttempt
<1>6. /\ \A sent \in SentBy(i)' : sent.tx = attempt[i].tx /\ sent.expires \in Nat
      /\ \A s, r \in SentBy(i)' : s = r
      /\ landed[i] # None => SentBy(i)' = {}
  <2>1. CASE inflight' = inflight
    <3>1. SentBy(i)' = SentBy(i)
      BY <2>1 DEF SentBy
    <3> QED BY <1>1, <3>1 DEF AttemptIsSound
  <2>2. CASE /\ attempt[i].stage = "sending"
             /\ inflight' = inflight \cup
                  {[tx |-> attempt[i].tx, expires |-> attempt[i].expires]}
    <3>1. SentBy(i) = {} /\ landed[i] = None
      BY <1>1, <2>2 DEF AttemptIsSound
    <3>2. SentBy(i)' \subseteq {[tx |-> attempt[i].tx, expires |-> attempt[i].expires]}
      BY <2>2, <3>1 DEF SentBy
    <3> QED BY <1>5, <3>1, <3>2
  <2> QED BY <2>1, <2>2
<1>7. result = "refused" => IsDead(i)'
  BY DEF IsDead
<1>8. AttemptIsSound(i)'
  <2>1. /\ IsAttempt(attempt'[i])
        /\ IF attempt'[i].stage = "unused" THEN attempt'[i].tx = None
           ELSE attempt'[i].tx.by = i /\ IsTx(attempt'[i].tx)
        /\ landed'[i] \in TicketIds \cup {Failed, None}
        /\ attempt'[i].stage \notin {"confirming", "over"} => landed'[i] = None /\ SentBy(i)' = {}
        /\ landed'[i] # None => SentBy(i)' = {}
    BY <1>1, <1>3, <1>4, <1>5, <1>6 DEF AttemptIsSound
  <2>2. /\ \A s, r \in SentBy(i)' : s = r
        /\ \A sent \in SentBy(i)' :
             /\ sent.tx = attempt'[i].tx /\ sent.expires \in Nat
             /\ attempt'[i].stage = "confirming" => sent.expires = attempt'[i].expires
    BY <1>3, <1>6
  <2>3. /\ attempt'[i].result = "confirmed" => landed'[i] \in TicketIds
        /\ attempt'[i].result = "refused" => IsDead(i)'
    BY <1>3, <1>7
  <2> QED BY <2>1, <2>2, <2>3 DEF AttemptIsSound
<1>9. \A j \in Attempts : j < i => attempt[j].stage # "unused"
  BY UsedInOrder
<1>10. OthersInFlightStay(i)
  BY <1>5 DEF OthersInFlightStay, WalletInv
<1> QED BY <1>2, <1>3, <1>8, <1>9, <1>10, AttemptStep

\* What is not sent will not be executed.
LEMMA UnsentIsDead ==
    ASSUME WalletInv, NEW i \in Attempts, attempt[i].stage \in {"preparing", "signing", "sending"}
    PROVE  IsDead(i)
<1>1. landed[i] = None /\ SentBy(i) = {}
  BY DEF WalletInv, AttemptIsSound
<1> QED BY <1>1, NoneIsNoTicket DEF IsDead, SentBy

\* A stage is entered with what the attempt has read.
LEMMA EnterEffect ==
    ASSUME WalletInv, NEW i \in Attempts, NEW stage \in {"sending", "confirming"},
           Enter(i, stage), attempt[i].stage # "over"
    PROVE  \E a : /\ attempt' = [attempt EXCEPT ![i] = a]
                  /\ IsAttempt(a) /\ a.stage = stage /\ a.tx = attempt[i].tx
                  /\ a.expires = attempt[i].expires
<1>1. IsAttempt(attempt[i])
  BY DEF WalletInv, AttemptIsSound
<1>2. PICK old, was, tx, since, expires, usdt :
        /\ old = attempt[i] /\ was = old.stage /\ tx = old.tx /\ since = old.since
        /\ expires = old.expires /\ usdt = old.usdt
        /\ old = Attempt(was, tx, since, expires, usdt, None)
  <2>1. attempt[i].result = None
    BY <1>1 DEF IsAttempt
  <2> QED BY <1>1, <2>1, Zenon DEF IsAttempt, Attempt
<1>3. PICK u : u = [old EXCEPT !.stage = stage]
  OBVIOUS
<1>4. u = Attempt(stage, tx, since, expires, usdt, None)
  BY <1>2, <1>3 DEF Attempt
<1>5. PICK a : a = [u EXCEPT !.since = now]
  OBVIOUS
<1>6. a = Attempt(stage, tx, now, expires, usdt, None)
  BY <1>4, <1>5 DEF Attempt
<1>7. attempt' = [attempt EXCEPT ![i] = a]
  <2>1. attempt' = [attempt EXCEPT ![i] = [attempt[i] EXCEPT !.stage = stage, !.since = now]]
    BY DEF Enter, Becomes
  <2> QED BY <1>2, <1>3, <1>5, <2>1
<1>8. IsAttempt(a) /\ a.stage = stage /\ a.tx = tx /\ a.expires = expires
  BY <1>1, <1>2, <1>6 DEF IsAttempt, Attempt, Stages
<1> QED BY <1>2, <1>7, <1>8

LEMMA PrepareIsSound ==
    ASSUME WalletInv, NEW i \in Attempts, Prepare(i), now \in Nat
    PROVE  WalletInv' /\ WalletKept
<1>1. attempt[i].stage = "preparing" /\ landed' = landed /\ now' = now /\ inflight' = inflight
  BY DEF Prepare, Answered, txVars, vars
<1>2. CASE Over(i, "refused")
  BY <1>1, <1>2, UnsentIsDead, OverIsSound DEF Results
<1>3. CASE Becomes(i, [attempt[i] EXCEPT !.stage = "signing", !.since = now,
                                         !.expires = now + TxLifetime,
                                         !.usdt = UsdtBefore(attempt[i].tx)])
  <2>1. IsAttempt(attempt[i])
    BY DEF WalletInv, AttemptIsSound
  <2>2. PICK old, tx, since, expires, usdt :
          /\ old = attempt[i] /\ tx = old.tx
          /\ old = Attempt("preparing", tx, since, expires, usdt, None)
    <3>1. attempt[i].result = None
      BY <1>1, <2>1 DEF IsAttempt
    <3> QED BY <1>1, <2>1, <3>1, Zenon DEF IsAttempt, Attempt
  <2>3. PICK until, has : until = now + TxLifetime /\ has = UsdtBefore(attempt[i].tx)
    OBVIOUS
  <2>4. PICK u : u = [old EXCEPT !.stage = "signing"]
    OBVIOUS
  <2>5. u = Attempt("signing", tx, since, expires, usdt, None)
    BY <2>2, <2>4 DEF Attempt
  <2>6. PICK v : v = [u EXCEPT !.since = now]
    OBVIOUS
  <2>7. v = Attempt("signing", tx, now, expires, usdt, None)
    BY <2>5, <2>6 DEF Attempt
  <2>8. PICK w : w = [v EXCEPT !.expires = until]
    OBVIOUS
  <2>9. w = Attempt("signing", tx, now, until, usdt, None)
    BY <2>7, <2>8 DEF Attempt
  <2>10. PICK a : a = [w EXCEPT !.usdt = has]
    OBVIOUS
  <2>11. a = Attempt("signing", tx, now, until, has, None)
    BY <2>9, <2>10 DEF Attempt
  <2>12. attempt' = [attempt EXCEPT ![i] = a]
    BY <1>3, <2>2, <2>3, <2>4, <2>6, <2>8, <2>10 DEF Becomes
  <2>13. until \in Nat
    BY <2>3, TransactionsAssumption
  <2>14. IsAttempt(a) /\ a.stage = "signing" /\ a.tx = attempt[i].tx
    BY <2>2, <2>11, <2>13 DEF IsAttempt, Attempt, Stages
  <2> QED BY <1>1, <2>12, <2>14, GoesOn
<1> QED BY <1>2, <1>3 DEF Prepare

LEMMA SignIsSound ==
    ASSUME WalletInv, NEW i \in Attempts, Sign(i), now \in Nat
    PROVE  WalletInv' /\ WalletKept
<1>1. /\ attempt[i].stage = "signing" /\ landed' = landed /\ now' = now /\ inflight' = inflight
      /\ Enter(i, "sending")
  BY DEF Sign, AwaitsSignature, txVars, vars
<1> QED BY <1>1, EnterEffect, GoesOn

LEMMA NotSignedIsSound ==
    ASSUME WalletInv, NEW i \in Attempts, NotSigned(i), now \in Nat
    PROVE  WalletInv' /\ WalletKept
<1>1. /\ attempt[i].stage = "signing" /\ landed' = landed /\ now' = now /\ inflight' = inflight
      /\ Over(i, "refused")
  BY DEF NotSigned, txVars, vars
<1> QED BY <1>1, UnsentIsDead, OverIsSound DEF Results

\* Only what is sent is in flight, and only once.
LEMMA BroadcastIsSound ==
    ASSUME WalletInv, NEW i \in Attempts, Broadcast(i), now \in Nat
    PROVE  WalletInv' /\ WalletKept
<1> DEFINE out == inflight \cup {[tx |-> attempt[i].tx, expires |-> attempt[i].expires]}
<1>1. attempt[i].stage = "sending" /\ landed' = landed /\ now' = now
  BY DEF Broadcast, vars
<1>2. \/ Enter(i, "confirming") /\ inflight' = out
      \/ Over(i, "refused") /\ inflight' = inflight
      \/ Over(i, "unknown") /\ inflight' \in {inflight, out}
  BY DEF Broadcast, Answered, txVars
<1>3. CASE Over(i, "refused") /\ inflight' = inflight
  BY <1>1, <1>3, UnsentIsDead, OverIsSound DEF Results
<1>4. CASE Over(i, "unknown") /\ inflight' \in {inflight, out}
  BY <1>1, <1>4, OverIsSound DEF Results
<1>5. CASE Enter(i, "confirming") /\ inflight' = out
  <2>1. PICK a : /\ attempt' = [attempt EXCEPT ![i] = a]
                 /\ IsAttempt(a) /\ a.stage = "confirming" /\ a.tx = attempt[i].tx
                 /\ a.expires = attempt[i].expires
    BY <1>1, <1>5, EnterEffect
  <2>2. /\ landed[i] = None /\ SentBy(i) = {} /\ attempt[i].tx.by = i /\ IsTx(attempt[i].tx)
        /\ attempt[i].expires \in Nat
    BY <1>1 DEF WalletInv, AttemptIsSound, IsAttempt
  <2>3. SentBy(i)' \subseteq {[tx |-> attempt[i].tx, expires |-> attempt[i].expires]}
    BY <1>5, <2>2 DEF SentBy
  <2>4. attempt'[i] = a /\ a.result = None /\ None \notin {"confirmed", "refused"}
    BY <2>1, NoneIsNoTicket DEF WalletInv, IsAttempt, Results
  <2>5. AttemptIsSound(i)'
    <3>1. /\ IsAttempt(attempt'[i])
          /\ IF attempt'[i].stage = "unused" THEN attempt'[i].tx = None
             ELSE attempt'[i].tx.by = i /\ IsTx(attempt'[i].tx)
          /\ landed'[i] \in TicketIds \cup {Failed, None}
          /\ attempt'[i].stage \notin {"confirming", "over"} =>
               landed'[i] = None /\ SentBy(i)' = {}
          /\ landed'[i] # None => SentBy(i)' = {}
      BY <1>1, <2>1, <2>2, <2>4
    <3>2. /\ \A s, r \in SentBy(i)' : s = r
          /\ \A sent \in SentBy(i)' :
               /\ sent.tx = attempt'[i].tx /\ sent.expires \in Nat
               /\ attempt'[i].stage = "confirming" => sent.expires = attempt'[i].expires
      BY <2>1, <2>2, <2>3, <2>4
    <3>3. /\ attempt'[i].result = "confirmed" => landed'[i] \in TicketIds
          /\ attempt'[i].result = "refused" => IsDead(i)'
      BY <2>4
    <3> QED BY <3>1, <3>2, <3>3 DEF AttemptIsSound
  <2>6. \A j \in Attempts : j < i => attempt[j].stage # "unused"
    BY <1>1, UsedInOrder
  <2>7. OthersInFlightStay(i)
    BY <1>5, <2>2 DEF OthersInFlightStay, WalletInv
  <2>8. a.stage # "unused" /\ attempt[i].stage # "over"
    BY <1>1, <2>1
  <2> QED BY <1>1, <2>1, <2>5, <2>6, <2>7, <2>8, AttemptStep
<1> QED BY <1>2, <1>3, <1>4, <1>5

\* A confirmation is of what has landed, or that nothing can any more.
LEMMA ConfirmIsSound ==
    ASSUME WalletInv, NEW i \in Attempts, Confirm(i), now \in Nat
    PROVE  WalletInv' /\ WalletKept
<1>1. attempt[i].stage = "confirming" /\ landed' = landed /\ now' = now /\ inflight' = inflight
  BY DEF Confirm, Answered, txVars, vars
<1>2. CASE landed[i] \in TicketIds /\ Over(i, "confirmed")
  BY <1>1, <1>2, OverIsSound DEF Results
<1>3. CASE landed[i] = Failed /\ Over(i, "refused")
  <2>1. SentBy(i) = {} /\ landed[i] \notin TicketIds
    BY <1>3, NoneIsNoTicket DEF WalletInv, AttemptIsSound
  <2>2. IsDead(i)
    BY <2>1 DEF IsDead, SentBy
  <2> QED BY <1>1, <1>3, <2>2, OverIsSound DEF Results
<1>4. CASE landed[i] = None /\ now >= attempt[i].expires /\ Over(i, "refused")
  <2>1. \A sent \in SentBy(i) : sent.expires = attempt[i].expires
    BY <1>1 DEF WalletInv, AttemptIsSound
  <2>2. IsDead(i)
    BY <1>4, <2>1, NoneIsNoTicket DEF IsDead, SentBy
  <2> QED BY <1>1, <1>4, <2>2, OverIsSound DEF Results
<1>5. CASE Over(i, "unknown")
  BY <1>1, <1>5, OverIsSound DEF Results
<1> QED BY <1>2, <1>3, <1>4, <1>5 DEF Confirm, HasSucceeded

\* What every step of a client leaves to show: its attempts and their tickets.
LEMMA ClientStep ==
    ASSUME ClientInv, WalletInv', WalletKept, [Instruction]_vars, landed' = landed
    PROVE  ClientInv'
<1>1. BookStands'
  BY BookStandsNext DEF ClientInv
<1>2. LandedIsDone'
  <2> SUFFICES ASSUME NEW i \in Attempts, landed'[i] \in TicketIds
               PROVE  HasDone(attempt[i].tx, landed[i])'
    BY DEF LandedIsDone
  <2>1. PICK tx, t : tx = attempt[i].tx /\ t = landed[i]
    OBVIOUS
  <2>2. t \in TicketIds /\ landed'[i] = t
    BY <2>1
  <2>3. attempt[i].stage # "unused" /\ IsTx(tx)
    BY <2>1, <2>2, NoneIsNoTicket DEF ClientInv, WalletInv, AttemptIsSound
  <2>4. attempt'[i].tx = tx
    BY <2>1, <2>3 DEF WalletKept
  <2>5. HasDone(tx, t)
    BY <2>1, <2>2 DEF ClientInv, LandedIsDone
  <2>6. HasDone(tx, t)'
    BY <2>2, <2>3, <2>5, DoneStays DEF ClientInv
  <2> QED BY <2>2, <2>4, <2>6 DEF HasDone
<1> QED BY <1>1, <1>2 DEF ClientInv

\* Steps that no attempt takes: of others on chain, of the clock, of a page.
LEMMA Elsewhere ==
    ASSUME ClientInv, [Instruction]_vars, UNCHANGED walletVars, inflight' \subseteq inflight
    PROVE  ClientInv' /\ WalletKept
<1>1. attempt' = attempt /\ landed' = landed
  BY DEF walletVars
<1>2. now \in Nat /\ now' \in Nat /\ now' >= now
  BY TimeRuns DEF ClientInv, BookStands, PaymentInv, VerdictInv, NumberingInv
<1>3. WalletInv
  BY DEF ClientInv
<1>4. \A i \in Attempts : AttemptIsSound(i)'
  <2> TAKE i \in Attempts
  <2>1. AttemptIsSound(i)
    BY <1>3 DEF WalletInv
  <2>2. attempt'[i] = attempt[i] /\ landed'[i] = landed[i]
    BY <1>1
  <2>3. \A sent \in inflight' : sent.tx.by = i => sent \in inflight
    OBVIOUS
  <2> QED BY <1>2, <2>1, <2>2, <2>3, StaysSound
<1>5. WalletInv'
  BY <1>1, <1>3, <1>4 DEF WalletInv
<1>6. WalletKept
  BY <1>1 DEF WalletKept
<1> QED BY <1>1, <1>5, <1>6, ClientStep

\* What lands is the attempt's own transaction, for the first time.
LEMMA LandIsSound ==
    ASSUME ClientInv, Land
    PROVE  /\ ClientInv' /\ WalletKept /\ [Instruction]_vars
           /\ now' = now /\ attempt' = attempt
<1>1. BookStands /\ WalletInv /\ BookInv /\ now \in Nat
  BY ConstantTypes
     DEF ClientInv, BookStands, PaymentInv, VerdictInv, NumberingInv, BookInv, TypeOK
<1>2. PICK sent \in inflight :
        /\ now < sent.expires
        /\ inflight' = inflight \ {sent}
        /\ attempt' = attempt
        /\ \/ /\ Execute(sent.tx)
              /\ landed' = [landed EXCEPT ![sent.tx.by] = TouchedTicket(sent.tx)]
           \/ /\ landed' = [landed EXCEPT ![sent.tx.by] = Failed]
              /\ UNCHANGED vars
  BY DEF Land, ExecuteForWallet
<1>3. PICK i \in Attempts : i = sent.tx.by
  BY <1>1, <1>2 DEF WalletInv
<1>4. AttemptIsSound(i) /\ sent \in SentBy(i)
  BY <1>1, <1>2, <1>3 DEF WalletInv, SentBy
<1>5. /\ sent.tx = attempt[i].tx /\ landed[i] = None
      /\ attempt[i].stage \in {"confirming", "over"}
      /\ \A other \in SentBy(i) : other = sent
      /\ IsTx(sent.tx)
  <2>1. attempt[i].stage \in {"confirming", "over"}
    BY <1>4 DEF AttemptIsSound
  <2> QED BY <1>4, <2>1 DEF AttemptIsSound
<1>6. PICK what \in TicketIds \cup {Failed} :
        /\ landed' = [landed EXCEPT ![i] = what]
        /\ [Instruction]_vars /\ now' = now
        /\ what \in TicketIds => HasDone(sent.tx, what)'
  <2>1. CASE /\ Execute(sent.tx)
             /\ landed' = [landed EXCEPT ![sent.tx.by] = TouchedTicket(sent.tx)]
    <3>1. PICK tx : tx = sent.tx
      OBVIOUS
    <3>2. Instruction /\ now' = now
      BY <1>1, <1>5, <2>1, <3>1, ExecuteDoes
    <3>3. PICK t \in TicketIds : t = TouchedTicket(tx) /\ HasDone(tx, t)'
      BY <1>1, <1>5, <2>1, <3>1, ExecuteDoes
    <3>4. landed' = [landed EXCEPT ![i] = t]
      BY <1>3, <2>1, <3>1, <3>3
    <3> QED BY <3>1, <3>2, <3>3, <3>4
  <2>2. CASE landed' = [landed EXCEPT ![sent.tx.by] = Failed] /\ UNCHANGED vars
    <3>1. now' = now /\ Failed \notin TicketIds
      BY <2>2, NoneIsNoTicket DEF vars
    <3> QED BY <1>3, <2>2, <3>1
  <2> QED BY <1>2, <2>1, <2>2
<1>7. /\ landed'[i] = what /\ \A j \in Attempts : j # i => landed'[j] = landed[j]
      /\ landed' = [j \in Attempts |-> landed'[j]]
  BY <1>1, <1>6 DEF WalletInv
<1>8. SentBy(i)' = {}
  <2>1. \A other \in inflight' : other.tx.by # i
    BY <1>2, <1>5 DEF SentBy
  <2> QED BY <2>1 DEF SentBy
<1>9. AttemptIsSound(i)'
  <2>1. /\ IsAttempt(attempt'[i])
        /\ IF attempt'[i].stage = "unused" THEN attempt'[i].tx = None
           ELSE attempt'[i].tx.by = i /\ IsTx(attempt'[i].tx)
        /\ landed'[i] \in TicketIds \cup {Failed, None}
        /\ attempt'[i].stage \notin {"confirming", "over"} => landed'[i] = None /\ SentBy(i)' = {}
        /\ landed'[i] # None => SentBy(i)' = {}
    BY <1>2, <1>4, <1>5, <1>7, <1>8 DEF AttemptIsSound
  <2>2. /\ \A a, b \in SentBy(i)' : a = b
        /\ \A out \in SentBy(i)' :
             /\ out.tx = attempt'[i].tx /\ out.expires \in Nat
             /\ attempt'[i].stage = "confirming" => out.expires = attempt'[i].expires
    BY <1>8
  <2>3. attempt[i].result # "confirmed"
    BY <1>4, <1>5, NoneIsNoTicket DEF AttemptIsSound
  <2>4. attempt[i].result # "refused"
    <3>1. sent.expires \in Nat
      BY <1>4 DEF AttemptIsSound
    <3>2. ~IsDead(i)
      BY <1>1, <1>2, <1>3, <3>1 DEF IsDead
    <3> QED BY <1>4, <3>2 DEF AttemptIsSound
  <2> QED BY <1>2, <2>1, <2>2, <2>3, <2>4 DEF AttemptIsSound
<1>10. ASSUME NEW j \in Attempts, j # i
       PROVE  AttemptIsSound(j)'
  <2>1. AttemptIsSound(j) /\ attempt'[j] = attempt[j] /\ landed'[j] = landed[j]
    BY <1>1, <1>2, <1>7, <1>10 DEF WalletInv
  <2>2. \A other \in inflight' : other.tx.by = j => other \in inflight
    BY <1>2
  <2>3. now' \in Nat /\ now' >= now
    BY <1>1, <1>6
  <2> QED BY <1>1, <2>1, <2>2, <2>3, StaysSound
<1>11. WalletInv'
  <2>1. \A j \in Attempts : AttemptIsSound(j)'
    BY <1>9, <1>10
  <2> QED BY <1>1, <1>2, <1>7, <2>1 DEF WalletInv
<1>12. WalletKept
  <2> SUFFICES ASSUME NEW j \in Attempts
               PROVE  landed[j] # None => landed'[j] = landed[j]
    BY <1>2 DEF WalletKept
  <2> QED BY <1>5, <1>7
<1>13. BookStands'
  BY <1>1, <1>6, BookStandsNext
<1>14. LandedIsDone'
  <2> SUFFICES ASSUME NEW j \in Attempts, landed'[j] \in TicketIds
               PROVE  HasDone(attempt[j].tx, landed[j])'
    BY DEF LandedIsDone
  <2>1. PICK tx, t : tx = attempt[j].tx /\ t = landed'[j]
    OBVIOUS
  <2>2. t \in TicketIds /\ attempt'[j].tx = tx
    BY <1>2, <2>1
  <2>3. CASE j = i
    <3>1. HasDone(tx, t)'
      BY <1>5, <1>6, <1>7, <2>1, <2>2, <2>3
    <3> QED BY <2>1, <2>2, <3>1 DEF HasDone
  <2>4. CASE j # i
    <3>1. landed[j] = t
      BY <1>7, <2>1, <2>4
    <3>2. attempt[j].stage # "unused" /\ IsTx(tx)
      BY <1>1, <2>1, <2>2, <3>1, NoneIsNoTicket DEF WalletInv, AttemptIsSound
    <3>3. HasDone(tx, t)
      BY <2>1, <2>2, <3>1 DEF ClientInv, LandedIsDone
    <3>4. HasDone(tx, t)'
      BY <1>1, <1>6, <2>2, <3>2, <3>3, DoneStays
    <3> QED BY <2>1, <2>2, <3>4 DEF HasDone
  <2> QED BY <2>3, <2>4
<1> QED BY <1>2, <1>6, <1>11, <1>12, <1>13, <1>14 DEF ClientInv

\* The attempts' own steps happen in the browser.
LEMMA WalletStepIsSound ==
    ASSUME ClientInv, NEW i \in Attempts, WalletStep(i)
    PROVE  ClientInv' /\ WalletKept /\ UNCHANGED vars
<1>1. WalletInv /\ now \in Nat
  BY ConstantTypes
     DEF ClientInv, BookStands, PaymentInv, VerdictInv, NumberingInv, BookInv, TypeOK
<1>2. UNCHANGED vars /\ landed' = landed
  BY DEF WalletStep, Prepare, Sign, NotSigned, Broadcast, Confirm
<1>3. WalletInv' /\ WalletKept
  BY <1>1, PrepareIsSound, SignIsSound, NotSignedIsSound, BroadcastIsSound, ConfirmIsSound
     DEF WalletStep
<1> QED BY <1>2, <1>3, ClientStep

LEMMA ClickOfClient ==
    ASSUME ClientInv, NEW i \in Attempts, NEW tx, IsTx(tx), Click(i, tx),
           UNCHANGED vars, inflight' = inflight
    PROVE  /\ ClientInv' /\ WalletKept
           /\ attempt[i].stage = "unused" /\ attempt'[i].tx = tx /\ attempt'[i].stage = "preparing"
           /\ attempt'[i].result = None
           /\ \A j \in Attempts : j # i => attempt'[j] = attempt[j]
<1>1. WalletInv /\ now \in Nat /\ now' = now
  BY ConstantTypes
     DEF ClientInv, BookStands, PaymentInv, VerdictInv, NumberingInv, BookInv, TypeOK, vars
<1>2. WalletInv' /\ WalletKept
  BY <1>1, ClickIsSound
<1>3. landed' = landed /\ attempt[i].stage = "unused"
  BY DEF Click
<1>4. ClientInv'
  BY <1>2, <1>3, ClientStep
<1>5. PICK a : attempt' = [attempt EXCEPT ![i] = a]
               /\ a = [Unused EXCEPT !.stage = "preparing", !.tx = tx, !.since = now]
  BY DEF Click, Becomes
<1>6. attempt'[i] = a /\ \A j \in Attempts : j # i => attempt'[j] = attempt[j]
  BY <1>1, <1>5 DEF WalletInv
<1>7. a.tx = tx /\ a.stage = "preparing" /\ a.result = None
  BY <1>5 DEF Unused
<1> QED BY <1>2, <1>3, <1>4, <1>6, <1>7

LEMMA WalletAtFirst ==
    ASSUME WalletInit, TxInit
    PROVE  WalletInv /\ LandedIsDone
<1>1. /\ attempt = [i \in Attempts |-> Unused] /\ landed = [i \in Attempts |-> None]
      /\ inflight = {}
  BY DEF WalletInit, TxInit
<1>2. \A i \in Attempts : AttemptIsSound(i)
  <2> TAKE i \in Attempts
  <2>1. attempt[i] = Attempt("unused", None, 0, 0, 0, None) /\ landed[i] = None
    BY <1>1 DEF Unused, Attempt
  <2>2. SentBy(i) = {}
    BY <1>1 DEF SentBy
  <2>3. IsAttempt(attempt[i])
    BY <2>1 DEF IsAttempt, Attempt, Stages
  <2> QED BY <2>1, <2>2, <2>3, NoneIsNoTicket DEF AttemptIsSound, Attempt, Results
<1>3. WalletInv
  BY <1>1, <1>2 DEF WalletInv, Unused
<1>4. LandedIsDone
  BY <1>1, NoneIsNoTicket DEF LandedIsDone
<1> QED BY <1>3, <1>4

-----------------------------------------------------------------------------
(* The match page.                                                         *)

LEMMA SlipTypes ==
    /\ TheMarket \in MarketIds /\ Picks \subseteq Sides
    /\ QUOTE_VALIDITY_SECONDS \in Nat /\ QUOTE_SAFETY_SECONDS \in Nat
    /\ QUOTE_VALIDITY_SECONDS - QUOTE_SAFETY_SECONDS \in Nat
    /\ 1..MaxBets \subseteq Attempts
  BY SlipAssumption, ClockAssumption, BoundsAssumption, WalletAssumption
     DEF TheMarket, MarketIds, Attempts

\* A clock, a market and what was posted on it.
LEMMA SlipFacts ==
    ASSUME ClientInv
    PROVE  /\ BookInv /\ WalletInv /\ now \in Nat
           /\ market[TheMarket].quote_posted_ts \in Nat
           /\ market[TheMarket].quote_posted_ts <= now
           /\ market[TheMarket].state \in MarketState
<1>1. BookInv /\ WalletInv /\ QuotesAreDated
  BY DEF ClientInv, BookStands, PaymentInv, VerdictInv, NumberingInv
<1>2. now \in Nat /\ market[TheMarket] \in Market
  BY <1>1, ConstantTypes, SlipTypes DEF BookInv, TypeOK
<1> QED BY <1>1, <1>2, SlipTypes DEF QuotesAreDated, Market

\* The market stays, and its quotes are posted one after another.
LEMMA MarketStays ==
    ASSUME SlipInv, [Instruction]_vars
    PROVE  /\ market'[TheMarket].state # "Vacant"
           /\ market'[TheMarket].quote_posted_ts \in Nat
           /\ market'[TheMarket].quote_posted_ts >= market[TheMarket].quote_posted_ts
           /\ \A posted : IsPosted(posted) => IsPosted(posted)'
<1>1. /\ ClientInv /\ BookStands /\ NumberingInv /\ market[TheMarket].state # "Vacant"
      /\ market[TheMarket].quote_posted_ts \in Nat /\ now \in Nat
      /\ market[TheMarket].quote_posted_ts <= now
  BY SlipFacts DEF SlipInv, ClientInv, BookStands, PaymentInv, VerdictInv
<1>2. market'[TheMarket].state # "Vacant"
  BY <1>1, BookStandsNext, SlipTypes DEF TermsKept, MarketTermsKept
<1>3. QuoteStep(TheMarket)
  BY <1>1, QuoteSteps, SlipTypes
<1>4. /\ market'[TheMarket].quote_posted_ts \in Nat
      /\ market'[TheMarket].quote_posted_ts >= market[TheMarket].quote_posted_ts
  BY <1>1, <1>3 DEF QuoteStep
<1> QED BY <1>1, <1>2, <1>4 DEF IsPosted

\* No attempt is started.
NoneStarts == \A j \in Attempts : IsUsed(j)' => IsUsed(j)

LEMMA WalletStepStartsNone ==
    ASSUME WalletInv, NEW i \in Attempts, WalletStep(i)
    PROVE  NoneStarts
<1>1. attempt[i].stage # "unused" /\ \E a : attempt' = [attempt EXCEPT ![i] = a]
  <2>1. Prepare(i) => attempt[i].stage # "unused" /\ \E a : attempt' = [attempt EXCEPT ![i] = a]
    BY DEF Prepare, Becomes, Over
  <2>2. Sign(i) => attempt[i].stage # "unused" /\ \E a : attempt' = [attempt EXCEPT ![i] = a]
    BY DEF Sign, AwaitsSignature, Enter, Becomes
  <2>3. NotSigned(i) => attempt[i].stage # "unused" /\ \E a : attempt' = [attempt EXCEPT ![i] = a]
    BY DEF NotSigned, Over, Becomes
  <2>4. Broadcast(i) => attempt[i].stage # "unused" /\ \E a : attempt' = [attempt EXCEPT ![i] = a]
    BY DEF Broadcast, Enter, Over, Becomes
  <2>5. Confirm(i) => attempt[i].stage # "unused" /\ \E a : attempt' = [attempt EXCEPT ![i] = a]
    BY DEF Confirm, Over, Becomes
  <2> QED BY <2>1, <2>2, <2>3, <2>4, <2>5 DEF WalletStep
<1> QED BY <1>1 DEF NoneStarts, IsUsed, WalletInv

\* Attempts that were made stay what they are.
LEMMA BetsStay ==
    ASSUME SlipInv, WalletKept, [Instruction]_vars, NoneStarts, slips' \in Nat, slips' >= slips
    PROVE  BetsAreSound' /\ RetriesAreSound'
<1>1. WalletInv /\ market'[TheMarket].quote_posted_ts >= market[TheMarket].quote_posted_ts
      /\ market[TheMarket].quote_posted_ts \in Nat /\ market'[TheMarket].quote_posted_ts \in Nat
      /\ slips \in Nat
  BY MarketStays, SlipFacts DEF SlipInv
<1>2. ASSUME NEW i \in Attempts, IsUsed(i)'
      PROVE  IsUsed(i) /\ attempt'[i].tx = attempt[i].tx
  BY <1>2 DEF NoneStarts, WalletKept, IsUsed
<1>3. BetsAreSound'
  <2> SUFFICES ASSUME NEW i \in Attempts, IsUsed(i)'
               PROVE  BetIsSound(i)'
    BY DEF BetsAreSound
  <2>1. BetIsSound(i) /\ attempt'[i].tx = attempt[i].tx
    BY <1>2 DEF SlipInv, BetsAreSound
  <2>2. attempt[i].tx.at \in Nat /\ attempt[i].tx.slip \in 1..slips'
    BY <1>1, <2>1 DEF BetIsSound
  <2> QED BY <1>1, <2>1, <2>2, SlipTypes DEF BetIsSound
<1>4. RetriesAreSound'
  <2> SUFFICES ASSUME NEW i \in Attempts, NEW j \in Attempts, i < j, IsUsed(i)', IsUsed(j)',
                      attempt'[i].tx.slip = attempt'[j].tx.slip
               PROVE  attempt'[i].result \in {"refused", "unknown"}
    BY DEF RetriesAreSound
  <2>1. attempt[i].result \in {"refused", "unknown"}
    BY <1>2 DEF SlipInv, RetriesAreSound
  <2>2. attempt[i].stage = "over"
    BY <1>1, <2>1, NoneIsNoTicket DEF WalletInv, AttemptIsSound, IsAttempt, Results
  <2> QED BY <2>1, <2>2 DEF WalletKept
<1> QED BY <1>3, <1>4

\* A slip that is left alone stays sound while the clock stands.
LEMMA SlipStays ==
    ASSUME SlipInv, WalletKept, [Instruction]_vars, NoneStarts, now' = now,
           slip' = slip, slips' = slips
    PROVE  SlipIsSound'
<1>1. CASE slip = None
  BY <1>1 DEF SlipIsSound
<1>2. CASE slip # None
  <2>1. PICK s : s = slip
    OBVIOUS
  <2>2. SlipIsSound
    BY DEF SlipInv
  <2>3. IsPosted(s.quote.posted)'
    BY <1>2, <2>1, <2>2, MarketStays DEF SlipIsSound
  <2>4. \/ s.last = None
        \/ /\ s.last \in Attempts /\ IsUsed(s.last)'
           /\ attempt'[s.last].tx.slip = s.id
    BY <1>2, <2>1, <2>2 DEF SlipIsSound, WalletKept, IsUsed
  <2>5. \A i \in Attempts :
          IsUsed(i)' /\ attempt'[i].tx.slip = s.id => s.last # None /\ i <= s.last
    BY <1>2, <2>1, <2>2 DEF SlipIsSound, WalletKept, IsUsed, NoneStarts
  <2>6. s.last = None => s.left = quoteSecondsRemaining(s.quote.posted)'
    BY <1>2, <2>1, <2>2 DEF SlipIsSound, quoteSecondsRemaining
  <2>7. /\ s = [quote |-> s.quote, left |-> s.left, last |-> s.last, id |-> s.id]
        /\ s.quote = [side |-> s.quote.side, odds |-> s.quote.odds, posted |-> s.quote.posted]
        /\ s.quote.side \in Sides
        /\ s.left \in Nat /\ s.id = slips' /\ slips' > 0
    BY <1>2, <2>1, <2>2 DEF SlipIsSound
  <2> QED BY <2>1, <2>3, <2>4, <2>5, <2>6, <2>7 DEF SlipIsSound, IsUsed
<1> QED BY <1>1, <1>2

LEMMA BoardStays ==
    ASSUME SlipInv, [Instruction]_vars, board' = board
    PROVE  BoardIsSound'
  BY MarketStays DEF SlipInv, BoardIsSound

\* Steps that the page takes no part in.
LEMMA SlipElsewhere ==
    ASSUME SlipInv, ClientInv', WalletKept, [Instruction]_vars, NoneStarts, now' = now,
           UNCHANGED matchVars
    PROVE  SlipInv'
<1>1. board' = board /\ slip' = slip /\ slips' = slips /\ slips \in Nat
  BY DEF matchVars, SlipInv
<1>2. BetsAreSound' /\ RetriesAreSound' /\ SlipIsSound' /\ BoardIsSound'
  BY <1>1, BetsStay, SlipStays, BoardStays
<1>3. market'[TheMarket].state # "Vacant"
  BY MarketStays
<1> QED BY <1>1, <1>2, <1>3 DEF SlipInv

\* Steps of the page alone leave its client as it is.
LEMMA PageAlone ==
    ASSUME ClientInv, UNCHANGED vars, UNCHANGED walletVars, inflight' = inflight
    PROVE  /\ ClientInv' /\ WalletKept /\ NoneStarts /\ [Instruction]_vars /\ now' = now
           /\ market' = market
  BY Elsewhere DEF vars, accounts, walletVars, NoneStarts, IsUsed

LEMMA PollMatchIsSound ==
    ASSUME SlipInv, PollMatch
    PROVE  SlipInv'
<1>1. /\ UNCHANGED vars /\ UNCHANGED walletVars /\ slips' = slips /\ inflight' = inflight
      /\ slip' = slip \/ slip' = None
      /\ board' = fetchChainBoard \/ board' = None
  BY DEF PollMatch, Answered, Fault, txVars, SlipOfPage
<1>2. /\ ClientInv' /\ WalletKept /\ NoneStarts /\ [Instruction]_vars /\ now' = now
      /\ market' = market /\ slips \in Nat
  BY <1>1, PageAlone DEF SlipInv
<1>3. BetsAreSound' /\ RetriesAreSound'
  BY <1>1, <1>2, BetsStay
<1>4. SlipIsSound'
  <2>1. CASE slip' = slip
    BY <1>1, <1>2, <2>1, SlipStays
  <2>2. CASE slip' = None
    BY <2>2 DEF SlipIsSound
  <2> QED BY <1>1, <2>1, <2>2
<1>5. BoardIsSound'
  <2>1. CASE board' = None
    BY <2>1 DEF BoardIsSound
  <2>2. CASE board' # None
    <3>1. PICK m : m = market[TheMarket]
      OBVIOUS
    <3>2. board' = [odds |-> m.odds, posted |-> m.quote_posted_ts]
      BY <1>1, <2>2, <3>1 DEF fetchChainBoard, toMarketView
    <3>3. IsPosted(m.quote_posted_ts)'
      BY <1>2, <3>1, SlipFacts DEF SlipInv, IsPosted
    <3>4. PICK b : b = board'
      OBVIOUS
    <3>5. b = [odds |-> b.odds, posted |-> b.posted] /\ b.posted = m.quote_posted_ts
      BY <3>2, <3>4
    <3> QED BY <3>3, <3>4, <3>5 DEF BoardIsSound, IsPosted
  <2> QED BY <2>1, <2>2
<1>6. market'[TheMarket].state # "Vacant"
  BY <1>2 DEF SlipInv
<1> QED BY <1>1, <1>2, <1>3, <1>4, <1>5, <1>6 DEF SlipInv

\* What is left of a quote is a time.
LEMMA LeftIsNatural ==
    ASSUME ClientInv, NEW posted \in Nat
    PROVE  quoteSecondsRemaining(posted) \in Nat
<1>1. now \in Nat
  BY SlipFacts
<1> QED BY <1>1, SlipTypes DEF quoteSecondsRemaining, SaturatingSub

LEMMA SelectOutcomeIsSound ==
    ASSUME SlipInv, NEW side \in Picks, handleSelectOutcome(side)
    PROVE  SlipInv'
<1>1. /\ UNCHANGED vars /\ UNCHANGED walletVars /\ inflight' = inflight
      /\ board' = board /\ slips' = slips + 1 /\ board # None
      /\ slip' = [quote |-> Snapshot(side), left |-> quoteSecondsRemaining(board.posted),
                  last |-> None, id |-> slips + 1]
  BY DEF handleSelectOutcome, txVars
<1>2. /\ ClientInv' /\ WalletKept /\ NoneStarts /\ [Instruction]_vars /\ now' = now
      /\ market' = market /\ slips \in Nat /\ slips' \in Nat /\ slips' >= slips
  BY <1>1, PageAlone DEF SlipInv
<1>3. BetsAreSound' /\ RetriesAreSound' /\ BoardIsSound'
  BY <1>1, <1>2, BetsStay, BoardStays
<1>4. SlipIsSound'
  <2>1. IsPosted(board.posted) /\ side \in Sides
    BY <1>1, SlipTypes DEF SlipInv, BoardIsSound
  <2>2. PICK s, left : s = slip' /\ left = quoteSecondsRemaining(board.posted)
    OBVIOUS
  <2>3. left \in Nat /\ left = quoteSecondsRemaining(board.posted)'
    BY <1>1, <1>2, <2>1, <2>2, LeftIsNatural DEF SlipInv, IsPosted, quoteSecondsRemaining
  <2>4. /\ s = [quote |-> s.quote, left |-> s.left, last |-> s.last, id |-> s.id]
        /\ s.quote = [side |-> side, odds |-> board.odds[side], posted |-> board.posted]
        /\ s.left = left /\ s.last = None /\ s.id = slips + 1
    BY <1>1, <2>2 DEF Snapshot
  <2>5. IsPosted(s.quote.posted)'
    BY <1>2, <2>1, <2>4 DEF IsPosted
  <2>6. s.left = quoteSecondsRemaining(s.quote.posted)'
    BY <1>1, <2>3, <2>4 DEF quoteSecondsRemaining
  <2>7. \A i \in Attempts : IsUsed(i)' => attempt'[i].tx.slip # s.id
    <3>1. \A i \in Attempts : IsUsed(i)' => IsUsed(i) /\ attempt'[i].tx = attempt[i].tx
      BY <1>2 DEF NoneStarts, WalletKept, IsUsed
    <3>2. \A i \in Attempts : IsUsed(i) => attempt[i].tx.slip \in 1..slips
      BY DEF SlipInv, BetsAreSound, BetIsSound
    <3> QED BY <1>2, <2>4, <3>1, <3>2
  <2>8. s.quote = [side |-> s.quote.side, odds |-> s.quote.odds, posted |-> s.quote.posted]
        /\ s.quote.side \in Sides /\ s.left \in Nat /\ s.id = slips' /\ slips' > 0
    BY <1>1, <1>2, <2>1, <2>3, <2>4
  <2> QED BY <2>2, <2>4, <2>5, <2>6, <2>7, <2>8 DEF SlipIsSound, IsUsed
<1>5. market'[TheMarket].state # "Vacant"
  BY <1>2 DEF SlipInv
<1> QED BY <1>2, <1>3, <1>4, <1>5 DEF SlipInv

\* The parts of a slip, one of them replaced.
LEMMA SlipParts ==
    ASSUME SlipIsSound, slip # None
    PROVE  \E quote, left, last, id :
             /\ slip = [quote |-> quote, left |-> left, last |-> last, id |-> id]
             /\ slip.quote = quote /\ slip.left = left /\ slip.last = last /\ slip.id = id
  BY DEF SlipIsSound

\* A bet is clicked on while no other of its slip can have been sold.
LEMMA PlaceBetIsSound ==
    ASSUME SlipInv, NEW stake \in Stakes, handlePlaceBet(stake)
    PROVE  SlipInv'
<1>1. PICK i \in 1..MaxBets : Click(i, placeBetOnChain(i, slip.quote.side, stake))
                              /\ slip' = [slip EXCEPT !.last = i]
  BY DEF handlePlaceBet
<1>2. /\ UNCHANGED vars /\ inflight' = inflight /\ board' = board /\ slips' = slips
      /\ slip # None /\ slip.left > 0 /\ Placement = None
  BY DEF handlePlaceBet, EntryView, canPlaceBet, txVars
<1>3. /\ SlipIsSound /\ ClientInv /\ i \in Attempts /\ slips \in Nat
      /\ slip.quote.side \in Sides /\ IsPosted(slip.quote.posted)
      /\ slip.left \in Nat /\ slip.id = slips /\ slips > 0
      /\ slip.last = None => slip.left = quoteSecondsRemaining(slip.quote.posted)
  BY <1>2, SlipTypes DEF SlipInv, SlipIsSound
<1>4. PICK tx : tx = placeBetOnChain(i, slip.quote.side, stake)
  OBVIOUS
<1>5. /\ tx.op = "bet" /\ tx.m = TheMarket /\ tx.side = slip.quote.side /\ tx.stake = stake
      /\ tx.at = now /\ tx.slip = slip.id
  BY <1>4 DEF placeBetOnChain
<1>6. tx.isFirst => slip.last = None
  BY <1>4, Zenon DEF placeBetOnChain
<1>7. IsTx(tx)
  BY <1>3, <1>5, SlipTypes, ConstantTypes DEF IsTx
<1>8. /\ ClientInv' /\ WalletKept /\ attempt[i].stage = "unused" /\ attempt'[i].tx = tx
      /\ attempt'[i].stage = "preparing" /\ attempt'[i].result = None
      /\ \A j \in Attempts : j # i => attempt'[j] = attempt[j]
  BY <1>1, <1>2, <1>3, <1>4, <1>7, ClickOfClient
<1>9. [Instruction]_vars /\ now' = now /\ market' = market /\ now \in Nat
      /\ market[TheMarket].quote_posted_ts \in Nat /\ WalletInv
  BY <1>2, <1>3, SlipFacts DEF vars, accounts
<1>10. \A j \in Attempts : IsUsed(j) => j < i
  <2>1. \A j \in Attempts : i < j => attempt[j].stage = "unused"
    BY <1>3, <1>8, <1>9 DEF WalletInv
  <2> QED BY <1>3, <1>8, <2>1, WalletAssumption DEF IsUsed, Attempts
<1>11. ASSUME NEW j \in Attempts, IsUsed(j)', j # i
       PROVE  IsUsed(j) /\ attempt'[j] = attempt[j] /\ j < i
  BY <1>8, <1>10, <1>11 DEF IsUsed
<1>12. BetsAreSound'
  <2> SUFFICES ASSUME NEW j \in Attempts, IsUsed(j)'
               PROVE  BetIsSound(j)'
    BY DEF BetsAreSound
  <2>1. CASE j # i
    <3>1. BetIsSound(j) /\ attempt'[j] = attempt[j]
      BY <1>11, <2>1 DEF SlipInv, BetsAreSound
    <3> QED BY <1>2, <1>9, <3>1 DEF BetIsSound
  <2>2. CASE j = i
    <3>1. tx.isFirst => now - market[TheMarket].quote_posted_ts
                          <= QUOTE_VALIDITY_SECONDS - QUOTE_SAFETY_SECONDS
      <4> SUFFICES ASSUME slip.last = None
                   PROVE  now - market[TheMarket].quote_posted_ts
                            <= QUOTE_VALIDITY_SECONDS - QUOTE_SAFETY_SECONDS
        BY <1>6
      <4>1. quoteSecondsRemaining(slip.quote.posted) > 0
        BY <1>2, <1>3
      <4>2. PICK posted \in Nat : posted = slip.quote.posted
                                  /\ posted <= market[TheMarket].quote_posted_ts
        BY <1>3 DEF IsPosted
      <4> QED BY <1>9, <4>1, <4>2, SlipTypes DEF quoteSecondsRemaining, SaturatingSub
    <3>2. attempt'[j].tx = tx /\ slip.id \in 1..slips'
      BY <1>2, <1>3, <1>8, <2>2
    <3> QED BY <1>5, <1>9, <3>1, <3>2 DEF BetIsSound
  <2> QED BY <2>1, <2>2
<1>13. RetriesAreSound'
  <2> SUFFICES ASSUME NEW j \in Attempts, NEW k \in Attempts, j < k, IsUsed(j)', IsUsed(k)',
                      attempt'[j].tx.slip = attempt'[k].tx.slip
               PROVE  attempt'[j].result \in {"refused", "unknown"}
    BY DEF RetriesAreSound
  <2>1. j # i
    <3> SUFFICES ASSUME j = i PROVE FALSE
      OBVIOUS
    <3>1. k # i /\ k \in Int /\ i \in Int
      BY <1>3, WalletAssumption DEF Attempts
    <3>2. k < i
      BY <1>11, <3>1
    <3> QED BY <3>1, <3>2
  <2>2. IsUsed(j) /\ attempt'[j] = attempt[j]
    BY <1>11, <2>1
  <2>3. CASE k # i
    <3>1. IsUsed(k) /\ attempt'[k] = attempt[k]
      BY <1>11, <2>3
    <3> QED BY <2>2, <3>1 DEF SlipInv, RetriesAreSound
  <2>4. CASE k = i
    <3>1. attempt[j].tx.slip = slip.id
      BY <1>5, <1>8, <2>2, <2>4
    <3>2. /\ slip.last \in Attempts /\ IsUsed(slip.last) /\ j <= slip.last
          /\ attempt[slip.last].tx.slip = slip.id
      BY <1>2, <1>3, <2>2, <3>1 DEF SlipIsSound
    <3>3. attempt[slip.last].result \in {"refused", "unknown"}
      <4>1. ~IsPending(slip.last) /\ ~IsConfirmed(slip.last)
        BY <1>2, NoneAssumption, Zenon DEF Placement
      <4>2. attempt[slip.last].stage = "over" /\ attempt[slip.last].result # "confirmed"
        BY <3>2, <4>1, NoneIsNoTicket DEF IsPending, IsConfirmed, IsSent
      <4>3. IsAttempt(attempt[slip.last])
        BY <1>9, <3>2 DEF WalletInv, AttemptIsSound
      <4> QED BY <4>2, <4>3 DEF IsAttempt, Results
    <3>4. CASE j = slip.last
      BY <2>2, <3>3, <3>4
    <3>5. CASE j # slip.last
      <4>1. j < slip.last
        BY <3>2, <3>5, WalletAssumption DEF Attempts
      <4> QED BY <2>2, <3>1, <3>2, <4>1 DEF SlipInv, RetriesAreSound
    <3> QED BY <3>4, <3>5
  <2> QED BY <2>3, <2>4
<1>14. SlipIsSound'
  <2>1. PICK quote, left, last, id :
          /\ slip = [quote |-> quote, left |-> left, last |-> last, id |-> id]
          /\ slip.quote = quote /\ slip.left = left /\ slip.last = last /\ slip.id = id
    BY <1>2, <1>3, SlipParts
  <2>2. PICK s : s = slip' /\ s = [quote |-> quote, left |-> left, last |-> i, id |-> id]
    BY <1>1, <2>1
  <2>3. quote = [side |-> quote.side, odds |-> quote.odds, posted |-> quote.posted]
    BY <1>2, <1>3, <2>1 DEF SlipIsSound
  <2>4. IsPosted(quote.posted)'
    BY <1>3, <1>9, <2>1 DEF IsPosted
  <2>5. i # None /\ IsUsed(i)' /\ attempt'[i].tx.slip = id
    BY <1>3, <1>5, <1>8, <2>1, NoneIsNoTicket DEF IsUsed
  <2>6. \A j \in Attempts : IsUsed(j)' => j <= i
    BY <1>3, <1>11, WalletAssumption DEF Attempts
  <2>7. quote.side \in Sides /\ left \in Nat /\ id = slips' /\ slips' > 0
    BY <1>2, <1>3, <2>1
  <2> QED BY <1>3, <2>2, <2>3, <2>4, <2>5, <2>6, <2>7 DEF SlipIsSound, IsUsed
<1>15. BoardIsSound' /\ market'[TheMarket].state # "Vacant" /\ slips' \in Nat
  BY <1>2, <1>3, <1>9, BoardStays DEF SlipInv
<1> QED BY <1>8, <1>12, <1>13, <1>14, <1>15 DEF SlipInv

\* A refreshed quote is counted down from its own posting.
LEMMA RefreshQuoteIsSound ==
    ASSUME SlipInv, handleRefreshQuote
    PROVE  SlipInv'
<1>1. /\ UNCHANGED vars /\ UNCHANGED walletVars /\ inflight' = inflight
      /\ board' = board /\ slips' = slips /\ slip # None /\ board # None
      /\ \E quote :
           /\ quote = Snapshot(slip.quote.side)
           /\ slip' = [slip EXCEPT !.quote = quote,
                                   !.left = IF IsSameQuote(quote) THEN slip.left
                                            ELSE quoteSecondsRemaining(quote.posted)]
  BY DEF handleRefreshQuote, txVars
<1>2. /\ ClientInv /\ ClientInv' /\ WalletKept /\ NoneStarts /\ [Instruction]_vars /\ now' = now
      /\ market' = market /\ slips \in Nat
  BY <1>1, PageAlone DEF SlipInv
<1>3. BetsAreSound' /\ RetriesAreSound' /\ BoardIsSound'
  BY <1>1, <1>2, BetsStay, BoardStays
<1>4. SlipIsSound'
  <2>1. PICK was, left, last, id :
          /\ slip = [quote |-> was, left |-> left, last |-> last, id |-> id]
          /\ slip.quote = was /\ slip.left = left /\ slip.last = last /\ slip.id = id
    BY <1>1, SlipParts DEF SlipInv
  <2>2. /\ IsPosted(was.posted) /\ was.side \in Sides /\ left \in Nat /\ id = slips /\ slips > 0
        /\ last = None \/ (last \in Attempts /\ IsUsed(last) /\ attempt[last].tx.slip = id)
        /\ last = None => left = quoteSecondsRemaining(was.posted)
        /\ \A i \in Attempts :
             IsUsed(i) /\ attempt[i].tx.slip = id => last # None /\ i <= last
    BY <1>1, <2>1 DEF SlipInv, SlipIsSound
  <2>3. IsPosted(board.posted)
    BY <1>1 DEF SlipInv, BoardIsSound
  <2>4. PICK quote : /\ quote = Snapshot(was.side)
                     /\ slip' = [slip EXCEPT !.quote = quote,
                                   !.left = IF IsSameQuote(quote) THEN left
                                            ELSE quoteSecondsRemaining(quote.posted)]
    BY <1>1, <2>1
  <2>5. /\ quote = [side |-> quote.side, odds |-> quote.odds, posted |-> quote.posted]
        /\ quote.side = was.side /\ quote.posted = board.posted
    BY <2>4 DEF Snapshot
  <2>6. PICK left2 : left2 = IF quote = was THEN left ELSE quoteSecondsRemaining(quote.posted)
    OBVIOUS
  <2>7. PICK s : s = slip' /\ s = [quote |-> quote, left |-> left2, last |-> last, id |-> id]
    <3>1. slip' = [slip EXCEPT !.quote = quote, !.left = left2]
      BY <2>1, <2>4, <2>6 DEF IsSameQuote
    <3>2. PICK u : u = [slip EXCEPT !.quote = quote]
      OBVIOUS
    <3>3. u = [quote |-> quote, left |-> left, last |-> last, id |-> id]
      BY <2>1, <3>2
    <3>4. PICK v : v = [u EXCEPT !.left = left2]
      OBVIOUS
    <3>5. v = [quote |-> quote, left |-> left2, last |-> last, id |-> id]
      BY <3>3, <3>4
    <3> QED BY <3>1, <3>2, <3>4, <3>5
  <2>8. left2 \in Nat
    BY <1>2, <2>2, <2>3, <2>5, <2>6, LeftIsNatural DEF IsPosted
  <2>9. last = None => left2 = quoteSecondsRemaining(quote.posted)'
    BY <1>2, <2>2, <2>6 DEF quoteSecondsRemaining
  <2>10. IsPosted(quote.posted)'
    BY <1>2, <2>3, <2>5 DEF IsPosted
  <2>11. \/ last = None
         \/ last \in Attempts /\ IsUsed(last)' /\ attempt'[last].tx.slip = id
    BY <1>2, <2>2 DEF WalletKept, IsUsed
  <2>12. \A i \in Attempts :
           IsUsed(i)' /\ attempt'[i].tx.slip = id => last # None /\ i <= last
    BY <1>2, <2>2 DEF WalletKept, IsUsed, NoneStarts
  <2>13. s.quote = quote /\ s.left = left2 /\ s.last = last /\ s.id = id
    BY <2>7
  <2>14. /\ s = [quote |-> s.quote, left |-> s.left, last |-> s.last, id |-> s.id]
         /\ s.quote = [side |-> s.quote.side, odds |-> s.quote.odds, posted |-> s.quote.posted]
         /\ s.quote.side \in Sides /\ s.id = slips' /\ slips' > 0
    BY <1>1, <2>2, <2>5, <2>7, <2>13
  <2> QED BY <2>7, <2>8, <2>9, <2>10, <2>11, <2>12, <2>13, <2>14 DEF SlipIsSound, IsUsed
<1>5. market'[TheMarket].state # "Vacant" /\ slips' \in Nat
  BY <1>1, <1>2 DEF SlipInv
<1> QED BY <1>2, <1>3, <1>4, <1>5 DEF SlipInv

LEMMA OnCloseIsSound ==
    ASSUME SlipInv, onClose
    PROVE  SlipInv'
<1>1. /\ UNCHANGED vars /\ UNCHANGED walletVars /\ inflight' = inflight
      /\ board' = board /\ slips' = slips /\ slip' = None
  BY DEF onClose, txVars
<1>2. /\ ClientInv' /\ WalletKept /\ NoneStarts /\ [Instruction]_vars /\ market' = market
      /\ slips \in Nat
  BY <1>1, PageAlone DEF SlipInv
<1>3. BetsAreSound' /\ RetriesAreSound' /\ BoardIsSound'
  BY <1>1, <1>2, BetsStay, BoardStays
<1>4. SlipIsSound' /\ market'[TheMarket].state # "Vacant"
  BY <1>1, <1>2 DEF SlipIsSound, SlipInv
<1> QED BY <1>1, <1>2, <1>3, <1>4 DEF SlipInv

\* A second less is left of a quote, until there is none.
LEMMA SecondPasses ==
    ASSUME ClientInv, now' = now + 1, NEW posted, IsPosted(posted)
    PROVE  quoteSecondsRemaining(posted)' = SaturatingSub(quoteSecondsRemaining(posted), 1)
<1>1. PICK age \in Nat : age = now - posted /\ now' - posted = age + 1
  BY SlipFacts DEF IsPosted
<1>2. PICK valid \in Nat : valid = QUOTE_VALIDITY_SECONDS - QUOTE_SAFETY_SECONDS
  BY SlipTypes
<1>3. /\ quoteSecondsRemaining(posted) = SaturatingSub(valid, age)
      /\ quoteSecondsRemaining(posted)' = SaturatingSub(valid, age + 1)
  BY <1>1, <1>2 DEF quoteSecondsRemaining
<1> QED BY <1>3 DEF SaturatingSub

LEMMA SlipClockIsSound ==
    ASSUME SlipInv, SlipClock
    PROVE  SlipInv'
<1>1. /\ Tick /\ UNCHANGED walletVars /\ inflight' \subseteq inflight
      /\ board' = board /\ slips' = slips
  BY DEF SlipClock, WalletClock, ClockTicks
<1>2. [Instruction]_vars /\ now' = now + 1 /\ market' = market
  BY <1>1 DEF Tick, Instruction, accounts
<1>3. /\ ClientInv /\ ClientInv' /\ WalletKept /\ NoneStarts /\ slips \in Nat
  BY <1>1, <1>2, Elsewhere DEF SlipInv, walletVars, NoneStarts, IsUsed
<1>4. BetsAreSound' /\ RetriesAreSound' /\ BoardIsSound'
  BY <1>1, <1>2, <1>3, BetsStay, BoardStays
<1>5. SlipIsSound'
  <2>1. CASE slip = None
    <3>1. slip' = None
      BY <2>1 DEF SlipClock
    <3> QED BY <3>1 DEF SlipIsSound
  <2>2. CASE slip # None
    <3>1. PICK quote, left, last, id :
            /\ slip = [quote |-> quote, left |-> left, last |-> last, id |-> id]
            /\ slip.quote = quote /\ slip.left = left /\ slip.last = last /\ slip.id = id
      BY <2>2, SlipParts DEF SlipInv
    <3>2. /\ quote = [side |-> quote.side, odds |-> quote.odds, posted |-> quote.posted]
          /\ IsPosted(quote.posted) /\ quote.side \in Sides /\ left \in Nat
          /\ id = slips /\ slips > 0
          /\ last = None \/ (last \in Attempts /\ IsUsed(last) /\ attempt[last].tx.slip = id)
          /\ last = None => left = quoteSecondsRemaining(quote.posted)
          /\ \A i \in Attempts :
               IsUsed(i) /\ attempt[i].tx.slip = id => last # None /\ i <= last
      BY <2>2, <3>1 DEF SlipInv, SlipIsSound
    <3>3. last = None => CountsDown
      BY <3>1, Zenon DEF CountsDown, Placement, IsPending, IsConfirmed, IsSent
    <3>4. PICK left2 \in Nat :
            /\ slip' = [quote |-> quote, left |-> left2, last |-> last, id |-> id]
            /\ last = None => left2 = SaturatingSub(left, 1)
      <4>1. CASE CountsDown
        <5>1. PICK left2 : left2 = SaturatingSub(left, 1)
          OBVIOUS
        <5>2. left2 \in Nat
          BY <3>2, <5>1 DEF SaturatingSub
        <5>3. slip' = [slip EXCEPT !.left = left2]
          BY <2>2, <3>1, <4>1, <5>1 DEF SlipClock
        <5>4. slip' = [quote |-> quote, left |-> left2, last |-> last, id |-> id]
          BY <3>1, <5>3
        <5> QED BY <5>1, <5>2, <5>4
      <4>2. CASE ~CountsDown
        BY <3>1, <3>2, <3>3, <4>2 DEF SlipClock
      <4> QED BY <4>1, <4>2
    <3>5. last = None => left2 = quoteSecondsRemaining(quote.posted)'
      BY <1>2, <1>3, <3>2, <3>4, SecondPasses
    <3>6. IsPosted(quote.posted)'
      BY <1>2, <3>2 DEF IsPosted
    <3>7. \/ last = None
          \/ last \in Attempts /\ IsUsed(last)' /\ attempt'[last].tx.slip = id
      BY <1>3, <3>2 DEF WalletKept, IsUsed
    <3>8. \A i \in Attempts :
            IsUsed(i)' /\ attempt'[i].tx.slip = id => last # None /\ i <= last
      BY <1>3, <3>2 DEF WalletKept, IsUsed, NoneStarts
    <3>9. PICK s : /\ s = slip' /\ s.quote = quote /\ s.left = left2 /\ s.last = last /\ s.id = id
                   /\ s = [quote |-> s.quote, left |-> s.left, last |-> s.last, id |-> s.id]
      BY <3>4
    <3>10. /\ s.quote = [side |-> s.quote.side, odds |-> s.quote.odds, posted |-> s.quote.posted]
           /\ s.quote.side \in Sides /\ s.left \in Nat /\ s.id = slips' /\ slips' > 0
      BY <1>1, <3>2, <3>9
    <3> QED BY <3>5, <3>6, <3>7, <3>8, <3>9, <3>10 DEF SlipIsSound, IsUsed
  <2> QED BY <2>1, <2>2
<1>6. market'[TheMarket].state # "Vacant" /\ slips' \in Nat
  BY <1>1, <1>2, <1>3 DEF SlipInv
<1> QED BY <1>3, <1>4, <1>5, <1>6 DEF SlipInv

\* What the match page does to the book is done by instructions.
LEMMA KeeperSendsInstructions ==
    ASSUME KeeperActs
    PROVE  Instruction
<1>1. ASSUME NEW q \in Quotes, NEW r \in RecordIds, PostQuote(TheMarket, q, r)
      PROVE  Instruction
  <2>1. q \in [Sides -> Nat]
    BY ConstantTypes
  <2> QED BY <1>1, <2>1, SlipTypes DEF Instruction
<1>2. LockMarket(TheMarket) => Instruction
  BY SlipTypes DEF Instruction
<1> QED BY <1>1, <1>2 DEF KeeperActs

\* No step of the match page breaks what it goes by.
LEMMA SlipInvNext ==
    ASSUME SlipInv, [SlipNext]_slipVars
    PROVE  SlipInv'
<1>1. CASE PollMatch
  BY <1>1, PollMatchIsSound
<1>2. CASE \E side \in Picks : handleSelectOutcome(side)
  BY <1>2, SelectOutcomeIsSound
<1>3. CASE \E stake \in Stakes : handlePlaceBet(stake)
  BY <1>3, PlaceBetIsSound
<1>4. CASE handleRefreshQuote
  BY <1>4, RefreshQuoteIsSound
<1>5. CASE onClose
  BY <1>5, OnCloseIsSound
<1>6. ASSUME NEW i \in Attempts, WalletStep(i), UNCHANGED matchVars
      PROVE  SlipInv'
  <2>1. ClientInv' /\ WalletKept /\ UNCHANGED vars
    BY <1>6, WalletStepIsSound DEF SlipInv
  <2>2. NoneStarts
    BY <1>6, WalletStepStartsNone DEF SlipInv, ClientInv
  <2>3. now' = now
    BY <2>1 DEF vars
  <2> QED BY <1>6, <2>1, <2>2, <2>3, SlipElsewhere
<1>7. CASE Land /\ UNCHANGED matchVars
  <2>1. ClientInv' /\ WalletKept /\ [Instruction]_vars /\ now' = now /\ attempt' = attempt
    BY <1>7, LandIsSound DEF SlipInv
  <2>2. NoneStarts
    BY <2>1 DEF NoneStarts, IsUsed
  <2> QED BY <1>7, <2>1, <2>2, SlipElsewhere
<1>8. CASE KeeperActs
  <2>1. Instruction
    BY <1>8, KeeperSendsInstructions
  <2>2. now' = now /\ UNCHANGED walletVars /\ UNCHANGED matchVars /\ inflight' = inflight
    BY <1>8 DEF KeeperActs, PostQuote, LockMarket, txVars
  <2>3. ClientInv' /\ WalletKept
    BY <2>1, <2>2, Elsewhere DEF SlipInv
  <2>4. NoneStarts
    BY <2>2 DEF walletVars, NoneStarts, IsUsed
  <2> QED BY <2>1, <2>2, <2>3, <2>4, SlipElsewhere
<1>9. CASE SlipClock
  BY <1>9, SlipClockIsSound
<1>10. CASE UNCHANGED slipVars
  <2>1. /\ UNCHANGED vars /\ UNCHANGED walletVars /\ UNCHANGED matchVars /\ inflight' = inflight
    BY <1>10 DEF slipVars, txVars
  <2>2. ClientInv' /\ WalletKept /\ NoneStarts /\ [Instruction]_vars /\ now' = now
    BY <2>1, PageAlone DEF SlipInv
  <2> QED BY <2>1, <2>2, SlipElsewhere
<1> QED BY <1>1, <1>2, <1>3, <1>4, <1>5, <1>6, <1>7, <1>8, <1>9, <1>10 DEF SlipNext

\* The book of the match page: one market, and no ticket yet.
LEMMA SlipBook ==
    ASSUME NEW m,
           m = [state |-> "Open", fixture_id |-> TheFixture, params |-> ThePredicate,
                kickoff_ts |-> TheKickoff, odds |-> [s \in Sides |-> 0], odds_record |-> None,
                quote_posted_ts |-> 0, stake |-> [s \in Sides |-> 0],
                payout |-> [s \in Sides |-> 0]],
           NEW markets, markets = [n \in MarketIds |-> IF n = TheMarket THEN m ELSE NoMarket]
    PROVE  IsBook(markets, NoTickets, Liquidity)
<1>1. /\ m \in Market /\ m.state = "Open" /\ m.quote_posted_ts = 0
  <2>1. [s \in Sides |-> 0] \in [Sides -> Nat] /\ [s \in Sides |-> 0] \in [Sides -> Amount]
    BY ConstantTypes
  <2> QED BY <2>1, SlipAssumption DEF Market, MarketState
<1>2. markets \in [MarketIds -> Market]
  BY <1>1, NoAccountTypes
<1>3. IsUnsold(m)
  BY <1>1 DEF IsUnsold
<1>4. AreUnsold(markets, 1) /\ 1 \in 0..NumMarkets
  <2>1. 1 \in 0..NumMarkets
    BY SlipAssumption, BoundsAssumption
  <2>2. ASSUME NEW k \in MarketIds
        PROVE  \/ k >= 1 /\ markets[k] = NoMarket
               \/ k < 1 /\ markets[k] = m
    BY BoundsAssumption DEF MarketIds, TheMarket
  <2>3. \A k \in MarketIds : k \in Int
    BY BoundsAssumption DEF MarketIds
  <2> QED BY <1>3, <2>1, <2>2, <2>3 DEF AreUnsold
<1>5. Liquidity \in Amount
  BY SlipAssumption, WalletAssumption, BoundsAssumption DEF Amount
<1> QED BY <1>2, <1>4, <1>5, UnsoldBook

\* What the program keeps holds of that book.
LEMMA SlipAtFirst ==
    ASSUME SlipInit
    PROVE  /\ ProgramInv /\ BookStands
           /\ WalletInit /\ LandedIsDone /\ market[TheMarket].state # "Vacant"
           /\ board = None /\ slip = None /\ slips = 0
<1>1. PICK m, markets :
        /\ m = [NoMarket EXCEPT !.state = "Open", !.fixture_id = TheFixture,
                                !.params = ThePredicate, !.kickoff_ts = TheKickoff]
        /\ m = [state |-> "Open", fixture_id |-> TheFixture, params |-> ThePredicate,
                kickoff_ts |-> TheKickoff, odds |-> [s \in Sides |-> 0], odds_record |-> None,
                quote_posted_ts |-> 0, stake |-> [s \in Sides |-> 0],
                payout |-> [s \in Sides |-> 0]]
        /\ markets = [n \in MarketIds |-> IF n = TheMarket THEN m ELSE NoMarket]
  <2>1. PICK m : m = [NoMarket EXCEPT !.state = "Open", !.fixture_id = TheFixture,
                                      !.params = ThePredicate, !.kickoff_ts = TheKickoff]
    OBVIOUS
  <2>2. m = [state |-> "Open", fixture_id |-> TheFixture, params |-> ThePredicate,
             kickoff_ts |-> TheKickoff, odds |-> [s \in Sides |-> 0], odds_record |-> None,
             quote_posted_ts |-> 0, stake |-> [s \in Sides |-> 0],
             payout |-> [s \in Sides |-> 0]]
    BY <2>1 DEF NoMarket
  <2>3. PICK markets : markets = [n \in MarketIds |-> IF n = TheMarket THEN m ELSE NoMarket]
    OBVIOUS
  <2> QED BY <2>1, <2>2, <2>3
<1>2. BookWith(markets, NoTickets, Liquidity) /\ WalletInit
      /\ board = None /\ slip = None /\ slips = 0
  BY <1>1 DEF SlipInit
<1>3. IsBook(markets, NoTickets, Liquidity)
  BY <1>1, SlipBook
<1>4. ProgramInv
  BY <1>2, <1>3, ProgramAtFirst
<1>5. BookStands
  BY <1>2, <1>3, BookStandsAtFirst
<1>6. LandedIsDone
  BY <1>2, WalletAtFirst DEF BookWith
<1>7. market[TheMarket].state # "Vacant"
  <2>1. market = markets
    BY <1>2 DEF BookWith
  <2> QED BY <1>1, <2>1, SlipTypes DEF NoMarket
<1> QED BY <1>2, <1>4, <1>5, <1>6, <1>7

LEMMA SlipInvInit ==
    ASSUME SlipInit
    PROVE  SlipInv
<1>1. /\ BookStands /\ WalletInit /\ LandedIsDone /\ market[TheMarket].state # "Vacant"
      /\ board = None /\ slip = None /\ slips = 0
  BY SlipAtFirst
<1>2. WalletInv
  BY <1>1, WalletAtFirst DEF SlipInit, BookWith
<1>3. \A i \in Attempts : ~IsUsed(i)
  BY <1>1 DEF WalletInit, Unused, IsUsed
<1> QED BY <1>1, <1>2, <1>3
       DEF SlipInv, ClientInv, BoardIsSound, SlipIsSound, BetsAreSound, RetriesAreSound

LEMMA SlipInvariant == SlipSpec => []SlipInv
  BY SlipInvInit, SlipInvNext, PTL DEF SlipSpec

\* What a confirmed, and a refused, attempt report is so.
LEMMA SlipReports ==
    ASSUME SlipInv
    PROVE  RefusedIsFinal /\ ConfirmedIsSold
<1>1. WalletInv /\ LandedIsDone
  BY DEF SlipInv, ClientInv
<1>2. RefusedIsFinal
  BY <1>1 DEF RefusedIsFinal, WalletInv, AttemptIsSound
<1>3. ConfirmedIsSold
  <2> SUFFICES ASSUME NEW i \in Attempts, attempt[i].result = "confirmed"
               PROVE  /\ landed[i] \in TicketIds
                      /\ ticket[landed[i]].side = attempt[i].tx.side
                      /\ ticket[landed[i]].stake = attempt[i].tx.stake
    BY DEF ConfirmedIsSold
  <2>1. landed[i] \in TicketIds /\ IsUsed(i)
    BY <1>1, NoneIsNoTicket DEF WalletInv, AttemptIsSound, IsAttempt, IsUsed, Results
  <2>2. attempt[i].tx.op = "bet"
    BY <2>1 DEF SlipInv, BetsAreSound, BetIsSound
  <2>3. HasDone(attempt[i].tx, landed[i])
    BY <1>1, <2>1 DEF LandedIsDone
  <2> QED BY <2>1, <2>2, <2>3 DEF HasDone
<1> QED BY <1>2, <1>3

\* More than one is at least two.
LEMMA TwoOfMany ==
    ASSUME NEW S, S \subseteq Attempts, Cardinality(S) > 1
    PROVE  \E i, j \in S : i < j
<1>1. IsFiniteSet(Attempts) /\ \A i \in Attempts : i \in Int
  BY FS_Interval, WalletAssumption DEF Attempts
<1>2. IsFiniteSet(S)
  BY <1>1, FS_Subset
<1>3. S # {}
  BY FS_EmptySet
<1>4. PICK i \in S : TRUE
  BY <1>3
<1>5. S # {i}
  BY FS_Singleton
<1>6. PICK j \in S : j # i
  BY <1>4, <1>5
<1>7. i < j \/ j < i
  BY <1>1, <1>6
<1> QED BY <1>7

\* Of two bets of a slip that were sold, the first is not known to have been.
LEMMA SlipBuysOnce ==
    ASSUME SlipInv
    PROVE  OneTicketPerSlip
<1> SUFFICES ASSUME NEW s \in 1..slips,
                    Cardinality({i \in BetsOf(s) : landed[i] \in TicketIds}) > 1
             PROVE  \E i \in BetsOf(s) : attempt[i].result = "unknown"
  BY DEF OneTicketPerSlip
<1>1. PICK S : S = {i \in BetsOf(s) : landed[i] \in TicketIds}
  OBVIOUS
<1>2. S \subseteq Attempts
  BY <1>1 DEF BetsOf
<1>3. PICK i \in S, j \in S : i < j
  BY <1>1, <1>2, TwoOfMany
<1>4. /\ i \in Attempts /\ j \in Attempts /\ landed[i] \in TicketIds
      /\ attempt[i].tx # None /\ attempt[i].tx.slip = s
      /\ attempt[j].tx # None /\ attempt[j].tx.slip = s
  BY <1>1, <1>3 DEF BetsOf
<1>5. AttemptIsSound(i) /\ AttemptIsSound(j)
  BY <1>4 DEF SlipInv, ClientInv, WalletInv
<1>6. IsUsed(i) /\ IsUsed(j)
  BY <1>4, <1>5 DEF AttemptIsSound, IsUsed
<1>7. attempt[i].result \in {"refused", "unknown"}
  BY <1>3, <1>4, <1>6 DEF SlipInv, RetriesAreSound
<1>8. attempt[i].result # "refused"
  BY <1>4, <1>5 DEF AttemptIsSound, IsDead
<1> QED BY <1>1, <1>3, <1>7, <1>8

LEMMA SlipIsTimed ==
    ASSUME SlipInv
    PROVE  CountdownIsExact /\ FirstBetLeavesTime
<1>1. CountdownIsExact
  BY DEF SlipInv, SlipIsSound, CountdownIsExact
<1>2. FirstBetLeavesTime
  <2> SUFFICES ASSUME NEW i \in Attempts, attempt[i].tx # None, attempt[i].tx.isFirst,
                      now <= attempt[i].tx.at + QUOTE_SAFETY_SECONDS
               PROVE  QuoteIsFresh(TheMarket)
    BY DEF FirstBetLeavesTime, LeavesTime
  <2>1. IsUsed(i)
    BY DEF SlipInv, ClientInv, WalletInv, AttemptIsSound, IsUsed
  <2>2. BetIsSound(i)
    BY <2>1 DEF SlipInv, BetsAreSound
  <2>3. PICK at \in Nat : /\ at = attempt[i].tx.at
                          /\ at - market[TheMarket].quote_posted_ts
                               <= QUOTE_VALIDITY_SECONDS - QUOTE_SAFETY_SECONDS
    BY <2>2 DEF BetIsSound
  <2>4. now \in Nat /\ market[TheMarket].quote_posted_ts \in Nat
    BY SlipFacts DEF SlipInv
  <2> QED BY <2>3, <2>4, SlipTypes DEF QuoteIsFresh
<1> QED BY <1>1, <1>2

-----------------------------------------------------------------------------
(* The tickets page.                                                       *)

LEMMA TicketFacts ==
    ASSUME ClientInv, NEW t \in TicketIds
    PROVE  /\ ticket[t].potential_payout \in Nat /\ ticket[t].stake \in Nat
           /\ ticket[t].state \in TicketState /\ ticket[t].audit_status \in AuditStatus
           /\ ticket[t].side \in Sides
           /\ receipt[t].audit_status \in AuditStatus
           /\ receipt[t].paid_amount \in Nat /\ receipt[t].shortfall_owed \in Nat
<1>1. TypeOK
  BY DEF ClientInv, BookStands, PaymentInv, VerdictInv, NumberingInv, BookInv
<1> QED BY <1>1, ConstantTypes DEF TypeOK, Ticket, CashOutReceipt

\* What steps leave of a ticket that was sold, and of its receipt.
LEMMA TicketKept ==
    ASSUME ClientInv, [Instruction]_vars, NEW t \in TicketIds, ticket[t].state # "Vacant"
    PROVE  /\ ticket'[t].state # "Vacant" /\ ticket'[t].side = ticket[t].side
           /\ ticket'[t].stake = ticket[t].stake
           /\ ticket'[t].potential_payout = ticket[t].potential_payout
           /\ ticket[t].state \in {"Won", "Refunded"} => ticket'[t].state = ticket[t].state
           /\ ticket[t].state \in {"Lost", "Refundable", "Refunded"} =>
                ticket'[t].state \in {"Lost", "Refundable", "Refunded"}
<1>1. TermsKept /\ TicketStep(t)
  BY BookStandsNext, TicketSteps
     DEF ClientInv, BookStands, PaymentInv, VerdictInv, NumberingInv
<1> QED BY <1>1 DEF TermsKept, TicketTermsKept, TicketStep

LEMMA ReceiptKept ==
    ASSUME ClientInv, [Instruction]_vars, NEW t \in TicketIds
    PROVE  /\ receipt[t].exists =>
                receipt'[t].exists /\ receipt'[t].paid_amount = receipt[t].paid_amount
           /\ receipt[t].audit_status # "Unaudited" =>
                /\ receipt'[t].audit_status = receipt[t].audit_status
                /\ receipt'[t].shortfall_owed = receipt[t].shortfall_owed
           /\ receipt[t].made_whole => receipt'[t].made_whole
           /\ ticket[t].audit_status # "Unaudited" =>
                ticket'[t].audit_status = ticket[t].audit_status
<1>1. TermsKept /\ KeepsVerdicts /\ VerdictInv
  BY BookStandsNext DEF ClientInv, BookStands, PaymentInv
<1> QED BY <1>1, RepairsStay DEF TermsKept, ReceiptTermsKept, KeepsVerdicts

LEMMA OfferStays ==
    ASSUME ClientInv, [Instruction]_vars, NEW t \in TicketIds, ticket[t].state # "Vacant",
           NEW offer, IsOffer(t, offer)
    PROVE  IsOffer(t, offer)'
  BY TicketKept DEF IsOffer

LEMMA RowStays ==
    ASSUME ClientInv, [Instruction]_vars, NEW t, NEW row, RowIsSound(t, row)
    PROVE  RowIsSound(t, row)'
<1>1. t \in TicketIds /\ ticket[t].state # "Vacant"
  BY DEF RowIsSound
<1>2. ticket'[t].state # "Vacant" /\ (row.offer # None => IsOffer(t, row.offer)')
  BY <1>1, TicketKept, OfferStays DEF RowIsSound
<1>3. /\ row.status = "won" => ticket'[t].state = "Won" /\ row.amount = ticket'[t].potential_payout
      /\ row.status = "lost" =>
           ticket'[t].state \in {"Lost", "Refundable", "Refunded"} /\ row.amount = 0
      /\ row.status = "refunded" => ticket'[t].state = "Refunded" /\ row.amount = ticket'[t].stake
  BY <1>1, TicketKept DEF RowIsSound
<1>4. /\ row.status = "cashedOut" =>
           receipt'[t].exists /\ row.amount = receipt'[t].paid_amount
      /\ row.status # "cashedOut" => row.shortfall = None
  BY <1>1, ReceiptKept DEF RowIsSound
<1>5. row.shortfall # None =>
         /\ receipt'[t].audit_status = "Violation"
         /\ row.shortfall.amount = receipt'[t].shortfall_owed
         /\ row.shortfall.repaid => receipt'[t].made_whole
  BY <1>1, ReceiptKept DEF RowIsSound
<1> QED BY <1>1, <1>2, <1>3, <1>4, <1>5 DEF RowIsSound

LEMMA VerdictStays ==
    ASSUME ClientInv, WalletKept, [Instruction]_vars, NEW i \in Attempts, VerdictIsSound(i),
           verdict'[i] = verdict[i]
    PROVE  VerdictIsSound(i)'
<1>1. CASE verdict[i].is \notin {"honest", "violation"}
  BY <1>1 DEF VerdictIsSound
<1>2. CASE verdict[i].is \in {"honest", "violation"}
  <2>1. /\ attempt[i].stage = "over" /\ attempt[i].result = "confirmed"
        /\ attempt[i].tx.op \in {"audit", "auditCashOut"}
        /\ StatusAudited(i) = (IF verdict[i].is = "violation" THEN "Violation" ELSE "Honest")
    BY <1>2 DEF VerdictIsSound
  <2>2. attempt'[i] = attempt[i]
    BY <2>1 DEF WalletKept
  <2>3. attempt[i].tx.t \in TicketIds
    BY <2>1 DEF ClientInv, WalletInv, AttemptIsSound, IsTx
  <2>4. StatusAudited(i)' = StatusAudited(i)
    <3>1. StatusAudited(i) # "Unaudited"
      BY <2>1
    <3> QED BY <2>1, <2>2, <2>3, <3>1, ReceiptKept DEF StatusAudited
  <2>5. PICK j, t : j = verdict[i].claim /\ t = attempt[i].tx.t
    OBVIOUS
  <2>6. IsClaimFor(j, t) => IsClaimFor(j, t)'
    BY DEF IsClaimFor, WalletKept, IsUsed
  <2>7. verdict'[i].claim = j /\ attempt'[i].tx.t = t
    BY <2>2, <2>5
  <2>8. verdict[i].is = "violation" /\ attempt[i].tx.op = "auditCashOut" => IsClaimFor(j, t)'
    BY <2>5, <2>6 DEF VerdictIsSound
  <2> QED BY <2>1, <2>2, <2>4, <2>7, <2>8 DEF VerdictIsSound, IsClaimFor, IsUsed
<1> QED BY <1>1, <1>2

LEMMA SheetStays ==
    ASSUME ClientInv, WalletKept, [Instruction]_vars, SheetIsSound, sheet' = sheet
    PROVE  SheetIsSound'
<1>1. CASE sheet = None
  BY <1>1 DEF SheetIsSound
<1>2. CASE sheet # None
  <2>1. PICK s : s = sheet
    OBVIOUS
  <2>2. /\ s = [t |-> s.t, offer |-> s.offer, left |-> s.left, last |-> s.last]
        /\ s.t \in TicketIds /\ ticket[s.t].state # "Vacant"
        /\ IsOffer(s.t, s.offer)
        /\ \/ s.last = None
           \/ /\ s.last \in Attempts /\ IsUsed(s.last)
              /\ attempt[s.last].tx.op = "cashout" /\ attempt[s.last].tx.t = s.t
    BY <1>2, <2>1 DEF SheetIsSound
  <2>3. ticket'[s.t].state # "Vacant" /\ IsOffer(s.t, s.offer)'
    BY <2>2, TicketKept, OfferStays
  <2>4. \/ s.last = None
        \/ /\ s.last \in Attempts /\ IsUsed(s.last)'
           /\ attempt'[s.last].tx.op = "cashout" /\ attempt'[s.last].tx.t = s.t
    BY <2>2 DEF WalletKept, IsUsed
  <2> QED BY <2>1, <2>2, <2>3, <2>4 DEF SheetIsSound, IsUsed, IsOffer
<1> QED BY <1>1, <1>2

\* What the page knows of the chain stays true of it.
LEMMA KnowledgeStays ==
    ASSUME TicketsInv, WalletKept, [Instruction]_vars
    PROVE  /\ list' = list => ListIsSound'
           /\ sheet' = sheet => SheetIsSound'
           /\ verdict' = verdict => VerdictsAreSound'
<1>1. ClientInv /\ ListIsSound /\ SheetIsSound /\ VerdictsAreSound
  BY DEF TicketsInv
<1>2. ASSUME list' = list PROVE ListIsSound'
  BY <1>1, <1>2, RowStays DEF ListIsSound
<1>3. ASSUME verdict' = verdict PROVE VerdictsAreSound'
  BY <1>1, <1>3, VerdictStays DEF VerdictsAreSound
<1> QED BY <1>1, <1>2, <1>3, SheetStays

\* Steps that leave the page as it is, and the clients of the page know of.
LEMMA TicketsElsewhere ==
    ASSUME TicketsInv, ClientInv', WalletKept, [Instruction]_vars, UNCHANGED listVars
    PROVE  TicketsInv'
<1>1. list' = list /\ sheet' = sheet /\ verdict' = verdict
  BY DEF listVars
<1> QED BY <1>1, KnowledgeStays DEF TicketsInv

\* Steps of the page alone leave its client as it is.
LEMMA ClientAlone ==
    ASSUME TicketsInv, UNCHANGED vars, UNCHANGED walletVars, inflight' = inflight
    PROVE  ClientInv' /\ WalletKept /\ [Instruction]_vars
  BY PageAlone DEF TicketsInv

\* An offer that is made is the price of its ticket.
LEMMA OffersAreSound ==
    ASSUME ClientInv, NEW t \in TicketIds, ticket[t].state # "Vacant"
    PROVE  Offer(ticket[t]) # None => IsOffer(t, Offer(ticket[t]))
<1>1. PICK k, m, odds : /\ k = ticket[t] /\ m = ticket[t].market
                        /\ odds = market[k.market].odds[Opposite(k.side)]
  OBVIOUS
<1>2. m \in MarketIds /\ k.side \in Sides
  BY <1>1, TicketFacts
     DEF ClientInv, BookStands, PaymentInv, VerdictInv, NumberingInv, BookInv, TicketsAreSound
<1>3. market[m].odds \in [Sides -> Nat]
  BY <1>2, ConstantTypes DEF ClientInv, BookStands, PaymentInv, VerdictInv, NumberingInv, BookInv,
     TypeOK, Market
<1>4. Opposite(k.side) \in Sides
  BY <1>2 DEF Opposite, Sides
<1>5. odds \in Nat
  BY <1>1, <1>3, <1>4
<1>6. CASE Offer(ticket[t]) # None
  <2>1. PICK offer : offer = Offer(ticket[t])
    OBVIOUS
  <2>2. offer = [amount |-> cashOutValueRaw(k.potential_payout, odds),
                 quote |-> market[m].odds,
                 left |-> QUOTE_VALIDITY_SECONDS - (now - market[m].quote_posted_ts)]
    BY <1>1, <1>6, <2>1 DEF Offer, OppositeOdds
  <2>3. offer.amount = cashOutValueRaw(k.potential_payout, odds) /\ offer.quote = market[m].odds
    BY <2>2
  <2> QED BY <1>1, <1>5, <2>1, <2>3 DEF IsOffer
<1> QED BY <1>6

\* A row says what the chain holds of its ticket when it is read.
LEMMA RowsAreSound ==
    ASSUME ClientInv, NEW t \in TicketIds, ticket[t] # NoTicket,
           NEW row, row = [status |-> Status[ticket[t].state], offer |-> Offer(ticket[t]),
                           amount |-> AmountLabel(ticket[t], receipt[t]),
                           shortfall |-> ShortfallRow(ticket[t], receipt[t])]
    PROVE  RowIsSound(t, row)
<1>1. ticket[t].state # "Vacant"
  BY DEF ClientInv, BookStands, VacantAreNew
<1>2. row.status = Status[ticket[t].state] /\ row.offer = Offer(ticket[t])
  OBVIOUS
<1>3. /\ row.amount = AmountLabel(ticket[t], receipt[t])
      /\ row.shortfall = ShortfallRow(ticket[t], receipt[t])
  OBVIOUS
<1>4. row.offer # None => IsOffer(t, row.offer)
  BY <1>1, <1>2, OffersAreSound
<1>5. PICK s \in TicketState : s = ticket[t].state
  BY TicketFacts
<1>6. /\ row.status = "won" => s = "Won"
      /\ row.status = "lost" => s = "Lost"
      /\ row.status = "refunded" => s = "Refunded"
      /\ row.status = "cashedOut" <=> s = "CashedOut"
  BY <1>1, <1>2, <1>5 DEF Status, TicketState
<1>7. /\ s = "Won" => row.amount = ticket[t].potential_payout
      /\ s = "Lost" => row.amount = 0
      /\ s = "Refunded" => row.amount = ticket[t].stake
      /\ s = "CashedOut" => row.amount = receipt[t].paid_amount
  BY <1>3, <1>5 DEF AmountLabel
<1>8. s = "CashedOut" => receipt[t].exists
  BY <1>5 DEF ClientInv, BookStands, SoldHaveReceipts
<1>9. row.status # "cashedOut" => row.shortfall = None
  BY <1>3, <1>5, <1>6 DEF ShortfallRow
<1>10. row.shortfall # None =>
         /\ receipt[t].audit_status = "Violation"
         /\ row.shortfall.amount = receipt[t].shortfall_owed
         /\ row.shortfall.repaid => receipt[t].made_whole
  <2>1. CASE row.shortfall # None
    <3>1. PICK line : line = row.shortfall
      OBVIOUS
    <3>2. /\ receipt[t].audit_status = "Violation"
          /\ line = [amount |-> receipt[t].shortfall_owed, repaid |-> receipt[t].made_whole]
      BY <1>3, <2>1, <3>1 DEF ShortfallRow
    <3>3. line.amount = receipt[t].shortfall_owed /\ line.repaid = receipt[t].made_whole
      BY <3>2
    <3> QED BY <3>1, <3>2, <3>3
  <2> QED BY <2>1
<1> QED BY <1>1, <1>4, <1>5, <1>6, <1>7, <1>8, <1>9, <1>10 DEF RowIsSound

LEMMA PollTicketsIsSound ==
    ASSUME TicketsInv, PollTickets
    PROVE  TicketsInv'
<1>1. /\ UNCHANGED vars /\ UNCHANGED walletVars /\ inflight' = inflight
      /\ sheet' = sheet /\ verdict' = verdict
      /\ list' = fetchChainTickets \/ list' = None
  BY DEF PollTickets, Answered, Fault, txVars
<1>2. ClientInv /\ ClientInv' /\ WalletKept /\ [Instruction]_vars
  BY <1>1, ClientAlone DEF TicketsInv
<1>3. SheetIsSound' /\ VerdictsAreSound'
  BY <1>1, <1>2, KnowledgeStays
<1>4. ListIsSound'
  <2>1. CASE list' = None
    BY <2>1 DEF ListIsSound
  <2>2. CASE list' = fetchChainTickets
    <3>1. PICK rows : rows = list' /\ rows = fetchChainTickets
      BY <2>2
    <3>2. ASSUME NEW t \in DOMAIN rows PROVE RowIsSound(t, rows[t])'
      <4>1. t \in TicketIds /\ ticket[t] # NoTicket
        BY <3>1 DEF fetchChainTickets
      <4>2. PICK row :
              /\ row = rows[t]
              /\ row = [status |-> Status[ticket[t].state], offer |-> Offer(ticket[t]),
                        amount |-> AmountLabel(ticket[t], receipt[t]),
                        shortfall |-> ShortfallRow(ticket[t], receipt[t])]
        BY <3>1, <4>1 DEF fetchChainTickets
      <4>3. RowIsSound(t, row)
        BY <1>2, <4>1, <4>2, RowsAreSound
      <4>4. RowIsSound(t, row)'
        BY <1>2, <4>3, RowStays
      <4> QED BY <4>2, <4>4 DEF RowIsSound, IsOffer
    <3> QED BY <3>1, <3>2 DEF ListIsSound, RowIsSound, IsOffer
  <2> QED BY <1>1, <2>1, <2>2
<1> QED BY <1>2, <1>3, <1>4 DEF TicketsInv

\* The sheet shows the offer of the row it is opened from.
LEMMA OpenSheetIsSound ==
    ASSUME TicketsInv, NEW t \in TicketIds, openSheet(t)
    PROVE  TicketsInv'
<1>1. /\ UNCHANGED vars /\ UNCHANGED walletVars /\ inflight' = inflight
      /\ list' = list /\ verdict' = verdict
      /\ list # None /\ t \in DOMAIN list /\ list[t].offer # None
  BY DEF openSheet, OffersCashOut, IsListed, txVars
<1>2. ClientInv /\ ClientInv' /\ WalletKept /\ [Instruction]_vars
  BY <1>1, ClientAlone DEF TicketsInv
<1>3. ListIsSound' /\ VerdictsAreSound'
  BY <1>1, <1>2, KnowledgeStays
<1>4. PICK offer : offer = list[t].offer
  OBVIOUS
<1>5. ticket[t].state # "Vacant" /\ IsOffer(t, offer)
  BY <1>1, <1>4 DEF TicketsInv, ListIsSound, RowIsSound
<1>6. ticket'[t].state # "Vacant" /\ IsOffer(t, offer)'
  BY <1>2, <1>5, TicketKept, OfferStays
<1>7. PICK s : s = sheet'
  OBVIOUS
<1>8. s = [t |-> t, offer |-> offer, left |-> offer.left, last |-> None]
  BY <1>4, <1>7 DEF openSheet
<1>9. SheetIsSound'
  BY <1>6, <1>7, <1>8 DEF SheetIsSound, IsOffer
<1> QED BY <1>2, <1>3, <1>9 DEF TicketsInv

\* The parts of a sheet.
LEMMA SheetParts ==
    ASSUME SheetIsSound, sheet # None
    PROVE  \E t \in TicketIds : \E offer, left, last :
             /\ sheet = [t |-> t, offer |-> offer, left |-> left, last |-> last]
             /\ sheet.t = t /\ sheet.offer = offer /\ sheet.left = left /\ sheet.last = last
             /\ ticket[t].state # "Vacant" /\ IsOffer(t, offer)
             /\ \/ last = None
                \/ /\ last \in Attempts /\ IsUsed(last)
                   /\ attempt[last].tx.op = "cashout" /\ attempt[last].tx.t = t
  BY DEF SheetIsSound

\* The attempt of the sheet is to sell the ticket the sheet is of.
LEMMA CashOutClickIsSound ==
    ASSUME TicketsInv, handleCashOut
    PROVE  TicketsInv'
<1>1. PICK i \in Attempts : Click(i, cashOutTicketOnChain(i, sheet.t))
                            /\ sheet' = [sheet EXCEPT !.last = i]
  BY DEF handleCashOut
<1>2. /\ UNCHANGED vars /\ inflight' = inflight /\ list' = list /\ verdict' = verdict
      /\ sheet # None
  BY DEF handleCashOut, txVars
<1>3. ClientInv /\ SheetIsSound
  BY DEF TicketsInv
<1>4. PICK t, offer, left, last :
        /\ t \in TicketIds /\ sheet = [t |-> t, offer |-> offer, left |-> left, last |-> last]
        /\ sheet.t = t /\ ticket[t].state # "Vacant" /\ IsOffer(t, offer)
  BY <1>2, <1>3, SheetParts
<1>5. PICK tx : tx = cashOutTicketOnChain(i, t)
  OBVIOUS
<1>6. tx.op = "cashout" /\ tx.t = t /\ IsTx(tx)
  BY <1>4, <1>5 DEF cashOutTicketOnChain, IsTx
<1>7. /\ ClientInv' /\ WalletKept /\ attempt'[i].tx = tx /\ attempt'[i].stage = "preparing"
  BY <1>1, <1>2, <1>3, <1>4, <1>5, <1>6, ClickOfClient
<1>8. [Instruction]_vars
  BY <1>2
<1>9. ListIsSound' /\ VerdictsAreSound'
  BY <1>2, <1>7, <1>8, KnowledgeStays
<1>10. ticket'[t].state # "Vacant" /\ IsOffer(t, offer)'
  BY <1>3, <1>4, <1>8, TicketKept, OfferStays
<1>11. PICK s : s = sheet' /\ s = [t |-> t, offer |-> offer, left |-> left, last |-> i]
  BY <1>1, <1>4
<1>12. SheetIsSound'
  BY <1>4, <1>6, <1>7, <1>10, <1>11 DEF SheetIsSound, IsOffer, IsUsed
<1> QED BY <1>7, <1>9, <1>12 DEF TicketsInv

LEMMA CloseSheetIsSound ==
    ASSUME TicketsInv, closeSheet
    PROVE  TicketsInv'
<1>1. /\ UNCHANGED vars /\ UNCHANGED walletVars /\ inflight' = inflight
      /\ list' = list /\ verdict' = verdict /\ sheet' = None
  BY DEF closeSheet, txVars
<1>2. ClientInv' /\ WalletKept /\ [Instruction]_vars
  BY <1>1, ClientAlone
<1>3. ListIsSound' /\ VerdictsAreSound'
  BY <1>1, <1>2, KnowledgeStays
<1> QED BY <1>1, <1>2, <1>3 DEF TicketsInv, SheetIsSound

\* A sheet whose time changes stays what it is.
LEMMA SheetClockIsSound ==
    ASSUME TicketsInv, SheetClock
    PROVE  TicketsInv'
<1>1. /\ Tick /\ UNCHANGED walletVars /\ inflight' \subseteq inflight
      /\ list' = list /\ verdict' = verdict
  BY DEF SheetClock, WalletClock, ClockTicks
<1>2. [Instruction]_vars
  BY <1>1 DEF Instruction
<1>3. ClientInv /\ SheetIsSound /\ ClientInv' /\ WalletKept
  BY <1>1, <1>2, Elsewhere DEF TicketsInv
<1>4. ListIsSound' /\ VerdictsAreSound'
  BY <1>1, <1>2, <1>3, KnowledgeStays
<1>5. SheetIsSound'
  <2>1. CASE sheet' = sheet
    BY <1>2, <1>3, <2>1, KnowledgeStays
  <2>2. CASE sheet' # sheet
    <3>1. sheet # None /\ sheet' = [sheet EXCEPT !.left = SaturatingSub(sheet.left, 1)]
      BY <2>2 DEF SheetClock
    <3>2. PICK t, offer, left, last :
            /\ t \in TicketIds
            /\ sheet = [t |-> t, offer |-> offer, left |-> left, last |-> last]
            /\ ticket[t].state # "Vacant" /\ IsOffer(t, offer)
            /\ \/ last = None
               \/ /\ last \in Attempts /\ IsUsed(last)
                  /\ attempt[last].tx.op = "cashout" /\ attempt[last].tx.t = t
      BY <1>3, <3>1, SheetParts
    <3>3. PICK left2 : left2 = SaturatingSub(sheet.left, 1)
      OBVIOUS
    <3>4. PICK s : s = sheet' /\ s = [t |-> t, offer |-> offer, left |-> left2, last |-> last]
      BY <3>1, <3>2, <3>3
    <3>5. ticket'[t].state # "Vacant" /\ IsOffer(t, offer)'
      BY <1>2, <1>3, <3>2, TicketKept, OfferStays
    <3>6. \/ last = None
          \/ /\ last \in Attempts /\ IsUsed(last)'
             /\ attempt'[last].tx.op = "cashout" /\ attempt'[last].tx.t = t
      BY <1>3, <3>2 DEF WalletKept, IsUsed
    <3> QED BY <3>2, <3>4, <3>5, <3>6 DEF SheetIsSound, IsOffer, IsUsed
  <2> QED BY <2>1, <2>2
<1> QED BY <1>3, <1>4, <1>5 DEF TicketsInv

\* A click that leaves the page's list, sheet and verdicts alone.
LEMMA PanelClick ==
    ASSUME TicketsInv, NEW i \in Attempts, NEW tx, IsTx(tx), Click(i, tx),
           UNCHANGED vars, inflight' = inflight,
           list' = list, sheet' = sheet, verdict' = verdict
    PROVE  TicketsInv'
<1>1. ClientInv' /\ WalletKept
  BY ClickOfClient DEF TicketsInv
<1>2. [Instruction]_vars
  OBVIOUS
<1> QED BY <1>1, <1>2, KnowledgeStays DEF TicketsInv

LEMMA AuditClickIsSound ==
    ASSUME TicketsInv, NEW t \in TicketIds, handleAudit(t)
    PROVE  TicketsInv'
<1>1. /\ UNCHANGED vars /\ inflight' = inflight
      /\ list' = list /\ sheet' = sheet /\ verdict' = verdict
  BY DEF handleAudit, txVars
<1>2. PICK i \in Attempts :
        Click(i, IF list[t].status = "cashedOut" THEN auditCashOutOnChain(i, t)
                 ELSE auditTicketOnChain(i, t))
  BY DEF handleAudit
<1>3. PICK tx : tx = IF list[t].status = "cashedOut" THEN auditCashOutOnChain(i, t)
                     ELSE auditTicketOnChain(i, t)
  OBVIOUS
<1>4. IsTx(tx)
  BY <1>3 DEF auditCashOutOnChain, auditTicketOnChain, IsTx
<1>5. Click(i, tx)
  BY <1>2, <1>3
<1> QED BY <1>1, <1>4, <1>5, PanelClick

LEMMA RefundClickIsSound ==
    ASSUME TicketsInv, NEW t \in TicketIds, handleRefund(t)
    PROVE  TicketsInv'
<1>1. /\ UNCHANGED vars /\ inflight' = inflight
      /\ list' = list /\ sheet' = sheet /\ verdict' = verdict
  BY DEF handleRefund, txVars
<1>2. PICK i \in Attempts : Click(i, refundTicketOnChain(i, t))
  BY DEF handleRefund
<1>3. PICK tx : tx = refundTicketOnChain(i, t)
  OBVIOUS
<1>4. IsTx(tx)
  BY <1>3 DEF refundTicketOnChain, IsTx
<1>5. Click(i, tx)
  BY <1>2, <1>3
<1> QED BY <1>1, <1>4, <1>5, PanelClick

LEMMA ToggleIsSound ==
    ASSUME TicketsInv, NEW t \in TicketIds, handleToggle(t)
    PROVE  TicketsInv'
<1>1. /\ UNCHANGED vars /\ UNCHANGED walletVars /\ inflight' = inflight
      /\ list' = list /\ sheet' = sheet /\ verdict' = verdict
  BY DEF handleToggle, txVars
<1>2. ClientInv' /\ WalletKept /\ [Instruction]_vars
  BY <1>1, ClientAlone
<1> QED BY <1>1, <1>2, KnowledgeStays DEF TicketsInv

\* One more verdict is known; the others stay.
LEMMA VerdictFound ==
    ASSUME TicketsInv, ClientInv', WalletKept, UNCHANGED vars, list' = list, sheet' = sheet,
           NEW i \in Attempts, NEW v, Found(i, v), VerdictIsSound(i)'
    PROVE  TicketsInv'
<1>1. [Instruction]_vars
  OBVIOUS
<1>2. ClientInv /\ VerdictsAreSound
  BY DEF TicketsInv
<1>3. ListIsSound' /\ SheetIsSound'
  BY <1>1, KnowledgeStays
<1>4. verdict = [j \in Attempts |-> verdict[j]]
  BY <1>2 DEF VerdictsAreSound
<1>5. verdict' = [j \in Attempts |-> IF j = i THEN v ELSE verdict[j]]
  BY <1>4 DEF Found
<1>6. verdict' = [j \in Attempts |-> verdict'[j]]
  BY <1>5
<1>7. ASSUME NEW j \in Attempts, j # i PROVE VerdictIsSound(j)'
  <2>1. verdict'[j] = verdict[j] /\ VerdictIsSound(j)
    BY <1>2, <1>5, <1>7 DEF VerdictsAreSound
  <2> QED BY <1>1, <1>2, <2>1, VerdictStays
<1> QED BY <1>3, <1>6, <1>7 DEF TicketsInv, VerdictsAreSound

\* A verdict is that of the chain: its transaction was executed, and executed it
\* has reached one.
LEMMA ReadVerdictIsSound ==
    ASSUME TicketsInv, NEW i \in Attempts, ReadVerdict(i)
    PROVE  TicketsInv'
<1>1. /\ UNCHANGED vars /\ list' = list /\ sheet' = sheet /\ inflight' = inflight
      /\ attempt[i].tx.op \in {"audit", "auditCashOut"} /\ attempt[i].result = "confirmed"
  BY DEF ReadVerdict, IsAudit, IsConfirmed, Answered, Fault, txVars
<1>2. ClientInv /\ WalletInv /\ LandedIsDone /\ AttemptIsSound(i) /\ VerdictsAreSound
  BY DEF TicketsInv, ClientInv, WalletInv
<1>3. attempt[i].stage = "over" /\ landed[i] \in TicketIds
  BY <1>1, <1>2, NoneIsNoTicket DEF AttemptIsSound, IsAttempt, Results
<1>4. IsTx(attempt[i].tx) /\ attempt[i].tx.t \in TicketIds
  BY <1>1, <1>2, <1>3 DEF AttemptIsSound, IsTx
<1>5. HasDone(attempt[i].tx, landed[i])
  BY <1>2, <1>3 DEF LandedIsDone
<1>6. StatusAudited(i) \in {"Honest", "Violation"}
  BY <1>1, <1>2, <1>4, <1>5, TicketFacts DEF StatusAudited, HasDone, AuditStatus
<1>7. WalletKept => attempt'[i] = attempt[i] /\ StatusAudited(i)' = StatusAudited(i)
  BY <1>1, <1>3 DEF WalletKept, StatusAudited, vars, accounts
<1>8. ASSUME NEW v, Found(i, v)
      PROVE  verdict'[i] = v
  BY <1>2, <1>8 DEF Found, VerdictsAreSound
<1>9. CASE UNCHANGED walletVars /\ StatusAudited(i) # "Violation"
           /\ Found(i, [Unread EXCEPT !.is = "honest"])
  <2>1. PICK v : v = [Unread EXCEPT !.is = "honest"]
    OBVIOUS
  <2>2. v.is = "honest"
    BY <2>1 DEF Unread
  <2>3. ClientInv' /\ WalletKept
    BY <1>1, <1>9, ClientAlone
  <2>4. verdict'[i].is = "honest" /\ Found(i, v)
    BY <1>8, <1>9, <2>1, <2>2
  <2>5. VerdictIsSound(i)'
    BY <1>1, <1>3, <1>6, <1>7, <1>9, <2>3, <2>4 DEF VerdictIsSound
  <2> QED BY <1>1, <2>3, <2>4, <2>5, VerdictFound
<1>10. CASE /\ UNCHANGED walletVars /\ StatusAudited(i) = "Violation" /\ attempt[i].tx.op = "audit"
            /\ \E v : v.is = "violation" /\ Found(i, v)
  <2>1. PICK v : v.is = "violation" /\ Found(i, v)
    BY <1>10
  <2>2. ClientInv' /\ WalletKept
    BY <1>1, <1>10, ClientAlone
  <2>3. verdict'[i].is = "violation"
    BY <1>8, <2>1
  <2>4. VerdictIsSound(i)'
    BY <1>1, <1>3, <1>7, <1>10, <2>2, <2>3 DEF VerdictIsSound
  <2> QED BY <1>1, <2>1, <2>2, <2>4, VerdictFound
<1>11. CASE /\ StatusAudited(i) = "Violation" /\ attempt[i].tx.op = "auditCashOut"
            /\ \E j \in Attempts :
                 /\ Click(j, claimCashOutRepair(j, attempt[i].tx.t))
                 /\ Found(i, [Unread EXCEPT !.is = "violation", !.claim = j])
  <2>1. PICK j \in Attempts : /\ Click(j, claimCashOutRepair(j, attempt[i].tx.t))
                              /\ Found(i, [Unread EXCEPT !.is = "violation", !.claim = j])
    BY <1>11
  <2>2. PICK t, tx : t = attempt[i].tx.t /\ tx = claimCashOutRepair(j, t)
    OBVIOUS
  <2>3. tx.op = "claim" /\ tx.t = t /\ IsTx(tx)
    BY <1>4, <2>2 DEF claimCashOutRepair, IsTx
  <2>4. Click(j, tx)
    BY <2>1, <2>2
  <2>5. ClientInv' /\ WalletKept /\ attempt'[j].tx = tx /\ attempt'[j].stage = "preparing"
    BY <1>1, <1>2, <2>3, <2>4, ClickOfClient
  <2>6. PICK v : v = [Unread EXCEPT !.is = "violation", !.claim = j]
    OBVIOUS
  <2>7. v.is = "violation" /\ v.claim = j
    BY <2>6 DEF Unread
  <2>8. Found(i, v) /\ verdict'[i].is = "violation" /\ verdict'[i].claim = j
    BY <1>8, <2>1, <2>6, <2>7
  <2>9. attempt'[i] = attempt[i] /\ StatusAudited(i)' = "Violation"
    BY <1>7, <1>11, <2>5
  <2>10. attempt'[i].tx.t = t /\ attempt'[j].tx.op = "claim" /\ attempt'[j].tx.t = t
    BY <2>2, <2>3, <2>5, <2>9
  <2>11. VerdictIsSound(i)'
    BY <1>1, <1>3, <2>5, <2>8, <2>9, <2>10 DEF VerdictIsSound, IsClaimFor, IsUsed
  <2> QED BY <1>1, <2>5, <2>8, <2>11, VerdictFound
<1>12. CASE UNCHANGED walletVars /\ Found(i, [Unread EXCEPT !.is = "unknown"])
  <2>1. PICK v : v = [Unread EXCEPT !.is = "unknown"]
    OBVIOUS
  <2>2. v.is = "unknown"
    BY <2>1 DEF Unread
  <2>3. ClientInv' /\ WalletKept
    BY <1>1, <1>12, ClientAlone
  <2>4. verdict'[i].is = "unknown" /\ Found(i, v)
    BY <1>8, <1>12, <2>1, <2>2
  <2>5. VerdictIsSound(i)'
    BY <2>4 DEF VerdictIsSound
  <2> QED BY <1>1, <2>3, <2>4, <2>5, VerdictFound
<1>13. ASSUME Found(i, [is |-> "violation", claim |-> None, gained |-> Gain(i),
                        refundable |-> ticket[attempt[i].tx.t].state = "Refundable"])
       PROVE  \E v : v.is = "violation" /\ Found(i, v)
  <2>1. PICK gained, refundable :
          /\ gained = Gain(i) /\ refundable = (ticket[attempt[i].tx.t].state = "Refundable")
    OBVIOUS
  <2>2. PICK v : v = [is |-> "violation", claim |-> None, gained |-> gained,
                      refundable |-> refundable]
    OBVIOUS
  <2>3. v.is = "violation"
    BY <2>2
  <2>4. Found(i, v)
    BY <1>13, <2>1, <2>2, Zenon
  <2> QED BY <2>3, <2>4
<1> QED BY <1>9, <1>10, <1>11, <1>12, <1>13 DEF ReadVerdict

\* The keeper and other crankers send instructions.
LEMMA OthersSendInstructions ==
    ASSUME OthersAct
    PROVE  Instruction /\ UNCHANGED walletVars /\ UNCHANGED listVars /\ inflight' = inflight
<1>1. UNCHANGED walletVars /\ UNCHANGED listVars /\ inflight' = inflight
  BY DEF OthersAct, txVars
<1>2. ASSUME NEW m \in MarketIds, NEW q \in Quotes, NEW r \in RecordIds, PostQuote(m, q, r)
      PROVE  Instruction
  <2>1. q \in [Sides -> Nat]
    BY ConstantTypes
  <2> QED BY <1>2, <2>1 DEF Instruction
<1>3. ASSUME NEW m \in MarketIds, LockMarket(m) PROVE Instruction
  BY <1>3 DEF Instruction
<1>4. ASSUME NEW m \in MarketIds, NEW proof \in ScoreProofs, VerifyMarket(m, proof)
      PROVE  Instruction
  BY <1>4 DEF Instruction
<1>5. ASSUME NEW m \in MarketIds, VoidMarket(m, FALSE) PROVE Instruction
  BY <1>5, Zenon DEF Instruction
<1>6. ASSUME NEW t \in TicketIds, SettleTicket(t) \/ RefundTicket(t) \/ ClaimCashOutRepair(t)
      PROVE  Instruction
  BY <1>6 DEF Instruction
<1> QED BY <1>1, <1>2, <1>3, <1>4, <1>5, <1>6 DEF OthersAct

\* No step of the tickets page breaks what it goes by.
LEMMA TicketsInvNext ==
    ASSUME TicketsInv, [TicketsNext]_ticketsVars
    PROVE  TicketsInv'
<1>1. CASE PollTickets
  BY <1>1, PollTicketsIsSound
<1>2. CASE \E t \in TicketIds : openSheet(t) \/ handleAudit(t) \/ handleRefund(t) \/ handleToggle(t)
  BY <1>2, OpenSheetIsSound, AuditClickIsSound, RefundClickIsSound, ToggleIsSound
<1>3. CASE handleCashOut
  BY <1>3, CashOutClickIsSound
<1>4. CASE closeSheet
  BY <1>4, CloseSheetIsSound
<1>5. CASE \E i \in Attempts : ReadVerdict(i)
  BY <1>5, ReadVerdictIsSound
<1>6. ASSUME NEW i \in Attempts, WalletStep(i), UNCHANGED listVars
      PROVE  TicketsInv'
  <2>1. ClientInv' /\ WalletKept /\ UNCHANGED vars
    BY <1>6, WalletStepIsSound DEF TicketsInv
  <2> QED BY <1>6, <2>1, TicketsElsewhere
<1>7. CASE Land /\ UNCHANGED listVars
  <2>1. ClientInv' /\ WalletKept /\ [Instruction]_vars
    BY <1>7, LandIsSound DEF TicketsInv
  <2> QED BY <1>7, <2>1, TicketsElsewhere
<1>8. CASE OthersAct
  <2>1. Instruction /\ UNCHANGED walletVars /\ UNCHANGED listVars /\ inflight' = inflight
    BY <1>8, OthersSendInstructions
  <2>2. ClientInv' /\ WalletKept
    BY <2>1, Elsewhere DEF TicketsInv
  <2> QED BY <2>1, <2>2, TicketsElsewhere
<1>9. CASE SheetClock
  BY <1>9, SheetClockIsSound
<1>10. CASE UNCHANGED ticketsVars
  <2>1. UNCHANGED vars /\ UNCHANGED walletVars /\ UNCHANGED listVars /\ inflight' = inflight
    BY <1>10 DEF ticketsVars, txVars
  <2>2. ClientInv' /\ WalletKept /\ [Instruction]_vars
    BY <2>1, ClientAlone
  <2> QED BY <2>1, <2>2, TicketsElsewhere
<1> QED BY <1>1, <1>2, <1>3, <1>4, <1>5, <1>6, <1>7, <1>8, <1>9, <1>10 DEF TicketsNext

LEMMA TicketsInvInit ==
    ASSUME TicketsInit
    PROVE  TicketsInv
<1>1. PICK book \in BooksAtFirst : BookWith(book.markets, book.tickets, Liquidity)
  BY DEF TicketsInit
<1>2. IsBook(book.markets, book.tickets, Liquidity)
  BY BooksAssumption
<1>3. BookStands
  BY <1>1, <1>2, BookStandsAtFirst
<1>4. WalletInv /\ LandedIsDone
  BY <1>1, WalletAtFirst DEF TicketsInit, BookWith
<1>5. verdict = [i \in Attempts |-> Unread] /\ list = None /\ sheet = None
  BY DEF TicketsInit
<1>6. VerdictsAreSound
  BY <1>5 DEF VerdictsAreSound, VerdictIsSound, Unread
<1> QED BY <1>3, <1>4, <1>5, <1>6 DEF TicketsInv, ClientInv, ListIsSound, SheetIsSound

LEMMA TicketsInvariant == TicketsSpec => []TicketsInv
  BY TicketsInvInit, TicketsInvNext, PTL DEF TicketsSpec

LEMMA TicketsReports ==
    ASSUME ClientInv
    PROVE  RefusedIsFinal
  BY DEF ClientInv, RefusedIsFinal, WalletInv, AttemptIsSound

\* What a confirmed attempt has done.
LEMMA ConfirmedIsDone ==
    ASSUME ClientInv, NEW i \in Attempts, attempt[i].result = "confirmed"
    PROVE  IsTx(attempt[i].tx) /\ landed[i] \in TicketIds /\ HasDone(attempt[i].tx, landed[i])
<1>1. AttemptIsSound(i) /\ LandedIsDone
  BY DEF ClientInv, WalletInv
<1>2. attempt[i].stage # "unused" /\ landed[i] \in TicketIds
  BY <1>1, NoneIsNoTicket DEF AttemptIsSound, IsAttempt
<1> QED BY <1>1, <1>2 DEF AttemptIsSound, LandedIsDone

\* The verdicts, and the repairs, that are shown are those of the chain.
LEMMA AuditsReport ==
    ASSUME TicketsInv
    PROVE  VerdictsShownAreTrue /\ RepairShownIsPaid
<1>1. ClientInv /\ \A i \in Attempts : VerdictIsSound(i)
  BY DEF TicketsInv, VerdictsAreSound
<1>2. VerdictsShownAreTrue
  <2> SUFFICES ASSUME NEW i \in Attempts, IsAudit(i), ReturnsVerdict(i)
               PROVE  StatusAudited(i) = (IF verdict[i].is = "violation" THEN "Violation"
                                          ELSE "Honest")
    BY DEF VerdictsShownAreTrue, StatusAudited
  <2>1. verdict[i].is \in {"honest", "violation"}
    BY DEF ReturnsVerdict
  <2> QED BY <1>1, <2>1 DEF VerdictIsSound
<1>3. RepairShownIsPaid
  <2> SUFFICES ASSUME NEW i \in Attempts, ReturnsVerdict(i),
                      verdict[i].is = "violation", attempt[i].tx.op = "auditCashOut"
               PROVE  receipt[attempt[i].tx.t].made_whole
    BY DEF RepairShownIsPaid
  <2>1. PICK j : j = verdict[i].claim /\ IsClaimFor(j, attempt[i].tx.t)
    BY <1>1 DEF VerdictIsSound
  <2>2. j \in Attempts /\ attempt[j].tx.op = "claim" /\ attempt[j].tx.t = attempt[i].tx.t
    BY <2>1 DEF IsClaimFor
  <2>3. attempt[j].result = "confirmed"
    BY <2>1, <2>2, NoneIsNoTicket DEF ReturnsVerdict, IsSent, IsConfirmed
  <2>4. HasDone(attempt[j].tx, landed[j])
    BY <1>1, <2>2, <2>3, ConfirmedIsDone
  <2> QED BY <2>2, <2>4 DEF HasDone
<1> QED BY <1>2, <1>3

\* A confirmed sheet has sold its ticket, at its price if on its quote.
LEMMA SheetReports ==
    ASSUME TicketsInv
    PROVE  SheetPaysWhileQuoted
<1> SUFFICES ASSUME sheet # None, IsConfirmed(sheet.last)
             PROVE  /\ ticket[sheet.t].state = "CashedOut"
                    /\ receipt[sheet.t].opposite_odds_bps
                         = sheet.offer.quote[Opposite(ticket[sheet.t].side)] =>
                         receipt[sheet.t].paid_amount = sheet.offer.amount
  <2>1. ReceivedView.confirmed = IsConfirmed(sheet.last)
    BY DEF ReceivedView
  <2>2. ReceivedView.amount = sheet.offer.amount
    BY DEF ReceivedView
  <2> QED BY <2>1, <2>2, Zenon DEF SheetPaysWhileQuoted
<1>1. ClientInv /\ SheetIsSound
  BY DEF TicketsInv
<1>2. PICK t, offer, left, last :
        /\ t \in TicketIds /\ sheet.t = t /\ sheet.offer = offer /\ sheet.last = last
        /\ IsOffer(t, offer)
        /\ \/ last = None
           \/ /\ last \in Attempts
              /\ attempt[last].tx.op = "cashout" /\ attempt[last].tx.t = t
  BY <1>1, SheetParts
<1>3. /\ last \in Attempts /\ attempt[last].result = "confirmed"
      /\ attempt[last].tx.op = "cashout" /\ attempt[last].tx.t = t
  BY <1>2 DEF IsConfirmed, IsSent
<1>4. HasDone(attempt[last].tx, landed[last])
  BY <1>1, <1>3, ConfirmedIsDone
<1>5. receipt[t].exists
  BY <1>3, <1>4 DEF HasDone
<1>6. ticket[t].state = "CashedOut"
  BY <1>1, <1>2, <1>5
     DEF ClientInv, BookStands, PaymentInv, VerdictInv, NumberingInv, BookInv, TicketsAreSound
<1>7. receipt[t].paid_amount = cash_out_value(ticket[t].potential_payout,
                                              implied_prob_bps(receipt[t].opposite_odds_bps))
  BY <1>1, <1>2, <1>5 DEF ClientInv, BookStands, SalesArePriced
<1>8. offer.amount = cashOutValueRaw(ticket[t].potential_payout,
                                     offer.quote[Opposite(ticket[t].side)])
  BY <1>2 DEF IsOffer
<1>9. \A payout, odds : cashOutValueRaw(payout, odds) = cash_out_value(payout, implied_prob_bps(odds))
  BY DEF cashOutValueRaw, cash_out_value, implied_prob_bps
<1> QED BY <1>2, <1>6, <1>7, <1>8, <1>9

\* The amounts of the rows are what was paid.
LEMMA RowsReport ==
    ASSUME TicketsInv
    PROVE  AmountsShownArePaid
<1> SUFFICES ASSUME NEW t \in TicketIds, IsListed(t), list[t].status = Status[ticket[t].state],
                    ticket[t].state \in {"Won", "Lost", "Refunded", "CashedOut"},
                    NEW row, row = list[t],
                    NEW shown,
                    shown = row.amount
                              + (IF row.shortfall # None /\ row.shortfall.repaid
                                 THEN row.shortfall.amount ELSE 0)
             PROVE  \/ paid[t] = shown
                    \/ receipt[t].made_whole /\ paid[t] = shown + receipt[t].shortfall_owed
  BY DEF AmountsShownArePaid
<1>1. ClientInv /\ RowIsSound(t, row)
  BY DEF TicketsInv, ListIsSound, IsListed
<1>2. /\ paid[t] = Due(t) /\ ticket[t].potential_payout \in Nat /\ ticket[t].stake \in Nat
      /\ receipt[t].paid_amount \in Nat /\ receipt[t].shortfall_owed \in Nat
  BY <1>1, TicketFacts DEF ClientInv, BookStands, PaymentInv, PaidOnce
<1>3. CASE ticket[t].state # "CashedOut"
  <2>1. /\ ticket[t].state = "Won" => row.status = "won"
        /\ ticket[t].state = "Lost" => row.status = "lost"
        /\ ticket[t].state = "Refunded" => row.status = "refunded"
    BY DEF Status
  <2>2. row.shortfall = None /\ row.amount = Due(t) /\ row.amount \in Nat
    BY <1>1, <1>2, <1>3, <2>1 DEF RowIsSound, Due
  <2> QED BY <1>2, <2>2
<1>4. CASE ticket[t].state = "CashedOut"
  <2>1. row.status = "cashedOut"
    BY <1>4 DEF Status
  <2>2. row.amount = receipt[t].paid_amount
    BY <1>1, <2>1 DEF RowIsSound
  <2>3. PICK owed \in Nat : owed = receipt[t].shortfall_owed
    BY <1>2
  <2>4. PICK price \in Nat : price = receipt[t].paid_amount
    BY <1>2
  <2>5. /\ receipt[t].made_whole => paid[t] = price + owed
        /\ ~receipt[t].made_whole => paid[t] = price
    BY <1>2, <1>4, <2>3, <2>4 DEF Due
  <2>6. \/ shown = price
        \/ shown = price + owed /\ receipt[t].made_whole
    <3>1. CASE row.shortfall # None /\ row.shortfall.repaid
      BY <1>1, <2>2, <2>3, <2>4, <3>1 DEF RowIsSound
    <3>2. CASE ~(row.shortfall # None /\ row.shortfall.repaid)
      BY <2>2, <2>4, <3>2
    <3> QED BY <3>1, <3>2
  <2> QED BY <2>3, <2>4, <2>5, <2>6
<1> QED BY <1>3, <1>4

-----------------------------------------------------------------------------
(* The pages.                                                              *)

\* Each page keeps the invariant of its own.
PageInv == (page = "slip" => SlipInv) /\ (page # "slip" => TicketsInv)

LEMMA PageInvariant == PagesSpec => []PageInv
<1>1. PagesInit => PageInv
  BY SlipInvInit, TicketsInvInit, Zenon DEF PagesInit, PageInv, BookOf
<1>2. PageInv /\ [PagesNext]_<<slipVars, ticketVars, page>> => PageInv'
  <2> SUFFICES ASSUME PageInv, [PagesNext]_<<slipVars, ticketVars, page>>
               PROVE  PageInv'
    OBVIOUS
  <2>1. page' = page
    BY DEF PagesNext
  <2>2. CASE page = "slip"
    <3>1. [SlipNext]_slipVars
      BY <2>2 DEF PagesNext
    <3> QED BY <2>1, <2>2, <3>1, SlipInvNext DEF PageInv
  <2>3. CASE page # "slip"
    <3>1. [TicketsNext]_ticketsVars
      BY <2>3 DEF PagesNext, slipVars, ticketVars, ticketsVars, listVars
    <3> QED BY <2>1, <2>3, <3>1, TicketsInvNext DEF PageInv
  <2> QED BY <2>2, <2>3
<1> QED BY <1>1, <1>2, PTL DEF PagesSpec

\* Whatever a page does and whoever acts meanwhile, what happens to the book is
\* done by instructions of the program.
LEMMA SlipActs ==
    ASSUME SlipInv, [SlipNext]_slipVars
    PROVE  [Instruction]_vars
<1>1. CASE \/ PollMatch \/ handleRefreshQuote \/ onClose \/ UNCHANGED slipVars
           \/ \E side \in Picks : handleSelectOutcome(side)
           \/ \E stake \in Stakes : handlePlaceBet(stake)
  BY <1>1 DEF PollMatch, handleRefreshQuote, onClose, handleSelectOutcome, handlePlaceBet,
              slipVars
<1>2. CASE \E i \in Attempts : WalletStep(i) /\ UNCHANGED matchVars
  BY <1>2, WalletStepIsSound DEF SlipInv
<1>3. CASE Land /\ UNCHANGED matchVars
  BY <1>3, LandIsSound DEF SlipInv
<1>4. CASE KeeperActs
  BY <1>4, KeeperSendsInstructions
<1>5. CASE SlipClock
  <2>1. Tick
    BY <1>5 DEF SlipClock, WalletClock, ClockTicks
  <2> QED BY <2>1 DEF Instruction
<1> QED BY <1>1, <1>2, <1>3, <1>4, <1>5 DEF SlipNext

LEMMA TicketsAct ==
    ASSUME TicketsInv, [TicketsNext]_ticketsVars
    PROVE  [Instruction]_vars
<1>1. CASE \/ PollTickets \/ handleCashOut \/ closeSheet \/ UNCHANGED ticketsVars
           \/ \E t \in TicketIds :
                openSheet(t) \/ handleAudit(t) \/ handleRefund(t) \/ handleToggle(t)
           \/ \E i \in Attempts : ReadVerdict(i)
  BY <1>1 DEF PollTickets, handleCashOut, closeSheet, openSheet, handleAudit, handleRefund,
              handleToggle, ReadVerdict, ticketsVars
<1>2. CASE \E i \in Attempts : WalletStep(i) /\ UNCHANGED listVars
  BY <1>2, WalletStepIsSound DEF TicketsInv
<1>3. CASE Land /\ UNCHANGED listVars
  BY <1>3, LandIsSound DEF TicketsInv
<1>4. CASE OthersAct
  BY <1>4, OthersSendInstructions
<1>5. CASE SheetClock
  <2>1. Tick
    BY <1>5 DEF SheetClock, WalletClock, ClockTicks
  <2> QED BY <2>1 DEF Instruction
<1> QED BY <1>1, <1>2, <1>3, <1>4, <1>5 DEF TicketsNext

\* The book is sound under the pages, whatever their users click: what the program
\* keeps and promises (TrueBookProofs), it keeps and promises here.
THEOREM PagesRunTheProgram ==
    PagesSpec =>
        /\ []BookIsSound
        /\ VerdictsAreFinal /\ OutcomesAreFinal /\ [][Claims!ClaimNext]_(Claims!claimVars)
<1>1. PagesInit => ProgramInv
  <2>1. SlipInit => ProgramInv
    BY SlipAtFirst
  <2>2. TicketsInit => ProgramInv
    <3> SUFFICES ASSUME TicketsInit
                 PROVE  ProgramInv
      OBVIOUS
    <3>1. PICK book \in BooksAtFirst : BookWith(book.markets, book.tickets, Liquidity)
      BY DEF TicketsInit
    <3> QED BY <3>1, BooksAssumption, ProgramAtFirst
  <2> QED BY <2>1, <2>2, Zenon DEF PagesInit, BookOf
<1>2. PageInv /\ [PagesNext]_<<slipVars, ticketVars, page>> => [Instruction]_vars
  <2> SUFFICES ASSUME PageInv, [PagesNext]_<<slipVars, ticketVars, page>>
               PROVE  [Instruction]_vars
    OBVIOUS
  <2>1. CASE page = "slip"
    <3>1. [SlipNext]_slipVars
      BY <2>1 DEF PagesNext
    <3> QED BY <2>1, <3>1, SlipActs DEF PageInv
  <2>2. CASE page # "slip"
    <3>1. [TicketsNext]_ticketsVars
      BY <2>2 DEF PagesNext, slipVars, ticketVars, ticketsVars, listVars
    <3> QED BY <2>2, <3>1, TicketsAct DEF PageInv
  <2> QED BY <2>1, <2>2
<1>3. ProgramInv /\ [Instruction]_vars =>
        /\ ProgramInv'
        /\ [KeepsVerdicts]_vars /\ [KeepsOutcomes]_vars
        /\ [Claims!ClaimNext]_(Claims!claimVars)
  BY ClientNext
<1>4. ProgramInv => BookIsSound
  BY ProgramIsSound
<1> QED
  BY <1>1, <1>2, <1>3, <1>4, PageInvariant, PTL
     DEF PagesSpec, VerdictsAreFinal, OutcomesAreFinal

\* What an attempt reports of its transaction is so, on either page and whatever
\* timed out: confirmed, it bought the ticket that was clicked (placeBet.ts);
\* refused, it has not been executed and never will be.
THEOREM ReportsAreAlwaysTrue == PagesSpec => []ReportsAreTrue
<1>1. PageInv => ReportsAreTrue
  BY SlipReports, TicketsReports DEF PageInv, ReportsAreTrue, TicketsInv
<1> QED BY <1>1, PageInvariant, PTL

\* A slip never buys a second ticket by being retried, unless a retry came after
\* an attempt whose fate was unknown (BetSlip.tsx).
THEOREM SlipsBuyOneTicket == PagesSpec => []SlipBuysOneTicket
<1>1. PageInv => SlipBuysOneTicket
  BY SlipBuysOnce DEF PageInv, SlipBuysOneTicket
<1> QED BY <1>1, PageInvariant, PTL

\* The countdown of a slip is that of its quote, and a first bet that it lets
\* through is on a quote valid for the safety buffer yet (BetSlip.tsx).
THEOREM SlipsLeaveTime == PagesSpec => []SlipLeavesTime
<1>1. PageInv => SlipLeavesTime
  BY SlipIsTimed DEF PageInv, SlipLeavesTime
<1> QED BY <1>1, PageInvariant, PTL

\* The verdicts that audits return, and the repairs that are shown with them, are
\* those of the chain (audit.ts).
THEOREM AuditsAlwaysShowTheChain == PagesSpec => []AuditsShowTheChain
<1>1. PageInv => AuditsShowTheChain
  BY AuditsReport DEF PageInv, AuditsShowTheChain
<1> QED BY <1>1, PageInvariant, PTL

\* The rows and the cash-out sheet show what is paid (tickets.ts, CashOutSheet.tsx).
THEOREM PaidIsAlwaysAsShown == PagesSpec => []PaidAsShown
<1>1. PageInv => PaidAsShown
  BY SheetReports, RowsReport DEF PageInv, PaidAsShown
<1> QED BY <1>1, PageInvariant, PTL

\* The same of the two pages by themselves, without the bounds of the instances:
\* the match page,
THEOREM SlipIsSafe ==
    SlipSpec =>
        [](RefusedIsFinal /\ ConfirmedIsSold /\ OneTicketPerSlip
             /\ CountdownIsExact /\ FirstBetLeavesTime)
<1>1. SlipInv => /\ RefusedIsFinal /\ ConfirmedIsSold /\ OneTicketPerSlip
                 /\ CountdownIsExact /\ FirstBetLeavesTime
  BY SlipReports, SlipBuysOnce, SlipIsTimed
<1> QED BY <1>1, SlipInvariant, PTL

\* and the tickets page.
THEOREM TicketsPageIsSafe ==
    TicketsSpec =>
        [](RefusedIsFinal /\ VerdictsShownAreTrue /\ RepairShownIsPaid
             /\ SheetPaysWhileQuoted /\ AmountsShownArePaid)
<1>1. TicketsInv => /\ RefusedIsFinal /\ VerdictsShownAreTrue /\ RepairShownIsPaid
                    /\ SheetPaysWhileQuoted /\ AmountsShownArePaid
  BY TicketsReports, AuditsReport, SheetReports, RowsReport DEF TicketsInv
<1> QED BY <1>1, TicketsInvariant, PTL

=============================================================================
