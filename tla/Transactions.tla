---------------------------- MODULE Transactions ----------------------------
(***************************************************************************)
(* How the keeper and the app reach the program: a transaction is built    *)
(* from what was read earlier, and sent.  It is executed, or refused by    *)
(* the program, or the sender learns nothing: then it may still be         *)
(* executed until the blockhash it was built on expires.                   *)
(***************************************************************************)
EXTENDS TrueBook, FiniteSets

CONSTANTS
    TxLifetime,  \* how long an unanswered transaction can still be executed
    MaxFaults    \* bound: failures of the network, the feed or a process

ASSUME TransactionsAssumption == TxLifetime \in Nat /\ MaxFaults \in Nat

VARIABLES
    inflight,  \* transactions whose sender gave up on them
    faults     \* failures so far

txVars == <<inflight, faults>>

TxInit == inflight = {} /\ faults = 0

\* The program once `setup` and `fund` have run, some markets exist, and some
\* tickets have been sold.
BookWith(markets, tickets, liquidity) ==
    LET stakes == Total(NumTickets, [t \in TicketIds |-> tickets[t].stake])
    IN  /\ now = Start
        /\ house \in {[NoHouse EXCEPT !.initialized = TRUE, !.margin_bps = h.margin_bps,
                         !.max_exposure_per_market = h.max_exposure_per_market,
                         !.max_payout_per_ticket = h.max_payout_per_ticket,
                         !.open_exposure = Total(NumTickets, [t \in TicketIds |-> tickets[t].potential_payout]),
                         !.total_volume = stakes,
                         !.market_count = Cardinality({m \in MarketIds : markets[m] # NoMarket})] :
                       h \in {params \in HouseParams :
                                params.margin_bps > 0 /\ params.margin_bps < BPS_DENOMINATOR}}
        /\ vault = liquidity + stakes
        /\ market = markets
        /\ outcome = [m \in MarketIds |-> "Unverified"]
        /\ ticket = tickets
        /\ receipt = [t \in TicketIds |-> NoReceipt]
        /\ paid = [t \in TicketIds |-> 0]
        /\ bounty = [t \in TicketIds |-> 0]
        /\ unreserved = 0
        /\ TxInit

NoTickets == [t \in TicketIds |-> NoTicket]

\* place_bet counts each sale on its side of its market, within the caps, and
\* sells nothing the vault would not cover.
AddsUp(markets, tickets, liquidity) ==
    /\ \A m \in MarketIds, s \in Sides :
         LET sold(t) == tickets[t].market = m /\ tickets[t].side = s
         IN  /\ markets[m].stake[s] =
                  Total(NumTickets, [t \in TicketIds |-> IF sold(t) THEN tickets[t].stake ELSE 0])
             /\ markets[m].payout[s] =
                  Total(NumTickets,
                        [t \in TicketIds |-> IF sold(t) THEN tickets[t].potential_payout ELSE 0])
             /\ \A h \in HouseParams : markets[m].payout[s] <= h.max_exposure_per_market
    /\ Total(NumTickets, [t \in TicketIds |-> tickets[t].potential_payout])
         <= liquidity + Total(NumTickets, [t \in TicketIds |-> tickets[t].stake])

\* Such a book: the markets were created one after another, quoted above 1.0 if
\* at all, and are not verified; the tickets were sold on them one after another,
\* and are neither audited nor over.
IsBook(markets, tickets, liquidity) ==
    /\ markets \in [MarketIds -> Market]
    /\ tickets \in [TicketIds -> Ticket]
    /\ \E n \in 0..NumMarkets : \A m \in MarketIds :
         IF m >= n THEN markets[m] = NoMarket
         ELSE /\ markets[m].state \in {"Open", "Locked", "Voided"}
              /\ markets[m].quote_posted_ts # 0 =>
                   markets[m].quote_posted_ts <= Start /\ \A s \in Sides : IsOdds(markets[m].odds[s])
    /\ \E n \in 0..NumTickets : \A t \in TicketIds :
         IF t > n THEN tickets[t] = NoTicket
         ELSE /\ tickets[t].state = "Live" /\ tickets[t].audit_status = "Unaudited"
              /\ tickets[t].market \in MarketIds /\ markets[tickets[t].market] # NoMarket
              /\ tickets[t].stake <= tickets[t].potential_payout
              /\ ~tickets[t].exposure_released
    /\ Total(NumTickets, [t \in TicketIds |-> tickets[t].potential_payout]) \in Amount
    /\ LET stakes == Total(NumTickets, [t \in TicketIds |-> tickets[t].stake])
       IN  stakes \in Amount /\ liquidity \in Nat /\ liquidity + stakes \in Amount
    /\ AddsUp(markets, tickets, liquidity)

\* create_market names the account of the market that follows those its
\* builder knew of (the house's market_count).
IsNextMarket(tx) == house.market_count = tx.id

\* The instruction of a transaction.
Execute(tx) ==
    \/ /\ tx.op = "create"
       /\ IsNextMarket(tx)
       /\ CreateMarket(tx.fixture, tx.params, tx.kickoff)
    \/ tx.op = "quote" /\ PostQuote(tx.m, tx.odds, tx.record)
    \/ tx.op = "lock" /\ LockMarket(tx.m)
    \/ tx.op = "verify" /\ tx.proof \in ScoreProofs /\ VerifyMarket(tx.m, tx.proof)
    \/ tx.op = "settle" /\ SettleTicket(tx.t)
    \/ tx.op = "bet" /\ \E t \in TicketIds : PlaceBet(t, tx.m, tx.side, tx.stake)
    \/ tx.op = "cashout" /\ CashOutTicket(tx.t)
    \/ tx.op = "audit" /\ AuditTicket(tx.t)
    \/ tx.op = "auditCashOut" /\ \E a \in Auditors : tx.auditor = a /\ AuditCashOut(tx.t, a)
    \/ tx.op = "claim" /\ ClaimCashOutRepair(tx.t)
    \/ tx.op = "refund" /\ RefundTicket(tx.t)

\* One more thing goes wrong.
Fault == faults < MaxFaults /\ faults' = faults + 1

\* A read of the chain, or a call of the feed, is answered or it fails.
Answered == UNCHANGED txVars
Unanswered == Fault /\ UNCHANGED <<vars, inflight>>

\* The program refuses it: a require!, a checked operation or a transfer fails.
Refused(tx) == ~ENABLED Execute(tx)

\* The sender goes on in one way if its transaction was executed, in another
\* if it was refused or no answer came.
Send(tx, done, failed) ==
    \/ Execute(tx) /\ done /\ UNCHANGED txVars
    \/ Refused(tx) /\ failed /\ UNCHANGED <<vars, txVars>>
    \/ /\ Fault
       /\ inflight' = inflight \cup (IF TxLifetime = 0 THEN {} ELSE {[tx |-> tx, expires |-> now + TxLifetime]})
       /\ failed
       /\ UNCHANGED vars

\* A transaction its sender gave up on is executed after all.
LandLate ==
    \E late \in inflight :
        /\ now < late.expires
        /\ Execute(late.tx)
        /\ inflight' = inflight \ {late}
        /\ UNCHANGED faults

\* The clock moves, and forgets transactions past their blockhash.
ClockTicks ==
    /\ Tick
    /\ inflight' = {late \in inflight : late.expires > now + 1}
    /\ UNCHANGED faults

=============================================================================
