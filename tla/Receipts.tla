------------------------------ MODULE Receipts ------------------------------
(***************************************************************************)
(* The proof receipt of a ticket (shared/receipt.ts): a document assembled *)
(* by many reads of a chain that moves meanwhile, by the keeper's          *)
(* export-receipt or by the app's /api/receipt behind a button of the      *)
(* tickets page, and checked again by verify-receipt (verifyReceipt.ts).   *)
(*                                                                         *)
(* A transaction is abstracted to its instruction, the accounts it touched *)
(* and its slot, which others may share; its signature is its place in the *)
(* log.  The proofs of one record, or of one stat of a score row, are told *)
(* apart by nothing but whether the service served them whole.             *)
(***************************************************************************)
EXTENDS Transactions, Catalog, Functions

CONSTANTS
    ScoreRows,     \* the seqs of the fixture's score rows
    ScoreStats,    \* the goals the service proves of a row, by the period asked for
    SlotsPerTick,  \* slots with one clock reading
    ClaimsAnyRow,  \* whether a crank may claim another row than its proof's
    MarketsAtFirst, SoldTickets, Liquidity, \* the book at first
    MaxLog         \* bound: transactions of the log

\* A proof as the service serves it, possibly with parts missing.
OddsProof(record, whole) == [record |-> record, whole |-> whole]
StatProof(stat, whole) == [stat |-> stat, whole |-> whole]

\* Whether the app has a question for the market's predicate.
IsMapped(params) == describeMarketParams(params) # {}

Questions == {MarketsAtFirst[m].params : m \in {n \in MarketIds : MarketsAtFirst[n] # NoMarket}}

\* The goals served for a row may be those of another period than the one whose
\* stats were asked for; only those of its own period prove a question.
IsOfPeriod(stat, params) == stat.period = params.stat_a_period
Evaluates(stat, params) == PredicateHolds(params, stat.home, stat.away)
Proves(stat, params) ==
    [fixture_id |-> stat.fixture_id, params |-> params, row |-> stat.row,
     holds |-> Evaluates(stat, params)]

ASSUME ReceiptsAssumption ==
    /\ ClaimsAnyRow \in BOOLEAN /\ MaxLog \in Nat /\ SlotsPerTick \in Nat \ {0}
    /\ \A whole \in BOOLEAN :
         /\ \A r \in RecordIds : OddsProof(r, whole) # None
         /\ \A stat \in ScoreStats : StatProof(stat, whole) # None
\* A row has one score of a period, and the service one answer to a request; what
\* verify_market takes as a proof of a question is such a score, and each is one.
ASSUME ScoresAssumption ==
    /\ \A stat \in ScoreStats : stat.row \in ScoreRows
    /\ \A s, t \in ScoreStats :
         s.fixture_id = t.fixture_id /\ s.row = t.row =>
             /\ s.period = t.period => s.home = t.home /\ s.away = t.away
             /\ s.asked = t.asked => s.period = t.period
    /\ \A params \in Questions :
         {proof \in ScoreProofs : proof.params = params} =
             {Proves(stat, params) : stat \in {s \in ScoreStats : IsOfPeriod(s, params)}}
\* The book at first is of questions the app has.
ASSUME BookAssumption ==
    /\ IsBook(MarketsAtFirst, SoldTickets, Liquidity)
    /\ \A params \in Questions : IsMapped(params)

VARIABLES
    claimed,   \* the seq of the VerifiedOutcome accounts, by market
    log,       \* the transactions that touched a ticket or an outcome, oldest first
    exporting, \* the receipt being assembled
    button     \* the button of the tickets page

receiptVars == <<vars, txVars, claimed, log, exporting, button>>

Kinds ==
    {"placeBet", "verifyMarket", "settleTicket", "auditTicket", "refundTicket",
     "cashOutTicket", "auditCashOut", "claimCashOutRepair"}

NoExport ==
    [stage |-> "Idle", by |-> "keeper", key |-> 1, unread |-> {}, ticket |-> NoTicket,
     market |-> NoMarket, outcome |-> None, cashOut |-> NoReceipt, odds |-> None,
     stat |-> None, cashOutOdds |-> None, transactions |-> <<>>]

Entry(kind, tickets, ofOutcome, slot) ==
    [kind |-> kind, tickets |-> tickets, ofOutcome |-> ofOutcome, slot |-> slot]

ReceiptsInit ==
    /\ BookWith(MarketsAtFirst, SoldTickets, Liquidity)
    /\ claimed = [m \in MarketIds |-> None]
    /\ log = [t \in {u \in TicketIds : SoldTickets[u].state # "Vacant"} |-> Entry("placeBet", {t}, {}, 0)]
    /\ exporting = NoExport
    /\ button = "idle"

-----------------------------------------------------------------------------
(* The chain, and the history it keeps of each account.                    *)

\* verify_market stores the seq its caller names; the keeper names the proof's.
ClaimableRows(proof) == IF ClaimsAnyRow THEN ScoreRows ELSE {proof.row}

Verifies(m) ==
    \E proof \in ScoreProofs : \E seq \in ClaimableRows(proof) :
        VerifyMarket(m, proof) /\ claimed' = [claimed EXCEPT ![m] = seq]

\* The slot of the next transaction: of this clock reading, and the last one's or later.
NextSlots ==
    {slot \in (now * SlotsPerTick)..((now + 1) * SlotsPerTick - 1) :
        \A i \in DOMAIN log : log[i].slot <= slot}
Logged(kind, tickets, ofOutcome) ==
    \E slot \in NextSlots : log' = Append(log, Entry(kind, tickets, ofOutcome, slot))

\* lock_market and void_market touch neither a ticket nor an outcome.
ChainActs ==
    /\ \/ /\ \E m \in MarketIds :
               \/ LockMarket(m) /\ UNCHANGED <<claimed, log>>
               \/ \E byAuthority \in BOOLEAN : VoidMarket(m, byAuthority) /\ UNCHANGED <<claimed, log>>
               \/ Verifies(m) /\ Logged("verifyMarket", {}, {m})
       \/ /\ Len(log) < MaxLog
          /\ UNCHANGED claimed
          /\ \E t \in TicketIds :
               \/ CashOutTicket(t) /\ Logged("cashOutTicket", {t}, {})
               \/ SettleTicket(t) /\ Logged("settleTicket", {t}, {ticket[t].market})
               \/ RefundTicket(t) /\ Logged("refundTicket", {t}, {})
               \/ AuditTicket(t) /\ Logged("auditTicket", {t}, {})
               \/ ClaimCashOutRepair(t) /\ Logged("claimCashOutRepair", {t}, {})
               \/ \E a \in Auditors : AuditCashOut(t, a) /\ Logged("auditCashOut", {t}, {})
       \/ Tick /\ UNCHANGED <<claimed, log>>
    /\ UNCHANGED <<txVars, exporting, button>>

-----------------------------------------------------------------------------
(* Collecting an account's transactions.                                   *)

OfTicket(t) == {i \in DOMAIN log : t \in log[i].tickets}
OfOutcome(m) == {i \in DOMAIN log : m \in log[i].ofOutcome}

\* The instructions a receipt names; any other reads as unknown.
KindsButRefund == Kinds \ {"refundTicket"}
RECEIPT_TRANSACTION_KINDS == Kinds

\* A transaction the RPC no longer serves is listed with its kind unknown.
classify(i, unserved) ==
    IF i \in unserved \/ log[i].kind \notin RECEIPT_TRANSACTION_KINDS THEN "unknown"
    ELSE log[i].kind

\* The members of a finite set in an order, given which are ahead of each.
InOrder(ahead) ==
    [i \in 1..Cardinality(DOMAIN ahead) |->
        CHOOSE a \in DOMAIN ahead : Cardinality(ahead[a]) = i - 1]

\* getSignaturesForAddress lists the newest first.
NewestFirst(signatures) == InOrder([i \in signatures |-> {j \in signatures : i < j}])

\* The sort compares slots only, and is stable.
GoesAhead(txs, p, q) == txs[p].slot < txs[q].slot \/ (txs[p].slot = txs[q].slot /\ p < q)
BySlot(txs) ==
    LET order == InOrder([q \in DOMAIN txs |-> {p \in DOMAIN txs : GoesAhead(txs, p, q)}])
    IN  [i \in DOMAIN order |-> txs[order[i]]]

collectTruebookTransactions(signatures, unserved) ==
    LET newest == NewestFirst(signatures)
    IN  BySlot([i \in DOMAIN newest |->
                   [signature |-> newest[i], kind |-> classify(newest[i], unserved),
                    slot |-> log[newest[i]].slot]])

\* Of the outcome's transactions the receipt takes what anchored it, after its own:
\* the others settle sibling tickets.
IsNews(tx, known) == \A i \in DOMAIN known : known[i].signature # tx.signature
Verifications(known, ofOutcome) ==
    LET chosen == {i \in DOMAIN ofOutcome :
                      ofOutcome[i].kind = "verifyMarket" /\ IsNews(ofOutcome[i], known)}
        order == InOrder([i \in chosen |-> {j \in chosen : j < i}])
    IN  [i \in DOMAIN order |-> ofOutcome[order[i]]]

Merged(known, ofOutcome) == BySlot(known \o Verifications(known, ofOutcome))

-----------------------------------------------------------------------------
(* Assembling a receipt: buildTicketReceipt, and the route's GET.          *)

AfterTransactions(e) == IF e.outcome = None THEN "Exported" ELSE "OutcomeTransactions"
AfterStat(e) == IF e.cashOut.exists THEN "CashOutOdds" ELSE "TicketTransactions"
AfterOdds(e) == IF e.outcome # None /\ IsMapped(e.market.params) THEN "Stat" ELSE AfterStat(e)

At(stage) == exporting.stage = stage
Becomes(e) ==
    /\ exporting' = e
    /\ button' = IF exporting.by = "keeper" \/ e.stage \notin {"Exported", "Failed"} THEN button
                 ELSE IF e.stage = "Exported" THEN "idle" ELSE "error"
Goes(stage, e) == Becomes([e EXCEPT !.stage = stage])
Fails == Goes("Failed", exporting)

\* Reads of the chain.
ReadTicket(t) ==
    /\ At("Ticket") /\ exporting.key = t
    /\ Answered
    /\ \/ ticket[t].state = "Vacant" /\ Fails
       \/ ticket[t].state # "Vacant" /\ Goes("Market", [exporting EXCEPT !.ticket = ticket[t]])

ReadMarket ==
    /\ At("Market")
    /\ Answered
    /\ Goes("Accounts", [exporting EXCEPT !.market = market[exporting.ticket.market],
                                          !.unread = {"outcome", "cashOut"}])

\* The two are asked for at once, and answered in either order.
ReadAccount(name) ==
    LET m == exporting.ticket.market
        read == [exporting EXCEPT !.unread = @ \ {name}]
        known == IF name = "cashOut" THEN [read EXCEPT !.cashOut = receipt[exporting.key]]
                 ELSE IF outcome[m] = "Unverified" THEN read
                 ELSE [read EXCEPT !.outcome = [holds |-> outcome[m] = "Yes", seq |-> claimed[m]]]
    IN  /\ At("Accounts") /\ name \in exporting.unread
        /\ Answered
        /\ Goes(IF known.unread = {} THEN "Odds" ELSE "Accounts", known)

\* The route looks into what the proof service serves before it goes on.
LooksComplete(whole) == exporting.by = "keeper" \/ whole

\* The service has the proof, served whole or with parts missing, or has not.
Fetch(has, goes(_)) ==
    \/ has /\ Answered /\ goes(TRUE)
    \/ ~has /\ Answered /\ Fails
    \/ has /\ Fault /\ UNCHANGED inflight /\ LooksComplete(FALSE) /\ goes(FALSE)
    \/ has /\ Fault /\ UNCHANGED inflight /\ ~LooksComplete(FALSE) /\ Fails

FetchOdds ==
    LET record == exporting.ticket.odds_record
        goes(whole) ==
            Goes(AfterOdds(exporting), [exporting EXCEPT !.odds = OddsProof(record, whole)])
    IN  At("Odds") /\ Fetch(record \in DOMAIN OddsFeed, goes)

FetchCashOutOdds ==
    LET record == exporting.cashOut.odds_record
        goes(whole) ==
            Goes("TicketTransactions", [exporting EXCEPT !.cashOutOdds = OddsProof(record, whole)])
    IN  At("CashOutOdds") /\ Fetch(record \in DOMAIN OddsFeed, goes)

\* What the service answers for a row, asked for the stats of the market's period.
StatsOf(m, seq) ==
    {stat \in ScoreStats : /\ stat.fixture_id = m.fixture_id
                           /\ stat.asked = m.params.stat_a_period
                           /\ stat.row = seq}

ProvenRow(e) == e.outcome.seq

FetchStat ==
    LET stats == StatsOf(exporting.market, ProvenRow(exporting))
        goes(whole) ==
            \E stat \in stats :
                Goes(AfterStat(exporting), [exporting EXCEPT !.stat = StatProof(stat, whole)])
    IN  At("Stat") /\ Fetch(stats # {}, goes)

\* All the kinds are read, or that of one transaction is not.
Collected(signatures, goes(_)) ==
    \/ Answered /\ goes(collectTruebookTransactions(signatures, {}))
    \/ /\ Fault /\ UNCHANGED inflight
       /\ \E i \in signatures : goes(collectTruebookTransactions(signatures, {i}))

CollectTicket ==
    LET goes(txs) == Goes(AfterTransactions(exporting), [exporting EXCEPT !.transactions = txs])
    IN  At("TicketTransactions") /\ Collected(OfTicket(exporting.key), goes)

CollectOutcome ==
    LET goes(txs) ==
            Goes("Exported", [exporting EXCEPT !.transactions = Merged(exporting.transactions, txs)])
    IN  At("OutcomeTransactions") /\ Collected(OfOutcome(exporting.ticket.market), goes)

\* A read that is not answered ends the export with nothing written.
ReadFails ==
    /\ exporting.stage \notin {"Idle", "Exported", "Failed"}
    /\ Fault /\ UNCHANGED inflight
    /\ Fails

buildTicketReceipt ==
    /\ \/ \E t \in TicketIds : ReadTicket(t)
       \/ ReadMarket
       \/ \E name \in {"outcome", "cashOut"} : ReadAccount(name)
       \/ FetchOdds
       \/ FetchStat
       \/ FetchCashOutOdds
       \/ CollectTicket
       \/ CollectOutcome
       \/ ReadFails
    /\ UNCHANGED <<vars, claimed, log>>

exportTicketReceipt(t) ==
    /\ At("Idle")
    /\ exporting' = [NoExport EXCEPT !.stage = "Ticket", !.key = t]
    /\ UNCHANGED <<vars, txVars, claimed, log, button>>

\* The route assembles the same document by the same reads.
GET(t) == exporting' = [NoExport EXCEPT !.stage = "Ticket", !.by = "route", !.key = t]

\* The button asks the route, unless it already has.
handleDownload(t) ==
    /\ At("Idle") /\ button # "pending"
    /\ GET(t)
    /\ button' = "pending"
    /\ UNCHANGED <<vars, txVars, claimed, log>>

ReceiptsNext ==
    \/ ChainActs
    \/ buildTicketReceipt
    \/ \E t \in TicketIds : exportTicketReceipt(t) \/ handleDownload(t)

ReceiptsSpec == ReceiptsInit /\ [][ReceiptsNext]_receiptVars

-----------------------------------------------------------------------------
(* verifyTicketReceipt, check by check.                                    *)

parseTicketReceipt(doc) ==
    /\ doc.odds.whole
    /\ doc.stat # None => doc.stat.whole
    /\ doc.cashOutOdds # None => doc.cashOutOdds.whole

checkSignaturesExist(doc) ==
    /\ doc.transactions # <<>>
    /\ \A i \in DOMAIN doc.transactions : doc.transactions[i].signature \in DOMAIN log

\* The proof is of the record the account cites, and validates.
checkOdds(proof, record) == proof.record = record /\ record \in DOMAIN OddsFeed

OpeningQuoteHolds(doc) == checkOdds(doc.odds, doc.ticket.odds_record)
CashOutQuoteHolds(doc) ==
    doc.cashOut.exists =>
        doc.cashOutOdds # None /\ checkOdds(doc.cashOutOdds, doc.cashOut.odds_record)

\* The goals proven simulate to what the anchored outcome says, whatever their period.
Validates(verdict, anchored) == TRUE
SimulatesTo(verdict, anchored) == verdict = anchored
OutcomeHolds(doc) ==
    doc.outcome # None =>
        /\ doc.stat # None
        /\ doc.stat.stat.fixture_id = doc.market.fixture_id
        /\ SimulatesTo(Evaluates(doc.stat.stat, doc.market.params), doc.outcome.holds)

verifyTicketReceipt(doc) ==
    /\ parseTicketReceipt(doc)
    /\ checkSignaturesExist(doc)
    /\ OpeningQuoteHolds(doc)
    /\ CashOutQuoteHolds(doc)
    /\ OutcomeHolds(doc)

-----------------------------------------------------------------------------
(* Properties.                                                             *)

IsExported == At("Exported")

\* The score row a receipt names proves the outcome it reports.
RowProves(doc) ==
    \E proof \in ScoreProofs :
        /\ proof.row = doc.outcome.seq
        /\ proof.fixture_id = doc.market.fixture_id
        /\ proof.params = doc.market.params
        /\ proof.holds = doc.outcome.holds

\* The score served for the row it names is of its market's period, or it is of
\* another and evaluates to the outcome all the same.
RowIsOfPeriod(doc) ==
    \E stat \in StatsOf(doc.market, doc.outcome.seq) : IsOfPeriod(stat, doc.market.params)
RowAgrees(doc) ==
    \E stat \in StatsOf(doc.market, doc.outcome.seq) :
        Evaluates(stat, doc.market.params) = doc.outcome.holds

\* A receipt exported while the chain moves verifies if, and only if, the score
\* row it names bears its outcome out: whatever was settled, sold or audited
\* between its reads, its proofs are those of the quotes and the outcome it holds;
\* and it is no mere echo of a chain on which a crank may have claimed another row
\* than its proof was of.  To bear it out is to prove it, where the service answers
\* with the market's own period; of another period's score nothing is asked but
\* that it evaluates alike (verifyReceipt.ts:281-306 compares no period).  The
\* keeper takes a proof as it is served, so its receipts verify only when no part
\* was missing; the route's have them all.
PassesIffBorneOut ==
    IsExported =>
        (verifyTicketReceipt(exporting) <=>
            /\ exporting.by = "route" \/ parseTicketReceipt(exporting)
            /\ exporting.outcome # None =>
                 IF RowIsOfPeriod(exporting) THEN RowProves(exporting) ELSE RowAgrees(exporting))

\* "validate_stat re-proves the outcome" (verifyReceipt.ts:307-309), of every
\* receipt that passes: the row it names proves its outcome, as verify_market
\* would have it.
PassingReceiptsReprove ==
    IsExported /\ verifyTicketReceipt(exporting) /\ exporting.outcome # None =>
        RowProves(exporting)

\* Every end and verdict a receipt reports is backed by a transaction it lists:
\* its accounts are read first and its history last, so that the history is
\* never behind the story, unless the RPC did not serve some transaction.  It
\* lists each once, and none of another ticket, although the outcome account shares
\* the settlements of them all; and none before an older one but of the same slot,
\* although it merges two histories.
Lists(kind) ==
    \E i \in DOMAIN exporting.transactions :
        \/ exporting.transactions[i].kind = kind
        \/ faults > 0 /\ exporting.transactions[i].kind = "unknown"
ComesBefore(first, second) ==
    \/ first.signature < second.signature
    \/ /\ first.signature # second.signature
       /\ log[first.signature].slot = log[second.signature].slot
StoryIsTold ==
    IsExported =>
        /\ Lists("placeBet")
        /\ exporting.ticket.state \in {"Won", "Lost"} => Lists("settleTicket")
        /\ exporting.ticket.state = "Refunded" => Lists("refundTicket")
        /\ exporting.ticket.state = "CashedOut" => exporting.cashOut.exists
        /\ exporting.cashOut.exists => Lists("cashOutTicket")
        /\ exporting.cashOut.audit_status # "Unaudited" => Lists("auditCashOut")
        /\ exporting.cashOut.made_whole => Lists("claimCashOutRepair")
        /\ exporting.ticket.audit_status # "Unaudited" => Lists("auditTicket")
        /\ \A i, j \in DOMAIN exporting.transactions :
             i < j => ComesBefore(exporting.transactions[i], exporting.transactions[j])
        /\ \A i \in DOMAIN exporting.transactions :
             LET tx == log[exporting.transactions[i].signature]
             IN  exporting.key \in tx.tickets \/ tx.kind = "verifyMarket"

\* "Every transaction that touched the given accounts ..., oldest first"
\* (shared/receipt.ts:155-160), also those that share a slot.
OldestFirst ==
    IsExported =>
        \A i, j \in DOMAIN exporting.transactions :
            i < j => exporting.transactions[i].signature < exporting.transactions[j].signature

\* "any settled ticket exports a JSON receipt that `keeper verify-receipt`
\* re-proves" (docs/TECHNICAL_OVERVIEW.md:117-118): unless a read failed, the
\* export of a ticket sold on an anchored record and read as settled ends in a
\* receipt that passes.
SettledTicketsReprove ==
    /\ faults = 0
    /\ exporting.ticket.state \in {"Won", "Lost"} /\ exporting.ticket.odds_record \in DOMAIN OddsFeed
    =>
        /\ ~At("Failed")
        /\ IsExported => verifyTicketReceipt(exporting)

=============================================================================
