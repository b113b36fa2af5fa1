---------------------------- MODULE ReceiptsProofs ----------------------------
(***************************************************************************)
(* Proofs about receipts, for any book, feed and score rows, any number of *)
(* failures, and any order in which the chain moves between the reads.     *)
(***************************************************************************)
EXTENDS Receipts, TrueBookProofs, FiniteSetTheorems

-----------------------------------------------------------------------------
(* The history, and what the accounts say has happened.                    *)

LogEntry == [kind : Kinds, tickets : SUBSET TicketIds, ofOutcome : SUBSET MarketIds, slot : Int]

\* A transaction of this kind touched ticket t.
Happened(kind, t) == \E i \in DOMAIN log : log[i].kind = kind /\ t \in log[i].tickets

\* What account k of a ticket, and account r of its sale, tell has happened to it.
TicketTells(k, kind) ==
    \/ kind = "placeBet"
    \/ kind = "settleTicket" /\ k.state \in {"Won", "Lost"}
    \/ kind = "refundTicket" /\ k.state = "Refunded"
    \/ kind = "auditTicket" /\ k.audit_status # "Unaudited"
SaleTells(r, kind) ==
    \/ kind = "cashOutTicket" /\ r.exists
    \/ kind = "auditCashOut" /\ r.audit_status # "Unaudited"
    \/ kind = "claimCashOutRepair" /\ r.made_whole

TicketIsBacked(k, t) == \A kind \in Kinds : TicketTells(k, kind) => Happened(kind, t)
SaleIsBacked(r, t) == \A kind \in Kinds : SaleTells(r, kind) => Happened(kind, t)

AccountsAreBacked ==
    \A t \in TicketIds :
        /\ ticket[t].state # "Vacant" => TicketIsBacked(ticket[t], t)
        /\ SaleIsBacked(receipt[t], t)
        /\ ticket[t].state = "CashedOut" => receipt[t].exists
QuestionsAreMapped ==
    \A m \in MarketIds : market[m].state # "Vacant" => market[m].params \in Questions

-----------------------------------------------------------------------------
(* The receipt being assembled, stage by stage.                            *)

PastStat == {"CashOutOdds", "TicketTransactions", "OutcomeTransactions", "Exported"}
PastOdds == PastStat \cup {"Stat"}
PastAccounts == PastOdds \cup {"Odds"}
PastMarket == PastAccounts \cup {"Accounts"}
PastTicket == PastMarket \cup {"Market"}
PastSale == PastStat \ {"CashOutOdds"}
PastHistory == {"OutcomeTransactions", "Exported"}
Stages == PastTicket \cup {"Idle", "Ticket", "Failed"}

IsExport(e) ==
    /\ e = [stage |-> e.stage, by |-> e.by, key |-> e.key, unread |-> e.unread,
            ticket |-> e.ticket, market |-> e.market, outcome |-> e.outcome,
            cashOut |-> e.cashOut, odds |-> e.odds, stat |-> e.stat,
            cashOutOdds |-> e.cashOutOdds, transactions |-> e.transactions]
    /\ e.stage \in Stages
    /\ e.key \in TicketIds \/ e.stage = "Idle"
    /\ e.unread \subseteq {"outcome", "cashOut"}
    /\ e.stage \in PastAccounts => e.unread = {}

\* The ticket and its sale, as they were when they were read.
TicketIsRead(e) ==
    e.stage \in PastTicket =>
        /\ ticket[e.key].state # "Vacant"
        /\ e.ticket.market = ticket[e.key].market
        /\ e.ticket.odds_record = ticket[e.key].odds_record
        /\ TicketIsBacked(e.ticket, e.key)
        /\ e.ticket.state = "CashedOut" => receipt[e.key].exists
SaleIsRead(e) ==
    /\ SaleIsBacked(e.cashOut, e.key)
    /\ e.stage \in PastMarket /\ "cashOut" \notin e.unread =>
         (e.ticket.state = "CashedOut" => e.cashOut.exists)
MarketIsRead(e) == e.stage \in PastMarket => e.market.params \in Questions

\* The proofs are of what was read, and whole if the route fetched them.
IsOddsProof(e, proof, record) ==
    /\ record \in DOMAIN OddsFeed
    /\ \E whole \in BOOLEAN : proof = OddsProof(record, whole) /\ (e.by = "route" => whole)
IsStatProof(e, stat) ==
    \E served \in StatsOf(e.market, e.outcome.seq), whole \in BOOLEAN :
        stat = StatProof(served, whole) /\ (e.by = "route" => whole)
OddsAreFetched(e) == e.stage \in PastOdds => IsOddsProof(e, e.odds, e.ticket.odds_record)
StatIsFetched(e) ==
    /\ e.stage \notin PastStat => e.stat = None \/ e.stage = "Failed"
    /\ e.stage = "Stat" => e.outcome # None
    /\ e.stage \in PastStat => IF e.outcome = None THEN e.stat = None ELSE IsStatProof(e, e.stat)
SaleOddsAreFetched(e) ==
    /\ e.stage \notin PastSale => e.cashOutOdds = None \/ e.stage = "Failed"
    /\ e.stage = "CashOutOdds" => e.cashOut.exists
    /\ e.stage \in PastSale =>
         IF e.cashOut.exists THEN IsOddsProof(e, e.cashOutOdds, e.cashOut.odds_record)
         ELSE e.cashOutOdds = None

\* A list of transactions of the log, each once; and one in the order of slots.
Listed == [signature : Nat, kind : Kinds \cup {"unknown"}, slot : Int]
IsListing(txs) ==
    /\ txs \in Seq(Listed)
    /\ \A i \in DOMAIN txs : /\ txs[i].signature \in DOMAIN log
                            /\ txs[i].slot = log[txs[i].signature].slot
    /\ \A i, j \in DOMAIN txs : i # j => txs[i].signature # txs[j].signature
IsHistory(txs) ==
    /\ IsListing(txs)
    /\ \A i, j \in DOMAIN txs : i < j => txs[i].slot <= txs[j].slot
Names(txs, kind) ==
    \E i \in DOMAIN txs : txs[i].kind = kind \/ (faults > 0 /\ txs[i].kind = "unknown")

\* It names all that the accounts that were read tell, and nothing foreign.
HistoryTells(e, txs) ==
    /\ \A kind \in Kinds :
         TicketTells(e.ticket, kind) \/ SaleTells(e.cashOut, kind) => Names(txs, kind)
    /\ \A i \in DOMAIN txs :
         e.key \in log[txs[i].signature].tickets \/ log[txs[i].signature].kind = "verifyMarket"
HistoryIsRead(e) ==
    e.stage \in PastHistory => IsHistory(e.transactions) /\ HistoryTells(e, e.transactions)

Sound(e) ==
    /\ IsExport(e)
    /\ TicketIsRead(e) /\ MarketIsRead(e) /\ SaleIsRead(e)
    /\ OddsAreFetched(e) /\ StatIsFetched(e) /\ SaleOddsAreFetched(e)
ExportInv == Sound(exporting) /\ HistoryIsRead(exporting)

ReceiptsInv ==
    /\ NumberingInv
    /\ log \in Seq(LogEntry) /\ AccountsAreBacked /\ QuestionsAreMapped
    /\ faults \in Nat
    /\ ExportInv

-----------------------------------------------------------------------------
(* Lists in an order.                                                      *)

\* What is ahead of each of finitely many members is a strict total order.
IsStrictOrder(ahead) ==
    LET members == DOMAIN ahead
    IN  /\ IsFiniteSet(members)
        /\ \A a \in members : ahead[a] \in SUBSET members /\ a \notin ahead[a]
        /\ \A a, b \in members : a \in ahead[b] => ahead[a] \subseteq ahead[b]
        /\ \A a, b \in members : a = b \/ a \in ahead[b] \/ b \in ahead[a]

\* Every member has one place, after all that are ahead of it.
IsOrdered(order, n, ahead) ==
    /\ order \in [1..n -> DOMAIN ahead]
    /\ \A a \in DOMAIN ahead : \E i \in 1..n : order[i] = a
    /\ \A i, j \in 1..n : i < j => order[i] \in ahead[order[j]]
    /\ \A i, j \in 1..n : i # j => order[i] # order[j]

LEMMA Ordering ==
    ASSUME NEW ahead, IsStrictOrder(ahead)
    PROVE  \E n \in Nat : IsOrdered(InOrder(ahead), n, ahead)
<1> DEFINE members == DOMAIN ahead
           rank(a) == Cardinality(ahead[a])
<1>0. /\ IsFiniteSet(members)
      /\ \A a \in members : ahead[a] \in SUBSET members /\ a \notin ahead[a]
      /\ \A a, b \in members : a \in ahead[b] => ahead[a] \subseteq ahead[b]
      /\ \A a, b \in members : a = b \/ a \in ahead[b] \/ b \in ahead[a]
  BY DEF IsStrictOrder
<1> HIDE DEF members
<1>1. PICK n \in Nat : n = Cardinality(members)
  BY <1>0, FS_CardinalityType
<1>2. ASSUME NEW a \in members
      PROVE  rank(a) \in 0..(n - 1) /\ IsFiniteSet(ahead[a])
  <2>1. ahead[a] \in SUBSET members /\ a \notin ahead[a]
    BY <1>0
  <2>2. /\ IsFiniteSet(ahead[a]) /\ rank(a) <= n
        /\ n = rank(a) => members = ahead[a]
    BY <1>0, <1>1, <2>1, FS_Subset
  <2>3. rank(a) \in Nat
    BY <2>2, FS_CardinalityType
  <2>4. rank(a) # n
    BY <2>1, <2>2
  <2> QED BY <2>2, <2>3, <2>4
<1>3. ASSUME NEW a \in members, NEW b \in members, a \in ahead[b]
      PROVE  rank(a) < rank(b)
  <2>1. ahead[a] \in SUBSET ahead[b] /\ a \notin ahead[a]
    BY <1>0, <1>3
  <2>2. /\ rank(a) <= rank(b)
        /\ rank(b) = rank(a) => ahead[b] = ahead[a]
    BY <1>2, <2>1, FS_Subset
  <2>3. rank(a) # rank(b)
    BY <1>3, <2>1, <2>2
  <2>4. rank(a) \in Int /\ rank(b) \in Int
    BY <1>2
  <2> HIDE DEF rank
  <2> QED BY <2>2, <2>3, <2>4
<1>4. ASSUME NEW a \in members, NEW b \in members, rank(a) = rank(b)
      PROVE  a = b
  <2>1. rank(a) \in Int
    BY <1>2
  <2>2. a \notin ahead[b] /\ b \notin ahead[a]
    <3> HIDE DEF rank
    <3> QED BY <1>3, <1>4, <2>1
  <2> QED BY <1>0, <2>2
<1> HIDE DEF rank
<1>5. \A i \in 1..n : \E a \in members : rank(a) = i - 1
  <2> DEFINE place == [a \in members |-> rank(a) + 1]
  <2>1. place \in [members -> 1..n]
    BY <1>2
  <2>2. place \in Injection(members, 1..n)
    <3>1. \A a, b \in members : place[a] = place[b] => a = b
      BY <1>2, <1>4
    <3> HIDE DEF place
    <3> QED BY <2>1, <3>1 DEF Injection, IsInjective
  <2>3. IsFiniteSet(1..n) /\ Cardinality(1..n) = n
    BY FS_Interval
  <2>4. place \in Surjection(members, 1..n)
    <3> HIDE DEF place
    <3> QED BY <1>0, <1>1, <2>2, <2>3, FS_Injection
  <2>5. \A i \in 1..n : \E a \in members : place[a] = i
    <3> HIDE DEF place
    <3> QED BY <2>4 DEF Surjection
  <2>6. ASSUME NEW i \in 1..n PROVE \E a \in members : rank(a) = i - 1
    <3>1. PICK a \in members : rank(a) + 1 = i
      BY <2>5
    <3>2. rank(a) \in Int
      BY <1>2
    <3> QED BY <3>1, <3>2
  <2> QED BY <2>6
<1>6. PICK order : /\ order = InOrder(ahead) /\ order \in [1..n -> members]
                   /\ \A i \in 1..n : rank(order[i]) = i - 1
  <2>1. InOrder(ahead) = [i \in 1..n |-> CHOOSE a \in members : rank(a) = i - 1]
    BY <1>1 DEF InOrder, rank, members
  <2> QED BY <1>5, <2>1
<1>7. ASSUME NEW a \in members
      PROVE  \E i \in 1..n : order[i] = a
  <2>1. PICK i \in 1..n : i = rank(a) + 1
    BY <1>2
  <2>2. rank(order[i]) = rank(a) /\ order[i] \in members
    BY <1>2, <1>6, <2>1
  <2> QED BY <1>4, <2>2
<1>8. ASSUME NEW i \in 1..n, NEW j \in 1..n, i < j
      PROVE  order[i] \in ahead[order[j]]
  <2>1. PICK a \in members, b \in members : a = order[i] /\ b = order[j]
    BY <1>6
  <2>2. rank(a) = i - 1 /\ rank(b) = j - 1
    BY <1>6, <2>1
  <2>3. a # b /\ b \notin ahead[a]
    BY <1>3, <1>8, <2>2
  <2> QED BY <1>0, <2>1, <2>3
<1>9. \A i, j \in 1..n : i # j => order[i] # order[j]
  <2>1. \A i \in 1..n : rank(order[i]) = i - 1
    BY <1>6
  <2> QED BY <2>1
<1> QED BY <1>1, <1>6, <1>7, <1>8, <1>9 DEF IsOrdered, members

\* The history of an account, as the RPC lists it, has each transaction once.
ListsOnce(newest, n, signatures) ==
    /\ newest \in [1..n -> signatures]
    /\ \A s \in signatures : \E i \in 1..n : newest[i] = s
    /\ \A i, j \in 1..n : i # j => newest[i] # newest[j]

LEMMA NewestFirstLists ==
    ASSUME NEW signatures \in SUBSET Nat, IsFiniteSet(signatures)
    PROVE  \E n \in Nat : ListsOnce(NewestFirst(signatures), n, signatures)
<1>1. PICK ahead : ahead = [i \in signatures |-> {j \in signatures : i < j}]
  OBVIOUS
<1>2. /\ signatures = DOMAIN ahead
      /\ \A a, b \in signatures : b \in ahead[a] <=> a < b
      /\ \A a \in signatures : ahead[a] \in SUBSET signatures
  BY <1>1
<1>3. IsStrictOrder(ahead)
  BY <1>2 DEF IsStrictOrder
<1>4. PICK n \in Nat : IsOrdered(InOrder(ahead), n, ahead)
  BY <1>3, Ordering
<1>5. PICK order : order = InOrder(ahead) /\ order = NewestFirst(signatures)
  BY <1>1 DEF NewestFirst
<1>6. IsOrdered(order, n, ahead)
  BY <1>4, <1>5
<1> QED BY <1>2, <1>5, <1>6 DEF IsOrdered, ListsOnce

\* The sort moves the members of a list, and leaves them in the order of slots.
IsSorting(order, n, txs) ==
    /\ order \in [1..n -> DOMAIN txs]
    /\ \A p \in DOMAIN txs : \E i \in 1..n : order[i] = p
    /\ \A i, j \in 1..n : i < j => order[i] # order[j] /\ txs[order[i]].slot <= txs[order[j]].slot
    /\ BySlot(txs) = [i \in 1..n |-> txs[order[i]]]

LEMMA SortMoves ==
    ASSUME NEW txs \in Seq(Listed)
    PROVE  \E n \in Nat : \E order : IsSorting(order, n, txs)
<1> DEFINE places == DOMAIN txs
<1>1. PICK l \in Nat : places = 1..l
  OBVIOUS
<1>2. \A p \in places : txs[p].slot \in Int
  <2>1. \A p \in places : txs[p] \in Listed
    OBVIOUS
  <2> QED BY <2>1 DEF Listed
<1>3. PICK ahead : ahead = [q \in places |-> {p \in places : GoesAhead(txs, p, q)}]
  OBVIOUS
<1>4. /\ places = DOMAIN ahead
      /\ \A p, q \in places : p \in ahead[q] <=> GoesAhead(txs, p, q)
      /\ \A q \in places : ahead[q] \in SUBSET places
  BY <1>3
<1>5. IsFiniteSet(places)
  BY <1>1, FS_Interval
<1>6. /\ \A p, q, r \in places : GoesAhead(txs, p, q) /\ GoesAhead(txs, q, r) => GoesAhead(txs, p, r)
      /\ \A p \in places : ~GoesAhead(txs, p, p)
      /\ \A p, q \in places : p = q \/ GoesAhead(txs, p, q) \/ GoesAhead(txs, q, p)
  BY <1>1, <1>2 DEF GoesAhead
<1> HIDE DEF places
<1>7. IsStrictOrder(ahead)
  BY <1>4, <1>5, <1>6 DEF IsStrictOrder
<1>8. PICK n, order : n \in Nat /\ order = InOrder(ahead) /\ IsOrdered(order, n, ahead)
  BY <1>7, Ordering
<1>9. /\ order \in [1..n -> places]
      /\ \A p \in places : \E i \in 1..n : order[i] = p
      /\ \A i, j \in 1..n : i < j => GoesAhead(txs, order[i], order[j]) /\ order[i] # order[j]
  BY <1>4, <1>8 DEF IsOrdered
<1>10. \A i, j \in 1..n : i < j =>
         order[i] # order[j] /\ txs[order[i]].slot <= txs[order[j]].slot
  <2> SUFFICES ASSUME NEW i \in 1..n, NEW j \in 1..n, i < j
               PROVE  order[i] # order[j] /\ txs[order[i]].slot <= txs[order[j]].slot
    OBVIOUS
  <2>1. PICK p \in places, q \in places : p = order[i] /\ q = order[j]
    BY <1>9
  <2>2. GoesAhead(txs, p, q) /\ p # q
    BY <1>9, <2>1
  <2>3. txs[p].slot <= txs[q].slot
    BY <1>2, <2>2 DEF GoesAhead
  <2> QED BY <2>1, <2>2, <2>3
<1>11. BySlot(txs) = [i \in 1..n |-> txs[order[i]]]
  <2>1. BySlot(txs) = [i \in DOMAIN order |-> txs[order[i]]]
    BY <1>3, <1>8 DEF BySlot, places
  <2>2. DOMAIN order = 1..n
    BY <1>9
  <2> QED BY <2>1, <2>2
<1>12. IsSorting(order, n, txs)
  BY <1>9, <1>10, <1>11 DEF IsSorting, places
<1> QED BY <1>8, <1>12

\* So a listing becomes a history of the same transactions.
ListsAlike(sorted, txs) ==
    /\ \A j \in DOMAIN sorted : \E p \in DOMAIN txs : sorted[j] = txs[p]
    /\ \A p \in DOMAIN txs : \E j \in DOMAIN sorted : sorted[j] = txs[p]

LEMMA SortedHistory ==
    ASSUME NEW txs, IsListing(txs)
    PROVE  IsHistory(BySlot(txs)) /\ ListsAlike(BySlot(txs), txs)
<1>0. PICK sorted : sorted = BySlot(txs)
  OBVIOUS
<1>1. txs \in Seq(Listed)
  BY DEF IsListing
<1>2. PICK n, order :
        /\ n \in Nat
        /\ order \in [1..n -> DOMAIN txs]
        /\ \A p \in DOMAIN txs : \E i \in 1..n : order[i] = p
        /\ \A i, j \in 1..n : i < j => order[i] # order[j] /\ txs[order[i]].slot <= txs[order[j]].slot
        /\ sorted = [i \in 1..n |-> txs[order[i]]]
  <2>1. PICK n, order : n \in Nat /\ IsSorting(order, n, txs)
    BY <1>1, SortMoves
  <2>2. /\ order \in [1..n -> DOMAIN txs]
        /\ \A p \in DOMAIN txs : \E i \in 1..n : order[i] = p
        /\ \A i, j \in 1..n : i < j =>
             order[i] # order[j] /\ txs[order[i]].slot <= txs[order[j]].slot
        /\ sorted = [i \in 1..n |-> txs[order[i]]]
    BY <1>0, <2>1 DEF IsSorting
  <2> QED BY <2>1, <2>2
<1>3. \A p \in DOMAIN txs : txs[p] \in Listed
  BY <1>1
<1>4. /\ DOMAIN sorted = 1..n
      /\ \A i \in 1..n : /\ sorted[i] = txs[order[i]] /\ order[i] \in DOMAIN txs
                         /\ sorted[i] \in Listed
  BY <1>2, <1>3
<1>5. sorted \in Seq(Listed)
  BY <1>2, <1>4
<1>6. \A i, j \in 1..n : i < j =>
        sorted[i].signature # sorted[j].signature /\ sorted[i].slot <= sorted[j].slot
  BY <1>2, <1>4 DEF IsListing
<1>7. \A i, j \in 1..n : i # j => sorted[i].signature # sorted[j].signature
  BY <1>6
<1>8. \A i \in 1..n : /\ sorted[i].signature \in DOMAIN log
                      /\ sorted[i].slot = log[sorted[i].signature].slot
  BY <1>4 DEF IsListing
<1>9. IsHistory(sorted)
  BY <1>4, <1>5, <1>6, <1>7, <1>8 DEF IsHistory, IsListing
<1> QED BY <1>0, <1>2, <1>4, <1>9 DEF ListsAlike

-----------------------------------------------------------------------------
(* The chain moves: what has happened stays, and is told by no account      *)
(* before it has.                                                          *)

HistoryKept == DOMAIN log \subseteq DOMAIN log' /\ \A i \in DOMAIN log : log'[i] = log[i]

LEMMA HappenedStays ==
    ASSUME HistoryKept, NEW kind, NEW t, Happened(kind, t)
    PROVE  Happened(kind, t)'
  BY DEF HistoryKept, Happened

\* A transaction goes to the end of the log.
LEMMA LoggedEffect ==
    ASSUME log \in Seq(LogEntry), NEW kind \in Kinds, NEW ts \in SUBSET TicketIds,
           NEW ms \in SUBSET MarketIds, Logged(kind, ts, ms)
    PROVE  /\ log' \in Seq(LogEntry) /\ HistoryKept
           /\ \A t \in ts : Happened(kind, t)'
<1>0. PICK slot \in Int : log' = Append(log, Entry(kind, ts, ms, slot))
  BY DEF Logged, NextSlots
<1> DEFINE entry == Entry(kind, ts, ms, slot)
<1>1. entry \in LogEntry /\ entry.kind = kind /\ entry.tickets = ts
  BY DEF Entry, LogEntry
<1>2. log' = Append(log, entry)
  BY <1>0
<1> HIDE DEF entry
<1>3. /\ log' \in Seq(LogEntry) /\ DOMAIN log = 1..Len(log) /\ DOMAIN log' = 1..(Len(log) + 1)
      /\ Len(log) \in Nat /\ \A i \in 1..Len(log) : log'[i] = log[i]
      /\ log'[Len(log) + 1] = entry
  BY <1>1, <1>2
<1>4. HistoryKept
  BY <1>3 DEF HistoryKept
<1>5. Len(log) + 1 \in DOMAIN log'
  BY <1>3
<1> QED BY <1>1, <1>3, <1>4, <1>5 DEF Happened

\* An instruction on ticket t may make its accounts tell of itself, and of
\* nothing else that they did not tell before.
OnlyTells(t, kind) ==
    /\ \A u \in TicketIds : u # t => ticket'[u] = ticket[u] /\ receipt'[u] = receipt[u]
    /\ ticket[t].state # "Vacant"
    /\ \A k \in Kinds :
         /\ TicketTells(ticket'[t], k) => k = kind \/ TicketTells(ticket[t], k)
         /\ SaleTells(receipt'[t], k) => k = kind \/ SaleTells(receipt[t], k)
    /\ ticket'[t].state = "CashedOut" => receipt'[t].exists

LEMMA TicketActs ==
    ASSUME log \in Seq(LogEntry), AccountsAreBacked, NEW t \in TicketIds, NEW kind \in Kinds,
           NEW ms \in SUBSET MarketIds, Logged(kind, {t}, ms), OnlyTells(t, kind)
    PROVE  log' \in Seq(LogEntry) /\ HistoryKept /\ AccountsAreBacked'
<1>1. log' \in Seq(LogEntry) /\ HistoryKept /\ Happened(kind, t)'
  BY LoggedEffect
<1>2. \A k, u : Happened(k, u) => Happened(k, u)'
  BY <1>1, HappenedStays
<1>3. ASSUME NEW u \in TicketIds
      PROVE  /\ ticket'[u].state # "Vacant" =>
                  \A k \in Kinds : TicketTells(ticket'[u], k) => Happened(k, u)'
             /\ \A k \in Kinds : SaleTells(receipt'[u], k) => Happened(k, u)'
             /\ ticket'[u].state = "CashedOut" => receipt'[u].exists
  <2>1. /\ ticket[u].state # "Vacant" =>
             \A k \in Kinds : TicketTells(ticket[u], k) => Happened(k, u)
        /\ \A k \in Kinds : SaleTells(receipt[u], k) => Happened(k, u)
        /\ ticket[u].state = "CashedOut" => receipt[u].exists
    BY DEF AccountsAreBacked, TicketIsBacked, SaleIsBacked
  <2>2. CASE u = t
    BY <1>1, <1>2, <2>1, <2>2 DEF OnlyTells
  <2>3. CASE u # t
    BY <1>2, <2>1, <2>3 DEF OnlyTells
  <2> QED BY <2>2, <2>3
<1>4. AccountsAreBacked'
  BY <1>3 DEF AccountsAreBacked, TicketIsBacked, SaleIsBacked
<1> QED BY <1>1, <1>4

\* Where neither a ticket nor its sale changes, nothing new is told.
LEMMA NothingTold ==
    ASSUME HistoryKept, AccountsAreBacked, UNCHANGED <<ticket, receipt>>
    PROVE  AccountsAreBacked'
<1>1. \A k, u : Happened(k, u) => Happened(k, u)'
  BY HappenedStays
<1> QED BY <1>1 DEF AccountsAreBacked, TicketIsBacked, SaleIsBacked

\* Each instruction on a ticket tells of itself.
LEMMA TicketTypes ==
    ASSUME NumberingInv, NEW t \in TicketIds
    PROVE  /\ ticket \in [TicketIds -> Ticket] /\ receipt \in [TicketIds -> CashOutReceipt]
           /\ TypeOK /\ BookInv
  BY DEF NumberingInv, BookInv, TypeOK

LEMMA CashOutTells ==
    ASSUME NumberingInv, AccountsAreBacked, NEW t \in TicketIds, CashOutTicket(t)
    PROVE  OnlyTells(t, "cashOutTicket")
<1>1. BookInv /\ TypeOK /\ "CashedOut" \in TicketState
  BY DEF NumberingInv, BookInv, TicketState
<1>2. /\ Close(t, "CashedOut") /\ ticket[t].state = "Live"
      /\ \A u \in TicketIds : u # t => receipt'[u] = receipt[u]
      /\ receipt'[t].exists /\ ~receipt'[t].made_whole
      /\ receipt'[t].audit_status = "Unaudited"
  BY <1>1, CashOutEffect
<1>3. /\ ticket'[t].state = "CashedOut" /\ ticket'[t].audit_status = ticket[t].audit_status
      /\ \A u \in TicketIds : u # t => ticket'[u] = ticket[u]
  BY <1>1, <1>2, CloseEffect
<1> QED BY <1>2, <1>3 DEF OnlyTells, TicketTells, SaleTells

LEMMA SettleTells ==
    ASSUME NumberingInv, AccountsAreBacked, NEW t \in TicketIds, SettleTicket(t)
    PROVE  OnlyTells(t, "settleTicket")
<1>1. TypeOK /\ "Won" \in TicketState /\ "Lost" \in TicketState
  BY DEF NumberingInv, BookInv, TicketState
<1>2. PICK s \in {"Won", "Lost"} : Close(t, s)
  BY DEF SettleTicket
<1>3. ticket[t].state = "Live" /\ receipt' = receipt /\ s \in TicketState
  BY <1>1 DEF SettleTicket
<1>4. /\ ticket'[t].state = s /\ ticket'[t].audit_status = ticket[t].audit_status
      /\ \A u \in TicketIds : u # t => ticket'[u] = ticket[u]
  BY <1>1, <1>2, <1>3, CloseEffect
<1> QED BY <1>3, <1>4 DEF OnlyTells, TicketTells, SaleTells

LEMMA RefundTells ==
    ASSUME NumberingInv, AccountsAreBacked, NEW t \in TicketIds, RefundTicket(t)
    PROVE  OnlyTells(t, "refundTicket")
<1>1. TypeOK /\ "Refunded" \in TicketState
  BY DEF NumberingInv, BookInv, TicketState
<1>2. Close(t, "Refunded") /\ ticket[t].state # "Vacant" /\ receipt' = receipt
  BY DEF RefundTicket
<1>3. /\ ticket'[t].state = "Refunded" /\ ticket'[t].audit_status = ticket[t].audit_status
      /\ \A u \in TicketIds : u # t => ticket'[u] = ticket[u]
  BY <1>1, <1>2, CloseEffect
<1> QED BY <1>2, <1>3 DEF OnlyTells, TicketTells, SaleTells

LEMMA AuditTells ==
    ASSUME NumberingInv, AccountsAreBacked, NEW t \in TicketIds, AuditTicket(t)
    PROVE  OnlyTells(t, "auditTicket")
<1>1. BookInv
  BY DEF NumberingInv
<1>2. /\ receipt' = receipt /\ \A u \in TicketIds : u # t => ticket'[u] = ticket[u]
      /\ ticket'[t].state = ticket[t].state \/ ticket'[t].state = "Refundable"
  BY <1>1, AuditTicketEffect
<1>3. ticket[t].state # "Vacant" /\ ticket[t].state = "CashedOut" => receipt[t].exists
  BY DEF AuditTicket, AccountsAreBacked
<1>4. ticket[t].state # "Vacant"
  BY DEF AuditTicket
<1> QED BY <1>2, <1>3, <1>4 DEF OnlyTells, TicketTells, SaleTells

LEMMA AuditCashOutTells ==
    ASSUME NumberingInv, AccountsAreBacked, NEW t \in TicketIds, NEW a \in Auditors,
           AuditCashOut(t, a)
    PROVE  OnlyTells(t, "auditCashOut")
<1>1. /\ BookInv /\ receipt[t].exists
      /\ ticket[t].state # "Vacant"
  <2>1. receipt[t].exists
    BY DEF AuditCashOut, DecideCashOut
  <2> QED BY <2>1 DEF NumberingInv, BookInv, TicketsAreSound
<1>2. CASE DecideCashOut(t, a)
  <2>1. /\ ticket' = ticket /\ \A u \in TicketIds : u # t => receipt'[u] = receipt[u]
        /\ receipt'[t].exists = receipt[t].exists
        /\ receipt'[t].made_whole = receipt[t].made_whole
    BY <1>1, <1>2, AuditCashOutEffect
  <2> QED BY <1>1, <2>1 DEF OnlyTells, TicketTells, SaleTells
<1>3. CASE UNCHANGED vars
  <2>1. ticket' = ticket /\ receipt' = receipt
    BY <1>3 DEF vars, accounts
  <2> QED BY <1>1, <2>1 DEF OnlyTells, TicketTells, SaleTells
<1> QED BY <1>2, <1>3 DEF AuditCashOut

LEMMA ClaimTells ==
    ASSUME NumberingInv, AccountsAreBacked, NEW t \in TicketIds, ClaimCashOutRepair(t)
    PROVE  OnlyTells(t, "claimCashOutRepair")
<1>1. BookInv
  BY DEF NumberingInv
<1>2. /\ ticket' = ticket /\ \A u \in TicketIds : u # t => receipt'[u] = receipt[u]
      /\ receipt[t].exists /\ receipt'[t].exists = receipt[t].exists
      /\ receipt'[t].audit_status = receipt[t].audit_status
  BY <1>1, ClaimEffect
<1>3. ticket[t].state # "Vacant"
  BY <1>1, <1>2 DEF BookInv, TicketsAreSound
<1> QED BY <1>2, <1>3 DEF OnlyTells, TicketTells, SaleTells

\* What others do to the chain while a receipt is assembled.
ChainKept ==
    /\ NumberingInv' /\ TermsKept
    /\ log' \in Seq(LogEntry) /\ HistoryKept /\ AccountsAreBacked' /\ QuestionsAreMapped'

LEMMA ChainKeeps ==
    ASSUME NumberingInv, log \in Seq(LogEntry), AccountsAreBacked, QuestionsAreMapped, ChainActs
    PROVE  ChainKept /\ [Instruction]_vars /\ UNCHANGED <<exporting, faults>>
<1> DEFINE LogKept == log' \in Seq(LogEntry) /\ HistoryKept /\ AccountsAreBacked'
           NoneCreated ==
             \A m \in MarketIds : market'[m].state # "Vacant" => market[m].state # "Vacant"
           Does == [Instruction]_vars /\ LogKept /\ NoneCreated
<1>1. /\ HistoryKept \/ log' # log
      /\ NoneCreated \/ market' # market
  BY DEF HistoryKept
<1>0. ASSUME NEW m \in MarketIds, NEW s, market[m].state # "Vacant",
             market' = [market EXCEPT ![m] = [@ EXCEPT !.state = s]]
      PROVE  NoneCreated
  BY <1>0 DEF NumberingInv, BookInv, TypeOK
<1>2. ASSUME NEW m \in MarketIds, LockMarket(m), log' = log
      PROVE  Does
  <2>1. UNCHANGED <<ticket, receipt>>
    BY <1>2 DEF LockMarket
  <2>2. NoneCreated
    BY <1>0, <1>2 DEF LockMarket
  <2> QED BY <1>1, <1>2, <2>1, <2>2, NothingTold DEF Instruction
<1>3. ASSUME NEW m \in MarketIds, NEW byAuthority \in BOOLEAN, VoidMarket(m, byAuthority),
             log' = log
      PROVE  Does
  <2>1. UNCHANGED <<ticket, receipt>>
    BY <1>3 DEF VoidMarket
  <2>2. NoneCreated
    BY <1>0, <1>3 DEF VoidMarket, Voidable
  <2> QED BY <1>1, <1>3, <2>1, <2>2, NothingTold DEF Instruction
<1>4. ASSUME NEW m \in MarketIds, Verifies(m), Logged("verifyMarket", {}, {m})
      PROVE  Does
  <2>1. PICK proof \in ScoreProofs : VerifyMarket(m, proof)
    BY <1>4 DEF Verifies
  <2>2. UNCHANGED <<ticket, receipt>>
    BY <2>1 DEF VerifyMarket
  <2>3. "verifyMarket" \in Kinds
    BY DEF Kinds
  <2>4. log' \in Seq(LogEntry) /\ HistoryKept
    BY <1>4, <2>3, LoggedEffect
  <2>5. NoneCreated
    BY <1>0, <2>1 DEF VerifyMarket
  <2> QED BY <2>1, <2>2, <2>4, <2>5, NothingTold DEF Instruction
<1>5. ASSUME NEW t \in TicketIds, NEW kind \in Kinds, NEW ms \in SUBSET MarketIds,
             Logged(kind, {t}, ms), OnlyTells(t, kind)
      PROVE  LogKept
  BY <1>5, TicketActs
<1>6. /\ "cashOutTicket" \in Kinds /\ "settleTicket" \in Kinds /\ "refundTicket" \in Kinds
      /\ "auditTicket" \in Kinds /\ "claimCashOutRepair" \in Kinds /\ "auditCashOut" \in Kinds
  BY DEF Kinds
<1>7. ASSUME NEW t \in TicketIds, CashOutTicket(t), Logged("cashOutTicket", {t}, {})
      PROVE  Does
  <2>1. LogKept
    BY <1>5, <1>6, <1>7, CashOutTells
  <2>2. market' = market
    BY <1>7 DEF CashOutTicket
  <2> QED BY <1>1, <1>7, <2>1, <2>2 DEF Instruction
<1>8. ASSUME NEW t \in TicketIds, SettleTicket(t), Logged("settleTicket", {t}, {ticket[t].market})
      PROVE  Does
  <2>1. ticket[t].market \in MarketIds
    BY <1>8 DEF NumberingInv, BookInv, TicketsAreSound, SettleTicket
  <2>2. LogKept
    BY <1>5, <1>6, <1>8, <2>1, SettleTells
  <2>3. market' = market
    BY <1>8 DEF SettleTicket
  <2> QED BY <1>1, <1>8, <2>2, <2>3 DEF Instruction
<1>9. ASSUME NEW t \in TicketIds, RefundTicket(t), Logged("refundTicket", {t}, {})
      PROVE  Does
  <2>1. LogKept
    BY <1>5, <1>6, <1>9, RefundTells
  <2>2. market' = market
    BY <1>9 DEF RefundTicket
  <2> QED BY <1>1, <1>9, <2>1, <2>2 DEF Instruction
<1>10. ASSUME NEW t \in TicketIds, AuditTicket(t), Logged("auditTicket", {t}, {})
       PROVE  Does
  <2>1. LogKept
    BY <1>5, <1>6, <1>10, AuditTells
  <2>2. market' = market
    BY <1>10 DEF AuditTicket
  <2> QED BY <1>1, <1>10, <2>1, <2>2 DEF Instruction
<1>11. ASSUME NEW t \in TicketIds, ClaimCashOutRepair(t), Logged("claimCashOutRepair", {t}, {})
       PROVE  Does
  <2>1. LogKept
    BY <1>5, <1>6, <1>11, ClaimTells
  <2>2. market' = market
    BY <1>11 DEF ClaimCashOutRepair
  <2> QED BY <1>1, <1>11, <2>1, <2>2 DEF Instruction
<1>12. ASSUME NEW t \in TicketIds, NEW a \in Auditors, AuditCashOut(t, a),
              Logged("auditCashOut", {t}, {})
       PROVE  Does
  <2>1. LogKept
    BY <1>5, <1>6, <1>12, AuditCashOutTells
  <2>2. market' = market
    BY <1>12 DEF AuditCashOut, DecideCashOut, vars, accounts
  <2> QED BY <1>1, <1>12, <2>1, <2>2 DEF Instruction
<1>13. ASSUME Tick, log' = log
       PROVE  Does
  <2>1. UNCHANGED <<market, ticket, receipt>>
    BY <1>13 DEF Tick, accounts
  <2> QED BY <1>1, <1>13, <2>1, NothingTold DEF Instruction
<1> HIDE DEF Does, LogKept, NoneCreated
<1>14. Does
  BY <1>2, <1>3, <1>4, <1>7, <1>8, <1>9, <1>10, <1>11, <1>12, <1>13 DEF ChainActs
<1>15. NumberingInv' /\ TermsKept
  BY <1>14, TermsNext DEF Does
<1>16. QuestionsAreMapped'
  <2> SUFFICES ASSUME NEW m \in MarketIds, market'[m].state # "Vacant"
               PROVE  market'[m].params \in Questions
    BY DEF QuestionsAreMapped
  <2>1. market[m].state # "Vacant"
    BY <1>14 DEF Does, NoneCreated
  <2> QED BY <1>15, <2>1 DEF QuestionsAreMapped, TermsKept, MarketTermsKept
<1> QED BY <1>14, <1>15, <1>16 DEF Does, LogKept, ChainKept, ChainActs, txVars

-----------------------------------------------------------------------------
(* What was read stays true of a chain that moves on.                      *)

WorldKept == TermsKept /\ HistoryKept /\ faults \in Nat /\ faults' \in Nat /\ faults <= faults'

LEMMA StaysSound ==
    ASSUME WorldKept, NEW e, Sound(e)
    PROVE  Sound(e)'
<1>1. \A k, u : Happened(k, u) => Happened(k, u)'
  BY HappenedStays DEF WorldKept
<1>2. TicketIsRead(e)'
  <2> SUFFICES ASSUME e.stage \in PastTicket
               PROVE  /\ ticket'[e.key].state # "Vacant"
                      /\ e.ticket.market = ticket'[e.key].market
                      /\ e.ticket.odds_record = ticket'[e.key].odds_record
                      /\ TicketIsBacked(e.ticket, e.key)'
                      /\ e.ticket.state = "CashedOut" => receipt'[e.key].exists
    BY DEF TicketIsRead
  <2>1. e.key \in TicketIds
    BY DEF Sound, IsExport, PastTicket, PastMarket, PastAccounts, PastOdds, PastStat
  <2>2. /\ ticket[e.key].state # "Vacant"
        /\ e.ticket.market = ticket[e.key].market
        /\ e.ticket.odds_record = ticket[e.key].odds_record
        /\ TicketIsBacked(e.ticket, e.key)
        /\ e.ticket.state = "CashedOut" => receipt[e.key].exists
    BY DEF Sound, TicketIsRead
  <2>3. TicketIsBacked(e.ticket, e.key)'
    BY <1>1, <2>2 DEF TicketIsBacked
  <2> QED BY <2>1, <2>2, <2>3 DEF WorldKept, TermsKept, TicketTermsKept, ReceiptTermsKept
<1>3. SaleIsRead(e)'
  BY <1>1 DEF Sound, SaleIsRead, SaleIsBacked
<1> QED BY <1>2, <1>3 DEF Sound

LEMMA HistoryStays ==
    ASSUME WorldKept, NEW e, HistoryIsRead(e)
    PROVE  HistoryIsRead(e)'
<1> SUFFICES ASSUME e.stage \in PastHistory
             PROVE  IsHistory(e.transactions)' /\ HistoryTells(e, e.transactions)'
  BY DEF HistoryIsRead
<1>1. IsHistory(e.transactions) /\ HistoryTells(e, e.transactions)
  BY DEF HistoryIsRead
<1>2. HistoryKept
  BY DEF WorldKept
<1>3. IsHistory(e.transactions)'
  <2>1. \A i \in DOMAIN e.transactions :
          /\ e.transactions[i].signature \in DOMAIN log
          /\ e.transactions[i].slot = log[e.transactions[i].signature].slot
    BY <1>1 DEF IsHistory, IsListing
  <2>2. \A i \in DOMAIN e.transactions :
          /\ e.transactions[i].signature \in DOMAIN log'
          /\ e.transactions[i].slot = log'[e.transactions[i].signature].slot
    BY <1>2, <2>1 DEF HistoryKept
  <2> QED BY <1>1, <2>2 DEF IsHistory, IsListing
<1>4. ASSUME NEW kind, Names(e.transactions, kind)
      PROVE  Names(e.transactions, kind)'
  <2>1. faults > 0 => faults' > 0
    BY DEF WorldKept
  <2> QED BY <1>4, <2>1 DEF Names
<1>5. \A i \in DOMAIN e.transactions :
        log'[e.transactions[i].signature] = log[e.transactions[i].signature]
  BY <1>1, <1>2 DEF IsHistory, IsListing, HistoryKept
<1>6. HistoryTells(e, e.transactions)'
  BY <1>1, <1>4, <1>5 DEF HistoryTells
<1> QED BY <1>3, <1>6

\* The receipt is now what was found of it.
LEMMA Assembled ==
    ASSUME NEW e, exporting' = e, Sound(e)', HistoryIsRead(e)'
    PROVE  ExportInv'
<1>1. Sound(exporting)'
  BY DEF Sound, IsExport, TicketIsRead, MarketIsRead, SaleIsRead, OddsAreFetched, StatIsFetched,
         SaleOddsAreFetched, TicketIsBacked, SaleIsBacked, IsOddsProof, IsStatProof
<1>2. HistoryIsRead(exporting)'
  BY DEF HistoryIsRead, IsHistory, IsListing, HistoryTells, Names
<1> QED BY <1>1, <1>2 DEF ExportInv

\* The chain moves under an export.
LEMMA ChainKeepsExport ==
    ASSUME ExportInv, faults \in Nat, ChainKept, UNCHANGED <<exporting, faults>>
    PROVE  ExportInv'
<1>1. PICK e : e = exporting
  OBVIOUS
<1>2. WorldKept
  BY DEF WorldKept, ChainKept
<1>3. Sound(e) /\ HistoryIsRead(e)
  BY <1>1 DEF ExportInv
<1> QED BY <1>1, <1>2, <1>3, StaysSound, HistoryStays, Assembled

-----------------------------------------------------------------------------
(* The reads.                                                              *)

\* A receipt has these fields and no others.
IsShaped(e) ==
    e = [stage |-> e.stage, by |-> e.by, key |-> e.key, unread |-> e.unread,
         ticket |-> e.ticket, market |-> e.market, outcome |-> e.outcome,
         cashOut |-> e.cashOut, odds |-> e.odds, stat |-> e.stat,
         cashOutOdds |-> e.cashOutOdds, transactions |-> e.transactions]

\* A read before the history leaves the receipt sound.
Finds == \E e : exporting' = e /\ Sound(e) /\ e.stage \notin PastHistory

LEMMA FailsSoundly ==
    ASSUME ExportInv, Fails, ~At("Idle")
    PROVE  Finds
<1>1. PICK e : e = exporting /\ Sound(e) /\ IsShaped(e)
  BY DEF ExportInv, Sound, IsExport, IsShaped
<1>2. PICK f : f = [stage |-> "Failed", by |-> e.by, key |-> e.key, unread |-> e.unread,
                  ticket |-> e.ticket, market |-> e.market, outcome |-> e.outcome,
                  cashOut |-> e.cashOut, odds |-> e.odds, stat |-> e.stat,
                  cashOutOdds |-> e.cashOutOdds, transactions |-> e.transactions]
  OBVIOUS
<1>3. exporting' = f
  <2>1. exporting' = [e EXCEPT !.stage = "Failed"]
    BY <1>1 DEF Fails, Goes, Becomes
  <2>2. IsShaped(e)
    BY <1>1
  <2> QED BY <1>2, <2>1, <2>2 DEF IsShaped
<1>4. Sound(f)
  BY <1>1, <1>2 DEF At, Sound, IsExport, TicketIsRead, MarketIsRead, SaleIsRead, OddsAreFetched,
         StatIsFetched, SaleOddsAreFetched, Stages, PastTicket, PastMarket, PastAccounts,
         PastOdds, PastStat, PastSale
<1> QED BY <1>2, <1>3, <1>4 DEF Finds, PastHistory

LEMMA ReadTicketFinds ==
    ASSUME ReceiptsInv, NEW t \in TicketIds, ReadTicket(t)
    PROVE  Finds
<1>1. PICK e : e = exporting /\ Sound(e) /\ IsShaped(e)
  BY DEF ReceiptsInv, ExportInv, Sound, IsExport, IsShaped
<1>2. e.stage = "Ticket" /\ e.key = t
  BY <1>1 DEF ReadTicket, At
<1>3. CASE Fails
  BY <1>1, <1>2, <1>3, FailsSoundly DEF ReceiptsInv, At
<1>4. CASE /\ ticket[t].state # "Vacant"
           /\ Goes("Market", [exporting EXCEPT !.ticket = ticket[t]])
  <2>1. PICK f : f = [stage |-> "Market", by |-> e.by, key |-> e.key, unread |-> e.unread,
                    ticket |-> ticket[t], market |-> e.market, outcome |-> e.outcome,
                    cashOut |-> e.cashOut, odds |-> e.odds, stat |-> e.stat,
                    cashOutOdds |-> e.cashOutOdds, transactions |-> e.transactions]
    OBVIOUS
  <2>2. exporting' = f
    <3>1. PICK k : k = ticket[t]
      OBVIOUS
    <3>2. PICK read : read = [e EXCEPT !.ticket = k]
      OBVIOUS
    <3>3. exporting' = [read EXCEPT !.stage = "Market"]
      BY <1>1, <1>4, <3>1, <3>2 DEF Goes, Becomes
    <3>4. IsShaped(e)
      BY <1>1
    <3>5. read = [stage |-> e.stage, by |-> e.by, key |-> e.key, unread |-> e.unread,
                     ticket |-> k, market |-> e.market, outcome |-> e.outcome,
                     cashOut |-> e.cashOut, odds |-> e.odds, stat |-> e.stat,
                     cashOutOdds |-> e.cashOutOdds, transactions |-> e.transactions]
      BY <3>2, <3>4 DEF IsShaped
    <3> QED BY <2>1, <3>1, <3>3, <3>5
  <2>3. /\ TicketIsBacked(ticket[t], t)
        /\ ticket[t].state = "CashedOut" => receipt[t].exists
    BY <1>4 DEF ReceiptsInv, AccountsAreBacked
  <2>4. Sound(f)
    BY <1>1, <1>2, <1>4, <2>1, <2>3 DEF Sound, IsExport, TicketIsRead, MarketIsRead, SaleIsRead, OddsAreFetched,
         StatIsFetched, SaleOddsAreFetched, Stages, PastTicket, PastMarket, PastAccounts,
         PastOdds, PastStat, PastSale
  <2> QED BY <2>1, <2>2, <2>4 DEF Finds, PastHistory
<1> QED BY <1>3, <1>4 DEF ReadTicket

LEMMA ReadMarketFinds ==
    ASSUME ReceiptsInv, ReadMarket
    PROVE  Finds
<1>1. PICK e : e = exporting /\ Sound(e) /\ IsShaped(e)
  BY DEF ReceiptsInv, ExportInv, Sound, IsExport, IsShaped
<1>2. e.stage = "Market" /\ e.key \in TicketIds
  BY <1>1 DEF ReadMarket, At, Sound, IsExport
<1>3. PICK m : m = e.ticket.market
  OBVIOUS
<1>4. m \in MarketIds /\ market[m].state # "Vacant"
  <2>1. ticket[e.key].state # "Vacant" /\ ticket[e.key].market = m
    BY <1>1, <1>2, <1>3 DEF Sound, TicketIsRead, PastTicket
  <2> QED BY <1>2, <2>1 DEF ReceiptsInv, NumberingInv, TicketsHaveMarkets, BookInv, TicketsAreSound
<1>5. market[m].params \in Questions
  BY <1>4 DEF ReceiptsInv, QuestionsAreMapped
<1>6. PICK f : f = [stage |-> "Accounts", by |-> e.by, key |-> e.key,
                  unread |-> {"outcome", "cashOut"}, ticket |-> e.ticket, market |-> market[m],
                  outcome |-> e.outcome, cashOut |-> e.cashOut, odds |-> e.odds,
                  stat |-> e.stat, cashOutOdds |-> e.cashOutOdds,
                  transactions |-> e.transactions]
  OBVIOUS
<1>7. exporting' = f
  <2>1. PICK k : k = market[m]
    OBVIOUS
  <2>2. PICK read : read = [e EXCEPT !.market = k]
    OBVIOUS
  <2>3. PICK asked : asked = [read EXCEPT !.unread = {"outcome", "cashOut"}]
    OBVIOUS
  <2>4. exporting' = [asked EXCEPT !.stage = "Accounts"]
    <3>1. asked = [exporting EXCEPT !.market = market[exporting.ticket.market],
                                    !.unread = {"outcome", "cashOut"}]
      BY <1>1, <1>3, <2>1, <2>2, <2>3
    <3> QED BY <3>1 DEF ReadMarket, Goes, Becomes
  <2>5. IsShaped(e)
    BY <1>1
  <2>6. read = [stage |-> e.stage, by |-> e.by, key |-> e.key, unread |-> e.unread,
               ticket |-> e.ticket, market |-> k, outcome |-> e.outcome, cashOut |-> e.cashOut,
               odds |-> e.odds, stat |-> e.stat, cashOutOdds |-> e.cashOutOdds,
               transactions |-> e.transactions]
    BY <2>2, <2>5 DEF IsShaped
  <2>7. asked = [stage |-> e.stage, by |-> e.by, key |-> e.key,
                unread |-> {"outcome", "cashOut"}, ticket |-> e.ticket, market |-> k,
                outcome |-> e.outcome, cashOut |-> e.cashOut, odds |-> e.odds, stat |-> e.stat,
                cashOutOdds |-> e.cashOutOdds, transactions |-> e.transactions]
    BY <2>3, <2>6
  <2> QED BY <1>6, <2>1, <2>4, <2>7
<1>8. Sound(f)
  BY <1>1, <1>2, <1>5, <1>6 DEF Sound, IsExport, TicketIsRead, MarketIsRead, SaleIsRead, OddsAreFetched,
         StatIsFetched, SaleOddsAreFetched, Stages, PastTicket, PastMarket, PastAccounts,
         PastOdds, PastStat, PastSale
<1> QED BY <1>6, <1>7, <1>8 DEF Finds, PastHistory

LEMMA ReadAccountFinds ==
    ASSUME ReceiptsInv, NEW name \in {"outcome", "cashOut"}, ReadAccount(name)
    PROVE  Finds
<1>1. PICK e : e = exporting /\ Sound(e) /\ IsShaped(e)
  BY DEF ReceiptsInv, ExportInv, Sound, IsExport, IsShaped
<1>2. e.stage = "Accounts" /\ e.key \in TicketIds
  BY <1>1 DEF ReadAccount, At, Sound, IsExport
<1>3. PICK left : left = e.unread \ {name} /\ left \subseteq {"outcome", "cashOut"}
  BY <1>1 DEF Sound, IsExport
<1>4. PICK stage \in {"Accounts", "Odds"} : stage = IF left = {} THEN "Odds" ELSE "Accounts"
  OBVIOUS
<1>5. CASE name = "cashOut"
  <2>1. PICK f : f = [stage |-> stage, by |-> e.by, key |-> e.key, unread |-> left,
                    ticket |-> e.ticket, market |-> e.market, outcome |-> e.outcome,
                    cashOut |-> receipt[e.key], odds |-> e.odds, stat |-> e.stat,
                    cashOutOdds |-> e.cashOutOdds, transactions |-> e.transactions]
    OBVIOUS
  <2>2. exporting' = f
    <3>1. PICK r : r = receipt[e.key]
      OBVIOUS
    <3>2. PICK read : read = [[e EXCEPT !.unread = left] EXCEPT !.cashOut = r]
      OBVIOUS
    <3>3. IsShaped(e)
      BY <1>1
    <3>4. read = [stage |-> e.stage, by |-> e.by, key |-> e.key, unread |-> left,
                     ticket |-> e.ticket, market |-> e.market, outcome |-> e.outcome,
                     cashOut |-> r, odds |-> e.odds, stat |-> e.stat,
                     cashOutOdds |-> e.cashOutOdds, transactions |-> e.transactions]
      BY <3>2, <3>3 DEF IsShaped
    <3>5. exporting' = [read EXCEPT !.stage = IF read.unread = {} THEN "Odds" ELSE "Accounts"]
      <4>1. /\ exporting.key = e.key
            /\ [exporting EXCEPT !.unread = @ \ {name}] = [e EXCEPT !.unread = left]
        BY <1>1, <1>3
      <4> QED BY <1>5, <3>1, <3>2, <4>1 DEF ReadAccount, Goes, Becomes
    <3>6. exporting' = [read EXCEPT !.stage = stage]
      BY <1>4, <3>4, <3>5
    <3> QED BY <2>1, <3>1, <3>4, <3>6
  <2>3. /\ SaleIsBacked(receipt[e.key], e.key)
        /\ e.ticket.state = "CashedOut" => receipt[e.key].exists
    BY <1>1, <1>2 DEF ReceiptsInv, AccountsAreBacked, Sound, TicketIsRead, PastTicket, PastMarket
  <2>4. Sound(f)
    BY <1>1, <1>2, <1>3, <1>4, <2>1, <2>3 DEF Sound, IsExport, TicketIsRead, MarketIsRead, SaleIsRead, OddsAreFetched,
         StatIsFetched, SaleOddsAreFetched, Stages, PastTicket, PastMarket, PastAccounts,
         PastOdds, PastStat, PastSale
  <2> QED BY <2>1, <2>2, <2>4 DEF Finds, PastHistory
<1>6. CASE name = "outcome"
  <2>1. PICK known : exporting' = [stage |-> stage, by |-> e.by, key |-> e.key, unread |-> left,
                               ticket |-> e.ticket, market |-> e.market, outcome |-> known,
                               cashOut |-> e.cashOut, odds |-> e.odds, stat |-> e.stat,
                               cashOutOdds |-> e.cashOutOdds, transactions |-> e.transactions]
    <3>1. PICK known : \/ known = e.outcome
                         /\ exporting' = [[e EXCEPT !.unread = left] EXCEPT !.stage = stage]
                      \/ exporting' = [[[e EXCEPT !.unread = left] EXCEPT !.outcome = known]
                                         EXCEPT !.stage = stage]
      <4>1. PICK read : read = [e EXCEPT !.unread = left]
        OBVIOUS
      <4>2. IsShaped(e)
        BY <1>1
      <4>3. read = [stage |-> e.stage, by |-> e.by, key |-> e.key, unread |-> left,
                     ticket |-> e.ticket, market |-> e.market, outcome |-> e.outcome,
                     cashOut |-> e.cashOut, odds |-> e.odds, stat |-> e.stat,
                     cashOutOdds |-> e.cashOutOdds, transactions |-> e.transactions]
        BY <4>1, <4>2 DEF IsShaped
      <4>4. [exporting EXCEPT !.unread = @ \ {name}] = read
        BY <1>1, <1>3, <4>1
      <4>5. PICK m : m = exporting.ticket.market
        OBVIOUS
      <4>6. CASE outcome[m] = "Unverified"
        <5>1. exporting' = [read EXCEPT !.stage = IF read.unread = {} THEN "Odds" ELSE "Accounts"]
          BY <1>6, <4>4, <4>5, <4>6 DEF ReadAccount, Goes, Becomes
        <5> QED BY <1>4, <4>1, <4>3, <5>1
      <4>7. CASE outcome[m] # "Unverified"
        <5>1. PICK known : known = [holds |-> outcome[m] = "Yes", seq |-> claimed[m]]
          OBVIOUS
        <5>2. PICK then : then = [read EXCEPT !.outcome = known]
          OBVIOUS
        <5>3. exporting' = [then EXCEPT !.stage = IF then.unread = {} THEN "Odds" ELSE "Accounts"]
          BY <1>6, <4>4, <4>5, <4>7, <5>1, <5>2 DEF ReadAccount, Goes, Becomes
        <5>4. then.unread = left
          BY <4>3, <5>2
        <5> QED BY <1>4, <4>1, <5>2, <5>3, <5>4
      <4> QED BY <4>6, <4>7
    <3>2. IsShaped(e)
      BY <1>1
    <3> QED BY <3>1, <3>2 DEF IsShaped
  <2>2. PICK f : f = [stage |-> stage, by |-> e.by, key |-> e.key, unread |-> left,
                    ticket |-> e.ticket, market |-> e.market, outcome |-> known,
                    cashOut |-> e.cashOut, odds |-> e.odds, stat |-> e.stat,
                    cashOutOdds |-> e.cashOutOdds, transactions |-> e.transactions]
    OBVIOUS
  <2>3. Sound(f)
    BY <1>1, <1>2, <1>3, <1>4, <1>6, <2>2 DEF Sound, IsExport, TicketIsRead, MarketIsRead, SaleIsRead, OddsAreFetched,
         StatIsFetched, SaleOddsAreFetched, Stages, PastTicket, PastMarket, PastAccounts,
         PastOdds, PastStat, PastSale
  <2> QED BY <2>1, <2>2, <2>3 DEF Finds, PastHistory
<1> QED BY <1>5, <1>6

-----------------------------------------------------------------------------
(* The proofs that are fetched.                                            *)

\* Where the assembly goes once the odds, or the score row, have been fetched.
LEMMA GoesAfterOdds ==
    ASSUME NEW e, Sound(e), e.stage \in PastMarket
    PROVE  /\ AfterOdds(e) \in {"Stat", "CashOutOdds", "TicketTransactions"}
           /\ AfterOdds(e) = "Stat" <=> e.outcome # None
           /\ AfterOdds(e) = "CashOutOdds" => e.cashOut.exists
           /\ AfterOdds(e) = "TicketTransactions" => ~e.cashOut.exists
<1>1. IsMapped(e.market.params)
  BY BookAssumption DEF Sound, MarketIsRead
<1> QED BY <1>1 DEF AfterOdds, AfterStat
LEMMA GoesAfterStat ==
    ASSUME NEW e
    PROVE  /\ AfterStat(e) \in {"CashOutOdds", "TicketTransactions"}
           /\ AfterStat(e) = "CashOutOdds" => e.cashOut.exists
           /\ AfterStat(e) = "TicketTransactions" => ~e.cashOut.exists
  BY DEF AfterStat

LEMMA FetchOddsFinds ==
    ASSUME ReceiptsInv, FetchOdds
    PROVE  Finds
<1>1. PICK e : e = exporting /\ Sound(e) /\ IsShaped(e)
  BY DEF ReceiptsInv, ExportInv, Sound, IsExport, IsShaped
<1>2. e.stage = "Odds"
  BY <1>1 DEF FetchOdds, At
<1>3. PICK record : record = e.ticket.odds_record
  OBVIOUS
<1>4. \/ Fails
      \/ /\ record \in DOMAIN OddsFeed
         /\ \E whole \in BOOLEAN :
              /\ e.by = "route" => whole
              /\ Goes(AfterOdds(exporting), [exporting EXCEPT !.odds = OddsProof(record, whole)])
  BY <1>1, <1>3 DEF FetchOdds, Fetch, LooksComplete
<1>5. CASE Fails
  BY <1>1, <1>2, <1>5, FailsSoundly DEF ReceiptsInv, At
<1>6. CASE ~Fails
  <2>1. PICK whole \in BOOLEAN :
          /\ e.by = "route" => whole
          /\ Goes(AfterOdds(exporting), [exporting EXCEPT !.odds = OddsProof(record, whole)])
    BY <1>4, <1>6
  <2>2. PICK proof : proof = OddsProof(record, whole)
    OBVIOUS
  <2>3. PICK stage : stage = AfterOdds(e)
    OBVIOUS
  <2>4. /\ stage \in {"Stat", "CashOutOdds", "TicketTransactions"}
        /\ stage = "Stat" <=> e.outcome # None
        /\ stage = "CashOutOdds" => e.cashOut.exists
        /\ stage = "TicketTransactions" => ~e.cashOut.exists
    BY <1>1, <1>2, <2>3, GoesAfterOdds DEF PastMarket, PastAccounts
  <2>5. PICK f : f = [stage |-> stage, by |-> e.by, key |-> e.key, unread |-> e.unread,
                    ticket |-> e.ticket, market |-> e.market, outcome |-> e.outcome,
                    cashOut |-> e.cashOut, odds |-> proof, stat |-> e.stat,
                    cashOutOdds |-> e.cashOutOdds, transactions |-> e.transactions]
    OBVIOUS
  <2>6. exporting' = f
    <3>1. PICK read : read = [e EXCEPT !.odds = proof]
      OBVIOUS
    <3>2. exporting' = [read EXCEPT !.stage = stage]
      BY <1>1, <2>1, <2>2, <2>3, <3>1 DEF Goes, Becomes
    <3>3. IsShaped(e)
      BY <1>1
    <3>4. read = [stage |-> e.stage, by |-> e.by, key |-> e.key, unread |-> e.unread,
                     ticket |-> e.ticket, market |-> e.market, outcome |-> e.outcome,
                     cashOut |-> e.cashOut, odds |-> proof, stat |-> e.stat,
                     cashOutOdds |-> e.cashOutOdds, transactions |-> e.transactions]
      BY <3>1, <3>3 DEF IsShaped
    <3> QED BY <2>5, <3>2, <3>4
  <2>7. IsOddsProof(f, f.odds, f.ticket.odds_record)
    BY <1>3, <1>4, <1>6, <2>1, <2>2, <2>5 DEF IsOddsProof
  <2>8. Sound(f)
    BY <1>1, <1>2, <2>4, <2>5, <2>7 DEF Sound, IsExport, TicketIsRead, MarketIsRead, SaleIsRead, OddsAreFetched,
         StatIsFetched, SaleOddsAreFetched, Stages, PastTicket, PastMarket, PastAccounts,
         PastOdds, PastStat, PastSale
  <2>9. f.stage = stage
    BY <2>5
  <2> QED BY <2>4, <2>6, <2>8, <2>9 DEF Finds, PastHistory
<1> QED BY <1>5, <1>6

LEMMA FetchStatFinds ==
    ASSUME ReceiptsInv, FetchStat
    PROVE  Finds
<1>1. PICK e : e = exporting /\ Sound(e) /\ IsShaped(e)
  BY DEF ReceiptsInv, ExportInv, Sound, IsExport, IsShaped
<1>2. e.stage = "Stat"
  BY <1>1 DEF FetchStat, At
<1>3. PICK stats : stats = StatsOf(e.market, e.outcome.seq)
  OBVIOUS
<1>4. \/ Fails
      \/ \E whole \in BOOLEAN, served \in stats :
           /\ e.by = "route" => whole
           /\ Goes(AfterStat(exporting), [exporting EXCEPT !.stat = StatProof(served, whole)])
  BY <1>1, <1>3 DEF FetchStat, Fetch, LooksComplete, ProvenRow
<1>5. CASE Fails
  BY <1>1, <1>2, <1>5, FailsSoundly DEF ReceiptsInv, At
<1>6. CASE ~Fails
  <2>1. PICK whole \in BOOLEAN, served \in stats :
          /\ e.by = "route" => whole
          /\ Goes(AfterStat(exporting), [exporting EXCEPT !.stat = StatProof(served, whole)])
    BY <1>4, <1>6
  <2>2. PICK stat : stat = StatProof(served, whole)
    OBVIOUS
  <2>3. PICK stage : stage = AfterStat(e)
    OBVIOUS
  <2>4. /\ stage \in {"CashOutOdds", "TicketTransactions"}
        /\ stage = "CashOutOdds" => e.cashOut.exists
        /\ stage = "TicketTransactions" => ~e.cashOut.exists
    BY <2>3, GoesAfterStat
  <2>5. PICK f : f = [stage |-> stage, by |-> e.by, key |-> e.key, unread |-> e.unread,
                    ticket |-> e.ticket, market |-> e.market, outcome |-> e.outcome,
                    cashOut |-> e.cashOut, odds |-> e.odds, stat |-> stat,
                    cashOutOdds |-> e.cashOutOdds, transactions |-> e.transactions]
    OBVIOUS
  <2>6. exporting' = f
    <3>1. PICK read : read = [e EXCEPT !.stat = stat]
      OBVIOUS
    <3>2. exporting' = [read EXCEPT !.stage = stage]
      BY <1>1, <2>1, <2>2, <2>3, <3>1 DEF Goes, Becomes
    <3>3. IsShaped(e)
      BY <1>1
    <3>4. read = [stage |-> e.stage, by |-> e.by, key |-> e.key, unread |-> e.unread,
                     ticket |-> e.ticket, market |-> e.market, outcome |-> e.outcome,
                     cashOut |-> e.cashOut, odds |-> e.odds, stat |-> stat,
                     cashOutOdds |-> e.cashOutOdds, transactions |-> e.transactions]
      BY <3>1, <3>3 DEF IsShaped
    <3> QED BY <2>5, <3>2, <3>4
  <2>7. IsStatProof(f, f.stat)
    BY <1>3, <2>1, <2>2, <2>5 DEF IsStatProof
  <2>8. IsOddsProof(f, f.odds, f.ticket.odds_record)
    <3>1. IsOddsProof(e, e.odds, e.ticket.odds_record)
      BY <1>1, <1>2 DEF Sound, OddsAreFetched, PastOdds
    <3> QED BY <2>5, <3>1 DEF IsOddsProof
  <2>9. Sound(f)
    BY <1>1, <1>2, <2>4, <2>5, <2>7, <2>8 DEF Sound, IsExport, TicketIsRead, MarketIsRead, SaleIsRead, OddsAreFetched,
         StatIsFetched, SaleOddsAreFetched, Stages, PastTicket, PastMarket, PastAccounts,
         PastOdds, PastStat, PastSale
  <2>10. f.stage = stage
    BY <2>5
  <2> QED BY <2>4, <2>6, <2>9, <2>10 DEF Finds, PastHistory
<1> QED BY <1>5, <1>6

LEMMA FetchCashOutOddsFinds ==
    ASSUME ReceiptsInv, FetchCashOutOdds
    PROVE  Finds
<1>1. PICK e : e = exporting /\ Sound(e) /\ IsShaped(e)
  BY DEF ReceiptsInv, ExportInv, Sound, IsExport, IsShaped
<1>2. e.stage = "CashOutOdds"
  BY <1>1 DEF FetchCashOutOdds, At
<1>3. PICK record : record = e.cashOut.odds_record
  OBVIOUS
<1>4. \/ Fails
      \/ /\ record \in DOMAIN OddsFeed
         /\ \E whole \in BOOLEAN :
              /\ e.by = "route" => whole
              /\ Goes("TicketTransactions",
                      [exporting EXCEPT !.cashOutOdds = OddsProof(record, whole)])
  BY <1>1, <1>3 DEF FetchCashOutOdds, Fetch, LooksComplete
<1>5. CASE Fails
  BY <1>1, <1>2, <1>5, FailsSoundly DEF ReceiptsInv, At
<1>6. CASE ~Fails
  <2>1. PICK whole \in BOOLEAN :
          /\ e.by = "route" => whole
          /\ Goes("TicketTransactions",
                  [exporting EXCEPT !.cashOutOdds = OddsProof(record, whole)])
    BY <1>4, <1>6
  <2>2. PICK proof : proof = OddsProof(record, whole)
    OBVIOUS
  <2>3. PICK f : f = [stage |-> "TicketTransactions", by |-> e.by, key |-> e.key,
                    unread |-> e.unread, ticket |-> e.ticket, market |-> e.market,
                    outcome |-> e.outcome, cashOut |-> e.cashOut, odds |-> e.odds,
                    stat |-> e.stat, cashOutOdds |-> proof, transactions |-> e.transactions]
    OBVIOUS
  <2>4. exporting' = f
    <3>1. PICK read : read = [e EXCEPT !.cashOutOdds = proof]
      OBVIOUS
    <3>2. exporting' = [read EXCEPT !.stage = "TicketTransactions"]
      BY <1>1, <2>1, <2>2, <3>1 DEF Goes, Becomes
    <3>3. IsShaped(e)
      BY <1>1
    <3>4. read = [stage |-> e.stage, by |-> e.by, key |-> e.key, unread |-> e.unread,
                     ticket |-> e.ticket, market |-> e.market, outcome |-> e.outcome,
                     cashOut |-> e.cashOut, odds |-> e.odds, stat |-> e.stat,
                     cashOutOdds |-> proof, transactions |-> e.transactions]
      BY <3>1, <3>3 DEF IsShaped
    <3> QED BY <2>3, <3>2, <3>4
  <2>5. IsOddsProof(f, f.cashOutOdds, f.cashOut.odds_record)
    BY <1>3, <1>4, <1>6, <2>1, <2>2, <2>3 DEF IsOddsProof
  <2>6. e.cashOut.exists
    BY <1>1, <1>2 DEF Sound, SaleOddsAreFetched
  <2>7. f.outcome = None => f.stat = None
    BY <1>1, <1>2, <2>3 DEF Sound, StatIsFetched, PastStat
  <2>8. f.outcome # None => IsStatProof(f, f.stat)
    <3>1. f.outcome # None => IsStatProof(e, e.stat)
      BY <1>1, <1>2, <2>3 DEF Sound, StatIsFetched, PastStat
    <3> QED BY <2>3, <3>1 DEF IsStatProof
  <2>9. IsOddsProof(f, f.odds, f.ticket.odds_record)
    <3>1. IsOddsProof(e, e.odds, e.ticket.odds_record)
      BY <1>1, <1>2 DEF Sound, OddsAreFetched, PastOdds, PastStat
    <3> QED BY <2>3, <3>1 DEF IsOddsProof
  <2>10. Sound(f)
    BY <1>1, <1>2, <2>3, <2>5, <2>6, <2>7, <2>8, <2>9 DEF Sound, IsExport, TicketIsRead, MarketIsRead, SaleIsRead, OddsAreFetched,
         StatIsFetched, SaleOddsAreFetched, Stages, PastTicket, PastMarket, PastAccounts,
         PastOdds, PastStat, PastSale
  <2> QED BY <2>3, <2>4, <2>10 DEF Finds, PastHistory
<1> QED BY <1>5, <1>6

-----------------------------------------------------------------------------
(* The history that is collected.                                          *)

\* The list is of these signatures, every one, with its kind unless it was not served.
IsListOf(txs, signatures, unserved) ==
    /\ \A j \in DOMAIN txs :
         /\ txs[j].signature \in signatures
         /\ txs[j].kind \in {"unknown", log[txs[j].signature].kind}
    /\ \A i \in signatures : \E j \in DOMAIN txs :
         /\ txs[j].signature = i
         /\ i \notin unserved => txs[j].kind = log[i].kind

\* What is collected of an account is such a list, in the order of slots.
LEMMA CollectedHistory ==
    ASSUME log \in Seq(LogEntry), NEW signatures \in SUBSET DOMAIN log, NEW unserved,
           NEW txs, txs = collectTruebookTransactions(signatures, unserved)
    PROVE  IsHistory(txs) /\ IsListOf(txs, signatures, unserved)
<1>1. PICK l \in Nat : DOMAIN log = 1..l
  OBVIOUS
<1>2. signatures \in SUBSET Nat /\ IsFiniteSet(signatures)
  <2>1. IsFiniteSet(1..l)
    BY FS_Interval
  <2> QED BY <1>1, <2>1, FS_Subset
<1>3. PICK n \in Nat : ListsOnce(NewestFirst(signatures), n, signatures)
  BY <1>2, NewestFirstLists
<1>3a. PICK newest :
        /\ newest = NewestFirst(signatures) /\ newest \in [1..n -> signatures]
        /\ \A s \in signatures : \E i \in 1..n : newest[i] = s
        /\ \A i, j \in 1..n : i # j => newest[i] # newest[j]
  BY <1>3 DEF ListsOnce
<1> DEFINE read == [i \in DOMAIN newest |->
                       [signature |-> newest[i], kind |-> classify(newest[i], unserved),
                        slot |-> log[newest[i]].slot]]
<1>4. DOMAIN newest = 1..n /\ \A i \in 1..n : newest[i] \in signatures
  BY <1>3a
<1>5. \A s \in signatures :
        /\ classify(s, unserved) \in {"unknown", log[s].kind}
        /\ s \notin unserved => classify(s, unserved) = log[s].kind
        /\ log[s].kind \in Kinds /\ log[s].slot \in Int /\ s \in Nat
  <2>1. \A s \in signatures : log[s] \in LogEntry
    OBVIOUS
  <2>2. \A s \in signatures : log[s].kind \in Kinds /\ log[s].slot \in Int
    BY <2>1 DEF LogEntry
  <2> QED BY <1>2, <2>2 DEF classify, RECEIPT_TRANSACTION_KINDS
<1>6. /\ DOMAIN read = 1..n
      /\ \A i \in 1..n : /\ read[i].signature = newest[i]
                         /\ read[i].kind = classify(newest[i], unserved)
                         /\ read[i].slot = log[newest[i]].slot
                         /\ read[i] \in Listed
  BY <1>4, <1>5 DEF Listed
<1>7. read \in Seq(Listed)
  <2>1. read = [i \in 1..n |-> read[i]]
    BY <1>4
  <2> HIDE DEF read
  <2> QED BY <1>6, <2>1
<1>8. txs = BySlot(read)
  BY <1>3a DEF collectTruebookTransactions
<1> HIDE DEF read
<1>9. IsListing(read)
  BY <1>3a, <1>4, <1>6, <1>7 DEF IsListing
<1>10. /\ IsHistory(txs)
       /\ \A j \in DOMAIN txs : \E p \in 1..n : txs[j] = read[p]
       /\ \A p \in 1..n : \E j \in DOMAIN txs : txs[j] = read[p]
  <2>1. IsHistory(txs) /\ ListsAlike(txs, read)
    BY <1>8, <1>9, SortedHistory
  <2> QED BY <1>6, <2>1 DEF ListsAlike
<1>11. ASSUME NEW j \in DOMAIN txs
       PROVE  /\ txs[j].signature \in signatures
              /\ txs[j].kind \in {"unknown", log[txs[j].signature].kind}
  <2>1. PICK p \in 1..n : txs[j] = read[p]
    BY <1>10
  <2>2. PICK s \in signatures : s = newest[p]
    BY <1>4
  <2>3. txs[j].signature = s /\ txs[j].kind = classify(s, unserved)
    BY <1>6, <2>1, <2>2
  <2> QED BY <1>5, <2>3
<1>12. ASSUME NEW s \in signatures
       PROVE  \E j \in DOMAIN txs : /\ txs[j].signature = s
                                    /\ s \notin unserved => txs[j].kind = log[s].kind
  <2>1. PICK p \in 1..n : newest[p] = s
    BY <1>3a
  <2>2. PICK j \in DOMAIN txs : txs[j] = read[p]
    BY <1>10
  <2> QED BY <1>5, <1>6, <2>1, <2>2
<1> QED BY <1>10, <1>11, <1>12 DEF IsListOf

\* The verifications of an outcome that a ticket's own list does not have.
LEMMA VerificationsAreListed ==
    ASSUME NEW known, NEW found, IsListing(found), NEW news, news = Verifications(known, found)
    PROVE  /\ IsListing(news)
           /\ \A j \in DOMAIN news :
                /\ IsNews(news[j], known)
                /\ \E i \in DOMAIN found : news[j] = found[i] /\ found[i].kind = "verifyMarket"
<1> DEFINE chosen == {i \in DOMAIN found :
                         found[i].kind = "verifyMarket" /\ IsNews(found[i], known)}
<1>1. PICK l \in Nat : DOMAIN found = 1..l
  BY DEF IsListing
<1>2. chosen \in SUBSET (1..l)
  BY <1>1
<1>3. PICK ahead : ahead = [i \in chosen |-> {j \in chosen : j < i}]
  OBVIOUS
<1>4. IsFiniteSet(chosen)
  <2>1. IsFiniteSet(1..l)
    BY FS_Interval
  <2> HIDE DEF chosen
  <2> QED BY <1>2, <2>1, FS_Subset
<1>5. news = [i \in DOMAIN InOrder(ahead) |-> found[InOrder(ahead)[i]]]
  BY <1>3 DEF Verifications
<1>6. \A i \in chosen : /\ i \in DOMAIN found /\ found[i].kind = "verifyMarket"
                        /\ IsNews(found[i], known)
  OBVIOUS
<1> HIDE DEF chosen
<1>7. /\ chosen = DOMAIN ahead
      /\ \A a, b \in chosen : b \in ahead[a] <=> b < a
      /\ \A a \in chosen : ahead[a] \in SUBSET chosen
  BY <1>3
<1>8. IsStrictOrder(ahead)
  BY <1>2, <1>4, <1>7 DEF IsStrictOrder
<1>9. PICK n, order : n \in Nat /\ order = InOrder(ahead) /\ IsOrdered(order, n, ahead)
  BY <1>8, Ordering
<1>10. order \in [1..n -> chosen] /\ \A i, j \in 1..n : i # j => order[i] # order[j]
  BY <1>7, <1>9 DEF IsOrdered
<1>11. /\ DOMAIN news = 1..n /\ news = [i \in 1..n |-> found[order[i]]]
       /\ \A i \in 1..n : news[i] = found[order[i]] /\ order[i] \in chosen
  BY <1>5, <1>9, <1>10
<1>12. \A i \in DOMAIN found : found[i] \in Listed
  BY DEF IsListing
<1>13. news \in Seq(Listed)
  BY <1>6, <1>9, <1>11, <1>12
<1>14. IsListing(news)
  BY <1>6, <1>10, <1>11, <1>13 DEF IsListing
<1> QED BY <1>6, <1>11, <1>14

\* What anchored the outcome goes among the ticket's own transactions.
LEMMA MergedHistory ==
    ASSUME NEW known, NEW found, IsHistory(known), IsHistory(found),
           NEW txs, txs = Merged(known, found)
    PROVE  /\ IsHistory(txs)
           /\ \A i \in DOMAIN known : \E j \in DOMAIN txs : txs[j] = known[i]
           /\ \A j \in DOMAIN txs :
                \/ \E i \in DOMAIN known : txs[j] = known[i]
                \/ \E i \in DOMAIN found : txs[j] = found[i] /\ found[i].kind = "verifyMarket"
<1>1. PICK news : news = Verifications(known, found)
  OBVIOUS
<1>2. /\ IsListing(known) /\ IsListing(news)
      /\ \A j \in DOMAIN news :
           /\ IsNews(news[j], known)
           /\ \E i \in DOMAIN found : news[j] = found[i] /\ found[i].kind = "verifyMarket"
  BY <1>1, VerificationsAreListed DEF IsHistory
<1>3. PICK both : both = known \o news
  OBVIOUS
<1>4. PICK k \in Nat, l \in Nat : k = Len(known) /\ l = Len(news)
  BY <1>2 DEF IsListing
<1>5. /\ both \in Seq(Listed) /\ DOMAIN both = 1..(k + l)
      /\ DOMAIN known = 1..k /\ DOMAIN news = 1..l
      /\ \A i \in 1..k : both[i] = known[i]
      /\ \A i \in (k + 1)..(k + l) : both[i] = news[i - k]
  BY <1>2, <1>3, <1>4 DEF IsListing
<1>6. \A i \in 1..l : both[k + i] = news[i] /\ k + i \in DOMAIN both
  <2> SUFFICES ASSUME NEW i \in 1..l
               PROVE  both[k + i] = news[i] /\ k + i \in DOMAIN both
    OBVIOUS
  <2>1. k + i \in (k + 1)..(k + l) /\ (k + i) - k = i
    BY <1>4
  <2> QED BY <1>4, <1>5, <2>1
<1>7. \A p \in 1..(k + l) : p \in 1..k \/ \E i \in 1..l : p = k + i
  <2> SUFFICES ASSUME NEW p \in 1..(k + l), p \notin 1..k
               PROVE  \E i \in 1..l : p = k + i
    OBVIOUS
  <2>1. p - k \in 1..l /\ p = k + (p - k)
    BY <1>4
  <2> QED BY <2>1
<1>8. IsListing(both)
  <2>1. ASSUME NEW p \in 1..(k + l)
        PROVE  both[p].signature \in DOMAIN log /\ both[p].slot = log[both[p].signature].slot
    <3>1. CASE p \in 1..k
      BY <1>2, <1>5, <3>1 DEF IsListing
    <3>2. CASE p \notin 1..k
      <4>1. PICK i \in 1..l : p = k + i
        BY <1>7, <3>2
      <4>2. both[p] = news[i] /\ i \in DOMAIN news
        BY <1>5, <1>6, <4>1
      <4> QED BY <1>2, <4>2 DEF IsListing
    <3> QED BY <3>1, <3>2
  <2>2. ASSUME NEW p \in 1..(k + l), NEW q \in 1..(k + l), p # q
        PROVE  both[p].signature # both[q].signature
    <3>1. ASSUME NEW i \in 1..k, NEW j \in 1..l
          PROVE  known[i].signature # news[j].signature
      BY <1>2, <1>5 DEF IsNews
    <3>2. CASE p \in 1..k /\ q \in 1..k
      <4>1. /\ p \in DOMAIN known /\ both[p] = known[p]
            /\ q \in DOMAIN known /\ both[q] = known[q]
        BY <1>5, <3>2
      <4>2. known[p].signature # known[q].signature
        BY <1>2, <2>2, <4>1 DEF IsListing
      <4> QED BY <4>1, <4>2
    <3>3. CASE p \in 1..k /\ q \notin 1..k
      BY <1>5, <1>6, <1>7, <3>1, <3>3
    <3>4. CASE p \notin 1..k /\ q \in 1..k
      BY <1>5, <1>6, <1>7, <3>1, <3>4
    <3>5. CASE p \notin 1..k /\ q \notin 1..k
      <4>1. PICK i \in 1..l, j \in 1..l : p = k + i /\ q = k + j
        BY <1>7, <3>5
      <4>2. i # j
        BY <2>2, <4>1
      <4>3. both[p] = news[i] /\ both[q] = news[j] /\ i \in DOMAIN news /\ j \in DOMAIN news
        BY <1>5, <1>6, <4>1
      <4> QED BY <1>2, <4>2, <4>3 DEF IsListing
    <3> QED BY <3>2, <3>3, <3>4, <3>5
  <2> QED BY <1>5, <2>1, <2>2 DEF IsListing
<1>9. /\ IsHistory(txs)
      /\ \A j \in DOMAIN txs : \E p \in DOMAIN both : txs[j] = both[p]
      /\ \A p \in DOMAIN both : \E j \in DOMAIN txs : txs[j] = both[p]
  <2>1. txs = BySlot(both)
    BY <1>1, <1>3 DEF Merged
  <2> QED BY <1>8, <2>1, SortedHistory DEF ListsAlike
<1>10. ASSUME NEW i \in DOMAIN known
       PROVE  \E j \in DOMAIN txs : txs[j] = known[i]
  <2>1. i \in DOMAIN both /\ both[i] = known[i]
    BY <1>4, <1>5
  <2> QED BY <1>9, <2>1
<1>11. ASSUME NEW j \in DOMAIN txs
       PROVE  \/ \E i \in DOMAIN known : txs[j] = known[i]
              \/ \E i \in DOMAIN found : txs[j] = found[i] /\ found[i].kind = "verifyMarket"
  <2>1. PICK p \in 1..(k + l) : txs[j] = both[p]
    BY <1>5, <1>9
  <2>2. CASE p \in 1..k
    BY <1>5, <2>1, <2>2
  <2>3. CASE p \notin 1..k
    <3>1. PICK i \in 1..l : p = k + i
      BY <1>7, <2>3
    <3>2. txs[j] = news[i] /\ i \in DOMAIN news
      BY <1>5, <1>6, <2>1, <3>1
    <3> QED BY <1>2, <3>2
  <2> QED BY <2>2, <2>3
<1> QED BY <1>9, <1>10, <1>11

\* A receipt that only moves on to its history, or through it, stays sound.
LEMMA AlikeIsSound ==
    ASSUME NEW e, Sound(e), IsShaped(e), e.stage \in {"TicketTransactions", "OutcomeTransactions"},
           NEW stage \in PastHistory, NEW txs,
           NEW f, f = [stage |-> stage, by |-> e.by, key |-> e.key, unread |-> e.unread,
                   ticket |-> e.ticket, market |-> e.market, outcome |-> e.outcome,
                   cashOut |-> e.cashOut, odds |-> e.odds, stat |-> e.stat,
                   cashOutOdds |-> e.cashOutOdds, transactions |-> txs]
    PROVE  Sound(f)
<1>1. /\ e.cashOut.exists => IsOddsProof(e, e.cashOutOdds, e.cashOut.odds_record)
      /\ ~e.cashOut.exists => e.cashOutOdds = None
      /\ e.outcome = None => e.stat = None
      /\ e.outcome # None => IsStatProof(e, e.stat)
      /\ IsOddsProof(e, e.odds, e.ticket.odds_record)
  BY DEF Sound, OddsAreFetched, StatIsFetched, SaleOddsAreFetched, PastOdds, PastStat, PastSale
<1>2. /\ f.cashOut.exists => IsOddsProof(f, f.cashOutOdds, f.cashOut.odds_record)
      /\ IsOddsProof(f, f.odds, f.ticket.odds_record)
  BY <1>1 DEF IsOddsProof
<1>3. f.outcome # None => IsStatProof(f, f.stat)
  BY <1>1 DEF IsStatProof
<1>4. f.outcome = None => f.stat = None
  BY <1>1
<1>5. ~f.cashOut.exists => f.cashOutOdds = None
  BY <1>1
<1> QED BY <1>2, <1>3, <1>4, <1>5 DEF Sound, IsExport, TicketIsRead, MarketIsRead, SaleIsRead, OddsAreFetched,
         StatIsFetched, SaleOddsAreFetched, Stages, PastTicket, PastMarket, PastAccounts,
         PastOdds, PastStat, PastSale, PastHistory

\* The history read leaves the receipt sound.
FindsHistory == \E e : exporting' = e /\ Sound(e) /\ HistoryIsRead(e)'

LEMMA CollectTicketFinds ==
    ASSUME ReceiptsInv, CollectTicket, log' = log
    PROVE  FindsHistory
<1>1. PICK e : e = exporting /\ Sound(e) /\ IsShaped(e)
  BY DEF ReceiptsInv, ExportInv, Sound, IsExport, IsShaped
<1>2. e.stage = "TicketTransactions" /\ e.key \in TicketIds
  BY <1>1 DEF CollectTicket, At, Sound, IsExport
<1>3. PICK txs, unserved :
        /\ txs = collectTruebookTransactions(OfTicket(e.key), unserved)
        /\ unserved # {} => faults' > 0
        /\ Goes(AfterTransactions(exporting), [exporting EXCEPT !.transactions = txs])
  <2>1. CASE Answered /\ Goes(AfterTransactions(exporting),
               [exporting EXCEPT !.transactions = collectTruebookTransactions(OfTicket(e.key), {})])
    BY <2>1
  <2>2. CASE /\ Fault
             /\ \E i \in OfTicket(e.key) : Goes(AfterTransactions(exporting),
                  [exporting EXCEPT !.transactions =
                     collectTruebookTransactions(OfTicket(e.key), {i})])
    <3>1. faults' > 0
      BY <2>2 DEF Fault, ReceiptsInv
    <3> QED BY <2>2, <3>1
  <2> QED BY <1>1, <2>1, <2>2 DEF CollectTicket, Collected
<1>4. PICK stage \in PastHistory : stage = AfterTransactions(e)
  BY DEF AfterTransactions, PastHistory
<1>5. PICK f : f = [stage |-> stage, by |-> e.by, key |-> e.key, unread |-> e.unread,
              ticket |-> e.ticket, market |-> e.market, outcome |-> e.outcome,
              cashOut |-> e.cashOut, odds |-> e.odds, stat |-> e.stat,
              cashOutOdds |-> e.cashOutOdds, transactions |-> txs]
  OBVIOUS
<1>6. exporting' = f
  <2>1. PICK read : read = [e EXCEPT !.transactions = txs]
    OBVIOUS
  <2>2. exporting' = [read EXCEPT !.stage = stage]
    BY <1>1, <1>3, <1>4, <2>1 DEF Goes, Becomes
  <2>3. IsShaped(e)
    BY <1>1
  <2>4. read = [stage |-> e.stage, by |-> e.by, key |-> e.key, unread |-> e.unread,
               ticket |-> e.ticket, market |-> e.market, outcome |-> e.outcome,
               cashOut |-> e.cashOut, odds |-> e.odds, stat |-> e.stat,
               cashOutOdds |-> e.cashOutOdds, transactions |-> txs]
    BY <2>1, <2>3 DEF IsShaped
  <2> QED BY <1>5, <2>2, <2>4
<1>7. Sound(f)
  BY <1>1, <1>2, <1>4, <1>5, AlikeIsSound DEF PastHistory
<1>8. IsHistory(txs) /\ IsListOf(txs, OfTicket(e.key), unserved)
  <2>1. PICK sigs \in SUBSET DOMAIN log : sigs = OfTicket(e.key)
    BY DEF OfTicket
  <2>2. txs = collectTruebookTransactions(sigs, unserved)
    BY <1>3, <2>1
  <2>3. log \in Seq(LogEntry)
    BY DEF ReceiptsInv
  <2>4. IsHistory(txs) /\ IsListOf(txs, sigs, unserved)
    BY <2>2, <2>3, CollectedHistory
  <2> QED BY <2>1, <2>4
<1>9. ASSUME NEW kind \in Kinds, Happened(kind, e.key)
      PROVE  Names(txs, kind)'
  <2>1. PICK i \in OfTicket(e.key) : log[i].kind = kind
    BY <1>9 DEF Happened, OfTicket
  <2>2. PICK j \in DOMAIN txs :
          /\ txs[j].signature = i
          /\ i \notin unserved => txs[j].kind = log[i].kind
    BY <1>8 DEF IsListOf
  <2>3. txs[j].kind = kind \/ (faults' > 0 /\ txs[j].kind = "unknown")
    BY <1>3, <1>8, <2>1, <2>2 DEF IsListOf
  <2> QED BY <2>3 DEF Names
<1>10. ASSUME NEW kind \in Kinds, TicketTells(e.ticket, kind) \/ SaleTells(e.cashOut, kind)
       PROVE  Happened(kind, e.key)
  BY <1>1, <1>2, <1>10 DEF Sound, TicketIsRead, TicketIsBacked, SaleIsRead, SaleIsBacked,
     PastTicket, PastMarket, PastAccounts, PastOdds, PastStat
<1>11. HistoryTells(f, txs)'
  <2>1. \A j \in DOMAIN txs : e.key \in log[txs[j].signature].tickets
    BY <1>8 DEF OfTicket, IsListOf
  <2>2. f.ticket = e.ticket /\ f.cashOut = e.cashOut /\ f.key = e.key
    BY <1>5
  <2> QED BY <1>9, <1>10, <2>1, <2>2 DEF HistoryTells
<1>12. IsHistory(txs)'
  BY <1>8 DEF IsHistory, IsListing
<1>13. HistoryIsRead(f)'
  BY <1>5, <1>11, <1>12 DEF HistoryIsRead
<1> QED BY <1>6, <1>7, <1>13 DEF FindsHistory

LEMMA CollectOutcomeFinds ==
    ASSUME ReceiptsInv, CollectOutcome, log' = log, faults' \in Nat, faults <= faults'
    PROVE  FindsHistory
<1>1. PICK e : e = exporting /\ Sound(e) /\ IsShaped(e)
  BY DEF ReceiptsInv, ExportInv, Sound, IsExport, IsShaped
<1>2. e.stage = "OutcomeTransactions" /\ e.key \in TicketIds
  BY <1>1 DEF CollectOutcome, At, Sound, IsExport
<1>3. PICK ms : ms = OfOutcome(exporting.ticket.market)
  OBVIOUS
<1>4. PICK found, unserved :
        /\ found = collectTruebookTransactions(ms, unserved)
        /\ Goes("Exported", [exporting EXCEPT !.transactions = Merged(exporting.transactions, found)])
  BY <1>3 DEF CollectOutcome, Collected
<1>5. PICK known, txs : known = e.transactions /\ txs = Merged(known, found)
  OBVIOUS
<1>6. PICK f : f = [stage |-> "Exported", by |-> e.by, key |-> e.key, unread |-> e.unread,
              ticket |-> e.ticket, market |-> e.market, outcome |-> e.outcome,
              cashOut |-> e.cashOut, odds |-> e.odds, stat |-> e.stat,
              cashOutOdds |-> e.cashOutOdds, transactions |-> txs]
  OBVIOUS
<1>7. exporting' = f
  <2>1. PICK read : read = [e EXCEPT !.transactions = txs]
    OBVIOUS
  <2>2. exporting' = [read EXCEPT !.stage = "Exported"]
    BY <1>1, <1>4, <1>5, <2>1 DEF Goes, Becomes
  <2>3. IsShaped(e)
    BY <1>1
  <2>4. read = [stage |-> e.stage, by |-> e.by, key |-> e.key, unread |-> e.unread,
               ticket |-> e.ticket, market |-> e.market, outcome |-> e.outcome,
               cashOut |-> e.cashOut, odds |-> e.odds, stat |-> e.stat,
               cashOutOdds |-> e.cashOutOdds, transactions |-> txs]
    BY <2>1, <2>3 DEF IsShaped
  <2> QED BY <1>6, <2>2, <2>4
<1>8. Sound(f)
  BY <1>1, <1>2, <1>6, AlikeIsSound DEF PastHistory
<1>9. IsHistory(known) /\ HistoryTells(e, known)
  BY <1>1, <1>2, <1>5 DEF ReceiptsInv, ExportInv, HistoryIsRead, PastHistory
<1>10. /\ IsHistory(found)
       /\ \A j \in DOMAIN found : found[j].kind \in {"unknown", log[found[j].signature].kind}
  <2>1. log \in Seq(LogEntry) /\ ms \in SUBSET DOMAIN log
    BY <1>3 DEF ReceiptsInv, OfOutcome
  <2>2. IsListOf(found, ms, unserved) /\ IsHistory(found)
    BY <1>4, <2>1, CollectedHistory DEF ReceiptsInv
  <2> QED BY <2>2 DEF IsListOf
<1>11. /\ IsHistory(txs)
       /\ \A i \in DOMAIN known : \E j \in DOMAIN txs : txs[j] = known[i]
       /\ \A j \in DOMAIN txs :
            \/ \E i \in DOMAIN known : txs[j] = known[i]
            \/ \E i \in DOMAIN found : txs[j] = found[i] /\ found[i].kind = "verifyMarket"
  BY <1>5, <1>9, <1>10, MergedHistory DEF ReceiptsInv
<1>12. ASSUME NEW kind \in Kinds, TicketTells(e.ticket, kind) \/ SaleTells(e.cashOut, kind)
       PROVE  Names(txs, kind)'
  <2>1. PICK i \in DOMAIN known :
          known[i].kind = kind \/ (faults > 0 /\ known[i].kind = "unknown")
    BY <1>9, <1>12 DEF HistoryTells, Names
  <2>2. PICK j \in DOMAIN txs : txs[j] = known[i]
    BY <1>11
  <2>3. faults > 0 => faults' > 0
    BY DEF ReceiptsInv
  <2> QED BY <2>1, <2>2, <2>3 DEF Names
<1>13. \A j \in DOMAIN txs :
         \/ e.key \in log[txs[j].signature].tickets
         \/ log[txs[j].signature].kind = "verifyMarket"
  BY <1>9, <1>10, <1>11 DEF HistoryTells
<1>14. HistoryTells(f, txs)'
  <2>1. f.ticket = e.ticket /\ f.cashOut = e.cashOut /\ f.key = e.key
    BY <1>6
  <2> QED BY <1>12, <1>13, <2>1 DEF HistoryTells
<1>15. IsHistory(txs)'
  BY <1>11 DEF IsHistory, IsListing
<1>16. HistoryIsRead(f)'
  BY <1>6, <1>14, <1>15 DEF HistoryIsRead
<1> QED BY <1>7, <1>8, <1>16 DEF FindsHistory

-----------------------------------------------------------------------------
(* Every step keeps the invariant.                                         *)

\* Assembling changes nothing on the chain, and at most adds a failure.
LEMMA BuildChangesNothing ==
    ASSUME ReceiptsInv, buildTicketReceipt
    PROVE  /\ ChainKept /\ WorldKept
           /\ faults' \in Nat /\ faults <= faults' /\ log' = log
<1>1. UNCHANGED vars /\ log' = log
  BY DEF buildTicketReceipt
<1>2. NumberingInv' /\ TermsKept
  BY <1>1, TermsNext DEF ReceiptsInv
<1>3. HistoryKept /\ log' \in Seq(LogEntry)
  BY <1>1 DEF HistoryKept, ReceiptsInv
<1>4. UNCHANGED <<ticket, receipt>> /\ market' = market
  BY <1>1 DEF vars, accounts
<1>5. AccountsAreBacked'
  BY <1>3, <1>4, NothingTold DEF ReceiptsInv
<1>6. QuestionsAreMapped'
  BY <1>4 DEF ReceiptsInv, QuestionsAreMapped
<1>7. Answered \/ Fault
  <2>1. CASE \E t \in TicketIds : ReadTicket(t)
    BY <2>1 DEF ReadTicket
  <2>2. CASE ReadMarket
    BY <2>2 DEF ReadMarket
  <2>3. CASE \E name \in {"outcome", "cashOut"} : ReadAccount(name)
    BY <2>3 DEF ReadAccount
  <2>4. CASE FetchOdds
    BY <2>4 DEF FetchOdds, Fetch
  <2>5. CASE FetchStat
    BY <2>5 DEF FetchStat, Fetch
  <2>6. CASE FetchCashOutOdds
    BY <2>6 DEF FetchCashOutOdds, Fetch
  <2>7. CASE CollectTicket
    BY <2>7 DEF CollectTicket, Collected
  <2>8. CASE CollectOutcome
    BY <2>8 DEF CollectOutcome, Collected
  <2>9. CASE ReadFails
    BY <2>9 DEF ReadFails
  <2> QED BY <2>1, <2>2, <2>3, <2>4, <2>5, <2>6, <2>7, <2>8, <2>9 DEF buildTicketReceipt
<1>8. faults' \in Nat /\ faults <= faults'
  <2>1. faults \in Nat /\ (faults' = faults \/ faults' = faults + 1)
    BY <1>7 DEF ReceiptsInv, Answered, Fault, txVars
  <2> QED BY <2>1
<1>9. WorldKept
  BY <1>2, <1>3, <1>8 DEF WorldKept, ReceiptsInv
<1> QED BY <1>1, <1>2, <1>3, <1>5, <1>6, <1>8, <1>9 DEF ChainKept

\* The receipt is what a read found, in the state after it.
LEMMA FindsKeeps ==
    ASSUME WorldKept, Finds \/ FindsHistory
    PROVE  ExportInv'
<1>1. CASE Finds
  <2>1. PICK e : exporting' = e /\ Sound(e) /\ e.stage \notin PastHistory
    BY <1>1 DEF Finds
  <2>2. Sound(e)'
    BY <2>1, StaysSound
  <2>3. HistoryIsRead(e)'
    BY <2>1 DEF HistoryIsRead
  <2> QED BY <2>1, <2>2, <2>3, Assembled
<1>2. CASE FindsHistory
  <2>1. PICK e : exporting' = e /\ Sound(e) /\ HistoryIsRead(e)'
    BY <1>2 DEF FindsHistory
  <2>2. Sound(e)'
    BY <2>1, StaysSound
  <2> QED BY <2>1, <2>2, Assembled
<1> QED BY <1>1, <1>2

LEMMA BuildKeeps ==
    ASSUME ReceiptsInv, buildTicketReceipt
    PROVE  ReceiptsInv'
<1>1. /\ ChainKept /\ WorldKept
      /\ faults' \in Nat /\ faults <= faults' /\ log' = log
  BY BuildChangesNothing
<1>2. Finds \/ FindsHistory
  <2>1. CASE \E t \in TicketIds : ReadTicket(t)
    BY <2>1, ReadTicketFinds
  <2>2. CASE ReadMarket
    BY <2>2, ReadMarketFinds
  <2>3. CASE \E name \in {"outcome", "cashOut"} : ReadAccount(name)
    BY <2>3, ReadAccountFinds
  <2>4. CASE FetchOdds
    BY <2>4, FetchOddsFinds
  <2>5. CASE FetchStat
    BY <2>5, FetchStatFinds
  <2>6. CASE FetchCashOutOdds
    BY <2>6, FetchCashOutOddsFinds
  <2>7. CASE CollectTicket
    BY <1>1, <2>7, CollectTicketFinds
  <2>8. CASE CollectOutcome
    BY <1>1, <2>8, CollectOutcomeFinds
  <2>9. CASE ReadFails
    <3>1. Fails /\ ~At("Idle")
      BY <2>9 DEF ReadFails, At
    <3>2. ExportInv
      BY DEF ReceiptsInv
    <3> QED BY <3>1, <3>2, FailsSoundly
  <2> QED BY <2>1, <2>2, <2>3, <2>4, <2>5, <2>6, <2>7, <2>8, <2>9 DEF buildTicketReceipt
<1>3. ExportInv'
  BY <1>1, <1>2, FindsKeeps
<1> QED BY <1>1, <1>3 DEF ReceiptsInv, ChainKept

\* An export that has read nothing yet is sound whatever is on the chain.
LEMMA NothingReadIsSound ==
    ASSUME NEW by, NEW t \in TicketIds \cup {1}, NEW stage \in {"Idle", "Ticket"},
           t \in TicketIds \/ stage = "Idle",
           NEW f, f = [stage |-> stage, by |-> by, key |-> t, unread |-> {}, ticket |-> NoTicket,
                   market |-> NoMarket, outcome |-> None, cashOut |-> NoReceipt, odds |-> None,
                   stat |-> None, cashOutOdds |-> None, transactions |-> <<>>]
    PROVE  Sound(f) /\ f.stage \notin PastHistory
<1>1. SaleIsBacked(f.cashOut, f.key)
  <2>1. /\ f.cashOut.exists = FALSE /\ f.cashOut.made_whole = FALSE
        /\ f.cashOut.audit_status = "Unaudited"
    BY DEF NoReceipt
  <2> QED BY <2>1 DEF SaleIsBacked, SaleTells
<1>2. IsExport(f)
  BY DEF IsExport, Stages, PastTicket, PastMarket, PastAccounts, PastOdds, PastStat
<1>3. f.stage = stage /\ f.stat = None /\ f.cashOutOdds = None
  OBVIOUS
<1> QED BY <1>1, <1>2, <1>3 DEF Sound, TicketIsRead, MarketIsRead, SaleIsRead, OddsAreFetched,
       StatIsFetched, SaleOddsAreFetched, PastHistory, PastTicket, PastMarket, PastAccounts,
       PastOdds, PastStat, PastSale

LEMMA StartKeeps ==
    ASSUME ReceiptsInv, NEW t \in TicketIds, exportTicketReceipt(t) \/ handleDownload(t)
    PROVE  ReceiptsInv'
<1>1. UNCHANGED <<vars, txVars, claimed, log>>
  BY DEF exportTicketReceipt, handleDownload
<1>2. PICK by : exporting' = [stage |-> "Ticket", by |-> by, key |-> t, unread |-> {},
                   ticket |-> NoTicket, market |-> NoMarket, outcome |-> None,
                   cashOut |-> NoReceipt, odds |-> None, stat |-> None, cashOutOdds |-> None,
                   transactions |-> <<>>]
  <2>1. CASE exportTicketReceipt(t)
    BY <2>1 DEF exportTicketReceipt, NoExport
  <2>2. CASE handleDownload(t)
    BY <2>2 DEF handleDownload, GET, NoExport
  <2> QED BY <2>1, <2>2
<1>3. Finds
  BY <1>2, NothingReadIsSound DEF Finds
<1>4. faults' = faults /\ faults \in Nat /\ log' = log /\ UNCHANGED vars
  BY <1>1 DEF txVars, ReceiptsInv
<1>5. NumberingInv' /\ TermsKept
  BY <1>4, TermsNext DEF ReceiptsInv
<1>6. HistoryKept /\ log' \in Seq(LogEntry)
  BY <1>4 DEF HistoryKept, ReceiptsInv
<1>7. UNCHANGED <<ticket, receipt>> /\ market' = market
  BY <1>4 DEF vars, accounts
<1>8. AccountsAreBacked'
  BY <1>6, <1>7, NothingTold DEF ReceiptsInv
<1>9. QuestionsAreMapped'
  BY <1>7 DEF ReceiptsInv, QuestionsAreMapped
<1>10. ExportInv'
  <2>1. WorldKept
    BY <1>4, <1>5, <1>6 DEF WorldKept
  <2> QED BY <1>3, <2>1, FindsKeeps
<1> QED BY <1>4, <1>5, <1>6, <1>8, <1>9, <1>10 DEF ReceiptsInv

LEMMA ReceiptsInvNext == ReceiptsInv /\ [ReceiptsNext]_receiptVars => ReceiptsInv'
<1> SUFFICES ASSUME ReceiptsInv, [ReceiptsNext]_receiptVars
             PROVE  ReceiptsInv'
  OBVIOUS
<1>1. CASE ChainActs
  <2>1. ChainKept /\ UNCHANGED <<exporting, faults>>
    BY <1>1, ChainKeeps DEF ReceiptsInv
  <2>2. ExportInv'
    BY <2>1, ChainKeepsExport DEF ReceiptsInv
  <2> QED BY <2>1, <2>2 DEF ReceiptsInv, ChainKept
<1>2. CASE buildTicketReceipt
  BY <1>2, BuildKeeps
<1>3. CASE \E t \in TicketIds : exportTicketReceipt(t) \/ handleDownload(t)
  BY <1>3, StartKeeps
<1>4. CASE UNCHANGED receiptVars
  <2>1. UNCHANGED <<vars, faults, log, exporting>>
    BY <1>4 DEF receiptVars, txVars
  <2>2. UNCHANGED <<ticket, receipt, market>>
    BY <2>1 DEF vars, accounts
  <2>3. NumberingInv' /\ TermsKept
    BY <2>1, TermsNext DEF ReceiptsInv
  <2>4. HistoryKept /\ log' \in Seq(LogEntry)
    BY <2>1 DEF HistoryKept, ReceiptsInv
  <2>5. AccountsAreBacked'
    BY <2>2, <2>4, NothingTold DEF ReceiptsInv
  <2>6. QuestionsAreMapped'
    BY <2>2 DEF ReceiptsInv, QuestionsAreMapped
  <2>7. ChainKept /\ UNCHANGED <<exporting, faults>>
    BY <2>1, <2>3, <2>4, <2>5, <2>6 DEF ChainKept
  <2>8. ExportInv'
    BY <2>7, ChainKeepsExport DEF ReceiptsInv
  <2> QED BY <2>7, <2>8 DEF ReceiptsInv, ChainKept
<1> QED BY <1>1, <1>2, <1>3, <1>4 DEF ReceiptsNext

-----------------------------------------------------------------------------
(* The invariant holds at first.                                           *)

LEMMA ReceiptsInvInit == ReceiptsInit => ReceiptsInv
<1> SUFFICES ASSUME ReceiptsInit
             PROVE  ReceiptsInv
  OBVIOUS
<1>1. /\ market = MarketsAtFirst /\ ticket = SoldTickets
      /\ receipt = [t \in TicketIds |-> NoReceipt]
      /\ faults = 0 /\ exporting = NoExport
      /\ log = [t \in {u \in TicketIds : SoldTickets[u].state # "Vacant"}
                  |-> Entry("placeBet", {t}, {}, 0)]
  BY DEF ReceiptsInit, BookWith, TxInit
<1>2. PICK n \in 0..NumTickets : \A t \in TicketIds :
        IF t > n THEN SoldTickets[t] = NoTicket
        ELSE SoldTickets[t].state = "Live" /\ SoldTickets[t].audit_status = "Unaudited"
  BY BookAssumption DEF IsBook
<1>3. {u \in TicketIds : SoldTickets[u].state # "Vacant"} = 1..n
  <2>1. \A t \in TicketIds : SoldTickets[t].state # "Vacant" <=> t <= n
    BY <1>2, BoundsAssumption DEF TicketIds, NoTicket
  <2> QED BY <2>1, BoundsAssumption DEF TicketIds
<1>4. log = [t \in 1..n |-> Entry("placeBet", {t}, {}, 0)] /\ 1..n \subseteq TicketIds
  BY <1>1, <1>3, BoundsAssumption DEF TicketIds
<1>5. log \in Seq(LogEntry)
  <2>1. \A t \in 1..n : Entry("placeBet", {t}, {}, 0) \in LogEntry
    BY <1>4 DEF Entry, LogEntry, Kinds
  <2>2. n \in Nat
    BY BoundsAssumption
  <2> QED BY <1>4, <2>1, <2>2
<1>6. AccountsAreBacked
  <2>1. ASSUME NEW t \in TicketIds
        PROVE  /\ ticket[t].state # "Vacant" => TicketIsBacked(ticket[t], t)
               /\ SaleIsBacked(receipt[t], t)
               /\ ticket[t].state = "CashedOut" => receipt[t].exists
    <3>1. SaleIsBacked(receipt[t], t)
      <4>1. /\ receipt[t].exists = FALSE /\ receipt[t].made_whole = FALSE
            /\ receipt[t].audit_status = "Unaudited"
        BY <1>1 DEF NoReceipt
      <4> QED BY <4>1 DEF SaleIsBacked, SaleTells
    <3>2. CASE ticket[t].state # "Vacant"
      <4>1. t \in 1..n /\ ticket[t].state = "Live" /\ ticket[t].audit_status = "Unaudited"
        BY <1>1, <1>2, <1>3, <3>2, BoundsAssumption DEF TicketIds
      <4>2. Happened("placeBet", t)
        BY <1>4, <4>1 DEF Happened, Entry
      <4>3. \A kind \in Kinds : TicketTells(ticket[t], kind) => kind = "placeBet"
        BY <4>1 DEF TicketTells
      <4> QED BY <3>1, <4>1, <4>2, <4>3 DEF TicketIsBacked
    <3> QED BY <3>1, <3>2
  <2> QED BY <2>1 DEF AccountsAreBacked
<1>7. QuestionsAreMapped
  BY <1>1 DEF QuestionsAreMapped, Questions, NoMarket
<1>8. ExportInv
  <2>1. PICK f : f = exporting
    OBVIOUS
  <2>2. f = [stage |-> "Idle", by |-> "keeper", key |-> 1, unread |-> {}, ticket |-> NoTicket,
             market |-> NoMarket, outcome |-> None, cashOut |-> NoReceipt, odds |-> None,
             stat |-> None, cashOutOdds |-> None, transactions |-> <<>>]
    BY <1>1, <2>1 DEF NoExport
  <2>3. Sound(f) /\ f.stage \notin PastHistory
    BY <2>2, NothingReadIsSound
  <2> QED BY <2>1, <2>3 DEF ExportInv, HistoryIsRead
<1>9. NumberingInv
  <2>1. PaymentInv
    BY BookAssumption, BookAtFirst DEF ReceiptsInit
  <2> QED BY <2>1 DEF PaymentInv, VerdictInv
<1> QED BY <1>1, <1>5, <1>6, <1>7, <1>8, <1>9 DEF ReceiptsInv

LEMMA ReceiptsInvariant == ReceiptsSpec => []ReceiptsInv
<1>1. ReceiptsInit => ReceiptsInv
  BY ReceiptsInvInit
<1>2. ReceiptsInv /\ [ReceiptsNext]_receiptVars => ReceiptsInv'
  BY ReceiptsInvNext
<1> QED BY <1>1, <1>2, PTL DEF ReceiptsSpec

\* The log is in the order of the slots.
SlotsGrow == \A i, j \in DOMAIN log : i < j => log[i].slot <= log[j].slot

LEMMA SlotsInvariant == ReceiptsSpec => []SlotsGrow
<1>1. ReceiptsInit => SlotsGrow
  <2> SUFFICES ASSUME ReceiptsInit PROVE \A i \in DOMAIN log : log[i].slot = 0
    BY DEF SlotsGrow
  <2> QED BY DEF ReceiptsInit, Entry
<1>2. ReceiptsInv /\ SlotsGrow /\ [ReceiptsNext]_receiptVars => SlotsGrow'
  <2> SUFFICES ASSUME ReceiptsInv, SlotsGrow, [ReceiptsNext]_receiptVars
               PROVE  SlotsGrow'
    OBVIOUS
  <2>1. log' = log \/ \E kind, ts, ms : Logged(kind, ts, ms)
    <3>1. CASE ChainActs
      BY <3>1 DEF ChainActs
    <3>2. CASE ~ChainActs
      BY <3>2 DEF ReceiptsNext, buildTicketReceipt, exportTicketReceipt, handleDownload, receiptVars
    <3> QED BY <3>1, <3>2
  <2>2. CASE log' = log
    BY <2>2 DEF SlotsGrow
  <2>3. CASE \E kind, ts, ms : Logged(kind, ts, ms)
    <3>1. PICK entry : log' = Append(log, entry) /\ \A i \in DOMAIN log : log[i].slot <= entry.slot
      BY <2>3 DEF Logged, NextSlots, Entry
    <3>2. /\ DOMAIN log' = 1..(Len(log) + 1) /\ DOMAIN log = 1..Len(log) /\ Len(log) \in Nat
          /\ \A i \in 1..Len(log) : log'[i] = log[i]
          /\ log'[Len(log) + 1] = entry
      BY <3>1 DEF ReceiptsInv
    <3>3. ASSUME NEW i \in DOMAIN log', NEW j \in DOMAIN log', i < j
          PROVE  log'[i].slot <= log'[j].slot
      <4>1. i \in 1..Len(log) /\ (j \in 1..Len(log) \/ j = Len(log) + 1)
        BY <3>2, <3>3
      <4> QED BY <3>1, <3>2, <3>3, <4>1 DEF SlotsGrow
    <3> QED BY <3>3 DEF SlotsGrow
  <2> QED BY <2>1, <2>2, <2>3
<1> QED BY <1>1, <1>2, ReceiptsInvariant, PTL DEF ReceiptsSpec

-----------------------------------------------------------------------------
(* What follows from it.                                                   *)

\* The proofs of a receipt that is done are those of its quotes and its outcome.
LEMMA ProofsAreAssembled ==
    ASSUME ReceiptsInv, IsExported
    PROVE  /\ OpeningQuoteHolds(exporting) /\ CashOutQuoteHolds(exporting)
           /\ exporting.outcome # None => IsStatProof(exporting, exporting.stat)
           /\ exporting.by = "route" => parseTicketReceipt(exporting)
<1>1. PICK e : e = exporting /\ Sound(e) /\ e.stage = "Exported"
  BY DEF ReceiptsInv, ExportInv, IsExported, At
<1>2. /\ IsOddsProof(e, e.odds, e.ticket.odds_record)
      /\ e.cashOut.exists => IsOddsProof(e, e.cashOutOdds, e.cashOut.odds_record)
      /\ ~e.cashOut.exists => e.cashOutOdds = None
      /\ e.outcome # None => IsStatProof(e, e.stat)
      /\ e.outcome = None => e.stat = None
  BY <1>1 DEF Sound, OddsAreFetched, StatIsFetched, SaleOddsAreFetched, PastOdds, PastStat, PastSale
<1>3. \A proof, record : IsOddsProof(e, proof, record) =>
        /\ checkOdds(proof, record) /\ proof # None
        /\ e.by = "route" => proof.whole
  <2>1. ASSUME NEW proof, NEW record, IsOddsProof(e, proof, record)
        PROVE  /\ checkOdds(proof, record) /\ proof # None
               /\ e.by = "route" => proof.whole
    <3>1. record \in DOMAIN OddsFeed
      BY <2>1 DEF IsOddsProof
    <3>2. PICK whole \in BOOLEAN : proof = OddsProof(record, whole) /\ (e.by = "route" => whole)
      BY <2>1 DEF IsOddsProof
    <3>3. record \in RecordIds
      BY <3>1, OracleAssumption
    <3>4. proof # None
      BY <3>2, <3>3, ReceiptsAssumption
    <3>5. proof.record = record /\ proof.whole = whole
      BY <3>2 DEF OddsProof
    <3>6. e.by = "route" => proof.whole
      BY <3>2, <3>5, Zenon
    <3> QED BY <3>1, <3>4, <3>5, <3>6 DEF checkOdds
  <2> QED BY <2>1
<1>4. OpeningQuoteHolds(e) /\ CashOutQuoteHolds(e)
  BY <1>2, <1>3 DEF OpeningQuoteHolds, CashOutQuoteHolds
<1>5. e.outcome # None => (e.by = "route" => e.stat.whole)
  <2>1. ASSUME IsStatProof(e, e.stat), e.by = "route"
        PROVE  e.stat.whole
    <3>1. PICK proof, whole : e.stat = StatProof(proof, whole) /\ (e.by = "route" => whole)
      BY <2>1 DEF IsStatProof
    <3>2. e.stat.whole = whole
      BY <3>1 DEF StatProof
    <3> QED BY <2>1, <3>1, <3>2, Zenon
  <2> QED BY <1>2, <2>1
<1>6. e.by = "route" => parseTicketReceipt(e)
  <2>1. /\ e.by = "route" => e.odds.whole
        /\ e.cashOutOdds # None => (e.by = "route" => e.cashOutOdds.whole)
        /\ e.stat # None => (e.by = "route" => e.stat.whole)
    BY <1>2, <1>3, <1>5
  <2> QED BY <2>1 DEF parseTicketReceipt
<1> QED BY <1>1, <1>2, <1>4, <1>6

\* Its history is not empty, and of transactions that exist.
LEMMA HistoryIsComplete ==
    ASSUME ReceiptsInv, IsExported
    PROVE  /\ checkSignaturesExist(exporting)
           /\ IsHistory(exporting.transactions)
           /\ HistoryTells(exporting, exporting.transactions)
<1>1. /\ IsHistory(exporting.transactions)
      /\ HistoryTells(exporting, exporting.transactions)
  BY DEF ReceiptsInv, ExportInv, HistoryIsRead, IsExported, At, PastHistory
<1>2. Names(exporting.transactions, "placeBet")
  <2>1. TicketTells(exporting.ticket, "placeBet") /\ "placeBet" \in Kinds
    BY DEF TicketTells, Kinds
  <2> QED BY <1>1, <2>1 DEF HistoryTells
<1>3. \E i \in DOMAIN exporting.transactions : TRUE
  BY <1>2 DEF Names
<1>4. exporting.transactions # <<>>
  <2>1. DOMAIN (<<>>) = {}
    OBVIOUS
  <2> QED BY <1>3, <2>1
<1> QED BY <1>1, <1>4 DEF checkSignaturesExist, IsHistory, IsListing

\* What verify_market would accept of a row for a question is one verdict, that of
\* the score the row has of the question's period.
LEMMA RowHasOneVerdict ==
    ASSUME NEW params \in Questions, NEW stat \in ScoreStats, IsOfPeriod(stat, params), NEW holds
    PROVE  (\E proof \in ScoreProofs :
              /\ proof.row = stat.row /\ proof.fixture_id = stat.fixture_id
              /\ proof.params = params /\ proof.holds = holds)
             <=> Evaluates(stat, params) = holds
<1>1. /\ Proves(stat, params) \in ScoreProofs
      /\ Proves(stat, params).row = stat.row
      /\ Proves(stat, params).fixture_id = stat.fixture_id
      /\ Proves(stat, params).params = params
      /\ Proves(stat, params).holds = Evaluates(stat, params)
  BY ScoresAssumption DEF Proves
<1>2. ASSUME NEW proof \in ScoreProofs, proof.row = stat.row,
             proof.fixture_id = stat.fixture_id, proof.params = params
      PROVE  proof.holds = Evaluates(stat, params)
  <2>1. PICK other \in ScoreStats : IsOfPeriod(other, params) /\ proof = Proves(other, params)
    BY <1>2, ScoresAssumption
  <2>2. other.row = stat.row /\ other.fixture_id = stat.fixture_id /\ other.period = stat.period
    BY <1>2, <2>1 DEF Proves, IsOfPeriod
  <2>3. other.home = stat.home /\ other.away = stat.away
    BY <2>2, ScoresAssumption
  <2>4. proof.holds = Evaluates(other, params)
    BY <2>1 DEF Proves
  <2> QED BY <2>3, <2>4 DEF Evaluates
<1> QED BY <1>1, <1>2

\* verify-receipt (verifyReceipt.ts) passes a receipt that was assembled while the
\* chain moved if, and only if, the score row the receipt names bears its outcome
\* out, and, for the keeper's, which takes proofs as they are served, none had a
\* part missing: the reads of buildTicketReceipt, in their order, never mix states.
\* A row the service answers with its market's own period bears the outcome out
\* only where verify_market itself would have accepted it for that outcome.
THEOREM ReceiptsVerify == ReceiptsSpec => []PassesIffBorneOut
<1>1. ReceiptsInv => PassesIffBorneOut
  <2> SUFFICES ASSUME ReceiptsInv, IsExported
               PROVE  verifyTicketReceipt(exporting) <=>
                        /\ exporting.by = "route" \/ parseTicketReceipt(exporting)
                        /\ exporting.outcome # None =>
                             IF RowIsOfPeriod(exporting) THEN RowProves(exporting)
                             ELSE RowAgrees(exporting)
    BY DEF PassesIffBorneOut
  <2>1. /\ OpeningQuoteHolds(exporting) /\ CashOutQuoteHolds(exporting)
        /\ checkSignaturesExist(exporting)
        /\ exporting.by = "route" => parseTicketReceipt(exporting)
    BY ProofsAreAssembled, HistoryIsComplete
  <2>2. ASSUME exporting.outcome # None
        PROVE  OutcomeHolds(exporting) <=>
                 IF RowIsOfPeriod(exporting) THEN RowProves(exporting) ELSE RowAgrees(exporting)
    <3>1. IsStatProof(exporting, exporting.stat) /\ exporting.market.params \in Questions
      <4>1. Sound(exporting) /\ exporting.stage = "Exported"
        BY DEF ReceiptsInv, ExportInv, IsExported, At
      <4>2. exporting.market.params \in Questions
        BY <4>1 DEF Sound, MarketIsRead, PastMarket, PastAccounts, PastOdds, PastStat
      <4> QED BY <2>2, <4>2, ProofsAreAssembled
    <3>2. PICK stat \in StatsOf(exporting.market, exporting.outcome.seq), whole \in BOOLEAN :
            exporting.stat = StatProof(stat, whole)
      BY <3>1 DEF IsStatProof
    <3>3. /\ stat \in ScoreStats /\ stat.fixture_id = exporting.market.fixture_id
          /\ stat.row = exporting.outcome.seq
      BY <3>2 DEF StatsOf
    <3>4. exporting.stat # None /\ exporting.stat.stat = stat
      BY <3>2, <3>3, ReceiptsAssumption DEF StatProof
    <3>5. OutcomeHolds(exporting) <=>
            Evaluates(stat, exporting.market.params) = exporting.outcome.holds
      BY <2>2, <3>3, <3>4 DEF OutcomeHolds, SimulatesTo
    <3>6. ASSUME NEW other \in StatsOf(exporting.market, exporting.outcome.seq)
          PROVE  /\ other.period = stat.period
                 /\ Evaluates(other, exporting.market.params) = Evaluates(stat, exporting.market.params)
      <4>1. /\ other \in ScoreStats /\ other.fixture_id = stat.fixture_id
            /\ other.row = stat.row /\ other.asked = stat.asked
        BY <3>2 DEF StatsOf
      <4>2. /\ other.period = stat.period
            /\ other.home = stat.home /\ other.away = stat.away
        BY <3>3, <4>1, ScoresAssumption
      <4> QED BY <4>2 DEF Evaluates
    <3>7. CASE IsOfPeriod(stat, exporting.market.params)
      <4>1. RowIsOfPeriod(exporting)
        BY <3>2, <3>7 DEF RowIsOfPeriod
      <4>2. RowProves(exporting) <=>
              Evaluates(stat, exporting.market.params) = exporting.outcome.holds
        BY <3>1, <3>3, <3>7, RowHasOneVerdict DEF RowProves
      <4> QED BY <3>5, <4>1, <4>2
    <3>8. CASE ~IsOfPeriod(stat, exporting.market.params)
      <4>1. ~RowIsOfPeriod(exporting)
        BY <3>6, <3>8 DEF RowIsOfPeriod, IsOfPeriod
      <4>2. RowAgrees(exporting) <=>
              Evaluates(stat, exporting.market.params) = exporting.outcome.holds
        BY <3>2, <3>6 DEF RowAgrees
      <4> QED BY <3>5, <4>1, <4>2
    <3> QED BY <3>7, <3>8
  <2>3. exporting.outcome = None => OutcomeHolds(exporting)
    BY DEF OutcomeHolds
  <2> QED BY <2>1, <2>2, <2>3 DEF verifyTicketReceipt
<1>2. ReceiptsSpec => []ReceiptsInv
  BY ReceiptsInvariant
<1> QED BY <1>1, <1>2, PTL

\* Whatever end or verdict a receipt reports, it lists the transaction that brought
\* it, unless the RPC did not serve one: the accounts are read before the history
\* (receipt.ts), and no account tells of a transaction that is not in the history.
\* It lists each once, none before an older one but of the same slot, and none of
\* another ticket.
THEOREM StoriesAreTold == ReceiptsSpec => []StoryIsTold
<1>1. ReceiptsInv /\ SlotsGrow => StoryIsTold
  <2> SUFFICES ASSUME ReceiptsInv, SlotsGrow, IsExported
               PROVE  StoryIsTold
    BY DEF StoryIsTold
  <2>1. /\ IsHistory(exporting.transactions)
        /\ HistoryTells(exporting, exporting.transactions)
    BY HistoryIsComplete
  <2>2. \A kind \in Kinds :
          TicketTells(exporting.ticket, kind) \/ SaleTells(exporting.cashOut, kind) => Lists(kind)
    BY <2>1 DEF HistoryTells, Names, Lists
  <2>3. exporting.ticket.state = "CashedOut" => exporting.cashOut.exists
    <3>1. Sound(exporting) /\ exporting.stage = "Exported"
      BY DEF ReceiptsInv, ExportInv, IsExported, At
    <3>2. exporting.unread = {} /\ exporting.stage \in PastMarket
      BY <3>1 DEF Sound, IsExport, PastMarket, PastAccounts, PastOdds, PastStat
    <3> QED BY <3>1, <3>2 DEF Sound, SaleIsRead
  <2>4. /\ Lists("placeBet")
        /\ exporting.ticket.state \in {"Won", "Lost"} => Lists("settleTicket")
        /\ exporting.ticket.state = "Refunded" => Lists("refundTicket")
        /\ exporting.cashOut.exists => Lists("cashOutTicket")
        /\ exporting.cashOut.audit_status # "Unaudited" => Lists("auditCashOut")
        /\ exporting.cashOut.made_whole => Lists("claimCashOutRepair")
        /\ exporting.ticket.audit_status # "Unaudited" => Lists("auditTicket")
    BY <2>2 DEF Kinds, TicketTells, SaleTells
  <2>5. /\ \A i, j \in DOMAIN exporting.transactions :
             i < j => ComesBefore(exporting.transactions[i], exporting.transactions[j])
        /\ \A i \in DOMAIN exporting.transactions :
             \/ exporting.key \in log[exporting.transactions[i].signature].tickets
             \/ log[exporting.transactions[i].signature].kind = "verifyMarket"
    <3>1. ASSUME NEW i \in DOMAIN exporting.transactions, NEW j \in DOMAIN exporting.transactions,
                 i < j
          PROVE  ComesBefore(exporting.transactions[i], exporting.transactions[j])
      <4>1. PICK a, b : a = exporting.transactions[i] /\ b = exporting.transactions[j]
        OBVIOUS
      <4>2. /\ a.signature \in DOMAIN log /\ a.slot = log[a.signature].slot
            /\ b.signature \in DOMAIN log /\ b.slot = log[b.signature].slot
            /\ a.signature # b.signature /\ a.slot <= b.slot
        BY <2>1, <3>1, <4>1 DEF IsHistory, IsListing
      <4>3. log[a.signature] \in LogEntry /\ log[b.signature] \in LogEntry
        BY <4>2 DEF ReceiptsInv
      <4>4. a.slot \in Int /\ b.slot \in Int /\ a.signature \in Nat /\ b.signature \in Nat
        <5>1. log \in Seq(LogEntry)
          BY DEF ReceiptsInv
        <5> QED BY <4>2, <4>3, <5>1 DEF LogEntry
      <4>5. b.signature < a.signature => a.slot = b.slot
        BY <4>2, <4>4 DEF SlotsGrow
      <4> QED BY <4>1, <4>2, <4>4, <4>5 DEF ComesBefore
    <3> QED BY <2>1, <3>1 DEF HistoryTells
  <2> QED BY <2>3, <2>4, <2>5 DEF StoryIsTold
<1>2. ReceiptsSpec => []ReceiptsInv /\ []SlotsGrow
  BY ReceiptsInvariant, SlotsInvariant
<1> QED BY <1>1, <1>2, PTL

\* All that is proved of the program stands while receipts are assembled, from a
\* book with tickets sold: assembling one sends nothing, and what others send are
\* instructions of the program.
THEOREM ReceiptsReadTheProgram ==
    ReceiptsSpec =>
        /\ []BookIsSound
        /\ VerdictsAreFinal /\ OutcomesAreFinal /\ [][Claims!ClaimNext]_(Claims!claimVars)
<1>1. ReceiptsInit => ProgramInv
  BY BookAssumption, ProgramAtFirst DEF ReceiptsInit
<1>2. ReceiptsInv /\ [ReceiptsNext]_receiptVars => [Instruction]_vars
  <2>1. ASSUME ReceiptsInv, ChainActs
        PROVE  [Instruction]_vars
    BY <2>1, ChainKeeps DEF ReceiptsInv
  <2>2. ASSUME \/ buildTicketReceipt
               \/ \E t \in TicketIds : exportTicketReceipt(t) \/ handleDownload(t)
               \/ UNCHANGED receiptVars
        PROVE  UNCHANGED vars
    BY <2>2 DEF buildTicketReceipt, exportTicketReceipt, handleDownload, receiptVars
  <2> QED BY <2>1, <2>2 DEF ReceiptsNext
<1>3. ProgramInv /\ [Instruction]_vars =>
        /\ ProgramInv'
        /\ [KeepsVerdicts]_vars /\ [KeepsOutcomes]_vars
        /\ [Claims!ClaimNext]_(Claims!claimVars)
  BY ClientNext
<1>4. ProgramInv => BookIsSound
  BY ProgramIsSound
<1> QED
  BY <1>1, <1>2, <1>3, <1>4, ReceiptsInvariant, PTL
     DEF ReceiptsSpec, VerdictsAreFinal, OutcomesAreFinal

=============================================================================
