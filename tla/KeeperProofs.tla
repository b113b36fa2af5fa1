---------------------------- MODULE KeeperProofs ----------------------------
(***************************************************************************)
(* Proofs about the keeper's loops run against the program (Keeper): for   *)
(* any number of processes, fixtures, markets and tickets, any feed, and   *)
(* any failures, lost answers and crashes.                                 *)
(***************************************************************************)
EXTENDS Keeper, TrueBookProofs, FiniteSetTheorems

-----------------------------------------------------------------------------
(* The inductive invariant.                                                *)

\* An audit against record r finds both odds honest for market m.
HonestQuote(m, odds, r) ==
    /\ IsAuditable(m, r)
    /\ \A s \in Sides : IsHonest(odds[s], s, ConsensusPrice(m, r), house.margin_bps)

\* A quote the keeper may send: if the program would take it, it is honest, but
\* for the markets that are kept rigged.
IsSafeQuote(m, odds, r) ==
    (\A s \in Sides : IsOdds(odds[s])) =>
        /\ odds \in [Sides -> Nat]
        /\ m \notin RigSkip => HonestQuote(m, odds, r)

\* A transaction of the keeper, whenever it is executed.
IsSound(tx) ==
    \/ /\ tx.op = "create"
       /\ tx.fixture \in Fixtures /\ tx.params \in Predicates /\ tx.kickoff \in Nat
    \/ /\ tx.op = "quote"
       /\ tx.m \in MarketIds /\ market[tx.m].state # "Vacant" /\ tx.record \in RecordIds
       /\ IsSafeQuote(tx.m, tx.odds, tx.record)
    \/ tx.op = "lock" /\ tx.m \in MarketIds
    \/ tx.op = "verify" /\ tx.m \in MarketIds
    \/ tx.op = "settle" /\ tx.t \in TicketIds

\* What is on the list of each job.
ListIsSound(r) ==
    /\ r.todo \subseteq Nat
    /\ r.job = "create" => r.todo \subseteq Questions
    /\ r.job = "inplay" => r.todo \subseteq Fixtures
    /\ r.job \in {"lock", "settle", "quote", "rig"} => r.todo \subseteq MarketIds
    /\ r.job = "quote" => \A m \in r.todo : m \notin RigSkip /\ market[m].state # "Vacant"
    /\ r.job = "rig" => r.todo \subseteq RigSkip

\* What a process remembers.
RunIsSound(r) ==
    /\ r = [job |-> r.job, phase |-> r.phase, todo |-> r.todo, at |-> r.at,
            lines |-> r.lines, odds |-> r.odds, tx |-> r.tx]
    /\ r.at \in Nat
    /\ r.phase # "read" => r.todo # {}
    /\ ListIsSound(r)
    /\ r.phase = "send" => IsSound(r.tx)
    /\ r.phase = "pay" => r.lines # {} /\ r.lines \subseteq TicketIds
    /\ r.odds = [f \in Fixtures |-> r.odds[f]]
    /\ \A f \in Fixtures : \A answer \in r.odds[f] : \A x \in answer :
         x \in DOMAIN OddsFeed /\ OddsFeed[x].fixture_id = f

RunsAreSound == \A p \in Procs : RunIsSound(run[p])
InflightIsSound == \A late \in inflight : IsSound(late.tx)

\* The quotes that markets serve.
QuoteIsHonest(m) ==
    market[m].quote_posted_ts # 0 =>
        /\ market[m].state # "Vacant"
        /\ m \notin RigSkip => HonestQuote(m, market[m].odds, market[m].odds_record)
QuotesAreHonest == \A m \in MarketIds : QuoteIsHonest(m)

\* What a market is about.
MarketsAreNamed ==
    \A m \in MarketIds :
        market[m].state # "Vacant" =>
            /\ market[m].fixture_id \in Fixtures
            /\ market[m].params \in Predicates /\ IsSupported(market[m].params)

HouseIsSet == house.initialized /\ house.margin_bps \in 1..BPS_DENOMINATOR

\* HonestTicketsPassAudits is not inductive alone: the odds of a ticket come
\* from its market's quote, a quote from a transaction that may land late, and
\* the transaction from a list of markets and an answer of the feed read before.
KeeperInv ==
    /\ NumberingInv /\ HouseIsSet /\ MarketsAreNamed
    /\ QuotesAreHonest /\ HonestTicketsPassAudits
    /\ InflightIsSound
    /\ run = [p \in Procs |-> run[p]] /\ RunsAreSound

-----------------------------------------------------------------------------
(* What an instruction keeps.                                              *)

\* The instructions that the keeper, bettors and other crankers get executed.
HonestInstruction ==
    \/ \E f \in Fixtures, p \in Predicates, k \in Nat : CreateMarket(f, p, k)
    \/ \E m \in MarketIds, q \in [Sides -> Nat], r \in RecordIds :
         (m \notin RigSkip => HonestQuote(m, q, r)) /\ PostQuote(m, q, r)
    \/ \E t \in TicketIds, m \in MarketIds, s \in Sides, stake \in Amount :
         PlaceBet(t, m, s, stake)
    \/ \E m \in MarketIds : LockMarket(m)
    \/ \E m \in MarketIds, proof \in ScoreProofs : VerifyMarket(m, proof)
    \/ \E m \in MarketIds : VoidMarket(m, FALSE)
    \/ \E t \in TicketIds : SettleTicket(t)
    \/ Tick

LEMMA HonestIsInstruction == HonestInstruction => Instruction
  BY DEF HonestInstruction, Instruction

\* A sound transaction is one of these whenever it is executed.
LEMMA SoundIsHonest ==
    ASSUME NEW tx, IsSound(tx), Execute(tx)
    PROVE  HonestInstruction
<1>1. CASE tx.op = "create" /\ tx.fixture \in Fixtures /\ tx.params \in Predicates /\ tx.kickoff \in Nat
  <2>1. CreateMarket(tx.fixture, tx.params, tx.kickoff)
    BY <1>1 DEF Execute
  <2> QED BY <1>1, <2>1 DEF HonestInstruction
<1>2. CASE /\ tx.op = "quote" /\ tx.m \in MarketIds /\ tx.record \in RecordIds
           /\ IsSafeQuote(tx.m, tx.odds, tx.record)
  <2>1. PostQuote(tx.m, tx.odds, tx.record)
    BY <1>2 DEF Execute
  <2>2. \A s \in Sides : IsOdds(tx.odds[s])
    BY <2>1 DEF PostQuote
  <2> QED BY <1>2, <2>1, <2>2 DEF HonestInstruction, IsSafeQuote
<1>3. CASE tx.op = "lock" /\ tx.m \in MarketIds
  BY <1>3 DEF Execute, HonestInstruction
<1>4. CASE tx.op = "verify" /\ tx.m \in MarketIds
  BY <1>4 DEF Execute, HonestInstruction
<1>5. CASE tx.op = "settle" /\ tx.t \in TicketIds
  BY <1>5 DEF Execute, HonestInstruction
<1> QED BY <1>1, <1>2, <1>3, <1>4, <1>5 DEF IsSound

\* An honest quote stays honest: the market keeps its question, the house its
\* margin, and the feed its records.
LEMMA HonestQuoteKept ==
    ASSUME TermsKept, house.initialized, NEW m \in MarketIds, market[m].state # "Vacant",
           NEW odds, NEW r, HonestQuote(m, odds, r)
    PROVE  HonestQuote(m, odds, r)'
<1>1. /\ house'.margin_bps = house.margin_bps
      /\ market'[m].fixture_id = market[m].fixture_id
      /\ market'[m].params = market[m].params
  BY DEF TermsKept, HouseTermsKept, MarketTermsKept
<1> QED BY <1>1 DEF HonestQuote, IsAuditable, ConsensusPrice

LEMMA SoundKept ==
    ASSUME TermsKept, house.initialized, NEW tx, IsSound(tx)
    PROVE  IsSound(tx)'
<1>1. CASE /\ tx.op = "quote" /\ tx.m \in MarketIds /\ market[tx.m].state # "Vacant"
           /\ tx.record \in RecordIds /\ IsSafeQuote(tx.m, tx.odds, tx.record)
  <2>1. market'[tx.m].state # "Vacant"
    BY <1>1 DEF TermsKept, MarketTermsKept
  <2>2. IsSafeQuote(tx.m, tx.odds, tx.record)'
    BY <1>1, HonestQuoteKept DEF IsSafeQuote
  <2> QED BY <1>1, <2>1, <2>2 DEF IsSound
<1>2. CASE tx.op # "quote"
  BY <1>2 DEF IsSound
<1> QED BY <1>1, <1>2 DEF IsSound

LEMMA RunKept ==
    ASSUME TermsKept, house.initialized, NEW r, RunIsSound(r)
    PROVE  RunIsSound(r)'
<1>1. ListIsSound(r)'
  BY DEF RunIsSound, ListIsSound, TermsKept, MarketTermsKept
<1>2. r.phase = "send" => IsSound(r.tx)'
  BY SoundKept DEF RunIsSound
<1> QED BY <1>1, <1>2 DEF RunIsSound

LEMMA RunAfter ==
    ASSUME NEW p \in Procs, NEW r, run'[p] = r, RunIsSound(r)'
    PROVE  RunIsSound(run[p])'
<1>1. ListIsSound(run[p])'
  BY DEF RunIsSound, ListIsSound
<1>2. ASSUME r.phase = "send"
      PROVE  IsSound(run[p].tx)'
  <2>1. IsSound(r.tx)'
    BY <1>2 DEF RunIsSound
  <2>2. r.tx.op = "quote" => IsSafeQuote(r.tx.m, r.tx.odds, r.tx.record)'
    BY <2>1 DEF IsSound
  <2>3. r.tx.op = "quote" => IsSafeQuote(run[p].tx.m, run[p].tx.odds, run[p].tx.record)'
    BY <2>2 DEF IsSafeQuote, HonestQuote, IsAuditable, ConsensusPrice
  <2> QED BY <2>1, <2>3 DEF IsSound
<1> QED BY <1>1, <1>2 DEF RunIsSound

\* The chain's part of the invariant survives every such instruction.
LEMMA MarketsStayNamed ==
    ASSUME NumberingInv, MarketsAreNamed, [HonestInstruction]_vars
    PROVE  MarketsAreNamed'
<1>1. TermsKept
  BY HonestIsInstruction, TermsNext
<1>2. market \in [MarketIds -> Market]
  BY DEF NumberingInv, BookInv, TypeOK
<1>3. ASSUME NEW f \in Fixtures, NEW p \in Predicates, NEW k \in Nat, CreateMarket(f, p, k)
      PROVE  MarketsAreNamed'
  BY <1>2, <1>3 DEF CreateMarket, NoMarket, MarketsAreNamed
<1>4. ASSUME \A m \in MarketIds : market[m].state = "Vacant" => market'[m].state = "Vacant"
      PROVE  MarketsAreNamed'
  BY <1>1, <1>4 DEF MarketsAreNamed, TermsKept, MarketTermsKept
<1>5. ASSUME NEW t \in TicketIds, NEW m \in MarketIds, NEW s \in Sides, NEW stake \in Amount,
             PlaceBet(t, m, s, stake)
      PROVE  \A n \in MarketIds : market'[n].state = market[n].state
  BY <1>5, PlaceBetEffect DEF NumberingInv
<1>6. ASSUME \/ \E m \in MarketIds, q \in [Sides -> Nat], r \in RecordIds : PostQuote(m, q, r)
             \/ \E m \in MarketIds : LockMarket(m)
             \/ \E m \in MarketIds, proof \in ScoreProofs : VerifyMarket(m, proof)
             \/ \E m \in MarketIds : VoidMarket(m, FALSE)
      PROVE  \A n \in MarketIds : market[n].state = "Vacant" => market'[n].state = "Vacant"
  BY <1>2, <1>6 DEF PostQuote, LockMarket, VerifyMarket, VoidMarket, Voidable
<1>7. ASSUME (\E t \in TicketIds : SettleTicket(t)) \/ Tick \/ UNCHANGED vars
      PROVE  \A n \in MarketIds : market'[n].state = market[n].state
  BY <1>7 DEF SettleTicket, Tick, vars, accounts
<1> QED BY <1>3, <1>4, <1>5, <1>6, <1>7 DEF HonestInstruction

\* A quote is posted by post_quote alone, and stands until the next.
LEMMA QuoteAfter ==
    ASSUME NEW m \in MarketIds, market'[m].state # "Vacant", NEW odds, NEW r,
           odds = market'[m].odds, r = market'[m].odds_record,
           m \notin RigSkip => HonestQuote(m, odds, r)'
    PROVE  QuoteIsHonest(m)'
  BY DEF QuoteIsHonest, HonestQuote, IsAuditable, ConsensusPrice

LEMMA QuotesStayHonest ==
    ASSUME NumberingInv, HouseIsSet, QuotesAreHonest, [HonestInstruction]_vars
    PROVE  QuotesAreHonest'
<1>0. TermsKept /\ house.initialized
  BY HonestIsInstruction, TermsNext DEF HouseIsSet
<1>1. market \in [MarketIds -> Market]
  BY DEF NumberingInv, BookInv, TypeOK
<1>2. ASSUME NEW m \in MarketIds,
             market'[m].quote_posted_ts = market[m].quote_posted_ts,
             market'[m].odds = market[m].odds, market'[m].odds_record = market[m].odds_record
      PROVE  QuoteIsHonest(m)'
  <2>1. CASE market[m].quote_posted_ts = 0
    BY <1>2, <2>1 DEF QuoteIsHonest
  <2>2. CASE market[m].quote_posted_ts # 0
    <3>1. market[m].state # "Vacant"
          /\ (m \notin RigSkip => HonestQuote(m, market[m].odds, market[m].odds_record))
      BY <2>2 DEF QuotesAreHonest, QuoteIsHonest
    <3>2. PICK odds, r : odds = market[m].odds /\ r = market[m].odds_record
      OBVIOUS
    <3>3. m \notin RigSkip => HonestQuote(m, odds, r)'
      BY <1>0, <3>1, <3>2, HonestQuoteKept
    <3>4. market'[m].state # "Vacant"
      BY <1>0, <3>1 DEF TermsKept, MarketTermsKept
    <3> QED BY <1>2, <3>2, <3>3, <3>4, QuoteAfter
  <2> QED BY <2>1, <2>2
<1>3. ASSUME NEW n \in MarketIds, NEW q \in [Sides -> Nat], NEW r \in RecordIds,
             n \notin RigSkip => HonestQuote(n, q, r), PostQuote(n, q, r),
             NEW m \in MarketIds
      PROVE  QuoteIsHonest(m)'
  <2>1. /\ market[n].state = "Open" /\ market'[n].odds = q /\ market'[n].odds_record = r
        /\ market'[n].state = "Open" /\ (m # n => market'[m] = market[m])
    BY <1>1, <1>3 DEF PostQuote, Market
  <2>2. n \notin RigSkip => HonestQuote(n, q, r)'
    BY <1>0, <1>3, <2>1, HonestQuoteKept
  <2>3. QuoteIsHonest(n)'
    BY <2>1, <2>2, QuoteAfter
  <2> QED BY <1>2, <2>1, <2>3
<1>4. ASSUME NEW f \in Fixtures, NEW p \in Predicates, NEW k \in Nat, CreateMarket(f, p, k),
             NEW m \in MarketIds
      PROVE  QuoteIsHonest(m)'
  <2>1. CASE m = house.market_count
    <3>1. market'[m].quote_posted_ts = 0
      BY <1>1, <1>4, <2>1 DEF CreateMarket, NoMarket
    <3> QED BY <3>1 DEF QuoteIsHonest
  <2>2. CASE m # house.market_count
    <3>1. market'[m] = market[m]
      BY <1>1, <1>4, <2>2 DEF CreateMarket
    <3> QED BY <1>2, <3>1
  <2> QED BY <2>1, <2>2
<1>5. ASSUME NEW t \in TicketIds, NEW n \in MarketIds, NEW s \in Sides, NEW stake \in Amount,
             PlaceBet(t, n, s, stake), NEW m \in MarketIds
      PROVE  QuoteIsHonest(m)'
  <2>1. market' = [market EXCEPT ![n] =
                     MarketAfterBet(n, s, stake, potential_payout(stake, market[n].odds[s]))]
    BY <1>5 DEF PlaceBet
  <2>2. /\ market'[m].quote_posted_ts = market[m].quote_posted_ts
        /\ market'[m].odds = market[m].odds /\ market'[m].odds_record = market[m].odds_record
    BY <1>1, <2>1 DEF MarketAfterBet, Market
  <2> QED BY <1>2, <2>2
<1>6. ASSUME \/ \E n \in MarketIds : LockMarket(n)
             \/ \E n \in MarketIds, proof \in ScoreProofs : VerifyMarket(n, proof)
             \/ \E n \in MarketIds : VoidMarket(n, FALSE)
             \/ \E t \in TicketIds : SettleTicket(t)
             \/ Tick
             \/ UNCHANGED vars,
             NEW m \in MarketIds
      PROVE  QuoteIsHonest(m)'
  <2>1. /\ market'[m].quote_posted_ts = market[m].quote_posted_ts
        /\ market'[m].odds = market[m].odds /\ market'[m].odds_record = market[m].odds_record
    BY <1>1, <1>6 DEF LockMarket, VerifyMarket, VoidMarket, SettleTicket, Tick, vars, accounts,
                      Market
  <2> QED BY <1>2, <2>1
<1> QED BY <1>3, <1>4, <1>5, <1>6 DEF HonestInstruction, QuotesAreHonest

\* The verdict an audit of a ticket would reach.
TicketPasses(t) ==
    ticket[t].state # "Vacant" /\ ticket[t].market \notin RigSkip =>
        IsAuditable(ticket[t].market, ticket[t].odds_record) /\ TicketIsHonest(t)

\* A ticket is sold at a quote that the market serves, and keeps it.
LEMMA TicketsStayHonest ==
    ASSUME NumberingInv, HouseIsSet, QuotesAreHonest, HonestTicketsPassAudits,
           [HonestInstruction]_vars
    PROVE  HonestTicketsPassAudits'
<1>0. TermsKept /\ house.initialized
  BY HonestIsInstruction, TermsNext DEF HouseIsSet
<1>1. ticket \in [TicketIds -> Ticket] /\ market \in [MarketIds -> Market] /\ now \in Start..MaxTime
  BY DEF NumberingInv, BookInv, TypeOK
<1>2. ASSUME NEW t \in TicketIds, ticket[t].state # "Vacant"
      PROVE  TicketPasses(t)'
  <2>1. ticket[t].market \in MarketIds /\ market[ticket[t].market].state # "Vacant"
    BY <1>2 DEF NumberingInv, BookInv, TicketsAreSound, TicketsHaveMarkets
  <2>2. /\ ticket'[t].market = ticket[t].market /\ ticket'[t].side = ticket[t].side
        /\ ticket'[t].quoted_odds_bps = ticket[t].quoted_odds_bps
        /\ ticket'[t].odds_record = ticket[t].odds_record
    BY <1>0, <1>2 DEF TermsKept, TicketTermsKept
  <2>3. /\ house'.margin_bps = house.margin_bps
        /\ market'[ticket[t].market].fixture_id = market[ticket[t].market].fixture_id
        /\ market'[ticket[t].market].params = market[ticket[t].market].params
    BY <1>0, <2>1 DEF TermsKept, HouseTermsKept, MarketTermsKept
  <2>4. TicketPasses(t)
    BY <1>2 DEF HonestTicketsPassAudits, TicketPasses
  <2> QED BY <1>2, <2>2, <2>3, <2>4
          DEF TicketPasses, IsAuditable, TicketIsHonest, AuditedRecord, ConsensusPrice
<1>3. ASSUME NEW t \in TicketIds, NEW m \in MarketIds, NEW s \in Sides, NEW stake \in Amount,
             PlaceBet(t, m, s, stake)
      PROVE  TicketPasses(t)'
  <2>1. /\ ticket'[t].market = m /\ ticket'[t].side = s
        /\ ticket'[t].quoted_odds_bps = market[m].odds[s]
        /\ ticket'[t].odds_record = market[m].odds_record
    BY <1>1, <1>3 DEF PlaceBet, NoTicket
  <2>2. market[m].quote_posted_ts # 0
    <3>1. QuoteIsFresh(m) /\ market[m].quote_posted_ts \in Nat
      BY <1>1, <1>3 DEF PlaceBet, Market
    <3> QED BY <1>1, <3>1, ClockAssumption, BoundsAssumption DEF QuoteIsFresh
  <2>3. PICK odds, r : odds = market[m].odds /\ r = market[m].odds_record
    OBVIOUS
  <2>4. market[m].state # "Vacant" /\ (m \notin RigSkip => HonestQuote(m, odds, r))
    BY <2>2, <2>3 DEF QuotesAreHonest, QuoteIsHonest
  <2>5. m \notin RigSkip => HonestQuote(m, odds, r)'
    BY <1>0, <2>4, HonestQuoteKept
  <2> QED BY <2>1, <2>3, <2>5
          DEF TicketPasses, HonestQuote, IsAuditable, TicketIsHonest, AuditedRecord, ConsensusPrice
<1>4. ASSUME NEW t \in TicketIds, ticket'[t] = ticket[t]
      PROVE  TicketPasses(t)'
  <2>1. CASE ticket[t].state = "Vacant"
    BY <1>4, <2>1 DEF TicketPasses
  <2> QED BY <1>2, <2>1
<1>5. ASSUME NEW u \in TicketIds
      PROVE  TicketPasses(u)'
  <2>1. ASSUME NEW t \in TicketIds, NEW m \in MarketIds, NEW s \in Sides, NEW stake \in Amount,
               PlaceBet(t, m, s, stake)
        PROVE  TicketPasses(u)'
    <3>1. u # t => ticket'[u] = ticket[u]
      BY <1>1, <2>1 DEF PlaceBet
    <3> QED BY <1>3, <1>4, <2>1, <3>1
  <2>2. ASSUME NEW t \in TicketIds, SettleTicket(t)
        PROVE  TicketPasses(u)'
    <3>1. u # t => ticket'[u] = ticket[u]
      BY <1>1, <2>2 DEF SettleTicket, Close
    <3>2. ticket[t].state # "Vacant"
      BY <2>2 DEF SettleTicket
    <3> QED BY <1>2, <1>4, <3>1, <3>2
  <2>3. ASSUME \/ \E f \in Fixtures, p \in Predicates, k \in Nat : CreateMarket(f, p, k)
               \/ \E m \in MarketIds, q \in [Sides -> Nat], r \in RecordIds : PostQuote(m, q, r)
               \/ \E m \in MarketIds : LockMarket(m)
               \/ \E m \in MarketIds, proof \in ScoreProofs : VerifyMarket(m, proof)
               \/ \E m \in MarketIds : VoidMarket(m, FALSE)
               \/ Tick
               \/ UNCHANGED vars
        PROVE  TicketPasses(u)'
    <3>1. ticket' = ticket
      BY <2>3 DEF CreateMarket, PostQuote, LockMarket, VerifyMarket, VoidMarket, Tick, vars, accounts
    <3> QED BY <1>4, <3>1
  <2> QED BY <2>1, <2>2, <2>3 DEF HonestInstruction
<1> QED BY <1>5 DEF HonestTicketsPassAudits, TicketPasses

-----------------------------------------------------------------------------
(* What a process remembers.                                               *)

\* What the assumptions on the constants say.
LEMMA KeeperConstants ==
    /\ Fixtures \subseteq Nat /\ MarketIds \subseteq Nat /\ RigSkip \subseteq MarketIds
    /\ TicketIds \subseteq Nat
    /\ \A p \in Predicates : p \in MarketParams
    /\ IN_PLAY_WINDOW \in Nat
    /\ \A r \in DOMAIN OddsFeed :
         r \in RecordIds /\ \A i \in DOMAIN OddsFeed[r].prices : OddsFeed[r].prices[i] \in Nat
<1>1. MarketIds \subseteq Nat /\ TicketIds \subseteq Nat
  BY BoundsAssumption DEF MarketIds, TicketIds
<1>2. \A r \in DOMAIN OddsFeed :
        r \in RecordIds /\ \A i \in DOMAIN OddsFeed[r].prices : OddsFeed[r].prices[i] \in Nat
  <2> SUFFICES ASSUME NEW r \in DOMAIN OddsFeed
               PROVE  r \in RecordIds /\ \A i \in DOMAIN OddsFeed[r].prices : OddsFeed[r].prices[i] \in Nat
    OBVIOUS
  <2>1. r \in RecordIds /\ OddsFeed[r].prices \in [DOMAIN OddsFeed[r].prices -> Nat]
    BY OracleAssumption
  <2> QED BY <2>1
<1> QED BY <1>1, <1>2, KeeperAssumption, ArgumentsAssumption

\* The least member of a list is on it.
LEMMA MinIsMember ==
    ASSUME NEW S \in SUBSET Nat, S # {}
    PROVE  Min(S) \in S
<1>1. \E x \in S : \A y \in S : x =< y
  BY LeastElement
<1> QED BY <1>1 DEF Min

\* The questions, in the order they are asked, are the board's on every fixture.
LEMMA QuestionsAreTyped ==
    ASSUME NEW i \in Questions
    PROVE  /\ i \in Nat /\ FixtureAt(i) \in Fixtures /\ BlueprintAt(i) \in Predicates
           /\ StartOf[FixtureAt(i)] \in Nat
<1>1. IsFiniteSet(Fixtures) /\ Board \in Seq(Predicates) /\ StartOf \in [Fixtures -> Nat]
  BY KeeperAssumption
<1>2. PICK n \in Nat : n = Len(Board)
  BY <1>1
<1>3. PICK c \in Nat : c = Cardinality(Fixtures)
  BY <1>1, FS_CardinalityType
<1>4. i \in Nat /\ i >= 1 /\ i <= c * n
  BY <1>2, <1>3 DEF Questions
<1>5. n > 0
  <2>1. n = 0 => c * n = 0
    OBVIOUS
  <2> QED BY <1>4, <2>1
<1>6. PICK k \in Nat : k = i - 1 /\ k < c * n
  BY <1>4
<1>7. PICK q \in Nat, r \in Nat : q = k \div n /\ r = k % n /\ k = q * n + r /\ r < n
  BY <1>5, Quotient
<1>8. q < c
  <2>1. SUFFICES ASSUME q >= c PROVE FALSE
    BY <1>7
  <2>2. c * n <= q * n
    BY <2>1, Grows
  <2> QED BY <1>6, <1>7, <2>2
<1>9. SetToSeq(Fixtures) \in [1..c -> Fixtures]
  <2>1. ExistsBijection(1..c, Fixtures)
    BY <1>1, <1>3, FS_CardinalityType
  <2>2. PICK f \in [1..c -> Fixtures] : IsInjective(f)
    BY <2>1 DEF ExistsBijection, Bijection, Injection, IsInjective
  <2> QED BY <1>3, <2>2 DEF SetToSeq
<1>10. FixtureAt(i) \in Fixtures
  <2>1. (k \div n) + 1 \in 1..c
    BY <1>7, <1>8
  <2> QED BY <1>2, <1>6, <1>9, <2>1 DEF FixtureAt
<1>11. BlueprintAt(i) \in Predicates
  <2>1. (k % n) + 1 \in 1..n
    BY <1>7
  <2> QED BY <1>1, <1>2, <1>6, <2>1 DEF BlueprintAt
<1> QED BY <1>1, <1>4, <1>10, <1>11

\* The process goes on with what it may remember.
Goes(p) == \E r : run' = [run EXCEPT ![p] = r] /\ RunIsSound(r)'

\* It starts a job, ends its cycle, or exits: it remembers nothing.
LEMMA EnterGoes ==
    ASSUME NEW p \in Procs, NEW job, Becomes(p, Enter(job))
    PROVE  Goes(p)
<1>1. PICK r : r = Enter(job) /\ run' = [run EXCEPT ![p] = r]
  BY DEF Becomes
<1>2. RunIsSound(r)'
  <2>1. /\ r.job = job /\ r.phase = "read" /\ r.todo = {} /\ r.at = 0 /\ r.lines = {}
        /\ r.odds = [f \in Fixtures |-> {}]
        /\ r = [job |-> r.job, phase |-> r.phase, todo |-> r.todo, at |-> r.at,
                lines |-> r.lines, odds |-> r.odds, tx |-> r.tx]
    BY <1>1 DEF Enter, NotFetched
  <2>2. ListIsSound(r)'
    BY <2>1 DEF ListIsSound
  <2> QED BY <2>1, <2>2 DEF RunIsSound
<1> QED BY <1>1, <1>2 DEF Goes

LEMMA ThrowGoes ==
    ASSUME NEW p \in Procs, Throw(p)
    PROVE  Goes(p)
  BY EnterGoes DEF Throw

\* It takes up a list that is sound, or goes on to the next job.
LEMMA StartGoes ==
    ASSUME NEW p \in Procs, NEW r, StartList(p, r), r.at \in Nat, ListIsSound(r)',
           r = [job |-> r.job, phase |-> r.phase, todo |-> r.todo, at |-> r.at,
                lines |-> r.lines, odds |-> r.odds, tx |-> r.tx],
           r.odds = [f \in Fixtures |-> r.odds[f]],
           \A f \in Fixtures : \A answer \in r.odds[f] : \A x \in answer :
             x \in DOMAIN OddsFeed /\ OddsFeed[x].fixture_id = f
    PROVE  Goes(p)
<1>1. CASE r.todo = {}
  BY <1>1, EnterGoes DEF StartList
<1>2. CASE r.todo # {}
  <2>1. PICK s : s = [r EXCEPT !.phase = "work"] /\ run' = [run EXCEPT ![p] = s]
    BY <1>2 DEF StartList, Becomes
  <2>2. s = [job |-> r.job, phase |-> "work", todo |-> r.todo, at |-> r.at,
             lines |-> r.lines, odds |-> r.odds, tx |-> r.tx]
    BY <2>1
  <2>3. ListIsSound(s)'
    BY <2>2 DEF ListIsSound
  <2>4. RunIsSound(s)'
    BY <1>2, <2>2, <2>3 DEF RunIsSound
  <2> QED BY <2>1, <2>4 DEF Goes
<1> QED BY <1>1, <1>2

\* The item in hand is on the list, and dropped from it.
LEMMA ItemIsListed ==
    ASSUME NEW p \in Procs, RunIsSound(run[p]), run[p].phase # "read"
    PROVE  Item(p) \in run[p].todo /\ run[p].todo \subseteq Nat
  BY MinIsMember DEF RunIsSound, ListIsSound, Item

LEMMA DropGoes ==
    ASSUME TermsKept, house.initialized, NEW p \in Procs, RunIsSound(run[p]), DropItem(p)
    PROVE  Goes(p)
<1>1. PICK r : r = run[p]
  OBVIOUS
<1>2. RunIsSound(r)'
  BY <1>1, RunKept
<1>3. PICK s : /\ s = [r EXCEPT !.todo = r.todo \ {Item(p)}, !.tx = None]
               /\ StartList(p, s)
  BY <1>1 DEF DropItem
<1>4. /\ r = [job |-> r.job, phase |-> r.phase, todo |-> r.todo, at |-> r.at,
              lines |-> r.lines, odds |-> r.odds, tx |-> r.tx]
      /\ r.at \in Nat /\ ListIsSound(r)' /\ r.odds = [f \in Fixtures |-> r.odds[f]]
      /\ \A f \in Fixtures : \A answer \in r.odds[f] : \A x \in answer :
           x \in DOMAIN OddsFeed /\ OddsFeed[x].fixture_id = f
  BY <1>2 DEF RunIsSound
<1>5. s = [job |-> r.job, phase |-> r.phase, todo |-> r.todo \ {Item(p)}, at |-> r.at,
           lines |-> r.lines, odds |-> r.odds, tx |-> None]
  BY <1>3, <1>4
<1>6. ListIsSound(s)'
  BY <1>4, <1>5 DEF ListIsSound
<1>7. /\ s = [job |-> s.job, phase |-> s.phase, todo |-> s.todo, at |-> s.at,
              lines |-> s.lines, odds |-> s.odds, tx |-> s.tx]
      /\ s.at \in Nat /\ s.odds = r.odds
  BY <1>4, <1>5
<1>8. /\ s.odds = [f \in Fixtures |-> s.odds[f]]
      /\ \A f \in Fixtures : \A answer \in s.odds[f] : \A x \in answer :
           x \in DOMAIN OddsFeed /\ OddsFeed[x].fixture_id = f
  BY <1>4, <1>7
<1>9. StartList(p, s)
  BY <1>3
<1> QED BY <1>6, <1>7, <1>8, <1>9, StartGoes

\* It has a sound transaction in hand.
LEMMA PrepareGoes ==
    ASSUME TermsKept, house.initialized, NEW p \in Procs, RunIsSound(run[p]),
           run[p].phase # "read", NEW tx, IsSound(tx), Prepare(p, tx)
    PROVE  Goes(p)
<1>1. PICK r : r = run[p]
  OBVIOUS
<1>2. RunIsSound(r)'
  BY <1>1, RunKept
<1>3. PICK s : /\ s = [r EXCEPT !.phase = "send", !.tx = tx]
               /\ run' = [run EXCEPT ![p] = s]
  BY <1>1 DEF Prepare, Becomes
<1>4. s = [job |-> r.job, phase |-> "send", todo |-> r.todo, at |-> r.at,
           lines |-> r.lines, odds |-> r.odds, tx |-> tx]
  BY <1>2, <1>3 DEF RunIsSound
<1>5. ListIsSound(s)'
  BY <1>2, <1>4 DEF RunIsSound, ListIsSound
<1>6. IsSound(tx)'
  BY SoundKept
<1>7. RunIsSound(s)'
  BY <1>1, <1>2, <1>4, <1>5, <1>6 DEF RunIsSound
<1> QED BY <1>3, <1>7 DEF Goes

\* It has read a list.
LEMMA ListGoes ==
    ASSUME NEW p \in Procs, RunIsSound(run[p]), NEW todo, NEW at \in Nat, NEW lines,
           StartList(p, [run[p] EXCEPT !.todo = todo, !.at = at, !.lines = lines]),
           UNCHANGED market, ListIsSound([job |-> run[p].job, todo |-> todo])
    PROVE  Goes(p)
<1>1. PICK r, s : /\ r = run[p] /\ s = [r EXCEPT !.todo = todo, !.at = at, !.lines = lines]
                  /\ StartList(p, s)
  OBVIOUS
<1>2. /\ r = [job |-> r.job, phase |-> r.phase, todo |-> r.todo, at |-> r.at,
              lines |-> r.lines, odds |-> r.odds, tx |-> r.tx]
      /\ r.odds = [f \in Fixtures |-> r.odds[f]]
      /\ \A f \in Fixtures : \A answer \in r.odds[f] : \A x \in answer :
           x \in DOMAIN OddsFeed /\ OddsFeed[x].fixture_id = f
  BY <1>1 DEF RunIsSound
<1>3. s = [job |-> r.job, phase |-> r.phase, todo |-> todo, at |-> at,
           lines |-> lines, odds |-> r.odds, tx |-> r.tx]
  BY <1>1, <1>2
<1>4. ListIsSound(s)'
  BY <1>1, <1>3 DEF ListIsSound
<1>5. /\ s = [job |-> s.job, phase |-> s.phase, todo |-> s.todo, at |-> s.at,
              lines |-> s.lines, odds |-> s.odds, tx |-> s.tx]
      /\ s.at \in Nat /\ s.odds = r.odds
  BY <1>3
<1>6. /\ s.odds = [f \in Fixtures |-> s.odds[f]]
      /\ \A f \in Fixtures : \A answer \in s.odds[f] : \A x \in answer :
           x \in DOMAIN OddsFeed /\ OddsFeed[x].fixture_id = f
  BY <1>2, <1>5
<1> QED BY <1>1, <1>4, <1>5, <1>6, StartGoes

-----------------------------------------------------------------------------
(* The steps of a process.  Reads leave the chain alone.                    *)

Quiet == UNCHANGED <<vars, inflight>>

LEMMA BeginGoes ==
    ASSUME KeeperInv, NEW p \in Procs, BeginCycle(p)
    PROVE  Quiet /\ Goes(p)
  BY EnterGoes DEF BeginCycle, Quiet, txVars

LEMMA ReadThrowsGoes ==
    ASSUME KeeperInv, NEW p \in Procs, ReadThrows(p)
    PROVE  Quiet /\ Goes(p)
  BY ThrowGoes DEF ReadThrows, Unanswered, Quiet

LEMMA CrashGoes ==
    ASSUME KeeperInv, NEW p \in Procs, Crash(p)
    PROVE  Quiet /\ Goes(p)
  BY EnterGoes DEF Crash, Unanswered, Quiet

\* A list that is read onto a process without touching what else it remembers.
LEMMA ListReadGoes ==
    ASSUME NEW p \in Procs, RunIsSound(run[p]), NEW todo,
           StartList(p, [run[p] EXCEPT !.todo = todo]), UNCHANGED market,
           ListIsSound([job |-> run[p].job, todo |-> todo])
    PROVE  Goes(p)
<1>1. PICK r : r = run[p]
  OBVIOUS
<1>2. /\ r = [job |-> r.job, phase |-> r.phase, todo |-> r.todo, at |-> r.at,
              lines |-> r.lines, odds |-> r.odds, tx |-> r.tx]
      /\ r.at \in Nat
  BY <1>1 DEF RunIsSound
<1>3. PICK at, lines : at \in Nat /\ at = r.at /\ lines = r.lines
  BY <1>2
<1>4. [r EXCEPT !.todo = todo] = [r EXCEPT !.todo = todo, !.at = at, !.lines = lines]
  BY <1>2, <1>3
<1>5. StartList(p, [run[p] EXCEPT !.todo = todo, !.at = at, !.lines = lines])
  BY <1>1, <1>4
<1> QED BY <1>3, <1>5, ListGoes

LEMMA CreateReadGoes ==
    ASSUME KeeperInv, NEW p \in Procs, CreateRead(p)
    PROVE  Quiet /\ Goes(p)
<1>1. RunIsSound(run[p]) /\ run[p].job = "create"
  BY DEF KeeperInv, RunsAreSound, CreateRead, At
<1>2. Quiet
  BY DEF CreateRead, Answered, Unanswered, ReadThrows, Quiet, txVars
<1>3. ASSUME NEW todo \in SUBSET Questions, StartList(p, [run[p] EXCEPT !.todo = todo])
      PROVE  Goes(p)
  <2>1. ListIsSound([job |-> run[p].job, todo |-> todo])
    BY <1>1, QuestionsAreTyped DEF ListIsSound
  <2> QED BY <1>1, <1>2, <1>3, <2>1, ListReadGoes DEF Quiet, vars, accounts
<1> QED BY <1>2, <1>3, EnterGoes, ReadThrowsGoes DEF CreateRead

LEMMA LockReadGoes ==
    ASSUME KeeperInv, NEW p \in Procs, LockRead(p)
    PROVE  Quiet /\ Goes(p)
<1>1. RunIsSound(run[p]) /\ run[p].job = "lock"
  BY DEF KeeperInv, RunsAreSound, LockRead, At
<1>2. Quiet
  BY DEF LockRead, Answered, Unanswered, ReadThrows, Quiet, txVars
<1>3. ASSUME NEW todo \in SUBSET MarketIds, StartList(p, [run[p] EXCEPT !.todo = todo])
      PROVE  Goes(p)
  <2>1. ListIsSound([job |-> run[p].job, todo |-> todo])
    BY <1>1, KeeperConstants DEF ListIsSound
  <2> QED BY <1>1, <1>2, <1>3, <2>1, ListReadGoes DEF Quiet, vars, accounts
<1> QED BY <1>2, <1>3, ReadThrowsGoes DEF LockRead

LEMMA InPlayReadGoes ==
    ASSUME KeeperInv, NEW p \in Procs, InPlayRead(p)
    PROVE  Quiet /\ Goes(p)
<1>1. RunIsSound(run[p]) /\ run[p].job = "inplay" /\ now \in Nat
  BY ConstantTypes
     DEF KeeperInv, RunsAreSound, InPlayRead, At, NumberingInv, BookInv, TypeOK
<1>2. Quiet
  BY DEF InPlayRead, Answered, Unanswered, ReadThrows, Quiet, txVars
<1>3. ASSUME NEW todo \in SUBSET Fixtures, NEW lines,
             StartList(p, [run[p] EXCEPT !.todo = todo, !.at = now, !.lines = lines])
      PROVE  Goes(p)
  <2>1. ListIsSound([job |-> run[p].job, todo |-> todo])
    BY <1>1, KeeperConstants DEF ListIsSound
  <2> QED BY <1>1, <1>2, <1>3, <2>1, ListGoes DEF Quiet, vars, accounts
<1> QED BY <1>2, <1>3, EnterGoes, ReadThrowsGoes DEF InPlayRead

LEMMA QuoteReadGoes ==
    ASSUME KeeperInv, NEW p \in Procs, QuoteRead(p)
    PROVE  Quiet /\ Goes(p)
<1>1. RunIsSound(run[p]) /\ run[p].job = "quote"
  BY DEF KeeperInv, RunsAreSound, QuoteRead, At
<1>2. Quiet
  BY DEF QuoteRead, Answered, Unanswered, ReadThrows, Quiet, txVars
<1>3. ASSUME StartList(p, [run[p] EXCEPT !.todo = Quoted])
      PROVE  Goes(p)
  <2>1. ListIsSound([job |-> run[p].job, todo |-> Quoted])
    BY <1>1, KeeperConstants DEF ListIsSound, Quoted
  <2> QED BY <1>1, <1>2, <1>3, <2>1, ListReadGoes DEF Quiet, vars, accounts
<1> QED BY <1>2, <1>3, ReadThrowsGoes DEF QuoteRead

LEMMA SettleReadGoes ==
    ASSUME KeeperInv, NEW p \in Procs, SettleRead(p)
    PROVE  Quiet /\ Goes(p)
<1>1. RunIsSound(run[p]) /\ run[p].job = "settle"
  BY DEF KeeperInv, RunsAreSound, SettleRead, At
<1>2. Quiet
  BY DEF SettleRead, Answered, Unanswered, ReadThrows, Quiet, txVars
<1>3. ASSUME NEW todo \in SUBSET MarketIds, StartList(p, [run[p] EXCEPT !.todo = todo])
      PROVE  Goes(p)
  <2>1. ListIsSound([job |-> run[p].job, todo |-> todo])
    BY <1>1, KeeperConstants DEF ListIsSound
  <2> QED BY <1>1, <1>2, <1>3, <2>1, ListReadGoes DEF Quiet, vars, accounts
<1> QED BY <1>2, <1>3, ReadThrowsGoes DEF SettleRead

LEMMA RigReadGoes ==
    ASSUME KeeperInv, NEW p \in Procs, RigRead(p)
    PROVE  Quiet /\ Goes(p)
<1>1. RunIsSound(run[p]) /\ run[p].job = "rig"
  BY DEF KeeperInv, RunsAreSound, RigRead, At
<1>2. Quiet /\ StartList(p, [run[p] EXCEPT !.todo = RigSkip])
  BY DEF RigRead, Quiet, txVars
<1>3. ListIsSound([job |-> run[p].job, todo |-> RigSkip])
  BY <1>1, KeeperConstants DEF ListIsSound
<1> QED BY <1>1, <1>2, <1>3, ListReadGoes DEF Quiet, vars, accounts

LEMMA QuietKeepsTerms ==
    ASSUME KeeperInv, Quiet
    PROVE  TermsKept /\ house.initialized
  BY TermsNext DEF KeeperInv, HouseIsSet, Quiet

LEMMA CreateResolveGoes ==
    ASSUME KeeperInv, NEW p \in Procs, CreateResolve(p)
    PROVE  Quiet /\ Goes(p)
<1>1. RunIsSound(run[p]) /\ run[p].job = "create" /\ run[p].phase = "work"
  BY DEF KeeperInv, RunsAreSound, CreateResolve, At
<1>2. Quiet
  BY DEF CreateResolve, Answered, Unanswered, Quiet, txVars
<1>3. Item(p) \in Questions
  BY <1>1, ItemIsListed DEF RunIsSound, ListIsSound
<1>4. PICK tx : tx = [op |-> "create", id |-> house.market_count,
                      fixture |-> FixtureAt(Item(p)), params |-> BlueprintAt(Item(p)),
                      kickoff |-> StartOf[FixtureAt(Item(p))]]
  OBVIOUS
<1>5. IsSound(tx)
  BY <1>3, <1>4, QuestionsAreTyped DEF IsSound
<1>6. Prepare(p, tx) \/ DropItem(p)
  BY <1>4 DEF CreateResolve
<1> QED BY <1>1, <1>2, <1>5, <1>6, QuietKeepsTerms, PrepareGoes, DropGoes

LEMMA InPlayResolveGoes ==
    ASSUME KeeperInv, NEW p \in Procs, InPlayResolve(p)
    PROVE  Quiet /\ Goes(p)
<1>1. /\ RunIsSound(run[p]) /\ run[p].job = "inplay" /\ run[p].phase = "work"
      /\ run[p].at \in Nat
  BY DEF KeeperInv, RunsAreSound, InPlayResolve, At, RunIsSound
<1>2. Quiet
  BY DEF InPlayResolve, Answered, Unanswered, Quiet, txVars
<1>3. Item(p) \in Fixtures
  BY <1>1, ItemIsListed DEF RunIsSound, ListIsSound
<1>4. ASSUME NEW row \in latestScoreRow(Scores(Item(p))), row.goals # Unmapped,
             NEW tx, tx = [op |-> "create", id |-> house.market_count, fixture |-> Item(p),
                           params |-> inPlayTotalsBlueprint(row.goals),
                           kickoff |-> run[p].at + IN_PLAY_WINDOW]
      PROVE  IsSound(tx)
  <2>1. row \in ScoreRows[Item(p)]
    BY DEF latestScoreRow, Scores
  <2>2. inPlayTotalsBlueprint(row.goals) \in Predicates
    BY <1>3, <1>4, <2>1, KeeperAssumption
  <2>3. run[p].at + IN_PLAY_WINDOW \in Nat
    BY <1>1, KeeperConstants
  <2> QED BY <1>3, <1>4, <2>2, <2>3 DEF IsSound
<1>5. \/ DropItem(p)
      \/ \E row \in latestScoreRow(Scores(Item(p))) :
           /\ row.goals # Unmapped
           /\ Prepare(p, [op |-> "create", id |-> house.market_count, fixture |-> Item(p),
                          params |-> inPlayTotalsBlueprint(row.goals),
                          kickoff |-> run[p].at + IN_PLAY_WINDOW])
  BY DEF InPlayResolve
<1>6. DropItem(p) \/ \E tx : IsSound(tx) /\ Prepare(p, tx)
  BY <1>4, <1>5
<1> QED BY <1>1, <1>2, <1>6, QuietKeepsTerms, PrepareGoes, DropGoes

\* An answer of the feed about a fixture is records of the fixture.
LEMMA QuoteFetchGoes ==
    ASSUME KeeperInv, NEW p \in Procs, QuoteFetch(p)
    PROVE  Quiet /\ Goes(p)
<1>1. RunIsSound(run[p]) /\ run[p].job = "quote" /\ run[p].phase = "work"
  BY DEF KeeperInv, RunsAreSound, QuoteFetch, At
<1>2. Quiet
  BY DEF QuoteFetch, Answered, Unanswered, Quiet, txVars
<1> DEFINE f == market[Item(p)].fixture_id
<1>3. PICK answer, r, s :
        /\ answer \in {OddsUpdates(f), {}} /\ r = run[p]
        /\ s = [r EXCEPT !.odds[f] = {answer}] /\ Becomes(p, s)
  BY DEF QuoteFetch
<1>4. \A x \in answer : x \in DOMAIN OddsFeed /\ OddsFeed[x].fixture_id = f
  BY <1>3 DEF OddsUpdates, AllKnown
<1>5. RunIsSound(r) /\ RunIsSound(r)'
  BY <1>1, <1>2, <1>3, QuietKeepsTerms, RunKept
<1>6. s = [job |-> r.job, phase |-> r.phase, todo |-> r.todo, at |-> r.at,
           lines |-> r.lines, odds |-> [r.odds EXCEPT ![f] = {answer}], tx |-> r.tx]
  BY <1>3, <1>5 DEF RunIsSound
<1>7. /\ s.odds = [g \in Fixtures |-> s.odds[g]]
      /\ \A g \in Fixtures : \A a \in s.odds[g] : \A x \in a :
           x \in DOMAIN OddsFeed /\ OddsFeed[x].fixture_id = g
  <2>1. /\ r.odds = [g \in Fixtures |-> r.odds[g]]
        /\ \A g \in Fixtures : \A a \in r.odds[g] : \A x \in a :
             x \in DOMAIN OddsFeed /\ OddsFeed[x].fixture_id = g
    BY <1>5 DEF RunIsSound
  <2> QED BY <1>4, <1>6, <2>1
<1>8. ListIsSound(s)'
  BY <1>5, <1>6 DEF RunIsSound, ListIsSound
<1>9. RunIsSound(s)'
  <2>1. r.phase = "work"
    BY <1>1, <1>3
  <2> QED BY <1>5, <1>6, <1>7, <1>8, <2>1 DEF RunIsSound
<1> QED BY <1>2, <1>3, <1>9 DEF Becomes, Goes

\* The catalog's descriptor of a market is the record that its audits expect.
LEMMA DescriptorIsExpected ==
    ASSUME KeeperInv, NEW m \in MarketIds, market[m].state # "Vacant"
    PROVE  (CHOOSE d \in describeMarketParams(market[m].params) : TRUE)
             = expected_odds_record(market[m].params)
<1>1. PICK params \in MarketParams : params = market[m].params /\ IsSupported(params)
  BY KeeperConstants DEF KeeperInv, MarketsAreNamed
<1>2. describeMarketParams(params) = {expected_odds_record(params)}
  BY <1>1, CatalogAgrees
<1> QED BY <1>1, <1>2

LEMMA MarginIsSet ==
    ASSUME KeeperInv
    PROVE  house.margin_bps \in Nat /\ house.margin_bps > 0 /\ house.margin_bps <= BPS_DENOMINATOR
<1>1. PICK n \in Nat : n = BPS_DENOMINATOR
  BY DEF BPS_DENOMINATOR
<1>2. PICK x \in 1..n : x = house.margin_bps
  BY <1>1 DEF KeeperInv, HouseIsSet
<1> QED BY <1>1, <1>2

\* A record that is picked for a market is one that its audits can be made
\* from, if they take its price.
LEMMA PickedRecord ==
    ASSUME KeeperInv, NEW m \in MarketIds, market[m].state # "Vacant",
           NEW records,
           \A x \in records : x \in DOMAIN OddsFeed /\ OddsFeed[x].fixture_id = market[m].fixture_id,
           NEW r \in pickConsensusRecord(records, expected_odds_record(market[m].params))
    PROVE  /\ r \in RecordIds /\ ConsensusPrice(m, r) \in Nat
           /\ IsRawPrice(ConsensusPrice(m, r)) => IsAuditable(m, r)
<1>1. /\ r \in records
      /\ record_matches_expectation(expected_odds_record(market[m].params), OddsFeed[r])
      /\ expected_odds_record(market[m].params).yes_price_index \in DOMAIN OddsFeed[r].prices
  BY DEF pickConsensusRecord
<1>2. r \in DOMAIN OddsFeed /\ OddsFeed[r].fixture_id = market[m].fixture_id
  BY <1>1
<1> QED BY <1>1, <1>2, KeeperConstants DEF ConsensusPrice, IsAuditable

\* However old the answer it was made from, the quote is honest if it is posted.
LEMMA QuoteResolveGoes ==
    ASSUME KeeperInv, NEW p \in Procs, QuoteResolve(p)
    PROVE  Quiet /\ Goes(p)
<1>1. RunIsSound(run[p]) /\ run[p].job = "quote" /\ run[p].phase = "work"
  BY DEF KeeperInv, RunsAreSound, QuoteResolve, At
<1>2. Quiet
  BY DEF QuoteResolve, Quiet, txVars
<1>3. /\ Item(p) \in MarketIds /\ Item(p) \notin RigSkip
      /\ market[Item(p)].state # "Vacant"
  BY <1>1, ItemIsListed DEF RunIsSound, ListIsSound
<1> DEFINE m == Item(p)
           records == UNION run[p].odds[market[m].fixture_id]
           picked == pickConsensusRecord(records, expected_odds_record(market[m].params))
<1>4. \A x \in records : x \in DOMAIN OddsFeed /\ OddsFeed[x].fixture_id = market[m].fixture_id
  <2>1. market[m].fixture_id \in Fixtures
    BY <1>3 DEF KeeperInv, MarketsAreNamed
  <2> QED BY <1>1, <2>1 DEF RunIsSound
<1>5. \/ DropItem(p)
      \/ \E r \in picked :
           \E q \in houseQuoteFromConsensus(ConsensusPrice(m, r), house.margin_bps) :
             Prepare(p, [op |-> "quote", m |-> m, odds |-> AsOdds(q), record |-> r])
  BY <1>3, DescriptorIsExpected DEF QuoteResolve, ConsensusPrice
<1>6. ASSUME NEW r \in picked,
             NEW q \in houseQuoteFromConsensus(ConsensusPrice(m, r), house.margin_bps),
             NEW tx, tx = [op |-> "quote", m |-> m, odds |-> AsOdds(q), record |-> r]
      PROVE  IsSound(tx)
  <2>1. /\ r \in RecordIds /\ ConsensusPrice(m, r) \in Nat
        /\ IsRawPrice(ConsensusPrice(m, r)) => IsAuditable(m, r)
    BY <1>3, <1>4, PickedRecord
  <2>2. ASSUME \A s \in Sides : IsOdds(AsOdds(q)[s])
        PROVE  AsOdds(q) \in [Sides -> Nat] /\ HonestQuote(m, AsOdds(q), r)
    <3>1. IsPostable(q)
      BY <2>2 DEF AsOdds, Sides, IsPostable
    <3>2. PICK margin \in Nat : margin = house.margin_bps /\ margin > 0 /\ margin <= BPS_DENOMINATOR
      BY MarginIsSet
    <3>3. PICK price \in Nat : price = ConsensusPrice(m, r)
      BY <2>1
    <3>4. IsRawPrice(price) /\ q.yes \in Nat /\ q.no \in Nat
      BY <3>1, <3>2, <3>3, PostableIsAuditable
    <3>5. IsHonest(q.yes, "Yes", price, margin) /\ IsHonest(q.no, "No", price, margin)
      BY <3>1, <3>2, <3>3, <3>4, HouseQuotePasses
    <3> QED BY <2>1, <3>2, <3>3, <3>4, <3>5 DEF HonestQuote, AsOdds, Sides
  <2> QED BY <1>3, <1>6, <2>1, <2>2 DEF IsSound, IsSafeQuote
<1> HIDE DEF picked
<1>7. DropItem(p) \/ \E tx : IsSound(tx) /\ Prepare(p, tx)
  BY <1>5, <1>6
<1> QED BY <1>1, <1>2, <1>7, QuietKeepsTerms, PrepareGoes, DropGoes

\* A quote of the markets kept rigged is well-formed if it is posted.
LEMMA RigResolveGoes ==
    ASSUME KeeperInv, NEW p \in Procs, RigResolve(p)
    PROVE  Quiet /\ Goes(p)
<1>1. RunIsSound(run[p]) /\ run[p].job = "rig" /\ run[p].phase = "work"
  BY DEF KeeperInv, RunsAreSound, RigResolve, At
<1>2. Quiet
  BY DEF RigResolve, Answered, Unanswered, ReadThrows, Quiet, txVars
<1>3. Item(p) \in MarketIds /\ Item(p) \in RigSkip
  BY <1>1, ItemIsListed DEF RunIsSound, ListIsSound
<1> DEFINE m == Item(p)
           records == OddsUpdates(market[m].fixture_id)
           picked == pickConsensusRecord(records, expected_odds_record(market[m].params))
<1>4. \A x \in records : x \in DOMAIN OddsFeed /\ OddsFeed[x].fixture_id = market[m].fixture_id
  BY DEF OddsUpdates, AllKnown
<1>5. \/ DropItem(p) \/ Throw(p) \/ ReadThrows(p)
      \/ /\ market[m].state = "Open"
         /\ \E r \in picked :
             \E q \in riggedQuoteFromConsensus(ConsensusPrice(m, r), house.margin_bps, RigFactor) :
               Prepare(p, [op |-> "quote", m |-> m, odds |-> AsOdds(q), record |-> r])
  BY <1>3, DescriptorIsExpected DEF RigResolve, ConsensusPrice
<1>6. ASSUME market[m].state = "Open", NEW r \in picked,
             NEW q \in riggedQuoteFromConsensus(ConsensusPrice(m, r), house.margin_bps, RigFactor),
             NEW tx, tx = [op |-> "quote", m |-> m, odds |-> AsOdds(q), record |-> r]
      PROVE  IsSound(tx)
  <2>1. r \in RecordIds /\ ConsensusPrice(m, r) \in Nat
    BY <1>3, <1>4, <1>6, PickedRecord
  <2>2. ASSUME \A s \in Sides : IsOdds(AsOdds(q)[s])
        PROVE  AsOdds(q) \in [Sides -> Nat]
    <3>1. IsOdds(q.yes) /\ IsOdds(q.no)
      BY <2>2 DEF AsOdds, Sides
    <3>2. PICK margin \in Nat : margin = house.margin_bps
      BY MarginIsSet
    <3>3. PICK price \in Nat : price = ConsensusPrice(m, r)
      BY <2>1
    <3>4. q.yes \in houseOddsBpsFromImplied("Yes", price, margin)
          /\ q.no \in riggedNoOddsBps(price, RigFactor)
      BY <3>2, <3>3 DEF riggedQuoteFromConsensus
    <3>5. q.yes \in Nat /\ price > 1000
      BY <3>1, <3>4, YesAboveEven
    <3>6. q.no \in Nat
      BY <3>1, <3>4, <3>5, KeeperAssumption, RiggedOddsType
    <3> QED BY <3>5, <3>6 DEF AsOdds, Sides
  <2> QED BY <1>3, <1>6, <2>1, <2>2 DEF IsSound, IsSafeQuote
<1> HIDE DEF picked
<1>7. DropItem(p) \/ Throw(p) \/ ReadThrows(p) \/ \E tx : IsSound(tx) /\ Prepare(p, tx)
  BY <1>5, <1>6
<1> QED BY <1>1, <1>2, <1>7, QuietKeepsTerms, PrepareGoes, DropGoes, ThrowGoes, ReadThrowsGoes

\* The proof in hand is for a market that exists, or there is none.
LEMMA SettleProveGoes ==
    ASSUME KeeperInv, NEW p \in Procs, SettleProve(p)
    PROVE  Quiet /\ Goes(p)
<1>1. RunIsSound(run[p]) /\ run[p].job = "settle" /\ run[p].phase = "work"
  BY DEF KeeperInv, RunsAreSound, SettleProve, At
<1>2. Quiet
  BY DEF SettleProve, Answered, Unanswered, ReadThrows, Quiet, txVars
<1>3. Item(p) \in MarketIds
  BY <1>1, ItemIsListed DEF RunIsSound, ListIsSound
<1>4. ASSUME NEW proof, Prepare(p, [op |-> "verify", m |-> Item(p), proof |-> proof])
      PROVE  \E tx : IsSound(tx) /\ Prepare(p, tx)
  <2>1. PICK tx : tx = [op |-> "verify", m |-> Item(p), proof |-> proof] /\ Prepare(p, tx)
    BY <1>4
  <2> QED BY <1>3, <2>1 DEF IsSound
<1>5. \/ DropItem(p) \/ ReadThrows(p)
      \/ \E proof : Prepare(p, [op |-> "verify", m |-> Item(p), proof |-> proof])
  BY DEF SettleProve
<1>6. DropItem(p) \/ ReadThrows(p) \/ \E tx : IsSound(tx) /\ Prepare(p, tx)
  BY <1>4, <1>5
<1> QED BY <1>1, <1>2, <1>6, QuietKeepsTerms, PrepareGoes, DropGoes, ReadThrowsGoes

\* It goes on with the same list, at another point of the item in hand.
LEMMA WorkGoes ==
    ASSUME TermsKept, house.initialized, NEW p \in Procs, RunIsSound(run[p]),
           run[p].phase # "read", NEW phase \in {"tickets", "pay"}, NEW lines, NEW tx,
           Becomes(p, [run[p] EXCEPT !.phase = phase, !.lines = lines, !.tx = tx]),
           phase = "pay" => lines # {} /\ lines \subseteq TicketIds
    PROVE  Goes(p)
<1>1. PICK r : r = run[p]
  OBVIOUS
<1>2. RunIsSound(r)'
  BY <1>1, RunKept
<1>3. PICK s : /\ s = [r EXCEPT !.phase = phase, !.lines = lines, !.tx = tx]
               /\ run' = [run EXCEPT ![p] = s]
  BY <1>1 DEF Becomes
<1>4. s = [job |-> r.job, phase |-> phase, todo |-> r.todo, at |-> r.at,
           lines |-> lines, odds |-> r.odds, tx |-> tx]
  BY <1>2, <1>3 DEF RunIsSound
<1>5. ListIsSound(s)'
  BY <1>2, <1>4 DEF RunIsSound, ListIsSound
<1>6. RunIsSound(s)'
  BY <1>1, <1>2, <1>4, <1>5 DEF RunIsSound
<1> QED BY <1>3, <1>6 DEF Goes

LEMMA TicketsReadGoes ==
    ASSUME KeeperInv, NEW p \in Procs, TicketsRead(p)
    PROVE  Quiet /\ Goes(p)
<1>1. RunIsSound(run[p]) /\ run[p].phase = "tickets"
  BY DEF KeeperInv, RunsAreSound, TicketsRead, At
<1>2. Quiet
  BY DEF TicketsRead, Answered, Unanswered, ReadThrows, Quiet, txVars
<1>3. ASSUME NEW lines \in SUBSET TicketIds, lines # {},
             Becomes(p, [run[p] EXCEPT !.phase = "pay", !.lines = lines])
      PROVE  Goes(p)
  <2>1. PICK r, tx : r = run[p] /\ tx = r.tx
    OBVIOUS
  <2>2. r = [job |-> r.job, phase |-> r.phase, todo |-> r.todo, at |-> r.at,
             lines |-> r.lines, odds |-> r.odds, tx |-> r.tx]
    BY <1>1, <2>1 DEF RunIsSound
  <2>3. [r EXCEPT !.phase = "pay", !.lines = lines]
          = [r EXCEPT !.phase = "pay", !.lines = lines, !.tx = tx]
    BY <2>1, <2>2
  <2>4. Becomes(p, [run[p] EXCEPT !.phase = "pay", !.lines = lines, !.tx = tx])
    BY <1>3, <2>1, <2>3
  <2> QED BY <1>1, <1>2, <1>3, <2>4, QuietKeepsTerms, WorkGoes
<1>4. LiveTicketsOf(Item(p)) \subseteq TicketIds
  BY DEF LiveTicketsOf
<1>5. \/ DropItem(p) \/ ReadThrows(p)
      \/ /\ LiveTicketsOf(Item(p)) # {}
         /\ Becomes(p, [run[p] EXCEPT !.phase = "pay", !.lines = LiveTicketsOf(Item(p))])
  BY DEF TicketsRead
<1> QED BY <1>1, <1>2, <1>3, <1>4, <1>5, QuietKeepsTerms, DropGoes, ReadThrowsGoes

-----------------------------------------------------------------------------
(* The sends.                                                              *)

\* What a transaction does to the chain, now or later.
Sent(tx) ==
    /\ Execute(tx) \/ UNCHANGED vars
    /\ \A late \in inflight' : late \in inflight \/ late.tx = tx

\* What every step of the keeper does to the chain and the network.
Honestly ==
    /\ [HonestInstruction]_vars
    /\ \A late \in inflight' : IsSound(late.tx)

LEMMA QuietIsHonest == ASSUME KeeperInv, Quiet PROVE Honestly
  BY DEF KeeperInv, InflightIsSound, Quiet, Honestly

LEMMA SentIsHonest ==
    ASSUME KeeperInv, NEW tx, IsSound(tx), Sent(tx)
    PROVE  Honestly
  BY SoundIsHonest DEF KeeperInv, InflightIsSound, Sent, Honestly

LEMMA HonestlyKeepsTerms ==
    ASSUME KeeperInv, Honestly
    PROVE  TermsKept /\ house.initialized /\ NumberingInv'
  BY HonestIsInstruction, TermsNext DEF KeeperInv, HouseIsSet, Honestly

LEMMA SendCaughtGoes ==
    ASSUME KeeperInv, NEW p \in Procs, SendCaught(p)
    PROVE  Honestly /\ Goes(p)
<1>1. RunIsSound(run[p]) /\ run[p].phase = "send" /\ IsSound(run[p].tx)
  BY DEF KeeperInv, RunsAreSound, SendCaught, RunIsSound
<1>2. DropItem(p) /\ Sent(run[p].tx)
  BY DEF SendCaught, Send, Sent, Fault, txVars
<1>3. Honestly
  BY <1>1, <1>2, SentIsHonest
<1> QED BY <1>1, <1>2, <1>3, HonestlyKeepsTerms, DropGoes

LEMMA LockSendGoes ==
    ASSUME KeeperInv, NEW p \in Procs, LockSend(p)
    PROVE  Honestly /\ Goes(p)
<1>1. RunIsSound(run[p]) /\ run[p].job = "lock" /\ run[p].phase = "work"
  BY DEF KeeperInv, RunsAreSound, LockSend, At
<1>2. PICK tx : tx = [op |-> "lock", m |-> Item(p)] /\ Send(tx, DropItem(p), DropItem(p))
  BY DEF LockSend
<1>3. IsSound(tx)
  BY <1>1, <1>2, ItemIsListed DEF RunIsSound, ListIsSound, IsSound
<1>4. DropItem(p) /\ Sent(tx)
  BY <1>2 DEF Send, Sent, Fault, txVars
<1>5. Honestly
  BY <1>3, <1>4, SentIsHonest
<1> QED BY <1>1, <1>4, <1>5, HonestlyKeepsTerms, DropGoes

LEMMA SettleVerifyGoes ==
    ASSUME KeeperInv, NEW p \in Procs, SettleVerify(p)
    PROVE  Honestly /\ Goes(p)
<1>1. RunIsSound(run[p]) /\ run[p].phase = "send" /\ IsSound(run[p].tx)
  BY DEF KeeperInv, RunsAreSound, SettleVerify, At, RunIsSound
<1>2. /\ Throw(p) \/ Becomes(p, [run[p] EXCEPT !.phase = "tickets", !.tx = None])
      /\ Sent(run[p].tx)
  BY DEF SettleVerify, Send, Sent, Fault, txVars
<1>3. Honestly
  BY <1>1, <1>2, SentIsHonest
<1>4. ASSUME Becomes(p, [run[p] EXCEPT !.phase = "tickets", !.tx = None])
      PROVE  Goes(p)
  <2>1. PICK r, lines : r = run[p] /\ lines = r.lines
    OBVIOUS
  <2>2. r = [job |-> r.job, phase |-> r.phase, todo |-> r.todo, at |-> r.at,
             lines |-> r.lines, odds |-> r.odds, tx |-> r.tx]
    BY <1>1, <2>1 DEF RunIsSound
  <2>3. [r EXCEPT !.phase = "tickets", !.tx = None]
          = [r EXCEPT !.phase = "tickets", !.lines = lines, !.tx = None]
    BY <2>1, <2>2
  <2>4. Becomes(p, [run[p] EXCEPT !.phase = "tickets", !.lines = lines, !.tx = None])
    BY <1>4, <2>1, <2>3
  <2> QED BY <1>1, <1>3, <2>4, HonestlyKeepsTerms, WorkGoes
<1> QED BY <1>2, <1>3, <1>4, ThrowGoes

LEMMA TicketSendGoes ==
    ASSUME KeeperInv, NEW p \in Procs, TicketSend(p)
    PROVE  Honestly /\ Goes(p)
<1>1. /\ RunIsSound(run[p]) /\ run[p].phase = "pay"
      /\ run[p].lines # {} /\ run[p].lines \subseteq TicketIds
  BY DEF KeeperInv, RunsAreSound, TicketSend, At, RunIsSound
<1>2. PICK t : t = Min(run[p].lines)
  OBVIOUS
<1>3. t \in TicketIds
  BY <1>1, <1>2, MinIsMember, KeeperConstants
<1>4. PICK tx : /\ tx = [op |-> "settle", t |-> t]
                /\ Sent(tx)
  BY <1>2 DEF TicketSend, Send, Sent, Fault, txVars
<1>5. Honestly
  BY <1>3, <1>4, SentIsHonest DEF IsSound
<1>6. IF run[p].lines = {t} THEN DropItem(p)
      ELSE Becomes(p, [run[p] EXCEPT !.lines = run[p].lines \ {t}])
  BY <1>2 DEF TicketSend, Send
<1>7. ASSUME run[p].lines # {t}, Becomes(p, [run[p] EXCEPT !.lines = run[p].lines \ {t}])
      PROVE  Goes(p)
  <2>1. PICK r, lines, tt : r = run[p] /\ lines = r.lines \ {t} /\ tt = r.tx
    OBVIOUS
  <2>2. r = [job |-> r.job, phase |-> r.phase, todo |-> r.todo, at |-> r.at,
             lines |-> r.lines, odds |-> r.odds, tx |-> r.tx]
    BY <1>1, <2>1 DEF RunIsSound
  <2>3. [r EXCEPT !.lines = lines] = [r EXCEPT !.phase = "pay", !.lines = lines, !.tx = tt]
    BY <1>1, <2>1, <2>2
  <2>4. Becomes(p, [run[p] EXCEPT !.phase = "pay", !.lines = lines, !.tx = tt])
    BY <1>7, <2>1, <2>3
  <2>5. lines # {} /\ lines \subseteq TicketIds
    BY <1>1, <1>7, <2>1
  <2> QED BY <1>1, <1>5, <2>4, <2>5, HonestlyKeepsTerms, WorkGoes
<1> QED BY <1>1, <1>5, <1>6, <1>7, HonestlyKeepsTerms, DropGoes

LEMMA RigSendGoes ==
    ASSUME KeeperInv, NEW p \in Procs, RigSend(p)
    PROVE  Honestly /\ Goes(p)
<1>1. RunIsSound(run[p]) /\ run[p].phase = "send" /\ IsSound(run[p].tx)
  BY DEF KeeperInv, RunsAreSound, RigSend, At, RunIsSound
<1>2. (DropItem(p) \/ Throw(p)) /\ Sent(run[p].tx)
  BY DEF RigSend, Send, Sent, Fault, txVars
<1>3. Honestly
  BY <1>1, <1>2, SentIsHonest
<1> QED BY <1>1, <1>2, <1>3, HonestlyKeepsTerms, DropGoes, ThrowGoes

-----------------------------------------------------------------------------
(* Every step keeps the invariant.                                         *)

\* Whatever a process does, it does to the chain what it may, and goes on with
\* what it may remember.
LEMMA StepGoes ==
    ASSUME KeeperInv, NEW p \in Procs, Step(p) \/ Crash(p)
    PROVE  Honestly /\ Goes(p)
<1>1. CASE \/ BeginCycle(p) \/ CreateRead(p) \/ CreateResolve(p)
           \/ LockRead(p) \/ InPlayRead(p) \/ InPlayResolve(p)
           \/ QuoteRead(p) \/ QuoteFetch(p) \/ QuoteResolve(p)
           \/ SettleRead(p) \/ SettleProve(p) \/ TicketsRead(p)
           \/ RigRead(p) \/ RigResolve(p) \/ Crash(p)
  BY <1>1, QuietIsHonest, BeginGoes, CreateReadGoes, CreateResolveGoes, LockReadGoes,
     InPlayReadGoes, InPlayResolveGoes, QuoteReadGoes, QuoteFetchGoes, QuoteResolveGoes,
     SettleReadGoes, SettleProveGoes, TicketsReadGoes, RigReadGoes, RigResolveGoes, CrashGoes
<1>2. CASE SendCaught(p) \/ LockSend(p) \/ SettleVerify(p) \/ TicketSend(p) \/ RigSend(p)
  BY <1>2, SendCaughtGoes, LockSendGoes, SettleVerifyGoes, TicketSendGoes, RigSendGoes
<1> QED BY <1>1, <1>2 DEF Step

\* The rest happens around the processes, which remember what they did.
LEMMA OthersAreHonest ==
    ASSUME KeeperInv,
           Others \/ ((LandLate \/ ClockTicks) /\ UNCHANGED run) \/ UNCHANGED keeperVars
    PROVE  Honestly /\ UNCHANGED run
<1>1. ASSUME Others PROVE Honestly
  <2>1. HonestInstruction
    BY <1>1, ConstantTypes DEF Others, HonestInstruction
  <2>2. inflight' = inflight
    BY <1>1 DEF Others, txVars
  <2> QED BY <2>1, <2>2 DEF KeeperInv, InflightIsSound, Honestly
<1>2. ASSUME LandLate PROVE Honestly
  <2>1. PICK late \in inflight : Execute(late.tx) /\ inflight' = inflight \ {late}
    BY <1>2 DEF LandLate
  <2>2. IsSound(late.tx) /\ Sent(late.tx)
    BY <2>1 DEF KeeperInv, InflightIsSound, Sent
  <2>3. PICK tx : tx = late.tx
    OBVIOUS
  <2> QED BY <2>2, <2>3, SentIsHonest
<1>3. ASSUME ClockTicks PROVE Honestly
  BY <1>3 DEF ClockTicks, HonestInstruction, KeeperInv, InflightIsSound, Honestly
<1>4. ASSUME UNCHANGED keeperVars PROVE Honestly
  BY <1>4, QuietIsHonest DEF keeperVars, txVars, Quiet
<1> QED BY <1>1, <1>2, <1>3, <1>4 DEF Others, keeperVars

\* The house stays the one that setup made.
LEMMA HouseStaysSet ==
    ASSUME NumberingInv, HouseIsSet, [HonestInstruction]_vars
    PROVE  HouseIsSet'
<1>1. TermsKept /\ house \in House
  BY HonestIsInstruction, TermsNext DEF NumberingInv, BookInv, TypeOK
<1>2. house'.margin_bps \in 1..BPS_DENOMINATOR
  BY <1>1 DEF HouseIsSet, TermsKept, HouseTermsKept
<1>3. house'.initialized
  <2>1. ASSUME NEW f \in Fixtures, NEW p \in Predicates, NEW k \in Nat, CreateMarket(f, p, k)
        PROVE  house'.initialized
    BY <1>1, <2>1 DEF CreateMarket, HouseIsSet, House
  <2>2. ASSUME NEW t \in TicketIds, NEW m \in MarketIds, NEW s \in Sides, NEW stake \in Amount,
               PlaceBet(t, m, s, stake)
        PROVE  house'.initialized
    BY <2>2, PlaceBetEffect DEF HouseIsSet, NumberingInv
  <2>3. ASSUME NEW t \in TicketIds, SettleTicket(t)
        PROVE  house'.initialized
    BY <1>1, <2>3 DEF SettleTicket, ReleaseExposure, HouseIsSet, House
  <2>4. ASSUME \/ \E m \in MarketIds, q \in [Sides -> Nat], r \in RecordIds : PostQuote(m, q, r)
               \/ \E m \in MarketIds : LockMarket(m)
               \/ \E m \in MarketIds, proof \in ScoreProofs : VerifyMarket(m, proof)
               \/ \E m \in MarketIds : VoidMarket(m, FALSE)
               \/ Tick
               \/ UNCHANGED vars
        PROVE  house'.initialized
    BY <2>4 DEF PostQuote, LockMarket, VerifyMarket, VoidMarket, Tick, vars, accounts, HouseIsSet
  <2> QED BY <2>1, <2>2, <2>3, <2>4 DEF HonestInstruction
<1> QED BY <1>2, <1>3 DEF HouseIsSet

LEMMA KeeperNextKeeps == KeeperInv /\ [KeeperNext]_keeperVars => KeeperInv'
<1> SUFFICES ASSUME KeeperInv, [KeeperNext]_keeperVars
             PROVE  KeeperInv'
  OBVIOUS
<1>1. \/ \E p \in Procs : Honestly /\ Goes(p)
      \/ Honestly /\ UNCHANGED run
  BY StepGoes, OthersAreHonest DEF KeeperNext
<1>2. TermsKept /\ house.initialized /\ NumberingInv'
  BY <1>1, HonestlyKeepsTerms
<1>3. /\ NumberingInv /\ HouseIsSet /\ MarketsAreNamed
      /\ QuotesAreHonest /\ HonestTicketsPassAudits
      /\ [HonestInstruction]_vars
      /\ \A late \in inflight' : IsSound(late.tx)
  BY <1>1 DEF KeeperInv, Honestly
<1>4. InflightIsSound'
  <2> SUFFICES ASSUME NEW late \in inflight' PROVE IsSound(late.tx)'
    BY DEF InflightIsSound
  <2> QED BY <1>2, <1>3, SoundKept
<1>5. /\ run = [p \in Procs |-> run[p]]
      /\ \A p \in Procs : RunIsSound(run[p])
  BY DEF KeeperInv, RunsAreSound
<1>6. ASSUME NEW p \in Procs, run'[p] = run[p]
      PROVE  RunIsSound(run[p])'
  <2>1. PICK r : r = run[p]
    OBVIOUS
  <2>2. RunIsSound(r)'
    BY <1>2, <1>5, <2>1, RunKept
  <2> QED BY <1>6, <2>1, <2>2, RunAfter
<1>7. (run = [p \in Procs |-> run[p]])' /\ RunsAreSound'
  <2>1. CASE UNCHANGED run
    BY <1>5, <1>6, <2>1 DEF RunsAreSound
  <2>2. ASSUME NEW p \in Procs, Goes(p)
        PROVE  (run = [q \in Procs |-> run[q]])' /\ RunsAreSound'
    <3>1. PICK r : run' = [run EXCEPT ![p] = r] /\ RunIsSound(r)'
      BY <2>2 DEF Goes
    <3>2. /\ run' = [q \in Procs |-> run'[q]] /\ run'[p] = r
          /\ \A q \in Procs : q # p => run'[q] = run[q]
      BY <1>5, <3>1
    <3>3. RunIsSound(run[p])'
      BY <3>1, <3>2, RunAfter
    <3> QED BY <1>6, <3>2, <3>3 DEF RunsAreSound
  <2> QED BY <1>1, <2>1, <2>2
<1> QED BY <1>2, <1>3, <1>4, <1>7, HouseStaysSet, MarketsStayNamed, QuotesStayHonest,
           TicketsStayHonest DEF KeeperInv

-----------------------------------------------------------------------------
(* The start: the house is set up and funded, the board is empty.          *)

LEMMA KeeperInitInv == KeeperInit => KeeperInv
<1> SUFFICES ASSUME KeeperInit
             PROVE  KeeperInv
  OBVIOUS
<1>1. /\ market = [m \in MarketIds |-> NoMarket] /\ ticket = [t \in TicketIds |-> NoTicket]
      /\ receipt = [t \in TicketIds |-> NoReceipt] /\ now = Start
      /\ outcome = [m \in MarketIds |-> "Unverified"]
      /\ paid = [t \in TicketIds |-> 0] /\ bounty = [t \in TicketIds |-> 0]
      /\ unreserved = 0 /\ inflight = {}
  BY DEF KeeperInit, BookWith, TxInit, NoTickets
<1>2. NumTickets \in Nat /\ NumMarkets \in Nat /\ Liquidity \in Amount
  BY BoundsAssumption, KeeperAssumption
<1>3. /\ Total(NumTickets, [t \in TicketIds |-> NoTickets[t].stake]) = 0
      /\ Total(NumTickets, [t \in TicketIds |-> NoTickets[t].potential_payout]) = 0
  <2>1. /\ [t \in TicketIds |-> NoTickets[t].stake] = [t \in 1..NumTickets |-> 0]
        /\ [t \in TicketIds |-> NoTickets[t].potential_payout] = [t \in 1..NumTickets |-> 0]
    BY DEF NoTickets, NoTicket, TicketIds
  <2> QED BY <1>2, <2>1, TotalOfZeros
<1>4. Cardinality({m \in MarketIds : [k \in MarketIds |-> NoMarket][m] # NoMarket}) = 0
  <2>1. {m \in MarketIds : [k \in MarketIds |-> NoMarket][m] # NoMarket} = {}
    OBVIOUS
  <2> QED BY <2>1, FS_EmptySet
<1>5. vault \in Amount
  <2>1. vault = Liquidity + Total(NumTickets, [t \in TicketIds |-> NoTickets[t].stake])
    BY Zenon DEF KeeperInit, BookWith
  <2>2. PICK l \in Nat : l = Liquidity
    BY <1>2, ConstantTypes
  <2>3. vault = l + 0
    BY <1>3, <2>1, <2>2
  <2> QED BY <1>2, <2>2, <2>3
<1>6. PICK h \in HouseParams :
        /\ h.margin_bps > 0 /\ h.margin_bps < BPS_DENOMINATOR
        /\ house = [NoHouse EXCEPT !.initialized = TRUE, !.margin_bps = h.margin_bps,
                      !.max_exposure_per_market = h.max_exposure_per_market,
                      !.max_payout_per_ticket = h.max_payout_per_ticket,
                      !.open_exposure = 0, !.total_volume = 0, !.market_count = 0]
  <2>1. PICK h \in {params \in HouseParams :
                     params.margin_bps > 0 /\ params.margin_bps < BPS_DENOMINATOR} :
          house = [NoHouse EXCEPT !.initialized = TRUE, !.margin_bps = h.margin_bps,
            !.max_exposure_per_market = h.max_exposure_per_market,
            !.max_payout_per_ticket = h.max_payout_per_ticket,
            !.open_exposure = Total(NumTickets, [t \in TicketIds |-> NoTickets[t].potential_payout]),
            !.total_volume = Total(NumTickets, [t \in TicketIds |-> NoTickets[t].stake]),
            !.market_count = Cardinality({m \in MarketIds :
                                            [k \in MarketIds |-> NoMarket][m] # NoMarket})]
    BY DEF KeeperInit, BookWith
  <2> QED BY <1>3, <1>4, <2>1
<1>7. h \in [margin_bps : Nat, max_exposure_per_market : Amount, max_payout_per_ticket : Amount]
  BY ConstantTypes
<1>8. /\ house \in House /\ HouseIsSet /\ house.market_count = 0
  <2>1. house = [initialized |-> TRUE, margin_bps |-> h.margin_bps,
                 max_exposure_per_market |-> h.max_exposure_per_market,
                 max_payout_per_ticket |-> h.max_payout_per_ticket, open_exposure |-> 0,
                 total_volume |-> 0, market_count |-> 0, paused |-> FALSE]
    BY <1>6 DEF NoHouse
  <2>2. house \in House
    BY <1>7, <2>1, ConstantTypes DEF House
  <2>3. HouseIsSet
    <3>1. PICK x \in Nat : x = h.margin_bps /\ x > 0 /\ x < BPS_DENOMINATOR
      BY <1>6, <1>7
    <3>2. PICK n \in Nat : n = BPS_DENOMINATOR
      BY DEF BPS_DENOMINATOR
    <3>3. x \in 1..n
      BY <3>1, <3>2
    <3> QED BY <2>1, <3>1, <3>2, <3>3 DEF HouseIsSet
  <2> QED BY <2>1, <2>2, <2>3
<1>9. NumberingInv
  <2>1. TypeOK
    BY <1>1, <1>5, <1>8, NoAccountTypes, ConstantTypes, BoundsAssumption DEF TypeOK
  <2>2. QuotesArePriced
    BY <1>1 DEF NoMarket, QuotesArePriced
  <2>3. TicketsAreSound
    BY <1>1 DEF NoTicket, NoReceipt, TicketsAreSound
  <2>4. MarketsAreNumbered
    BY <1>1, <1>8, KeeperConstants DEF NoMarket, MarketsAreNumbered, MarketIds
  <2>5. TicketsHaveMarkets
    BY <1>1 DEF NoTicket, TicketsHaveMarkets
  <2> QED BY <2>1, <2>2, <2>3, <2>4, <2>5 DEF NumberingInv, BookInv
<1>10. MarketsAreNamed /\ QuotesAreHonest /\ HonestTicketsPassAudits /\ InflightIsSound
  BY <1>1 DEF NoMarket, NoTicket, MarketsAreNamed, QuotesAreHonest, QuoteIsHonest,
              HonestTicketsPassAudits, InflightIsSound
<1>11. run = [p \in Procs |-> run[p]] /\ RunsAreSound
  <2>1. run = [p \in Procs |-> Enter(IF p \in Loops THEN "sleep" ELSE "start")]
    BY DEF KeeperInit
  <2> SUFFICES ASSUME NEW p \in Procs PROVE RunIsSound(run[p])
    BY <2>1 DEF RunsAreSound
  <2>2. PICK job, r : r = Enter(job) /\ r = run[p]
    BY <2>1
  <2>3. /\ r.job = job /\ r.phase = "read" /\ r.todo = {} /\ r.at = 0 /\ r.lines = {}
        /\ r.odds = [f \in Fixtures |-> {}]
        /\ r = [job |-> r.job, phase |-> r.phase, todo |-> r.todo, at |-> r.at,
                lines |-> r.lines, odds |-> r.odds, tx |-> r.tx]
    BY <2>2 DEF Enter, NotFetched
  <2>4. ListIsSound(r)
    BY <2>3 DEF ListIsSound
  <2>5. RunIsSound(r)
    BY <2>3, <2>4 DEF RunIsSound
  <2> QED BY <2>2, <2>5
<1> QED BY <1>8, <1>9, <1>10, <1>11 DEF KeeperInv

LEMMA KeeperInvariant == KeeperSpec => []KeeperInv
<1> QED BY KeeperInitInv, KeeperNextKeeps, PTL DEF KeeperSpec

\* However many keepers run, whatever they read too early, whatever lands too
\* late and whoever crashes: a ticket sold on a market that is not kept rigged
\* audits as honest (jobs.ts, postQuotes; audit_ticket.rs).
THEOREM HonestTicketsPass == KeeperSpec => []HonestTicketsPassAudits
<1>1. KeeperInv => HonestTicketsPassAudits
  BY DEF KeeperInv
<1> QED BY <1>1, KeeperInvariant, PTL

-----------------------------------------------------------------------------
(* Keepers side by side, and creations that land late.                     *)

\* A line that some score row of the fixture calls for.
IsLineOf(f, params) ==
    \E row \in ScoreRows[f] : row.goals # Unmapped /\ params = inPlayTotalsBlueprint(row.goals)

\* The question that a process means to ask in its work on item i.
MayAsk(r, i, f, params) ==
    \/ r.job = "create" /\ f = FixtureAt(i) /\ params = BlueprintAt(i)
    \/ /\ r.job = "inplay" /\ f = i
       /\ IsLineOf(f, params) /\ [f |-> f, params |-> params] \notin r.lines

\* It is on what is left of the process's list.
ListAsks(r, f, params) == \E i \in r.todo : MayAsk(r, i, f, params)

\* A creation of it that its sender gave up on can still be executed.
MayLand(f, params) ==
    \E late \in inflight :
        /\ late.tx.op = "create" /\ late.tx.fixture = f /\ late.tx.params = params
        /\ IsNextMarket(late.tx)

\* What is on the list of a process is on no other's, and none of it may land late.
NoRivals ==
    \A p \in Procs, f \in Fixtures, params \in Predicates :
        ListAsks(run[p], f, params) =>
            /\ ~MayLand(f, params)
            /\ \A q \in Procs : ListAsks(run[q], f, params) => q = p

\* A market is open on it.
IsOpenOn(m, f, params) ==
    market[m].state = "Open" /\ market[m].fixture_id = f /\ market[m].params = params

\* No market is open on what is still on the list.
ListIsNew(r) ==
    \A i \in r.todo, f \in Fixtures, params \in Predicates :
        MayAsk(r, i, f, params) => \A m \in MarketIds : ~IsOpenOn(m, f, params)

RunIsNew(r) ==
    /\ ListIsNew(r)
    /\ r.phase = "send" /\ r.tx.op = "create" =>
         /\ MayAsk(r, Min(r.todo), r.tx.fixture, r.tx.params)
         /\ r.tx.id \in 0..house.market_count

OpenMarketsDiffer ==
    \A m, n \in MarketIds : \A f \in Fixtures, params \in Predicates :
        IsOpenOn(m, f, params) /\ IsOpenOn(n, f, params) => m = n

\* A creation names the market that its builder took for the next: once another is
\* created, it is refused.  One that is not was built when its question was new.
TxIsNew(tx) ==
    tx.op = "create" =>
        /\ tx.id \in 0..house.market_count
        /\ IsNextMarket(tx) => \A m \in MarketIds : ~IsOpenOn(m, tx.fixture, tx.params)
LateIsNew == \A late \in inflight : TxIsNew(late.tx)

\* OneMarketPerQuestion is not inductive: what is created was looked for when the
\* list was read, several creations ago.
AskInv ==
    /\ KeeperInv
    /\ OpenMarketsDiffer
    /\ LateIsNew
    /\ \A p \in Procs : RunIsNew(run[p])

\* No two questions of the board are the same.
LEMMA QuestionsDiffer ==
    ASSUME NEW i \in Questions, NEW j \in Questions,
           FixtureAt(i) = FixtureAt(j), BlueprintAt(i) = BlueprintAt(j)
    PROVE  i = j
<1>1. IsFiniteSet(Fixtures) /\ Board \in Seq(Predicates)
      /\ \A a, b \in DOMAIN Board : Board[a] = Board[b] => a = b
  BY KeeperAssumption DEF IsInjective
<1>2. PICK n \in Nat : n = Len(Board)
  BY <1>1
<1>3. PICK c \in Nat : c = Cardinality(Fixtures)
  BY <1>1, FS_CardinalityType
<1>4. i \in 1..(c * n) /\ j \in 1..(c * n)
  BY <1>2, <1>3 DEF Questions
<1>5. PICK k \in Nat, l \in Nat : k = i - 1 /\ k < c * n /\ l = j - 1 /\ l < c * n
  BY <1>4
<1>6. n > 0
  <2>1. n = 0 => c * n = 0
    OBVIOUS
  <2> QED BY <1>5, <2>1
<1>7. ASSUME NEW x \in Nat, x < c * n
      PROVE  \E q \in Nat, r \in Nat :
               q = x \div n /\ r = x % n /\ x = q * n + r /\ q < c /\ r < n
  <2>1. PICK q \in Nat, r \in Nat : q = x \div n /\ r = x % n /\ x = q * n + r /\ r < n
    BY <1>6, Quotient
  <2>2. q < c
    <3>1. SUFFICES ASSUME q >= c PROVE FALSE
      BY <2>1
    <3>2. c * n <= q * n
      BY <3>1, Grows
    <3> QED BY <1>7, <2>1, <3>2
  <2> QED BY <2>1, <2>2
<1>8. PICK q \in Nat, r \in Nat : q = k \div n /\ r = k % n /\ k = q * n + r /\ q < c /\ r < n
  BY <1>5, <1>7
<1>9. PICK t \in Nat, s \in Nat : t = l \div n /\ s = l % n /\ l = t * n + s /\ t < c /\ s < n
  BY <1>5, <1>7
<1>10. PICK f \in [1..c -> Fixtures] : f = SetToSeq(Fixtures) /\ IsInjective(f)
  <2>1. ExistsBijection(1..c, Fixtures)
    BY <1>1, <1>3, FS_CardinalityType
  <2>2. PICK g \in [1..c -> Fixtures] : IsInjective(g)
    BY <2>1 DEF ExistsBijection, Bijection, Injection, IsInjective
  <2> QED BY <1>3, <2>2 DEF SetToSeq
<1>11. q = t
  <2>1. FixtureAt(i) = f[q + 1] /\ FixtureAt(j) = f[t + 1]
    BY <1>2, <1>5, <1>8, <1>9, <1>10 DEF FixtureAt
  <2>2. q + 1 \in DOMAIN f /\ t + 1 \in DOMAIN f
    BY <1>8, <1>9
  <2>3. q + 1 = t + 1
    BY <1>10, <2>1, <2>2 DEF IsInjective
  <2> QED BY <2>3
<1>12. r = s
  <2>1. BlueprintAt(i) = Board[r + 1] /\ BlueprintAt(j) = Board[s + 1]
    BY <1>2, <1>5, <1>8, <1>9 DEF BlueprintAt
  <2>2. r + 1 \in DOMAIN Board /\ s + 1 \in DOMAIN Board
    <3>1. DOMAIN Board = 1..n
      BY <1>1, <1>2
    <3>2. r + 1 \in 1..n /\ s + 1 \in 1..n
      BY <1>8, <1>9
    <3> QED BY <3>1, <3>2
  <2>3. Board[r + 1] = Board[s + 1]
    BY <2>1
  <2>4. r + 1 = s + 1
    BY ZenonT(20), <1>1, <2>2, <2>3
  <2> QED BY <1>8, <1>9, <2>4
<1>13. k = l
  BY <1>8, <1>9, <1>11, <1>12
<1> QED BY <1>4, <1>5, <1>13

\* Two items of a list are never about one question.
LEMMA ItemsDiffer ==
    ASSUME NEW r, RunIsSound(r), NEW i \in r.todo, NEW j \in r.todo, NEW f, NEW params,
           MayAsk(r, i, f, params), MayAsk(r, j, f, params)
    PROVE  i = j
  BY QuestionsDiffer DEF RunIsSound, ListIsSound, MayAsk

\* The markets open on a question are those that were, but for one that is created.
OpensNothing ==
    \A m \in MarketIds, f \in Fixtures, params \in Predicates :
        IsOpenOn(m, f, params)' => IsOpenOn(m, f, params)
OpensOne(f, params) ==
    \E one : \A m \in MarketIds, g \in Fixtures, q \in Predicates :
        IsOpenOn(m, g, q)' => IsOpenOn(m, g, q) \/ (m = one /\ g = f /\ q = params)

LEMMA CreateOpensOne ==
    ASSUME NumberingInv, NEW f, NEW params, NEW k, CreateMarket(f, params, k)
    PROVE  OpensOne(f, params)
<1>1. market \in [MarketIds -> Market]
  BY DEF NumberingInv, BookInv, TypeOK
<1>2. PICK one : one = house.market_count
  OBVIOUS
<1>3. \A m \in MarketIds :
        /\ m # one => market'[m] = market[m]
        /\ m = one => market'[m].fixture_id = f /\ market'[m].params = params
  BY <1>1, <1>2 DEF CreateMarket, NoMarket
<1> QED BY <1>3 DEF OpensOne, IsOpenOn

LEMMA NothingElseOpens ==
    ASSUME NumberingInv,
           \/ \E m \in MarketIds, q \in [Sides -> Nat], r \in RecordIds : PostQuote(m, q, r)
           \/ \E t \in TicketIds, m \in MarketIds, s \in Sides, stake \in Amount :
                PlaceBet(t, m, s, stake)
           \/ \E m \in MarketIds : LockMarket(m)
           \/ \E m \in MarketIds, proof \in ScoreProofs : VerifyMarket(m, proof)
           \/ \E m \in MarketIds : VoidMarket(m, FALSE)
           \/ \E t \in TicketIds : SettleTicket(t)
           \/ Tick \/ UNCHANGED vars
    PROVE  OpensNothing
<1>1. market \in [MarketIds -> Market]
  BY DEF NumberingInv, BookInv, TypeOK
<1>2. ASSUME \A m \in MarketIds :
               /\ market'[m].state = "Open" => market[m].state = "Open"
               /\ market'[m].fixture_id = market[m].fixture_id
               /\ market'[m].params = market[m].params
      PROVE  OpensNothing
  BY <1>2 DEF OpensNothing, IsOpenOn
<1>3. ASSUME NEW t \in TicketIds, NEW m \in MarketIds, NEW s \in Sides, NEW stake \in Amount,
             PlaceBet(t, m, s, stake)
      PROVE  OpensNothing
  <2>1. market' = [market EXCEPT ![m] =
                     MarketAfterBet(m, s, stake, potential_payout(stake, market[m].odds[s]))]
    BY <1>3 DEF PlaceBet
  <2> QED BY <1>1, <1>2, <2>1 DEF MarketAfterBet, Market
<1>4. ASSUME NEW m \in MarketIds,
             \/ \E q \in [Sides -> Nat], r \in RecordIds : PostQuote(m, q, r)
             \/ LockMarket(m) \/ VoidMarket(m, FALSE)
             \/ \E proof \in ScoreProofs : VerifyMarket(m, proof),
             NEW n \in MarketIds
      PROVE  /\ market'[n].state = "Open" => market[n].state = "Open"
             /\ market'[n].fixture_id = market[n].fixture_id
             /\ market'[n].params = market[n].params
  <2>1. CASE \E q \in [Sides -> Nat], r \in RecordIds : PostQuote(m, q, r)
    <3>1. PICK q, r : /\ market[m].state = "Open"
                      /\ market' = [market EXCEPT ![m] =
                           [market[m] EXCEPT !.odds = q, !.odds_record = r, !.quote_posted_ts = now]]
      BY <2>1 DEF PostQuote
    <3> QED BY <1>1, <3>1 DEF Market
  <2>2. CASE LockMarket(m)
    BY <1>1, <2>2 DEF LockMarket, Market
  <2>3. CASE VoidMarket(m, FALSE)
    BY <1>1, <2>3 DEF VoidMarket, Market
  <2>4. CASE \E proof \in ScoreProofs : VerifyMarket(m, proof)
    BY <1>1, <2>4 DEF VerifyMarket, Market
  <2> QED BY <1>4, <2>1, <2>2, <2>3, <2>4
<1>5. ASSUME (\E t \in TicketIds : SettleTicket(t)) \/ Tick \/ UNCHANGED vars
      PROVE  OpensNothing
  BY <1>2, <1>5 DEF SettleTicket, Tick, vars, accounts
<1> QED BY <1>2, <1>3, <1>4, <1>5

\* The process goes on to ask only what is new.
AsksNew(p) == \E r : run' = [run EXCEPT ![p] = r] /\ RunIsNew(r)'

LEMMA ListStaysNew ==
    ASSUME OpensNothing, NEW r, ListIsNew(r)
    PROVE  ListIsNew(r)'
  BY DEF OpensNothing, ListIsNew, MayAsk

\* A list of another job asks nothing.
LEMMA OthersAskNothing ==
    ASSUME NEW r, r.job \notin {"create", "inplay"}
    PROVE  ListIsNew(r)'
  BY DEF ListIsNew, MayAsk

LEMMA EnterAsksNew ==
    ASSUME NEW p \in Procs, NEW job, Becomes(p, Enter(job))
    PROVE  AsksNew(p)
<1>1. PICK r : r = Enter(job) /\ run' = [run EXCEPT ![p] = r]
  BY DEF Becomes
<1>2. r.phase = "read" /\ r.todo = {}
  BY <1>1 DEF Enter
<1> QED BY <1>1, <1>2 DEF AsksNew, RunIsNew, ListIsNew

LEMMA ThrowAsksNew ==
    ASSUME NEW p \in Procs, Throw(p) \/ ReadThrows(p)
    PROVE  AsksNew(p)
  BY EnterAsksNew DEF Throw, ReadThrows

LEMMA StartAsksNew ==
    ASSUME NEW p \in Procs, NEW r, StartList(p, r), ListIsNew(r)',
           r = [job |-> r.job, phase |-> r.phase, todo |-> r.todo, at |-> r.at,
                lines |-> r.lines, odds |-> r.odds, tx |-> r.tx]
    PROVE  AsksNew(p)
<1>1. CASE r.todo = {}
  BY <1>1, EnterAsksNew DEF StartList
<1>2. CASE r.todo # {}
  <2>1. PICK s : s = [r EXCEPT !.phase = "work"] /\ run' = [run EXCEPT ![p] = s]
    BY <1>2 DEF StartList, Becomes
  <2>2. s.job = r.job /\ s.phase = "work" /\ s.todo = r.todo /\ s.lines = r.lines
    BY <2>1
  <2>3. RunIsNew(s)'
    BY <2>2 DEF RunIsNew, ListIsNew, MayAsk
  <2> QED BY <2>1, <2>3 DEF AsksNew
<1> QED BY <1>1, <1>2

\* The rest of a list is asked if it is still new.
LEMMA DropAsksNew ==
    ASSUME NEW p \in Procs, NEW r, r = run[p], RunIsSound(r), DropItem(p),
           NEW item, item = Item(p),
           ListIsNew([job |-> r.job, lines |-> r.lines, todo |-> r.todo \ {item}])'
    PROVE  AsksNew(p)
<1>1. PICK s : s = [r EXCEPT !.todo = r.todo \ {item}, !.tx = None] /\ StartList(p, s)
  BY DEF DropItem
<1>2. s = [job |-> r.job, phase |-> r.phase, todo |-> r.todo \ {item}, at |-> r.at,
           lines |-> r.lines, odds |-> r.odds, tx |-> None]
  BY <1>1 DEF RunIsSound
<1>3. ListIsNew(s)'
  BY <1>2 DEF ListIsNew, MayAsk
<1>4. s = [job |-> s.job, phase |-> s.phase, todo |-> s.todo, at |-> s.at,
           lines |-> s.lines, odds |-> s.odds, tx |-> s.tx]
  BY <1>2
<1>5. StartList(p, s)
  BY <1>1
<1> QED BY <1>3, <1>4, <1>5, StartAsksNew

LEMMA SkipAsksNew ==
    ASSUME NEW p \in Procs, RunIsSound(run[p]), RunIsNew(run[p]), OpensNothing, DropItem(p)
    PROVE  AsksNew(p)
<1>1. PICK r, item : r = run[p] /\ item = Item(p)
  OBVIOUS
<1>2. ListIsNew(r)
  BY <1>1 DEF RunIsNew
<1>3. ListIsNew(r)'
  BY <1>2, ListStaysNew
<1>4. ListIsNew([job |-> r.job, lines |-> r.lines, todo |-> r.todo \ {item}])'
  BY <1>3 DEF ListIsNew, MayAsk
<1> QED BY <1>1, <1>4, DropAsksNew

LEMMA PrepareAsksNew ==
    ASSUME NEW p \in Procs, RunIsSound(run[p]), RunIsNew(run[p]), OpensNothing,
           NEW tx, Prepare(p, tx),
           tx.op = "create" => /\ MayAsk(run[p], Item(p), tx.fixture, tx.params)
                               /\ tx.id \in 0..house'.market_count
    PROVE  AsksNew(p)
<1>1. PICK r : r = run[p]
  OBVIOUS
<1>2. PICK s : s = [r EXCEPT !.phase = "send", !.tx = tx] /\ run' = [run EXCEPT ![p] = s]
  BY <1>1 DEF Prepare, Becomes
<1>3. s = [job |-> r.job, phase |-> "send", todo |-> r.todo, at |-> r.at,
           lines |-> r.lines, odds |-> r.odds, tx |-> tx]
  BY <1>1, <1>2 DEF RunIsSound
<1>4. ListIsNew(r)
  BY <1>1 DEF RunIsNew
<1>5. ListIsNew(r)'
  BY <1>4, ListStaysNew
<1>6. ListIsNew(s)'
  BY <1>3, <1>5 DEF ListIsNew, MayAsk
<1>7. tx.op = "create" => MayAsk(s, Min(s.todo), tx.fixture, tx.params)
  BY <1>1, <1>3 DEF MayAsk, Item
<1>8. s.tx = tx
  BY <1>3
<1>9. (s.phase = "send" /\ s.tx.op = "create" =>
         /\ MayAsk(s, Min(s.todo), s.tx.fixture, s.tx.params)
         /\ s.tx.id \in 0..house.market_count)'
  BY <1>7, <1>8 DEF MayAsk
<1> QED BY <1>2, <1>6, <1>9 DEF AsksNew, RunIsNew

\* The other jobs.
LEMMA OtherJobAsksNew ==
    ASSUME NEW p \in Procs, NEW r, Becomes(p, r), r.job \notin {"create", "inplay"},
           r.phase # "send"
    PROVE  AsksNew(p)
  BY OthersAskNothing DEF Becomes, AsksNew, RunIsNew


LEMMA OtherDropAsksNew ==
    ASSUME NEW p \in Procs, RunIsSound(run[p]), run[p].job \notin {"create", "inplay"}, DropItem(p)
    PROVE  AsksNew(p)
<1>1. PICK r, item : r = run[p] /\ item = Item(p)
  OBVIOUS
<1>2. PICK s : s = [job |-> r.job, lines |-> r.lines, todo |-> r.todo \ {item}]
  OBVIOUS
<1>3. ListIsNew(s)'
  BY <1>1, <1>2, OthersAskNothing
<1> QED BY <1>1, <1>2, <1>3, DropAsksNew

LEMMA OtherListAsksNew ==
    ASSUME NEW p \in Procs, RunIsSound(run[p]), run[p].job \notin {"create", "inplay"},
           NEW todo, StartList(p, [run[p] EXCEPT !.todo = todo])
    PROVE  AsksNew(p)
<1>1. PICK r, s : r = run[p] /\ s = [r EXCEPT !.todo = todo] /\ StartList(p, s)
  OBVIOUS
<1>2. s = [job |-> r.job, phase |-> r.phase, todo |-> todo, at |-> r.at,
           lines |-> r.lines, odds |-> r.odds, tx |-> r.tx]
  BY <1>1 DEF RunIsSound
<1>3. ListIsNew(s)'
  BY <1>1, <1>2, OthersAskNothing
<1>4. s = [job |-> s.job, phase |-> s.phase, todo |-> s.todo, at |-> s.at,
           lines |-> s.lines, odds |-> s.odds, tx |-> s.tx]
  BY <1>2
<1> QED BY <1>1, <1>3, <1>4, StartAsksNew

LEMMA AskKnows ==
    ASSUME AskInv, NEW p \in Procs
    PROVE  KeeperInv /\ NumberingInv /\ RunIsSound(run[p]) /\ RunIsNew(run[p])
  BY DEF AskInv, KeeperInv, RunsAreSound

LEMMA QuietOpensNothing ==
    ASSUME AskInv, Quiet
    PROVE  OpensNothing
  BY NothingElseOpens DEF AskInv, KeeperInv, Quiet

\* The next market is the one that was read last, while nothing happens.
LEMMA CountStands ==
    ASSUME AskInv, Quiet
    PROVE  house.market_count \in 0..house'.market_count
  BY DEF AskInv, KeeperInv, NumberingInv, BookInv, TypeOK, House, Quiet, vars, accounts

\* What a board that was just read has no market on.
LEMMA CreateReadAsksNew ==
    ASSUME AskInv, NEW p \in Procs, CreateRead(p)
    PROVE  AsksNew(p)
<1>1. RunIsSound(run[p]) /\ run[p].job = "create"
  BY AskKnows DEF CreateRead, At
<1>2. UNCHANGED market
  BY CreateReadGoes, AskKnows DEF Quiet, vars, accounts
<1>3. ASSUME NEW todo,
             \A i \in todo, m \in MarketIds : ~HasQuestion(m, FixtureAt(i), BlueprintAt(i)),
             StartList(p, [run[p] EXCEPT !.todo = todo])
      PROVE  AsksNew(p)
  <2>1. PICK r, s : r = run[p] /\ s = [r EXCEPT !.todo = todo] /\ StartList(p, s)
    BY <1>3
  <2>2. s = [job |-> r.job, phase |-> r.phase, todo |-> todo, at |-> r.at,
             lines |-> r.lines, odds |-> r.odds, tx |-> r.tx]
    BY <1>1, <2>1 DEF RunIsSound
  <2>3. ListIsNew(s)'
    BY <1>1, <1>2, <1>3, <2>1, <2>2 DEF ListIsNew, MayAsk, IsOpenOn, HasQuestion
  <2>4. s = [job |-> s.job, phase |-> s.phase, todo |-> s.todo, at |-> s.at,
             lines |-> s.lines, odds |-> s.odds, tx |-> s.tx]
    BY <2>2
  <2> QED BY <2>1, <2>3, <2>4, StartAsksNew
<1>4. \/ ReadThrows(p) \/ Becomes(p, Enter(NextJob(p)))
      \/ \E todo : /\ \A i \in todo, m \in MarketIds : ~HasQuestion(m, FixtureAt(i), BlueprintAt(i))
                   /\ StartList(p, [run[p] EXCEPT !.todo = todo])
  BY DEF CreateRead
<1> QED BY <1>3, <1>4, EnterAsksNew, ThrowAsksNew

\* The lines open when the board was read are all there are.
LEMMA InPlayReadAsksNew ==
    ASSUME AskInv, NEW p \in Procs, InPlayRead(p)
    PROVE  AsksNew(p)
<1>1. RunIsSound(run[p]) /\ run[p].job = "inplay"
  BY AskKnows DEF InPlayRead, At
<1>2. UNCHANGED market
  BY InPlayReadGoes, AskKnows DEF Quiet, vars, accounts
<1>3. ASSUME NEW todo, NEW at, NEW lines,
             lines = {[f |-> market[m].fixture_id, params |-> market[m].params] :
                        m \in {n \in MarketIds : market[n].state = "Open"}},
             StartList(p, [run[p] EXCEPT !.todo = todo, !.at = at, !.lines = lines])
      PROVE  AsksNew(p)
  <2>1. PICK r, s : /\ r = run[p] /\ s = [r EXCEPT !.todo = todo, !.at = at, !.lines = lines]
                    /\ StartList(p, s)
    BY <1>3
  <2>2. s = [job |-> r.job, phase |-> r.phase, todo |-> todo, at |-> at,
             lines |-> lines, odds |-> r.odds, tx |-> r.tx]
    BY <1>1, <2>1 DEF RunIsSound
  <2>3. \A m \in MarketIds, f \in Fixtures, params \in Predicates :
          IsOpenOn(m, f, params)' => [f |-> f, params |-> params] \in lines
    BY <1>2, <1>3 DEF IsOpenOn
  <2>4. ListIsNew(s)'
    BY <1>1, <2>1, <2>2, <2>3 DEF ListIsNew, MayAsk
  <2>5. s = [job |-> s.job, phase |-> s.phase, todo |-> s.todo, at |-> s.at,
             lines |-> s.lines, odds |-> s.odds, tx |-> s.tx]
    BY <2>2
  <2> QED BY <2>1, <2>4, <2>5, StartAsksNew
<1>4. \/ ReadThrows(p) \/ Becomes(p, Enter(NextJob(p)))
      \/ StartList(p, [run[p] EXCEPT
                !.todo = {f \in Fixtures : InPlay(f)},
                !.at = now,
                !.lines = {[f |-> market[m].fixture_id, params |-> market[m].params] :
                             m \in {n \in MarketIds : market[n].state = "Open"}}])
  BY DEF InPlayRead
<1> QED BY <1>3, <1>4, EnterAsksNew, ThrowAsksNew

LEMMA CreateResolveAsksNew ==
    ASSUME AskInv, NEW p \in Procs, CreateResolve(p)
    PROVE  AsksNew(p)
<1>1. RunIsSound(run[p]) /\ RunIsNew(run[p]) /\ run[p].job = "create" /\ OpensNothing
  BY AskKnows, QuietOpensNothing, CreateResolveGoes DEF CreateResolve, At
<1>2. PICK tx : tx = [op |-> "create", id |-> house.market_count,
                      fixture |-> FixtureAt(Item(p)), params |-> BlueprintAt(Item(p)),
                      kickoff |-> StartOf[FixtureAt(Item(p))]]
  OBVIOUS
<1>3. Prepare(p, tx) \/ DropItem(p)
  BY <1>2 DEF CreateResolve
<1>4. MayAsk(run[p], Item(p), tx.fixture, tx.params)
  BY <1>1, <1>2 DEF MayAsk
<1>5. tx.id \in 0..house'.market_count
  BY <1>2, CountStands, CreateResolveGoes, AskKnows
<1> QED BY <1>1, <1>3, <1>4, <1>5, PrepareAsksNew, SkipAsksNew

LEMMA InPlayResolveAsksNew ==
    ASSUME AskInv, NEW p \in Procs, InPlayResolve(p)
    PROVE  AsksNew(p)
<1>1. RunIsSound(run[p]) /\ RunIsNew(run[p]) /\ run[p].job = "inplay" /\ OpensNothing
  BY AskKnows, QuietOpensNothing, InPlayResolveGoes DEF InPlayResolve, At
<1>2. \/ DropItem(p)
      \/ \E params : /\ [f |-> Item(p), params |-> params] \notin run[p].lines
                     /\ IsLineOf(Item(p), params)
                     /\ Prepare(p, [op |-> "create", id |-> house.market_count, fixture |-> Item(p),
                                    params |-> params, kickoff |-> run[p].at + IN_PLAY_WINDOW])
  BY DEF InPlayResolve, IsLineOf, latestScoreRow, Scores
<1>3. ASSUME NEW params, [f |-> Item(p), params |-> params] \notin run[p].lines,
             IsLineOf(Item(p), params),
             Prepare(p, [op |-> "create", id |-> house.market_count, fixture |-> Item(p),
                         params |-> params, kickoff |-> run[p].at + IN_PLAY_WINDOW])
      PROVE  AsksNew(p)
  <2>1. PICK tx : /\ tx = [op |-> "create", id |-> house.market_count, fixture |-> Item(p),
                           params |-> params, kickoff |-> run[p].at + IN_PLAY_WINDOW]
                  /\ Prepare(p, tx)
    BY <1>3
  <2>2. MayAsk(run[p], Item(p), tx.fixture, tx.params)
    BY <1>1, <1>3, <2>1 DEF MayAsk
  <2>3. tx.id \in 0..house'.market_count
    BY <2>1, CountStands, InPlayResolveGoes, AskKnows
  <2> QED BY <1>1, <2>1, <2>2, <2>3, PrepareAsksNew
<1> QED BY <1>1, <1>2, <1>3, SkipAsksNew


LEMMA OtherJobsAskNothing ==
    ASSUME AskInv, NEW p \in Procs,
           \/ LockRead(p) \/ QuoteRead(p) \/ QuoteFetch(p) \/ QuoteResolve(p)
           \/ SettleRead(p) \/ SettleProve(p) \/ TicketsRead(p) \/ RigRead(p) \/ RigResolve(p)
    PROVE  AsksNew(p)
<1>1. /\ RunIsSound(run[p]) /\ RunIsNew(run[p])
      /\ run[p].job \notin {"create", "inplay"}
  BY AskKnows DEF LockRead, QuoteRead, QuoteFetch, QuoteResolve, SettleRead, SettleProve,
                   TicketsRead, RigRead, RigResolve, At
<1>2. OpensNothing
  BY AskKnows, QuietOpensNothing, LockReadGoes, QuoteReadGoes, QuoteFetchGoes, QuoteResolveGoes,
     SettleReadGoes, SettleProveGoes, TicketsReadGoes, RigReadGoes, RigResolveGoes
<1>3. ASSUME NEW tx, tx.op # "create", Prepare(p, tx)
      PROVE  AsksNew(p)
  BY <1>1, <1>2, <1>3, PrepareAsksNew
<1>4. ASSUME NEW m, NEW odds, NEW record,
             Prepare(p, [op |-> "quote", m |-> m, odds |-> odds, record |-> record])
      PROVE  AsksNew(p)
  <2>1. PICK tx : /\ tx = [op |-> "quote", m |-> m, odds |-> odds, record |-> record]
                  /\ Prepare(p, tx)
    BY <1>4
  <2>2. tx.op # "create"
    BY <2>1
  <2> QED BY <1>3, <2>1, <2>2
<1>5. ASSUME NEW m, NEW proof, Prepare(p, [op |-> "verify", m |-> m, proof |-> proof])
      PROVE  AsksNew(p)
  <2>1. PICK tx : tx = [op |-> "verify", m |-> m, proof |-> proof] /\ Prepare(p, tx)
    BY <1>5
  <2>2. tx.op # "create"
    BY <2>1
  <2> QED BY <1>3, <2>1, <2>2
<1>6. ASSUME NEW r, Becomes(p, r), r.job = run[p].job, r.phase # "send"
      PROVE  AsksNew(p)
  BY <1>1, <1>6, OtherJobAsksNew
<1>7. CASE LockRead(p) \/ QuoteRead(p) \/ SettleRead(p) \/ RigRead(p)
  <2>1. ReadThrows(p) \/ \E todo : StartList(p, [run[p] EXCEPT !.todo = todo])
    BY <1>7 DEF LockRead, QuoteRead, SettleRead, RigRead
  <2> QED BY <1>1, <2>1, OtherListAsksNew, ThrowAsksNew
<1>8. CASE QuoteFetch(p)
  <2>1. PICK r, s, f, answer : /\ r = run[p] /\ s = [r EXCEPT !.odds[f] = answer] /\ Becomes(p, s)
                               /\ r.phase = "work"
    BY <1>8 DEF QuoteFetch, At
  <2>2. s.job = r.job /\ s.phase = r.phase
    BY <1>1, <2>1 DEF RunIsSound
  <2> QED BY <1>6, <2>1, <2>2
<1>9. CASE QuoteResolve(p)
  <2>1. DropItem(p) \/ \E m, odds, record :
          Prepare(p, [op |-> "quote", m |-> m, odds |-> odds, record |-> record])
    BY <1>9 DEF QuoteResolve
  <2> QED BY <1>1, <1>4, <2>1, OtherDropAsksNew
<1>10. CASE SettleProve(p)
  <2>1. DropItem(p) \/ ReadThrows(p) \/ \E m, proof :
          Prepare(p, [op |-> "verify", m |-> m, proof |-> proof])
    BY <1>10 DEF SettleProve
  <2> QED BY <1>1, <1>5, <2>1, OtherDropAsksNew, ThrowAsksNew
<1>11. CASE TicketsRead(p)
  <2>1. \/ DropItem(p) \/ ReadThrows(p)
        \/ Becomes(p, [run[p] EXCEPT !.phase = "pay", !.lines = LiveTicketsOf(Item(p))])
    BY <1>11 DEF TicketsRead
  <2>2. ASSUME NEW lines, Becomes(p, [run[p] EXCEPT !.phase = "pay", !.lines = lines])
        PROVE  AsksNew(p)
    <3>1. PICK r, s : /\ r = run[p] /\ s = [r EXCEPT !.phase = "pay", !.lines = lines]
                      /\ Becomes(p, s)
      BY <2>2
    <3>2. s.job = r.job /\ s.phase = "pay"
      BY <1>1, <3>1 DEF RunIsSound
    <3> QED BY <1>6, <3>1, <3>2
  <2> QED BY <1>1, <2>1, <2>2, OtherDropAsksNew, ThrowAsksNew
<1>12. CASE RigResolve(p)
  <2>1. \/ DropItem(p) \/ Throw(p) \/ ReadThrows(p)
        \/ \E m, odds, record :
             Prepare(p, [op |-> "quote", m |-> m, odds |-> odds, record |-> record])
    BY <1>12 DEF RigResolve
  <2> QED BY <1>1, <1>4, <2>1, OtherDropAsksNew, ThrowAsksNew
<1> QED BY <1>7, <1>8, <1>9, <1>10, <1>11, <1>12

\* What a transaction that creates nothing opens.
LEMMA SentOpensNothing ==
    ASSUME AskInv, NEW tx, IsSound(tx), tx.op # "create", Execute(tx) \/ UNCHANGED vars
    PROVE  OpensNothing
<1>1. NumberingInv
  BY DEF AskInv, KeeperInv
<1>2. ASSUME Execute(tx), tx.op = "quote", tx.m \in MarketIds, tx.record \in RecordIds,
             IsSafeQuote(tx.m, tx.odds, tx.record)
      PROVE  OpensNothing
  <2>1. PostQuote(tx.m, tx.odds, tx.record)
    BY <1>2 DEF Execute
  <2>2. \A s \in Sides : IsOdds(tx.odds[s])
    BY <2>1 DEF PostQuote
  <2>3. tx.odds \in [Sides -> Nat]
    BY <1>2, <2>2 DEF IsSafeQuote
  <2> QED BY <1>1, <1>2, <2>1, <2>3, NothingElseOpens
<1>3. ASSUME Execute(tx), tx.op = "lock", tx.m \in MarketIds
      PROVE  OpensNothing
  <2>1. LockMarket(tx.m)
    BY <1>3 DEF Execute
  <2> QED BY <1>1, <1>3, <2>1, NothingElseOpens
<1>4. ASSUME Execute(tx), tx.op = "verify", tx.m \in MarketIds
      PROVE  OpensNothing
  <2>1. tx.proof \in ScoreProofs /\ VerifyMarket(tx.m, tx.proof)
    BY <1>4 DEF Execute
  <2> QED BY <1>1, <1>4, <2>1, NothingElseOpens
<1>5. ASSUME Execute(tx), tx.op = "settle", tx.t \in TicketIds
      PROVE  OpensNothing
  <2>1. SettleTicket(tx.t)
    BY <1>5 DEF Execute
  <2> QED BY <1>1, <1>5, <2>1, NothingElseOpens
<1>6. CASE UNCHANGED vars
  BY <1>1, <1>6, NothingElseOpens
<1> QED BY <1>2, <1>3, <1>4, <1>5, <1>6 DEF IsSound


\* The chain opens no market, and forgets none; what is given up on is new.
OpensQuietly ==
    /\ OpensNothing
    /\ \A late \in inflight' : late \in inflight \/ TxIsNew(late.tx)

\* It opens one, on a question that no market is open on.
OpensNew(f, params) ==
    /\ f \in Fixtures /\ params \in Predicates
    /\ \A m \in MarketIds : ~IsOpenOn(m, f, params)
    /\ OpensOne(f, params)
    /\ house'.market_count = house.market_count + 1
    /\ inflight' \subseteq inflight

\* A transaction that creates a market opens one.
LEMMA CreationOpensNew ==
    ASSUME NumberingInv, NEW tx, IsSound(tx), tx.op = "create", Execute(tx),
           \A m \in MarketIds : ~IsOpenOn(m, tx.fixture, tx.params), inflight' \subseteq inflight
    PROVE  OpensNew(tx.fixture, tx.params) /\ IsNextMarket(tx)
<1>1. /\ tx.fixture \in Fixtures /\ tx.params \in Predicates /\ IsNextMarket(tx)
      /\ CreateMarket(tx.fixture, tx.params, tx.kickoff)
  BY DEF IsSound, Execute
<1>2. house'.market_count = house.market_count + 1
  BY <1>1 DEF CreateMarket, NumberingInv, BookInv, TypeOK, House
<1> QED BY <1>1, <1>2, CreateOpensOne DEF OpensNew

\* What a process is about to create is new.
LEMMA CreationIsNew ==
    ASSUME AskInv, NEW p \in Procs, run[p].phase = "send", run[p].tx.op = "create"
    PROVE  /\ IsSound(run[p].tx) /\ TxIsNew(run[p].tx)
           /\ Item(p) \in run[p].todo /\ MayAsk(run[p], Item(p), run[p].tx.fixture, run[p].tx.params)
           /\ \A m \in MarketIds : ~IsOpenOn(m, run[p].tx.fixture, run[p].tx.params)
<1>1. PICK r, item, tx, f, params : /\ r = run[p] /\ item = Item(p) /\ tx = r.tx
                                    /\ f = tx.fixture /\ params = tx.params
  OBVIOUS
<1>2. RunIsSound(r) /\ RunIsNew(r)
  BY <1>1, AskKnows
<1>3. item \in r.todo /\ IsSound(tx) /\ f \in Fixtures /\ params \in Predicates
  BY <1>1, <1>2, ItemIsListed DEF RunIsSound, IsSound
<1>4. MayAsk(r, item, f, params) /\ ListIsNew(r) /\ tx.id \in 0..house.market_count
  BY <1>1, <1>2 DEF RunIsNew, Item
<1>5. \A m \in MarketIds : ~IsOpenOn(m, f, params)
  BY <1>3, <1>4 DEF ListIsNew
<1>6. TxIsNew(tx)
  BY <1>1, <1>4, <1>5 DEF TxIsNew
<1> QED BY <1>1, <1>3, <1>4, <1>5, <1>6

\* Once it is created, no other item of the list is about it.
LEMMA CreatedAsksNew ==
    ASSUME AskInv, NEW p \in Procs, run[p].phase = "send", run[p].tx.op = "create",
           OpensNew(run[p].tx.fixture, run[p].tx.params), DropItem(p)
    PROVE  AsksNew(p)
<1>1. PICK r, item, tx, f, params : /\ r = run[p] /\ item = Item(p) /\ tx = r.tx
                                    /\ f = tx.fixture /\ params = tx.params
  OBVIOUS
<1>2. RunIsSound(r) /\ ListIsNew(r)
  BY <1>1, AskKnows DEF RunIsNew
<1>3. item \in r.todo /\ MayAsk(r, item, f, params)
  BY <1>1, CreationIsNew
<1>4. PICK one : \A m \in MarketIds, g \in Fixtures, q \in Predicates :
                   IsOpenOn(m, g, q)' => IsOpenOn(m, g, q) \/ (m = one /\ g = f /\ q = params)
  BY <1>1 DEF OpensNew, OpensOne
<1>5. PICK s : s = [job |-> r.job, lines |-> r.lines, todo |-> r.todo \ {item}]
  OBVIOUS
<1>6. ListIsNew(s)'
  <2> SUFFICES ASSUME NEW i \in s.todo, NEW g \in Fixtures, NEW q \in Predicates,
                      MayAsk(s, i, g, q), NEW m \in MarketIds, IsOpenOn(m, g, q)'
               PROVE  FALSE
    BY DEF ListIsNew, MayAsk
  <2>1. i \in r.todo /\ i # item /\ MayAsk(r, i, g, q)
    BY <1>5 DEF MayAsk
  <2>2. ~IsOpenOn(m, g, q)
    BY <1>2, <2>1 DEF ListIsNew
  <2>3. g = f /\ q = params
    BY <1>4, <2>2
  <2>4. i = item
    BY <1>2, <1>3, <2>1, <2>3, ItemsDiffer
  <2> QED BY <2>1, <2>4
<1> QED BY <1>1, <1>2, <1>5, <1>6, DropAsksNew

\* The process opens only what its list asks.
Asks(p) ==
    /\ AsksNew(p)
    /\ OpensQuietly \/ \E f, params : OpensNew(f, params) /\ ListAsks(run[p], f, params)

\* What a sender gives up on.
LEMMA GivenUpIsNew ==
    ASSUME NEW tx, TxIsNew(tx), NEW done, NEW failed, Send(tx, done, failed)
    PROVE  \A late \in inflight' : late \in inflight \/ TxIsNew(late.tx)
<1>1. inflight' \subseteq inflight \cup {[tx |-> tx, expires |-> now + TxLifetime]}
  BY DEF Send, txVars
<1> QED BY <1>1

LEMMA SentQuietly ==
    ASSUME AskInv, NEW tx, IsSound(tx), tx.op # "create", NEW done, NEW failed, Send(tx, done, failed)
    PROVE  OpensQuietly
<1>1. Execute(tx) \/ UNCHANGED vars
  BY DEF Send
<1>2. TxIsNew(tx)
  BY DEF TxIsNew
<1> QED BY <1>1, <1>2, SentOpensNothing, GivenUpIsNew DEF OpensQuietly

LEMMA SendAsksNew ==
    ASSUME AskInv, NEW p \in Procs,
           SendCaught(p) \/ LockSend(p) \/ SettleVerify(p) \/ TicketSend(p) \/ RigSend(p)
    PROVE  Asks(p)
<1>1. RunIsSound(run[p]) /\ RunIsNew(run[p]) /\ KeeperInv /\ NumberingInv
  BY AskKnows
<1>2. CASE SendCaught(p)
  <2>1. /\ run[p].phase = "send" /\ DropItem(p) /\ IsSound(run[p].tx)
        /\ Send(run[p].tx, DropItem(p), DropItem(p))
    BY <1>1, <1>2 DEF SendCaught, Send, RunIsSound
  <2>2. ASSUME run[p].tx.op = "create", Execute(run[p].tx), UNCHANGED txVars
        PROVE  Asks(p)
    <3>1. PICK tx : tx = run[p].tx /\ Execute(tx)
      BY <2>2
    <3>2. IsSound(tx) /\ tx.op = "create"
      BY <2>1, <2>2, <3>1
    <3>3. \A m \in MarketIds : ~IsOpenOn(m, tx.fixture, tx.params)
      BY <2>1, <2>2, <3>1, CreationIsNew
    <3>4. inflight' \subseteq inflight
      BY <2>2 DEF txVars
    <3>5. OpensNew(tx.fixture, tx.params)
      BY <1>1, <3>1, <3>2, <3>3, <3>4, CreationOpensNew
    <3>6. ListAsks(run[p], tx.fixture, tx.params)
      BY <2>1, <2>2, <3>1, CreationIsNew DEF ListAsks
    <3>7. AsksNew(p)
      BY <2>1, <2>2, <3>1, <3>5, CreatedAsksNew
    <3> QED BY <3>5, <3>6, <3>7 DEF Asks
  <2>3. ASSUME run[p].tx.op # "create" \/ UNCHANGED vars
        PROVE  Asks(p)
    <3>1. TxIsNew(run[p].tx)
      BY <2>1, CreationIsNew DEF TxIsNew
    <3>2. Execute(run[p].tx) \/ UNCHANGED vars
      BY <2>1 DEF Send
    <3>3. OpensNothing
      BY <1>1, <2>1, <2>3, <3>2, SentOpensNothing, NothingElseOpens
    <3>4. \A late \in inflight' : late \in inflight \/ TxIsNew(late.tx)
      BY <2>1, <3>1, GivenUpIsNew
    <3>5. AsksNew(p)
      BY <1>1, <2>1, <3>3, SkipAsksNew
    <3> QED BY <3>3, <3>4, <3>5 DEF Asks, OpensQuietly
  <2>4. (Execute(run[p].tx) /\ UNCHANGED txVars) \/ UNCHANGED vars
    BY <2>1 DEF Send
  <2> QED BY <2>2, <2>3, <2>4
<1>3. CASE LockSend(p)
  <2>1. PICK tx : tx = [op |-> "lock", m |-> Item(p)] /\ Send(tx, DropItem(p), DropItem(p))
    BY <1>3 DEF LockSend
  <2>2. Item(p) \in MarketIds /\ DropItem(p)
    BY <1>1, <1>3, ItemIsListed DEF LockSend, Send, At, RunIsSound, ListIsSound
  <2>3. IsSound(tx) /\ tx.op # "create"
    BY <2>1, <2>2 DEF IsSound
  <2>4. OpensQuietly
    BY <2>1, <2>3, SentQuietly
  <2> QED BY <1>1, <2>2, <2>4, SkipAsksNew DEF Asks, OpensQuietly
<1>4. CASE SettleVerify(p) \/ RigSend(p)
  <2>1. /\ run[p].phase = "send" /\ run[p].job \notin {"create", "inplay"}
        /\ \E done, failed : Send(run[p].tx, done, failed)
        /\ \/ DropItem(p) \/ Throw(p)
           \/ Becomes(p, [run[p] EXCEPT !.phase = "tickets", !.tx = None])
    <3>1. CASE SettleVerify(p)
      BY <3>1 DEF SettleVerify, Send, At
    <3>2. CASE RigSend(p)
      BY <3>2 DEF RigSend, Send, At
    <3> QED BY <1>4, <3>1, <3>2
  <2>2. IsSound(run[p].tx) /\ run[p].tx.op # "create"
    BY <1>1, <2>1 DEF RunIsSound, RunIsNew, MayAsk
  <2>3. OpensQuietly
    BY <2>1, <2>2, SentQuietly
  <2>4. ASSUME Becomes(p, [run[p] EXCEPT !.phase = "tickets", !.tx = None])
        PROVE  AsksNew(p)
    <3>1. PICK r, s : /\ r = run[p] /\ s = [r EXCEPT !.phase = "tickets", !.tx = None]
                      /\ Becomes(p, s)
      BY <2>4
    <3>2. s.job = r.job /\ s.phase = "tickets"
      BY <1>1, <3>1 DEF RunIsSound
    <3> QED BY <2>1, <3>1, <3>2, OtherJobAsksNew
  <2>5. AsksNew(p)
    BY <1>1, <2>1, <2>4, OtherDropAsksNew, ThrowAsksNew
  <2> QED BY <2>3, <2>5 DEF Asks
<1>5. CASE TicketSend(p)
  <2>1. PICK t : t = Min(run[p].lines)
    OBVIOUS
  <2>2. /\ run[p].phase = "pay" /\ run[p].job \notin {"create", "inplay"}
        /\ DropItem(p) \/ Becomes(p, [run[p] EXCEPT !.lines = run[p].lines \ {t}])
    BY <1>5, <2>1 DEF TicketSend, Send, At
  <2>3. PICK tx : tx = [op |-> "settle", t |-> t] /\ \E next : Send(tx, next, next)
    BY <1>5, <2>1 DEF TicketSend
  <2>4. t \in TicketIds
    BY <1>1, <2>1, <2>2, MinIsMember, KeeperConstants DEF RunIsSound
  <2>5. IsSound(tx) /\ tx.op # "create"
    BY <2>3, <2>4 DEF IsSound
  <2>6. OpensQuietly
    BY <2>3, <2>5, SentQuietly
  <2>7. ASSUME Becomes(p, [run[p] EXCEPT !.lines = run[p].lines \ {t}])
        PROVE  AsksNew(p)
    <3>1. PICK r, s : /\ r = run[p] /\ s = [r EXCEPT !.lines = r.lines \ {t}]
                      /\ Becomes(p, s)
      BY <2>7
    <3>2. s.job = r.job /\ s.phase = "pay"
      BY <1>1, <2>2, <3>1 DEF RunIsSound
    <3> QED BY <2>2, <3>1, <3>2, OtherJobAsksNew
  <2>8. AsksNew(p)
    BY <1>1, <2>2, <2>7, OtherDropAsksNew
  <2> QED BY <2>6, <2>8 DEF Asks
<1> QED BY <1>2, <1>3, <1>4, <1>5

LEMMA StepAsksNew ==
    ASSUME AskInv, NEW p \in Procs, Step(p) \/ Crash(p)
    PROVE  Asks(p)
<1>1. KeeperInv
  BY DEF AskInv
<1>2. ASSUME Quiet PROVE OpensQuietly
  BY <1>2, QuietOpensNothing DEF OpensQuietly, Quiet
<1>3. CASE BeginCycle(p) \/ Crash(p)
  <2>1. Quiet
    BY <1>1, <1>3, BeginGoes, CrashGoes
  <2>2. Becomes(p, Enter("create")) \/ Becomes(p, Enter("sleep"))
    BY <1>3 DEF BeginCycle, Crash
  <2> QED BY <1>2, <2>1, <2>2, EnterAsksNew DEF Asks
<1>4. CASE CreateRead(p) \/ CreateResolve(p) \/ InPlayRead(p) \/ InPlayResolve(p)
  <2>1. Quiet
    BY <1>1, <1>4, CreateReadGoes, CreateResolveGoes, InPlayReadGoes, InPlayResolveGoes
  <2>2. AsksNew(p)
    BY <1>4, CreateReadAsksNew, CreateResolveAsksNew, InPlayReadAsksNew, InPlayResolveAsksNew
  <2> QED BY <1>2, <2>1, <2>2 DEF Asks
<1>5. CASE \/ LockRead(p) \/ QuoteRead(p) \/ QuoteFetch(p) \/ QuoteResolve(p)
           \/ SettleRead(p) \/ SettleProve(p) \/ TicketsRead(p) \/ RigRead(p) \/ RigResolve(p)
  <2>1. Quiet
    BY <1>1, <1>5, LockReadGoes, QuoteReadGoes, QuoteFetchGoes, QuoteResolveGoes, SettleReadGoes,
       SettleProveGoes, TicketsReadGoes, RigReadGoes, RigResolveGoes
  <2> QED BY <1>2, <1>5, <2>1, OtherJobsAskNothing DEF Asks
<1>6. CASE SendCaught(p) \/ LockSend(p) \/ SettleVerify(p) \/ TicketSend(p) \/ RigSend(p)
  BY <1>6, SendAsksNew
<1> QED BY <1>3, <1>4, <1>5, <1>6 DEF Step

\* Around the processes, a market opens only if its creation lands late.
LEMMA AroundAsksNew ==
    ASSUME AskInv,
           Others \/ ((LandLate \/ ClockTicks) /\ UNCHANGED run) \/ UNCHANGED keeperVars
    PROVE  OpensQuietly \/ \E f, params : OpensNew(f, params) /\ MayLand(f, params)
<1>1. KeeperInv /\ NumberingInv
  BY DEF AskInv, KeeperInv
<1>2. ASSUME Others PROVE OpensQuietly
  BY <1>1, <1>2, NothingElseOpens, ConstantTypes DEF Others, OpensQuietly, txVars
<1>3. ASSUME ClockTicks \/ UNCHANGED keeperVars PROVE OpensQuietly
  BY <1>1, <1>3, NothingElseOpens DEF ClockTicks, keeperVars, txVars, OpensQuietly
<1>4. ASSUME NEW late \in inflight, Execute(late.tx), inflight' = inflight \ {late}
      PROVE  OpensQuietly \/ \E f, params : OpensNew(f, params) /\ MayLand(f, params)
  <2>1. PICK tx : tx = late.tx /\ IsSound(tx) /\ TxIsNew(tx) /\ Execute(tx)
    BY <1>1, <1>4 DEF AskInv, LateIsNew, KeeperInv, InflightIsSound
  <2>2. inflight' \subseteq inflight
    BY <1>4
  <2>3. CASE tx.op # "create"
    BY <2>1, <2>2, <2>3, SentOpensNothing DEF OpensQuietly
  <2>4. CASE tx.op = "create"
    <3>1. IsNextMarket(tx)
      BY <2>1, <2>4 DEF Execute
    <3>2. \A m \in MarketIds : ~IsOpenOn(m, tx.fixture, tx.params)
      BY <2>1, <2>4, <3>1 DEF TxIsNew
    <3>3. OpensNew(tx.fixture, tx.params)
      BY <1>1, <2>1, <2>2, <2>4, <3>2, CreationOpensNew
    <3>4. MayLand(tx.fixture, tx.params)
      BY <1>4, <2>1, <2>4, <3>1 DEF MayLand
    <3> QED BY <3>3, <3>4
  <2> QED BY <2>3, <2>4
<1> QED BY <1>2, <1>3, <1>4 DEF LandLate

\* What was new stays so while nothing opens, and what is not asked when one does.
LEMMA StaysNew ==
    ASSUME NEW r, RunIsNew(r),
           house'.market_count \in Nat, house.market_count \in 0..house'.market_count,
           \/ OpensNothing
           \/ \E f, params : OpensNew(f, params) /\ ~ListAsks(r, f, params)
    PROVE  RunIsNew(r)'
<1>1. ListIsNew(r)
  BY DEF RunIsNew
<1>2. ListIsNew(r)'
  <2>1. CASE OpensNothing
    BY <1>1, <2>1, ListStaysNew
  <2>2. ASSUME NEW f, NEW params, OpensNew(f, params), ~ListAsks(r, f, params)
        PROVE  ListIsNew(r)'
    BY <1>1, <2>2 DEF ListIsNew, OpensNew, OpensOne, ListAsks, MayAsk
  <2> QED BY <2>1, <2>2
<1>3. ASSUME r.phase = "send" /\ r.tx.op = "create"
      PROVE  /\ MayAsk(r, Min(r.todo), r.tx.fixture, r.tx.params)
             /\ r.tx.id \in 0..house'.market_count
  <2>1. PICK n, k : n = house.market_count /\ k = house'.market_count
    OBVIOUS
  <2>2. r.tx.id \in 0..n /\ k \in Nat /\ n \in 0..k
    BY <1>3, <2>1 DEF RunIsNew
  <2> QED BY <1>3, <2>1, <2>2 DEF RunIsNew
<1> QED BY <1>2, <1>3 DEF RunIsNew, MayAsk

LEMMA MarketsStillDiffer ==
    ASSUME OpenMarketsDiffer, OpensNothing \/ \E f, params : OpensNew(f, params)
    PROVE  OpenMarketsDiffer'
<1>1. CASE OpensNothing
  BY <1>1 DEF OpenMarketsDiffer, OpensNothing
<1>2. ASSUME NEW f, NEW params, OpensNew(f, params)
      PROVE  OpenMarketsDiffer'
  BY <1>2 DEF OpenMarketsDiffer, OpensNew, OpensOne
<1> QED BY <1>1, <1>2

LEMMA LateStaysNew ==
    ASSUME LateIsNew, InflightIsSound',
           house'.market_count \in Nat, house.market_count \in 0..house'.market_count,
           OpensQuietly \/ \E f, params : OpensNew(f, params)
    PROVE  LateIsNew'
<1> SUFFICES ASSUME NEW late \in inflight', late.tx.op = "create" PROVE TxIsNew(late.tx)'
  BY DEF LateIsNew, TxIsNew
<1>1. PICK tx : tx = late.tx /\ tx.op = "create"
  OBVIOUS
<1>2. TxIsNew(tx)
  BY <1>1 DEF LateIsNew, OpensQuietly, OpensNew
<1>3. PICK n, k : n = house.market_count /\ k = house'.market_count
  OBVIOUS
<1>4. tx.id \in 0..n /\ k \in Nat /\ n \in 0..k
  BY <1>1, <1>2, <1>3 DEF TxIsNew
<1>5. ASSUME k = tx.id, NEW m \in MarketIds
      PROVE  ~IsOpenOn(m, tx.fixture, tx.params)'
  <2>1. n = k /\ IsNextMarket(tx)
    BY <1>3, <1>4, <1>5 DEF IsNextMarket
  <2>2. OpensNothing
    BY <1>3, <1>4, <2>1 DEF OpensQuietly, OpensNew
  <2>3. ~IsOpenOn(m, tx.fixture, tx.params)
    BY <1>1, <1>2, <2>1 DEF TxIsNew
  <2>4. tx.fixture \in Fixtures /\ tx.params \in Predicates
    BY <1>1 DEF InflightIsSound, IsSound
  <2> QED BY <2>2, <2>3, <2>4 DEF OpensNothing
<1> QED BY <1>1, <1>3, <1>4, <1>5 DEF TxIsNew, IsNextMarket, IsOpenOn

\* Markets are numbered on and on.
LEMMA CountGrows ==
    ASSUME NumberingInv, NumberingInv', MarketTermsKept
    PROVE  house'.market_count \in Nat /\ house.market_count \in 0..house'.market_count
<1>1. PICK n, k : n = house.market_count /\ k = house'.market_count
  OBVIOUS
<1>2. n \in 0..NumMarkets /\ k \in 0..NumMarkets /\ NumMarkets \in Nat
  BY <1>1, BoundsAssumption DEF NumberingInv, BookInv, TypeOK, House
<1>3. ASSUME k < n PROVE FALSE
  <2>1. k \in MarketIds
    BY <1>2, <1>3 DEF MarketIds
  <2>2. market[k].state # "Vacant"
    BY <1>1, <1>2, <1>3, <2>1 DEF NumberingInv, MarketsAreNumbered
  <2>3. market'[k].state # "Vacant"
    BY <2>1, <2>2 DEF MarketTermsKept
  <2> QED BY <1>1, <1>2, <2>1, <2>3 DEF NumberingInv, MarketsAreNumbered
<1> QED BY <1>1, <1>2, <1>3

LEMMA AskNextKeeps == AskInv /\ NoRivals /\ [KeeperNext]_keeperVars => AskInv'
<1> SUFFICES ASSUME AskInv, NoRivals, [KeeperNext]_keeperVars
             PROVE  AskInv'
  OBVIOUS
<1>1. /\ KeeperInv /\ NumberingInv /\ OpenMarketsDiffer /\ LateIsNew
      /\ \A p \in Procs : RunIsNew(run[p])
      /\ KeeperInv' /\ NumberingInv' /\ InflightIsSound'
  BY KeeperNextKeeps DEF AskInv, KeeperInv
<1>2. house'.market_count \in Nat /\ house.market_count \in 0..house'.market_count
  <2>1. \/ \E p \in Procs : Honestly /\ Goes(p)
        \/ Honestly /\ UNCHANGED run
    BY <1>1, StepGoes, OthersAreHonest DEF KeeperNext
  <2> QED BY <1>1, <2>1, HonestlyKeepsTerms, CountGrows DEF TermsKept
<1>3. ASSUME NEW p \in Procs, run'[p] = run[p],
             OpensQuietly \/ \E f, params : OpensNew(f, params) /\ ~ListAsks(run[p], f, params)
      PROVE  RunIsNew(run[p])'
  <2>1. PICK r : r = run[p] /\ RunIsNew(r)
    BY <1>1
  <2>2. RunIsNew(r)'
    BY <1>2, <1>3, <2>1, StaysNew DEF OpensQuietly
  <2> QED BY <1>3, <2>1, <2>2 DEF RunIsNew, ListIsNew, MayAsk
<1>4. ASSUME OpensQuietly \/ \E f, params : OpensNew(f, params),
             \A p \in Procs : RunIsNew(run[p])'
      PROVE  AskInv'
  BY <1>1, <1>2, <1>4, MarketsStillDiffer, LateStaysNew DEF AskInv, OpensQuietly
<1>5. ASSUME NEW p \in Procs, Step(p) \/ Crash(p)
      PROVE  AskInv'
  <2>1. Asks(p)
    BY <1>5, StepAsksNew
  <2>2. PICK r : run' = [run EXCEPT ![p] = r] /\ RunIsNew(r)'
    BY <2>1 DEF Asks, AsksNew
  <2>3. run'[p] = r /\ \A q \in Procs : q # p => run'[q] = run[q]
    BY <1>1, <2>2 DEF KeeperInv
  <2>4. RunIsNew(run[p])'
    BY <2>2, <2>3 DEF RunIsNew, ListIsNew, MayAsk
  <2>5. ASSUME NEW q \in Procs, q # p
        PROVE  RunIsNew(run[q])'
    <3>1. ASSUME NEW f, NEW params, OpensNew(f, params), ListAsks(run[p], f, params)
          PROVE  ~ListAsks(run[q], f, params)
      BY <2>5, <3>1 DEF OpensNew, NoRivals
    <3> QED BY <1>3, <2>1, <2>3, <2>5, <3>1 DEF Asks
  <2>6. \A q \in Procs : RunIsNew(run[q])'
    BY <2>4, <2>5
  <2> QED BY <1>4, <2>1, <2>6 DEF Asks
<1>6. ASSUME UNCHANGED run,
             OpensQuietly \/ \E f, params : OpensNew(f, params) /\ MayLand(f, params)
      PROVE  AskInv'
  <2>1. ASSUME NEW p \in Procs
        PROVE  RunIsNew(run[p])'
    <3>1. ASSUME NEW f, NEW params, OpensNew(f, params), MayLand(f, params)
          PROVE  ~ListAsks(run[p], f, params)
      BY <3>1 DEF OpensNew, NoRivals
    <3> QED BY <1>3, <1>6, <3>1
  <2> QED BY <1>4, <1>6, <2>1
<1>7. ASSUME Others \/ ((LandLate \/ ClockTicks) /\ UNCHANGED run) \/ UNCHANGED keeperVars
      PROVE  AskInv'
  <2>1. UNCHANGED run
    BY <1>7 DEF Others, keeperVars
  <2> QED BY <1>6, <1>7, <2>1, AroundAsksNew
<1> QED BY <1>5, <1>7 DEF KeeperNext

LEMMA AskInitInv == KeeperInit => AskInv
<1> SUFFICES ASSUME KeeperInit
             PROVE  AskInv
  OBVIOUS
<1>1. market = [m \in MarketIds |-> NoMarket] /\ inflight = {}
  BY DEF KeeperInit, BookWith, TxInit
<1>2. OpenMarketsDiffer /\ LateIsNew
  BY <1>1 DEF OpenMarketsDiffer, IsOpenOn, NoMarket, LateIsNew
<1>3. ASSUME NEW p \in Procs
      PROVE  RunIsNew(run[p])
  <2>1. run = [q \in Procs |-> Enter(IF q \in Loops THEN "sleep" ELSE "start")]
    BY DEF KeeperInit
  <2>2. run[p].phase = "read" /\ run[p].todo = {}
    BY <2>1 DEF Enter
  <2> QED BY <2>2 DEF RunIsNew, ListIsNew
<1> QED BY <1>1, <1>2, <1>3, KeeperInitInv DEF AskInv

\* However many keepers run, and whatever lands late: a question is open to bets
\* twice only after a race for it, that is after it stood on the list of a process
\* while another process had it on its list too, or while a creation of it that
\* somebody gave up on could still land (createMarketsForFixtures,
\* maintainInPlayMarkets).  Nothing else that fails, is read too early, lands late
\* or crashes, and nobody who locks, voids or bets meanwhile, makes a keeper ask
\* what is open: neither a list read several creations ago, nor a creation that
\* lands after a restart.
THEOREM OnlyRivalsAskTwice == KeeperSpec /\ []NoRivals => []OneMarketPerQuestion
<1>1. AskInv => OneMarketPerQuestion
  BY DEF AskInv, KeeperInv, MarketsAreNamed, OpenMarketsDiffer, IsOpenOn, OneMarketPerQuestion,
         OpenToBets
<1>2. AskInv /\ NoRivals /\ [KeeperNext]_keeperVars => AskInv'
  BY AskNextKeeps
<1> QED BY <1>1, <1>2, AskInitInv, PTL DEF KeeperSpec

-----------------------------------------------------------------------------
(* The final score.                                                        *)

\* A verdict on a predicate is what the last score of its period says.
IsFinalVerdict(f, params, verdict) ==
    \A row \in latestScoreRow({r \in ScoreRows[f] : ProvesPeriod(r, params)}) :
        (verdict = "Yes") <=> StatProof(f, row, params).holds
IsFinalOf(m, verdict) == IsFinalVerdict(market[m].fixture_id, market[m].params, verdict)
VerdictOf(proof) == IF proof.holds THEN "Yes" ELSE "No"

\* A transaction creates no market that closes before its match starts, and
\* proves none with another verdict, whenever it is executed.
TxIsFinal(tx) ==
    /\ tx.op = "create" => tx.kickoff >= StartOf[tx.fixture]
    /\ tx.op = "verify" => market[tx.m].state # "Vacant" /\ IsFinalOf(tx.m, VerdictOf(tx.proof))

\* A list of fixtures in play was read after they started, one of markets to
\* settle after the last row of their fixtures.
AllIsPublished(f) == \A row \in ScoreRows[f] : row.ts <= now
ListIsFinal(r) ==
    /\ r.job = "inplay" => \A f \in r.todo : StartOf[f] <= r.at
    /\ r.job = "settle" =>
         \A m \in r.todo : market[m].state # "Vacant" /\ AllIsPublished(market[m].fixture_id)
RunIsFinal(r) == ListIsFinal(r) /\ (r.phase = "send" => TxIsFinal(r.tx))

MarketsCloseInTime ==
    \A m \in MarketIds :
        market[m].state # "Vacant" => market[m].kickoff_ts >= StartOf[market[m].fixture_id]

\* SettlesOnFinalScore is not inductive: the keeper takes a match for over by the
\* earliest deadline of its markets, and by what had been published when it read
\* the list; the proof it asks for later may be executed later still.
FinalInv ==
    /\ KeeperInv
    /\ OutcomesMatch
    /\ MarketsCloseInTime
    /\ SettlesOnFinalScore
    /\ \A late \in inflight : TxIsFinal(late.tx)
    /\ \A p \in Procs : RunIsFinal(run[p])

\* What a step does to the clock, the deadlines and the outcomes.
StaysFinal ==
    /\ now <= now'
    /\ \A m \in MarketIds :
         /\ market[m].state # "Vacant" => market'[m].kickoff_ts = market[m].kickoff_ts
         /\ market[m].state = "Vacant" /\ market'[m].state # "Vacant" =>
              market'[m].kickoff_ts >= StartOf[market'[m].fixture_id]
         /\ outcome'[m] # outcome[m] => market[m].state # "Vacant" /\ IsFinalOf(m, outcome'[m])

LEMMA FinalKnows ==
    ASSUME FinalInv
    PROVE  /\ KeeperInv /\ NumberingInv /\ MarketsAreNumbered /\ OutcomesMatch
           /\ market \in [MarketIds -> Market]
           /\ outcome \in [MarketIds -> {"Unverified", "Yes", "No"}]
           /\ now \in Nat /\ house.market_count \in Nat
  BY ConstantTypes DEF FinalInv, KeeperInv, NumberingInv, BookInv, TypeOK, House

\* Bets, quotes and the cranks but verify_market prove nothing and create nothing.
LEMMA OtherInstructionsStayFinal ==
    ASSUME FinalInv,
           \/ \E m \in MarketIds, q \in [Sides -> Nat], r \in RecordIds : PostQuote(m, q, r)
           \/ \E t \in TicketIds, m \in MarketIds, s \in Sides, stake \in Amount :
                PlaceBet(t, m, s, stake)
           \/ \E m \in MarketIds : LockMarket(m) \/ VoidMarket(m, FALSE)
           \/ \E t \in TicketIds : SettleTicket(t)
           \/ Tick
           \/ UNCHANGED vars
    PROVE  StaysFinal
<1>1. market \in [MarketIds -> Market] /\ now \in Nat
  BY FinalKnows
<1>2. ASSUME UNCHANGED outcome, now <= now',
             \A m \in MarketIds : /\ market[m].state = "Vacant" => market'[m].state = "Vacant"
                                  /\ market'[m].kickoff_ts = market[m].kickoff_ts
      PROVE  StaysFinal
  BY <1>2 DEF StaysFinal
<1>3. ASSUME NEW m \in MarketIds, NEW q \in [Sides -> Nat], NEW r \in RecordIds, PostQuote(m, q, r)
      PROVE  StaysFinal
  <2>1. /\ market' = [market EXCEPT ![m] = [market[m] EXCEPT !.odds = q, !.odds_record = r,
                                                             !.quote_posted_ts = now]]
        /\ UNCHANGED <<now, outcome>>
    BY <1>3 DEF PostQuote
  <2>2. \A n \in MarketIds : /\ market'[n].state = market[n].state
                             /\ market'[n].kickoff_ts = market[n].kickoff_ts
    BY <1>1, <2>1 DEF Market
  <2> QED BY <1>1, <1>2, <2>1, <2>2
<1>4. ASSUME NEW t \in TicketIds, NEW m \in MarketIds, NEW s \in Sides, NEW stake \in Amount,
             PlaceBet(t, m, s, stake)
      PROVE  StaysFinal
  <2>1. market' = [market EXCEPT ![m] =
                     MarketAfterBet(m, s, stake, potential_payout(stake, market[m].odds[s]))]
        /\ UNCHANGED <<now, outcome>>
    BY <1>4 DEF PlaceBet
  <2>2. \A n \in MarketIds : /\ market'[n].state = market[n].state
                             /\ market'[n].kickoff_ts = market[n].kickoff_ts
    BY <1>1, <2>1 DEF MarketAfterBet, Market
  <2> QED BY <1>1, <1>2, <2>1, <2>2
<1>5. ASSUME NEW m \in MarketIds, LockMarket(m) \/ VoidMarket(m, FALSE)
      PROVE  StaysFinal
  <2>1. \A n \in MarketIds : /\ market[n].state = "Vacant" => market'[n].state = "Vacant"
                             /\ market'[n].kickoff_ts = market[n].kickoff_ts
    BY <1>1, <1>5 DEF LockMarket, VoidMarket, Voidable, Market
  <2> QED BY <1>1, <1>2, <1>5, <2>1 DEF LockMarket, VoidMarket
<1>6. ASSUME (\E t \in TicketIds : SettleTicket(t)) \/ Tick \/ UNCHANGED vars
      PROVE  StaysFinal
  <2>1. UNCHANGED <<market, outcome>> /\ now <= now'
    BY <1>1, <1>6 DEF SettleTicket, Tick, vars, accounts
  <2> QED BY <1>2, <2>1
<1> QED BY <1>3, <1>4, <1>5, <1>6

\* A transaction of the keeper, whenever it is executed.
LEMMA ExecuteStaysFinal ==
    ASSUME FinalInv, NEW tx, IsSound(tx), TxIsFinal(tx), Execute(tx)
    PROVE  StaysFinal
<1>1. /\ market \in [MarketIds -> Market] /\ now \in Nat /\ MarketsAreNumbered
      /\ outcome \in [MarketIds -> {"Unverified", "Yes", "No"}] /\ house.market_count \in Nat
  BY FinalKnows
<1>2. CASE tx.op = "create" /\ tx.fixture \in Fixtures /\ tx.params \in Predicates /\ tx.kickoff \in Nat
  <2>1. PICK f, params, kickoff, n :
          /\ f = tx.fixture /\ params = tx.params /\ kickoff = tx.kickoff
          /\ n = house.market_count
    OBVIOUS
  <2>2. CreateMarket(f, params, kickoff) /\ kickoff >= StartOf[f]
    BY <1>2, <2>1 DEF Execute, TxIsFinal
  <2>3. /\ UNCHANGED <<now, outcome>>
        /\ \A m \in MarketIds : m # n => market'[m] = market[m]
        /\ n \in MarketIds => market'[n].kickoff_ts = kickoff /\ market'[n].fixture_id = f
    BY <1>1, <2>1, <2>2 DEF CreateMarket, NoMarket
  <2>4. n \in MarketIds => market[n].state = "Vacant"
    BY <1>1, <2>1 DEF MarketsAreNumbered
  <2> QED BY <1>1, <2>2, <2>3, <2>4 DEF StaysFinal
<1>3. CASE tx.op = "verify" /\ tx.m \in MarketIds
  <2>1. PICK m, proof : m \in MarketIds /\ m = tx.m /\ proof = tx.proof
    BY <1>3
  <2>2. VerifyMarket(m, proof) /\ market[m].state # "Vacant" /\ IsFinalOf(m, VerdictOf(proof))
    BY <1>3, <2>1 DEF Execute, TxIsFinal
  <2>3. /\ now' = now /\ outcome'[m] = VerdictOf(proof)
        /\ \A n \in MarketIds : n # m => outcome'[n] = outcome[n]
        /\ \A n \in MarketIds : market[n].state = "Vacant" => market'[n].state = "Vacant"
        /\ \A n \in MarketIds : market'[n].kickoff_ts = market[n].kickoff_ts
    BY <1>1, <2>1, <2>2 DEF VerifyMarket, VerdictOf, Market
  <2>4. IsFinalOf(m, outcome'[m])
    BY <2>2, <2>3
  <2> QED BY <1>1, <2>2, <2>3, <2>4 DEF StaysFinal
<1>4. CASE tx.op \notin {"create", "verify"}
  <2>1. \/ \E m \in MarketIds, q \in [Sides -> Nat], r \in RecordIds : PostQuote(m, q, r)
        \/ \E m \in MarketIds : LockMarket(m)
        \/ \E t \in TicketIds : SettleTicket(t)
    <3>1. CASE /\ tx.op = "quote" /\ tx.m \in MarketIds /\ tx.record \in RecordIds
               /\ IsSafeQuote(tx.m, tx.odds, tx.record)
      <4>1. PostQuote(tx.m, tx.odds, tx.record)
        BY <3>1 DEF Execute
      <4>2. tx.odds \in [Sides -> Nat]
        BY <3>1, <4>1 DEF PostQuote, IsSafeQuote
      <4> QED BY <3>1, <4>1, <4>2
    <3>2. CASE tx.op = "lock" /\ tx.m \in MarketIds
      BY <3>2 DEF Execute
    <3>3. CASE tx.op = "settle" /\ tx.t \in TicketIds
      BY <3>3 DEF Execute
    <3> QED BY <1>4, <3>1, <3>2, <3>3 DEF IsSound
  <2> QED BY <2>1, OtherInstructionsStayFinal
<1> QED BY <1>2, <1>3, <1>4 DEF IsSound

\* The chain's part of the invariant.
LEMMA ChainStaysFinal ==
    ASSUME FinalInv, Honestly, StaysFinal, KeeperInv'
    PROVE  OutcomesMatch' /\ MarketsCloseInTime' /\ SettlesOnFinalScore'
<1>1. /\ KeeperInv /\ NumberingInv /\ OutcomesMatch /\ MarketsCloseInTime
      /\ SettlesOnFinalScore /\ OutcomeInv
  BY FinalKnows DEF FinalInv, OutcomeInv
<1>2. TermsKept
  BY <1>1, HonestlyKeepsTerms
<1>3. OutcomesMatch'
  BY <1>1, HonestIsInstruction, OutcomesNext DEF Honestly, OutcomeInv
<1>4. ASSUME NEW m \in MarketIds, market'[m].state # "Vacant"
      PROVE  market'[m].kickoff_ts >= StartOf[market'[m].fixture_id]
  BY <1>1, <1>2, <1>4 DEF StaysFinal, TermsKept, MarketTermsKept, MarketsCloseInTime
<1>5. ASSUME NEW m \in MarketIds, outcome'[m] # "Unverified"
      PROVE  IsFinalVerdict(market'[m].fixture_id, market'[m].params, outcome'[m])
  <2>1. market[m].state # "Vacant" /\ IsFinalOf(m, outcome'[m])
    <3>1. CASE outcome'[m] = outcome[m]
      <4>1. market[m].state = "Verified"
        BY <1>1, <1>5, <3>1 DEF OutcomesMatch
      <4>2. IsFinalOf(m, outcome[m])
        BY <1>1, <1>5, <3>1 DEF SettlesOnFinalScore, FinalRow, IsFinalOf, IsFinalVerdict
      <4> QED BY <3>1, <4>1, <4>2
    <3>2. CASE outcome'[m] # outcome[m]
      BY <3>2 DEF StaysFinal
    <3> QED BY <3>1, <3>2
  <2>2. market'[m].fixture_id = market[m].fixture_id /\ market'[m].params = market[m].params
    BY <1>2, <2>1 DEF TermsKept, MarketTermsKept
  <2> QED BY <2>1, <2>2 DEF IsFinalOf
<1>6. SettlesOnFinalScore'
  BY <1>5 DEF SettlesOnFinalScore, FinalRow, IsFinalVerdict
<1> QED BY <1>3, <1>4, <1>6 DEF MarketsCloseInTime

-----------------------------------------------------------------------------
(* What the keeper learns of the final score.                              *)

\* The rows whose proof is asked for are the latest: a later row is one of them.
LEMMA CandidatesAreLatest ==
    ASSUME NEW f \in Fixtures, NEW row \in Candidates(f), NEW other \in Scores(f),
           other.seq >= row.seq
    PROVE  other \in Candidates(f)
<1>1. PICK above, below :
        /\ above = {o \in Scores(f) : o.seq > other.seq}
        /\ below = {o \in Scores(f) : o.seq > row.seq}
  OBVIOUS
<1>2. IsFiniteSet(Scores(f))
  BY KeeperAssumption, FS_Subset DEF Scores
<1>3. \A o \in Scores(f) : o.seq \in Nat
  BY KeeperAssumption DEF Scores
<1>4. row \in Scores(f) /\ Cardinality(below) < MAX_SEQ_ATTEMPTS
  BY <1>1 DEF Candidates
<1>5. above \subseteq below
  BY <1>1, <1>3, <1>4
<1>6. IsFiniteSet(below)
  BY <1>1, <1>2, FS_Subset
<1>7. Cardinality(above) <= Cardinality(below) /\ IsFiniteSet(above)
  BY <1>5, <1>6, FS_Subset
<1>8. Cardinality(above) \in Nat /\ Cardinality(below) \in Nat /\ MAX_SEQ_ATTEMPTS \in Nat
  BY <1>6, <1>7, FS_CardinalityType, KeeperAssumption
<1>9. Cardinality(above) < MAX_SEQ_ATTEMPTS
  BY <1>4, <1>7, <1>8
<1> QED BY <1>1, <1>9 DEF Candidates

\* The rows of a predicate's period.
Proving(f, params) == {row \in ScoreRows[f] : ProvesPeriod(row, params)}
SameScore(row, other, params) ==
    row.stats[params.stat_a_period] = other.stats[params.stat_a_period]

\* Where every row is known, the row that is proven is the last but for those
\* whose proof could not be fetched.
LEMMA FoundIsLatest ==
    ASSUME NEW f \in Fixtures, NEW params \in Predicates, AllIsPublished(f),
           NEW lost, NEW row \in latestScoreRow({r \in Candidates(f) \ lost : ProvesPeriod(r, params)})
    PROVE  row \in latestScoreRow(Proving(f, params) \ lost)
<1>1. Scores(f) = ScoreRows[f]
  BY DEF AllIsPublished, Scores
<1>2. /\ row \in Candidates(f) /\ row \notin lost /\ ProvesPeriod(row, params)
      /\ \A r \in Candidates(f) : r \notin lost /\ ProvesPeriod(r, params) => r.seq <= row.seq
  BY DEF latestScoreRow
<1>3. row \in Proving(f, params) \ lost
  BY <1>1, <1>2 DEF Candidates, Proving
<1>4. ASSUME NEW other \in Proving(f, params) \ lost
      PROVE  other.seq <= row.seq
  <2>1. other \in Scores(f) /\ ProvesPeriod(other, params) /\ other \notin lost /\ row \in Scores(f)
    BY <1>1, <1>2, <1>4 DEF Proving, Candidates
  <2>2. other.seq \in Nat /\ row.seq \in Nat
    BY <1>1, <2>1, KeeperAssumption
  <2>3. other.seq >= row.seq => other \in Candidates(f)
    BY <1>2, <2>1, CandidatesAreLatest
  <2> QED BY <1>2, <2>1, <2>2, <2>3
<1> QED BY <1>3, <1>4 DEF latestScoreRow

\* Its score is the last one, then: the last one is confirmed.
LEMMA FoundIsFinal ==
    ASSUME LastScoreIsConfirmed, NEW f \in Fixtures, NEW params \in Predicates,
           NEW lost \in ScoreRows[f], NEW row \in latestScoreRow(Proving(f, params) \ {lost})
    PROVE  IsFinalVerdict(f, params, VerdictOf(StatProof(f, row, params)))
<1> SUFFICES ASSUME NEW final \in latestScoreRow(Proving(f, params))
             PROVE  (VerdictOf(StatProof(f, row, params)) = "Yes") <=> StatProof(f, final, params).holds
  BY DEF IsFinalVerdict, Proving
<1>1. SameScore(row, final, params)
  BY DEF LastScoreIsConfirmed, Proving, SameScore
<1>2. StatProof(f, row, params) = StatProof(f, final, params)
  BY <1>1 DEF StatProof, SameScore
<1> QED BY <1>2, Zenon DEF VerdictOf

\* The latest row of all is as good: there is nothing to lose.
LEMMA LatestIsFinal ==
    ASSUME LastScoreIsConfirmed, NEW f \in Fixtures, NEW params \in Predicates,
           NEW row \in latestScoreRow(Proving(f, params))
    PROVE  IsFinalVerdict(f, params, VerdictOf(StatProof(f, row, params)))
<1> SUFFICES ASSUME NEW final \in latestScoreRow(Proving(f, params))
             PROVE  (VerdictOf(StatProof(f, row, params)) = "Yes") <=> StatProof(f, final, params).holds
  BY DEF IsFinalVerdict, Proving
<1>1. CASE row = final
  BY <1>1, Zenon DEF VerdictOf
<1>2. CASE row # final
  <2>1. row \in latestScoreRow(Proving(f, params) \ {final}) /\ final \in ScoreRows[f]
    BY <1>2 DEF latestScoreRow, Proving
  <2>2. IsFinalVerdict(f, params, VerdictOf(StatProof(f, row, params)))
    BY <2>1, FoundIsFinal
  <2> QED BY <2>2 DEF IsFinalVerdict, Proving
<1> QED BY <1>1, <1>2

\* A fixture that looks finished has published its last row: no market of it
\* closed before it started, so that it is past full time.
LEMMA FinishedIsPublished ==
    ASSUME FeedEndsQuietly, FinalInv, NEW m \in MarketIds, market[m].state # "Vacant",
           LooksFinished(market[m].fixture_id)
    PROVE  AllIsPublished(market[m].fixture_id)
<1>1. PICK f \in Fixtures : f = market[m].fixture_id
  BY FinalKnows DEF KeeperInv, MarketsAreNamed
<1>2. /\ market \in [MarketIds -> Market] /\ now \in Start..MaxTime
      /\ StartOf[f] \in Nat /\ IN_PLAY_MAX \in Nat /\ Start..MaxTime \subseteq Nat
  BY FinalKnows, KeeperAssumption, ConstantTypes DEF KeeperInv, NumberingInv, BookInv, TypeOK
<1>3. PICK deadlines : deadlines = {market[n].kickoff_ts : n \in {k \in MarketIds :
                                      market[k].state # "Vacant" /\ market[k].fixture_id = f}}
  OBVIOUS
<1>4. deadlines \subseteq Nat /\ deadlines # {}
  <2>1. \A n \in MarketIds : market[n].kickoff_ts \in Nat
    BY <1>2 DEF Market
  <2>2. market[m].kickoff_ts \in deadlines
    BY <1>1, <1>3
  <2> QED BY <1>3, <2>1, <2>2
<1>5. Min(deadlines) \in deadlines
  BY <1>4, MinIsMember
<1>6. KickoffOf(f) = Min(deadlines)
  BY <1>3, Zenon DEF KickoffOf
<1>7. PICK k \in Nat : k = KickoffOf(f) /\ k >= StartOf[f]
  BY <1>3, <1>4, <1>5, <1>6 DEF FinalInv, MarketsCloseInTime
<1>8. /\ now >= k + IN_PLAY_MAX
      /\ \E row \in latestScoreRow(Scores(f)) : now - row.ts >= FEED_QUIET
  BY <1>1, <1>7 DEF LooksFinished
<1>9. now >= StartOf[f] + IN_PLAY_MAX
  BY <1>2, <1>7, <1>8
<1>10. Scores(f) = ScoreRows[f]
  BY <1>2, <1>8, <1>9 DEF FeedEndsQuietly, Scores
<1> QED BY <1>1, <1>10 DEF AllIsPublished, Scores

-----------------------------------------------------------------------------
(* What a process remembers of it.                                         *)

\* The process goes on with lists and proofs that are as late as they must be.
EndsWell(p) == \E r : run' = [run EXCEPT ![p] = r] /\ RunIsFinal(r)'

\* What was late enough stays so.
LEMMA TxStaysFinal ==
    ASSUME TermsKept, NEW tx, IsSound(tx), TxIsFinal(tx)
    PROVE  TxIsFinal(tx)'
<1>1. CASE tx.op = "verify" /\ tx.m \in MarketIds
  <2>1. market[tx.m].state # "Vacant" /\ IsFinalOf(tx.m, VerdictOf(tx.proof))
    BY <1>1 DEF TxIsFinal
  <2>2. /\ market'[tx.m].state # "Vacant"
        /\ market'[tx.m].fixture_id = market[tx.m].fixture_id
        /\ market'[tx.m].params = market[tx.m].params
    BY <1>1, <2>1 DEF TermsKept, MarketTermsKept
  <2> QED BY <1>1, <2>1, <2>2 DEF TxIsFinal, IsFinalOf
<1>2. CASE tx.op # "verify"
  BY <1>2 DEF TxIsFinal
<1> QED BY <1>1, <1>2 DEF IsSound

\* Markets that may be settled, now and from now on.
MayBeSettled(m) == market[m].state # "Vacant" /\ AllIsPublished(market[m].fixture_id)
LEMMA SettledLater ==
    ASSUME FinalInv, TermsKept, now <= now', now' \in Nat, NEW m \in MarketIds, MayBeSettled(m)
    PROVE  MayBeSettled(m)'
<1>1. PICK f \in Fixtures : f = market[m].fixture_id
  BY FinalKnows DEF KeeperInv, MarketsAreNamed, MayBeSettled
<1>2. market'[m].state # "Vacant" /\ market'[m].fixture_id = f
  BY <1>1 DEF TermsKept, MarketTermsKept, MayBeSettled
<1>3. \A row \in ScoreRows[f] : row.ts <= now'
  <2>1. \A row \in ScoreRows[f] : row.ts \in Nat /\ row.ts <= now
    BY <1>1, KeeperAssumption DEF MayBeSettled, AllIsPublished
  <2> QED BY <2>1, FinalKnows
<1> QED BY <1>1, <1>2, <1>3 DEF MayBeSettled, AllIsPublished

LEMMA ListStaysFinal ==
    ASSUME FinalInv, TermsKept, now <= now', now' \in Nat,
           NEW r, ListIsSound(r), ListIsFinal(r)
    PROVE  ListIsFinal(r)'
<1>1. r.job = "settle" => \A m \in r.todo : m \in MarketIds /\ MayBeSettled(m)
  BY DEF ListIsSound, ListIsFinal, MayBeSettled
<1>2. r.job = "settle" => \A m \in r.todo : MayBeSettled(m)'
  BY <1>1, SettledLater
<1> QED BY <1>2 DEF ListIsFinal, MayBeSettled

LEMMA RunStaysFinal ==
    ASSUME FinalInv, TermsKept, now <= now', now' \in Nat,
           NEW r, RunIsSound(r), RunIsFinal(r)
    PROVE  RunIsFinal(r)'
<1>1. ListIsFinal(r)'
  BY ListStaysFinal DEF RunIsFinal, RunIsSound
<1>2. r.phase = "send" => TxIsFinal(r.tx)'
  <2>1. PICK tx : tx = r.tx
    OBVIOUS
  <2>2. r.phase = "send" => TxIsFinal(tx)'
    BY <2>1, TxStaysFinal DEF RunIsFinal, RunIsSound
  <2> QED BY <2>1, <2>2
<1> QED BY <1>1, <1>2 DEF RunIsFinal

\* The ways in which a process goes on.
LEMMA EnterEndsWell ==
    ASSUME NEW p \in Procs, NEW job, Becomes(p, Enter(job))
    PROVE  EndsWell(p)
<1>1. PICK r : r = Enter(job) /\ run' = [run EXCEPT ![p] = r]
  BY DEF Becomes
<1>2. r.phase = "read" /\ r.todo = {}
  BY <1>1 DEF Enter
<1> QED BY <1>1, <1>2 DEF EndsWell, RunIsFinal, ListIsFinal

LEMMA ThrowEndsWell ==
    ASSUME NEW p \in Procs, Throw(p) \/ ReadThrows(p)
    PROVE  EndsWell(p)
  BY EnterEndsWell DEF Throw, ReadThrows

LEMMA StartEndsWell ==
    ASSUME NEW p \in Procs, NEW r, StartList(p, r), ListIsFinal(r)',
           r = [job |-> r.job, phase |-> r.phase, todo |-> r.todo, at |-> r.at,
                lines |-> r.lines, odds |-> r.odds, tx |-> r.tx]
    PROVE  EndsWell(p)
<1>1. CASE r.todo = {}
  BY <1>1, EnterEndsWell DEF StartList
<1>2. CASE r.todo # {}
  <2>1. PICK s : s = [r EXCEPT !.phase = "work"] /\ run' = [run EXCEPT ![p] = s]
    BY <1>2 DEF StartList, Becomes
  <2>2. s.job = r.job /\ s.phase = "work" /\ s.todo = r.todo /\ s.at = r.at
    BY <2>1
  <2>3. RunIsFinal(s)'
    BY <2>2 DEF RunIsFinal, ListIsFinal
  <2> QED BY <2>1, <2>3 DEF EndsWell
<1> QED BY <1>1, <1>2

LEMMA DropEndsWell ==
    ASSUME NEW p \in Procs, NEW r, r = run[p], RunIsSound(r), ListIsFinal(r)', DropItem(p)
    PROVE  EndsWell(p)
<1>1. PICK item : item = Item(p)
  OBVIOUS
<1>2. PICK s : s = [r EXCEPT !.todo = r.todo \ {item}, !.tx = None] /\ StartList(p, s)
  BY <1>1 DEF DropItem
<1>3. s = [job |-> r.job, phase |-> r.phase, todo |-> r.todo \ {item}, at |-> r.at,
           lines |-> r.lines, odds |-> r.odds, tx |-> None]
  BY <1>2 DEF RunIsSound
<1>4. ListIsFinal(s)'
  BY <1>3 DEF ListIsFinal
<1>5. s = [job |-> s.job, phase |-> s.phase, todo |-> s.todo, at |-> s.at,
           lines |-> s.lines, odds |-> s.odds, tx |-> s.tx]
  BY <1>3
<1>6. StartList(p, s)
  BY <1>2
<1> QED BY <1>4, <1>5, <1>6, StartEndsWell

LEMMA PrepareEndsWell ==
    ASSUME NEW p \in Procs, NEW r, r = run[p], RunIsSound(r), ListIsFinal(r)',
           NEW tx, TxIsFinal(tx)', Prepare(p, tx)
    PROVE  EndsWell(p)
<1>1. PICK s : s = [r EXCEPT !.phase = "send", !.tx = tx] /\ run' = [run EXCEPT ![p] = s]
  BY DEF Prepare, Becomes
<1>2. s = [job |-> r.job, phase |-> "send", todo |-> r.todo, at |-> r.at,
           lines |-> r.lines, odds |-> r.odds, tx |-> tx]
  BY <1>1 DEF RunIsSound
<1>3. ListIsFinal(s)'
  BY <1>2 DEF ListIsFinal
<1>4. (s.phase = "send" => TxIsFinal(s.tx))'
  BY <1>2 DEF TxIsFinal, IsFinalOf
<1> QED BY <1>1, <1>3, <1>4 DEF EndsWell, RunIsFinal

\* It goes on with the same list, with nothing to send.
LEMMA WorkEndsWell ==
    ASSUME NEW p \in Procs, NEW r, r = run[p], ListIsFinal(r)', NEW s, Becomes(p, s),
           s.job = r.job, s.todo = r.todo, s.at = r.at, s.phase # "send"
    PROVE  EndsWell(p)
<1>1. ListIsFinal(s)'
  BY DEF ListIsFinal
<1> QED BY <1>1 DEF EndsWell, Becomes, RunIsFinal

\* It has read a list.
LEMMA ReadEndsWell ==
    ASSUME NEW p \in Procs, RunIsSound(run[p]), NEW todo,
           StartList(p, [run[p] EXCEPT !.todo = todo]), UNCHANGED <<market, now>>,
           run[p].job # "inplay",
           run[p].job = "settle" => \A m \in todo : MayBeSettled(m)
    PROVE  EndsWell(p)
<1>1. PICK r, s : r = run[p] /\ s = [r EXCEPT !.todo = todo] /\ StartList(p, s)
  OBVIOUS
<1>2. s = [job |-> r.job, phase |-> r.phase, todo |-> todo, at |-> r.at,
           lines |-> r.lines, odds |-> r.odds, tx |-> r.tx]
  BY <1>1 DEF RunIsSound
<1>3. ListIsFinal(s)'
  BY <1>1, <1>2 DEF ListIsFinal, MayBeSettled, AllIsPublished
<1>4. s = [job |-> s.job, phase |-> s.phase, todo |-> s.todo, at |-> s.at,
           lines |-> s.lines, odds |-> s.odds, tx |-> s.tx]
  BY <1>2
<1> QED BY <1>1, <1>3, <1>4, StartEndsWell

\* The list in hand is still late enough after a step.
LEMMA ListInHand ==
    ASSUME FinalInv, Honestly, StaysFinal, NEW p \in Procs, NEW r, r = run[p]
    PROVE  RunIsSound(r) /\ RunIsFinal(r) /\ ListIsFinal(r)'
<1>1. RunIsSound(r) /\ RunIsFinal(r) /\ KeeperInv
  BY DEF FinalInv, KeeperInv, RunsAreSound
<1>2. TermsKept /\ now <= now' /\ now' \in Nat
  BY <1>1, HonestlyKeepsTerms, ConstantTypes DEF StaysFinal, NumberingInv, BookInv, TypeOK
<1> QED BY <1>1, <1>2, ListStaysFinal DEF RunIsFinal, RunIsSound

LEMMA QuietStaysFinal ==
    ASSUME FinalInv, Quiet
    PROVE  Honestly /\ StaysFinal /\ UNCHANGED <<market, now, inflight>>
<1>1. UNCHANGED vars
  BY DEF Quiet
<1> QED BY <1>1, FinalKnows, QuietIsHonest, OtherInstructionsStayFinal DEF Quiet, vars, accounts

LEMMA DropsWell ==
    ASSUME FinalInv, Honestly, StaysFinal, NEW p \in Procs, DropItem(p)
    PROVE  EndsWell(p)
<1>1. PICK r : r = run[p]
  OBVIOUS
<1> QED BY <1>1, ListInHand, DropEndsWell

LEMMA PreparesWell ==
    ASSUME FinalInv, Quiet, NEW p \in Procs, NEW tx, TxIsFinal(tx), Prepare(p, tx)
    PROVE  EndsWell(p)
<1>1. PICK r : r = run[p]
  OBVIOUS
<1>2. Honestly /\ StaysFinal /\ UNCHANGED market
  BY QuietStaysFinal
<1>3. TxIsFinal(tx)'
  BY <1>2 DEF TxIsFinal, IsFinalOf
<1> QED BY <1>1, <1>2, <1>3, ListInHand, PrepareEndsWell

LEMMA CreateEndsWell ==
    ASSUME FinalInv, NEW p \in Procs, Quiet, CreateRead(p) \/ CreateResolve(p)
    PROVE  EndsWell(p)
<1>1. RunIsSound(run[p]) /\ run[p].job = "create" /\ UNCHANGED <<market, now>>
  BY QuietStaysFinal DEF FinalInv, KeeperInv, RunsAreSound, CreateRead, CreateResolve, At
<1>2. CASE CreateRead(p)
  <2>1. ASSUME NEW todo, StartList(p, [run[p] EXCEPT !.todo = todo])
        PROVE  EndsWell(p)
    BY <1>1, <2>1, ReadEndsWell
  <2> QED BY <1>2, <2>1, EnterEndsWell, ThrowEndsWell DEF CreateRead
<1>3. CASE CreateResolve(p)
  <2>1. Item(p) \in Questions
    <3>1. run[p].phase = "work"
      BY <1>3 DEF CreateResolve, At
    <3> QED BY <1>1, <3>1, ItemIsListed DEF RunIsSound, ListIsSound
  <2>2. PICK tx : tx = [op |-> "create", id |-> house.market_count,
                        fixture |-> FixtureAt(Item(p)), params |-> BlueprintAt(Item(p)),
                        kickoff |-> StartOf[FixtureAt(Item(p))]]
    OBVIOUS
  <2>3. TxIsFinal(tx)
    BY <2>1, <2>2, QuestionsAreTyped DEF TxIsFinal
  <2>4. Prepare(p, tx) \/ DropItem(p)
    BY <1>3, <2>2 DEF CreateResolve
  <2> QED BY <2>3, <2>4, PreparesWell, DropsWell, QuietStaysFinal
<1> QED BY <1>2, <1>3

\* The fixtures in play started before they were listed, and a line on one of
\* them closes a while after that.
LEMMA InPlayReadEndsWell ==
    ASSUME FinalInv, NEW p \in Procs, Quiet, InPlayRead(p)
    PROVE  EndsWell(p)
<1>1. RunIsSound(run[p]) /\ run[p].job = "inplay"
  BY DEF FinalInv, KeeperInv, RunsAreSound, InPlayRead, At
<1>2. ASSUME NEW lines, NEW todo, NEW at, todo = {f \in Fixtures : InPlay(f)}, at = now,
             StartList(p, [run[p] EXCEPT !.todo = todo, !.at = at, !.lines = lines])
      PROVE  EndsWell(p)
  <2>1. PICK r, s : /\ r = run[p] /\ s = [r EXCEPT !.todo = todo, !.at = at, !.lines = lines]
                    /\ StartList(p, s)
    BY <1>2
  <2>2. s = [job |-> r.job, phase |-> r.phase, todo |-> todo, at |-> at,
             lines |-> lines, odds |-> r.odds, tx |-> r.tx]
    BY <1>1, <2>1 DEF RunIsSound
  <2>3. \A f \in todo : StartOf[f] <= at
    BY <1>2 DEF InPlay
  <2>4. ListIsFinal(s)'
    BY <1>1, <2>1, <2>2, <2>3 DEF ListIsFinal
  <2>5. s = [job |-> s.job, phase |-> s.phase, todo |-> s.todo, at |-> s.at,
             lines |-> s.lines, odds |-> s.odds, tx |-> s.tx]
    BY <2>2
  <2> QED BY <2>1, <2>4, <2>5, StartEndsWell
<1>3. ASSUME NEW lines,
             StartList(p, [run[p] EXCEPT !.todo = {f \in Fixtures : InPlay(f)}, !.at = now,
                                         !.lines = lines])
      PROVE  EndsWell(p)
  BY <1>2, <1>3
<1> QED BY <1>3, EnterEndsWell, ThrowEndsWell DEF InPlayRead

LEMMA InPlayResolveEndsWell ==
    ASSUME FinalInv, NEW p \in Procs, Quiet, InPlayResolve(p)
    PROVE  EndsWell(p)
<1>1. /\ RunIsSound(run[p]) /\ RunIsFinal(run[p])
      /\ run[p].job = "inplay" /\ run[p].phase = "work" /\ run[p].at \in Nat
  BY DEF FinalInv, KeeperInv, RunsAreSound, InPlayResolve, At, RunIsSound
<1>2. PICK f, at : f = Item(p) /\ at = run[p].at /\ f \in Fixtures /\ f \in run[p].todo
  BY <1>1, ItemIsListed DEF RunIsSound, ListIsSound
<1>3. at \in Nat /\ StartOf[f] \in Nat /\ IN_PLAY_WINDOW \in Nat /\ StartOf[f] <= at
  BY <1>1, <1>2, KeeperAssumption, KeeperConstants DEF RunIsFinal, ListIsFinal
<1>4. at + IN_PLAY_WINDOW >= StartOf[f]
  BY <1>3
<1>5. ASSUME NEW params,
             Prepare(p, [op |-> "create", id |-> house.market_count, fixture |-> Item(p),
                         params |-> params, kickoff |-> run[p].at + IN_PLAY_WINDOW])
      PROVE  EndsWell(p)
  <2>1. PICK tx : /\ tx = [op |-> "create", id |-> house.market_count, fixture |-> f,
                           params |-> params, kickoff |-> at + IN_PLAY_WINDOW]
                  /\ Prepare(p, tx)
    BY <1>2, <1>5
  <2>2. TxIsFinal(tx)
    BY <1>4, <2>1 DEF TxIsFinal
  <2> QED BY <2>1, <2>2, PreparesWell
<1>6. \/ DropItem(p)
      \/ \E params : Prepare(p, [op |-> "create", id |-> house.market_count, fixture |-> Item(p),
                                 params |-> params, kickoff |-> run[p].at + IN_PLAY_WINDOW])
  BY DEF InPlayResolve
<1> QED BY <1>5, <1>6, DropsWell, QuietStaysFinal

\* What waits for a list, a price or a lock proves nothing.
LEMMA OtherJobsEndWell ==
    ASSUME FinalInv, NEW p \in Procs, Quiet,
           \/ LockRead(p) \/ QuoteRead(p) \/ QuoteFetch(p) \/ QuoteResolve(p)
           \/ RigRead(p) \/ RigResolve(p)
    PROVE  EndsWell(p)
<1>1. /\ RunIsSound(run[p]) /\ run[p].job \in {"lock", "quote", "rig"} /\ UNCHANGED <<market, now>>
  BY QuietStaysFinal DEF FinalInv, KeeperInv, RunsAreSound, LockRead, QuoteRead, QuoteFetch,
                         QuoteResolve, RigRead, RigResolve, At
<1>2. CASE LockRead(p) \/ QuoteRead(p) \/ RigRead(p)
  <2>1. ASSUME NEW todo, StartList(p, [run[p] EXCEPT !.todo = todo])
        PROVE  EndsWell(p)
    BY <1>1, <2>1, ReadEndsWell
  <2>2. ReadThrows(p) \/ \E todo : StartList(p, [run[p] EXCEPT !.todo = todo])
    BY <1>2 DEF LockRead, QuoteRead, RigRead
  <2> QED BY <2>1, <2>2, ThrowEndsWell
<1>3. CASE QuoteFetch(p)
  <2>1. PICK r, s, f, answer :
          /\ r = run[p] /\ s = [r EXCEPT !.odds[f] = answer]
          /\ Becomes(p, s) /\ r.phase = "work"
    BY <1>3 DEF QuoteFetch, At
  <2>2. s = [job |-> r.job, phase |-> r.phase, todo |-> r.todo, at |-> r.at,
             lines |-> r.lines, odds |-> [r.odds EXCEPT ![f] = answer], tx |-> r.tx]
    BY <1>1, <2>1 DEF RunIsSound
  <2>3. s.job = r.job /\ s.todo = r.todo /\ s.at = r.at /\ s.phase # "send"
    BY <2>1, <2>2
  <2>4. ListIsFinal(r)'
    BY <2>1, QuietStaysFinal, ListInHand
  <2> QED BY <2>1, <2>3, <2>4, WorkEndsWell
<1>4. ASSUME NEW tx, tx.op = "quote", Prepare(p, tx)
      PROVE  EndsWell(p)
  BY <1>4, PreparesWell DEF TxIsFinal
<1>5. CASE QuoteResolve(p) \/ RigResolve(p)
  <2>1. ASSUME NEW m, NEW odds, NEW r,
               Prepare(p, [op |-> "quote", m |-> m, odds |-> odds, record |-> r])
        PROVE  EndsWell(p)
    <3>1. PICK tx : tx = [op |-> "quote", m |-> m, odds |-> odds, record |-> r] /\ Prepare(p, tx)
      BY <2>1
    <3> QED BY <1>4, <3>1
  <2>2. \/ DropItem(p) \/ Throw(p) \/ ReadThrows(p)
        \/ \E m, odds, r : Prepare(p, [op |-> "quote", m |-> m, odds |-> odds, record |-> r])
    <3>1. CASE QuoteResolve(p)
      BY <3>1 DEF QuoteResolve
    <3>2. CASE RigResolve(p)
      BY <3>2 DEF RigResolve
    <3> QED BY <1>5, <3>1, <3>2
  <2> QED BY <2>1, <2>2, DropsWell, QuietStaysFinal, ThrowEndsWell
<1> QED BY <1>2, <1>3, <1>5

\* The markets on the list are of fixtures that are over.
LEMMA SettleReadEndsWell ==
    ASSUME FeedEndsQuietly, FinalInv, NEW p \in Procs, Quiet, SettleRead(p)
    PROVE  EndsWell(p)
<1>1. RunIsSound(run[p]) /\ run[p].job = "settle" /\ UNCHANGED <<market, now>>
  BY QuietStaysFinal DEF FinalInv, KeeperInv, RunsAreSound, SettleRead, At
<1>2. ASSUME NEW todo, StartList(p, [run[p] EXCEPT !.todo = todo]),
             \A m \in todo : /\ m \in MarketIds /\ market[m].state = "Locked"
                             /\ LooksFinished(market[m].fixture_id)
      PROVE  EndsWell(p)
  <2>1. \A m \in todo : MayBeSettled(m)
    BY <1>2, FinishedIsPublished DEF MayBeSettled
  <2> QED BY <1>1, <1>2, <2>1, ReadEndsWell
<1>3. \/ ReadThrows(p)
      \/ \E todo : /\ StartList(p, [run[p] EXCEPT !.todo = todo])
                   /\ \A m \in todo : /\ m \in MarketIds /\ market[m].state = "Locked"
                                      /\ LooksFinished(market[m].fixture_id)
  <2>1. \/ ReadThrows(p)
        \/ \E todo :
             /\ StartList(p, [run[p] EXCEPT !.todo = todo])
             /\ \/ todo = {m \in MarketIds : /\ market[m].state = "Locked"
                                             /\ LooksFinished(market[m].fixture_id)}
                \/ \E lost \in Fixtures :
                     todo = {m \in MarketIds : /\ market[m].state = "Locked"
                                               /\ market[m].fixture_id # lost
                                               /\ LooksFinished(market[m].fixture_id)}
    BY DEF SettleRead
  <2> QED BY <2>1
<1> QED BY <1>2, <1>3, ThrowEndsWell

\* The proof in hand is of the final score, whichever one could not be fetched.
LEMMA SettleProveEndsWell ==
    ASSUME LastScoreIsConfirmed, FinalInv, NEW p \in Procs, Quiet, SettleProve(p)
    PROVE  EndsWell(p)
<1>1. /\ RunIsSound(run[p]) /\ RunIsFinal(run[p])
      /\ run[p].job = "settle" /\ run[p].phase = "work"
  BY DEF FinalInv, KeeperInv, RunsAreSound, SettleProve, At
<1>2. PICK m : m = Item(p) /\ m \in MarketIds /\ m \in run[p].todo
  BY <1>1, ItemIsListed DEF RunIsSound, ListIsSound
<1>3. PICK f, params : f = market[m].fixture_id /\ params = market[m].params
  OBVIOUS
<1>4. market[m].state # "Vacant" /\ AllIsPublished(f)
  BY <1>1, <1>2, <1>3 DEF RunIsFinal, ListIsFinal
<1>5. f \in Fixtures /\ params \in Predicates
  BY <1>2, <1>3, <1>4, FinalKnows DEF KeeperInv, MarketsAreNamed
<1>6. ASSUME NEW row, IsFinalVerdict(f, params, VerdictOf(StatProof(f, row, params))),
             Prepare(p, [op |-> "verify", m |-> m, proof |-> StatProof(f, row, params)])
      PROVE  EndsWell(p)
  <2>1. PICK proof, tx : /\ proof = StatProof(f, row, params)
                         /\ tx = [op |-> "verify", m |-> m, proof |-> proof]
                         /\ Prepare(p, tx)
    BY <1>6
  <2>2. IsFinalOf(m, VerdictOf(proof))
    BY <1>3, <1>6, <2>1 DEF IsFinalOf
  <2>3. TxIsFinal(tx)
    BY <1>4, <2>1, <2>2 DEF TxIsFinal
  <2> QED BY <2>1, <2>3, PreparesWell
<1>7. ASSUME NEW row \in latestScoreRow({r \in Candidates(f) : ProvesPeriod(r, params)})
      PROVE  IsFinalVerdict(f, params, VerdictOf(StatProof(f, row, params)))
  <2>1. Candidates(f) = Candidates(f) \ {} /\ Proving(f, params) = Proving(f, params) \ {}
    OBVIOUS
  <2>2. row \in latestScoreRow(Proving(f, params) \ {})
    BY <1>4, <1>5, <1>7, <2>1, FoundIsLatest
  <2> QED BY <1>5, <2>1, <2>2, LatestIsFinal
<1>8. ASSUME NEW lost \in Candidates(f),
             NEW row \in latestScoreRow({r \in Candidates(f) \ {lost} : ProvesPeriod(r, params)})
      PROVE  IsFinalVerdict(f, params, VerdictOf(StatProof(f, row, params)))
  <2>1. row \in latestScoreRow(Proving(f, params) \ {lost})
    BY <1>4, <1>5, <1>8, FoundIsLatest
  <2>2. lost \in ScoreRows[f]
    BY <1>8 DEF Candidates, Scores
  <2> QED BY <1>5, <2>1, <2>2, FoundIsFinal
<1>9. \/ DropItem(p) \/ ReadThrows(p)
      \/ \E row \in latestScoreRow({r \in Candidates(f) : ProvesPeriod(r, params)}) :
           Prepare(p, [op |-> "verify", m |-> m, proof |-> StatProof(f, row, params)])
      \/ \E lost \in Candidates(f) :
           \E row \in latestScoreRow({r \in Candidates(f) \ {lost} : ProvesPeriod(r, params)}) :
             Prepare(p, [op |-> "verify", m |-> m, proof |-> StatProof(f, row, params)])
  BY <1>2, <1>3 DEF SettleProve
<1> QED BY <1>6, <1>7, <1>8, <1>9, DropsWell, QuietStaysFinal, ThrowEndsWell

LEMMA TicketsReadEndsWell ==
    ASSUME FinalInv, NEW p \in Procs, Quiet, TicketsRead(p)
    PROVE  EndsWell(p)
<1>1. RunIsSound(run[p])
  BY DEF FinalInv, KeeperInv, RunsAreSound
<1>2. ASSUME NEW lines, Becomes(p, [run[p] EXCEPT !.phase = "pay", !.lines = lines])
      PROVE  EndsWell(p)
  <2>1. PICK r, s : /\ r = run[p] /\ s = [r EXCEPT !.phase = "pay", !.lines = lines]
                    /\ Becomes(p, s)
    BY <1>2
  <2>2. s = [job |-> r.job, phase |-> "pay", todo |-> r.todo, at |-> r.at,
             lines |-> lines, odds |-> r.odds, tx |-> r.tx]
    BY <1>1, <2>1 DEF RunIsSound
  <2>3. s.job = r.job /\ s.todo = r.todo /\ s.at = r.at /\ s.phase # "send"
    BY <2>2
  <2>4. ListIsFinal(r)'
    BY <2>1, QuietStaysFinal, ListInHand
  <2> QED BY <2>1, <2>3, <2>4, WorkEndsWell
<1>3. \/ DropItem(p) \/ ReadThrows(p)
      \/ Becomes(p, [run[p] EXCEPT !.phase = "pay", !.lines = LiveTicketsOf(Item(p))])
  BY DEF TicketsRead
<1> QED BY <1>2, <1>3, DropsWell, QuietStaysFinal, ThrowEndsWell

\* The sends: what is executed, at once or later, was final when it was sent.
LEMMA SentStaysFinal ==
    ASSUME FinalInv, NEW tx, IsSound(tx), TxIsFinal(tx), Sent(tx)
    PROVE  StaysFinal /\ \A late \in inflight' : IsSound(late.tx) /\ TxIsFinal(late.tx)
<1>1. StaysFinal
  BY ExecuteStaysFinal, OtherInstructionsStayFinal DEF Sent
<1>2. \A late \in inflight : IsSound(late.tx) /\ TxIsFinal(late.tx)
  BY DEF FinalInv, KeeperInv, InflightIsSound
<1> QED BY <1>1, <1>2 DEF Sent

\* What a process does in its step: to the chain, to the network, and to itself.
StepsWell(p) ==
    /\ Honestly /\ StaysFinal
    /\ \A late \in inflight' : TxIsFinal(late.tx)
    /\ EndsWell(p)

LEMMA SendEndsWell ==
    ASSUME FinalInv, NEW p \in Procs,
           SendCaught(p) \/ LockSend(p) \/ SettleVerify(p) \/ TicketSend(p) \/ RigSend(p)
    PROVE  StepsWell(p)
<1>1. RunIsSound(run[p]) /\ RunIsFinal(run[p]) /\ KeeperInv
  BY DEF FinalInv, KeeperInv, RunsAreSound
<1>2. Honestly
  BY <1>1, SendCaughtGoes, LockSendGoes, SettleVerifyGoes, TicketSendGoes, RigSendGoes
<1>3. \E tx : IsSound(tx) /\ TxIsFinal(tx) /\ Sent(tx)
  <2>1. CASE SendCaught(p) \/ SettleVerify(p) \/ RigSend(p)
    <3>1. run[p].phase = "send" /\ Sent(run[p].tx)
      BY <2>1 DEF SendCaught, SettleVerify, RigSend, At, Send, Sent, Fault, txVars
    <3>2. PICK tx : tx = run[p].tx
      OBVIOUS
    <3> QED BY <1>1, <3>1, <3>2 DEF RunIsSound, RunIsFinal
  <2>2. CASE LockSend(p)
    <3>1. Item(p) \in MarketIds
      <4>1. run[p].job = "lock" /\ run[p].phase = "work"
        BY <2>2 DEF LockSend, At
      <4> QED BY <1>1, <4>1, ItemIsListed DEF RunIsSound, ListIsSound
    <3>2. PICK tx : tx = [op |-> "lock", m |-> Item(p)] /\ Sent(tx)
      BY <2>2 DEF LockSend, Send, Sent, Fault, txVars
    <3> QED BY <3>1, <3>2 DEF IsSound, TxIsFinal
  <2>3. CASE TicketSend(p)
    <3>1. run[p].phase = "pay" /\ run[p].lines # {} /\ run[p].lines \subseteq TicketIds
      BY <1>1, <2>3 DEF TicketSend, At, RunIsSound
    <3>2. Min(run[p].lines) \in TicketIds
      BY <3>1, MinIsMember, KeeperConstants
    <3>3. PICK tx : tx = [op |-> "settle", t |-> Min(run[p].lines)] /\ Sent(tx)
      BY <2>3 DEF TicketSend, Send, Sent, Fault, txVars
    <3> QED BY <3>2, <3>3 DEF IsSound, TxIsFinal
  <2> QED BY <2>1, <2>2, <2>3
<1>4. StaysFinal /\ \A late \in inflight' : TxIsFinal(late.tx)
  BY <1>3, SentStaysFinal
<1>5. EndsWell(p)
  <2>1. PICK r : r = run[p] /\ ListIsFinal(r)'
    BY <1>2, <1>4, ListInHand
  <2>2. r = [job |-> r.job, phase |-> r.phase, todo |-> r.todo, at |-> r.at,
             lines |-> r.lines, odds |-> r.odds, tx |-> r.tx]
    BY <1>1, <2>1 DEF RunIsSound
  <2>3. ASSUME Becomes(p, [run[p] EXCEPT !.phase = "tickets", !.tx = None])
        PROVE  EndsWell(p)
    <3>1. PICK s : s = [r EXCEPT !.phase = "tickets", !.tx = None] /\ Becomes(p, s)
      BY <2>1, <2>3
    <3>2. s.job = r.job /\ s.todo = r.todo /\ s.at = r.at /\ s.phase # "send"
      BY <2>2, <3>1
    <3> QED BY <2>1, <3>1, <3>2, WorkEndsWell
  <2>4. ASSUME NEW lines, run[p].phase = "pay", Becomes(p, [run[p] EXCEPT !.lines = lines])
        PROVE  EndsWell(p)
    <3>1. PICK s : s = [r EXCEPT !.lines = lines] /\ Becomes(p, s)
      BY <2>1, <2>4
    <3>2. s.job = r.job /\ s.todo = r.todo /\ s.at = r.at /\ s.phase # "send"
      BY <2>1, <2>2, <2>4, <3>1
    <3> QED BY <2>1, <3>1, <3>2, WorkEndsWell
  <2>5. \/ DropItem(p) \/ Throw(p)
        \/ Becomes(p, [run[p] EXCEPT !.phase = "tickets", !.tx = None])
        \/ \E lines : run[p].phase = "pay" /\ Becomes(p, [run[p] EXCEPT !.lines = lines])
    <3>1. CASE SendCaught(p) \/ LockSend(p) \/ SettleVerify(p) \/ RigSend(p)
      BY <3>1 DEF SendCaught, LockSend, SettleVerify, RigSend, Send
    <3>2. CASE TicketSend(p)
      BY <3>2 DEF TicketSend, At, Send
    <3> QED BY <3>1, <3>2
  <2> QED BY <1>2, <1>4, <2>3, <2>4, <2>5, DropsWell, ThrowEndsWell
<1> QED BY <1>2, <1>4, <1>5 DEF StepsWell

LEMMA StepEndsWell ==
    ASSUME FeedEndsQuietly, LastScoreIsConfirmed, FinalInv, NEW p \in Procs, Step(p) \/ Crash(p)
    PROVE  StepsWell(p)
<1>1. KeeperInv
  BY DEF FinalInv
<1>2. ASSUME Quiet, EndsWell(p)
      PROVE  StepsWell(p)
  BY <1>2, QuietStaysFinal DEF FinalInv, StepsWell
<1>3. CASE BeginCycle(p) \/ Crash(p)
  <2>1. Quiet
    BY <1>1, <1>3, BeginGoes, CrashGoes
  <2>2. Becomes(p, Enter("create")) \/ Becomes(p, Enter("sleep"))
    BY <1>3 DEF BeginCycle, Crash
  <2> QED BY <1>2, <2>1, <2>2, EnterEndsWell
<1>4. CASE CreateRead(p) \/ CreateResolve(p) \/ InPlayRead(p) \/ InPlayResolve(p)
  <2>1. Quiet
    BY <1>1, <1>4, CreateReadGoes, CreateResolveGoes, InPlayReadGoes, InPlayResolveGoes
  <2> QED BY <1>2, <1>4, <2>1, CreateEndsWell, InPlayReadEndsWell, InPlayResolveEndsWell
<1>5. CASE \/ LockRead(p) \/ QuoteRead(p) \/ QuoteFetch(p) \/ QuoteResolve(p)
           \/ RigRead(p) \/ RigResolve(p)
  <2>1. Quiet
    BY <1>1, <1>5, LockReadGoes, QuoteReadGoes, QuoteFetchGoes, QuoteResolveGoes, RigReadGoes,
       RigResolveGoes
  <2> QED BY <1>2, <1>5, <2>1, OtherJobsEndWell
<1>6. CASE SettleRead(p) \/ SettleProve(p) \/ TicketsRead(p)
  <2>1. Quiet
    BY <1>1, <1>6, SettleReadGoes, SettleProveGoes, TicketsReadGoes
  <2> QED BY <1>2, <1>6, <2>1, SettleReadEndsWell, SettleProveEndsWell, TicketsReadEndsWell
<1>7. CASE SendCaught(p) \/ LockSend(p) \/ SettleVerify(p) \/ TicketSend(p) \/ RigSend(p)
  BY <1>7, SendEndsWell
<1> QED BY <1>3, <1>4, <1>5, <1>6, <1>7 DEF Step

\* Around the processes nobody else proves a score.
LEMMA OthersStayFinal ==
    ASSUME FinalInv,
           Others \/ ((LandLate \/ ClockTicks) /\ UNCHANGED run) \/ UNCHANGED keeperVars
    PROVE  StaysFinal /\ \A late \in inflight' : TxIsFinal(late.tx)
<1>1. \A late \in inflight : IsSound(late.tx) /\ TxIsFinal(late.tx)
  BY DEF FinalInv, KeeperInv, InflightIsSound
<1>2. CASE Others
  BY <1>1, <1>2, OtherInstructionsStayFinal, ConstantTypes DEF Others, txVars
<1>3. CASE LandLate
  <2>1. PICK late \in inflight : Execute(late.tx) /\ inflight' = inflight \ {late}
    BY <1>3 DEF LandLate
  <2>2. PICK tx : tx = late.tx
    OBVIOUS
  <2> QED BY <1>1, <2>1, <2>2, ExecuteStaysFinal
<1>4. CASE ClockTicks
  BY <1>1, <1>4, OtherInstructionsStayFinal DEF ClockTicks
<1>5. CASE UNCHANGED keeperVars
  BY <1>1, <1>5, OtherInstructionsStayFinal DEF keeperVars, txVars
<1> QED BY <1>2, <1>3, <1>4, <1>5

LEMMA FinalNextKeeps ==
    ASSUME FeedEndsQuietly, LastScoreIsConfirmed
    PROVE  FinalInv /\ [KeeperNext]_keeperVars => FinalInv'
<1> SUFFICES ASSUME FinalInv, [KeeperNext]_keeperVars
             PROVE  FinalInv'
  OBVIOUS
<1>1. KeeperInv /\ KeeperInv'
  BY KeeperNextKeeps DEF FinalInv
<1>2. \/ \E p \in Procs : StepsWell(p)
      \/ /\ Honestly /\ StaysFinal /\ UNCHANGED run
         /\ \A late \in inflight' : TxIsFinal(late.tx)
  BY <1>1, StepEndsWell, OthersAreHonest, OthersStayFinal DEF KeeperNext
<1>3. Honestly /\ StaysFinal /\ \A late \in inflight' : IsSound(late.tx) /\ TxIsFinal(late.tx)
  BY <1>2 DEF StepsWell, Honestly
<1>4. TermsKept /\ now <= now' /\ now' \in Nat
  BY <1>1, <1>3, HonestlyKeepsTerms, ConstantTypes DEF StaysFinal, NumberingInv, BookInv, TypeOK
<1>5. ASSUME NEW late \in inflight'
      PROVE  TxIsFinal(late.tx)'
  BY <1>3, <1>4, TxStaysFinal
<1>6. ASSUME NEW p \in Procs, run'[p] = run[p]
      PROVE  RunIsFinal(run[p])'
  <2>1. PICK r : r = run[p] /\ RunIsSound(r) /\ RunIsFinal(r)
    BY <1>3, ListInHand
  <2>2. RunIsFinal(r)'
    BY <1>4, <2>1, RunStaysFinal
  <2> QED BY <1>6, <2>1, <2>2 DEF RunIsFinal, ListIsFinal, TxIsFinal, IsFinalOf, AllIsPublished
<1>7. ASSUME NEW q \in Procs
      PROVE  RunIsFinal(run[q])'
  <2>1. CASE UNCHANGED run
    BY <1>6, <2>1
  <2>2. ASSUME NEW p \in Procs, StepsWell(p)
        PROVE  RunIsFinal(run[q])'
    <3>1. PICK r : run' = [run EXCEPT ![p] = r] /\ RunIsFinal(r)'
      BY <2>2 DEF StepsWell, EndsWell
    <3>2. run'[p] = r /\ (q # p => run'[q] = run[q])
      BY <1>1, <3>1 DEF KeeperInv
    <3>3. RunIsFinal(run[p])'
      BY <3>1, <3>2 DEF RunIsFinal, ListIsFinal, TxIsFinal, IsFinalOf, AllIsPublished
    <3> QED BY <1>6, <3>2, <3>3
  <2> QED BY <1>2, <2>1, <2>2
<1>8. OutcomesMatch' /\ MarketsCloseInTime' /\ SettlesOnFinalScore'
  BY <1>1, <1>3, ChainStaysFinal
<1> QED BY <1>1, <1>5, <1>7, <1>8 DEF FinalInv

LEMMA FinalInitInv == KeeperInit => FinalInv
<1> SUFFICES ASSUME KeeperInit
             PROVE  FinalInv
  OBVIOUS
<1>1. /\ market = [m \in MarketIds |-> NoMarket] /\ inflight = {}
      /\ outcome = [m \in MarketIds |-> "Unverified"]
  BY DEF KeeperInit, BookWith, TxInit
<1>2. OutcomesMatch /\ MarketsCloseInTime /\ SettlesOnFinalScore
  BY <1>1 DEF OutcomesMatch, MarketsCloseInTime, SettlesOnFinalScore, NoMarket
<1>3. ASSUME NEW p \in Procs
      PROVE  RunIsFinal(run[p])
  <2>1. run = [q \in Procs |-> Enter(IF q \in Loops THEN "sleep" ELSE "start")]
    BY DEF KeeperInit
  <2>2. run[p].phase = "read" /\ run[p].todo = {}
    BY <2>1 DEF Enter
  <2> QED BY <2>2 DEF RunIsFinal, ListIsFinal
<1> QED BY <1>1, <1>2, <1>3, KeeperInitInv DEF FinalInv

\* Where a feed that looks over is over and its last score stands in two rows, the
\* keepers settle every market they prove on it: whatever calls, proofs and answers
\* fail on the way, whatever lands late and however many keepers run
\* (settleFinishedFixtures, verifyAndSettleMarket).  Both hypotheses are needed; the
\* run late_goal breaks the second.
THEOREM SettledOnFinalScores ==
    ASSUME FeedEndsQuietly, LastScoreIsConfirmed
    PROVE  KeeperSpec => []SettlesOnFinalScore
<1>1. FinalInv => SettlesOnFinalScore
  BY DEF FinalInv
<1>2. FinalInv /\ [KeeperNext]_keeperVars => FinalInv'
  BY FinalNextKeeps
<1> QED BY <1>1, <1>2, FinalInitInv, PTL DEF KeeperSpec

-----------------------------------------------------------------------------
(* The program under its keepers.                                          *)

\* The book that the keepers start from.
LEMMA KeeperBook ==
    ASSUME KeeperInit
    PROVE  /\ ProgramInv
           /\ Claims!ClaimInit
<1>1. PICK markets : markets = [m \in MarketIds |-> NoMarket]
  OBVIOUS
<1>2. BookWith(markets, NoTickets, Liquidity)
  BY <1>1 DEF KeeperInit
<1>3. markets \in [MarketIds -> Market] /\ 0 \in 0..NumMarkets /\ Liquidity \in Amount
  BY <1>1, NoAccountTypes, ConstantTypes, KeeperAssumption
<1>4. AreUnsold(markets, 0)
  <2>1. \A m \in MarketIds : m >= 0
    BY BoundsAssumption DEF MarketIds
  <2> QED BY <1>1, <2>1 DEF AreUnsold
<1>5. IsBook(markets, NoTickets, Liquidity)
  BY <1>3, <1>4, UnsoldBook
<1>6. /\ ticket = NoTickets /\ receipt = [t \in TicketIds |-> NoReceipt]
      /\ paid = [t \in TicketIds |-> 0]
  BY <1>2 DEF BookWith
<1> QED BY <1>2, <1>5, <1>6, ProgramAtFirst, NoTicketsNoClaims

\* All that is proved of the program stands under its keepers too, who start from
\* a house already funded: each of their steps is instructions of the program or
\* none, whenever it lands.  Each ticket stays the claim it was sold as.
THEOREM KeepersRunTheProgram ==
    KeeperSpec => []BookIsSound /\ VerdictsAreFinal /\ OutcomesAreFinal /\ ImplementsClaims
<1>1. KeeperInit => ProgramInv /\ Claims!ClaimInit
  BY KeeperBook
<1>2. KeeperInv /\ [KeeperNext]_keeperVars => [Instruction]_vars
  <2> SUFFICES ASSUME KeeperInv, [KeeperNext]_keeperVars
               PROVE  [Instruction]_vars
    OBVIOUS
  <2>1. Honestly
    BY StepGoes, OthersAreHonest DEF KeeperNext
  <2> QED BY <2>1, HonestIsInstruction DEF Honestly
<1>3. ProgramInv /\ [Instruction]_vars =>
        /\ ProgramInv'
        /\ [KeepsVerdicts]_vars /\ [KeepsOutcomes]_vars
        /\ [Claims!ClaimNext]_(Claims!claimVars)
  BY ClientNext
<1>4. ProgramInv => BookIsSound
  BY ProgramIsSound
<1> QED
  BY <1>1, <1>2, <1>3, <1>4, KeeperInvariant, PTL
     DEF KeeperSpec, VerdictsAreFinal, OutcomesAreFinal, ImplementsClaims, Claims!ClaimSpec

=============================================================================
