------------------------------- MODULE Keeper -------------------------------
(***************************************************************************)
(* The keeper (keeper/src/jobs.ts) run against the program: processes that *)
(* loop over the board (`serve`), and one-shot runs (`tick`) an operator   *)
(* starts beside them.  Each job reads the accounts once and then sends    *)
(* one transaction after another, so what it acts on grows stale.          *)
(*                                                                         *)
(* The feed (fixtures, odds, scores) is TxLINE's and appears as what it    *)
(* has published by each time.  Bettors and other crankers act in between. *)
(***************************************************************************)
EXTENDS Transactions, KeeperPricing, Catalog, SequencesExt

CONSTANTS
    Loops, Ticks,     \* keeper processes: `serve` and `tick`
    StartOf,          \* the start of each fixture
    Board,            \* the pre-match catalog, or a part of it
    RigSkip,          \* KEEPER_RIG_SKIP: the markets kept rigged
    RigFactor,        \* DEFAULT_RIG_FACTOR, in percent
    RecordTs,         \* when each odds record was published
    ScoreRows,        \* the score rows of each fixture
    Unmapped,         \* no goals in a score row
    IN_PLAY_WINDOW, IN_PLAY_MAX, FEED_QUIET,
    MAX_SEQ_ATTEMPTS,
    Liquidity,        \* what `fund` put in the vault
    OthersCrank       \* others lock, void and settle too

Procs == Loops \cup Ticks

ASSUME KeeperAssumption ==
    /\ Loops \cap Ticks = {}
    /\ Fixtures \subseteq Nat /\ IsFiniteSet(Fixtures) /\ StartOf \in [Fixtures -> Nat]
    /\ Board \in Seq(Predicates) /\ IsInjective(Board)
    /\ RigSkip \subseteq MarketIds /\ RigFactor \in Nat /\ RigFactor > 100
    /\ \A f \in Fixtures : IsFiniteSet(ScoreRows[f]) /\ \A row \in ScoreRows[f] :
         /\ row.seq \in Nat /\ row.ts \in Nat
         /\ row.goals # Unmapped => inPlayTotalsBlueprint(row.goals) \in Predicates
    /\ {IN_PLAY_WINDOW, IN_PLAY_MAX, FEED_QUIET, MAX_SEQ_ATTEMPTS} \subseteq Nat
    /\ Liquidity \in Amount

VARIABLE run  \* where each process is in its jobs, and what it remembers

keeperVars == <<vars, txVars, run>>

\* The answers of the feed about a fixture in this pass: none yet, or one; a
\* failed call counts as one with no records.
NotFetched == {}

\* A process at the start of a job, having read nothing.
Enter(job) ==
    [job |-> job, phase |-> "read", todo |-> {}, at |-> 0, lines |-> {},
     odds |-> [f \in Fixtures |-> NotFetched], tx |-> None]

KeeperInit ==
    /\ BookWith([m \in MarketIds |-> NoMarket], NoTickets, Liquidity)
    /\ run = [p \in Procs |-> Enter(IF p \in Loops THEN "sleep" ELSE "start")]

-----------------------------------------------------------------------------
(* The order of the jobs: serveBoard, and the default command.             *)

ServeOrder ==
    [create |-> "lock", lock |-> "inplay", inplay |-> "quote", quote |-> "settle",
     settle |-> "rig", rig |-> "sleep"]
TickOrder == [create |-> "lock", lock |-> "quote", quote |-> "exited"]
NextJob(p) == (IF p \in Loops THEN ServeOrder ELSE TickOrder)[run[p].job]

At(p, job, phase) == run[p].job = job /\ run[p].phase = phase
Becomes(p, r) == run' = [run EXCEPT ![p] = r]

\* The job's list as read, or the next job if there is nothing on it.
StartList(p, r) == Becomes(p, IF r.todo = {} THEN Enter(NextJob(p)) ELSE [r EXCEPT !.phase = "work"])

\* The first item of the list, and the rest.
Item(p) == Min(run[p].todo)
DropItem(p) ==
    StartList(p, [run[p] EXCEPT !.todo = @ \ {Item(p)}, !.tx = None])

\* An error nothing in the job catches ends the cycle of a loop; a `tick` dies.
Throw(p) == Becomes(p, Enter(IF p \in Loops THEN "sleep" ELSE "exited"))

\* The process is about to send tx.
Prepare(p, tx) == Becomes(p, [run[p] EXCEPT !.phase = "send", !.tx = tx])

BeginCycle(p) ==
    /\ run[p].job \in {"sleep", "start"}
    /\ Becomes(p, Enter("create"))
    /\ UNCHANGED <<vars, txVars>>

\* A read that is not answered throws, in every job but where noted.
ReadThrows(p) == Unanswered /\ Throw(p)

-----------------------------------------------------------------------------
(* What the feed has published.                                            *)

AllKnown == DOMAIN OddsFeed
OddsUpdates(f) == {r \in AllKnown : OddsFeed[r].fixture_id = f /\ RecordTs[r] <= now}
Scores(f) == {row \in ScoreRows[f] : row.ts <= now}

pickFreshestRecord(records, descriptor) ==
    {r \in records : \A other \in records : RecordTs[other] <= RecordTs[r]}
\* The freshest record of the shape a descriptor names that prices YES.
pickConsensusRecord(records, descriptor) ==
    LET matching == {r \in records :
                       /\ record_matches_expectation(descriptor, OddsFeed[r])
                       /\ descriptor.yes_price_index \in DOMAIN OddsFeed[r].prices
                       /\ OddsFeed[r].prices[descriptor.yes_price_index] > 0}
    IN  {r \in matching : \A other \in matching : RecordTs[other] <= RecordTs[r]}

latestScoreRow(rows) == {row \in rows : \A other \in rows : other.seq <= row.seq}

-----------------------------------------------------------------------------
(* createMarketsForFixtures                                                *)

\* The pre-match questions, in the order they are created.
FixtureAt(i) == SetToSeq(Fixtures)[((i - 1) \div Len(Board)) + 1]
BlueprintAt(i) == Board[((i - 1) % Len(Board)) + 1]
Questions == 1..(Cardinality(Fixtures) * Len(Board))

HasQuotedQuestion(m, f, params) ==
    market[m].quote_posted_ts # 0 /\ market[m].fixture_id = f /\ market[m].params = params
HasQuestion(m, f, params) ==
    market[m].state # "Vacant" /\ market[m].fixture_id = f /\ market[m].params = params

CreateRead(p) ==
    /\ At(p, "create", "read")
    /\ \/ /\ Answered
          /\ StartList(p, [run[p] EXCEPT !.todo =
                {i \in Questions :
                    /\ StartOf[FixtureAt(i)] > now
                    /\ \A m \in MarketIds : ~HasQuestion(m, FixtureAt(i), BlueprintAt(i))}])
          /\ UNCHANGED vars
       \/ Unanswered /\ Becomes(p, Enter(NextJob(p)))  \* the feed
       \/ ReadThrows(p)

\* Anchor reads market_count to name the account, then sends.
CreateResolve(p) ==
    /\ At(p, "create", "work")
    /\ \/ /\ Answered
          /\ Prepare(p, [op |-> "create", id |-> house.market_count,
                         fixture |-> FixtureAt(Item(p)), params |-> BlueprintAt(Item(p)),
                         kickoff |-> StartOf[FixtureAt(Item(p))]])
          /\ UNCHANGED vars
       \/ Unanswered /\ DropItem(p)

\* The sends whose failure is logged, and the next item taken.
SendCaught(p) ==
    /\ run[p].phase = "send"
    /\ run[p].job \in {"create", "inplay", "quote"}
    /\ Send(run[p].tx, DropItem(p), DropItem(p))

-----------------------------------------------------------------------------
(* lockDueMarkets                                                          *)

IsDueUnlessSkipped(m) ==
    market[m].state = "Open" /\ market[m].kickoff_ts <= now /\ m \notin RigSkip
IsDue(m) == market[m].state = "Open" /\ market[m].kickoff_ts <= now

LockRead(p) ==
    /\ At(p, "lock", "read")
    /\ \/ /\ Answered
          /\ StartList(p, [run[p] EXCEPT !.todo = {m \in MarketIds : IsDue(m)}])
          /\ UNCHANGED vars
       \/ ReadThrows(p)

LockSend(p) ==
    /\ At(p, "lock", "work")
    /\ Send([op |-> "lock", m |-> Item(p)], DropItem(p), DropItem(p))

-----------------------------------------------------------------------------
(* maintainInPlayMarkets                                                   *)

InPlay(f) == StartOf[f] <= now /\ now <= StartOf[f] + IN_PLAY_MAX

\* The lines open as read are kept for the whole pass.
InPlayRead(p) ==
    /\ At(p, "inplay", "read")
    /\ \/ /\ Answered
          /\ StartList(p, [run[p] EXCEPT
                !.todo = {f \in Fixtures : InPlay(f)},
                !.at = now,
                !.lines = {[f |-> market[m].fixture_id, params |-> market[m].params] :
                             m \in {n \in MarketIds : market[n].state = "Open"}}])
          /\ UNCHANGED vars
       \/ Unanswered /\ Becomes(p, Enter(NextJob(p)))  \* the feed
       \/ ReadThrows(p)

InPlayResolve(p) ==
    LET f == Item(p)
        line(row) == inPlayTotalsBlueprint(row.goals)
    IN  /\ At(p, "inplay", "work")
        /\ \/ /\ Answered
              /\ UNCHANGED vars
              /\ \/ \E row \in latestScoreRow(Scores(f)) :
                      /\ row.goals # Unmapped
                      /\ [f |-> f, params |-> line(row)] \notin run[p].lines
                      /\ Prepare(p, [op |-> "create", id |-> house.market_count, fixture |-> f,
                                     params |-> line(row), kickoff |-> run[p].at + IN_PLAY_WINDOW])
                 \/ /\ \A row \in latestScoreRow(Scores(f)) :
                         row.goals = Unmapped \/ [f |-> f, params |-> line(row)] \in run[p].lines
                    /\ DropItem(p)
           \/ Unanswered /\ DropItem(p)

-----------------------------------------------------------------------------
(* postQuotes                                                              *)

\* The markets to quote: open when read, and not kept rigged.
QuotedOnce == {m \in MarketIds : /\ market[m].state = "Open" /\ market[m].quote_posted_ts = 0
                                 /\ m \notin RigSkip}
Quoted == {m \in MarketIds : /\ market[m].state = "Open"
                             /\ m \notin RigSkip
                             /\ describeMarketParams(market[m].params) # {}}

QuoteRead(p) ==
    /\ At(p, "quote", "read")
    /\ \/ Answered /\ StartList(p, [run[p] EXCEPT !.todo = Quoted]) /\ UNCHANGED vars
       \/ ReadThrows(p)

\* One call of the feed per fixture: its answer, or its failure, serves every
\* market of the fixture in this pass.
QuoteFetch(p) ==
    LET f == market[Item(p)].fixture_id
    IN  /\ At(p, "quote", "work")
        /\ run[p].odds[f] = NotFetched
        /\ \/ Answered /\ UNCHANGED vars
              /\ Becomes(p, [run[p] EXCEPT !.odds[f] = {OddsUpdates(f)}])
           \/ Unanswered /\ Becomes(p, [run[p] EXCEPT !.odds[f] = {{}}])

\* The pair of odds a quote of the keeper posts.
AsOdds(q) == [s \in Sides |-> IF s = "Yes" THEN q.yes ELSE q.no]

QuoteResolve(p) ==
    LET m == Item(p)
        fetched == run[p].odds[market[m].fixture_id]
        descriptor == CHOOSE d \in describeMarketParams(market[m].params) : TRUE
        records == pickConsensusRecord(UNION fetched, descriptor)
        price(r) == OddsFeed[r].prices[descriptor.yes_price_index]
    IN  /\ At(p, "quote", "work")
        /\ fetched # NotFetched
        /\ \/ \E r \in records : \E q \in houseQuoteFromConsensus(price(r), house.margin_bps) :
                Prepare(p, [op |-> "quote", m |-> m, odds |-> AsOdds(q), record |-> r])
           \/ records = {} /\ DropItem(p)
        /\ UNCHANGED <<vars, txVars>>

-----------------------------------------------------------------------------
(* settleFinishedFixtures and verifyAndSettleMarket                        *)

\* The real kickoff of a fixture: the earliest deadline of its markets.
KickoffOf(f) ==
    Min({market[m].kickoff_ts : m \in {n \in MarketIds :
            market[n].state # "Vacant" /\ market[n].fixture_id = f}})

\* Past full time, and the score feed has been quiet.
LooksOver(f) == now >= KickoffOf(f) + IN_PLAY_MAX
LooksFinished(f) ==
    /\ now >= KickoffOf(f) + IN_PLAY_MAX
    /\ \E row \in latestScoreRow(Scores(f)) : now - row.ts >= FEED_QUIET

SettleRead(p) ==
    /\ At(p, "settle", "read")
    /\ \/ /\ Answered
          /\ StartList(p, [run[p] EXCEPT !.todo =
                {m \in MarketIds : market[m].state = "Locked" /\ LooksFinished(market[m].fixture_id)}])
          /\ UNCHANGED vars
       \/ /\ Unanswered   \* the scores of one fixture
          /\ \E lost \in Fixtures :
               StartList(p, [run[p] EXCEPT !.todo =
                 {m \in MarketIds : /\ market[m].state = "Locked"
                                    /\ market[m].fixture_id # lost
                                    /\ LooksFinished(market[m].fixture_id)}])
       \/ ReadThrows(p)

LatestOnly(f) == latestScoreRow(Scores(f))
\* The rows whose proof is asked for: the latest by seq.
Candidates(f) ==
    {row \in Scores(f) :
        Cardinality({other \in Scores(f) : other.seq > row.seq}) < MAX_SEQ_ATTEMPTS}

\* The proof of a row for a predicate, if its stats are of the period it is about.
ProvesPeriod(row, params) == params.stat_a_period \in DOMAIN row.stats
StatProof(f, row, params) ==
    LET score == row.stats[params.stat_a_period]
    IN  [fixture_id |-> f, params |-> params,
         holds |-> PredicateHolds(params, score.home, score.away)]

\* The walk stops at the first row, from the latest down, whose proof could be
\* fetched and matches the predicate; one fetch may fail.
SettleProve(p) ==
    LET m == Item(p)
        f == market[m].fixture_id
        first(rows) == latestScoreRow({row \in rows : ProvesPeriod(row, market[m].params)})
        found(rows) ==
            \/ \E row \in first(rows) :
                 Prepare(p, [op |-> "verify", m |-> m, proof |-> StatProof(f, row, market[m].params)])
            \/ first(rows) = {} /\ DropItem(p)
    IN  /\ At(p, "settle", "work")
        /\ UNCHANGED vars
        /\ \/ Answered /\ market[m].state = "Locked" /\ found(Candidates(f))
           \/ Answered /\ market[m].state # "Locked" /\ DropItem(p)
           \/ /\ Unanswered
              /\ market[m].state = "Locked"
              /\ \E lost \in Candidates(f) : found(Candidates(f) \ {lost})
           \/ Unanswered /\ DropItem(p)   \* the scores snapshot
           \/ ReadThrows(p)

\* Nothing catches a verify_market that fails: the cycle ends with it.
SettleVerify(p) ==
    /\ At(p, "settle", "send")
    /\ Send(run[p].tx, Becomes(p, [run[p] EXCEPT !.phase = "tickets", !.tx = None]), Throw(p))

WinnersOf(m) == {t \in TicketIds : ticket[t].state = "Live" /\ ticket[t].market = m /\ HasWon(t)}
LiveTicketsOf(m) == {t \in TicketIds : ticket[t].state = "Live" /\ ticket[t].market = m}

\* The market's live tickets, read once.
TicketsRead(p) ==
    /\ At(p, "settle", "tickets")
    /\ \/ /\ Answered
          /\ \/ LiveTicketsOf(Item(p)) = {} /\ DropItem(p)
             \/ /\ LiveTicketsOf(Item(p)) # {}
                /\ Becomes(p, [run[p] EXCEPT !.phase = "pay", !.lines = LiveTicketsOf(Item(p))])
          /\ UNCHANGED vars
       \/ ReadThrows(p)

\* A settle_ticket that fails is logged, and the ticket left behind.
TicketSend(p) ==
    LET t == Min(run[p].lines)
        next == IF run[p].lines = {t} THEN DropItem(p)
                ELSE Becomes(p, [run[p] EXCEPT !.lines = @ \ {t}])
    IN  /\ At(p, "settle", "pay")
        /\ Send([op |-> "settle", t |-> t], next, next)

-----------------------------------------------------------------------------
(* The re-rig of serveBoard: postRiggedQuote for every skipped market.     *)

RigRead(p) ==
    /\ At(p, "rig", "read")
    /\ StartList(p, [run[p] EXCEPT !.todo = RigSkip])
    /\ UNCHANGED <<vars, txVars>>

\* The market is fetched afresh; one that does not exist throws.
RigResolve(p) ==
    LET m == Item(p)
        descriptor == CHOOSE d \in describeMarketParams(market[m].params) : TRUE
        records == pickConsensusRecord(OddsUpdates(market[m].fixture_id), descriptor)
        price(r) == OddsFeed[r].prices[descriptor.yes_price_index]
    IN  /\ At(p, "rig", "work")
        /\ UNCHANGED vars
        /\ \/ Answered /\ market[m].state = "Vacant" /\ Throw(p)
           \/ Answered /\ market[m].state \notin {"Vacant", "Open"} /\ DropItem(p)
           \/ /\ Answered
              /\ market[m].state = "Open"
              /\ \/ \E r \in records :
                      \E q \in riggedQuoteFromConsensus(price(r), house.margin_bps, RigFactor) :
                        Prepare(p, [op |-> "quote", m |-> m, odds |-> AsOdds(q), record |-> r])
                 \/ records = {} /\ DropItem(p)
           \/ Unanswered /\ market[m].state = "Open" /\ DropItem(p)   \* the feed
           \/ ReadThrows(p)

RigSend(p) ==
    /\ At(p, "rig", "send")
    /\ Send(run[p].tx, DropItem(p), Throw(p))

-----------------------------------------------------------------------------
(* Processes, and what goes on around them.                                *)

\* A loop is killed and started again: it remembers nothing.
Crash(p) ==
    /\ p \in Loops /\ run[p].job # "sleep"
    /\ Unanswered
    /\ Becomes(p, Enter("sleep"))

Step(p) ==
    \/ BeginCycle(p)
    \/ CreateRead(p) \/ CreateResolve(p) \/ SendCaught(p)
    \/ LockRead(p) \/ LockSend(p)
    \/ InPlayRead(p) \/ InPlayResolve(p)
    \/ QuoteRead(p) \/ QuoteFetch(p) \/ QuoteResolve(p)
    \/ SettleRead(p) \/ SettleProve(p) \/ SettleVerify(p) \/ TicketsRead(p) \/ TicketSend(p)
    \/ RigRead(p) \/ RigResolve(p) \/ RigSend(p)

\* Bettors bet; where others crank, they lock, void and settle as well.
Others ==
    /\ \/ \E t \in TicketIds, m \in MarketIds, s \in Sides, stake \in Stakes :
            PlaceBet(t, m, s, stake)
       \/ /\ OthersCrank
          /\ \/ \E m \in MarketIds : LockMarket(m) \/ VoidMarket(m, FALSE)
             \/ \E t \in TicketIds : SettleTicket(t)
    /\ UNCHANGED <<txVars, run>>

KeeperNext ==
    \/ \E p \in Procs : Step(p) \/ Crash(p)
    \/ Others
    \/ (LandLate \/ ClockTicks) /\ UNCHANGED run

KeeperSpec == KeeperInit /\ [][KeeperNext]_keeperVars

\* A loop keeps running and time passes; nothing obliges a bettor, another
\* cranker or an operator to act, or a lost transaction to land.
FairKeeper ==
    /\ KeeperSpec
    /\ \A p \in Loops : WF_keeperVars(Step(p))
    /\ WF_keeperVars(ClockTicks /\ UNCHANGED run)

-----------------------------------------------------------------------------
(* Properties.                                                             *)

\* A question is never open to bets in two markets at once: a keeper that runs
\* alone, and whose transactions are executed at once or never, creates no line
\* that is still open, and nothing again that a failure or a crash made it forget.
OpenToBets(m) == market[m].state = "Open" /\ now < market[m].kickoff_ts
OneMarketPerQuestion ==
    \A m, n \in {k \in MarketIds : OpenToBets(k)} :
        /\ market[m].fixture_id = market[n].fixture_id
        /\ market[m].params = market[n].params
        => m = n

\* Every ticket sold on a market the keeper does not rig audits as honest,
\* however old the odds and the list of markets its quote was made from: the
\* record it cites is the market's, and prices what the ticket was sold at.
HonestTicketsPassAudits ==
    \A t \in TicketIds :
        ticket[t].state # "Vacant" /\ ticket[t].market \notin RigSkip =>
            IsAuditable(ticket[t].market, ticket[t].odds_record) /\ TicketIsHonest(t)

\* A market settles on the last score of its period that is ever published, not
\* on one the keeper happened to get a proof of (README.md:83-84).
FinalRow(m) ==
    latestScoreRow({row \in ScoreRows[market[m].fixture_id] : ProvesPeriod(row, market[m].params)})
SettlesOnFinalScore ==
    \A m \in MarketIds :
        outcome[m] # "Unverified" =>
            \A row \in FinalRow(m) :
                (outcome[m] = "Yes") <=> StatProof(market[m].fixture_id, row, market[m].params).holds

\* Two things the keeper's wait rests on, which the code does not check.  A feed
\* that looks over has published every row it ever will,
FeedEndsQuietly ==
    \A f \in Fixtures, t \in Start..MaxTime :
        LET known == {row \in ScoreRows[f] : row.ts <= t}
        IN  /\ t >= StartOf[f] + IN_PLAY_MAX
            /\ \E row \in latestScoreRow(known) : t - row.ts >= FEED_QUIET
            => known = ScoreRows[f]
\* and its last score of a period stands in more than one row: without any one
\* of them, the latest still proves the same.
LastScoreIsConfirmed ==
    \A f \in Fixtures, params \in Predicates : \A lost \in ScoreRows[f] :
        LET proving == {row \in ScoreRows[f] : ProvesPeriod(row, params)}
            score(row) == row.stats[params.stat_a_period]
        IN  \A row \in latestScoreRow(proving \ {lost}), final \in latestScoreRow(proving) :
                score(row) = score(final)

\* A market past its deadline is locked in the end, whatever fails on the way.
LocksWhatIsDue ==
    \A m \in MarketIds :
        market[m].state = "Open" /\ market[m].kickoff_ts <= now ~> market[m].state # "Open"

\* A locked market whose final score has a proof the chain accepts is proven in
\* the end, although a cycle ends at the first verify_market that fails.
IsProvable(m) ==
    \E row \in FinalRow(m) :
        StatProof(market[m].fixture_id, row, market[m].params) \in ScoreProofs
ProvesWhatIsLocked ==
    \A m \in MarketIds :
        market[m].state = "Locked" /\ IsProvable(m) ~> market[m].state \in {"Verified", "Voided"}

\* Every ticket of a market that is not voided is settled in the end, where
\* nothing fails: by the keeper, or by somebody who got in before it.
PaysWhileNothingFails ==
    \A t \in TicketIds :
        ticket[t].state = "Live" ~>
            \/ ticket[t].state # "Live" \/ faults > 0
            \/ market[ticket[t].market].state = "Voided"

\* Every live ticket is settled in the end (jobs.ts:374).
PaysEveryTicket ==
    \A t \in TicketIds : ticket[t].state = "Live" ~> ticket[t].state # "Live"

\* An open market the feed prices does not stay without a fresh quote.
QuotesEveryOpenMarket ==
    \A m \in MarketIds :
        /\ market[m].state = "Open" /\ m \notin RigSkip
        /\ \E d \in describeMarketParams(market[m].params) :
             pickConsensusRecord(OddsUpdates(market[m].fixture_id), d) # {}
        ~> market[m].state # "Open" \/ QuoteIsFresh(m)

=============================================================================
