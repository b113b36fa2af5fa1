-------------------------------- MODULE MCApp --------------------------------
(***************************************************************************)
(* Small instances of what else the app runs.  A behaviour is of one part: *)
(*   views    ChainViews: the board of a fixture with a market that closes *)
(*            at the kickoff and one that closes later; the tickets of two *)
(*            wallets, one of each; or the resolution of a market, or of   *)
(*            none;                                                        *)
(*   panel    JudgeFunding: on chain or as a demo that fails, for a wallet *)
(*            that has USDT and one that has no account for it, both of    *)
(*            which sign or neither does;                                  *)
(*   limiter  RateLimiter for two clients, with limits in the ratio of the *)
(*            routes' 30 and 10.                                           *)
(* The others are at rest, and the board is never loaded in their place.   *)
(***************************************************************************)
EXTENDS ChainViews, Catalog, RateLimiter, JudgeFunding

Devnet ==
    {[margin_bps |-> 200, max_exposure_per_market |-> 900, max_payout_per_ticket |-> 600]}
HomeWin == PREMATCH_CATALOG[1]
OnlyHomeWin == {HomeWin}
EvenMoney == [s \in Sides |-> 19607]
EvenQuote == {EvenMoney}
NoFeed == [r \in {} |-> {}]
Scores == {[fixture_id |-> 1, params |-> HomeWin, holds |-> b] : b \in BOOLEAN}

ClosesAt(k) ==
    [NoMarket EXCEPT !.state = "Open", !.fixture_id = 1, !.params = HomeWin, !.kickoff_ts = k]
BothSidesSold(m) ==
    [m EXCEPT !.stake = [s \in Sides |-> 100], !.payout = [s \in Sides |-> potential_payout(100, 19607)]]
TwoMarkets ==
    [h \in Hooks |-> [m \in MarketIds |-> CASE m # 0 -> ClosesAt(9)
                                          [] h = "tickets" -> BothSidesSold(ClosesAt(6))
                                          [] OTHER -> ClosesAt(6)]]
OneEach ==
    [t \in TicketIds |->
        [NoTicket EXCEPT !.state = "Live", !.market = 0, !.stake = 100, !.odds_record = "r1",
                         !.side = IF t = 1 THEN "Yes" ELSE "No", !.quoted_odds_bps = 19607,
                         !.potential_payout = potential_payout(100, 19607)]]
Sold == [h \in Hooks |-> IF h = "tickets" THEN OneEach ELSE NoTickets]
Bettors == [t \in TicketIds |-> IF t = 1 THEN "anna" ELSE "bert"]
Pages ==
    [h \in Hooks |-> CASE h = "board" -> {1}
                       [] h = "tickets" -> {"anna", "bert"}
                       [] h = "verify" -> {0, 7}]

Wallet(sol, usdt, signs) == [sol |-> sol, usdt |-> usdt, ata |-> usdt > 0, signs |-> signs]
OneIsNew ==
    {[o \in Owners |-> IF o = "rich" THEN Wallet(1, 5, b) ELSE Wallet(3, 0, b)] : b \in BOOLEAN}
ChainOrDemo ==
    {[dataSource |-> "chain", faucetFails |-> FALSE], [dataSource |-> "demo", faucetFails |-> TRUE]}

OwnKeys == [c \in {"a", "b"} |-> c]
Limits == [route \in {"audit-args", "receipt"} |-> IF route = "receipt" THEN 1 ELSE 3]

ASSUME PartsAssumption ==
    /\ JudgeAssumption /\ LimiterAssumption
    /\ QUOTE_SAFETY_SECONDS \in Nat
    /\ \A h \in Hooks : IsBook(MarketsAtFirst[h], TicketsAtFirst[h], Liquidity)

VARIABLE page
appVars == <<viewsVars, judgeVars, limiterVars, page>>

AppInit ==
    /\ page \in {"views", "panel", "limiter"}
    /\ ViewsInit /\ JudgeInit /\ LimiterInit
    /\ page # "views" => hook = "board"
    /\ page # "panel" => \A o \in Owners : funds[o].signs

\* Bounds: quotes are for the board, which has one load in flight, and time is short
\* where it is not about a match.
WithinBounds ==
    /\ hook = "board" => \A l \in Loads \ {TheFirst} : load'[l] = Idle
    /\ hook # "board" => \A m \in MarketIds : market'[m].quote_posted_ts = 0
    /\ hook = "tickets" => now' <= 6
    /\ hook = "verify" => now' <= 8

AppNext ==
    \/ page = "views" /\ ViewsNext /\ WithinBounds /\ UNCHANGED <<judgeVars, limiterVars, page>>
    \/ page = "panel" /\ JudgeNext /\ UNCHANGED <<viewsVars, limiterVars, page>>
    \/ page = "limiter" /\ LimiterNext /\ UNCHANGED <<viewsVars, judgeVars, page>>

AppSpec == AppInit /\ [][AppNext]_appVars

\* The fairness of each part: FairLoads and FairRequests.
OfViews(A) == page = "views" /\ A /\ UNCHANGED <<judgeVars, limiterVars, page>>
OfJudge(A) == page = "panel" /\ A /\ UNCHANGED <<viewsVars, limiterVars, page>>
FairApp ==
    /\ AppSpec
    /\ \A l \in Loads : WF_appVars(OfViews(FairLoad(l)))
    /\ \A i \in Requests : WF_appVars(OfJudge(Course(i)))

-----------------------------------------------------------------------------
(* The properties of the parts, each of the parts it is about.             *)

\* A market the program would take bets on for as long as the slip's margin is on
\* the board, at the odds they would be sold at.
BoardOffersTheBettable == page = "views" /\ hook = "board" => BettableIsOffered

\* An outcome a page has shown as verified stays on it, and a funded row its time.
WhatIsShownStays == [][VerifiedStep /\ RowStep]_appVars

\* A panel is busy while its request runs, shows what the connected wallet has
\* had, and never says that more was granted than was.
PanelTellsTheTruth == BusyWhileItsRequestRuns /\ BalanceIsOfTheConnected /\ GrantWasGiven

\* Whatever the user waits for ends, but for a board that is loading
\* (connection.ts:5: "No UI may spin forever").
Waits ==
    \/ page = "views" /\ hook # "board" /\ state = Loading /\ key # None
    \/ page = "panel" /\ judge # Nil /\ judge.requestKind # Nil
NothingSpinsForever == Waits ~> ~Waits

-----------------------------------------------------------------------------
(* What the docs and comments say and the parts do not do.                 *)

\* The tickets on show are those of the wallet connected.
TicketsAreOfTheConnected == page = "views" /\ hook = "tickets" => ShowsTheConnected

\* What the board offers can be bet on.
BoardOffersThePlaceable == page = "views" /\ hook = "board" => OfferedIsPlaceable

\* A fixture that is underway stays so on the board.
BoardStaysUnderway == [][page = "views" /\ hook = "board" => UnderwayStep]_appVars

\* A market that is said to settle later may settle.
VerifyAwaitsWhatMaySettle == page = "views" /\ hook = "verify" => AwaitedMaySettle

\* The balance shown of a wallet that spends nothing climbs.
PanelBalanceClimbs == [][page = "panel" => ClimbsStep]_appVars

\* What Retry asks for goes to the wallet that is connected.
PanelFundsTheConnected == [][page = "panel" => FundsStep]_appVars

\* A refused receipt request was one of many.
LimiterRefusesMany == page = "limiter" => RefusedReceiptsWereMany

=============================================================================
