------------------------------ MODULE MCKeeper ------------------------------
(***************************************************************************)
(* Small instances of Keeper.  Fixture 1 starts at 3 and is past full time *)
(* at 5; its pre-match markets are the home win and the away win.  Or it   *)
(* starts long after the last instant: nobody bets, but it needs quotes.   *)
(***************************************************************************)
EXTENDS Keeper

Devnet ==
    {[margin_bps |-> 200, max_exposure_per_market |-> 60, max_payout_per_ticket |-> 40]}
OneBlueprint == <<PREMATCH_CATALOG[1]>>
TwoBlueprints == <<PREMATCH_CATALOG[1], PREMATCH_CATALOG[3]>>

StartsAtThree == [f \in Fixtures |-> 3]

\* Consensus records of a fixture: one result, then a fresher one, and the
\* totals lines.
Record(f, type, line, price) ==
    [fixture_id |-> f, super_odds_type |-> type, market_parameters |-> line,
     market_period |-> "absent", prices |-> [i \in 0..2 |-> price]]
Feed ==
    [r1 |-> Record(1, SUPER_ODDS_1X2, NoLine, 2000),
     r2 |-> Record(1, SUPER_ODDS_1X2, NoLine, 3000),
     t0 |-> Record(1, SUPER_ODDS_OVER_UNDER, PlusLine(0), 2000)]
FeedTs == [r1 |-> 2, r2 |-> 3, t0 |-> 2]
RecordNames == {"r1", "r2", "t0"}
\* A price so short that a margin of 20 percent takes it to 1.0 or below, as the
\* devnet 2 percent does with 1.02.
HeavyFavourite == [r1 |-> Record(1, SUPER_ODDS_1X2, NoLine, 1150)]
WideMargin ==
    {[margin_bps |-> 2000, max_exposure_per_market |-> 60, max_payout_per_ticket |-> 40]}
\* One record only.
ShortFeedTs == [r1 |-> 2]
OneRecord == {"r1"}

Score(h, a) == [home |-> h, away |-> a]
Row(seq, ts, goals, stats) == [seq |-> seq, ts |-> ts, goals |-> goals, stats |-> stats]
FullMatch(h, a) == [period \in {STAT_PERIOD_TOTAL} |-> Score(h, a)]
OtherEncoding == [period \in {100} |-> Score(1, 0)]

\* A goal after full time, confirmed, and confirmed once more in another
\* encoding of the period.
Rows ==
    [f \in Fixtures |->
       {Row(1, 5, 0, FullMatch(0, 0)), Row(2, 6, 1, FullMatch(1, 0)),
        Row(3, 6, 1, FullMatch(1, 0)), Row(4, 6, 1, OtherEncoding)}]
\* The goal is in the last row that can be proven.
LateGoal ==
    [f \in Fixtures |->
       {Row(1, 5, 0, FullMatch(0, 0)), Row(2, 6, 1, FullMatch(1, 0)), Row(3, 6, 1, OtherEncoding)}]

\* What the score theorem of KeeperProofs asks of a feed is true of the first,
\* and of the second all but the confirmation.
ASSUME FeedsAssumption ==
    /\ FeedEndsQuietly
    /\ ScoreRows = Rows => LastScoreIsConfirmed
    /\ ScoreRows = LateGoal => ~LastScoreIsConfirmed

ProvenParams == {PREMATCH_CATALOG[1], PREMATCH_CATALOG[3]} \cup {inPlayTotalsBlueprint(g) : g \in 0..1}
Proofs == [fixture_id : Fixtures, params : ProvenParams, holds : BOOLEAN]
\* The chain accepts no proof about the home win.
NoProofOfTheFirst == {proof \in Proofs : proof.params # PREMATCH_CATALOG[1]}
StartsAtNinetyNine == [f \in Fixtures |-> 99]

VARIABLE isDaysAhead  \* whether the fixture starts long after the last instant
DaysAhead == INSTANCE Keeper WITH
    StartOf <- StartsAtNinetyNine, MaxTime <- 4, OthersCrank <- FALSE, Stakes <- {}

AnyStep(p) == IF isDaysAhead THEN DaysAhead!Step(p) ELSE Step(p)
AnyClock == (IF isDaysAhead THEN DaysAhead!ClockTicks ELSE ClockTicks) /\ UNCHANGED run
MCInit == KeeperInit /\ isDaysAhead \in BOOLEAN
MCNext ==
    \/ ~isDaysAhead /\ KeeperNext /\ UNCHANGED isDaysAhead
    \/ isDaysAhead /\ DaysAhead!KeeperNext /\ UNCHANGED isDaysAhead
mcVars == <<keeperVars, isDaysAhead>>
MCFair ==
    /\ MCInit /\ [][MCNext]_mcVars
    /\ \A p \in Loops : WF_mcVars(AnyStep(p) /\ UNCHANGED isDaysAhead)
    /\ WF_mcVars(AnyClock /\ UNCHANGED isDaysAhead)

=============================================================================
