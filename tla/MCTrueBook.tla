----------------------------- MODULE MCTrueBook -----------------------------
(***************************************************************************)
(* Small instances of TrueBook.  The consensus is even money, the margin   *)
(* the devnet 2 percent.  An honest quote then serves 1.9607 on each side; *)
(* the rigged quote overcharges NO at 1.3, a proven violation.  A stake of *)
(* 20 buys a payout of 39 or 26, and the bounty on it is 1.                *)
(***************************************************************************)
EXTENDS TrueBook, TLC

HomeWin ==
    [stat_a_key |-> STAT_KEY_P1_GOALS, stat_a_period |-> STAT_PERIOD_TOTAL,
     stat_b_key |-> STAT_KEY_P2_GOALS, stat_b_period |-> STAT_PERIOD_TOTAL,
     has_stat_b |-> TRUE, op |-> "Subtract", comparison |-> "GreaterThan", threshold |-> 0]
OverTwo == [HomeWin EXCEPT !.op = "Add", !.threshold = 2]

OneHouse ==
    {[margin_bps |-> 200, max_exposure_per_market |-> 60, max_payout_per_ticket |-> 40]}

OnePredicate == {HomeWin}

Quote(yes, no) == ("Yes" :> yes) @@ ("No" :> no)
HonestAndRigged == {Quote(19607, 19607), Quote(19607, 13000)}

\* A record of fixture 1 at even money, in two shapes.
EvenMoney(type, line) ==
    [fixture_id |-> 1, super_odds_type |-> type, market_parameters |-> line,
     market_period |-> "absent", prices |-> [i \in 0..2 |-> 2000]]
ResultRecord == EvenMoney(SUPER_ODDS_1X2, NoLine)
TotalsRecord == EvenMoney(SUPER_ODDS_OVER_UNDER, PlusLine(2))

OneRecordFeed == "result" :> ResultRecord
TotalsFeed == "totals" :> TotalsRecord

\* The home side is ahead in one anchored score and not in another.
BothScores ==
    {[fixture_id |-> 1, params |-> HomeWin, holds |-> b] : b \in BOOLEAN}

\* Two markets: no home win in the end, and more than two goals.
TwoPredicates == {HomeWin, OverTwo}
FinalScores ==
    {[fixture_id |-> 1, params |-> HomeWin, holds |-> FALSE],
     [fixture_id |-> 1, params |-> OverTwo, holds |-> TRUE]}
OnlyRigged == {Quote(19607, 13000)}

=============================================================================
