------------------------------- MODULE OddsMap -------------------------------
(***************************************************************************)
(* Which TxLINE StablePrice record a market's committed predicate must be  *)
(* priced and audited from: the program's mapping (oddsmap.rs), and the    *)
(* copy of it that the keeper and the app work with (marketCatalog.ts).    *)
(* A record is described by its shape (type, line, period) and the index   *)
(* of the price that is the market's YES outcome.                          *)
(***************************************************************************)
EXTENDS Integers

STAT_KEY_P1_GOALS == 1
STAT_KEY_P2_GOALS == 2
STAT_PERIOD_TOTAL == 0
STAT_PERIOD_FIRST_HALF == 1

SUPER_ODDS_1X2 == "1X2_PARTICIPANT_RESULT"
SUPER_ODDS_OVER_UNDER == "OVERUNDER_PARTICIPANT_GOALS"
SUPER_ODDS_ASIAN_HANDICAP == "ASIANHANDICAP_PARTICIPANT_GOALS"

Comparison == {"GreaterThan", "LessThan", "EqualTo"}
BinaryOp == {"None", "Add", "Subtract"}

\* A predicate, (stat_a [op stat_b]) comparison threshold.
MarketParams ==
    [stat_a_key : Nat, stat_a_period : Int, stat_b_key : Nat, stat_b_period : Int,
     has_stat_b : BOOLEAN, op : BinaryOp, comparison : Comparison, threshold : Int]

\* MarketParameters, "line=-N.5", "line=T.5" or absent; MarketPeriod.
MinusLine(n) == <<"line=-", n>>
PlusLine(n) == <<"line=", n>>
NoLine == <<"absent", 0>>
full_time_for(period) == "absent"
market_period_for(period) == IF period = STAT_PERIOD_FIRST_HALF THEN "half=1" ELSE "absent"

OddsRecord(type, line, period, index) ==
    [super_odds_type |-> type, market_parameters |-> line,
     market_period |-> market_period_for(period), yes_price_index |-> index]

IsGoalsPair(p) ==
    /\ p.has_stat_b
    /\ p.stat_a_key = STAT_KEY_P1_GOALS
    /\ p.stat_b_key = STAT_KEY_P2_GOALS
    /\ p.stat_a_period = p.stat_b_period

IsQuotedPeriod(period) == period \in {STAT_PERIOD_TOTAL, STAT_PERIOD_FIRST_HALF}

-----------------------------------------------------------------------------
(* The program. *)

IsResult(p) == p.op = "Subtract" /\ p.threshold = 0
IsMargin(p) == p.op = "Subtract" /\ p.comparison = "GreaterThan" /\ p.threshold > 0
IsTotalsAboveOne(p) == p.op = "Add" /\ p.comparison = "GreaterThan" /\ p.threshold > 0
IsTotals(p) == p.op = "Add" /\ p.comparison = "GreaterThan" /\ p.threshold >= 0

\* The predicates create_market accepts; any other is UnsupportedMarketPredicate.
IsSupported(p) ==
    /\ IsGoalsPair(p)
    /\ IsQuotedPeriod(p.stat_a_period)
    /\ IsResult(p) \/ IsMargin(p) \/ IsTotals(p)

draw_last_price_index == [GreaterThan |-> 0, LessThan |-> 1, EqualTo |-> 2]
result_price_index == [GreaterThan |-> 0, EqualTo |-> 1, LessThan |-> 2]

expected_odds_record(p) ==
    CASE IsResult(p) -> OddsRecord(SUPER_ODDS_1X2, NoLine, p.stat_a_period,
                                   result_price_index[p.comparison])
      [] IsMargin(p) -> OddsRecord(SUPER_ODDS_ASIAN_HANDICAP, MinusLine(p.threshold),
                                   p.stat_a_period, 0)
      [] IsTotals(p) -> OddsRecord(SUPER_ODDS_OVER_UNDER, PlusLine(p.threshold),
                                   p.stat_a_period, 0)

\* An authenticated record has the shape the predicate commits to.
record_matches_expectation(expected, record) ==
    /\ record.super_odds_type = expected.super_odds_type
    /\ record.market_parameters = expected.market_parameters
    /\ record.market_period = expected.market_period

-----------------------------------------------------------------------------
(* The shared catalog: the descriptors a predicate maps to, none or one.   *)
(* Each clause is one `if (...) return` of describeMarketParams.           *)

describeMarketParams(p) ==
    LET is(op, comparison) == p.op = op /\ p.comparison = comparison
        describe(when, type, line, index) ==
            IF when THEN {OddsRecord(type, line, p.stat_a_period, index)} ELSE {}
    IN  IF ~IsGoalsPair(p) \/ p.stat_a_period \notin {STAT_PERIOD_TOTAL, STAT_PERIOD_FIRST_HALF}
        THEN {}
        ELSE UNION
          {describe(is("Subtract", "GreaterThan") /\ p.threshold = 0, SUPER_ODDS_1X2, NoLine, 0),
           describe(is("Subtract", "EqualTo") /\ p.threshold = 0, SUPER_ODDS_1X2, NoLine, 1),
           describe(is("Subtract", "LessThan") /\ p.threshold = 0, SUPER_ODDS_1X2, NoLine, 2),
           describe(is("Subtract", "GreaterThan") /\ p.threshold > 0,
                    SUPER_ODDS_ASIAN_HANDICAP, MinusLine(p.threshold), 0),
           describe(is("Add", "GreaterThan") /\ p.threshold >= 0,
                    SUPER_ODDS_OVER_UNDER, PlusLine(p.threshold), 0)}

-----------------------------------------------------------------------------
(* What TxLINE means by its predicates and its records (external): the     *)
(* value validate_stat returns for a score, and the bet a price is for.    *)

PredicateHolds(p, home, away) ==
    LET value == IF p.op = "Add" THEN home + away ELSE home - away
    IN  CASE p.comparison = "GreaterThan" -> value > p.threshold
          [] p.comparison = "EqualTo" -> value = p.threshold
          [] p.comparison = "LessThan" -> value < p.threshold

\* The bet at price index i of a record; a line of N.5 is beaten by N + 1.
PricedEvent(record, home, away) ==
    LET n == record.market_parameters[2]
    IN  CASE record.super_odds_type = SUPER_ODDS_1X2 ->
               (CASE record.yes_price_index = 0 -> home > away
                  [] record.yes_price_index = 1 -> home = away
                  [] record.yes_price_index = 2 -> home < away)
          [] record.super_odds_type = SUPER_ODDS_ASIAN_HANDICAP -> home - away >= n + 1
          [] record.super_odds_type = SUPER_ODDS_OVER_UNDER -> home + away >= n + 1

=============================================================================
