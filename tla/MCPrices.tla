------------------------------ MODULE MCPrices ------------------------------
(***************************************************************************)
(* The two pure computations behind a price, over small but dense sets of  *)
(* inputs.  HouseQuotes: consensus prices from the shortest odds the       *)
(* keeper can quote to the longest, and margins from one basis point up.   *)
(* OddsMap: every combination of the stat keys, periods, operators,        *)
(* comparisons and thresholds near the mapping's boundaries.               *)
(*                                                                         *)
(* A state is the price of one question, or one question on its way to     *)
(* create_market; a step is the next one.                                  *)
(***************************************************************************)
EXTENDS HouseQuotes, OddsMap

CONSTANTS StatKeys, Periods, Thresholds, Goals
ASSUME OddsMapInputsAssumption ==
    StatKeys \subseteq Nat /\ Periods \subseteq Int /\ Thresholds \subseteq Int /\ Goals \subseteq Nat

VARIABLE params

\* Decimal odds 1.06 to 45: every price near evens, then ever sparser ones.
MCRaws == {1060 + 7 * i : i \in 0..59} \cup (1900..2100) \cup {2040 + 997 * i : i \in 0..43}
MCMargins == {1, 100, 200, 2000}
DevnetMargin == {200}
MCStakes == {1, 20, 997}
MCServedOdds == {10001, 10200, 13000, 19607, 20000, 60000, 1000000}

Inputs == [stat_a_key : StatKeys, stat_a_period : Periods, stat_b_key : StatKeys,
           stat_b_period : Periods, has_stat_b : BOOLEAN, op : BinaryOp,
           comparison : Comparison, threshold : Thresholds]
HomeWin ==
    [stat_a_key |-> STAT_KEY_P1_GOALS, stat_a_period |-> STAT_PERIOD_TOTAL,
     stat_b_key |-> STAT_KEY_P2_GOALS, stat_b_period |-> STAT_PERIOD_TOTAL,
     has_stat_b |-> TRUE, op |-> "Subtract", comparison |-> "GreaterThan", threshold |-> 0]
Evens == 2000

PricesInit ==
    /\ Init /\ params \in Inputs
    /\ params = HomeWin \/ (raw = Evens /\ margin_bps \in DevnetMargin /\ stake = 1)
NextPrice == params = HomeWin /\ ConsensusMoves /\ UNCHANGED params
NextParams ==
    /\ raw = Evens /\ margin_bps \in DevnetMargin /\ stake = 1
    /\ params' \in {[params EXCEPT !.threshold = t] : t \in Thresholds}
    /\ UNCHANGED vars
PricesSpec == PricesInit /\ [][NextPrice \/ NextParams]_<<vars, params>>

MCThresholds == -2..3

Supported == {p \in Inputs : IsSupported(p)}

\* The program and the catalog agree on every predicate: what create_market
\* refuses has no descriptor, and a descriptor is the record the audit expects.
CatalogAgreesWithProgram ==
    describeMarketParams(params) =
        IF IsSupported(params) THEN {expected_odds_record(params)} ELSE {}

\* The price a market is audited against is a price for the very question the
\* market settles on, whatever the score: the record's YES event is the
\* predicate.
RecordPricesTheQuestion ==
    IsSupported(params) =>
        \A home, away \in Goals :
            PredicateHolds(params, home, away)
                <=> PricedEvent(expected_odds_record(params), home, away)

\* No other question is priced by the same entry of the same record, so a quote
\* cannot be taken from one question and audited against another
\* (docs/TECHNICAL_OVERVIEW.md:22-27).
RecordDeterminesQuestion ==
    IsSupported(params) =>
        \A other \in Supported :
            expected_odds_record(other) = expected_odds_record(params) => other = params

=============================================================================
