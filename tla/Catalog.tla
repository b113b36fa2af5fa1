------------------------------- MODULE Catalog -------------------------------
(***************************************************************************)
(* The questions the keeper opens markets for (marketCatalog.ts), as the   *)
(* predicates create_market is called with.                                *)
(***************************************************************************)
EXTENDS OddsMap, Sequences

\* toAnchorMarketParams and normalizeMarketParams rename the variants of op and
\* comparison, one for one; the names here are the program's.
goalsPairParams(op, comparison, threshold, period) ==
    [stat_a_key |-> STAT_KEY_P1_GOALS, stat_a_period |-> period,
     stat_b_key |-> STAT_KEY_P2_GOALS, stat_b_period |-> period,
     has_stat_b |-> TRUE, op |-> op, comparison |-> comparison, threshold |-> threshold]

PREMATCH_CATALOG ==
    <<goalsPairParams("Subtract", "GreaterThan", 0, STAT_PERIOD_TOTAL),
      goalsPairParams("Subtract", "EqualTo", 0, STAT_PERIOD_TOTAL),
      goalsPairParams("Subtract", "LessThan", 0, STAT_PERIOD_TOTAL),
      goalsPairParams("Add", "GreaterThan", 1, STAT_PERIOD_TOTAL),
      goalsPairParams("Add", "GreaterThan", 2, STAT_PERIOD_TOTAL),
      goalsPairParams("Add", "GreaterThan", 0, STAT_PERIOD_FIRST_HALF),
      goalsPairParams("Subtract", "GreaterThan", 1, STAT_PERIOD_TOTAL)>>

\* More goals than now.
inPlayTotalsBlueprint(currentTotalGoals) ==
    goalsPairParams("Add", "GreaterThan", currentTotalGoals, STAT_PERIOD_TOTAL)

=============================================================================
