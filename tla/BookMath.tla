------------------------------ MODULE BookMath ------------------------------
(***************************************************************************)
(* The pricing and payout arithmetic of the TrueBook program (math.rs) and *)
(* the protocol constants it is used with (constants.rs).  Odds are        *)
(* decimal odds in basis points (20600 is 2.06); probabilities are basis   *)
(* points of one.  Every Rust function below works in u128 and floors, so  *)
(* only its error returns remain: they are stated as separate predicates   *)
(* (IsOdds, Complementable) that the callers use as guards.                *)
(*                                                                         *)
(* Here and in the other modules, an operator written just before another  *)
(* with the same parameters, and used nowhere, is that operator with a     *)
(* mistake in it: README.md says which property each mistake breaks.       *)
(***************************************************************************)
EXTENDS Integers

BPS_DENOMINATOR == 10000
ODDS_BPS_SCALE == 10000
TXLINE_PRICE_DECIMAL_SCALE == 1000
AUDIT_TOLERANCE_BPS == 25
AUDIT_BOUNTY_BPS == 500

\* u64::saturating_sub.
SaturatingSub(a, b) == IF a >= b THEN a - b ELSE 0

\* stake * odds / scale.
potential_payout(stake, odds_bps) == (stake * odds_bps) \div ODDS_BPS_SCALE

\* Odds at or below 1.0 have no implied probability (InvalidOdds).
IsOdds(odds_bps) == odds_bps > ODDS_BPS_SCALE

implied_prob_bps(odds_bps) == (ODDS_BPS_SCALE * BPS_DENOMINATOR) \div odds_bps

\* The consensus probability grown by the house margin.
house_prob_bps(consensus_prob_bps, margin_bps) ==
    (consensus_prob_bps * (BPS_DENOMINATOR + margin_bps)) \div BPS_DENOMINATOR

is_price_within_consensus(served_implied_bps, consensus_implied_bps, margin_bps, tolerance_bps) ==
    served_implied_bps <= consensus_implied_bps + tolerance_bps
is_price_within_margin(served_implied_bps, consensus_implied_bps, margin_bps, tolerance_bps) ==
    served_implied_bps <= house_prob_bps(consensus_implied_bps, margin_bps) + tolerance_bps

\* cash_out_value fails (MathOverflow) when the complement would be negative.
Complementable(opposite_implied_bps) == opposite_implied_bps <= BPS_DENOMINATOR

uncomplemented_cash_out_value(payout, opposite_implied_bps) ==
    (payout * opposite_implied_bps) \div BPS_DENOMINATOR
cash_out_value(payout, opposite_implied_bps) ==
    (payout * (BPS_DENOMINATOR - opposite_implied_bps)) \div BPS_DENOMINATOR

uncapped_bounty_amount(stake, bounty_bps, free_liquidity) ==
    (stake * bounty_bps) \div BPS_DENOMINATOR
bounty_amount(stake, bounty_bps, free_liquidity) ==
    LET raw == (stake * bounty_bps) \div BPS_DENOMINATOR
    IN  IF raw <= free_liquidity THEN raw ELSE free_liquidity

\* The consensus odds of a raw StablePrice price (decimal odds * 1000).
OddsOfRawPrice(raw_price) == raw_price * (ODDS_BPS_SCALE \div TXLINE_PRICE_DECIMAL_SCALE)

\* An audit accepts a raw price only if it stands for odds above 1.0 that fit
\* in a u32.
MAX_RAW_PRICE == 429496729
IsRawPrice(raw_price) ==
    /\ raw_price > 0
    /\ raw_price <= MAX_RAW_PRICE
    /\ IsOdds(OddsOfRawPrice(raw_price))

\* The consensus implied probability of a side, from the raw YES price: NO is
\* the complement of the (floored) YES probability.
ConsensusImplied(side, raw_yes_price) ==
    LET yes == implied_prob_bps(OddsOfRawPrice(raw_yes_price))
    IN  IF side = "Yes" THEN yes ELSE BPS_DENOMINATOR - yes

Opposite(side) == IF side = "Yes" THEN "No" ELSE "Yes"

\* The verdict of audit_ticket and audit_cash_out on served odds for a side.
IsHonest(served_odds_bps, side, raw_yes_price, margin_bps) ==
    is_price_within_margin(implied_prob_bps(served_odds_bps),
                           ConsensusImplied(side, raw_yes_price),
                           margin_bps, AUDIT_TOLERANCE_BPS)

\* The honest floor of a cash-out: its value at consensus plus the margin,
\* with no tolerance.
FloorFromOwnSide(payout, opposite_side, raw_yes_price, margin_bps) ==
    cash_out_value(payout, house_prob_bps(ConsensusImplied(Opposite(opposite_side), raw_yes_price),
                                          margin_bps))
HonestFloor(payout, opposite_side, raw_yes_price, margin_bps) ==
    cash_out_value(payout, house_prob_bps(ConsensusImplied(opposite_side, raw_yes_price),
                                          margin_bps))

=============================================================================
