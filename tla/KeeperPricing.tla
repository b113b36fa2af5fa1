---------------------------- MODULE KeeperPricing ----------------------------
(***************************************************************************)
(* The odds the keeper serves from a raw TxLINE StablePrice price          *)
(* (keeper/src/pricing.ts), computed in doubles.                           *)
(*                                                                         *)
(* A double quotient that is mathematically a whole number may fall just   *)
(* below it, and then Math.floor loses one: the definitions give the set   *)
(* of odds the keeper can compute.  Every other quotient is further from   *)
(* a whole number than the rounding error of a few double operations.      *)
(***************************************************************************)
EXTENDS BookMath

\* a * b / c in lowest intermediate size: the floor, and whether it is exact.
MulDiv(a, b, c) == (a \div c) * b + ((a % c) * b) \div c
IsExact(a, b, c) == ((a % c) * b) % c = 0

FloorOfDouble(quotient, exact) == {quotient} \cup (IF exact THEN {quotient - 1} ELSE {})

\* Math.floor(ODDS_BPS_SCALE / (implied * (1 + marginBps / BPS_DENOMINATOR))), where
\* YES is implied 1000 / raw and NO is implied 1 - 1000 / raw = (raw - 1000) / raw.
houseOddsBpsFromImplied(side, raw_price, marginBps) ==
    LET margined == BPS_DENOMINATOR + marginBps
        fairNo == MulDiv(100000000, raw_price, raw_price - 1000)
    IN  IF side = "Yes"
        THEN FloorOfDouble(MulDiv(100000, raw_price, margined),
                           IsExact(100000, raw_price, margined))
        ELSE FloorOfDouble(fairNo \div margined,
                           /\ IsExact(100000000, raw_price, raw_price - 1000)
                           /\ fairNo % margined = 0)

houseQuoteFromConsensus(raw_price, marginBps) ==
    [yes : houseOddsBpsFromImplied("Yes", raw_price, marginBps),
     no : houseOddsBpsFromImplied("No", raw_price, marginBps)]

\* Math.floor(ODDS_BPS_SCALE / min(noImplied * rigFactor, 0.99)), the factor in percent.
riggedNoOddsBps(raw_price, rigPercent) ==
    LET unmargined == MulDiv(1000000, raw_price, raw_price - 1000)
        overcharged == FloorOfDouble(unmargined \div rigPercent,
                                     /\ IsExact(1000000, raw_price, raw_price - 1000)
                                     /\ unmargined % rigPercent = 0)
        capped == (ODDS_BPS_SCALE * 100) \div 99
    IN  {IF odds >= capped THEN odds ELSE capped : odds \in overcharged}

riggedQuoteFromConsensus(raw_price, marginBps, rigPercent) ==
    [yes : houseOddsBpsFromImplied("Yes", raw_price, marginBps),
     no : riggedNoOddsBps(raw_price, rigPercent)]

\* post_quote takes a quote only if both sides are odds above 1.0.
IsPostable(quote) == IsOdds(quote.yes) /\ IsOdds(quote.no)

=============================================================================
