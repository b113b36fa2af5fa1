---------------------------- MODULE PricesProofs ----------------------------
(***************************************************************************)
(* Proofs about the two computations behind a price: the record that a     *)
(* predicate maps to (OddsMap), for every predicate an account can hold,   *)
(* and the quotes and the floor of a cash-out (HouseQuotes), for every     *)
(* auditable price, margin, stake and odds.                                *)
(***************************************************************************)
EXTENDS MCPrices, BookMathProofs

\* The inputs stay inputs.
InputsInv ==
    /\ params \in MarketParams
    /\ raw \in Raws /\ margin_bps \in Margins /\ stake \in Stakes

LEMMA InputsInit == PricesInit => InputsInv
  BY OddsMapInputsAssumption DEF PricesInit, Init, Inputs, MarketParams, InputsInv

LEMMA InputsNext ==
    ASSUME InputsInv, [NextPrice \/ NextParams]_<<vars, params>>
    PROVE  InputsInv'
<1>1. CASE NextPrice
  BY <1>1 DEF NextPrice, ConsensusMoves, InputsInv
<1>2. CASE NextParams
  <2>1. PICK t \in Thresholds : params' = [params EXCEPT !.threshold = t]
    BY <1>2 DEF NextParams
  <2>2. t \in Int
    BY OddsMapInputsAssumption
  <2>3. params' \in MarketParams
    BY <2>1, <2>2 DEF InputsInv, MarketParams
  <2> QED BY <1>2, <2>3 DEF NextParams, vars, InputsInv
<1>3. CASE UNCHANGED <<vars, params>>
  BY <1>3 DEF vars, InputsInv
<1> QED BY <1>1, <1>2, <1>3

LEMMA InputsAreTyped == PricesSpec => []InputsInv
  BY InputsInit, InputsNext, PTL DEF PricesSpec

-----------------------------------------------------------------------------
(* Predicates and records.                                                 *)

\* What create_market refuses has no descriptor, and a descriptor is the record
\* that the audit expects, for every predicate.
THEOREM CatalogIsTheProgram == PricesSpec => []CatalogAgreesWithProgram
<1>1. InputsInv => CatalogAgreesWithProgram
  BY CatalogAgrees DEF InputsInv, CatalogAgreesWithProgram
<1> QED BY <1>1, InputsAreTyped, PTL

\* The record's YES event is the predicate, for every score: whole goals make
\* "above N" and "at least N + 1" the same.
LEMMA RecordsPriceQuestions ==
    ASSUME NEW p \in MarketParams, IsSupported(p), NEW home \in Nat, NEW away \in Nat
    PROVE  PredicateHolds(p, home, away) <=> PricedEvent(expected_odds_record(p), home, away)
<1>1. p.comparison \in Comparison /\ p.threshold \in Int
  BY DEF MarketParams
<1> DEFINE record == expected_odds_record(p)
<1>2. CASE IsResult(p)
  <2>1. /\ record.super_odds_type = SUPER_ODDS_1X2
        /\ record.yes_price_index = result_price_index[p.comparison]
    BY <1>2, RecordOfFamily DEF OddsRecord
  <2>2. PricedEvent(record, home, away) <=>
          CASE record.yes_price_index = 0 -> home > away
            [] record.yes_price_index = 1 -> home = away
            [] record.yes_price_index = 2 -> home < away
    BY <2>1 DEF PricedEvent, SUPER_ODDS_1X2, SUPER_ODDS_ASIAN_HANDICAP, SUPER_ODDS_OVER_UNDER
  <2> HIDE DEF record
  <2>3. CASE p.comparison = "GreaterThan"
    <3>1. record.yes_price_index = 0
      BY <2>1, <2>3 DEF result_price_index
    <3>2. PricedEvent(record, home, away) <=> home > away
      BY <2>2, <3>1
    <3> QED BY <1>2, <2>3, <3>2 DEF PredicateHolds, IsResult, record
  <2>4. CASE p.comparison = "EqualTo"
    <3>1. record.yes_price_index = 1
      BY <2>1, <2>4 DEF result_price_index
    <3>2. PricedEvent(record, home, away) <=> home = away
      BY <2>2, <3>1
    <3> QED BY <1>2, <2>4, <3>2 DEF PredicateHolds, IsResult, record
  <2>5. CASE p.comparison = "LessThan"
    <3>1. record.yes_price_index = 2
      BY <2>1, <2>5 DEF result_price_index
    <3>2. PricedEvent(record, home, away) <=> home < away
      BY <2>2, <3>1
    <3> QED BY <1>2, <2>5, <3>2 DEF PredicateHolds, IsResult, record
  <2> QED BY <1>1, <2>3, <2>4, <2>5 DEF Comparison
<1>3. CASE IsMargin(p)
  <2>1. /\ record.super_odds_type = SUPER_ODDS_ASIAN_HANDICAP
        /\ record.market_parameters[2] = p.threshold
    BY <1>3, RecordOfFamily DEF OddsRecord, MinusLine
  <2> HIDE DEF record
  <2>2. PricedEvent(record, home, away) <=> home - away >= p.threshold + 1
    BY <2>1 DEF PricedEvent, SUPER_ODDS_1X2, SUPER_ODDS_ASIAN_HANDICAP, SUPER_ODDS_OVER_UNDER
  <2>3. PredicateHolds(p, home, away) <=> home - away > p.threshold
    BY <1>3 DEF PredicateHolds, IsMargin
  <2> QED BY <1>1, <2>2, <2>3 DEF record
<1>4. CASE IsTotals(p)
  <2>1. /\ record.super_odds_type = SUPER_ODDS_OVER_UNDER
        /\ record.market_parameters[2] = p.threshold
    BY <1>4, RecordOfFamily DEF OddsRecord, PlusLine
  <2> HIDE DEF record
  <2>2. PricedEvent(record, home, away) <=> home + away >= p.threshold + 1
    BY <2>1 DEF PricedEvent, SUPER_ODDS_1X2, SUPER_ODDS_ASIAN_HANDICAP, SUPER_ODDS_OVER_UNDER
  <2>3. PredicateHolds(p, home, away) <=> home + away > p.threshold
    BY <1>4 DEF PredicateHolds, IsTotals
  <2> QED BY <1>1, <2>2, <2>3 DEF record
<1> QED BY <1>2, <1>3, <1>4 DEF IsSupported

\* A market settles on the very event that its audited price is a price for,
\* whatever the score.
THEOREM PricesTheQuestion == PricesSpec => []RecordPricesTheQuestion
<1>1. InputsInv => RecordPricesTheQuestion
  BY RecordsPriceQuestions, OddsMapInputsAssumption DEF InputsInv, RecordPricesTheQuestion
<1> QED BY <1>1, InputsAreTyped, PTL

\* Two supported predicates with one record are one predicate.
LEMMA RecordsDetermine ==
    ASSUME NEW p \in MarketParams, IsSupported(p), NEW q \in MarketParams, IsSupported(q),
           expected_odds_record(p) = expected_odds_record(q)
    PROVE  p = q
<1>1. ASSUME NEW x \in MarketParams, IsSupported(x)
      PROVE  /\ expected_odds_record(x).market_period = market_period_for(x.stat_a_period)
             /\ x.stat_a_period \in {0, 1} /\ x.stat_b_period = x.stat_a_period
             /\ x.stat_a_key = 1 /\ x.stat_b_key = 2 /\ x.has_stat_b
             /\ \/ /\ expected_odds_record(x).super_odds_type = SUPER_ODDS_1X2
                   /\ expected_odds_record(x).yes_price_index = result_price_index[x.comparison]
                   /\ x.op = "Subtract" /\ x.threshold = 0
                \/ /\ expected_odds_record(x).super_odds_type = SUPER_ODDS_ASIAN_HANDICAP
                   /\ expected_odds_record(x).market_parameters[2] = x.threshold
                   /\ x.op = "Subtract" /\ x.comparison = "GreaterThan"
                \/ /\ expected_odds_record(x).super_odds_type = SUPER_ODDS_OVER_UNDER
                   /\ expected_odds_record(x).market_parameters[2] = x.threshold
                   /\ x.op = "Add" /\ x.comparison = "GreaterThan"
  <2>1. IsGoalsPair(x) /\ IsQuotedPeriod(x.stat_a_period)
    BY <1>1 DEF IsSupported
  <2>2. /\ x.stat_a_period \in {0, 1} /\ x.stat_b_period = x.stat_a_period
        /\ x.stat_a_key = 1 /\ x.stat_b_key = 2 /\ x.has_stat_b
    BY <2>1 DEF IsGoalsPair, IsQuotedPeriod, STAT_KEY_P1_GOALS, STAT_KEY_P2_GOALS,
         STAT_PERIOD_TOTAL, STAT_PERIOD_FIRST_HALF
  <2>3. CASE IsResult(x)
    BY <1>1, <2>2, <2>3, RecordOfFamily DEF OddsRecord, IsResult
  <2>4. CASE IsMargin(x)
    BY <1>1, <2>2, <2>4, RecordOfFamily DEF OddsRecord, IsMargin, MinusLine
  <2>5. CASE IsTotals(x)
    BY <1>1, <2>2, <2>5, RecordOfFamily DEF OddsRecord, IsTotals, PlusLine
  <2> QED BY <1>1, <2>3, <2>4, <2>5 DEF IsSupported
<1>2. p.stat_a_period = q.stat_a_period
  <2>1. market_period_for(p.stat_a_period) = market_period_for(q.stat_a_period)
    BY <1>1
  <2> QED BY <1>1, <2>1 DEF market_period_for, STAT_PERIOD_FIRST_HALF
<1>3. p.op = q.op /\ p.threshold = q.threshold /\ p.comparison = q.comparison
  <2>1. p.comparison \in Comparison /\ q.comparison \in Comparison
    BY DEF MarketParams
  <2>2. result_price_index[p.comparison] = result_price_index[q.comparison]
          => p.comparison = q.comparison
    BY <2>1 DEF Comparison, result_price_index
  <2> QED BY <1>1, <2>2 DEF SUPER_ODDS_1X2, SUPER_ODDS_ASIAN_HANDICAP, SUPER_ODDS_OVER_UNDER
<1>4. /\ p.stat_a_key = q.stat_a_key /\ p.stat_b_key = q.stat_b_key
      /\ p.stat_b_period = q.stat_b_period /\ p.has_stat_b = q.has_stat_b
  <2>1. p.has_stat_b \in BOOLEAN /\ q.has_stat_b \in BOOLEAN
    BY DEF MarketParams
  <2> QED BY <1>1, <1>2, <2>1
<1> QED BY <1>2, <1>3, <1>4 DEF MarketParams

\* No other question is priced by the same entry of the same record.
THEOREM RecordIsOfOneQuestion == PricesSpec => []RecordDeterminesQuestion
<1>1. Inputs \subseteq MarketParams
  BY OddsMapInputsAssumption DEF Inputs, MarketParams
<1>2. InputsInv => RecordDeterminesQuestion
  BY <1>1, RecordsDetermine DEF InputsInv, RecordDeterminesQuestion, Supported
<1> QED BY <1>2, InputsAreTyped, PTL

-----------------------------------------------------------------------------
(* The floor of a cash-out.                                                *)

\* A proven cash-out violation always has a floor to be repaired to: the audit
\* cannot fail on computing it, nor record a shortfall that is not missing.
THEOREM FloorsArePayable == PricesSpec => []ViolationFloorIsPayable
<1>1. InputsInv => ViolationFloorIsPayable
  <2> SUFFICES ASSUME InputsInv, NEW odds \in ServedOdds, NEW side \in Sides,
                      ~IsHonest(odds, side, raw, margin_bps)
               PROVE  /\ Complementable(house_prob_bps(ConsensusImplied(side, raw), margin_bps))
                      /\ cash_out_value(stake, implied_prob_bps(odds))
                           <= HonestFloor(stake, side, raw, margin_bps)
    BY DEF ViolationFloorIsPayable
  <2>1. odds \in Nat /\ IsOdds(odds)
    BY ServedOddsAssumption
  <2>2. raw \in Nat /\ IsRawPrice(raw)
    BY RawsAssumption DEF InputsInv
  <2>3. margin_bps \in Nat
    <3>1. 1..(BPS_DENOMINATOR - 1) \subseteq Nat
      BY DEF BPS_DENOMINATOR
    <3> QED BY <3>1, MarginsAssumption DEF InputsInv
  <2>4. stake \in Nat
    BY StakesAssumption DEF InputsInv
  <2> QED BY <2>1, <2>2, <2>3, <2>4, FloorIsPayable
<1> QED BY <1>1, InputsAreTyped, PTL

-----------------------------------------------------------------------------
(* The quotes of the keeper.                                               *)

\* What the assumptions say of the inputs.
LEMMA InputTypes ==
    ASSUME InputsInv
    PROVE  /\ raw \in Nat /\ IsRawPrice(raw) /\ stake \in Nat
           /\ margin_bps \in Nat /\ margin_bps > 0 /\ margin_bps <= BPS_DENOMINATOR
<1>1. margin_bps \in 1..(BPS_DENOMINATOR - 1)
  BY MarginsAssumption DEF InputsInv
<1> QED BY <1>1, RawsAssumption, StakesAssumption DEF InputsInv, BPS_DENOMINATOR

\* No quote the keeper computes from a price is ever proven an overcharge
\* against that price, whatever the price, the margin and the rounding of the
\* doubles: the tolerance of the audit is wide enough for all of them.
THEOREM KeeperIsHonest == PricesSpec => []KeeperQuoteIsHonest
<1>1. InputsInv => KeeperQuoteIsHonest
  <2> SUFFICES ASSUME InputsInv, NEW q \in HouseQuotes, NEW side \in Sides
               PROVE  IsHonest(OddsOf(q, side), side, raw, margin_bps)
    BY DEF KeeperQuoteIsHonest
  <2>1. IsHonest(q.yes, "Yes", raw, margin_bps) /\ IsHonest(q.no, "No", raw, margin_bps)
    BY InputTypes, HouseQuotePasses DEF HouseQuotes
  <2> QED BY <2>1 DEF Sides, OddsOf
<1> QED BY <1>1, InputsAreTyped, PTL

\* Probabilities are natural numbers.
LEMMA BoundsAreNatural == \A x \in 0..BPS_DENOMINATOR : x \in Nat
<1>1. \A n \in Nat : 0..n \subseteq Nat
  OBVIOUS
<1>2. BPS_DENOMINATOR \in Nat
  BY DEF BPS_DENOMINATOR
<1> QED BY <1>1, <1>2

\* What the audit lets a NO price imply, and where a rigged one implies more: short
\* of the 0.99 it is capped at, and where the factor outweighs the margin, the
\* tolerance and the floors.
AuditedProb == house_prob_bps(ConsensusImplied("No", raw), margin_bps) + AUDIT_TOLERANCE_BPS
RigShows ==
    /\ AuditedProb < 9900
    /\ 100 * (AuditedProb + 1) <= RigPercent * (ConsensusImplied("No", raw) - 1)

\* There every rigged quote is provably an overcharge, as keeper/src/pricing.ts:36-38
\* has it of them all, whatever the price, the margin and the factor.
THEOREM RiggedQuotesShow == PricesSpec => [](RigShows => RiggedQuoteIsCaught)
<1>1. InputsInv => (RigShows => RiggedQuoteIsCaught)
  <2> SUFFICES ASSUME InputsInv, RigShows, NEW q \in RiggedQuotes
               PROVE  ~IsHonest(q.no, "No", raw, margin_bps)
    BY DEF RiggedQuoteIsCaught
  <2>1. IsOdds(q.no) /\ q.no \in riggedNoOddsBps(raw, RigPercent)
    BY DEF RiggedQuotes, IsPostable, riggedQuoteFromConsensus
  <2>2. ConsensusImplied("No", raw) \in Nat
    <3>1. raw \in Nat /\ IsRawPrice(raw)
      BY InputTypes
    <3>2. ConsensusImplied("No", raw) \in 0..BPS_DENOMINATOR
      BY <3>1, ConsensusImpliedBound
    <3> QED BY <3>2, BoundsAreNatural
  <2>3. PICK a \in Nat : a = AuditedProb
    BY <2>2, InputTypes, HouseProbType DEF AuditedProb, AUDIT_TOLERANCE_BPS
  <2>4. raw \in Nat /\ IsRawPrice(raw) /\ RigPercent \in Nat /\ RigPercent > 0
        /\ a < 9900 /\ 100 * (a + 1) <= RigPercent * (ConsensusImplied("No", raw) - 1)
    BY <2>3, InputTypes, RigPercentAssumption DEF RigShows
  <2>5. PICK no : no = q.no
    OBVIOUS
  <2>6. implied_prob_bps(no) > a
    BY <2>1, <2>4, <2>5, RiggedNoShows
  <2>7. implied_prob_bps(no) \in Nat
    <3>1. no \in Nat
      <4>1. raw > 1000
        BY <2>4 DEF IsRawPrice, IsOdds, OddsOfRawPrice, ODDS_BPS_SCALE, TXLINE_PRICE_DECIMAL_SCALE
      <4> QED BY <2>1, <2>4, <2>5, <4>1, RiggedOddsType
    <3>2. implied_prob_bps(no) \in 0..BPS_DENOMINATOR
      BY <2>1, <2>5, <3>1, ImpliedProbBound
    <3> QED BY <3>2, BoundsAreNatural
  <2> QED BY <2>3, <2>5, <2>6, <2>7
          DEF IsHonest, is_price_within_margin, AuditedProb
<1> QED BY <1>1, InputsAreTyped, PTL

\* Nobody gains by buying a ticket and selling it back at one quote of the
\* keeper, whatever the price, the margin and the stake.
THEOREM NobodyGainsByTrading == PricesSpec => []RoundTripNeverGains
<1>1. InputsInv => RoundTripNeverGains
  <2> SUFFICES ASSUME InputsInv, NEW q \in HouseQuotes, NEW side \in Sides
               PROVE  cash_out_value(potential_payout(stake, OddsOf(q, side)),
                                     implied_prob_bps(OddsOf(q, Opposite(side)))) <= stake
    BY DEF RoundTripNeverGains
  <2>1. /\ cash_out_value(potential_payout(stake, q.yes), implied_prob_bps(q.no)) <= stake
        /\ cash_out_value(potential_payout(stake, q.no), implied_prob_bps(q.yes)) <= stake
    BY InputTypes, RoundTripLoses DEF HouseQuotes
  <2> QED BY <2>1 DEF Sides, OddsOf, Opposite
<1> QED BY <1>1, InputsAreTyped, PTL

=============================================================================
