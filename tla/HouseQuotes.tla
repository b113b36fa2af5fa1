----------------------------- MODULE HouseQuotes -----------------------------
(***************************************************************************)
(* The keeper's quotes (KeeperPricing), computed in doubles, against the   *)
(* program's audit, which floors integers at every step: the two sides of  *)
(* this module's properties round differently.                             *)
(***************************************************************************)
EXTENDS KeeperPricing

-----------------------------------------------------------------------------
CONSTANTS
    Raws,       \* the consensus prices of a YES outcome
    Margins,    \* margins a house may state
    Stakes,     \* stakes bettors place
    ServedOdds, \* odds a dishonest house may serve
    RigPercent  \* the keeper's rig factor, in percent

ASSUME RawsAssumption == \A r \in Raws : r \in Nat /\ r <= 46000 /\ IsRawPrice(r)
ASSUME MarginsAssumption == Margins \subseteq 1..(BPS_DENOMINATOR - 1)
ASSUME StakesAssumption == Stakes \subseteq Nat \ {0}
ASSUME ServedOddsAssumption == \A odds \in ServedOdds : odds \in Nat /\ IsOdds(odds)
ASSUME RigPercentAssumption == RigPercent \in Nat /\ RigPercent > 100

VARIABLES raw, margin_bps, stake
vars == <<raw, margin_bps, stake>>

Init == raw \in Raws /\ margin_bps \in Margins /\ stake \in Stakes

\* The consensus moves; the house's margin and the stake at hand do not.
ConsensusMoves == raw' \in Raws /\ UNCHANGED <<margin_bps, stake>>

Spec == Init /\ [][ConsensusMoves]_vars

-----------------------------------------------------------------------------
Sides == {"Yes", "No"}
OddsOf(quote, side) == IF side = "Yes" THEN quote.yes ELSE quote.no
HouseQuotes == {q \in houseQuoteFromConsensus(raw, margin_bps) : IsPostable(q)}
RiggedQuotes == {q \in riggedQuoteFromConsensus(raw, margin_bps, RigPercent) : IsPostable(q)}

\* A quote the keeper computes from the consensus is never proven an overcharge
\* by the program's audit of that same consensus: the floors of the two sides,
\* in doubles and in integers, stay inside the audit's tolerance.
KeeperQuoteIsHonest ==
    \A q \in HouseQuotes, side \in Sides : IsHonest(OddsOf(q, side), side, raw, margin_bps)

\* Buying a ticket and selling it back at the same quote never gains: the
\* margin is not eaten by the roundings of potential_payout and cash_out_value.
RoundTripNeverGains ==
    \A q \in HouseQuotes, side \in Sides :
        cash_out_value(potential_payout(stake, OddsOf(q, side)),
                       implied_prob_bps(OddsOf(q, Opposite(side)))) <= stake

\* When audit_cash_out finds a violation, whatever odds were served, its honest
\* floor exists (cash_out_value does not fail on it) and is not below what the
\* cash-out paid, so the recorded shortfall is exactly what is missing.
ViolationFloorIsPayable ==
    \A odds \in ServedOdds, side \in Sides :
        ~IsHonest(odds, side, raw, margin_bps) =>
            /\ Complementable(house_prob_bps(ConsensusImplied(side, raw), margin_bps))
            /\ cash_out_value(stake, implied_prob_bps(odds))
                 <= HonestFloor(stake, side, raw, margin_bps)

\* The NO price of the keeper's rigged quote is always provably an overcharge
\* (keeper/src/pricing.ts:36-38).
RiggedQuoteIsCaught ==
    \A q \in RiggedQuotes : ~IsHonest(q.no, "No", raw, margin_bps)

=============================================================================
