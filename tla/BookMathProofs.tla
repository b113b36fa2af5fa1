--------------------------- MODULE BookMathProofs ---------------------------
(***************************************************************************)
(* What the other proofs need of arithmetic: bounds on the program's       *)
(* (math.rs), for every stake, payout, price and margin; the odds the      *)
(* keeper computes (KeeperPricing) against the program's audit of them;    *)
(* the records predicates map to; and the laws of Total.                   *)
(***************************************************************************)
EXTENDS KeeperPricing, OddsMap, Totals, WellFoundedInduction, TLAPS

\* Odds above 1.0 never promise less than the stake.
LEMMA PayoutAtLeastStake ==
    ASSUME NEW stake \in Nat, NEW odds_bps \in Nat, IsOdds(odds_bps)
    PROVE  /\ potential_payout(stake, odds_bps) \in Nat
           /\ stake <= potential_payout(stake, odds_bps)
<1>1. PICK d \in Nat : odds_bps = 10000 + d
  BY DEF IsOdds, ODDS_BPS_SCALE
<1>2. stake * odds_bps = stake * 10000 + stake * d /\ stake * d \in Nat
  BY <1>1
<1>3. /\ (stake * odds_bps) \div 10000 \in Nat
      /\ stake <= (stake * odds_bps) \div 10000
  BY <1>2
<1> QED BY <1>3 DEF potential_payout, ODDS_BPS_SCALE

\* Odds above 1.0 imply a probability of at most one.
LEMMA ImpliedProbBound ==
    ASSUME NEW odds_bps \in Nat, IsOdds(odds_bps)
    PROVE  implied_prob_bps(odds_bps) \in 0..BPS_DENOMINATOR
<1>1. PICK q \in Int, rest \in Nat :
        q = 100000000 \div odds_bps /\ 100000000 = q * odds_bps + rest /\ rest < odds_bps
  BY DEF IsOdds, ODDS_BPS_SCALE
<1>2. q >= 0
  BY <1>1 DEF IsOdds, ODDS_BPS_SCALE
<1>3. q <= 10000
  BY <1>1 DEF IsOdds, ODDS_BPS_SCALE
<1>4. implied_prob_bps(odds_bps) = q
  BY <1>1 DEF implied_prob_bps, ODDS_BPS_SCALE, BPS_DENOMINATOR
<1> QED BY <1>2, <1>3, <1>4 DEF BPS_DENOMINATOR

\* Dividing what is at most n scaled gives at most n.
LEMMA DivideBack ==
    ASSUME NEW n \in Nat, NEW x \in Nat, x <= n * 10000
    PROVE  x \div 10000 \in 0..n
  OBVIOUS

\* A cash-out is worth at most the payout given up.
LEMMA CashOutAtMostPayout ==
    ASSUME NEW payout \in Nat, NEW prob \in 0..BPS_DENOMINATOR
    PROVE  cash_out_value(payout, prob) \in 0..payout
<1>1. PICK d \in 0..10000 : d = 10000 - prob
  BY DEF BPS_DENOMINATOR
<1>2. payout * d \in Nat /\ payout * d <= payout * 10000
  BY <1>1
<1>3. PICK x \in Nat : x = payout * d /\ x <= payout * 10000
  BY <1>2
<1>4. x \div 10000 \in 0..payout
  <2>1. x <= payout * 10000
    BY <1>3
  <2> QED BY <2>1, DivideBack
<1>5. (payout * d) \div 10000 \in 0..payout
  BY <1>3, <1>4
<1> QED BY <1>1, <1>5 DEF cash_out_value, BPS_DENOMINATOR

\* A bounty never exceeds the free liquidity it is paid from.
LEMMA BountyAtMostFree ==
    ASSUME NEW stake \in Nat, NEW free \in Nat
    PROVE  bounty_amount(stake, AUDIT_BOUNTY_BPS, free) \in 0..free
  BY DEF bounty_amount, AUDIT_BOUNTY_BPS, BPS_DENOMINATOR

\* The consensus probability of either side, from an auditable price.
LEMMA ConsensusImpliedBound ==
    ASSUME NEW side, NEW raw \in Nat, IsRawPrice(raw)
    PROVE  ConsensusImplied(side, raw) \in 0..BPS_DENOMINATOR
<1>1. OddsOfRawPrice(raw) \in Nat /\ IsOdds(OddsOfRawPrice(raw))
  BY DEF IsRawPrice, OddsOfRawPrice, ODDS_BPS_SCALE, TXLINE_PRICE_DECIMAL_SCALE
<1>2. implied_prob_bps(OddsOfRawPrice(raw)) \in 0..BPS_DENOMINATOR
  BY <1>1, ImpliedProbBound
<1>3. PICK scale \in Nat : scale = BPS_DENOMINATOR
  BY DEF BPS_DENOMINATOR
<1>4. PICK yes \in 0..scale : yes = implied_prob_bps(OddsOfRawPrice(raw))
  BY <1>2, <1>3
<1>5. ConsensusImplied(side, raw) = IF side = "Yes" THEN yes ELSE scale - yes
  BY <1>3, <1>4 DEF ConsensusImplied
<1>6. scale - yes \in 0..scale
  BY <1>3, <1>4
<1>7. ConsensusImplied(side, raw) \in 0..scale
  <2>1. CASE side = "Yes"
    BY <1>5, <2>1
  <2>2. CASE side # "Yes"
    BY <1>5, <1>6, <2>2
  <2> QED BY <2>1, <2>2
<1> QED BY <1>3, <1>7

\* The margined probability is a natural.
LEMMA HouseProbType ==
    ASSUME NEW prob \in Nat, NEW margin_bps \in Nat
    PROVE  house_prob_bps(prob, margin_bps) \in Nat
<1>1. prob * (10000 + margin_bps) \in Nat
  OBVIOUS
<1>2. \A x \in Nat : x \div 10000 \in Nat
  OBVIOUS
<1> QED BY <1>1, <1>2 DEF house_prob_bps, BPS_DENOMINATOR

\* When the honest floor of a cash-out exists it is at most the payout given up.
LEMMA FloorAtMostPayout ==
    ASSUME NEW payout \in Nat, NEW side, NEW raw \in Nat, IsRawPrice(raw),
           NEW margin_bps \in Nat,
           Complementable(house_prob_bps(ConsensusImplied(side, raw), margin_bps))
    PROVE  HonestFloor(payout, side, raw, margin_bps) \in 0..payout
<1> DEFINE prob == house_prob_bps(ConsensusImplied(side, raw), margin_bps)
<1>1. ConsensusImplied(side, raw) \in Nat
  <2>1. ConsensusImplied(side, raw) \in 0..BPS_DENOMINATOR
    BY ConsensusImpliedBound
  <2>2. 0..BPS_DENOMINATOR \subseteq Nat
    BY DEF BPS_DENOMINATOR
  <2> QED BY <2>1, <2>2
<1>2. prob \in Nat
  BY <1>1, HouseProbType
<1>3. Complementable(prob)
  OBVIOUS
<1> HIDE DEF prob
<1>4. prob \in 0..BPS_DENOMINATOR
  BY <1>2, <1>3 DEF Complementable, BPS_DENOMINATOR
<1> QED BY <1>4, CashOutAtMostPayout DEF HonestFloor, prob

\* A cash-out is worth less the likelier the other side.
LEMMA CashOutDecreases ==
    ASSUME NEW payout \in Nat, NEW low \in Nat, NEW high \in Nat,
           low <= high, high <= BPS_DENOMINATOR
    PROVE  cash_out_value(payout, high) <= cash_out_value(payout, low)
<1>1. high <= 10000
  BY DEF BPS_DENOMINATOR
<1>2. PICK h \in 0..10000 : h = 10000 - high
  BY <1>1
<1>3. PICK d \in Nat : d = high - low
  OBVIOUS
<1>4. h + d = 10000 - low
  BY <1>2, <1>3
<1>5. payout * (h + d) = payout * h + payout * d /\ payout * h \in Nat /\ payout * d \in Nat
  BY <1>2
<1>6. \A x, y \in Nat : x \div 10000 <= (x + y) \div 10000
  OBVIOUS
<1>7. (payout * h) \div 10000 <= (payout * (h + d)) \div 10000
  <2>1. PICK x \in Nat, y \in Nat : x = payout * h /\ y = payout * d
    BY <1>5
  <2>2. payout * (h + d) = x + y
    BY <1>5, <2>1
  <2> QED BY <1>6, <2>1, <2>2
<1>8. /\ cash_out_value(payout, high) = (payout * h) \div 10000
      /\ cash_out_value(payout, low) = (payout * (h + d)) \div 10000
  BY <1>2, <1>4 DEF cash_out_value, BPS_DENOMINATOR
<1> QED BY <1>7, <1>8

\* When audit_cash_out finds a violation its honest floor exists and is not
\* below what was paid, for all odds served, all auditable prices and margins.
LEMMA FloorIsPayable ==
    ASSUME NEW odds \in Nat, IsOdds(odds), NEW side, NEW price \in Nat, IsRawPrice(price),
           NEW margin \in Nat, NEW payout \in Nat, ~IsHonest(odds, side, price, margin)
    PROVE  /\ Complementable(house_prob_bps(ConsensusImplied(side, price), margin))
           /\ cash_out_value(payout, implied_prob_bps(odds))
                <= HonestFloor(payout, side, price, margin)
<1> DEFINE prob == house_prob_bps(ConsensusImplied(side, price), margin)
           served == implied_prob_bps(odds)
<1>1. served \in 0..BPS_DENOMINATOR
  BY ImpliedProbBound
<1>2. prob \in Nat
  <2>1. ConsensusImplied(side, price) \in Nat
    <3>1. ConsensusImplied(side, price) \in 0..BPS_DENOMINATOR
      BY ConsensusImpliedBound
    <3>2. 0..BPS_DENOMINATOR \subseteq Nat
      BY DEF BPS_DENOMINATOR
    <3> QED BY <3>1, <3>2
  <2> QED BY <2>1, HouseProbType
<1>3. ~(served <= prob + AUDIT_TOLERANCE_BPS)
  BY DEF IsHonest, is_price_within_margin
<1> HIDE DEF prob, served
<1>4. served \in Nat /\ served <= BPS_DENOMINATOR
  BY <1>1 DEF BPS_DENOMINATOR
<1>5. prob <= served
  BY <1>2, <1>3, <1>4 DEF AUDIT_TOLERANCE_BPS
<1>6. prob <= BPS_DENOMINATOR
  BY <1>2, <1>4, <1>5 DEF BPS_DENOMINATOR
<1>7. cash_out_value(payout, served) <= cash_out_value(payout, prob)
  BY <1>2, <1>4, <1>5, CashOutDecreases
<1> QED BY <1>6, <1>7 DEF Complementable, HonestFloor, prob, served

-----------------------------------------------------------------------------
(* The odds the keeper computes, for every price and every margin.         *)

\* Integer division, by its quotient and its remainder.
LEMMA Quotient ==
    ASSUME NEW x \in Nat, NEW y \in Nat, y > 0
    PROVE  /\ x \div y \in Nat /\ x % y \in 0..(y - 1)
           /\ x = (x \div y) * y + (x % y)
           /\ (x \div y) * y <= x /\ x < (x \div y + 1) * y
  OBVIOUS

LEMMA QuotientIs ==
    ASSUME NEW x \in Nat, NEW y \in Nat, y > 0, NEW q \in Nat, NEW r \in Nat,
           r < y, x = q * y + r
    PROVE  x \div y = q /\ x % y = r
  OBVIOUS

\* Products grow with their factors.
LEMMA Grows ==
    ASSUME NEW a \in Nat, NEW b \in Nat, NEW c \in Nat, a <= b
    PROVE  a * c <= b * c /\ (a < b /\ c > 0 => a * c < b * c)
<1>1. PICK d \in Nat : b = a + d
  OBVIOUS
<1>2. b * c = a * c + d * c /\ d * c \in Nat /\ a * c \in Nat
  BY <1>1
<1>3. d > 0 /\ c > 0 => d * c > 0
  OBVIOUS
<1> QED BY <1>1, <1>2, <1>3

\* MulDiv is the floor of the whole product, and IsExact that it loses nothing.
LEMMA MulDivIs ==
    ASSUME NEW a \in Nat, NEW b \in Nat, NEW c \in Nat, c > 0
    PROVE  /\ MulDiv(a, b, c) = (a * b) \div c
           /\ IsExact(a, b, c) <=> (a * b) % c = 0
<1>1. PICK q \in Nat, r \in Nat : q = a \div c /\ r = a % c /\ a = q * c + r
  BY Quotient
<1>2. r * b \in Nat
  OBVIOUS
<1>3. PICK s \in Nat, t \in Nat :
         s = (r * b) \div c /\ t = (r * b) % c /\ r * b = s * c + t /\ t < c
  BY <1>2, Quotient
<1>4. a * b = (q * b + s) * c + t
  <2>1. a * b = q * c * b + r * b
    BY <1>1
  <2>2. q * c * b = (q * b) * c
    OBVIOUS
  <2>3. (q * b + s) * c = (q * b) * c + s * c
    OBVIOUS
  <2> QED BY <2>1, <2>2, <2>3, <1>3
<1>5. a * b \in Nat /\ q * b + s \in Nat
  OBVIOUS
<1>6. (a * b) \div c = q * b + s /\ (a * b) % c = t
  BY <1>3, <1>4, <1>5, QuotientIs
<1> QED BY <1>1, <1>3, <1>6 DEF MulDiv, IsExact

\* A quotient computed in doubles, as the keeper computes its odds.
LEMMA FloorsOfDouble ==
    ASSUME NEW a \in Nat, NEW b \in Nat, NEW c \in Nat, c > 0,
           NEW odds,
           \/ odds = MulDiv(a, b, c)
           \/ odds = MulDiv(a, b, c) - 1 /\ IsExact(a, b, c)
    PROVE  odds \in Int /\ odds * c <= a * b /\ a * b <= (odds + 1) * c
<1>1. PICK x \in Nat : x = a * b
  OBVIOUS
<1>2. PICK q \in Nat, r \in Nat : q = x \div c /\ r = x % c /\ x = q * c + r /\ r < c
  BY <1>1, Quotient
<1>3. odds = q \/ (odds = q - 1 /\ r = 0)
  <2>1. MulDiv(a, b, c) = x \div c /\ (IsExact(a, b, c) <=> x % c = 0)
    BY <1>1, MulDivIs
  <2> QED BY <1>2, <2>1
<1>4. CASE odds = q
  <2>1. (odds + 1) * c = q * c + c /\ q * c \in Nat
    BY <1>2, <1>4
  <2> QED BY <1>1, <1>2, <1>4, <2>1
<1>5. CASE odds = q - 1 /\ r = 0
  <2>1. (odds + 1) * c = q * c /\ odds * c = q * c - c /\ odds \in Int /\ q * c \in Nat
    BY <1>2, <1>5
  <2> QED BY <1>1, <1>2, <1>5, <2>1
<1> QED BY <1>3, <1>4, <1>5

\* The same of a quotient that is divided once more.
LEMMA FloorsOfDoubleTwice ==
    ASSUME NEW a \in Nat, NEW b \in Nat, NEW c \in Nat, c > 0, NEW e \in Nat, e > 0,
           NEW odds, IsOdds(odds),
           \/ odds = MulDiv(a, b, c) \div e
           \/ /\ odds = MulDiv(a, b, c) \div e - 1
              /\ IsExact(a, b, c) /\ MulDiv(a, b, c) % e = 0
    PROVE  odds \in Nat /\ odds * (e * c) <= a * b /\ a * b <= (odds + 1) * (e * c)
<1>1. PICK x \in Nat : x = a * b
  OBVIOUS
<1>2. PICK f \in Nat, r \in Nat : f = x \div c /\ r = x % c /\ x = f * c + r /\ r < c
  BY <1>1, Quotient
<1>3. PICK q \in Nat, s \in Nat : q = f \div e /\ s = f % e /\ f = q * e + s /\ s < e
  BY Quotient
<1>4. odds = q \/ (odds = q - 1 /\ r = 0 /\ s = 0)
  <2>1. MulDiv(a, b, c) = x \div c /\ (IsExact(a, b, c) <=> x % c = 0)
    BY <1>1, MulDivIs
  <2> QED BY <1>2, <1>3, <2>1
<1>5. odds \in Nat
  BY <1>3, <1>4 DEF IsOdds, ODDS_BPS_SCALE
<1>6. odds * (e * c) = (odds * e) * c /\ (odds + 1) * (e * c) = ((odds + 1) * e) * c
  BY <1>5
<1>7. CASE odds = q
  <2>1. (odds + 1) * e = q * e + e /\ q * e \in Nat
    BY <1>3, <1>7
  <2>2. odds * e <= f /\ f + 1 <= (odds + 1) * e /\ odds * e \in Nat /\ (odds + 1) * e \in Nat
    BY <1>3, <1>7, <2>1
  <2>3. (odds * e) * c <= f * c /\ (f + 1) * c <= ((odds + 1) * e) * c
    BY <2>2, Grows
  <2>4. (f + 1) * c = f * c + c /\ f * c \in Nat
    BY <1>2
  <2> QED BY <1>1, <1>2, <1>5, <1>6, <2>3, <2>4
<1>8. CASE odds = q - 1 /\ r = 0 /\ s = 0
  <2>1. (odds + 1) * e = f /\ odds * e = f - e /\ odds * e \in Nat /\ odds * e <= f
    BY <1>3, <1>5, <1>8
  <2>2. (odds * e) * c <= f * c
    BY <2>1, Grows
  <2> QED BY <1>1, <1>2, <1>5, <1>6, <1>8, <2>1, <2>2
<1> QED BY <1>4, <1>7, <1>8

\* The odds of the keeper's quote, against the price and the margin.
LEMMA HouseOdds ==
    ASSUME NEW raw \in Nat, raw > 1000, NEW margin \in Nat,
           NEW quote \in houseQuoteFromConsensus(raw, margin), IsPostable(quote)
    PROVE  /\ quote.yes \in Nat /\ quote.no \in Nat
           /\ quote.yes * (10000 + margin) <= 100000 * raw
           /\ 100000 * raw <= (quote.yes + 1) * (10000 + margin)
           /\ quote.no * ((10000 + margin) * (raw - 1000)) <= 100000000 * raw
           /\ 100000000 * raw <= (quote.no + 1) * ((10000 + margin) * (raw - 1000))
<1>1. PICK M \in Nat, d \in Nat, a \in Nat, b \in Nat :
        /\ M = 10000 + margin /\ d = raw - 1000 /\ M > 0 /\ d > 0
        /\ a = 100000 /\ b = 100000000
  OBVIOUS
<1>2. /\ quote.yes \in houseOddsBpsFromImplied("Yes", raw, margin) /\ IsOdds(quote.yes)
      /\ quote.no \in houseOddsBpsFromImplied("No", raw, margin) /\ IsOdds(quote.no)
  BY DEF houseQuoteFromConsensus, IsPostable
<1>3. quote.yes \in Int /\ quote.yes * M <= a * raw /\ a * raw <= (quote.yes + 1) * M
  <2>1. \/ quote.yes = MulDiv(a, raw, M)
        \/ quote.yes = MulDiv(a, raw, M) - 1 /\ IsExact(a, raw, M)
    BY <1>1, <1>2 DEF houseOddsBpsFromImplied, FloorOfDouble, BPS_DENOMINATOR
  <2> QED BY <1>1, <2>1, FloorsOfDouble
<1>4. quote.yes \in Nat
  BY <1>2, <1>3 DEF IsOdds, ODDS_BPS_SCALE
<1>5. /\ quote.no \in Nat /\ quote.no * (M * d) <= b * raw
      /\ b * raw <= (quote.no + 1) * (M * d)
  <2>1. \/ quote.no = MulDiv(b, raw, d) \div M
        \/ /\ quote.no = MulDiv(b, raw, d) \div M - 1
           /\ IsExact(b, raw, d) /\ MulDiv(b, raw, d) % M = 0
    BY <1>1, <1>2 DEF houseOddsBpsFromImplied, FloorOfDouble, BPS_DENOMINATOR
  <2>2. d > 0 /\ M > 0
    BY <1>1
  <2> QED BY <1>2, <2>1, <2>2, FloorsOfDoubleTwice
<1> QED BY <1>1, <1>3, <1>4, <1>5
\* Served odds close to the fair ones imply at most the margined consensus
\* probability and the tolerance: served on YES ...
LEMMA YesWithinTolerance ==
    ASSUME NEW raw \in Nat, NEW M \in Nat, M <= 20000,
           NEW o \in Nat, o > 10000, o * M <= 100000 * raw, 100000 * raw <= (o + 1) * M,
           NEW p \in Nat, p * o <= 100000000,
           NEW c \in Nat, 10000000 < (c + 1) * raw,
           NEW h \in Nat, c * M < (h + 1) * 10000
    PROVE  p <= h + 25
<1> SUFFICES ASSUME p >= h + 26 PROVE FALSE
  OBVIOUS
<1>1. PICK cM \in Nat, po \in Nat, cr \in Nat, oM \in Nat, cMo \in Nat :
        /\ cM = c * M /\ po = p * o /\ cr = c * raw /\ oM = o * M /\ cMo = cM * o
  OBVIOUS
<1>2. cM + 250000 < 10000 * p
  BY <1>1
<1>3. cMo + 250000 * o < 10000 * po
  <2>1. PICK x \in Nat, y \in Nat : x = cM + 250000 /\ y = 10000 * p
    OBVIOUS
  <2>2. x * o < y * o
    BY <1>2, <2>1, Grows
  <2>3. x * o = cMo + 250000 * o /\ y * o = 10000 * po
    BY <1>1, <2>1
  <2> QED BY <2>2, <2>3
<1>4. 100000 * cr <= cMo + cM
  <2>1. PICK x \in Nat, y \in Nat : x = 100000 * raw /\ y = oM + M
    OBVIOUS
  <2>2. (o + 1) * M = oM + M
    BY <1>1
  <2>3. x * c <= y * c
    BY <2>1, <2>2, Grows
  <2>4. x * c = 100000 * cr
    BY <1>1, <2>1
  <2>5. oM * c = cMo
    BY <1>1
  <2>6. y * c = cMo + cM
    BY <1>1, <2>1, <2>5
  <2> QED BY <2>3, <2>4, <2>6
<1>5. 10000000 < cr + raw
  BY <1>1
<1>6. p <= 10000
  <2>1. p > 10000 => 10001 * o <= po
    <3> HAVE p > 10000
    <3>1. PICK x \in Nat : x = 10001
      OBVIOUS
    <3>2. x * o <= p * o
      BY <3>1, Grows
    <3> QED BY <1>1, <3>1, <3>2
  <2> QED BY <1>1, <2>1
<1>7. oM <= 20000 * o
  <2>1. PICK x \in Nat : x = 20000
    OBVIOUS
  <2>2. M * o <= x * o
    BY <2>1, Grows
  <2> QED BY <1>1, <2>1, <2>2
<1>8. (o + 1) * M = oM + M
  BY <1>1
<1> QED BY <1>1, <1>2, <1>3, <1>4, <1>5, <1>6, <1>7, <1>8

\* ... and served on NO, d being what the price is above 1.0.
LEMMA NoWithinTolerance ==
    ASSUME NEW raw \in Nat, NEW d \in Nat, raw = d + 1000, d > 0, NEW M \in Nat, M <= 20000,
           NEW o \in Nat, o > 10000, 100000000 * raw <= (o + 1) * (M * d),
           NEW p \in Nat, p * o <= 100000000,
           NEW n \in Nat, 10000 * d <= n * raw,
           NEW h \in Nat, n * M < (h + 1) * 10000
    PROVE  p <= h + 25
<1> SUFFICES ASSUME p >= h + 26 PROVE FALSE
  OBVIOUS
<1>1. PICK nM \in Nat, po \in Nat, Md \in Nat, Mo \in Nat, Mdo \in Nat, nMo \in Nat,
           ro \in Nat :
        /\ nM = n * M /\ po = p * o /\ Md = M * d /\ Mo = M * o /\ Mdo = Md * o
        /\ nMo = nM * o /\ ro = raw * o
  OBVIOUS
<1>2. nMo + 250000 * o < 1000000000000
  <2>1. nM + 250000 < 10000 * p
    BY <1>1
  <2>2. PICK x \in Nat, y \in Nat : x = nM + 250000 /\ y = 10000 * p
    OBVIOUS
  <2>3. x * o < y * o
    BY <2>1, <2>2, Grows
  <2>4. x * o = nMo + 250000 * o /\ y * o = 10000 * po
    BY <1>1, <2>2
  <2> QED BY <1>1, <2>3, <2>4
\* ... both sides times the price
<1>3. nMo * raw + 250000 * ro < 1000000000000 * raw
  <2>1. PICK x \in Nat, y \in Nat : x = nMo + 250000 * o /\ y = 1000000000000
    OBVIOUS
  <2>2. x * raw < y * raw
    BY <1>2, <2>1, Grows
  <2>3. x * raw = nMo * raw + 250000 * ro /\ y * raw = 1000000000000 * raw
    BY <1>1, <2>1
  <2> QED BY <2>2, <2>3
<1>4. 10000 * Mdo <= nMo * raw
  <2>1. PICK x \in Nat, y \in Nat : x = 10000 * d /\ y = n * raw /\ x <= y
    OBVIOUS
  <2>2. x * Mo <= y * Mo
    BY <2>1, Grows
  <2>3. x * Mo = 10000 * (d * Mo) /\ d * Mo = Mdo
    BY <1>1, <2>1
  <2>4. y * Mo = nMo * raw
    <3>1. y * Mo = (n * raw) * (M * o)
      BY <1>1, <2>1
    <3>2. nMo * raw = ((n * M) * o) * raw
      BY <1>1
    <3>3. (n * raw) * (M * o) = ((n * M) * o) * raw
      OBVIOUS
    <3> QED BY <3>1, <3>2, <3>3
  <2> QED BY <2>2, <2>3, <2>4
<1>5. 100000000 * raw <= Mdo + Md
  BY <1>1
<1>6. 250000 * ro < 10000 * Md
  <2>1. nMo * raw \in Nat
    OBVIOUS
  <2> QED BY <1>3, <1>4, <1>5, <2>1
<1>7. Md <= 20000 * d
  <2>1. PICK x \in Nat : x = 20000
    OBVIOUS
  <2>2. M * d <= x * d
    BY <2>1, Grows
  <2> QED BY <1>1, <2>1, <2>2
<1>8. 10000 * raw <= ro
  <2>1. PICK x \in Nat : x = 10000
    OBVIOUS
  <2>2. x * raw <= o * raw
    BY <2>1, Grows
  <2> QED BY <1>1, <2>1, <2>2
<1> QED BY <1>6, <1>7, <1>8

\* The complement of the probability implied by the odds of one side, against
\* the odds of the other: selling a YES ticket at the NO odds ...
LEMMA YesComplement ==
    ASSUME NEW raw \in Nat, NEW d \in Nat, raw = d + 1000, d > 0, NEW M \in Nat, M > 10000,
           NEW yes \in Nat, yes * M <= 100000 * raw,
           NEW no \in Nat, no * (M * d) <= 100000000 * raw,
           NEW p \in Nat, 100000000 < (p + 1) * no, NEW k \in Nat, k + p = 10000
    PROVE  yes * k <= 100000000
<1>1. PICK Md \in Nat, pr \in Nat, kr \in Nat, yM \in Nat, yk \in Nat :
        /\ Md = M * d /\ pr = p * raw /\ kr = k * raw /\ yM = yes * M /\ yk = yes * k
  OBVIOUS
<1>2. Md > 0
  BY <1>1
<1>3. Md < pr + raw
  <2>1. PICK x \in Nat, y \in Nat : x = 100000000 /\ y = (p + 1) * no
    OBVIOUS
  <2>2. x * Md < y * Md
    BY <1>2, <2>1, Grows
  <2>3. PICK v \in Nat, w \in Nat : v = no * Md /\ w = 100000000 * raw /\ v <= w
    BY <1>1
  <2>4. v * (p + 1) <= w * (p + 1)
    BY <2>3, Grows
  <2>5. y * Md = v * (p + 1)
    BY <2>1, <2>3
  <2>6. w * (p + 1) = 100000000 * (pr + raw)
    BY <1>1, <2>3
  <2> QED BY <2>1, <2>2, <2>4, <2>5, <2>6
<1>4. kr <= 1000 * M
  <2>1. kr + pr = 10000 * raw
    <3>1. (k + p) * raw = kr + pr
      BY <1>1
    <3> QED BY <3>1
  <2>2. M * raw = Md + 1000 * M
    BY <1>1
  <2>3. 10001 * raw <= M * raw
    <3>1. PICK x \in Nat : x = 10001
      OBVIOUS
    <3>2. x * raw <= M * raw
      BY <3>1, Grows
    <3> QED BY <3>1, <3>2
  <2> QED BY <1>3, <2>1, <2>2, <2>3
<1>5. yM * k <= 100000 * kr
  <2>1. PICK x \in Nat : x = 100000 * raw
    OBVIOUS
  <2>2. yM * k <= x * k
    BY <1>1, <2>1, Grows
  <2>3. x * k = 100000 * kr
    BY <1>1, <2>1
  <2> QED BY <2>2, <2>3
<1>6. yM * k = yk * M
  BY <1>1
<1>7. PICK x \in Nat : x = 100000000
  OBVIOUS
<1>8. yk * M <= x * M
  BY <1>4, <1>5, <1>6, <1>7
<1>9. ~ (x < yk)
  <2>1. x < yk => x * M < yk * M
    BY Grows
  <2>2. x * M \in Nat /\ yk * M \in Nat
    OBVIOUS
  <2> QED BY <1>8, <2>1, <2>2
<1> QED BY <1>1, <1>7, <1>9

\* ... and a NO ticket at the YES odds.
LEMMA NoComplement ==
    ASSUME NEW raw \in Nat, NEW d \in Nat, raw = d + 1000, d > 0, NEW M \in Nat, M > 10000,
           NEW yes \in Nat, yes * M <= 100000 * raw,
           NEW no \in Nat, no * (M * d) <= 100000000 * raw,
           NEW p \in Nat, 100000000 < (p + 1) * yes, NEW k \in Nat, k + p = 10000
    PROVE  no * k <= 100000000
<1>1. PICK Md \in Nat, pr \in Nat, kr \in Nat, nMd \in Nat, nk \in Nat :
        /\ Md = M * d /\ pr = p * raw /\ kr = k * raw /\ nMd = no * Md /\ nk = no * k
  OBVIOUS
<1>2. Md > 0
  BY <1>1
<1>3. 1000 * M < pr + raw
  <2>1. PICK x \in Nat, y \in Nat : x = 100000000 /\ y = (p + 1) * yes
    OBVIOUS
  <2>2. x * M < y * M
    BY <2>1, Grows
  <2>3. PICK v \in Nat, w \in Nat : v = yes * M /\ w = 100000 * raw /\ v <= w
    OBVIOUS
  <2>4. v * (p + 1) <= w * (p + 1)
    BY <2>3, Grows
  <2>5. y * M = v * (p + 1)
    BY <2>1, <2>3
  <2>6. w * (p + 1) = 100000 * (pr + raw)
    BY <1>1, <2>3
  <2> QED BY <2>1, <2>2, <2>4, <2>5, <2>6
<1>4. kr <= Md
  <2>1. kr + pr = 10000 * raw
    <3>1. (k + p) * raw = kr + pr
      BY <1>1
    <3> QED BY <3>1
  <2>2. M * raw = Md + 1000 * M
    BY <1>1
  <2>3. 10001 * raw <= M * raw
    <3>1. PICK x \in Nat : x = 10001
      OBVIOUS
    <3>2. x * raw <= M * raw
      BY <3>1, Grows
    <3> QED BY <3>1, <3>2
  <2> QED BY <1>3, <2>1, <2>2, <2>3
<1>5. nMd * k <= 100000000 * kr
  <2>1. PICK x \in Nat : x = 100000000 * raw
    OBVIOUS
  <2>2. nMd * k <= x * k
    BY <1>1, <2>1, Grows
  <2>3. x * k = 100000000 * kr
    BY <1>1, <2>1
  <2> QED BY <2>2, <2>3
<1>6. nMd * k = nk * Md
  BY <1>1
<1>7. PICK x \in Nat : x = 100000000
  OBVIOUS
<1>8. nk * Md <= x * Md
  BY <1>4, <1>5, <1>6, <1>7
<1>9. ~ (x < nk)
  <2>1. x < nk => x * Md < nk * Md
    BY <1>2, Grows
  <2>2. x * Md \in Nat /\ nk * Md \in Nat
    OBVIOUS
  <2> QED BY <1>8, <2>1, <2>2
<1> QED BY <1>1, <1>7, <1>9

\* What is implied by a price, up to its floor: raw stands for raw / 1000.
LEMMA ImpliedByPrice ==
    ASSUME NEW raw \in Nat, raw > 1000
    PROVE  \E c \in Nat :
             /\ c = implied_prob_bps(OddsOfRawPrice(raw)) /\ c <= 10000
             /\ c * raw <= 10000000 /\ 10000000 < (c + 1) * raw
<1>1. PICK x \in Nat, y \in Nat : x = 100000000 /\ y = 10 * raw /\ y > 10000
  OBVIOUS
<1>2. PICK c \in Nat : c = x \div y /\ c * y <= x /\ x < (c + 1) * y
  BY <1>1, Quotient
<1>3. c * y = 10 * (c * raw) /\ (c + 1) * y = 10 * ((c + 1) * raw)
  BY <1>1
<1>4. c * raw <= 10000000 /\ 10000000 < (c + 1) * raw
  BY <1>1, <1>2, <1>3
<1>5. c <= 10000
  <2>1. c > 10000 => 10001 * raw <= c * raw
    <3>1. PICK z \in Nat : z = 10001
      OBVIOUS
    <3>2. z <= c => z * raw <= c * raw
      BY Grows
    <3> QED BY <3>1, <3>2
  <2> QED BY <1>4, <2>1
<1>6. OddsOfRawPrice(raw) = y
  BY <1>1 DEF OddsOfRawPrice, ODDS_BPS_SCALE, TXLINE_PRICE_DECIMAL_SCALE
<1> QED BY <1>1, <1>2, <1>4, <1>5, <1>6 DEF implied_prob_bps, ODDS_BPS_SCALE, BPS_DENOMINATOR

\* A quote the keeper computes from a price passes the audit against that
\* price, on both sides, for every price and margin.
LEMMA HouseQuotePasses ==
    ASSUME NEW raw \in Nat, IsRawPrice(raw), NEW margin \in Nat, margin <= BPS_DENOMINATOR,
           NEW quote \in houseQuoteFromConsensus(raw, margin), IsPostable(quote)
    PROVE  IsHonest(quote.yes, "Yes", raw, margin) /\ IsHonest(quote.no, "No", raw, margin)
<1>1. raw > 1000
  BY DEF IsRawPrice, IsOdds, OddsOfRawPrice, ODDS_BPS_SCALE, TXLINE_PRICE_DECIMAL_SCALE
<1>2. PICK d \in Nat, M \in Nat :
        raw = d + 1000 /\ d > 0 /\ d = raw - 1000 /\ M = 10000 + margin /\ M <= 20000
  BY <1>1 DEF BPS_DENOMINATOR
<1>3. PICK yes \in Nat, no \in Nat : yes = quote.yes /\ no = quote.no
  BY <1>1, HouseOdds
<1>4. /\ yes > 10000 /\ no > 10000
      /\ yes * M <= 100000 * raw /\ 100000 * raw <= (yes + 1) * M
      /\ no * (M * d) <= 100000000 * raw /\ 100000000 * raw <= (no + 1) * (M * d)
  <2>1. yes > 10000 /\ no > 10000
    BY <1>3 DEF IsPostable, IsOdds, ODDS_BPS_SCALE
  <2> QED BY <1>1, <1>2, <1>3, <2>1, HouseOdds
<1>5. ASSUME NEW o \in Nat, o > 10000
      PROVE  implied_prob_bps(o) \in Nat /\ implied_prob_bps(o) * o <= 100000000
  <2>1. PICK x \in Nat : x = 100000000
    OBVIOUS
  <2>2. x \div o \in Nat /\ (x \div o) * o <= x
    BY <1>5, <2>1, Quotient
  <2> QED BY <2>1, <2>2 DEF implied_prob_bps, ODDS_BPS_SCALE, BPS_DENOMINATOR
\* the consensus probability of YES
<1>6. PICK c \in Nat :
        /\ c = implied_prob_bps(OddsOfRawPrice(raw)) /\ c <= 10000
        /\ c * raw <= 10000000 /\ 10000000 < (c + 1) * raw
  BY <1>1, ImpliedByPrice
\* the margined probability
<1>7. ASSUME NEW n \in Nat
      PROVE  house_prob_bps(n, margin) \in Nat /\ n * M < (house_prob_bps(n, margin) + 1) * 10000
  <2>1. PICK x \in Nat, y \in Nat : x = n * M /\ y = 10000
    OBVIOUS
  <2>2. x \div y \in Nat /\ x < (x \div y + 1) * y
    BY <2>1, Quotient
  <2> QED BY <1>2, <2>1, <2>2 DEF house_prob_bps, BPS_DENOMINATOR
<1>8. IsHonest(quote.yes, "Yes", raw, margin)
  <2>1. PICK h \in Nat : h = house_prob_bps(c, margin) /\ c * M < (h + 1) * 10000
    BY <1>7
  <2>2. PICK p \in Nat : p = implied_prob_bps(yes) /\ p * yes <= 100000000
    BY <1>5, <1>4
  <2>3. p <= h + 25
    BY <1>2, <1>6, <1>4, <2>1, <2>2, YesWithinTolerance
  <2> QED BY <1>6, <1>3, <2>1, <2>2, <2>3
        DEF IsHonest, is_price_within_margin, ConsensusImplied, AUDIT_TOLERANCE_BPS
<1>9. IsHonest(quote.no, "No", raw, margin)
  <2>1. PICK n \in Nat : n = 10000 - c
    BY <1>6
  <2>2. PICK h \in Nat : h = house_prob_bps(n, margin) /\ n * M < (h + 1) * 10000
    BY <1>7
  <2>3. PICK p \in Nat : p = implied_prob_bps(no) /\ p * no <= 100000000
    BY <1>5, <1>4
  <2>4. 10000 * d <= n * raw
    <3>1. (n + c) * raw = n * raw + c * raw /\ n * raw \in Nat /\ c * raw \in Nat
      OBVIOUS
    <3>2. (n + c) * raw = 10000 * raw
      BY <2>1
    <3> QED BY <1>2, <1>6, <3>1, <3>2
  <2>5. p <= h + 25
    BY <1>2, <1>4, <2>2, <2>4, <2>3, NoWithinTolerance
  <2>6. ConsensusImplied("No", raw) = n
    BY <1>6, <2>1 DEF ConsensusImplied, BPS_DENOMINATOR
  <2> QED BY <1>3, <2>2, <2>5, <2>6, <2>3 DEF IsHonest, is_price_within_margin, AUDIT_TOLERANCE_BPS
<1> QED BY <1>8, <1>9

\* A YES price above 1.0 comes from a consensus above 1.0: the margin only
\* shortens it.
LEMMA YesAboveEven ==
    ASSUME NEW raw \in Nat, NEW margin \in Nat,
           NEW yes \in houseOddsBpsFromImplied("Yes", raw, margin), IsOdds(yes)
    PROVE  yes \in Nat /\ raw > 1000
<1>1. PICK M \in Nat, a \in Nat : M = 10000 + margin /\ M > 0 /\ M >= 10000 /\ a = 100000
  OBVIOUS
<1>2. yes \in Int /\ yes * M <= a * raw
  <2>1. \/ yes = MulDiv(a, raw, M)
        \/ yes = MulDiv(a, raw, M) - 1 /\ IsExact(a, raw, M)
    BY <1>1 DEF houseOddsBpsFromImplied, FloorOfDouble, BPS_DENOMINATOR
  <2> QED BY <1>1, <2>1, FloorsOfDouble
<1>3. yes \in Nat /\ yes > 10000
  BY <1>2 DEF IsOdds, ODDS_BPS_SCALE
<1>4. yes * 10000 <= yes * M
  <2>1. PICK t \in Nat : t = 10000 /\ t <= M
    BY <1>1
  <2>2. t * yes <= M * yes
    BY <1>1, <1>3, <2>1, Grows
  <2> QED BY <1>1, <1>3, <2>1, <2>2
<1>5. PICK yM \in Nat : yM = yes * M
  BY <1>1, <1>3
<1> QED BY <1>1, <1>2, <1>3, <1>4, <1>5

\* Every price whose quote post_quote takes is one that an audit takes: a YES
\* price too short is served at 1.0 or less, one too long leaves NO there.
LEMMA PostableIsAuditable ==
    ASSUME NEW raw \in Nat, NEW margin \in Nat, margin > 0,
           NEW quote \in houseQuoteFromConsensus(raw, margin), IsPostable(quote)
    PROVE  IsRawPrice(raw) /\ quote.yes \in Nat /\ quote.no \in Nat
<1>1. raw > 1000
  BY YesAboveEven DEF houseQuoteFromConsensus, IsPostable
<1>2. /\ quote.yes \in Nat /\ quote.no \in Nat
      /\ quote.no * ((10000 + margin) * (raw - 1000)) <= 100000000 * raw
  BY <1>1, HouseOdds
<1>3. PICK no \in Nat, M \in Nat, d \in Nat :
        /\ no = quote.no /\ M = 10000 + margin /\ d = raw - 1000
        /\ no >= 10001 /\ M >= 10001 /\ raw = d + 1000
  BY <1>1, <1>2 DEF IsPostable, IsOdds, ODDS_BPS_SCALE
<1>4. no * (M * d) <= 100000000 * raw
  BY <1>2, <1>3
<1>5. 10001 * (10001 * d) <= no * (M * d)
  <2>1. PICK t \in Nat : t = 10001
    OBVIOUS
  <2>2. PICK Md \in Nat, td \in Nat : Md = M * d /\ td = t * d
    BY <1>3, <2>1
  <2>3. td <= Md
    BY <1>3, <2>1, <2>2, Grows
  <2>4. t * td <= t * Md /\ t * Md <= no * Md
    <3>1. t * Md <= no * Md
      BY <1>3, <2>1, <2>2, Grows
    <3>2. td * t <= Md * t
      BY <2>1, <2>2, <2>3, Grows
    <3> QED BY <3>1, <3>2, <2>1, <2>2
  <2> QED BY <2>1, <2>2, <2>4
<1>6. raw <= 429496729
  BY <1>3, <1>4, <1>5
<1> QED
  BY <1>1, <1>2, <1>6
     DEF IsRawPrice, MAX_RAW_PRICE, IsOdds, OddsOfRawPrice, ODDS_BPS_SCALE,
         TXLINE_PRICE_DECIMAL_SCALE

\* The overcharged NO price is a number wherever post_quote takes it.
LEMMA RiggedOddsType ==
    ASSUME NEW raw \in Nat, raw > 1000, NEW factor \in Nat, factor > 0,
           NEW no \in riggedNoOddsBps(raw, factor), IsOdds(no)
    PROVE  no \in Nat
<1>1. PICK a \in Nat, d \in Nat : a = 1000000 /\ d = raw - 1000 /\ d > 0
  OBVIOUS
<1>2. \/ no = (ODDS_BPS_SCALE * 100) \div 99
      \/ no = MulDiv(a, raw, d) \div factor
      \/ /\ no = MulDiv(a, raw, d) \div factor - 1
         /\ IsExact(a, raw, d) /\ MulDiv(a, raw, d) % factor = 0
  BY <1>1 DEF riggedNoOddsBps, FloorOfDouble
<1>3. CASE no = (ODDS_BPS_SCALE * 100) \div 99
  BY <1>3 DEF ODDS_BPS_SCALE
<1> QED BY <1>1, <1>2, <1>3, FloorsOfDoubleTwice

\* What odds of factor * d * 100 / raw imply is above what is below factor * k / 100
\* when k / 10000 is below d / raw.
LEMMA RigExceeds ==
    ASSUME NEW raw \in Nat, raw > 0, NEW d \in Nat, NEW factor \in Nat, NEW k \in Nat,
           k * raw <= 10000 * d,
           NEW no \in Nat, no > 0, no * (factor * d) <= 1000000 * raw,
           NEW p \in Nat, 100000000 < (p + 1) * no,
           NEW a \in Nat, 100 * (a + 1) <= factor * k
    PROVE  p > a
<1> SUFFICES ASSUME p <= a PROVE FALSE
  OBVIOUS
<1>1. PICK w \in Nat, q \in Nat, u \in Nat, v \in Nat, kr \in Nat, fn \in Nat, nfd \in Nat :
        /\ w = factor * k /\ q = 100 * (p + 1) /\ u = (p + 1) * no /\ v = w * no
        /\ kr = k * raw /\ fn = factor * no /\ nfd = no * (factor * d)
  OBVIOUS
<1>2. PICK big \in Nat, small \in Nat :
        big = 10000000000 /\ small = 10000 * d
  OBVIOUS
<1>3. q <= w
  BY <1>1
<1>4. q * no <= v
  BY <1>1, <1>3, Grows
<1>5. q * no = 100 * u
  BY <1>1
<1>6. big < v
  BY <1>1, <1>2, <1>4, <1>5
<1>7. big * raw < v * raw
  BY <1>6, Grows
<1>8. v * raw = kr * fn
  <2>1. v * raw = (factor * k) * (no * raw)
    BY <1>1
  <2>2. kr * fn = (k * raw) * (factor * no)
    BY <1>1
  <2>3. (factor * k) * (no * raw) = (k * raw) * (factor * no)
    OBVIOUS
  <2> QED BY <2>1, <2>2, <2>3
<1>9. kr * fn <= small * fn
  BY <1>1, <1>2, Grows
<1>10. small * fn = 10000 * nfd
  <2>1. small * fn = (10000 * d) * (factor * no)
    BY <1>1, <1>2
  <2>2. (10000 * d) * (factor * no) = 10000 * (no * (factor * d))
    OBVIOUS
  <2> QED BY <1>1, <2>1, <2>2
<1>11. 10000 * nfd <= big * raw
  BY <1>1, <1>2
<1>12. big * raw \in Nat /\ v * raw \in Nat /\ kr * fn \in Nat /\ small * fn \in Nat
  OBVIOUS
<1> QED BY <1>7, <1>8, <1>9, <1>10, <1>11, <1>12

\* The overcharge of a rigged NO price shows, where the overcharged odds are not
\* capped within it: a is what the audit lets a price imply.
LEMMA RiggedNoShows ==
    ASSUME NEW raw \in Nat, IsRawPrice(raw), NEW factor \in Nat, factor > 0,
           NEW no \in riggedNoOddsBps(raw, factor), IsOdds(no),
           NEW a \in Nat, a < 9900, 100 * (a + 1) <= factor * (ConsensusImplied("No", raw) - 1)
    PROVE  implied_prob_bps(no) > a
<1>1. raw > 1000
  BY DEF IsRawPrice, IsOdds, OddsOfRawPrice, ODDS_BPS_SCALE, TXLINE_PRICE_DECIMAL_SCALE
<1>2. PICK m \in Nat, d \in Nat : m = 1000000 /\ d = raw - 1000 /\ d > 0 /\ raw = d + 1000
  BY <1>1
<1>3. no \in Nat /\ no > 10000
  BY <1>1, RiggedOddsType DEF IsOdds, ODDS_BPS_SCALE
<1>4. \/ no = (ODDS_BPS_SCALE * 100) \div 99
      \/ no = MulDiv(m, raw, d) \div factor
      \/ /\ no = MulDiv(m, raw, d) \div factor - 1
         /\ IsExact(m, raw, d) /\ MulDiv(m, raw, d) % factor = 0
  BY <1>2 DEF riggedNoOddsBps, FloorOfDouble
<1>5. CASE no = (ODDS_BPS_SCALE * 100) \div 99
  <2>1. no = 10101
    BY <1>5 DEF ODDS_BPS_SCALE
  <2>2. implied_prob_bps(no) = 9900
    BY <2>1 DEF implied_prob_bps, ODDS_BPS_SCALE, BPS_DENOMINATOR
  <2> QED BY <2>2
<1>6. CASE no # (ODDS_BPS_SCALE * 100) \div 99
  <2>1. no * (factor * d) <= m * raw
    BY <1>2, <1>3, <1>4, <1>6, FloorsOfDoubleTwice
  <2>2. PICK c \in Nat :
          /\ c = implied_prob_bps(OddsOfRawPrice(raw)) /\ c <= 10000
          /\ c * raw <= 10000000 /\ 10000000 < (c + 1) * raw
    BY <1>1, ImpliedByPrice
  <2>3. PICK k \in Int : k = ConsensusImplied("No", raw) - 1 /\ k = 9999 - c
    BY <2>2 DEF ConsensusImplied, BPS_DENOMINATOR
  <2>4. k > 0
    <3>1. 100 * (a + 1) <= factor * k
      BY <2>3
    <3>2. k <= 0 => factor * k <= 0
      OBVIOUS
    <3> QED BY <3>1, <3>2
  <2>5. k * raw <= 10000 * d
    <3>1. (k + (c + 1)) * raw = k * raw + (c + 1) * raw
      OBVIOUS
    <3>2. (k + (c + 1)) * raw = 10000 * raw
      BY <2>3
    <3>3. k * raw \in Int /\ (c + 1) * raw \in Nat
      OBVIOUS
    <3> QED BY <1>2, <2>2, <3>1, <3>2, <3>3
  <2>6. PICK p \in Nat : p = implied_prob_bps(no) /\ 100000000 < (p + 1) * no
    <3>1. PICK x \in Nat : x = 100000000
      OBVIOUS
    <3>2. x \div no \in Nat /\ x < (x \div no + 1) * no
      BY <1>3, <3>1, Quotient
    <3> QED BY <3>1, <3>2 DEF implied_prob_bps, ODDS_BPS_SCALE, BPS_DENOMINATOR
  <2>7. k \in Nat /\ raw > 0 /\ no > 0 /\ 100 * (a + 1) <= factor * k
        /\ no * (factor * d) <= 1000000 * raw
    BY <1>1, <1>2, <1>3, <2>1, <2>3, <2>4
  <2>8. p > a
    BY <1>3, <2>5, <2>6, <2>7, RigExceeds
  <2> QED BY <2>6, <2>8
<1> QED BY <1>5, <1>6

\* Buying at odds o and selling at a probability with which o times its
\* complement is at most one never gains.
LEMMA RoundTrip ==
    ASSUME NEW stake \in Nat, NEW odds \in Nat, NEW p \in Nat, NEW k \in Nat,
           k + p = 10000, odds * k <= 100000000
    PROVE  cash_out_value(potential_payout(stake, odds), p) <= stake
<1>1. PICK so \in Nat, y \in Nat : so = stake * odds /\ y = 10000 /\ y > 0
  OBVIOUS
<1>2. PICK P \in Nat : P = so \div y /\ P * y <= so
  BY <1>1, Quotient
<1>3. PICK Pk \in Nat : Pk = P * k
  OBVIOUS
<1>4. Pk <= 10000 * stake
  <2>1. (P * y) * k <= so * k
    BY <1>2, Grows
  <2>2. (P * y) * k = 10000 * Pk
    BY <1>1, <1>3
  <2>3. PICK v \in Nat, w \in Nat : v = odds * k /\ w = 100000000 /\ v <= w
    OBVIOUS
  <2>4. v * stake <= w * stake
    BY <2>3, Grows
  <2>5. v * stake = so * k
    BY <1>1, <2>3
  <2> QED BY <2>1, <2>2, <2>3, <2>4, <2>5
<1>5. Pk \div 10000 <= stake
  BY <1>4
<1>6. potential_payout(stake, odds) = P /\ 10000 - p = k
  BY <1>1, <1>2 DEF potential_payout, ODDS_BPS_SCALE
<1> QED BY <1>5, <1>6, <1>3 DEF cash_out_value, BPS_DENOMINATOR

\* Nobody gains by buying and selling at one quote of the keeper, whatever the
\* price, the margin and the stake.
LEMMA RoundTripLoses ==
    ASSUME NEW raw \in Nat, IsRawPrice(raw), NEW margin \in Nat, margin > 0,
           NEW quote \in houseQuoteFromConsensus(raw, margin), IsPostable(quote),
           NEW stake \in Nat
    PROVE  /\ cash_out_value(potential_payout(stake, quote.yes), implied_prob_bps(quote.no)) <= stake
           /\ cash_out_value(potential_payout(stake, quote.no), implied_prob_bps(quote.yes)) <= stake
<1>1. raw > 1000
  BY DEF IsRawPrice, IsOdds, OddsOfRawPrice, ODDS_BPS_SCALE, TXLINE_PRICE_DECIMAL_SCALE
<1>2. PICK d \in Nat, M \in Nat :
        raw = d + 1000 /\ d > 0 /\ d = raw - 1000 /\ M = 10000 + margin /\ M > 10000
  BY <1>1
<1>3. PICK yes \in Nat, no \in Nat : yes = quote.yes /\ no = quote.no
  BY <1>1, HouseOdds
<1>4. /\ yes > 10000 /\ no > 10000
      /\ yes * M <= 100000 * raw /\ no * (M * d) <= 100000000 * raw
  <2>1. yes > 10000 /\ no > 10000
    BY <1>3 DEF IsPostable, IsOdds, ODDS_BPS_SCALE
  <2> QED BY <1>1, <1>2, <1>3, <2>1, HouseOdds
<1>5. ASSUME NEW o \in Nat, o > 10000
      PROVE  \E p \in Nat, k \in Nat :
               p = implied_prob_bps(o) /\ k + p = 10000 /\ 100000000 < (p + 1) * o
  <2>1. PICK x \in Nat : x = 100000000
    OBVIOUS
  <2>2. x \div o \in Nat /\ x < (x \div o + 1) * o
    BY <1>5, <2>1, Quotient
  <2>3. PICK p \in Nat : p = x \div o /\ x < (p + 1) * o
    BY <2>2
  <2>4. p = implied_prob_bps(o)
    BY <2>1, <2>3 DEF implied_prob_bps, ODDS_BPS_SCALE, BPS_DENOMINATOR
  <2>5. p <= 10000
    <3>1. IsOdds(o)
      BY <1>5 DEF IsOdds, ODDS_BPS_SCALE
    <3>2. implied_prob_bps(o) \in 0..BPS_DENOMINATOR
      BY <3>1, ImpliedProbBound
    <3>3. p \in 0..BPS_DENOMINATOR
      BY <2>4, <3>2
    <3> QED BY <3>3 DEF BPS_DENOMINATOR
  <2>6. PICK k \in Nat : k = 10000 - p
    BY <2>5
  <2> QED BY <2>1, <2>3, <2>4, <2>6
<1>6. cash_out_value(potential_payout(stake, yes), implied_prob_bps(no)) <= stake
  <2>1. PICK p \in Nat, k \in Nat :
          p = implied_prob_bps(no) /\ k + p = 10000 /\ 100000000 < (p + 1) * no
    BY <1>5, <1>4
  <2>2. yes * k <= 100000000
    BY <1>2, <1>4, <2>1, YesComplement
  <2> QED BY <2>1, <2>2, RoundTrip
<1>7. cash_out_value(potential_payout(stake, no), implied_prob_bps(yes)) <= stake
  <2>1. PICK p \in Nat, k \in Nat :
          p = implied_prob_bps(yes) /\ k + p = 10000 /\ 100000000 < (p + 1) * yes
    BY <1>5, <1>4
  <2>2. no * k <= 100000000
    BY <1>2, <1>4, <2>1, NoComplement
  <2> QED BY <2>1, <2>2, RoundTrip
<1> QED BY <1>6, <1>7, <1>3

-----------------------------------------------------------------------------
(* Predicates and the records they map to.                                 *)

\* The three families of supported predicates exclude one another, and so do
\* the conditions of describeMarketParams.
LEMMA FamiliesExclude ==
    ASSUME NEW p \in MarketParams
    PROVE  /\ ~(IsResult(p) /\ IsMargin(p))
           /\ ~(IsResult(p) /\ IsTotals(p))
           /\ ~(IsMargin(p) /\ IsTotals(p))
  BY DEF MarketParams, IsResult, IsMargin, IsTotals

\* The record of each family.
LEMMA RecordOfFamily ==
    ASSUME NEW p \in MarketParams
    PROVE  /\ IsResult(p) =>
                expected_odds_record(p) =
                  OddsRecord(SUPER_ODDS_1X2, NoLine, p.stat_a_period,
                             result_price_index[p.comparison])
           /\ IsMargin(p) =>
                expected_odds_record(p) =
                  OddsRecord(SUPER_ODDS_ASIAN_HANDICAP, MinusLine(p.threshold),
                             p.stat_a_period, 0)
           /\ IsTotals(p) =>
                expected_odds_record(p) =
                  OddsRecord(SUPER_ODDS_OVER_UNDER, PlusLine(p.threshold), p.stat_a_period, 0)
  BY FamiliesExclude DEF expected_odds_record

\* The program and the catalog agree on every predicate.
LEMMA CatalogAgrees ==
    ASSUME NEW p \in MarketParams
    PROVE  describeMarketParams(p) =
             IF IsSupported(p) THEN {expected_odds_record(p)} ELSE {}
<1> DEFINE is(op, comparison) == p.op = op /\ p.comparison = comparison
           describe(when, type, line, index) ==
             IF when THEN {OddsRecord(type, line, p.stat_a_period, index)} ELSE {}
           home == is("Subtract", "GreaterThan") /\ p.threshold = 0
           draw == is("Subtract", "EqualTo") /\ p.threshold = 0
           away == is("Subtract", "LessThan") /\ p.threshold = 0
           margin == is("Subtract", "GreaterThan") /\ p.threshold > 0
           totals == is("Add", "GreaterThan") /\ p.threshold >= 0
           D1 == describe(home, SUPER_ODDS_1X2, NoLine, 0)
           D2 == describe(draw, SUPER_ODDS_1X2, NoLine, 1)
           D3 == describe(away, SUPER_ODDS_1X2, NoLine, 2)
           D4 == describe(margin, SUPER_ODDS_ASIAN_HANDICAP, MinusLine(p.threshold), 0)
           D5 == describe(totals, SUPER_ODDS_OVER_UNDER, PlusLine(p.threshold), 0)
<1>1. p.comparison \in Comparison /\ p.threshold \in Int
  BY DEF MarketParams
<1>2. /\ IsResult(p) <=> home \/ draw \/ away
      /\ IsMargin(p) <=> margin
      /\ IsTotals(p) <=> totals
  BY <1>1 DEF Comparison, IsResult, IsMargin, IsTotals
<1>3. CASE ~(IsGoalsPair(p) /\ IsQuotedPeriod(p.stat_a_period))
  BY <1>3 DEF describeMarketParams, IsQuotedPeriod, IsSupported
<1>4. CASE IsGoalsPair(p) /\ IsQuotedPeriod(p.stat_a_period)
  <2>1. describeMarketParams(p) = UNION {D1, D2, D3, D4, D5}
    BY <1>4 DEF describeMarketParams, IsQuotedPeriod
  <2>2. UNION {D1, D2, D3, D4, D5} = D1 \cup D2 \cup D3 \cup D4 \cup D5
    OBVIOUS
  <2>3. IsSupported(p) <=> home \/ draw \/ away \/ margin \/ totals
    BY <1>2, <1>4 DEF IsSupported
  <2>4. CASE home
    <3>1. ~draw /\ ~away /\ ~margin /\ ~totals
      BY <1>1, <2>4
    <3>2. expected_odds_record(p) = OddsRecord(SUPER_ODDS_1X2, NoLine, p.stat_a_period, 0)
      BY <1>2, <2>4, RecordOfFamily DEF result_price_index
    <3> QED BY <2>1, <2>2, <2>3, <2>4, <3>1, <3>2
  <2>5. CASE draw
    <3>1. ~home /\ ~away /\ ~margin /\ ~totals
      BY <1>1, <2>5
    <3>2. expected_odds_record(p) = OddsRecord(SUPER_ODDS_1X2, NoLine, p.stat_a_period, 1)
      BY <1>2, <2>5, RecordOfFamily DEF result_price_index
    <3> QED BY <2>1, <2>2, <2>3, <2>5, <3>1, <3>2
  <2>6. CASE away
    <3>1. ~home /\ ~draw /\ ~margin /\ ~totals
      BY <1>1, <2>6
    <3>2. expected_odds_record(p) = OddsRecord(SUPER_ODDS_1X2, NoLine, p.stat_a_period, 2)
      BY <1>2, <2>6, RecordOfFamily DEF result_price_index
    <3> QED BY <2>1, <2>2, <2>3, <2>6, <3>1, <3>2
  <2>7. CASE margin
    <3>1. ~home /\ ~draw /\ ~away /\ ~totals
      BY <1>1, <2>7
    <3>2. {expected_odds_record(p)} = D4
      BY <1>2, <2>7, RecordOfFamily
    <3> QED BY <2>1, <2>2, <2>3, <2>7, <3>1, <3>2
  <2>8. CASE totals
    <3>1. ~home /\ ~draw /\ ~away /\ ~margin
      BY <1>1, <2>8
    <3>2. {expected_odds_record(p)} = D5
      BY <1>2, <2>8, RecordOfFamily
    <3> QED BY <2>1, <2>2, <2>3, <2>8, <3>1, <3>2
  <2>9. CASE ~home /\ ~draw /\ ~away /\ ~margin /\ ~totals
    BY <2>1, <2>2, <2>3, <2>9
  <2> QED BY <2>4, <2>5, <2>6, <2>7, <2>8, <2>9
<1> QED BY <1>3, <1>4

-----------------------------------------------------------------------------
(* What the proofs about the book need of Total.  A recursive function is a *)
(* CHOOSE to the proof system, so its recursion equations come first; the  *)
(* rest is induction, done by taking the least counterexample.             *)

\* A non-empty set of naturals has a least element.
LEMMA LeastElement ==
    ASSUME NEW S \in SUBSET Nat, S # {}
    PROVE  \E m \in S : \A k \in S : m <= k
<1>1. PICK x \in S : \A y \in S : ~ (<<y, x>> \in OpToRel(<, Nat))
  BY NatLessThanWellFounded, WFMin
<1>2. ASSUME NEW y \in S
      PROVE  x <= y
  <2>1. x \in Nat /\ y \in Nat
    OBVIOUS
  <2>2. y < x => <<y, x>> \in OpToRel(<, Nat)
    BY <2>1 DEF OpToRel
  <2>3. ~ (<<y, x>> \in OpToRel(<, Nat))
    BY <1>1
  <2>4. ~ (y < x)
    BY <2>2, <2>3
  <2> QED BY <2>1, <2>4
<1> QED BY <1>2

\* s is the running total of f up to k.
IsRunningTotal(k, f, s) ==
    /\ s \in [0..k -> Int]
    /\ s[0] = 0
    /\ \A i \in 1..k : s[i] = s[i - 1] + f[i]

\* Every function over 1..n has a running total.
LEMMA RunningTotalExists ==
    ASSUME NEW n \in Nat, NEW f \in [1..n -> Int]
    PROVE  \E s : IsRunningTotal(n, f, s)
<1> DEFINE Bad == {k \in 0..n : ~ \E s : IsRunningTotal(k, f, s)}
<1> SUFFICES ASSUME ~ \E s : IsRunningTotal(n, f, s)
             PROVE  FALSE
  OBVIOUS
<1>1. n \in Bad
  OBVIOUS
<1>2. PICK m \in Bad : \A k \in Bad : m <= k
  <2>1. Bad \in SUBSET Nat /\ Bad # {}
    BY <1>1
  <2> HIDE DEF Bad
  <2> QED BY <2>1, LeastElement
<1>3. m # 0
  <2>1. IsRunningTotal(0, f, [i \in 0..0 |-> 0])
    BY DEF IsRunningTotal
  <2> QED BY <2>1
<1>4. m \in 1..n /\ m - 1 \in 0..n /\ ~ (m <= m - 1)
  BY <1>3
<1>5. PICK s : IsRunningTotal(m - 1, f, s)
  BY <1>2, <1>4
<1> DEFINE t == [i \in 0..m |-> IF i = m THEN s[m - 1] + f[m] ELSE s[i]]
<1>6. IsRunningTotal(m, f, t)
  <2>1. t \in [0..m -> Int]
    BY <1>4, <1>5 DEF IsRunningTotal
  <2>2. t[0] = 0
    BY <1>4, <1>5 DEF IsRunningTotal
  <2>3. ASSUME NEW i \in 1..m
        PROVE  t[i] = t[i - 1] + f[i]
    <3>1. i \in 0..m /\ i - 1 \in 0..m /\ i - 1 # m
      BY <1>4
    <3>2. t[i - 1] = s[i - 1]
      BY <3>1
    <3>3. CASE i = m
      BY <3>1, <3>2, <3>3
    <3>4. CASE i # m
      <4>1. i \in 1..(m - 1)
        BY <1>4, <3>4
      <4>2. s[i] = s[i - 1] + f[i]
        BY <1>5, <4>1 DEF IsRunningTotal
      <4> QED BY <3>1, <3>2, <3>4, <4>2
    <3> QED BY <3>3, <3>4
  <2> QED BY <2>1, <2>2, <2>3 DEF IsRunningTotal
<1> QED BY <1>6

\* The recursion equations of PartialTotals.
LEMMA PartialTotalsDef ==
    ASSUME NEW n \in Nat, NEW f \in [1..n -> Int]
    PROVE  IsRunningTotal(n, f, PartialTotals(n, f))
<1>1. PICK s : IsRunningTotal(n, f, s)
  BY RunningTotalExists
<1> DEFINE p == PartialTotals(n, f)
<1>2. p = [i \in 0..n |-> IF i = 0 THEN 0 ELSE p[i - 1] + f[i]]
  <2>1. s = [i \in 0..n |-> IF i = 0 THEN 0 ELSE s[i - 1] + f[i]]
    BY <1>1 DEF IsRunningTotal
  <2> QED BY <2>1 DEF PartialTotals
<1> HIDE DEF p
<1>3. p[0] = 0 /\ \A i \in 1..n : p[i] = p[i - 1] + f[i]
  BY <1>2
<1>4. \A i \in 0..n : p[i] = s[i]
  <2> DEFINE Bad == {i \in 0..n : p[i] # s[i]}
  <2> SUFFICES ASSUME Bad # {}
               PROVE  FALSE
    OBVIOUS
  <2>1. PICK m \in Bad : \A k \in Bad : m <= k
    <3>1. Bad \in SUBSET Nat
      OBVIOUS
    <3> HIDE DEF Bad
    <3> QED BY <3>1, LeastElement
  <2>2. m \in 1..n /\ m - 1 \in 0..n /\ ~ (m <= m - 1)
    BY <1>1, <1>3 DEF IsRunningTotal
  <2>3. p[m - 1] = s[m - 1]
    BY <2>1, <2>2
  <2> QED BY <1>1, <1>3, <2>2, <2>3 DEF IsRunningTotal
<1>5. p \in [0..n -> Int]
  <2>1. \A i \in 0..n : s[i] \in Int
    BY <1>1 DEF IsRunningTotal
  <2>2. p = [i \in 0..n |-> p[i]]
    BY <1>2
  <2> QED BY <1>4, <2>1, <2>2
<1>6. IsRunningTotal(n, f, p)
  BY <1>3, <1>5 DEF IsRunningTotal
<1> QED BY <1>6 DEF p

\* A total of naturals is a natural.
LEMMA TotalType ==
    ASSUME NEW n \in Nat, NEW f \in [1..n -> Nat]
    PROVE  Total(n, f) \in Nat
<1> DEFINE p == PartialTotals(n, f)
           Bad == {i \in 0..n : p[i] \notin Nat}
<1>1. IsRunningTotal(n, f, p)
  BY PartialTotalsDef
<1> HIDE DEF p
<1> SUFFICES ASSUME Bad # {}
             PROVE  FALSE
  BY DEF Total, p
<1>2. PICK m \in Bad : \A k \in Bad : m <= k
  <2>1. Bad \in SUBSET Nat
    OBVIOUS
  <2> HIDE DEF Bad
  <2> QED BY <2>1, LeastElement
<1>3. m \in 1..n /\ m - 1 \in 0..n /\ ~ (m <= m - 1)
  BY <1>1 DEF IsRunningTotal
<1>4. p[m - 1] \in Nat
  BY <1>2, <1>3
<1> QED BY <1>1, <1>3, <1>4 DEF IsRunningTotal

\* The total of nothing but zeros.
LEMMA TotalOfZeros ==
    ASSUME NEW n \in Nat
    PROVE  Total(n, [i \in 1..n |-> 0]) = 0
<1> DEFINE f == [i \in 1..n |-> 0]
           p == PartialTotals(n, f)
           Bad == {i \in 0..n : p[i] # 0}
<1>1. IsRunningTotal(n, f, p)
  <2>1. f \in [1..n -> Int]
    OBVIOUS
  <2> QED BY <2>1, PartialTotalsDef
<1>2. \A i \in 1..n : f[i] = 0
  OBVIOUS
<1> HIDE DEF p
<1> SUFFICES ASSUME Bad # {}
             PROVE  FALSE
  BY DEF Total, p
<1> HIDE DEF f
<1>3. PICK m \in Bad : \A k \in Bad : m <= k
  <2>1. Bad \in SUBSET Nat
    OBVIOUS
  <2> HIDE DEF Bad
  <2> QED BY <2>1, LeastElement
<1>4. m \in 1..n /\ m - 1 \in 0..n /\ ~ (m <= m - 1)
  BY <1>1 DEF IsRunningTotal
<1>5. p[m - 1] = 0
  BY <1>3, <1>4
<1>6. f[m] = 0
  BY <1>2, <1>4
<1>7. p[m] = 0
  BY <1>1, <1>4, <1>5, <1>6 DEF IsRunningTotal
<1> QED BY <1>7

\* Changing one value of f changes the total by the difference.
LEMMA TotalUpdate ==
    ASSUME NEW n \in Nat, NEW f \in [1..n -> Int], NEW k \in 1..n, NEW v \in Int
    PROVE  Total(n, [f EXCEPT ![k] = v]) = Total(n, f) - f[k] + v
<1> DEFINE g == [f EXCEPT ![k] = v]
           p == PartialTotals(n, f)
           q == PartialTotals(n, g)
           Shift(i) == IF i >= k THEN v - f[k] ELSE 0
           Bad == {i \in 0..n : q[i] # p[i] + Shift(i)}
<1>1. g \in [1..n -> Int] /\ g[k] = v /\ \A i \in 1..n : i # k => g[i] = f[i]
  OBVIOUS
<1> HIDE DEF g
<1>2. IsRunningTotal(n, f, p) /\ IsRunningTotal(n, g, q)
  BY <1>1, PartialTotalsDef
<1> HIDE DEF p, q
<1>3. Bad = {}
  <2> SUFFICES ASSUME Bad # {}
               PROVE  FALSE
    OBVIOUS
  <2>1. PICK m \in Bad : \A i \in Bad : m <= i
    <3>1. Bad \in SUBSET Nat
      OBVIOUS
    <3> HIDE DEF Bad
    <3> QED BY <3>1, LeastElement
  <2>2. m \in 1..n /\ m - 1 \in 0..n /\ ~ (m <= m - 1)
    BY <1>2 DEF IsRunningTotal
  <2>3. q[m - 1] = p[m - 1] + Shift(m - 1)
    BY <2>1, <2>2
  <2>4. /\ q[m] = q[m - 1] + g[m] /\ p[m] = p[m - 1] + f[m]
        /\ p[m - 1] \in Int /\ f[m] \in Int /\ f[k] \in Int
    BY <1>2, <2>2 DEF IsRunningTotal
  <2>5. q[m] = p[m] + Shift(m)
    <3>1. CASE m = k
      BY <1>1, <2>2, <2>3, <2>4, <3>1
    <3>2. CASE m # k
      BY <1>1, <2>2, <2>3, <2>4, <3>2
    <3> QED BY <3>1, <3>2
  <2> QED BY <2>5
<1>4. n \in 0..n /\ n >= k
  OBVIOUS
<1>5. q[n] = p[n] + Shift(n)
  BY <1>3, <1>4
<1>6. p[n] \in Int /\ f[k] \in Int
  BY <1>2 DEF IsRunningTotal
<1>7. q[n] = p[n] - f[k] + v
  BY <1>4, <1>5, <1>6
<1> QED BY <1>7 DEF Total, p, q, g

\* A total of naturals is at least each of its terms.
LEMMA TotalAtLeast ==
    ASSUME NEW n \in Nat, NEW f \in [1..n -> Nat], NEW k \in 1..n
    PROVE  f[k] <= Total(n, f)
<1> DEFINE g == [f EXCEPT ![k] = 0]
<1>1. g \in [1..n -> Nat]
  OBVIOUS
<1>2. f \in [1..n -> Int] /\ 0 \in Int
  OBVIOUS
<1>3. Total(n, g) = Total(n, f) - f[k] + 0
  <2> HIDE DEF g
  <2>1. \A v \in Int : Total(n, [f EXCEPT ![k] = v]) = Total(n, f) - f[k] + v
    BY <1>2, TotalUpdate
  <2> QED BY <1>2, <2>1 DEF g
<1> HIDE DEF g
<1>4. Total(n, g) \in Nat /\ Total(n, f) \in Nat
  BY <1>1, TotalType
<1> QED BY <1>3, <1>4

=============================================================================
