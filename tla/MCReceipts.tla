----------------------------- MODULE MCReceipts -----------------------------
(***************************************************************************)
(* A small instance of Receipts: two tickets of one market, a home win     *)
(* that the first score row disproves and the second proves, sold on an    *)
(* anchored record and on one that is not.  The service has no proof of    *)
(* the third row, and of the fourth the score of another period.           *)
(***************************************************************************)
EXTENDS Receipts

Devnet ==
    {[margin_bps |-> 200, max_exposure_per_market |-> 900, max_payout_per_ticket |-> 600]}
HomeWin == PREMATCH_CATALOG[1]
OnlyHomeWin == {HomeWin}
NoQuotes == {}
Quoted == [s \in Sides |-> IF s = "Yes" THEN 20000 ELSE 16330]

SideOf(t) == IF t = 1 THEN "Yes" ELSE "No"
Sold ==
    [t \in TicketIds |->
        IF t > 2 THEN NoTicket
        ELSE [NoTicket EXCEPT !.state = "Live", !.market = 0, !.side = SideOf(t), !.stake = 100,
                              !.odds_record = IF t = 1 THEN "r1" ELSE "r3",
                              !.quoted_odds_bps = Quoted[SideOf(t)],
                              !.potential_payout = potential_payout(100, Quoted[SideOf(t)])]]

TheMarket ==
    [NoMarket EXCEPT !.state = "Open", !.fixture_id = 1, !.params = HomeWin, !.kickoff_ts = 4,
                     !.odds = Quoted, !.odds_record = "r2", !.quote_posted_ts = 3,
                     !.stake["Yes"] = 100, !.payout["Yes"] = 200,
                     !.stake["No"] = 100, !.payout["No"] = 163]
OneMarket == [m \in MarketIds |-> TheMarket]

Record ==
    [fixture_id |-> 1, super_odds_type |-> SUPER_ODDS_1X2, market_parameters |-> NoLine,
     market_period |-> "absent", prices |-> [i \in 0..2 |-> 2500]]
Feed == [r \in {"r1", "r2"} |-> Record]
FULL_TIME == 100
Stat(seq, period, home) ==
    [fixture_id |-> 1, row |-> seq, asked |-> STAT_PERIOD_TOTAL, period |-> period,
     home |-> home, away |-> 0]
Stats == {Stat(1, STAT_PERIOD_TOTAL, 0), Stat(2, STAT_PERIOD_TOTAL, 1), Stat(4, FULL_TIME, 1)}
Proofs == {Proves(stat, HomeWin) : stat \in {s \in Stats : IsOfPeriod(s, HomeWin)}}
=============================================================================
