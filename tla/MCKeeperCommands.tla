-------------------------- MODULE MCKeeperCommands --------------------------
(***************************************************************************)
(* A small instance of KeeperCommands: one ticket at most, on a home win   *)
(* the consensus prices at 2.5 and the house quotes honestly or rigged.    *)
(***************************************************************************)
EXTENDS KeeperCommands, Catalog

Devnet ==
    {[margin_bps |-> 200, max_exposure_per_market |-> 900, max_payout_per_ticket |-> 600]}
HomeWin == PREMATCH_CATALOG[1]
OnlyHomeWin == {HomeWin}
Pair(yes, no) == [s \in Sides |-> IF s = "Yes" THEN yes ELSE no]
Rigged == Pair(20000, 12000)
RiggedQuote == {Rigged}

TheMarket ==
    [NoMarket EXCEPT !.state = "Open", !.fixture_id = 1, !.params = HomeWin, !.kickoff_ts = 5,
                     !.odds = Pair(24500, 16330), !.odds_record = "r1", !.quote_posted_ts = 3]
OneMarket == [m \in MarketIds |-> TheMarket]

Record ==
    [fixture_id |-> 1, super_odds_type |-> SUPER_ODDS_1X2, market_parameters |-> NoLine,
     market_period |-> "absent", prices |-> [i \in 0..2 |-> 2500]]
Feed == [r \in {"r1"} |-> Record]
WinProof == {[fixture_id |-> 1, params |-> HomeWin, holds |-> TRUE]}

Bet == [op |-> "bet", m |-> 0, side |-> "Yes", stake |-> 100]
OnTicket(op) == [op |-> op, t |-> 1]
Fund(amount) == [op |-> "fund", amount |-> amount]
Setup == [op |-> "setup"]
AllCommands ==
    {Bet, Setup, Fund(0), Fund(250)} \cup {OnTicket(op) : op \in {"cashout", "refund", "audit", "auditCashOut"}}
=============================================================================
