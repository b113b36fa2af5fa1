------------------------------- MODULE MCPages -------------------------------
(***************************************************************************)
(* The two pages a wallet buys and sells on, and small instances of them.  *)
(* A behaviour is of one page:                                             *)
(*   slip     BetSlip: quotes are valid for 2, and the slip calls them     *)
(*            expired 1 earlier;                                           *)
(*   selling  TicketsPage at one instant: a ticket on a home win that the  *)
(*            consensus prices at 2.5 was sold at an honest price, and the *)
(*            market now quotes a rigged one;                              *)
(*   ending   TicketsPage while the market ends: the ticket was sold at a  *)
(*            rigged price, and is clicked on twice.                       *)
(***************************************************************************)
EXTENDS BetSlip, TicketsPage, Catalog

Devnet ==
    {[margin_bps |-> 200, max_exposure_per_market |-> 900, max_payout_per_ticket |-> 600]}
HomeWin == PREMATCH_CATALOG[1]
OnlyHomeWin == {HomeWin}
Pair(yes, no) == [s \in Sides |-> IF s = "Yes" THEN yes ELSE no]
Fair == Pair(24500, 16330)
Rigged == Pair(20000, 12000)
Longer == Pair(30000, 30000)
OneQuote == {Rigged}
TwoQuotes == {Rigged, Longer}

\* One ticket, of a stake of 100, at the YES odds of a quote.
Sold(quote) ==
    [t \in TicketIds |-> IF t # 1 THEN NoTicket ELSE
        [NoTicket EXCEPT !.state = "Live", !.market = 0, !.stake = 100, !.odds_record = "r1",
                         !.quoted_odds_bps = quote["Yes"],
                         !.potential_payout = (100 * quote["Yes"]) \div ODDS_BPS_SCALE]]
MarketUntil(k, sold) ==
    [m \in MarketIds |->
        [NoMarket EXCEPT !.state = "Open", !.fixture_id = 1, !.params = HomeWin, !.kickoff_ts = k,
                         !.odds = Fair, !.odds_record = "r1", !.quote_posted_ts = 3,
                         !.stake["Yes"] = 100, !.payout["Yes"] = Sold(sold)[1].potential_payout]]
Record ==
    [fixture_id |-> 1, super_odds_type |-> SUPER_ODDS_1X2, market_parameters |-> NoLine,
     market_period |-> "absent", prices |-> [i \in 0..2 |-> 2500]]
Feed == [r \in {"r1"} |-> Record]
WinProof == {[fixture_id |-> 1, params |-> HomeWin, holds |-> TRUE]}

BookOf ==
    [selling |-> [tickets |-> Sold(Fair), markets |-> MarketUntil(9, Fair)],
     ending |-> [tickets |-> Sold(Rigged), markets |-> MarketUntil(4, Rigged)]]
TwoBooks == {BookOf.selling, BookOf.ending}

-----------------------------------------------------------------------------

VARIABLES page

ticketVars == <<list, sheet, panel, verdict>>

NoTicketsPage == list = None /\ sheet = None /\ panel = None /\ verdict = None
NoSlipPage == board = None /\ slip = None /\ slips = 0

PagesInit ==
    \/ page = "slip" /\ SlipInit /\ NoTicketsPage
    \/ page \in DOMAIN BookOf /\ TicketsInit /\ ticket = BookOf[page].tickets /\ NoSlipPage

\* Bounds of each page: how long it is open, whether the network fails, and
\* while the market ends how often it is quoted and clicked.
OpenUntil == [slip |-> 6, selling |-> 3, ending |-> 4]
TwoClicks == \A i \in Attempts : i > 2 => attempt'[i].stage = "unused"
WithinBounds ==
    /\ now' <= OpenUntil[page]
    /\ page # "slip" => faults' = 0
    /\ page = "ending" => TwoClicks /\ market'[TheMarket].odds = market[TheMarket].odds

PagesNext ==
    /\ \/ page = "slip" /\ SlipNext /\ UNCHANGED ticketVars
       \/ page # "slip" /\ TicketsNext /\ UNCHANGED matchVars
    /\ WithinBounds
    /\ UNCHANGED page

PagesSpec == PagesInit /\ [][PagesNext]_<<slipVars, ticketVars, page>>

-----------------------------------------------------------------------------
(* The properties of the pages, each of the pages it is about.             *)

\* What an attempt reports is what has become of its transaction: confirmed, it
\* is the ticket that was clicked; refused, it has not been executed and never
\* will be, whatever timed out on the way.
ReportsAreTrue == RefusedIsFinal /\ (page = "slip" => ConfirmedIsSold)

\* A slip buys one ticket, however often it is retried, unless a retry came after
\* an attempt whose fate was reported as unknown.
SlipBuysOneTicket == page = "slip" => OneTicketPerSlip

\* The countdown of a slip is exact, and leaves its first bet the time that the
\* safety buffer is for.
SlipLeavesTime == page = "slip" => CountdownIsExact /\ FirstBetLeavesTime

\* The verdict an audit shows is the one on chain, and a repair shown as paid is
\* paid.
AuditsShowTheChain == page # "slip" => VerdictsShownAreTrue /\ RepairShownIsPaid

\* What is paid for a ticket is what the page shows: in its row, and in the sheet
\* it was sold from, unless the market was quoted anew.
PaidAsShown == page # "slip" => SheetPaysWhileQuoted /\ AmountsShownArePaid

-----------------------------------------------------------------------------
(* What the docs and comments say and the pages do not do.                 *)

\* The refund that a proven overcharge makes due is offered.
DueRefundIsOffered == page = "ending" => RefundIsOffered

\* A ticket shown as a proven overcharge has been proven so.
PillsAreTrue == page = "ending" => RefundedPillIsTrue

\* The bounty shown is no more than was paid.
ShownBountiesArePaid == page = "ending" => ShownBountyIsPaid

\* A confirmed cash-out was sold for what its sheet shows.
SheetsPayWhatTheyShow == page = "selling" => SheetPaysWhatItShows

\* The receipt of a bet shows the odds its ticket was sold at.
SlipReceiptShowsTicket == page = "slip" => ReceiptShowsTicket

\* Every bet of a slip, a retry too, is left the time the safety buffer is for.
SlipLeavesRetriesTime == page = "slip" => EveryBetLeavesTime

=============================================================================
