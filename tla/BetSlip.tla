------------------------------- MODULE BetSlip -------------------------------
(***************************************************************************)
(* The match page of one market: the board it polls, and the bet slip over *)
(* a snapshot of the board's quote (MatchScreen.tsx, BetSlip.tsx).  The    *)
(* slip counts its quote down by itself, and place_bet takes no odds: a    *)
(* ticket is sold at what the market quotes when the bet is executed.      *)
(***************************************************************************)
EXTENDS WalletFlow

CONSTANTS
    QUOTE_SAFETY_SECONDS,  \* how much earlier the slip calls a quote expired
    MaxSlips, MaxBets,     \* bounds: times the slip is opened, and clicks on it
    Picks,                 \* the outcomes the bettor picks from
    TheFixture, ThePredicate, TheKickoff

ASSUME SlipAssumption ==
    /\ {QUOTE_SAFETY_SECONDS, MaxSlips, MaxBets} \subseteq Nat /\ MaxBets <= MaxAttempts
    /\ QUOTE_SAFETY_SECONDS <= QUOTE_VALIDITY_SECONDS
    /\ Picks \subseteq Sides
    /\ NumMarkets > 0 /\ Liquidity <= U64_MAX
    /\ TheFixture \in Fixtures /\ ThePredicate \in Predicates /\ TheKickoff \in Nat

VARIABLES
    board,  \* the quote the page last read, if it offers one
    slip,   \* the slip, if one is open
    slips   \* how many there have been

matchVars == <<board, slip, slips>>
slipVars == <<vars, txVars, walletVars, matchVars>>

TheMarket == 0

SlipInit ==
    /\ BookWith([m \in MarketIds |->
                   IF m = TheMarket THEN [NoMarket EXCEPT !.state = "Open", !.fixture_id = TheFixture,
                                            !.params = ThePredicate, !.kickoff_ts = TheKickoff]
                   ELSE NoMarket], NoTickets, Liquidity)
    /\ WalletInit
    /\ board = None
    /\ slip = None
    /\ slips = 0

-----------------------------------------------------------------------------
(* The board: fetchChainBoard and isQuoteFresh of truebookClient.ts.       *)

isQuoteFresh(posted) == posted > 0 /\ now - posted <= QUOTE_VALIDITY_SECONDS - QUOTE_SAFETY_SECONDS

\* A market's card: its cells are the quote, offered while it is fresh.
toMarketView(m) ==
    IF isQuoteFresh(m.quote_posted_ts) THEN [odds |-> m.odds, posted |-> m.quote_posted_ts] ELSE None

\* A fixture with no open market is not on the board.
IsOnBoard == market[TheMarket].state = "Open"
fetchChainBoard == IF IsOnBoard THEN toMarketView(market[TheMarket]) ELSE None

\* The page of a fixture that is not found has no slip.
SlipOfPage == IF IsOnBoard THEN slip ELSE None

\* A poll is answered; one that fails leaves an error panel instead of a board.
PollMatch ==
    /\ \/ board' = fetchChainBoard /\ slip' = SlipOfPage /\ Answered
       \/ board' = None /\ Fault /\ UNCHANGED <<inflight, slip>>
    /\ UNCHANGED <<vars, walletVars, slips>>

-----------------------------------------------------------------------------
(* The slip.                                                               *)

quoteSecondsRemaining(posted) ==
    SaturatingSub(QUOTE_VALIDITY_SECONDS - QUOTE_SAFETY_SECONDS, now - posted)

Snapshot(side) ==
    [side |-> side, odds |-> board.odds[side], posted |-> board.posted]

handleSelectOutcome(side) ==
    /\ slip = None /\ slips < MaxSlips
    /\ board # None
    /\ slip' = [quote |-> Snapshot(side), left |-> quoteSecondsRemaining(board.posted),
                last |-> None, id |-> slips + 1]
    /\ slips' = slips + 1
    /\ UNCHANGED <<vars, txVars, walletVars, board>>

\* The slip awaits the result of its last attempt, or shows it as confirmed.
Placement ==
    IF IsPending(slip.last) THEN "pending" ELSE IF IsConfirmed(slip.last) THEN "confirmed" ELSE None

canPlaceBetTwice == slip.left > 0 /\ Placement # "confirmed"
canPlaceBet == slip.left > 0 /\ Placement = None

\* What the slip shows: an entry form, with the quote's refresh once it is
\* expired, or from the click on the receipt.
EntryView == [refresh |-> slip.left = 0 /\ Placement = None, place |-> canPlaceBet]
ReceiptView == [odds |-> slip.quote.odds, verified |-> Placement = "confirmed"]

\* The transaction an attempt is to send: no odds, and a nonce of its own.
placeBetOnChain(i, side, stake) ==
    [op |-> "bet", m |-> TheMarket, side |-> side, stake |-> stake,
     by |-> i, at |-> now, slip |-> slip.id, isFirst |-> slip.last = None]

\* `Place bet`, and the `Retry` of an error panel.
handlePlaceBet(stake) ==
    /\ slip # None
    /\ EntryView.place
    /\ \E i \in 1..MaxBets :
         /\ Click(i, placeBetOnChain(i, slip.quote.side, stake))
         /\ slip' = [slip EXCEPT !.last = i]
    /\ UNCHANGED <<vars, txVars, board, slips>>

HasSameOdds(quote) == quote.odds = slip.quote.odds
IsSameQuote(quote) == quote = slip.quote

\* Offered on an expired quote.  The countdown starts again only if the snapshot
\* is of another quote.
handleRefreshQuote ==
    /\ slip # None /\ EntryView.refresh
    /\ board # None
    /\ LET quote == Snapshot(slip.quote.side)
       IN  slip' = [slip EXCEPT !.quote = quote,
                                !.left = IF IsSameQuote(quote) THEN @
                                         ELSE quoteSecondsRemaining(quote.posted)]
    /\ UNCHANGED <<vars, txVars, walletVars, board, slips>>

\* The slip can be closed at any time; its attempt goes on without it.
onClose ==
    /\ slip # None
    /\ slip' = None
    /\ UNCHANGED <<vars, txVars, walletVars, board, slips>>

\* The countdown runs by itself, and not while an attempt is pending or done.
CountsDown == Placement = None
SlipClock ==
    /\ WalletClock
    /\ slip' = IF slip # None /\ CountsDown THEN [slip EXCEPT !.left = SaturatingSub(@, 1)] ELSE slip
    /\ UNCHANGED <<board, slips>>

-----------------------------------------------------------------------------

\* The keeper quotes and locks the market.
KeeperActs ==
    /\ \/ \E q \in Quotes, r \in RecordIds : PostQuote(TheMarket, q, r)
       \/ LockMarket(TheMarket)
    /\ UNCHANGED <<txVars, walletVars, matchVars>>

SlipNext ==
    \/ PollMatch
    \/ \E side \in Picks : handleSelectOutcome(side)
    \/ \E stake \in Stakes : handlePlaceBet(stake)
    \/ handleRefreshQuote
    \/ onClose
    \/ \E i \in Attempts : WalletStep(i) /\ UNCHANGED matchVars
    \/ Land /\ UNCHANGED matchVars
    \/ KeeperActs
    \/ SlipClock

SlipSpec == SlipInit /\ [][SlipNext]_slipVars

-----------------------------------------------------------------------------
(* Properties.                                                             *)

\* A confirmed bet is a ticket on chain, of the side and the stake clicked.
ConfirmedIsSold ==
    \A i \in Attempts :
        attempt[i].result = "confirmed" =>
            /\ landed[i] \in TicketIds
            /\ ticket[landed[i]].side = attempt[i].tx.side
            /\ ticket[landed[i]].stake = attempt[i].tx.stake

\* A slip buys one ticket, however often it is retried, unless a retry came after
\* an attempt whose fate was reported as unknown.
BetsOf(s) == {i \in Attempts : attempt[i].tx # None /\ attempt[i].tx.slip = s}
OneTicketPerSlip ==
    \A s \in 1..slips :
        Cardinality({i \in BetsOf(s) : landed[i] \in TicketIds}) > 1 =>
            \E i \in BetsOf(s) : attempt[i].result = "unknown"

\* Until its first bet a slip counts down to the moment its quote is to be
\* refreshed, and counts again from the new quote's posting, the odds being the
\* same or not.
CountdownIsExact ==
    slip # None /\ slip.last = None => slip.left = quoteSecondsRemaining(slip.quote.posted)

\* A bet that is executed within the safety buffer of its click is not refused
\* for an expired quote: what the buffer is for (BetSlip.tsx:58-66).
LeavesTime(i) ==
    attempt[i].stage \notin {"unused", "over"} /\ now <= attempt[i].tx.at + QUOTE_SAFETY_SECONDS =>
        QuoteIsFresh(TheMarket)
FirstBetLeavesTime == \A i \in Attempts : attempt[i].tx # None /\ attempt[i].tx.isFirst => LeavesTime(i)
EveryBetLeavesTime == \A i \in Attempts : LeavesTime(i)

\* The receipt of a confirmed bet shows the odds its ticket was sold at
\* (docs/UI_DESIGN_SYSTEM.md:160-161: "the bet slip drawer resolving into a
\* verified receipt").
ReceiptShowsTicket ==
    slip # None /\ ReceiptView.verified =>
        ticket[landed[slip.last]].quoted_odds_bps = ReceiptView.odds

=============================================================================
