----------------------------- MODULE ChainViews -----------------------------
(***************************************************************************)
(* The pages that read the chain (lib/chain/useChain*.ts and the functions *)
(* they call in truebookClient.ts and tickets.ts): the lobby and a match   *)
(* page show the board of a fixture, the tickets page the tickets of the   *)
(* connected wallet, the verify page how a market was resolved.  A hook    *)
(* loads at first, at every poll and when it is asked to; it shows the     *)
(* answer that came last, whatever was asked first and for whom.           *)
(***************************************************************************)
EXTENDS Transactions

CONSTANTS
    Keys,     \* what each hook may be asked for: a fixture, wallets or markets
    OwnerOf,  \* the wallet of each ticket
    Loads,    \* the loads in flight at a time
    QUOTE_SAFETY_SECONDS,
    MarketsAtFirst, TicketsAtFirst, Liquidity \* the book at first, by hook

Hooks == {"board", "tickets", "verify"}

VARIABLES
    hook,  \* the hook of the page on show
    key,   \* what the page is for: the wallet connected, or the page's address
    load,  \* the loads in flight
    state  \* what the hook shows

viewVars == <<hook, key, load, state>>
viewsVars == <<vars, txVars, viewVars>>

Loading == [status |-> "loading"]
LoadError == [status |-> "error"]
Ready(k, view) == [status |-> "ready", for |-> k, view |-> view]
Idle == [asked |-> None, at |-> None]
Asked(k) == [asked |-> k, at |-> None]

\* The hook loads as its page opens.
TheFirst == CHOOSE l \in Loads : TRUE
ViewsInit ==
    /\ hook \in Hooks
    /\ BookWith(MarketsAtFirst[hook], TicketsAtFirst[hook], Liquidity)
    /\ key \in Keys[hook]
    /\ load = [l \in Loads |-> IF l = TheFirst THEN Asked(key) ELSE Idle]
    /\ state = Loading

-----------------------------------------------------------------------------
(* What is read.                                                           *)

isQuoteFresh(posted) == posted > 0 /\ now - posted <= QUOTE_VALIDITY_SECONDS - QUOTE_SAFETY_SECONDS

\* The board has the markets that are open or locked; a fixture without an open
\* one is not on it.
OnBoard == {m \in MarketIds : market[m].state \in {"Open", "Locked"}}
AllOpen == OnBoard # {} /\ \A m \in OnBoard : market[m].state = "Open"
SomeOpen == \E m \in OnBoard : market[m].state = "Open"

\* The kickoff of a fixture is taken to be the first deadline on its board.
kickoffMs == CHOOSE k \in {market[m].kickoff_ts : m \in OnBoard} :
                 \A m \in OnBoard : k <= market[m].kickoff_ts

toMarketView(m) ==
    [phase |-> IF market[m].state = "Locked" THEN "locked" ELSE "open",
     isInPlay |-> market[m].kickoff_ts > kickoffMs,
     odds |-> IF isQuoteFresh(market[m].quote_posted_ts) THEN market[m].odds ELSE None]

fetchChainBoard ==
    IF ~SomeOpen THEN {}
    ELSE {[phase |-> IF kickoffMs <= now THEN "live" ELSE "upcoming",
           markets |-> [m \in OnBoard |-> toMarketView(m)]]}

fetchChainTickets(owner) ==
    [t \in {u \in TicketIds : ticket[u] # NoTicket /\ OwnerOf[u] = owner} |-> ticket[t].state]

\* The story of a market's resolution.
fetchChainVerify(m) ==
    IF m \notin MarketIds \/ market[m] = NoMarket THEN None
    ELSE IF outcome[m] = "Unverified" THEN [status |-> "awaiting", outcome |-> None]
    ELSE [status |-> "verified", outcome |-> outcome[m]]

Fetch(k) ==
    CASE hook = "board" -> fetchChainBoard
      [] hook = "tickets" -> fetchChainTickets(k)
      [] hook = "verify" -> fetchChainVerify(k)

-----------------------------------------------------------------------------
(* The hook.                                                               *)

Load(k, loads) ==
    IF k = None THEN load' = loads
    ELSE \E l \in Loads : loads[l] = Idle /\ load' = [loads EXCEPT ![l] = Asked(k)]

\* A poll; the resolution of a market is read once.
Poll ==
    /\ hook # "verify" /\ key # None
    /\ Load(key, load)
    /\ UNCHANGED <<vars, txVars, hook, key, state>>

\* The button of the error panel.
RetryInAnyState == UNCHANGED <<vars, txVars, hook, key>> /\ Load(key, load) /\ state' = Loading
RetryOnError ==
    /\ state = LoadError /\ key # None
    /\ Load(key, load)
    /\ state' = IF hook = "tickets" THEN state ELSE Loading
    /\ UNCHANGED <<vars, txVars, hook, key>>

\* The wallet is switched: the tickets of the other are loaded, those on show stay.
SwitchWallet ==
    /\ hook = "tickets"
    /\ \E k \in Keys["tickets"] \cup {None} :
         /\ k # key
         /\ key' = k
         /\ Load(k, load)
    /\ UNCHANGED <<vars, txVars, hook, state>>

\* The node reads what a load asks for.
NodeReads(l) ==
    /\ load[l].asked # None /\ load[l].at = None
    /\ load' = [load EXCEPT ![l].at = [view |-> Fetch(load[l].asked)]]
    /\ UNCHANGED <<vars, txVars, hook, key, state>>

\* What it has read arrives and is shown.
Arrives(l) ==
    /\ load[l].at # None
    /\ state' = Ready(load[l].asked, load[l].at.view)
    /\ load' = [load EXCEPT ![l] = Idle]
    /\ UNCHANGED <<vars, txVars, hook, key>>

\* A load fails, or runs into its deadline.
LoadFails(l) ==
    /\ load' = [load EXCEPT ![l] = Idle]
    /\ state' = LoadError
Fails(l) ==
    /\ load[l] # Idle
    /\ LoadFails(l)
    /\ UNCHANGED <<vars, txVars, hook, key>>

-----------------------------------------------------------------------------

\* The keeper, other crankers and bettors.
ChainMoves ==
    /\ \/ \E m \in MarketIds :
            \/ \E q \in Quotes, r \in RecordIds : PostQuote(m, q, r)
            \/ LockMarket(m)
            \/ \E proof \in ScoreProofs : VerifyMarket(m, proof)
            \/ \E byAuthority \in BOOLEAN : VoidMarket(m, byAuthority)
       \/ \E t \in TicketIds : SettleTicket(t)
       \/ Tick
    /\ UNCHANGED <<txVars, viewVars>>

ViewsNext ==
    \/ Poll \/ RetryOnError \/ SwitchWallet
    \/ \E l \in Loads : NodeReads(l) \/ Arrives(l) \/ Fails(l)
    \/ ChainMoves

ViewsSpec == ViewsInit /\ [][ViewsNext]_viewsVars

\* Every read of a load runs under a deadline, but for those of the board.
FairLoad(l) == hook # "board" /\ (Arrives(l) \/ Fails(l))
FairLoads == \A l \in Loads : WF_viewsVars(FairLoad(l))
\* A poll comes with its timer, and the calls the browser has left to make.
FairViews == ViewsSpec /\ WF_viewsVars(Poll) /\ FairLoads

-----------------------------------------------------------------------------
(* Properties.                                                             *)

\* An outcome a page has shown as verified is the one on chain, and stays on the
\* page (useChainVerify.ts:14-15: "A verified outcome never changes once anchored").
VerifiedStep ==
    /\ hook = "verify" /\ state.status = "ready" /\ state.view # None
    /\ state.view.status = "verified"
    => state' = state /\ outcome[state.for] = state.view.outcome

\* What PlaceBet asks of the market, whatever the bet.
TakesBets(m) ==
    ~house.paused /\ market[m].state = "Open" /\ now < market[m].kickoff_ts /\ QuoteIsFresh(m)

\* A market the program would take bets on for as long as the slip's margin is on
\* the board, at the odds they would be sold at.
BettableIsOffered ==
    \A m \in MarketIds :
        /\ TakesBets(m)
        /\ now - market[m].quote_posted_ts <= QUOTE_VALIDITY_SECONDS - QUOTE_SAFETY_SECONDS
        => \E match \in fetchChainBoard :
             /\ m \in DOMAIN match.markets
             /\ match.markets[m].phase = "open" /\ match.markets[m].odds = market[m].odds

\* What the board offers can be bet on (truebookClient.ts:58: "A quote is only
\* offered on the board while it is still safely placeable").
OfferedIsPlaceable ==
    \A match \in fetchChainBoard :
        \A m \in DOMAIN match.markets :
            match.markets[m].phase = "open" /\ match.markets[m].odds # None =>
                \E t \in TicketIds, side \in Sides, stake \in Stakes : ENABLED PlaceBet(t, m, side, stake)

\* A fixture that is underway stays so on the board (truebookClient.ts:364: "The
\* real kickoff is the earliest deadline; in-play windows close later.").
UnderwayStep ==
    \A match \in fetchChainBoard, later \in fetchChainBoard' :
        match.phase = "live" => later.phase = "live"

\* The tickets on show are those of the wallet connected (useChainTickets.ts:15:
\* "Polls the connected wallet's on-chain tickets for the tickets screen.").
ShowsTheConnected ==
    state.status = "ready" /\ key # None => state.for = key

\* A market that is said to settle later may settle (VerifyScreen.tsx:220: "settles
\* after the score proof anchors").
AwaitedMaySettle ==
    \A m \in MarketIds :
        fetchChainVerify(m) # None /\ fetchChainVerify(m).status = "awaiting" =>
            market[m].state \in {"Open", "Locked"}

=============================================================================
