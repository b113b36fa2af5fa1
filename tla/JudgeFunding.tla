---------------------------- MODULE JudgeFunding ----------------------------
(***************************************************************************)
(* The judge panel (JudgePanel.tsx): it shows what the connected wallet    *)
(* holds and funds it, on chain by the USDT faucet (placeBet.ts) and by a  *)
(* devnet airdrop (walletFunds.ts), in a demo by a timer.  A request goes  *)
(* on when the wallet is switched or the panel closed, and Retry calls the *)
(* function of the request that failed, with the wallet it was made for.   *)
(***************************************************************************)
EXTENDS Integers, FiniteSets

CONSTANTS
    Owners,      \* the wallets the user may connect
    FirstFunds,  \* what they may be at first
    Requests,    \* the requests made
    Panels,      \* what a panel may be opened as: its source, and if its demo fails
    FAUCET_USDT, AIRDROP_SOL, TRANSACTION_FEE, TOKEN_ACCOUNT_RENT,
    FUNDED_DISMISS, \* the ticks a funded row is shown for
    Nil

Kinds == {"usdt", "sol"}

\* A wallet, a row of what was funded, and a panel with what it keeps.
Wallets == [sol : Nat, usdt : Nat, ata : BOOLEAN, signs : BOOLEAN]
Rows == [amount : Int, kind : Kinds, owner : Owners \cup {Nil}, age : Nat]
OpenPanels ==
    [dataSource : {"chain", "demo"}, faucetFails : BOOLEAN,
     fundsSnapshot : [owner : Owners, funds : [sol : Nat, usdt : Nat]] \cup {Nil},
     requestKind : Kinds \cup {Nil}, fundedRow : Rows \cup {Nil}, errorMessage : BOOLEAN,
     retryAction : [kind : Kinds, owner : Owners \cup {Nil}, before : Nat] \cup {Nil},
     timers : SUBSET (Nat \ {0}), demoUsdc : Nat]

JudgeAssumption ==
    /\ Requests \subseteq Nat
    /\ FirstFunds \subseteq [Owners -> Wallets]
    /\ Panels \subseteq [dataSource : {"chain", "demo"}, faucetFails : BOOLEAN]
    /\ {FAUCET_USDT, AIRDROP_SOL, FUNDED_DISMISS} \subseteq Nat \ {0}
    /\ {TRANSACTION_FEE, TOKEN_ACCOUNT_RENT} \subseteq Nat
    /\ Nil \notin Owners \cup Kinds \cup Rows \cup OpenPanels

VARIABLES
    funds,      \* what each wallet holds, SOL, USDT and an account for it, and if it signs
    granted,    \* the USDT the faucet has given it
    connected,  \* the wallet connected
    judge,      \* the panel, when it is open
    request,    \* the requests made
    read        \* the balances the panel reads first, from the call to the answer

chainVars == <<funds, granted>>
judgeVars == <<funds, granted, connected, judge, request, read>>

NotMade == [kind |-> Nil, owner |-> Nil, before |-> 0, stage |-> "none", mounted |-> FALSE,
            sent |-> FALSE, landed |-> FALSE]
Fresh(props) ==
    [dataSource |-> props.dataSource, faucetFails |-> props.faucetFails,
     fundsSnapshot |-> Nil, requestKind |-> Nil, fundedRow |-> Nil, errorMessage |-> FALSE,
     retryAction |-> Nil, timers |-> {}, demoUsdc |-> 0]

\* The page opens with its panel shut.
JudgeInit ==
    /\ funds \in FirstFunds
    /\ granted = [o \in Owners |-> 0]
    /\ connected = Nil
    /\ judge = Nil
    /\ request = [i \in Requests |-> NotMade]
    /\ read = Nil

IsOpen == judge # Nil
OnChain == IsOpen /\ judge.dataSource = "chain"

-----------------------------------------------------------------------------
(* The balances of the connected wallet.                                   *)

\* Where a wallet is connected its balances are read; a read for another wallet
\* is cancelled.
readFirst(source, owner) ==
    read' = IF source = "chain" /\ owner # Nil THEN [owner |-> owner, holds |-> Nil] ELSE Nil

Connect ==
    /\ \E o \in Owners \cup {Nil} :
         /\ o # connected
         /\ connected' = o
         /\ IF IsOpen THEN readFirst(judge.dataSource, o) ELSE UNCHANGED read
    /\ UNCHANGED <<chainVars, judge, request>>

fetchWalletFunds(o) == [sol |-> funds[o].sol, usdt |-> funds[o].usdt]

\* The node reads the balances, and its answer comes later.
ReadFirst ==
    /\ read # Nil /\ read.holds = Nil
    /\ read' = [read EXCEPT !.holds = fetchWalletFunds(read.owner)]
    /\ UNCHANGED <<chainVars, connected, judge, request>>

Snapshot(o, holds) == [owner |-> o, funds |-> holds]

FirstFundsShown ==
    /\ read # Nil
    /\ \/ /\ read.holds # Nil
          /\ judge' = [judge EXCEPT !.fundsSnapshot = Snapshot(read.owner, read.holds)]
       \/ UNCHANGED judge
    /\ read' = Nil
    /\ UNCHANGED <<chainVars, connected, request>>

\* The snapshot, whose ever it is.
anyFunds == IF judge.fundsSnapshot # Nil THEN judge.fundsSnapshot.funds ELSE Nil

\* The snapshot, if it is of the wallet that is connected.
chainFunds ==
    IF judge.fundsSnapshot # Nil /\ judge.fundsSnapshot.owner = connected
    THEN judge.fundsSnapshot.funds ELSE Nil

usdtDisplay ==
    IF judge.dataSource = "demo" THEN judge.demoUsdc
    ELSE IF chainFunds # Nil THEN chainFunds.usdt ELSE 0

-----------------------------------------------------------------------------
(* Making a request.                                                       *)

actionsDisabled == judge.requestKind # Nil \/ (OnChain /\ connected = Nil)

\* What a request is made with: it is the closure Retry calls.
Action(kind) ==
    [kind |-> kind, owner |-> connected,
     before |-> IF OnChain /\ chainFunds # Nil THEN chainFunds.usdt ELSE 0]

Begun(panel, action) ==
    [panel EXCEPT !.requestKind = action.kind, !.errorMessage = FALSE, !.fundedRow = Nil,
                  !.retryAction = action]

FirstStage(action) ==
    IF judge.dataSource = "demo" THEN "timer"
    ELSE IF action.kind = "usdt" THEN "preparing" ELSE "asking"

Made(action) ==
    [kind |-> action.kind, owner |-> action.owner, before |-> action.before,
     stage |-> FirstStage(action), mounted |-> TRUE, sent |-> FALSE, landed |-> FALSE]

\* A new request: requests are numbered in order.
Make(action) ==
    /\ judge' = Begun(judge, action)
    /\ \E i \in Requests :
         /\ \A j \in Requests : request[j].stage = "none" <=> j >= i
         /\ request' = [request EXCEPT ![i] = Made(action)]

requestFunds(kind) ==
    /\ IsOpen /\ ~actionsDisabled
    /\ OnChain /\ kind = "usdt" => funds[connected].signs
    /\ Make(Action(kind))
    /\ UNCHANGED <<chainVars, connected, read>>

\* A wallet that cannot sign is told so.
CannotSign ==
    /\ OnChain /\ ~actionsDisabled
    /\ ~funds[connected].signs /\ ~judge.errorMessage
    /\ judge' = [judge EXCEPT !.errorMessage = TRUE]
    /\ UNCHANGED <<chainVars, connected, request, read>>

\* The closure has kept the requestKind of its time, none: that the row of the
\* error is gone while a request runs is all that keeps it from running twice.
Retry ==
    /\ IsOpen /\ judge.errorMessage /\ judge.retryAction # Nil
    /\ Make(judge.retryAction)
    /\ UNCHANGED <<chainVars, connected, read>>

-----------------------------------------------------------------------------
(* The course of a request.                                                *)

\* The row of what was funded, with the ticks it has been shown for.
Row(amount, kind, owner) == [amount |-> amount, kind |-> kind, owner |-> owner, age |-> 0]

\* A row with a timer more.
addFundedRow(panel, row) == [panel EXCEPT !.fundedRow = row, !.timers = @ \cup {FUNDED_DISMISS}]

\* A timer takes the row away; the one before it is cleared.
showFundedRow(panel, row) == [panel EXCEPT !.fundedRow = row, !.timers = {FUNDED_DISMISS}]

Over(i) == request' = [request EXCEPT ![i].stage = "over"]

\* The result alone is told.
ToldTheResult(i, panel) == IF request[i].mounted THEN judge' = panel ELSE UNCHANGED judge

\* The panel it was made in is told; one that is gone is not.
Told(i, panel) ==
    IF request[i].mounted THEN judge' = [panel EXCEPT !.requestKind = Nil] ELSE UNCHANGED judge

RequestFails(i) ==
    /\ request[i].stage \in {"preparing", "asking", "signing", "confirming", "accepted"}
    /\ Over(i)
    /\ Told(i, [judge EXCEPT !.errorMessage = TRUE])
    /\ UNCHANGED <<chainVars, connected, read>>

lamportsNeeded(o) == TRANSACTION_FEE + (IF funds[o].ata THEN 0 ELSE TOKEN_ACCOUNT_RENT)

\* The faucet: what it needs is read, the wallet is asked to sign, and the signed
\* transaction goes out.  Every step may fail or run into its deadline.
PrepareFaucet(i) ==
    /\ request[i].stage = "preparing"
    /\ funds[request[i].owner].sol >= lamportsNeeded(request[i].owner)
    /\ request' = [request EXCEPT ![i].stage = "signing"]
    /\ UNCHANGED <<chainVars, connected, judge, read>>

SignAndSend(i) ==
    /\ request[i].stage = "signing"
    /\ request' = [request EXCEPT ![i].stage = "confirming", ![i].sent = TRUE]
    /\ UNCHANGED <<chainVars, connected, judge, read>>

requestDevnetSolAirdrop(i) ==
    /\ request[i].stage = "asking"
    /\ request' = [request EXCEPT ![i].stage = "accepted", ![i].sent = TRUE]
    /\ UNCHANGED <<chainVars, connected, judge, read>>

Minted(wallet, lamports) ==
    [wallet EXCEPT !.sol = @ - lamports, !.usdt = @ + FAUCET_USDT, !.ata = TRUE]
Airdropped(wallet) == [wallet EXCEPT !.sol = @ + AIRDROP_SOL]

\* What was sent lands, even after the request has given up on it.
LandRequest(i) ==
    LET r == request[i]
        o == r.owner
    IN  /\ r.sent /\ ~r.landed
        /\ \/ /\ r.kind = "usdt"
              /\ funds[o].sol >= lamportsNeeded(o)
              /\ funds' = [funds EXCEPT ![o] = Minted(@, lamportsNeeded(o))]
              /\ granted' = [granted EXCEPT ![o] = @ + FAUCET_USDT]
           \/ /\ r.kind = "sol"
              /\ funds' = [funds EXCEPT ![o] = Airdropped(@)]
              /\ UNCHANGED granted
        /\ request' = [request EXCEPT ![i].landed = TRUE]
        /\ UNCHANGED <<connected, judge, read>>

Confirmed(i) ==
    /\ request[i].stage \in {"confirming", "accepted"} /\ request[i].landed
    /\ request' = [request EXCEPT ![i].stage = "refreshing"]
    /\ UNCHANGED <<chainVars, connected, judge, read>>

\* What the row says was granted: what the wallet has more than it had.
Grant(i, holds) ==
    IF request[i].kind = "sol" THEN AIRDROP_SOL
    ELSE IF holds = Nil THEN 0 ELSE holds.usdt - request[i].before

\* The balances are read again and shown with what was funded; a read that fails
\* leaves the old ones.
refreshChainFunds(i) ==
    LET o == request[i].owner
    IN  /\ request[i].stage = "refreshing"
        /\ Over(i)
        /\ \E holds \in {fetchWalletFunds(o), Nil} :
             Told(i, showFundedRow(
                 IF holds = Nil THEN judge ELSE [judge EXCEPT !.fundsSnapshot = Snapshot(o, holds)],
                 Row(Grant(i, holds), request[i].kind, o)))
        /\ UNCHANGED <<chainVars, connected, read>>

\* In a demo a timer ends the request, and the balance is the panel's own.
requestDemo(i) ==
    /\ request[i].stage = "timer" /\ request[i].mounted
    /\ Over(i)
    /\ IF request[i].kind = "usdt" /\ judge.faucetFails
       THEN Told(i, [judge EXCEPT !.errorMessage = TRUE])
       ELSE IF request[i].kind = "usdt"
       THEN Told(i, showFundedRow([judge EXCEPT !.demoUsdc = @ + FAUCET_USDT],
                                  Row(FAUCET_USDT, "usdt", Nil)))
       ELSE Told(i, showFundedRow(judge, Row(AIRDROP_SOL, "sol", Nil)))
    /\ UNCHANGED <<chainVars, connected, read>>

-----------------------------------------------------------------------------

OpenPanel ==
    /\ ~IsOpen
    /\ \E props \in Panels : judge' = Fresh(props) /\ readFirst(props.dataSource, connected)
    /\ UNCHANGED <<chainVars, connected, request>>

\* Shutting the panel clears its timers and forgets what it has asked for.
onClose ==
    /\ IsOpen
    /\ judge' = Nil /\ read' = Nil
    /\ request' = [i \in Requests |->
           [request[i] EXCEPT !.mounted = FALSE, !.stage = IF @ = "timer" THEN "over" ELSE @]]
    /\ UNCHANGED <<chainVars, connected>>

\* The browser's timers go on, and take the row away when they are due.
TimersLeft == {k - 1 : k \in judge.timers \ {1}}
Aged(row) == [row EXCEPT !.age = @ + 1]
RowLeft ==
    IF 1 \in judge.timers \/ judge.fundedRow = Nil THEN Nil ELSE Aged(judge.fundedRow)
TimersTick ==
    /\ IsOpen /\ judge.timers # {}
    /\ judge' = [judge EXCEPT !.timers = TimersLeft, !.fundedRow = RowLeft]
    /\ UNCHANGED <<chainVars, connected, request, read>>

Course(i) ==
    \/ RequestFails(i) \/ PrepareFaucet(i) \/ SignAndSend(i) \/ requestDevnetSolAirdrop(i)
    \/ Confirmed(i) \/ refreshChainFunds(i) \/ requestDemo(i)

JudgeNext ==
    \/ Connect \/ ReadFirst \/ FirstFundsShown
    \/ (\E kind \in Kinds : requestFunds(kind)) \/ CannotSign \/ Retry
    \/ \E i \in Requests : Course(i) \/ LandRequest(i)
    \/ OpenPanel \/ onClose \/ TimersTick

JudgeSpec == JudgeInit /\ [][JudgeNext]_judgeVars

\* Every stage of a request runs under a deadline, the wallet's prompt too, and a
\* browser's timer fires: a request goes on.
FairRequests == \A i \in Requests : WF_judgeVars(Course(i))
FairJudge == JudgeSpec /\ FairRequests

-----------------------------------------------------------------------------
(* Properties.                                                             *)

IsRunning(i) == request[i].mounted /\ request[i].stage \notin {"none", "over"}

\* A panel makes one request at a time and knows it: it is busy exactly while one
\* of its own runs, whatever was retried, and never by one of a panel shut before.
BusyWhileItsRequestRuns ==
    /\ Cardinality({i \in Requests : IsRunning(i)}) <= 1
    /\ IsOpen => judge.requestKind =
                   IF \E i \in Requests : IsRunning(i)
                   THEN request[CHOOSE i \in Requests : IsRunning(i)].kind ELSE Nil

\* The USDT a panel on chain shows is what the connected wallet has had: never that
\* of the wallet before it, though a request for that one refreshes it later.
BalanceIsOfTheConnected ==
    OnChain /\ connected # Nil => usdtDisplay <= funds[connected].usdt

\* A row never says that more was granted to a wallet than the faucet has given it,
\* unless a request was made before what it held had been read.
GrantWasGiven ==
    OnChain /\ judge.fundedRow # Nil /\ judge.fundedRow.kind = "usdt" =>
        LET o == judge.fundedRow.owner
        IN  \/ judge.fundedRow.amount <= granted[o]
            \/ \E i \in Requests :
                 request[i].owner = o /\ request[i].before = 0 /\ funds[o].usdt > granted[o]

\* A row stays its time, whatever rows came before it, unless a request begins.
RowStep ==
    IsOpen /\ judge.fundedRow # Nil /\ judge' # Nil /\ judge'.fundedRow = Nil =>
        judge.fundedRow.age = FUNDED_DISMISS - 1 \/ judge'.requestKind # Nil

\* What Retry asks for goes to the wallet that is connected (JudgePanel.tsx:315:
\* "Faucet funds go to the connected wallet.").
FundsStep ==
    \A i \in Requests :
        OnChain /\ request[i].stage = "none" /\ request'[i].stage # "none" =>
            request'[i].owner = connected

\* The balance shown of a wallet that spends nothing climbs (JudgePanel.tsx:77-78:
\* "then the balance climbs digit by digit under the blur").
ClimbsStep ==
    OnChain /\ OnChain' /\ connected # Nil /\ connected' = connected =>
        usdtDisplay' >= usdtDisplay

=============================================================================
