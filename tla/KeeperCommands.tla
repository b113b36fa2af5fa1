--------------------------- MODULE KeeperCommands ---------------------------
(***************************************************************************)
(* The commands an operator gives the keeper one at a time (index.ts):     *)
(* set the house up, fund its vault, bet, cash out, audit, refund.  Each   *)
(* is a plan of reads and transactions; an error that nothing catches      *)
(* crashes the command, whose transaction may yet be executed.             *)
(*                                                                         *)
(* The keeper's wallet is the house authority's and the only bettor's.     *)
(* Its serve loop quotes meanwhile, and others crank.                      *)
(***************************************************************************)
EXTENDS Transactions, Sequences

CONSTANTS
    Commands,     \* what the operator may ask for
    MaxCommands,  \* bound: commands given
    FaucetGrant, MaxGrants,  \* the tokens of one faucet call; how often it grants
    EnvToken,     \* TXLINE_API_TOKEN is set
    OwnKey, OtherKey,  \* the keeper's account and another auditor's
    MarketsAtFirst, Liquidity  \* the book at first, if there is a house

ASSUME CommandsAssumption ==
    /\ {MaxCommands, FaucetGrant, MaxGrants} \subseteq Nat
    /\ EnvToken \in BOOLEAN
    /\ {OwnKey, OtherKey} \subseteq Auditors
    /\ None \notin {"done", "declined", "crashed"}
\* What the command line may ask for.
ASSUME ArgvAssumption ==
    \A command \in Commands :
        \/ command.op = "setup"
        \/ command.op = "fund" /\ command.amount \in Nat
        \/ /\ command.op = "bet"
           /\ command.m \in MarketIds /\ command.side \in Sides /\ command.stake \in Amount
        \/ command.op \in {"cashout", "refund", "audit", "auditCashOut"} /\ command.t \in TicketIds
ASSUME BookAssumption == IsBook(MarketsAtFirst, NoTickets, Liquidity)

VARIABLES
    session,    \* the commands given so far, the last one possibly running
    hasAccount, \* the keeper's token account exists
    spare       \* its test USDT but for what its tickets took and brought

commandVars == <<vars, txVars, session, hasAccount, spare>>

CommandsInit ==
    /\ \/ Init /\ TxInit
       \/ BookWith(MarketsAtFirst, NoTickets, Liquidity)
    /\ session = <<>>
    /\ hasAccount \in BOOLEAN
    /\ spare = 0

\* The balance of the keeper's token account.
Usdt == spare + Total(NumTickets, [t \in TicketIds |-> paid[t] - ticket[t].stake])

-----------------------------------------------------------------------------
(* Running a command.                                                      *)

\* acquireTxlineAuth, for the commands that ask TxLINE for proofs.
AuthPlan == IF EnvToken THEN <<>> ELSE <<"guest", "subscribe", "activate">>

\* runSetup, fundHouseVault, placeBetFromKeeper and so on: what each command
\* does, in its order.
Plan(op) ==
    CASE op = "setup" -> <<"send">>
      [] op = "fund" -> <<"faucet", "deposit", "send", "reread">>
      [] op = "bet" -> <<"house", "balance", "send">>
      [] op \in {"cashout", "refund"} -> <<"house", "ticket", "send", "reread">>
      [] op = "audit" -> AuthPlan \o <<"house", "ticket", "proof", "send", "reread">>
      [] op = "auditCashOut" ->
           AuthPlan \o <<"house", "ticket", "proof", "send", "decide", "claim">>

IsRunning == session # <<>> /\ session[Len(session)].end = None
Current == session[Len(session)]
Asked == Current.command
AtStep(name) == IsRunning /\ Plan(Asked.op)[Current.step] = name

Runs(c) == session' = [session EXCEPT ![Len(session)] = c]
\* It has succeeded, returned false or exited, or thrown.
Ends(end) == Runs([Current EXCEPT !.end = end])
Goes(c) ==
    Runs(IF c.step = Len(Plan(c.command.op)) THEN [c EXCEPT !.end = "done"]
         ELSE [c EXCEPT !.step = @ + 1])

\* main: the operator gives a command and waits for it to end.
main(command) ==
    /\ ~IsRunning
    /\ Len(session) < MaxCommands
    /\ session' = Append(session, [command |-> command, step |-> 1, end |-> None,
                                   amount |-> 0, drew |-> FALSE, executed |-> 0])
    /\ UNCHANGED <<vars, txVars, hasAccount, spare>>

\* A step that only reads: it is answered, or it ends the command.
Reads(name, next) ==
    /\ AtStep(name)
    /\ \/ Answered /\ next
       \/ Fault /\ UNCHANGED inflight /\ Ends("crashed")
    /\ UNCHANGED <<vars, hasAccount, spare>>

\* The steps of acquireTxlineAuth: an HTTP error is reported, a lost call or an
\* unreadable answer is thrown.  The subscription is a transaction of TxLINE's.
Authenticate ==
    \E name \in {"guest", "subscribe", "activate"} :
        /\ AtStep(name)
        /\ \/ Answered /\ Goes(Current)
           \/ Fault /\ UNCHANGED inflight /\ Ends("declined")
           \/ Fault /\ UNCHANGED inflight /\ name # "subscribe" /\ Ends("crashed")
        /\ UNCHANGED <<vars, hasAccount, spare>>

FetchHouse == Reads("house", IF house.initialized THEN Goes(Current) ELSE Ends("declined"))

\* fetch throws when there is no such account; so does a cash-out's receipt.
Exists == IF Asked.op = "auditCashOut" THEN receipt[Asked.t].exists
          ELSE ticket[Asked.t].state # "Vacant"
FetchTicket == Reads("ticket", IF Exists THEN Goes(Current) ELSE Ends("crashed"))

\* The proof of the record that the ticket or receipt cites.
CitedRecord == IF Asked.op = "audit" THEN ticket[Asked.t].odds_record ELSE receipt[Asked.t].odds_record
FetchProof ==
    /\ AtStep("proof")
    /\ \/ Answered /\ IF CitedRecord \in DOMAIN OddsFeed THEN Goes(Current) ELSE Ends("declined")
       \/ Fault /\ UNCHANGED inflight /\ Ends("declined")
    /\ UNCHANGED <<vars, hasAccount, spare>>

\* requestFaucetUsdt creates the token account, then draws.  How often it
\* grants is TxLINE's to say.
Grants == MaxGrants * FaucetGrant
Drawn(granted) ==
    \/ /\ spare + FaucetGrant <= Grants
       /\ hasAccount' = TRUE
       /\ spare' = spare + FaucetGrant
       /\ UNCHANGED txVars
       /\ granted
NotDrawn(refused) ==
    \/ hasAccount' = TRUE /\ UNCHANGED <<txVars, spare>> /\ refused
    \/ Fault /\ UNCHANGED <<inflight, hasAccount, spare>> /\ refused

\* A bet draws only when the balance it reads is below the stake; to read the
\* balance of an account that does not exist throws.
ReadBalance ==
    /\ AtStep("balance")
    /\ \/ /\ hasAccount /\ Usdt >= Asked.stake
          /\ Answered /\ Goes(Current)
          /\ UNCHANGED <<hasAccount, spare>>
       \/ /\ hasAccount /\ Usdt < Asked.stake
          /\ \/ Drawn(Goes([Current EXCEPT !.drew = TRUE]))
             \/ NotDrawn(Runs([Current EXCEPT !.drew = TRUE, !.end = "declined"]))
       \/ /\ ~hasAccount
          /\ Answered /\ Ends("crashed")
          /\ UNCHANGED <<hasAccount, spare>>
       \/ Fault /\ Ends("crashed") /\ UNCHANGED <<inflight, hasAccount, spare>>
    /\ UNCHANGED vars

\* Funding goes on without a grant.
DrawOrNot ==
    /\ AtStep("faucet")
    /\ \/ Drawn(Goes([Current EXCEPT !.drew = TRUE]))
       \/ NotDrawn(Goes([Current EXCEPT !.drew = TRUE]))
    /\ UNCHANGED vars

WholeBalance == 0
AmountAsked == IF Asked.amount = WholeBalance THEN Usdt ELSE Asked.amount
FundHouse ==
    Reads("deposit",
          IF ~hasAccount THEN Ends("crashed")
          ELSE IF Usdt = 0 \/ AmountAsked > Usdt THEN Ends("declined")
          ELSE Goes([Current EXCEPT !.amount = AmountAsked]))

\* After a transaction, a command shows what became of it.
Reread == Reads("reread", Goes(Current))

\* Only a violation that nobody has repaired yet is claimed.
NeedsClaim(t) == receipt[t].audit_status = "Violation" /\ ~receipt[t].made_whole
DecideClaim == Reads("decide", IF NeedsClaim(Asked.t) THEN Goes(Current) ELSE Ends("done"))

-----------------------------------------------------------------------------
(* The command's transactions.                                             *)

TxOf(op) ==
    CASE op = "setup" -> [op |-> "setup", by |-> Len(session)]
      [] op = "fund" -> [op |-> "deposit", by |-> Len(session), amount |-> Current.amount]
      [] op = "bet" -> [op |-> "bet", by |-> Len(session), m |-> Asked.m, side |-> Asked.side,
                        stake |-> Asked.stake]
      [] op \in {"cashout", "refund", "audit"} -> [op |-> op, by |-> Len(session), t |-> Asked.t]
      [] op = "auditCashOut" -> [op |-> op, by |-> Len(session), t |-> Asked.t, auditor |-> OwnKey]
TheTx ==
    IF AtStep("claim") THEN [op |-> "claim", by |-> Len(session), t |-> Asked.t] ELSE TxOf(Asked.op)

\* The bounty an audit or a claim pays into the keeper's account.
Earned(tx) ==
    IF tx.op = "audit" \/ (tx.op = "claim" /\ receipt[tx.t].auditor = OwnKey)
    THEN bounty'[tx.t] - bounty[tx.t] ELSE 0

ExecuteForKeeper(tx) ==
    \/ tx.op = "setup" /\ \E params \in HouseParams : InitializeHouse(params) /\ spare' = spare
    \/ /\ tx.op = "deposit" /\ Usdt >= tx.amount
       /\ DepositLiquidity(tx.amount)
       /\ spare' = spare - tx.amount
    \/ /\ tx.op = "bet" => hasAccount /\ Usdt >= tx.stake
       /\ Execute(tx)
       /\ spare' = spare + Earned(tx)

Counted(c) == [c EXCEPT !.executed = @ + 1]
GoesOn == Goes(Counted(Current))

\* An unanswered transaction is not sent again: the command throws.
Resend == session' = session
CarriesOn == Goes(Current)
GivesUp == Ends("crashed")

\* The program, or the token program for it, refuses the transaction.
RefusedToKeeper(tx) == ~ENABLED ExecuteForKeeper(tx)

SendTx ==
    /\ AtStep("send") \/ AtStep("claim")
    /\ \/ ExecuteForKeeper(TheTx) /\ GoesOn /\ UNCHANGED txVars
       \/ RefusedToKeeper(TheTx) /\ Ends("crashed") /\ UNCHANGED <<vars, txVars, spare>>
       \/ /\ Fault
          /\ inflight' = inflight \cup {[tx |-> TheTx, expires |-> now + TxLifetime]}
          /\ GivesUp
          /\ UNCHANGED <<vars, spare>>
    /\ UNCHANGED hasAccount

Land ==
    \E late \in inflight :
        /\ now < late.expires
        /\ ExecuteForKeeper(late.tx)
        /\ inflight' = inflight \ {late}
        /\ session' = [session EXCEPT ![late.tx.by] = Counted(@)]
        /\ UNCHANGED <<faults, hasAccount>>

-----------------------------------------------------------------------------
(* The serve loop and other crankers.                                      *)

OthersAct ==
    /\ \/ \E m \in MarketIds : \/ \E q \in Quotes, r \in RecordIds : PostQuote(m, q, r)
                               \/ LockMarket(m)
                               \/ \E proof \in ScoreProofs : VerifyMarket(m, proof)
       \/ \E t \in TicketIds : \/ SettleTicket(t)
                               \/ RefundTicket(t)
                               \/ AuditTicket(t)
                               \/ AuditCashOut(t, OtherKey)
                               \/ receipt[t].auditor = OtherKey /\ ClaimCashOutRepair(t)
    /\ UNCHANGED <<txVars, session, hasAccount, spare>>

OperatorStep ==
    \/ Authenticate \/ FetchHouse \/ FetchTicket \/ FetchProof
    \/ ReadBalance \/ DrawOrNot \/ FundHouse \/ Reread \/ DecideClaim
    \/ SendTx

CommandsNext ==
    \/ \E command \in Commands : main(command)
    \/ OperatorStep
    \/ Land
    \/ ClockTicks /\ UNCHANGED <<session, hasAccount, spare>>
    \/ OthersAct

CommandsSpec == CommandsInit /\ [][CommandsNext]_commandVars

-----------------------------------------------------------------------------
(* Properties.                                                             *)

CommandNumbers == DOMAIN session

\* What a command that reports success has brought about, and nothing that
\* anyone did meanwhile has undone: a proven cash-out is also repaired, by this
\* command or by whoever was faster.
Achieved(command) ==
    CASE command.op \in {"setup", "fund"} -> house.initialized
      [] command.op = "bet" -> \E t \in TicketIds : ticket[t].stake = command.stake
      [] command.op = "cashout" -> receipt[command.t].exists
      [] command.op = "refund" -> ticket[command.t].state = "Refunded"
      [] command.op = "audit" -> ticket[command.t].audit_status # "Unaudited"
      [] command.op = "auditCashOut" ->
           \/ receipt[command.t].audit_status = "Honest"
           \/ receipt[command.t].audit_status = "Violation" /\ receipt[command.t].made_whole
DoneIsAchieved ==
    \A n \in CommandNumbers : session[n].end = "done" => Achieved(session[n].command)

\* A command executes each of its transactions at most once, even when an answer
\* was lost and the transaction landed after the command had ended; one that was
\* declined has executed none and never will.
TransactionsOf(op) == IF op = "auditCashOut" THEN 2 ELSE 1
ExecutedAtMostOnce ==
    \A n \in CommandNumbers :
        /\ session[n].executed <= TransactionsOf(session[n].command.op)
        /\ session[n].end = "declined" =>
             session[n].executed = 0 /\ \A late \in inflight : late.tx.by # n

\* "Draws from the TxLINE faucet when the wallet's USDT balance cannot cover the
\* stake" (jobs.ts:576-577): with no failure, a bet of a wallet that never held
\* any test USDT asks the faucet before it gives up.
EmptyWalletDraws ==
    \A n \in CommandNumbers :
        /\ faults = 0 /\ ~hasAccount
        /\ session[n].command.op = "bet" /\ session[n].end = "crashed"
        => session[n].drew

=============================================================================
