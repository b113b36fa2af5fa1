--------------------------- MODULE CommandsProofs ---------------------------
(***************************************************************************)
(* Proofs about the operator's commands (KeeperCommands): for any number   *)
(* of commands, markets and tickets, any failures and lost answers, and    *)
(* whatever the serve loop and other crankers do meanwhile.                *)
(***************************************************************************)
EXTENDS KeeperCommands, TrueBookProofs, FiniteSetTheorems

-----------------------------------------------------------------------------
(* The inductive invariant.                                                *)

Ops == {"setup", "fund", "bet", "cashout", "refund", "audit", "auditCashOut"}

\* Where in its plan a command sends its first transaction.
SendStep(op) ==
    IF op = "setup" THEN 1
    ELSE IF op \in {"fund", "bet", "cashout", "refund"} THEN 3
    ELSE Len(AuthPlan) + 4

\* A transaction of a command, whenever it is executed.
IsSound(tx) ==
    \/ tx.op = "setup"
    \/ tx.op = "deposit" /\ tx.amount \in Int
    \/ tx.op = "bet" /\ tx.m \in MarketIds /\ tx.side \in Sides /\ tx.stake \in Amount
    \/ tx.op \in {"cashout", "refund", "audit", "claim"} /\ tx.t \in TicketIds
    \/ tx.op = "auditCashOut" /\ tx.t \in TicketIds /\ tx.auditor = OwnKey

\* What the first transaction of a command, once executed, has brought about and
\* nothing undoes.
IsAchieved(command) ==
    IF command.op \in {"setup", "fund"} THEN house.initialized
    ELSE IF command.op = "bet"
      THEN \E t \in TicketIds : ticket[t].state # "Vacant" /\ ticket[t].stake = command.stake
    ELSE IF command.op = "cashout" THEN receipt[command.t].exists
    ELSE IF command.op = "refund" THEN ticket[command.t].state = "Refunded"
    ELSE IF command.op = "audit" THEN ticket[command.t].audit_status # "Unaudited"
    ELSE receipt[command.t].audit_status # "Unaudited"

\* A command in the session's history.
Entry ==
    [command : Commands, step : Nat, end : {None, "done", "declined", "crashed"},
     amount : Int, drew : BOOLEAN, executed : Nat]

\* How often it has executed a transaction.
CountIsSound(c) ==
    /\ c.executed <= TransactionsOf(c.command.op)
    /\ c.end = None /\ c.step <= SendStep(c.command.op) => c.executed = 0
    /\ c.end = None => c.executed <= 1
    /\ c.end = "declined" => c.executed = 0

\* What it has brought about.
ResultIsSound(c) ==
    /\ c.end = None /\ c.step > SendStep(c.command.op) => IsAchieved(c.command)
    /\ c.end = "done" => IsAchieved(c.command)
    /\ c.end = "done" /\ c.command.op = "auditCashOut" => ~NeedsClaim(c.command.t)

EntryIsSound(c) ==
    c \in Entry /\ c.step \in 1..Len(Plan(c.command.op)) /\ CountIsSound(c) /\ ResultIsSound(c)
SessionIsSound ==
    /\ session \in Seq(Entry)
    /\ \A n \in CommandNumbers :
         EntryIsSound(session[n]) /\ (session[n].end = None => n = Len(session))

\* A command that lost the answer to a transaction has crashed, and sent no
\* other.
LateIsSound(late) ==
    LET n == late.tx.by
    IN  /\ n \in CommandNumbers /\ IsSound(late.tx)
        /\ session[n].end = "crashed"
        /\ session[n].executed < TransactionsOf(session[n].command.op)
InflightIsSound ==
    /\ \A late \in inflight : LateIsSound(late)
    /\ \A late, other \in inflight : late.tx.by = other.tx.by => late = other

CommandsInv == VerdictInv /\ spare \in Int /\ SessionIsSound /\ InflightIsSound

-----------------------------------------------------------------------------
(* The plans.                                                              *)

LEMMA CommandOps ==
    ASSUME NEW command \in Commands
    PROVE  /\ command.op \in Ops
           /\ command.op = "fund" => command.amount \in Nat
           /\ command.op = "bet" => command.m \in MarketIds /\ command.side \in Sides
                                      /\ command.stake \in Amount
           /\ command.op \in {"cashout", "refund", "audit", "auditCashOut"} => command.t \in TicketIds
  BY ArgvAssumption DEF Ops

\* A command sends once, in the middle of its plan; but for the audit of a
\* cash-out, which then decides whether to send a claim.
LEMMA PlanFacts ==
    ASSUME NEW op \in Ops
    PROVE  /\ Len(Plan(op)) \in Nat /\ SendStep(op) \in 1..Len(Plan(op))
           /\ op = "auditCashOut" => Len(Plan(op)) = SendStep(op) + 2
           /\ \A k \in 1..Len(Plan(op)) :
                /\ Plan(op)[k] = "send" => k = SendStep(op)
                /\ Plan(op)[k] = "decide" => op = "auditCashOut" /\ k = SendStep(op) + 1
                /\ Plan(op)[k] = "claim" => op = "auditCashOut" /\ k = SendStep(op) + 2
                /\ Plan(op)[k] = "reread" => op # "auditCashOut" /\ k > SendStep(op)
                /\ Plan(op)[k] = "deposit" => op = "fund"
                /\ Plan(op)[k] \in {"guest", "subscribe", "activate", "house", "ticket", "proof",
                                    "balance", "faucet", "deposit"} => k < SendStep(op)
<1>1. CASE op = "setup"
  BY <1>1 DEF Plan, SendStep
<1>2. CASE op = "fund"
  BY <1>2 DEF Plan, SendStep
<1>3. CASE op = "bet"
  BY <1>3 DEF Plan, SendStep
<1>4. CASE op = "cashout"
  BY <1>4 DEF Plan, SendStep
<1>5. CASE op = "refund"
  BY <1>5 DEF Plan, SendStep
<1>6. CASE op = "audit"
  <2>1. CASE EnvToken
    BY <1>6, <2>1 DEF Plan, SendStep, AuthPlan
  <2>2. CASE ~EnvToken
    BY <1>6, <2>2 DEF Plan, SendStep, AuthPlan
  <2> QED BY <2>1, <2>2
<1>7. CASE op = "auditCashOut"
  <2>1. CASE EnvToken
    BY <1>7, <2>1 DEF Plan, SendStep, AuthPlan
  <2>2. CASE ~EnvToken
    BY <1>7, <2>2 DEF Plan, SendStep, AuthPlan
  <2> QED BY <2>1, <2>2
<1> QED BY <1>1, <1>2, <1>3, <1>4, <1>5, <1>6, <1>7 DEF Ops

-----------------------------------------------------------------------------
(* What an instruction keeps.                                              *)

\* A house that was set up stays so.
LEMMA HouseStays ==
    ASSUME BookInv, [Instruction]_vars, house.initialized
    PROVE  house'.initialized
<1>1. house \in House
  BY DEF BookInv, TypeOK
<1>2. ASSUME \/ \E params \in HouseParams : InitializeHouse(params)
             \/ \E f \in Fixtures, p \in Predicates, k \in Nat : CreateMarket(f, p, k)
      PROVE  house'.initialized
  BY <1>1, <1>2 DEF InitializeHouse, CreateMarket, House
<1>3. ASSUME \E t \in TicketIds, m \in MarketIds, s \in Sides, stake \in Amount :
               PlaceBet(t, m, s, stake)
      PROVE  house'.initialized
  BY <1>3, PlaceBetEffect
<1>4. ASSUME NEW t \in TicketIds, CashOutTicket(t) \/ SettleTicket(t) \/ RefundTicket(t)
      PROVE  house'.initialized
  BY <1>1, <1>4 DEF CashOutTicket, SettleTicket, RefundTicket, ReleaseExposure, House
<1>5. ASSUME \/ \E amount \in Amount : DepositLiquidity(amount) \/ WithdrawLiquidity(amount)
             \/ \E m \in MarketIds, q \in [Sides -> Nat], r \in RecordIds : PostQuote(m, q, r)
             \/ \E m \in MarketIds : LockMarket(m)
             \/ \E m \in MarketIds, proof \in ScoreProofs : VerifyMarket(m, proof)
             \/ \E m \in MarketIds, byAuthority \in BOOLEAN : VoidMarket(m, byAuthority)
             \/ \E t \in TicketIds : AuditTicket(t) \/ ClaimCashOutRepair(t)
             \/ \E t \in TicketIds, a \in Auditors : AuditCashOut(t, a)
             \/ Tick \/ UNCHANGED vars
      PROVE  house' = house
  BY <1>5 DEF DepositLiquidity, WithdrawLiquidity, PostQuote, LockMarket, VerifyMarket, VoidMarket,
       AuditTicket, ClaimCashOutRepair, AuditCashOut, DecideCashOut, Tick, vars, accounts
<1> QED BY <1>2, <1>3, <1>4, <1>5 DEF Instruction

\* A refunded ticket has come to its end.
LEMMA RefundedStays ==
    ASSUME BookInv, [Instruction]_vars, NEW t \in TicketIds, ticket[t].state = "Refunded"
    PROVE  ticket'[t].state = "Refunded"
<1>1. ticket \in [TicketIds -> Ticket]
  BY DEF BookInv, TypeOK
<1>2. ASSUME NEW u \in TicketIds, CashOutTicket(u) \/ SettleTicket(u) \/ RefundTicket(u)
      PROVE  ticket'[t] = ticket[t]
  <2>1. u # t /\ \E s : Close(u, s)
    BY <1>2 DEF CashOutTicket, SettleTicket, RefundTicket
  <2> QED BY <1>1, <2>1 DEF Close
<1>3. ASSUME NEW u \in TicketIds,
             \/ \E m \in MarketIds, s \in Sides, stake \in Amount : PlaceBet(u, m, s, stake)
             \/ AuditTicket(u)
      PROVE  ticket'[t].state = ticket[t].state
  <2>1. CASE AuditTicket(u)
    <3>1. ticket'[u].state \in {ticket[u].state, StateOnceFlagged(u)}
      BY <1>1, <2>1 DEF AuditTicket, Ticket
    <3>2. \A v \in TicketIds : v # u => ticket'[v] = ticket[v]
      BY <2>1, AuditTicketEffect
    <3> QED BY <3>1, <3>2 DEF StateOnceFlagged, FlaggedByViolation
  <2>2. CASE \E m \in MarketIds, s \in Sides, stake \in Amount : PlaceBet(u, m, s, stake)
    <3>1. PICK m \in MarketIds, s \in Sides, stake \in Amount : PlaceBet(u, m, s, stake)
      BY <2>2
    <3>2. /\ ticket[u].state = "Vacant"
          /\ \A v \in TicketIds : v # u => ticket'[v] = ticket[v]
      BY <3>1, PlaceBetEffect
    <3> QED BY <3>2
  <2> QED BY <1>3, <2>1, <2>2
<1>4. ASSUME \/ \E params \in HouseParams : InitializeHouse(params)
             \/ \E amount \in Amount : DepositLiquidity(amount) \/ WithdrawLiquidity(amount)
             \/ \E f \in Fixtures, p \in Predicates, k \in Nat : CreateMarket(f, p, k)
             \/ \E m \in MarketIds, q \in [Sides -> Nat], r \in RecordIds : PostQuote(m, q, r)
             \/ \E m \in MarketIds : LockMarket(m)
             \/ \E m \in MarketIds, proof \in ScoreProofs : VerifyMarket(m, proof)
             \/ \E m \in MarketIds, byAuthority \in BOOLEAN : VoidMarket(m, byAuthority)
             \/ \E u \in TicketIds : ClaimCashOutRepair(u)
             \/ \E u \in TicketIds, a \in Auditors : AuditCashOut(u, a)
             \/ Tick \/ UNCHANGED vars
      PROVE  ticket' = ticket
  BY <1>4 DEF InitializeHouse, DepositLiquidity, WithdrawLiquidity, CreateMarket, PostQuote,
       LockMarket, VerifyMarket, VoidMarket, ClaimCashOutRepair, AuditCashOut, DecideCashOut,
       Tick, vars, accounts
<1> QED BY <1>2, <1>3, <1>4 DEF Instruction

\* A cash-out that was repaired stays so.
LEMMA RepairedStays ==
    ASSUME VerdictInv, [Instruction]_vars, NEW t \in TicketIds, receipt[t].made_whole
    PROVE  receipt'[t].made_whole
<1>0. BookInv /\ receipt[t].exists
  BY DEF VerdictInv, NumberingInv, VerdictsAreRight
<1>1. ASSUME NEW u \in TicketIds, CashOutTicket(u)
      PROVE  receipt'[t] = receipt[t]
  BY <1>0, <1>1, CashOutEffect
<1>2. ASSUME NEW u \in TicketIds, NEW a \in Auditors, DecideCashOut(u, a)
      PROVE  receipt'[t].made_whole
  BY <1>0, <1>2, AuditCashOutEffect
<1>3. ASSUME NEW u \in TicketIds, ClaimCashOutRepair(u)
      PROVE  receipt'[t].made_whole
  BY <1>0, <1>3, ClaimEffect
<1>4. ASSUME \/ \E params \in HouseParams : InitializeHouse(params)
             \/ \E amount \in Amount : DepositLiquidity(amount) \/ WithdrawLiquidity(amount)
             \/ \E f \in Fixtures, p \in Predicates, k \in Nat : CreateMarket(f, p, k)
             \/ \E m \in MarketIds, q \in [Sides -> Nat], r \in RecordIds : PostQuote(m, q, r)
             \/ \E m \in MarketIds : LockMarket(m)
             \/ \E m \in MarketIds, proof \in ScoreProofs : VerifyMarket(m, proof)
             \/ \E m \in MarketIds, byAuthority \in BOOLEAN : VoidMarket(m, byAuthority)
             \/ \E u \in TicketIds : SettleTicket(u) \/ RefundTicket(u) \/ AuditTicket(u)
             \/ Tick \/ UNCHANGED vars
      PROVE  receipt' = receipt
  BY <1>4 DEF InitializeHouse, DepositLiquidity, WithdrawLiquidity, CreateMarket, PostQuote,
       LockMarket, VerifyMarket, VoidMarket, SettleTicket, RefundTicket, AuditTicket,
       Tick, vars, accounts
<1>5. ASSUME \E u \in TicketIds, m \in MarketIds, s \in Sides, stake \in Amount :
               PlaceBet(u, m, s, stake)
      PROVE  receipt' = receipt
  BY <1>0, <1>5, PlaceBetEffect
<1> QED BY <1>1, <1>2, <1>3, <1>4, <1>5 DEF Instruction, AuditCashOut, vars, accounts

\* Nothing that anyone does undoes what a command has brought about.
LEMMA AchievedStays ==
    ASSUME VerdictInv, [Instruction]_vars, NEW command \in Commands, IsAchieved(command)
    PROVE  IsAchieved(command)'
<1>1. BookInv /\ TermsKept /\ KeepsVerdicts
  BY TermsNext, VerdictNext DEF VerdictInv, NumberingInv
<1>2. CASE command.op \in {"setup", "fund"}
  BY <1>1, <1>2, HouseStays DEF IsAchieved
<1>3. CASE command.op = "bet"
  BY <1>1, <1>3 DEF IsAchieved, TermsKept, TicketTermsKept
<1>4. CASE command.op = "cashout"
  BY <1>1, <1>4, CommandOps DEF IsAchieved, TermsKept, ReceiptTermsKept
<1>5. CASE command.op = "refund"
  BY <1>1, <1>5, CommandOps, RefundedStays DEF IsAchieved
<1>6. CASE command.op \in {"audit", "auditCashOut"}
  BY <1>1, <1>6, CommandOps DEF IsAchieved, KeepsVerdicts
<1> QED BY <1>2, <1>3, <1>4, <1>5, <1>6, CommandOps DEF Ops

LEMMA ResultStays ==
    ASSUME VerdictInv, [Instruction]_vars, NEW c \in Entry, ResultIsSound(c)
    PROVE  ResultIsSound(c)'
<1>1. c.command \in Commands
  BY DEF Entry
<1>2. IsAchieved(c.command) => IsAchieved(c.command)'
  BY <1>1, AchievedStays
<1>3. ASSUME c.end = "done", c.command.op = "auditCashOut"
      PROVE  ~NeedsClaim(c.command.t)'
  <2>1. PICK t \in TicketIds : t = c.command.t
    BY <1>1, <1>3, CommandOps
  <2>2. receipt[t].audit_status # "Unaudited" /\ ~NeedsClaim(t)
    BY <1>3, <2>1 DEF ResultIsSound, IsAchieved
  <2>3. receipt'[t].audit_status = receipt[t].audit_status
    BY <2>2, VerdictNext DEF KeepsVerdicts
  <2>4. ~NeedsClaim(t)'
    BY <2>2, <2>3, RepairedStays DEF NeedsClaim
  <2> QED BY <2>1, <2>4
<1> QED BY <1>2, <1>3 DEF ResultIsSound

-----------------------------------------------------------------------------
(* What a transaction does, whenever it is executed.                       *)

Did(tx) ==
    /\ tx.op \in {"setup", "deposit"} => house.initialized
    /\ tx.op = "bet" => \E t \in TicketIds : ticket[t].state # "Vacant" /\ ticket[t].stake = tx.stake
    /\ tx.op = "cashout" => receipt[tx.t].exists
    /\ tx.op = "refund" => ticket[tx.t].state = "Refunded"
    /\ tx.op = "audit" => ticket[tx.t].audit_status # "Unaudited"
    /\ tx.op = "auditCashOut" => receipt[tx.t].audit_status # "Unaudited"
    /\ tx.op = "claim" => ~NeedsClaim(tx.t)

LEMMA ExecutionIsSound ==
    ASSUME VerdictInv, spare \in Int, NEW tx, IsSound(tx), ExecuteForKeeper(tx)
    PROVE  Instruction /\ Did(tx)' /\ spare' \in Int
<1>0. /\ BookInv /\ TypeOK /\ house \in House /\ vault \in Nat /\ U64_MAX \in Nat
      /\ bounty \in [TicketIds -> Nat] /\ receipt \in [TicketIds -> CashOutReceipt]
      /\ ticket \in [TicketIds -> Ticket]
  BY ConstantTypes, BoundsAssumption DEF VerdictInv, NumberingInv, BookInv, TypeOK
<1>1. CASE tx.op = "setup"
  <2>1. PICK params \in HouseParams : InitializeHouse(params) /\ spare' = spare
    BY <1>1 DEF ExecuteForKeeper, Execute
  <2>2. house'.initialized
    BY <2>1 DEF InitializeHouse, NoHouse
  <2> QED BY <1>1, <2>1, <2>2 DEF Instruction, Did
<1>2. CASE tx.op = "deposit" /\ tx.amount \in Int
  <2>1. DepositLiquidity(tx.amount) /\ spare' = spare - tx.amount
    BY <1>2 DEF ExecuteForKeeper, Execute
  <2>2. tx.amount \in Amount
    BY <1>0, <1>2, <2>1 DEF DepositLiquidity, Amount
  <2>3. house'.initialized
    BY <2>1 DEF DepositLiquidity
  <2> QED BY <1>2, <2>1, <2>2, <2>3 DEF Instruction, Did
<1>3. ASSUME tx.op \notin {"setup", "deposit"}
      PROVE  Execute(tx) /\ spare' = spare + Earned(tx)
  BY <1>3 DEF ExecuteForKeeper
<1>4. CASE tx.op = "bet" /\ tx.m \in MarketIds /\ tx.side \in Sides /\ tx.stake \in Amount
  <2>1. PICK t \in TicketIds : PlaceBet(t, tx.m, tx.side, tx.stake)
    BY <1>3, <1>4 DEF Execute
  <2>2. ticket'[t].state # "Vacant" /\ ticket'[t].stake = tx.stake
    BY <1>0, <2>1 DEF PlaceBet, NoTicket
  <2>3. spare' = spare + 0
    BY <1>3, <1>4 DEF Earned
  <2> QED BY <1>4, <2>1, <2>2, <2>3 DEF Instruction, Did
<1>5. CASE tx.op = "cashout" /\ tx.t \in TicketIds
  <2>1. CashOutTicket(tx.t)
    BY <1>3, <1>5 DEF Execute
  <2>2. receipt'[tx.t].exists
    BY <1>0, <1>5, <2>1, CashOutEffect
  <2>3. spare' = spare + 0
    BY <1>3, <1>5 DEF Earned
  <2> QED BY <1>5, <2>1, <2>2, <2>3 DEF Instruction, Did
<1>6. CASE tx.op = "refund" /\ tx.t \in TicketIds
  <2>1. RefundTicket(tx.t)
    BY <1>3, <1>6 DEF Execute
  <2>2. ticket'[tx.t].state = "Refunded"
    BY <1>0, <1>6, <2>1 DEF RefundTicket, Close
  <2>3. spare' = spare + 0
    BY <1>3, <1>6 DEF Earned
  <2> QED BY <1>6, <2>1, <2>2, <2>3 DEF Instruction, Did
<1>7. CASE tx.op = "audit" /\ tx.t \in TicketIds
  <2>1. AuditTicket(tx.t)
    BY <1>3, <1>7 DEF Execute
  <2>2. /\ ticket'[tx.t].audit_status # "Unaudited"
        /\ bounty' \in [TicketIds -> Nat]
    BY <1>0, <1>7, <2>1, AuditTicketEffect
  <2>3. Earned(tx) = bounty'[tx.t] - bounty[tx.t]
    BY <1>7 DEF Earned
  <2>4. PICK b \in Nat, c \in Nat : b = bounty'[tx.t] /\ c = bounty[tx.t]
    BY <1>0, <1>7, <2>2
  <2>5. spare' = spare + (b - c)
    BY <1>3, <1>7, <2>3, <2>4
  <2> QED BY <1>7, <2>1, <2>2, <2>5 DEF Instruction, Did
<1>8. CASE tx.op = "auditCashOut" /\ tx.t \in TicketIds /\ tx.auditor = OwnKey
  <2>1. OwnKey \in Auditors /\ AuditCashOut(tx.t, OwnKey)
    BY <1>3, <1>8, CommandsAssumption DEF Execute
  <2>2. receipt'[tx.t].audit_status # "Unaudited"
    <3>1. CASE DecideCashOut(tx.t, OwnKey)
      BY <1>0, <1>8, <2>1, <3>1, AuditCashOutEffect
    <3>2. CASE receipt[tx.t].audit_status = "Violation" /\ UNCHANGED vars
      BY <3>2 DEF vars, accounts
    <3> QED BY <2>1, <3>1, <3>2 DEF AuditCashOut
  <2>3. spare' = spare + 0
    BY <1>3, <1>8 DEF Earned
  <2> QED BY <1>8, <2>1, <2>2, <2>3 DEF Instruction, Did
<1>9. CASE tx.op = "claim" /\ tx.t \in TicketIds
  <2>1. ClaimCashOutRepair(tx.t)
    BY <1>3, <1>9 DEF Execute
  <2>2. Instruction
    BY <1>9, <2>1 DEF Instruction
  <2>3. receipt'[tx.t].made_whole /\ bounty' \in [TicketIds -> Nat]
    BY <1>0, <1>9, <2>1, <2>2, ClaimEffect, BookInvNext DEF BookInv, TypeOK
  <2>4. Earned(tx) \in {bounty'[tx.t] - bounty[tx.t], 0}
    BY <1>9 DEF Earned
  <2>5. PICK b \in Nat, c \in Nat : b = bounty'[tx.t] /\ c = bounty[tx.t]
    BY <1>0, <1>9, <2>3
  <2>6. spare' = spare + (b - c) \/ spare' = spare + 0
    BY <1>3, <1>9, <2>4, <2>5
  <2> QED BY <1>9, <2>2, <2>3, <2>6 DEF Did, NeedsClaim
<1> QED BY <1>1, <1>2, <1>4, <1>5, <1>6, <1>7, <1>8, <1>9 DEF IsSound

-----------------------------------------------------------------------------
(* The running command.                                                    *)

LEMMA RunningIsSound ==
    ASSUME SessionIsSound, IsRunning
    PROVE  /\ Len(session) \in Nat /\ Len(session) \in CommandNumbers
           /\ CommandNumbers = 1..Len(session)
           /\ session \in [1..Len(session) -> Entry]
           /\ EntryIsSound(Current) /\ Current \in Entry /\ Current.end = None
           /\ Asked \in Commands /\ Asked.op \in Ops
           /\ Current.step \in Nat /\ Current.executed \in Nat
<1>1. /\ Len(session) \in Nat /\ CommandNumbers = 1..Len(session)
      /\ session \in [1..Len(session) -> Entry] /\ session # <<>>
  BY DEF SessionIsSound, CommandNumbers, IsRunning
<1>2. Len(session) \in 1..Len(session)
  BY <1>1
<1>3. EntryIsSound(Current) /\ Current.end = None
  BY <1>1, <1>2 DEF SessionIsSound, IsRunning, Current
<1>4. Current \in Entry
  BY <1>3 DEF EntryIsSound
<1> QED BY <1>1, <1>2, <1>3, <1>4, CommandOps DEF Entry, Asked

LEMMA FunctionsAreSequences ==
    ASSUME NEW S, NEW n \in Nat, NEW f \in [1..n -> S]
    PROVE  f \in Seq(S) /\ Len(f) = n /\ DOMAIN f = 1..n
  OBVIOUS

\* One command moves: the others, and the transactions they gave up on, stay.
LEMMA OneMoves ==
    ASSUME VerdictInv, [Instruction]_vars, SessionIsSound,
           NEW n \in CommandNumbers, NEW c, EntryIsSound(c)', c.end = None => n = Len(session),
           session' = [session EXCEPT ![n] = c]
    PROVE  /\ SessionIsSound'
           /\ Len(session') = Len(session) /\ CommandNumbers' = CommandNumbers
           /\ session'[n] = c
           /\ \A late : LateIsSound(late) /\ late.tx.by # n => LateIsSound(late)'
<1>1. c \in Entry
  BY DEF EntryIsSound
<1>2. PICK l \in Nat : l = Len(session) /\ session \in [1..l -> Entry] /\ CommandNumbers = 1..l
  BY DEF SessionIsSound, CommandNumbers
<1>3. /\ session' \in [1..l -> Entry] /\ session'[n] = c
      /\ \A k \in 1..l : k # n => session'[k] = session[k]
  BY <1>1, <1>2
<1>4. session' \in Seq(Entry) /\ Len(session') = l /\ CommandNumbers' = 1..l
  <2>1. PICK after \in [1..l -> Entry] : after = session'
    BY <1>3
  <2>2. after \in Seq(Entry) /\ Len(after) = l /\ DOMAIN after = 1..l
    BY FunctionsAreSequences
  <2> QED BY <2>1, <2>2 DEF CommandNumbers
<1>5. ASSUME NEW k \in 1..l
      PROVE  EntryIsSound(session[k])' /\ (session'[k].end = None => k = l)
  <2>1. CASE k = n
    <3>1. session'[k] = c
      BY <1>3, <2>1
    <3> QED BY <1>2, <2>1, <3>1 DEF EntryIsSound, ResultIsSound
  <2>2. CASE k # n
    <3>1. PICK e : e = session[k]
      OBVIOUS
    <3>2. EntryIsSound(e) /\ (e.end = None => k = l) /\ e \in Entry
      BY <1>2, <3>1 DEF SessionIsSound, EntryIsSound
    <3>3. EntryIsSound(e)'
      BY <3>2, ResultStays DEF EntryIsSound
    <3>4. session'[k] = e
      BY <1>3, <2>2, <3>1
    <3> QED BY <3>2, <3>3, <3>4 DEF EntryIsSound, ResultIsSound
  <2> QED BY <2>1, <2>2
<1>6. SessionIsSound'
  BY <1>4, <1>5 DEF SessionIsSound
<1>7. ASSUME NEW late, LateIsSound(late), late.tx.by # n
      PROVE  LateIsSound(late)'
  BY <1>2, <1>3, <1>4, <1>7 DEF LateIsSound, IsSound
<1> QED BY <1>2, <1>4, <1>3, <1>6, <1>7

LEMMA MovesOn ==
    ASSUME VerdictInv, [Instruction]_vars, SessionIsSound, InflightIsSound, IsRunning,
           NEW c, EntryIsSound(c)', Runs(c)
    PROVE  /\ SessionIsSound'
           /\ Len(session) \in CommandNumbers' /\ session'[Len(session)] = c
           /\ \A late \in inflight : LateIsSound(late)' /\ late.tx.by # Len(session)
<1>1. PICK n : n = Len(session)
  OBVIOUS
<1>2. n \in CommandNumbers /\ session[n].end = None
  BY <1>1, RunningIsSound DEF Current
<1>3. session' = [session EXCEPT ![n] = c]
  BY <1>1 DEF Runs
<1>4. /\ SessionIsSound' /\ CommandNumbers' = CommandNumbers /\ session'[n] = c
      /\ \A late : LateIsSound(late) /\ late.tx.by # n => LateIsSound(late)'
  BY <1>1, <1>2, <1>3, OneMoves
<1>5. ASSUME NEW late \in inflight
      PROVE  LateIsSound(late)' /\ late.tx.by # n
  BY <1>2, <1>4, CommandsAssumption DEF InflightIsSound, LateIsSound
<1> QED BY <1>1, <1>2, <1>4, <1>5

\* Nobody moves: time passes, or others do something.
LEMMA NobodyMoves ==
    ASSUME VerdictInv, [Instruction]_vars, SessionIsSound, InflightIsSound,
           session' = session, inflight' \subseteq inflight
    PROVE  SessionIsSound' /\ InflightIsSound'
<1>1. ASSUME NEW n \in CommandNumbers
      PROVE  EntryIsSound(session[n])' /\ (session[n].end = None => n = Len(session))
  <2>1. PICK e : e = session[n]
    OBVIOUS
  <2>2. EntryIsSound(e) /\ (e.end = None => n = Len(session)) /\ e \in Entry
    BY <2>1 DEF SessionIsSound, EntryIsSound
  <2>3. EntryIsSound(e)'
    BY <2>2, ResultStays DEF EntryIsSound
  <2>4. session'[n] = e
    BY <2>1
  <2> QED BY <2>1, <2>2, <2>3, <2>4 DEF EntryIsSound, ResultIsSound
<1>2. SessionIsSound'
  BY <1>1 DEF SessionIsSound, CommandNumbers
<1>3. InflightIsSound'
  BY DEF InflightIsSound, LateIsSound, IsSound, CommandNumbers
<1> QED BY <1>2, <1>3

Kept == SessionIsSound' /\ InflightIsSound'

LEMMA MovesQuietly ==
    ASSUME VerdictInv, [Instruction]_vars, SessionIsSound, InflightIsSound, IsRunning,
           NEW c, EntryIsSound(c)', Runs(c), inflight' = inflight
    PROVE  Kept
  BY MovesOn DEF Kept, InflightIsSound

\* A command may throw anywhere, and is declined before it sends anything.
LEMMA StopsSoundly ==
    ASSUME SessionIsSound, IsRunning, NEW c \in Entry,
           c.command = Asked, c.step = Current.step, c.executed = Current.executed,
           c.end = "crashed" \/ (c.end = "declined" /\ Current.step <= SendStep(Asked.op))
    PROVE  EntryIsSound(c)'
<1>1. /\ EntryIsSound(Current) /\ Current.end = None
      /\ None \notin {"done", "declined", "crashed"}
  BY RunningIsSound, CommandsAssumption
<1>2. c.step \in 1..Len(Plan(c.command.op)) /\ CountIsSound(c)
  BY <1>1 DEF EntryIsSound, CountIsSound, Asked
<1>3. ResultIsSound(c)'
  BY <1>1 DEF ResultIsSound
<1> QED BY <1>2, <1>3 DEF EntryIsSound

\* Before its transaction, a command has nothing to answer for.
LEMMA GoesSoundly ==
    ASSUME SessionIsSound, IsRunning, NEW b \in Entry,
           b.command = Asked, b.step = Current.step, b.executed = Current.executed, b.end = None,
           Current.step < SendStep(Asked.op), Goes(b)
    PROVE  \E c \in Entry : EntryIsSound(c)' /\ Runs(c)
<1>1. /\ EntryIsSound(Current) /\ Current.end = None /\ Asked.op \in Ops
      /\ Current.step \in Nat
      /\ None \notin {"done", "declined", "crashed"}
  BY RunningIsSound, CommandsAssumption
<1>2. /\ SendStep(Asked.op) \in 1..Len(Plan(Asked.op)) /\ Len(Plan(Asked.op)) \in Nat
  BY <1>1, PlanFacts
<1>3. PICK c : c = [b EXCEPT !.step = b.step + 1]
  OBVIOUS
<1>4. /\ c \in Entry /\ c.command = Asked /\ c.step = Current.step + 1 /\ c.end = None
      /\ c.executed = Current.executed
  BY <1>1, <1>3 DEF Entry
<1>5. Runs(c)
  BY <1>1, <1>2, <1>3 DEF Goes
<1>6. PICK k \in Nat, n \in Nat, l \in Nat :
        k = Current.step /\ n = SendStep(Asked.op) /\ l = Len(Plan(Asked.op)) /\ n <= l /\ k < n
  BY <1>1, <1>2
<1>7. c.step \in 1..Len(Plan(c.command.op))
  BY <1>4, <1>6
<1>8. Current.executed = 0
  BY <1>1, <1>6 DEF EntryIsSound, CountIsSound, Asked
<1>9. CountIsSound(c)
  BY <1>1, <1>4, <1>8 DEF CountIsSound, TransactionsOf
<1>10. ResultIsSound(c)'
  BY <1>1, <1>4, <1>6 DEF ResultIsSound
<1> QED BY <1>4, <1>5, <1>7, <1>9, <1>10 DEF EntryIsSound

\* After its transaction, it reports success once it has brought about what it
\* was asked to.
LEMMA GoesAfterwards ==
    ASSUME VerdictInv, SessionIsSound, IsRunning, NEW b \in Entry,
           b.command = Asked, b.step = Current.step, b.end = None, b.executed <= 1,
           Current.step >= SendStep(Asked.op), IsAchieved(b.command)',
           Asked.op = "auditCashOut" => Current.step < Len(Plan(Asked.op)),
           Goes(b)
    PROVE  \E c \in Entry : EntryIsSound(c)' /\ Runs(c)
<1>1. /\ EntryIsSound(Current) /\ Asked.op \in Ops
      /\ Current.step \in Nat
      /\ None \notin {"done", "declined", "crashed"}
  BY RunningIsSound, CommandsAssumption
<1>2. PICK k \in Nat, n \in Nat, l \in Nat :
        /\ k = Current.step /\ n = SendStep(Asked.op) /\ l = Len(Plan(Asked.op))
        /\ n >= 1 /\ k \in n..l
  BY <1>1, PlanFacts DEF EntryIsSound, Asked
<1>3. b.executed <= TransactionsOf(Asked.op) /\ b.executed \in Nat /\ b.step = k
  BY <1>2 DEF TransactionsOf, Entry
<1>4. CASE k = l
  <2>1. PICK c : c = [b EXCEPT !.end = "done"]
    OBVIOUS
  <2>2. c \in Entry /\ c.command = Asked /\ c.step = k /\ c.end = "done" /\ c.executed = b.executed
    BY <1>3, <2>1 DEF Entry
  <2>3. Runs(c)
    BY <1>2, <1>3, <1>4, <2>1 DEF Goes
  <2>4. CountIsSound(c) /\ c.step \in 1..Len(Plan(c.command.op))
    BY <1>1, <1>2, <1>3, <2>2 DEF CountIsSound
  <2>5. Asked.op # "auditCashOut"
    BY <1>2, <1>4
  <2>6. ResultIsSound(c)'
    BY <1>1, <2>2, <2>5 DEF ResultIsSound
  <2> QED BY <2>2, <2>3, <2>4, <2>6 DEF EntryIsSound
<1>5. CASE k < l
  <2>1. PICK c : c = [b EXCEPT !.step = b.step + 1]
    OBVIOUS
  <2>2. c \in Entry /\ c.command = Asked /\ c.step = k + 1 /\ c.end = None /\ c.executed = b.executed
    BY <1>2, <1>3, <2>1 DEF Entry
  <2>3. Runs(c)
    BY <1>2, <1>3, <1>5, <2>1 DEF Goes
  <2>4. CountIsSound(c) /\ c.step \in 1..Len(Plan(c.command.op))
    BY <1>1, <1>2, <1>3, <1>5, <2>2 DEF CountIsSound
  <2>5. ResultIsSound(c)'
    BY <1>1, <2>2 DEF ResultIsSound
  <2> QED BY <2>2, <2>3, <2>4, <2>5 DEF EntryIsSound
<1> QED BY <1>2, <1>4, <1>5

-----------------------------------------------------------------------------
(* The steps that send nothing.                                            *)

\* Where in its plan a command reads.
LEMMA ReadsFirst ==
    ASSUME SessionIsSound, NEW name, AtStep(name),
           name \in {"guest", "subscribe", "activate", "house", "ticket", "proof",
                     "balance", "faucet", "deposit"}
    PROVE  IsRunning /\ Current.step < SendStep(Asked.op) /\ (name = "deposit" => Asked.op = "fund")
<1>1. IsRunning /\ Plan(Asked.op)[Current.step] = name
  BY DEF AtStep
<1>2. Asked.op \in Ops /\ Current.step \in 1..Len(Plan(Asked.op))
  BY <1>1, RunningIsSound DEF EntryIsSound, Asked
<1> QED BY <1>1, <1>2, PlanFacts

LEMMA StepsEarly ==
    ASSUME VerdictInv, UNCHANGED vars, SessionIsSound, InflightIsSound, IsRunning,
           Current.step < SendStep(Asked.op), inflight' = inflight, NEW b \in Entry,
           b.command = Asked, b.step = Current.step, b.executed = Current.executed, b.end = None,
           \/ Goes(b)
           \/ \E end \in {"crashed", "declined"} : Runs([b EXCEPT !.end = end])
    PROVE  Kept
<1>1. CASE Goes(b)
  BY <1>1, GoesSoundly, MovesQuietly
<1>2. ASSUME NEW end \in {"crashed", "declined"}, Runs([b EXCEPT !.end = end])
      PROVE  Kept
  <2>1. PICK c : c = [b EXCEPT !.end = end]
    OBVIOUS
  <2>2. /\ c \in Entry /\ c.command = Asked /\ c.step = Current.step
        /\ c.executed = Current.executed /\ c.end = end
    BY <2>1 DEF Entry
  <2>3. Asked.op \in Ops /\ Current.step \in Nat
    BY RunningIsSound
  <2>4. Current.step <= SendStep(Asked.op)
    BY <2>3, PlanFacts
  <2>5. EntryIsSound(c)'
    BY <2>2, <2>4, StopsSoundly
  <2>6. Runs(c)
    BY <1>2, <2>1
  <2> QED BY <2>5, <2>6, MovesQuietly
<1> QED BY <1>1, <1>2

LEMMA CurrentStepsEarly ==
    ASSUME VerdictInv, UNCHANGED vars, SessionIsSound, InflightIsSound,
           NEW name, AtStep(name),
           name \in {"guest", "subscribe", "activate", "house", "ticket", "proof",
                     "balance", "faucet", "deposit"},
           inflight' = inflight,
           Goes(Current) \/ Ends("crashed") \/ Ends("declined")
    PROVE  Kept
<1>1. IsRunning /\ Current.step < SendStep(Asked.op)
  BY ReadsFirst
<1>2. PICK b : b = Current
  OBVIOUS
<1>3. /\ b \in Entry /\ b.command = Asked /\ b.step = Current.step
      /\ b.executed = Current.executed /\ b.end = None
  BY <1>1, <1>2, RunningIsSound DEF Asked
<1>4. Goes(b) \/ \E end \in {"crashed", "declined"} : Runs([b EXCEPT !.end = end])
  BY <1>2 DEF Ends
<1> QED BY <1>1, <1>3, <1>4, StepsEarly

\* The balance is a number, whatever was paid.
LEMMA UsdtIsNumber ==
    ASSUME VerdictInv, spare \in Int
    PROVE  Usdt \in Int
<1>1. paid \in [TicketIds -> Nat] /\ ticket \in [TicketIds -> Ticket] /\ NumTickets \in Nat
  BY BoundsAssumption DEF VerdictInv, NumberingInv, BookInv, TypeOK
<1>2. PICK f : f = [t \in TicketIds |-> paid[t] - ticket[t].stake]
  OBVIOUS
<1>3. f \in [1..NumTickets -> Int]
  <2>1. ASSUME NEW t \in TicketIds
        PROVE  paid[t] - ticket[t].stake \in Int
    <3>1. paid[t] \in Nat /\ ticket[t].stake \in Nat
      BY <1>1 DEF Ticket, Amount
    <3> QED BY <3>1
  <2> QED BY <1>2, <2>1 DEF TicketIds
<1>4. PartialTotals(NumTickets, f)[NumTickets] \in Int
  BY <1>1, <1>3, PartialTotalsDef DEF IsRunningTotal
<1>5. Total(NumTickets, f) \in Int
  BY <1>4 DEF Total
<1> QED BY <1>2, <1>5 DEF Usdt

LEMMA ReadSteps ==
    ASSUME VerdictInv, SessionIsSound, InflightIsSound,
           Authenticate \/ FetchHouse \/ FetchTicket \/ FetchProof
    PROVE  Kept
<1>1. PICK name \in {"guest", "subscribe", "activate", "house", "ticket", "proof"} :
        /\ AtStep(name) /\ inflight' = inflight /\ UNCHANGED vars
        /\ Goes(Current) \/ Ends("crashed") \/ Ends("declined")
  <2>1. CASE Authenticate
    BY <2>1 DEF Authenticate, Answered, txVars
  <2>2. CASE FetchHouse
    BY <2>2 DEF FetchHouse, Reads, Answered, txVars
  <2>3. CASE FetchTicket
    BY <2>3 DEF FetchTicket, Reads, Answered, txVars
  <2>4. CASE FetchProof
    BY <2>4 DEF FetchProof, Answered, txVars
  <2> QED BY <2>1, <2>2, <2>3, <2>4
<1> QED BY <1>1, CurrentStepsEarly

\* What a draw from the faucet leaves of the command.
LEMMA DrawSteps ==
    ASSUME VerdictInv, spare \in Int, SessionIsSound, InflightIsSound, ReadBalance \/ DrawOrNot
    PROVE  Kept /\ spare' \in Int
<1>1. PICK name \in {"balance", "faucet"} : AtStep(name)
  BY DEF ReadBalance, DrawOrNot
<1>2. IsRunning /\ Current.step < SendStep(Asked.op)
  BY <1>1, ReadsFirst
<1>3. PICK b, d : b = Current /\ d = [Current EXCEPT !.drew = TRUE]
  OBVIOUS
<1>4. \A c \in {b, d} :
        /\ c \in Entry /\ c.command = Asked /\ c.step = Current.step
        /\ c.executed = Current.executed /\ c.end = None
  <2>1. Current \in Entry /\ Current.end = None
    BY <1>2, RunningIsSound
  <2> QED BY <1>3, <2>1 DEF Entry, Asked
<1>5. /\ inflight' = inflight /\ UNCHANGED vars
      /\ spare' \in {spare, spare + FaucetGrant}
      /\ \E c \in {b, d} :
           Goes(c) \/ \E end \in {"crashed", "declined"} : Runs([c EXCEPT !.end = end])
  <2>1. CASE ReadBalance
    <3>1. [Current EXCEPT !.drew = TRUE, !.end = "declined"] = [d EXCEPT !.end = "declined"]
      BY <1>3, <1>4 DEF Entry
    <3> QED BY <1>3, <2>1, <3>1 DEF ReadBalance, Drawn, NotDrawn, Answered, Ends, txVars
  <2>2. CASE DrawOrNot
    BY <1>3, <2>2 DEF DrawOrNot, Drawn, NotDrawn, txVars
  <2> QED BY <2>1, <2>2
<1>6. spare' \in Int
  BY <1>5, CommandsAssumption
<1> QED BY <1>2, <1>4, <1>5, <1>6, StepsEarly

LEMMA DepositStep ==
    ASSUME VerdictInv, spare \in Int, SessionIsSound, InflightIsSound, FundHouse
    PROVE  Kept
<1>1. AtStep("deposit")
  BY DEF FundHouse, Reads
<1>2. IsRunning /\ Current.step < SendStep(Asked.op) /\ Asked.op = "fund"
  BY <1>1, ReadsFirst
<1>3. AmountAsked \in Int
  <2>1. Asked.amount \in Nat
    BY <1>2, RunningIsSound, CommandOps
  <2> QED BY <2>1, UsdtIsNumber DEF AmountAsked
<1>4. /\ inflight' = inflight /\ UNCHANGED vars
      /\ \/ Goes([Current EXCEPT !.amount = AmountAsked])
         \/ Ends("crashed") \/ Ends("declined")
  BY DEF FundHouse, Reads, Answered, txVars
<1>5. CASE Ends("crashed") \/ Ends("declined")
  BY <1>1, <1>4, <1>5, CurrentStepsEarly
<1>6. CASE Goes([Current EXCEPT !.amount = AmountAsked])
  <2>1. PICK b : b = [Current EXCEPT !.amount = AmountAsked]
    OBVIOUS
  <2>2. /\ b \in Entry /\ b.command = Asked /\ b.step = Current.step
        /\ b.executed = Current.executed /\ b.end = None
    <3>1. Current \in Entry /\ Current.end = None
      BY <1>2, RunningIsSound
    <3> QED BY <1>3, <2>1, <3>1 DEF Entry, Asked
  <2>3. Goes(b)
    BY <1>6, <2>1
  <2> QED BY <1>2, <1>4, <2>2, <2>3, StepsEarly
<1> QED BY <1>4, <1>5, <1>6

LEMMA RereadStep ==
    ASSUME VerdictInv, SessionIsSound, InflightIsSound, Reread
    PROVE  Kept
<1>1. /\ IsRunning /\ Plan(Asked.op)[Current.step] = "reread"
      /\ inflight' = inflight /\ UNCHANGED vars
      /\ Goes(Current) \/ Ends("crashed")
  BY DEF Reread, Reads, AtStep, Answered, txVars
<1>2. PICK b : b = Current
  OBVIOUS
<1>3. /\ b \in Entry /\ b.command = Asked /\ b.step = Current.step
      /\ b.executed = Current.executed /\ b.end = None /\ EntryIsSound(b)
      /\ b.command \in Commands /\ b.command.op \in Ops
  BY <1>1, <1>2, RunningIsSound DEF Asked
<1>4. Asked.op # "auditCashOut" /\ Current.step > SendStep(Asked.op)
  BY <1>1, <1>3, PlanFacts DEF EntryIsSound
<1>5. CASE Goes(Current)
  <2>1. IsAchieved(b.command)
    BY <1>3, <1>4 DEF EntryIsSound, ResultIsSound
  <2>2. IsAchieved(b.command)'
    BY <1>1, <1>3, <2>1, AchievedStays
  <2>3. Goes(b)
    BY <1>2, <1>5
  <2>4. Current.step >= SendStep(Asked.op) /\ b.executed <= 1
    <3>1. PICK k \in Nat, n \in Nat : k = Current.step /\ n = SendStep(Asked.op)
      BY <1>1, <1>3, RunningIsSound, PlanFacts
    <3> QED BY <1>3, <1>4, <3>1 DEF EntryIsSound, CountIsSound
  <2> QED BY <1>1, <1>3, <1>4, <2>2, <2>3, <2>4, GoesAfterwards, MovesQuietly
<1>6. CASE Ends("crashed")
  <2>1. PICK c : c = [b EXCEPT !.end = "crashed"]
    OBVIOUS
  <2>2. /\ c \in Entry /\ c.command = Asked /\ c.step = Current.step
        /\ c.executed = Current.executed /\ c.end = "crashed"
    BY <1>3, <2>1 DEF Entry
  <2>3. Runs(c)
    BY <1>2, <1>6, <2>1 DEF Ends
  <2> QED BY <1>1, <2>2, <2>3, StopsSoundly, MovesQuietly
<1> QED BY <1>1, <1>5, <1>6

\* An audit of a cash-out ends well when there is nothing, or nothing any more,
\* to repair.
LEMMA DecideStep ==
    ASSUME VerdictInv, SessionIsSound, InflightIsSound, DecideClaim
    PROVE  Kept
<1>1. /\ IsRunning /\ Plan(Asked.op)[Current.step] = "decide"
      /\ inflight' = inflight /\ UNCHANGED vars
      /\ \/ Goes(Current)
         \/ ~NeedsClaim(Asked.t) /\ Ends("done")
         \/ Ends("crashed")
  BY DEF DecideClaim, Reads, AtStep, Answered, txVars
<1>2. PICK b : b = Current
  OBVIOUS
<1>3. /\ b \in Entry /\ b.command = Asked /\ b.step = Current.step
      /\ b.executed = Current.executed /\ b.end = None /\ EntryIsSound(b)
      /\ b.command \in Commands /\ b.command.op \in Ops
  BY <1>1, <1>2, RunningIsSound DEF Asked
<1>4. PICK k \in Nat, n \in Nat, l \in Nat :
        /\ k = Current.step /\ n = SendStep(Asked.op) /\ l = Len(Plan(Asked.op))
        /\ Asked.op = "auditCashOut" /\ k = n + 1 /\ l = n + 2
  BY <1>1, <1>3, RunningIsSound, PlanFacts DEF EntryIsSound
<1>5. IsAchieved(b.command) /\ b.executed <= 1
  BY <1>3, <1>4 DEF EntryIsSound, ResultIsSound, CountIsSound
<1>6. IsAchieved(b.command)'
  BY <1>1, <1>3, <1>5, AchievedStays
<1>7. CASE Goes(Current)
  <2>1. Goes(b)
    BY <1>2, <1>7
  <2>2. Current.step >= SendStep(Asked.op) /\ Current.step < Len(Plan(Asked.op))
    BY <1>4
  <2> QED BY <1>1, <1>3, <1>5, <1>6, <2>1, <2>2, GoesAfterwards, MovesQuietly
<1>8. CASE Ends("crashed")
  <2>1. PICK c : c = [b EXCEPT !.end = "crashed"]
    OBVIOUS
  <2>2. /\ c \in Entry /\ c.command = Asked /\ c.step = Current.step
        /\ c.executed = Current.executed /\ c.end = "crashed"
    BY <1>3, <2>1 DEF Entry
  <2>3. Runs(c)
    BY <1>2, <1>8, <2>1 DEF Ends
  <2> QED BY <1>1, <2>2, <2>3, StopsSoundly, MovesQuietly
<1>9. CASE ~NeedsClaim(Asked.t) /\ Ends("done")
  <2>1. PICK c : c = [b EXCEPT !.end = "done"]
    OBVIOUS
  <2>2. /\ c \in Entry /\ c.command = b.command /\ c.step = b.step
        /\ c.executed = b.executed /\ c.end = "done"
    BY <1>3, <2>1 DEF Entry
  <2>3. Runs(c)
    BY <1>2, <1>9, <2>1 DEF Ends
  <2>4. CountIsSound(c)
    <3>1. c.executed \in Nat /\ c.executed <= 1 /\ c.command.op = "auditCashOut"
      BY <1>3, <1>4, <1>5, <2>2 DEF Entry
    <3> QED BY <2>2, <3>1, CommandsAssumption DEF CountIsSound, TransactionsOf
  <2>5. ~NeedsClaim(c.command.t)'
    BY <1>1, <1>3, <1>9, <2>2 DEF NeedsClaim, vars, accounts
  <2>6. ResultIsSound(c)'
    BY <1>6, <2>2, <2>5, CommandsAssumption DEF ResultIsSound
  <2>7. EntryIsSound(c)'
    BY <1>3, <2>2, <2>4, <2>6 DEF EntryIsSound
  <2> QED BY <1>1, <2>3, <2>7, MovesQuietly
<1> QED BY <1>1, <1>7, <1>8, <1>9

-----------------------------------------------------------------------------
(* The steps that send.                                                    *)

\* The transaction that a command sends first.
IsTxOf(tx, command) ==
    \/ command.op = "setup" /\ tx.op = "setup"
    \/ command.op = "fund" /\ tx.op = "deposit"
    \/ command.op = "bet" /\ tx.op = "bet" /\ tx.stake = command.stake
    \/ /\ command.op \in {"cashout", "refund", "audit", "auditCashOut"}
       /\ tx.op = command.op /\ tx.t = command.t

LEMMA TxIsSound ==
    ASSUME SessionIsSound, AtStep("send") \/ AtStep("claim"), NEW tx, tx = TheTx
    PROVE  /\ IsSound(tx) /\ tx.by = Len(session)
           /\ AtStep("send") => IsTxOf(tx, Asked)
           /\ AtStep("claim") => tx.op = "claim" /\ tx.t = Asked.t
<1>1. IsRunning
  BY DEF AtStep
<1>2. /\ Asked \in Commands /\ Asked.op \in Ops /\ Current.amount \in Int
      /\ Current.step \in 1..Len(Plan(Asked.op))
  BY <1>1, RunningIsSound DEF EntryIsSound, Entry, Asked
<1>3. CASE AtStep("claim")
  <2>1. Asked.op = "auditCashOut" /\ Plan(Asked.op)[Current.step] # "send"
    BY <1>2, <1>3, PlanFacts DEF AtStep
  <2>2. Asked.t \in TicketIds
    BY <1>2, <2>1, CommandOps
  <2>3. ~AtStep("send")
    BY <2>1 DEF AtStep
  <2>4. tx = [op |-> "claim", by |-> Len(session), t |-> Asked.t]
    BY <1>3 DEF TheTx
  <2> QED BY <2>2, <2>3, <2>4 DEF IsSound
<1>4. CASE AtStep("send") /\ ~AtStep("claim")
  <2>0. tx = TxOf(Asked.op)
    BY <1>4 DEF TheTx
  <2>1. CASE Asked.op = "setup"
    <3>1. tx = [op |-> "setup", by |-> Len(session)]
      BY <2>0, <2>1 DEF TxOf
    <3> QED BY <1>4, <2>1, <3>1 DEF IsSound, IsTxOf
  <2>2. CASE Asked.op = "fund"
    <3>1. tx = [op |-> "deposit", by |-> Len(session), amount |-> Current.amount]
      BY <2>0, <2>2 DEF TxOf
    <3> QED BY <1>2, <1>4, <2>2, <3>1 DEF IsSound, IsTxOf
  <2>3. CASE Asked.op = "bet"
    <3>1. tx = [op |-> "bet", by |-> Len(session), m |-> Asked.m, side |-> Asked.side,
                stake |-> Asked.stake]
      BY <2>0, <2>3 DEF TxOf
    <3> QED BY <1>2, <1>4, <2>3, <3>1, CommandOps DEF IsSound, IsTxOf
  <2>4. CASE Asked.op \in {"cashout", "refund", "audit"}
    <3>1. tx = [op |-> Asked.op, by |-> Len(session), t |-> Asked.t]
      BY <2>0, <2>4 DEF TxOf
    <3> QED BY <1>2, <1>4, <2>4, <3>1, CommandOps DEF IsSound, IsTxOf
  <2>5. CASE Asked.op = "auditCashOut"
    <3>1. tx = [op |-> Asked.op, by |-> Len(session), t |-> Asked.t, auditor |-> OwnKey]
      BY <2>0, <2>5 DEF TxOf
    <3> QED BY <1>2, <1>4, <2>5, <3>1, CommandOps DEF IsSound, IsTxOf
  <2> QED BY <1>2, <2>1, <2>2, <2>3, <2>4, <2>5 DEF Ops
<1> QED BY <1>3, <1>4

LEMMA SentStep ==
    ASSUME VerdictInv, spare \in Int, SessionIsSound, InflightIsSound,
           AtStep("send"), ExecuteForKeeper(TheTx), GoesOn, inflight' = inflight
    PROVE  Kept /\ spare' \in Int /\ Instruction
<1>1. PICK tx : tx = TheTx /\ ExecuteForKeeper(tx)
  OBVIOUS
<1>2. IsSound(tx) /\ IsTxOf(tx, Asked)
  BY <1>1, TxIsSound
<1>3. Instruction /\ Did(tx)' /\ spare' \in Int
  BY <1>1, <1>2, ExecutionIsSound
<1>4. PICK c, b : c = Current /\ b = Counted(Current)
  OBVIOUS
<1>5. /\ IsRunning /\ c \in Entry /\ c.command = Asked /\ c.step = Current.step
      /\ c.executed = Current.executed /\ c.end = None /\ EntryIsSound(c)
      /\ c.command \in Commands /\ c.command.op \in Ops
      /\ Plan(c.command.op)[c.step] = "send"
  BY <1>4, RunningIsSound DEF Asked, AtStep
<1>6. PICK k \in Nat, n \in Nat, l \in Nat :
        /\ k = Current.step /\ n = SendStep(Asked.op) /\ l = Len(Plan(Asked.op))
        /\ k = n /\ (Asked.op = "auditCashOut" => l = n + 2)
  BY <1>5, RunningIsSound, PlanFacts DEF EntryIsSound
<1>7. c.executed = 0
  BY <1>5, <1>6 DEF EntryIsSound, CountIsSound
<1>8. /\ b \in Entry /\ b.command = Asked /\ b.step = Current.step /\ b.end = None /\ b.executed = 1
  BY <1>4, <1>5, <1>7 DEF Entry, Counted
<1>9. IsAchieved(b.command)'
  <2>1. PICK command \in Commands : command = Asked
    BY <1>5
  <2>2. IsTxOf(tx, command)
    BY <1>2, <2>1 DEF IsTxOf
  <2>3. IsAchieved(command)'
    BY <1>3, <2>2 DEF IsTxOf, Did, IsAchieved
  <2> QED BY <1>8, <2>1, <2>3
<1>10. Goes(b)
  BY <1>4 DEF GoesOn
<1>11. /\ Current.step >= SendStep(Asked.op) /\ b.executed <= 1
       /\ (Asked.op = "auditCashOut" => Current.step < Len(Plan(Asked.op)))
  BY <1>6, <1>8
<1>12. \E e \in Entry : EntryIsSound(e)' /\ Runs(e)
  BY <1>5, <1>8, <1>9, <1>10, <1>11, GoesAfterwards
<1> QED BY <1>3, <1>5, <1>12, MovesQuietly

LEMMA ClaimedStep ==
    ASSUME VerdictInv, spare \in Int, SessionIsSound, InflightIsSound,
           AtStep("claim"), ExecuteForKeeper(TheTx), GoesOn, inflight' = inflight
    PROVE  Kept /\ spare' \in Int /\ Instruction
<1>1. PICK tx : tx = TheTx /\ ExecuteForKeeper(tx)
  OBVIOUS
<1>2. IsSound(tx) /\ tx.op = "claim" /\ tx.t = Asked.t
  BY <1>1, TxIsSound
<1>3. Instruction /\ Did(tx)' /\ spare' \in Int
  BY <1>1, <1>2, ExecutionIsSound
<1>4. PICK c, b : c = Current /\ b = Counted(Current)
  OBVIOUS
<1>5. /\ IsRunning /\ c \in Entry /\ c.command = Asked /\ c.step = Current.step
      /\ c.end = None /\ EntryIsSound(c)
      /\ c.command \in Commands /\ c.command.op \in Ops
      /\ Plan(c.command.op)[c.step] = "claim"
  BY <1>4, RunningIsSound DEF Asked, AtStep
<1>6. PICK n \in Nat :
        /\ n = SendStep(c.command.op) /\ c.command.op = "auditCashOut"
        /\ c.step = n + 2 /\ Len(Plan(c.command.op)) = n + 2
  BY <1>5, PlanFacts DEF EntryIsSound
<1>7. IsAchieved(c.command) /\ c.executed <= 1
  BY <1>5, <1>6 DEF EntryIsSound, ResultIsSound, CountIsSound
<1>8. IsAchieved(c.command)'
  BY <1>3, <1>5, <1>7, AchievedStays
<1>9. PICK e : e = [b EXCEPT !.end = "done"]
  OBVIOUS
<1>10. /\ e \in Entry /\ e.command = c.command /\ e.step = c.step /\ e.end = "done"
       /\ e.executed = c.executed + 1
  <2>1. c.executed + 1 \in Nat
    BY <1>5 DEF Entry
  <2>2. /\ b \in Entry /\ b.command = c.command /\ b.step = c.step
        /\ b.executed = c.executed + 1
    BY <1>4, <1>5, <2>1 DEF Entry, Counted
  <2> QED BY <1>9, <2>2 DEF Entry
<1>11. Runs(e)
  <2>1. b.step = c.step /\ b.command = c.command
    BY <1>4, <1>5 DEF Entry, Counted
  <2> QED BY <1>4, <1>6, <1>9, <2>1 DEF GoesOn, Goes
<1>12. CountIsSound(e)
  BY <1>5, <1>6, <1>7, <1>10, CommandsAssumption DEF CountIsSound, TransactionsOf, Entry
<1>13. ~NeedsClaim(e.command.t)'
  <2>1. PICK t : t = e.command.t
    OBVIOUS
  <2>2. t = tx.t
    BY <1>2, <1>5, <1>10, <2>1
  <2>3. ~NeedsClaim(tx.t)'
    BY <1>2, <1>3 DEF Did
  <2> QED BY <2>1, <2>2, <2>3
<1>14. EntryIsSound(e)'
  <2>1. ResultIsSound(e)'
    BY <1>8, <1>10, <1>13, CommandsAssumption DEF ResultIsSound
  <2> QED BY <1>5, <1>10, <1>12, <2>1 DEF EntryIsSound
<1> QED BY <1>3, <1>5, <1>11, <1>14, MovesQuietly

\* A transaction whose answer is lost may land once, later.
LEMMA LostStep ==
    ASSUME VerdictInv, UNCHANGED vars, SessionIsSound, InflightIsSound,
           AtStep("send") \/ AtStep("claim"), Ends("crashed"),
           \/ inflight' = inflight
           \/ inflight' = inflight \cup {[tx |-> TheTx, expires |-> now + TxLifetime]}
    PROVE  Kept
<1>1. PICK b, c : b = Current /\ c = [Current EXCEPT !.end = "crashed"]
  OBVIOUS
<1>2. /\ IsRunning /\ b \in Entry /\ b.command = Asked /\ b.step = Current.step
      /\ b.executed = Current.executed /\ b.end = None /\ EntryIsSound(b)
      /\ b.command \in Commands /\ b.command.op \in Ops
  BY <1>1, RunningIsSound DEF Asked, AtStep
<1>3. /\ c \in Entry /\ c.command = b.command /\ c.step = b.step
      /\ c.executed = b.executed /\ c.end = "crashed"
  BY <1>1, <1>2 DEF Entry
<1>4. Runs(c)
  BY <1>1 DEF Ends
<1>5. EntryIsSound(c)'
  BY <1>2, <1>3, StopsSoundly
<1>6. CASE inflight' = inflight
  BY <1>2, <1>4, <1>5, <1>6, MovesQuietly
<1>7. CASE inflight' = inflight \cup {[tx |-> TheTx, expires |-> now + TxLifetime]}
  <2>1. PICK new, tx, n :
          new = [tx |-> tx, expires |-> now + TxLifetime] /\ tx = TheTx /\ n = Len(session)
    OBVIOUS
  <2>2. IsSound(tx) /\ tx.by = n
    BY <2>1, TxIsSound
  <2>3. /\ SessionIsSound' /\ n \in CommandNumbers' /\ session'[n] = c
        /\ \A late \in inflight : LateIsSound(late)' /\ late.tx.by # n
    BY <1>2, <1>4, <1>5, <2>1, MovesOn
  <2>4. c.executed < TransactionsOf(c.command.op)
    <3>1. PICK k \in Nat, m \in Nat, e \in Nat :
            /\ k = b.step /\ m = SendStep(b.command.op) /\ e = c.executed
            /\ Plan(b.command.op)[k] = "send" => k = m
            /\ Plan(b.command.op)[k] = "claim" => b.command.op = "auditCashOut"
      BY <1>2, <1>3, PlanFacts DEF EntryIsSound, Entry
    <3>2. e <= 1 /\ (k = m => e = 0)
      BY <1>2, <1>3, <3>1 DEF EntryIsSound, CountIsSound
    <3>3. \/ e = 0
          \/ e <= 1 /\ c.command.op = "auditCashOut"
      BY <1>2, <1>3, <3>1, <3>2 DEF AtStep
    <3> QED BY <3>1, <3>3 DEF TransactionsOf
  <2>5. LateIsSound(new)'
    <3>1. new.tx = tx
      BY <2>1
    <3> QED BY <1>3, <2>2, <2>3, <2>4, <3>1 DEF LateIsSound, IsSound
  <2>6. inflight' = inflight \cup {new} /\ new.tx.by = n
    BY <1>7, <2>1, <2>2
  <2> QED BY <2>3, <2>5, <2>6 DEF Kept, InflightIsSound
<1> QED BY <1>6, <1>7

LEMMA SendStepKeeps ==
    ASSUME VerdictInv, spare \in Int, SessionIsSound, InflightIsSound, SendTx
    PROVE  Kept /\ spare' \in Int /\ [Instruction]_vars
<1>1. CASE ExecuteForKeeper(TheTx) /\ GoesOn /\ UNCHANGED txVars
  <2>1. inflight' = inflight
    BY <1>1 DEF txVars
  <2> QED BY <1>1, <2>1, SentStep, ClaimedStep DEF SendTx
<1>2. ASSUME ~(ExecuteForKeeper(TheTx) /\ GoesOn /\ UNCHANGED txVars)
      PROVE  /\ Ends("crashed") /\ UNCHANGED vars /\ spare' = spare
             /\ \/ inflight' = inflight
                \/ inflight' = inflight \cup {[tx |-> TheTx, expires |-> now + TxLifetime]}
  BY <1>2 DEF SendTx, GivesUp, txVars
<1>3. AtStep("send") \/ AtStep("claim")
  BY DEF SendTx
<1> QED BY <1>1, <1>2, <1>3, LostStep

LEMMA OperatorKeeps ==
    ASSUME VerdictInv, spare \in Int, SessionIsSound, InflightIsSound, OperatorStep
    PROVE  Kept /\ spare' \in Int /\ [Instruction]_vars
<1>1. CASE Authenticate \/ FetchHouse \/ FetchTicket \/ FetchProof
  <2>1. UNCHANGED vars /\ spare' = spare
    BY <1>1 DEF Authenticate, FetchHouse, FetchTicket, FetchProof, Reads
  <2> QED BY <1>1, <2>1, ReadSteps
<1>2. CASE ReadBalance \/ DrawOrNot
  <2>1. UNCHANGED vars
    BY <1>2 DEF ReadBalance, DrawOrNot
  <2> QED BY <1>2, <2>1, DrawSteps
<1>3. CASE FundHouse \/ Reread \/ DecideClaim
  <2>1. UNCHANGED vars /\ spare' = spare
    BY <1>3 DEF FundHouse, Reread, DecideClaim, Reads
  <2> QED BY <1>3, <2>1, DepositStep, RereadStep, DecideStep
<1>4. CASE SendTx
  BY <1>4, SendStepKeeps
<1> QED BY <1>1, <1>2, <1>3, <1>4 DEF OperatorStep

-----------------------------------------------------------------------------
(* The other steps.                                                        *)

LEMMA CommandStarts ==
    ASSUME VerdictInv, SessionIsSound, InflightIsSound, NEW command \in Commands, main(command)
    PROVE  Kept
<1>1. PICK c : c = [command |-> command, step |-> 1, end |-> None,
                    amount |-> 0, drew |-> FALSE, executed |-> 0]
  OBVIOUS
<1>2. session' = Append(session, c) /\ UNCHANGED vars /\ inflight' = inflight
  BY <1>1 DEF main, txVars
<1>3. PICK l \in Nat : l = Len(session) /\ CommandNumbers = 1..l
  BY DEF SessionIsSound, CommandNumbers
<1>4. c \in Entry
  BY <1>1 DEF Entry
<1>5. /\ session' \in Seq(Entry) /\ Len(session') = l + 1 /\ CommandNumbers' = 1..(l + 1)
      /\ session'[l + 1] = c /\ \A n \in 1..l : session'[n] = session[n]
  BY <1>2, <1>3, <1>4 DEF SessionIsSound, CommandNumbers
<1>6. EntryIsSound(c)'
  <2>1. command.op \in Ops
    BY CommandOps
  <2>2. PICK n \in Nat : n = SendStep(command.op) /\ n >= 1 /\ 1 \in 1..Len(Plan(command.op))
    BY <2>1, PlanFacts
  <2>3. CountIsSound(c)
    BY <1>1, CommandsAssumption DEF CountIsSound, TransactionsOf
  <2>4. ResultIsSound(c)'
    BY <1>1, <2>2, CommandsAssumption DEF ResultIsSound
  <2> QED BY <1>1, <1>4, <2>2, <2>3, <2>4 DEF EntryIsSound
<1>7. ASSUME NEW n \in 1..l
      PROVE  EntryIsSound(session[n])' /\ session[n].end # None
  <2>1. PICK e : e = session[n]
    OBVIOUS
  <2>2. session[n].end = None => n = l
    BY <1>3 DEF SessionIsSound
  <2>3. session[n].end # None
    BY <1>3, <2>2 DEF main, IsRunning
  <2>4. EntryIsSound(e) /\ e \in Entry
    BY <1>3, <2>1 DEF SessionIsSound, EntryIsSound
  <2>5. EntryIsSound(e)'
    BY <1>2, <2>4, ResultStays DEF EntryIsSound
  <2>6. session'[n] = e
    BY <1>5, <2>1
  <2> QED BY <2>1, <2>3, <2>5, <2>6 DEF EntryIsSound, ResultIsSound
<1>8. SessionIsSound'
  <2>1. ASSUME NEW n \in 1..(l + 1)
        PROVE  EntryIsSound(session[n])' /\ (session'[n].end = None => n = l + 1)
    <3>1. CASE n = l + 1
      <4>1. session'[n] = c
        BY <1>5, <3>1
      <4> QED BY <1>6, <3>1, <4>1 DEF EntryIsSound, ResultIsSound
    <3>2. CASE n \in 1..l
      BY <1>5, <1>7, <3>2
    <3> QED BY <3>1, <3>2
  <2> QED BY <1>5, <2>1 DEF SessionIsSound
<1>9. InflightIsSound'
  <2>1. ASSUME NEW late \in inflight
        PROVE  LateIsSound(late)'
    <3>1. LateIsSound(late)
      BY DEF InflightIsSound
    <3> QED BY <1>3, <1>5, <3>1 DEF LateIsSound, IsSound
  <2> QED BY <1>2, <2>1 DEF InflightIsSound
<1> QED BY <1>8, <1>9 DEF Kept

\* A transaction that lands late is counted for the command that gave up on it.
LEMMA LandKeeps ==
    ASSUME VerdictInv, spare \in Int, SessionIsSound, InflightIsSound, Land
    PROVE  Kept /\ spare' \in Int /\ Instruction
<1>1. PICK late \in inflight :
        /\ ExecuteForKeeper(late.tx)
        /\ inflight' = inflight \ {late}
        /\ session' = [session EXCEPT ![late.tx.by] = Counted(@)]
  BY DEF Land
<1>2. PICK tx, n : tx = late.tx /\ n = tx.by
  OBVIOUS
<1>3. LateIsSound(late)
  BY DEF InflightIsSound
<1>4. /\ n \in CommandNumbers /\ IsSound(tx) /\ session[n].end = "crashed"
      /\ session[n].executed < TransactionsOf(session[n].command.op)
  BY <1>2, <1>3 DEF LateIsSound
<1>5. Instruction /\ spare' \in Int
  BY <1>1, <1>2, <1>4, ExecutionIsSound
<1>6. PICK e, c : e = session[n] /\ c = Counted(e)
  OBVIOUS
<1>7. EntryIsSound(e) /\ e \in Entry /\ e.end = "crashed" /\ e.executed < TransactionsOf(e.command.op)
  BY <1>4, <1>6 DEF SessionIsSound, EntryIsSound
<1>8. /\ c \in Entry /\ c.command = e.command /\ c.step = e.step /\ c.end = "crashed"
      /\ c.executed = e.executed + 1
  BY <1>6, <1>7 DEF Entry, Counted
<1>9. EntryIsSound(c)'
  <2>1. TransactionsOf(e.command.op) \in Nat /\ e.executed \in Nat
    BY <1>7 DEF TransactionsOf, Entry
  <2>2. CountIsSound(c)
    BY <1>7, <1>8, <2>1, CommandsAssumption DEF CountIsSound
  <2>3. ResultIsSound(c)'
    BY <1>8, CommandsAssumption DEF ResultIsSound
  <2> QED BY <1>7, <1>8, <2>2, <2>3 DEF EntryIsSound
<1>10. session' = [session EXCEPT ![n] = c] /\ (c.end = None => n = Len(session))
  BY <1>1, <1>2, <1>6, <1>8, CommandsAssumption DEF Counted
<1>11. /\ SessionIsSound'
       /\ \A other : LateIsSound(other) /\ other.tx.by # n => LateIsSound(other)'
  BY <1>4, <1>5, <1>9, <1>10, OneMoves
<1>12. InflightIsSound'
  <2>1. ASSUME NEW other \in inflight \ {late}
        PROVE  LateIsSound(other)'
    <3>1. LateIsSound(other) /\ other.tx.by # n
      BY <1>2 DEF InflightIsSound
    <3> QED BY <1>11, <3>1
  <2> QED BY <1>1, <2>1 DEF InflightIsSound
<1> QED BY <1>5, <1>11, <1>12 DEF Kept

LEMMA OthersKeep ==
    ASSUME VerdictInv, SessionIsSound, InflightIsSound, OthersAct
    PROVE  Kept /\ spare' = spare /\ Instruction
<1>1. Instruction
  <2>1. OtherKey \in Auditors /\ Quotes \subseteq [Sides -> Nat]
    BY CommandsAssumption, ConstantTypes
  <2> QED BY <2>1 DEF OthersAct, Instruction
<1> QED BY <1>1, NobodyMoves DEF OthersAct, Kept, txVars

\* Every step keeps the session, and is instructions of the program or none.
LEMMA CommandsAct ==
    ASSUME CommandsInv, [CommandsNext]_commandVars
    PROVE  Kept /\ spare' \in Int /\ [Instruction]_vars
<1>0. VerdictInv /\ spare \in Int /\ SessionIsSound /\ InflightIsSound
  BY DEF CommandsInv
<1>1. ASSUME NEW command \in Commands, main(command)
      PROVE  Kept /\ spare' \in Int /\ [Instruction]_vars
  <2>1. UNCHANGED vars /\ spare' = spare
    BY <1>1 DEF main
  <2> QED BY <1>0, <1>1, <2>1, CommandStarts
<1>2. CASE OperatorStep
  BY <1>0, <1>2, OperatorKeeps
<1>3. CASE Land
  BY <1>0, <1>3, LandKeeps
<1>4. CASE ClockTicks /\ UNCHANGED <<session, hasAccount, spare>>
  <2>1. Instruction /\ inflight' \subseteq inflight /\ session' = session /\ spare' = spare
    BY <1>4 DEF ClockTicks, Instruction
  <2> QED BY <1>0, <2>1, NobodyMoves DEF Kept
<1>5. CASE OthersAct
  BY <1>0, <1>5, OthersKeep
<1>6. CASE UNCHANGED commandVars
  <2>1. UNCHANGED vars /\ inflight' = inflight /\ session' = session /\ spare' = spare
    BY <1>6 DEF commandVars, txVars
  <2> QED BY <1>0, <2>1, NobodyMoves DEF Kept
<1> QED BY <1>1, <1>2, <1>3, <1>4, <1>5, <1>6 DEF CommandsNext

LEMMA CommandsNextKeeps == CommandsInv /\ [CommandsNext]_commandVars => CommandsInv'
  BY CommandsAct, VerdictNext DEF CommandsInv, Kept

-----------------------------------------------------------------------------
(* The invariant holds at first, and what follows from it.                 *)

LEMMA CommandsInitInv == CommandsInit => CommandsInv
<1> SUFFICES ASSUME CommandsInit
             PROVE  CommandsInv
  OBVIOUS
<1>1. session = <<>> /\ spare = 0 /\ inflight = {}
  BY DEF CommandsInit, BookWith, TxInit
<1>2. VerdictInv
  <2>1. BookWith(MarketsAtFirst, NoTickets, Liquidity) => PaymentInv
    BY BookAssumption, BookAtFirst
  <2> QED BY <2>1, VerdictInit DEF CommandsInit, PaymentInv
<1>3. SessionIsSound
  BY <1>1 DEF SessionIsSound, CommandNumbers
<1>4. InflightIsSound
  BY <1>1 DEF InflightIsSound
<1> QED BY <1>1, <1>2, <1>3, <1>4 DEF CommandsInv

LEMMA CommandsInvariant == CommandsSpec => []CommandsInv
<1> QED BY CommandsInitInv, CommandsNextKeeps, PTL DEF CommandsSpec

\* A command that reports success has brought about what it was asked to, and
\* nobody can undo it: neither the serve loop, nor other crankers, nor later
\* commands, nor a transaction that lands late (index.ts, jobs.ts).
THEOREM CommandsDo == CommandsSpec => []DoneIsAchieved
<1>1. CommandsInv => DoneIsAchieved
  <2> SUFFICES ASSUME CommandsInv, NEW n \in CommandNumbers, session[n].end = "done"
               PROVE  Achieved(session[n].command)
    BY DEF DoneIsAchieved
  <2>1. PICK c : c = session[n].command
    OBVIOUS
  <2>2. /\ c \in Commands /\ IsAchieved(c)
        /\ c.op = "auditCashOut" => ~NeedsClaim(c.t)
    BY <2>1 DEF CommandsInv, SessionIsSound, EntryIsSound, ResultIsSound, Entry
  <2>3. c.op \in Ops
    BY <2>2, CommandOps
  <2>4. CASE c.op = "auditCashOut"
    <3>1. receipt[c.t].audit_status \in {"Unaudited", "Honest", "Violation"}
      BY <2>2, <2>4, CommandOps
         DEF CommandsInv, VerdictInv, NumberingInv, BookInv, TypeOK, CashOutReceipt, AuditStatus
    <3>2. receipt[c.t].audit_status # "Unaudited"
      BY <2>2, <2>4 DEF IsAchieved
    <3>3. Achieved(c)
      BY <2>2, <2>4, <3>1, <3>2 DEF NeedsClaim, Achieved
    <3> QED BY <2>1, <3>3
  <2>5. CASE c.op # "auditCashOut"
    <3>1. Achieved(c)
      BY <2>2, <2>3, <2>5 DEF IsAchieved, Achieved, Ops
    <3> QED BY <2>1, <3>1
  <2> QED BY <2>4, <2>5
<1> QED BY <1>1, CommandsInvariant, PTL

\* However its answers are lost, a command has each of its transactions executed
\* at most once, and one that was declined none at all (jobs.ts, index.ts).
THEOREM ExecutedOnce == CommandsSpec => []ExecutedAtMostOnce
<1>1. CommandsInv => ExecutedAtMostOnce
  <2> SUFFICES ASSUME CommandsInv, NEW n \in CommandNumbers
               PROVE  /\ session[n].executed <= TransactionsOf(session[n].command.op)
                      /\ session[n].end = "declined" =>
                           session[n].executed = 0 /\ \A late \in inflight : late.tx.by # n
    BY DEF ExecutedAtMostOnce
  <2>1. CountIsSound(session[n])
    BY DEF CommandsInv, SessionIsSound, EntryIsSound
  <2>2. \A late \in inflight : late.tx.by = n => session[n].end = "crashed"
    BY DEF CommandsInv, InflightIsSound, LateIsSound
  <2> QED BY <2>1, <2>2 DEF CountIsSound
<1> QED BY <1>1, CommandsInvariant, PTL

\* All that is proved of the program stands under the operator's commands too,
\* from the program's own start or from a house that is set up and funded: each of
\* their steps, whenever it lands, is instructions of the program or none.
THEOREM CommandsRunTheProgram ==
    CommandsSpec => []BookIsSound /\ VerdictsAreFinal /\ OutcomesAreFinal /\ ImplementsClaims
<1>1. CommandsInit => ProgramInv /\ Claims!ClaimInit
  <2>1. ASSUME BookWith(MarketsAtFirst, NoTickets, Liquidity)
        PROVE  ProgramInv /\ Claims!ClaimInit
    <3>1. /\ ticket = NoTickets /\ receipt = [t \in TicketIds |-> NoReceipt]
          /\ paid = [t \in TicketIds |-> 0]
      BY <2>1 DEF BookWith
    <3> QED BY <2>1, <3>1, BookAssumption, ProgramAtFirst, NoTicketsNoClaims
  <2> QED BY <2>1, ProgramInit, ClaimsInit DEF CommandsInit
<1>2. CommandsInv /\ [CommandsNext]_commandVars => [Instruction]_vars
  BY CommandsAct
<1>3. ProgramInv /\ [Instruction]_vars =>
        /\ ProgramInv'
        /\ [KeepsVerdicts]_vars /\ [KeepsOutcomes]_vars
        /\ [Claims!ClaimNext]_(Claims!claimVars)
  BY ClientNext
<1>4. ProgramInv => BookIsSound
  BY ProgramIsSound
<1> QED
  BY <1>1, <1>2, <1>3, <1>4, CommandsInvariant, PTL
     DEF CommandsSpec, VerdictsAreFinal, OutcomesAreFinal, ImplementsClaims, Claims!ClaimSpec

=============================================================================
