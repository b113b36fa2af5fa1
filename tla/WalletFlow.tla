----------------------------- MODULE WalletFlow -----------------------------
(***************************************************************************)
(* A wallet's transactions in the app (lib/chain/placeBet.ts): each click  *)
(* starts an attempt that reads what it needs, asks the wallet to sign,    *)
(* sends, and awaits the confirmation, every stage under a deadline.  The  *)
(* deadline ends the attempt, not the transaction: one that was sent may   *)
(* be executed until its blockhash expires, whatever the attempt reported. *)
(*                                                                         *)
(* There is one wallet, and every ticket is its own.                       *)
(***************************************************************************)
EXTENDS Transactions

CONSTANTS
    MaxAttempts,  \* bound: clicks
    RPC_READ_TIMEOUT, SIGN_TIMEOUT, CONFIRM_TIMEOUT,  \* the deadlines of the stages
    Funds,        \* what the wallet starts with
    Liquidity     \* what the house starts with

Failed == 0
Attempts == 1..MaxAttempts

ASSUME WalletAssumption ==
    {MaxAttempts, RPC_READ_TIMEOUT, SIGN_TIMEOUT, CONFIRM_TIMEOUT, Funds, Liquidity} \subseteq Nat
ASSUME NoneAssumption ==
    /\ \A n \in Attempts \cup TicketIds \cup {Failed} : None # n
    /\ \A s \in {"pending", "confirmed", "refused", "unknown"} : None # s

VARIABLES
    attempt,  \* the attempts, in the order they are started
    landed    \* what became of each on chain: the ticket it was about, or Failed

walletVars == <<attempt, landed>>

Unused ==
    [stage |-> "unused", tx |-> None, since |-> 0, expires |-> 0, usdt |-> 0, result |-> None]

WalletInit ==
    /\ attempt = [i \in Attempts |-> Unused]
    /\ landed = [i \in Attempts |-> None]

\* The wallet's test USDT.
Usdt ==
    Funds + Total(NumTickets, [t \in TicketIds |-> paid[t] + bounty[t] - ticket[t].stake])

\* A bet also takes its stake from the wallet.
ExecuteForWallet(tx) == Execute(tx) /\ (tx.op = "bet" => Usdt >= tx.stake)

Becomes(i, a) == attempt' = [attempt EXCEPT ![i] = a]
Enter(i, stage) == Becomes(i, [attempt[i] EXCEPT !.stage = stage, !.since = now])

\* The attempt is over.  Reported "refused", nothing was or will be executed;
\* reported "unknown", that is open.
Over(i, result) ==
    Becomes(i, [attempt[i] EXCEPT !.stage = "over", !.since = 0, !.expires = 0, !.result = result])

\* What a page knows of the attempt it has started, if it has.
IsSent(i) == i # None
IsPending(i) == IsSent(i) /\ attempt[i].stage # "over"
IsConfirmed(i) == IsSent(i) /\ attempt[i].result = "confirmed"

\* A click, on a page that sends tx.
Click(i, tx) ==
    /\ attempt[i].stage = "unused"
    /\ \A j \in 1..(i - 1) : attempt[j].stage # "unused"
    /\ tx.by = i
    /\ Becomes(i, [Unused EXCEPT !.stage = "preparing", !.tx = tx, !.since = now])
    /\ UNCHANGED landed

-----------------------------------------------------------------------------
(* placeBetOnChain and its like, up to the wallet prompt.                  *)

\* The wallet cannot pay, which is checked before it is prompted.
CannotPay(tx) == tx.op = "bet" /\ Usdt < tx.stake

\* An audit or a claim also reads the balance its bounty is to be paid into.
UsdtBefore(tx) == IF tx.op \in {"audit", "claim"} THEN Usdt ELSE 0

\* One parallel batch of reads; the blockhash is one of them.
Prepare(i) ==
    /\ attempt[i].stage = "preparing"
    /\ \/ /\ ~CannotPay(attempt[i].tx)
          /\ Becomes(i, [attempt[i] EXCEPT !.stage = "signing", !.since = now,
                                           !.expires = now + TxLifetime,
                                           !.usdt = UsdtBefore(attempt[i].tx)])
          /\ Answered
       \/ CannotPay(attempt[i].tx) /\ Over(i, "refused") /\ Answered
       \/ Fault /\ Over(i, "refused") /\ UNCHANGED inflight
    /\ UNCHANGED <<vars, landed>>

-----------------------------------------------------------------------------
(* signSendAndConfirm                                                      *)

SignsOrGaveUp(i) == attempt[i].stage \in {"signing", "over"} /\ attempt[i].result # "confirmed"
\* A signature that comes after the deadline is dropped with the race it lost.
AwaitsSignature(i) == attempt[i].stage = "signing"

Sign(i) ==
    /\ AwaitsSignature(i)
    /\ Enter(i, "sending")
    /\ UNCHANGED <<vars, txVars, landed>>

\* The bettor declines, or does not answer in time.
NotSigned(i) ==
    /\ attempt[i].stage = "signing"
    /\ Over(i, "refused")
    /\ UNCHANGED <<vars, txVars, landed>>

\* The RPC simulates what it is sent, and refuses what would fail.
Broadcast(i) ==
    LET tx == attempt[i].tx
        valid == now < attempt[i].expires
        out == inflight \cup {[tx |-> tx, expires |-> attempt[i].expires]}
    IN  /\ attempt[i].stage = "sending"
        /\ \/ /\ valid /\ ENABLED ExecuteForWallet(tx)
              /\ Enter(i, "confirming")
              /\ inflight' = out
              /\ UNCHANGED faults
           \/ /\ ~valid \/ ~ENABLED ExecuteForWallet(tx)
              /\ Over(i, "refused")
              /\ Answered
           \/ /\ Fault
              /\ Over(i, "unknown")
              /\ inflight' \in {inflight, out}
        /\ UNCHANGED <<vars, landed>>

\* A transaction that landed as a failure is a failure.
HasSucceeded(i) == landed[i] \in TicketIds

Confirm(i) ==
    /\ attempt[i].stage = "confirming"
    /\ \/ HasSucceeded(i) /\ Over(i, "confirmed") /\ Answered
       \/ landed[i] = Failed /\ Over(i, "refused") /\ Answered
       \/ landed[i] = None /\ now >= attempt[i].expires /\ Over(i, "refused") /\ Answered
       \/ now >= attempt[i].since + CONFIRM_TIMEOUT /\ Over(i, "unknown") /\ Answered
       \/ Fault /\ Over(i, "unknown") /\ UNCHANGED inflight
    /\ UNCHANGED <<vars, landed>>

WalletStep(i) == Prepare(i) \/ Sign(i) \/ NotSigned(i) \/ Broadcast(i) \/ Confirm(i)

-----------------------------------------------------------------------------
(* The chain.                                                              *)

\* The ticket a transaction was about.
TouchedTicket(tx) ==
    IF tx.op = "bet" THEN CHOOSE t \in TicketIds : ticket[t] = NoTicket /\ ticket'[t] # NoTicket
    ELSE tx.t

\* A transaction that is no longer executable lands as a failure.
Land ==
    \E sent \in inflight :
        /\ now < sent.expires
        /\ inflight' = inflight \ {sent}
        /\ \/ /\ ExecuteForWallet(sent.tx)
              /\ landed' = [landed EXCEPT ![sent.tx.by] = TouchedTicket(sent.tx)]
           \/ /\ ~ENABLED ExecuteForWallet(sent.tx)
              /\ landed' = [landed EXCEPT ![sent.tx.by] = Failed]
              /\ UNCHANGED vars
        /\ UNCHANGED <<faults, attempt>>

\* No stage outlives its deadline.
Deadline ==
    [preparing |-> RPC_READ_TIMEOUT, signing |-> SIGN_TIMEOUT, sending |-> RPC_READ_TIMEOUT,
     confirming |-> CONFIRM_TIMEOUT]
WalletClock ==
    /\ \A i \in Attempts :
         attempt[i].stage \in DOMAIN Deadline => now < attempt[i].since + Deadline[attempt[i].stage]
    /\ ClockTicks
    /\ UNCHANGED walletVars

-----------------------------------------------------------------------------
(* Properties.                                                             *)

\* An attempt that was reported to have failed for a reason that settles it (no
\* funds, no signature, refused, failed on chain, expired) has not been executed
\* and never will be: only a stage that timed out after the transaction left the
\* browser leaves that open.
IsDead(i) ==
    /\ landed[i] \notin TicketIds
    /\ \A sent \in inflight : sent.tx.by # i \/ now >= sent.expires
RefusedIsFinal == \A i \in Attempts : attempt[i].result = "refused" => IsDead(i)

=============================================================================
