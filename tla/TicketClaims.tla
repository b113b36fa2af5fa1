---------------------------- MODULE TicketClaims ----------------------------
(***************************************************************************)
(* What the book promises a bettor, with the house, the vault, the markets *)
(* and the oracle left out: a ticket is a claim that ends once, and what   *)
(* is received on it is what its end says.  The on-chain program, TrueBook, *)
(* is shown to implement this.                                             *)
(***************************************************************************)
EXTENDS Integers

CONSTANT Tickets

VARIABLES
    claim,     \* what has become of each ticket
    stake,     \* what the bettor gave
    promise,   \* what a win pays
    received,  \* what the bettor has been given
    repaired   \* a sale that was proven too cheap has been made good

claimVars == <<claim, stake, promise, received, repaired>>

Claim == {"None", "Open", "Won", "Lost", "Disputed", "Refunded", "Sold"}

ClaimInit ==
    /\ claim = [t \in Tickets |-> "None"]
    /\ stake = [t \in Tickets |-> 0]
    /\ promise = [t \in Tickets |-> 0]
    /\ received = [t \in Tickets |-> 0]
    /\ repaired = [t \in Tickets |-> FALSE]

\* Ticket t moves on from one of the states in From, and no other ticket does.
Moves(t, From, to) ==
    /\ claim[t] \in From
    /\ claim' = [claim EXCEPT ![t] = to]

\* The bettor of t, and no other, is given an amount.
Receives(t, amount) ==
    /\ received' = [received EXCEPT ![t] = @ + amount]
    /\ UNCHANGED <<stake, promise>>

Buy(t) ==
    /\ Moves(t, {"None"}, "Open")
    /\ \A u \in Tickets \ {t} : stake'[u] = stake[u] /\ promise'[u] = promise[u]
    /\ DOMAIN stake' = Tickets /\ DOMAIN promise' = Tickets
    /\ 0 < stake'[t] /\ stake'[t] <= promise'[t]
    /\ UNCHANGED <<received, repaired>>

Win(t) == Moves(t, {"Open"}, "Won") /\ Receives(t, promise[t]) /\ UNCHANGED repaired

Lose(t) == Moves(t, {"Open"}, "Lost") /\ UNCHANGED <<stake, promise, received, repaired>>

\* An overcharge is proven, while the bettor has not been paid.
Dispute(t) ==
    Moves(t, {"Open", "Lost"}, "Disputed") /\ UNCHANGED <<stake, promise, received, repaired>>

Refund(t) ==
    Moves(t, {"Open", "Disputed"}, "Refunded") /\ Receives(t, stake[t]) /\ UNCHANGED repaired

Sell(t, amount) ==
    /\ Moves(t, {"Open"}, "Sold")
    /\ 0 < amount /\ amount <= promise[t]
    /\ Receives(t, amount)
    /\ UNCHANGED repaired

Repair(t, amount) ==
    /\ claim[t] = "Sold" /\ ~repaired[t]
    /\ 0 <= amount /\ received[t] + amount <= promise[t]
    /\ Receives(t, amount)
    /\ repaired' = [repaired EXCEPT ![t] = TRUE]
    /\ UNCHANGED claim

\* What a step gives the bettor of t.
Given(t) == received'[t] - received[t]

ClaimNext ==
    \E t \in Tickets :
        \/ Buy(t) \/ Win(t) \/ Lose(t) \/ Dispute(t) \/ Refund(t)
        \/ Sell(t, Given(t)) \/ Repair(t, Given(t))

ClaimSpec == ClaimInit /\ [][ClaimNext]_claimVars

=============================================================================
