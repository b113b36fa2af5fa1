---------------------------- MODULE TicketsPage ----------------------------
(***************************************************************************)
(* The tickets page: the list it polls (lib/chain/tickets.ts), the         *)
(* cash-out sheet over a snapshot of an offer (CashOutSheet.tsx), and in   *)
(* every row that can be audited a panel that audits, claims a repair and  *)
(* refunds (AuditPanel.tsx, lib/chain/audit.ts).  A panel lives and dies   *)
(* with its row, the functions it called go on without it.                 *)
(***************************************************************************)
EXTENDS WalletFlow

CONSTANTS
    Wallet,       \* the wallet, as an auditor
    BooksAtFirst  \* the tickets it may hold at first, with the markets they are of

ASSUME BooksAssumption ==
    /\ Wallet \in Auditors
    /\ \A book \in BooksAtFirst : IsBook(book.markets, book.tickets, Liquidity)

VARIABLES
    list,     \* what the page shows of each ticket
    sheet,    \* the cash-out sheet, if one is open
    panel,    \* the audit and the refund each panel has called for last
    verdict   \* what the function of each audit has found

listVars == <<list, sheet, panel, verdict>>
ticketsVars == <<vars, txVars, walletVars, listVars>>

NotAsked == [audit |-> None, refund |-> None]
Unread == [is |-> "unread", refundable |-> FALSE, gained |-> 0, claim |-> None]

TicketsInit ==
    /\ \E book \in BooksAtFirst : BookWith(book.markets, book.tickets, Liquidity)
    /\ WalletInit
    /\ list = None
    /\ sheet = None
    /\ panel = [t \in TicketIds |-> NotAsked]
    /\ verdict = [i \in Attempts |-> Unread]

-----------------------------------------------------------------------------
(* The list: fetchChainTickets.                                            *)

Status ==
    [Live |-> "live", Won |-> "won", Lost |-> "lost", Refundable |-> "refundable",
     Refunded |-> "refunded", CashedOut |-> "cashedOut"]

\* What cash_out_ticket would pay, computed a second time.
cashOutValueRaw(payout, opposite_odds_bps) ==
    (payout * (BPS_DENOMINATOR - (ODDS_BPS_SCALE * BPS_DENOMINATOR) \div opposite_odds_bps))
        \div BPS_DENOMINATOR

OwnOdds(t) == market[t.market].odds[t.side]
OppositeOdds(t) == market[t.market].odds[Opposite(t.side)]

\* The standing offer for ticket account t: on an open market with a fresh quote.
Offer(t) ==
    LET age == now - market[t.market].quote_posted_ts
        odds == OppositeOdds(t)
    IN  IF /\ t.state = "Live" /\ market[t.market].state = "Open"
           /\ market[t.market].quote_posted_ts > 0
           /\ age <= QUOTE_VALIDITY_SECONDS
           /\ odds > ODDS_BPS_SCALE
           /\ cashOutValueRaw(t.potential_payout, odds) > 0
        THEN [amount |-> cashOutValueRaw(t.potential_payout, odds), quote |-> market[t.market].odds,
              left |-> QUOTE_VALIDITY_SECONDS - age]
        ELSE None

\* The amount a row shows: what the ticket was or would be paid.
AmountLabel(t, r) ==
    CASE t.state \in {"Live", "Won"} -> t.potential_payout
      [] t.state \in {"Refundable", "Refunded"} -> t.stake
      [] t.state = "CashedOut" -> r.paid_amount
      [] t.state = "Lost" -> 0

\* The line of a cash-out that was proven a lowball.
ShortfallRow(t, r) ==
    IF t.state = "CashedOut" /\ r.audit_status = "Violation"
    THEN [amount |-> r.shortfall_owed, repaid |-> r.made_whole]
    ELSE None

\* What a row says of the ticket.
TicketStatusPill(status) ==
    CASE status = "live" -> "Live"
      [] status = "won" -> "Verified on Solana"
      [] status = "refundable" -> "Refund due"
      [] status = "refunded" -> "Proven overcharge"
      [] status = "cashedOut" -> "Cashed out"
      [] status = "lost" -> "Settled"

AUDITABLE_STATUSES == {"live", "lost", "won", "cashedOut"}
IsListed(t) == list # None /\ t \in DOMAIN list
HasPanel(t) == IsListed(t) /\ list[t].status \in AUDITABLE_STATUSES

fetchChainTickets ==
    [t \in {u \in TicketIds : ticket[u] # NoTicket} |->
        [status |-> Status[ticket[t].state], offer |-> Offer(ticket[t]),
         amount |-> AmountLabel(ticket[t], receipt[t]),
         shortfall |-> ShortfallRow(ticket[t], receipt[t])]]

\* A poll replaces the list; one that fails leaves none.  (It reads the tickets
\* before their markets, which makes the list a little older, not different: it
\* is stale the moment it is shown.)  A panel without a row is unmounted.
PollTickets ==
    /\ \/ list' = fetchChainTickets /\ Answered
       \/ Fault /\ list' = None /\ UNCHANGED inflight
    /\ panel' = [t \in TicketIds |-> IF HasPanel(t)' THEN panel[t] ELSE NotAsked]
    /\ UNCHANGED <<vars, walletVars, sheet, verdict>>

-----------------------------------------------------------------------------
(* The cash-out sheet.                                                     *)

\* A row offers to cash out where there is an offer.
OffersCashOut(t) == IsListed(t) /\ list[t].offer # None

openSheet(t) ==
    /\ sheet = None
    /\ OffersCashOut(t)
    /\ sheet' = [t |-> t, offer |-> list[t].offer, left |-> list[t].offer.left, last |-> None]
    /\ UNCHANGED <<vars, txVars, walletVars, list, panel, verdict>>

canCashOut == sheet.left > 0 /\ ~IsPending(sheet.last) /\ ~IsConfirmed(sheet.last)

\* What the sheet shows: the offer and its button, or what was received for it.
OfferView == [amount |-> sheet.offer.amount, cashOut |-> canCashOut]
ReceivedView == [amount |-> sheet.offer.amount, confirmed |-> IsConfirmed(sheet.last)]

\* The transaction an attempt is to send.  It names no price: the ticket is sold
\* at what the market quotes then.
cashOutTicketOnChain(i, t) == [op |-> "cashout", t |-> t, by |-> i]

handleCashOut ==
    /\ sheet # None
    /\ OfferView.cashOut
    /\ \E i \in Attempts :
         /\ Click(i, cashOutTicketOnChain(i, sheet.t))
         /\ sheet' = [sheet EXCEPT !.last = i]
    /\ UNCHANGED <<vars, txVars, list, panel, verdict>>

closeSheet ==
    /\ sheet # None
    /\ sheet' = None
    /\ UNCHANGED <<vars, txVars, walletVars, list, panel, verdict>>

\* The sheet counts down until it is confirmed.
SheetClock ==
    /\ WalletClock
    /\ sheet' = IF sheet = None \/ IsConfirmed(sheet.last) THEN sheet
                ELSE [sheet EXCEPT !.left = SaturatingSub(@, 1)]
    /\ UNCHANGED <<list, panel, verdict>>

-----------------------------------------------------------------------------
(* The functions of an audit, of its claim and of a refund: what each      *)
(* sends, and what an audit does once that is confirmed.                   *)

auditTicketOnChain(i, t) == [op |-> "audit", t |-> t, by |-> i]
auditCashOutOnChain(i, t) == [op |-> "auditCashOut", t |-> t, auditor |-> Wallet, by |-> i]
claimCashOutRepair(i, t) == [op |-> "claim", t |-> t, by |-> i]
refundTicketOnChain(i, t) == [op |-> "refund", t |-> t, by |-> i]

IsAudit(i) == attempt[i].tx # None /\ attempt[i].tx.op \in {"audit", "auditCashOut"}

\* The verdict an audit has put on chain.
StatusAudited(i) ==
    IF attempt[i].tx.op = "audit" THEN ticket[attempt[i].tx.t].audit_status
    ELSE receipt[attempt[i].tx.t].audit_status

Gain(i) == SaturatingSub(Usdt, attempt[i].usdt)
Found(i, v) == verdict' = [verdict EXCEPT ![i] = v]

\* Once its transaction is confirmed, an audit reads what it did.  A cash-out
\* proven a lowball is followed by the claim of its repair, which the wallet is
\* asked to sign too.
ReadVerdict(i) ==
    /\ IsAudit(i) /\ IsConfirmed(i) /\ verdict[i] = Unread
    /\ \/ /\ StatusAudited(i) # "Violation"
          /\ Answered
          /\ Found(i, [Unread EXCEPT !.is = "honest"])
          /\ UNCHANGED walletVars
       \/ /\ StatusAudited(i) = "Violation" /\ attempt[i].tx.op = "audit"
          /\ Answered
          /\ Found(i, [is |-> "violation", claim |-> None, gained |-> Gain(i),
                       refundable |-> ticket[attempt[i].tx.t].state = "Refundable"])
          /\ UNCHANGED walletVars
       \/ /\ StatusAudited(i) = "Violation" /\ attempt[i].tx.op = "auditCashOut"
          /\ Answered
          /\ \E j \in Attempts :
               /\ Click(j, claimCashOutRepair(j, attempt[i].tx.t))
               /\ Found(i, [Unread EXCEPT !.is = "violation", !.claim = j])
       \/ /\ Fault
          /\ Found(i, [Unread EXCEPT !.is = "unknown"])
          /\ UNCHANGED <<inflight, walletVars>>
    /\ UNCHANGED <<vars, list, sheet, panel>>

\* An audit has returned: it has failed, or with a claim that has.
HasReturned(i) ==
    \/ attempt[i].result \in {"refused", "unknown"}
    \/ verdict[i].is \in {"honest", "unknown"}
    \/ verdict[i].is = "violation" /\ ~IsPending(verdict[i].claim)

ReturnsAnyVerdict(i) == verdict[i].is \in {"honest", "violation"}
\* It has returned a verdict: that of a cash-out only with its repair paid.
ReturnsVerdict(i) ==
    \/ verdict[i].is = "honest"
    \/ verdict[i].is = "violation" /\ (IsSent(verdict[i].claim) => IsConfirmed(verdict[i].claim))

-----------------------------------------------------------------------------
(* The panels.                                                             *)

Shows(t) == IsSent(panel[t].audit) /\ ReturnsVerdict(panel[t].audit)
OffersAudit(t) ==
    HasPanel(t) /\ ~Shows(t) /\ (IsSent(panel[t].audit) => HasReturned(panel[t].audit))
OffersRefund(t) ==
    HasPanel(t) /\ Shows(t) /\ verdict[panel[t].audit].refundable /\ ~IsConfirmed(panel[t].refund)

handleAudit(t) ==
    /\ OffersAudit(t)
    /\ \E i \in Attempts :
         /\ Click(i, IF list[t].status = "cashedOut" THEN auditCashOutOnChain(i, t)
                     ELSE auditTicketOnChain(i, t))
         /\ panel' = [panel EXCEPT ![t].audit = i]
    /\ UNCHANGED <<vars, txVars, list, sheet, verdict>>

handleRefund(t) ==
    /\ OffersRefund(t) /\ ~IsPending(panel[t].refund)
    /\ \E i \in Attempts :
         /\ Click(i, refundTicketOnChain(i, t))
         /\ panel' = [panel EXCEPT ![t].refund = i]
    /\ UNCHANGED <<vars, txVars, list, sheet, verdict>>

\* Opening a row mounts its panel anew.
handleToggle(t) ==
    /\ HasPanel(t) /\ panel[t] # NotAsked
    /\ panel' = [panel EXCEPT ![t] = NotAsked]
    /\ UNCHANGED <<vars, txVars, walletVars, list, sheet, verdict>>

-----------------------------------------------------------------------------

\* The keeper and other crankers.
OthersAct ==
    /\ \/ \E m \in MarketIds :
            \/ \E q \in Quotes, r \in RecordIds : PostQuote(m, q, r)
            \/ LockMarket(m)
            \/ \E proof \in ScoreProofs : VerifyMarket(m, proof)
            \/ VoidMarket(m, FALSE)
       \/ \E t \in TicketIds : SettleTicket(t) \/ RefundTicket(t) \/ ClaimCashOutRepair(t)
    /\ UNCHANGED <<txVars, walletVars, listVars>>

TicketsNext ==
    \/ PollTickets
    \/ \E t \in TicketIds : openSheet(t) \/ handleAudit(t) \/ handleRefund(t) \/ handleToggle(t)
    \/ handleCashOut \/ closeSheet
    \/ \E i \in Attempts : ReadVerdict(i) \/ (WalletStep(i) /\ UNCHANGED listVars)
    \/ Land /\ UNCHANGED listVars
    \/ OthersAct
    \/ SheetClock

TicketsSpec == TicketsInit /\ [][TicketsNext]_ticketsVars

-----------------------------------------------------------------------------
(* Properties.                                                             *)

\* A verdict an audit returns is the one on chain, of the ticket or of its
\* cash-out as was asked, and stays it: whatever was audited, settled or
\* refunded while the wallet was signing and the chain confirming.
VerdictsShownAreTrue ==
    \A i \in Attempts :
        IsAudit(i) /\ ReturnsVerdict(i) =>
            LET t == attempt[i].tx.t
                onChain == IF attempt[i].tx.op = "audit" THEN ticket[t].audit_status
                           ELSE receipt[t].audit_status
            IN  onChain = (IF verdict[i].is = "violation" THEN "Violation" ELSE "Honest")

\* A lowball shown as proven has been repaid: the two transactions of a cash-out
\* audit are shown as one.
RepairShownIsPaid ==
    \A i \in Attempts :
        /\ IsAudit(i) /\ ReturnsVerdict(i)
        /\ verdict[i].is = "violation" /\ attempt[i].tx.op = "auditCashOut"
        => receipt[attempt[i].tx.t].made_whole

\* A confirmed cash-out has sold the ticket, and for what the sheet shows if it
\* was sold on the quote the offer was computed from: tickets.ts prices a ticket
\* as the program does.
SheetPaysWhileQuoted ==
    sheet # None /\ ReceivedView.confirmed =>
        /\ ticket[sheet.t].state = "CashedOut"
        /\ receipt[sheet.t].opposite_odds_bps = sheet.offer.quote[Opposite(ticket[sheet.t].side)] =>
              receipt[sheet.t].paid_amount = ReceivedView.amount

\* A confirmed cash-out was sold for what the sheet shows (CashOutSheet.tsx:36-37:
\* "what this sheet shows is what the program pays").
SheetPaysWhatItShows ==
    sheet # None /\ ReceivedView.confirmed =>
        receipt[sheet.t].paid_amount = ReceivedView.amount

\* The amount in the row of a ticket that is over is what its bettor was paid, by
\* settlement, refund or cash-out, together with a shortfall shown as repaid; only
\* a repair since the row was read comes on top.
AmountsShownArePaid ==
    \A t \in TicketIds :
        /\ IsListed(t) /\ list[t].status = Status[ticket[t].state]
        /\ ticket[t].state \in {"Won", "Lost", "Refunded", "CashedOut"}
        => LET row == list[t].shortfall
               shown == list[t].amount + (IF row # None /\ row.repaid THEN row.amount ELSE 0)
           IN  \/ paid[t] = shown
               \/ receipt[t].made_whole /\ paid[t] = shown + receipt[t].shortfall_owed

\* The refund that a proven overcharge makes due is offered (AuditPanel.tsx:40-41:
\* "a proven overcharge shows the bounty earned and, for a ticket, unlocks the
\* refund").
RefundIsOffered ==
    \A t \in TicketIds :
        /\ IsListed(t) /\ list[t].status = "refundable"
        /\ ticket[t].state = "Refundable"
        => OffersRefund(t)

\* A ticket shown as "Proven overcharge" (TicketRow.tsx:42-43) has been proven so.
RefundedPillIsTrue ==
    \A t \in TicketIds :
        IsListed(t) /\ TicketStatusPill(list[t].status) = "Proven overcharge" =>
            ticket[t].audit_status = "Violation"

\* The bounty a proven overcharge is shown to have earned is no more than was
\* paid for it (audit.ts:64: "USDT the auditor's balance gained (the bounty)").
ShownBountyIsPaid ==
    \A i \in Attempts :
        verdict[i].is = "violation" /\ attempt[i].tx.op = "audit" =>
            verdict[i].gained <= bounty[attempt[i].tx.t]

=============================================================================
