------------------------- MODULE MembershipBilling -------------------------
(***************************************************************************)
(* One member's monthly card membership: backend/src/billing/service.ts,   *)
(* with memberships issued at the desk or for free (StaffService.issue,    *)
(* freeMembership and cancelMembership of billing/passes.ts).              *)
(*                                                                         *)
(* Stripe keeps the subscription, its invoices and refunds; the server     *)
(* keeps one app_membership_billing row, one membership and one payment    *)
(* per paid invoice.  Events arrive at least once and in any order; an     *)
(* event leaves `event` when the transaction that handles it commits.      *)
(*                                                                         *)
(* Time is the billing month.  A membership is a set of months; the card's *)
(* month m is the one invoice m pays.                                      *)
(***************************************************************************)
EXTENDS Naturals, FiniteSets

CONSTANTS
  Delivery,   \* overlapping webhook deliveries
  Caller,     \* overlapping checkout calls
  Canceller,  \* overlapping calls of cancel
  Staffer,    \* overlapping refunds by staff
  MaxMonth,   \* the months looked at
  RefundMonth,  \* the months whose payment may be refunded
  DeskMonth   \* the months whose memberships staff touch

ASSUME MonthsAssumption ==
  /\ MaxMonth \in Nat \ {0}
  /\ RefundMonth \subseteq 1..MaxMonth /\ DeskMonth \subseteq 1..MaxMonth

VARIABLES
  bill,      \* the app_membership_billing row
  card,      \* status of the membership issued for each invoice
  desk,      \* status of the desk's or free membership in each month
  ledger,    \* per invoice: the payment's status and the refund state noted
  session,   \* the Checkout session
  sub,       \* the subscription at Stripe
  invoice,   \* the invoice of each month at Stripe
  refund,    \* its refund at Stripe
  answer,    \* what Stripe keeps under the cancellation's idempotency key
  event,     \* events not acknowledged
  now,       \* the billing month
  work       \* where each process is and what it read

rows == <<bill, card, desk, ledger>>
stripe == <<session, sub, invoice, refund, answer>>
vars == <<rows, stripe, event, now, work>>

Month == 1..MaxMonth
Process == Delivery \cup Caller \cup Canceller \cup Staffer

SubStatus == {"none", "active", "past_due", "canceled"}
Sub == [status: SubStatus, cancelAt: 0..MaxMonth + 1]
NoSub == [status |-> "none", cancelAt |-> 0]
RefundStatus == {"none", "pending", "succeeded", "failed"}
Access == {"none", "active", "suspended", "revoked"}
Event == [kind: {"expired", "changed"}, month: {0}] \cup [kind: {"paid", "refund"}, month: Month]
Ev(kind, m) == [kind |-> kind, month |-> m]
NoEvent == Ev("none", 0)

TypeOK ==
  /\ bill \in [status: {"none", "pending", "active", "past_due", "canceled", "expired"}, saved: BOOLEAN,
               bound: BOOLEAN, effective: 0..MaxMonth + 1, confirmed: BOOLEAN]
  /\ card \in [Month -> Access]
  /\ desk \in [Month -> Access]
  /\ ledger \in [Month -> [payment: {"none", "paid", "refunded"}, noted: RefundStatus]]
  /\ session \in {"none", "open", "complete", "expired"}
  /\ sub \in Sub
  /\ invoice \in [Month -> {"none", "open", "paid"}]
  /\ refund \in [Month -> RefundStatus]
  /\ answer \in Sub
  /\ event \subseteq Event
  /\ now \in Month
  /\ work \in [Process -> [at: {"idle", "creating", "saving", "savingExpired", "bound", "decided", "ending", "ended",
                                "retrieved", "synced", "checked", "fetched", "recording"},
                           on: Event \cup {NoEvent, Ev("refunding", 0)} \cup [kind: {"refunding"}, month: Month],
                           sub: Sub, refund: RefundStatus]]

Idle == [at |-> "idle", on |-> NoEvent, sub |-> NoSub, refund |-> "none"]
At(p, step) == work[p].at = step
Goto(p, step, on, s, r) == work' = [work EXCEPT ![p] = [at |-> step, on |-> on, sub |-> s, refund |-> r]]
Move(p, step) == Goto(p, step, NoEvent, NoSub, "none")
Finish(p) == work' = [work EXCEPT ![p] = Idle]

\* pg_advisory_xact_lock 'membership-stripe', and 7121 of the member.
SubFree == \A p \in Process : work[p].at \notin {"retrieved", "synced", "checked"}
MemberFree == \A p \in Process : ~ At(p, "checked")
\* The row lock on an invoice.
InvoiceFree(m) == \A p \in Process : ~ (work[p].at \in {"fetched", "recording"} /\ work[p].on.month = m)

Covers(status) == status \in {"active", "suspended"}
Terminal == {"canceled", "expired"}

-----------------------------------------------------------------------------
(* Stripe.                                                                 *)

Subscribe ==
  /\ session = "open"
  /\ session' = "complete"
  /\ sub' = [NoSub EXCEPT !.status = "active"]
  /\ invoice' = [invoice EXCEPT ![now] = "paid"]
  /\ event' = event \cup {Ev("changed", 0), Ev("paid", now)}
  /\ UNCHANGED <<rows, refund, answer, now, work>>

ExpireSession ==
  /\ session = "open"
  /\ session' = "expired"
  /\ event' = event \cup {Ev("expired", 0)}
  /\ UNCHANGED <<rows, sub, invoice, refund, answer, now, work>>

Running == sub.status \in {"active", "past_due"}

\* A month passes: the subscription ends or bills again, and Stripe forgets
\* what it keeps under idempotency keys (after a day).
NextMonth ==
  /\ now < MaxMonth
  /\ now' = now + 1
  /\ answer' = NoSub
  /\ IF Running
     THEN /\ IF sub.cancelAt # 0 /\ sub.cancelAt <= now
             THEN sub' = [sub EXCEPT !.status = "canceled"] /\ UNCHANGED invoice
             ELSE \/ invoice' = [invoice EXCEPT ![now'] = "paid"] /\ UNCHANGED sub
                  \/ invoice' = [invoice EXCEPT ![now'] = "open"] /\ sub' = [sub EXCEPT !.status = "past_due"]
          /\ event' = event \cup {Ev("changed", 0)} \cup {Ev("paid", m) : m \in {k \in {now'} : invoice'[k] = "paid"}}
     ELSE UNCHANGED <<sub, invoice, event>>
  /\ UNCHANGED <<rows, session, refund, work>>

PayLate(m) ==
  /\ invoice[m] = "open" /\ Running
  /\ invoice' = [invoice EXCEPT ![m] = "paid"]
  /\ sub' = IF \A k \in Month \ {m} : invoice[k] # "open" THEN [sub EXCEPT !.status = "active"] ELSE sub
  /\ event' = event \cup {Ev("changed", 0), Ev("paid", m)}
  /\ UNCHANGED <<rows, session, refund, answer, now, work>>

\* Stripe gives the subscription up, or it is cancelled at the dashboard.
Lapse ==
  /\ Running
  /\ sub' = [sub EXCEPT !.status = "canceled"]
  /\ event' = event \cup {Ev("changed", 0)}
  /\ UNCHANGED <<rows, session, invoice, refund, answer, now, work>>

RefundAtDashboard(m) ==
  /\ invoice[m] = "paid" /\ refund[m] = "none"
  /\ \E s \in {"pending", "succeeded"} : refund' = [refund EXCEPT ![m] = s]
  /\ event' = event \cup {Ev("refund", m)}
  /\ UNCHANGED <<rows, session, sub, invoice, answer, now, work>>

RefundMoves(m) ==
  /\ \/ refund[m] = "pending" /\ \E s \in {"succeeded", "failed"} : refund' = [refund EXCEPT ![m] = s]
     \/ refund[m] = "succeeded" /\ refund' = [refund EXCEPT ![m] = "failed"]
  /\ event' = event \cup {Ev("refund", m)}
  /\ UNCHANGED <<rows, session, sub, invoice, answer, now, work>>

-----------------------------------------------------------------------------
(* checkout.                                                               *)

\* The row is made if no membership covers the rest, or found pending.
StartCheckout(p) ==
  /\ At(p, "idle")
  /\ MemberFree
  /\ \/ /\ bill.status = "none"
        /\ \A m \in now..MaxMonth : ~ Covers(desk[m])
        /\ bill' = [bill EXCEPT !.status = "pending"]
     \/ bill.status = "pending" /\ UNCHANGED bill
  /\ Move(p, "creating")
  /\ UNCHANGED <<card, desk, ledger, stripe, event, now>>

CreateSession(p) ==
  /\ At(p, "creating")
  /\ session' = IF session = "none" THEN "open" ELSE session
  /\ Move(p, IF session' = "expired" THEN "savingExpired" ELSE "saving")
  /\ UNCHANGED <<rows, sub, invoice, refund, answer, event, now>>

SaveSession(p) ==
  /\ At(p, "saving") \/ At(p, "savingExpired")
  /\ bill' = [bill EXCEPT !.saved = TRUE,
                          !.status = IF @ = "pending" /\ At(p, "savingExpired") THEN "expired" ELSE @]
  /\ Finish(p)
  /\ UNCHANGED <<card, desk, ledger, stripe, event, now>>

-----------------------------------------------------------------------------
(* webhook: the session and the subscription.                              *)

\* Matched by the saved id; an event that matches nothing is marked as well.
DeliverExpired ==
  /\ Ev("expired", 0) \in event
  /\ bill' = IF bill.saved /\ bill.status = "pending" /\ ~ bill.bound
             THEN [bill EXCEPT !.status = "expired"] ELSE bill
  /\ event' = event \ {Ev("expired", 0)}
  /\ UNCHANGED <<card, desk, ledger, stripe, now, work>>

\* syncSubscription: bound by id, or by the metadata while pending.
Ours == bill.bound \/ bill.status = "pending"
Synced(s) == [bill EXCEPT !.bound = TRUE, !.status = s.status,
                          !.confirmed = s.cancelAt # 0 /\ s.cancelAt = bill.effective]

Taken(e) == \E p \in Process : work[p].on = e

\* The subscription is retrieved under its advisory lock.
Retrieve(p, e) ==
  /\ At(p, "idle")
  /\ e \in event /\ ~ Taken(e)
  /\ SubFree
  /\ Goto(p, "retrieved", e, sub, "none")
  /\ UNCHANGED <<rows, stripe, event, now>>

ApplyChange(p) ==
  /\ At(p, "retrieved")
  /\ work[p].on.kind = "changed"
  /\ bill' = IF Ours THEN Synced(work[p].sub) ELSE bill
  /\ event' = IF sub = work[p].sub THEN event \ {work[p].on} ELSE event
  /\ Finish(p)
  /\ UNCHANGED <<card, desk, ledger, stripe, now>>

\* invoicePaid: under the member's lock, no other membership in the month.
CheckOverlap(p) ==
  /\ At(p, "retrieved")
  /\ work[p].on.kind = "paid"
  /\ Ours /\ card[work[p].on.month] = "none"
  /\ MemberFree
  /\ ~ Covers(desk[work[p].on.month])
  /\ Goto(p, "checked", work[p].on, work[p].sub, "none")
  /\ UNCHANGED <<rows, stripe, event, now>>

IssueMonth(p) ==
  /\ At(p, "checked")
  /\ bill' = Synced(work[p].sub)
  /\ card' = [card EXCEPT ![work[p].on.month] = "active"]
  /\ ledger' = [ledger EXCEPT ![work[p].on.month].payment = "paid"]
  /\ event' = event \ {work[p].on}
  /\ Finish(p)
  /\ UNCHANGED <<desk, stripe, now>>

\* An invoice recorded before, or of a subscription that is not ours.
SkipInvoice(p) ==
  /\ At(p, "retrieved")
  /\ work[p].on.kind = "paid"
  /\ ~ Ours \/ card[work[p].on.month] # "none"
  /\ bill' = IF Ours THEN Synced(work[p].sub) ELSE bill
  /\ event' = event \ {work[p].on}
  /\ Finish(p)
  /\ UNCHANGED <<card, desk, ledger, stripe, now>>

-----------------------------------------------------------------------------
(* cancel.                                                                 *)

\* A slip: a cancellation that is asked for again gets a date of its own.
DecideAgain(p) ==
  /\ At(p, "bound")
  /\ SubFree
  /\ \E e \in {now, now + 1} : bill' = [bill EXCEPT !.effective = e]
  /\ Move(p, "decided")
  /\ UNCHANGED <<card, desk, ledger, stripe, event, now>>

\* The row is read outside any transaction.
ReadBill(p) ==
  /\ At(p, "idle")
  /\ bill.status \notin Terminal \cup {"none"}
  /\ \/ bill.bound /\ Move(p, "bound")
     \/ ~ bill.bound /\ bill.saved /\ Move(p, "ending")
  /\ UNCHANGED <<rows, stripe, event, now>>

\* The first call decides on the first boundary with 30 days' notice.
Decide(p) ==
  /\ At(p, "bound")
  /\ SubFree
  /\ IF bill.effective # 0 THEN UNCHANGED bill
     ELSE \E e \in {now, now + 1} : bill' = [bill EXCEPT !.effective = e]
  /\ Move(p, "decided")
  /\ UNCHANGED <<card, desk, ledger, stripe, event, now>>

\* subscriptions.update under the cancellation's key: within a day Stripe
\* repeats its first answer.  syncSubscription takes the answer.
CancelAtStripe(p) ==
  /\ At(p, "decided")
  /\ SubFree
  /\ answer = NoSub => Running
  /\ IF answer = NoSub
     THEN /\ sub' = [sub EXCEPT !.cancelAt = bill.effective]
          /\ answer' = sub'
          /\ event' = event \cup {Ev("changed", 0)}
     ELSE UNCHANGED <<sub, answer, event>>
  /\ \/ bill' = IF Ours THEN Synced(answer') ELSE bill
     \/ UNCHANGED bill    \* the answer is lost, the transaction rolled back
  /\ Finish(p)
  /\ UNCHANGED <<card, desk, ledger, session, invoice, refund, now>>

EndSession(p) ==
  /\ At(p, "ending")
  /\ session' = IF session = "open" THEN "expired" ELSE session
  /\ event' = IF session = "open" THEN event \cup {Ev("expired", 0)} ELSE event
  /\ IF session' = "expired" THEN Move(p, "ended") ELSE Finish(p)
  /\ UNCHANGED <<rows, sub, invoice, refund, answer, now>>

EndBill(p) ==
  /\ At(p, "ended")
  /\ bill' = IF bill.status = "pending" THEN [bill EXCEPT !.status = "expired"] ELSE bill
  /\ Finish(p)
  /\ UNCHANGED <<card, desk, ledger, stripe, event, now>>

-----------------------------------------------------------------------------
(* Refunds.                                                                *)

\* applyRefund.
Noted(m, s) ==
  LET old == ledger[m]
  IN IF \/ old.noted = "succeeded" /\ s # "failed"
        \/ old.noted = s
        \/ old.noted = "failed" /\ s = "pending"
     THEN old
     ELSE [noted |-> s,
           payment |-> IF s = "succeeded" THEN "refunded" ELSE IF s = "failed" THEN "paid" ELSE old.payment]

\* A slip: an event without its invoice is acknowledged; otherwise it fails,
\* and comes again.
DropRefund(p, m) ==
  /\ At(p, "idle")
  /\ Ev("refund", m) \in event /\ ~ Taken(Ev("refund", m))
  /\ InvoiceFree(m)
  /\ IF card[m] = "none"
     THEN event' = event \ {Ev("refund", m)} /\ UNCHANGED work
     ELSE Goto(p, "fetched", Ev("refund", m), NoSub, refund[m]) /\ UNCHANGED event
  /\ UNCHANGED <<rows, stripe, now>>

\* refundEvent: the invoice is locked, then the refund retrieved.
FetchRefund(p, m) ==
  /\ At(p, "idle")
  /\ Ev("refund", m) \in event /\ ~ Taken(Ev("refund", m))
  /\ card[m] # "none"
  /\ InvoiceFree(m)
  /\ Goto(p, "fetched", Ev("refund", m), NoSub, refund[m])
  /\ UNCHANGED <<rows, stripe, event, now>>

ApplyRefund(p) ==
  /\ At(p, "fetched")
  /\ ledger' = [ledger EXCEPT ![work[p].on.month] = Noted(work[p].on.month, work[p].refund)]
  /\ event' = IF refund[work[p].on.month] = work[p].refund THEN event \ {work[p].on} ELSE event
  /\ Finish(p)
  /\ UNCHANGED <<bill, card, desk, stripe, now>>

\* refund by staff: the refund of this payment is found or made under the lock.
RefundByStaff(p, m) ==
  /\ At(p, "idle")
  /\ card[m] # "none" /\ ledger[m].noted # "succeeded"
  /\ InvoiceFree(m)
  /\ \/ refund[m] # "none" /\ UNCHANGED <<refund, event>>
     \/ /\ refund[m] = "none"
        /\ \E s \in {"pending", "succeeded"} : refund' = [refund EXCEPT ![m] = s]
        /\ event' = event \cup {Ev("refund", m)}
  /\ Goto(p, "recording", Ev("refunding", m), NoSub, refund'[m])
  /\ UNCHANGED <<rows, session, sub, invoice, answer, now>>

RecordRefund(p) ==
  /\ At(p, "recording")
  /\ ledger' = [ledger EXCEPT ![work[p].on.month] = Noted(work[p].on.month, work[p].refund)]
  /\ Finish(p)
  /\ UNCHANGED <<bill, card, desk, stripe, event, now>>

GiveUp(p) ==
  /\ ~ At(p, "idle")
  /\ Finish(p)
  /\ UNCHANGED <<rows, stripe, event, now>>

-----------------------------------------------------------------------------
(* The desk and free access.                                               *)

\* A slip: the member's lock is forgotten.
IssueUnlocked(first, last) ==
  /\ now <= last
  /\ \A m \in first..last : ~ Covers(card[m]) /\ ~ Covers(desk[m])
  /\ desk' = [m \in Month |-> IF m \in first..last THEN "active" ELSE desk[m]]
  /\ UNCHANGED <<bill, card, ledger, stripe, event, now, work>>

\* StaffService.issue: some months from now on, none of them covered.
IssueAtDesk(first, last) ==
  /\ MemberFree
  /\ now <= last
  /\ \A m \in first..last : ~ Covers(card[m]) /\ ~ Covers(desk[m])
  /\ desk' = [m \in Month |-> IF m \in first..last THEN "active" ELSE desk[m]]
  /\ UNCHANGED <<bill, card, ledger, stripe, event, now, work>>

\* freeMembership: one month, and no card billing under way.
IssueFree ==
  /\ MemberFree
  /\ now \in DeskMonth
  /\ bill.status \in Terminal \cup {"none"}
  /\ ~ Covers(card[now]) /\ ~ Covers(desk[now])
  /\ desk' = [desk EXCEPT ![now] = "active"]
  /\ UNCHANGED <<bill, card, ledger, stripe, event, now, work>>

\* cancelMembership: a running one of the desk ends with 30 days' notice.
CancelDesk ==
  /\ MemberFree
  /\ desk[now] = "active"
  /\ desk' = [m \in Month |-> IF m > now + 1 THEN "none" ELSE desk[m]]
  /\ UNCHANGED <<bill, card, ledger, stripe, event, now, work>>

\* entitlementStatus: what is revoked stays so.
SetCard(m, s) ==
  /\ card[m] \notin {"none", "revoked", s}
  /\ card' = [card EXCEPT ![m] = s]
  /\ UNCHANGED <<bill, desk, ledger, stripe, event, now, work>>

SetDesk(m, s) ==
  /\ desk[m] \notin {"none", "revoked", s}
  /\ desk' = [desk EXCEPT ![m] = s]
  /\ UNCHANGED <<bill, card, ledger, stripe, event, now, work>>

-----------------------------------------------------------------------------

Init ==
  /\ bill = [status |-> "none", saved |-> FALSE, bound |-> FALSE, effective |-> 0, confirmed |-> FALSE]
  /\ card = [m \in Month |-> "none"]
  /\ desk = [m \in Month |-> "none"]
  /\ ledger = [m \in Month |-> [payment |-> "none", noted |-> "none"]]
  /\ session = "none"
  /\ sub = NoSub
  /\ invoice = [m \in Month |-> "none"]
  /\ refund = [m \in Month |-> "none"]
  /\ answer = NoSub
  /\ event = {}
  /\ now = 1
  /\ work = [p \in Process |-> Idle]

Stripe ==
  \/ Subscribe \/ ExpireSession \/ NextMonth \/ Lapse
  \/ \E m \in Month : PayLate(m) \/ RefundMoves(m)
  \/ \E m \in RefundMonth : RefundAtDashboard(m)

Deliver(p) ==
  \/ \E e \in event : e.kind \in {"changed", "paid"} /\ Retrieve(p, e)
  \/ ApplyChange(p) \/ CheckOverlap(p) \/ IssueMonth(p) \/ SkipInvoice(p)
  \/ \E m \in Month : FetchRefund(p, m)
  \/ ApplyRefund(p)

Checkout(p) == StartCheckout(p) \/ CreateSession(p) \/ SaveSession(p)

Cancel(p) == ReadBill(p) \/ Decide(p) \/ CancelAtStripe(p) \/ EndSession(p) \/ EndBill(p)

Desk ==
  \/ IssueFree \/ CancelDesk
  \/ \E first, last \in DeskMonth : IssueAtDesk(first, last)
  \/ \E m \in DeskMonth, s \in {"active", "suspended", "revoked"} : SetCard(m, s) \/ SetDesk(m, s)

Next ==
  \/ Stripe
  \/ Desk
  \/ DeliverExpired
  \/ \E p \in Delivery : Deliver(p)
  \/ \E p \in Caller : Checkout(p)
  \/ \E p \in Canceller : Cancel(p)
  \/ \E p \in Staffer : RecordRefund(p) \/ \E m \in RefundMonth : RefundByStaff(p, m)
  \/ \E p \in Process : GiveUp(p)

Spec == Init /\ [][Next]_vars

-----------------------------------------------------------------------------
(* Properties.                                                             *)

\* No month is covered twice, by card and desk: both check and write under the
\* member's lock, and nothing revoked returns.
NoOverlap == \A m \in Month : ~ (Covers(card[m]) /\ Covers(desk[m]))

\* Only a paid invoice gives access, never the state of the subscription.
IssuedIsPaid == \A m \in Month : card[m] # "none" => invoice[m] = "paid" /\ ledger[m].payment # "none"

\* A cancellation's date never moves, however often and from however many
\* windows it is asked for.
DateStands == [][bill.effective # 0 => bill'.effective = bill.effective]_vars

\* An expired bill has a session that cannot be paid.
ExpiredIsUnpayable == bill.status = "expired" => session = "expired"

Quiet == event = {} /\ \A p \in Process : At(p, "idle")

\* When nothing is under way the ledger says of each recorded invoice what became of its payment.
LedgerSettles ==
  Quiet => \A m \in Month : ledger[m].payment = "refunded" <=> card[m] # "none" /\ refund[m] = "succeeded"

\* And every month paid for is issued, unless the desk's membership covers it.
PaidIsIssued == Quiet => \A m \in Month : invoice[m] = "paid" => card[m] # "none" \/ Covers(desk[m])
=============================================================================
