---------------------------- MODULE PassBilling ----------------------------
(***************************************************************************)
(* One day pass bought online: backend/src/billing/passes.ts, with the     *)
(* parts of Stripe it relies on and with the staff operations on the pass. *)
(*                                                                         *)
(* The purchase is a row of app_pass_checkout, a pass and a payment.       *)
(* Members check out and cancel, Stripe delivers events (at least once, in *)
(* any order), refunds are made by a cancellation or at Stripe's dashboard *)
(* and can fail late.  A transaction asks Stripe while it holds the row's  *)
(* lock, and nobody sees its writes before it commits; every other process *)
(* is a sequence of steps that can stop anywhere.                          *)
(*                                                                         *)
(* The table app_pass_stripe_event makes a committed event final and a     *)
(* failed one come again: here an event leaves `event` when its            *)
(* transaction commits.                                                    *)
(***************************************************************************)
EXTENDS Naturals, FiniteSets

CONSTANTS
  Delivery,   \* overlapping webhook deliveries
  Caller,     \* overlapping checkout calls of the member
  Canceller,  \* overlapping cancellations by the member
  Refund,     \* refunds Stripe may make of the payment
  Dashboard   \* when refunds are made at Stripe's dashboard and move on: at "any"
              \* time, or "apart" from the moments between refunds.list and its commit

ASSUME DashboardAssumption == Dashboard \in {"any", "apart"}
ASSUME RefundAssumption == Refund \cap {"none", "session"} = {}

VARIABLES
  row,      \* committed rows: app_pass_checkout, day_pass and payment
  desk,     \* a pass that staff issued for the same member and date is active
  session,  \* the Checkout session under this checkout's idempotency key
  refund,   \* what became of each refund at Stripe
  event,    \* events Stripe has not had acknowledged
  phase,    \* what time has passed: "timely", "late", "old"
  work      \* where each process is and what Stripe told it

vars == <<row, desk, session, refund, event, phase, work>>

Process == Delivery \cup Caller \cup Canceller

RefundStatus == {"none", "pending", "succeeded", "failed"}
PassStatus == {"none", "active", "suspended", "revoked", "cancelled"}
None == "none"
Nothing == [of |-> None, status |-> "none"]

Row == [status: {"pending", "paid", "expired", "cancelled"}, saved: BOOLEAN,
        intent: BOOLEAN, requested: BOOLEAN, refund: Refund \cup {None},
        refundStatus: RefundStatus, pass: PassStatus,
        payment: {"none", "paid", "refunded", "waived"}]

\* The lock on the checkout row, held from the first read to the commit.
Locking == {"issuing", "listed", "fetched", "refunding", "recording"}
Step == Locking \cup {"idle", "creating", "saving", "ending", "ended", "requested"}

TypeOK ==
  /\ row \in Row
  /\ desk \in BOOLEAN
  /\ session \in {"none", "open", "complete", "expired"}
  /\ refund \in [Refund -> RefundStatus]
  /\ event \subseteq {"session"} \cup Refund
  /\ phase \in {"timely", "late", "old"}
  /\ work \in [Process -> [at: Step, on: {"session", None} \cup Refund,
                           saw: [of: Refund \cup {None}, status: RefundStatus]]]

At(p, step) == work[p].at = step
Free == \A p \in Process : work[p].at \notin Locking
Goto(p, step, on, saw) == work' = [work EXCEPT ![p] = [at |-> step, on |-> on, saw |-> saw]]
Finish(p) == Goto(p, "idle", None, Nothing)

FreeAccess == row.payment = "waived"

-----------------------------------------------------------------------------
(* The rows a transaction writes.                                          *)

\* finishCancel.
Cancelled(r) == [r EXCEPT !.status = "cancelled", !.pass = "cancelled"]

\* Old news that applyRefund ignores.
Ignored(r, f) ==
  \/ r.refundStatus = "succeeded" /\ ~ (r.refund = f.of /\ f.status = "failed")
  \/ /\ r.refund = f.of
     /\ \/ r.refundStatus = f.status
        \/ r.refundStatus = "failed" /\ f.status = "pending"

\* A slip: the refund of an event is applied as it comes, whatever the row says.
WithAnyRefund(r, f) ==
  LET noted == [r EXCEPT !.refund = f.of, !.refundStatus = f.status]
  IN IF f.status = "failed" THEN [noted EXCEPT !.payment = "paid", !.pass = "active", !.status = "paid"]
     ELSE IF f.status = "succeeded" THEN [Cancelled(noted) EXCEPT !.payment = "refunded"]
     ELSE noted

\* applyRefund with a refund as Stripe reported it.
WithRefund(r, f) ==
  LET noted == [r EXCEPT !.refund = f.of, !.refundStatus = f.status]
  IN IF Ignored(r, f) THEN r
     ELSE IF f.status = "succeeded" THEN [Cancelled(noted) EXCEPT !.payment = "refunded"]
     ELSE IF f.status = "failed" /\ r.payment = "refunded" THEN [noted EXCEPT !.payment = "paid"]
     ELSE noted

\* issue.
Issued(r) == [r EXCEPT !.status = "paid", !.saved = TRUE, !.intent = TRUE, !.pass = "active", !.payment = "paid"]

-----------------------------------------------------------------------------
(* Stripe, its operator and the clock.                                     *)

Pay ==
  /\ session = "open"
  /\ session' = "complete"
  /\ event' = event \cup {"session"}
  /\ UNCHANGED <<row, desk, refund, phase, work>>

Expire ==
  /\ session = "open"
  /\ session' = "expired"
  /\ event' = event \cup {"session"}
  /\ UNCHANGED <<row, desk, refund, phase, work>>

\* Stripe refunds a payment once; a refund that failed gives the amount back.
Refundable == session = "complete" /\ \A f \in Refund : refund[f] \in {"none", "failed"}

Undisturbed == Dashboard = "apart" => \A p \in Delivery : ~ At(p, "listed")

RefundAtDashboard(f) ==
  /\ Undisturbed
  /\ Refundable
  /\ refund[f] = "none"
  /\ \E s \in {"pending", "succeeded"} : refund' = [refund EXCEPT ![f] = s]
  /\ event' = event \cup {f}
  /\ UNCHANGED <<row, desk, session, phase, work>>

\* A refund moves on; even a succeeded one can fail when the bank returns it.
RefundMoves(f) ==
  /\ Undisturbed
  /\ \/ refund[f] = "pending" /\ \E s \in {"succeeded", "failed"} : refund' = [refund EXCEPT ![f] = s]
     \/ refund[f] = "succeeded" /\ refund' = [refund EXCEPT ![f] = "failed"]
  /\ event' = event \cup {f}
  /\ UNCHANGED <<row, desk, session, phase, work>>

\* The three days' notice begins; later the checkout is 23 hours old.  A
\* request to Stripe does not last the hour until its key is forgotten.
TimePasses ==
  /\ \/ phase = "timely" /\ phase' = "late"
     \/ phase = "late" /\ phase' = "old" /\ \A p \in Caller : ~ At(p, "creating")
  /\ UNCHANGED <<row, desk, session, refund, event, work>>

-----------------------------------------------------------------------------
(* checkout.                                                               *)

\* The transaction finds the pending row (or has just made it).
StartCheckout(p) ==
  /\ At(p, "idle")
  /\ Free
  /\ row.status = "pending"
  /\ ~ row.saved => phase # "old"
  /\ Goto(p, "creating", None, Nothing)
  /\ UNCHANGED <<row, desk, session, refund, event, phase>>

\* sessions.create under the idempotency key, or sessions.retrieve.
CreateSession(p) ==
  /\ At(p, "creating")
  /\ session' = IF session = "none" THEN "open" ELSE session
  /\ Goto(p, "saving", None, Nothing)
  /\ UNCHANGED <<row, desk, refund, event, phase>>

\* The UPDATEs after it; only a retrieved session can be seen expired, a
\* repeated create answers as the first one did.
SaveSession(p) ==
  /\ At(p, "saving")
  /\ Free
  /\ \/ row' = [row EXCEPT !.saved = TRUE]
     \/ /\ session = "expired"
        /\ row' = [row EXCEPT !.saved = TRUE, !.status = IF @ = "pending" THEN "expired" ELSE @]
  /\ Finish(p)
  /\ UNCHANGED <<desk, session, refund, event, phase>>

-----------------------------------------------------------------------------
(* webhook.                                                                *)

Taken(e) == \E p \in Process : work[p].on = e

\* checkout.session.expired: retrieved, locked and written in one go.
DeliverExpiry ==
  /\ "session" \in event
  /\ session = "expired"
  /\ Free
  /\ row' = IF row.status = "pending" THEN [row EXCEPT !.status = "expired"] ELSE row
  /\ event' = event \ {"session"}
  /\ UNCHANGED <<desk, session, refund, phase, work>>

\* A slip: the event is marked as seen before the transaction, not in it.
MarkThenIssue(p) ==
  /\ At(p, "idle")
  /\ "session" \in event /\ session = "complete"
  /\ Free
  /\ ~ desk
  /\ event' = event \ {"session"}
  /\ Goto(p, "issuing", "session", Nothing)
  /\ UNCHANGED <<row, desk, session, refund, phase>>

\* checkout.session.completed: the rows are locked, the pass is issued (not
\* yet for others to see) unless there is one for the date.
LockAndIssue(p) ==
  /\ At(p, "idle")
  /\ "session" \in event /\ session = "complete"
  /\ Free
  /\ ~ desk
  /\ Goto(p, "issuing", "session", Nothing)
  /\ UNCHANGED <<row, desk, session, refund, event, phase>>

Refunds == {f \in Refund : refund[f] # "none"}
Report(f) == [of |-> f, status |-> refund[f]]

\* A slip: an early refund event is left to come again, the list is not asked.
SkipRefunds(p) ==
  /\ At(p, "issuing")
  /\ Goto(p, "listed", "session", Nothing)
  /\ UNCHANGED <<row, desk, session, refund, event, phase>>

\* refunds.list, inside the transaction; two refunds fail it.
ListRefunds(p) ==
  /\ At(p, "issuing")
  /\ Cardinality(Refunds) < 2
  /\ \/ Refunds = {} /\ Goto(p, "listed", "session", Nothing)
     \/ \E f \in Refunds : Goto(p, "listed", "session", Report(f))
  /\ UNCHANGED <<row, desk, session, refund, event, phase>>

CommitIssue(p) ==
  /\ At(p, "listed")
  /\ row' = IF work[p].saw = Nothing THEN Issued(row) ELSE WithRefund(Issued(row), work[p].saw)
  /\ event' = event \ {"session"}
  /\ Finish(p)
  /\ UNCHANGED <<desk, session, refund, phase>>

\* refund.created, .updated, .failed without a checkout row for the payment:
\* the event is marked and dropped.  An open CommitIssue is not seen.
DropRefundEvent(f) ==
  /\ f \in event
  /\ ~ row.intent
  /\ ~ Taken(f)
  /\ event' = event \ {f}
  /\ UNCHANGED <<row, desk, session, refund, phase, work>>

\* With one: the row is locked, then the refund retrieved.
FetchRefund(p, f) ==
  /\ At(p, "idle")
  /\ f \in event
  /\ row.intent
  /\ Free
  /\ Goto(p, "fetched", f, Report(f))
  /\ UNCHANGED <<row, desk, session, refund, event, phase>>

\* A refund that changed since is another event.
ApplyRefundEvent(p) ==
  /\ At(p, "fetched")
  /\ row' = WithRefund(row, work[p].saw)
  /\ event' = IF refund[work[p].on] = work[p].saw.status THEN event \ {work[p].on} ELSE event
  /\ Finish(p)
  /\ UNCHANGED <<desk, session, refund, phase>>

-----------------------------------------------------------------------------
(* cancel.                                                                 *)

\* The first transaction decides, and records a timely request.
Request(p) ==
  /\ At(p, "idle")
  /\ Free
  /\ \/ /\ row.status = "pending"
        /\ row.saved
        /\ Goto(p, "ending", None, Nothing)
        /\ UNCHANGED row
     \/ /\ row.status = "paid"
        /\ row.requested \/ phase = "timely"
        /\ row' = [row EXCEPT !.requested = TRUE]
        /\ Goto(p, "requested", None, Nothing)
  /\ UNCHANGED <<desk, session, refund, event, phase>>

\* An unpaid session is expired at Stripe, then on the row.
ExpireSession(p) ==
  /\ At(p, "ending")
  /\ session' = IF session = "open" THEN "expired" ELSE session
  /\ event' = IF session = "open" THEN event \cup {"session"} ELSE event
  /\ IF session' = "expired" THEN Goto(p, "ended", None, Nothing) ELSE Finish(p)
  /\ UNCHANGED <<row, desk, refund, phase>>

MarkExpired(p) ==
  /\ At(p, "ended")
  /\ Free
  /\ row' = IF row.status = "pending" THEN [row EXCEPT !.status = "expired", !.requested = FALSE] ELSE row
  /\ Finish(p)
  /\ UNCHANGED <<desk, session, refund, event, phase>>

\* Free access needs no refund.
CancelFree(p) ==
  /\ At(p, "requested")
  /\ Free
  /\ FreeAccess
  /\ row' = Cancelled(row)
  /\ Finish(p)
  /\ UNCHANGED <<desk, session, refund, event, phase>>

\* The second transaction: the refund is looked for, and made only if there is none.
FindRefund(p) ==
  /\ At(p, "requested")
  /\ Free
  /\ row.status # "cancelled"
  /\ ~ FreeAccess
  /\ Cardinality(Refunds) < 2
  /\ \/ Refunds = {} /\ Goto(p, "refunding", None, Nothing)
     \/ \E f \in Refunds : Goto(p, "recording", None, Report(f))
  /\ UNCHANGED <<row, desk, session, refund, event, phase>>

CreateRefund(p, f) ==
  /\ At(p, "refunding")
  /\ Refundable
  /\ refund[f] = "none"
  /\ \E s \in {"pending", "succeeded"} :
       /\ refund' = [refund EXCEPT ![f] = s]
       /\ Goto(p, "recording", None, [of |-> f, status |-> s])
  /\ event' = event \cup {f}
  /\ UNCHANGED <<row, desk, session, phase>>

RecordRefund(p) ==
  /\ At(p, "recording")
  /\ row' = WithRefund(row, work[p].saw)
  /\ Finish(p)
  /\ UNCHANGED <<desk, session, refund, event, phase>>

\* A lost answer, a refusal or the end of the process: nothing is committed.
GiveUp(p) ==
  /\ ~ At(p, "idle")
  /\ Finish(p)
  /\ UNCHANGED <<row, desk, session, refund, event, phase>>

-----------------------------------------------------------------------------
(* Staff: issueAccess for the same date, entitlementStatus.                *)

\* Under the member's advisory lock, which an issuing webhook holds as well.
IssueAtDesk ==
  /\ Free
  /\ ~ desk
  /\ row.pass \notin {"active", "suspended"}
  /\ desk' = TRUE
  /\ UNCHANGED <<row, session, refund, event, phase, work>>

RevokeDesk ==
  /\ desk
  /\ desk' = FALSE
  /\ UNCHANGED <<row, session, refund, event, phase, work>>

\* cancelManual: the member gives the desk's pass back in time.
CancelManual ==
  /\ Free
  /\ desk /\ phase = "timely"
  /\ desk' = FALSE
  /\ UNCHANGED <<row, session, refund, event, phase, work>>

\* A pass that is not revoked can take any status.
SetPass(s) ==
  /\ row.pass \notin {"none", s}
  /\ row.pass # "revoked"
  /\ row' = [row EXCEPT !.pass = s]
  /\ UNCHANGED <<desk, session, refund, event, phase, work>>

-----------------------------------------------------------------------------

Start(payment) ==
  [status |-> IF payment = "waived" THEN "paid" ELSE "pending", saved |-> FALSE, intent |-> FALSE,
   requested |-> FALSE, refund |-> None, refundStatus |-> "none",
   pass |-> IF payment = "waived" THEN "active" ELSE "none", payment |-> payment]

Init ==
  /\ row \in {Start("none"), Start("waived")}
  /\ desk = FALSE
  /\ session = "none"
  /\ refund = [f \in Refund |-> "none"]
  /\ event = {}
  /\ phase = "timely"
  /\ work = [p \in Process |-> [at |-> "idle", on |-> None, saw |-> Nothing]]

Checkout(p) == StartCheckout(p) \/ CreateSession(p) \/ SaveSession(p)

Deliver(p) == \/ LockAndIssue(p) \/ ListRefunds(p) \/ CommitIssue(p)
              \/ ApplyRefundEvent(p) \/ \E f \in Refund : FetchRefund(p, f)

Cancel(p) == \/ Request(p) \/ ExpireSession(p) \/ MarkExpired(p) \/ CancelFree(p)
             \/ FindRefund(p) \/ RecordRefund(p) \/ \E f \in Refund : CreateRefund(p, f)

Stripe == \/ Pay \/ Expire \/ TimePasses
          \/ \E f \in Refund : RefundAtDashboard(f) \/ RefundMoves(f)

Desk == IssueAtDesk \/ RevokeDesk \/ CancelManual \/ \E s \in {"active", "suspended", "revoked"} : SetPass(s)

Next ==
  \/ Stripe
  \/ Desk
  \/ DeliverExpiry
  \/ \E f \in Refund : DropRefundEvent(f)
  \/ \E p \in Caller : Checkout(p)
  \/ \E p \in Delivery : Deliver(p)
  \/ \E p \in Canceller : Cancel(p)
  \/ \E p \in Process : GiveUp(p)

Spec == Init /\ [][Next]_vars

\* Stripe redelivers what was not acknowledged, and not every attempt dies;
\* a request that got nowhere ends, and its locks with it.
Fairness ==
  /\ \A p \in Delivery :
       /\ SF_vars(LockAndIssue(p))
       /\ SF_vars(ListRefunds(p))
       /\ SF_vars(CommitIssue(p))
       /\ SF_vars(ApplyRefundEvent(p))
       /\ \A f \in Refund : SF_vars(FetchRefund(p, f))
  /\ \A p \in Process : WF_vars(GiveUp(p))

FairSpec == Spec /\ Fairness

-----------------------------------------------------------------------------
(* Properties.                                                             *)

\* A checkout marked expired cannot be paid any more: whoever marks it has
\* Stripe's word that the session is over (the date is free for a new one).
ExpiredIsUnpayable == row.status = "expired" => session = "expired"

\* A cancelled or revoked pass becomes usable again by a decision of staff,
\* never because a refund failed or an old event was delivered.  Nor is there a
\* second usable pass for a member and date, except that staff restore one:
\* desk issue and the webhook exclude each other from check to commit.
PassStands ==
  [][/\ row.pass \in {"cancelled", "revoked"} /\ row'.pass = "active" => \E s \in PassStatus : SetPass(s)
     /\ desk' /\ row'.pass = "active" => (desk /\ row.pass = "active") \/ \E s \in PassStatus : SetPass(s)]_vars

\* Nothing is under way and Stripe has nothing left to deliver.
Quiet == event = {} /\ \A p \in Process : At(p, "idle")

\* Then the ledger says what became of the card payment: refunded if and only
\* if Stripe refunded it.
LedgerSettles ==
  Quiet /\ row.intent => (row.payment = "refunded" <=> \E f \in Refund : refund[f] = "succeeded")

\* What passes.ts says of the list it asks for: a late checkout cannot grant
\* access to an already-refunded pass.
RefundedGrantsNothing ==
  Quiet /\ (\E f \in Refund : refund[f] = "succeeded") => ~ (row.payment = "paid" /\ row.pass = "active")

\* What the checkout's row says of its session and of its refunds is so.
CheckoutAgrees == TypeOK /\ ExpiredIsUnpayable /\ LedgerSettles

\* Money taken becomes a pass, unless there is one from the desk; and a refund
\* is recorded, unless it fails first.
EventsSettle ==
  /\ (session = "complete") ~> (row.intent \/ desk)
  /\ \A f \in Refund : (row.intent /\ refund[f] = "succeeded") ~> (row.payment = "refunded" \/ refund[f] = "failed")
=============================================================================
