-------------------------- MODULE EquipmentBilling --------------------------
(***************************************************************************)
(* One paid equipment reservation, from the pending hold that create makes *)
(* to the booking or the release: backend/src/billing/equipment.ts, with   *)
(* the parts of Stripe Checkout it relies on.                              *)
(*                                                                         *)
(* The hold is three rows (reservation, app_equipment_checkout, payment)   *)
(* and a Checkout session at Stripe.  Checkout calls, webhook deliveries,  *)
(* reconciling reads and cancellations overlap, each a sequence of steps   *)
(* that reads a row, talks to Stripe and runs a transaction; any of them   *)
(* can die between two steps, and a request to Stripe can be executed with *)
(* its response lost.  Transactions lock the reservation first and are one *)
(* step.                                                                   *)
(*                                                                         *)
(* Time is the age of the hold.  Stripe refuses a session that ends in     *)
(* less than 30 minutes and closes an open one when the hold ends, so a    *)
(* hold of 31 minutes is "fresh" for one; the code stops creating after 23 *)
(* hours ("stale"); Stripe forgets an idempotency key after 24             *)
(* ("forgotten"), and no request lasts the hour between the two.           *)
(***************************************************************************)
CONSTANTS
  Caller,     \* overlapping POST /reservations/:id/checkout (and create) calls
  Observer,   \* overlapping webhook deliveries and reconciling reads
  Canceller   \* overlapping cancelPending calls

VARIABLES
  reservation,  \* status of the reservation row
  checkout,     \* the app_equipment_checkout row: status, session saved, payment linked
  bill,         \* status of the payment record that create made
  receipt,      \* status of a payment record that apply made, if it had to
  session,      \* the session under this hold's idempotency key
  acceptable,   \* Stripe accepts the parameters of the session
  age,          \* age of the hold
  eligible,     \* the booked member meets the machine's requirements
  call          \* where each call is and what it has read

vars == <<reservation, checkout, bill, receipt, session, acceptable, age, eligible, call>>

rowVars == <<reservation, checkout, bill, receipt>>
stripeVars == <<session, acceptable, age>>

Call == Caller \cup Observer \cup Canceller

Age == {"fresh", "late", "stale", "forgotten"}

Decided == {"complete", "expired"}

Idle == [at |-> "idle", saw |-> "none"]

\* saw: the session's status as Stripe answered it.
Progress == [at: {"idle", "known", "new", "creating", "retrieving", "expiring", "rejected", "save", "apply"},
             saw: {"none", "open", "complete", "expired"}]

CheckoutRow == [status: {"pending", "paid", "expired"}, saved: BOOLEAN,
                payment: {"none", "bill", "receipt"}]

At(c, step) == call[c].at = step

Goto(c, step, saw) == call' = [call EXCEPT ![c] = [at |-> step, saw |-> saw]]

Finish(c) == call' = [call EXCEPT ![c] = Idle]

-----------------------------------------------------------------------------
(* Stripe and its customer.                                                *)

\* A session can still come into being.
Creatable == session = "none" /\ age = "fresh" /\ acceptable

Pay ==
  /\ session = "open"
  /\ session' = "complete"
  /\ UNCHANGED <<rowVars, acceptable, age, eligible, call>>

\* Stripe closes an open session at expires_at.
Expire ==
  /\ session = "open"
  /\ age # "fresh"
  /\ session' = "expired"
  /\ UNCHANGED <<rowVars, acceptable, age, eligible, call>>

\* Time passes; no request is under way from the 23rd hour to the 24th.
GrowOld ==
  /\ \/ age = "fresh" /\ age' = "late"
     \/ age = "late" /\ age' = "stale"
     \/ age = "stale" /\ age' = "forgotten" /\ \A c \in Caller : ~ At(c, "creating")
  /\ UNCHANGED <<rowVars, session, acceptable, eligible, call>>

\* A waiver or a certification is revoked or restored.
ChangeEligibility ==
  /\ eligible' = ~ eligible
  /\ UNCHANGED <<rowVars, stripeVars, call>>

-----------------------------------------------------------------------------
(* Transactions on the hold's rows.                                        *)

VoidBill == bill' = IF bill = "pending" THEN "void" ELSE bill

ReleaseRows(saved) ==
  /\ checkout' = [checkout EXCEPT !.status = "expired", !.saved = saved]
  /\ reservation' = IF reservation = "pending" THEN "cancelled" ELSE reservation
  /\ VoidBill
  /\ UNCHANGED receipt

\* The bill create made becomes the paid one; a bill somebody settled by hand
\* stays as it is and the card payment gets a record of its own.
SettleRows ==
  /\ IF bill = "pending"
     THEN bill' = "paid" /\ UNCHANGED receipt
     ELSE receipt' = "paid" /\ UNCHANGED bill
  /\ checkout' = [status |-> "paid", saved |-> TRUE,
                  payment |-> IF bill = "pending" THEN "bill" ELSE "receipt"]
  /\ reservation' = "confirmed"

\* A slip: only the bill create made can be settled.
ApplyToOpenBill(saw) ==
  \/ /\ checkout.status = "pending"
     /\ saw = "expired"
     /\ ReleaseRows(TRUE)
  \/ /\ checkout.status = "pending"
     /\ saw = "complete"
     /\ eligible
     /\ bill = "pending"
     /\ SettleRows
  \/ /\ \/ checkout.status # "pending"
        \/ saw = "open"
        \/ saw = "complete" /\ bill # "pending"
     /\ UNCHANGED rowVars

\* A slip: the hold is over, so the slot is free.
ApplyOnTimer(saw) ==
  /\ checkout.status = "pending"
  /\ IF saw = "complete" THEN eligible /\ SettleRows
     ELSE IF age # "fresh" THEN ReleaseRows(TRUE)
     ELSE UNCHANGED rowVars

\* apply: only a session that Stripe calls complete confirms, only one it calls
\* expired releases; a hold that is decided stays so.
Apply(saw) ==
  \/ /\ checkout.status = "pending"
     /\ saw = "expired"
     /\ ReleaseRows(TRUE)
  \/ /\ checkout.status = "pending"
     /\ saw = "complete"
     /\ reservation = "pending"
     /\ eligible
     /\ SettleRows
  \/ /\ \/ checkout.status # "pending"
        \/ saw = "open"
        \/ saw = "complete" /\ (reservation # "pending" \/ ~ eligible)
     /\ UNCHANGED rowVars

ApplyAndFinish(c) ==
  /\ At(c, "apply")
  /\ Apply(call[c].saw)
  /\ Finish(c)
  /\ UNCHANGED <<stripeVars, eligible>>

\* The process dies, the database or Stripe cannot be reached, or the answer is
\* a refusal that changes nothing.
GiveUp(c) ==
  /\ ~ At(c, "idle")
  /\ Finish(c)
  /\ UNCHANGED <<rowVars, stripeVars, eligible>>

-----------------------------------------------------------------------------
(* checkout.                                                               *)

\* The row is read.
ReadRow(c) ==
  /\ At(c, "idle")
  /\ checkout.status = "pending"
  /\ Goto(c, IF checkout.saved THEN "known" ELSE "new", "none")
  /\ UNCHANGED <<rowVars, stripeVars, eligible>>

\* After the requirements, in a transaction of their own, a session the row
\* named is looked up ...
Resume(c) ==
  /\ At(c, "known")
  /\ eligible
  /\ Goto(c, "retrieving", "none")
  /\ UNCHANGED <<rowVars, stripeVars, eligible>>

\* A slip: the age of the hold is not looked at.
SendCreateAtAnyAge(c) ==
  /\ At(c, "new")
  /\ eligible
  /\ Goto(c, "creating", "none")
  /\ UNCHANGED <<rowVars, stripeVars, eligible>>

\* ... otherwise the original create request is sent (again), but not after 23
\* hours.
SendCreate(c) ==
  /\ At(c, "new")
  /\ eligible
  /\ age \in {"fresh", "late"}
  /\ Goto(c, "creating", "none")
  /\ UNCHANGED <<rowVars, stripeVars, eligible>>

\* Stripe executes the request: a session is made, or the answer of the first
\* request with this key is repeated (the session as it was then: open), or the
\* request is refused.  The answer may be lost (GiveUp).
CreateSession(c) ==
  /\ At(c, "creating")
  /\ \/ Creatable /\ session' = "open" /\ Goto(c, "save", "open")
     \/ session # "none" /\ age # "forgotten" /\ Goto(c, "save", "open") /\ UNCHANGED session
     \/ ~ Creatable /\ (session = "none" \/ age = "forgotten") /\ Goto(c, "rejected", "none")
        /\ UNCHANGED session
  /\ UNCHANGED <<rowVars, acceptable, age, eligible>>

\* A refusal releases the hold unless another call has saved a session.
Reject(c) ==
  /\ At(c, "rejected")
  /\ IF checkout.status = "pending" /\ ~ checkout.saved
     THEN ReleaseRows(FALSE)
     ELSE UNCHANGED rowVars
  /\ Finish(c)
  /\ UNCHANGED <<stripeVars, eligible>>

\* UPDATE ... SET checkout_id WHERE checkout_id IS NULL, whatever the status.
SaveSession(c) ==
  /\ At(c, "save")
  /\ checkout' = [checkout EXCEPT !.saved = TRUE]
  /\ Goto(c, "apply", call[c].saw)
  /\ UNCHANGED <<reservation, bill, receipt, stripeVars, eligible>>

Retrieve(c) ==
  /\ At(c, "retrieving")
  /\ Goto(c, IF c \in Caller THEN "save"
             ELSE IF c \in Canceller /\ session = "open" THEN "expiring"
             ELSE "apply", session)
  /\ UNCHANGED <<rowVars, stripeVars, eligible>>

-----------------------------------------------------------------------------
(* webhook and reconcile.                                                  *)

\* A slip: the event is matched by the session the row names, which the row
\* may not name yet.
StartWebhookBySession(c) ==
  /\ At(c, "idle")
  /\ session \in Decided
  /\ checkout.saved
  /\ Goto(c, "retrieving", "none")
  /\ UNCHANGED <<rowVars, stripeVars, eligible>>

\* A delivery (first, repeated or late) for a session that is decided, or a
\* read that reconciles a pending hold whose session is known.
StartWebhook(c) ==
  /\ At(c, "idle")
  /\ session \in Decided
  /\ Goto(c, "retrieving", "none")
  /\ UNCHANGED <<rowVars, stripeVars, eligible>>

StartReconcile(c) ==
  /\ At(c, "idle")
  /\ checkout.status = "pending"
  /\ checkout.saved
  /\ Goto(c, "retrieving", "none")
  /\ UNCHANGED <<rowVars, stripeVars, eligible>>

-----------------------------------------------------------------------------
(* cancelPending.                                                          *)

StartCancel(c) ==
  /\ At(c, "idle")
  /\ checkout.status = "pending"
  /\ checkout.saved
  /\ Goto(c, "retrieving", "none")
  /\ UNCHANGED <<rowVars, stripeVars, eligible>>

\* Stripe expires a session only while it is open; the request may also be
\* executed and its answer lost.
ExpireSession(c) ==
  /\ At(c, "expiring")
  /\ session = "open"
  /\ session' = "expired"
  /\ \/ Goto(c, "apply", "expired")
     \/ Finish(c)
  /\ UNCHANGED <<rowVars, acceptable, age, eligible>>

-----------------------------------------------------------------------------
(* Staff and members.                                                      *)

\* StaffService.paymentStatus on the bill: refused once the checkout row links
\* it, a record of apply always is linked.
RecordPayment(to) ==
  /\ checkout.payment # "bill"
  /\ \/ bill = "pending" /\ to \in {"paid", "void", "waived"}
     \/ bill = "paid" /\ to = "refunded"
  /\ bill' = to
  /\ UNCHANGED <<reservation, checkout, receipt, stripeVars, eligible, call>>

\* A slip: the pending checkout is not looked at.
CancelBookingAnyway ==
  /\ reservation \in {"pending", "confirmed"}
  /\ reservation' = "cancelled"
  /\ VoidBill
  /\ UNCHANGED <<checkout, receipt, stripeVars, eligible, call>>

\* cancel and cancelAny: not while the checkout is pending.
CancelBooking ==
  /\ reservation \in {"pending", "confirmed"}
  /\ checkout.status # "pending"
  /\ reservation' = "cancelled"
  /\ VoidBill
  /\ UNCHANGED <<checkout, receipt, stripeVars, eligible, call>>

-----------------------------------------------------------------------------

Init ==
  /\ reservation = "pending"
  /\ checkout = [status |-> "pending", saved |-> FALSE, payment |-> "none"]
  /\ bill = "pending"
  /\ receipt = "none"
  /\ session = "none"
  /\ acceptable \in BOOLEAN
  /\ age = "fresh"
  /\ eligible = TRUE
  /\ call = [c \in Call |-> Idle]

Next ==
  \/ Pay \/ Expire \/ GrowOld \/ ChangeEligibility
  \/ \E c \in Caller :
       \/ ReadRow(c) \/ Resume(c) \/ SendCreate(c) \/ CreateSession(c)
       \/ Reject(c) \/ SaveSession(c)
  \/ \E c \in Observer : StartWebhook(c) \/ StartReconcile(c)
  \/ \E c \in Canceller : StartCancel(c) \/ ExpireSession(c)
  \/ \E c \in Call : Retrieve(c) \/ ApplyAndFinish(c) \/ GiveUp(c)
  \/ \E to \in {"paid", "void", "waived", "refunded"} : RecordPayment(to)
  \/ CancelBooking

Spec == Init /\ [][Next]_vars

\* Stripe closes sessions and redelivers events until they are acknowledged,
\* members keep opening pages that reconcile; neither outages nor crashes hit
\* every attempt.
Fairness ==
  /\ WF_vars(GrowOld)
  /\ WF_vars(Expire)
  /\ \A c \in Observer :
       /\ WF_vars(StartWebhook(c))
       /\ WF_vars(StartReconcile(c))
       /\ SF_vars(Retrieve(c))
       /\ SF_vars(ApplyAndFinish(c))

FairSpec == Spec /\ Fairness

-----------------------------------------------------------------------------
(* Properties.                                                             *)

TypeOK ==
  /\ reservation \in {"pending", "confirmed", "cancelled"}
  /\ checkout \in CheckoutRow
  /\ bill \in {"pending", "paid", "void", "waived", "refunded"}
  /\ receipt \in {"none", "paid"}
  /\ session \in {"none", "open", "complete", "expired"}
  /\ acceptable \in BOOLEAN
  /\ age \in Age
  /\ eligible \in BOOLEAN
  /\ call \in [Call -> Progress]

\* A hold that was released can no longer be paid: its session never opened and
\* never will, or has expired.  Stripe never charges for a slot given away.
ReleasedIsUnpayable ==
  checkout.status = "expired" =>
    session = "expired" \/ (session = "none" /\ ~ Creatable)

\* Reservation, checkout and payment move together through every interleaving,
\* and a confirmed booking has a charged card and a payment record marked paid.
RowsAgree ==
  /\ checkout.status = "pending" => reservation = "pending" /\ checkout.payment = "none"
  /\ checkout.status = "expired" => reservation = "cancelled"
  /\ checkout.status = "paid" =>
       /\ reservation \in {"confirmed", "cancelled"}
       /\ session = "complete"
       /\ \/ checkout.payment = "bill" /\ bill = "paid" /\ receipt = "none"
          \/ checkout.payment = "receipt" /\ receipt = "paid"

HoldState ==
  CASE checkout.status = "pending" -> "held"
    [] checkout.status = "expired" -> "released"
    [] checkout.status = "paid" /\ reservation = "confirmed" -> "booked"
    [] OTHER -> "cancelled"

Charged == session = "complete"

Hold == INSTANCE SlotHold WITH hold <- HoldState, charged <- Charged

\* The three rows and the session together keep the promise of SlotHold: the
\* slot is held until the card is charged or can no longer be.
HoldSpec == Hold!Spec

\* Once a session exists, the hold does not stay pending for ever: it is paid,
\* or released, or its member does not meet the machine's requirements.
SessionSettles ==
  session # "none" ~> checkout.status # "pending" \/ ~ eligible

\* A charged hold is booked unless its member stops meeting the requirements,
\* even if every answer to the checkout call is lost.
ChargeBooks ==
  session = "complete" ~> checkout.status = "paid" \/ ~ eligible

=============================================================================
