---------------------------- MODULE StudioRentals ----------------------------
(***************************************************************************)
(* Monthly studio rentals (studios/service.ts, studios/stripe.ts): dates   *)
(* held while they are being paid, by card or at the desk, confirmed,      *)
(* cancelled and refunded.                                                 *)
(*                                                                         *)
(* A request to Stripe is made outside any transaction, except by the      *)
(* webhook, which keeps the row's lock meanwhile.  A call may stop after   *)
(* any of its steps.  Stripe is what the code assumes of it: a session or  *)
(* a refund per idempotency key, an event for every change of one,         *)
(* delivered in any order and again until it is acknowledged.              *)
(***************************************************************************)
EXTENDS Naturals, FiniteSets

CONSTANTS
  Rental,  \* requests for the same studio and dates
  Card,    \* those of them that are paid by card
  Call     \* overlapping requests and webhook deliveries

VARIABLES
  rental,   \* app_studio_rental
  over,     \* whether hold_until has passed
  session,  \* Stripe: the rental's Checkout session
  refund,   \* Stripe: the refund of its payment
  events,   \* Stripe: events not yet acknowledged
  call

vars == <<rental, over, session, refund, events, call>>

Idle == [pc |-> "idle"]
NoRental == [status |-> "none", pay |-> "unpaid", checkout |-> FALSE, owed |-> FALSE]

TypeOK ==
  /\ rental \in [Rental -> [status : {"none", "pending", "confirmed", "cancelled", "expired"},
                            pay : {"unpaid", "paid", "refund_pending", "refund_failed", "refunded"},
                            checkout : BOOLEAN, owed : BOOLEAN]]
  /\ over \in [Rental -> BOOLEAN]
  /\ session \in [Rental -> {"none", "open", "processing", "paid", "failed", "expired"}]
  /\ refund \in [Rental -> {"none", "pending", "succeeded", "failed"}]
  /\ events \in SUBSET ({"completed", "expired", "failed", "created", "updated"} \X Rental)
  /\ \A c \in Call : call[c].pc \in
       {"idle", "checkout", "save", "close", "paid", "failed", "gone", "cancel", "refund",
        "apply", "unsure", "heldFailed", "heldRefund"}

\* A delivery keeps the row locked while it asks Stripe.
Held == {call[c].r : c \in {d \in Call : call[d].pc \in {"heldFailed", "heldRefund"}}}
Free(r) == r \notin Held
Set(r, status, pay) == [rental EXCEPT ![r].status = status, ![r].pay = pay]
Start(c, f) == call[c].pc = "idle" /\ call' = [call EXCEPT ![c] = f]
Goto(c, pc) == call' = [call EXCEPT ![c].pc = pc]
Return(c) == call' = [call EXCEPT ![c] = Idle]
Live(r) == rental[r].status \in {"pending", "confirmed"}

-----------------------------------------------------------------------------
(* Holding and paying.                                                     *)

\* The exclusion constraint refuses dates that are taken.
Create(r) ==
  /\ rental[r].status = "none"
  /\ \A q \in Rental : ~ Live(q)
  /\ rental' = Set(r, "pending", "unpaid")
  /\ UNCHANGED <<over, session, refund, events, call>>

\* The rest of create (for "book"), and syncPayment.
StartCheckout(c, r, for) ==
  /\ r \in Card /\ rental[r].status = "pending"
  /\ Start(c, [pc |-> "checkout", r |-> r, for |-> for])
  /\ UNCHANGED <<rental, over, session, refund, events>>

\* The session is created once; Stripe refuses one for a hold that has run out.
AskSession(c) ==
  LET r == call[c].r
      found == IF session[r] = "none" THEN "open" ELSE session[r]
  IN /\ call[c].pc = "checkout"
     /\ session[r] = "none" => ~ over[r]
     /\ session' = [session EXCEPT ![r] = found]
     /\ call' = [call EXCEPT ![c] = [pc |-> "save", r |-> r, for |-> @.for, found |-> found]]
     /\ UNCHANGED <<rental, over, refund, events>>

\* What is done about the session that was found.
NextStep(r, for, found) ==
  IF for = "book" THEN "idle"
  ELSE CASE found = "paid" -> "paid"
         [] found = "open" -> IF over[r] \/ for = "cancel" THEN "close" ELSE "idle"
         [] found = "expired" -> IF for = "cancel" THEN "cancel" ELSE "gone"
         [] found = "failed" /\ for = "sync" -> "failed"
         [] OTHER -> "idle"

SaveSession(c) ==
  LET r == call[c].r
  IN /\ call[c].pc = "save" /\ Free(r)
     /\ rental' = [rental EXCEPT ![r].checkout = TRUE]
     /\ Goto(c, NextStep(r, call[c].for, call[c].found))
     /\ UNCHANGED <<over, session, refund, events>>

\* A slip: whatever is found is released.
CloseAnyway(r) == TRUE

\* Only an open session can be expired.
Closable(r) == session[r] = "open"

Close(c) ==
  LET r == call[c].r
  IN /\ call[c].pc = "close" /\ Closable(r)
     /\ IF session[r] = "open"
        THEN session' = [session EXCEPT ![r] = "expired"] /\ events' = events \cup {<<"expired", r>>}
        ELSE UNCHANGED <<session, events>>
     /\ Goto(c, IF call[c].for = "cancel" THEN "cancel" ELSE "gone")
     /\ UNCHANGED <<rental, over, refund>>

\* complete: refused for a hold that has expired, nothing to do for one that
\* is paid or cancelled.
Complete(r) ==
  IF rental[r].status = "pending"
  THEN [rental EXCEPT ![r].status = "confirmed", ![r].pay = "paid", ![r].checkout = TRUE] ELSE rental

RecordPaid(c) ==
  LET r == call[c].r
  IN /\ call[c].pc = "paid" /\ Free(r)
     /\ rental' = Complete(r)
     /\ IF rental[r].status # "expired" /\ call[c].for = "cancel" THEN Goto(c, "cancel") ELSE Return(c)
     /\ UNCHANGED <<over, session, refund, events>>

Expired(r) ==
  IF rental[r].status = "pending" /\ rental[r].pay = "unpaid" THEN Set(r, "expired", "unpaid") ELSE rental

\* failedCheckout, or the release of an expired session's dates.
Release(c) ==
  /\ call[c].pc \in {"failed", "gone"} /\ Free(call[c].r)
  /\ rental' = Expired(call[c].r)
  /\ Return(c)
  /\ UNCHANGED <<over, session, refund, events>>

-----------------------------------------------------------------------------
(* Cancelling and refunding.                                               *)

\* The row is read first without a lock; a pending card payment is cleared up
\* with Stripe before the dates are given back.
StartCancel(c, r) ==
  /\ Live(r)
  /\ IF r \in Card /\ rental[r].status = "pending"
     THEN /\ rental[r].checkout
          /\ Start(c, [pc |-> "checkout", r |-> r, for |-> "cancel"])
     ELSE Start(c, [pc |-> "cancel", r |-> r, for |-> "cancel"])
  /\ UNCHANGED <<rental, over, session, refund, events>>

\* "owed" is refund_cents > 0: by the policy, and the day.
CancelRow(c) ==
  LET r == call[c].r
  IN /\ call[c].pc = "cancel" /\ Free(r)
     /\ IF ~ Live(r)
        THEN UNCHANGED rental /\ Return(c)
        ELSE \E owed \in IF rental[r].pay = "paid" THEN BOOLEAN ELSE {FALSE} :
               /\ rental' = [rental EXCEPT ![r].status = "cancelled", ![r].owed = owed,
                              ![r].pay = IF owed THEN "refund_pending" ELSE @]
               /\ IF owed /\ r \in Card THEN Goto(c, "refund") ELSE Return(c)
     /\ UNCHANGED <<over, session, refund, events>>

Owing(r) == rental[r].status = "cancelled" /\ rental[r].owed
              /\ rental[r].pay \in {"refund_pending", "refund_failed"}

\* Staff try again.
StartRetry(c, r) ==
  /\ r \in Card /\ Owing(r)
  /\ Start(c, [pc |-> "refund", r |-> r, for |-> "cancel"])
  /\ UNCHANGED <<rental, over, session, refund, events>>

\* The refund there is, or a new one.
AskRefund(c) ==
  LET r == call[c].r
  IN /\ call[c].pc = "refund"
     /\ \E now \in IF refund[r] = "none" THEN {"pending", "succeeded"} ELSE {refund[r]} :
          /\ refund' = [refund EXCEPT ![r] = now]
          /\ events' = IF refund[r] = "none" THEN events \cup {<<"created", r>>} ELSE events
          /\ call' = [call EXCEPT ![c] = [pc |-> "apply", r |-> r, found |-> now]]
     /\ UNCHANGED <<rental, over, session>>

\* The answer is lost, or Stripe refuses.
LoseRefund(c) ==
  LET r == call[c].r
  IN /\ call[c].pc = "refund"
     /\ \/ UNCHANGED <<refund, events>>
        \/ /\ refund[r] = "none"
           /\ refund' = [refund EXCEPT ![r] = "pending"]
           /\ events' = events \cup {<<"created", r>>}
     /\ Goto(c, "unsure")
     /\ UNCHANGED <<rental, over, session>>

PayOf(found) == CASE found = "succeeded" -> "refunded" [] found = "failed" -> "refund_failed"
                  [] OTHER -> "refund_pending"

\* applyRefund: what is settled is not unsettled by an earlier answer.
Applied(r, found) ==
  IF /\ rental[r].status = "cancelled" /\ rental[r].owed
     /\ rental[r].pay \in {"refund_pending", "refund_failed"} \/ (rental[r].pay = "refunded" /\ found = "failed")
     /\ ~ (rental[r].pay = "refund_failed" /\ found = "pending")
  THEN [rental EXCEPT ![r].pay = PayOf(found)]
  ELSE rental

ApplyRefund(c) ==
  /\ call[c].pc = "apply" /\ Free(call[c].r)
  /\ rental' = Applied(call[c].r, call[c].found)
  /\ Return(c)
  /\ UNCHANGED <<over, session, refund, events>>

Doubt(r) == IF rental[r].pay = "refund_pending" THEN [rental EXCEPT ![r].pay = "refund_failed"] ELSE rental

RecordDoubt(c) ==
  /\ call[c].pc = "unsure" /\ Free(call[c].r)
  /\ rental' = Doubt(call[c].r)
  /\ Return(c)
  /\ UNCHANGED <<over, session, refund, events>>

-----------------------------------------------------------------------------
(* At the desk.                                                            *)

ManualPay(r) ==
  /\ r \notin Card /\ rental[r].status = "pending" /\ ~ over[r] /\ Free(r)
  /\ rental' = Set(r, "confirmed", "paid")
  /\ UNCHANGED <<over, session, refund, events, call>>

ExpireManual ==
  /\ \E r \in Rental \ Card : rental[r].status = "pending" /\ over[r]
  /\ rental' = [r \in Rental |->
       IF r \notin Card /\ rental[r].status = "pending" /\ over[r]
       THEN [rental[r] EXCEPT !.status = "expired"] ELSE rental[r]]
  /\ UNCHANGED <<over, session, refund, events, call>>

ManualRefund(r) ==
  /\ r \notin Card /\ rental[r].status = "cancelled" /\ rental[r].pay = "refund_pending"
  /\ rental' = [rental EXCEPT ![r].pay = "refunded"]
  /\ UNCHANGED <<over, session, refund, events, call>>

-----------------------------------------------------------------------------
(* Webhook deliveries.                                                     *)

\* A payment for dates that have been released is refused and sent again.
DeliverCompleted(r) ==
  /\ <<"completed", r>> \in events /\ Free(r)
  /\ rental[r].status # "expired"
  /\ rental' = Complete(r)
  /\ events' = events \ {<<"completed", r>>}
  /\ UNCHANGED <<over, session, refund, call>>

\* Matched by the session's identity alone.
DeliverExpired(r) ==
  /\ <<"expired", r>> \in events /\ Free(r)
  /\ rental' = IF rental[r].checkout THEN Expired(r) ELSE rental
  /\ events' = events \ {<<"expired", r>>}
  /\ UNCHANGED <<over, session, refund, call>>

\* What Stripe says now, and not the event, decides.
HoldFailed(c, r) ==
  /\ <<"failed", r>> \in events /\ Free(r)
  /\ Start(c, [pc |-> "heldFailed", r |-> r, found |-> session[r]])
  /\ UNCHANGED <<rental, over, session, refund, events>>

EndFailed(c) ==
  LET r == call[c].r
  IN /\ call[c].pc = "heldFailed"
     /\ rental' = CASE call[c].found = "paid" -> Complete(r)
                    [] call[c].found \in {"failed", "processing"} -> Expired(r)
                    [] OTHER -> rental
     /\ events' = events \ {<<"failed", r>>}
     /\ Return(c)
     /\ UNCHANGED <<over, session, refund>>

\* refund.created and refund.updated.
HoldRefund(c, r, kind) ==
  /\ <<kind, r>> \in events /\ Free(r)
  /\ rental[r].status = "cancelled"
  /\ Start(c, [pc |-> "heldRefund", r |-> r, found |-> refund[r], kind |-> kind])
  /\ UNCHANGED <<rental, over, session, refund, events>>

EndRefund(c) ==
  LET r == call[c].r
  IN /\ call[c].pc = "heldRefund"
     /\ rental' = Applied(r, call[c].found)
     /\ events' = events \ {<<call[c].kind, r>>}
     /\ Return(c)
     /\ UNCHANGED <<over, session, refund>>

-----------------------------------------------------------------------------
(* Everything else.                                                        *)

\* The process dies, or Stripe or the database refuses.
Stop(c) ==
  /\ call[c].pc # "idle"
  /\ Return(c)
  /\ UNCHANGED <<rental, over, session, refund, events>>

HoldEnds(r) ==
  /\ rental[r].status # "none" /\ ~ over[r]
  /\ over' = [over EXCEPT ![r] = TRUE]
  /\ UNCHANGED <<rental, session, refund, events, call>>

Moves == {<<"open", "paid">>, <<"open", "processing">>, <<"processing", "paid">>, <<"processing", "failed">>}

\* The member pays, at once or with a delay that may end badly.
SessionMoves(r) ==
  /\ \E to \in {"paid", "processing", "failed"} :
       /\ <<session[r], to>> \in Moves
       /\ session' = [session EXCEPT ![r] = to]
       /\ events' = CASE to = "paid" -> events \cup {<<"completed", r>>}
                      [] to = "failed" -> events \cup {<<"failed", r>>}
                      [] OTHER -> events
  /\ UNCHANGED <<rental, over, refund, call>>

SessionEnds(r) ==
  /\ session[r] = "open" /\ over[r]
  /\ session' = [session EXCEPT ![r] = "expired"]
  /\ events' = events \cup {<<"expired", r>>}
  /\ UNCHANGED <<rental, over, refund, call>>

RefundMoves(r) ==
  /\ refund[r] = "pending"
  /\ \E to \in {"succeeded", "failed"} : refund' = [refund EXCEPT ![r] = to]
  /\ events' = events \cup {<<"updated", r>>}
  /\ UNCHANGED <<rental, over, session, call>>

Init ==
  /\ rental = [r \in Rental |-> NoRental]
  /\ over = [r \in Rental |-> FALSE]
  /\ session = [r \in Rental |-> "none"]
  /\ refund = [r \in Rental |-> "none"]
  /\ events = {}
  /\ call = [c \in Call |-> Idle]

Next ==
  \/ ExpireManual
  \/ \E r \in Rental :
       \/ Create(r) \/ ManualPay(r) \/ ManualRefund(r)
       \/ DeliverCompleted(r) \/ DeliverExpired(r)
       \/ HoldEnds(r) \/ SessionMoves(r) \/ SessionEnds(r) \/ RefundMoves(r)
  \/ \E c \in Call :
       \/ AskSession(c) \/ SaveSession(c) \/ Close(c) \/ RecordPaid(c) \/ Release(c)
       \/ CancelRow(c) \/ AskRefund(c) \/ LoseRefund(c) \/ ApplyRefund(c) \/ RecordDoubt(c)
       \/ EndFailed(c) \/ EndRefund(c) \/ Stop(c)
       \/ \E r \in Rental : StartCancel(c, r) \/ StartRetry(c, r) \/ HoldFailed(c, r)
                            \/ \E kind \in {"created", "updated"} : HoldRefund(c, r, kind)
                            \/ \E for \in {"book", "sync"} : StartCheckout(c, r, for)

Spec == Init /\ [][Next]_vars

-----------------------------------------------------------------------------
(* Properties.                                                             *)

\* Dates that were given back unpaid cannot be paid for any more: no session
\* of theirs is open, under way or paid.
ReleasedIsUnpayable ==
  \A r \in Card :
    rental[r].status = "expired" \/ (rental[r].status = "cancelled" /\ rental[r].pay = "unpaid")
      => session[r] \in {"none", "failed", "expired"}

\* The dates of a confirmed rental are paid for.
ConfirmedIsPaid ==
  \A r \in Card : rental[r].status = "confirmed" => session[r] = "paid"

\* When every event has been acknowledged and no call is under way, the row
\* tells what became of the refund.
RefundIsTold ==
  \A r \in Card :
    {<<"created", r>>, <<"updated", r>>} \cap events = {} /\ (\A c \in Call : call[c].pc = "idle") /\ refund[r] # "none"
      => (rental[r].pay = "refunded" <=> refund[r] = "succeeded")
=============================================================================
