--------------------------- MODULE TrainingClasses ---------------------------
(***************************************************************************)
(* Classes for one certification (trainingClasses.ts, trainingPricing.ts): *)
(* enrolling, withdrawing, attendance and cancellation, and the training   *)
(* fee, which is billed once and settled by staff (StaffService).          *)
(*                                                                         *)
(* A transaction takes its locks one by one and keeps them to the end; its *)
(* writes are made by the step that commits.  The locks of foreign keys    *)
(* are left out, and so are the entitlement, sponsor and policy checks,    *)
(* which only refuse.                                                      *)
(***************************************************************************)
EXTENDS Naturals, FiniteSets

CONSTANTS
  Member, Class, Tx,
  Capacity,  \* of each class
  Bills      \* payment rows, as many as the run looks at

VARIABLES
  class,   \* app_training_class and its booking
  seat,    \* app_training_enrollment
  bill,    \* payment
  tx

vars == <<class, seat, bill, tx>>

NoBill == [member |-> "none", status |-> "unused"]
NoSeat == [status |-> "none", bill |-> "none"]
Idle == [pc |-> "idle", do |-> "none", member |-> "none", class |-> "none",
         bill |-> "none", locked |-> {}, fee |-> FALSE]

TypeOK ==
  /\ class \in [Class -> {"scheduled", "started", "cancelled"}]
  /\ seat \in [Class -> [Member -> [status : {"none", "enrolled", "attended", "no_show", "cancelled"},
                                    bill : Bills \cup {"none"}]]]
  /\ bill \in [Bills -> [member : Member \cup {"none"},
                         status : {"unused", "pending", "paid", "waived", "void", "refunded"}]]
  /\ \A t \in Tx : tx[t].pc \in {"idle", "class", "owed", "covered", "pending", "bill", "commit"}

Free(t, x) == \A u \in Tx \ {t} : x \notin tx[u].locked
Lock(t, x, pc) == tx' = [tx EXCEPT ![t].locked = @ \cup {x}, ![t].pc = pc]
Refuse(t) == tx' = [tx EXCEPT ![t] = Idle]
Goto(t, pc) == tx' = [tx EXCEPT ![t].pc = pc]
Taken(k) == {m \in Member : seat[k][m].status \in {"enrolled", "attended"}}
Settled(b) == bill[b].status \in {"paid", "waived"}
BillsOf(m) == {b \in Bills : bill[b].member = m}

-----------------------------------------------------------------------------
(* The locks.                                                              *)

\* A slip: staff go straight to the payment.
MemberFreeForMembers(t, do, m) == do = "settle" \/ Free(t, m)

MemberFree(t, do, m) == Free(t, m)

\* Enrolling and settling a payment begin with the member's row.
Begin(t, do, m, k, b) ==
  /\ tx[t].pc = "idle" /\ MemberFree(t, do, m)
  /\ tx' = [tx EXCEPT ![t] = [Idle EXCEPT !.do = do, !.member = m, !.class = k, !.bill = b,
                                          !.locked = {m},
                                          !.pc = IF do = "settle" THEN "bill" ELSE "class"]]
  /\ UNCHANGED <<class, seat, bill>>

ClassFree(t, do, k) == Free(t, k)

\* The class is locked, then the class and the seats are read.
Enrollable(m, k) ==
  /\ class[k] = "scheduled" /\ seat[k][m].status \notin {"enrolled", "attended"}
  /\ Cardinality(Taken(k)) < Capacity

LockClass(t) ==
  LET k == tx[t].class
  IN /\ tx[t].pc = "class" /\ ClassFree(t, "enroll", k)
     /\ IF Enrollable(tx[t].member, k) THEN Lock(t, k, "owed") ELSE Refuse(t)
     /\ UNCHANGED <<class, seat, bill>>

\* A class and, to withdraw or to be marked, the member whose seat it is; the
\* operations that begin with the class's row.
OnClass(t, do, m, k) ==
  /\ tx[t].pc = "idle" /\ ClassFree(t, do, k)
  /\ CASE do = "withdraw" -> class[k] = "scheduled" /\ seat[k][m].status = "enrolled"
       [] do = "attend" -> class[k] = "started" /\ seat[k][m].status \notin {"none", "cancelled"}
       [] do = "cancel" -> TRUE
  /\ tx' = [tx EXCEPT ![t] = [Idle EXCEPT !.do = do, !.member = m, !.class = k, !.locked = {k},
                                          !.pc = IF do = "attend" THEN "commit" ELSE "bill"]]
  /\ UNCHANGED <<class, seat, bill>>

-----------------------------------------------------------------------------
(* The fee: enrollTrainingPayment, a statement at a time.                  *)

\* The bill of the seat's last registration; one that is settled is kept.
ReadOwed(t) ==
  LET b == seat[tx[t].class][tx[t].member].bill
  IN /\ tx[t].pc = "owed"
     /\ IF b = "none"
        THEN Goto(t, "covered")
        ELSE /\ Free(t, b)
             /\ tx' = [tx EXCEPT ![t].locked = @ \cup {b},
                                 ![t].bill = IF Settled(b) THEN b ELSE @,
                                 ![t].pc = IF Settled(b) THEN "commit" ELSE "covered"]
     /\ UNCHANGED <<class, seat, bill>>

\* A fee that was paid or waived covers the certification.
ReadCovered(t) ==
  /\ tx[t].pc = "covered"
  /\ LET covered == \E b \in BillsOf(tx[t].member) : Settled(b)
     IN tx' = [tx EXCEPT ![t].fee = ~ covered, ![t].pc = IF covered THEN "commit" ELSE "pending"]
  /\ UNCHANGED <<class, seat, bill>>

\* One that is still owed for another class is settled first.
ReadPending(t) ==
  /\ tx[t].pc = "pending"
  /\ IF \E b \in BillsOf(tx[t].member) : bill[b].status = "pending" THEN Refuse(t) ELSE Goto(t, "commit")
  /\ UNCHANGED <<class, seat, bill>>

NewBill(m, b) == [bill EXCEPT ![b] = [member |-> m, status |-> "pending"]]

CommitEnroll(t) ==
  LET m == tx[t].member  k == tx[t].class
      Enroll(b) == seat' = [seat EXCEPT ![k][m] = [status |-> "enrolled", bill |-> b]]
  IN /\ tx[t].do = "enroll" /\ tx[t].pc = "commit"
     /\ IF tx[t].fee
        THEN \E b \in Bills : bill[b].status = "unused" /\ bill' = NewBill(m, b) /\ Enroll(b)
        ELSE UNCHANGED bill /\ Enroll(tx[t].bill)
     /\ Refuse(t)
     /\ UNCHANGED class

-----------------------------------------------------------------------------
(* Withdrawing, cancelling, attendance.                                    *)

Concerned(t) == IF tx[t].do = "withdraw" THEN {tx[t].member} ELSE Member
ToVoid(t) == {seat[tx[t].class][m].bill : m \in Concerned(t)} \ {"none"}

\* cancelTrainingPayments: what is pending is void; what is paid stays.
Voided(t) == [b \in Bills |-> IF b \in ToVoid(t) /\ bill[b].status = "pending"
                              THEN [bill[b] EXCEPT !.status = "void"] ELSE bill[b]]

CommitWithdraw(t) ==
  /\ tx[t].do = "withdraw" /\ tx[t].pc = "bill"
  /\ \A b \in ToVoid(t) : Free(t, b)
  /\ bill' = Voided(t)
  /\ seat' = [seat EXCEPT ![tx[t].class][tx[t].member].status = "cancelled"]
  /\ Refuse(t)
  /\ UNCHANGED class

CommitCancel(t) ==
  /\ tx[t].do = "cancel" /\ tx[t].pc = "bill"
  /\ \A b \in ToVoid(t) : Free(t, b)
  /\ bill' = Voided(t)
  /\ class' = [class EXCEPT ![tx[t].class] = "cancelled"]
  /\ Refuse(t)
  /\ UNCHANGED seat

CommitAttend(t) ==
  /\ tx[t].do = "attend" /\ tx[t].pc = "commit"
  /\ \E s \in {"attended", "no_show"} : seat' = [seat EXCEPT ![tx[t].class][tx[t].member].status = s]
  /\ Refuse(t)
  /\ UNCHANGED <<class, bill>>

-----------------------------------------------------------------------------
(* Staff settle a bill.                                                    *)

LockBill(t) ==
  /\ tx[t].do = "settle" /\ tx[t].pc = "bill" /\ Free(t, tx[t].bill)
  /\ IF bill[tx[t].bill].status \in {"pending", "paid"} THEN Lock(t, tx[t].bill, "commit") ELSE Refuse(t)
  /\ UNCHANGED <<class, seat, bill>>

Transition == [pending |-> {"paid", "void", "waived"}, paid |-> {"refunded"}]

CommitSettle(t) ==
  LET b == tx[t].bill
  IN /\ tx[t].do = "settle" /\ tx[t].pc = "commit"
     /\ \E s \in Transition[bill[b].status] : bill' = [bill EXCEPT ![b].status = s]
     /\ Refuse(t)
     /\ UNCHANGED <<class, seat>>

-----------------------------------------------------------------------------

\* An error, a deadlock that the database breaks, or a crash.
Abort(t) ==
  /\ tx[t].pc # "idle"
  /\ Refuse(t)
  /\ UNCHANGED <<class, seat, bill>>

StartClass(k) ==
  /\ class[k] = "scheduled"
  /\ class' = [class EXCEPT ![k] = "started"]
  /\ UNCHANGED <<seat, bill, tx>>

Init ==
  /\ class = [k \in Class |-> "scheduled"]
  /\ seat = [k \in Class |-> [m \in Member |-> NoSeat]]
  /\ bill = [b \in Bills |-> NoBill]
  /\ tx = [t \in Tx |-> Idle]

Next ==
  \/ \E t \in Tx :
       \/ LockClass(t) \/ ReadOwed(t) \/ ReadCovered(t) \/ ReadPending(t)
       \/ CommitEnroll(t) \/ CommitWithdraw(t) \/ CommitCancel(t) \/ CommitAttend(t)
       \/ LockBill(t) \/ CommitSettle(t) \/ Abort(t)
       \/ \E m \in Member, k \in Class :
            \/ Begin(t, "enroll", m, k, "none")
            \/ \E do \in {"withdraw", "attend"} : OnClass(t, do, m, k)
       \/ \E k \in Class : OnClass(t, "cancel", "none", k)
       \/ \E b \in Bills : bill[b].status # "unused" /\ Begin(t, "settle", bill[b].member, "none", b)
  \/ \E k \in Class : StartClass(k)

Spec == Init /\ [][Next]_vars

-----------------------------------------------------------------------------
(* Properties.                                                             *)

\* No class is overbooked, however many register for the last place at once.
SeatsBounded == \A k \in Class : Cardinality(Taken(k)) <= Capacity

\* A member owes the training fee once: no second bill while one is pending,
\* and none when one was paid or waived.
BilledOnce ==
  \A b, c \in Bills :
    /\ b # c /\ bill[b].member = bill[c].member
    /\ bill[b].status = "pending"
    => bill[c].status \in {"unused", "void", "refunded"}

\* Whoever withdrew, or whose class was cancelled, owes nothing for it.
NothingOwed ==
  \A k \in Class, m \in Member :
    (seat[k][m].status = "cancelled" \/ class[k] = "cancelled") /\ seat[k][m].bill # "none"
      => bill[seat[k][m].bill].status # "pending"
=============================================================================
