---------------------------- MODULE ReaderAccess ----------------------------
(***************************************************************************)
(* One reader on one machine: the decision on a tap (deviceAccess.ts,      *)
(* AccessService.ts, ReaderEligibility.ts, accessDeadline.ts), the device  *)
(* that holds the relay for as long as it was told (access_client.py), and *)
(* the staff who take away what the decision rests on, the machine among   *)
(* it (EquipmentMaintenanceService.ts).                                    *)
(*                                                                         *)
(* A grant cannot be called back: it runs out.  So the decision keeps a    *)
(* lock on every row it has read until its grant is committed, and the     *)
(* machine is stopped only when no grant is outstanding.                   *)
(***************************************************************************)
EXTENDS Naturals, Sequences

CONSTANTS
  Staff,    \* overlapping staff transactions
  Lease,    \* the longest grant (5 s)
  Ends,     \* when the reservation, or another condition of access, ends
  MaxTime

VARIABLES
  now,
  ok,       \* what each row says: reader enabled and not enrolling, card active, ...
  broken,   \* since when not every row says so; 0 when all do
  grant,    \* the latest expires_at of an allowed app_device_access_event
  decision, \* the rows locked so far, and what is to be answered
  reply,    \* the answer under way to the device
  sent,     \* when the device asked; 0 when it is not waiting
  until,    \* when the relay's timer switches it off
  staff     \* the row each staff transaction holds

vars == <<now, ok, broken, grant, decision, reply, sent, until, staff>>

\* The rows of a decision, in the order in which they are locked.
Order == <<"reader", "card", "member", "machine", "booking">>
Row == {Order[i] : i \in DOMAIN Order}
Time == 1..MaxTime
NoDecision == [locked |-> 0, open |-> FALSE, at |-> 0, lease |-> 0]
NoReply == [lease |-> 0, given |-> FALSE]

TypeOK ==
  /\ now \in Time
  /\ ok \in [Row -> BOOLEAN]
  /\ broken \in 0..MaxTime
  /\ grant \in 0..MaxTime + Lease
  /\ decision \in [locked : 0..Len(Order), open : BOOLEAN, at : 0..MaxTime, lease : 0..Lease]
  /\ reply \in [lease : 0..Lease, given : BOOLEAN]
  /\ sent \in 0..MaxTime
  /\ until \in 0..MaxTime + Lease
  /\ staff \in [Staff -> Row \cup {"none"}]

Locked == {Order[i] : i \in 1..decision.locked}
On == now < until

\* The answer to a request that the device has given up is not read.
Answer(lease) == IF sent # 0 THEN [lease |-> lease, given |-> TRUE] ELSE NoReply
Earlier(a, b) == IF a < b THEN a ELSE b

-----------------------------------------------------------------------------
(* The decision.                                                           *)

\* The device asks: a first scan, or the renewal every second.
Ask ==
  /\ sent = 0 /\ ~ decision.open
  /\ sent' = now
  /\ decision' = [NoDecision EXCEPT !.open = TRUE]
  /\ UNCHANGED <<now, ok, broken, grant, reply, until, staff>>

Free(r) == \A s \in Staff : staff[s] # r

\* The next row is locked and read.  Its conditions are evaluated for the
\* instant taken after the card.
LockNext ==
  LET r == Order[decision.locked + 1]
  IN /\ decision.open /\ decision.locked < Len(Order)
     /\ Free(r)
     /\ IF ok[r]
        THEN /\ decision' = [decision EXCEPT !.locked = @ + 1, !.at = IF r = "card" THEN now ELSE @]
             /\ UNCHANGED reply
        ELSE decision' = NoDecision /\ reply' = Answer(0)
     /\ UNCHANGED <<now, ok, broken, grant, sent, until, staff>>

\* A slip: a grant runs its full length whatever ends in between.
FullLease == decision.at + Lease

\* accessDeadline: never past the end of any condition.
Expires == Earlier(decision.at + Lease, Ends)

\* leaseSeconds is what is left when the answer is put together.
Decide ==
  /\ decision.locked = Len(Order) /\ decision.lease = 0
  /\ IF Expires > now
     THEN decision' = [decision EXCEPT !.lease = Expires - now] /\ UNCHANGED reply
     ELSE decision' = NoDecision /\ reply' = Answer(0)
  /\ UNCHANGED <<now, ok, broken, grant, sent, until, staff>>

\* The grant is saved and the transaction commits.
Commit ==
  /\ decision.lease > 0
  /\ decision' = NoDecision
  /\ grant' = IF Expires > grant THEN Expires ELSE grant
  /\ reply' = Answer(decision.lease)
  /\ UNCHANGED <<now, ok, broken, sent, until, staff>>

\* The budget, a statement's or a lock's timeout, or an error ends it.
TimeOut ==
  /\ decision.open
  /\ decision' = NoDecision
  /\ reply' = Answer(0)
  /\ UNCHANGED <<now, ok, broken, grant, sent, until, staff>>

-----------------------------------------------------------------------------
(* The device.                                                             *)

\* The whole duration of the request is taken off the lease.
Hold(lease) == IF lease > now - sent THEN sent + lease ELSE 0

Receive ==
  /\ sent # 0 /\ reply.given
  /\ until' = Hold(reply.lease)
  /\ reply' = NoReply
  /\ sent' = 0
  /\ UNCHANGED <<now, ok, broken, grant, decision, staff>>

\* No answer in time, or not a proper one: the relay is switched off.
Fail ==
  /\ sent # 0
  /\ until' = 0 /\ sent' = 0
  /\ reply' = NoReply
  /\ UNCHANGED <<now, ok, broken, grant, decision, staff>>

-----------------------------------------------------------------------------
(* Staff.                                                                  *)

\* activeEquipmentGrants.
Stoppable(r) == r = "machine" /\ ok[r] => grant <= now

Take(s, r) ==
  /\ staff[s] = "none"
  /\ Free(r) /\ r \notin Locked
  /\ Stoppable(r)
  /\ staff' = [staff EXCEPT ![s] = r]
  /\ UNCHANGED <<now, ok, broken, grant, decision, reply, sent, until>>

\* Disabled or set to enroll, revoked, suspended, out of service, cancelled:
\* and back.
Change(s) ==
  LET r == staff[s]
  IN /\ r # "none"
     /\ ok' = [ok EXCEPT ![r] = ~ @]
     /\ broken' = IF \A q \in Row : ok'[q] THEN 0 ELSE IF broken = 0 THEN now ELSE broken
     /\ staff' = [staff EXCEPT ![s] = "none"]
     /\ UNCHANGED <<now, grant, decision, reply, sent, until>>

Abort(s) ==
  /\ staff[s] # "none"
  /\ staff' = [staff EXCEPT ![s] = "none"]
  /\ UNCHANGED <<now, ok, broken, grant, decision, reply, sent, until>>

Tick ==
  /\ now < MaxTime
  /\ now' = now + 1
  /\ UNCHANGED <<ok, broken, grant, decision, reply, sent, until, staff>>

Init ==
  /\ now = 1
  /\ ok = [r \in Row |-> TRUE]
  /\ broken = 0
  /\ grant = 0
  /\ decision = NoDecision
  /\ reply = NoReply
  /\ sent = 0
  /\ until = 0
  /\ staff = [s \in Staff |-> "none"]

Next ==
  \/ Ask \/ LockNext \/ Decide \/ Commit \/ TimeOut
  \/ Receive \/ Fail
  \/ \E s \in Staff : Change(s) \/ Abort(s) \/ \E r \in Row : Take(s, r)
  \/ Tick

Spec == Init /\ [][Next]_vars

-----------------------------------------------------------------------------
(* Properties.                                                             *)

\* A machine that is out of service has no power: no decision that was under
\* way, and no answer on its way to the device, can switch it on.
StoppedIsOff == ~ ok["machine"] => ~ On

\* Whatever was taken away, the relay is off at the latest one lease later,
\* and never on past the end of the reservation.
RevocationBites ==
  On => now < Ends /\ (broken # 0 => now < broken + Lease)
=============================================================================
