-------------------------- MODULE PassBillingProofs --------------------------
(***************************************************************************)
(* Proofs about PassBilling, for any number of deliveries, checkouts and   *)
(* cancellations.                                                          *)
(*                                                                         *)
(* A process can be late with what Stripe told it of a refund.  It does no *)
(* harm because a refund's status moves one way (Later), and because the   *)
(* event of a change that a process has not seen is still to come: a       *)
(* refund of which no event is left is the one that the row tells of       *)
(* (Synced).  The last holds of a payment that is refunded at most once,   *)
(* and not between refunds.list and its commit.                            *)
(***************************************************************************)
EXTENDS PassBilling, TLAPS

\* What a status of a refund can become.
Later(s, t) ==
  s = t \/ s = "none" \/ (s = "pending" /\ t # "none") \/ (s = "succeeded" /\ t = "failed")

OneLock == \A p, q \in Process : work[p].at \in Locking /\ work[q].at \in Locking => p = q

\* With a payment the ledger repeats the refund that the row tells of.
RefundTells(r) ==
  /\ r.refund = None <=> r.refundStatus = "none"
  /\ r.refund # None => Later(r.refundStatus, refund[r.refund])
  /\ r.payment = IF r.refundStatus = "succeeded" THEN "refunded" ELSE "paid"

\* Before it the row tells of no refund and gives no pass, unless access is free.
RowTells ==
  /\ row.intent => RefundTells(row)
  /\ ~ row.intent => /\ row.refund = None /\ row.refundStatus = "none"
                     /\ row.payment \in {"none", "waived"}
                     /\ row.payment = "none" => row.pass = "none" /\ row.status \in {"pending", "expired"}

SessionTells ==
  /\ row.intent => session = "complete" /\ "session" \notin event
  /\ FreeAccess => session = "none" /\ row.status # "pending"
  /\ \A f \in Refund \cap event : refund[f] # "none"
  /\ ExpiredIsUnpayable

\* What a process knows while it is under way.
Knows(p) ==
  LET f == work[p].saw.of
      s == work[p].saw.status
  IN /\ At(p, "creating") => ~ FreeAccess
     /\ At(p, "ended") => session = "expired"
     /\ work[p].at \in {"issuing", "listed"} => ~ row.intent /\ session = "complete" /\ ~ desk
     /\ At(p, "listed") => /\ p \in Delivery
                           /\ work[p].saw # Nothing => f \in Refund /\ s # "none" /\ Later(s, refund[f])
                           /\ Dashboard = "apart" => IF work[p].saw = Nothing THEN Refunds = {} ELSE s = refund[f]
     /\ At(p, "requested") => row.intent \/ FreeAccess
     /\ At(p, "refunding") => row.intent
     /\ work[p].at \in {"fetched", "recording"} =>
          /\ row.intent /\ f \in Refund /\ s # "none" /\ Later(s, refund[f])
          /\ s = refund[f] \/ f \in event
     /\ At(p, "fetched") => work[p].on = f /\ f \in event

OneRefund == \A f, g \in Refund : f = g

\* A refund of which no event is left is the one that the row tells of.
Synced ==
  OneRefund /\ Dashboard = "apart" =>
    \A f \in Refund : row.intent /\ f \notin event /\ refund[f] # "none" =>
      row.refund = f /\ row.refundStatus = refund[f]

PassInv ==
  TypeOK /\ OneLock /\ RowTells /\ SessionTells /\ (\A p \in Process : Knows(p)) /\ Synced

-----------------------------------------------------------------------------
(* Rows.                                                                   *)

LEMMA Names == /\ \A f \in Refund : f # None /\ f # "session"
               /\ Nothing.of = None /\ Nothing.status = "none"
BY RefundAssumption DEF None, Nothing

\* Writing one column of a row.
LEMMA StatusWritten ==
  ASSUME NEW r \in Row, NEW v \in {"pending", "paid", "expired", "cancelled"}, NEW c, c = [r EXCEPT !.status = v]
  PROVE  /\ c \in Row /\ c.status = v /\ c.pass = r.pass /\ c.intent = r.intent /\ c.refund = r.refund
         /\ c.refundStatus = r.refundStatus /\ c.payment = r.payment
BY SMT DEF Row

LEMMA SavedWritten ==
  ASSUME NEW r \in Row, NEW v \in BOOLEAN, NEW c, c = [r EXCEPT !.saved = v]
  PROVE  /\ c \in Row /\ c.status = r.status /\ c.pass = r.pass /\ c.intent = r.intent
         /\ c.refund = r.refund /\ c.refundStatus = r.refundStatus /\ c.payment = r.payment
BY SMT DEF Row

LEMMA IntentWritten ==
  ASSUME NEW r \in Row, NEW v \in BOOLEAN, NEW c, c = [r EXCEPT !.intent = v]
  PROVE  /\ c \in Row /\ c.intent = v /\ c.status = r.status /\ c.pass = r.pass /\ c.refund = r.refund
         /\ c.refundStatus = r.refundStatus /\ c.payment = r.payment
BY SMT DEF Row

LEMMA RequestedWritten ==
  ASSUME NEW r \in Row, NEW v \in BOOLEAN, NEW c, c = [r EXCEPT !.requested = v]
  PROVE  /\ c \in Row /\ c.status = r.status /\ c.pass = r.pass /\ c.intent = r.intent
         /\ c.refund = r.refund /\ c.refundStatus = r.refundStatus /\ c.payment = r.payment
BY SMT DEF Row

LEMMA RefundWritten ==
  ASSUME NEW r \in Row, NEW v \in Refund \cup {None}, NEW c, c = [r EXCEPT !.refund = v]
  PROVE  /\ c \in Row /\ c.refund = v /\ c.status = r.status /\ c.pass = r.pass /\ c.intent = r.intent
         /\ c.refundStatus = r.refundStatus /\ c.payment = r.payment
BY SMT DEF Row

LEMMA RefundStatusWritten ==
  ASSUME NEW r \in Row, NEW v \in RefundStatus, NEW c, c = [r EXCEPT !.refundStatus = v]
  PROVE  /\ c \in Row /\ c.refundStatus = v /\ c.status = r.status /\ c.pass = r.pass /\ c.intent = r.intent
         /\ c.refund = r.refund /\ c.payment = r.payment
BY SMT DEF Row

LEMMA PassWritten ==
  ASSUME NEW r \in Row, NEW v \in PassStatus, NEW c, c = [r EXCEPT !.pass = v]
  PROVE  /\ c \in Row /\ c.pass = v /\ c.status = r.status /\ c.intent = r.intent /\ c.refund = r.refund
         /\ c.refundStatus = r.refundStatus /\ c.payment = r.payment
BY SMT DEF Row

LEMMA PaymentWritten ==
  ASSUME NEW r \in Row, NEW v \in {"none", "paid", "refunded", "waived"}, NEW c, c = [r EXCEPT !.payment = v]
  PROVE  /\ c \in Row /\ c.payment = v /\ c.status = r.status /\ c.pass = r.pass /\ c.intent = r.intent
         /\ c.refund = r.refund /\ c.refundStatus = r.refundStatus
BY SMT DEF Row

LEMMA CancelledRow ==
  ASSUME NEW r \in Row, NEW c, c = Cancelled(r)
  PROVE  /\ c \in Row /\ c.status = "cancelled" /\ c.pass = "cancelled" /\ c.intent = r.intent
         /\ c.refund = r.refund /\ c.refundStatus = r.refundStatus /\ c.payment = r.payment
<1> DEFINE b == [r EXCEPT !.status = "cancelled"]
<1>1. /\ b \in Row /\ b.status = "cancelled" /\ b.intent = r.intent
      /\ b.refund = r.refund /\ b.refundStatus = r.refundStatus /\ b.payment = r.payment
  BY SMT, StatusWritten
<1>2. c = [b EXCEPT !.pass = "cancelled"] /\ "cancelled" \in PassStatus
  BY DEF Cancelled, PassStatus
<1> HIDE DEF b
<1> QED
  BY SMT, <1>1, <1>2, PassWritten

LEMMA IssuedRow ==
  ASSUME NEW r \in Row, NEW i, i = Issued(r)
  PROVE  /\ i \in Row /\ i.status = "paid" /\ i.pass = "active" /\ i.intent = TRUE
         /\ i.refund = r.refund /\ i.refundStatus = r.refundStatus /\ i.payment = "paid"
<1> DEFINE yes == TRUE
           a == [r EXCEPT !.status = "paid"]
           b == [a EXCEPT !.saved = yes]
           c == [b EXCEPT !.intent = yes]
           d == [c EXCEPT !.pass = "active"]
<1>1. i = [d EXCEPT !.payment = "paid"] /\ "active" \in PassStatus /\ yes \in BOOLEAN
  BY DEF Issued, PassStatus
<1> HIDE DEF yes
<1>2. a \in Row /\ a.status = "paid" /\ a.refund = r.refund /\ a.refundStatus = r.refundStatus
  BY SMT, StatusWritten
<1> HIDE DEF a
<1>3. b \in Row /\ b.status = "paid" /\ b.refund = r.refund /\ b.refundStatus = r.refundStatus
  BY SMT, <1>1, <1>2, SavedWritten
<1> HIDE DEF b
<1>4. c \in Row /\ c.status = "paid" /\ c.intent = yes /\ c.refund = r.refund /\ c.refundStatus = r.refundStatus
  BY SMT, <1>1, <1>3, IntentWritten
<1> HIDE DEF c
<1>5. /\ d \in Row /\ d.status = "paid" /\ d.pass = "active" /\ d.intent = yes
      /\ d.refund = r.refund /\ d.refundStatus = r.refundStatus
  BY SMT, <1>1, <1>4, PassWritten
<1> HIDE DEF d
<1>6. /\ i \in Row /\ i.status = "paid" /\ i.pass = "active" /\ i.intent = yes
      /\ i.refund = r.refund /\ i.refundStatus = r.refundStatus /\ i.payment = "paid"
  BY SMT, <1>1, <1>5, PaymentWritten
<1> QED
  BY Zenon, <1>6 DEF yes

\* applyRefund writes what it was told, with the ledger, or nothing.
LEMMA WithRefundRow ==
  ASSUME NEW r \in Row, NEW told, told.of \in Refund, told.status \in RefundStatus,
         NEW c, c = WithRefund(r, told)
  PROVE  /\ c \in Row /\ c.intent = r.intent
         /\ c.status \in {r.status, "cancelled"} /\ c.pass \in {r.pass, "cancelled"}
         /\ Ignored(r, told) => c = r
         /\ ~ Ignored(r, told) =>
              /\ c.refund = told.of /\ c.refundStatus = told.status
              /\ c.payment = IF told.status = "succeeded" THEN "refunded"
                             ELSE IF told.status = "failed" /\ r.payment = "refunded" THEN "paid" ELSE r.payment
<1> DEFINE named == [r EXCEPT !.refund = told.of]
           noted == [named EXCEPT !.refundStatus = told.status]
           given == Cancelled(noted)
<1>1. c = IF Ignored(r, told) THEN r
          ELSE IF told.status = "succeeded" THEN [given EXCEPT !.payment = "refunded"]
          ELSE IF told.status = "failed" /\ r.payment = "refunded" THEN [noted EXCEPT !.payment = "paid"]
          ELSE noted
  BY DEF WithRefund
<1>2. /\ named \in Row /\ named.refund = told.of /\ named.status = r.status /\ named.pass = r.pass
      /\ named.intent = r.intent /\ named.payment = r.payment
  BY SMT, RefundWritten
<1> HIDE DEF named
<1>3. /\ noted \in Row /\ noted.refund = told.of /\ noted.refundStatus = told.status /\ noted.status = r.status
      /\ noted.pass = r.pass /\ noted.intent = r.intent /\ noted.payment = r.payment
  BY SMT, <1>2, RefundStatusWritten
<1> HIDE DEF noted
<1>4. /\ given \in Row /\ given.status = "cancelled" /\ given.pass = "cancelled" /\ given.intent = noted.intent
      /\ given.refund = noted.refund /\ given.refundStatus = noted.refundStatus
  BY <1>3, CancelledRow
<1> HIDE DEF given
<1>5. CASE Ignored(r, told)
  BY Zenon, <1>1, <1>5
<1>6. CASE ~ Ignored(r, told) /\ told.status = "succeeded"
  <2>1. c = [given EXCEPT !.payment = "refunded"]
    BY Zenon, <1>1, <1>6
  <2>2. /\ c \in Row /\ c.payment = "refunded" /\ c.status = "cancelled" /\ c.pass = "cancelled"
        /\ c.intent = r.intent /\ c.refund = told.of /\ c.refundStatus = told.status
    BY SMT, <1>3, <1>4, <2>1, PaymentWritten
  <2> QED
    BY Zenon, <1>6, <2>2
<1>7. CASE ~ Ignored(r, told) /\ told.status = "failed" /\ r.payment = "refunded"
  <2>1. c = [noted EXCEPT !.payment = "paid"] /\ told.status # "succeeded"
    BY SMT, <1>1, <1>7
  <2>2. /\ c \in Row /\ c.payment = "paid" /\ c.status = r.status /\ c.pass = r.pass
        /\ c.intent = r.intent /\ c.refund = told.of /\ c.refundStatus = told.status
    BY SMT, <1>3, <2>1, PaymentWritten
  <2> QED
    BY Zenon, <1>7, <2>1, <2>2
<1>8. CASE ~ Ignored(r, told) /\ told.status # "succeeded" /\ ~ (told.status = "failed" /\ r.payment = "refunded")
  BY Zenon, <1>3, <1>1, <1>8
<1> QED
  BY Zenon, <1>5, <1>6, <1>7, <1>8

\* What was told of a refund, old or new, leaves a row that tells the truth;
\* and, of the only refund, the news leaves one that is up to date.
LEMMA RefundRecorded ==
  ASSUME NEW r \in Row, RefundTells(r), NEW told,
         told.of \in Refund, told.status \in RefundStatus \ {"none"}, Later(told.status, refund[told.of]),
         NEW c, c = WithRefund(r, told)
  PROVE  /\ c \in Row /\ c.intent = r.intent /\ RefundTells(c)
         /\ c.status \in {r.status, "cancelled"} /\ c.pass \in {r.pass, "cancelled"}
         /\ OneRefund /\ told.status = refund[told.of] => c.refund = told.of /\ c.refundStatus = told.status
<1>1. /\ c \in Row /\ c.intent = r.intent
      /\ c.status \in {r.status, "cancelled"} /\ c.pass \in {r.pass, "cancelled"}
      /\ Ignored(r, told) => c = r
      /\ ~ Ignored(r, told) =>
           /\ c.refund = told.of /\ c.refundStatus = told.status
           /\ c.payment = IF told.status = "succeeded" THEN "refunded"
                          ELSE IF told.status = "failed" /\ r.payment = "refunded" THEN "paid" ELSE r.payment
  BY WithRefundRow
<1>2. /\ r.refund \in Refund \cup {None} /\ r.refundStatus \in RefundStatus /\ told.of # None
      /\ OneRefund /\ r.refund # None => r.refund = told.of
  BY Names DEF Row, OneRefund
<1>3. CASE Ignored(r, told)
  <2>1. ASSUME OneRefund, told.status = refund[told.of]
        PROVE  r.refund = told.of /\ r.refundStatus = told.status
    BY <1>2, <1>3, <2>1 DEF Ignored, RefundTells, Later, RefundStatus
  <2> QED
    BY Zenon, <1>1, <1>3, <2>1
<1>4. CASE ~ Ignored(r, told)
  <2>1. RefundTells(c)
    BY <1>1, <1>2, <1>4 DEF Ignored, RefundTells, Later, RefundStatus
  <2> QED
    BY Zenon, <1>1, <1>4, <2>1
<1> QED
  BY <1>3, <1>4
-----------------------------------------------------------------------------
(* Steps of the processes.                                                 *)

LEMMA Moved ==
  ASSUME TypeOK, NEW p \in Process, NEW step \in Step, NEW on \in {"session", None} \cup Refund,
         NEW saw \in [of: Refund \cup {None}, status: RefundStatus], Goto(p, step, on, saw)
  PROVE  /\ work' \in [Process -> [at: Step, on: {"session", None} \cup Refund,
                                   saw: [of: Refund \cup {None}, status: RefundStatus]]]
         /\ work'[p].at = step /\ work'[p].on = on /\ work'[p].saw = saw
         /\ \A q \in Process \ {p} : work'[q] = work[q]
BY SMT DEF TypeOK, Goto

LEMMA LockKept ==
  ASSUME TypeOK, OneLock, NEW p \in Process, NEW step \in Step, NEW on \in {"session", None} \cup Refund,
         NEW saw \in [of: Refund \cup {None}, status: RefundStatus], Goto(p, step, on, saw),
         step \in Locking => Free \/ work[p].at \in Locking
  PROVE  OneLock'
<1>1. work'[p].at = step /\ \A q \in Process \ {p} : work'[q] = work[q]
  BY Moved
<1> QED
  BY <1>1 DEF OneLock, Free

LEMMA LaterStill ==
  ASSUME NEW s \in RefundStatus, NEW t \in RefundStatus, NEW u \in RefundStatus, Later(s, t), Later(t, u)
  PROVE  Later(s, u)
BY DEF Later, RefundStatus

\* What a process knows stays true as long as nobody takes it away: the lock
\* keeps the row, Stripe goes one way and announces it.
LEMMA KnowsKept ==
  ASSUME PassInv, TypeOK', NEW q \in Process, work'[q] = work[q],
         row.intent => row'.intent,
         FreeAccess' => FreeAccess,
         FreeAccess => FreeAccess' \/ row'.intent,
         session \in {"expired", "complete"} => session' = session,
         work[q].at \in {"issuing", "listed"} => (row'.intent => row.intent) /\ (desk' => desk),
         At(q, "listed") /\ Dashboard = "apart" => refund' = refund,
         \A f \in Refund : Later(refund[f], refund'[f]) /\ (refund'[f] = refund[f] \/ f \in event'),
         work[q].at \in {"fetched", "recording"} => event \cap Refund \subseteq event'
  PROVE  Knows(q)'
<1> DEFINE f == work[q].saw.of
           s == work[q].saw.status
<1>1. Knows(q) /\ TypeOK
  BY DEF PassInv
<1>2. work'[q].saw.of = f /\ work'[q].saw.status = s /\ work'[q].at = work[q].at /\ work'[q].saw = work[q].saw
      /\ work'[q].on = work[q].on
  OBVIOUS
<1>3. /\ At(q, "creating")' => ~ FreeAccess'
      /\ At(q, "ended")' => session' = "expired"
  BY <1>1, <1>2 DEF Knows, At
<1>4. work'[q].at \in {"issuing", "listed"} => ~ row'.intent /\ session' = "complete" /\ ~ desk'
  BY <1>1, <1>2 DEF Knows
<1>5. ASSUME At(q, "listed")
      PROVE  /\ q \in Delivery
             /\ work[q].saw # Nothing => f \in Refund /\ s # "none" /\ Later(s, refund'[f])
             /\ Dashboard = "apart" => IF work[q].saw = Nothing THEN Refunds' = {} ELSE s = refund'[f]
  <2>1. /\ q \in Delivery
        /\ Dashboard = "apart" => IF work[q].saw = Nothing THEN Refunds' = {} ELSE s = refund'[f]
    BY <1>1, <1>5 DEF Knows, Refunds
  <2>2. ASSUME work[q].saw # Nothing PROVE f \in Refund /\ s # "none" /\ Later(s, refund'[f])
    <3>1. f \in Refund /\ s # "none" /\ Later(s, refund[f])
      BY <1>1, <1>5, <2>2 DEF Knows
    <3>2. s \in RefundStatus /\ refund[f] \in RefundStatus /\ refund'[f] \in RefundStatus
      BY <1>1, <3>1 DEF TypeOK
    <3> QED
      BY <3>1, <3>2, LaterStill
  <2> QED
    BY <2>1, <2>2
<1>6. /\ At(q, "requested")' => row'.intent \/ FreeAccess'
      /\ At(q, "refunding")' => row'.intent
  BY <1>1, <1>2 DEF Knows, At
<1>7. ASSUME work[q].at \in {"fetched", "recording"}
      PROVE  /\ row'.intent /\ f \in Refund /\ s # "none" /\ Later(s, refund'[f])
             /\ s = refund'[f] \/ f \in event'
  <2>1. row.intent /\ f \in Refund /\ s # "none" /\ Later(s, refund[f]) /\ (s = refund[f] \/ f \in event)
    BY <1>1, <1>7 DEF Knows
  <2>2. s \in RefundStatus /\ refund[f] \in RefundStatus /\ refund'[f] \in RefundStatus
    BY <1>1, <2>1 DEF TypeOK
  <2>3. Later(s, refund'[f])
    BY <2>1, <2>2, LaterStill
  <2> QED
    BY <1>7, <2>1, <2>3
<1>8. At(q, "fetched")' => work'[q].on = f /\ f \in event'
  BY <1>1, <1>2, <1>7 DEF Knows, At
<1> QED
  BY <1>2, <1>3, <1>4, <1>5, <1>6, <1>7, <1>8 DEF Knows, At

\* A step that moves a process and nothing else.
LEMMA PassGoto ==
  ASSUME PassInv, NEW p \in Process, NEW step \in Step, NEW on \in {"session", None} \cup Refund,
         NEW saw \in [of: Refund \cup {None}, status: RefundStatus], Goto(p, step, on, saw),
         step \in Locking => Free \/ work[p].at \in Locking,
         UNCHANGED <<row, desk, session, refund, event, phase>>, Knows(p)'
  PROVE  PassInv'
<1>1. /\ work' \in [Process -> [at: Step, on: {"session", None} \cup Refund,
                                   saw: [of: Refund \cup {None}, status: RefundStatus]]]
      /\ \A q \in Process \ {p} : work'[q] = work[q]
  BY Moved DEF PassInv
<1>2. TypeOK' /\ OneLock'
  BY <1>1, LockKept DEF PassInv, TypeOK
<1>3. RowTells' /\ SessionTells' /\ Synced'
  BY DEF PassInv, RowTells, RefundTells, SessionTells, Synced, FreeAccess, ExpiredIsUnpayable
<1>4. ASSUME NEW q \in Process \ {p} PROVE Knows(q)'
  <2>1. work'[q] = work[q]
    BY <1>1
  <2> QED
    BY <1>2, <2>1, KnowsKept DEF FreeAccess, Later
<1> QED
  BY <1>2, <1>3, <1>4 DEF PassInv

LEMMA Words ==
  /\ Nothing \in [of: Refund \cup {None}, status: RefundStatus]
  /\ TypeOK => \A f \in Refund : /\ Report(f) \in [of: Refund \cup {None}, status: RefundStatus]
                                 /\ Report(f).of = f /\ Report(f).status = refund[f]
BY DEF Nothing, None, RefundStatus, TypeOK, Report

LEMMA Walks ==
  ASSUME PassInv, NEW p \in Process,
         \/ StartCheckout(p)
         \/ LockAndIssue(p)
         \/ ListRefunds(p) /\ p \in Delivery
         \/ \E f \in Refund : FetchRefund(p, f)
         \/ FindRefund(p)
         \/ GiveUp(p)
  PROVE  PassInv'
<1>1. TypeOK /\ Knows(p) /\ RowTells /\ SessionTells
  BY DEF PassInv
<1>2. CASE StartCheckout(p)
  <2>1. work'[p].at = "creating"
    BY <1>1, <1>2, Words, Moved DEF StartCheckout, Step, Locking
  <2>2. Knows(p)'
    BY <1>1, <1>2, <2>1 DEF StartCheckout, Knows, At, FreeAccess, SessionTells
  <2> QED
    BY <1>2, <2>2, Words, PassGoto DEF StartCheckout, Step, Locking
<1>3. CASE LockAndIssue(p)
  <2>1. work'[p].at = "issuing"
    BY <1>1, <1>3, Words, Moved DEF LockAndIssue, Step, Locking
  <2>2. ~ row.intent
    BY <1>1, <1>3 DEF LockAndIssue, SessionTells
  <2>3. Knows(p)'
    BY <1>3, <2>1, <2>2 DEF LockAndIssue, Knows, At
  <2> QED
    BY <1>3, <2>3, Words, PassGoto DEF LockAndIssue, Step, Locking
<1>4. CASE ListRefunds(p) /\ p \in Delivery
  <2>1. ~ row.intent /\ session = "complete" /\ ~ desk /\ work[p].at \in Locking
    BY <1>1, <1>4 DEF ListRefunds, Knows, At, Locking
  <2>2. CASE Refunds = {} /\ Goto(p, "listed", "session", Nothing)
    <3>1. work'[p].at = "listed" /\ work'[p].saw = Nothing
      BY <1>1, <2>2, Words, Moved DEF Step, Locking
    <3>2. Knows(p)'
      BY <1>4, <2>1, <2>2, <3>1 DEF ListRefunds, Knows, At, Refunds
    <3> QED
      BY <1>4, <2>1, <2>2, <3>2, Words, PassGoto DEF ListRefunds, Step, Locking
  <2>3. ASSUME NEW f \in Refunds, Goto(p, "listed", "session", Report(f)) PROVE PassInv'
    <3>1. f \in Refund
      BY <2>3 DEF Refunds
    <3>2. f \in Refund /\ work'[p].at = "listed" /\ work'[p].saw = Report(f)
      BY <1>1, <2>3, <3>1, Words, Moved DEF Step, Locking
    <3>3. Report(f).of = f /\ Report(f).status = refund[f] /\ Nothing.of # f
      BY <1>1, <3>2, Words, Names
    <3>4. Knows(p)'
      BY <1>4, <2>1, <2>3, <3>2, <3>3 DEF ListRefunds, Knows, At, Refunds, Later
    <3> QED
      BY <1>1, <1>4, <2>1, <2>3, <3>2, <3>4, Words, PassGoto DEF ListRefunds, Step, Locking
  <2> QED
    BY <1>4, <2>2, <2>3 DEF ListRefunds
<1>5. ASSUME NEW f \in Refund, FetchRefund(p, f) PROVE PassInv'
  <2>1. work'[p].at = "fetched" /\ work'[p].on = f /\ work'[p].saw = Report(f)
    BY <1>1, <1>5, Words, Moved DEF FetchRefund, Step, Locking
  <2>2. Report(f).of = f /\ Report(f).status = refund[f]
    BY <1>1, Words
  <2>3. refund[f] # "none"
    BY <1>1, <1>5 DEF FetchRefund, SessionTells
  <2>4. Knows(p)'
    BY <1>5, <2>1, <2>2, <2>3 DEF FetchRefund, Knows, At, Later
  <2> QED
    BY <1>1, <1>5, <2>4, Words, PassGoto DEF FetchRefund, Step, Locking
<1>6. CASE FindRefund(p)
  <2>1. row.intent
    BY <1>1, <1>6 DEF FindRefund, Knows
  <2>2. CASE Goto(p, "refunding", None, Nothing)
    <3>1. work'[p].at = "refunding"
      BY <1>1, <2>2, Words, Moved DEF Step, Locking
    <3>2. Knows(p)'
      BY <1>6, <2>1, <3>1 DEF FindRefund, Knows, At
    <3> QED
      BY <1>6, <2>2, <3>2, Words, PassGoto DEF FindRefund, Step, Locking
  <2>3. ASSUME NEW f \in Refunds, Goto(p, "recording", None, Report(f)) PROVE PassInv'
    <3>1. f \in Refund
      BY <2>3 DEF Refunds
    <3>2. Report(f) \in [of: Refund \cup {None}, status: RefundStatus] /\ "recording" \in Step
      BY <1>1, <3>1, Words DEF Step, Locking
    <3>3. f \in Refund /\ work'[p].at = "recording" /\ work'[p].saw = Report(f)
      BY <1>1, <2>3, <3>1, <3>2, Moved
    <3>4. Report(f).of = f /\ Report(f).status = refund[f] /\ refund[f] # "none"
      BY <1>1, <3>3, Words DEF Refunds
    <3>5. Knows(p)'
      BY <1>6, <2>1, <3>3, <3>4 DEF FindRefund, Knows, At, Later
    <3> QED
      BY <1>1, <1>6, <2>3, <3>3, <3>5, Words, PassGoto DEF FindRefund, Step, Locking
  <2> QED
    BY <1>6, <2>2, <2>3 DEF FindRefund
<1>7. CASE GiveUp(p)
  <2>1. Goto(p, "idle", None, Nothing)
    BY <1>7 DEF GiveUp, Finish
  <2>2. work'[p].at = "idle"
    BY <1>1, <2>1, Words, Moved DEF Step
  <2>3. Knows(p)'
    BY <2>2 DEF Knows, At
  <2> QED
    BY <1>7, <2>1, <2>3, Words, PassGoto DEF GiveUp, Step, Locking
<1> QED
  BY <1>2, <1>3, <1>4, <1>5, <1>6, <1>7

LEMMA TimePassesKeeps ==
  ASSUME PassInv, TimePasses
  PROVE  PassInv'
BY DEF PassInv, TimePasses, TypeOK, OneLock, RowTells, RefundTells, SessionTells, FreeAccess,
       ExpiredIsUnpayable, Knows, At, Refunds, Synced

\* A process that ends with a new row.
LEMMA RowWritten ==
  ASSUME PassInv, NEW p \in Process, Finish(p), row' \in Row, event' \subseteq event,
         UNCHANGED <<desk, session, refund, phase>>,
         row.intent => row'.intent,
         row'.intent => row.intent \/ work[p].at \in Locking,
         event' = event \/ work[p].at \in Locking,
         FreeAccess' <=> FreeAccess, RowTells', SessionTells', Synced'
  PROVE  PassInv'
<1>1. Goto(p, "idle", None, Nothing) /\ TypeOK /\ OneLock
  BY DEF Finish, PassInv
<1>2. /\ work'[p].at = "idle" /\ \A q \in Process \ {p} : work'[q] = work[q]
      /\ work' \in [Process -> [at: Step, on: {"session", None} \cup Refund,
                                saw: [of: Refund \cup {None}, status: RefundStatus]]]
      /\ OneLock'
  BY <1>1, Words, Moved, LockKept DEF Step, Locking
<1>3. TypeOK'
  BY <1>1, <1>2 DEF TypeOK
<1>4. Knows(p)'
  BY <1>2 DEF Knows, At
<1>5. ASSUME NEW q \in Process \ {p} PROVE Knows(q)'
  <2>1. work'[q] = work[q]
    BY <1>2
  <2>2. /\ work[q].at \in {"issuing", "listed"} => (row'.intent => row.intent) /\ (desk' => desk)
        /\ work[q].at \in {"fetched", "recording"} => event \cap Refund \subseteq event'
    BY <1>1 DEF OneLock, Locking
  <2> QED
    BY <1>3, <2>1, <2>2, KnowsKept DEF Later
<1> QED
  BY <1>2, <1>3, <1>4, <1>5 DEF PassInv

\* One that leaves the refund, the payment and the pass on the row alone.
LEMMA RowTouched ==
  ASSUME PassInv, NEW p \in Process, NEW step \in {"idle", "requested"}, Goto(p, step, None, Nothing),
         step = "requested" => row.status = "paid",
         row' \in Row, row'.pass = row.pass, row'.intent = row.intent, row'.refund = row.refund,
         row'.refundStatus = row.refundStatus, row'.payment = row.payment,
         row'.status = row.status \/ (row.status = "pending" /\ row'.status = "expired" /\ session = "expired"),
         UNCHANGED <<desk, session, refund, event, phase>>
  PROVE  PassInv'
<1>1. TypeOK /\ OneLock
  BY DEF PassInv
<1>2. /\ work'[p].at = step /\ \A q \in Process \ {p} : work'[q] = work[q]
      /\ work' \in [Process -> [at: Step, on: {"session", None} \cup Refund,
                                saw: [of: Refund \cup {None}, status: RefundStatus]]]
      /\ OneLock'
  BY <1>1, Words, Moved, LockKept DEF Step, Locking
<1>3. TypeOK'
  BY <1>1, <1>2 DEF TypeOK
<1>4. RowTells' /\ SessionTells' /\ Synced'
  BY DEF PassInv, RowTells, RefundTells, SessionTells, FreeAccess, ExpiredIsUnpayable, Synced
<1>5. Knows(p)'
  BY <1>2 DEF Knows, At, PassInv, RowTells, FreeAccess
<1>6. ASSUME NEW q \in Process \ {p} PROVE Knows(q)'
  <2>1. work'[q] = work[q]
    BY <1>2
  <2> QED
    BY <1>3, <2>1, KnowsKept DEF FreeAccess, Later
<1> QED
  BY <1>2, <1>3, <1>4, <1>5, <1>6 DEF PassInv

\* What was fetched or made of a refund is written under the lock; its event
\* is done with if nothing came after.
LEMMA RefundWrittenDown ==
  ASSUME PassInv, NEW p \in Process, work[p].at \in {"fetched", "recording"},
         Finish(p), row' = WithRefund(row, work[p].saw), UNCHANGED <<desk, session, refund, phase>>,
         \/ event' = event
         \/ (event' = event \ {work[p].saw.of} /\ refund[work[p].saw.of] = work[p].saw.status)
  PROVE  PassInv'
<1>1. PICK told : told = work[p].saw
  OBVIOUS
<1>2. /\ row.intent /\ told.of \in Refund /\ told.status # "none" /\ Later(told.status, refund[told.of])
      /\ told.status = refund[told.of] \/ told.of \in event
  BY <1>1 DEF PassInv, Knows
<1>3. row \in Row /\ RefundTells(row) /\ told.status \in RefundStatus \ {"none"} /\ work[p].at \in Locking
  BY <1>1, <1>2 DEF PassInv, TypeOK, RowTells, Locking
<1>4. row' = WithRefund(row, told) /\ (event' = event \/ (event' = event \ {told.of} /\ refund[told.of] = told.status))
  BY <1>1
<1>5. /\ row' \in Row /\ row'.intent = row.intent /\ RefundTells(row')
      /\ row'.status \in {row.status, "cancelled"}
      /\ OneRefund /\ told.status = refund[told.of] => row'.refund = told.of /\ row'.refundStatus = told.status
  <2>1. PICK r \in Row : r = row
    BY <1>3
  <2>2. PICK c : c = row'
    OBVIOUS
  <2>3. RefundTells(r)
    BY <1>3, <2>1
  <2>4. c = WithRefund(r, told)
    BY <1>4, <2>1, <2>2
  <2>5. c \in Row /\ c.intent = r.intent /\ RefundTells(c) /\ c.status \in {r.status, "cancelled"}
    BY <1>2, <1>3, <2>3, <2>4, RefundRecorded
  <2>6. OneRefund /\ told.status = refund[told.of] => c.refund = told.of /\ c.refundStatus = told.status
    BY <1>2, <1>3, <2>3, <2>4, RefundRecorded
  <2> QED
    BY <2>1, <2>2, <2>5, <2>6 DEF RefundTells
<1>6. RowTells'
  BY <1>2, <1>5 DEF RowTells, RefundTells
<1>7. ~ FreeAccess /\ ~ FreeAccess'
  BY <1>2, <1>3, <1>5 DEF FreeAccess, RefundTells
<1>8. SessionTells'
  BY <1>2, <1>4, <1>5, <1>7 DEF PassInv, SessionTells, ExpiredIsUnpayable
<1>9. Synced'
  <2>1. ASSUME OneRefund, told.of \notin event' PROVE row'.refund = told.of /\ row'.refundStatus = refund[told.of]
    BY <1>2, <1>4, <1>5, <2>1
  <2> QED
    BY <1>2, <2>1 DEF Synced, OneRefund
<1> QED
  BY <1>2, <1>3, <1>4, <1>5, <1>6, <1>7, <1>8, <1>9, RowWritten

\* Stripe and its operator.
LEMMA StripeKeeps ==
  ASSUME PassInv, Stripe
  PROVE  PassInv'
<1>1. TypeOK
  BY DEF PassInv
<1>2. CASE Pay \/ Expire
  <2>1. /\ session = "open" /\ session' \in {"complete", "expired"} /\ event' = event \cup {"session"}
        /\ UNCHANGED <<row, desk, refund, phase, work>>
    BY <1>2 DEF Pay, Expire
  <2>2. TypeOK'
    BY <1>1, <2>1 DEF TypeOK
  <2>3. OneLock' /\ RowTells' /\ SessionTells' /\ Synced'
    BY <2>1, Names DEF PassInv, OneLock, RowTells, RefundTells, SessionTells, FreeAccess, ExpiredIsUnpayable, Synced
  <2>4. ASSUME NEW p \in Process PROVE Knows(p)'
    BY <2>1, <2>2, KnowsKept DEF FreeAccess, Later
  <2> QED
    BY <2>2, <2>3, <2>4 DEF PassInv
<1>3. CASE TimePasses
  BY <1>3, TimePassesKeeps
<1>4. ASSUME NEW f \in Refund, RefundAtDashboard(f) \/ RefundMoves(f) PROVE PassInv'
  <2>1. PICK s \in RefundStatus : refund' = [refund EXCEPT ![f] = s] /\ s # "none" /\ Later(refund[f], s)
    BY <1>4 DEF RefundAtDashboard, RefundMoves, RefundStatus, Later
  <2>2. event' = event \cup {f} /\ UNCHANGED <<row, desk, session, phase, work>> /\ Undisturbed
    BY <1>4 DEF RefundAtDashboard, RefundMoves
  <2>3. /\ \A g \in Refund : refund[g] \in RefundStatus /\ refund'[g] \in RefundStatus
        /\ \A g \in Refund : Later(refund[g], refund'[g]) /\ (refund'[g] = refund[g] \/ g \in event')
        /\ refund'[f] # "none" /\ \A g \in Refund \ {f} : refund'[g] = refund[g]
    BY <1>1, <2>1, <2>2 DEF TypeOK, Later
  <2>4. TypeOK'
    BY <1>1, <2>1, <2>2 DEF TypeOK
  <2>5. OneLock' /\ SessionTells'
    BY <2>2, <2>3, Names DEF PassInv, OneLock, SessionTells, FreeAccess, ExpiredIsUnpayable
  <2>6. RowTells'
    <3>1. ASSUME row.intent PROVE RefundTells(row)'
      <4>1. RefundTells(row) /\ row.refundStatus \in RefundStatus /\ row.refund \in Refund \cup {None}
        BY <1>1, <3>1 DEF PassInv, RowTells, TypeOK, Row
      <4>2. row.refund # None => Later(row.refundStatus, refund'[row.refund])
        BY <2>3, <4>1, LaterStill DEF RefundTells
      <4> QED
        BY <2>2, <4>1, <4>2 DEF RefundTells
    <3> QED
      BY <2>2, <3>1 DEF PassInv, RowTells
  <2>7. Synced'
    BY <2>2, <2>3 DEF PassInv, Synced
  <2>8. ASSUME NEW p \in Process PROVE Knows(p)'
    <3>1. Dashboard = "apart" => ~ At(p, "listed")
      BY <2>2 DEF Undisturbed, PassInv, Knows
    <3> QED
      BY <2>2, <2>3, <2>4, <3>1, KnowsKept DEF FreeAccess
  <2> QED
    BY <2>4, <2>5, <2>6, <2>7, <2>8 DEF PassInv
<1> QED
  BY <1>2, <1>3, <1>4 DEF Stripe

\* Staff.
LEMMA DeskKeeps ==
  ASSUME PassInv, Desk
  PROVE  PassInv'
<1>1. TypeOK
  BY DEF PassInv
<1>2. CASE IssueAtDesk \/ RevokeDesk \/ CancelManual
  <2>1. /\ desk' \in BOOLEAN /\ UNCHANGED <<row, session, refund, event, phase, work>>
        /\ Free \/ ~ desk'
    BY <1>2 DEF IssueAtDesk, RevokeDesk, CancelManual
  <2>2. TypeOK'
    BY <1>1, <2>1 DEF TypeOK
  <2>3. OneLock' /\ RowTells' /\ SessionTells' /\ Synced'
    BY <2>1 DEF PassInv, OneLock, RowTells, RefundTells, SessionTells, FreeAccess, ExpiredIsUnpayable, Synced
  <2>4. ASSUME NEW p \in Process PROVE Knows(p)'
    <3>1. work[p].at \in {"issuing", "listed"} => ~ desk'
      BY <2>1 DEF Free, Locking
    <3> QED
      BY <2>1, <2>2, <3>1, KnowsKept DEF FreeAccess, Later
  <2> QED
    BY <2>2, <2>3, <2>4 DEF PassInv
<1>3. ASSUME NEW s \in {"active", "suspended", "revoked"}, SetPass(s) PROVE PassInv'
  <2>1. /\ row' = [row EXCEPT !.pass = s] /\ row.pass # "none" /\ s \in PassStatus /\ row \in Row
        /\ UNCHANGED <<desk, session, refund, event, phase, work>>
    BY <1>1, <1>3 DEF SetPass, PassStatus, TypeOK
  <2>2. /\ row' \in Row /\ row'.status = row.status /\ row'.intent = row.intent /\ row'.refund = row.refund
        /\ row'.refundStatus = row.refundStatus /\ row'.payment = row.payment
    BY <2>1, PassWritten
  <2>3. TypeOK'
    BY <1>1, <2>1, <2>2 DEF TypeOK
  <2>4. OneLock' /\ RowTells' /\ SessionTells' /\ Synced'
    BY <2>1, <2>2 DEF PassInv, OneLock, RowTells, RefundTells, SessionTells, FreeAccess, ExpiredIsUnpayable, Synced
  <2>5. ASSUME NEW p \in Process PROVE Knows(p)'
    BY <2>1, <2>2, <2>3, KnowsKept DEF FreeAccess, Later
  <2> QED
    BY <2>3, <2>4, <2>5 DEF PassInv
<1> QED
  BY <1>2, <1>3 DEF Desk

\* The rest of checkout.
LEMMA CheckoutKeeps ==
  ASSUME PassInv, NEW p \in Caller, Checkout(p)
  PROVE  PassInv'
<1>1. TypeOK /\ p \in Process /\ Knows(p)
  BY DEF PassInv, Process
<1>2. CASE StartCheckout(p)
  BY <1>1, <1>2, Walks
<1>3. CASE CreateSession(p)
  <2>1. Goto(p, "saving", None, Nothing) /\ UNCHANGED <<row, desk, refund, event, phase>>
    BY <1>3 DEF CreateSession
  <2>2. ~ FreeAccess /\ session' \in {session, "open"} /\ (session' = session \/ session = "none")
    BY <1>1, <1>3 DEF CreateSession, Knows
  <2>3. /\ work'[p].at = "saving" /\ \A q \in Process \ {p} : work'[q] = work[q]
        /\ OneLock' /\ work' \in [Process -> [at: Step, on: {"session", None} \cup Refund,
                                              saw: [of: Refund \cup {None}, status: RefundStatus]]]
    BY <1>1, <2>1, Words, Moved, LockKept DEF Step, Locking, PassInv
  <2>4. TypeOK'
    BY <1>1, <2>1, <2>2, <2>3 DEF TypeOK
  <2>5. RowTells' /\ SessionTells' /\ Synced'
    BY <2>1, <2>2 DEF PassInv, RowTells, RefundTells, SessionTells, FreeAccess, ExpiredIsUnpayable, Synced
  <2>6. Knows(p)'
    BY <2>3 DEF Knows, At
  <2>7. ASSUME NEW q \in Process \ {p} PROVE Knows(q)'
    <3>1. work'[q] = work[q]
      BY <2>3
    <3> QED
      BY <2>1, <2>2, <2>4, <3>1, KnowsKept DEF FreeAccess, Later
  <2> QED
    BY <2>3, <2>4, <2>5, <2>6, <2>7 DEF PassInv
<1>4. CASE SaveSession(p)
  <2>1. Goto(p, "idle", None, Nothing) /\ UNCHANGED <<desk, session, refund, event, phase>> /\ row \in Row
    BY <1>1, <1>4 DEF SaveSession, Finish, TypeOK
  <2>2. CASE row' = [row EXCEPT !.saved = TRUE]
    BY <1>1, <2>1, <2>2, SavedWritten, RowTouched
  <2>3. CASE /\ session = "expired"
             /\ row' = [row EXCEPT !.saved = TRUE, !.status = IF @ = "pending" THEN "expired" ELSE @]
    <3> DEFINE saved == [row EXCEPT !.saved = TRUE]
               s == IF row.status = "pending" THEN "expired" ELSE row.status
    <3>1. row' = [saved EXCEPT !.status = s] /\ s \in {"pending", "paid", "expired", "cancelled"}
      BY <2>1, <2>3 DEF Row
    <3>2. /\ saved \in Row /\ saved.status = row.status /\ saved.pass = row.pass /\ saved.intent = row.intent
          /\ saved.refund = row.refund /\ saved.refundStatus = row.refundStatus /\ saved.payment = row.payment
      BY <2>1, SavedWritten
    <3> HIDE DEF saved
    <3>3. /\ row' \in Row /\ row'.status = s /\ row'.pass = row.pass /\ row'.intent = row.intent
          /\ row'.refund = row.refund /\ row'.refundStatus = row.refundStatus /\ row'.payment = row.payment
      BY <3>1, <3>2, StatusWritten
    <3> QED
      BY <1>1, <2>1, <2>3, <3>3, RowTouched
  <2> QED
    BY <1>4, <2>2, <2>3 DEF SaveSession
<1> QED
  BY <1>2, <1>3, <1>4 DEF Checkout

\* Webhook deliveries.
LEMMA DeliveryKeeps ==
  ASSUME PassInv, NEW p \in Delivery, Deliver(p)
  PROVE  PassInv'
<1>1. TypeOK /\ p \in Process /\ Knows(p) /\ RowTells /\ row \in Row
  BY DEF PassInv, Process, TypeOK
<1>2. CASE CommitIssue(p)
  <2> DEFINE issued == Issued(row)
             saw == work[p].saw
  <2>1. /\ Finish(p) /\ event' = event \ {"session"} /\ UNCHANGED <<desk, session, refund, phase>>
        /\ row' = IF saw = Nothing THEN issued ELSE WithRefund(issued, saw)
        /\ work[p].at \in Locking
    BY <1>2 DEF CommitIssue, At, Locking
  <2>2. /\ ~ row.intent /\ session = "complete" /\ ~ FreeAccess
        /\ saw # Nothing => saw.of \in Refund /\ saw.status # "none" /\ Later(saw.status, refund[saw.of])
        /\ Dashboard = "apart" => IF saw = Nothing THEN Refunds = {} ELSE saw.status = refund[saw.of]
    BY <1>1, <1>2 DEF CommitIssue, Knows, At, PassInv, SessionTells
  <2>3. /\ issued \in Row /\ issued.status = "paid" /\ issued.intent = TRUE
        /\ issued.refund = None /\ issued.refundStatus = "none" /\ issued.payment = "paid"
    BY <1>1, <2>2, IssuedRow DEF RowTells
  <2> HIDE DEF issued
  <2>4. RefundTells(issued)
    BY <2>3 DEF RefundTells
  <2>5. /\ row' \in Row /\ row'.intent = TRUE /\ RefundTells(row') /\ row'.status \in {"paid", "cancelled"}
        /\ OneRefund /\ Dashboard = "apart" =>
             \A f \in Refunds : row'.refund = f /\ row'.refundStatus = refund[f]
    <3>1. CASE saw = Nothing
      BY <2>1, <2>2, <2>3, <2>4, <3>1
    <3>2. CASE saw # Nothing
      <4>1. saw.of \in Refund /\ saw.status \in RefundStatus \ {"none"} /\ Later(saw.status, refund[saw.of])
        BY <1>1, <2>2, <3>2 DEF Refunds, TypeOK, Later
      <4>2. row' = WithRefund(issued, saw)
        BY <2>1, <3>2
      <4>3. /\ row' \in Row /\ row'.intent = issued.intent /\ RefundTells(row')
            /\ row'.status \in {issued.status, "cancelled"}
            /\ OneRefund /\ saw.status = refund[saw.of] => row'.refund = saw.of /\ row'.refundStatus = saw.status
        BY <2>3, <2>4, <4>1, <4>2, RefundRecorded
      <4> QED
        BY <2>2, <2>3, <3>2, <4>1, <4>3 DEF Refunds, OneRefund
    <3> QED
      BY <3>1, <3>2
  <2>6. RowTells' /\ ~ FreeAccess' /\ SessionTells' /\ Synced'
    BY <2>1, <2>2, <2>5 DEF RowTells, RefundTells, FreeAccess, PassInv, SessionTells, ExpiredIsUnpayable, Synced, Refunds
  <2> QED
    BY <1>1, <2>1, <2>2, <2>5, <2>6, RowWritten
<1>3. CASE ApplyRefundEvent(p)
  <2>1. /\ Finish(p) /\ row' = WithRefund(row, work[p].saw) /\ UNCHANGED <<desk, session, refund, phase>>
        /\ event' = IF refund[work[p].on] = work[p].saw.status THEN event \ {work[p].on} ELSE event
        /\ At(p, "fetched")
    BY <1>3 DEF ApplyRefundEvent
  <2> QED
    BY <1>1, <2>1, RefundWrittenDown DEF Knows, At, Locking
<1> QED
  BY <1>1, <1>2, <1>3, Walks DEF Deliver

\* Cancellations.
LEMMA CancelKeeps ==
  ASSUME PassInv, NEW p \in Canceller, Cancel(p)
  PROVE  PassInv'
<1>1. TypeOK /\ p \in Process /\ Knows(p) /\ RowTells /\ SessionTells /\ row \in Row
  BY DEF PassInv, Process, TypeOK
<1>2. CASE Request(p)
  <2>1. UNCHANGED <<desk, session, refund, event, phase>>
    BY <1>2 DEF Request
  <2>2. CASE Goto(p, "ending", None, Nothing) /\ UNCHANGED row
    <3>1. work'[p].at = "ending"
      BY <1>1, <2>2, Words, Moved DEF Step
    <3>2. Knows(p)'
      BY <3>1 DEF Knows, At
    <3> QED
      BY <1>1, <2>1, <2>2, <3>2, Words, PassGoto DEF Step, Locking
  <2>3. CASE row.status = "paid" /\ row' = [row EXCEPT !.requested = TRUE] /\ Goto(p, "requested", None, Nothing)
    BY <1>1, <2>1, <2>3, RequestedWritten, RowTouched
  <2> QED
    BY <1>2, <2>2, <2>3 DEF Request
<1>3. CASE ExpireSession(p)
  <2>1. /\ session' \in {session, "expired"} /\ (session' # session => session = "open")
        /\ event' \in {event, event \cup {"session"}} /\ (session' = session => event' = event)
        /\ UNCHANGED <<row, desk, refund, phase>>
    BY <1>3 DEF ExpireSession
  <2>2. PICK step \in {"idle", "ended"} : Goto(p, step, None, Nothing) /\ (step = "ended" => session' = "expired")
    BY <1>3 DEF ExpireSession, Finish
  <2>3. /\ work'[p].at = step /\ \A q \in Process \ {p} : work'[q] = work[q]
        /\ OneLock' /\ work' \in [Process -> [at: Step, on: {"session", None} \cup Refund,
                                              saw: [of: Refund \cup {None}, status: RefundStatus]]]
    BY <1>1, <2>2, Words, Moved, LockKept DEF Step, Locking, PassInv
  <2>4. TypeOK'
    BY <1>1, <2>1, <2>3 DEF TypeOK
  <2>5. RowTells' /\ SessionTells' /\ Synced'
    BY <2>1, Names DEF PassInv, RowTells, RefundTells, SessionTells, FreeAccess, ExpiredIsUnpayable, Synced
  <2>6. Knows(p)'
    BY <2>2, <2>3 DEF Knows, At
  <2>7. ASSUME NEW q \in Process \ {p} PROVE Knows(q)'
    <3>1. work'[q] = work[q]
      BY <2>3
    <3> QED
      BY <2>1, <2>4, <3>1, KnowsKept DEF FreeAccess, Later
  <2> QED
    BY <2>3, <2>4, <2>5, <2>6, <2>7 DEF PassInv
<1>4. CASE MarkExpired(p)
  <2>1. /\ Goto(p, "idle", None, Nothing) /\ UNCHANGED <<desk, session, refund, event, phase>>
        /\ session = "expired"
    BY <1>1, <1>4 DEF MarkExpired, Finish, Knows
  <2>2. CASE row' = row
    BY <1>1, <2>1, <2>2, RowTouched
  <2>3. CASE row.status = "pending" /\ row' = [row EXCEPT !.status = "expired", !.requested = FALSE]
    <3> DEFINE no == FALSE
               over == [row EXCEPT !.status = "expired"]
    <3>1. row' = [over EXCEPT !.requested = no] /\ no \in BOOLEAN
      BY <2>3
    <3>2. /\ over \in Row /\ over.status = "expired" /\ over.pass = row.pass /\ over.intent = row.intent
          /\ over.refund = row.refund /\ over.refundStatus = row.refundStatus /\ over.payment = row.payment
      BY <1>1, StatusWritten
    <3> HIDE DEF no, over
    <3>3. /\ row' \in Row /\ row'.status = "expired" /\ row'.pass = row.pass /\ row'.intent = row.intent
          /\ row'.refund = row.refund /\ row'.refundStatus = row.refundStatus /\ row'.payment = row.payment
      BY <3>1, <3>2, RequestedWritten
    <3> QED
      BY <1>1, <2>1, <2>3, <3>3, RowTouched
  <2> QED
    BY <1>4, <2>2, <2>3 DEF MarkExpired
<1>5. CASE CancelFree(p)
  <2>1. Finish(p) /\ FreeAccess /\ row' = Cancelled(row) /\ UNCHANGED <<desk, session, refund, event, phase>>
    BY <1>5 DEF CancelFree
  <2>2. /\ row' \in Row /\ row'.status = "cancelled" /\ row'.intent = row.intent
        /\ row'.refund = row.refund /\ row'.refundStatus = row.refundStatus /\ row'.payment = row.payment
    BY <1>1, <2>1, CancelledRow
  <2>3. RowTells' /\ FreeAccess' /\ SessionTells' /\ Synced'
    BY <2>1, <2>2 DEF RowTells, RefundTells, FreeAccess, PassInv, SessionTells, ExpiredIsUnpayable, Synced
  <2> QED
    BY <1>1, <2>1, <2>2, <2>3, RowWritten
<1>6. CASE FindRefund(p)
  BY <1>1, <1>6, Walks
<1>7. ASSUME NEW f \in Refund, CreateRefund(p, f) PROVE PassInv'
  <2>1. PICK s \in {"pending", "succeeded"} :
          refund' = [refund EXCEPT ![f] = s] /\ Goto(p, "recording", None, [of |-> f, status |-> s])
    BY <1>7 DEF CreateRefund
  <2> DEFINE told == [of |-> f, status |-> s]
  <2>2. told \in [of: Refund \cup {None}, status: RefundStatus] /\ told.of = f /\ told.status = s
    BY <2>1 DEF RefundStatus
  <2>3. /\ event' = event \cup {f} /\ refund[f] = "none" /\ At(p, "refunding") /\ row.intent
        /\ UNCHANGED <<row, desk, session, phase>>
    BY <1>1, <1>7 DEF CreateRefund, Knows
  <2>4. Goto(p, "recording", None, told)
    BY <2>1
  <2> HIDE DEF told
  <2>5. /\ work'[p].at = "recording" /\ work'[p].saw = told /\ \A q \in Process \ {p} : work'[q] = work[q]
        /\ work' \in [Process -> [at: Step, on: {"session", None} \cup Refund,
                                  saw: [of: Refund \cup {None}, status: RefundStatus]]]
    BY <1>1, <2>2, <2>4, Moved DEF Step, Locking
  <2>6. OneLock'
    BY <1>1, <2>2, <2>3, <2>4, LockKept DEF Step, Locking, At, PassInv
  <2>7. /\ \A g \in Refund : refund[g] \in RefundStatus /\ refund'[g] \in RefundStatus
        /\ \A g \in Refund : Later(refund[g], refund'[g]) /\ (refund'[g] = refund[g] \/ g \in event')
        /\ refund'[f] = s /\ \A g \in Refund \ {f} : refund'[g] = refund[g]
    BY <1>1, <2>1, <2>3 DEF TypeOK, Later, RefundStatus
  <2>8. TypeOK'
    BY <1>1, <2>1, <2>3, <2>5 DEF TypeOK, RefundStatus
  <2>9. RowTells'
    <3>1. RefundTells(row) /\ row.refundStatus \in RefundStatus /\ row.refund \in Refund \cup {None}
      BY <1>1, <2>3 DEF RowTells, Row
    <3>2. row.refund # None => Later(row.refundStatus, refund'[row.refund])
      BY <2>7, <3>1, LaterStill DEF RefundTells
    <3> QED
      BY <2>3, <3>1, <3>2 DEF RefundTells, RowTells
  <2>10. SessionTells' /\ Synced'
    BY <2>1, <2>3, <2>7, Names DEF PassInv, SessionTells, FreeAccess, ExpiredIsUnpayable, Synced
  <2>11. Knows(p)'
    BY <2>1, <2>2, <2>3, <2>5, <2>7 DEF Knows, At, Later
  <2>12. ASSUME NEW q \in Process \ {p} PROVE Knows(q)'
    <3>1. work'[q] = work[q]
      BY <2>5
    <3>2. OneLock /\ q \in Process /\ q # p /\ work[p].at = "refunding"
      BY <2>3 DEF PassInv, At
    <3>3. ~ At(q, "listed")
      BY <1>1, <3>2 DEF OneLock, At, Locking
    <3> QED
      BY <2>3, <2>7, <2>8, <3>1, <3>3, KnowsKept DEF FreeAccess
  <2> QED
    BY <2>6, <2>8, <2>9, <2>10, <2>11, <2>12 DEF PassInv
<1>8. CASE RecordRefund(p)
  <2>1. /\ Finish(p) /\ row' = WithRefund(row, work[p].saw) /\ UNCHANGED <<desk, session, refund, event, phase>>
        /\ At(p, "recording")
    BY <1>8 DEF RecordRefund
  <2> QED
    BY <1>1, <2>1, RefundWrittenDown DEF Knows, At, Locking
<1> QED
  BY <1>2, <1>3, <1>4, <1>5, <1>6, <1>7, <1>8 DEF Cancel

\* The events that are delivered in one go.
LEMMA OtherEventsKeep ==
  ASSUME PassInv, DeliverExpiry \/ \E f \in Refund : DropRefundEvent(f)
  PROVE  PassInv'
<1>1. TypeOK /\ row \in Row
  BY DEF PassInv, TypeOK
<1>2. CASE DeliverExpiry
  <2>1. /\ session = "expired" /\ event' = event \ {"session"} /\ UNCHANGED <<desk, session, refund, phase, work>>
        /\ row' = IF row.status = "pending" THEN [row EXCEPT !.status = "expired"] ELSE row
    BY <1>2 DEF DeliverExpiry
  <2>2. /\ row' \in Row /\ row'.pass = row.pass /\ row'.intent = row.intent /\ row'.refund = row.refund
        /\ row'.refundStatus = row.refundStatus /\ row'.payment = row.payment
        /\ row'.status = IF row.status = "pending" THEN "expired" ELSE row.status
    BY <1>1, <2>1, StatusWritten
  <2>3. TypeOK'
    BY <1>1, <2>1, <2>2 DEF TypeOK
  <2>4. OneLock' /\ RowTells' /\ SessionTells' /\ Synced'
    BY <2>1, <2>2, Names
    DEF PassInv, OneLock, RowTells, RefundTells, SessionTells, FreeAccess, ExpiredIsUnpayable, Synced
  <2>5. ASSUME NEW p \in Process PROVE Knows(p)'
    BY <2>1, <2>2, <2>3, Names, KnowsKept DEF FreeAccess, Later
  <2> QED
    BY <2>3, <2>4, <2>5 DEF PassInv
<1>3. ASSUME NEW f \in Refund, DropRefundEvent(f) PROVE PassInv'
  <2>1. ~ row.intent /\ event' = event \ {f} /\ UNCHANGED <<row, desk, session, refund, phase, work>>
    BY <1>3 DEF DropRefundEvent
  <2>2. TypeOK'
    BY <1>1, <2>1 DEF TypeOK
  <2>3. OneLock' /\ RowTells' /\ SessionTells' /\ Synced'
    BY <2>1 DEF PassInv, OneLock, RowTells, RefundTells, SessionTells, FreeAccess, ExpiredIsUnpayable, Synced
  <2>4. ASSUME NEW p \in Process PROVE Knows(p)'
    <3>1. work[p].at \notin {"fetched", "recording"}
      BY <2>1 DEF PassInv, Knows
    <3> QED
      BY <2>1, <2>2, <3>1, KnowsKept DEF FreeAccess, Later
  <2> QED
    BY <2>2, <2>3, <2>4 DEF PassInv
<1> QED
  BY <1>2, <1>3

-----------------------------------------------------------------------------
(* The theorems.                                                           *)

LEMMA PassInit == Init => PassInv
<1> SUFFICES ASSUME Init PROVE PassInv
  OBVIOUS
<1>1. row = Start("none") \/ row = Start("waived")
  BY DEF Init
<1>2. /\ row \in Row /\ ~ row.intent /\ row.refund = None /\ row.refundStatus = "none"
      /\ row.payment \in {"none", "waived"}
      /\ row.payment = "none" => row.pass = "none" /\ row.status = "pending"
      /\ row.payment = "waived" => row.status = "paid"
      /\ row.status # "expired"
  <2>1. ASSUME NEW paid \in {"none", "waived"}, row = Start(paid)
        PROVE  /\ row \in Row /\ row.refund = None /\ row.refundStatus = "none" /\ row.payment = paid
               /\ row.pass = (IF paid = "waived" THEN "active" ELSE "none")
               /\ row.status = (IF paid = "waived" THEN "paid" ELSE "pending")
    BY <2>1 DEF Start, Row, PassStatus, RefundStatus
  <2>2. ~ row.intent
    <3>1. row.intent = FALSE
      BY <1>1 DEF Start
    <3> QED
      BY <3>1
  <2> QED
    BY <1>1, <2>1, <2>2
<1>3. TypeOK
  BY <1>2, Words DEF Init, TypeOK, Step, RefundStatus
<1>4. \A p \in Process : work[p].at = "idle"
  BY DEF Init
<1>5. OneLock /\ \A p \in Process : Knows(p)
  BY <1>4 DEF OneLock, Locking, Knows, At
<1>6. RowTells /\ SessionTells /\ Synced
  BY <1>2 DEF Init, RowTells, SessionTells, FreeAccess, ExpiredIsUnpayable, Synced
<1> QED
  BY <1>3, <1>5, <1>6 DEF PassInv

LEMMA PassNext == PassInv /\ [Next]_vars => PassInv'
<1> SUFFICES ASSUME PassInv, [Next]_vars PROVE PassInv'
  OBVIOUS
<1>1. CASE UNCHANGED vars
  BY <1>1 DEF vars, PassInv, TypeOK, OneLock, RowTells, RefundTells, SessionTells, FreeAccess,
              ExpiredIsUnpayable, Knows, At, Refunds, Synced
<1>2. ASSUME NEW p \in Process, GiveUp(p) PROVE PassInv'
  BY <1>2, Walks
<1> QED
  BY <1>1, <1>2, StripeKeeps, DeskKeeps, OtherEventsKeep, CheckoutKeeps, DeliveryKeeps, CancelKeeps DEF Next

\* Checkout, webhook and cancellation keep the inductive invariant, however
\* many of them overlap and whoever refunds the payment.
THEOREM PassesConsistent == Spec => []PassInv
BY PassInit, PassNext, PTL DEF Spec

\* Where the payment is refunded at most once, and not while an issuing webhook
\* is between refunds.list and its commit, the checkout's row agrees with
\* Stripe: expired only when the session is over, and, with nothing under way
\* and no event left, refunded if and only if Stripe refunded the payment.
THEOREM PassesAgree ==
  ASSUME OneRefund, Dashboard = "apart"
  PROVE  Spec => []CheckoutAgrees
<1>1. PassInv => CheckoutAgrees
  <2> SUFFICES ASSUME PassInv PROVE CheckoutAgrees
    OBVIOUS
  <2>1. TypeOK /\ ExpiredIsUnpayable
    BY DEF PassInv, SessionTells
  <2>2. ASSUME Quiet, row.intent
        PROVE  row.payment = "refunded" <=> \E f \in Refund : refund[f] = "succeeded"
    <3>1. /\ row.refund \in Refund \cup {None} /\ row.refundStatus \in RefundStatus /\ RefundTells(row)
          /\ \A f \in Refund : refund[f] # "none" => row.refund = f /\ row.refundStatus = refund[f]
      BY <2>1, <2>2 DEF PassInv, TypeOK, Row, RowTells, Synced, Quiet
    <3>2. row.payment = "refunded" <=> row.refundStatus = "succeeded"
      BY <3>1 DEF RefundTells
    <3>3. ASSUME row.refundStatus = "succeeded" PROVE \E f \in Refund : refund[f] = "succeeded"
      <4>1. row.refund \in Refund /\ Later("succeeded", refund[row.refund])
        BY <3>1, <3>3 DEF RefundTells
      <4> QED
        BY <3>1, <3>3, <4>1 DEF Later
    <3> QED
      BY <3>1, <3>2, <3>3
  <2> QED
    BY <2>1, <2>2 DEF CheckoutAgrees, LedgerSettles
<1> QED
  BY <1>1, PassesConsistent, PTL

-----------------------------------------------------------------------------
(* Which pass can be used.                                                 *)

\* What most steps do to the pass.
PassLeft == row'.pass \in {row.pass, "cancelled"} /\ (desk' => desk)

Decided ==
  /\ row.pass \in {"cancelled", "revoked"} /\ row'.pass = "active" => \E s \in PassStatus : SetPass(s)
  /\ desk' /\ row'.pass = "active" => (desk /\ row.pass = "active") \/ \E s \in PassStatus : SetPass(s)

LEMMA StepDecides ==
  ASSUME PassInv, [Next]_vars
  PROVE  Decided
<1>1. TypeOK /\ row \in Row /\ \A p \in Process : Knows(p)
  BY DEF PassInv, TypeOK
<1>2. PassLeft => Decided
  BY DEF PassLeft, Decided
<1>3. CASE UNCHANGED vars \/ Stripe \/ RevokeDesk \/ CancelManual \/ \E f \in Refund : DropRefundEvent(f)
  BY <1>2, <1>3 DEF vars, Stripe, Pay, Expire, TimePasses, RefundAtDashboard, RefundMoves, RevokeDesk,
                    CancelManual, DropRefundEvent, PassLeft
<1>4. CASE IssueAtDesk
  BY <1>4 DEF IssueAtDesk, Decided
<1>5. ASSUME NEW s \in {"active", "suspended", "revoked"}, SetPass(s) PROVE Decided
  BY <1>5 DEF Decided, PassStatus
<1>6. CASE DeliverExpiry
  <2>1. row'.pass = row.pass /\ desk' = desk
    BY <1>1, <1>6, StatusWritten DEF DeliverExpiry
  <2> QED
    BY <1>2, <2>1 DEF PassLeft
<1>7. ASSUME NEW p \in Process, NEW f \in Refund, FetchRefund(p, f) \/ CreateRefund(p, f) PROVE Decided
  BY <1>2, <1>7 DEF FetchRefund, CreateRefund, PassLeft
<1>8. ASSUME NEW p \in Process,
             \/ StartCheckout(p) \/ CreateSession(p) \/ LockAndIssue(p) \/ ListRefunds(p)
             \/ ExpireSession(p) \/ FindRefund(p) \/ GiveUp(p)
      PROVE  Decided
  BY <1>2, <1>8 DEF StartCheckout, CreateSession, LockAndIssue, ListRefunds, ExpireSession, FindRefund, GiveUp,
                    PassLeft
<1>9. ASSUME NEW p \in Process, SaveSession(p) PROVE Decided
  <2>1. row'.pass = row.pass /\ desk' = desk
    BY <1>1, <1>9 DEF SaveSession, Row
  <2> QED
    BY <1>2, <2>1 DEF PassLeft
<1>10. ASSUME NEW p \in Process, CommitIssue(p) PROVE Decided
  <2>1. /\ ~ desk /\ UNCHANGED desk /\ ~ row.intent /\ session = "complete"
    BY <1>1, <1>10 DEF CommitIssue, Knows, At
  <2>2. row.pass = "none"
    BY <2>1 DEF PassInv, RowTells, SessionTells, FreeAccess
  <2> QED
    BY <2>1, <2>2 DEF Decided
<1>11. ASSUME NEW p \in Process, ApplyRefundEvent(p) \/ RecordRefund(p) PROVE Decided
  <2>1. row' = WithRefund(row, work[p].saw) /\ desk' = desk /\ work[p].at \in {"fetched", "recording"}
    BY <1>11 DEF ApplyRefundEvent, RecordRefund, At
  <2>2. work[p].saw.of \in Refund /\ work[p].saw.status \in RefundStatus
    BY <1>1, <2>1 DEF Knows, TypeOK
  <2>3. row'.pass \in {row.pass, "cancelled"}
    BY <1>1, <2>1, <2>2, WithRefundRow
  <2> QED
    BY <1>2, <2>1, <2>3 DEF PassLeft
<1>12. ASSUME NEW p \in Process, Request(p) \/ MarkExpired(p) PROVE Decided
  <2>1. row'.pass = row.pass /\ desk' = desk
    BY <1>1, <1>12 DEF Request, MarkExpired, Row
  <2> QED
    BY <1>2, <2>1 DEF PassLeft
<1>13. ASSUME NEW p \in Process, CancelFree(p) PROVE Decided
  <2>1. row'.pass = "cancelled" /\ desk' = desk
    BY <1>1, <1>13, CancelledRow DEF CancelFree
  <2> QED
    BY <1>2, <2>1 DEF PassLeft
<1> QED
  <2>1. ASSUME NEW p \in Caller, Checkout(p) PROVE Decided
    BY <1>8, <1>9, <2>1 DEF Checkout, Process
  <2>2. ASSUME NEW p \in Delivery, Deliver(p) PROVE Decided
    BY <1>7, <1>8, <1>10, <1>11, <2>2 DEF Deliver, Process
  <2>3. ASSUME NEW p \in Canceller, Cancel(p) PROVE Decided
    BY <1>7, <1>8, <1>11, <1>12, <1>13, <2>3 DEF Cancel, Process
  <2> QED
    BY <1>3, <1>4, <1>5, <1>6, <1>8, <2>1, <2>2, <2>3 DEF Next, Desk

\* No late refund and no old event gives a cancelled or revoked pass back, and
\* the desk and the webhook do not both issue one for the member and date.
THEOREM PassesStand == Spec => PassStands
<1>1. PassInv /\ [Next]_vars => [Decided]_vars
  BY StepDecides
<1> QED
  BY <1>1, PassesConsistent, PTL DEF Spec, PassStands, Decided
=============================================================================
