---------------------------- MODULE ChargesProofs ----------------------------
(***************************************************************************)
(* That memberships, rentals and fees are charged as they should be, for   *)
(* any number of processes, months, rentals, members, classes and keys:    *)
(* the inductive invariants of the suite's parts, and what follows of the  *)
(* suite.                                                                  *)
(*                                                                         *)
(* What Stripe decides of a payment stands, so that a process may act on   *)
(* what it was told; what the database decides stands as long as the lock  *)
(* is held under which it was read.                                        *)
(***************************************************************************)
EXTENDS MCCharges, FiniteSetTheorems, TLAPS

\* A refund moves on, and never back.
Follows(a, b) == a = b \/ a = "none" \/ (a = "pending" /\ b # "none") \/ (a = "succeeded" /\ b = "failed")

PaidEvents == {Ev("paid", m) : m \in Month}
RefundEvents == {Ev("refund", m) : m \in Month}
Holds(p, m) == work[p].at \in {"fetched", "recording"} /\ work[p].on.month = m

\* The bill exists once there is a session, and stays open to its subscription.
Billing ==
  /\ session # "none" => bill.status # "none" \/ bill.bound
  /\ bill.status \in {"none", "pending"} \/ bill.bound \/ session = "expired"
  /\ ExpiredIsUnpayable
  /\ Ev("expired", 0) \in event => session = "expired"
  /\ sub.status # "none" => session = "complete"

\* Months are invoiced as they come, and what is paid is issued or announced.
Invoices ==
  \A m \in Month :
    /\ invoice[m] # "none" => session = "complete" /\ m <= now
    /\ Ev("paid", m) \in event => invoice[m] = "paid"
    /\ invoice[m] = "paid" => card[m] # "none" \/ Ev("paid", m) \in event
    /\ card[m] # "none" => invoice[m] = "paid" /\ ledger[m].payment # "none"

\* What is noted of a refund is what it was, or is about to be told again.
RefundsNoted ==
  \A m \in Month :
    /\ card[m] = "none" => ledger[m].payment = "none" /\ ledger[m].noted = "none"
    /\ ledger[m].noted = "succeeded" <=> ledger[m].payment = "refunded"
    /\ Follows(ledger[m].noted, refund[m])
    /\ Ev("refund", m) \notin event => ledger[m].noted = refund[m]

\* What a process relies on.
ProcessRelies(p) ==
  LET m == work[p].on.month
  IN /\ At(p, "creating") => bill.status # "none" \/ bill.bound
     /\ At(p, "savingExpired") \/ At(p, "ended") => session = "expired"
     /\ At(p, "retrieved") => work[p].on = Ev("changed", 0) \/ work[p].on \in PaidEvents
     /\ At(p, "checked") => work[p].on \in PaidEvents /\ card[m] = "none" /\ ~ Covers(desk[m])
     /\ (At(p, "retrieved") \/ At(p, "checked")) /\ work[p].on \in PaidEvents => invoice[m] = "paid"
     /\ At(p, "fetched") => work[p].on \in RefundEvents
     /\ work[p].at \in {"fetched", "recording"} =>
          /\ m \in Month /\ card[m] # "none"
          /\ Follows(ledger[m].noted, work[p].refund) /\ Follows(work[p].refund, refund[m])

LocksApart ==
  \A p, q \in Process :
    p # q => /\ ~ (At(p, "checked") /\ At(q, "checked"))
             /\ \A m \in Month : ~ (Holds(p, m) /\ Holds(q, m))

MembershipInv ==
  /\ TypeOK /\ NoOverlap /\ Billing /\ Invoices /\ RefundsNoted /\ LocksApart
  /\ \A p \in Process : ProcessRelies(p)

-----------------------------------------------------------------------------

BillRow == [status: {"none", "pending", "active", "past_due", "canceled", "expired"}, saved: BOOLEAN,
            bound: BOOLEAN, effective: 0..MaxMonth + 1, confirmed: BOOLEAN]
LedgerRow == [payment: {"none", "paid", "refunded"}, noted: RefundStatus]
WorkSteps == {"idle", "creating", "saving", "savingExpired", "bound", "decided", "ending", "ended",
              "retrieved", "synced", "checked", "fetched", "recording"}
Subject == Event \cup {NoEvent, Ev("refunding", 0)} \cup [kind: {"refunding"}, month: Month]
Work == [at: WorkSteps, on: Subject, sub: Sub, refund: RefundStatus]

LEMMA MembershipTyped ==
  TypeOK <=> /\ bill \in BillRow
             /\ card \in [Month -> Access] /\ desk \in [Month -> Access]
             /\ ledger \in [Month -> LedgerRow]
             /\ session \in {"none", "open", "complete", "expired"}
             /\ sub \in Sub
             /\ invoice \in [Month -> {"none", "open", "paid"}]
             /\ refund \in [Month -> RefundStatus]
             /\ answer \in Sub
             /\ event \subseteq Event
             /\ now \in Month
             /\ work \in [Process -> Work]
BY DEF TypeOK, BillRow, LedgerRow, Work, WorkSteps, Subject

LEMMA EvSame ==
  ASSUME NEW a, NEW b, NEW m, NEW n
  PROVE  Ev(a, m) = Ev(b, n) <=> a = b /\ m = n
<1>1. Ev(a, m).kind = a /\ Ev(a, m).month = m /\ Ev(b, n).kind = b /\ Ev(b, n).month = n
  BY DEF Ev
<1> QED
  BY <1>1

LEMMA EvKinds ==
  /\ Ev("expired", 0) \in Event /\ Ev("changed", 0) \in Event
  /\ \A m \in Month : Ev("paid", m) \in Event /\ Ev("refund", m) \in Event /\ Ev("refunding", m) \in Subject
  /\ NoEvent \in Subject /\ Event \subseteq Subject
  /\ \A e \in Event : e.kind = "changed" => e = Ev("changed", 0)
  /\ \A e \in Event : e.kind = "paid" => e.month \in Month /\ e = Ev("paid", e.month)
<1>1. /\ Ev("expired", 0) \in Event /\ Ev("changed", 0) \in Event
      /\ \A m \in Month : Ev("paid", m) \in Event /\ Ev("refund", m) \in Event /\ Ev("refunding", m) \in Subject
  BY DEF Ev, Event, Subject
<1>2. NoEvent \in Subject /\ Event \subseteq Subject
  BY DEF Subject
<1>3. \A e \in Event : e.kind = "changed" => e = Ev("changed", 0)
  BY DEF Ev, Event
<1>4. \A e \in Event : e.kind = "paid" => e.month \in Month /\ e = Ev("paid", e.month)
  BY DEF Ev, Event
<1> QED
  BY <1>1, <1>2, <1>3, <1>4

LEMMA Months ==
  /\ MaxMonth \in Nat /\ 1 \in Month /\ Month \subseteq Nat
  /\ \A m \in Month : m \in Nat /\ m <= MaxMonth /\ m # 0
  /\ \A m \in Month : m < MaxMonth => m + 1 \in Month
  /\ \A m \in Month : m \in 0..MaxMonth + 1 /\ m + 1 \in 0..MaxMonth + 1
BY MonthsAssumption DEF Month

LEMMA FollowsOn ==
  ASSUME NEW a \in RefundStatus, NEW b \in RefundStatus, NEW c \in RefundStatus, Follows(a, b), Follows(b, c)
  PROVE  Follows(a, c)
BY DEF Follows, RefundStatus

LEMMA Subs == NoSub \in Sub /\ NoSub.status = "none" /\ NoSub.cancelAt = 0
BY Months DEF NoSub, Sub, SubStatus

\* A step of one process.
LEMMA WorkGoes ==
  ASSUME TypeOK, NEW p \in Process, NEW step \in WorkSteps, NEW on \in Subject, NEW s \in Sub, NEW r \in RefundStatus,
         Goto(p, step, on, s, r)
  PROVE  /\ work' \in [Process -> Work] /\ \A q \in Process \ {p} : work'[q] = work[q]
         /\ work'[p].at = step /\ work'[p].on = on /\ work'[p].sub = s /\ work'[p].refund = r
<1> DEFINE w == [at |-> step, on |-> on, sub |-> s, refund |-> r]
<1>1. w \in Work /\ w.at = step /\ w.on = on /\ w.sub = s /\ w.refund = r
  BY DEF Work
<1>2. work' = [work EXCEPT ![p] = w]
  BY DEF Goto
<1> HIDE DEF w
<1> QED
  BY <1>1, <1>2, MembershipTyped

LEMMA WorkMoves ==
  ASSUME TypeOK, NEW p \in Process, NEW step \in WorkSteps, Move(p, step)
  PROVE  /\ work' \in [Process -> Work] /\ \A q \in Process \ {p} : work'[q] = work[q]
         /\ work'[p].at = step
<1>1. "none" \in RefundStatus
  BY DEF RefundStatus
<1> QED
  BY <1>1, EvKinds, Subs, WorkGoes DEF Move

LEMMA WorkEnds ==
  ASSUME TypeOK, NEW p \in Process, Finish(p)
  PROVE  /\ work' \in [Process -> Work] /\ \A q \in Process \ {p} : work'[q] = work[q]
         /\ work'[p].at = "idle"
<1>1. "none" \in RefundStatus /\ "idle" \in WorkSteps
  BY DEF RefundStatus, WorkSteps
<1>2. Goto(p, "idle", NoEvent, NoSub, "none")
  BY DEF Finish, Goto, Idle
<1> QED
  BY <1>1, <1>2, EvKinds, Subs, WorkGoes

\* What another process relies on is left to it.
LEMMA ProcessReliesStays ==
  ASSUME MembershipInv, NEW q \in Process, work'[q] = work[q], TypeOK',
         bill.status # "none" \/ bill.bound => bill'.status # "none" \/ bill'.bound,
         session = "expired" => session' = "expired",
         \A m \in Month : invoice[m] = "paid" => invoice'[m] = "paid",
         \A m \in Month : card[m] # "none" => card'[m] # "none",
         At(q, "checked") => \A m \in Month : /\ card[m] = "none" => card'[m] = "none"
                                              /\ ~ Covers(desk[m]) => ~ Covers(desk'[m]),
         \A m \in Month : Follows(refund[m], refund'[m]),
         \A m \in Month : Holds(q, m) => ledger'[m].noted = ledger[m].noted
  PROVE  ProcessRelies(q)'
<1> DEFINE m == work[q].on.month
<1>1. ProcessRelies(q) /\ TypeOK
  BY DEF MembershipInv
<1>2. \A step : At(q, step)' <=> At(q, step)
  BY DEF At
<1>3. work[q].on \in PaidEvents => m \in Month
  BY EvSame DEF PaidEvents, Ev
<1>4. At(q, "checked")' => work[q].on \in PaidEvents /\ card'[m] = "none" /\ ~ Covers(desk'[m])
  BY <1>1, <1>2, <1>3 DEF ProcessRelies
<1>5. (At(q, "retrieved") \/ At(q, "checked"))' /\ work[q].on \in PaidEvents => invoice'[m] = "paid"
  BY <1>1, <1>2, <1>3 DEF ProcessRelies
<1>6. ASSUME work[q].at \in {"fetched", "recording"}
      PROVE  /\ m \in Month /\ card'[m] # "none"
             /\ Follows(ledger'[m].noted, work[q].refund) /\ Follows(work[q].refund, refund'[m])
  <2>1. /\ m \in Month /\ card[m] # "none"
        /\ Follows(ledger[m].noted, work[q].refund) /\ Follows(work[q].refund, refund[m])
    BY <1>1, <1>6 DEF ProcessRelies
  <2>2. ledger'[m].noted = ledger[m].noted
    BY <1>6, <2>1 DEF Holds
  <2>3. work[q].refund \in RefundStatus /\ refund[m] \in RefundStatus /\ refund'[m] \in RefundStatus
    BY <1>1, <2>1, MembershipTyped DEF Work, TypeOK
  <2>4. Follows(work[q].refund, refund'[m])
    BY <2>1, <2>3, FollowsOn
  <2> QED
    BY <2>1, <2>2, <2>4
<1>7. At(q, "creating")' => bill'.status # "none" \/ bill'.bound
  BY <1>1, <1>2 DEF ProcessRelies
<1>8. (At(q, "savingExpired") \/ At(q, "ended"))' => session' = "expired"
  BY <1>1, <1>2 DEF ProcessRelies
<1>9. At(q, "retrieved")' => work[q].on = Ev("changed", 0) \/ work[q].on \in PaidEvents
  BY <1>1, <1>2 DEF ProcessRelies
<1>10. At(q, "fetched")' => work[q].on \in RefundEvents
  BY <1>1, <1>2 DEF ProcessRelies
<1>11. PaidEvents' = PaidEvents /\ RefundEvents' = RefundEvents
  BY DEF PaidEvents, RefundEvents, Ev
<1> QED
  BY <1>4, <1>5, <1>6, <1>7, <1>8, <1>9, <1>10, <1>11 DEF ProcessRelies

\* A step of Stripe's.
LEMMA StripeSteps ==
  ASSUME MembershipInv, UNCHANGED <<bill, card, desk, ledger, work>>, TypeOK', Billing', Invoices', RefundsNoted',
         session = "expired" => session' = "expired",
         \A m \in Month : invoice[m] = "paid" => invoice'[m] = "paid",
         \A m \in Month : Follows(refund[m], refund'[m])
  PROVE  MembershipInv'
<1>1. NoOverlap' /\ LocksApart'
  BY DEF MembershipInv, NoOverlap, LocksApart, Holds, At
<1>2. ASSUME NEW q \in Process PROVE ProcessRelies(q)'
  BY ProcessReliesStays
<1> QED
  BY <1>1, <1>2 DEF MembershipInv

\* A step of a process.
LEMMA ProcessSteps ==
  ASSUME MembershipInv, NEW p \in Process, \A q \in Process \ {p} : work'[q] = work[q],
         TypeOK', NoOverlap', Billing', Invoices', RefundsNoted', ProcessRelies(p)',
         work'[p].at = "checked" => \A q \in Process \ {p} : ~ At(q, "checked"),
         \A m \in Month : Holds(p, m)' => \A q \in Process \ {p} : ~ Holds(q, m),
         bill.status # "none" \/ bill.bound => bill'.status # "none" \/ bill'.bound,
         session = "expired" => session' = "expired",
         \A m \in Month : invoice[m] = "paid" => invoice'[m] = "paid",
         \A m \in Month : card[m] # "none" => card'[m] # "none",
         \/ \A m \in Month : /\ card[m] = "none" => card'[m] = "none"
                             /\ ~ Covers(desk[m]) => ~ Covers(desk'[m])
         \/ \A q \in Process \ {p} : ~ At(q, "checked"),
         \A m \in Month : Follows(refund[m], refund'[m]),
         \A m \in Month : ledger'[m].noted = ledger[m].noted \/ \A q \in Process \ {p} : ~ Holds(q, m)
  PROVE  MembershipInv'
<1>1. ASSUME NEW q \in Process \ {p} PROVE ProcessRelies(q)'
  BY ProcessReliesStays
<1>2. LocksApart'
  <2> SUFFICES ASSUME NEW q \in Process, NEW r \in Process, q # r
               PROVE  /\ ~ (At(q, "checked") /\ At(r, "checked"))'
                      /\ \A m \in Month : ~ (Holds(q, m) /\ Holds(r, m))'
    BY DEF LocksApart, Month
  <2>1. LocksApart
    BY DEF MembershipInv
  <2>2. \A s \in Process \ {p} : (At(s, "checked")' <=> At(s, "checked")) /\ \A m : Holds(s, m)' <=> Holds(s, m)
    BY DEF At, Holds
  <2>3. At(p, "checked")' => work'[p].at = "checked"
    BY DEF At
  <2>4. CASE q # p /\ r # p
    BY <2>1, <2>2, <2>4 DEF LocksApart
  <2>5. CASE q = p \/ r = p
    BY <2>2, <2>3, <2>5
  <2> QED
    BY <2>4, <2>5
<1> QED
  BY <1>1, <1>2 DEF MembershipInv

LEMMA MembershipSubscribe ==
  ASSUME MembershipInv, Subscribe
  PROVE  MembershipInv'
<1>1. TypeOK /\ Billing /\ Invoices /\ RefundsNoted
  BY DEF MembershipInv
<1>2. /\ session = "open" /\ session' = "complete" /\ invoice' = [invoice EXCEPT ![now] = "paid"]
      /\ event' = event \cup {Ev("changed", 0), Ev("paid", now)}
      /\ UNCHANGED <<bill, card, desk, ledger, refund, answer, now, work>>
  BY DEF Subscribe, rows
<1>3. sub' \in Sub
  BY Subs DEF Subscribe, Sub, SubStatus
<1>4. TypeOK'
  <2>1. invoice' \in [Month -> {"none", "open", "paid"}] /\ event' \subseteq Event
    BY <1>1, <1>2, MembershipTyped, EvKinds
  <2> QED
    BY <1>1, <1>2, <1>3, <2>1 DEF TypeOK
<1>5. Billing'
  BY <1>1, <1>2, EvSame DEF Billing, ExpiredIsUnpayable
<1>6. Invoices'
  <2> SUFFICES ASSUME NEW m \in Month
               PROVE  /\ invoice'[m] # "none" => session' = "complete" /\ m <= now'
                      /\ Ev("paid", m) \in event' => invoice'[m] = "paid"
                      /\ invoice'[m] = "paid" => card'[m] # "none" \/ Ev("paid", m) \in event'
                      /\ card'[m] # "none" => invoice'[m] = "paid" /\ ledger'[m].payment # "none"
    BY ZenonT(30) DEF Invoices, Month, Ev
  <2>1. invoice[m] = "none" /\ Ev("paid", m) \notin event /\ card[m] = "none"
    BY <1>1, <1>2 DEF Invoices
  <2>2. invoice'[m] = IF m = now THEN "paid" ELSE "none"
    BY <1>1, <1>2, <2>1, MembershipTyped
  <2>3. Ev("paid", m) \in event' <=> m = now
    BY <1>2, <2>1, EvSame
  <2> QED
    BY <1>2, <2>1, <2>2, <2>3, Months, <1>1, MembershipTyped
<1>7. RefundsNoted'
  <2>1. \A m \in Month : Ev("refund", m) \in event' <=> Ev("refund", m) \in event
    BY <1>2, EvSame
  <2> QED
    BY ZenonT(30), <1>1, <1>2, <2>1 DEF RefundsNoted, Month, Ev
<1>8. \A m \in Month : Follows(refund[m], refund'[m])
  BY <1>2 DEF Follows
<1>9. \A m \in Month : invoice[m] = "paid" => invoice'[m] = "paid"
  BY <1>1, <1>2 DEF Invoices
<1> QED
  BY <1>2, <1>4, <1>5, <1>6, <1>7, <1>8, <1>9, StripeSteps

LEMMA MembershipExpireSession ==
  ASSUME MembershipInv, ExpireSession
  PROVE  MembershipInv'
<1>1. TypeOK /\ Billing /\ Invoices /\ RefundsNoted
  BY DEF MembershipInv
<1>2. /\ session = "open" /\ session' = "expired" /\ event' = event \cup {Ev("expired", 0)}
      /\ UNCHANGED <<bill, card, desk, ledger, sub, invoice, refund, answer, now, work>>
  BY DEF ExpireSession, rows
<1>3. TypeOK'
  <2>1. event' \subseteq Event
    BY <1>1, <1>2, MembershipTyped, EvKinds
  <2> QED
    BY <1>1, <1>2, <2>1 DEF TypeOK
<1>4. Billing'
  BY <1>1, <1>2 DEF Billing, ExpiredIsUnpayable
<1>5. \A m \in Month : (Ev("paid", m) \in event' <=> Ev("paid", m) \in event)
                       /\ (Ev("refund", m) \in event' <=> Ev("refund", m) \in event)
  BY <1>2, EvSame
<1>6. Invoices' /\ RefundsNoted'
  BY <1>1, <1>2, <1>5 DEF Invoices, RefundsNoted, Month, Ev
<1>7. \A m \in Month : Follows(refund[m], refund'[m])
  BY <1>2 DEF Follows
<1> QED
  BY <1>2, <1>3, <1>4, <1>6, <1>7, StripeSteps

LEMMA MembershipNextMonth ==
  ASSUME MembershipInv, NextMonth
  PROVE  MembershipInv'
<1>1. TypeOK /\ Billing /\ Invoices /\ RefundsNoted
  BY DEF MembershipInv
<1>2. /\ now < MaxMonth /\ now' = now + 1 /\ answer' = NoSub /\ now \in Month /\ now' \in Month
      /\ UNCHANGED <<bill, card, desk, ledger, session, refund, work>>
  BY <1>1, MembershipTyped, Months DEF NextMonth, rows
<1>3. /\ sub' \in Sub /\ (sub'.status # "none" => sub.status # "none")
      /\ \/ invoice' = invoice /\ event \subseteq event' /\ event' \subseteq event \cup {Ev("changed", 0)}
         \/ /\ sub.status # "none"
            /\ \/ invoice' = [invoice EXCEPT ![now'] = "paid"]
                  /\ event' = event \cup {Ev("changed", 0), Ev("paid", now')}
               \/ invoice' = [invoice EXCEPT ![now'] = "open"]
                  /\ event' = event \cup {Ev("changed", 0)}
  <2>1. CASE ~ Running
    BY <1>1, <2>1, MembershipTyped DEF NextMonth
  <2>2. CASE Running /\ sub.cancelAt # 0 /\ sub.cancelAt <= now
    <3>1. sub' = [sub EXCEPT !.status = "canceled"] /\ invoice' = invoice
      BY <2>2 DEF NextMonth
    <3>2. event' = event \cup {Ev("changed", 0)} \cup {Ev("paid", m) : m \in {k \in {now'} : invoice'[k] = "paid"}}
      BY <2>2 DEF NextMonth
    <3>3. invoice'[now'] # "paid"
      BY <1>1, <1>2, <3>1, Months DEF Invoices
    <3>4. event' = event \cup {Ev("changed", 0)}
      BY <3>2, <3>3
    <3>5. sub' \in Sub /\ sub.status # "none"
      BY <1>1, <2>2, <3>1, MembershipTyped DEF Running, Sub, SubStatus
    <3> QED
      BY <3>1, <3>4, <3>5
  <2>3. CASE Running /\ ~ (sub.cancelAt # 0 /\ sub.cancelAt <= now)
    <3>1. event' = event \cup {Ev("changed", 0)} \cup {Ev("paid", m) : m \in {k \in {now'} : invoice'[k] = "paid"}}
      BY <2>3 DEF NextMonth
    <3>2. \/ invoice' = [invoice EXCEPT ![now'] = "paid"] /\ sub' = sub
          \/ invoice' = [invoice EXCEPT ![now'] = "open"] /\ sub' = [sub EXCEPT !.status = "past_due"]
      BY <2>3 DEF NextMonth
    <3>3. sub' \in Sub /\ sub.status # "none"
      BY <1>1, <2>3, <3>2, MembershipTyped DEF Running, Sub, SubStatus
    <3>4. ASSUME invoice' = [invoice EXCEPT ![now'] = "paid"]
          PROVE  event' = event \cup {Ev("changed", 0), Ev("paid", now')}
      <4>1. invoice'[now'] = "paid"
        BY <1>1, <1>2, <3>4, MembershipTyped
      <4>2. {k \in {now'} : invoice'[k] = "paid"} = {now'}
        BY <4>1
      <4> QED
        BY <3>1, <4>2
    <3>5. ASSUME invoice' = [invoice EXCEPT ![now'] = "open"]
          PROVE  event' = event \cup {Ev("changed", 0)}
      <4>1. invoice'[now'] # "paid"
        BY <1>1, <1>2, <3>5, MembershipTyped
      <4>2. {k \in {now'} : invoice'[k] = "paid"} = {}
        BY <4>1
      <4> QED
        BY <3>1, <4>2
    <3> QED
      BY <3>2, <3>3, <3>4, <3>5
  <2> QED
    BY <2>1, <2>2, <2>3
<1>4. invoice' \in [Month -> {"none", "open", "paid"}] /\ event' \subseteq Event
  BY <1>1, <1>2, <1>3, MembershipTyped, EvKinds
<1>5. TypeOK'
  BY <1>1, <1>2, <1>3, <1>4, Subs DEF TypeOK
<1>6. Billing'
  <2>1. Ev("expired", 0) \in event' <=> Ev("expired", 0) \in event
    BY <1>3, EvSame
  <2> QED
    BY <1>1, <1>2, <1>3, <2>1 DEF Billing, ExpiredIsUnpayable
<1>7. invoice[now'] = "none"
  BY <1>1, <1>2, Months DEF Invoices
<1>8. Invoices'
  <2> SUFFICES ASSUME NEW m \in Month
               PROVE  /\ invoice'[m] # "none" => session' = "complete" /\ m <= now'
                      /\ Ev("paid", m) \in event' => invoice'[m] = "paid"
                      /\ invoice'[m] = "paid" => card'[m] # "none" \/ Ev("paid", m) \in event'
                      /\ card'[m] # "none" => invoice'[m] = "paid" /\ ledger'[m].payment # "none"
    BY ZenonT(30) DEF Invoices, Month, Ev
  <2>1. /\ invoice[m] # "none" => session = "complete" /\ m <= now
        /\ Ev("paid", m) \in event => invoice[m] = "paid"
        /\ invoice[m] = "paid" => card[m] # "none" \/ Ev("paid", m) \in event
        /\ card[m] # "none" => invoice[m] = "paid" /\ ledger[m].payment # "none"
    BY <1>1 DEF Invoices
  <2>2. m <= now => m <= now'
    BY <1>2, Months
  <2>3. CASE m # now'
    <3>1. invoice'[m] = invoice[m] /\ (Ev("paid", m) \in event' <=> Ev("paid", m) \in event)
      BY <1>1, <1>3, <2>3, EvSame, MembershipTyped
    <3> QED
      BY <1>2, <2>1, <2>2, <3>1
  <2>4. CASE m = now'
    <3>1. card[m] = "none" /\ Ev("paid", m) \notin event /\ m <= now' /\ (sub.status # "none" => session = "complete")
      BY <1>1, <1>2, <1>7, <2>1, <2>4, Months DEF Billing
    <3>2. /\ invoice'[m] # "none" => sub.status # "none"
          /\ Ev("paid", m) \in event' <=> invoice'[m] = "paid"
      BY <1>1, <1>3, <1>7, <2>4, <3>1, EvSame, MembershipTyped
    <3> QED
      BY <1>2, <3>1, <3>2
  <2> QED
    BY <2>3, <2>4
<1>9. RefundsNoted'
  <2>1. \A m \in Month : Ev("refund", m) \in event' <=> Ev("refund", m) \in event
    BY <1>3, EvSame
  <2> QED
    BY ZenonT(30), <1>1, <1>2, <2>1 DEF RefundsNoted, Month, Ev
<1>10. \A m \in Month : Follows(refund[m], refund'[m])
  BY <1>2 DEF Follows
<1>11. \A m \in Month : invoice[m] = "paid" => invoice'[m] = "paid"
  BY <1>1, <1>3, <1>7, MembershipTyped
<1> QED
  BY <1>2, <1>5, <1>6, <1>8, <1>9, <1>10, <1>11, StripeSteps

LEMMA MembershipPayLate ==
  ASSUME MembershipInv, NEW k \in Month, PayLate(k)
  PROVE  MembershipInv'
<1>1. TypeOK /\ Billing /\ Invoices /\ RefundsNoted
  BY DEF MembershipInv
<1>2. /\ invoice[k] = "open" /\ invoice' = [invoice EXCEPT ![k] = "paid"] /\ sub.status # "none"
      /\ event' = event \cup {Ev("changed", 0), Ev("paid", k)}
      /\ UNCHANGED <<bill, card, desk, ledger, session, refund, answer, now, work>>
  BY DEF PayLate, rows, Running
<1>3. sub' \in Sub
  <2>1. sub' = [sub EXCEPT !.status = "active"] \/ sub' = sub
    BY DEF PayLate
  <2> QED
    BY <1>1, <2>1, MembershipTyped DEF Sub, SubStatus
<1>4. TypeOK'
  <2>1. invoice' \in [Month -> {"none", "open", "paid"}] /\ event' \subseteq Event
    BY <1>1, <1>2, MembershipTyped, EvKinds
  <2> QED
    BY <1>1, <1>2, <1>3, <2>1 DEF TypeOK
<1>5. Billing'
  BY <1>1, <1>2, EvSame DEF Billing, ExpiredIsUnpayable
<1>6. Invoices'
  <2> SUFFICES ASSUME NEW m \in Month
               PROVE  /\ invoice'[m] # "none" => session' = "complete" /\ m <= now'
                      /\ Ev("paid", m) \in event' => invoice'[m] = "paid"
                      /\ invoice'[m] = "paid" => card'[m] # "none" \/ Ev("paid", m) \in event'
                      /\ card'[m] # "none" => invoice'[m] = "paid" /\ ledger'[m].payment # "none"
    BY ZenonT(30) DEF Invoices, Month, Ev
  <2>1. CASE m = k
    <3>1. invoice'[m] = "paid" /\ Ev("paid", m) \in event' /\ session = "complete" /\ m <= now
      BY <1>1, <1>2, <2>1, MembershipTyped DEF Invoices
    <3> QED
      BY <1>1, <1>2, <3>1 DEF Invoices
  <2>2. CASE m # k
    <3>1. invoice'[m] = invoice[m] /\ (Ev("paid", m) \in event' <=> Ev("paid", m) \in event)
      BY <1>1, <1>2, <2>2, EvSame, MembershipTyped
    <3> QED
      BY <1>1, <1>2, <3>1 DEF Invoices
  <2> QED
    BY <2>1, <2>2
<1>7. RefundsNoted'
  <2>1. \A m \in Month : Ev("refund", m) \in event' <=> Ev("refund", m) \in event
    BY <1>2, EvSame
  <2> QED
    BY ZenonT(30), <1>1, <1>2, <2>1 DEF RefundsNoted, Month, Ev
<1>8. \A m \in Month : Follows(refund[m], refund'[m])
  BY <1>2 DEF Follows
<1>9. \A m \in Month : invoice[m] = "paid" => invoice'[m] = "paid"
  BY <1>1, <1>2, MembershipTyped
<1> QED
  BY <1>2, <1>4, <1>5, <1>6, <1>7, <1>8, <1>9, StripeSteps

LEMMA MembershipLapse ==
  ASSUME MembershipInv, Lapse
  PROVE  MembershipInv'
<1>1. TypeOK /\ Billing /\ Invoices /\ RefundsNoted
  BY DEF MembershipInv
<1>2. /\ sub.status # "none" /\ sub' = [sub EXCEPT !.status = "canceled"] /\ event' = event \cup {Ev("changed", 0)}
      /\ UNCHANGED <<bill, card, desk, ledger, session, invoice, refund, answer, now, work>>
  BY DEF Lapse, rows, Running
<1>3. TypeOK'
  <2>1. event' \subseteq Event /\ sub' \in Sub
    BY <1>1, <1>2, MembershipTyped, EvKinds DEF Sub, SubStatus
  <2> QED
    BY <1>1, <1>2, <2>1 DEF TypeOK
<1>4. Billing'
  BY <1>1, <1>2, EvSame DEF Billing, ExpiredIsUnpayable
<1>5. \A m \in Month : (Ev("paid", m) \in event' <=> Ev("paid", m) \in event)
                       /\ (Ev("refund", m) \in event' <=> Ev("refund", m) \in event)
  BY <1>2, EvSame
<1>6. Invoices' /\ RefundsNoted'
  BY <1>1, <1>2, <1>5 DEF Invoices, RefundsNoted, Month, Ev
<1>7. \A m \in Month : Follows(refund[m], refund'[m])
  BY <1>2 DEF Follows
<1> QED
  BY <1>2, <1>3, <1>4, <1>6, <1>7, StripeSteps

LEMMA MembershipRefunded ==
  ASSUME MembershipInv, NEW k \in Month, RefundAtDashboard(k) \/ RefundMoves(k)
  PROVE  MembershipInv'
<1>1. TypeOK /\ Billing /\ Invoices /\ RefundsNoted
  BY DEF MembershipInv
<1>2. /\ event' = event \cup {Ev("refund", k)}
      /\ UNCHANGED <<bill, card, desk, ledger, session, sub, invoice, answer, now, work>>
  BY DEF RefundAtDashboard, RefundMoves, rows
<1>3. PICK s \in {"pending", "succeeded", "failed"} : refund' = [refund EXCEPT ![k] = s] /\ Follows(refund[k], s)
  BY DEF RefundAtDashboard, RefundMoves, Follows
<1>4. TypeOK'
  <2>1. event' \subseteq Event /\ refund' \in [Month -> RefundStatus]
    BY <1>1, <1>2, <1>3, MembershipTyped, EvKinds DEF RefundStatus
  <2> QED
    BY <1>1, <1>2, <2>1 DEF TypeOK
<1>5. Billing'
  BY <1>1, <1>2, EvSame DEF Billing, ExpiredIsUnpayable
<1>6. Invoices'
  <2>1. \A m \in Month : Ev("paid", m) \in event' <=> Ev("paid", m) \in event
    BY <1>2, EvSame
  <2> QED
    BY ZenonT(30), <1>1, <1>2, <2>1 DEF Invoices, Month, Ev
<1>7. \A m \in Month : Follows(refund[m], refund'[m]) /\ (m # k => refund'[m] = refund[m])
  BY <1>1, <1>3, MembershipTyped DEF Follows
<1>8. RefundsNoted'
  <2> SUFFICES ASSUME NEW m \in Month
               PROVE  /\ card'[m] = "none" => ledger'[m].payment = "none" /\ ledger'[m].noted = "none"
                      /\ ledger'[m].noted = "succeeded" <=> ledger'[m].payment = "refunded"
                      /\ Follows(ledger'[m].noted, refund'[m])
                      /\ Ev("refund", m) \notin event' => ledger'[m].noted = refund'[m]
    BY ZenonT(30) DEF RefundsNoted, Month, Ev, Follows
  <2>1. /\ card[m] = "none" => ledger[m].payment = "none" /\ ledger[m].noted = "none"
        /\ ledger[m].noted = "succeeded" <=> ledger[m].payment = "refunded"
        /\ Follows(ledger[m].noted, refund[m])
        /\ Ev("refund", m) \notin event => ledger[m].noted = refund[m]
    BY <1>1 DEF RefundsNoted
  <2>2. ledger[m].noted \in RefundStatus /\ refund[m] \in RefundStatus /\ refund'[m] \in RefundStatus
    BY <1>1, <1>4, MembershipTyped DEF LedgerRow, TypeOK
  <2>3. Follows(ledger[m].noted, refund'[m])
    BY <1>7, <2>1, <2>2, FollowsOn
  <2>4. Ev("refund", m) \notin event' => m # k /\ Ev("refund", m) \notin event
    BY <1>2
  <2> QED
    BY <1>2, <1>7, <2>1, <2>3, <2>4
<1> QED
  BY <1>2, <1>4, <1>5, <1>6, <1>7, <1>8, StripeSteps

\* Cards and desks are changed with no process between its check and its issue,
\* or for a month that is covered already.
LEMMA DeskSteps ==
  ASSUME MembershipInv, UNCHANGED <<bill, ledger, stripe, event, now, work>>,
         card' \in [Month -> Access], desk' \in [Month -> Access], NoOverlap',
         \A m \in Month : card'[m] = "none" <=> card[m] = "none",
         MemberFree \/ \A m \in Month : ~ Covers(desk[m]) => ~ Covers(desk'[m])
  PROVE  MembershipInv'
<1>1. TypeOK /\ Billing /\ Invoices /\ RefundsNoted
  BY DEF MembershipInv
<1>2. TypeOK'
  BY <1>1 DEF TypeOK, stripe
<1>3. Billing'
  BY <1>1 DEF Billing, ExpiredIsUnpayable, stripe
<1>4. Invoices' /\ RefundsNoted'
  BY <1>1 DEF Invoices, RefundsNoted, stripe, Month, Ev
<1>5. LocksApart'
  BY DEF MembershipInv, LocksApart, Holds, At
<1>6. ASSUME NEW q \in Process PROVE ProcessRelies(q)'
  BY <1>2, ProcessReliesStays DEF Follows, stripe, MemberFree
<1> QED
  BY <1>2, <1>3, <1>4, <1>5, <1>6 DEF MembershipInv

LEMMA MembershipDesk ==
  ASSUME MembershipInv, Desk
  PROVE  MembershipInv'
<1>1. TypeOK /\ NoOverlap
  BY DEF MembershipInv
<1>2. card \in [Month -> Access] /\ desk \in [Month -> Access] /\ now \in Month
  BY <1>1, MembershipTyped
<1>3. ASSUME IssueFree PROVE MembershipInv'
  <2>1. /\ MemberFree /\ ~ Covers(card[now]) /\ desk' = [desk EXCEPT ![now] = "active"]
        /\ UNCHANGED <<bill, card, ledger, stripe, event, now, work>>
    BY <1>3 DEF IssueFree
  <2>2. desk' \in [Month -> Access] /\ NoOverlap'
    BY <1>1, <1>2, <2>1 DEF NoOverlap, Month, Covers, Access
  <2> QED
    BY <1>2, <2>1, <2>2, DeskSteps
<1>4. ASSUME CancelDesk PROVE MembershipInv'
  <2>1. /\ MemberFree /\ desk' = [m \in Month |-> IF m > now + 1 THEN "none" ELSE desk[m]]
        /\ UNCHANGED <<bill, card, ledger, stripe, event, now, work>>
    BY <1>4 DEF CancelDesk
  <2>2. desk' \in [Month -> Access] /\ NoOverlap'
    BY <1>1, <1>2, <2>1 DEF NoOverlap, Month, Covers, Access
  <2> QED
    BY <1>2, <2>1, <2>2, DeskSteps
<1>5. ASSUME NEW first \in DeskMonth, NEW last \in DeskMonth, IssueAtDesk(first, last) PROVE MembershipInv'
  <2>1. /\ MemberFree /\ \A m \in first..last : ~ Covers(card[m])
        /\ desk' = [m \in Month |-> IF m \in first..last THEN "active" ELSE desk[m]]
        /\ UNCHANGED <<bill, card, ledger, stripe, event, now, work>>
    BY <1>5 DEF IssueAtDesk
  <2>2. desk' \in [Month -> Access] /\ NoOverlap'
    BY <1>1, <1>2, <2>1 DEF NoOverlap, Month, Covers, Access
  <2> QED
    BY <1>2, <2>1, <2>2, DeskSteps
<1>6. ASSUME NEW k \in DeskMonth, NEW s \in {"active", "suspended", "revoked"}, SetCard(k, s) PROVE MembershipInv'
  <2>1. /\ card[k] \notin {"none", "revoked", s} /\ card' = [card EXCEPT ![k] = s]
        /\ UNCHANGED <<bill, desk, ledger, stripe, event, now, work>>
    BY <1>6 DEF SetCard
  <2>2. k \in Month
    BY MonthsAssumption DEF Month
  <2>3. Covers(card[k])
    BY <1>2, <2>1, <2>2 DEF Access, Covers
  <2>4. card' \in [Month -> Access]
    BY <1>2, <2>1 DEF Access
  <2>5. NoOverlap'
    BY <1>1, <1>2, <2>1, <2>2, <2>3 DEF NoOverlap, Month, Covers
  <2>6. \A m \in Month : card'[m] = "none" <=> card[m] = "none"
    BY <1>2, <2>1
  <2> QED
    BY <1>2, <2>1, <2>4, <2>5, <2>6, DeskSteps
<1>7. ASSUME NEW k \in DeskMonth, NEW s \in {"active", "suspended", "revoked"}, SetDesk(k, s) PROVE MembershipInv'
  <2>1. /\ desk[k] \notin {"none", "revoked", s} /\ desk' = [desk EXCEPT ![k] = s]
        /\ UNCHANGED <<bill, card, ledger, stripe, event, now, work>>
    BY <1>7 DEF SetDesk
  <2>2. k \in Month
    BY MonthsAssumption DEF Month
  <2>3. Covers(desk[k])
    BY <1>2, <2>1, <2>2 DEF Access, Covers
  <2>4. desk' \in [Month -> Access]
    BY <1>2, <2>1 DEF Access
  <2>5. NoOverlap'
    BY <1>1, <1>2, <2>1, <2>2, <2>3 DEF NoOverlap, Month, Covers
  <2>6. \A m \in Month : ~ Covers(desk[m]) => ~ Covers(desk'[m])
    BY <1>2, <2>1, <2>3
  <2> QED
    BY <1>2, <2>1, <2>4, <2>5, <2>6, DeskSteps
<1> QED
  BY <1>3, <1>4, <1>5, <1>6, <1>7 DEF Desk

LEMMA MembershipDeliverExpired ==
  ASSUME MembershipInv, DeliverExpired
  PROVE  MembershipInv'
<1>1. TypeOK /\ Billing /\ Invoices /\ RefundsNoted
  BY DEF MembershipInv
<1>2. /\ Ev("expired", 0) \in event /\ event' = event \ {Ev("expired", 0)}
      /\ UNCHANGED <<card, desk, ledger, session, sub, invoice, refund, answer, now, work>>
      /\ bill' = bill \/ (bill.status = "pending" /\ bill' = [bill EXCEPT !.status = "expired"])
  BY DEF DeliverExpired, stripe
<1>3. session = "expired"
  BY <1>1, <1>2 DEF Billing
<1>4. bill' \in BillRow /\ (bill'.status = bill.status \/ bill'.status = "expired") /\ bill'.bound = bill.bound
  BY <1>1, <1>2, MembershipTyped DEF BillRow
<1>5. TypeOK'
  <2>1. event' \subseteq Event
    BY <1>1, <1>2, MembershipTyped
  <2> QED
    BY <1>1, <1>2, <1>4, <2>1 DEF TypeOK, BillRow
<1>6. Billing'
  BY <1>1, <1>2, <1>3, <1>4 DEF Billing, ExpiredIsUnpayable
<1>7. \A m \in Month : (Ev("paid", m) \in event' <=> Ev("paid", m) \in event)
                       /\ (Ev("refund", m) \in event' <=> Ev("refund", m) \in event)
  BY <1>2, EvSame
<1>8. Invoices' /\ RefundsNoted'
  BY <1>1, <1>2, <1>7 DEF Invoices, RefundsNoted, Month, Ev
<1>9. NoOverlap' /\ LocksApart'
  BY <1>2 DEF MembershipInv, NoOverlap, LocksApart, Holds, At
<1>10. ASSUME NEW q \in Process PROVE ProcessRelies(q)'
  BY <1>2, <1>4, <1>5, ProcessReliesStays DEF Follows
<1> QED
  BY <1>5, <1>6, <1>8, <1>9, <1>10 DEF MembershipInv

\* A process that only reads.
LEMMA ReadSteps ==
  ASSUME MembershipInv, NEW p \in Process, work' \in [Process -> Work], \A q \in Process \ {p} : work'[q] = work[q],
         UNCHANGED <<rows, stripe, event, now>>, ProcessRelies(p)',
         work'[p].at = "checked" => \A q \in Process \ {p} : ~ At(q, "checked"),
         \A m \in Month : Holds(p, m)' => \A q \in Process \ {p} : ~ Holds(q, m)
  PROVE  MembershipInv'
<1>1. TypeOK /\ Billing /\ Invoices /\ RefundsNoted /\ NoOverlap
  BY DEF MembershipInv
<1>2. TypeOK'
  BY <1>1 DEF TypeOK, rows, stripe, Work, WorkSteps, Subject
<1>3. Billing' /\ NoOverlap'
  BY <1>1 DEF Billing, ExpiredIsUnpayable, NoOverlap, rows, stripe
<1>4. Invoices' /\ RefundsNoted'
  BY <1>1 DEF Invoices, RefundsNoted, rows, stripe, Month, Ev
<1>5. UNCHANGED <<bill, session, invoice, card, desk, refund, ledger>>
  BY DEF rows, stripe
<1>6. \A m \in Month : Follows(refund[m], refund'[m])
  BY <1>5 DEF Follows
<1> HIDE DEF rows, stripe
<1> QED
  BY <1>2, <1>3, <1>4, <1>5, <1>6, ProcessSteps

LEMMA MembershipGiveUp ==
  ASSUME MembershipInv, NEW p \in Process, GiveUp(p)
  PROVE  MembershipInv'
<1>1. TypeOK
  BY DEF MembershipInv
<1>2. /\ work' \in [Process -> Work] /\ \A q \in Process \ {p} : work'[q] = work[q]
      /\ work'[p].at = "idle"
  BY <1>1, WorkEnds DEF GiveUp
<1>3. ProcessRelies(p)'
  BY <1>2 DEF ProcessRelies, At
<1> QED
  BY <1>2, <1>3, ReadSteps DEF GiveUp, Holds

LEMMA MembershipReadBill ==
  ASSUME MembershipInv, NEW p \in Process, ReadBill(p)
  PROVE  MembershipInv'
<1>1. TypeOK
  BY DEF MembershipInv
<1>2. PICK step \in {"bound", "ending"} : Move(p, step)
  BY DEF ReadBill
<1>3. /\ work' \in [Process -> Work] /\ \A q \in Process \ {p} : work'[q] = work[q]
      /\ work'[p].at = step
  BY <1>1, <1>2, WorkMoves DEF WorkSteps
<1>4. ProcessRelies(p)'
  BY <1>3 DEF ProcessRelies, At
<1> QED
  BY <1>3, <1>4, ReadSteps DEF ReadBill, Holds

LEMMA MembershipRetrieve ==
  ASSUME MembershipInv, NEW p \in Process, NEW e \in event, e.kind \in {"changed", "paid"}, Retrieve(p, e)
  PROVE  MembershipInv'
<1>1. TypeOK /\ Invoices
  BY DEF MembershipInv
<1>2. e \in Event /\ e \in Subject /\ sub \in Sub /\ "retrieved" \in WorkSteps /\ "none" \in RefundStatus
  BY <1>1, MembershipTyped, EvKinds DEF WorkSteps, RefundStatus
<1>3. /\ work' \in [Process -> Work] /\ \A q \in Process \ {p} : work'[q] = work[q]
      /\ work'[p].at = "retrieved" /\ work'[p].on = e
  BY <1>1, <1>2, WorkGoes DEF Retrieve
<1>4. e = Ev("changed", 0) \/ (e \in PaidEvents /\ e.month \in Month /\ e = Ev("paid", e.month))
  BY <1>2, EvKinds DEF PaidEvents
<1>5. e \in PaidEvents => invoice[e.month] = "paid"
  BY <1>1, <1>4, EvSame DEF PaidEvents, Invoices
<1>6. ProcessRelies(p)'
  BY <1>3, <1>4, <1>5 DEF ProcessRelies, At, Retrieve, stripe, PaidEvents, Month, Ev
<1> QED
  BY <1>3, <1>6, ReadSteps DEF Retrieve, Holds

LEMMA MembershipCheckOverlap ==
  ASSUME MembershipInv, NEW p \in Process, CheckOverlap(p)
  PROVE  MembershipInv'
<1>1. TypeOK /\ ProcessRelies(p)
  BY DEF MembershipInv
<1> DEFINE e == work[p].on
<1>2. /\ e \in Subject /\ work[p].sub \in Sub /\ "checked" \in WorkSteps /\ "none" \in RefundStatus
  BY <1>1, MembershipTyped DEF Work, WorkSteps, RefundStatus
<1>3. /\ work' \in [Process -> Work] /\ \A q \in Process \ {p} : work'[q] = work[q]
      /\ work'[p].at = "checked" /\ work'[p].on = e
  BY <1>1, <1>2, WorkGoes DEF CheckOverlap
<1>4. e \in PaidEvents
  BY <1>1 DEF CheckOverlap, ProcessRelies, Ev
<1>5. ProcessRelies(p)'
  BY <1>1, <1>3, <1>4 DEF ProcessRelies, At, CheckOverlap, rows, stripe, PaidEvents, Month, Ev, Covers
<1> QED
  BY <1>3, <1>5, ReadSteps DEF CheckOverlap, Holds, MemberFree

LEMMA MembershipFetchRefund ==
  ASSUME MembershipInv, NEW p \in Process, NEW k \in Month, FetchRefund(p, k)
  PROVE  MembershipInv'
<1>1. TypeOK /\ RefundsNoted
  BY DEF MembershipInv
<1>2. /\ Ev("refund", k) \in Subject /\ NoSub \in Sub /\ "fetched" \in WorkSteps /\ refund[k] \in RefundStatus
  BY <1>1, MembershipTyped, EvKinds, Subs DEF WorkSteps, TypeOK
<1>3. /\ work' \in [Process -> Work] /\ \A q \in Process \ {p} : work'[q] = work[q]
      /\ work'[p].at = "fetched" /\ work'[p].on = Ev("refund", k) /\ work'[p].refund = refund[k]
  BY <1>1, <1>2, WorkGoes DEF FetchRefund
<1>4. Ev("refund", k).month = k
  BY DEF Ev
<1>5. ProcessRelies(p)'
  BY <1>1, <1>3, <1>4 DEF ProcessRelies, At, FetchRefund, rows, stripe, RefundsNoted, RefundEvents, Month, Ev, Follows
<1>6. \A m \in Month : Holds(p, m)' => \A q \in Process \ {p} : ~ Holds(q, m)
  BY <1>3, <1>4 DEF FetchRefund, InvoiceFree, Holds
<1> QED
  BY <1>3, <1>5, <1>6, ReadSteps DEF FetchRefund

\* A step that changes the bill, and leaves the months alone.
LEMMA BillSteps ==
  ASSUME MembershipInv, NEW p \in Process, work' \in [Process -> Work], \A q \in Process \ {p} : work'[q] = work[q],
         UNCHANGED <<card, desk, ledger, invoice, refund, now>>,
         bill' \in BillRow, session' \in {"none", "open", "complete", "expired"}, sub' \in Sub, answer' \in Sub,
         event' \subseteq Event,
         \A m \in Month : (Ev("paid", m) \in event' <=> Ev("paid", m) \in event)
                          /\ (Ev("refund", m) \in event' <=> Ev("refund", m) \in event),
         session = "complete" => session' = "complete", session = "expired" => session' = "expired",
         bill.status # "none" \/ bill.bound => bill'.status # "none" \/ bill'.bound,
         Billing', ProcessRelies(p)', work'[p].at \notin {"checked", "fetched", "recording"}
  PROVE  MembershipInv'
<1>1. TypeOK /\ Invoices /\ RefundsNoted /\ NoOverlap
  BY DEF MembershipInv
<1>2. TypeOK'
  BY <1>1 DEF TypeOK, Work, WorkSteps, Subject, BillRow
<1>3. NoOverlap'
  BY <1>1 DEF NoOverlap
<1>4. Invoices' /\ RefundsNoted'
  BY <1>1 DEF Invoices, RefundsNoted, Month, Ev
<1>5. \A m \in Month : Follows(refund[m], refund'[m])
  BY DEF Follows
<1>6. \A m \in Month : ~ Holds(p, m)'
  BY DEF Holds
<1> QED
  BY <1>2, <1>3, <1>4, <1>5, <1>6, ProcessSteps

LEMMA MembershipStartCheckout ==
  ASSUME MembershipInv, NEW p \in Process, StartCheckout(p)
  PROVE  MembershipInv'
<1>1. TypeOK /\ Billing
  BY DEF MembershipInv
<1>2. /\ work' \in [Process -> Work] /\ \A q \in Process \ {p} : work'[q] = work[q]
      /\ work'[p].at = "creating"
  BY <1>1, WorkMoves DEF StartCheckout, WorkSteps
<1>3. /\ bill' \in BillRow /\ bill'.status = "pending" /\ bill'.bound = bill.bound
      /\ bill.status \in {"none", "pending"}
  BY <1>1, MembershipTyped DEF StartCheckout, BillRow
<1>4. UNCHANGED <<card, desk, ledger, session, sub, invoice, refund, answer, event, now>>
  BY DEF StartCheckout, stripe
<1>5. Billing'
  BY <1>1, <1>3, <1>4 DEF Billing, ExpiredIsUnpayable
<1>6. ProcessRelies(p)'
  BY <1>2, <1>3 DEF ProcessRelies, At
<1> QED
  BY <1>1, <1>2, <1>3, <1>4, <1>5, <1>6, BillSteps, MembershipTyped

LEMMA MembershipCreateSession ==
  ASSUME MembershipInv, NEW p \in Process, CreateSession(p)
  PROVE  MembershipInv'
<1>1. TypeOK /\ Billing /\ ProcessRelies(p)
  BY DEF MembershipInv
<1>2. session' = (IF session = "none" THEN "open" ELSE session)
      /\ UNCHANGED <<bill, card, desk, ledger, sub, invoice, refund, answer, event, now>>
  BY DEF CreateSession, rows
<1>3. PICK step \in {"saving", "savingExpired"} : Move(p, step) /\ (step = "savingExpired" => session' = "expired")
  BY DEF CreateSession
<1>4. /\ work' \in [Process -> Work] /\ \A q \in Process \ {p} : work'[q] = work[q]
      /\ work'[p].at = step
  BY <1>1, <1>3, WorkMoves DEF WorkSteps
<1>5. bill.status # "none" \/ bill.bound
  BY <1>1 DEF CreateSession, ProcessRelies
<1>6. Billing'
  BY <1>1, <1>2, <1>5 DEF Billing, ExpiredIsUnpayable
<1>7. ProcessRelies(p)'
  BY <1>3, <1>4 DEF ProcessRelies, At
<1>8. session' \in {"none", "open", "complete", "expired"}
  BY <1>1, <1>2, MembershipTyped
<1> QED
  BY <1>1, <1>2, <1>4, <1>6, <1>7, <1>8, BillSteps, MembershipTyped

LEMMA MembershipSaveSession ==
  ASSUME MembershipInv, NEW p \in Process, SaveSession(p)
  PROVE  MembershipInv'
<1>1. TypeOK /\ Billing /\ ProcessRelies(p)
  BY DEF MembershipInv
<1>2. UNCHANGED <<card, desk, ledger, session, sub, invoice, refund, answer, event, now>>
  BY DEF SaveSession, stripe
<1>3. /\ work' \in [Process -> Work] /\ \A q \in Process \ {p} : work'[q] = work[q]
      /\ work'[p].at = "idle"
  BY <1>1, WorkEnds DEF SaveSession
<1>4. /\ bill' \in BillRow /\ bill'.bound = bill.bound
      /\ bill'.status = bill.status \/ (bill'.status = "expired" /\ session = "expired")
  BY <1>1, MembershipTyped DEF SaveSession, BillRow, ProcessRelies
<1>5. Billing'
  BY <1>1, <1>2, <1>4 DEF Billing, ExpiredIsUnpayable
<1>6. ProcessRelies(p)'
  BY <1>3 DEF ProcessRelies, At
<1> QED
  BY <1>1, <1>2, <1>3, <1>4, <1>5, <1>6, BillSteps, MembershipTyped

LEMMA MembershipDecide ==
  ASSUME MembershipInv, NEW p \in Process, Decide(p)
  PROVE  MembershipInv'
<1>1. TypeOK /\ Billing /\ now \in Month
  BY MembershipTyped DEF MembershipInv
<1>2. UNCHANGED <<card, desk, ledger, session, sub, invoice, refund, answer, event, now>>
  BY DEF Decide, stripe
<1>3. /\ work' \in [Process -> Work] /\ \A q \in Process \ {p} : work'[q] = work[q]
      /\ work'[p].at = "decided"
  BY <1>1, WorkMoves DEF Decide, WorkSteps
<1>4. now \in 0..MaxMonth + 1 /\ now + 1 \in 0..MaxMonth + 1
  BY <1>1, Months
<1>5. bill' = bill \/ \E e \in 0..MaxMonth + 1 : bill' = [bill EXCEPT !.effective = e]
  BY <1>4 DEF Decide
<1>6. bill' \in BillRow /\ bill'.bound = bill.bound /\ bill'.status = bill.status
  BY <1>1, <1>5, MembershipTyped DEF BillRow
<1>7. Billing'
  BY <1>1, <1>2, <1>6 DEF Billing, ExpiredIsUnpayable
<1>8. ProcessRelies(p)'
  BY <1>3 DEF ProcessRelies, At
<1> QED
  BY <1>1, <1>2, <1>3, <1>6, <1>7, <1>8, BillSteps, MembershipTyped

LEMMA MembershipEndSession ==
  ASSUME MembershipInv, NEW p \in Process, EndSession(p)
  PROVE  MembershipInv'
<1>1. TypeOK /\ Billing
  BY DEF MembershipInv
<1>2. /\ UNCHANGED <<bill, card, desk, ledger, sub, invoice, refund, answer, now>>
      /\ session' = (IF session = "open" THEN "expired" ELSE session)
      /\ event' = (IF session = "open" THEN event \cup {Ev("expired", 0)} ELSE event)
  BY DEF EndSession, rows
<1>3. PICK step \in {"ended", "idle"} :
        /\ work' \in [Process -> Work] /\ \A q \in Process \ {p} : work'[q] = work[q]
        /\ work'[p].at = step
        /\ step = "ended" => session' = "expired"
  <2>1. CASE session' = "expired" /\ Move(p, "ended")
    BY <1>1, <2>1, WorkMoves DEF WorkSteps
  <2>2. CASE Finish(p)
    BY <1>1, <2>2, WorkEnds
  <2> QED
    BY <2>1, <2>2 DEF EndSession
<1>4. event' \subseteq Event
  BY <1>1, <1>2, MembershipTyped, EvKinds
<1>5. \A m \in Month : (Ev("paid", m) \in event' <=> Ev("paid", m) \in event)
                       /\ (Ev("refund", m) \in event' <=> Ev("refund", m) \in event)
  BY <1>2, EvSame
<1>6. Billing'
  BY <1>1, <1>2 DEF Billing, ExpiredIsUnpayable
<1>7. ProcessRelies(p)'
  BY <1>3 DEF ProcessRelies, At
<1>8. session' \in {"none", "open", "complete", "expired"}
  BY <1>1, <1>2, MembershipTyped
<1> QED
  BY <1>1, <1>2, <1>3, <1>4, <1>5, <1>6, <1>7, <1>8, BillSteps, MembershipTyped

LEMMA MembershipEndBill ==
  ASSUME MembershipInv, NEW p \in Process, EndBill(p)
  PROVE  MembershipInv'
<1>1. TypeOK /\ Billing /\ ProcessRelies(p)
  BY DEF MembershipInv
<1>2. UNCHANGED <<card, desk, ledger, session, sub, invoice, refund, answer, event, now>>
  BY DEF EndBill, stripe
<1>3. /\ work' \in [Process -> Work] /\ \A q \in Process \ {p} : work'[q] = work[q]
      /\ work'[p].at = "idle"
  BY <1>1, WorkEnds DEF EndBill
<1>4. session = "expired"
  BY <1>1 DEF EndBill, ProcessRelies
<1>5. /\ bill' \in BillRow /\ bill'.bound = bill.bound
      /\ bill'.status = bill.status \/ bill'.status = "expired"
  BY <1>1, MembershipTyped DEF EndBill, BillRow
<1>6. Billing'
  BY <1>1, <1>2, <1>4, <1>5 DEF Billing, ExpiredIsUnpayable
<1>7. ProcessRelies(p)'
  BY <1>3 DEF ProcessRelies, At
<1> QED
  BY <1>1, <1>2, <1>3, <1>5, <1>6, <1>7, BillSteps, MembershipTyped

LEMMA BillSynced ==
  ASSUME TypeOK, NEW s \in Sub
  PROVE  Synced(s) \in BillRow /\ Synced(s).bound = TRUE /\ Synced(s).status = s.status /\ s.status # "expired"
<1> DEFINE told == s.cancelAt # 0 /\ s.cancelAt = bill.effective
<1>1. told \in BOOLEAN
  OBVIOUS
<1>2. Synced(s) = [bill EXCEPT !.bound = TRUE, !.status = s.status, !.confirmed = told]
  BY DEF Synced
<1>3. bill \in BillRow /\ s.status \in {"none", "active", "past_due", "canceled"}
  BY MembershipTyped DEF Sub, SubStatus
<1> HIDE DEF told
<1> QED
  BY <1>1, <1>2, <1>3 DEF BillRow

LEMMA OursOnceComplete ==
  ASSUME Billing, session = "complete"
  PROVE  Ours
BY DEF Billing, Ours

LEMMA MembershipApplyChange ==
  ASSUME MembershipInv, NEW p \in Process, ApplyChange(p)
  PROVE  MembershipInv'
<1>1. TypeOK /\ Billing /\ ProcessRelies(p) /\ work[p].sub \in Sub
  BY MembershipTyped DEF MembershipInv, Work
<1>2. UNCHANGED <<card, desk, ledger, session, sub, invoice, refund, answer, now>>
  BY DEF ApplyChange, stripe
<1>3. /\ work' \in [Process -> Work] /\ \A q \in Process \ {p} : work'[q] = work[q]
      /\ work'[p].at = "idle"
  BY <1>1, WorkEnds DEF ApplyChange
<1>4. bill' = bill \/ bill' = Synced(work[p].sub)
  BY DEF ApplyChange
<1>5. bill' \in BillRow /\ (bill' = bill \/ (bill'.bound = TRUE /\ bill'.status # "expired"))
  BY <1>1, <1>4, BillSynced, MembershipTyped
<1>6. event' = event \/ event' = event \ {Ev("changed", 0)}
  BY <1>1 DEF ApplyChange, ProcessRelies, PaidEvents, Ev
<1>7. \A m \in Month : (Ev("paid", m) \in event' <=> Ev("paid", m) \in event)
                       /\ (Ev("refund", m) \in event' <=> Ev("refund", m) \in event)
  BY <1>6, EvSame
<1>8. Billing'
  BY <1>1, <1>2, <1>5, <1>6 DEF Billing, ExpiredIsUnpayable
<1>9. ProcessRelies(p)'
  BY <1>3 DEF ProcessRelies, At
<1>10. event' \subseteq Event /\ (bill.status # "none" \/ bill.bound => bill'.status # "none" \/ bill'.bound)
  BY <1>1, <1>5, <1>6, MembershipTyped
<1> QED
  BY <1>1, <1>2, <1>3, <1>5, <1>7, <1>8, <1>9, <1>10, BillSteps, MembershipTyped

LEMMA MembershipCancelAtStripe ==
  ASSUME MembershipInv, NEW p \in Process, CancelAtStripe(p)
  PROVE  MembershipInv'
<1>1. TypeOK /\ Billing
  BY DEF MembershipInv
<1>2. UNCHANGED <<card, desk, ledger, session, invoice, refund, now>>
  BY DEF CancelAtStripe
<1>3. /\ work' \in [Process -> Work] /\ \A q \in Process \ {p} : work'[q] = work[q]
      /\ work'[p].at = "idle"
  BY <1>1, WorkEnds DEF CancelAtStripe
<1>4. /\ sub' \in Sub /\ sub'.status = sub.status /\ answer' \in Sub
      /\ event' = event \/ event' = event \cup {Ev("changed", 0)}
  <2>1. CASE answer = NoSub
    <3>1. sub' = [sub EXCEPT !.cancelAt = bill.effective] /\ answer' = sub' /\ event' = event \cup {Ev("changed", 0)}
      BY <2>1 DEF CancelAtStripe
    <3>2. sub \in Sub /\ bill.effective \in 0..MaxMonth + 1
      BY <1>1, MembershipTyped DEF BillRow
    <3> QED
      BY <3>1, <3>2 DEF Sub
  <2>2. CASE answer # NoSub
    BY <1>1, <2>2, MembershipTyped DEF CancelAtStripe
  <2> QED
    BY <2>1, <2>2
<1>5. bill' = bill \/ bill' = Synced(answer')
  BY DEF CancelAtStripe
<1>6. bill' \in BillRow /\ (bill' = bill \/ (bill'.bound = TRUE /\ bill'.status # "expired"))
  BY <1>1, <1>4, <1>5, BillSynced, MembershipTyped
<1>7. event' \subseteq Event /\ (bill.status # "none" \/ bill.bound => bill'.status # "none" \/ bill'.bound)
  BY <1>1, <1>4, <1>6, MembershipTyped, EvKinds
<1>8. \A m \in Month : (Ev("paid", m) \in event' <=> Ev("paid", m) \in event)
                       /\ (Ev("refund", m) \in event' <=> Ev("refund", m) \in event)
  BY <1>4, EvSame
<1>9. Ev("expired", 0) \in event' <=> Ev("expired", 0) \in event
  BY <1>4, EvSame
<1>10. Billing'
  BY <1>1, <1>2, <1>4, <1>6, <1>9 DEF Billing, ExpiredIsUnpayable
<1>11. ProcessRelies(p)'
  BY <1>3 DEF ProcessRelies, At
<1> QED
  BY <1>1, <1>2, <1>3, <1>4, <1>6, <1>7, <1>8, <1>10, <1>11, BillSteps, MembershipTyped

LEMMA MembershipSkipInvoice ==
  ASSUME MembershipInv, NEW p \in Process, SkipInvoice(p)
  PROVE  MembershipInv'
<1>1. TypeOK /\ Billing /\ Invoices /\ RefundsNoted /\ NoOverlap /\ ProcessRelies(p) /\ work[p].sub \in Sub
  BY MembershipTyped DEF MembershipInv, Work
<1> DEFINE k == work[p].on.month
<1>2. UNCHANGED <<card, desk, ledger, session, sub, invoice, refund, answer, now>>
  BY DEF SkipInvoice, stripe
<1>3. /\ work' \in [Process -> Work] /\ \A q \in Process \ {p} : work'[q] = work[q]
      /\ work'[p].at = "idle"
  BY <1>1, WorkEnds DEF SkipInvoice
<1>4. work[p].on \in PaidEvents
  BY <1>1 DEF SkipInvoice, ProcessRelies, Ev
<1>5. k \in Month /\ work[p].on = Ev("paid", k)
  BY <1>4 DEF PaidEvents, Ev
<1>6. invoice[k] = "paid"
  BY <1>1, <1>4 DEF SkipInvoice, ProcessRelies
<1>7. Ours
  BY <1>1, <1>5, <1>6, OursOnceComplete DEF Invoices
<1>8. card[k] # "none" /\ bill' = Synced(work[p].sub) /\ event' = event \ {Ev("paid", k)}
  BY <1>5, <1>7 DEF SkipInvoice
<1>9. bill' \in BillRow /\ bill'.bound = TRUE /\ bill'.status # "expired"
  BY <1>1, <1>8, BillSynced
<1>10. TypeOK'
  <2>1. event' \subseteq Event
    BY <1>1, <1>8, MembershipTyped
  <2> QED
    BY <1>1, <1>2, <1>3, <1>9, <2>1 DEF TypeOK, Work, WorkSteps, Subject, BillRow
<1>11. Billing'
  BY <1>1, <1>2, <1>8, <1>9, EvSame DEF Billing, ExpiredIsUnpayable
<1>12. Invoices'
  <2>1. \A m \in Month : Ev("paid", m) \in event' <=> Ev("paid", m) \in event /\ m # k
    BY <1>8, EvSame
  <2> QED
    BY ZenonT(30), <1>1, <1>2, <1>8, <2>1 DEF Invoices, Month, Ev
<1>13. RefundsNoted'
  <2>1. \A m \in Month : Ev("refund", m) \in event' <=> Ev("refund", m) \in event
    BY <1>8, EvSame
  <2> QED
    BY ZenonT(30), <1>1, <1>2, <2>1 DEF RefundsNoted, Month, Ev
<1>14. NoOverlap' /\ ProcessRelies(p)'
  BY <1>1, <1>2, <1>3 DEF NoOverlap, ProcessRelies, At
<1>15. \A m \in Month : Follows(refund[m], refund'[m]) /\ ~ Holds(p, m)'
  BY <1>2, <1>3 DEF Follows, Holds
<1> QED
  BY <1>2, <1>3, <1>9, <1>10, <1>11, <1>12, <1>13, <1>14, <1>15, ProcessSteps

\* A row of the ledger is written.
LEMMA LedgerSet ==
  ASSUME TypeOK, NEW k \in Month, NEW r \in LedgerRow, ledger' = [ledger EXCEPT ![k] = r]
  PROVE  ledger' \in [Month -> LedgerRow] /\ ledger'[k] = r /\ \A m \in Month \ {k} : ledger'[m] = ledger[m]
BY MembershipTyped

LEMMA MembershipIssue ==
  ASSUME MembershipInv, NEW p \in Process, IssueMonth(p)
  PROVE  MembershipInv'
<1>1. TypeOK /\ Billing /\ Invoices /\ RefundsNoted /\ NoOverlap /\ LocksApart /\ ProcessRelies(p)
             /\ work[p].sub \in Sub
  BY MembershipTyped DEF MembershipInv, Work
<1> DEFINE k == work[p].on.month
<1>2. UNCHANGED <<desk, session, sub, invoice, refund, answer, now>>
  BY DEF IssueMonth, stripe
<1>3. /\ work' \in [Process -> Work] /\ \A q \in Process \ {p} : work'[q] = work[q]
      /\ work'[p].at = "idle"
  BY <1>1, WorkEnds DEF IssueMonth
<1>4. /\ work[p].on \in PaidEvents /\ card[k] = "none" /\ ~ Covers(desk[k]) /\ invoice[k] = "paid" /\ At(p, "checked")
  BY <1>1 DEF IssueMonth, ProcessRelies
<1>5. k \in Month /\ work[p].on = Ev("paid", k)
  BY <1>4 DEF PaidEvents, Ev
<1>6. bill' \in BillRow /\ bill'.bound = TRUE /\ bill'.status # "expired"
  BY <1>1, BillSynced DEF IssueMonth
<1>7. /\ card' \in [Month -> Access] /\ card'[k] = "active" /\ \A m \in Month \ {k} : card'[m] = card[m]
  BY <1>1, <1>5, MembershipTyped DEF IssueMonth, Access
<1>8. /\ ledger' \in [Month -> LedgerRow] /\ ledger'[k].payment = "paid" /\ ledger'[k].noted = ledger[k].noted
      /\ \A m \in Month \ {k} : ledger'[m] = ledger[m]
  <2> DEFINE r == [ledger[k] EXCEPT !.payment = "paid"]
  <2>1. ledger[k] \in LedgerRow
    BY <1>1, <1>5, MembershipTyped
  <2>2. r \in LedgerRow /\ r.payment = "paid" /\ r.noted = ledger[k].noted
    BY <2>1 DEF LedgerRow
  <2>3. ledger' = [ledger EXCEPT ![k] = r]
    BY DEF IssueMonth
  <2> HIDE DEF r, k
  <2> QED
    BY <1>1, <1>5, <2>2, <2>3, LedgerSet
<1>9. event' = event \ {Ev("paid", k)}
  BY <1>5 DEF IssueMonth
<1>10. TypeOK'
  <2>1. event' \subseteq Event
    BY <1>1, <1>9, MembershipTyped
  <2> QED
    BY <1>1, <1>2, <1>3, <1>6, <1>7, <1>8, <2>1 DEF TypeOK, Work, WorkSteps, Subject, BillRow, LedgerRow
<1>11. Billing'
  BY <1>1, <1>2, <1>6, <1>9, EvSame DEF Billing, ExpiredIsUnpayable
<1>12. Invoices'
  <2>1. \A m \in Month : Ev("paid", m) \in event' <=> Ev("paid", m) \in event /\ m # k
    BY <1>9, EvSame
  <2> SUFFICES ASSUME NEW m \in Month
               PROVE  /\ invoice'[m] # "none" => session' = "complete" /\ m <= now'
                      /\ Ev("paid", m) \in event' => invoice'[m] = "paid"
                      /\ invoice'[m] = "paid" => card'[m] # "none" \/ Ev("paid", m) \in event'
                      /\ card'[m] # "none" => invoice'[m] = "paid" /\ ledger'[m].payment # "none"
    BY ZenonT(30) DEF Invoices, Month, Ev
  <2>2. CASE m = k
    BY <1>1, <1>2, <1>4, <1>7, <1>8, <2>1, <2>2 DEF Invoices
  <2>3. CASE m # k
    BY <1>1, <1>2, <1>7, <1>8, <2>1, <2>3 DEF Invoices
  <2> QED
    BY <2>2, <2>3
<1>13. RefundsNoted'
  <2>1. \A m \in Month : Ev("refund", m) \in event' <=> Ev("refund", m) \in event
    BY <1>9, EvSame
  <2> SUFFICES ASSUME NEW m \in Month
               PROVE  /\ card'[m] = "none" => ledger'[m].payment = "none" /\ ledger'[m].noted = "none"
                      /\ ledger'[m].noted = "succeeded" <=> ledger'[m].payment = "refunded"
                      /\ Follows(ledger'[m].noted, refund'[m])
                      /\ Ev("refund", m) \notin event' => ledger'[m].noted = refund'[m]
    BY ZenonT(30) DEF RefundsNoted, Month, Ev, Follows
  <2>2. CASE m = k
    BY <1>1, <1>2, <1>4, <1>7, <1>8, <2>1, <2>2 DEF RefundsNoted
  <2>3. CASE m # k
    BY <1>1, <1>2, <1>7, <1>8, <2>1, <2>3 DEF RefundsNoted
  <2> QED
    BY <2>2, <2>3
<1>14. NoOverlap'
  BY <1>1, <1>2, <1>4, <1>7 DEF NoOverlap, Month
<1>15. ProcessRelies(p)' /\ \A m \in Month : Follows(refund[m], refund'[m]) /\ ~ Holds(p, m)'
  BY <1>2, <1>3 DEF Follows, Holds, ProcessRelies, At
<1>16. \A q \in Process \ {p} : ~ At(q, "checked")
  BY <1>1, <1>4 DEF LocksApart
<1>17. \A m \in Month : ledger'[m].noted = ledger[m].noted
  BY <1>8
<1>18. \A m \in Month : card[m] # "none" => card'[m] # "none"
  BY <1>7
<1> QED
  BY <1>2, <1>3, <1>6, <1>10, <1>11, <1>12, <1>13, <1>14, <1>15, <1>16, <1>17, <1>18, ProcessSteps

LEMMA NotedIsSo ==
  ASSUME TypeOK, NEW k \in Month, NEW s \in RefundStatus, Follows(ledger[k].noted, s),
         ledger[k].noted = "succeeded" <=> ledger[k].payment = "refunded"
  PROVE  /\ Noted(k, s) \in LedgerRow /\ Noted(k, s).noted = s
         /\ Noted(k, s).noted = "succeeded" <=> Noted(k, s).payment = "refunded"
         /\ ledger[k].payment # "none" => Noted(k, s).payment # "none"
<1> DEFINE old == ledger[k]
           pay == IF s = "succeeded" THEN "refunded" ELSE IF s = "failed" THEN "paid" ELSE old.payment
<1>1. old \in LedgerRow
  BY MembershipTyped
<1>2. CASE old.noted = s
  <2>1. Noted(k, s) = old
    BY <1>2 DEF Noted
  <2> QED
    BY <1>1, <1>2, <2>1
<1>3. CASE old.noted # s
  <2>1. Noted(k, s) = [noted |-> s, payment |-> pay]
    BY <1>3 DEF Noted, Follows
  <2>2. pay \in {"none", "paid", "refunded"} /\ (s = "succeeded" <=> pay = "refunded")
        /\ (old.payment # "none" => pay # "none")
    BY <1>1, <1>3 DEF LedgerRow, Follows
  <2> HIDE DEF pay
  <2> QED
    BY <2>1, <2>2 DEF LedgerRow
<1> QED
  BY <1>2, <1>3

\* A refund is noted, under the lock of its invoice.
LEMMA MembershipNotes ==
  ASSUME MembershipInv, NEW p \in Process, work[p].at \in {"fetched", "recording"}, Finish(p),
         ledger' = [ledger EXCEPT ![work[p].on.month] = Noted(work[p].on.month, work[p].refund)],
         UNCHANGED <<bill, card, desk, session, sub, invoice, refund, answer, now>>,
         \/ event' = event
         \/ event' = event \ {Ev("refund", work[p].on.month)} /\ refund[work[p].on.month] = work[p].refund
  PROVE  MembershipInv'
<1>1. TypeOK /\ Billing /\ Invoices /\ RefundsNoted /\ NoOverlap /\ LocksApart /\ ProcessRelies(p)
             /\ work[p].refund \in RefundStatus
  BY MembershipTyped DEF MembershipInv, Work
<1> DEFINE k == work[p].on.month
           s == work[p].refund
<1>2. /\ k \in Month /\ card[k] # "none" /\ Follows(ledger[k].noted, s) /\ Follows(s, refund[k])
  BY <1>1 DEF ProcessRelies
<1>3. /\ work' \in [Process -> Work] /\ \A q \in Process \ {p} : work'[q] = work[q]
      /\ work'[p].at = "idle"
  BY <1>1, WorkEnds
<1>4. /\ Noted(k, s) \in LedgerRow /\ Noted(k, s).noted = s
      /\ Noted(k, s).noted = "succeeded" <=> Noted(k, s).payment = "refunded"
      /\ ledger[k].payment # "none" => Noted(k, s).payment # "none"
  <2>1. ledger[k].noted = "succeeded" <=> ledger[k].payment = "refunded"
    BY <1>1, <1>2 DEF RefundsNoted
  <2> HIDE DEF k, s
  <2> QED
    BY <1>1, <1>2, <2>1, NotedIsSo DEF k, s
<1>5. /\ ledger' \in [Month -> LedgerRow] /\ ledger'[k] = Noted(k, s)
      /\ \A m \in Month \ {k} : ledger'[m] = ledger[m]
  BY <1>1, <1>2, <1>4, LedgerSet
<1>6. TypeOK'
  <2>1. event' \subseteq Event
    BY <1>1, MembershipTyped
  <2> QED
    BY <1>1, <1>3, <1>5, <2>1 DEF TypeOK, Work, WorkSteps, Subject, LedgerRow
<1>7. \A m \in Month : /\ Ev("paid", m) \in event' <=> Ev("paid", m) \in event
                       /\ Ev("refund", m) \in event' <=> Ev("refund", m) \in event /\ (m # k \/ event' = event)
  BY EvSame
<1>8. Billing'
  BY <1>1, EvSame DEF Billing, ExpiredIsUnpayable
<1>9. Invoices'
  <2> SUFFICES ASSUME NEW m \in Month
               PROVE  /\ invoice'[m] # "none" => session' = "complete" /\ m <= now'
                      /\ Ev("paid", m) \in event' => invoice'[m] = "paid"
                      /\ invoice'[m] = "paid" => card'[m] # "none" \/ Ev("paid", m) \in event'
                      /\ card'[m] # "none" => invoice'[m] = "paid" /\ ledger'[m].payment # "none"
    BY ZenonT(30) DEF Invoices, Month, Ev
  <2>1. card[m] # "none" => ledger'[m].payment # "none"
    BY <1>1, <1>2, <1>4, <1>5 DEF Invoices
  <2> QED
    BY <1>1, <1>7, <2>1 DEF Invoices
<1>10. RefundsNoted'
  <2> SUFFICES ASSUME NEW m \in Month
               PROVE  /\ card'[m] = "none" => ledger'[m].payment = "none" /\ ledger'[m].noted = "none"
                      /\ ledger'[m].noted = "succeeded" <=> ledger'[m].payment = "refunded"
                      /\ Follows(ledger'[m].noted, refund'[m])
                      /\ Ev("refund", m) \notin event' => ledger'[m].noted = refund'[m]
    BY ZenonT(30) DEF RefundsNoted, Month, Ev, Follows
  <2>1. CASE m = k
    <3>1. Ev("refund", k) \notin event' => s = refund[k]
      <4>1. CASE Ev("refund", k) \in event
        BY <1>2, <1>7, <4>1
      <4>2. CASE Ev("refund", k) \notin event
        <5>1. ledger[k].noted = refund[k]
          BY <1>1, <1>2, <4>2 DEF RefundsNoted
        <5>2. refund[k] \in RefundStatus
          BY <1>1, <1>2, MembershipTyped
        <5> QED
          BY <1>1, <1>2, <5>1, <5>2 DEF Follows, RefundStatus
      <4> QED
        BY <4>1, <4>2
    <3> QED
      BY <1>2, <1>4, <1>5, <2>1, <3>1
  <2>2. CASE m # k
    BY <1>1, <1>5, <1>7, <2>2 DEF RefundsNoted
  <2> QED
    BY <2>1, <2>2
<1>11. NoOverlap' /\ ProcessRelies(p)'
  BY <1>1, <1>3 DEF NoOverlap, ProcessRelies, At
<1>12. \A m \in Month : Follows(refund[m], refund'[m]) /\ ~ Holds(p, m)'
  BY <1>3 DEF Follows, Holds
<1>13. \A m \in Month : ledger'[m].noted = ledger[m].noted \/ \A q \in Process \ {p} : ~ Holds(q, m)
  <2>1. Holds(p, k)
    BY DEF Holds
  <2>2. \A q \in Process \ {p} : ~ Holds(q, k)
    BY <1>1, <1>2, <2>1 DEF LocksApart
  <2> QED
    BY <1>5, <2>2
<1> QED
  BY <1>3, <1>6, <1>8, <1>9, <1>10, <1>11, <1>12, <1>13, ProcessSteps

LEMMA MembershipApplyRefund ==
  ASSUME MembershipInv, NEW p \in Process, ApplyRefund(p)
  PROVE  MembershipInv'
<1>1. ProcessRelies(p) /\ work[p].at = "fetched"
  BY DEF MembershipInv, ApplyRefund, At
<1>2. work[p].on = Ev("refund", work[p].on.month)
  BY <1>1 DEF ProcessRelies, At, RefundEvents, Ev
<1> QED
  BY <1>1, <1>2, MembershipNotes DEF ApplyRefund, stripe

LEMMA MembershipRecordRefund ==
  ASSUME MembershipInv, NEW p \in Process, RecordRefund(p)
  PROVE  MembershipInv'
BY MembershipNotes DEF RecordRefund, stripe, At

LEMMA MembershipRefundByStaff ==
  ASSUME MembershipInv, NEW p \in Process, NEW k \in Month, RefundByStaff(p, k)
  PROVE  MembershipInv'
<1>1. TypeOK /\ Billing /\ Invoices /\ RefundsNoted /\ NoOverlap
  BY DEF MembershipInv
<1>2. card[k] # "none" /\ UNCHANGED <<bill, card, desk, ledger, session, sub, invoice, answer, now>>
  BY DEF RefundByStaff, rows
<1>3. PICK s \in RefundStatus :
        /\ refund' = [refund EXCEPT ![k] = s] /\ Follows(refund[k], s)
        /\ (event' = event /\ refund' = refund) \/ event' = event \cup {Ev("refund", k)}
  <2>1. CASE refund[k] # "none" /\ UNCHANGED <<refund, event>>
    BY <1>1, <2>1, MembershipTyped DEF Follows
  <2>2. ASSUME NEW s \in {"pending", "succeeded"}, refund[k] = "none", refund' = [refund EXCEPT ![k] = s],
               event' = event \cup {Ev("refund", k)}
        PROVE  s \in RefundStatus /\ Follows(refund[k], s)
    BY <2>2 DEF Follows, RefundStatus
  <2> QED
    BY <2>1, <2>2 DEF RefundByStaff
<1>4. /\ refund' \in [Month -> RefundStatus] /\ refund'[k] = s
      /\ \A m \in Month : Follows(refund[m], refund'[m]) /\ (refund'[m] = refund[m] \/ m = k)
  BY <1>1, <1>3, MembershipTyped DEF Follows
<1>5. /\ Ev("refunding", k) \in Subject /\ NoSub \in Sub /\ "recording" \in WorkSteps
      /\ Ev("refunding", k).month = k
  BY EvKinds, Subs DEF WorkSteps, Ev
<1>6. /\ work' \in [Process -> Work] /\ \A q \in Process \ {p} : work'[q] = work[q]
      /\ work'[p].at = "recording" /\ work'[p].on = Ev("refunding", k) /\ work'[p].refund = s
  <2>1. Goto(p, "recording", Ev("refunding", k), NoSub, s)
    BY <1>4 DEF RefundByStaff
  <2> QED
    BY <1>1, <1>5, <2>1, WorkGoes
<1>7. TypeOK'
  <2>1. event' \subseteq Event
    BY <1>1, <1>3, MembershipTyped, EvKinds
  <2> QED
    BY <1>1, <1>2, <1>4, <1>6, <2>1 DEF TypeOK, Work, WorkSteps, Subject
<1>8. \A m \in Month : /\ Ev("paid", m) \in event' <=> Ev("paid", m) \in event
                       /\ Ev("refund", m) \notin event' => Ev("refund", m) \notin event /\ refund'[m] = refund[m]
  BY <1>3, <1>4, EvSame
<1>9. Billing'
  BY <1>1, <1>2, <1>3, EvSame DEF Billing, ExpiredIsUnpayable
<1>10. Invoices'
  BY ZenonT(30), <1>1, <1>2, <1>8 DEF Invoices, Month, Ev
<1>11. RefundsNoted'
  <2> SUFFICES ASSUME NEW m \in Month
               PROVE  /\ card'[m] = "none" => ledger'[m].payment = "none" /\ ledger'[m].noted = "none"
                      /\ ledger'[m].noted = "succeeded" <=> ledger'[m].payment = "refunded"
                      /\ Follows(ledger'[m].noted, refund'[m])
                      /\ Ev("refund", m) \notin event' => ledger'[m].noted = refund'[m]
    BY ZenonT(30) DEF RefundsNoted, Month, Ev, Follows
  <2>1. /\ ledger[m].noted \in RefundStatus /\ refund[m] \in RefundStatus /\ refund'[m] \in RefundStatus
        /\ Follows(ledger[m].noted, refund[m])
    BY <1>1, <1>4, MembershipTyped DEF LedgerRow, RefundsNoted
  <2>2. Follows(ledger[m].noted, refund'[m])
    BY <1>4, <2>1, FollowsOn
  <2> QED
    BY <1>1, <1>2, <1>8, <2>2 DEF RefundsNoted
<1>12. NoOverlap' /\ Follows(ledger[k].noted, s)
  <2>1. /\ ledger[k].noted \in RefundStatus /\ refund[k] \in RefundStatus
        /\ Follows(ledger[k].noted, refund[k])
    BY <1>1, MembershipTyped DEF LedgerRow, RefundsNoted
  <2> QED
    BY <1>1, <1>2, <1>3, <2>1, FollowsOn DEF NoOverlap
<1>13. ProcessRelies(p)'
  BY <1>2, <1>4, <1>5, <1>6, <1>12 DEF ProcessRelies, At, Follows, Month
<1>14. \A m \in Month : Holds(p, m)' => \A q \in Process \ {p} : ~ Holds(q, m)
  BY <1>5, <1>6 DEF RefundByStaff, InvoiceFree, Holds
<1> QED
  BY <1>2, <1>4, <1>6, <1>7, <1>9, <1>10, <1>11, <1>12, <1>13, <1>14, ProcessSteps

LEMMA MembershipInit ==
  ASSUME Init
  PROVE  MembershipInv
<1>1. TypeOK
  <2>1. bill \in BillRow
    BY Months DEF Init, BillRow
  <2>2. Idle \in Work
    BY EvKinds, Subs DEF Idle, Work, WorkSteps, RefundStatus
  <2>3. work \in [Process -> Work]
    BY <2>2 DEF Init
  <2> QED
    BY <2>1, <2>3, MembershipTyped, Months, Subs DEF Init, Access, LedgerRow, RefundStatus
<1>2. Billing /\ Invoices /\ RefundsNoted /\ NoOverlap
  BY Subs DEF Init, Billing, ExpiredIsUnpayable, Invoices, RefundsNoted, NoOverlap, Covers, Follows
<1>3. LocksApart /\ \A p \in Process : ProcessRelies(p)
  BY DEF Init, Idle, LocksApart, ProcessRelies, At, Holds
<1> QED
  BY <1>1, <1>2, <1>3 DEF MembershipInv

LEMMA MembershipNext ==
  ASSUME MembershipInv, Next
  PROVE  MembershipInv'
<1>1. Delivery \subseteq Process /\ Caller \subseteq Process /\ Canceller \subseteq Process /\ Staffer \subseteq Process
      /\ RefundMonth \subseteq Month
  BY MonthsAssumption DEF Process, Month
<1>2. CASE Stripe
  BY <1>1, <1>2, MembershipSubscribe, MembershipExpireSession, MembershipNextMonth, MembershipLapse,
     MembershipPayLate,
     MembershipRefunded DEF Stripe
<1>3. ASSUME NEW p \in Delivery, Deliver(p) PROVE MembershipInv'
  BY <1>1, <1>3, MembershipRetrieve, MembershipApplyChange, MembershipCheckOverlap, MembershipIssue,
     MembershipSkipInvoice,
     MembershipFetchRefund, MembershipApplyRefund DEF Deliver
<1>4. ASSUME NEW p \in Caller, Checkout(p) PROVE MembershipInv'
  BY <1>1, <1>4, MembershipStartCheckout, MembershipCreateSession, MembershipSaveSession DEF Checkout
<1>5. ASSUME NEW p \in Canceller, Cancel(p) PROVE MembershipInv'
  BY <1>1, <1>5, MembershipReadBill, MembershipDecide, MembershipCancelAtStripe, MembershipEndSession,
     MembershipEndBill
     DEF Cancel
<1>6. ASSUME NEW p \in Staffer, RecordRefund(p) \/ \E m \in RefundMonth : RefundByStaff(p, m) PROVE MembershipInv'
  BY <1>1, <1>6, MembershipRecordRefund, MembershipRefundByStaff
<1> QED
  BY <1>2, <1>3, <1>4, <1>5, <1>6, MembershipDesk, MembershipDeliverExpired, MembershipGiveUp DEF Next

LEMMA MembershipStay ==
  ASSUME MembershipInv, UNCHANGED vars
  PROVE  MembershipInv'
<1>1. UNCHANGED <<bill, card, desk, ledger, work>> /\ UNCHANGED <<session, sub, invoice, refund, answer, event, now>>
  BY DEF vars, rows, stripe
<1>2. TypeOK' /\ Billing' /\ Invoices' /\ RefundsNoted'
  BY <1>1 DEF MembershipInv, TypeOK, Billing, ExpiredIsUnpayable, Invoices, RefundsNoted, Month, Ev
<1>3. \A m \in Month : Follows(refund[m], refund'[m])
  BY <1>1 DEF Follows
<1> QED
  BY <1>1, <1>2, <1>3, StripeSteps

LEMMA MembershipHolds ==
  ASSUME MembershipInv
  PROVE  TypeOK /\ NoOverlap /\ IssuedIsPaid /\ PaidIsIssued /\ ExpiredIsUnpayable /\ LedgerSettles
<1>1. IssuedIsPaid /\ PaidIsIssued
  BY DEF MembershipInv, Invoices, IssuedIsPaid, PaidIsIssued, Quiet
<1>2. LedgerSettles
  BY DEF MembershipInv, RefundsNoted, LedgerSettles, Quiet
<1> QED
  BY <1>1, <1>2 DEF MembershipInv, Billing

LEMMA DateStandsStep ==
  ASSUME MembershipInv, Next
  PROVE  bill.effective # 0 => bill'.effective = bill.effective
<1>1. bill \in BillRow
  BY MembershipTyped DEF MembershipInv
<1>2. \A s : Synced(s).effective = bill.effective
  BY <1>1 DEF Synced, BillRow
<1>3. ASSUME Stripe \/ Desk \/ DeliverExpired PROVE bill.effective # 0 => bill'.effective = bill.effective
  BY <1>1, <1>3 DEF BillRow, Stripe, Desk, DeliverExpired, Subscribe, ExpireSession, NextMonth, Lapse, PayLate,
     RefundMoves,
     RefundAtDashboard, IssueFree, CancelDesk, IssueAtDesk, SetCard, SetDesk, rows
<1>4. ASSUME NEW p, Deliver(p) PROVE bill.effective # 0 => bill'.effective = bill.effective
  BY <1>1, <1>2, <1>4 DEF Deliver, Retrieve, ApplyChange, CheckOverlap, IssueMonth, SkipInvoice, FetchRefund,
     ApplyRefund, rows
<1>5. ASSUME NEW p, Checkout(p) PROVE bill.effective # 0 => bill'.effective = bill.effective
  BY <1>1, <1>5 DEF BillRow, Checkout, StartCheckout, CreateSession, SaveSession, rows
<1>6. ASSUME NEW p, Cancel(p) PROVE bill.effective # 0 => bill'.effective = bill.effective
  BY <1>1, <1>2, <1>6 DEF BillRow, Cancel, ReadBill, Decide, CancelAtStripe, EndSession, EndBill, rows
<1>7. ASSUME NEW p, GiveUp(p) \/ RecordRefund(p) \/ \E m \in RefundMonth : RefundByStaff(p, m)
      PROVE bill.effective # 0 => bill'.effective = bill.effective
  BY <1>7 DEF GiveUp, RecordRefund, RefundByStaff, rows
<1> QED
  BY <1>3, <1>4, <1>5, <1>6, <1>7 DEF Next

\* A membership is paid for once, for money that Stripe has, and the ledger
\* and Stripe agree in the end, whatever is late, repeated or cancelled.
THEOREM MembershipsCorrect ==
  Spec => [](TypeOK /\ NoOverlap /\ IssuedIsPaid /\ PaidIsIssued /\ ExpiredIsUnpayable /\ LedgerSettles) /\ DateStands
<1> DEFINE stands == bill.effective # 0 => bill'.effective = bill.effective
<1>1. Init => MembershipInv
  BY MembershipInit
<1>2. MembershipInv /\ [Next]_vars => MembershipInv'
  BY MembershipNext, MembershipStay
<1>3. MembershipInv => TypeOK /\ NoOverlap /\ IssuedIsPaid /\ PaidIsIssued /\ ExpiredIsUnpayable /\ LedgerSettles
  BY MembershipHolds
<1>4. MembershipInv /\ [Next]_vars => [stands]_vars
  BY DateStandsStep
<1> QED
  BY <1>1, <1>2, <1>3, <1>4, PTL DEF Spec, DateStands

-----------------------------------------------------------------------------
(* Studio rentals.                                                         *)

RentalRow == [status : {"none", "pending", "confirmed", "cancelled", "expired"},
              pay : {"unpaid", "paid", "refund_pending", "refund_failed", "refunded"},
              checkout : BOOLEAN, owed : BOOLEAN]
RentalSessions == {"none", "open", "processing", "paid", "failed", "expired"}
RentalRefunds == {"none", "pending", "succeeded", "failed"}
CallPlaces == {"idle", "checkout", "save", "close", "paid", "failed", "gone", "cancel", "refund",
               "apply", "unsure", "heldFailed", "heldRefund"}
Aim == {"book", "sync", "cancel"}

\* What a call carries with it, from step to step.
Asking == [pc : CallPlaces, r : Rental, for : Aim]
Asked == [pc : CallPlaces, r : Rental, for : Aim, found : RentalSessions]
Answered == [pc : CallPlaces, r : Rental, found : RentalSessions \cup RentalRefunds]
Delivering == [pc : CallPlaces, r : Rental, found : RentalRefunds, kind : {"created", "updated"}]
CallRecords == {S!Idle} \cup Asking \cup Asked \cup Answered \cup Delivering

\* What Stripe tells is true of what Stripe has.
StripeTold ==
  \A r \in Rental :
    /\ <<"completed", r>> \in events => rentalSession[r] = "paid"
    /\ <<"expired", r>> \in events => rentalSession[r] = "expired"
    /\ <<"failed", r>> \in events => rentalSession[r] = "failed"
    /\ <<"created", r>> \in events => rentalRefund[r] # "none"
    /\ <<"updated", r>> \in events => rentalRefund[r] \in {"succeeded", "failed"}

\* A rental paid by card, with its session and its refund.
RentalAgrees(r) ==
  /\ rental[r].status = "pending" => rental[r].pay = "unpaid"
  /\ rental[r].status = "confirmed" => rentalSession[r] = "paid" /\ rental[r].pay = "paid"
  /\ rental[r].status = "expired" \/ (rental[r].status = "cancelled" /\ rental[r].pay = "unpaid")
       => rentalSession[r] \in {"failed", "expired"}
  /\ rental[r].owed => /\ rental[r].status = "cancelled"
                       /\ rental[r].pay \in {"refund_pending", "refund_failed", "refunded"}
  /\ rentalRefund[r] # "none" => rental[r].owed
  /\ rental[r].pay = "refunded" => rentalRefund[r] = "succeeded"
  /\ rentalRefund[r] = "succeeded" =>
       rental[r].pay = "refunded" \/ <<"created", r>> \in events \/ <<"updated", r>> \in events

\* What a call relies on.
CallRelies(c) ==
  LET r == call[c].r
      pc == call[c].pc
  IN /\ pc \in {"checkout", "save", "close", "paid", "failed", "gone", "refund", "unsure", "apply"} =>
          r \in Card /\ rental[r].status # "none"
     /\ pc = "checkout" => call[c] \in Asking
     /\ pc = "save" => /\ call[c] \in Asked
                       /\ call[c].found \in {"paid", "failed", "expired"} => rentalSession[r] = call[c].found
     /\ pc \in {"close", "paid", "failed", "gone"} => call[c] \in Asked
     /\ pc = "paid" => rentalSession[r] = "paid"
     /\ pc = "failed" => rentalSession[r] = "failed"
     /\ pc = "gone" => rentalSession[r] = "expired"
     /\ pc = "cancel" => /\ call[c] \in Asking \cup Asked
                         /\ rental[r].status # "none"
                         /\ r \in Card /\ rental[r].status = "pending" => rentalSession[r] = "expired"
     /\ pc \in {"refund", "unsure"} => call[c] \in Asking \cup Asked /\ rental[r].owed
     /\ pc = "apply" => /\ call[c] \in Answered /\ call[c].found \in RentalRefunds \ {"none"} /\ rentalRefund[r] # "none"
                        /\ call[c].found # "pending" => rentalRefund[r] = call[c].found
     /\ pc = "heldFailed" => call[c] \in Answered /\ call[c].found = "failed" /\ rentalSession[r] = "failed"
     /\ pc = "heldRefund" =>
          /\ call[c] \in Delivering /\ call[c].found # "none" /\ rentalRefund[r] # "none"
          /\ call[c].found # "pending" => rentalRefund[r] = call[c].found
          /\ call[c].found = "pending" =>
               call[c].kind = "created" /\ (rentalRefund[r] = "pending" \/ <<"updated", r>> \in events)

Holding(c) == call[c].pc \in {"heldFailed", "heldRefund"}
DeliveriesApart == \A c, d \in Call : c # d /\ Holding(c) /\ Holding(d) => call[c].r # call[d].r

RentalsInv ==
  /\ S!TypeOK /\ call \in [Call -> CallRecords] /\ StripeTold /\ DeliveriesApart
  /\ \A r \in Card : RentalAgrees(r)
  /\ \A c \in Call : CallRelies(c)

-----------------------------------------------------------------------------

EventSet == {"completed", "expired", "failed", "created", "updated"} \X Rental

LEMMA RentalsTyped ==
  S!TypeOK <=> /\ rental \in [Rental -> RentalRow] /\ over \in [Rental -> BOOLEAN]
               /\ rentalSession \in [Rental -> RentalSessions] /\ rentalRefund \in [Rental -> RentalRefunds]
               /\ events \in SUBSET EventSet
               /\ \A c \in Call : call[c].pc \in CallPlaces
BY DEF S!TypeOK, RentalRow, RentalSessions, RentalRefunds, EventSet, CallPlaces

LEMMA CallTyped ==
  ASSUME NEW f \in CallRecords
  PROVE  f.pc \in CallPlaces
BY DEF CallRecords, S!Idle, Asking, Asked, Answered, Delivering, CallPlaces

LEMMA CallSet ==
  ASSUME call \in [Call -> CallRecords], NEW c \in Call, NEW f \in CallRecords, call' = [call EXCEPT ![c] = f]
  PROVE  /\ call' \in [Call -> CallRecords] /\ call'[c] = f /\ \A d \in Call \ {c} : call'[d] = call[d]
         /\ \A d \in Call : call'[d].pc \in CallPlaces
BY CallTyped

LEMMA CallReturns ==
  ASSUME call \in [Call -> CallRecords], NEW c \in Call, S!Return(c)
  PROVE  /\ call' \in [Call -> CallRecords] /\ call'[c].pc = "idle" /\ \A d \in Call \ {c} : call'[d] = call[d]
         /\ \A d \in Call : call'[d].pc \in CallPlaces
<1>1. S!Idle \in CallRecords /\ S!Idle.pc = "idle"
  BY DEF S!Idle, CallRecords
<1> QED
  BY <1>1, CallSet DEF S!Return

LEMMA CallGoes ==
  ASSUME call \in [Call -> CallRecords], NEW c \in Call, NEW pc \in CallPlaces, S!Goto(c, pc), call[c] \in Asking \cup Asked
  PROVE  /\ call' \in [Call -> CallRecords] /\ \A d \in Call \ {c} : call'[d] = call[d]
         /\ \A d \in Call : call'[d].pc \in CallPlaces
         /\ call'[c].pc = pc /\ call'[c].r = call[c].r /\ call'[c].for = call[c].for
         /\ call'[c] \in Asking \cup Asked
         /\ call[c] \in Asked => call'[c] \in Asked /\ call'[c].found = call[c].found
<1> DEFINE f == [call[c] EXCEPT !.pc = pc]
<1>1. /\ f \in Asking \cup Asked /\ f.pc = pc /\ f.r = call[c].r /\ f.for = call[c].for
      /\ call[c] \in Asked => f \in Asked /\ f.found = call[c].found
  <2>1. CASE call[c] \in Asking
    <3>1. f \in Asking /\ f.pc = pc /\ f.r = call[c].r /\ f.for = call[c].for
      BY <2>1 DEF Asking
    <3>2. call[c] \notin Asked
      <4>1. DOMAIN call[c] = {"pc", "r", "for"}
        BY <2>1 DEF Asking
      <4>2. \A g \in Asked : DOMAIN g = {"pc", "r", "for", "found"}
        BY DEF Asked
      <4> QED
        BY <4>1, <4>2
    <3> QED
      BY <3>1, <3>2
  <2>2. CASE call[c] \in Asked
    BY <2>2 DEF Asked
  <2> QED
    BY <2>1, <2>2
<1>2. call' = [call EXCEPT ![c] = f]
  BY DEF S!Goto
<1>3. f \in CallRecords
  BY <1>1 DEF CallRecords
<1> HIDE DEF f
<1> QED
  BY <1>1, <1>2, <1>3, CallSet

\* What the other calls rely on is left to them.
LEMMA CallReliesStays ==
  ASSUME RentalsInv, NEW d \in Call, call'[d] = call[d],
         \A r \in Rental : rentalSession[r] \in {"paid", "failed", "expired"} => rentalSession'[r] = rentalSession[r],
         \A r \in Rental : rental[r].status # "none" =>
           rental'[r].status # "none" /\ (rental'[r].status = "pending" => rental[r].status = "pending"),
         \A r \in Card : rental[r].owed => rental'[r].owed,
         \A r \in Rental :
           \/ rentalRefund'[r] = rentalRefund[r]
           \/ rentalRefund[r] = "none" /\ rentalRefund'[r] # "none"
           \/ rentalRefund[r] = "pending" /\ rentalRefund'[r] # "none" /\ <<"updated", r>> \in events',
         \A r \in Rental : <<"updated", r>> \in events =>
           <<"updated", r>> \in events' \/ ~ (Holding(d) /\ call[d].r = r)
  PROVE  CallRelies(d)'
<1> DEFINE r == call[d].r
           pc == call[d].pc
<1>1. CallRelies(d) /\ call[d] \in CallRecords
  BY DEF RentalsInv
<1>2. pc # "idle" => r \in Rental
  BY <1>1 DEF CallRecords, S!Idle, Asking, Asked, Answered, Delivering
<1>3. ASSUME pc \in {"checkout", "save", "close", "paid", "failed", "gone", "cancel", "refund", "unsure"}
      PROVE  CallRelies(d)'
  BY <1>1, <1>2, <1>3 DEF CallRelies
<1>4. ASSUME pc = "apply" PROVE CallRelies(d)'
  BY ZenonT(60), <1>1, <1>2, <1>4 DEF CallRelies
<1>5. ASSUME pc \in {"heldFailed", "heldRefund"} PROVE CallRelies(d)'
  BY <1>1, <1>2, <1>5 DEF CallRelies, Holding
<1>6. ASSUME pc = "idle" PROVE CallRelies(d)'
  BY <1>6 DEF CallRelies
<1>7. pc \in CallPlaces
  BY <1>1, CallTyped
<1> QED
  BY <1>3, <1>4, <1>5, <1>6, <1>7 DEF CallPlaces

LEMMA RentalAgreesStays ==
  ASSUME NEW r \in Rental, RentalAgrees(r), rental'[r] = rental[r], rentalRefund'[r] = rentalRefund[r],
         rentalSession[r] \in {"paid", "failed", "expired"} => rentalSession'[r] = rentalSession[r],
         \A which \in {"created", "updated"} : <<which, r>> \in events => <<which, r>> \in events'
  PROVE  RentalAgrees(r)'
BY DEF RentalAgrees

\* A step that no call takes.
LEMMA RentalsMove ==
  ASSUME RentalsInv, call' = call, S!TypeOK', StripeTold', \A r \in Card : RentalAgrees(r)',
         \A r \in Rental : rentalSession[r] \in {"paid", "failed", "expired"} => rentalSession'[r] = rentalSession[r],
         \A r \in Rental : rental[r].status # "none" =>
           rental'[r].status # "none" /\ (rental'[r].status = "pending" => rental[r].status = "pending"),
         \A r \in Card : rental[r].owed => rental'[r].owed,
         \A r \in Rental :
           \/ rentalRefund'[r] = rentalRefund[r]
           \/ rentalRefund[r] = "none" /\ rentalRefund'[r] # "none"
           \/ rentalRefund[r] = "pending" /\ rentalRefund'[r] # "none" /\ <<"updated", r>> \in events',
         \A r \in Rental : <<"updated", r>> \in events => <<"updated", r>> \in events'
  PROVE  RentalsInv'
<1>1. ASSUME NEW d \in Call PROVE CallRelies(d)'
  BY CallReliesStays
<1>2. call' \in [Call -> CallRecords] /\ DeliveriesApart'
  BY DEF RentalsInv, DeliveriesApart, Holding
<1> QED
  BY <1>1, <1>2 DEF RentalsInv

\* A step of a call.
LEMMA CallSteps ==
  ASSUME RentalsInv, NEW c \in Call, call' \in [Call -> CallRecords], \A d \in Call \ {c} : call'[d] = call[d],
         S!TypeOK', StripeTold', \A r \in Card : RentalAgrees(r)', CallRelies(c)',
         Holding(c)' => \A d \in Call \ {c} : Holding(d) => call[d].r # call'[c].r,
         \A r \in Rental : rentalSession[r] \in {"paid", "failed", "expired"} => rentalSession'[r] = rentalSession[r],
         \A r \in Rental : rental[r].status # "none" =>
           rental'[r].status # "none" /\ (rental'[r].status = "pending" => rental[r].status = "pending"),
         \A r \in Card : rental[r].owed => rental'[r].owed,
         \A r \in Rental :
           \/ rentalRefund'[r] = rentalRefund[r]
           \/ rentalRefund[r] = "none" /\ rentalRefund'[r] # "none"
           \/ rentalRefund[r] = "pending" /\ rentalRefund'[r] # "none" /\ <<"updated", r>> \in events',
         \A r \in Rental : <<"updated", r>> \in events =>
           <<"updated", r>> \in events' \/ \A d \in Call \ {c} : ~ (Holding(d) /\ call[d].r = r)
  PROVE  RentalsInv'
<1>1. ASSUME NEW d \in Call \ {c} PROVE CallRelies(d)'
  BY CallReliesStays
<1>2. DeliveriesApart'
  <2> SUFFICES ASSUME NEW d \in Call, NEW e \in Call, d # e, Holding(d)', Holding(e)'
               PROVE  call'[d].r # call'[e].r
    BY DEF DeliveriesApart
  <2>1. \A b \in Call \ {c} : Holding(b)' <=> Holding(b)
    BY DEF Holding
  <2>2. DeliveriesApart
    BY DEF RentalsInv
  <2> QED
    BY <2>1, <2>2 DEF DeliveriesApart
<1> QED
  BY <1>1, <1>2 DEF RentalsInv

-----------------------------------------------------------------------------
Statuses == {"none", "pending", "confirmed", "cancelled", "expired"}
Pays == {"unpaid", "paid", "refund_pending", "refund_failed", "refunded"}

\* The row of r, and no other, becomes this.
Becomes(r, status, pay, checkout, owed) ==
  /\ rental' \in [Rental -> RentalRow]
  /\ \A q \in Rental \ {r} : rental'[q] = rental[q]
  /\ rental'[r].status = status /\ rental'[r].pay = pay
  /\ rental'[r].checkout = checkout /\ rental'[r].owed = owed

LEMMA RowSet ==
  ASSUME rental \in [Rental -> RentalRow], NEW r \in Rental, NEW status \in Statuses, NEW pay \in Pays,
         rental' = S!Set(r, status, pay)
  PROVE  Becomes(r, status, pay, rental[r].checkout, rental[r].owed)
<1> DEFINE entry == [rental[r] EXCEPT !.status = status, !.pay = pay]
<1>1. entry \in RentalRow /\ entry.status = status /\ entry.pay = pay
      /\ entry.checkout = rental[r].checkout /\ entry.owed = rental[r].owed
  BY DEF RentalRow, Statuses, Pays
<1>2. rental' = [rental EXCEPT ![r] = entry]
  BY DEF S!Set
<1> HIDE DEF entry
<1> QED
  BY <1>1, <1>2 DEF Becomes

LEMMA RowPays ==
  ASSUME rental \in [Rental -> RentalRow], NEW r \in Rental, NEW pay \in Pays,
         rental' = [rental EXCEPT ![r].pay = pay]
  PROVE  Becomes(r, rental[r].status, pay, rental[r].checkout, rental[r].owed)
<1> DEFINE entry == [rental[r] EXCEPT !.pay = pay]
<1>1. entry \in RentalRow /\ entry.status = rental[r].status /\ entry.pay = pay
      /\ entry.checkout = rental[r].checkout /\ entry.owed = rental[r].owed
  BY DEF RentalRow, Pays
<1>2. rental' = [rental EXCEPT ![r] = entry]
  OBVIOUS
<1> HIDE DEF entry
<1> QED
  BY <1>1, <1>2 DEF Becomes

LEMMA RowStays ==
  ASSUME rental \in [Rental -> RentalRow], NEW r \in Rental, rental' = rental
  PROVE  Becomes(r, rental[r].status, rental[r].pay, rental[r].checkout, rental[r].owed)
BY DEF Becomes

LEMMA RowSaves ==
  ASSUME rental \in [Rental -> RentalRow], NEW r \in Rental,
         rental' = [rental EXCEPT ![r].checkout = TRUE]
  PROVE  Becomes(r, rental[r].status, rental[r].pay, TRUE, rental[r].owed)
<1> DEFINE entry == [rental[r] EXCEPT !.checkout = TRUE]
<1>1. entry \in RentalRow /\ entry.status = rental[r].status /\ entry.pay = rental[r].pay
      /\ entry.checkout = TRUE /\ entry.owed = rental[r].owed
  BY DEF RentalRow
<1>2. rental' = [rental EXCEPT ![r] = entry]
  OBVIOUS
<1> HIDE DEF entry
<1> QED
  BY <1>1, <1>2 DEF Becomes

LEMMA RowCancels ==
  ASSUME rental \in [Rental -> RentalRow], NEW r \in Rental, NEW owed \in BOOLEAN,
         rental' = [rental EXCEPT ![r].status = "cancelled", ![r].owed = owed,
                      ![r].pay = IF owed THEN "refund_pending" ELSE @]
  PROVE  Becomes(r, "cancelled", IF owed THEN "refund_pending" ELSE rental[r].pay, rental[r].checkout, owed)
<1> DEFINE pay == IF owed THEN "refund_pending" ELSE rental[r].pay
           entry == [rental[r] EXCEPT !.status = "cancelled", !.owed = owed, !.pay = pay]
<1>1. pay \in Pays
  BY DEF RentalRow, Pays
<1>2. rental' = [rental EXCEPT ![r] = entry]
  OBVIOUS
<1> HIDE DEF pay
<1>3. entry \in RentalRow /\ entry.status = "cancelled" /\ entry.pay = pay
      /\ entry.checkout = rental[r].checkout /\ entry.owed = owed
  BY <1>1 DEF RentalRow, Pays
<1> HIDE DEF entry
<1>4. Becomes(r, "cancelled", pay, rental[r].checkout, owed)
  BY ZenonT(60), <1>2, <1>3 DEF Becomes
<1> QED
  BY <1>4 DEF pay

LEMMA RowCompletes ==
  ASSUME rental \in [Rental -> RentalRow], NEW r \in Rental, rental' = S!Complete(r)
  PROVE  IF rental[r].status = "pending" THEN Becomes(r, "confirmed", "paid", TRUE, rental[r].owed)
         ELSE Becomes(r, rental[r].status, rental[r].pay, rental[r].checkout, rental[r].owed)
<1>1. CASE rental[r].status = "pending"
  <2> DEFINE entry == [rental[r] EXCEPT !.status = "confirmed", !.pay = "paid", !.checkout = TRUE]
  <2>1. entry \in RentalRow /\ entry.status = "confirmed" /\ entry.pay = "paid"
        /\ entry.checkout = TRUE /\ entry.owed = rental[r].owed
    BY DEF RentalRow
  <2>2. rental' = [rental EXCEPT ![r] = entry]
    BY <1>1 DEF S!Complete
  <2> HIDE DEF entry
  <2> QED
    BY <1>1, <2>1, <2>2 DEF Becomes
<1>2. CASE rental[r].status # "pending"
  BY <1>2, RowStays DEF S!Complete
<1> QED
  BY <1>1, <1>2

LEMMA RowExpires ==
  ASSUME rental \in [Rental -> RentalRow], NEW r \in Rental, rental' = S!Expired(r)
  PROVE  IF rental[r].status = "pending" /\ rental[r].pay = "unpaid"
         THEN Becomes(r, "expired", "unpaid", rental[r].checkout, rental[r].owed)
         ELSE Becomes(r, rental[r].status, rental[r].pay, rental[r].checkout, rental[r].owed)
<1>1. CASE rental[r].status = "pending" /\ rental[r].pay = "unpaid"
  <2>1. rental' = S!Set(r, "expired", "unpaid")
    BY <1>1 DEF S!Expired
  <2>2. "expired" \in Statuses /\ "unpaid" \in Pays
    BY DEF Statuses, Pays
  <2> QED
    BY <1>1, <2>1, <2>2, RowSet
<1>2. CASE ~ (rental[r].status = "pending" /\ rental[r].pay = "unpaid")
  BY <1>2, RowStays DEF S!Expired
<1> QED
  BY <1>1, <1>2

Settles(r, found) ==
  /\ rental[r].status = "cancelled" /\ rental[r].owed
  /\ rental[r].pay \in {"refund_pending", "refund_failed"} \/ (rental[r].pay = "refunded" /\ found = "failed")
  /\ ~ (rental[r].pay = "refund_failed" /\ found = "pending")

LEMMA RowSettles ==
  ASSUME rental \in [Rental -> RentalRow], NEW r \in Rental, NEW found \in RentalRefunds, rental' = S!Applied(r, found)
  PROVE  IF Settles(r, found)
         THEN Becomes(r, rental[r].status, S!PayOf(found), rental[r].checkout, rental[r].owed)
         ELSE Becomes(r, rental[r].status, rental[r].pay, rental[r].checkout, rental[r].owed)
<1>1. CASE Settles(r, found)
  <2>1. S!PayOf(found) \in Pays
    BY DEF S!PayOf, Pays
  <2>2. rental' = [rental EXCEPT ![r].pay = S!PayOf(found)]
    BY <1>1 DEF S!Applied, Settles
  <2> QED
    BY <1>1, <2>1, <2>2, RowPays
<1>2. CASE ~ Settles(r, found)
  <2>1. rental' = rental
    BY <1>2 DEF S!Applied, Settles
  <2> QED
    BY <1>2, <2>1, RowStays
<1> QED
  BY <1>1, <1>2

LEMMA RowDoubts ==
  ASSUME rental \in [Rental -> RentalRow], NEW r \in Rental, rental' = S!Doubt(r)
  PROVE  IF rental[r].pay = "refund_pending"
         THEN Becomes(r, rental[r].status, "refund_failed", rental[r].checkout, rental[r].owed)
         ELSE Becomes(r, rental[r].status, rental[r].pay, rental[r].checkout, rental[r].owed)
<1>1. CASE rental[r].pay = "refund_pending"
  <2>1. "refund_failed" \in Pays /\ rental' = [rental EXCEPT ![r].pay = "refund_failed"]
    BY <1>1 DEF S!Doubt, Pays
  <2> QED
    BY <1>1, <2>1, RowPays
<1>2. CASE rental[r].pay # "refund_pending"
  BY <1>2, RowStays DEF S!Doubt
<1> QED
  BY <1>1, <1>2

-----------------------------------------------------------------------------
LEMMA RentalsTypedNext ==
  ASSUME rental' \in [Rental -> RentalRow], over' \in [Rental -> BOOLEAN], rentalSession' \in [Rental -> RentalSessions],
         rentalRefund' \in [Rental -> RentalRefunds], events' \in SUBSET EventSet, \A c \in Call : call'[c].pc \in CallPlaces
  PROVE  S!TypeOK'
BY DEF S!TypeOK, RentalRow, RentalSessions, RentalRefunds, EventSet, CallPlaces

LEMMA RentalsKnown ==
  ASSUME RentalsInv
  PROVE  /\ rental \in [Rental -> RentalRow] /\ over \in [Rental -> BOOLEAN]
         /\ rentalSession \in [Rental -> RentalSessions]
         /\ rentalRefund \in [Rental -> RentalRefunds] /\ events \in SUBSET EventSet /\ call \in [Call -> CallRecords]
         /\ \A c \in Call : call[c].pc \in CallPlaces /\ call[c] \in CallRecords
         /\ StripeTold /\ DeliveriesApart /\ S!TypeOK /\ (\A r \in Card : RentalAgrees(r)) /\ (\A c \in Call : CallRelies(c))
BY RentalsTyped DEF RentalsInv

\* A row goes on, and gives back no date that it did not have.
LEMMA RowGoes ==
  ASSUME NEW r \in Rental, NEW status, NEW pay, NEW checkout, NEW owed,
         Becomes(r, status, pay, checkout, owed),
         rental[r].status # "none" => status # "none" /\ (status = "pending" => rental[r].status = "pending"),
         r \in Card /\ rental[r].owed => owed
  PROVE  /\ \A q \in Rental : rental[q].status # "none" =>
              rental'[q].status # "none" /\ (rental'[q].status = "pending" => rental[q].status = "pending")
         /\ \A q \in Card : rental[q].owed => rental'[q].owed
BY RentalsAssumption DEF Becomes

LEMMA CreateStep ==
  ASSUME RentalsInv, NEW r \in Rental, S!Create(r)
  PROVE  RentalsInv'
<1>1. /\ rental[r].status = "none" /\ rental' = S!Set(r, "pending", "unpaid")
      /\ UNCHANGED <<over, rentalSession, rentalRefund, events, call>>
  BY DEF S!Create
<1>2. Becomes(r, "pending", "unpaid", rental[r].checkout, rental[r].owed)
  <2>1. "pending" \in Statuses /\ "unpaid" \in Pays
    BY DEF Statuses, Pays
  <2> QED
    BY <1>1, <2>1, RowSet, RentalsKnown
<1>3. S!TypeOK'
  BY <1>1, <1>2, RentalsKnown, RentalsTypedNext DEF Becomes
<1>4. StripeTold'
  BY ZenonT(30), <1>1, RentalsKnown DEF StripeTold
<1>5. ASSUME NEW q \in Card PROVE RentalAgrees(q)'
  <2>1. q \in Rental /\ RentalAgrees(q)
    BY RentalsKnown, RentalsAssumption
  <2>2. CASE q = r
    BY <1>1, <1>2, <2>1, <2>2 DEF RentalAgrees, Becomes
  <2>3. CASE q # r
    BY <1>1, <1>2, <2>1, <2>3, RentalAgreesStays DEF Becomes
  <2> QED
    BY <2>2, <2>3
<1> QED
  BY <1>1, <1>2, <1>3, <1>4, <1>5, RowGoes, RentalsMove

\* A step at the desk is none of the card rentals'.
LEMMA RentalsAtDesk ==
  ASSUME RentalsInv, rental' \in [Rental -> RentalRow], UNCHANGED <<over, rentalSession, rentalRefund, events, call>>,
         \A r \in Card : rental'[r] = rental[r],
         \A r \in Rental : rental[r].status # "none" =>
           rental'[r].status # "none" /\ (rental'[r].status = "pending" => rental[r].status = "pending"),
         \A r \in Card : rental[r].owed => rental'[r].owed
  PROVE  RentalsInv'
<1>1. S!TypeOK'
  BY RentalsKnown, RentalsTypedNext
<1>2. StripeTold'
  BY ZenonT(30), RentalsKnown DEF StripeTold
<1>3. ASSUME NEW q \in Card PROVE RentalAgrees(q)'
  BY RentalsKnown, RentalsAssumption, RentalAgreesStays
<1> QED
  BY <1>1, <1>2, <1>3, RentalsMove

LEMMA ManualPayStep ==
  ASSUME RentalsInv, NEW r \in Rental, S!ManualPay(r)
  PROVE  RentalsInv'
<1>1. /\ r \notin Card /\ rental[r].status = "pending" /\ rental' = S!Set(r, "confirmed", "paid")
      /\ UNCHANGED <<over, rentalSession, rentalRefund, events, call>>
  BY DEF S!ManualPay
<1>2. Becomes(r, "confirmed", "paid", rental[r].checkout, rental[r].owed)
  <2>1. "confirmed" \in Statuses /\ "paid" \in Pays
    BY DEF Statuses, Pays
  <2> QED
    BY <1>1, <2>1, RowSet, RentalsKnown
<1>3. \A q \in Card : rental'[q] = rental[q]
  BY <1>1, <1>2, RentalsAssumption DEF Becomes
<1> QED
  BY <1>1, <1>2, <1>3, RowGoes, RentalsAtDesk DEF Becomes

LEMMA ManualRefundStep ==
  ASSUME RentalsInv, NEW r \in Rental, S!ManualRefund(r)
  PROVE  RentalsInv'
<1>1. /\ r \notin Card /\ rental[r].status = "cancelled" /\ rental' = [rental EXCEPT ![r].pay = "refunded"]
      /\ UNCHANGED <<over, rentalSession, rentalRefund, events, call>>
  BY DEF S!ManualRefund
<1>2. Becomes(r, rental[r].status, "refunded", rental[r].checkout, rental[r].owed)
  <2>1. "refunded" \in Pays
    BY DEF Pays
  <2> QED
    BY <1>1, <2>1, RowPays, RentalsKnown
<1>3. \A q \in Card : rental'[q] = rental[q]
  BY <1>1, <1>2, RentalsAssumption DEF Becomes
<1> QED
  BY <1>1, <1>2, <1>3, RowGoes, RentalsAtDesk DEF Becomes

LEMMA ExpireManualStep ==
  ASSUME RentalsInv, S!ExpireManual
  PROVE  RentalsInv'
<1>1. /\ rental' = [r \in Rental |->
           IF r \notin Card /\ rental[r].status = "pending" /\ over[r]
           THEN [rental[r] EXCEPT !.status = "expired"] ELSE rental[r]]
      /\ UNCHANGED <<over, rentalSession, rentalRefund, events, call>>
  BY DEF S!ExpireManual
<1>2. \A r \in Rental : [rental[r] EXCEPT !.status = "expired"] \in RentalRow
  BY RentalsKnown DEF RentalRow
<1>3. rental' \in [Rental -> RentalRow]
  BY <1>1, <1>2, RentalsKnown
<1>4. ASSUME NEW r \in Rental
      PROVE  /\ r \in Card => rental'[r] = rental[r]
             /\ rental[r].status # "none" =>
                  rental'[r].status # "none" /\ (rental'[r].status = "pending" => rental[r].status = "pending")
             /\ rental[r].owed => rental'[r].owed
  <2>1. [rental[r] EXCEPT !.status = "expired"].status = "expired"
        /\ [rental[r] EXCEPT !.status = "expired"].owed = rental[r].owed
    BY RentalsKnown DEF RentalRow
  <2> QED
    BY <1>1, <2>1
<1>5. \A r \in Card : rental'[r] = rental[r]
  BY <1>4, RentalsAssumption
<1> QED
  BY <1>1, <1>3, <1>4, <1>5, RentalsAtDesk

\* A delivery that is acknowledged at once.
LEMMA DeliverStep ==
  ASSUME RentalsInv, NEW r \in Rental, NEW which \in {"completed", "expired"},
         NEW status, NEW pay, NEW checkout, NEW owed, Becomes(r, status, pay, checkout, owed),
         rental[r].status # "none" => status # "none" /\ (status = "pending" => rental[r].status = "pending"),
         r \in Card /\ rental[r].owed => owed,
         events' = events \ {<<which, r>>}, UNCHANGED <<over, rentalSession, rentalRefund, call>>,
         r \in Card => RentalAgrees(r)'
  PROVE  RentalsInv'
<1>1. S!TypeOK'
  BY RentalsKnown, RentalsTypedNext DEF Becomes
<1>2. StripeTold'
  BY ZenonT(30), RentalsKnown DEF StripeTold
<1>3. ASSUME NEW q \in Card PROVE RentalAgrees(q)'
  <2>1. q \in Rental /\ RentalAgrees(q)
    BY RentalsKnown, RentalsAssumption
  <2>2. CASE q # r
    BY <2>1, <2>2, RentalAgreesStays DEF Becomes
  <2> QED
    BY <2>2
<1> QED
  BY <1>1, <1>2, <1>3, RowGoes, RentalsMove

LEMMA CompletedStep ==
  ASSUME RentalsInv, NEW r \in Rental, S!DeliverCompleted(r)
  PROVE  RentalsInv'
<1>1. /\ <<"completed", r>> \in events /\ rental[r].status # "expired" /\ rental' = S!Complete(r)
      /\ events' = events \ {<<"completed", r>>} /\ UNCHANGED <<over, rentalSession, rentalRefund, call>>
  BY DEF S!DeliverCompleted
<1>2. rentalSession[r] = "paid"
  BY <1>1, RentalsKnown DEF StripeTold
<1>3. CASE rental[r].status = "pending"
  <2>1. Becomes(r, "confirmed", "paid", TRUE, rental[r].owed)
    BY <1>1, <1>3, RowCompletes, RentalsKnown
  <2>2. r \in Card => RentalAgrees(r)'
    <3> SUFFICES ASSUME r \in Card PROVE RentalAgrees(r)'
      OBVIOUS
    <3>1. RentalAgrees(r)
      BY RentalsKnown
    <3> QED
      BY <1>1, <1>2, <1>3, <2>1, <3>1 DEF RentalAgrees, Becomes
  <2> QED
    BY <1>1, <1>3, <2>1, <2>2, DeliverStep
<1>4. CASE rental[r].status # "pending"
  <2>1. Becomes(r, rental[r].status, rental[r].pay, rental[r].checkout, rental[r].owed)
    BY <1>1, <1>4, RowCompletes, RentalsKnown
  <2>2. r \in Card => RentalAgrees(r)'
    <3> SUFFICES ASSUME r \in Card PROVE RentalAgrees(r)'
      OBVIOUS
    <3>1. RentalAgrees(r) /\ rental' = rental
      BY <1>1, <1>4, RentalsKnown DEF S!Complete
    <3> QED
      BY <1>1, <3>1, RentalAgreesStays
  <2> QED
    BY <1>1, <1>4, <2>1, <2>2, DeliverStep
<1> QED
  BY <1>3, <1>4

\* Dates that were held unpaid are given back, since their session is over.
LEMMA ExpiresAgrees ==
  ASSUME RentalsInv, NEW r \in Card, rentalSession[r] \in {"failed", "expired"},
         Becomes(r, "expired", "unpaid", rental[r].checkout, rental[r].owed), rental[r].status = "pending",
         UNCHANGED <<rentalSession, rentalRefund>>
  PROVE  RentalAgrees(r)'
BY RentalsKnown DEF RentalAgrees, Becomes

LEMMA ExpiredStep ==
  ASSUME RentalsInv, NEW r \in Rental, S!DeliverExpired(r)
  PROVE  RentalsInv'
<1>1. /\ <<"expired", r>> \in events
      /\ events' = events \ {<<"expired", r>>} /\ UNCHANGED <<over, rentalSession, rentalRefund, call>>
  BY DEF S!DeliverExpired
<1>2. rentalSession[r] = "expired"
  BY <1>1, RentalsKnown DEF StripeTold
<1>3. CASE rental[r].checkout /\ rental[r].status = "pending" /\ rental[r].pay = "unpaid"
  <2>1. Becomes(r, "expired", "unpaid", rental[r].checkout, rental[r].owed)
    BY <1>3, RowExpires, RentalsKnown DEF S!DeliverExpired
  <2>2. r \in Card => RentalAgrees(r)'
    BY <1>1, <1>2, <1>3, <2>1, ExpiresAgrees
  <2> QED
    BY <1>1, <1>3, <2>1, <2>2, DeliverStep
<1>4. CASE ~ (rental[r].checkout /\ rental[r].status = "pending" /\ rental[r].pay = "unpaid")
  <2>1. rental' = rental
    BY <1>4 DEF S!DeliverExpired, S!Expired
  <2>2. Becomes(r, rental[r].status, rental[r].pay, rental[r].checkout, rental[r].owed)
    BY <2>1, RowStays, RentalsKnown
  <2>3. r \in Card => RentalAgrees(r)'
    BY <1>1, <2>1, RentalAgreesStays, RentalsKnown
  <2> QED
    BY <1>1, <2>2, <2>3, DeliverStep
<1> QED
  BY <1>3, <1>4

LEMMA HoldEndsStep ==
  ASSUME RentalsInv, NEW r \in Rental, S!HoldEnds(r)
  PROVE  RentalsInv'
<1>1. /\ over' = [over EXCEPT ![r] = TRUE]
      /\ UNCHANGED <<rental, rentalSession, rentalRefund, events, call>>
  BY DEF S!HoldEnds
<1>2. S!TypeOK'
  BY <1>1, RentalsKnown, RentalsTypedNext
<1>3. StripeTold'
  BY ZenonT(30), <1>1, RentalsKnown DEF StripeTold
<1>4. ASSUME NEW q \in Card PROVE RentalAgrees(q)'
  BY <1>1, RentalsKnown, RentalsAssumption, RentalAgreesStays
<1> QED
  BY <1>1, <1>2, <1>3, <1>4, RentalsMove

\* Stripe's session of r goes on, and Stripe has something to tell of it.
LEMMA SessionGoes ==
  ASSUME RentalsInv, NEW r \in Rental, NEW to \in {"paid", "processing", "failed", "expired"},
         rentalSession[r] \in {"open", "processing"}, rentalSession' = [rentalSession EXCEPT ![r] = to],
         UNCHANGED <<rental, over, rentalRefund>>,
         events \subseteq events', events' \in SUBSET EventSet,
         \A e \in events' \ events : \/ e = <<"completed", r>> /\ to = "paid"
                                     \/ e = <<"expired", r>> /\ to = "expired"
                                     \/ e = <<"failed", r>> /\ to = "failed"
  PROVE  /\ StripeTold' /\ rentalSession' \in [Rental -> RentalSessions] /\ (\A q \in Card : RentalAgrees(q)')
         /\ \A q \in Rental : rentalSession[q] \in {"paid", "failed", "expired"} => rentalSession'[q] = rentalSession[q]
<1>1. /\ rentalSession' \in [Rental -> RentalSessions] /\ rentalSession'[r] = to
      /\ \A q \in Rental \ {r} : rentalSession'[q] = rentalSession[q]
  BY RentalsKnown DEF RentalSessions
<1>2. StripeTold'
  <2> SUFFICES ASSUME NEW q \in Rental
               PROVE  /\ <<"completed", q>> \in events' => rentalSession'[q] = "paid"
                      /\ <<"expired", q>> \in events' => rentalSession'[q] = "expired"
                      /\ <<"failed", q>> \in events' => rentalSession'[q] = "failed"
                      /\ <<"created", q>> \in events' => rentalRefund'[q] # "none"
                      /\ <<"updated", q>> \in events' => rentalRefund'[q] \in {"succeeded", "failed"}
    BY ZenonT(30) DEF StripeTold
  <2>1. StripeTold
    BY RentalsKnown
  <2>2. CASE q = r
    <3>1. /\ <<"completed", r>> \notin events /\ <<"expired", r>> \notin events /\ <<"failed", r>> \notin events
      BY <2>1 DEF StripeTold
    <3>2. /\ <<"created", r>> \in events' => <<"created", r>> \in events
          /\ <<"updated", r>> \in events' => <<"updated", r>> \in events
      OBVIOUS
    <3>3. /\ <<"completed", r>> \in events' => to = "paid"
          /\ <<"expired", r>> \in events' => to = "expired"
          /\ <<"failed", r>> \in events' => to = "failed"
      BY <3>1
    <3> QED
      BY <1>1, <2>1, <2>2, <3>2, <3>3 DEF StripeTold
  <2>3. CASE q # r
    <3>1. \A which \in {"completed", "expired", "failed", "created", "updated"} :
            <<which, q>> \in events' => <<which, q>> \in events
      BY <2>3
    <3> QED
      BY <1>1, <2>1, <2>3, <3>1 DEF StripeTold
  <2> QED
    BY <2>2, <2>3
<1>3. ASSUME NEW q \in Card PROVE RentalAgrees(q)'
  <2>1. q \in Rental /\ RentalAgrees(q)
    BY RentalsKnown, RentalsAssumption
  <2>2. CASE q = r
    BY <2>1, <2>2 DEF RentalAgrees
  <2>3. CASE q # r
    BY <1>1, <2>1, <2>3, RentalAgreesStays
  <2> QED
    BY <2>2, <2>3
<1> QED
  BY <1>1, <1>2, <1>3

LEMMA SessionMovesStep ==
  ASSUME RentalsInv, NEW r \in Rental, S!SessionMoves(r)
  PROVE  RentalsInv'
<1>1. UNCHANGED <<rental, over, rentalRefund, call>>
  BY DEF S!SessionMoves
<1>2. PICK to \in {"paid", "processing", "failed"} :
        /\ <<rentalSession[r], to>> \in S!Moves
        /\ rentalSession' = [rentalSession EXCEPT ![r] = to]
        /\ events' = CASE to = "paid" -> events \cup {<<"completed", r>>}
                       [] to = "failed" -> events \cup {<<"failed", r>>}
                       [] OTHER -> events
  BY DEF S!SessionMoves
<1>3. rentalSession[r] \in {"open", "processing"}
  BY <1>2 DEF S!Moves
<1>4. /\ events \subseteq events' /\ events' \in SUBSET EventSet
      /\ \A e \in events' \ events : \/ e = <<"completed", r>> /\ to = "paid"
                                     \/ e = <<"failed", r>> /\ to = "failed"
  <2>1. CASE to = "paid"
    BY <1>2, <2>1, RentalsKnown DEF EventSet
  <2>2. CASE to = "failed"
    BY <1>2, <2>2, RentalsKnown DEF EventSet
  <2>3. CASE to = "processing"
    BY <1>2, <2>3, RentalsKnown DEF EventSet
  <2> QED
    BY <2>1, <2>2, <2>3
<1>5. /\ StripeTold' /\ rentalSession' \in [Rental -> RentalSessions] /\ (\A q \in Card : RentalAgrees(q)')
      /\ \A q \in Rental : rentalSession[q] \in {"paid", "failed", "expired"} => rentalSession'[q] = rentalSession[q]
  BY <1>1, <1>2, <1>3, <1>4, SessionGoes
<1>6. S!TypeOK'
  BY <1>1, <1>4, <1>5, RentalsKnown, RentalsTypedNext
<1> QED
  BY <1>1, <1>4, <1>5, <1>6, RentalsMove

LEMMA SessionEndsStep ==
  ASSUME RentalsInv, NEW r \in Rental, S!SessionEnds(r)
  PROVE  RentalsInv'
<1>1. /\ rentalSession[r] = "open" /\ rentalSession' = [rentalSession EXCEPT ![r] = "expired"]
      /\ events' = events \cup {<<"expired", r>>} /\ UNCHANGED <<rental, over, rentalRefund, call>>
  BY DEF S!SessionEnds
<1>2. /\ events \subseteq events' /\ events' \in SUBSET EventSet
      /\ \A e \in events' \ events : e = <<"expired", r>>
  BY <1>1, RentalsKnown DEF EventSet
<1>3. /\ StripeTold' /\ rentalSession' \in [Rental -> RentalSessions] /\ (\A q \in Card : RentalAgrees(q)')
      /\ \A q \in Rental : rentalSession[q] \in {"paid", "failed", "expired"} => rentalSession'[q] = rentalSession[q]
  BY <1>1, <1>2, SessionGoes
<1>4. S!TypeOK'
  BY <1>1, <1>2, <1>3, RentalsKnown, RentalsTypedNext
<1> QED
  BY <1>1, <1>2, <1>3, <1>4, RentalsMove

LEMMA RefundMovesStep ==
  ASSUME RentalsInv, NEW r \in Rental, S!RefundMoves(r)
  PROVE  RentalsInv'
<1>1. /\ rentalRefund[r] = "pending" /\ events' = events \cup {<<"updated", r>>}
      /\ UNCHANGED <<rental, over, rentalSession, call>>
  BY DEF S!RefundMoves
<1>2. PICK to \in {"succeeded", "failed"} : rentalRefund' = [rentalRefund EXCEPT ![r] = to]
  BY DEF S!RefundMoves
<1>3. /\ rentalRefund' \in [Rental -> RentalRefunds] /\ rentalRefund'[r] = to
      /\ \A q \in Rental \ {r} : rentalRefund'[q] = rentalRefund[q]
  BY <1>2, RentalsKnown DEF RentalRefunds
<1>4. events' \in SUBSET EventSet
  BY <1>1, RentalsKnown DEF EventSet
<1>5. S!TypeOK'
  BY <1>1, <1>3, <1>4, RentalsKnown, RentalsTypedNext
<1>6. StripeTold'
  BY ZenonT(30), <1>1, <1>3, RentalsKnown DEF StripeTold
<1>7. ASSUME NEW q \in Card PROVE RentalAgrees(q)'
  <2>1. q \in Rental /\ RentalAgrees(q)
    BY RentalsKnown, RentalsAssumption
  <2>2. CASE q = r
    BY <1>1, <1>3, <2>1, <2>2 DEF RentalAgrees
  <2>3. CASE q # r
    BY <1>1, <1>3, <2>1, <2>3, RentalAgreesStays
  <2> QED
    BY <2>2, <2>3
<1> QED
  BY <1>1, <1>3, <1>5, <1>6, <1>7, RentalsMove

-----------------------------------------------------------------------------
LEMMA FreeOf ==
  ASSUME NEW r, S!Free(r), NEW d \in Call, Holding(d)
  PROVE  call[d].r # r
BY DEF S!Free, S!Held, Holding

LEMMA CallStarts ==
  ASSUME RentalsInv, NEW c \in Call, NEW f \in CallRecords, S!Start(c, f)
  PROVE  /\ call' \in [Call -> CallRecords] /\ call'[c] = f /\ \A d \in Call \ {c} : call'[d] = call[d]
         /\ \A d \in Call : call'[d].pc \in CallPlaces
BY RentalsKnown, CallSet DEF S!Start

LEMMA CallRests ==
  ASSUME RentalsInv, NEW c \in Call, S!Return(c)
  PROVE  /\ call' \in [Call -> CallRecords] /\ (\A d \in Call \ {c} : call'[d] = call[d])
         /\ (\A d \in Call : call'[d].pc \in CallPlaces)
         /\ CallRelies(c)' /\ ~ Holding(c)'
BY RentalsKnown, CallReturns DEF CallRelies, Holding

\* A step of a call that writes the row of r and nothing else of what is kept.
LEMMA CallWrites ==
  ASSUME RentalsInv, NEW c \in Call, NEW r \in Rental,
         NEW status, NEW pay, NEW checkout, NEW owed, Becomes(r, status, pay, checkout, owed),
         rental[r].status # "none" => status # "none" /\ (status = "pending" => rental[r].status = "pending"),
         r \in Card /\ rental[r].owed => owed,
         UNCHANGED <<over, rentalSession, rentalRefund, events>>,
         call' \in [Call -> CallRecords], \A d \in Call \ {c} : call'[d] = call[d], \A d \in Call : call'[d].pc \in CallPlaces,
         CallRelies(c)', ~ Holding(c)', r \in Card => RentalAgrees(r)'
  PROVE  RentalsInv'
<1>1. S!TypeOK'
  BY RentalsKnown, RentalsTypedNext DEF Becomes
<1>2. StripeTold'
  BY ZenonT(30), RentalsKnown DEF StripeTold
<1>3. ASSUME NEW q \in Card PROVE RentalAgrees(q)'
  <2>1. q \in Rental /\ RentalAgrees(q)
    BY RentalsKnown, RentalsAssumption
  <2>2. CASE q # r
    BY <2>1, <2>2, RentalAgreesStays DEF Becomes
  <2> QED
    BY <2>2
<1> QED
  BY <1>1, <1>2, <1>3, RowGoes, CallSteps

\* A step of a call that writes nothing that is kept.
LEMMA CallOnly ==
  ASSUME RentalsInv, NEW c \in Call, UNCHANGED <<rental, over, rentalSession, rentalRefund, events>>,
         call' \in [Call -> CallRecords], \A d \in Call \ {c} : call'[d] = call[d], \A d \in Call : call'[d].pc \in CallPlaces,
         CallRelies(c)', Holding(c)' => S!Free(call'[c].r)
  PROVE  RentalsInv'
<1>1. S!TypeOK'
  BY RentalsKnown, RentalsTypedNext
<1>2. StripeTold'
  BY ZenonT(30), RentalsKnown DEF StripeTold
<1>3. ASSUME NEW q \in Card PROVE RentalAgrees(q)'
  BY RentalsKnown, RentalsAssumption, RentalAgreesStays
<1>4. Holding(c)' => \A d \in Call \ {c} : Holding(d) => call[d].r # call'[c].r
  BY FreeOf
<1> QED
  BY <1>1, <1>2, <1>3, <1>4, CallSteps

LEMMA StopStep ==
  ASSUME RentalsInv, NEW c \in Call, S!Stop(c)
  PROVE  RentalsInv'
BY CallRests, CallOnly DEF S!Stop

LEMMA StartCancelStep ==
  ASSUME RentalsInv, NEW c \in Call, NEW r \in Rental, S!StartCancel(c, r)
  PROVE  RentalsInv'
<1>1. S!Live(r) /\ UNCHANGED <<rental, over, rentalSession, rentalRefund, events>>
  BY DEF S!StartCancel
<1>2. CASE r \in Card /\ rental[r].status = "pending"
  <2> DEFINE f == [pc |-> "checkout", r |-> r, for |-> "cancel"]
  <2>1. f \in Asking /\ f \in CallRecords /\ f.pc = "checkout" /\ f.r = r
    BY DEF Asking, CallRecords, Aim, CallPlaces
  <2>2. S!Start(c, f)
    BY <1>2 DEF S!StartCancel
  <2> HIDE DEF f
  <2>3. /\ call' \in [Call -> CallRecords] /\ call'[c] = f /\ \A d \in Call \ {c} : call'[d] = call[d]
        /\ \A d \in Call : call'[d].pc \in CallPlaces
    BY <2>1, <2>2, CallStarts
  <2>4. CallRelies(c)' /\ ~ Holding(c)'
    BY <1>1, <1>2, <2>1, <2>3 DEF CallRelies, Holding
  <2> QED
    BY <1>1, <2>3, <2>4, CallOnly
<1>3. CASE ~ (r \in Card /\ rental[r].status = "pending")
  <2> DEFINE f == [pc |-> "cancel", r |-> r, for |-> "cancel"]
  <2>1. f \in Asking /\ f \in CallRecords /\ f.pc = "cancel" /\ f.r = r
    BY DEF Asking, CallRecords, Aim, CallPlaces
  <2>2. S!Start(c, f)
    BY <1>3 DEF S!StartCancel
  <2> HIDE DEF f
  <2>3. /\ call' \in [Call -> CallRecords] /\ call'[c] = f /\ \A d \in Call \ {c} : call'[d] = call[d]
        /\ \A d \in Call : call'[d].pc \in CallPlaces
    BY <2>1, <2>2, CallStarts
  <2>4. CallRelies(c)' /\ ~ Holding(c)'
    BY <1>1, <1>3, <2>1, <2>3 DEF CallRelies, Holding, S!Live
  <2> QED
    BY <1>1, <2>3, <2>4, CallOnly
<1> QED
  BY <1>2, <1>3

LEMMA StartRetryStep ==
  ASSUME RentalsInv, NEW c \in Call, NEW r \in Rental, S!StartRetry(c, r)
  PROVE  RentalsInv'
<1> DEFINE f == [pc |-> "refund", r |-> r, for |-> "cancel"]
<1>1. /\ r \in Card /\ S!Owing(r) /\ S!Start(c, f) /\ UNCHANGED <<rental, over, rentalSession, rentalRefund, events>>
  BY DEF S!StartRetry
<1>2. f \in Asking /\ f \in CallRecords /\ f.pc = "refund" /\ f.r = r
  BY DEF Asking, CallRecords, Aim, CallPlaces
<1> HIDE DEF f
<1>3. /\ call' \in [Call -> CallRecords] /\ call'[c] = f /\ \A d \in Call \ {c} : call'[d] = call[d]
      /\ \A d \in Call : call'[d].pc \in CallPlaces
  BY <1>1, <1>2, CallStarts
<1>4. CallRelies(c)' /\ ~ Holding(c)'
  BY <1>1, <1>2, <1>3 DEF CallRelies, Holding, S!Owing
<1> QED
  BY <1>1, <1>3, <1>4, CallOnly

LEMMA StartCheckoutStep ==
  ASSUME RentalsInv, NEW c \in Call, NEW r \in Rental, NEW for \in {"book", "sync"}, S!StartCheckout(c, r, for)
  PROVE  RentalsInv'
<1> DEFINE f == [pc |-> "checkout", r |-> r, for |-> for]
<1>1. /\ r \in Card /\ rental[r].status = "pending" /\ S!Start(c, f)
      /\ UNCHANGED <<rental, over, rentalSession, rentalRefund, events>>
  BY DEF S!StartCheckout
<1>2. f \in Asking /\ f \in CallRecords /\ f.pc = "checkout" /\ f.r = r
  BY DEF Asking, CallRecords, Aim, CallPlaces
<1> HIDE DEF f
<1>3. /\ call' \in [Call -> CallRecords] /\ call'[c] = f /\ \A d \in Call \ {c} : call'[d] = call[d]
      /\ \A d \in Call : call'[d].pc \in CallPlaces
  BY <1>1, <1>2, CallStarts
<1>4. CallRelies(c)' /\ ~ Holding(c)'
  BY <1>1, <1>2, <1>3 DEF CallRelies, Holding
<1> QED
  BY <1>1, <1>3, <1>4, CallOnly

LEMMA HoldFailedStep ==
  ASSUME RentalsInv, NEW c \in Call, NEW r \in Rental, S!HoldFailed(c, r)
  PROVE  RentalsInv'
<1> DEFINE f == [pc |-> "heldFailed", r |-> r, found |-> rentalSession[r]]
<1>1. /\ <<"failed", r>> \in events /\ S!Free(r) /\ S!Start(c, f)
      /\ UNCHANGED <<rental, over, rentalSession, rentalRefund, events>>
  BY DEF S!HoldFailed
<1>2. rentalSession[r] = "failed"
  BY <1>1, RentalsKnown DEF StripeTold
<1>3. f \in Answered /\ f \in CallRecords /\ f.pc = "heldFailed" /\ f.r = r /\ f.found = "failed"
  BY <1>2 DEF Answered, CallRecords, RentalSessions, CallPlaces
<1> HIDE DEF f
<1>4. /\ call' \in [Call -> CallRecords] /\ call'[c] = f /\ \A d \in Call \ {c} : call'[d] = call[d]
      /\ \A d \in Call : call'[d].pc \in CallPlaces
  BY <1>1, <1>3, CallStarts
<1>5. CallRelies(c)' /\ call'[c].r = r
  BY <1>1, <1>2, <1>3, <1>4 DEF CallRelies
<1> QED
  BY <1>1, <1>4, <1>5, CallOnly

LEMMA HoldRefundStep ==
  ASSUME RentalsInv, NEW c \in Call, NEW r \in Rental, NEW which \in {"created", "updated"}, S!HoldRefund(c, r, which)
  PROVE  RentalsInv'
<1> DEFINE f == [pc |-> "heldRefund", r |-> r, found |-> rentalRefund[r], kind |-> which]
<1>1. /\ <<which, r>> \in events /\ S!Free(r) /\ S!Start(c, f)
      /\ UNCHANGED <<rental, over, rentalSession, rentalRefund, events>>
  BY DEF S!HoldRefund
<1>2. rentalRefund[r] # "none" /\ (rentalRefund[r] = "pending" => which = "created") /\ rentalRefund[r] \in RentalRefunds
  BY <1>1, RentalsKnown DEF StripeTold
<1>3. f \in Delivering /\ f \in CallRecords /\ f.pc = "heldRefund" /\ f.r = r /\ f.found = rentalRefund[r] /\ f.kind = which
  BY <1>2 DEF Delivering, CallRecords, CallPlaces
<1> HIDE DEF f
<1>4. /\ call' \in [Call -> CallRecords] /\ call'[c] = f /\ \A d \in Call \ {c} : call'[d] = call[d]
      /\ \A d \in Call : call'[d].pc \in CallPlaces
  BY <1>1, <1>3, CallStarts
<1>5. CallRelies(c)' /\ call'[c].r = r
  BY <1>1, <1>2, <1>3, <1>4 DEF CallRelies
<1> QED
  BY <1>1, <1>4, <1>5, CallOnly

-----------------------------------------------------------------------------
LEMMA AskSessionStep ==
  ASSUME RentalsInv, NEW c \in Call, S!AskSession(c)
  PROVE  RentalsInv'
<1> DEFINE r == call[c].r
           found == IF rentalSession[r] = "none" THEN "open" ELSE rentalSession[r]
           f == [pc |-> "save", r |-> r, for |-> call[c].for, found |-> found]
<1>1. /\ call[c].pc = "checkout" /\ rentalSession' = [rentalSession EXCEPT ![r] = found]
      /\ call' = [call EXCEPT ![c] = f] /\ UNCHANGED <<rental, over, rentalRefund, events>>
  BY RentalsKnown DEF S!AskSession
<1>2. call[c] \in Asking /\ r \in Card /\ rental[r].status # "none" /\ r \in Rental
  BY <1>1, RentalsKnown, RentalsAssumption DEF CallRelies
<1>3. found \in RentalSessions /\ (rentalSession[r] # "none" => found = rentalSession[r])
      /\ (rentalSession[r] = "none" => found = "open")
  BY <1>2, RentalsKnown DEF RentalSessions
<1> HIDE DEF found
<1>4. f \in Asked /\ f \in CallRecords /\ f.pc = "save" /\ f.r = r /\ f.found = found
  BY <1>2, <1>3 DEF Asking, Asked, CallRecords, Aim, CallPlaces
<1> HIDE DEF f
<1>5. /\ rentalSession' \in [Rental -> RentalSessions] /\ rentalSession'[r] = found
      /\ \A q \in Rental \ {r} : rentalSession'[q] = rentalSession[q]
  BY <1>1, <1>2, <1>3, RentalsKnown
<1>6. \A q \in Rental : rentalSession[q] # "none" => rentalSession'[q] = rentalSession[q]
  BY <1>3, <1>5
<1>7. /\ call' \in [Call -> CallRecords] /\ call'[c] = f /\ \A d \in Call \ {c} : call'[d] = call[d]
      /\ \A d \in Call : call'[d].pc \in CallPlaces
  BY <1>1, <1>4, RentalsKnown, CallSet
<1>8. S!TypeOK'
  BY <1>1, <1>5, <1>7, RentalsKnown, RentalsTypedNext
<1>9. StripeTold'
  BY ZenonT(30), <1>1, <1>6, RentalsKnown DEF StripeTold
<1>10. ASSUME NEW q \in Card PROVE RentalAgrees(q)'
  <2>1. q \in Rental /\ RentalAgrees(q)
    BY RentalsKnown, RentalsAssumption
  <2>2. rentalSession[q] \in {"paid", "failed", "expired"} => rentalSession'[q] = rentalSession[q]
    BY <1>6, <2>1
  <2> QED
    BY <1>1, <2>1, <2>2, RentalAgreesStays
<1>11. CallRelies(c)'
  <2>1. call'[c].pc = "save" /\ call'[c].r = r /\ call'[c] \in Asked /\ call'[c].found = found
    BY <1>4, <1>7
  <2> HIDE DEF r
  <2> QED
    BY <1>1, <1>2, <1>5, <2>1 DEF CallRelies
<1>12. ~ Holding(c)'
  BY <1>4, <1>7 DEF Holding
<1> QED
  BY <1>1, <1>6, <1>7, <1>8, <1>9, <1>10, <1>11, <1>12, CallSteps

LEMMA NextStepIs ==
  ASSUME NEW r, NEW for, NEW found
  PROVE  /\ S!NextStep(r, for, found) \in {"idle", "paid", "close", "cancel", "gone", "failed"}
         /\ S!NextStep(r, for, found) = "paid" => found = "paid"
         /\ S!NextStep(r, for, found) \in {"cancel", "gone"} => found = "expired"
         /\ S!NextStep(r, for, found) = "failed" => found = "failed"
<1>1. CASE for = "book"
  BY <1>1 DEF S!NextStep
<1>2. CASE for # "book" /\ found = "paid"
  BY <1>2 DEF S!NextStep
<1>3. CASE for # "book" /\ found = "open"
  BY <1>3 DEF S!NextStep
<1>4. CASE for # "book" /\ found = "expired"
  BY <1>4 DEF S!NextStep
<1>5. CASE for # "book" /\ found \notin {"paid", "open", "expired"}
  BY <1>5 DEF S!NextStep
<1> QED
  BY <1>1, <1>2, <1>3, <1>4, <1>5

LEMMA SaveSessionStep ==
  ASSUME RentalsInv, NEW c \in Call, S!SaveSession(c)
  PROVE  RentalsInv'
<1> PICK r : r = call[c].r
  OBVIOUS
<1> DEFINE pc == S!NextStep(r, call[c].for, call[c].found)
<1>1. /\ call[c].pc = "save" /\ rental' = [rental EXCEPT ![r].checkout = TRUE] /\ S!Goto(c, pc)
      /\ UNCHANGED <<over, rentalSession, rentalRefund, events>>
  BY DEF S!SaveSession
<1>2. /\ call[c] \in Asked /\ r \in Card /\ rental[r].status # "none" /\ r \in Rental
      /\ call[c].found \in {"paid", "failed", "expired"} => rentalSession[r] = call[c].found
  BY <1>1, RentalsKnown, RentalsAssumption DEF CallRelies
<1>3. /\ pc \in {"idle", "paid", "close", "cancel", "gone", "failed"} /\ pc \in CallPlaces
      /\ pc = "paid" => rentalSession[r] = "paid"
      /\ pc \in {"cancel", "gone"} => rentalSession[r] = "expired"
      /\ pc = "failed" => rentalSession[r] = "failed"
  BY <1>2, NextStepIs DEF CallPlaces
<1> HIDE DEF pc
<1>4. /\ call' \in [Call -> CallRecords] /\ (\A d \in Call \ {c} : call'[d] = call[d])
      /\ (\A d \in Call : call'[d].pc \in CallPlaces)
      /\ call'[c].pc = pc /\ call'[c].r = r /\ call'[c] \in Asked
  BY <1>1, <1>2, <1>3, RentalsKnown, CallGoes
<1>5. Becomes(r, rental[r].status, rental[r].pay, TRUE, rental[r].owed)
  BY <1>1, <1>2, RentalsKnown, RowSaves
<1>6. RentalAgrees(r)'
  BY <1>1, <1>2, <1>5, RentalsKnown DEF RentalAgrees, Becomes
<1>7. CallRelies(c)' /\ ~ Holding(c)'
  <2>1. rental'[r].status # "none"
    BY <1>2, <1>5 DEF Becomes
  <2> QED
    BY <1>1, <1>2, <1>3, <1>4, <2>1 DEF CallRelies, Holding
<1> QED
  BY <1>1, <1>2, <1>4, <1>5, <1>6, <1>7, CallWrites

LEMMA CloseStep ==
  ASSUME RentalsInv, NEW c \in Call, S!Close(c)
  PROVE  RentalsInv'
<1> DEFINE r == call[c].r
           pc == IF call[c].for = "cancel" THEN "cancel" ELSE "gone"
<1>1. /\ call[c].pc = "close" /\ rentalSession[r] = "open" /\ rentalSession' = [rentalSession EXCEPT ![r] = "expired"]
      /\ events' = events \cup {<<"expired", r>>} /\ S!Goto(c, pc) /\ UNCHANGED <<rental, over, rentalRefund>>
  BY DEF S!Close, S!Closable
<1>2. call[c] \in Asked /\ r \in Card /\ rental[r].status # "none" /\ r \in Rental
  BY <1>1, RentalsKnown, RentalsAssumption DEF CallRelies
<1>3. pc \in {"cancel", "gone"} /\ pc \in CallPlaces
  BY DEF CallPlaces
<1> HIDE DEF pc
<1>4. /\ call' \in [Call -> CallRecords] /\ (\A d \in Call \ {c} : call'[d] = call[d])
      /\ (\A d \in Call : call'[d].pc \in CallPlaces)
      /\ call'[c].pc = pc /\ call'[c].r = r /\ call'[c] \in Asked
  BY <1>1, <1>2, <1>3, RentalsKnown, CallGoes
<1>5. /\ events \subseteq events' /\ events' \in SUBSET EventSet
      /\ \A e \in events' \ events : e = <<"expired", r>>
  BY <1>1, <1>2, RentalsKnown DEF EventSet
<1>6. /\ StripeTold' /\ rentalSession' \in [Rental -> RentalSessions] /\ (\A q \in Card : RentalAgrees(q)')
      /\ \A q \in Rental : rentalSession[q] \in {"paid", "failed", "expired"} => rentalSession'[q] = rentalSession[q]
  <2> HIDE DEF r
  <2> QED
    BY <1>1, <1>2, <1>5, SessionGoes
<1>7. S!TypeOK'
  BY <1>1, <1>4, <1>5, <1>6, RentalsKnown, RentalsTypedNext
<1>8. CallRelies(c)' /\ ~ Holding(c)'
  <2>1. rentalSession'[r] = "expired" /\ rental'[r].status # "none"
    BY <1>1, <1>2, RentalsKnown
  <2> HIDE DEF r
  <2> QED
    BY <1>2, <1>3, <1>4, <2>1 DEF CallRelies, Holding
<1> QED
  BY <1>1, <1>4, <1>5, <1>6, <1>7, <1>8, CallSteps

\* A payment that Stripe has is entered.
LEMMA CompletesAgrees ==
  ASSUME RentalsInv, NEW r \in Card, rentalSession[r] = "paid", rental' = S!Complete(r),
         UNCHANGED <<rentalSession, rentalRefund, events>>
  PROVE  RentalAgrees(r)'
<1>1. r \in Rental /\ RentalAgrees(r)
  BY RentalsKnown, RentalsAssumption
<1>2. CASE rental[r].status = "pending"
  <2>1. Becomes(r, "confirmed", "paid", TRUE, rental[r].owed)
    BY <1>1, <1>2, RowCompletes, RentalsKnown
  <2> QED
    BY <1>1, <1>2, <2>1 DEF RentalAgrees, Becomes
<1>3. CASE rental[r].status # "pending"
  BY <1>1, <1>3, RentalAgreesStays DEF S!Complete
<1> QED
  BY <1>2, <1>3

LEMMA RecordPaidStep ==
  ASSUME RentalsInv, NEW c \in Call, S!RecordPaid(c)
  PROVE  RentalsInv'
<1> PICK r : r = call[c].r
  OBVIOUS
<1>1. /\ call[c].pc = "paid" /\ rental' = S!Complete(r) /\ UNCHANGED <<over, rentalSession, rentalRefund, events>>
      /\ S!Goto(c, "cancel") \/ S!Return(c)
  BY DEF S!RecordPaid
<1>2. call[c] \in Asked /\ r \in Card /\ rental[r].status # "none" /\ r \in Rental /\ rentalSession[r] = "paid"
  BY <1>1, RentalsKnown, RentalsAssumption DEF CallRelies
<1>3. RentalAgrees(r)'
  BY <1>1, <1>2, CompletesAgrees
<1> DEFINE status == IF rental[r].status = "pending" THEN "confirmed" ELSE rental[r].status
           pay == IF rental[r].status = "pending" THEN "paid" ELSE rental[r].pay
           checkout == IF rental[r].status = "pending" THEN TRUE ELSE rental[r].checkout
<1>4. Becomes(r, status, pay, checkout, rental[r].owed)
  BY <1>1, <1>2, RowCompletes, RentalsKnown
<1>5. status \notin {"none", "pending"}
  BY <1>2
<1>6. rental'[r].status \notin {"none", "pending"}
  BY <1>4, <1>5 DEF Becomes
<1>7. /\ call' \in [Call -> CallRecords] /\ (\A d \in Call \ {c} : call'[d] = call[d])
      /\ (\A d \in Call : call'[d].pc \in CallPlaces)
      /\ CallRelies(c)' /\ ~ Holding(c)'
  <2>1. CASE S!Goto(c, "cancel")
    <3>1. "cancel" \in CallPlaces
      BY DEF CallPlaces
    <3>2. /\ call' \in [Call -> CallRecords] /\ (\A d \in Call \ {c} : call'[d] = call[d])
          /\ (\A d \in Call : call'[d].pc \in CallPlaces)
          /\ call'[c].pc = "cancel" /\ call'[c].r = r /\ call'[c] \in Asked
      BY <1>2, <2>1, <3>1, RentalsKnown, CallGoes
    <3>3. CallRelies(c)' /\ ~ Holding(c)'
      BY <1>2, <1>6, <3>2 DEF CallRelies, Holding
    <3> QED
      BY <3>2, <3>3
  <2>2. CASE S!Return(c)
    BY <2>2, CallRests
  <2> QED
    BY <1>1, <2>1, <2>2
<1> HIDE DEF status, pay, checkout
<1> QED
  BY <1>1, <1>2, <1>3, <1>4, <1>5, <1>7, CallWrites

\* Dates whose session is over are given back.
LEMMA ReleaseAgrees ==
  ASSUME RentalsInv, NEW r \in Card, rentalSession[r] \in {"failed", "expired"}, rental' = S!Expired(r),
         UNCHANGED <<rentalSession, rentalRefund, events>>
  PROVE  RentalAgrees(r)'
<1>1. r \in Rental /\ RentalAgrees(r)
  BY RentalsKnown, RentalsAssumption
<1>2. CASE rental[r].status = "pending" /\ rental[r].pay = "unpaid"
  <2>1. Becomes(r, "expired", "unpaid", rental[r].checkout, rental[r].owed)
    BY <1>1, <1>2, RowExpires, RentalsKnown
  <2> QED
    BY <1>2, <2>1, ExpiresAgrees
<1>3. CASE ~ (rental[r].status = "pending" /\ rental[r].pay = "unpaid")
  <2>1. rental' = rental
    BY <1>3 DEF S!Expired
  <2> QED
    BY <1>1, <2>1, RentalAgreesStays
<1> QED
  BY <1>2, <1>3

LEMMA ReleaseStep ==
  ASSUME RentalsInv, NEW c \in Call, S!Release(c)
  PROVE  RentalsInv'
<1> PICK r : r = call[c].r
  OBVIOUS
<1>1. /\ call[c].pc \in {"failed", "gone"} /\ rental' = S!Expired(r) /\ S!Return(c)
      /\ UNCHANGED <<over, rentalSession, rentalRefund, events>>
  BY DEF S!Release
<1>2. r \in Card /\ r \in Rental /\ rentalSession[r] \in {"failed", "expired"}
  BY <1>1, RentalsKnown, RentalsAssumption DEF CallRelies
<1>3. RentalAgrees(r)'
  BY <1>1, <1>2, ReleaseAgrees
<1>4. CASE rental[r].status = "pending" /\ rental[r].pay = "unpaid"
  <2>1. Becomes(r, "expired", "unpaid", rental[r].checkout, rental[r].owed)
    BY <1>1, <1>2, <1>4, RowExpires, RentalsKnown
  <2> QED
    BY <1>1, <1>2, <1>3, <1>4, <2>1, CallRests, CallWrites
<1>5. CASE ~ (rental[r].status = "pending" /\ rental[r].pay = "unpaid")
  <2>1. Becomes(r, rental[r].status, rental[r].pay, rental[r].checkout, rental[r].owed)
    BY <1>1, <1>2, <1>5, RowExpires, RentalsKnown
  <2> QED
    BY <1>1, <1>2, <1>3, <2>1, CallRests, CallWrites
<1> QED
  BY <1>4, <1>5

LEMMA CancelRowStep ==
  ASSUME RentalsInv, NEW c \in Call, S!CancelRow(c)
  PROVE  RentalsInv'
<1> PICK r : r = call[c].r
  OBVIOUS
<1>1. call[c].pc = "cancel" /\ UNCHANGED <<over, rentalSession, rentalRefund, events>>
  BY ZenonT(30) DEF S!CancelRow
<1>2. /\ call[c] \in Asking \cup Asked /\ rental[r].status # "none" /\ r \in Rental
      /\ r \in Card /\ rental[r].status = "pending" => rentalSession[r] = "expired"
  BY <1>1, RentalsKnown DEF CallRelies, Asking, Asked
<1>3. CASE ~ S!Live(r)
  <2>1. UNCHANGED rental /\ S!Return(c)
    BY <1>3 DEF S!CancelRow
  <2>2. CallRelies(c)' /\ ~ Holding(c)'
    BY <2>1, CallRests
  <2> QED
    BY <1>1, <2>1, <2>2, CallRests, CallOnly
<1>4. CASE S!Live(r)
  <2>1. PICK owed \in BOOLEAN :
          /\ owed => rental[r].pay = "paid"
          /\ rental' = [rental EXCEPT ![r].status = "cancelled", ![r].owed = owed,
                          ![r].pay = IF owed THEN "refund_pending" ELSE @]
          /\ IF owed /\ r \in Card THEN S!Goto(c, "refund") ELSE S!Return(c)
    BY ZenonT(30), <1>4 DEF S!CancelRow
  <2> DEFINE pay == IF owed THEN "refund_pending" ELSE rental[r].pay
  <2>2. Becomes(r, "cancelled", pay, rental[r].checkout, owed)
    BY ZenonT(30), <1>2, <2>1, RentalsKnown, RowCancels
  <2>3. ASSUME r \in Card PROVE RentalAgrees(r)' /\ ~ rental[r].owed
    <3>1. RentalAgrees(r)
      BY <2>3, RentalsKnown
    <3>2. ~ rental[r].owed /\ rentalRefund[r] = "none"
      BY <1>4, <3>1 DEF RentalAgrees, S!Live
    <3>3. CASE owed
      <4>1. pay = "refund_pending"
        BY <3>3
      <4> HIDE DEF pay
      <4> QED
        BY <1>1, <2>2, <3>2, <3>3, <4>1 DEF RentalAgrees, Becomes
    <3>4. CASE ~ owed
      <4>1. pay = rental[r].pay
        BY <3>4
      <4>2. rental[r].pay = "unpaid" => rentalSession[r] = "expired"
        BY <1>2, <1>4, <2>3, <3>1 DEF RentalAgrees, S!Live
      <4>3. rental[r].pay # "refunded"
        BY <1>4, <3>1 DEF RentalAgrees, S!Live
      <4> HIDE DEF pay
      <4> QED
        BY <1>1, <2>2, <3>2, <3>4, <4>1, <4>2, <4>3 DEF RentalAgrees, Becomes
    <3> QED
      BY <3>2, <3>3, <3>4
  <2>4. /\ call' \in [Call -> CallRecords] /\ (\A d \in Call \ {c} : call'[d] = call[d])
        /\ (\A d \in Call : call'[d].pc \in CallPlaces)
        /\ CallRelies(c)' /\ ~ Holding(c)'
    <3>1. CASE owed /\ r \in Card
      <4>1. "refund" \in CallPlaces /\ S!Goto(c, "refund")
        BY <2>1, <3>1 DEF CallPlaces
      <4>2. /\ call' \in [Call -> CallRecords] /\ (\A d \in Call \ {c} : call'[d] = call[d])
            /\ (\A d \in Call : call'[d].pc \in CallPlaces)
            /\ call'[c].pc = "refund" /\ call'[c].r = r /\ call'[c] \in Asking \cup Asked
        BY <1>2, <4>1, RentalsKnown, CallGoes
      <4>3. rental'[r].owed /\ rental'[r].status # "none"
        BY <2>2, <3>1 DEF Becomes
      <4>4. CallRelies(c)' /\ ~ Holding(c)'
        BY <3>1, <4>2, <4>3 DEF CallRelies, Holding
      <4> QED
        BY <4>2, <4>4
    <3>2. CASE ~ (owed /\ r \in Card)
      BY <2>1, <3>2, CallRests
    <3> QED
      BY <3>1, <3>2
  <2> HIDE DEF pay
  <2> QED
    BY <1>1, <1>2, <2>2, <2>3, <2>4, CallWrites
<1> QED
  BY <1>3, <1>4

-----------------------------------------------------------------------------
\* A refund is asked for: Stripe has it, and tells of it.
LEMMA RefundGoes ==
  ASSUME RentalsInv, NEW r \in Card, rental[r].owed, rentalRefund[r] = "none", NEW to \in {"pending", "succeeded"},
         rentalRefund' = [rentalRefund EXCEPT ![r] = to], events' = events \cup {<<"created", r>>},
         UNCHANGED <<rental, over, rentalSession>>
  PROVE  /\ rentalRefund' \in [Rental -> RentalRefunds] /\ events' \in SUBSET EventSet /\ StripeTold'
         /\ (\A q \in Card : RentalAgrees(q)')
         /\ rentalRefund'[r] = to /\ \A q \in Rental \ {r} : rentalRefund'[q] = rentalRefund[q]
<1>1. r \in Rental
  BY RentalsAssumption
<1>2. /\ rentalRefund' \in [Rental -> RentalRefunds] /\ rentalRefund'[r] = to
      /\ \A q \in Rental \ {r} : rentalRefund'[q] = rentalRefund[q]
  BY <1>1, RentalsKnown DEF RentalRefunds
<1>3. events' \in SUBSET EventSet
  BY <1>1, RentalsKnown DEF EventSet
<1>4. StripeTold'
  BY ZenonT(30), <1>1, <1>2, RentalsKnown DEF StripeTold
<1>5. ASSUME NEW q \in Card PROVE RentalAgrees(q)'
  <2>1. q \in Rental /\ RentalAgrees(q)
    BY RentalsKnown, RentalsAssumption
  <2>2. CASE q = r
    BY <1>1, <1>2, <2>1, <2>2 DEF RentalAgrees
  <2>3. CASE q # r
    BY <1>1, <1>2, <2>1, <2>3, RentalAgreesStays
  <2> QED
    BY <2>2, <2>3
<1> QED
  BY <1>2, <1>3, <1>4, <1>5

LEMMA AskRefundStep ==
  ASSUME RentalsInv, NEW c \in Call, S!AskRefund(c)
  PROVE  RentalsInv'
<1> PICK r : r = call[c].r
  OBVIOUS
<1>1. call[c].pc = "refund" /\ UNCHANGED <<rental, over, rentalSession>>
  BY DEF S!AskRefund
<1>2. PICK to \in IF rentalRefund[r] = "none" THEN {"pending", "succeeded"} ELSE {rentalRefund[r]} :
        /\ rentalRefund' = [rentalRefund EXCEPT ![r] = to]
        /\ events' = IF rentalRefund[r] = "none" THEN events \cup {<<"created", r>>} ELSE events
        /\ call' = [call EXCEPT ![c] = [pc |-> "apply", r |-> r, found |-> to]]
  BY DEF S!AskRefund
<1>3. /\ r \in Card /\ r \in Rental /\ rental[r].status # "none" /\ rental[r].owed
  BY <1>1, RentalsKnown, RentalsAssumption DEF CallRelies
<1>4. to \in RentalRefunds \ {"none"}
  BY <1>2, <1>3, RentalsKnown DEF RentalRefunds
<1> DEFINE f == [pc |-> "apply", r |-> r, found |-> to]
<1>5. f \in Answered /\ f \in CallRecords /\ f.pc = "apply" /\ f.r = r /\ f.found = to
  BY <1>3, <1>4 DEF Answered, CallRecords, CallPlaces
<1>6. call' = [call EXCEPT ![c] = f]
  BY <1>2
<1> HIDE DEF f
<1>7. /\ call' \in [Call -> CallRecords] /\ call'[c] = f /\ \A d \in Call \ {c} : call'[d] = call[d]
      /\ \A d \in Call : call'[d].pc \in CallPlaces
  BY <1>5, <1>6, RentalsKnown, CallSet
<1>8. ~ Holding(c)'
  BY <1>5, <1>7 DEF Holding
<1>9. CASE rentalRefund[r] = "none"
  <2>1. to \in {"pending", "succeeded"} /\ events' = events \cup {<<"created", r>>}
    BY <1>2, <1>9
  <2>2. /\ rentalRefund' \in [Rental -> RentalRefunds] /\ events' \in SUBSET EventSet /\ StripeTold'
        /\ (\A q \in Card : RentalAgrees(q)')
        /\ rentalRefund'[r] = to /\ \A q \in Rental \ {r} : rentalRefund'[q] = rentalRefund[q]
    BY <1>1, <1>2, <1>3, <1>9, <2>1, RefundGoes
  <2>3. S!TypeOK'
    BY <1>1, <1>7, <2>2, RentalsKnown, RentalsTypedNext
  <2>4. CallRelies(c)'
    BY <1>1, <1>3, <1>4, <1>5, <1>7, <2>2 DEF CallRelies
  <2> QED
    BY <1>1, <1>4, <1>7, <1>8, <1>9, <2>1, <2>2, <2>3, <2>4, CallSteps
<1>10. CASE rentalRefund[r] # "none"
  <2>1. rentalRefund' = rentalRefund /\ events' = events /\ to = rentalRefund[r]
    BY <1>2, <1>10, RentalsKnown
  <2>2. CallRelies(c)'
    BY <1>1, <1>3, <1>4, <1>5, <1>7, <2>1 DEF CallRelies
  <2> QED
    BY <1>1, <1>7, <1>8, <2>1, <2>2, CallOnly
<1> QED
  BY <1>9, <1>10

LEMMA LoseRefundStep ==
  ASSUME RentalsInv, NEW c \in Call, S!LoseRefund(c)
  PROVE  RentalsInv'
<1> PICK r : r = call[c].r
  OBVIOUS
<1>1. call[c].pc = "refund" /\ S!Goto(c, "unsure") /\ UNCHANGED <<rental, over, rentalSession>>
  BY DEF S!LoseRefund
<1>2. /\ r \in Card /\ r \in Rental /\ rental[r].status # "none" /\ rental[r].owed /\ call[c] \in Asking \cup Asked
  BY <1>1, RentalsKnown, RentalsAssumption DEF CallRelies
<1>3. "unsure" \in CallPlaces
  BY DEF CallPlaces
<1>4. /\ call' \in [Call -> CallRecords] /\ (\A d \in Call \ {c} : call'[d] = call[d])
      /\ (\A d \in Call : call'[d].pc \in CallPlaces)
      /\ call'[c].pc = "unsure" /\ call'[c].r = r /\ call'[c] \in Asking \cup Asked
  BY <1>1, <1>2, <1>3, RentalsKnown, CallGoes
<1>5. CallRelies(c)' /\ ~ Holding(c)'
  BY <1>1, <1>2, <1>4 DEF CallRelies, Holding
<1>6. CASE UNCHANGED <<rentalRefund, events>>
  BY <1>1, <1>4, <1>5, <1>6, CallOnly
<1>7. CASE rentalRefund[r] = "none" /\ rentalRefund' = [rentalRefund EXCEPT ![r] = "pending"]
           /\ events' = events \cup {<<"created", r>>}
  <2>1. /\ rentalRefund' \in [Rental -> RentalRefunds] /\ events' \in SUBSET EventSet /\ StripeTold'
        /\ (\A q \in Card : RentalAgrees(q)')
        /\ rentalRefund'[r] = "pending" /\ \A q \in Rental \ {r} : rentalRefund'[q] = rentalRefund[q]
    BY <1>1, <1>2, <1>7, RefundGoes
  <2>2. S!TypeOK'
    BY <1>1, <1>4, <2>1, RentalsKnown, RentalsTypedNext
  <2> QED
    BY <1>1, <1>4, <1>5, <1>7, <2>1, <2>2, CallSteps
<1> QED
  BY <1>6, <1>7 DEF S!LoseRefund

\* An answer that is true, or that more is to be said of, is applied.
LEMMA SettlesAgrees ==
  ASSUME RentalsInv, NEW r \in Card, NEW found \in RentalRefunds \ {"none"}, rental' = S!Applied(r, found),
         UNCHANGED <<rentalSession, rentalRefund>>,
         found # "pending" => rentalRefund[r] = found,
         found = "pending" =>
           \A which \in {"created", "updated"} : <<which, r>> \in events => <<which, r>> \in events'
             \/ rentalRefund[r] = "pending" \/ <<"updated", r>> \in events'
  PROVE  RentalAgrees(r)'
<1>1. r \in Rental /\ RentalAgrees(r)
  BY RentalsKnown, RentalsAssumption
<1>2. CASE Settles(r, found)
  <2>1. Becomes(r, rental[r].status, S!PayOf(found), rental[r].checkout, rental[r].owed)
    BY <1>1, <1>2, RowSettles, RentalsKnown
  <2>2. /\ found = "succeeded" => S!PayOf(found) = "refunded"
        /\ found = "failed" => S!PayOf(found) = "refund_failed"
        /\ found = "pending" => S!PayOf(found) = "refund_pending"
    BY DEF S!PayOf
  <2>3. found \in {"succeeded", "failed", "pending"}
    BY DEF RentalRefunds
  <2>4. rental[r].status = "cancelled" /\ rental[r].owed
    BY <1>2 DEF Settles
  <2>5. /\ rental'[r].status = "cancelled" /\ rental'[r].pay = S!PayOf(found) /\ rental'[r].owed = rental[r].owed
    BY <2>1, <2>4 DEF Becomes
  <2>6. CASE found = "succeeded"
    BY <1>1, <2>2, <2>4, <2>5, <2>6 DEF RentalAgrees
  <2>7. CASE found = "failed"
    BY <1>1, <2>2, <2>4, <2>5, <2>7 DEF RentalAgrees
  <2>8. CASE found = "pending"
    <3>1. rental[r].pay # "refunded"
      BY <1>2, <2>8 DEF Settles
    <3> QED
      BY <1>1, <2>2, <2>4, <2>5, <2>8, <3>1 DEF RentalAgrees
  <2> QED
    BY <2>3, <2>6, <2>7, <2>8
<1>3. CASE ~ Settles(r, found)
  <2>1. rental' = rental
    BY <1>3 DEF S!Applied, Settles
  <2>2. rentalRefund[r] = "succeeded" =>
          rental[r].pay = "refunded" \/ <<"created", r>> \in events' \/ <<"updated", r>> \in events'
    <3>1. CASE found = "pending"
      BY <1>1, <3>1 DEF RentalAgrees
    <3>2. CASE found = "succeeded"
      BY <1>1, <1>3, <3>2 DEF RentalAgrees, Settles
    <3>3. CASE found = "failed"
      BY <3>3
    <3> QED
      BY <3>1, <3>2, <3>3 DEF RentalRefunds
  <2> QED
    BY <1>1, <2>1, <2>2 DEF RentalAgrees
<1> QED
  BY <1>2, <1>3

LEMMA ApplyRefundStep ==
  ASSUME RentalsInv, NEW c \in Call, S!ApplyRefund(c)
  PROVE  RentalsInv'
<1> PICK r, found : r = call[c].r /\ found = call[c].found
  OBVIOUS
<1>1. /\ call[c].pc = "apply" /\ rental' = S!Applied(r, found) /\ S!Return(c)
      /\ UNCHANGED <<over, rentalSession, rentalRefund, events>>
  BY DEF S!ApplyRefund
<1>2. /\ r \in Card /\ r \in Rental /\ found \in RentalRefunds \ {"none"}
      /\ found # "pending" => rentalRefund[r] = found
  BY <1>1, RentalsKnown, RentalsAssumption DEF CallRelies
<1>3. RentalAgrees(r)'
  BY <1>1, <1>2, SettlesAgrees
<1>4. CASE Settles(r, found)
  <2>1. Becomes(r, rental[r].status, S!PayOf(found), rental[r].checkout, rental[r].owed)
    BY <1>1, <1>2, <1>4, RowSettles, RentalsKnown
  <2> QED
    BY <1>1, <1>2, <1>3, <2>1, CallRests, CallWrites
<1>5. CASE ~ Settles(r, found)
  <2>1. Becomes(r, rental[r].status, rental[r].pay, rental[r].checkout, rental[r].owed)
    BY <1>1, <1>2, <1>5, RowSettles, RentalsKnown
  <2> QED
    BY <1>1, <1>2, <1>3, <2>1, CallRests, CallWrites
<1> QED
  BY <1>4, <1>5

LEMMA RecordDoubtStep ==
  ASSUME RentalsInv, NEW c \in Call, S!RecordDoubt(c)
  PROVE  RentalsInv'
<1> PICK r : r = call[c].r
  OBVIOUS
<1>1. /\ call[c].pc = "unsure" /\ rental' = S!Doubt(r) /\ S!Return(c)
      /\ UNCHANGED <<over, rentalSession, rentalRefund, events>>
  BY DEF S!RecordDoubt
<1>2. /\ r \in Card /\ r \in Rental /\ RentalAgrees(r)
  BY <1>1, RentalsKnown, RentalsAssumption DEF CallRelies
<1>3. CASE rental[r].pay = "refund_pending"
  <2>1. Becomes(r, rental[r].status, "refund_failed", rental[r].checkout, rental[r].owed)
    BY <1>1, <1>2, <1>3, RowDoubts, RentalsKnown
  <2>2. RentalAgrees(r)'
    BY <1>1, <1>2, <1>3, <2>1 DEF RentalAgrees, Becomes
  <2> QED
    BY <1>1, <1>2, <2>1, <2>2, CallRests, CallWrites
<1>4. CASE rental[r].pay # "refund_pending"
  <2>1. rental' = rental
    BY <1>1, <1>4 DEF S!Doubt
  <2> QED
    BY <1>1, <2>1, CallRests, CallOnly
<1> QED
  BY <1>3, <1>4

\* A delivery ends, and lets go of the row.
LEMMA DeliveryEnds ==
  ASSUME RentalsInv, NEW c \in Call, NEW r \in Rental, r = call[c].r, Holding(c),
         NEW which \in {"failed", "created", "updated"},
         NEW status, NEW pay, NEW checkout, NEW owed, Becomes(r, status, pay, checkout, owed),
         rental[r].status # "none" => status # "none" /\ (status = "pending" => rental[r].status = "pending"),
         r \in Card /\ rental[r].owed => owed,
         events' = events \ {<<which, r>>}, UNCHANGED <<over, rentalSession, rentalRefund>>, S!Return(c),
         r \in Card => RentalAgrees(r)'
  PROVE  RentalsInv'
<1>1. /\ call' \in [Call -> CallRecords] /\ (\A d \in Call \ {c} : call'[d] = call[d])
      /\ (\A d \in Call : call'[d].pc \in CallPlaces)
      /\ CallRelies(c)' /\ ~ Holding(c)'
  BY CallRests
<1>2. S!TypeOK'
  BY <1>1, RentalsKnown, RentalsTypedNext DEF Becomes
<1>3. StripeTold'
  BY ZenonT(30), RentalsKnown DEF StripeTold
<1>4. ASSUME NEW q \in Card PROVE RentalAgrees(q)'
  <2>1. q \in Rental /\ RentalAgrees(q)
    BY RentalsKnown, RentalsAssumption
  <2>2. CASE q # r
    BY <2>1, <2>2, RentalAgreesStays DEF Becomes
  <2> QED
    BY <2>2
<1>5. ASSUME NEW d \in Call \ {c}, Holding(d) PROVE call[d].r # r
  BY <1>5, RentalsKnown DEF DeliveriesApart
<1>6. \A q \in Rental : <<"updated", q>> \in events =>
        <<"updated", q>> \in events' \/ \A d \in Call \ {c} : ~ (Holding(d) /\ call[d].r = q)
  BY <1>5
<1> QED
  BY <1>1, <1>2, <1>3, <1>4, <1>6, RowGoes, CallSteps

LEMMA EndFailedStep ==
  ASSUME RentalsInv, NEW c \in Call, S!EndFailed(c)
  PROVE  RentalsInv'
<1> PICK r : r = call[c].r
  OBVIOUS
<1>1. /\ call[c].pc = "heldFailed" /\ S!Return(c)
      /\ events' = events \ {<<"failed", r>>} /\ UNCHANGED <<over, rentalSession, rentalRefund>>
  BY DEF S!EndFailed
<1>2. r \in Rental /\ call[c].found = "failed" /\ rentalSession[r] = "failed" /\ Holding(c)
  BY <1>1, RentalsKnown DEF CallRelies, Answered, Holding
<1>3. rental' = S!Expired(r)
  BY <1>2 DEF S!EndFailed
<1>4. CASE rental[r].status = "pending" /\ rental[r].pay = "unpaid"
  <2>1. Becomes(r, "expired", "unpaid", rental[r].checkout, rental[r].owed)
    BY <1>2, <1>3, <1>4, RowExpires, RentalsKnown
  <2>2. r \in Card => RentalAgrees(r)'
    BY <1>1, <1>2, <1>4, <2>1, ExpiresAgrees
  <2> QED
    BY <1>1, <1>2, <1>4, <2>1, <2>2, DeliveryEnds
<1>5. CASE ~ (rental[r].status = "pending" /\ rental[r].pay = "unpaid")
  <2>1. rental' = rental
    BY <1>3, <1>5 DEF S!Expired
  <2>2. Becomes(r, rental[r].status, rental[r].pay, rental[r].checkout, rental[r].owed)
    BY <1>2, <2>1, RowStays, RentalsKnown
  <2>3. r \in Card => RentalAgrees(r)'
    BY <1>1, <1>2, <2>1, RentalAgreesStays, RentalsKnown
  <2> QED
    BY <1>1, <1>2, <2>2, <2>3, DeliveryEnds
<1> QED
  BY <1>4, <1>5

LEMMA EndRefundStep ==
  ASSUME RentalsInv, NEW c \in Call, S!EndRefund(c)
  PROVE  RentalsInv'
<1> PICK r, found, which : r = call[c].r /\ found = call[c].found /\ which = call[c].kind
  OBVIOUS
<1>1. /\ call[c].pc = "heldRefund" /\ rental' = S!Applied(r, found) /\ S!Return(c)
      /\ events' = events \ {<<which, r>>} /\ UNCHANGED <<over, rentalSession, rentalRefund>>
  BY DEF S!EndRefund
<1>2. /\ r \in Rental /\ found \in RentalRefunds \ {"none"} /\ which \in {"created", "updated"} /\ Holding(c)
      /\ found # "pending" => rentalRefund[r] = found
      /\ found = "pending" => which = "created" /\ (rentalRefund[r] = "pending" \/ <<"updated", r>> \in events)
  BY <1>1, RentalsKnown DEF CallRelies, Delivering, Holding
<1>3. r \in Card => RentalAgrees(r)'
  BY <1>1, <1>2, SettlesAgrees
<1>4. CASE Settles(r, found)
  <2>1. Becomes(r, rental[r].status, S!PayOf(found), rental[r].checkout, rental[r].owed)
    BY <1>1, <1>2, <1>4, RowSettles, RentalsKnown
  <2> QED
    BY <1>1, <1>2, <1>3, <2>1, DeliveryEnds
<1>5. CASE ~ Settles(r, found)
  <2>1. Becomes(r, rental[r].status, rental[r].pay, rental[r].checkout, rental[r].owed)
    BY <1>1, <1>2, <1>5, RowSettles, RentalsKnown
  <2> QED
    BY <1>1, <1>2, <1>3, <2>1, DeliveryEnds
<1> QED
  BY <1>4, <1>5

-----------------------------------------------------------------------------
LEMMA RentalsInit ==
  ASSUME S!Init
  PROVE  RentalsInv
<1>1. /\ rental = [r \in Rental |-> S!NoRental] /\ over = [r \in Rental |-> FALSE]
      /\ rentalSession = [r \in Rental |-> "none"] /\ rentalRefund = [r \in Rental |-> "none"]
      /\ events = {} /\ call = [c \in Call |-> S!Idle]
  BY DEF S!Init
<1>2. S!NoRental \in RentalRow /\ S!NoRental.status = "none" /\ S!NoRental.pay = "unpaid" /\ S!NoRental.owed = FALSE
  BY DEF S!NoRental, RentalRow
<1>3. S!Idle \in CallRecords /\ S!Idle.pc = "idle"
  BY DEF CallRecords, S!Idle
<1>4. call \in [Call -> CallRecords] /\ \A c \in Call : call[c].pc = "idle"
  BY <1>1, <1>3
<1>5. S!TypeOK
  BY <1>1, <1>2, <1>4, RentalsTyped DEF RentalSessions, RentalRefunds, EventSet, CallPlaces
<1>6. \A r \in Card : RentalAgrees(r)
  BY <1>1, <1>2, RentalsAssumption DEF RentalAgrees
<1>7. StripeTold /\ DeliveriesApart /\ \A c \in Call : CallRelies(c)
  BY <1>1, <1>4 DEF StripeTold, DeliveriesApart, Holding, CallRelies
<1> QED
  BY <1>4, <1>5, <1>6, <1>7 DEF RentalsInv

LEMMA RentalsNext ==
  ASSUME RentalsInv, S!Next
  PROVE  RentalsInv'
<1>1. CASE S!ExpireManual
  BY <1>1, ExpireManualStep
<1>2. ASSUME NEW r \in Rental,
             \/ S!Create(r) \/ S!ManualPay(r) \/ S!ManualRefund(r)
             \/ S!DeliverCompleted(r) \/ S!DeliverExpired(r)
             \/ S!HoldEnds(r) \/ S!SessionMoves(r) \/ S!SessionEnds(r) \/ S!RefundMoves(r)
      PROVE  RentalsInv'
  BY <1>2, CreateStep, ManualPayStep, ManualRefundStep, CompletedStep, ExpiredStep, HoldEndsStep,
     SessionMovesStep, SessionEndsStep, RefundMovesStep
<1>3. ASSUME NEW c \in Call,
             \/ S!AskSession(c) \/ S!SaveSession(c) \/ S!Close(c) \/ S!RecordPaid(c) \/ S!Release(c)
             \/ S!CancelRow(c) \/ S!AskRefund(c) \/ S!LoseRefund(c) \/ S!ApplyRefund(c) \/ S!RecordDoubt(c)
             \/ S!EndFailed(c) \/ S!EndRefund(c) \/ S!Stop(c)
      PROVE  RentalsInv'
  BY <1>3, AskSessionStep, SaveSessionStep, CloseStep, RecordPaidStep, ReleaseStep, CancelRowStep, AskRefundStep,
     LoseRefundStep, ApplyRefundStep, RecordDoubtStep, EndFailedStep, EndRefundStep, StopStep
<1>4. ASSUME NEW c \in Call, NEW r \in Rental,
             \/ S!StartCancel(c, r) \/ S!StartRetry(c, r) \/ S!HoldFailed(c, r)
             \/ \E which \in {"created", "updated"} : S!HoldRefund(c, r, which)
             \/ \E for \in {"book", "sync"} : S!StartCheckout(c, r, for)
      PROVE  RentalsInv'
  BY <1>4, StartCancelStep, StartRetryStep, HoldFailedStep, HoldRefundStep, StartCheckoutStep
<1> QED
  BY <1>1, <1>2, <1>3, <1>4 DEF S!Next

LEMMA RentalsStay ==
  ASSUME RentalsInv, UNCHANGED S!vars
  PROVE  RentalsInv'
<1>1. UNCHANGED <<rental, over, rentalSession, rentalRefund, events, call>>
  BY DEF S!vars
<1>2. S!TypeOK'
  BY <1>1, RentalsKnown, RentalsTypedNext
<1>3. StripeTold'
  BY ZenonT(30), <1>1, RentalsKnown DEF StripeTold
<1>4. ASSUME NEW q \in Card PROVE RentalAgrees(q)'
  BY <1>1, RentalsKnown, RentalsAssumption, RentalAgreesStays
<1> QED
  BY <1>1, <1>2, <1>3, <1>4, RentalsMove

LEMMA RentalsHold ==
  ASSUME RentalsInv
  PROVE  S!TypeOK /\ S!ReleasedIsUnpayable /\ S!ConfirmedIsPaid /\ S!RefundIsTold
<1>1. S!TypeOK /\ \A r \in Card : RentalAgrees(r)
  BY DEF RentalsInv
<1>2. S!ReleasedIsUnpayable /\ S!ConfirmedIsPaid
  BY <1>1 DEF S!ReleasedIsUnpayable, S!ConfirmedIsPaid, RentalAgrees
<1>3. S!RefundIsTold
  BY <1>1 DEF S!RefundIsTold, RentalAgrees
<1> QED
  BY <1>1, <1>2, <1>3

\* A rental is confirmed for money that Stripe has, cannot be paid for once its
\* dates are released, and is refunded as staff are told.
THEOREM RentalsCorrect ==
  S!Spec => [](S!TypeOK /\ S!ReleasedIsUnpayable /\ S!ConfirmedIsPaid /\ S!RefundIsTold)
<1>1. S!Init => RentalsInv
  BY RentalsInit
<1>2. RentalsInv /\ [S!Next]_S!vars => RentalsInv'
  BY RentalsNext, RentalsStay
<1>3. RentalsInv => S!TypeOK /\ S!ReleasedIsUnpayable /\ S!ConfirmedIsPaid /\ S!RefundIsTold
  BY RentalsHold
<1> QED
  BY <1>1, <1>2, <1>3, PTL DEF S!Spec

-----------------------------------------------------------------------------
(* Classes.                                                                *)

Doing == [pc : {"idle", "class", "owed", "covered", "pending", "bill", "commit"},
          do : {"none", "enroll", "withdraw", "attend", "cancel", "settle"},
          member : Member \cup {"none"}, class : Class \cup {"none"}, bill : Bills \cup {"none"},
          locked : SUBSET (Member \cup Class \cup Bills), fee : BOOLEAN]

\* A place is used by whoever has enrolled, whether or not they come.
PlacesUsed(k) == {m \in Member : seat[k][m].status \in {"enrolled", "attended", "no_show"}}

TransactionsApart == \A t, u \in Tx : t # u => tx[t].locked \cap tx[u].locked = {}

\* What an enrolment found of the class and of the fee, under its locks.
Enrols(t) ==
  LET m == tx[t].member
      k == tx[t].class
      b == tx[t].bill
  IN tx[t].do = "enroll" =>
       /\ m \in Member /\ k \in Class /\ m \in tx[t].locked
       /\ tx[t].pc \in {"class", "owed", "covered", "pending", "commit"}
       /\ tx[t].pc \in {"class", "owed", "covered"} => ~ tx[t].fee /\ b = "none"
       /\ tx[t].pc # "class" =>
            k \in tx[t].locked /\ class[k] # "cancelled" /\ Cardinality(PlacesUsed(k)) < Capacity
       /\ b # "none" => b \in tx[t].locked /\ T!Settled(b) /\ tx[t].pc = "commit" /\ ~ tx[t].fee
       /\ tx[t].fee => \A c \in T!BillsOf(m) : ~ T!Settled(c)
       /\ tx[t].fee /\ tx[t].pc = "commit" => \A c \in T!BillsOf(m) : fee[c].status # "pending"

\* What staff and the operations on a class found.
OthersWait(t) ==
  LET m == tx[t].member
      k == tx[t].class
      b == tx[t].bill
  IN /\ tx[t].pc \in {"owed", "covered", "pending", "class"} => tx[t].do = "enroll"
     /\ tx[t].do = "settle" =>
          /\ m \in Member /\ m \in tx[t].locked /\ b \in Bills /\ fee[b].member = m
          /\ tx[t].pc = "commit" => b \in tx[t].locked /\ fee[b].status \in {"pending", "paid"}
     /\ tx[t].do \in {"withdraw", "attend", "cancel"} => k \in Class /\ k \in tx[t].locked
     /\ tx[t].do \in {"withdraw", "attend"} => m \in Member
     /\ tx[t].do = "attend" => class[k] # "scheduled" /\ seat[k][m].status \notin {"none", "cancelled"}

SeatsUsed ==
  /\ \A k \in Class : Cardinality(PlacesUsed(k)) <= Capacity
  /\ \A k \in Class, m \in Member :
       /\ class[k] = "scheduled" => seat[k][m].status \notin {"attended", "no_show"}
       /\ seat[k][m].bill # "none" => fee[seat[k][m].bill].status # "unused"

FeesOwed ==
  /\ \A b \in Bills : fee[b].status = "unused" <=> fee[b].member = "none"
  /\ T!BilledOnce
  /\ T!NothingOwed

ClassesInv ==
  /\ T!TypeOK /\ tx \in [Tx -> Doing] /\ TransactionsApart
  /\ \A t \in Tx : Enrols(t) /\ OthersWait(t)
  /\ SeatsUsed /\ FeesOwed

\* The numbers of places are those that the library counts.
LEMMA SameCount ==
  \A s : T!Cardinality(s) = Cardinality(s)
BY DEF T!Cardinality, Cardinality

LEMMA NoneTx == T!Idle \in Doing /\ T!Idle.pc = "idle" /\ T!Idle.do = "none" /\ T!Idle.locked = {} /\ T!Idle.fee = FALSE
BY DEF T!Idle, Doing

\* Steps of one transaction.
LEMMA TxSet ==
  ASSUME tx \in [Tx -> Doing], NEW t \in Tx, NEW r \in Doing, tx' = [tx EXCEPT ![t] = r]
  PROVE  tx' \in [Tx -> Doing] /\ tx'[t] = r /\ \A u \in Tx \ {t} : tx'[u] = tx[u]
OBVIOUS

LEMMA TxEnds ==
  ASSUME tx \in [Tx -> Doing], NEW t \in Tx, T!Refuse(t)
  PROVE  tx' \in [Tx -> Doing] /\ tx'[t] = T!Idle /\ \A u \in Tx \ {t} : tx'[u] = tx[u]
BY NoneTx, TxSet DEF T!Refuse

LEMMA TxGoes ==
  ASSUME tx \in [Tx -> Doing], NEW t \in Tx, NEW pc \in {"covered", "commit"}, T!Goto(t, pc)
  PROVE  /\ tx' \in [Tx -> Doing] /\ \A u \in Tx \ {t} : tx'[u] = tx[u]
         /\ tx'[t].pc = pc
         /\ tx'[t].do = tx[t].do /\ tx'[t].member = tx[t].member /\ tx'[t].class = tx[t].class
         /\ tx'[t].bill = tx[t].bill /\ tx'[t].locked = tx[t].locked /\ tx'[t].fee = tx[t].fee
<1> DEFINE r == [tx[t] EXCEPT !.pc = pc]
<1>1. tx[t] \in Doing
  OBVIOUS
<1>2. pc \in {"idle", "class", "owed", "covered", "pending", "bill", "commit"}
  OBVIOUS
<1>3. /\ r \in Doing /\ r.pc = pc /\ r.do = tx[t].do /\ r.member = tx[t].member /\ r.class = tx[t].class
      /\ r.bill = tx[t].bill /\ r.locked = tx[t].locked /\ r.fee = tx[t].fee
  BY <1>1, <1>2 DEF Doing
<1>4. tx' = [tx EXCEPT ![t] = r]
  BY DEF T!Goto
<1> HIDE DEF r
<1> QED
  BY <1>3, <1>4, TxSet

LEMMA TxLocks ==
  ASSUME tx \in [Tx -> Doing], NEW t \in Tx, NEW x \in Member \cup Class \cup Bills,
         NEW pc \in {"owed", "commit"}, T!Lock(t, x, pc)
  PROVE  /\ tx' \in [Tx -> Doing] /\ \A u \in Tx \ {t} : tx'[u] = tx[u]
         /\ tx'[t].pc = pc /\ tx'[t].locked = tx[t].locked \cup {x}
         /\ tx'[t].do = tx[t].do /\ tx'[t].member = tx[t].member /\ tx'[t].class = tx[t].class
         /\ tx'[t].bill = tx[t].bill /\ tx'[t].fee = tx[t].fee
<1> DEFINE r == [tx[t] EXCEPT !.locked = tx[t].locked \cup {x}, !.pc = pc]
<1>1. tx[t] \in Doing
  OBVIOUS
<1>2. pc \in {"idle", "class", "owed", "covered", "pending", "bill", "commit"}
  OBVIOUS
<1>3. /\ r \in Doing /\ r.pc = pc /\ r.do = tx[t].do /\ r.member = tx[t].member /\ r.class = tx[t].class
      /\ r.bill = tx[t].bill /\ r.locked = tx[t].locked \cup {x} /\ r.fee = tx[t].fee
  BY <1>1, <1>2 DEF Doing
<1>4. tx' = [tx EXCEPT ![t] = r]
  BY <1>1 DEF T!Lock
<1> HIDE DEF r
<1> QED
  BY <1>3, <1>4, TxSet

\* A step that touches nothing but the transaction itself.
LEMMA ClassesMove ==
  ASSUME ClassesInv, NEW t \in Tx, tx' \in [Tx -> Doing], \A u \in Tx \ {t} : tx'[u] = tx[u],
         \A x \in tx'[t].locked \ tx[t].locked : T!Free(t, x), UNCHANGED <<class, seat, fee>>,
         Enrols(t)', OthersWait(t)'
  PROVE  ClassesInv'
<1>1. T!TypeOK' /\ tx' \in [Tx -> Doing]
  BY DEF ClassesInv, T!TypeOK, Doing
<1>2. TransactionsApart'
  BY DEF ClassesInv, TransactionsApart, T!Free
<1>3. ASSUME NEW u \in Tx \ {t} PROVE Enrols(u)' /\ OthersWait(u)'
  <2>1. tx'[u] = tx[u]
    OBVIOUS
  <2>2. Enrols(u) /\ OthersWait(u)
    BY DEF ClassesInv
  <2>3. Enrols(u)'
    BY <2>1, <2>2 DEF Enrols, PlacesUsed, T!Settled, T!BillsOf
  <2>4. OthersWait(u)'
    BY <2>1, <2>2 DEF OthersWait
  <2> QED
    BY <2>3, <2>4
<1>4. SeatsUsed' /\ FeesOwed'
  BY DEF ClassesInv, SeatsUsed, FeesOwed, PlacesUsed, T!BilledOnce, T!NothingOwed
<1> QED
  BY <1>1, <1>2, <1>3, <1>4 DEF ClassesInv

\* What a transaction holds is left to it by the others.
LEMMA ClassesLeave ==
  ASSUME ClassesInv, NEW u \in Tx, tx'[u] = tx[u], T!TypeOK',
         \A k \in Class : class'[k] = class[k] \/ (class'[k] = "started" /\ class[k] = "scheduled") \/ k \notin tx[u].locked,
         \A k \in Class : seat'[k] = seat[k] \/ k \notin tx[u].locked,
         \A b \in Bills : fee'[b] = fee[b] \/ b \notin tx[u].locked \/ fee[b].status = "unused",
         \A b \in Bills : fee[b].member \in Member => fee'[b].member = fee[b].member,
         \A b \in Bills, m \in Member \cap tx[u].locked :
           fee'[b].member = m => fee[b].member = m /\ fee'[b].status \in {fee[b].status, "void", "refunded"}
  PROVE  Enrols(u)' /\ OthersWait(u)'
<1>1. Enrols(u) /\ OthersWait(u) /\ tx[u] \in Doing /\ T!TypeOK
  BY DEF ClassesInv
<1> DEFINE m == tx[u].member
           k == tx[u].class
           b == tx[u].bill
<1>2. ASSUME tx[u].do = "enroll" PROVE Enrols(u)'
  <2>1. m \in Member /\ k \in Class /\ m \in tx[u].locked
    BY <1>1, <1>2 DEF Enrols
  <2>2. ASSUME tx[u].pc # "class" PROVE class'[k] # "cancelled" /\ PlacesUsed(k)' = PlacesUsed(k)
    <3>1. k \in tx[u].locked /\ class[k] # "cancelled"
      BY <1>1, <1>2, <2>2 DEF Enrols
    <3>2. seat'[k] = seat[k]
      BY <2>1, <3>1
    <3> QED
      BY <2>1, <3>1, <3>2 DEF PlacesUsed
  <2>3. ASSUME b # "none" PROVE T!Settled(b)'
    BY <1>1, <1>2, <2>3 DEF Enrols, T!Settled, Doing
  <2>4. ASSUME tx[u].fee, NEW c \in T!BillsOf(m)' PROVE ~ T!Settled(c)' /\ (tx[u].pc = "commit" => fee'[c].status # "pending")
    <3>1. c \in Bills /\ fee'[c].member = m
      BY <2>4 DEF T!BillsOf
    <3>2. c \in T!BillsOf(m) /\ fee'[c].status \in {fee[c].status, "void", "refunded"}
      BY <2>1, <3>1 DEF T!BillsOf
    <3> QED
      BY <1>1, <1>2, <2>4, <3>2 DEF Enrols, T!Settled
  <2> QED
    BY <1>1, <1>2, <2>1, <2>2, <2>3, <2>4 DEF Enrols
<1>3. tx[u].do # "enroll" => Enrols(u)'
  BY DEF Enrols
<1>4. OthersWait(u)'
  <2>1. ASSUME tx[u].do = "settle"
        PROVE  fee'[b].member = m /\ (tx[u].pc = "commit" => fee'[b].status \in {"pending", "paid"})
    BY <1>1, <2>1 DEF OthersWait
  <2>2. ASSUME tx[u].do = "attend"
        PROVE  class'[k] # "scheduled" /\ seat'[k][m].status \notin {"none", "cancelled"}
    <3>1. k \in Class /\ k \in tx[u].locked /\ class[k] # "scheduled" /\ seat[k][m].status \notin {"none", "cancelled"}
      BY <1>1, <2>2 DEF OthersWait
    <3> QED
      BY <3>1
  <2> QED
    BY <1>1, <2>1, <2>2 DEF OthersWait
<1> QED
  BY <1>2, <1>3, <1>4

LEMMA ClassesCommit ==
  ASSUME ClassesInv, NEW t \in Tx, T!Refuse(t), T!TypeOK', SeatsUsed', FeesOwed',
         \A k \in Class : class'[k] = class[k] \/ k \in tx[t].locked,
         \A k \in Class : seat'[k] = seat[k] \/ k \in tx[t].locked,
         \A b \in Bills :
           fee'[b] = fee[b] \/ fee[b].status = "unused" \/ \A u \in Tx \ {t} : b \notin tx[u].locked,
         \A b \in Bills : fee[b].member \in Member => fee'[b].member = fee[b].member,
         \A b \in Bills, m \in Member \ tx[t].locked :
           fee'[b].member = m => fee[b].member = m /\ fee'[b].status \in {fee[b].status, "void", "refunded"}
  PROVE  ClassesInv'
<1>1. tx' \in [Tx -> Doing] /\ tx'[t] = T!Idle /\ \A u \in Tx \ {t} : tx'[u] = tx[u]
  BY TxEnds DEF ClassesInv
<1>2. TransactionsApart'
  BY <1>1, NoneTx DEF ClassesInv, TransactionsApart
<1>3. Enrols(t)' /\ OthersWait(t)'
  BY <1>1, NoneTx DEF Enrols, OthersWait
<1>4. ASSUME NEW u \in Tx \ {t} PROVE Enrols(u)' /\ OthersWait(u)'
  <2>1. tx'[u] = tx[u] /\ tx[u].locked \cap tx[t].locked = {}
    BY <1>1 DEF ClassesInv, TransactionsApart
  <2> QED
    BY <2>1, ClassesLeave
<1> QED
  BY <1>1, <1>2, <1>3, <1>4 DEF ClassesInv

LEMMA ClassesAbort ==
  ASSUME ClassesInv, NEW t \in Tx, T!Refuse(t), UNCHANGED <<class, seat, fee>>
  PROVE  ClassesInv'
<1>1. tx' \in [Tx -> Doing] /\ tx'[t] = T!Idle /\ \A u \in Tx \ {t} : tx'[u] = tx[u]
  BY TxEnds DEF ClassesInv
<1>2. Enrols(t)' /\ OthersWait(t)'
  BY <1>1, NoneTx DEF Enrols, OthersWait
<1> QED
  BY <1>1, <1>2, NoneTx, ClassesMove

LEMMA ClassesBegin ==
  ASSUME ClassesInv, NEW t \in Tx,
         \/ \E m \in Member, k \in Class : T!Begin(t, "enroll", m, k, "none")
         \/ \E b \in Bills : fee[b].status # "unused" /\ T!Begin(t, "settle", fee[b].member, "none", b)
  PROVE  ClassesInv'
<1>1. T!TypeOK /\ tx \in [Tx -> Doing] /\ FeesOwed
  BY DEF ClassesInv
<1>2. ASSUME NEW m \in Member, NEW k \in Class, T!Begin(t, "enroll", m, k, "none") PROVE ClassesInv'
  <2> DEFINE r == [T!Idle EXCEPT !.do = "enroll", !.member = m, !.class = k, !.bill = "none", !.locked = {m},
                                 !.pc = "class"]
  <2>1. /\ r \in Doing /\ r.do = "enroll" /\ r.member = m /\ r.class = k /\ r.bill = "none" /\ r.locked = {m}
        /\ r.pc = "class" /\ r.fee = FALSE
    BY DEF T!Idle, Doing
  <2>2. tx' = [tx EXCEPT ![t] = r] /\ T!Free(t, m) /\ UNCHANGED <<class, seat, fee>>
    BY ZenonT(30), <1>2 DEF T!Begin, T!MemberFree
  <2> HIDE DEF r
  <2>3. tx' \in [Tx -> Doing] /\ tx'[t] = r /\ \A u \in Tx \ {t} : tx'[u] = tx[u]
    BY <1>1, <2>1, <2>2, TxSet
  <2>4. Enrols(t)' /\ OthersWait(t)'
    BY <2>1, <2>3 DEF Enrols, OthersWait
  <2> QED
    BY <2>1, <2>2, <2>3, <2>4, ClassesMove
<1>3. ASSUME NEW b \in Bills, fee[b].status # "unused", T!Begin(t, "settle", fee[b].member, "none", b)
      PROVE  ClassesInv'
  <2> DEFINE m == fee[b].member
             r == [T!Idle EXCEPT !.do = "settle", !.member = m, !.class = "none", !.bill = b, !.locked = {m},
                                 !.pc = "bill"]
  <2>1. m \in Member
    BY <1>1, <1>3 DEF T!TypeOK, FeesOwed
  <2>2. /\ r \in Doing /\ r.do = "settle" /\ r.member = m /\ r.bill = b /\ r.locked = {m} /\ r.pc = "bill"
    BY <2>1 DEF T!Idle, Doing
  <2>3. tx' = [tx EXCEPT ![t] = r] /\ T!Free(t, m) /\ UNCHANGED <<class, seat, fee>>
    BY ZenonT(30), <1>3 DEF T!Begin, T!MemberFree
  <2> HIDE DEF r
  <2>4. tx' \in [Tx -> Doing] /\ tx'[t] = r /\ \A u \in Tx \ {t} : tx'[u] = tx[u]
    BY <1>1, <2>2, <2>3, TxSet
  <2>5. Enrols(t)' /\ OthersWait(t)'
    BY <2>1, <2>2, <2>3, <2>4 DEF Enrols, OthersWait
  <2> QED
    BY <2>1, <2>2, <2>3, <2>4, <2>5, ClassesMove
<1> QED
  BY <1>2, <1>3

LEMMA ClassesOnClass ==
  ASSUME ClassesInv, NEW t \in Tx, NEW do \in {"withdraw", "attend", "cancel"}, NEW m \in Member \cup {"none"},
         m \in Member \/ do = "cancel", NEW k \in Class, T!OnClass(t, do, m, k)
  PROVE  ClassesInv'
<1> DEFINE r == [T!Idle EXCEPT !.do = do, !.member = m, !.class = k, !.locked = {k},
                               !.pc = IF do = "attend" THEN "commit" ELSE "bill"]
<1>1. /\ r \in Doing /\ r.do = do /\ r.member = m /\ r.class = k /\ r.locked = {k} /\ r.pc \in {"bill", "commit"}
  BY DEF T!Idle, Doing
<1>2. tx' = [tx EXCEPT ![t] = r] /\ T!Free(t, k) /\ UNCHANGED <<class, seat, fee>>
  BY DEF T!OnClass, T!ClassFree
<1>3. do = "attend" => class[k] = "started" /\ seat[k][m].status \notin {"none", "cancelled"}
  BY DEF T!OnClass
<1> HIDE DEF r
<1>4. tx' \in [Tx -> Doing] /\ tx'[t] = r /\ \A u \in Tx \ {t} : tx'[u] = tx[u]
  BY <1>1, <1>2, TxSet DEF ClassesInv
<1>5. Enrols(t)' /\ OthersWait(t)'
  BY <1>1, <1>2, <1>3, <1>4 DEF Enrols, OthersWait
<1> QED
  BY <1>1, <1>2, <1>4, <1>5, ClassesMove

LEMMA ClassesLockClass ==
  ASSUME ClassesInv, NEW t \in Tx, T!LockClass(t)
  PROVE  ClassesInv'
<1>1. T!TypeOK /\ tx \in [Tx -> Doing] /\ Enrols(t) /\ OthersWait(t) /\ SeatsUsed
  BY DEF ClassesInv
<1> DEFINE k == tx[t].class
           m == tx[t].member
<1>2. /\ tx[t].pc = "class" /\ tx[t].do = "enroll" /\ k \in Class /\ m \in Member /\ m \in tx[t].locked
      /\ ~ tx[t].fee /\ tx[t].bill = "none" /\ T!Free(t, k) /\ UNCHANGED <<class, seat, fee>>
  BY <1>1 DEF T!LockClass, T!ClassFree, Enrols, OthersWait
<1>3. CASE T!Enrollable(m, k) /\ T!Lock(t, k, "owed")
  <2>1. /\ tx' \in [Tx -> Doing] /\ \A u \in Tx \ {t} : tx'[u] = tx[u]
        /\ tx'[t].pc = "owed" /\ tx'[t].locked = tx[t].locked \cup {k}
        /\ tx'[t].do = tx[t].do /\ tx'[t].member = tx[t].member /\ tx'[t].class = tx[t].class
        /\ tx'[t].bill = tx[t].bill /\ tx'[t].fee = tx[t].fee
    BY <1>1, <1>2, <1>3, TxLocks
  <2>2. class[k] = "scheduled" /\ PlacesUsed(k) = T!Taken(k)
    <3>1. class[k] = "scheduled"
      BY <1>3 DEF T!Enrollable
    <3>2. \A n \in Member : seat[k][n].status \notin {"attended", "no_show"}
      BY <1>1, <1>2, <3>1 DEF SeatsUsed
    <3> QED
      BY <3>1, <3>2 DEF PlacesUsed, T!Taken
  <2>3. Cardinality(PlacesUsed(k)) < Capacity
    BY <1>3, <2>2, SameCount DEF T!Enrollable
  <2>4. PlacesUsed(k)' = PlacesUsed(k)
    BY <1>2, <2>1 DEF PlacesUsed
  <2>5. Enrols(t)'
    BY <1>2, <2>1, <2>2, <2>3, <2>4 DEF Enrols
  <2>6. OthersWait(t)'
    BY <1>2, <2>1 DEF OthersWait
  <2> QED
    BY <1>2, <2>1, <2>5, <2>6, ClassesMove
<1>4. CASE T!Refuse(t)
  BY <1>2, <1>4, ClassesAbort
<1> QED
  BY <1>3, <1>4 DEF T!LockClass

LEMMA ClassesReadOwed ==
  ASSUME ClassesInv, NEW t \in Tx, T!ReadOwed(t)
  PROVE  ClassesInv'
<1>1. T!TypeOK /\ tx \in [Tx -> Doing] /\ Enrols(t) /\ OthersWait(t)
  BY DEF ClassesInv
<1> DEFINE k == tx[t].class
           m == tx[t].member
           b == seat[k][m].bill
<1>2. /\ tx[t].pc = "owed" /\ tx[t].do = "enroll" /\ k \in Class /\ m \in Member
      /\ ~ tx[t].fee /\ tx[t].bill = "none" /\ UNCHANGED <<class, seat, fee>>
  BY <1>1 DEF T!ReadOwed, Enrols, OthersWait
<1>3. CASE b = "none"
  <2>1. T!Goto(t, "covered")
    BY <1>3 DEF T!ReadOwed
  <2>2. /\ tx' \in [Tx -> Doing] /\ \A u \in Tx \ {t} : tx'[u] = tx[u]
        /\ tx'[t].pc = "covered"
        /\ tx'[t].do = tx[t].do /\ tx'[t].member = tx[t].member /\ tx'[t].class = tx[t].class
        /\ tx'[t].bill = tx[t].bill /\ tx'[t].locked = tx[t].locked /\ tx'[t].fee = tx[t].fee
    BY <1>1, <2>1, TxGoes
  <2>3. PlacesUsed(k)' = PlacesUsed(k)
    BY <1>2, <2>2 DEF PlacesUsed
  <2>4. Enrols(t)' /\ OthersWait(t)'
    BY <1>1, <1>2, <2>2, <2>3 DEF Enrols, OthersWait
  <2> QED
    BY <1>2, <2>2, <2>4, ClassesMove
<1>4. CASE b # "none"
  <2> DEFINE r == [tx[t] EXCEPT !.locked = tx[t].locked \cup {b},
                                !.bill = IF T!Settled(b) THEN b ELSE tx[t].bill,
                                !.pc = IF T!Settled(b) THEN "commit" ELSE "covered"]
  <2>1. b \in Bills
    BY <1>1, <1>2, <1>4 DEF T!TypeOK
  <2>2. T!Free(t, b) /\ tx' = [tx EXCEPT ![t] = r]
    BY ZenonT(30), <1>1, <1>4 DEF T!ReadOwed
  <2>3. tx[t] \in Doing
    BY <1>1
  <2>4. /\ r \in Doing /\ r.do = tx[t].do /\ r.member = m /\ r.class = k
        /\ r.locked = tx[t].locked \cup {b} /\ r.fee = tx[t].fee
        /\ r.bill = (IF T!Settled(b) THEN b ELSE tx[t].bill)
        /\ r.pc = (IF T!Settled(b) THEN "commit" ELSE "covered")
    BY ZenonT(60), <2>1, <2>3 DEF Doing
  <2> HIDE DEF r
  <2>5. tx' \in [Tx -> Doing] /\ tx'[t] = r /\ \A u \in Tx \ {t} : tx'[u] = tx[u]
    BY <1>1, <2>2, <2>4, TxSet
  <2>6. PlacesUsed(k)' = PlacesUsed(k) /\ (\A c : T!Settled(c)' <=> T!Settled(c))
    BY ZenonT(30), <1>2, <2>4, <2>5 DEF PlacesUsed, T!Settled
  <2>7. Enrols(t)' /\ OthersWait(t)'
    BY <1>1, <1>2, <2>4, <2>5, <2>6 DEF Enrols, OthersWait
  <2> QED
    BY <1>2, <2>2, <2>4, <2>5, <2>7, ClassesMove
<1> QED
  BY <1>3, <1>4

LEMMA ClassesReadCovered ==
  ASSUME ClassesInv, NEW t \in Tx, T!ReadCovered(t)
  PROVE  ClassesInv'
<1>1. T!TypeOK /\ tx \in [Tx -> Doing] /\ Enrols(t) /\ OthersWait(t)
  BY DEF ClassesInv
<1> DEFINE k == tx[t].class
           m == tx[t].member
           covered == \E b \in T!BillsOf(m) : T!Settled(b)
           r == [tx[t] EXCEPT !.fee = ~ covered, !.pc = IF covered THEN "commit" ELSE "pending"]
<1>2. /\ tx[t].pc = "covered" /\ tx[t].do = "enroll" /\ k \in Class /\ m \in Member
      /\ tx[t].bill = "none" /\ UNCHANGED <<class, seat, fee>>
  BY <1>1 DEF T!ReadCovered, Enrols, OthersWait
<1>3. tx' = [tx EXCEPT ![t] = r]
  BY <1>1 DEF T!ReadCovered
<1>4. tx[t] \in Doing
  BY <1>1
<1>5. /\ r \in Doing /\ r.do = tx[t].do /\ r.member = m /\ r.class = k /\ r.locked = tx[t].locked
      /\ r.bill = tx[t].bill /\ r.fee = ~ covered /\ r.pc = (IF covered THEN "commit" ELSE "pending")
  BY ZenonT(30), <1>4 DEF Doing
<1> HIDE DEF r
<1>6. tx' \in [Tx -> Doing] /\ tx'[t] = r /\ \A u \in Tx \ {t} : tx'[u] = tx[u]
  BY <1>1, <1>3, <1>5, TxSet
<1>7. PlacesUsed(k)' = PlacesUsed(k) /\ T!BillsOf(m)' = T!BillsOf(m) /\ (\A c : T!Settled(c)' <=> T!Settled(c))
  BY <1>2, <1>5, <1>6 DEF PlacesUsed, T!Settled, T!BillsOf
<1>8. r.fee => \A c \in T!BillsOf(m) : ~ T!Settled(c)
  BY <1>5
<1>9. r.fee => r.pc = "pending"
  BY <1>5
<1> HIDE DEF covered
<1>10. Enrols(t)'
  BY <1>1, <1>2, <1>5, <1>6, <1>7, <1>8, <1>9 DEF Enrols
<1>11. OthersWait(t)'
  BY <1>1, <1>2, <1>5, <1>6 DEF OthersWait
<1> QED
  BY <1>2, <1>5, <1>6, <1>10, <1>11, ClassesMove

LEMMA ClassesReadPending ==
  ASSUME ClassesInv, NEW t \in Tx, T!ReadPending(t)
  PROVE  ClassesInv'
<1>1. T!TypeOK /\ tx \in [Tx -> Doing] /\ Enrols(t) /\ OthersWait(t)
  BY DEF ClassesInv
<1> DEFINE k == tx[t].class
           m == tx[t].member
<1>2. /\ tx[t].pc = "pending" /\ tx[t].do = "enroll" /\ k \in Class /\ m \in Member
      /\ UNCHANGED <<class, seat, fee>>
  BY <1>1 DEF T!ReadPending, Enrols, OthersWait
<1>3. CASE T!Refuse(t)
  BY <1>2, <1>3, ClassesAbort
<1>4. ASSUME \A b \in T!BillsOf(m) : fee[b].status # "pending", T!Goto(t, "commit")
      PROVE  ClassesInv'
  <2>1. /\ tx' \in [Tx -> Doing] /\ \A u \in Tx \ {t} : tx'[u] = tx[u]
        /\ tx'[t].pc = "commit"
        /\ tx'[t].do = tx[t].do /\ tx'[t].member = tx[t].member /\ tx'[t].class = tx[t].class
        /\ tx'[t].bill = tx[t].bill /\ tx'[t].locked = tx[t].locked /\ tx'[t].fee = tx[t].fee
    BY <1>1, <1>4, TxGoes
  <2>2. PlacesUsed(k)' = PlacesUsed(k) /\ T!BillsOf(m)' = T!BillsOf(m) /\ (\A c : T!Settled(c)' <=> T!Settled(c))
    BY <1>2, <2>1 DEF PlacesUsed, T!Settled, T!BillsOf
  <2>3. Enrols(t)'
    BY <1>1, <1>2, <1>4, <2>1, <2>2 DEF Enrols
  <2>4. OthersWait(t)'
    BY <1>1, <1>2, <2>1 DEF OthersWait
  <2> QED
    BY <1>2, <2>1, <2>3, <2>4, ClassesMove
<1> QED
  BY <1>3, <1>4 DEF T!ReadPending

LEMMA ClassesLockBill ==
  ASSUME ClassesInv, NEW t \in Tx, T!LockBill(t)
  PROVE  ClassesInv'
<1>1. T!TypeOK /\ tx \in [Tx -> Doing] /\ OthersWait(t)
  BY DEF ClassesInv
<1> DEFINE b == tx[t].bill
<1>2. tx[t].do = "settle" /\ b \in Bills /\ T!Free(t, b) /\ UNCHANGED <<class, seat, fee>>
  BY <1>1 DEF T!LockBill, OthersWait
<1>3. ASSUME fee[b].status \in {"pending", "paid"}, T!Lock(t, b, "commit") PROVE ClassesInv'
  <2>1. /\ tx' \in [Tx -> Doing] /\ \A u \in Tx \ {t} : tx'[u] = tx[u]
        /\ tx'[t].pc = "commit" /\ tx'[t].locked = tx[t].locked \cup {b}
        /\ tx'[t].do = tx[t].do /\ tx'[t].member = tx[t].member /\ tx'[t].class = tx[t].class
        /\ tx'[t].bill = tx[t].bill /\ tx'[t].fee = tx[t].fee
    BY <1>1, <1>2, <1>3, TxLocks
  <2>2. Enrols(t)' /\ OthersWait(t)'
    BY <1>1, <1>2, <1>3, <2>1 DEF Enrols, OthersWait
  <2> QED
    BY <1>2, <2>1, <2>2, ClassesMove
<1>4. CASE T!Refuse(t)
  BY <1>2, <1>4, ClassesAbort
<1> QED
  BY <1>3, <1>4 DEF T!LockBill

LEMMA UsedFinite ==
  ASSUME NEW X \in SUBSET Member
  PROVE  IsFiniteSet(X) /\ Cardinality(X) \in Nat
         /\ \A Y \in SUBSET X : Cardinality(Y) \in Nat /\ Cardinality(Y) <= Cardinality(X)
<1>1. IsFiniteSet(X)
  BY ClassesAssumption, FS_Subset
<1>2. Cardinality(X) \in Nat
  BY <1>1, FS_CardinalityType
<1>3. ASSUME NEW Y \in SUBSET X PROVE Cardinality(Y) \in Nat /\ Cardinality(Y) <= Cardinality(X)
  <2>1. IsFiniteSet(Y) /\ Cardinality(Y) <= Cardinality(X)
    BY <1>1, FS_Subset
  <2> QED
    BY <2>1, FS_CardinalityType
<1> QED
  BY <1>1, <1>2, <1>3

LEMMA OneMore ==
  ASSUME NEW X \in SUBSET Member, NEW m \in Member
  PROVE  Cardinality(X \cup {m}) <= Cardinality(X) + 1
<1>1. IsFiniteSet(X) /\ Cardinality(X) \in Nat
  BY UsedFinite
<1>2. Cardinality(X \cup {m}) = IF m \in X THEN Cardinality(X) ELSE Cardinality(X) + 1
  BY <1>1, FS_AddElement
<1> QED
  BY <1>1, <1>2

\* A seat is changed.
LEMMA SeatSet ==
  ASSUME T!TypeOK, NEW k \in Class, NEW m \in Member,
         NEW s \in {"none", "enrolled", "attended", "no_show", "cancelled"}, NEW b \in Bills \cup {"none"},
         seat' = [seat EXCEPT ![k][m] = [status |-> s, bill |-> b]]
  PROVE  /\ seat' \in [Class -> [Member -> [status : {"none", "enrolled", "attended", "no_show", "cancelled"},
                                           bill : Bills \cup {"none"}]]]
         /\ seat'[k][m].status = s /\ seat'[k][m].bill = b
         /\ \A c \in Class \ {k} : seat'[c] = seat[c]
         /\ \A n \in Member \ {m} : seat'[k][n] = seat[k][n]
<1> DEFINE r == [status |-> s, bill |-> b]
<1>1. r \in [status : {"none", "enrolled", "attended", "no_show", "cancelled"}, bill : Bills \cup {"none"}]
      /\ r.status = s /\ r.bill = b
  OBVIOUS
<1> HIDE DEF r
<1>2. seat' = [seat EXCEPT ![k][m] = r]
  BY DEF r
<1>3. seat \in [Class -> [Member -> [status : {"none", "enrolled", "attended", "no_show", "cancelled"},
                                     bill : Bills \cup {"none"}]]]
  BY DEF T!TypeOK
<1> QED
  BY <1>1, <1>2, <1>3

LEMMA StatusSet ==
  ASSUME T!TypeOK, NEW k \in Class, NEW m \in Member,
         NEW s \in {"none", "enrolled", "attended", "no_show", "cancelled"},
         seat' = [seat EXCEPT ![k][m].status = s]
  PROVE  /\ seat' \in [Class -> [Member -> [status : {"none", "enrolled", "attended", "no_show", "cancelled"},
                                           bill : Bills \cup {"none"}]]]
         /\ seat'[k][m].status = s /\ seat'[k][m].bill = seat[k][m].bill
         /\ \A c \in Class \ {k} : seat'[c] = seat[c]
         /\ \A n \in Member \ {m} : seat'[k][n] = seat[k][n]
<1> DEFINE Row == [status : {"none", "enrolled", "attended", "no_show", "cancelled"}, bill : Bills \cup {"none"}]
           r == [seat[k][m] EXCEPT !.status = s]
<1>1. seat \in [Class -> [Member -> Row]] /\ seat[k][m] \in Row
  BY DEF T!TypeOK
<1>2. r \in Row /\ r.status = s /\ r.bill = seat[k][m].bill
  BY <1>1
<1>3. seat' = [seat EXCEPT ![k][m] = r]
  OBVIOUS
<1> HIDE DEF r, Row
<1>4. /\ seat' \in [Class -> [Member -> Row]] /\ seat'[k][m] = r
      /\ \A c \in Class \ {k} : seat'[c] = seat[c]
      /\ \A n \in Member \ {m} : seat'[k][n] = seat[k][n]
  BY <1>1, <1>2, <1>3
<1> QED
  BY <1>2, <1>4 DEF Row

LEMMA BillSet ==
  ASSUME T!TypeOK, NEW b \in Bills, NEW m \in Member \cup {"none"},
         NEW s \in {"unused", "pending", "paid", "waived", "void", "refunded"},
         fee' = [fee EXCEPT ![b] = [member |-> m, status |-> s]]
  PROVE  /\ fee' \in [Bills -> [member : Member \cup {"none"},
                               status : {"unused", "pending", "paid", "waived", "void", "refunded"}]]
         /\ fee'[b].member = m /\ fee'[b].status = s
         /\ \A c \in Bills \ {b} : fee'[c] = fee[c]
<1> DEFINE r == [member |-> m, status |-> s]
<1>1. r \in [member : Member \cup {"none"}, status : {"unused", "pending", "paid", "waived", "void", "refunded"}]
      /\ r.member = m /\ r.status = s
  OBVIOUS
<1> HIDE DEF r
<1>2. fee' = [fee EXCEPT ![b] = r]
  BY DEF r
<1>3. fee \in [Bills -> [member : Member \cup {"none"},
                         status : {"unused", "pending", "paid", "waived", "void", "refunded"}]]
  BY DEF T!TypeOK
<1> QED
  BY <1>1, <1>2, <1>3

LEMMA TxStays ==
  ASSUME ClassesInv, NEW t \in Tx, T!Refuse(t)
  PROVE  \A u \in Tx : tx'[u].pc \in {"idle", "class", "owed", "covered", "pending", "bill", "commit"}
<1>1. tx' \in [Tx -> Doing]
  BY TxEnds DEF ClassesInv
<1> QED
  BY <1>1 DEF Doing

LEMMA ClassesEnroll ==
  ASSUME ClassesInv, NEW t \in Tx, T!CommitEnroll(t)
  PROVE  ClassesInv'
<1>1. T!TypeOK /\ tx \in [Tx -> Doing] /\ Enrols(t) /\ SeatsUsed /\ FeesOwed
  BY DEF ClassesInv
<1> DEFINE k == tx[t].class
           m == tx[t].member
<1>2. /\ tx[t].pc = "commit" /\ tx[t].do = "enroll" /\ k \in Class /\ m \in Member
      /\ m \in tx[t].locked /\ k \in tx[t].locked /\ class[k] # "cancelled" /\ Cardinality(PlacesUsed(k)) < Capacity
      /\ T!Refuse(t) /\ class' = class
  BY <1>1 DEF T!CommitEnroll, Enrols
<1>3. PICK b \in Bills \cup {"none"} :
        /\ seat' = [seat EXCEPT ![k][m] = [status |-> "enrolled", bill |-> b]]
        /\ \/ fee' = fee /\ ~ tx[t].fee /\ b = tx[t].bill
           \/ b \in Bills /\ tx[t].fee /\ fee[b].status = "unused"
              /\ fee' = [fee EXCEPT ![b] = [member |-> m, status |-> "pending"]]
  <2>1. tx[t].bill \in Bills \cup {"none"}
    BY <1>1 DEF Doing
  <2> QED
    BY ZenonT(30), <2>1 DEF T!CommitEnroll, T!NewBill
<1>4. /\ seat' \in [Class -> [Member -> [status : {"none", "enrolled", "attended", "no_show", "cancelled"},
                                        bill : Bills \cup {"none"}]]]
      /\ seat'[k][m].status = "enrolled" /\ seat'[k][m].bill = b
      /\ \A c \in Class \ {k} : seat'[c] = seat[c]
      /\ \A n \in Member \ {m} : seat'[k][n] = seat[k][n]
  BY ZenonT(30), <1>1, <1>2, <1>3, SeatSet
<1> DEFINE Billed == /\ fee' \in [Bills -> [member : Member \cup {"none"},
                                        status : {"unused", "pending", "paid", "waived", "void", "refunded"}]]
                     /\ \A c \in Bills : \/ fee'[c] = fee[c]
                                         \/ /\ c = b /\ tx[t].fee /\ fee[c].status = "unused"
                                            /\ fee'[c].member = m /\ fee'[c].status = "pending"
<1>5. Billed
  <2>1. CASE fee' = fee
    BY <1>1, <2>1 DEF T!TypeOK
  <2>2. ASSUME b \in Bills, tx[t].fee, fee[b].status = "unused",
               fee' = [fee EXCEPT ![b] = [member |-> m, status |-> "pending"]]
        PROVE  Billed
    BY <1>1, <1>2, <2>2, BillSet
  <2> QED
    BY <1>3, <2>1, <2>2
<1>6. b # "none" => fee'[b].status # "unused"
  <2>1. CASE fee' = fee /\ ~ tx[t].fee /\ b = tx[t].bill
    BY <1>1, <1>2, <2>1 DEF Enrols, T!Settled
  <2>2. ASSUME b \in Bills, fee' = [fee EXCEPT ![b] = [member |-> m, status |-> "pending"]]
        PROVE  fee'[b].status # "unused"
    BY <1>1, <1>2, <2>2, BillSet
  <2> QED
    BY <1>3, <2>1, <2>2
<1>7. T!TypeOK'
  BY <1>1, <1>2, <1>4, <1>5, TxStays DEF T!TypeOK
<1>8. \A c \in Class : Cardinality(PlacesUsed(c))' <= Capacity
  <2>1. ASSUME NEW c \in Class, c # k PROVE Cardinality(PlacesUsed(c))' <= Capacity
    <3>1. PlacesUsed(c)' = PlacesUsed(c)
      BY <1>4, <2>1 DEF PlacesUsed
    <3> QED
      BY <1>1, <3>1 DEF SeatsUsed
  <2>2. ASSUME NEW c \in Class, c = k PROVE Cardinality(PlacesUsed(c))' <= Capacity
    <3>1. PlacesUsed(c)' = PlacesUsed(c) \cup {m}
      BY <1>2, <1>4, <2>2 DEF PlacesUsed
    <3>2. PlacesUsed(c) \in SUBSET Member
      BY DEF PlacesUsed
    <3>3. Cardinality(PlacesUsed(c) \cup {m}) <= Cardinality(PlacesUsed(c)) + 1
      BY <1>2, <3>2, OneMore
    <3>4. Cardinality(PlacesUsed(c)) \in Nat /\ Cardinality(PlacesUsed(c) \cup {m}) \in Nat
      BY <1>2, <3>2, UsedFinite
    <3>5. Cardinality(PlacesUsed(c) \cup {m}) <= Capacity
      BY <1>2, <2>2, <3>3, <3>4, ClassesAssumption
    <3> QED
      BY <3>1, <3>5
  <2> QED
    BY <2>1, <2>2
<1>9. SeatsUsed'
  <2>1. ASSUME NEW c \in Class, NEW n \in Member
        PROVE  /\ class'[c] = "scheduled" => seat'[c][n].status \notin {"attended", "no_show"}
               /\ seat'[c][n].bill # "none" => fee'[seat'[c][n].bill].status # "unused"
    <3>1. CASE c = k /\ n = m
      BY <1>4, <1>6, <3>1
    <3>2. ASSUME seat'[c][n] = seat[c][n]
          PROVE  /\ class'[c] = "scheduled" => seat'[c][n].status \notin {"attended", "no_show"}
                 /\ seat'[c][n].bill # "none" => fee'[seat'[c][n].bill].status # "unused"
      <4>1. seat[c][n].bill \in Bills \cup {"none"}
        BY <1>1 DEF T!TypeOK
      <4>2. /\ class[c] = "scheduled" => seat[c][n].status \notin {"attended", "no_show"}
            /\ seat[c][n].bill # "none" => fee[seat[c][n].bill].status # "unused"
        BY <1>1 DEF SeatsUsed
      <4> QED
        BY <1>2, <1>5, <3>2, <4>1, <4>2
    <3> QED
      BY <1>4, <3>1, <3>2
  <2> QED
    BY <1>8, <2>1 DEF SeatsUsed
<1>10. \A c \in Bills : fee'[c].status = "unused" <=> fee'[c].member = "none"
  BY <1>1, <1>2, <1>5, ClassesAssumption DEF FeesOwed
<1>11. T!BilledOnce'
  <2> SUFFICES ASSUME NEW c \in Bills, NEW d \in Bills, c # d, fee'[c].member = fee'[d].member,
                      fee'[c].status = "pending"
               PROVE  fee'[d].status \in {"unused", "void", "refunded"}
    BY DEF T!BilledOnce
  <2>1. CASE fee'[c] = fee[c] /\ fee'[d] = fee[d]
    BY <1>1, <2>1 DEF FeesOwed, T!BilledOnce
  <2>2. ASSUME c = b, tx[t].fee, fee'[c].member = m, fee'[d] = fee[d]
        PROVE  fee'[d].status \in {"unused", "void", "refunded"}
    <3>1. d \in T!BillsOf(m)
      BY <2>2 DEF T!BillsOf
    <3>2. ~ T!Settled(d) /\ fee[d].status # "pending"
      BY <1>1, <1>2, <2>2, <3>1 DEF Enrols
    <3> QED
      BY <1>1, <2>2, <3>2 DEF T!TypeOK, T!Settled
  <2>3. ASSUME d = b, tx[t].fee, fee'[d].member = m, fee'[c] = fee[c]
        PROVE  FALSE
    <3>1. c \in T!BillsOf(m)
      BY <2>3 DEF T!BillsOf
    <3> QED
      BY <1>1, <1>2, <2>3, <3>1 DEF Enrols
  <2> QED
    BY <1>5, <2>1, <2>2, <2>3
<1>12. T!NothingOwed'
  <2> SUFFICES ASSUME NEW c \in Class, NEW n \in Member,
                      seat'[c][n].status = "cancelled" \/ class'[c] = "cancelled", seat'[c][n].bill # "none"
               PROVE  fee'[seat'[c][n].bill].status # "pending"
    BY DEF T!NothingOwed
  <2>1. ~ (c = k /\ n = m)
    BY <1>2, <1>4
  <2>2. seat'[c][n] = seat[c][n] /\ class'[c] = class[c] /\ seat[c][n].bill \in Bills
    BY <1>1, <1>2, <1>4, <2>1 DEF T!TypeOK
  <2>3. fee[seat[c][n].bill].status \notin {"unused", "pending"}
    BY <1>1, <2>2 DEF SeatsUsed, FeesOwed, T!NothingOwed
  <2> QED
    BY <1>5, <2>2, <2>3
<1>13. FeesOwed'
  BY <1>10, <1>11, <1>12 DEF FeesOwed
<1>14. /\ \A c \in Class : class'[c] = class[c] \/ c \in tx[t].locked
       /\ \A c \in Class : seat'[c] = seat[c] \/ c \in tx[t].locked
  BY <1>2, <1>4
<1>15. \A c \in Bills : fee'[c] = fee[c] \/ fee[c].status = "unused" \/ \A u \in Tx \ {t} : c \notin tx[u].locked
  BY <1>5
<1>16. \A c \in Bills : fee[c].status = "unused" => fee[c].member = "none"
  BY <1>1 DEF FeesOwed
<1>17. \A c \in Bills : fee[c].member \in Member => fee'[c].member = fee[c].member
  BY <1>5, <1>16, ClassesAssumption
<1>18. \A c \in Bills, n \in Member \ tx[t].locked :
         fee'[c].member = n => fee[c].member = n /\ fee'[c].status \in {fee[c].status, "void", "refunded"}
  BY <1>2, <1>5
<1> QED
  BY <1>2, <1>7, <1>9, <1>13, <1>14, <1>15, <1>17, <1>18, ClassesCommit

\* What a withdrawal or a cancellation does to the bills.
LEMMA BillsVoided ==
  ASSUME ClassesInv, NEW t \in Tx, fee' = T!Voided(t)
  PROVE  /\ fee' \in [Bills -> [member : Member \cup {"none"},
                               status : {"unused", "pending", "paid", "waived", "void", "refunded"}]]
         /\ \A b \in Bills : /\ fee'[b].member = fee[b].member
                             /\ \/ fee'[b] = fee[b]
                                \/ b \in T!ToVoid(t) /\ fee[b].status = "pending" /\ fee'[b].status = "void"
                             /\ b \in T!ToVoid(t) => fee'[b].status # "pending"
<1> DEFINE Row == [member : Member \cup {"none"}, status : {"unused", "pending", "paid", "waived", "void", "refunded"}]
           r(b) == IF b \in T!ToVoid(t) /\ fee[b].status = "pending"
                   THEN [fee[b] EXCEPT !.status = "void"] ELSE fee[b]
<1>1. \A b \in Bills : fee[b] \in Row
  BY DEF ClassesInv, T!TypeOK
<1>2. ASSUME NEW b \in Bills
      PROVE  /\ r(b) \in Row /\ r(b).member = fee[b].member
             /\ \/ r(b) = fee[b]
                \/ b \in T!ToVoid(t) /\ fee[b].status = "pending" /\ r(b).status = "void"
             /\ b \in T!ToVoid(t) => r(b).status # "pending"
  <2>1. CASE b \in T!ToVoid(t) /\ fee[b].status = "pending"
    <3>1. r(b) = [fee[b] EXCEPT !.status = "void"]
      BY <2>1
    <3> HIDE DEF r
    <3>2. r(b) \in Row /\ r(b).member = fee[b].member /\ r(b).status = "void"
      BY <1>1, <3>1
    <3> QED
      BY <2>1, <3>2
  <2>2. CASE ~ (b \in T!ToVoid(t) /\ fee[b].status = "pending")
    <3>1. r(b) = fee[b]
      BY <2>2
    <3> HIDE DEF r
    <3> QED
      BY <1>1, <2>2, <3>1
  <2> QED
    BY <2>1, <2>2
<1>3. fee' = [b \in Bills |-> r(b)]
  BY DEF T!Voided
<1> HIDE DEF r
<1> QED
  BY <1>2, <1>3

\* The bills stay billed once, and whoever owed nothing owes nothing.
LEMMA StillBilledOnce ==
  ASSUME ClassesInv,
         \A b \in Bills : fee'[b].member = fee[b].member /\ (fee'[b] = fee[b] \/ fee'[b].status = "void")
  PROVE  /\ T!BilledOnce'
         /\ \A b \in Bills : fee[b].status # "unused" => (fee'[b].status = "unused" <=> fee'[b].member = "none")
<1>1. FeesOwed
  BY DEF ClassesInv
<1>2. T!BilledOnce'
  <2> SUFFICES ASSUME NEW b \in Bills, NEW c \in Bills, b # c, fee'[b].member = fee'[c].member,
                      fee'[b].status = "pending"
               PROVE  fee'[c].status \in {"unused", "void", "refunded"}
    BY DEF T!BilledOnce
  <2>1. fee'[b] = fee[b] /\ fee[b].member = fee[c].member
    OBVIOUS
  <2>2. fee[c].status \in {"unused", "void", "refunded"}
    BY <1>1, <2>1 DEF FeesOwed, T!BilledOnce
  <2> QED
    BY <2>2
<1> QED
  BY <1>1, <1>2 DEF FeesOwed

LEMMA ClassesWithdraw ==
  ASSUME ClassesInv, NEW t \in Tx, T!CommitWithdraw(t)
  PROVE  ClassesInv'
<1>1. T!TypeOK /\ tx \in [Tx -> Doing] /\ OthersWait(t) /\ SeatsUsed /\ FeesOwed
  BY DEF ClassesInv
<1> DEFINE k == tx[t].class
           m == tx[t].member
<1>2. /\ tx[t].do = "withdraw" /\ k \in Class /\ m \in Member /\ k \in tx[t].locked
      /\ \A b \in T!ToVoid(t) : T!Free(t, b)
      /\ fee' = T!Voided(t) /\ T!Refuse(t) /\ class' = class
      /\ seat' = [seat EXCEPT ![k][m].status = "cancelled"]
  BY <1>1 DEF T!CommitWithdraw, OthersWait
<1>3. /\ fee' \in [Bills -> [member : Member \cup {"none"},
                             status : {"unused", "pending", "paid", "waived", "void", "refunded"}]]
      /\ \A b \in Bills : /\ fee'[b].member = fee[b].member
                          /\ \/ fee'[b] = fee[b]
                             \/ b \in T!ToVoid(t) /\ fee[b].status = "pending" /\ fee'[b].status = "void"
                          /\ b \in T!ToVoid(t) => fee'[b].status # "pending"
  BY <1>2, BillsVoided
<1>4. seat[k][m].bill \in Bills \cup {"none"} /\ T!ToVoid(t) = {seat[k][m].bill} \ {"none"}
  BY <1>1, <1>2 DEF T!TypeOK, T!ToVoid, T!Concerned
<1>5. /\ seat' \in [Class -> [Member -> [status : {"none", "enrolled", "attended", "no_show", "cancelled"},
                                        bill : Bills \cup {"none"}]]]
      /\ seat'[k][m].status = "cancelled" /\ seat'[k][m].bill = seat[k][m].bill
      /\ \A c \in Class \ {k} : seat'[c] = seat[c]
      /\ \A n \in Member \ {m} : seat'[k][n] = seat[k][n]
  <2>1. PICK s \in {"none", "enrolled", "attended", "no_show", "cancelled"} : s = "cancelled"
    OBVIOUS
  <2>2. seat' = [seat EXCEPT ![k][m].status = s]
    BY <1>2, <2>1
  <2>3. /\ seat' \in [Class -> [Member -> [status : {"none", "enrolled", "attended", "no_show", "cancelled"},
                                          bill : Bills \cup {"none"}]]]
        /\ seat'[k][m].status = s /\ seat'[k][m].bill = seat[k][m].bill
        /\ \A c \in Class \ {k} : seat'[c] = seat[c]
        /\ \A n \in Member \ {m} : seat'[k][n] = seat[k][n]
    <3>1. T!TypeOK /\ k \in Class /\ m \in Member
      BY <1>1, <1>2
    <3> HIDE DEF k, m
    <3> QED
      BY ZenonT(60), <2>2, <3>1, StatusSet
  <2> QED
    BY <2>1, <2>3
<1>6. T!TypeOK'
  BY ZenonT(30), <1>1, <1>2, <1>3, <1>5, TxStays DEF T!TypeOK
<1>7. ASSUME NEW c \in Class PROVE Cardinality(PlacesUsed(c))' <= Capacity
  <2>1. PlacesUsed(c)' \in SUBSET PlacesUsed(c) /\ PlacesUsed(c) \in SUBSET Member
    <3>1. \A n \in Member : seat'[c][n].status = seat[c][n].status \/ seat'[c][n].status = "cancelled"
      BY ZenonT(30), <1>2, <1>5
    <3> QED
      BY <3>1 DEF PlacesUsed
  <2>2. Cardinality(PlacesUsed(c)') <= Cardinality(PlacesUsed(c)) /\ Cardinality(PlacesUsed(c)') \in Nat
        /\ Cardinality(PlacesUsed(c)) \in Nat
    BY <2>1, UsedFinite
  <2>3. Cardinality(PlacesUsed(c)) <= Capacity
    BY <1>1 DEF SeatsUsed
  <2> QED
    BY <2>2, <2>3, ClassesAssumption
<1>8. ASSUME NEW c \in Class, NEW n \in Member
      PROVE  /\ seat'[c][n].bill = seat[c][n].bill
             /\ seat'[c][n].status = seat[c][n].status \/ (c = k /\ n = m /\ seat'[c][n].status = "cancelled")
  BY <1>5
<1>9. SeatsUsed'
  <2>1. ASSUME NEW c \in Class, NEW n \in Member
        PROVE  /\ class'[c] = "scheduled" => seat'[c][n].status \notin {"attended", "no_show"}
               /\ seat'[c][n].bill # "none" => fee'[seat'[c][n].bill].status # "unused"
    <3>1. seat[c][n].bill \in Bills \cup {"none"}
      BY <1>1 DEF T!TypeOK
    <3>2. class'[c] = "scheduled" => seat'[c][n].status \notin {"attended", "no_show"}
      BY <1>1, <1>2, <1>8 DEF SeatsUsed
    <3>3. seat[c][n].bill # "none" => fee[seat[c][n].bill].status # "unused"
      BY <1>1 DEF SeatsUsed
    <3>4. \A b \in Bills : fee[b].status # "unused" => fee'[b].status # "unused"
      BY <1>3
    <3> QED
      BY <1>8, <3>1, <3>2, <3>3, <3>4
  <2> QED
    BY <1>7, <2>1 DEF SeatsUsed
<1>10. T!NothingOwed'
  <2> SUFFICES ASSUME NEW c \in Class, NEW n \in Member,
                      seat'[c][n].status = "cancelled" \/ class'[c] = "cancelled", seat'[c][n].bill # "none"
               PROVE  fee'[seat'[c][n].bill].status # "pending"
    BY DEF T!NothingOwed
  <2>1. seat[c][n].bill \in Bills /\ seat'[c][n].bill = seat[c][n].bill
    BY <1>1, <1>8 DEF T!TypeOK
  <2>2. CASE c = k /\ n = m
    BY ZenonT(30), <1>3, <1>4, <2>1, <2>2
  <2>3. ASSUME seat'[c][n].status = seat[c][n].status PROVE fee'[seat[c][n].bill].status # "pending"
    <3>1. fee[seat[c][n].bill].status # "pending"
      BY <1>1, <1>2, <2>1, <2>3 DEF FeesOwed, T!NothingOwed
    <3> QED
      BY <1>3, <2>1, <3>1
  <2> QED
    BY <1>8, <2>1, <2>2, <2>3
<1>11. FeesOwed'
  <2>1. T!BilledOnce'
    BY <1>3, StillBilledOnce
  <2>2. \A b \in Bills : fee'[b].status = "unused" <=> fee'[b].member = "none"
    BY <1>1, <1>3 DEF FeesOwed
  <2> QED
    BY <1>10, <2>1, <2>2 DEF FeesOwed
<1>12. /\ \A c \in Class : class'[c] = class[c] \/ c \in tx[t].locked
       /\ \A c \in Class : seat'[c] = seat[c] \/ c \in tx[t].locked
  BY ZenonT(30), <1>2, <1>5
<1>13. \A b \in Bills : fee'[b] = fee[b] \/ fee[b].status = "unused" \/ \A u \in Tx \ {t} : b \notin tx[u].locked
  BY <1>2, <1>3 DEF T!Free
<1>14. \A b \in Bills : fee[b].member \in Member => fee'[b].member = fee[b].member
  BY <1>3
<1>15. \A b \in Bills, n \in Member \ tx[t].locked :
         fee'[b].member = n => fee[b].member = n /\ fee'[b].status \in {fee[b].status, "void", "refunded"}
  BY <1>3
<1> QED
  BY <1>2, <1>6, <1>9, <1>11, <1>12, <1>13, <1>14, <1>15, ClassesCommit

LEMMA ClassesCancel ==
  ASSUME ClassesInv, NEW t \in Tx, T!CommitCancel(t)
  PROVE  ClassesInv'
<1>1. T!TypeOK /\ tx \in [Tx -> Doing] /\ OthersWait(t) /\ SeatsUsed /\ FeesOwed
  BY DEF ClassesInv
<1> DEFINE k == tx[t].class
<1>2. /\ tx[t].do = "cancel" /\ k \in Class /\ k \in tx[t].locked
      /\ \A b \in T!ToVoid(t) : T!Free(t, b)
      /\ fee' = T!Voided(t) /\ T!Refuse(t) /\ seat' = seat
      /\ class' = [class EXCEPT ![k] = "cancelled"]
  BY <1>1 DEF T!CommitCancel, OthersWait
<1>3. /\ fee' \in [Bills -> [member : Member \cup {"none"},
                             status : {"unused", "pending", "paid", "waived", "void", "refunded"}]]
      /\ \A b \in Bills : /\ fee'[b].member = fee[b].member
                          /\ \/ fee'[b] = fee[b]
                             \/ b \in T!ToVoid(t) /\ fee[b].status = "pending" /\ fee'[b].status = "void"
                          /\ b \in T!ToVoid(t) => fee'[b].status # "pending"
  BY <1>2, BillsVoided
<1>4. T!ToVoid(t) = {seat[k][n].bill : n \in Member} \ {"none"}
  BY <1>2 DEF T!ToVoid, T!Concerned
<1>5. class' \in [Class -> {"scheduled", "started", "cancelled"}]
      /\ \A c \in Class : class'[c] = IF c = k THEN "cancelled" ELSE class[c]
  BY <1>1, <1>2 DEF T!TypeOK
<1>6. T!TypeOK'
  BY <1>1, <1>2, <1>3, <1>5, TxStays DEF T!TypeOK
<1>7. SeatsUsed'
  <2>1. ASSUME NEW c \in Class PROVE Cardinality(PlacesUsed(c))' <= Capacity
    <3>1. PlacesUsed(c)' = PlacesUsed(c)
      BY <1>2 DEF PlacesUsed
    <3> QED
      BY <1>1, <3>1 DEF SeatsUsed
  <2>2. ASSUME NEW c \in Class, NEW n \in Member
        PROVE  /\ class'[c] = "scheduled" => seat'[c][n].status \notin {"attended", "no_show"}
               /\ seat'[c][n].bill # "none" => fee'[seat'[c][n].bill].status # "unused"
    <3>1. seat[c][n].bill \in Bills \cup {"none"}
      BY <1>1 DEF T!TypeOK
    <3> QED
      BY <1>1, <1>2, <1>3, <1>5, <3>1 DEF SeatsUsed
  <2> QED
    BY <2>1, <2>2 DEF SeatsUsed
<1>8. T!NothingOwed'
  <2> SUFFICES ASSUME NEW c \in Class, NEW n \in Member,
                      seat'[c][n].status = "cancelled" \/ class'[c] = "cancelled", seat'[c][n].bill # "none"
               PROVE  fee'[seat'[c][n].bill].status # "pending"
    BY DEF T!NothingOwed
  <2>1. seat[c][n].bill \in Bills /\ seat'[c][n] = seat[c][n]
    BY <1>1, <1>2 DEF T!TypeOK
  <2>2. CASE c = k
    BY <1>3, <1>4, <2>1, <2>2
  <2>3. CASE c # k
    <3>1. fee[seat[c][n].bill].status # "pending"
      BY <1>1, <1>5, <2>1, <2>3 DEF FeesOwed, T!NothingOwed
    <3> QED
      BY <1>3, <2>1, <3>1
  <2> QED
    BY <2>2, <2>3
<1>9. FeesOwed'
  <2>1. T!BilledOnce'
    BY <1>3, StillBilledOnce
  <2>2. \A b \in Bills : fee'[b].status = "unused" <=> fee'[b].member = "none"
    BY <1>1, <1>3 DEF FeesOwed
  <2> QED
    BY <1>8, <2>1, <2>2 DEF FeesOwed
<1>10. /\ \A c \in Class : class'[c] = class[c] \/ c \in tx[t].locked
       /\ \A c \in Class : seat'[c] = seat[c] \/ c \in tx[t].locked
  BY <1>2, <1>5
<1>11. \A b \in Bills : fee'[b] = fee[b] \/ fee[b].status = "unused" \/ \A u \in Tx \ {t} : b \notin tx[u].locked
  BY <1>2, <1>3 DEF T!Free
<1>12. \A b \in Bills : fee[b].member \in Member => fee'[b].member = fee[b].member
  BY <1>3
<1>13. \A b \in Bills, n \in Member \ tx[t].locked :
         fee'[b].member = n => fee[b].member = n /\ fee'[b].status \in {fee[b].status, "void", "refunded"}
  BY <1>3
<1> QED
  BY <1>2, <1>6, <1>7, <1>9, <1>10, <1>11, <1>12, <1>13, ClassesCommit

LEMMA ClassesAttend ==
  ASSUME ClassesInv, NEW t \in Tx, T!CommitAttend(t)
  PROVE  ClassesInv'
<1>1. T!TypeOK /\ tx \in [Tx -> Doing] /\ OthersWait(t) /\ SeatsUsed /\ FeesOwed
  BY DEF ClassesInv
<1> DEFINE k == tx[t].class
           m == tx[t].member
<1>2. /\ tx[t].do = "attend" /\ k \in Class /\ m \in Member /\ k \in tx[t].locked /\ class[k] # "scheduled"
      /\ seat[k][m].status \notin {"none", "cancelled"}
      /\ T!Refuse(t) /\ UNCHANGED <<class, fee>>
  BY <1>1 DEF T!CommitAttend, OthersWait
<1>3. PICK s \in {"attended", "no_show"} : seat' = [seat EXCEPT ![k][m].status = s]
  BY ZenonT(30) DEF T!CommitAttend
<1>4. /\ seat' \in [Class -> [Member -> [status : {"none", "enrolled", "attended", "no_show", "cancelled"},
                                        bill : Bills \cup {"none"}]]]
      /\ seat'[k][m].status = s /\ seat'[k][m].bill = seat[k][m].bill
      /\ \A c \in Class \ {k} : seat'[c] = seat[c]
      /\ \A n \in Member \ {m} : seat'[k][n] = seat[k][n]
  <2>1. s \in {"none", "enrolled", "attended", "no_show", "cancelled"}
    OBVIOUS
  <2> QED
    BY ZenonT(30), <1>1, <1>2, <1>3, <2>1, StatusSet
<1>5. T!TypeOK'
  BY <1>1, <1>2, <1>4, TxStays DEF T!TypeOK
<1>6. ASSUME NEW c \in Class, NEW n \in Member
      PROVE  /\ seat'[c][n].bill = seat[c][n].bill
             /\ \/ seat'[c][n].status = seat[c][n].status
                \/ c = k /\ n = m /\ seat'[c][n].status \in {"attended", "no_show"}
  BY <1>4
<1>7. seat[k][m].status \in {"enrolled", "attended", "no_show"}
  BY <1>1, <1>2 DEF T!TypeOK
<1>8. SeatsUsed'
  <2>1. ASSUME NEW c \in Class PROVE Cardinality(PlacesUsed(c))' <= Capacity
    <3>1. \A n \in Member : seat'[c][n].status \in {"enrolled", "attended", "no_show"}
                              <=> seat[c][n].status \in {"enrolled", "attended", "no_show"}
      BY <1>6, <1>7
    <3>2. PlacesUsed(c)' = PlacesUsed(c)
      BY <3>1 DEF PlacesUsed
    <3> QED
      BY <1>1, <3>2 DEF SeatsUsed
  <2>2. ASSUME NEW c \in Class, NEW n \in Member
        PROVE  /\ class'[c] = "scheduled" => seat'[c][n].status \notin {"attended", "no_show"}
               /\ seat'[c][n].bill # "none" => fee'[seat'[c][n].bill].status # "unused"
    BY <1>1, <1>2, <1>6 DEF SeatsUsed
  <2> QED
    BY <2>1, <2>2 DEF SeatsUsed
<1>9. T!NothingOwed'
  <2> SUFFICES ASSUME NEW c \in Class, NEW n \in Member,
                      seat'[c][n].status = "cancelled" \/ class'[c] = "cancelled", seat'[c][n].bill # "none"
               PROVE  fee'[seat'[c][n].bill].status # "pending"
    BY DEF T!NothingOwed
  <2>1. seat[c][n].status = "cancelled" \/ class[c] = "cancelled"
    BY <1>2, <1>6
  <2> QED
    BY <1>1, <1>2, <1>6, <2>1 DEF FeesOwed, T!NothingOwed
<1>10. FeesOwed'
  <2>1. T!BilledOnce'
    BY <1>2, StillBilledOnce
  <2> QED
    BY <1>1, <1>2, <1>9, <2>1 DEF FeesOwed
<1>11. \A c \in Class : seat'[c] = seat[c] \/ c \in tx[t].locked
  BY <1>2, <1>4
<1> QED
  BY <1>2, <1>5, <1>8, <1>10, <1>11, ClassesCommit

LEMMA ClassesSettle ==
  ASSUME ClassesInv, NEW t \in Tx, T!CommitSettle(t)
  PROVE  ClassesInv'
<1>1. T!TypeOK /\ tx \in [Tx -> Doing] /\ OthersWait(t) /\ SeatsUsed /\ FeesOwed
  BY DEF ClassesInv
<1> DEFINE m == tx[t].member
           b == tx[t].bill
<1>2. /\ tx[t].do = "settle" /\ m \in Member /\ m \in tx[t].locked /\ b \in Bills /\ fee[b].member = m
      /\ b \in tx[t].locked /\ fee[b].status \in {"pending", "paid"}
      /\ T!Refuse(t) /\ UNCHANGED <<class, seat>>
  BY <1>1 DEF T!CommitSettle, OthersWait
<1>3. PICK s \in {"paid", "void", "waived", "refunded"} :
        /\ fee[b].status = "paid" => s = "refunded"
        /\ fee' = [fee EXCEPT ![b].status = s]
  <2>1. CASE fee[b].status = "pending"
    <3>1. T!Transition[fee[b].status] = {"paid", "void", "waived"}
      BY <2>1 DEF T!Transition
    <3> QED
      BY <2>1, <3>1 DEF T!CommitSettle
  <2>2. CASE fee[b].status = "paid"
    <3>1. T!Transition[fee[b].status] = {"refunded"}
      BY <2>2 DEF T!Transition
    <3> QED
      BY <2>2, <3>1 DEF T!CommitSettle
  <2> QED
    BY <1>2, <2>1, <2>2
<1>4. /\ fee' \in [Bills -> [member : Member \cup {"none"},
                             status : {"unused", "pending", "paid", "waived", "void", "refunded"}]]
      /\ fee'[b].member = m /\ fee'[b].status = s
      /\ \A c \in Bills \ {b} : fee'[c] = fee[c]
  <2>1. fee[b] \in [member : Member \cup {"none"}, status : {"unused", "pending", "paid", "waived", "void", "refunded"}]
    BY <1>1, <1>2 DEF T!TypeOK
  <2>2. [fee[b] EXCEPT !.status = s] = [member |-> m, status |-> s]
    BY <1>2, <2>1
  <2>3. fee' = [fee EXCEPT ![b] = [member |-> m, status |-> s]]
    BY <1>3, <2>2
  <2> QED
    BY <1>1, <1>2, <2>3, BillSet
<1>5. T!TypeOK'
  BY <1>1, <1>2, <1>4, TxStays DEF T!TypeOK
<1>6. SeatsUsed'
  <2>1. ASSUME NEW c \in Class PROVE Cardinality(PlacesUsed(c))' <= Capacity
    <3>1. PlacesUsed(c)' = PlacesUsed(c)
      BY <1>2 DEF PlacesUsed
    <3> QED
      BY <1>1, <3>1 DEF SeatsUsed
  <2>2. ASSUME NEW c \in Class, NEW n \in Member
        PROVE  /\ class'[c] = "scheduled" => seat'[c][n].status \notin {"attended", "no_show"}
               /\ seat'[c][n].bill # "none" => fee'[seat'[c][n].bill].status # "unused"
    <3>1. seat[c][n].bill \in Bills \cup {"none"}
      BY <1>1 DEF T!TypeOK
    <3> QED
      BY <1>1, <1>2, <1>4, <3>1 DEF SeatsUsed
  <2> QED
    BY <2>1, <2>2 DEF SeatsUsed
<1>7. T!BilledOnce'
  <2> SUFFICES ASSUME NEW c \in Bills, NEW d \in Bills, c # d, fee'[c].member = fee'[d].member,
                      fee'[c].status = "pending"
               PROVE  fee'[d].status \in {"unused", "void", "refunded"}
    BY DEF T!BilledOnce
  <2>1. c # b /\ fee'[c] = fee[c]
    BY <1>4
  <2>2. fee[d].member = fee'[d].member
    BY <1>2, <1>4
  <2>3. fee[d].status \in {"unused", "void", "refunded"}
    BY <1>1, <2>1, <2>2 DEF FeesOwed, T!BilledOnce
  <2>4. d # b
    BY <1>2, <2>3
  <2> QED
    BY <1>4, <2>3, <2>4
<1>8. T!NothingOwed'
  <2> SUFFICES ASSUME NEW c \in Class, NEW n \in Member,
                      seat'[c][n].status = "cancelled" \/ class'[c] = "cancelled", seat'[c][n].bill # "none"
               PROVE  fee'[seat'[c][n].bill].status # "pending"
    BY DEF T!NothingOwed
  <2>1. seat[c][n].bill \in Bills /\ fee[seat[c][n].bill].status # "pending"
    BY <1>1, <1>2 DEF T!TypeOK, FeesOwed, T!NothingOwed
  <2> QED
    BY <1>2, <1>4, <2>1
<1>9. FeesOwed'
  <2>1. \A c \in Bills : fee'[c].status = "unused" <=> fee'[c].member = "none"
    BY <1>1, <1>2, <1>4, ClassesAssumption DEF FeesOwed
  <2> QED
    BY <1>7, <1>8, <2>1 DEF FeesOwed
<1>10. \A u \in Tx \ {t} : b \notin tx[u].locked
  BY <1>2 DEF ClassesInv, TransactionsApart
<1>11. \A c \in Bills : fee'[c] = fee[c] \/ fee[c].status = "unused" \/ \A u \in Tx \ {t} : c \notin tx[u].locked
  BY <1>4, <1>10
<1>12. \A c \in Bills : fee[c].member \in Member => fee'[c].member = fee[c].member
  BY <1>2, <1>4
<1>13. \A c \in Bills, n \in Member \ tx[t].locked :
         fee'[c].member = n => fee[c].member = n /\ fee'[c].status \in {fee[c].status, "void", "refunded"}
  BY <1>2, <1>4
<1> QED
  BY <1>2, <1>5, <1>6, <1>9, <1>11, <1>12, <1>13, ClassesCommit

LEMMA ClassesStart ==
  ASSUME ClassesInv, NEW k \in Class, T!StartClass(k)
  PROVE  ClassesInv'
<1>1. T!TypeOK /\ tx \in [Tx -> Doing] /\ SeatsUsed /\ FeesOwed
  BY DEF ClassesInv
<1>2. /\ class' \in [Class -> {"scheduled", "started", "cancelled"}]
      /\ \A c \in Class : class'[c] = class[c] \/ (class'[c] = "started" /\ class[c] = "scheduled")
      /\ UNCHANGED <<seat, fee, tx>>
  BY <1>1 DEF T!StartClass, T!TypeOK
<1>3. T!TypeOK'
  BY <1>1, <1>2 DEF T!TypeOK
<1>4. ASSUME NEW u \in Tx PROVE Enrols(u)' /\ OthersWait(u)'
  BY <1>2, <1>3, ClassesLeave
<1>5. SeatsUsed' /\ FeesOwed'
  <2>1. SeatsUsed'
    <3>1. \A c \in Class : PlacesUsed(c)' = PlacesUsed(c)
      BY <1>2 DEF PlacesUsed
    <3> QED
      BY <1>1, <1>2, <3>1 DEF SeatsUsed
  <2>2. T!BilledOnce'
    BY <1>2, StillBilledOnce
  <2>3. T!NothingOwed'
    BY <1>1, <1>2 DEF FeesOwed, T!NothingOwed
  <2> QED
    BY <1>1, <1>2, <2>1, <2>2, <2>3 DEF FeesOwed
<1>6. TransactionsApart'
  BY <1>2 DEF ClassesInv, TransactionsApart
<1> QED
  BY <1>1, <1>2, <1>3, <1>4, <1>5, <1>6 DEF ClassesInv

LEMMA ClassesInit ==
  ASSUME T!Init
  PROVE  ClassesInv
<1>1. T!TypeOK /\ tx \in [Tx -> Doing] /\ TransactionsApart
  BY NoneTx DEF T!Init, T!TypeOK, T!NoSeat, T!NoBill, T!Idle, TransactionsApart
<1>2. ASSUME NEW t \in Tx PROVE Enrols(t) /\ OthersWait(t)
  BY NoneTx DEF T!Init, Enrols, OthersWait
<1>3. SeatsUsed
  <2>1. ASSUME NEW k \in Class PROVE Cardinality(PlacesUsed(k)) <= Capacity
    <3>1. PlacesUsed(k) = {}
      BY DEF T!Init, PlacesUsed, T!NoSeat
    <3>2. Cardinality(PlacesUsed(k)) = 0
      BY <3>1, FS_EmptySet
    <3> QED
      BY <3>2, ClassesAssumption
  <2> QED
    BY <2>1 DEF T!Init, SeatsUsed, T!NoSeat
<1>4. FeesOwed
  BY DEF T!Init, FeesOwed, T!BilledOnce, T!NothingOwed, T!NoBill, T!NoSeat
<1> QED
  BY <1>1, <1>2, <1>3, <1>4 DEF ClassesInv

LEMMA ClassesNext ==
  ASSUME ClassesInv, T!Next
  PROVE  ClassesInv'
<1>1. ASSUME NEW t \in Tx, NEW m \in Member, NEW k \in Class, NEW do \in {"withdraw", "attend"}, T!OnClass(t, do, m, k)
      PROVE  ClassesInv'
  BY <1>1, ClassesOnClass
<1>2. ASSUME NEW t \in Tx, NEW k \in Class, T!OnClass(t, "cancel", "none", k)
      PROVE  ClassesInv'
  BY <1>2, ClassesOnClass
<1>3. ASSUME NEW t \in Tx, T!Abort(t) PROVE ClassesInv'
  BY <1>3, ClassesAbort DEF T!Abort
<1> QED
  BY <1>1, <1>2, <1>3, ClassesLockClass, ClassesReadOwed, ClassesReadCovered, ClassesReadPending, ClassesEnroll,
     ClassesWithdraw, ClassesCancel, ClassesAttend, ClassesLockBill, ClassesSettle, ClassesBegin, ClassesStart DEF T!Next

LEMMA ClassesStay ==
  ASSUME ClassesInv, UNCHANGED T!vars
  PROVE  ClassesInv'
<1>1. T!TypeOK' /\ tx' \in [Tx -> Doing] /\ TransactionsApart'
  BY DEF ClassesInv, T!vars, T!TypeOK, Doing, TransactionsApart
<1>2. ASSUME NEW t \in Tx PROVE Enrols(t)' /\ OthersWait(t)'
  BY <1>1, ClassesLeave DEF T!vars
<1>3. SeatsUsed' /\ FeesOwed'
  BY DEF ClassesInv, T!vars, SeatsUsed, FeesOwed, PlacesUsed, T!BilledOnce, T!NothingOwed
<1> QED
  BY <1>1, <1>2, <1>3 DEF ClassesInv

LEMMA ClassesHold ==
  ASSUME ClassesInv
  PROVE  T!TypeOK /\ T!SeatsBounded /\ T!BilledOnce /\ T!NothingOwed
<1>1. ASSUME NEW k \in Class PROVE Cardinality(T!Taken(k)) <= Capacity
  <2>1. T!Taken(k) \in SUBSET PlacesUsed(k) /\ PlacesUsed(k) \in SUBSET Member
    BY DEF T!Taken, PlacesUsed
  <2>2. Cardinality(T!Taken(k)) <= Cardinality(PlacesUsed(k)) /\ Cardinality(T!Taken(k)) \in Nat
        /\ Cardinality(PlacesUsed(k)) \in Nat
    BY <2>1, UsedFinite
  <2>3. Cardinality(PlacesUsed(k)) <= Capacity
    BY DEF ClassesInv, SeatsUsed
  <2> QED
    BY <2>2, <2>3, ClassesAssumption
<1> QED
  BY <1>1, SameCount DEF ClassesInv, FeesOwed, T!SeatsBounded

\* No class is overbooked and nobody is billed twice or for a class that they
\* do not attend, in whichever order the transactions take their locks.
THEOREM ClassesCorrect ==
  T!Spec => [](T!TypeOK /\ T!SeatsBounded /\ T!BilledOnce /\ T!NothingOwed)
<1>1. T!Init => ClassesInv
  BY ClassesInit
<1>2. ClassesInv /\ [T!Next]_T!vars => ClassesInv'
  BY ClassesNext, ClassesStay
<1>3. ClassesInv => T!TypeOK /\ T!SeatsBounded /\ T!BilledOnce /\ T!NothingOwed
  BY ClassesHold
<1> QED
  BY <1>1, <1>2, <1>3, PTL DEF T!Spec

-----------------------------------------------------------------------------
(* Orders sent again.                                                      *)

PageRow == [attempt : [slot : Slot \cup {None}, key : 0..MaxKey], keys : 0..MaxKey, busy : BOOLEAN]
Pcs == {"none", "sent", "locked", "made", "answered", "over"}
Answers == {"none", "url", "booked", "expired", "conflict", "reused", "refused"}
CallRow == [pc : Pcs, key : 0..MaxKey, slot : Slot \cup {None}, heard : BOOLEAN, answer : Answers]
BookingRow == [slot : Slot \cup {None}, status : {"none", "held", "booked", "expired", "cancelled"}]

\* A request that is under way, or whose answer is.
InUse(n) == request[n].pc \in {"sent", "locked", "made", "answered"}
Booked(k) == row[k].status # "none"
\* An answer that tells of a booking.
Telling == {"url", "booked", "expired", "reused"}

\* A key means one slot: to the page, to its requests, and to the booking.
KeysMean ==
  /\ page.attempt.key <= page.keys
  /\ \A n \in R!Calls : InUse(n) => request[n].key \in R!Key /\ request[n].key <= page.keys
  /\ \A k \in R!Key : Booked(k) => k <= page.keys
  /\ \A n, m \in R!Calls : InUse(n) /\ InUse(m) /\ request[n].key = request[m].key => request[n].slot = request[m].slot
  /\ \A n \in R!Calls : InUse(n) /\ Booked(request[n].key) => row[request[n].key].slot = request[n].slot
  /\ \A n \in R!Calls : InUse(n) /\ request[n].key = page.attempt.key => request[n].slot = page.attempt.slot
  /\ \A k \in R!Key : k = page.attempt.key /\ Booked(k) => row[k].slot = page.attempt.slot

\* What a request has found out stays true while it goes on.
RequestsStand ==
  \A n \in R!Calls :
    /\ request[n].pc = "locked" => /\ ~ Booked(request[n].key)
                                   /\ \A m \in R!Calls \ {n} : request[m].pc = "locked" => request[m].key # request[n].key
    /\ request[n].pc = "made" \/ (request[n].pc = "answered" /\ request[n].answer \in Telling) => Booked(request[n].key)

RetryInv ==
  /\ R!TypeOK /\ kind \in {"machine", "studio"} /\ misled = FALSE
  /\ KeysMean /\ RequestsStand /\ R!LetGoIsSettled

LEMMA RetryTyped ==
  R!TypeOK <=> /\ page \in PageRow /\ request \in [R!Calls -> CallRow] /\ row \in [R!Key -> BookingRow]
               /\ other \subseteq Slot /\ letgo \subseteq R!Key
BY DEF R!TypeOK, PageRow, CallRow, BookingRow, R!Calls, Pcs, Answers

LEMMA RetryTypedNext ==
  ASSUME page' \in PageRow, request' \in [R!Calls -> CallRow], row' \in [R!Key -> BookingRow],
         other' \subseteq Slot, letgo' \subseteq R!Key
  PROVE  R!TypeOK'
BY DEF R!TypeOK, PageRow, CallRow, BookingRow, R!Calls, Pcs, Answers

LEMMA RetryKnown ==
  ASSUME RetryInv
  PROVE  /\ page \in PageRow /\ request \in [R!Calls -> CallRow] /\ row \in [R!Key -> BookingRow]
         /\ other \subseteq Slot /\ letgo \subseteq R!Key
         /\ kind \in {"machine", "studio"} /\ misled = FALSE
         /\ KeysMean /\ RequestsStand /\ R!LetGoIsSettled
BY RetryTyped DEF RetryInv

\* The request of n goes on; no other is touched.
RequestGoes(n, pc, reply) ==
  /\ request' \in [R!Calls -> CallRow] /\ \A m \in R!Calls \ {n} : request'[m] = request[m]
  /\ request'[n].pc = pc /\ request'[n].answer = reply
  /\ request'[n].key = request[n].key /\ request'[n].slot = request[n].slot

LEMMA RequestGoesOn ==
  ASSUME RetryInv, NEW n \in R!Calls, NEW pc \in Pcs, request' = [request EXCEPT ![n].pc = pc]
  PROVE  RequestGoes(n, pc, request[n].answer)
<1> DEFINE f == [request[n] EXCEPT !.pc = pc]
<1>1. f \in CallRow /\ f.pc = pc /\ f.answer = request[n].answer /\ f.key = request[n].key /\ f.slot = request[n].slot
  BY RetryKnown DEF CallRow
<1>2. request' = [request EXCEPT ![n] = f]
  OBVIOUS
<1> HIDE DEF f
<1> QED
  BY <1>1, <1>2, RetryKnown DEF RequestGoes

LEMMA RequestAnswered ==
  ASSUME RetryInv, NEW n \in R!Calls, NEW a \in Answers, R!Answered(n, a)
  PROVE  RequestGoes(n, "answered", a)
<1> DEFINE f == [request[n] EXCEPT !.pc = "answered", !.answer = a]
<1>1. f \in CallRow /\ f.pc = "answered" /\ f.answer = a /\ f.key = request[n].key /\ f.slot = request[n].slot
  BY RetryKnown DEF CallRow, Pcs
<1>2. request' = [request EXCEPT ![n] = f]
  BY DEF R!Answered
<1> HIDE DEF f
<1> QED
  BY <1>1, <1>2, RetryKnown DEF RequestGoes

\* A step of the server for a request.
LEMMA ServerSteps ==
  ASSUME RetryInv, NEW n \in R!Calls, InUse(n), NEW pc \in {"locked", "made", "answered"}, NEW reply,
         RequestGoes(n, pc, reply), UNCHANGED <<kind, page, other, letgo>>, misled' = FALSE,
         row' \in [R!Key -> BookingRow],
         \A k \in R!Key :
           \/ row'[k] = row[k]
           \/ /\ k = request[n].key /\ request[n].pc = "locked" /\ ~ Booked(k) /\ pc # "locked"
              /\ row'[k].slot = request[n].slot /\ row'[k].status # "none",
         pc = "locked" => /\ ~ Booked(request[n].key)
                          /\ \A m \in R!Calls \ {n} : request[m].pc = "locked" => request[m].key # request[n].key,
         pc = "made" \/ (pc = "answered" /\ reply \in Telling) => row'[request[n].key].status # "none"
  PROVE  RetryInv'
<1>1. /\ request' \in [R!Calls -> CallRow] /\ (\A m \in R!Calls \ {n} : request'[m] = request[m])
      /\ request'[n].pc = pc /\ request'[n].answer = reply
      /\ request'[n].key = request[n].key /\ request'[n].slot = request[n].slot
  BY DEF RequestGoes
<1>2. R!TypeOK'
  BY <1>1, RetryKnown, RetryTypedNext
<1>3. /\ \A m \in R!Calls : (InUse(m)' <=> InUse(m)) /\ request'[m].key = request[m].key /\ request'[m].slot = request[m].slot
  BY <1>1 DEF InUse
<1>4. KeysMean
  BY RetryKnown
<1>5. request[n].key \in R!Key
  BY <1>4 DEF KeysMean
<1>6. KeysMean'
  <2>1. /\ page'.attempt.key <= page'.keys
        /\ \A m \in R!Calls : InUse(m)' => request'[m].key \in R!Key /\ request'[m].key <= page'.keys
        /\ \A m, l \in R!Calls : InUse(m)' /\ InUse(l)' /\ request'[m].key = request'[l].key =>
                request'[m].slot = request'[l].slot
        /\ \A m \in R!Calls : InUse(m)' /\ request'[m].key = page'.attempt.key => request'[m].slot = page'.attempt.slot
    BY <1>3, <1>4 DEF KeysMean
  <2>2. \A k \in R!Key : row'[k].status # "none" => k <= page'.keys
    BY <1>4 DEF KeysMean, Booked
  <2>3. ASSUME NEW m \in R!Calls, InUse(m)', row'[request'[m].key].status # "none"
        PROVE  row'[request'[m].key].slot = request'[m].slot
    <3>1. InUse(m) /\ request'[m].key = request[m].key /\ request'[m].slot = request[m].slot
                   /\ request[m].key \in R!Key
      BY <1>3, <1>4, <2>3 DEF KeysMean
    <3>2. CASE row'[request[m].key] = row[request[m].key]
      BY <1>4, <2>3, <3>1, <3>2 DEF KeysMean, Booked
    <3>3. CASE request[m].key = request[n].key /\ row'[request[m].key].slot = request[n].slot
      BY <1>4, <3>1, <3>3 DEF KeysMean
    <3> QED
      BY <3>1, <3>2, <3>3
  <2>4. ASSUME NEW k \in R!Key, k = page'.attempt.key, row'[k].status # "none"
        PROVE  row'[k].slot = page'.attempt.slot
    BY <1>4, <2>4 DEF KeysMean, Booked
  <2> QED
    BY <2>1, <2>2, <2>3, <2>4 DEF KeysMean, Booked, R!Key
<1>7. RequestsStand'
  <2> SUFFICES ASSUME NEW m \in R!Calls
               PROVE  /\ request'[m].pc = "locked" =>
                           /\ ~ row'[request'[m].key].status # "none"
                           /\ \A l \in R!Calls \ {m} : request'[l].pc = "locked" => request'[l].key # request'[m].key
                      /\ request'[m].pc = "made" \/ (request'[m].pc = "answered" /\ request'[m].answer \in Telling) =>
                           row'[request'[m].key].status # "none"
    BY DEF RequestsStand, Booked
  <2>1. RequestsStand
    BY RetryKnown
  <2>2. CASE m = n
    BY <1>1, <1>5, <2>2 DEF Booked
  <2>3. CASE m # n
    <3>1. request'[m] = request[m]
      BY <1>1, <2>3
    <3>2. request[m].pc \in {"locked", "made", "answered"} => request[m].key \in R!Key
      BY <1>4 DEF KeysMean, InUse
    <3>3. request[m].pc = "locked" =>
            /\ ~ row'[request[m].key].status # "none"
            /\ \A l \in R!Calls \ {m} : request'[l].pc = "locked" => request'[l].key # request[m].key
      BY <1>1, <2>1, <2>3, <3>2 DEF RequestsStand, Booked
    <3>4. request[m].pc = "made" \/ (request[m].pc = "answered" /\ request[m].answer \in Telling) =>
            row'[request[m].key].status # "none"
      BY <2>1, <3>2 DEF RequestsStand, Booked
    <3> QED
      BY <3>1, <3>3, <3>4
  <2> QED
    BY <2>2, <2>3
<1>8. R!LetGoIsSettled'
  BY RetryKnown DEF R!LetGoIsSettled, Booked
<1> QED
  BY <1>2, <1>6, <1>7, <1>8, RetryKnown DEF RetryInv

LEMMA LookStep ==
  ASSUME RetryInv, NEW n \in R!Calls, R!Look(n)
  PROVE  RetryInv'
<1> PICK k : k = request[n].key
  OBVIOUS
<1>1. request[n].pc = "sent" /\ R!KeyFree(n) /\ UNCHANGED <<kind, page, row, other, letgo>>
  BY DEF R!Look
<1>2. InUse(n) /\ k \in R!Key
  BY <1>1, RetryKnown DEF InUse, KeysMean
<1>3. {"locked", "made"} \subseteq Pcs
  BY DEF Pcs
<1>4. CASE row[k].status = "none"
  <2>1. request' = [request EXCEPT ![n].pc = "locked"] /\ misled' = FALSE
    BY <1>4, RetryKnown DEF R!Look
  <2>2. RequestGoes(n, "locked", request[n].answer)
    BY <1>3, <2>1, RequestGoesOn
  <2>3. \A m \in R!Calls : request[m].pc = "locked" => request[m].key # k
    BY <1>1 DEF R!KeyFree
  <2> QED
    BY <1>1, <1>2, <1>4, <2>1, <2>2, <2>3, RetryKnown, ServerSteps DEF Booked
<1>5. CASE row[k].status # "none"
  <2>1. row[k].slot = request[n].slot
    BY <1>2, <1>5, RetryKnown DEF KeysMean, Booked
  <2>2. request' = [request EXCEPT ![n].pc = "made"] /\ misled' = FALSE
    BY <1>5, <2>1, RetryKnown DEF R!Look
  <2>3. RequestGoes(n, "made", request[n].answer)
    BY <1>3, <2>2, RequestGoesOn
  <2> QED
    BY <1>1, <1>2, <1>5, <2>2, <2>3, RetryKnown, ServerSteps DEF Booked
<1> QED
  BY <1>4, <1>5

LEMMA CommitStep ==
  ASSUME RetryInv, NEW n \in R!Calls, R!Commit(n)
  PROVE  RetryInv'
<1> PICK k, taken : k = request[n].key
                    /\ taken = (request[n].slot \in other \/ \E j \in R!Key : row[j].slot = request[n].slot /\ row[j].status \in R!Standing)
  OBVIOUS
<1>1. request[n].pc = "locked" /\ UNCHANGED <<kind, page, other, letgo>>
  BY DEF R!Commit
<1>2. InUse(n) /\ k \in R!Key /\ ~ Booked(k)
  BY <1>1, RetryKnown DEF InUse, KeysMean, RequestsStand
<1>3. row[k].status \notin R!Standing /\ misled = FALSE
  BY <1>2, RetryKnown DEF Booked, R!Standing
<1>4. {"conflict", "refused"} \subseteq Answers \ Telling /\ "made" \in Pcs
  BY DEF Answers, Telling, Pcs
<1>5. CASE R!Answered(n, "conflict") /\ UNCHANGED row /\ misled' = (misled \/ row[k].status \in R!Standing)
  <2>1. RequestGoes(n, "answered", "conflict") /\ misled' = FALSE
    BY <1>3, <1>4, <1>5, RequestAnswered
  <2> QED
    BY <1>1, <1>2, <1>4, <1>5, <2>1, RetryKnown, ServerSteps
<1>6. CASE /\ row' = [row EXCEPT ![k] = [slot |-> request[n].slot, status |-> "held"]]
           /\ request' = [request EXCEPT ![n].pc = "made"] /\ UNCHANGED misled
  <2>1. RequestGoes(n, "made", request[n].answer) /\ misled' = FALSE
    BY <1>3, <1>4, <1>6, RequestGoesOn
  <2> DEFINE b == [slot |-> request[n].slot, status |-> "held"]
  <2>2. b \in BookingRow /\ b.slot = request[n].slot /\ b.status = "held"
    BY RetryKnown DEF BookingRow, CallRow
  <2>3. row' = [row EXCEPT ![k] = b]
    BY <1>6
  <2> HIDE DEF b
  <2>4. /\ row' \in [R!Key -> BookingRow] /\ row'[k].slot = request[n].slot /\ row'[k].status # "none"
        /\ \A j \in R!Key \ {k} : row'[j] = row[j]
    BY <1>2, <2>2, <2>3, RetryKnown
  <2> QED
    BY <1>1, <1>2, <2>1, <2>4, RetryKnown, ServerSteps
<1>7. CASE R!Answered(n, "refused") /\ UNCHANGED <<row, misled>>
  <2>1. RequestGoes(n, "answered", "refused") /\ misled' = FALSE
    BY <1>3, <1>4, <1>7, RequestAnswered
  <2> QED
    BY <1>1, <1>2, <1>4, <1>7, <2>1, RetryKnown, ServerSteps
<1> QED
  BY <1>5, <1>6, <1>7 DEF R!Commit

LEMMA ConcludeStep ==
  ASSUME RetryInv, NEW n \in R!Calls, R!Conclude(n)
  PROVE  RetryInv'
<1>1. request[n].pc = "made" /\ UNCHANGED <<kind, page, row, other, letgo, misled>>
  BY DEF R!Conclude
<1>2. InUse(n) /\ request[n].key \in R!Key /\ Booked(request[n].key)
  BY <1>1, RetryKnown DEF InUse, KeysMean, RequestsStand
<1>3. PICK a \in Answers : R!Answered(n, a)
  BY DEF R!Conclude, Answers
<1>4. RequestGoes(n, "answered", a)
  BY <1>3, RequestAnswered
<1> QED
  BY <1>1, <1>2, <1>4, RetryKnown, ServerSteps DEF Booked

-----------------------------------------------------------------------------
\* What the page does to its requests: it ends some, or hears of them no more.
LEMMA PageSteps ==
  ASSUME RetryInv, UNCHANGED <<kind, row, other, misled>>,
         page' \in PageRow, page'.keys = page.keys, page'.attempt \in {page.attempt, R!NoAttempt},
         request' \in [R!Calls -> CallRow],
         \A n \in R!Calls : \/ request'[n].pc = "over"
                            \/ /\ request'[n].pc = request[n].pc /\ request'[n].key = request[n].key
                               /\ request'[n].slot = request[n].slot /\ request'[n].answer = request[n].answer,
         letgo' \subseteq R!Key, \A k \in letgo' : Booked(k)
  PROVE  RetryInv'
<1>1. R!TypeOK'
  BY RetryKnown, RetryTypedNext
<1>2. \A n \in R!Calls : InUse(n)' => InUse(n) /\ request'[n].key = request[n].key /\ request'[n].slot = request[n].slot
  BY DEF InUse
<1>3. KeysMean
  BY RetryKnown
<1>4. R!NoAttempt.key = 0 /\ \A k \in R!Key : k # 0
  BY KeysAssumption DEF R!NoAttempt, R!Key
<1>5. page'.attempt = page.attempt \/ page'.attempt.key = 0
  BY <1>4
<1>6. page'.attempt.key <= page'.keys
  BY <1>3, <1>5, KeysAssumption DEF KeysMean, PageRow
<1>7. KeysMean'
  <2>1. /\ \A n \in R!Calls : InUse(n)' => request'[n].key \in R!Key /\ request'[n].key <= page'.keys
        /\ \A n, m \in R!Calls : InUse(n)' /\ InUse(m)' /\ request'[n].key = request'[m].key =>
                request'[n].slot = request'[m].slot
        /\ \A n \in R!Calls : InUse(n)' /\ row[request'[n].key].status # "none" => row[request'[n].key].slot = request'[n].slot
    BY <1>2, <1>3 DEF KeysMean, Booked
  <2>2. \A n \in R!Calls : InUse(n)' /\ request'[n].key = page'.attempt.key => request'[n].slot = page'.attempt.slot
    BY <1>2, <1>3, <1>4, <1>5 DEF KeysMean
  <2>3. \A k \in R!Key : k = page'.attempt.key /\ row[k].status # "none" => row[k].slot = page'.attempt.slot
    BY <1>3, <1>4, <1>5 DEF KeysMean, Booked
  <2>4. \A k \in R!Key : row[k].status # "none" => k <= page'.keys
    BY <1>3 DEF KeysMean, Booked
  <2> QED
    BY <1>6, <2>1, <2>2, <2>3, <2>4 DEF KeysMean, Booked, R!Key
<1>8. RequestsStand'
  BY RetryKnown DEF RequestsStand, Booked
<1>9. R!LetGoIsSettled'
  BY DEF R!LetGoIsSettled, Booked
<1> QED
  BY <1>1, <1>7, <1>8, <1>9, RetryKnown DEF RetryInv

LEMMA TakeStep ==
  ASSUME RetryInv, NEW n \in R!Calls, R!Take(n)
  PROVE  RetryInv'
<1> DEFINE f == [R!NoCall EXCEPT !.pc = "over"]
           attempt == IF R!Final(request[n].answer) THEN R!NoAttempt ELSE page.attempt
           p == [page EXCEPT !.busy = FALSE, !.attempt = attempt]
<1>1. /\ request[n].pc = "answered" /\ request' = [request EXCEPT ![n] = f] /\ page' = p
      /\ letgo' = IF R!Final(request[n].answer) THEN letgo \cup {request[n].key} ELSE letgo
      /\ UNCHANGED <<kind, row, other, misled>>
  BY DEF R!Take
<1>2. f \in CallRow /\ f.pc = "over"
  <2>1. R!NoCall \in CallRow
    BY KeysAssumption DEF R!NoCall, CallRow, Pcs, Answers
  <2> QED
    BY <2>1 DEF CallRow, Pcs
<1>3. attempt \in {page.attempt, R!NoAttempt}
  BY KeysAssumption DEF R!NoAttempt
<1>4. page.attempt \in [slot : Slot \cup {None}, key : 0..MaxKey] /\ R!NoAttempt \in [slot : Slot \cup {None}, key : 0..MaxKey]
  BY RetryKnown, KeysAssumption DEF PageRow, R!NoAttempt
<1>5. attempt \in [slot : Slot \cup {None}, key : 0..MaxKey]
  BY <1>4
<1> HIDE DEF attempt, f
<1>6. p \in PageRow /\ p.keys = page.keys /\ p.attempt = attempt
  <2>1. page \in PageRow
    BY RetryKnown
  <2> QED
    BY <1>5, <2>1 DEF PageRow
<1> HIDE DEF p
<1>7. request' \in [R!Calls -> CallRow] /\ request'[n].pc = "over" /\ \A m \in R!Calls \ {n} : request'[m] = request[m]
  BY <1>1, <1>2, RetryKnown
<1>8. R!Final(request[n].answer) => request[n].key \in R!Key /\ Booked(request[n].key)
  BY <1>1, RetryKnown DEF R!Final, KeysMean, RequestsStand, InUse, Telling
<1>9. letgo' \subseteq R!Key /\ \A k \in letgo' : Booked(k)
  BY <1>1, <1>8, RetryKnown DEF R!LetGoIsSettled, Booked
<1> QED
  BY <1>1, <1>3, <1>6, <1>7, <1>9, PageSteps

LEMMA LoseStep ==
  ASSUME RetryInv, NEW n \in R!Calls, R!Lose(n)
  PROVE  RetryInv'
<1> DEFINE f == [request[n] EXCEPT !.heard = FALSE]
           p == [page EXCEPT !.busy = FALSE]
<1>1. /\ request' = [request EXCEPT ![n] = f] /\ page' = p
      /\ UNCHANGED <<kind, row, other, letgo, misled>>
  BY DEF R!Lose
<1>2. f \in CallRow /\ f.pc = request[n].pc /\ f.key = request[n].key /\ f.slot = request[n].slot /\ f.answer = request[n].answer
  BY RetryKnown DEF CallRow
<1>3. p \in PageRow /\ p.keys = page.keys /\ p.attempt = page.attempt
  BY RetryKnown DEF PageRow
<1> HIDE DEF f, p
<1>4. request' \in [R!Calls -> CallRow] /\ request'[n] = f /\ \A m \in R!Calls \ {n} : request'[m] = request[m]
  BY <1>1, <1>2, RetryKnown
<1>5. letgo' \subseteq R!Key /\ \A k \in letgo' : Booked(k)
  BY <1>1, RetryKnown DEF R!LetGoIsSettled, Booked
<1> QED
  BY <1>1, <1>2, <1>3, <1>4, <1>5, PageSteps

LEMMA ReloadStep ==
  ASSUME RetryInv, R!Reload
  PROVE  RetryInv'
<1> DEFINE p == [page EXCEPT !.busy = FALSE, !.attempt = R!NoAttempt]
<1>1. /\ request' = [n \in R!Calls |-> [request[n] EXCEPT !.heard = FALSE]] /\ page' = p
      /\ UNCHANGED <<kind, row, other, letgo, misled>>
  BY DEF R!Reload
<1>2. \A n \in R!Calls :
        LET f == [request[n] EXCEPT !.heard = FALSE]
        IN f \in CallRow /\ f.pc = request[n].pc /\ f.key = request[n].key
             /\ f.slot = request[n].slot /\ f.answer = request[n].answer
  BY RetryKnown DEF CallRow
<1>3. R!NoAttempt \in [slot : Slot \cup {None}, key : 0..MaxKey]
  BY KeysAssumption DEF R!NoAttempt
<1>4. p \in PageRow /\ p.keys = page.keys /\ p.attempt = R!NoAttempt
  BY <1>3, RetryKnown DEF PageRow
<1> HIDE DEF p
<1>5. /\ request' \in [R!Calls -> CallRow]
      /\ \A n \in R!Calls : /\ request'[n].pc = request[n].pc /\ request'[n].key = request[n].key
                            /\ request'[n].slot = request[n].slot /\ request'[n].answer = request[n].answer
  BY <1>1, <1>2
<1>6. letgo' \subseteq R!Key /\ \A k \in letgo' : Booked(k)
  BY <1>1, RetryKnown DEF R!LetGoIsSettled, Booked
<1> QED
  BY <1>1, <1>4, <1>5, <1>6, PageSteps

LEMMA SubmitStep ==
  ASSUME RetryInv, NEW n \in R!Calls, NEW s \in Slot, R!Submit(n, s)
  PROVE  RetryInv'
<1> PICK key : key = IF R!Same(s) THEN page.attempt.key ELSE page.keys + 1
  OBVIOUS
<1> DEFINE f == [R!NoCall EXCEPT !.pc = "sent", !.key = key, !.slot = s, !.heard = TRUE]
           keys == IF key > page.keys THEN key ELSE page.keys
           p == [attempt |-> [slot |-> s, key |-> key], keys |-> keys, busy |-> TRUE]
<1>1. /\ request[n].pc = "none" /\ key \in R!Key /\ page' = p /\ request' = [request EXCEPT ![n] = f]
      /\ UNCHANGED <<kind, row, other, letgo, misled>>
  BY DEF R!Submit
<1>2. page.keys \in 0..MaxKey /\ page.attempt.key \in 0..MaxKey /\ key \in 0..MaxKey /\ key \in Nat /\ page.keys \in Nat
  BY <1>1, RetryKnown, KeysAssumption DEF PageRow, R!Key
<1>3. keys \in 0..MaxKey /\ key <= keys /\ page.keys <= keys
  BY <1>2
<1>4. f \in CallRow /\ f.pc = "sent" /\ f.key = key /\ f.slot = s
  BY <1>2 DEF R!NoCall, CallRow, Pcs, Answers
<1> HIDE DEF keys, f
<1>5. p \in PageRow /\ p.attempt.slot = s /\ p.attempt.key = key /\ p.keys = keys
  BY <1>2, <1>3 DEF PageRow
<1> HIDE DEF p
<1>6. request' \in [R!Calls -> CallRow] /\ request'[n] = f /\ \A m \in R!Calls \ {n} : request'[m] = request[m]
  BY <1>1, <1>4, RetryKnown
<1>7. R!TypeOK'
  BY <1>1, <1>5, <1>6, RetryKnown, RetryTypedNext
<1>8. KeysMean
  BY RetryKnown
<1>9. /\ \A m \in R!Calls \ {n} : InUse(m) /\ request[m].key = key => request[m].slot = s
      /\ Booked(key) => row[key].slot = s
  <2>1. CASE R!Same(s)
    BY <1>1, <1>8, <2>1 DEF KeysMean, R!Same
  <2>2. CASE ~ R!Same(s)
    <3>1. key = page.keys + 1 /\ ~ key <= page.keys
      BY <1>2, <2>2
    <3> QED
      BY <1>1, <1>8, <3>1 DEF KeysMean
  <2> QED
    BY <2>1, <2>2
<1>10. \A m \in R!Calls \ {n} : InUse(m)' <=> InUse(m)
  BY <1>6 DEF InUse
<1>11. \A k \in R!Key : k <= page.keys => k <= keys
  BY <1>2, <1>3, KeysAssumption DEF R!Key
<1>12. page'.attempt.slot = s /\ page'.attempt.key = key /\ page'.keys = keys
       /\ request'[n].key = key /\ request'[n].slot = s /\ row' = row
  BY <1>1, <1>4, <1>5, <1>6
<1>13. KeysMean'
  <2>1. \A m \in R!Calls : InUse(m)' => request'[m].key \in R!Key /\ request'[m].key <= keys
    BY <1>1, <1>3, <1>6, <1>8, <1>10, <1>11, <1>12 DEF KeysMean
  <2>2. ASSUME NEW m \in R!Calls, InUse(m)', request'[m].key = key PROVE request'[m].slot = s
    BY <1>6, <1>9, <1>10, <1>12, <2>2
  <2>3. ASSUME NEW m \in R!Calls, NEW l \in R!Calls, InUse(m)', InUse(l)', request'[m].key = request'[l].key
        PROVE  request'[m].slot = request'[l].slot
    <3>1. CASE m = n \/ l = n
      BY <1>12, <2>2, <2>3, <3>1
    <3>2. CASE m # n /\ l # n
      BY <1>6, <1>8, <1>10, <2>3, <3>2 DEF KeysMean
    <3> QED
      BY <3>1, <3>2
  <2>4. ASSUME NEW m \in R!Calls, InUse(m)', row[request'[m].key].status # "none"
        PROVE  row[request'[m].key].slot = request'[m].slot
    <3>1. CASE m = n
      BY <1>9, <1>12, <2>4, <3>1 DEF Booked
    <3>2. CASE m # n
      BY <1>6, <1>8, <1>10, <2>4, <3>2 DEF KeysMean, Booked
    <3> QED
      BY <3>1, <3>2
  <2>5. \A k \in R!Key : row[k].status # "none" => k <= keys
    BY <1>8, <1>11 DEF KeysMean, Booked
  <2>6. \A k \in R!Key : k = key /\ row[k].status # "none" => row[k].slot = s
    BY <1>9 DEF Booked
  <2> QED
    BY <1>3, <1>12, <2>1, <2>2, <2>3, <2>4, <2>5, <2>6 DEF KeysMean, Booked, R!Key
<1>14. RequestsStand'
  BY <1>4, <1>6, <1>12, RetryKnown DEF RequestsStand, Booked
<1>15. R!LetGoIsSettled'
  BY <1>1, RetryKnown DEF R!LetGoIsSettled
<1> QED
  BY <1>1, <1>7, <1>13, <1>14, <1>15, RetryKnown DEF RetryInv

\* A booking goes on, or others take what is free.
LEMMA WorldSteps ==
  ASSUME RetryInv, UNCHANGED <<kind, page, request, letgo, misled>>, other' \subseteq Slot, row' \in [R!Key -> BookingRow],
         \A k \in R!Key : row'[k].slot = row[k].slot /\ (row'[k].status # "none" <=> Booked(k))
  PROVE  RetryInv'
<1>1. R!TypeOK'
  BY RetryKnown, RetryTypedNext
<1>2. \A k \in R!Key : (Booked(k)' <=> Booked(k)) /\ row'[k].slot = row[k].slot
  BY DEF Booked
<1>3. \A n \in R!Calls : (InUse(n)' <=> InUse(n)) /\ (InUse(n) => request[n].key \in R!Key)
  BY RetryKnown DEF InUse, KeysMean
<1>4. KeysMean'
  BY <1>3, RetryKnown DEF KeysMean, Booked, R!Key
<1>5. RequestsStand'
  BY <1>3, RetryKnown DEF RequestsStand, Booked, InUse
<1>6. R!LetGoIsSettled'
  BY RetryKnown DEF R!LetGoIsSettled, Booked
<1> QED
  BY <1>1, <1>4, <1>5, <1>6, RetryKnown DEF RetryInv

LEMMA StepStep ==
  ASSUME RetryInv, NEW k \in R!Key, R!Step(k)
  PROVE  RetryInv'
<1>1. row[k].status \in R!Standing /\ UNCHANGED <<kind, page, request, other, letgo, misled>>
  BY DEF R!Step
<1>2. PICK s \in {"booked", "expired", "cancelled"} : row' = [row EXCEPT ![k].status = s]
  BY DEF R!Step
<1> DEFINE b == [row[k] EXCEPT !.status = s]
<1>3. b \in BookingRow /\ b.status = s /\ b.slot = row[k].slot
  BY RetryKnown DEF BookingRow
<1>4. row' = [row EXCEPT ![k] = b]
  BY <1>2
<1> HIDE DEF b
<1>5. row' \in [R!Key -> BookingRow] /\ row'[k] = b /\ \A j \in R!Key \ {k} : row'[j] = row[j]
  BY <1>3, <1>4, RetryKnown
<1>6. \A j \in R!Key : row'[j].slot = row[j].slot /\ (row'[j].status # "none" <=> Booked(j))
  BY <1>1, <1>3, <1>5 DEF Booked, R!Standing
<1> QED
  BY <1>1, <1>5, <1>6, RetryKnown, WorldSteps

LEMMA OthersStep ==
  ASSUME RetryInv, NEW s \in Slot, R!Others(s)
  PROVE  RetryInv'
<1>1. other' \subseteq Slot /\ UNCHANGED <<kind, page, request, row, letgo, misled>>
  BY RetryKnown DEF R!Others
<1> QED
  BY <1>1, RetryKnown, WorldSteps DEF Booked

LEMMA RetryInit ==
  ASSUME R!Init
  PROVE  RetryInv
<1>1. /\ kind \in {"machine", "studio"} /\ page = [attempt |-> R!NoAttempt, keys |-> 0, busy |-> FALSE]
      /\ request = [n \in R!Calls |-> R!NoCall] /\ row = [k \in R!Key |-> R!NoRow]
      /\ other = {} /\ letgo = {} /\ misled = FALSE
  BY DEF R!Init
<1>2. page \in PageRow /\ page.attempt.key = 0 /\ page.keys = 0
  BY <1>1, KeysAssumption DEF PageRow, R!NoAttempt
<1>3. R!NoCall \in CallRow /\ R!NoCall.pc = "none" /\ R!NoRow \in BookingRow /\ R!NoRow.status = "none"
  BY KeysAssumption DEF R!NoCall, CallRow, Pcs, Answers, R!NoRow, BookingRow
<1>4. /\ request \in [R!Calls -> CallRow] /\ (\A n \in R!Calls : request[n].pc = "none")
      /\ row \in [R!Key -> BookingRow] /\ \A k \in R!Key : row[k].status = "none"
  BY <1>1, <1>3
<1>5. R!TypeOK
  BY <1>1, <1>2, <1>4, RetryTyped
<1>6. KeysMean
  BY <1>2, <1>4 DEF KeysMean, InUse, Booked
<1>7. RequestsStand /\ R!LetGoIsSettled
  BY <1>1, <1>4 DEF RequestsStand, R!LetGoIsSettled
<1> QED
  BY <1>1, <1>5, <1>6, <1>7 DEF RetryInv

LEMMA RetryNext ==
  ASSUME RetryInv, R!Next
  PROVE  RetryInv'
<1>1. ASSUME NEW n \in R!Calls, R!Take(n) \/ R!Lose(n) \/ R!Look(n) \/ R!Commit(n) \/ R!Conclude(n)
      PROVE  RetryInv'
  BY <1>1, TakeStep, LoseStep, LookStep, CommitStep, ConcludeStep
<1>2. ASSUME NEW n \in R!Calls, NEW s \in Slot, R!Submit(n, s)
      PROVE  RetryInv'
  BY <1>2, SubmitStep
<1>3. ASSUME NEW k \in R!Key, R!Step(k)
      PROVE  RetryInv'
  BY <1>3, StepStep
<1>4. ASSUME NEW s \in Slot, R!Others(s)
      PROVE  RetryInv'
  BY <1>4, OthersStep
<1> QED
  BY <1>1, <1>2, <1>3, <1>4, ReloadStep DEF R!Next

LEMMA RetryStay ==
  ASSUME RetryInv, UNCHANGED R!vars
  PROVE  RetryInv'
<1>1. UNCHANGED <<kind, page, request, row, other, letgo, misled>>
  BY DEF R!vars
<1> QED
  BY <1>1, RetryKnown, WorldSteps DEF Booked

LEMMA RetryHolds ==
  ASSUME RetryInv
  PROVE  R!TypeOK /\ R!ConflictIsAnothers /\ R!LetGoIsSettled
BY DEF RetryInv, R!ConflictIsAnothers

\* An order that is sent again books once, and is refused only for the sake of
\* what others booked.
THEOREM OrdersCorrect ==
  R!Spec => [](R!TypeOK /\ R!ConflictIsAnothers /\ R!LetGoIsSettled)
<1>1. R!Init => RetryInv
  BY RetryInit
<1>2. RetryInv /\ [R!Next]_R!vars => RetryInv'
  BY RetryNext, RetryStay
<1>3. RetryInv => R!TypeOK /\ R!ConflictIsAnothers /\ R!LetGoIsSettled
  BY RetryHolds
<1> QED
  BY <1>1, <1>2, <1>3, PTL DEF R!Spec

-----------------------------------------------------------------------------
(* The suite.                                                              *)

All == <<scene, vars, Studios, Classes, Orders>>

\* The parts but for the orders begin in every scene, and each steps alone.
OrdersInv == scene = "orders" => RetryInv

LEMMA ChargesInit ==
  ASSUME MCInit
  PROVE  MembershipInv /\ RentalsInv /\ ClassesInv /\ OrdersInv
<1>1. MembershipInv
  BY MembershipInit DEF MCInit
<1>2. RentalsInv
  BY RentalsInit DEF MCInit
<1>3. ClassesInv
  BY ClassesInit DEF MCInit
<1>4. OrdersInv
  BY RetryInit DEF MCInit, OrdersInv
<1> QED
  BY <1>1, <1>2, <1>3, <1>4

\* A step of a scene is a step of its part, or of none.
LEMMA ChargesStepBy ==
  ASSUME MCNext \/ UNCHANGED All
  PROVE  /\ [Next]_vars /\ [S!Next]_S!vars /\ [T!Next]_T!vars
         /\ scene' = scene /\ (scene = "orders" => [R!Next]_R!vars)
BY DEF MCNext, All, Studios, Classes, Orders, S!vars, T!vars, R!vars

LEMMA ChargesNext ==
  ASSUME MCNext \/ UNCHANGED All
  PROVE  /\ MembershipInv => MembershipInv'
         /\ RentalsInv => RentalsInv'
         /\ ClassesInv => ClassesInv'
         /\ OrdersInv => OrdersInv'
<1>1. MembershipInv => MembershipInv'
  BY ChargesStepBy, MembershipNext, MembershipStay
<1>2. RentalsInv => RentalsInv'
  BY ChargesStepBy, RentalsNext, RentalsStay
<1>3. ClassesInv => ClassesInv'
  BY ChargesStepBy, ClassesNext, ClassesStay
<1>4. OrdersInv => OrdersInv'
  BY ChargesStepBy, RetryNext, RetryStay DEF OrdersInv
<1> QED
  BY <1>1, <1>2, <1>3, <1>4

\* A month is bought with money that Stripe has, once: what is paid is issued
\* unless the desk covers it, and what is issued is paid and in the ledger.
THEOREM MembershipsStand == MCSpec => []MembershipsPaid
<1>1. MCInit => MembershipInv
  BY ChargesInit
<1>2. MembershipInv /\ [MCNext]_All => MembershipInv'
  BY ChargesNext
<1>3. MembershipInv => MembershipsPaid
  BY MembershipHolds DEF MembershipsPaid
<1> QED
  BY <1>1, <1>2, <1>3, PTL DEF MCSpec, All

\* A checkout that ended unpaid cannot be paid any more, and once Stripe has
\* said all it has to say the ledger and Stripe agree about refunds.
THEOREM BillingStands == MCSpec => []BillingAgrees
<1>1. MCInit => MembershipInv
  BY ChargesInit
<1>2. MembershipInv /\ [MCNext]_All => MembershipInv'
  BY ChargesNext
<1>3. MembershipInv => BillingAgrees
  BY MembershipHolds DEF BillingAgrees
<1> QED
  BY <1>1, <1>2, <1>3, PTL DEF MCSpec, All

\* The date on which a membership ends, once it was decided, is not moved, by
\* whomever else cancels and whatever Stripe says.
THEOREM DatesStand == MCSpec => DateStands
<1> DEFINE stands == bill.effective # 0 => bill'.effective = bill.effective
<1>1. MCInit => MembershipInv
  BY ChargesInit
<1>2. MembershipInv /\ [MCNext]_All => MembershipInv'
  BY ChargesNext
<1>3. MembershipInv /\ [MCNext]_All => [stands]_vars
  BY ChargesStepBy, DateStandsStep
<1> QED
  BY <1>1, <1>2, <1>3, PTL DEF MCSpec, All, DateStands

\* Dates that were released cannot be paid for, a rental is confirmed for
\* money that Stripe has, staff are told what became of a refund, and an order
\* that is sent again is not refused for the sake of its own booking.
THEOREM RentalsStand == MCSpec => []RentalsPaid
<1>1. MCInit => RentalsInv /\ OrdersInv
  BY ChargesInit
<1>2. RentalsInv /\ OrdersInv /\ [MCNext]_All => RentalsInv' /\ OrdersInv'
  BY ChargesNext
<1>3. RentalsInv /\ OrdersInv => RentalsPaid
  BY RentalsHold, RetryHolds DEF OrdersInv, RentalsPaid
<1> QED
  BY <1>1, <1>2, <1>3, PTL DEF MCSpec, All

\* No class is overbooked, the training fee is billed once, and whoever
\* withdrew, or whose class was cancelled, owes nothing for it.
THEOREM ClassesStand == MCSpec => []SeatsAndFees
<1>1. MCInit => ClassesInv
  BY ChargesInit
<1>2. ClassesInv /\ [MCNext]_All => ClassesInv'
  BY ChargesNext
<1>3. ClassesInv => SeatsAndFees
  BY ClassesHold DEF SeatsAndFees
<1> QED
  BY <1>1, <1>2, <1>3, PTL DEF MCSpec, All

=============================================================================
