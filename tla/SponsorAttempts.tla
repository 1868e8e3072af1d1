-------------------------- MODULE SponsorAttempts --------------------------
(***************************************************************************)
(* The budget of sponsor requests: reserveAttempt and the request around   *)
(* it in backend/src/minorSupervision.ts.                                  *)
(*                                                                         *)
(* An adult names a minor by e-mail and date of birth.  Each try is        *)
(* written down before it is answered, in a transaction that counts the    *)
(* earlier ones under two advisory locks, and marked as matched after the  *)
(* answer, in a statement of its own.                                      *)
(***************************************************************************)
EXTENDS Naturals, Sequences, FiniteSets

CONSTANTS
  Adult, Email, Tx,
  PerAdult, PerPair, PerEmail,  \* the three limits (10, 5 and 15)
  Month,                        \* days a miss counts against its e-mail (30)
  MaxDay, MaxTries              \* bounds

VARIABLES
  today,
  tries,  \* app_minor_sponsor_attempt, with whether it was answered "no match"
  tx      \* the requests being served

vars == <<today, tries, tx>>

Day == 1..MaxDay
Try == [adult : Adult, email : Email, day : Day, matched : {"yes", "no"}, missed : BOOLEAN]
Idle == [at |-> "idle"]
Request ==
  {Idle}
  \cup [at : {"begun", "counted"}, adult : Adult, email : Email, day : Day]
  \cup [at : {"asked", "matched"}, try : 1..MaxTries]

TypeOK ==
  /\ today \in Day
  /\ tries \in Seq(Try) /\ Len(tries) <= MaxTries
  /\ tx \in [Tx -> Request]

\* The tries that count for a request begun on a day: since the day before
\* it, or in its month.
Since(from) == {i \in DOMAIN tries : tries[i].day > from}
DayBefore(d) == d - 1
MonthBefore(d) == IF d > Month THEN d - Month ELSE 0

\* A slip: only requests of the same adult wait for each other.
AdultLockFree(t, a, e) == \A s \in Tx \ {t} : tx[s].at = "counted" => tx[s].adult # a

LocksFree(t, a, e) ==
  \A s \in Tx \ {t} : tx[s].at = "counted" => tx[s].adult # a /\ tx[s].email # e

Within(a, e, d) ==
  /\ Cardinality({i \in Since(DayBefore(d)) : tries[i].adult = a}) < PerAdult
  /\ Cardinality({i \in Since(DayBefore(d)) : tries[i].adult = a /\ tries[i].email = e /\ tries[i].matched = "no"}) < PerPair
  /\ Cardinality({i \in Since(MonthBefore(d)) : tries[i].email = e /\ tries[i].matched = "no"}) < PerEmail

\* now() is when the transaction began, however long it waits for a lock.
Begin(t, a, e) ==
  /\ tx[t] = Idle
  /\ tx' = [tx EXCEPT ![t] = [at |-> "begun", adult |-> a, email |-> e, day |-> today]]
  /\ UNCHANGED <<today, tries>>

Count(t) ==
  LET w == tx[t]
  IN /\ w.at = "begun"
     /\ LocksFree(t, w.adult, w.email)
     /\ Within(w.adult, w.email, w.day)
     /\ tx' = [tx EXCEPT ![t].at = "counted"]
     /\ UNCHANGED <<today, tries>>

Record(t) ==
  LET w == tx[t]
      new == [adult |-> w.adult, email |-> w.email, day |-> w.day, matched |-> "no", missed |-> FALSE]
  IN /\ w.at = "counted"
     /\ Len(tries) < MaxTries
     /\ tries' = Append(tries, new)
     /\ tx' = [tx EXCEPT ![t] = [at |-> "asked", try |-> Len(tries) + 1]]
     /\ UNCHANGED today

\* The second transaction looks the minor up; whatever it does with a match,
\* only "no match" tells the adult that the details were wrong.
Match(t) ==
  /\ tx[t].at = "asked"
  /\ tx' = [tx EXCEPT ![t].at = "matched"]
  /\ UNCHANGED <<today, tries>>

Miss(t) ==
  /\ tx[t].at = "asked"
  /\ tries' = [tries EXCEPT ![tx[t].try].missed = TRUE]
  /\ tx' = [tx EXCEPT ![t] = Idle]
  /\ UNCHANGED today

Mark(t) ==
  /\ tx[t].at = "matched"
  /\ tries' = [tries EXCEPT ![tx[t].try].matched = "yes"]
  /\ tx' = [tx EXCEPT ![t] = Idle]
  /\ UNCHANGED today

\* Refused, aborted, or the process is gone.
Stop(t) ==
  /\ tx[t] # Idle
  /\ tx' = [tx EXCEPT ![t] = Idle]
  /\ UNCHANGED <<today, tries>>

NextDay ==
  /\ today < MaxDay
  /\ today' = today + 1
  /\ UNCHANGED <<tries, tx>>

Init == today = 1 /\ tries = <<>> /\ tx = [t \in Tx |-> Idle]

Next ==
  \/ NextDay
  \/ \E t \in Tx :
       \/ \E a \in Adult, e \in Email : Begin(t, a, e)
       \/ Count(t) \/ Record(t) \/ Match(t) \/ Miss(t) \/ Mark(t) \/ Stop(t)

Spec == Init /\ [][Next]_vars

-----------------------------------------------------------------------------
(* Properties.                                                             *)

\* The tries of the days from..to.
Made(from, to) == {i \in DOMAIN tries : tries[i].day \in from..to}

\* Over any month, however many accounts ask at once and whichever requests
\* die half way, the wrong guesses told about one e-mail stay within its limit.
GuessesBounded ==
  \A e \in Email, d \in Day :
    Cardinality({i \in Made(MonthBefore(d) + 1, d) : tries[i].email = e /\ tries[i].missed}) <= PerEmail

\* No adult asks more often in a day than the limit, matched or not.
AsksBounded ==
  \A a \in Adult, d \in Day : Cardinality({i \in Made(d, d) : tries[i].adult = a}) <= PerAdult
=============================================================================
