------------------------- MODULE NotificationOutbox -------------------------
(***************************************************************************)
(* The e-mail outbox of one member: business transactions enqueue notices, *)
(* workers (one per backend process) claim, recheck, send and record them, *)
(* Brevo's callbacks report unsubscribes, the member changes preferences.  *)
(*                                                                         *)
(* A worker's statements are separate: claiming is a transaction, every    *)
(* later UPDATE commits by itself, and the process can die between any     *)
(* two.  A lease that runs out lets another worker's sweep call the notice *)
(* uncertain while its own worker is only slow, so the sweep may come at   *)
(* any time.  Transactions see what is committed (READ COMMITTED).         *)
(*                                                                         *)
(* Left out: due times and deadlines (a claim takes any pending notice),   *)
(* the reasons why a notice is obsolete, and notices to people who are not *)
(* members yet, which have no preferences.                                 *)
(***************************************************************************)
EXTENDS Naturals

CONSTANTS
  Notice,       \* outbox rows, named by their dedupe keys
  Exempt,       \* password notices, which ignore the preference
  Worker,       \* overlapping notification workers
  Hook,         \* overlapping webhook transactions
  MaxAttempts   \* maxAttempts of runNotificationBatch

ASSUME OutboxAssumption == Exempt \subseteq Notice /\ MaxAttempts \in Nat \ {0}

VARIABLES
  outbox,     \* status, attempts and whether provider_message_id is saved
  draft,      \* the status an enqueueing transaction has written, not committed
  enabled,    \* the member's preference
  unsub,      \* notices with a committed unsubscribed event
  worker,     \* where each worker is, with which notice
  hook,       \* an unsubscribed event being saved, and whether its row was found
  mailed,     \* how often the provider accepted each notice
  honoured,   \* history: notices whose unsubscribe has reached the preference
  off         \* history: workers whose member has been opted out since the claim

vars == <<outbox, draft, enabled, unsub, worker, hook, mailed, honoured, off>>

Status == {"none", "pending", "sending", "accepted", "suppressed", "failed", "uncertain", "obsolete"}

Row == [status: Status, attempts: 0..MaxAttempts, known: BOOLEAN]

Stage == {"claimed", "checked", "answered", "refused", "rejected", "lost", "recorded"}

Free == [at |-> "idle"]

Job == [at: Stage, n: Notice]

Delivery == [at: {"reading"}, n: Notice, found: BOOLEAN]

At(w, stage) == worker[w].at = stage

Goto(w, stage) == worker' = [worker EXCEPT ![w].at = stage]

Rest(w) == worker' = [worker EXCEPT ![w] = Free]

SetStatus(n, st) == outbox' = [outbox EXCEPT ![n].status = st]

\* Opting in ends every stretch of being opted out.
SetEnabled(on) ==
  /\ enabled' = on
  /\ off' = IF on THEN {} ELSE off

-----------------------------------------------------------------------------
(* Enqueueing and preferences.                                             *)

\* enqueueNotification in a business transaction: the INSERT reads the
\* preference, the row appears with the commit.
Draft(n) ==
  /\ outbox[n].status = "none"
  /\ draft[n] = "none"
  /\ draft' = [draft EXCEPT ![n] = IF enabled \/ n \in Exempt THEN "pending" ELSE "suppressed"]
  /\ UNCHANGED <<outbox, enabled, unsub, worker, hook, mailed, honoured, off>>

CommitDraft(n) ==
  /\ draft[n] # "none"
  /\ SetStatus(n, draft[n])
  /\ draft' = [draft EXCEPT ![n] = "none"]
  /\ UNCHANGED <<enabled, unsub, worker, hook, mailed, honoured, off>>

\* updateNotificationPreferences: opting out suppresses what is pending.
OptOut ==
  /\ SetEnabled(FALSE)
  /\ outbox' = [n \in Notice |->
       IF outbox[n].status = "pending" /\ n \notin Exempt
       THEN [outbox[n] EXCEPT !.status = "suppressed"] ELSE outbox[n]]
  /\ UNCHANGED <<draft, unsub, worker, hook, mailed, honoured>>

OptIn ==
  /\ SetEnabled(TRUE)
  /\ UNCHANGED <<outbox, draft, unsub, worker, hook, mailed, honoured>>

-----------------------------------------------------------------------------
(* runNotificationBatch.                                                   *)

\* A slip: a notice whose lease ran out is tried again.
SweepToRetry(n) ==
  /\ outbox[n].status = "sending"
  /\ outbox[n].attempts < MaxAttempts
  /\ SetStatus(n, "pending")
  /\ UNCHANGED <<draft, enabled, unsub, worker, hook, mailed, honoured, off>>

\* A slip: nobody looks at leases.
SweepNothing(n) == FALSE /\ UNCHANGED vars

\* A lease ran out: the provider may have the mail, so it is not sent again.
Sweep(n) ==
  /\ outbox[n].status = "sending"
  /\ SetStatus(n, "uncertain")
  /\ UNCHANGED <<draft, enabled, unsub, worker, hook, mailed, honoured, off>>

Claim(w, n) ==
  /\ At(w, "idle")
  /\ outbox[n].status = "pending"
  /\ outbox' = [outbox EXCEPT ![n].status = "sending", ![n].attempts = @ + 1]
  /\ worker' = [worker EXCEPT ![w] = [at |-> "claimed", n |-> n]]
  /\ off' = IF enabled THEN off \ {w} ELSE off \cup {w}
  /\ UNCHANGED <<draft, enabled, unsub, hook, mailed, honoured>>

\* finish: only a notice still in sending takes the status.
Finish(w, st) ==
  /\ IF outbox[worker[w].n].status = "sending" THEN SetStatus(worker[w].n, st) ELSE UNCHANGED outbox
  /\ Rest(w)

\* A slip: the preference is looked at when the notice is enqueued, not again.
CheckSourceOnly(w) ==
  /\ At(w, "claimed")
  /\ \/ Goto(w, "checked") /\ UNCHANGED outbox
     \/ \E st \in {"suppressed", "obsolete", "failed"} : Finish(w, st)
  /\ UNCHANGED <<draft, enabled, unsub, hook, mailed, honoured, off>>

\* The rechecks before sending: preference and account, source, expiry.
Check(w) ==
  /\ At(w, "claimed")
  /\ \/ /\ enabled \/ worker[w].n \in Exempt
        /\ Goto(w, "checked")
        /\ UNCHANGED outbox
     \/ \E st \in {"suppressed", "obsolete", "failed"} : Finish(w, st)
  /\ UNCHANGED <<draft, enabled, unsub, hook, mailed, honoured, off>>

\* The request to Brevo: accepted and answered, accepted with the answer lost
\* (timeout, 5xx, no message id), refused for now (429), refused for good, or
\* never received.
Send(w) ==
  /\ At(w, "checked")
  /\ \/ \E stage \in {"answered", "lost"} :
          /\ Goto(w, stage)
          /\ mailed' = [mailed EXCEPT ![worker[w].n] = @ + 1]
     \/ \E stage \in {"refused", "rejected", "lost"} :
          /\ Goto(w, stage)
          /\ UNCHANGED mailed
  /\ UNCHANGED <<outbox, draft, enabled, unsub, hook, honoured, off>>

\* The acceptance and its message id are saved ...
Record(w) ==
  /\ At(w, "answered")
  /\ outbox' = IF outbox[worker[w].n].status \in {"sending", "uncertain"}
               THEN [outbox EXCEPT ![worker[w].n].status = "accepted", ![worker[w].n].known = TRUE]
               ELSE outbox
  /\ Goto(w, "recorded")
  /\ UNCHANGED <<draft, enabled, unsub, hook, mailed, honoured, off>>

\* ... then an unsubscribe that came earlier is applied.
ApplyUnsubscribe(w) ==
  /\ At(w, "recorded")
  /\ IF worker[w].n \in unsub
     THEN SetEnabled(FALSE) /\ honoured' = honoured \cup {worker[w].n}
     ELSE UNCHANGED <<enabled, honoured, off>>
  /\ Rest(w)
  /\ UNCHANGED <<outbox, draft, unsub, hook, mailed>>

\* A refusal for now goes back to pending until the attempts are used up.
Retry(w) ==
  /\ At(w, "refused")
  /\ Finish(w, IF outbox[worker[w].n].attempts < MaxAttempts THEN "pending" ELSE "failed")
  /\ UNCHANGED <<draft, enabled, unsub, hook, mailed, honoured, off>>

Reject(w) ==
  /\ At(w, "rejected")
  /\ Finish(w, "failed")
  /\ UNCHANGED <<draft, enabled, unsub, hook, mailed, honoured, off>>

\* A slip: an answer that was lost counts as a refusal.
DoubtAsFailure(w) ==
  /\ At(w, "lost")
  /\ Finish(w, "failed")
  /\ UNCHANGED <<draft, enabled, unsub, hook, mailed, honoured, off>>

Doubt(w) ==
  /\ At(w, "lost")
  /\ Finish(w, "uncertain")
  /\ UNCHANGED <<draft, enabled, unsub, hook, mailed, honoured, off>>

\* The process dies or the database is out of reach.
Crash(w) ==
  /\ ~ At(w, "idle")
  /\ Rest(w)
  /\ UNCHANGED <<outbox, draft, enabled, unsub, hook, mailed, honoured, off>>

-----------------------------------------------------------------------------
(* brevoWebhook.                                                           *)

\* The transaction saves the event and looks for the message it is about: the
\* member unsubscribed in a mail that was sent, or the callback is repeated.
Receive(h, n) ==
  /\ hook[h] = Free
  /\ mailed[n] > 0
  /\ hook' = [hook EXCEPT ![h] = [at |-> "reading", n |-> n, found |-> outbox[n].known]]
  /\ UNCHANGED <<outbox, draft, enabled, unsub, worker, mailed, honoured, off>>

CommitEvent(h) ==
  /\ hook[h] # Free
  /\ unsub' = unsub \cup {hook[h].n}
  /\ IF hook[h].found
     THEN SetEnabled(FALSE) /\ honoured' = honoured \cup {hook[h].n}
     ELSE UNCHANGED <<enabled, honoured, off>>
  /\ hook' = [hook EXCEPT ![h] = Free]
  /\ UNCHANGED <<outbox, draft, worker, mailed>>

AbortEvent(h) ==
  /\ hook[h] # Free
  /\ hook' = [hook EXCEPT ![h] = Free]
  /\ UNCHANGED <<outbox, draft, enabled, unsub, worker, mailed, honoured, off>>

-----------------------------------------------------------------------------

Init ==
  /\ outbox = [n \in Notice |-> [status |-> "none", attempts |-> 0, known |-> FALSE]]
  /\ draft = [n \in Notice |-> "none"]
  /\ enabled = TRUE
  /\ unsub = {}
  /\ worker = [w \in Worker |-> Free]
  /\ hook = [h \in Hook |-> Free]
  /\ mailed = [n \in Notice |-> 0]
  /\ honoured = {}
  /\ off = {}

\* What the processes do when none of them dies ...
Steps ==
  \/ \E n \in Notice : Draft(n) \/ CommitDraft(n) \/ Sweep(n) \/ \E w \in Worker : Claim(w, n)
  \/ OptOut \/ OptIn
  \/ \E w \in Worker :
       \/ Check(w) \/ Send(w) \/ Record(w) \/ ApplyUnsubscribe(w)
       \/ Retry(w) \/ Reject(w) \/ Doubt(w)
  \/ \E h \in Hook : (\E n \in Notice : Receive(h, n)) \/ CommitEvent(h) \/ AbortEvent(h)

\* ... and what they do.
Next == Steps \/ \E w \in Worker : Crash(w)

Spec == Init /\ [][Next]_vars

SteadySpec == Init /\ [][Steps]_vars

\* Every process runs its batch once an interval and takes the notices in the
\* order they fell due; leases end; statements finish or their worker is gone.
Fairness ==
  /\ \A n \in Notice :
       /\ WF_vars(CommitDraft(n))
       /\ WF_vars(Sweep(n))
       /\ SF_vars(\E w \in Worker : Claim(w, n))
  /\ \A w \in Worker :
       WF_vars(\/ Check(w) \/ Send(w) \/ Record(w) \/ ApplyUnsubscribe(w)
               \/ Retry(w) \/ Reject(w) \/ Doubt(w))

FairSpec == Spec /\ Fairness

-----------------------------------------------------------------------------
(* Properties.                                                             *)

TypeOK ==
  /\ outbox \in [Notice -> Row]
  /\ draft \in [Notice -> {"none", "pending", "suppressed"}]
  /\ enabled \in BOOLEAN
  /\ unsub \subseteq Notice
  /\ worker \in [Worker -> Job \cup {Free}]
  /\ hook \in [Hook -> Delivery \cup {Free}]
  /\ mailed \in [Notice -> Nat]
  /\ honoured \subseteq Notice
  /\ off \subseteq Worker

\* No notice is mailed twice, whatever crashes, slow workers, leases that run
\* out, refusals and retries do.
NoSecondMail == \A n \in Notice : mailed[n] <= 1

\* The outbox never calls a notice undelivered that the provider accepted, nor
\* delivered one it did not: what it does not know is sending or uncertain.
RecordIsTrue ==
  \A n \in Notice :
    /\ outbox[n].status \in {"none", "pending", "suppressed", "failed", "obsolete"} => mailed[n] = 0
    /\ outbox[n].status = "accepted" => mailed[n] = 1

\* Nothing but a password notice goes to a member who has been opted out ever
\* since the worker claimed it, however it came to be pending: the enqueueing
\* transaction may have read the preference before the change.
OptOutHonoured ==
  \A w \in Worker : At(w, "checked") /\ worker[w].n \notin Exempt => w \notin off

\* An unsubscribe reaches the preference, whether its callback comes before or
\* after the message id is saved: once the event is stored, the id is known and
\* no transaction and no worker is still to act on it, it has been applied.
UnsubscribeApplied ==
  \A n \in unsub \ honoured :
    \/ ~ outbox[n].known
    \/ \E w \in Worker : At(w, "recorded") /\ worker[w].n = n
    \/ \E h \in Hook : hook[h] # Free /\ hook[h].n = n

\* A notice does not stay in the queue or in flight for ever.
NoticeSettles ==
  \A n \in Notice :
    outbox[n].status \in {"pending", "sending"} ~> outbox[n].status \notin {"pending", "sending"}

=============================================================================
