-------------------------- MODULE ExpiryReminders --------------------------
(***************************************************************************)
(* The reminder that something of a member's is about to expire            *)
(* (notifications/scheduler.ts): a scan queues one for each expiry date, a *)
(* worker looks at the source again before it sends, and meanwhile staff   *)
(* move the date, renew or revoke.  A signature's date is moved by         *)
(* WaiverRecordsService, which cancels and revives reminders itself; a     *)
(* certification is renewed, and the scan does the rest.                   *)
(*                                                                         *)
(* The outbox and its workers have a module of their own, NotificationOut- *)
(* box; only what happens to one source's reminders is told apart here.    *)
(***************************************************************************)
EXTENDS Naturals

CONSTANTS
  Date,      \* expiry dates that the source may have
  Worker,    \* overlapping notification workers
  MaxMoves   \* changes of the source, as far as the run goes

VARIABLES
  kind,      \* what the source is
  expiry,    \* user_waiver.expires_at, user_certifications.renewaldate
  standing,  \* approved, or active
  reminder,  \* app_notification_outbox: the row of each date's dedupe key
  worker,    \* what each worker has claimed
  moves,     \* how often the source has changed
  mailed,    \* for the properties: the mails about each date
  held       \* for the properties: the dates that stood since a worker's claim

vars == <<kind, expiry, standing, reminder, worker, moves, mailed, held>>

Never == "never"
Status == {"none", "pending", "sending", "accepted", "obsolete", "failed"}

TypeOK ==
  /\ kind \in {"waiver", "certification"}
  /\ expiry \in Date \cup {Never} /\ standing \in BOOLEAN
  /\ reminder \in [Date -> Status]
  /\ worker \in [Worker -> [at : {"idle", "claimed", "current", "stale"}, date : Date \cup {Never}]]
  /\ moves \in 0 .. MaxMoves

-----------------------------------------------------------------------------
(* The source.                                                             *)

Enqueued(rows, d) == IF rows[d] = "none" THEN [rows EXCEPT ![d] = "pending"] ELSE rows

\* A canceled reminder that was never accepted.
Revived(rows, d) == IF rows[d] = "obsolete" THEN [rows EXCEPT ![d] = "pending"] ELSE rows

Canceled(rows) == [d \in Date |-> IF rows[d] = "pending" THEN "obsolete" ELSE rows[d]]

\* What stands now is added to what has stood since each claim.
Stands == IF standing THEN {expiry} ELSE {}
Moved ==
  /\ moves < MaxMoves /\ moves' = moves + 1
  /\ held' = [w \in Worker |-> held[w] \cup Stands']

\* WaiverRecordsService.expiry: an administrator moves, clears or restores it.
SetExpiry(d) ==
  /\ kind = "waiver" /\ d # expiry
  /\ expiry' = d
  /\ reminder' = IF d # Never /\ standing
                 THEN Revived(Enqueued(Canceled(reminder), d), d) ELSE Canceled(reminder)
  /\ UNCHANGED <<kind, standing, worker, mailed>> /\ Moved

\* Training recorded anew, with its expiry, and the scan that follows.
Renew(d) ==
  /\ kind = "certification"
  /\ expiry' = d /\ standing' = TRUE
  /\ reminder' = Enqueued(reminder, d)
  /\ UNCHANGED <<kind, worker, mailed>> /\ Moved

\* The certification is revoked; the agreement signed is replaced.
Revoke ==
  /\ standing /\ standing' = FALSE
  /\ UNCHANGED <<kind, expiry, reminder, worker, mailed>> /\ Moved

\* scheduleExpirationNotifications, at start and daily.
Scan ==
  /\ standing /\ expiry # Never
  /\ reminder[expiry] = "none"
  /\ reminder' = Enqueued(reminder, expiry)
  /\ UNCHANGED <<kind, expiry, standing, worker, moves, mailed, held>>

-----------------------------------------------------------------------------
(* The worker.                                                             *)

Claim(w, d) ==
  /\ worker[w].at = "idle" /\ reminder[d] = "pending"
  /\ reminder' = [reminder EXCEPT ![d] = "sending"]
  /\ worker' = [worker EXCEPT ![w] = [at |-> "claimed", date |-> d]]
  /\ held' = [held EXCEPT ![w] = Stands]
  /\ UNCHANGED <<kind, expiry, standing, moves, mailed>>

\* A slip: what was queued is true.
CurrentQueued(d) == TRUE

\* expirationSourceCurrent.
Current(d) == standing /\ expiry = d

Check(w) ==
  /\ worker[w].at = "claimed"
  /\ worker' = [worker EXCEPT ![w].at = IF Current(worker[w].date) THEN "current" ELSE "stale"]
  /\ UNCHANGED <<kind, expiry, standing, reminder, moves, mailed, held>>

\* finish, for a row that is still being sent.
Finish(w, status) ==
  /\ reminder' = IF reminder[worker[w].date] = "sending"
                 THEN [reminder EXCEPT ![worker[w].date] = status] ELSE reminder
  /\ worker' = [worker EXCEPT ![w] = [at |-> "idle", date |-> Never]]

Drop(w) ==
  /\ worker[w].at = "stale"
  /\ Finish(w, "obsolete")
  /\ UNCHANGED <<kind, expiry, standing, moves, mailed, held>>

\* The provider takes the mail, or refuses it for now or for good.
Send(w) ==
  /\ worker[w].at = "current"
  /\ \/ Finish(w, "accepted") /\ mailed' = [mailed EXCEPT ![worker[w].date] = @ + 1]
     \/ Finish(w, "pending") /\ UNCHANGED mailed
     \/ Finish(w, "failed") /\ UNCHANGED mailed
  /\ UNCHANGED <<kind, expiry, standing, moves, held>>

Init ==
  /\ kind \in {"waiver", "certification"}
  /\ expiry \in Date \cup {Never} /\ standing = TRUE
  /\ reminder = [d \in Date |-> "none"]
  /\ worker = [w \in Worker |-> [at |-> "idle", date |-> Never]]
  /\ moves = 0
  /\ mailed = [d \in Date |-> 0]
  /\ held = [w \in Worker |-> {}]

Next ==
  \/ \E d \in Date \cup {Never} : SetExpiry(d)
  \/ \E d \in Date : Renew(d)
  \/ Revoke \/ Scan
  \/ \E w \in Worker : (\E d \in Date : Claim(w, d)) \/ Check(w) \/ Drop(w) \/ Send(w)

Spec == Init /\ [][Next]_vars

-----------------------------------------------------------------------------
(* Properties.                                                             *)

\* Clearing a date, restoring it, renewing and revoking never bring the
\* member a second reminder about the same date.
OneReminder == \A d \in Date : mailed[d] <= 1

\* A reminder names a date that stood when the worker took it up or later;
\* one whose source had moved before that is not sent.
ReminderWasTrue ==
  [][\A w \in Worker : mailed' # mailed /\ worker[w].at = "current" /\ worker'[w].at = "idle"
       => worker[w].date \in held[w]]_vars
=============================================================================
