---------------------- MODULE NotificationOutboxProofs ----------------------
(***************************************************************************)
(* Proofs about the outbox.  A claim is allowed only on a pending notice   *)
(* and takes it out of pending, so a notice has at most one worker; what   *)
(* that worker knows of the provider's answer (InFlight) is why a sweep, a *)
(* refusal or a late record never brings back a notice that was accepted.  *)
(***************************************************************************)
EXTENDS NotificationOutbox, TLAPS

\* What the outbox says of notices that no worker holds.
RowsKnow ==
  \A n \in Notice :
    /\ mailed[n] \in {0, 1}
    /\ outbox[n].status \in {"none", "pending", "suppressed", "failed", "obsolete"} => mailed[n] = 0
    /\ outbox[n].status = "accepted" => mailed[n] = 1
    /\ outbox[n].status \in {"none", "pending"} => outbox[n].attempts < MaxAttempts
    /\ draft[n] # "none" => outbox[n].status = "none"

\* What a worker's place says of the notice it holds.
InFlight ==
  \A w \in Worker : worker[w] # Free =>
    /\ outbox[worker[w].n].status = "accepted" <=> At(w, "recorded")
    /\ outbox[worker[w].n].status \in {"sending", "uncertain", "accepted"}
    /\ worker[w].at \in {"claimed", "checked", "refused", "rejected"} => mailed[worker[w].n] = 0
    /\ At(w, "answered") => mailed[worker[w].n] = 1

OneWorker ==
  \A v, w \in Worker : v # w /\ worker[v] # Free /\ worker[w] # Free => worker[v].n # worker[w].n

OffMeansOff ==
  /\ enabled => off = {}
  /\ OptOutHonoured

IInv == TypeOK /\ RowsKnow /\ InFlight /\ OneWorker /\ OffMeansOff

-----------------------------------------------------------------------------
(* Rows and workers, one field at a time.                                  *)

LEMMA RowFields ==
  ASSUME NEW r \in Row, NEW st \in Status
  PROVE  /\ r.status \in Status /\ r.attempts \in 0..MaxAttempts /\ r.known \in BOOLEAN
         /\ [r EXCEPT !.status = st] \in Row
         /\ [r EXCEPT !.status = st].status = st
         /\ [r EXCEPT !.status = st].attempts = r.attempts
BY DEF Row

LEMMA TwoFields ==
  ASSUME NEW r \in Row
  PROVE  /\ [r EXCEPT !.status = "accepted", !.known = TRUE] \in Row
         /\ [r EXCEPT !.status = "accepted", !.known = TRUE].status = "accepted"
         /\ r.attempts < MaxAttempts =>
              /\ [r EXCEPT !.status = "sending", !.attempts = @ + 1] \in Row
              /\ [r EXCEPT !.status = "sending", !.attempts = @ + 1].status = "sending"
<1>1. \A q \in Row, b \in BOOLEAN : /\ [q EXCEPT !.known = b] \in Row
                                   /\ [q EXCEPT !.known = b].status = q.status
  BY SMT DEF Row
<1>2. \A q \in Row : q.attempts < MaxAttempts =>
                       /\ [q EXCEPT !.attempts = q.attempts + 1] \in Row
                       /\ [q EXCEPT !.attempts = q.attempts + 1].status = q.status
  BY SMT, OutboxAssumption DEF Row
<1> DEFINE j == [r EXCEPT !.status = "accepted"]
           k == [r EXCEPT !.status = "sending"]
<1>3. "accepted" \in Status /\ "sending" \in Status
  BY DEF Status
<1>4. j \in Row /\ j.status = "accepted"
  BY <1>3, RowFields
<1>5. k \in Row /\ k.status = "sending" /\ k.attempts = r.attempts
  BY <1>3, RowFields
<1> HIDE DEF j, k
<1>6. [j EXCEPT !.known = TRUE] \in Row /\ [j EXCEPT !.known = TRUE].status = "accepted"
  BY <1>1, <1>4
<1>7. r.attempts < MaxAttempts =>
        /\ [k EXCEPT !.attempts = r.attempts + 1] \in Row
        /\ [k EXCEPT !.attempts = r.attempts + 1].status = "sending"
  BY <1>2, <1>5
<1>8. /\ [r EXCEPT !.status = "accepted", !.known = TRUE] \in Row
      /\ [r EXCEPT !.status = "accepted", !.known = TRUE].status = "accepted"
  BY <1>6 DEF j
<1>9. r.attempts < MaxAttempts =>
        /\ [r EXCEPT !.status = "sending", !.attempts = @ + 1] \in Row
        /\ [r EXCEPT !.status = "sending", !.attempts = @ + 1].status = "sending"
  BY <1>7 DEF k
<1> QED
  BY <1>8, <1>9

LEMMA Sets ==
  ASSUME TypeOK, NEW n \in Notice, NEW st \in Status, SetStatus(n, st)
  PROVE  /\ outbox' \in [Notice -> Row]
         /\ outbox'[n].status = st
         /\ outbox'[n].attempts = outbox[n].attempts
         /\ \A m \in Notice : m # n => outbox'[m] = outbox[m]
<1>1. outbox \in [Notice -> Row]
  BY DEF TypeOK
<1>2. outbox' = [outbox EXCEPT ![n] = [outbox[n] EXCEPT !.status = st]]
  BY DEF SetStatus
<1>3. [outbox[n] EXCEPT !.status = st] \in Row
  BY <1>1, RowFields
<1>4. outbox'[n] = [outbox[n] EXCEPT !.status = st]
  BY <1>1, <1>2
<1> QED
  BY <1>1, <1>2, <1>3, <1>4, RowFields

LEMMA WorkerFields ==
  ASSUME TypeOK, NEW w \in Worker
  PROVE  /\ worker[w] = Free => worker[w].at = "idle"
         /\ worker[w] # Free => worker[w] \in Job /\ worker[w].at \in Stage /\ worker[w].n \in Notice
         /\ worker[w].at # "idle" => worker[w] # Free
BY DEF TypeOK, Job, Free, Stage

LEMMA Rests ==
  ASSUME TypeOK, NEW w \in Worker, Rest(w)
  PROVE  /\ worker' \in [Worker -> Job \cup {Free}]
         /\ worker'[w] = Free
         /\ \A v \in Worker : v # w => worker'[v] = worker[v]
BY DEF TypeOK, Rest

LEMMA Goes ==
  ASSUME TypeOK, NEW w \in Worker, worker[w] # Free, NEW stage \in Stage, Goto(w, stage)
  PROVE  /\ worker' \in [Worker -> Job \cup {Free}]
         /\ worker'[w] # Free
         /\ worker'[w].at = stage
         /\ worker'[w].n = worker[w].n
         /\ \A v \in Worker : v # w => worker'[v] = worker[v]
<1>1. worker[w] \in Job
  BY WorkerFields
<1>2. \A j \in Job : /\ [j EXCEPT !.at = stage] \in Job
                     /\ [j EXCEPT !.at = stage].at = stage
                     /\ [j EXCEPT !.at = stage].n = j.n
  BY DEF Job
<1>3. worker' = [worker EXCEPT ![w] = [worker[w] EXCEPT !.at = stage]]
  BY DEF Goto
<1>4. worker'[w] = [worker[w] EXCEPT !.at = stage]
  BY <1>3 DEF TypeOK
<1>5. \A j \in Job : j # Free
  BY DEF Job, Free, Stage
<1> QED
  BY <1>1, <1>2, <1>3, <1>4, <1>5 DEF TypeOK

\* A worker gives up its notice with a last status, or dies.
LEMMA FinishKeeps ==
  ASSUME IInv, NEW w \in Worker, worker[w] # Free, Rest(w),
         NEW st \in {"suppressed", "obsolete", "failed", "uncertain", "pending"},
         UNCHANGED outbox \/ (outbox[worker[w].n].status = "sending" /\ SetStatus(worker[w].n, st)),
         mailed[worker[w].n] = 0 \/ st = "uncertain" \/ UNCHANGED outbox,
         st = "pending" => outbox[worker[w].n].attempts < MaxAttempts,
         UNCHANGED <<draft, mailed>>
  PROVE  /\ outbox' \in [Notice -> Row] /\ worker' \in [Worker -> Job \cup {Free}]
         /\ RowsKnow' /\ InFlight' /\ OneWorker'
<1> DEFINE n == worker[w].n
<1>1. TypeOK /\ n \in Notice /\ st \in Status
  BY WorkerFields DEF IInv, Status
<1>2. /\ worker' \in [Worker -> Job \cup {Free}]
      /\ worker'[w] = Free
      /\ \A v \in Worker : v # w => worker'[v] = worker[v]
  BY <1>1, Rests
<1>3. OneWorker'
  BY <1>2 DEF OneWorker, IInv
<1>4. \A v \in Worker : worker'[v] # Free =>
        v # w /\ worker'[v] = worker[v] /\ worker'[v].n # n /\ worker'[v].n \in Notice
  BY <1>1, <1>2, WorkerFields DEF OneWorker, IInv
<1>5. CASE UNCHANGED outbox
  BY <1>1, <1>2, <1>3, <1>4, <1>5 DEF RowsKnow, InFlight, IInv, At, TypeOK
<1>6. CASE outbox[n].status = "sending" /\ SetStatus(n, st) /\ (mailed[n] = 0 \/ st = "uncertain")
  <2>1. /\ outbox' \in [Notice -> Row]
        /\ outbox'[n].status = st
        /\ outbox'[n].attempts = outbox[n].attempts
        /\ \A m \in Notice : m # n => outbox'[m] = outbox[m]
    BY <1>1, <1>6, Sets
  <2>2. RowsKnow'
    BY <1>1, <1>6, <2>1 DEF RowsKnow, IInv
  <2>3. InFlight'
    BY <1>4, <2>1 DEF InFlight, IInv, At
  <2> QED
    BY <1>2, <1>3, <2>1, <2>2, <2>3
<1> QED
  BY <1>5, <1>6

\* A worker moves on; its row and the provider's count follow.
LEMMA MoveKeeps ==
  ASSUME IInv, NEW w \in Worker, worker[w] # Free, NEW stage \in Stage \ {"recorded"}, Goto(w, stage),
         ~ At(w, "recorded"),
         NEW k \in {0, 1}, mailed' = [mailed EXCEPT ![worker[w].n] = k],
         stage \in {"claimed", "checked", "refused", "rejected"} => k = 0,
         stage = "answered" => k = 1,
         UNCHANGED <<outbox, draft>>
  PROVE  /\ worker' \in [Worker -> Job \cup {Free}] /\ mailed' \in [Notice -> Nat]
         /\ RowsKnow' /\ InFlight' /\ OneWorker'
<1> DEFINE n == worker[w].n
<1>1. TypeOK /\ n \in Notice
  BY WorkerFields DEF IInv
<1>2. /\ worker' \in [Worker -> Job \cup {Free}]
      /\ worker'[w] # Free
      /\ worker'[w].at = stage
      /\ worker'[w].n = n
      /\ \A v \in Worker : v # w => worker'[v] = worker[v]
  BY <1>1, Goes
<1>3. /\ mailed' \in [Notice -> Nat]
      /\ mailed'[n] = k
      /\ \A m \in Notice : m # n => mailed'[m] = mailed[m]
  BY <1>1 DEF TypeOK
<1>4. OneWorker'
  BY <1>2 DEF OneWorker, IInv
<1>5. \A v \in Worker : worker[v] # Free /\ v # w => worker[v].n # n /\ worker[v].n \in Notice
  BY <1>1, WorkerFields DEF OneWorker, IInv
<1>6. outbox[n].status \in {"sending", "uncertain"}
  BY DEF InFlight, IInv, At
<1>7. RowsKnow'
  BY <1>1, <1>3, <1>6 DEF RowsKnow, IInv
<1>8. InFlight'
  BY <1>2, <1>3, <1>5, <1>6 DEF InFlight, IInv, At
<1> QED
  BY <1>2, <1>3, <1>4, <1>7, <1>8

-----------------------------------------------------------------------------
(* The inductive invariant.                                                *)

LEMMA InitHolds == Init => IInv
BY OutboxAssumption DEF Init, IInv, TypeOK, RowsKnow, InFlight, OneWorker, OffMeansOff, OptOutHonoured,
   Row, Status, Free, At

LEMMA NextRows ==
  ASSUME IInv, [Next]_vars
  PROVE  /\ outbox' \in [Notice -> Row] /\ worker' \in [Worker -> Job \cup {Free}]
         /\ mailed' \in [Notice -> Nat] /\ RowsKnow' /\ InFlight' /\ OneWorker'
<1>0. TypeOK
  BY DEF IInv
<1> DEFINE Goal == /\ outbox' \in [Notice -> Row] /\ worker' \in [Worker -> Job \cup {Free}]
                   /\ mailed' \in [Notice -> Nat] /\ RowsKnow' /\ InFlight' /\ OneWorker'
<1>1. CASE UNCHANGED <<outbox, worker, mailed, draft>>
  BY <1>1 DEF IInv, TypeOK, RowsKnow, InFlight, OneWorker, At
<1>2. ASSUME NEW n \in Notice, Draft(n)
      PROVE  Goal
  <2>1. \A m \in Notice : draft'[m] # "none" => draft[m] # "none" \/ outbox[m].status = "none"
    BY <1>2 DEF Draft, TypeOK, IInv
  <2> QED
    BY <1>2, <2>1 DEF Draft, IInv, TypeOK, RowsKnow, InFlight, OneWorker, At
<1>3. ASSUME NEW n \in Notice, CommitDraft(n)
      PROVE  Goal
  <2>1. draft[n] \in {"pending", "suppressed"} /\ outbox[n].status = "none"
    BY <1>3 DEF CommitDraft, IInv, TypeOK, RowsKnow
  <2>2. /\ outbox' \in [Notice -> Row]
        /\ outbox'[n].status = draft[n]
        /\ outbox'[n].attempts = outbox[n].attempts
        /\ \A m \in Notice : m # n => outbox'[m] = outbox[m]
    BY <1>0, <1>3, <2>1, Sets DEF CommitDraft, Status
  <2>3. draft'[n] = "none" /\ \A m \in Notice : m # n => draft'[m] = draft[m]
    BY <1>0, <1>3 DEF CommitDraft, TypeOK
  <2>4. RowsKnow'
    BY <1>3, <2>1, <2>2, <2>3 DEF CommitDraft, RowsKnow, IInv
  <2>5. \A w \in Worker : worker[w] # Free => worker[w].n \in Notice /\ worker[w].n # n
    BY <1>0, <2>1, WorkerFields DEF InFlight, IInv
  <2>6. InFlight'
    BY <1>3, <2>2, <2>5 DEF CommitDraft, InFlight, IInv, At
  <2> QED
    BY <1>0, <1>3, <2>2, <2>4, <2>6 DEF CommitDraft, TypeOK, OneWorker, IInv
<1>4. ASSUME NEW n \in Notice, Sweep(n)
      PROVE  Goal
  <2>1. /\ outbox' \in [Notice -> Row]
        /\ outbox'[n].status = "uncertain"
        /\ \A m \in Notice : m # n => outbox'[m] = outbox[m]
    BY <1>0, <1>4, Sets DEF Sweep, Status
  <2>2. outbox[n].status = "sending"
    BY <1>4 DEF Sweep
  <2>3. RowsKnow'
    BY <1>4, <2>1, <2>2 DEF Sweep, RowsKnow, IInv
  <2>4. \A w \in Worker : worker[w] # Free => worker[w].n \in Notice
    BY <1>0, WorkerFields
  <2>5. InFlight'
    BY <1>4, <2>1, <2>2, <2>4 DEF Sweep, InFlight, IInv, At
  <2> QED
    BY <1>0, <1>4, <2>1, <2>3, <2>5 DEF Sweep, TypeOK, OneWorker, IInv
<1>5. ASSUME NEW n \in Notice, NEW w \in Worker, Claim(w, n)
      PROVE  Goal
  <2>1. outbox[n].status = "pending" /\ outbox[n].attempts < MaxAttempts /\ mailed[n] = 0
    BY <1>5 DEF Claim, RowsKnow, IInv
  <2>2. /\ outbox' \in [Notice -> Row]
        /\ outbox'[n].status = "sending"
        /\ \A m \in Notice : m # n => outbox'[m] = outbox[m]
    <3>1. outbox' = [outbox EXCEPT ![n] = [outbox[n] EXCEPT !.status = "sending", !.attempts = @ + 1]]
      BY <1>5 DEF Claim
    <3> QED
      BY <1>0, <2>1, <3>1, TwoFields DEF TypeOK
  <2>3. /\ worker' \in [Worker -> Job \cup {Free}]
        /\ worker'[w] = [at |-> "claimed", n |-> n]
        /\ \A v \in Worker : v # w => worker'[v] = worker[v]
    BY <1>0, <1>5 DEF Claim, TypeOK, Job, Stage
  <2>4. \A v \in Worker : worker[v] # Free => worker[v].n \in Notice /\ worker[v].n # n
    BY <1>0, <2>1, WorkerFields DEF InFlight, IInv
  <2>5. OneWorker'
    BY <2>3, <2>4 DEF OneWorker, IInv
  <2>6. RowsKnow'
    BY <1>5, <2>1, <2>2 DEF Claim, RowsKnow, IInv
  <2>7. InFlight'
    BY <1>5, <2>1, <2>2, <2>3, <2>4 DEF Claim, InFlight, IInv, At
  <2> QED
    BY <1>0, <1>5, <2>2, <2>3, <2>5, <2>6, <2>7 DEF Claim, TypeOK
<1>6. CASE OptOut
  <2>1. \A n \in Notice :
          /\ outbox'[n] \in Row
          /\ outbox'[n] = outbox[n] \/ (outbox[n].status = "pending" /\ outbox'[n].status = "suppressed")
    <3>1. "suppressed" \in Status
      BY DEF Status
    <3> QED
      BY <1>0, <1>6, <3>1, RowFields DEF OptOut, TypeOK
  <2>2. outbox' \in [Notice -> Row]
    <3>1. outbox' = [n \in Notice |-> outbox'[n]]
      BY <1>6 DEF OptOut
    <3> QED
      BY <2>1, <3>1
  <2>3. RowsKnow'
    BY <1>6, <2>1 DEF OptOut, RowsKnow, IInv
  <2>4. \A w \in Worker : worker[w] # Free => worker[w].n \in Notice /\ outbox'[worker[w].n] = outbox[worker[w].n]
    BY <1>0, <2>1, WorkerFields DEF InFlight, IInv
  <2>5. InFlight'
    BY <1>6, <2>4 DEF OptOut, InFlight, IInv, At
  <2> QED
    BY <1>0, <1>6, <2>2, <2>3, <2>5 DEF OptOut, TypeOK, OneWorker, IInv
<1>7. ASSUME NEW w \in Worker, Check(w)
      PROVE  Goal
  <2>1. worker[w] # Free /\ worker[w].n \in Notice /\ mailed[worker[w].n] = 0 /\ ~ At(w, "recorded")
    BY <1>0, <1>7, WorkerFields DEF Check, At, InFlight, IInv
  <2>2. CASE Goto(w, "checked") /\ UNCHANGED outbox
    <3>1. mailed' = mailed /\ mailed = [mailed EXCEPT ![worker[w].n] = 0]
      BY <1>0, <1>7, <2>1 DEF Check, TypeOK
    <3> QED
      BY <1>0, <1>7, <2>1, <2>2, <3>1, MoveKeeps DEF Check, Stage, TypeOK
  <2>3. ASSUME NEW st \in {"suppressed", "obsolete", "failed"}, Finish(w, st)
        PROVE  Goal
    BY <1>0, <1>7, <2>1, <2>3, FinishKeeps DEF Check, Finish, TypeOK
  <2> QED
    BY <1>7, <2>2, <2>3 DEF Check
<1>8. ASSUME NEW w \in Worker, Send(w)
      PROVE  Goal
  <2>1. worker[w] # Free /\ worker[w].n \in Notice /\ mailed[worker[w].n] = 0 /\ ~ At(w, "recorded")
    BY <1>0, <1>8, WorkerFields DEF Send, At, InFlight, IInv
  <2>2. ASSUME NEW stage \in {"answered", "lost"}, Goto(w, stage), mailed' = [mailed EXCEPT ![worker[w].n] = @ + 1]
        PROVE  Goal
    <3>1. mailed' = [mailed EXCEPT ![worker[w].n] = 1]
      BY <2>1, <2>2
    <3> QED
      BY <1>0, <1>8, <2>1, <2>2, <3>1, MoveKeeps DEF Send, Stage, TypeOK
  <2>3. ASSUME NEW stage \in {"refused", "rejected", "lost"}, Goto(w, stage), UNCHANGED mailed
        PROVE  Goal
    <3>1. mailed' = [mailed EXCEPT ![worker[w].n] = 0]
      BY <1>0, <2>1, <2>3 DEF TypeOK
    <3> QED
      BY <1>0, <1>8, <2>1, <2>3, <3>1, MoveKeeps DEF Send, Stage, TypeOK
  <2> QED
    BY <1>8, <2>2, <2>3 DEF Send
<1>9. ASSUME NEW w \in Worker, Record(w)
      PROVE  Goal
  <2> DEFINE n == worker[w].n
  <2>1. worker[w] # Free /\ n \in Notice /\ mailed[n] = 1 /\ outbox[n].status \in {"sending", "uncertain"}
    BY <1>0, <1>9, WorkerFields DEF Record, At, InFlight, IInv
  <2>2. /\ worker' \in [Worker -> Job \cup {Free}]
        /\ worker'[w] # Free /\ worker'[w].at = "recorded" /\ worker'[w].n = n
        /\ \A v \in Worker : v # w => worker'[v] = worker[v]
    BY <1>0, <1>9, <2>1, Goes DEF Record, Stage
  <2>3. /\ outbox' \in [Notice -> Row]
        /\ outbox'[n].status = "accepted"
        /\ \A m \in Notice : m # n => outbox'[m] = outbox[m]
    <3>1. outbox' = [outbox EXCEPT ![n] = [outbox[n] EXCEPT !.status = "accepted", !.known = TRUE]]
      BY <1>9, <2>1 DEF Record
    <3> QED
      BY <1>0, <2>1, <3>1, TwoFields DEF TypeOK
  <2>4. OneWorker'
    BY <2>1, <2>2 DEF OneWorker, IInv
  <2>5. \A v \in Worker : worker[v] # Free /\ v # w => worker[v].n # n /\ worker[v].n \in Notice
    BY <1>0, <2>1, WorkerFields DEF OneWorker, IInv
  <2>6. RowsKnow'
    BY <1>9, <2>1, <2>3 DEF Record, RowsKnow, IInv
  <2>7. InFlight'
    BY <1>9, <2>2, <2>3, <2>5 DEF Record, InFlight, IInv, At
  <2> QED
    BY <1>0, <1>9, <2>2, <2>3, <2>4, <2>6, <2>7 DEF Record, TypeOK
<1>10. ASSUME NEW w \in Worker, ApplyUnsubscribe(w) \/ Crash(w)
       PROVE  Goal
  <2>1. worker[w] # Free
    BY <1>0, <1>10, WorkerFields DEF ApplyUnsubscribe, Crash, At
  <2> QED
    BY <1>0, <1>10, <2>1, FinishKeeps DEF ApplyUnsubscribe, Crash, TypeOK
<1>11. ASSUME NEW w \in Worker, Retry(w)
       PROVE  Goal
  <2>1. worker[w] # Free /\ worker[w].n \in Notice /\ mailed[worker[w].n] = 0
    BY <1>0, <1>11, WorkerFields DEF Retry, At, InFlight, IInv
  <2> QED
    BY <1>0, <1>11, <2>1, FinishKeeps DEF Retry, Finish, TypeOK
<1>12. ASSUME NEW w \in Worker, Reject(w)
       PROVE  Goal
  <2>1. worker[w] # Free /\ worker[w].n \in Notice /\ mailed[worker[w].n] = 0
    BY <1>0, <1>12, WorkerFields DEF Reject, At, InFlight, IInv
  <2> QED
    BY <1>0, <1>12, <2>1, FinishKeeps DEF Reject, Finish, TypeOK
<1>13. ASSUME NEW w \in Worker, Doubt(w)
       PROVE  Goal
  <2>1. worker[w] # Free
    BY <1>0, <1>13, WorkerFields DEF Doubt, At
  <2> QED
    BY <1>0, <1>13, <2>1, FinishKeeps DEF Doubt, Finish, TypeOK
<1>14. ASSUME NEW h \in Hook, (\E n \in Notice : Receive(h, n)) \/ CommitEvent(h) \/ AbortEvent(h)
       PROVE  Goal
  BY <1>1, <1>14 DEF Receive, CommitEvent, AbortEvent
<1> QED
  BY <1>1, <1>2, <1>3, <1>4, <1>5, <1>6, <1>7, <1>8, <1>9, <1>10, <1>11, <1>12, <1>13, <1>14
     DEF Next, Steps, vars, OptIn

LEMMA NextOthers ==
  ASSUME IInv, [Next]_vars
  PROVE  /\ draft' \in [Notice -> {"none", "pending", "suppressed"}] /\ enabled' \in BOOLEAN
         /\ unsub' \subseteq Notice /\ hook' \in [Hook -> Delivery \cup {Free}]
         /\ honoured' \subseteq Notice /\ off' \subseteq Worker
<1>0. TypeOK
  BY DEF IInv
<1> DEFINE Goal == /\ draft' \in [Notice -> {"none", "pending", "suppressed"}] /\ enabled' \in BOOLEAN
                   /\ unsub' \subseteq Notice /\ hook' \in [Hook -> Delivery \cup {Free}]
                   /\ honoured' \subseteq Notice /\ off' \subseteq Worker
<1>1. CASE UNCHANGED <<draft, enabled, unsub, hook, honoured, off>>
  BY <1>0, <1>1 DEF TypeOK
<1>2. ASSUME NEW n \in Notice, Draft(n) \/ CommitDraft(n) \/ Sweep(n)
      PROVE  Goal
  BY <1>0, <1>2 DEF TypeOK, Draft, CommitDraft, Sweep
<1>3. ASSUME NEW n \in Notice, NEW w \in Worker, Claim(w, n)
      PROVE  Goal
  BY <1>0, <1>3 DEF TypeOK, Claim
<1>4. CASE OptOut \/ OptIn
  BY <1>0, <1>4 DEF TypeOK, OptOut, OptIn, SetEnabled
<1>5. ASSUME NEW w \in Worker, ApplyUnsubscribe(w)
      PROVE  Goal
  <2>1. worker[w].n \in Notice
    BY <1>0, <1>5, WorkerFields DEF ApplyUnsubscribe, At
  <2> QED
    BY <1>0, <1>5, <2>1 DEF TypeOK, ApplyUnsubscribe, SetEnabled
<1>6. ASSUME NEW w \in Worker, Check(w) \/ Send(w) \/ Record(w) \/ Retry(w) \/ Reject(w) \/ Doubt(w) \/ Crash(w)
      PROVE  Goal
  BY <1>1, <1>6 DEF Check, Send, Record, Retry, Reject, Doubt, Crash
<1>7. ASSUME NEW h \in Hook, NEW n \in Notice, Receive(h, n)
      PROVE  Goal
  <2>1. outbox[n].known \in BOOLEAN
    BY <1>0 DEF TypeOK, Row
  <2>2. [at |-> "reading", n |-> n, found |-> outbox[n].known] \in Delivery
    BY <2>1 DEF Delivery
  <2> QED
    BY <1>0, <1>7, <2>2 DEF TypeOK, Receive
<1>8. ASSUME NEW h \in Hook, CommitEvent(h) \/ AbortEvent(h)
      PROVE  Goal
  <2>1. hook[h].n \in Notice
    BY <1>0, <1>8 DEF TypeOK, Delivery, CommitEvent, AbortEvent
  <2> QED
    BY <1>0, <1>8, <2>1 DEF TypeOK, CommitEvent, AbortEvent, SetEnabled
<1> QED
  BY <1>1, <1>2, <1>3, <1>4, <1>5, <1>6, <1>7, <1>8 DEF Next, Steps, vars

\* Opted-out stretches: only a claim starts one, an opt-in ends all.
LEMMA NextOff == IInv /\ [Next]_vars => OffMeansOff'
<1> SUFFICES ASSUME IInv, [Next]_vars
             PROVE  OffMeansOff'
  OBVIOUS
<1>0. TypeOK /\ (enabled => off = {}) /\ OptOutHonoured
  BY DEF IInv, OffMeansOff
<1>1. ASSUME NEW w \in Worker, worker' = worker \/ Rest(w)
      PROVE  off' \subseteq off => OptOutHonoured'
  <2>1. \A v \in Worker : worker'[v] = worker[v] \/ worker'[v] = Free
    BY <1>0, <1>1, Rests
  <2> QED
    BY <1>0, <2>1 DEF OptOutHonoured, At, Free
<1>2. CASE UNCHANGED <<worker, enabled, off>>
  BY <1>0, <1>2 DEF OffMeansOff, OptOutHonoured, At
<1>3. ASSUME NEW n \in Notice, NEW w \in Worker, Claim(w, n)
      PROVE  OffMeansOff'
  <2>1. worker'[w].at = "claimed" /\ \A v \in Worker : v # w => worker'[v] = worker[v]
    BY <1>0, <1>3 DEF Claim, TypeOK
  <2>2. enabled' = enabled /\ (enabled => off' = {}) /\ off' \subseteq off \cup {w}
    BY <1>0, <1>3 DEF Claim
  <2> QED
    BY <1>0, <2>1, <2>2 DEF OffMeansOff, OptOutHonoured, At
<1>4. CASE OptOut \/ OptIn
  BY <1>0, <1>4 DEF OptOut, OptIn, SetEnabled, OffMeansOff, OptOutHonoured, At
<1>5. ASSUME NEW w \in Worker, NEW stage \in Stage, worker[w] # Free, Goto(w, stage), UNCHANGED <<enabled, off>>,
             stage = "checked" => enabled \/ worker[w].n \in Exempt
      PROVE  OffMeansOff'
  <2>1. /\ worker'[w].at = stage /\ worker'[w].n = worker[w].n
        /\ \A v \in Worker : v # w => worker'[v] = worker[v]
    BY <1>0, <1>5, Goes
  <2> QED
    BY <1>0, <1>5, <2>1 DEF OffMeansOff, OptOutHonoured, At
<1>6. ASSUME NEW w \in Worker, Rest(w), off' \subseteq off, enabled' => off' = {}
      PROVE  OffMeansOff'
  BY <1>1, <1>6 DEF OffMeansOff
<1>7. ASSUME NEW w \in Worker, Check(w) \/ Send(w) \/ Record(w)
      PROVE  OffMeansOff'
  <2>1. worker[w] # Free
    BY <1>0, <1>7, WorkerFields DEF Check, Send, Record, At
  <2> QED
    BY <1>0, <1>5, <1>6, <1>7, <2>1 DEF Check, Send, Record, Finish, Stage
<1>8. ASSUME NEW w \in Worker, ApplyUnsubscribe(w) \/ Retry(w) \/ Reject(w) \/ Doubt(w) \/ Crash(w)
      PROVE  OffMeansOff'
  BY <1>0, <1>6, <1>8 DEF ApplyUnsubscribe, Retry, Reject, Doubt, Crash, Finish, SetEnabled
<1>9. ASSUME NEW h \in Hook, (\E n \in Notice : Receive(h, n)) \/ CommitEvent(h) \/ AbortEvent(h)
      PROVE  OffMeansOff'
  BY <1>0, <1>9 DEF Receive, CommitEvent, AbortEvent, SetEnabled, OffMeansOff, OptOutHonoured, At
<1>10. ASSUME NEW n \in Notice, Draft(n) \/ CommitDraft(n) \/ Sweep(n)
       PROVE  OffMeansOff'
  BY <1>2, <1>10 DEF Draft, CommitDraft, Sweep
<1> QED
  BY <1>2, <1>3, <1>4, <1>7, <1>8, <1>9, <1>10 DEF Next, Steps, vars

LEMMA NextHolds == IInv /\ [Next]_vars => IInv'
BY NextRows, NextOthers, NextOff DEF IInv, TypeOK

LEMMA InvHolds == Spec => []IInv
BY InitHolds, NextHolds, PTL DEF Spec

-----------------------------------------------------------------------------
(* Theorems.                                                               *)

\* Rows, workers and callbacks keep their types; attempts stay within
\* maxAttempts.
THEOREM TypeCorrect == Spec => []TypeOK
<1>1. IInv => TypeOK
  BY DEF IInv
<1> QED
  BY <1>1, InvHolds, PTL

\* The provider accepts no notice twice, for any number of workers.
THEOREM MailedOnce == Spec => []NoSecondMail
<1>1. IInv => NoSecondMail
  <2> SUFFICES ASSUME IInv, NEW n \in Notice
               PROVE  mailed[n] <= 1
    BY DEF NoSecondMail
  <2>1. mailed[n] = 0 \/ mailed[n] = 1
    BY DEF IInv, RowsKnow
  <2> QED
    BY <2>1, SMT
<1> QED
  BY <1>1, InvHolds, PTL

\* What the outbox records as delivered or undelivered is so.
THEOREM RecordsTrue == Spec => []RecordIsTrue
<1>1. IInv => RecordIsTrue
  BY DEF IInv, RowsKnow, RecordIsTrue
<1> QED
  BY <1>1, InvHolds, PTL

\* A member opted out since the claim is not written to.
THEOREM OptOutIsHonoured == Spec => []OptOutHonoured
<1>1. IInv => OptOutHonoured
  BY DEF IInv, OffMeansOff
<1> QED
  BY <1>1, InvHolds, PTL
=============================================================================
