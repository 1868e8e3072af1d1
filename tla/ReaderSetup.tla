----------------------------- MODULE ReaderSetup -----------------------------
(***************************************************************************)
(* Guided set-up of a reader on one USB port: the jobs in the database     *)
(* (backend/src/readerSetup.ts), and the agent on the Raspberry Pi that    *)
(* carries them out (deploy/reader/setup_agent.py, setup_usb.py).          *)
(*                                                                         *)
(* The agent's main loop reports what its worker has staged and handles    *)
(* the jobs it gets back; the worker takes tasks for the port one by one,  *)
(* backs the chip's settings up, pairs it with a new key and installs a    *)
(* profile for the listener.  A job is cancelled or expires at any time,   *)
(* a report or its answer is lost or comes late, and the agent may die.    *)
(***************************************************************************)
EXTENDS Naturals, Sequences

CONSTANTS
  Job,          \* the jobs that staff may start for the port
  MaxRevision,  \* bound on edits of a reader by staff
  MaxCrashes,   \* bound on deaths of the agent
  Overtaking,   \* whether staff retry before the agent is done with the last try
  None

VARIABLES
  job,      \* the rows app_reader_setup_job, each with its app_access_reader
  beat,     \* whether the job's reader was heard of in the last 15 seconds
  chip,     \* the settings on the chip: the original ones, or paired for a job
  profile,  \* the job of the profile file, or None
  backup,   \* the settings a job found and saved
  update,   \* what is staged to be reported about a job
  worker,   \* the agent's record of a job it has taken on
  queue,    \* the tasks of the port's executor, the first of them running
  report,   \* the report on its way to the server
  reply,    \* the jobs on their way back
  crashes

vars == <<job, beat, chip, profile, backup, update, worker, queue, report, reply, crashes>>
Agent == <<update, worker, queue, report, reply, crashes>>
Disk == <<profile, backup>>

Over == {"cancelled", "expired", "failed"}
Terminal == Over \cup {"complete"}
Live(j) == job[j].status \in {"queued", "working"}

Update == {None, "working", "complete", "failed", "recovery"}
NoRow == [status |-> None, told |-> FALSE, enabled |-> FALSE, revision |-> 0]
Idle == [thread |-> None, cancelled |-> FALSE, accepted |-> FALSE]
Task == [do : {"provision", "resume", "recover"}, job : Job, at : {"start", "backup", "pair", "save", "verify", "beat", "finish", "undo", "rollback"},
         previous : Job \cup {None}, changed : BOOLEAN]

TypeOK ==
  /\ job \in [Job -> [status : {None, "queued", "working"} \cup Terminal, told : BOOLEAN,
                      enabled : BOOLEAN, revision : 0..MaxRevision]]
  /\ beat \in [Job -> BOOLEAN]
  /\ chip \in Job \cup {"original"}
  /\ profile \in Job \cup {None}
  /\ backup \in [Job -> Job \cup {"original", None}]
  /\ update \in [Job -> Update]
  /\ worker \in [Job -> [thread : {None, "alive", "done"}, cancelled : BOOLEAN, accepted : BOOLEAN]]
  /\ queue \in Seq(Task)
  /\ report = None \/ report \in [said : [Job -> Update], awaited : BOOLEAN]
  /\ reply = None \/ reply \in [Job -> [status : {None, "queued", "working"} \cup Terminal, told : BOOLEAN]]
  /\ crashes \in 0..MaxCrashes

-----------------------------------------------------------------------------
(* The server: staff, the reader's heartbeats and the gateway's report.    *)

\* The agent has nothing left to do for the job.
Settled(j) ==
  /\ worker[j].thread # "alive" /\ profile # j
  /\ \A i \in DOMAIN queue : queue[i].job # j
  /\ reply # None => reply[j].status \in Over \cup {None}

\* A slip: a completed set-up does not stand in the way of another.
NoneLive == \A k \in Job : ~ Live(k)

PortFree == \A k \in Job : job[k].status \in Over \cup {None}

Request(j) ==
  /\ job[j] = NoRow
  /\ PortFree
  /\ Overtaking \/ \A k \in Job : job[k].status \in Over => Settled(k)
  /\ job' = [job EXCEPT ![j] = [NoRow EXCEPT !.status = "queued", !.revision = 1]]
  /\ UNCHANGED <<beat, chip, Disk, Agent>>

Cancel(j) ==
  /\ Live(j)
  /\ job' = [job EXCEPT ![j].status = "cancelled", ![j].enabled = FALSE]
  /\ UNCHANGED <<beat, chip, Disk, Agent>>

\* Twenty minutes after its start a live job has expired: whoever lists the
\* set-ups next, or serves the next report, marks it.
Lapsed(j, late) == IF Live(j) /\ late THEN [job[j] EXCEPT !.status = "expired"] ELSE job[j]

ListSetups ==
  /\ \E j \in Job : Live(j)
  /\ job' = [j \in Job |-> Lapsed(j, TRUE)]
  /\ UNCHANGED <<beat, chip, Disk, Agent>>

\* Staff rename, disable or, once its set-up is complete, enable a reader.  What
\* they do with the reader of a job that is over decides nothing any more.
EditReader(j, on) ==
  /\ job[j].status \notin Over
  /\ job[j].revision \in 1..(MaxRevision - 1)
  /\ on => job[j].status = "complete"
  /\ job' = [job EXCEPT ![j].enabled = on, ![j].revision = @ + 1]
  /\ UNCHANGED <<beat, chip, Disk, Agent>>

\* The listener speaks for a reader that is paired as its profile says.  Nobody
\* asks about the reader of a job that is over.
Heartbeat(j) ==
  /\ Live(j) /\ profile = j /\ chip = j
  /\ beat' = [beat EXCEPT ![j] = TRUE]
  /\ UNCHANGED <<job, chip, Disk, Agent>>

Silence(j) ==
  /\ Live(j) /\ beat[j]
  /\ beat' = [beat EXCEPT ![j] = FALSE]
  /\ UNCHANGED <<job, chip, Disk, Agent>>

\* "complete" without a recent heartbeat refuses the report as a whole.
Refused(late) == \E j \in Job : report.said[j] = "complete" /\ Lapsed(j, late).status \in {"queued", "working"} /\ ~ beat[j]

\* What a report makes of a job: staff's edit of the reader beats a completion.
Reported(j, late) ==
  LET row == Lapsed(j, late)
      said == report.said[j]
  IN IF said = None THEN row
     ELSE IF row.status \in Terminal
     THEN IF row.status \in Over /\ said = "recovery" THEN [row EXCEPT !.told = TRUE] ELSE row
     ELSE IF said = "complete"
     THEN IF row.enabled \/ row.revision # 1 THEN [row EXCEPT !.status = "failed"]
          ELSE [row EXCEPT !.status = "complete", !.enabled = TRUE, !.revision = @ + 1]
     ELSE IF said = "recovery" THEN [row EXCEPT !.status = "failed", !.told = TRUE]
     ELSE [row EXCEPT !.status = said]

\* One transaction.  Nobody reads the answer to a report that was given up; of
\* two reports the one with the older stamp is refused once the newer is known.
Serve(late) ==
  /\ report # None
  /\ report' = None
  /\ IF Refused(late)
     THEN UNCHANGED <<job, reply>>
     ELSE /\ job' = [j \in Job |-> Reported(j, late)]
          /\ reply' = IF report.awaited THEN [j \in Job |-> [status |-> job'[j].status, told |-> job'[j].told]] ELSE None
  /\ UNCHANGED <<beat, chip, Disk, update, worker, queue, crashes>>

-----------------------------------------------------------------------------
(* The agent's loop.                                                       *)

Report ==
  /\ report # None => ~ report.awaited
  /\ reply = None
  /\ report' = [said |-> update, awaited |-> TRUE]
  /\ UNCHANGED <<job, beat, chip, Disk, update, worker, queue, reply, crashes>>

\* The agent stops waiting for a report, which is lost or still arrives, or the
\* answer is lost.
Lose ==
  /\ \/ report # None /\ report.awaited /\ report' = [report EXCEPT !.awaited = FALSE] /\ UNCHANGED reply
     \/ reply # None /\ reply' = None /\ UNCHANGED report
  /\ UNCHANGED <<job, beat, chip, Disk, update, worker, queue, crashes>>

New(do, j) == [do |-> do, job |-> j, at |-> IF do = "provision" THEN "start" ELSE "verify", previous |-> None, changed |-> FALSE]

Ended == {j \in Job : reply[j].status \in Over}
Completed == {j \in Job : reply[j].status = "complete"}
Wanted == {j \in Job : reply[j].status \in {"queued", "working"} /\ worker[j].thread = None}

\* The profile of a set-up that is over goes, and a recovery is queued, unless
\* the worker is still busy with it and will undo it on its own.
Abandoned == {j \in Ended : profile = j /\ worker[j].thread # "alive"}

\* What is over needs no more reports, except that recovery is needed.
Acknowledged(j) == j \in Completed \/ (j \in Ended /\ (update[j] # "recovery" \/ reply[j].told))

\* "found" are the jobs whose device is plugged in.
Handle(found) ==
  /\ reply # None
  /\ LET kept == IF Abandoned = {} THEN profile ELSE None
         started == {j \in Wanted : kept = j \/ j \in found}
         Tasks(S, do(_)) == IF S = {} THEN <<>> ELSE <<New(do(CHOOSE j \in S : TRUE), CHOOSE j \in S : TRUE)>>
     IN /\ profile' = kept
        /\ queue' = queue \o Tasks(Abandoned, LAMBDA j : "recover")
                          \o Tasks(started, LAMBDA j : IF kept = j THEN "resume" ELSE "provision")
        /\ update' = [j \in Job |-> IF Acknowledged(j) THEN None ELSE IF j \in Wanted \ started THEN "failed" ELSE update[j]]
        /\ worker' = [j \in Job |->
             CASE j \in started -> [Idle EXCEPT !.thread = "alive"]
               [] j \in Abandoned /\ worker[j] = Idle -> [Idle EXCEPT !.thread = "alive"]
               [] j \in Completed /\ worker[j].thread # None -> [worker[j] EXCEPT !.accepted = TRUE]
               [] j \in Ended /\ worker[j].thread # None /\ ~ worker[j].accepted -> [worker[j] EXCEPT !.cancelled = TRUE]
               [] OTHER -> worker[j]]
  /\ reply' = None
  /\ UNCHANGED <<job, beat, chip, backup, report, crashes>>

-----------------------------------------------------------------------------
(* The worker: the steps of the first task in the port's queue.            *)

task == Head(queue)
On(kinds, at) == queue # <<>> /\ task.do \in kinds /\ task.at = at
Goes(at) == queue' = <<[task EXCEPT !.at = at]>> \o Tail(queue)
Cancelled == worker[task.job].cancelled
Staged(status) == update' = [update EXCEPT ![task.job] = status]

TaskEnds ==
  /\ queue' = Tail(queue)
  /\ worker' = [worker EXCEPT ![task.job].thread = "done"]

Start ==
  /\ On({"provision"}, "start")
  /\ queue' = <<[task EXCEPT !.at = "backup", !.previous = profile]>> \o Tail(queue)
  /\ Staged("working")
  /\ UNCHANGED <<job, beat, chip, Disk, worker, report, reply, crashes>>

\* A copy that an earlier attempt at the job has saved is kept.
BackUp ==
  /\ On({"provision"}, "backup") /\ ~ Cancelled
  /\ backup' = [backup EXCEPT ![task.job] = IF @ = None THEN chip ELSE @]
  /\ Goes("pair")
  /\ Staged("working")
  /\ UNCHANGED <<job, beat, chip, profile, worker, report, reply, crashes>>

\* A slip: the change is noted once the chip has confirmed it.
PairNotedLate ==
  /\ On({"provision"}, "pair") /\ ~ Cancelled
  /\ \E answered \in BOOLEAN :
       /\ queue' = <<[task EXCEPT !.at = IF answered THEN "save" ELSE "undo", !.changed = answered]>> \o Tail(queue)
       /\ chip' \in IF answered THEN {task.job} ELSE {task.job, chip}
  /\ Staged("working")
  /\ UNCHANGED <<job, beat, Disk, worker, report, reply, crashes>>

\* The chip may take the key and its answer be lost.
Pair ==
  /\ On({"provision"}, "pair") /\ ~ Cancelled
  /\ \E answered \in BOOLEAN :
       /\ queue' = <<[task EXCEPT !.at = IF answered THEN "save" ELSE "undo", !.changed = TRUE]>> \o Tail(queue)
       /\ chip' \in IF answered THEN {task.job} ELSE {task.job, chip}
  /\ Staged("working")
  /\ UNCHANGED <<job, beat, Disk, worker, report, reply, crashes>>

Save ==
  /\ On({"provision"}, "save")
  /\ profile' = task.job
  /\ Goes("verify")
  /\ UNCHANGED <<job, beat, chip, backup, update, worker, report, reply, crashes>>

\* The listener has heard the chip under the profile's key.
Verify ==
  /\ On({"provision", "resume"}, "verify") /\ ~ Cancelled
  /\ chip = task.job /\ profile = task.job
  /\ Goes("beat")
  /\ Staged("working")
  /\ UNCHANGED <<job, beat, chip, Disk, worker, report, reply, crashes>>

\* The agent speaks to the server as the new reader, and is done.
Beat ==
  /\ On({"provision", "resume"}, "beat")
  /\ beat' = [beat EXCEPT ![task.job] = TRUE]
  /\ Staged("complete")
  /\ TaskEnds
  /\ UNCHANGED <<job, chip, Disk, report, reply, crashes>>

\* The server does not answer, and the agent tries again until its time is up.
BeatFails ==
  /\ On({"provision", "resume"}, "beat")
  /\ Goes("verify")
  /\ UNCHANGED <<job, beat, chip, Disk, update, worker, report, reply, crashes>>

\* A cancellation, a device that does not answer, or a wait that runs out.
Fail ==
  /\ queue # <<>> /\ task.do = "provision" /\ task.at \in {"backup", "pair", "save", "verify"}
  /\ Goes("undo")
  /\ UNCHANGED <<job, beat, chip, Disk, update, worker, report, reply, crashes>>

ResumeFails ==
  /\ On({"resume"}, "verify")
  /\ Staged("failed")
  /\ TaskEnds
  /\ UNCHANGED <<job, beat, chip, Disk, report, reply, crashes>>

Undo ==
  /\ On({"provision"}, "undo")
  /\ profile' = task.previous
  /\ Goes("rollback")
  /\ UNCHANGED <<job, beat, chip, backup, update, worker, report, reply, crashes>>

RollBack ==
  /\ On({"provision"}, "rollback")
  /\ \/ chip' = (IF task.changed THEN backup[task.job] ELSE chip) /\ Staged("failed")
     \/ task.changed /\ UNCHANGED chip /\ Staged("recovery")
  /\ TaskEnds
  /\ UNCHANGED <<job, beat, Disk, report, reply, crashes>>

Recover ==
  /\ On({"recover"}, "verify")
  /\ \/ backup[task.job] # None /\ chip' = backup[task.job] /\ UNCHANGED update
     \/ UNCHANGED chip /\ Staged("recovery")
  /\ TaskEnds
  /\ UNCHANGED <<job, beat, Disk, report, reply, crashes>>

\* The agent dies.  What it has sent still arrives; the files stay.
Crash ==
  /\ crashes < MaxCrashes
  /\ crashes' = crashes + 1
  /\ update' = [j \in Job |-> None]
  /\ worker' = [j \in Job |-> Idle]
  /\ queue' = <<>>
  /\ report' = (IF report = None THEN None ELSE [report EXCEPT !.awaited = FALSE])
  /\ reply' = None
  /\ UNCHANGED <<job, beat, chip, Disk>>

Init ==
  /\ job = [j \in Job |-> NoRow]
  /\ beat = [j \in Job |-> FALSE]
  /\ chip = "original"
  /\ profile = None
  /\ backup = [j \in Job |-> None]
  /\ update = [j \in Job |-> None]
  /\ worker = [j \in Job |-> Idle]
  /\ queue = <<>>
  /\ report = None
  /\ reply = None
  /\ crashes = 0

Next ==
  \/ \E j \in Job : Request(j) \/ Cancel(j) \/ Heartbeat(j) \/ Silence(j)
  \/ \E j \in Job, on \in BOOLEAN : EditReader(j, on)
  \/ ListSetups \/ (\E late \in BOOLEAN : Serve(late))
  \/ Report \/ Lose \/ (\E found \in {{}, Job} : Handle(found))
  \/ Start \/ BackUp \/ Pair \/ Save \/ Verify \/ Beat \/ BeatFails \/ Fail \/ ResumeFails
  \/ Undo \/ RollBack \/ Recover \/ Crash

Spec == Init /\ [][Next]_vars

-----------------------------------------------------------------------------
\* A reader is enabled only by a set-up that was completed and not called off.
EnabledIsConfirmed == \A j \in Job : job[j].enabled => job[j].status = "complete"

\* What staff see as complete is really paired: the chip and the listener's
\* profile carry the key of that set-up, whatever was cancelled, lost, retried or
\* resumed on the way.
CompleteIsPaired == \A j \in Job : job[j].status = "complete" => chip = j /\ profile = j

Quiet == queue = <<>> /\ report = None /\ reply = None /\ \A j \in Job : update[j] = None /\ profile # j

\* Once a set-up is over and the agent, which did not die, has nothing left to
\* do or say about it, the chip has its own settings back, or staff are told
\* that it needs recovery.
RestoredOrTold ==
  Quiet /\ crashes = 0 =>
    \A j \in Job : job[j].status \in Over => chip # j \/ job[j].told
=============================================================================
