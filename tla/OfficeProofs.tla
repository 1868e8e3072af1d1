----------------------------- MODULE OfficeProofs -----------------------------
(***************************************************************************)
(* That the office's records stand and its releases leave the site served, *)
(* for any number of people, requests, versions, dates and revisions: the  *)
(* inductive invariants of the suite's parts, and what follows of the      *)
(* suite.                                                                  *)
(*                                                                         *)
(* A transaction that was let in by a lock is the only one that writes, so *)
(* what it read stands until it ends; one that waits knows no more than    *)
(* what it was sent.  A release acts on what it wrote down before.         *)
(***************************************************************************)
EXTENDS MCOffice, FiniteSetTheorems, TLAPS

Bounds ==
  /\ First \in Revision
  /\ MaxMoves \in Nat /\ MaxCrashes \in Nat /\ MaxEdits \in Nat
  /\ None \notin {"pending", "committed", "rolled-back", "recovered"}

IsPending == journal.phase = "pending"

\* While the journal is pending, what it would go back to serves, apart from
\* what is tried.
PendingJournal == IsPending => Serves(journal.old) /\ journal.old.port # journal.new.port

Recovering ==
  /\ run.at \in {"reconfigure", "stop"} => IsPending /\ route = journal.old
  /\ run.at = "recovered" => journal.phase = "recovered" /\ route = journal.old

\* A tick decides when nothing is pending, about a slot that is not routed to.
Deciding ==
  /\ run.at \in {"decide", "prepare", "standby", "pending"} => ~ IsPending
  /\ run.at \in {"prepare", "standby", "pending"} => run.old = route /\ run.new.port # route.port
  /\ run.at = "clean" => ~ IsPending /\ run.new.port # route.port

Activating ==
  /\ run.at \in {"candidate", "gates", "switch", "verify", "schedule", "commit"} =>
       IsPending /\ journal.old = run.old /\ journal.new = run.new
  /\ run.at \in {"pending", "candidate", "gates", "switch"} => Serves(run.new)

\* The way back serves even after the commit, until the tick is over.
Undoing ==
  /\ run.at \in {"deployed", "undo", "undo config", "undone"} =>
       /\ Serves(journal.old) /\ journal.old.port # journal.new.port
       /\ journal.new = run.new /\ journal.phase \in {"pending", "committed"}
  /\ run.at = "deployed" => journal.phase = "committed"
  /\ run.at \in {"undo config", "undone"} => route = journal.old

Knows == PendingJournal /\ Recovering /\ Deciding /\ Activating /\ Undoing

Safe == TypeOK /\ RouteServes /\ Knows

\* What a tick, which writes the status, adds: nothing is under way unless the
\* status agrees with the route, so that what is deployed next is new.
Told ==
  /\ IsPending => status.deployed = journal.old.release
  /\ journal.phase \in {None, "rolled-back", "recovered"} => status.deployed = route.release
  /\ run.at \in {"decide", "prepare", "standby", "pending"} => status.deployed = route.release
  /\ run.at \in {"prepare", "standby", "pending"} => run.new.release # route.release
  /\ run.at \in {"deployed", "undo", "undo config", "undone"} => status.deployed = journal.old.release

-----------------------------------------------------------------------------
(* Records.                                                                *)

Slot == [release : Revision \cup {None}, up : BOOLEAN]
Run == [at : Place, old : Route, new : Route, original : Config]

LEMMA GoesFields ==
  ASSUME TypeOK, NEW place \in Place, Goes(place)
  PROVE  /\ run' \in Run
         /\ run'.at = place /\ run'.old = run.old /\ run'.new = run.new /\ run'.original = run.original
  BY DEF TypeOK, Goes, Run

LEMMA IdleIsRun ==
  ASSUME Bounds
  PROVE  Idle \in Run /\ Idle.at = "idle" /\ Idle.old.port = "legacy" /\ Idle.old.release = First
  BY DEF Bounds, Idle, Run, Place, Route, Port, Config

LEMMA StopFields ==
  ASSUME TypeOK, NEW p \in Port
  PROVE  /\ [slot EXCEPT ![p].up = FALSE] \in [Port -> Slot]
         /\ \A q \in Port : q # p => [slot EXCEPT ![p].up = FALSE][q] = slot[q]
  <1>1. slot \in [Port -> Slot]
    BY DEF TypeOK, Slot
  <1>2. [slot[p] EXCEPT !.up = FALSE] \in Slot
    BY <1>1 DEF Slot
  <1>3. [slot EXCEPT ![p].up = FALSE] = [slot EXCEPT ![p] = [slot[p] EXCEPT !.up = FALSE]]
    OBVIOUS
  <1> QED
    BY <1>1, <1>2, <1>3
-----------------------------------------------------------------------------
(* One lemma per operation.                                                *)

LEMMA TickKeeps ==
  ASSUME Bounds, Safe, Tick
  PROVE  Safe' /\ (Told => Told')
  <1> USE DEF Safe, Tick, At, World
  <1>1. /\ run' \in Run /\ run'.at = "recover"
        /\ run'.old = run.old /\ run'.new = run.new /\ run'.original = run.original
    BY GoesFields DEF Place
  <1>2. TypeOK'
    BY <1>1 DEF TypeOK, Run, Route, Config, Phase, Candidate
  <1>3. RouteServes' /\ Knows'
    BY <1>1 DEF TypeOK, Bounds, RouteServes, Serves, Knows, PendingJournal, Recovering, Deciding, Activating,
       Undoing, IsPending
  <1>4. Told => Told'
    BY <1>1 DEF Told, TypeOK, Bounds, Knows, PendingJournal, Recovering, Deciding, Activating, Undoing, IsPending
  <1> QED
    BY <1>2, <1>3, <1>4

LEMMA RecoverNothingKeeps ==
  ASSUME Bounds, Safe, RecoverNothing
  PROVE  Safe' /\ (Told => Told')
  <1> USE DEF Safe, RecoverNothing, At, World
  <1>1. /\ run' \in Run /\ run'.at = "decide"
        /\ run'.old = run.old /\ run'.new = run.new /\ run'.original = run.original
    BY GoesFields DEF Place
  <1>2. TypeOK'
    BY <1>1 DEF TypeOK, Run, Route, Config, Phase, Candidate
  <1>3. RouteServes' /\ Knows'
    BY <1>1 DEF TypeOK, Bounds, RouteServes, Serves, Knows, PendingJournal, Recovering, Deciding, Activating,
       Undoing, IsPending
  <1>4. Told => Told'
    BY <1>1 DEF Told, TypeOK, Bounds, Knows, PendingJournal, Recovering, Deciding, Activating, Undoing, IsPending
  <1> QED
    BY <1>2, <1>3, <1>4

LEMMA RecoverPendingKeeps ==
  ASSUME Bounds, Safe, RecoverPending
  PROVE  Safe' /\ (Told => Told')
  <1> USE DEF Safe, RecoverPending, At, World
  <1>1. /\ run' \in Run /\ run'.at = "reconfigure"
        /\ run'.old = run.old /\ run'.new = run.new /\ run'.original = run.original
    BY GoesFields DEF Place
  <1>2. TypeOK'
    BY <1>1 DEF TypeOK, Run, Route, Config, Phase, Candidate
  <1>3. RouteServes' /\ Knows'
    BY <1>1 DEF TypeOK, Bounds, RouteServes, Serves, Knows, PendingJournal, Recovering, Deciding, Activating,
       Undoing, IsPending
  <1>4. Told => Told'
    BY <1>1 DEF Told, TypeOK, Bounds, Knows, PendingJournal, Recovering, Deciding, Activating, Undoing, IsPending
  <1> QED
    BY <1>2, <1>3, <1>4

LEMMA RecoverKeeps ==
  ASSUME Bounds, Safe, Recover
  PROVE  Safe' /\ (Told => Told')
  <1> USE DEF Safe, Recover, At, World
  <1>1. /\ run' \in Run /\ run'.at = "stop"
        /\ run'.old = run.old /\ run'.new = run.new /\ run'.original = run.original
    BY GoesFields DEF Place
  <1>2. TypeOK'
    BY <1>1 DEF TypeOK, Run, Route, Config, Phase, Candidate
  <1>3. RouteServes' /\ Knows'
    BY <1>1 DEF TypeOK, Bounds, RouteServes, Serves, Knows, PendingJournal, Recovering, Deciding, Activating,
       Undoing, IsPending
  <1>4. Told => Told'
    BY <1>1 DEF Told, TypeOK, Bounds, Knows, PendingJournal, Recovering, Deciding, Activating, Undoing, IsPending
  <1> QED
    BY <1>2, <1>3, <1>4

LEMMA RecoverStatusKeeps ==
  ASSUME Bounds, Safe, RecoverStatus
  PROVE  Safe' /\ (Told => Told')
  <1> USE DEF Safe, RecoverStatus, At, World
  <1>1. /\ run' \in Run /\ run'.at = "decide"
        /\ run'.old = run.old /\ run'.new = run.new /\ run'.original = run.original
    BY GoesFields DEF Place
  <1>2. TypeOK'
    BY <1>1 DEF TypeOK, Run, Route, Config, Phase, Candidate
  <1>3. RouteServes' /\ Knows'
    BY <1>1 DEF TypeOK, Bounds, RouteServes, Serves, Knows, PendingJournal, Recovering, Deciding, Activating,
       Undoing, IsPending
  <1>4. Told => Told'
    BY <1>1 DEF Told, TypeOK, Bounds, Knows, PendingJournal, Recovering, Deciding, Activating, Undoing, IsPending
  <1> QED
    BY <1>2, <1>3, <1>4

LEMMA PendingKeeps ==
  ASSUME Bounds, Safe, Pending
  PROVE  Safe' /\ (Told => Told')
  <1> USE DEF Safe, Pending, At, World
  <1>1. /\ run' \in Run /\ run'.at = "candidate"
        /\ run'.old = run.old /\ run'.new = run.new /\ run'.original = run.original
    BY GoesFields DEF Place
  <1>2. TypeOK'
    BY <1>1 DEF TypeOK, Run, Route, Config, Phase, Candidate
  <1>3. RouteServes' /\ Knows'
    BY <1>1 DEF TypeOK, Bounds, RouteServes, Serves, Knows, PendingJournal, Recovering, Deciding, Activating,
       Undoing, IsPending
  <1>4. Told => Told'
    BY <1>1 DEF Told, TypeOK, Bounds, Knows, PendingJournal, Recovering, Deciding, Activating, Undoing, IsPending
  <1> QED
    BY <1>2, <1>3, <1>4

LEMMA ConfigureKeeps ==
  ASSUME Bounds, Safe, Configure
  PROVE  Safe' /\ (Told => Told')
  <1> USE DEF Safe, Configure, At, World
  <1>1. /\ run' \in Run /\ run'.at = "gates"
        /\ run'.old = run.old /\ run'.new = run.new /\ run'.original = run.original
    BY GoesFields DEF Place
  <1>2. TypeOK'
    BY <1>1 DEF TypeOK, Run, Route, Config, Phase, Candidate
  <1>3. RouteServes' /\ Knows'
    BY <1>1 DEF TypeOK, Bounds, RouteServes, Serves, Knows, PendingJournal, Recovering, Deciding, Activating,
       Undoing, IsPending
  <1>4. Told => Told'
    BY <1>1 DEF Told, TypeOK, Bounds, Knows, PendingJournal, Recovering, Deciding, Activating, Undoing, IsPending
  <1> QED
    BY <1>2, <1>3, <1>4

LEMMA GatesKeeps ==
  ASSUME Bounds, Safe, Gates
  PROVE  Safe' /\ (Told => Told')
  <1> USE DEF Safe, Gates, At, World
  <1>1. /\ run' \in Run /\ run'.at = "switch"
        /\ run'.old = run.old /\ run'.new = run.new /\ run'.original = run.original
    BY GoesFields DEF Place
  <1>2. TypeOK'
    BY <1>1 DEF TypeOK, Run, Route, Config, Phase, Candidate
  <1>3. RouteServes' /\ Knows'
    BY <1>1 DEF TypeOK, Bounds, RouteServes, Serves, Knows, PendingJournal, Recovering, Deciding, Activating,
       Undoing, IsPending
  <1>4. Told => Told'
    BY <1>1 DEF Told, TypeOK, Bounds, Knows, PendingJournal, Recovering, Deciding, Activating, Undoing, IsPending
  <1> QED
    BY <1>2, <1>3, <1>4

LEMMA SwitchKeeps ==
  ASSUME Bounds, Safe, Switch
  PROVE  Safe' /\ (Told => Told')
  <1> USE DEF Safe, Switch, At, World
  <1>1. /\ run' \in Run /\ run'.at = "verify"
        /\ run'.old = run.old /\ run'.new = run.new /\ run'.original = run.original
    BY GoesFields DEF Place
  <1>2. TypeOK'
    BY <1>1 DEF TypeOK, Run, Route, Config, Phase, Candidate
  <1>3. RouteServes' /\ Knows'
    BY <1>1 DEF TypeOK, Bounds, RouteServes, Serves, Knows, PendingJournal, Recovering, Deciding, Activating,
       Undoing, IsPending
  <1>4. Told => Told'
    BY <1>1 DEF Told, TypeOK, Bounds, Knows, PendingJournal, Recovering, Deciding, Activating, Undoing, IsPending
  <1> QED
    BY <1>2, <1>3, <1>4

LEMMA VerifyKeeps ==
  ASSUME Bounds, Safe, Verify
  PROVE  Safe' /\ (Told => Told')
  <1> USE DEF Safe, Verify, At, World
  <1>1. /\ run' \in Run /\ run'.at = "schedule"
        /\ run'.old = run.old /\ run'.new = run.new /\ run'.original = run.original
    BY GoesFields DEF Place
  <1>2. TypeOK'
    BY <1>1 DEF TypeOK, Run, Route, Config, Phase, Candidate
  <1>3. RouteServes' /\ Knows'
    BY <1>1 DEF TypeOK, Bounds, RouteServes, Serves, Knows, PendingJournal, Recovering, Deciding, Activating,
       Undoing, IsPending
  <1>4. Told => Told'
    BY <1>1 DEF Told, TypeOK, Bounds, Knows, PendingJournal, Recovering, Deciding, Activating, Undoing, IsPending
  <1> QED
    BY <1>2, <1>3, <1>4

LEMMA ScheduleKeeps ==
  ASSUME Bounds, Safe, Schedule
  PROVE  Safe' /\ (Told => Told')
  <1> USE DEF Safe, Schedule, At, World
  <1>1. /\ run' \in Run /\ run'.at = "commit"
        /\ run'.old = run.old /\ run'.new = run.new /\ run'.original = run.original
    BY GoesFields DEF Place
  <1>2. TypeOK'
    BY <1>1 DEF TypeOK, Run, Route, Config, Phase, Candidate
  <1>3. RouteServes' /\ Knows'
    BY <1>1 DEF TypeOK, Bounds, RouteServes, Serves, Knows, PendingJournal, Recovering, Deciding, Activating,
       Undoing, IsPending
  <1>4. Told => Told'
    BY <1>1 DEF Told, TypeOK, Bounds, Knows, PendingJournal, Recovering, Deciding, Activating, Undoing, IsPending
  <1> QED
    BY <1>2, <1>3, <1>4

LEMMA CommitKeeps ==
  ASSUME Bounds, Safe, Commit
  PROVE  Safe' /\ (Told => Told')
  <1> USE DEF Safe, Commit, At, World
  <1>1. /\ run' \in Run /\ run'.at = "deployed"
        /\ run'.old = run.old /\ run'.new = run.new /\ run'.original = run.original
    BY GoesFields DEF Place
  <1>2. TypeOK'
    BY <1>1 DEF TypeOK, Run, Route, Config, Phase, Candidate
  <1>3. RouteServes' /\ Knows'
    BY <1>1 DEF TypeOK, Bounds, RouteServes, Serves, Knows, PendingJournal, Recovering, Deciding, Activating,
       Undoing, IsPending
  <1>4. Told => Told'
    BY <1>1 DEF Told, TypeOK, Bounds, Knows, PendingJournal, Recovering, Deciding, Activating, Undoing, IsPending
  <1> QED
    BY <1>2, <1>3, <1>4

LEMMA UndoKeeps ==
  ASSUME Bounds, Safe, Undo
  PROVE  Safe' /\ (Told => Told')
  <1> USE DEF Safe, Undo, At, World
  <1>1. /\ run' \in Run /\ run'.at = "undo config"
        /\ run'.old = run.old /\ run'.new = run.new /\ run'.original = run.original
    BY GoesFields DEF Place
  <1>2. TypeOK'
    BY <1>1 DEF TypeOK, Run, Route, Config, Phase, Candidate
  <1>3. RouteServes' /\ Knows'
    BY <1>1 DEF TypeOK, Bounds, RouteServes, Serves, Knows, PendingJournal, Recovering, Deciding, Activating,
       Undoing, IsPending
  <1>4. Told => Told'
    BY <1>1 DEF Told, TypeOK, Bounds, Knows, PendingJournal, Recovering, Deciding, Activating, Undoing, IsPending
  <1> QED
    BY <1>2, <1>3, <1>4

LEMMA UndoneKeeps ==
  ASSUME Bounds, Safe, Undone
  PROVE  Safe' /\ (Told => Told')
  <1> USE DEF Safe, Undone, At, World
  <1>1. /\ run' \in Run /\ run'.at = "clean"
        /\ run'.old = run.old /\ run'.new = run.new /\ run'.original = run.original
    BY GoesFields DEF Place
  <1>2. TypeOK'
    BY <1>1 DEF TypeOK, Run, Route, Config, Phase, Candidate
  <1>3. RouteServes' /\ Knows'
    BY <1>1 DEF TypeOK, Bounds, RouteServes, Serves, Knows, PendingJournal, Recovering, Deciding, Activating,
       Undoing, IsPending
  <1>4. Told => Told'
    BY <1>1 DEF Told, TypeOK, Bounds, Knows, PendingJournal, Recovering, Deciding, Activating, Undoing, IsPending
  <1> QED
    BY <1>2, <1>3, <1>4

LEMMA RecoverRefusedKeeps ==
  ASSUME Bounds, Safe, RecoverRefused
  PROVE  Safe' /\ (Told => Told')
  <1> USE DEF Safe, RecoverRefused, At, World, Leaves
  <1>1. run' \in Run /\ run'.at = "idle"
    BY IdleIsRun
  <1>2. TypeOK'
    BY <1>1 DEF TypeOK, Run, Route, Bounds
  <1>3. RouteServes' /\ Knows'
    BY <1>1 DEF TypeOK, Bounds, RouteServes, Serves, Knows, PendingJournal, Recovering, Deciding, Activating,
       Undoing, IsPending
  <1>4. Told => Told'
    BY <1>1 DEF Told, TypeOK, Bounds, Knows, PendingJournal, Recovering, Deciding, Activating, Undoing, IsPending
  <1> QED
    BY <1>2, <1>3, <1>4

LEMMA DeployedKeeps ==
  ASSUME Bounds, Safe, Deployed
  PROVE  Safe' /\ (Told => Told')
  <1> USE DEF Safe, Deployed, At, World, Leaves
  <1>1. run' \in Run /\ run'.at = "idle"
    BY IdleIsRun
  <1>2. TypeOK'
    BY <1>1 DEF TypeOK, Run, Route, Bounds
  <1>3. RouteServes' /\ Knows'
    BY <1>1 DEF TypeOK, Bounds, RouteServes, Serves, Knows, PendingJournal, Recovering, Deciding, Activating,
       Undoing, IsPending
  <1>4. Told => Told'
    BY <1>1 DEF Told, TypeOK, Bounds, Knows, PendingJournal, Recovering, Deciding, Activating, Undoing, IsPending
  <1> QED
    BY <1>2, <1>3, <1>4

LEMMA CrashKeeps ==
  ASSUME Bounds, Safe, Crash
  PROVE  Safe' /\ (Told => Told')
  <1> USE DEF Safe, Crash, At, World, Leaves
  <1>1. run' \in Run /\ run'.at = "idle"
    BY IdleIsRun
  <1>2. TypeOK'
    BY <1>1 DEF TypeOK, Run, Route, Bounds
  <1>3. RouteServes' /\ Knows'
    BY <1>1 DEF TypeOK, Bounds, RouteServes, Serves, Knows, PendingJournal, Recovering, Deciding, Activating,
       Undoing, IsPending
  <1>4. Told => Told'
    BY <1>1 DEF Told, TypeOK, Bounds, Knows, PendingJournal, Recovering, Deciding, Activating, Undoing, IsPending
  <1> QED
    BY <1>2, <1>3, <1>4

LEMMA BlockedKeeps ==
  ASSUME Bounds, Safe, Blocked
  PROVE  Safe' /\ (Told => Told')
  <1> USE DEF Safe, Blocked, At, World, Leaves
  <1>1. run' \in Run /\ run'.at = "idle"
    BY IdleIsRun
  <1>2. /\ status \in [deployed : Revision, failed : Revision \cup {None}]
        /\ run.new.release \in Revision
    BY DEF TypeOK, Route
  <1>4. /\ status' \in [deployed : Revision, failed : Revision \cup {None}]
        /\ status'.deployed = status.deployed
    BY <1>2
  <1>5. UNCHANGED <<World, route, slot, journal, config>>
    OBVIOUS
  <1> HIDE DEF Blocked
  <1>6. TypeOK'
    BY <1>1, <1>4, <1>5 DEF TypeOK, Run
  <1>7. RouteServes' /\ Knows'
    BY <1>1, <1>4, <1>5 DEF TypeOK, RouteServes, Serves, Knows, PendingJournal, Recovering, Deciding, Activating,
       Undoing, IsPending
  <1>8. Told => Told'
    BY <1>1, <1>4, <1>5 DEF Told, TypeOK, Knows, PendingJournal, Recovering, Deciding, Activating, Undoing, IsPending
  <1> QED
    BY <1>6, <1>7, <1>8

LEMMA RecoverCommittedKeeps ==
  ASSUME Bounds, Safe, RecoverCommitted
  PROVE  Safe' /\ (Told => Told')
  <1> USE DEF Safe, RecoverCommitted, At, World, Leaves
  <1>1. run' \in Run /\ run'.at \in {"idle", "decide"}
    BY IdleIsRun, GoesFields DEF Place
  <1>2. run'.at = "decide" => status'.deployed = route.release
    <2>1. CASE route = journal.new
      BY <2>1
    <2>2. CASE route # journal.new
      BY <2>2, IdleIsRun
    <2> QED
      BY <2>1, <2>2
  <1>3. TypeOK'
    BY <1>1 DEF TypeOK, Run, Route
  <1>4. RouteServes' /\ Knows'
    BY <1>1, <1>2 DEF TypeOK, Bounds, RouteServes, Serves, Knows, PendingJournal, Recovering, Deciding, Activating,
       Undoing, IsPending
  <1>5. Told => Told'
    BY <1>1, <1>2 DEF Told, TypeOK, Bounds, Knows, PendingJournal, Recovering, Deciding, Activating, Undoing,
       IsPending
  <1> QED
    BY <1>3, <1>4, <1>5

\* The process that is stopped is not the one that serves.
LEMMA RecoverStopKeeps ==
  ASSUME Bounds, Safe, RecoverStop
  PROVE  Safe' /\ (Told => Told')
  <1> USE DEF Safe, RecoverStop, At, World
  <1>1. /\ run' \in Run /\ run'.at = "recovered"
        /\ run'.old = run.old /\ run'.new = run.new /\ run'.original = run.original
    BY GoesFields DEF Place
  <1>2. /\ slot' \in [Port -> Slot]
        /\ \A q \in Port : q # journal.new.port => slot'[q] = slot[q]
    BY StopFields DEF TypeOK, Route, StopNew
  <1>3. journal'.phase = "recovered" /\ journal'.old = journal.old /\ journal'.new = journal.new
    BY DEF TypeOK
  <1>4. TypeOK'
    BY <1>1, <1>2 DEF TypeOK, Run, Slot, Phase
  <1>5. route.port # journal.new.port
    BY DEF Knows, PendingJournal, Recovering, Deciding, Activating, Undoing, IsPending
  <1>6. slot'[route.port] = slot[route.port]
    BY <1>2, <1>5 DEF TypeOK, Route
  <1>7. RouteServes'
    BY <1>6 DEF RouteServes, Serves
  <1>8. Knows'
    BY <1>1, <1>3 DEF TypeOK, Bounds, Knows, PendingJournal, Recovering, Deciding, Activating, Undoing, IsPending
  <1>9. Told => Told'
    BY <1>1, <1>3 DEF Told, TypeOK, Bounds, Knows, PendingJournal, Recovering, Deciding, Activating, Undoing,
       IsPending
  <1> QED
    BY <1>4, <1>7, <1>8, <1>9

\* What is deployed next is another release, in a slot that is not routed to.
LEMMA DecideKeeps ==
  ASSUME Bounds, Safe, Decide
  PROVE  Safe' /\ (Told => Told')
  <1> USE DEF Safe, At, World
  <1>1. UNCHANGED <<main, timers, crashes, route, slot, journal, config, status>>
    BY DEF Decide
  <1>2. /\ run.at = "decide" /\ run' \in Run
        /\ \/ run'.at = "idle"
           \/ /\ run'.at = "prepare" /\ run'.old = route
              /\ run'.new.port # route.port /\ run'.new.release = main.head
              /\ main.head # status.deployed
    <2>1. CASE Leaves
      BY <2>1, IdleIsRun DEF Decide, Leaves
    <2>2. CASE ~ Leaves
      <3> DEFINE next == [port |-> IF route.port = "green" THEN "blue" ELSE "green", release |-> main.head]
      <3>1. /\ run.at = "decide" /\ main.head # status.deployed
            /\ run' = [at |-> "prepare", old |-> route, original |-> Idle.original, new |-> next]
        BY <2>2 DEF Decide
      <3>2. next \in Route /\ next.port # route.port /\ next.release = main.head
        BY DEF TypeOK, Route, Port
      <3> HIDE DEF next
      <3>3. route \in Route /\ Idle.original \in Config
        BY IdleIsRun DEF TypeOK, Run
      <3> QED
        BY <3>1, <3>2, <3>3 DEF Run, Place
    <2> QED
      BY <2>1, <2>2
  <1>3. TypeOK'
    BY <1>1, <1>2 DEF TypeOK, Run
  <1>4. RouteServes' /\ Knows'
    BY <1>1, <1>2 DEF TypeOK, Bounds, RouteServes, Serves, Knows, PendingJournal, Recovering, Deciding, Activating,
       Undoing, IsPending
  <1>5. Told => Told'
    BY <1>1, <1>2 DEF Told, TypeOK, Bounds, Knows, PendingJournal, Recovering, Deciding, Activating, Undoing,
       IsPending
  <1> QED
    BY <1>3, <1>4, <1>5

LEMMA PrepareKeeps ==
  ASSUME Bounds, Safe, Prepare
  PROVE  Safe' /\ (Told => Told')
  <1> USE DEF Safe, Prepare, At, World
  <1>1. /\ run' \in Run /\ run'.at = "standby" /\ run'.old = run.old /\ run'.new = run.new
    BY DEF TypeOK, Run, Place
  <1>2. TypeOK'
    BY <1>1 DEF TypeOK, Run
  <1>3. RouteServes' /\ Knows'
    BY <1>1 DEF TypeOK, Bounds, RouteServes, Serves, Knows, PendingJournal, Recovering, Deciding, Activating,
       Undoing, IsPending
  <1>4. Told => Told'
    BY <1>1 DEF Told, TypeOK, Bounds, Knows, PendingJournal, Recovering, Deciding, Activating, Undoing, IsPending
  <1> QED
    BY <1>2, <1>3, <1>4

LEMMA StandbyKeeps ==
  ASSUME Bounds, Safe, Standby
  PROVE  Safe' /\ (Told => Told')
  <1> USE DEF Safe, Standby, At, World
  <1>1. /\ run' \in Run /\ run'.at = "pending"
        /\ run'.old = run.old /\ run'.new = run.new /\ run'.original = run.original
    BY GoesFields DEF Place
  <1>2. [release |-> run.new.release, up |-> TRUE] \in Slot
    BY DEF TypeOK, Route, Slot
  <1>3. /\ slot' \in [Port -> Slot]
        /\ slot'[run.new.port] = [release |-> run.new.release, up |-> TRUE]
        /\ \A q \in Port : q # run.new.port => slot'[q] = slot[q]
    BY <1>2 DEF TypeOK, Route, Slot
  <1>4. TypeOK'
    BY <1>1, <1>3 DEF TypeOK, Run, Slot
  <1>5. run.new.port # route.port
    BY DEF Knows, Deciding
  <1>6. RouteServes'
    BY <1>3, <1>5 DEF RouteServes, Serves, TypeOK, Route
  <1>7. Serves(run.new)'
    BY <1>1, <1>3 DEF Serves
  <1>8. Knows'
    BY <1>1, <1>7 DEF TypeOK, Bounds, Knows, PendingJournal, Recovering, Deciding, Activating, Undoing, IsPending
  <1>9. Told => Told'
    BY <1>1, <1>7 DEF Told, TypeOK, Bounds, Knows, PendingJournal, Recovering, Deciding, Activating, Undoing,
       IsPending
  <1> QED
    BY <1>4, <1>6, <1>8, <1>9

LEMMA FailKeeps ==
  ASSUME Bounds, Safe, Fail
  PROVE  Safe' /\ (Told => Told')
  <1> USE DEF Safe, At, World
  <1>1. UNCHANGED <<main, timers, crashes, route, slot, journal, config, status>>
    BY DEF Fail
  <1>2. /\ run' \in Run /\ run'.old = run.old /\ run'.new = run.new
        /\ \/ run.at = "prepare" /\ run'.at = "blocked"
           \/ run.at \in {"standby", "pending"} /\ run'.at = "clean"
           \/ /\ run.at \in {"candidate", "gates", "switch", "verify", "schedule", "commit", "deployed"}
              /\ run'.at = "undo"
    BY GoesFields DEF Fail, Place
  <1>3. TypeOK'
    BY <1>1, <1>2 DEF TypeOK, Run
  <1>4. RouteServes' /\ Knows'
    BY <1>1, <1>2 DEF TypeOK, Bounds, RouteServes, Serves, Knows, PendingJournal, Recovering, Deciding, Activating,
       Undoing, IsPending
  <1>5. Told => Told'
    BY <1>1, <1>2 DEF Told, TypeOK, Bounds, Knows, PendingJournal, Recovering, Deciding, Activating, Undoing,
       IsPending
  <1> QED
    BY <1>3, <1>4, <1>5

LEMMA UndoConfigKeeps ==
  ASSUME Bounds, Safe, UndoConfig
  PROVE  Safe' /\ (Told => Told')
  <1> USE DEF Safe, At, World
  <1>1. UNCHANGED <<main, timers, crashes, route, slot, journal, status>> /\ config' \in Config
    BY DEF UndoConfig, TypeOK
  <1>2. /\ run' \in Run /\ run'.old = run.old /\ run'.new = run.new
        /\ run.at = "undo config" /\ run'.at \in {"undone", "blocked"}
    BY GoesFields DEF UndoConfig, Place
  <1>3. TypeOK'
    BY <1>1, <1>2 DEF TypeOK, Run
  <1>4. RouteServes' /\ Knows'
    BY <1>1, <1>2 DEF TypeOK, Bounds, RouteServes, Serves, Knows, PendingJournal, Recovering, Deciding, Activating,
       Undoing, IsPending
  <1>5. Told => Told'
    BY <1>1, <1>2 DEF Told, TypeOK, Bounds, Knows, PendingJournal, Recovering, Deciding, Activating, Undoing,
       IsPending
  <1> QED
    BY <1>3, <1>4, <1>5

LEMMA CleanKeeps ==
  ASSUME Bounds, Safe, Clean
  PROVE  Safe' /\ (Told => Told')
  <1> USE DEF Safe, Clean, At, World
  <1>1. /\ run' \in Run /\ run'.at = "blocked"
        /\ run'.old = run.old /\ run'.new = run.new /\ run'.original = run.original
    BY GoesFields DEF Place
  <1>2. /\ slot' \in [Port -> Slot]
        /\ \A q \in Port : q # run.new.port => slot'[q] = slot[q]
    BY StopFields DEF TypeOK, Route, StopNew
  <1>3. TypeOK'
    BY <1>1, <1>2 DEF TypeOK, Run, Slot
  <1>4. route.port # run.new.port
    BY DEF Knows, Deciding
  <1>5. slot'[route.port] = slot[route.port]
    BY <1>2, <1>4 DEF TypeOK, Route
  <1>6. RouteServes'
    BY <1>5 DEF RouteServes, Serves
  <1>7. Knows'
    BY <1>1 DEF TypeOK, Bounds, Knows, PendingJournal, Recovering, Deciding, Activating, Undoing, IsPending
  <1>8. Told => Told'
    BY <1>1 DEF Told, TypeOK, Bounds, Knows, PendingJournal, Recovering, Deciding, Activating, Undoing, IsPending
  <1> QED
    BY <1>3, <1>6, <1>7, <1>8

\* A timer stops nothing that serves, and nothing before a commit.
LEMMA RetireKeeps ==
  ASSUME Bounds, Safe, NEW t \in timers, Retire(t)
  PROVE  Safe' /\ (Told => Told')
  <1> USE DEF Safe, At
  <1>1. UNCHANGED <<main, crashes, route, journal, config, status, run>> /\ timers' \subseteq timers
    BY DEF Retire
  <1>2. t.port \in Port
    BY DEF TypeOK, Route
  <1>3. /\ slot' \in [Port -> Slot]
        /\ \A q \in Port : slot'[q] = slot[q] \/ (q = t.port /\ Retirable(t))
    <2>1. CASE slot' = slot
      BY <2>1 DEF TypeOK, Slot
    <2>2. CASE slot' = [slot EXCEPT ![t.port].up = FALSE] /\ Retirable(t)
      BY <1>2, <2>2, StopFields
    <2> QED
      BY <2>1, <2>2 DEF Retire
  <1>4. TypeOK'
    BY <1>1, <1>3 DEF TypeOK, Slot
  <1>5. slot'[route.port] = slot[route.port]
    BY <1>3 DEF TypeOK, Route, Retirable
  <1>6. RouteServes'
    BY <1>1, <1>5 DEF RouteServes, Serves
  <1>7. journal.phase # "committed" => slot'[journal.old.port] = slot[journal.old.port]
    BY <1>3 DEF TypeOK, Route, Retirable
  <1>8. run.at = "idle"
    BY DEF Retire
  <1>9. Knows'
    BY <1>1, <1>7, <1>8 DEF Serves, Knows, PendingJournal, Recovering, Deciding, Activating, Undoing, IsPending
  <1>10. Told => Told'
    BY <1>1, <1>7, <1>8 DEF Told, Knows, PendingJournal, Recovering, Deciding, Activating, Undoing, IsPending
  <1> QED
    BY <1>4, <1>6, <1>9, <1>10

LEMMA OutsideKeeps ==
  ASSUME Bounds, Safe, Push \/ Edit \/ UNCHANGED vars
  PROVE  Safe' /\ (Told => Told')
  <1> USE DEF Safe, World
  <1>1. UNCHANGED <<timers, route, slot, journal, status, run>>
    BY DEF Push, Edit, vars
  <1>2. main' \in [head : Revision, moves : 0..MaxMoves] /\ crashes' \in 0..MaxCrashes
    BY DEF Push, Edit, vars, TypeOK, Bounds
  <1>3. config' \in Config
    BY DEF Push, Edit, vars, TypeOK, Bounds, Config
  <1>4. TypeOK'
    BY <1>1, <1>2, <1>3 DEF TypeOK
  <1>5. RouteServes' /\ Knows'
    BY <1>1 DEF RouteServes, Serves, Knows, PendingJournal, Recovering, Deciding, Activating, Undoing, IsPending
  <1>6. Told => Told'
    BY <1>1 DEF Told, Knows, PendingJournal, Recovering, Deciding, Activating, Undoing, IsPending
  <1> QED
    BY <1>4, <1>5, <1>6

-----------------------------------------------------------------------------

LEMMA InitInv ==
  ASSUME Bounds, Init
  PROVE  Safe /\ Told
  <1> USE DEF Bounds, Init
  <1>1. run \in Run /\ run.at = "idle" /\ route = Idle.old /\ route.port = "legacy" /\ route.release = First
    BY IdleIsRun
  <1>2. Idle.old \in Route /\ Idle.new \in Route /\ Idle.original \in Config
    BY IdleIsRun DEF Run
  <1>3. [release |-> First, up |-> TRUE] \in Slot /\ [release |-> None, up |-> FALSE] \in Slot
    BY DEF Slot
  <1>4. slot \in [Port -> Slot] /\ slot["legacy"] = [release |-> First, up |-> TRUE]
    BY <1>3 DEF Port
  <1>5. journal \in [phase : Phase, old : Route, new : Route, previous : Config] /\ journal.phase = None
    BY <1>2 DEF NoJournal, Phase
  <1>6. TypeOK
    BY <1>1, <1>2, <1>4, <1>5 DEF TypeOK, Run, Slot
  <1>7. RouteServes
    BY <1>1, <1>4 DEF RouteServes, Serves
  <1>8. Knows
    BY <1>1, <1>5 DEF Knows, PendingJournal, Recovering, Deciding, Activating, Undoing, IsPending
  <1>9. Told
    BY <1>1, <1>5 DEF Told, IsPending, Idle
  <1> QED
    BY <1>6, <1>7, <1>8, <1>9 DEF Safe

LEMMA StepKeeps ==
  ASSUME Bounds, Safe, [Next]_vars
  PROVE  Safe' /\ (Told => Told')
  <1>1. ASSUME NEW t \in timers, Retire(t) PROVE Safe' /\ (Told => Told')
    BY <1>1, RetireKeeps
  <1>2. CASE Tick \/ RecoverCommitted \/ RecoverNothing \/ RecoverPending \/ Recover \/ RecoverRefused \/ RecoverStop \/ RecoverStatus
    BY <1>2, TickKeeps, RecoverCommittedKeeps, RecoverNothingKeeps, RecoverPendingKeeps, RecoverKeeps,
       RecoverRefusedKeeps, RecoverStopKeeps, RecoverStatusKeeps
  <1>3. CASE Decide \/ Prepare \/ Standby \/ Pending \/ Configure \/ Gates \/ Switch \/ Verify \/ Schedule \/ Commit \/ Deployed
    BY <1>3, DecideKeeps, PrepareKeeps, StandbyKeeps, PendingKeeps, ConfigureKeeps, GatesKeeps, SwitchKeeps,
       VerifyKeeps, ScheduleKeeps, CommitKeeps, DeployedKeeps
  <1>4. CASE Fail \/ Undo \/ UndoConfig \/ Undone \/ Clean \/ Blocked \/ Crash
    BY <1>4, FailKeeps, UndoKeeps, UndoConfigKeeps, UndoneKeeps, CleanKeeps, BlockedKeeps, CrashKeeps
  <1> QED
    BY <1>1, <1>2, <1>3, <1>4, OutsideKeeps DEF Next

\* A release that is interrupted, rolled back, retried or retired late leaves
\* the public route on a running process of its release and the way back open,
\* and deploys nothing twice (blue_green_release.py), for any revisions and bounds.
THEOREM Sound ==
  ASSUME Bounds
  PROVE  Spec => []ReleaseSound
  <1>1. Init => Safe /\ Told
    BY InitInv
  <1>2. Safe /\ Told /\ [Next]_vars => (Safe /\ Told)'
    BY StepKeeps
  <1>3. Safe /\ Told => ReleaseSound
    BY DEF Safe, Told, ReleaseSound, WayBack, NotDeployedTwice, Knows, PendingJournal, IsPending, Deciding
  <1> QED
    BY <1>1, <1>2, <1>3, PTL DEF Spec

-----------------------------------------------------------------------------
(* Releases of the front end alone.                                        *)

\* What is routed to, or would be gone back to, was checked.
Vetted ==
  /\ route.release \in vetted /\ journal.old.release \in vetted
  /\ run.at = "switch" => run.new.release \in vetted

Vets == evidence \subseteq vetted /\ \A r \in Revision : ci[r] = "green" => r \in vetted

\* The owner's command is about one revision from its start to its end, and
\* what it warms up is not routed to.
Commands ==
  /\ local.do = "warm" => run.at = "decide" /\ prewarm[local.sha] \in Port \ {route.port}
  /\ ByOwner /\ run.at \in {"prepare", "standby", "pending", "candidate", "gates"} => run.new.release = local.sha

LocalInv == Safe /\ LocalTypeOK /\ Vetted /\ Vets /\ Commands

Gated == {"prepare", "standby", "pending", "candidate", "gates"}

\* What each step of the holder of the lock does to the places of what is checked.
Orderly ==
  /\ route' \in {route, journal.old} \/ (At("switch") /\ route' = run.new)
  /\ journal'.old = journal.old \/ (At("pending") /\ journal'.old = run.old)
  /\ run'.at = "switch" => run' = run \/ run'.new.release \in vetted
  /\ run.at = "decide" /\ local.do = "warm" => run'.at = "idle" \/ (run' = run /\ route' = route)
  /\ ByOwner /\ run'.at \in Gated => (run.at \in Gated /\ run'.new = run.new) \/ run'.new.release = local.sha

LEMMA OrderlyKeeps ==
  ASSUME Bounds, LocalInv, Safe', Orderly, Ends, UNCHANGED <<prewarm, evidence, ci, vetted>>
  PROVE  LocalInv'
  <1>1. local' = local \/ (local' = Tool /\ run'.at = "idle")
    BY DEF Ends
  <1>2. Tool \in [do : {"none", "prepare", "warm", "promote"}, sha : Revision] /\ Tool.do = "none"
    BY DEF Tool, Bounds
  <1>3. LocalTypeOK'
    BY <1>1, <1>2 DEF LocalInv, LocalTypeOK
  <1>4. Vetted'
    BY DEF LocalInv, Vetted, Orderly, Safe, Knows, Deciding, At
  <1>5. Vets'
    BY DEF LocalInv, Vets
  <1>6. Commands'
    <2>1. CASE local' = Tool
      BY <1>2, <2>1 DEF Commands, ByOwner
    <2>2. CASE local' = local /\ local # Tool
      BY <2>2 DEF LocalInv, Commands, Orderly, ByOwner, Gated, Ends
    <2> QED
      BY <1>1, <2>1, <2>2
  <1> QED
    BY <1>3, <1>4, <1>5, <1>6 DEF LocalInv

LEMMA GoesOrderly ==
  ASSUME LocalInv, NEW place \in Place, Goes(place), place # "switch", run.at # "decide",
         place \in Gated => run.at \in Gated,
         route' \in {route, journal.old} \/ (At("switch") /\ route' = run.new),
         journal'.old = journal.old \/ (At("pending") /\ journal'.old = run.old)
  PROVE  Orderly
  <1>1. run'.at = place /\ run'.new = run.new
    BY GoesFields DEF LocalInv, Safe
  <1> QED
    BY <1>1 DEF Orderly

LEMMA LeavesOrderly ==
  ASSUME Bounds, Leaves, UNCHANGED <<route, journal>>
  PROVE  Orderly
  <1>1. run'.at = "idle"
    BY IdleIsRun DEF Leaves
  <1> QED
    BY <1>1 DEF Orderly, Gated

\* The steps of an activation, and what is undone of one.
LEMMA ActivationKeeps ==
  ASSUME Bounds, LocalInv, Activation
  PROVE  Safe' /\ Orderly
  <1>1. Safe
    BY DEF LocalInv
  <1>2. CASE RecoverNothing \/ RecoverPending \/ Recover \/ RecoverStop
    <2>1. Safe'
      BY <1>1, <1>2, RecoverNothingKeeps, RecoverPendingKeeps, RecoverKeeps, RecoverStopKeeps
    <2>2. journal'.old = journal.old
      BY <1>1, <1>2 DEF RecoverNothing, RecoverPending, Recover, RecoverStop, Safe, TypeOK
    <2>3. PICK place \in {"decide", "reconfigure", "stop", "recovered"} : Goes(place)
      BY <1>2 DEF RecoverNothing, RecoverPending, Recover, RecoverStop
    <2>4. run.at # "decide" /\ route' \in {route, journal.old}
      BY <1>2 DEF RecoverNothing, RecoverPending, Recover, RecoverStop, At
    <2> QED
      BY <2>1, <2>2, <2>3, <2>4, GoesOrderly DEF Place, Gated
  <1>3. CASE Prepare
    <2>1. run' \in Run /\ run'.at = "standby" /\ run'.new = run.new /\ run.at = "prepare"
      BY <1>1, <1>3 DEF Prepare, Safe, TypeOK, Run, Place, At
    <2> QED
      BY <1>1, <1>3, <2>1, PrepareKeeps DEF Prepare, Orderly, Gated
  <1>4. CASE Standby \/ Pending \/ Configure
    <2>1. Safe'
      BY <1>1, <1>4, StandbyKeeps, PendingKeeps, ConfigureKeeps
    <2>2. route' = route /\ (journal'.old = journal.old \/ (At("pending") /\ journal'.old = run.old))
      BY <1>1, <1>4 DEF Standby, Pending, Configure
    <2>3. PICK place \in {"pending", "candidate", "gates"} : Goes(place)
      BY <1>4 DEF Standby, Pending, Configure
    <2>4. run.at \in Gated /\ run.at # "decide"
      BY <1>4 DEF Standby, Pending, Configure, At, Gated
    <2> QED
      BY <2>1, <2>2, <2>3, <2>4, GoesOrderly DEF Place, Gated
  <1>5. CASE Switch \/ Verify \/ Schedule \/ Commit
    <2>1. Safe'
      BY <1>1, <1>5, SwitchKeeps, VerifyKeeps, ScheduleKeeps, CommitKeeps
    <2>2. /\ route' = route \/ (At("switch") /\ route' = run.new)
          /\ journal'.old = journal.old
      BY <1>1, <1>5 DEF Switch, Verify, Schedule, Commit, Safe, TypeOK
    <2>3. PICK place \in {"verify", "schedule", "commit", "deployed"} : Goes(place)
      BY <1>5 DEF Switch, Verify, Schedule, Commit
    <2>4. run.at # "decide"
      BY <1>5 DEF Switch, Verify, Schedule, Commit, At
    <2> QED
      BY <2>1, <2>2, <2>3, <2>4, GoesOrderly DEF Place, Gated
  <1>6. CASE Fail \/ Undo \/ UndoConfig \/ Undone \/ Clean
    <2>1. Safe'
      BY <1>1, <1>6, FailKeeps, UndoKeeps, UndoConfigKeeps, UndoneKeeps, CleanKeeps
    <2>2. route' \in {route, journal.old} /\ journal'.old = journal.old
      BY <1>1, <1>6 DEF Fail, Undo, UndoConfig, Undone, Clean, Safe, TypeOK
    <2>3. PICK place \in {"blocked", "clean", "undo", "undo config", "undone"} : Goes(place)
      BY <1>6 DEF Fail, Undo, UndoConfig, Undone, Clean
    <2>4. run.at # "decide"
      BY <1>6 DEF Fail, Undo, UndoConfig, Undone, Clean, At
    <2> QED
      BY <2>1, <2>2, <2>3, <2>4, GoesOrderly DEF Place, Gated
  <1>7. CASE RecoverRefused \/ Deployed \/ Blocked \/ Crash
    <2>1. Safe'
      BY <1>1, <1>7, RecoverRefusedKeeps, DeployedKeeps, BlockedKeeps, CrashKeeps
    <2>2. Leaves /\ UNCHANGED <<route, journal>>
      BY <1>7 DEF RecoverRefused, Deployed, Blocked, Crash
    <2> QED
      BY <2>1, <2>2, LeavesOrderly
  <1> QED
    BY <1>2, <1>3, <1>4, <1>5, <1>6, <1>7 DEF Activation

\* A tick, whose revision the hosted checks passed.
LEMMA TickStepKeeps ==
  ASSUME Bounds, LocalInv, ~ ByOwner, Tick \/ RecoverCommitted \/ RecoverStatus \/ TickDecides \/ TickGates
  PROVE  Safe' /\ Orderly
  <1>1. Safe
    BY DEF LocalInv
  <1>2. Safe'
    BY <1>1, TickKeeps, RecoverCommittedKeeps, RecoverStatusKeeps, DecideKeeps, GatesKeeps DEF TickDecides, TickGates
  <1>3. CASE Tick \/ RecoverStatus
    <2>1. PICK place \in {"recover", "decide"} : Goes(place)
      BY <1>3 DEF Tick, RecoverStatus
    <2>2. run.at # "decide" /\ UNCHANGED <<route, journal>>
      BY <1>3 DEF Tick, RecoverStatus, At
    <2> QED
      BY <1>2, <2>1, <2>2, GoesOrderly DEF Place, Gated
  <1>4. CASE RecoverCommitted
    <2>1. Goes("decide") \/ Leaves
      BY <1>4 DEF RecoverCommitted
    <2>2. run.at # "decide" /\ UNCHANGED <<route, journal>>
      BY <1>4 DEF RecoverCommitted, At
    <2> QED
      BY <1>2, <2>1, <2>2, GoesOrderly, LeavesOrderly DEF Place, Gated
  <1>5. CASE TickDecides
    <2>1. UNCHANGED <<route, journal>>
      BY <1>5 DEF TickDecides, Decide
    <2>2. Leaves \/ run'.at = "prepare"
      BY <1>5 DEF TickDecides, Decide
    <2>3. local.do # "warm"
      BY DEF ByOwner
    <2>4. ASSUME run'.at = "prepare" PROVE Orderly
      BY <2>1, <2>3, <2>4 DEF Orderly
    <2> QED
      BY <1>2, <2>1, <2>2, <2>4, LeavesOrderly
  <1>6. CASE TickGates
    <2>1. run'.at = "switch" /\ run'.new = run.new /\ run.at = "gates" /\ UNCHANGED <<route, journal>>
      BY <1>1, <1>6, GoesFields DEF TickGates, Gates, Safe, Place, At
    <2>2. run.new.release \in vetted
      BY <1>1, <1>6 DEF TickGates, LocalInv, Vets, Safe, TypeOK, Route
    <2> QED
      BY <1>2, <2>1, <2>2 DEF Orderly, Gated
  <1> QED
    BY <1>3, <1>4, <1>5, <1>6

\* The process that is replaced, or stopped, is not routed to.
LEMMA SlotKeeps ==
  ASSUME Bounds, Safe, ~ IsPending, NEW p \in Port, p # route.port,
         slot' \in [Port -> Slot], \A q \in Port \ {p} : slot'[q] = slot[q],
         run.at \in {"decide", "idle"}, run' = run \/ Leaves,
         UNCHANGED <<World, route, journal, config, status>>
  PROVE  Safe'
  <1>1. run' \in Run /\ (run'.at = run.at \/ run'.at = "idle")
    BY IdleIsRun DEF Safe, TypeOK, Leaves, Run
  <1>2. TypeOK'
    BY <1>1 DEF Safe, TypeOK, Run, Slot, World
  <1>3. RouteServes'
    BY DEF Safe, TypeOK, Route, RouteServes, Serves
  <1>4. Knows'
    BY <1>1 DEF Safe, Knows, PendingJournal, Recovering, Deciding, Activating, Undoing, IsPending
  <1> QED
    BY <1>2, <1>3, <1>4 DEF Safe

\* A command of the owner, under the lock.
LEMMA CommandKeeps ==
  ASSUME Bounds, LocalInv, ByOwner,
         CommandCommitted \/ CommandRecovered \/ Promote \/ LocalGates \/ PrewarmUp \/ PrewarmFailed
  PROVE  Safe' /\ Orderly
  <1>1. Safe /\ TypeOK /\ LocalTypeOK
    BY DEF LocalInv, Safe
  <1>2. CASE CommandCommitted \/ CommandRecovered
    <2>1. Goes("decide") \/ Leaves
      BY <1>2 DEF CommandCommitted, CommandRecovered
    <2>2. run.at # "decide" /\ UNCHANGED <<World, slot, config, status, route, journal>>
      BY <1>2 DEF CommandCommitted, CommandRecovered, At
    <2>3. Goes("decide") => journal.phase = "committed" /\ run.at = "recover"
      BY <1>2, IdleIsRun, GoesFields, <1>1 DEF CommandCommitted, CommandRecovered, At, Leaves, Place
    <2>4. run' \in Run /\ run'.at \in {"decide", "idle"} /\ (run'.at = "decide" => Goes("decide"))
      BY <1>1, <2>1, GoesFields, IdleIsRun DEF Place, Leaves
    <2>5. Safe'
      BY <1>1, <2>2, <2>3, <2>4 DEF World, Run, TypeOK, Safe, RouteServes, Serves, Knows, PendingJournal, Recovering,
         Deciding, Activating, Undoing, IsPending
    <2> QED
      BY <2>1, <2>2, <2>5, GoesOrderly, LeavesOrderly DEF Place, Gated
  <1>3. CASE Promote
    <2>1. run.at = "decide" /\ UNCHANGED <<World, slot, config, status, route, journal>> /\ local.do # "warm"
      BY <1>3 DEF Promote, At
    <2>2. CASE Leaves
      <3>1. run' \in Run /\ run'.at = "idle"
        BY <2>2, IdleIsRun DEF Leaves
      <3>2. Safe'
        BY <1>1, <2>1, <3>1 DEF World, Run, TypeOK, Safe, RouteServes, Serves, Knows, PendingJournal, Recovering,
           Deciding, Activating, Undoing, IsPending
      <3> QED
        BY <2>1, <2>2, <3>2, LeavesOrderly
    <2>3. CASE ~ Leaves
      <3> DEFINE new == [port |-> Standing, release |-> local.sha]
      <3>1. run' = [at |-> "prepare", old |-> route, original |-> Idle.original, new |-> new]
        BY <1>3, <2>3 DEF Promote
      <3>2. new \in Route /\ new.port # route.port /\ new.release = local.sha
        BY <1>1 DEF LocalTypeOK, TypeOK, Route, Port, Standing
      <3> HIDE DEF new
      <3>3. route \in Route /\ Idle.original \in Config
        BY <1>1, IdleIsRun DEF TypeOK, Run
      <3>4. run' \in Run /\ run'.at = "prepare" /\ run'.old = route /\ run'.new = new
        BY <3>1, <3>2, <3>3 DEF Run, Place
      <3>5. Safe'
        BY <1>1, <2>1, <3>2, <3>4 DEF World, Run, TypeOK, Safe, RouteServes, Serves, Knows, PendingJournal,
           Recovering,
           Deciding, Activating, Undoing, IsPending
      <3> QED
        BY <2>1, <3>2, <3>4, <3>5 DEF Orderly
    <2> QED
      BY <2>2, <2>3
  <1>4. CASE LocalGates
    <2>1. Safe'
      BY <1>1, <1>4, GatesKeeps DEF LocalGates
    <2>2. run'.at = "switch" /\ run'.new = run.new /\ run.at = "gates" /\ UNCHANGED <<route, journal>>
      BY <1>1, <1>4, GoesFields DEF LocalGates, Gates, Place, At
    <2>3. run.new.release \in vetted
      BY <1>4, <2>2 DEF LocalGates, LocalInv, Commands, Vets, Evident
    <2> QED
      BY <2>1, <2>2, <2>3 DEF Orderly, Gated
  <1>5. CASE PrewarmUp \/ PrewarmFailed
    <2> DEFINE p == prewarm[local.sha]
    <2>1. run.at = "decide" /\ local.do = "warm" /\ Leaves /\ UNCHANGED <<World, route, journal, config, status>>
      BY <1>5 DEF PrewarmUp, PrewarmFailed, At
    <2>2. p \in Port /\ p # route.port /\ ~ IsPending /\ local.sha \in Revision
      BY <1>1, <2>1 DEF LocalInv, Commands, Safe, Knows, Deciding, LocalTypeOK
    <2>3. slot' \in [Port -> Slot] /\ \A q \in Port \ {p} : slot'[q] = slot[q]
      <3>1. CASE PrewarmUp
        <4>1. [release |-> local.sha, up |-> TRUE] \in Slot
          BY <2>2 DEF Slot
        <4> QED
          BY <1>1, <3>1, <4>1 DEF PrewarmUp, TypeOK, Slot
      <3>2. CASE PrewarmFailed
        <4>1. slot' = slot \/ slot' = [slot EXCEPT ![p].up = FALSE]
          BY <3>2 DEF PrewarmFailed, Aborted
        <4> QED
          BY <1>1, <2>2, <4>1, StopFields DEF TypeOK, Slot
      <3> QED
        BY <1>5, <3>1, <3>2
    <2>4. Safe'
      BY <1>1, <2>1, <2>2, <2>3, SlotKeeps
    <2> QED
      BY <2>1, <2>4, LeavesOrderly
  <1> QED
    BY <1>2, <1>3, <1>4, <1>5

\* What happens around the lock's holder.
LEMMA AroundKeeps ==
  ASSUME Bounds, LocalInv, Push \/ Edit \/ \E t \in timers : Retire(t)
  PROVE  Safe' /\ Orderly
  <1>1. Safe' /\ UNCHANGED <<run, route, journal>>
    BY OutsideKeeps, RetireKeeps DEF LocalInv, Push, Edit, Retire
  <1> QED
    BY <1>1 DEF Orderly, LocalInv, Commands, Gated

\* The owner's command begins.
LEMMA CommandBegins ==
  ASSUME Bounds, LocalInv, NEW do \in {"prepare", "promote"}, Command(do)
  PROVE  LocalInv'
  <1>1. run' \in Run /\ run'.at = "recover" /\ run'.new = run.new /\ run.at = "idle"
    BY GoesFields DEF LocalInv, Safe, Command, Place, At
  <1>2. /\ UNCHANGED <<main, timers, crashes, route, slot, journal, config, status, prewarm, evidence, ci, vetted>>
        /\ local' = [do |-> do, sha |-> main.head]
    BY DEF Command, World
  <1>3. TypeOK' /\ LocalTypeOK'
    BY <1>1, <1>2 DEF LocalInv, Safe, TypeOK, LocalTypeOK, Run
  <1>4. RouteServes' /\ Knows'
    BY <1>1, <1>2 DEF LocalInv, Safe, RouteServes, Serves, Knows, PendingJournal, Recovering, Deciding, Activating,
       Undoing, IsPending
  <1>5. Vetted' /\ Vets' /\ Commands'
    BY <1>1, <1>2 DEF LocalInv, Vetted, Vets, Commands, ByOwner
  <1> QED
    BY <1>3, <1>4, <1>5 DEF LocalInv, Safe

\* The standby is chosen off the route.
LEMMA PrewarmKeeps ==
  ASSUME Bounds, LocalInv, Prewarm
  PROVE  LocalInv'
  <1>1. /\ run.at = "decide" /\ local.do = "prepare" /\ local.sha \in Revision
        /\ UNCHANGED <<main, timers, crashes, route, slot, journal, config, status, evidence, ci, vetted>>
    BY DEF Prewarm, World, At, LocalInv, LocalTypeOK
  <1>2. CASE Leaves /\ local' = Tool /\ UNCHANGED prewarm
    <2>1. run' \in Run /\ run'.at = "idle"
      BY <1>2, IdleIsRun DEF Leaves
    <2>2. local' \in [do : {"none", "prepare", "warm", "promote"}, sha : Revision] /\ local'.do = "none"
      BY <1>2 DEF Tool, Bounds
    <2>3. TypeOK' /\ LocalTypeOK'
      BY <1>1, <1>2, <2>1, <2>2 DEF LocalInv, Safe, TypeOK, LocalTypeOK, Run
    <2>4. RouteServes' /\ Knows'
      BY <1>1, <2>1 DEF LocalInv, Safe, RouteServes, Serves, Knows, PendingJournal, Recovering, Deciding, Activating,
         Undoing, IsPending
    <2>5. Vetted' /\ Vets' /\ Commands'
      BY <1>1, <2>1, <2>2 DEF LocalInv, Vetted, Vets, Commands, ByOwner
    <2> QED
      BY <2>3, <2>4, <2>5 DEF LocalInv, Safe
  <1>3. CASE /\ prewarm' = [prewarm EXCEPT ![local.sha] = Standing]
             /\ local' = [local EXCEPT !.do = "warm"]
             /\ UNCHANGED run
    <2>1. Standing \in Port \ {route.port}
      BY DEF Standing, Port, LocalInv, Safe, TypeOK, Route
    <2>2. /\ local' \in [do : {"none", "prepare", "warm", "promote"}, sha : Revision]
          /\ local'.do = "warm" /\ local'.sha = local.sha
      BY <1>3 DEF LocalInv, LocalTypeOK
    <2>3. prewarm' \in [Revision -> Port \cup {None}] /\ prewarm'[local.sha] = Standing
      BY <1>1, <1>3, <2>1 DEF LocalInv, LocalTypeOK
    <2>4. Safe' /\ LocalTypeOK' /\ Vetted' /\ Vets'
      BY <1>1, <1>3, <2>2, <2>3 DEF LocalInv, Safe, TypeOK, LocalTypeOK, Vetted, Vets, RouteServes, Serves, Knows,
         PendingJournal, Recovering, Deciding, Activating, Undoing, IsPending
    <2>5. Commands'
      BY <1>1, <1>3, <2>1, <2>2, <2>3 DEF Commands
    <2> QED
      BY <2>4, <2>5 DEF LocalInv
  <1> QED
    BY <1>2, <1>3 DEF Prewarm

\* A late cleanup finds the route, and what is not interrupted, as they are now.
LEMMA AbortKeeps ==
  ASSUME Bounds, Cautious, LocalInv, NEW r \in Revision, AbortPrewarm(r)
  PROVE  LocalInv'
  <1>1. /\ run.at = "idle" /\ ~ IsPending
        /\ UNCHANGED <<World, route, journal, config, status, run, local, prewarm, evidence, ci, vetted>>
    BY DEF AbortPrewarm, IsPending, At, locals
  <1>2. Safe'
    <2>1. CASE OursToStop(r)
      <3>1. prewarm[r] \in Port /\ prewarm[r] # route.port
        BY <2>1 DEF OursToStop, LocalInv, LocalTypeOK
      <3>2. slot' = [slot EXCEPT ![prewarm[r]].up = FALSE]
        BY <2>1 DEF AbortPrewarm, Aborted
      <3>3. slot' \in [Port -> Slot] /\ \A q \in Port \ {prewarm[r]} : slot'[q] = slot[q]
        BY <3>1, <3>2, StopFields DEF LocalInv, Safe
      <3> QED
        BY <1>1, <3>1, <3>3, SlotKeeps DEF LocalInv
    <2>2. CASE ~ OursToStop(r)
      <3>1. slot' = slot
        BY <2>2 DEF AbortPrewarm, Aborted
      <3> QED
        BY <1>1, <3>1 DEF LocalInv, Safe, TypeOK, World, RouteServes, Serves, Knows, PendingJournal, Recovering,
           Deciding, Activating, Undoing, IsPending
    <2> QED
      BY <2>1, <2>2
  <1>3. LocalTypeOK' /\ Vetted' /\ Vets' /\ Commands'
    BY <1>1 DEF LocalInv, LocalTypeOK, Vetted, Vets, Commands, ByOwner
  <1> QED
    BY <1>2, <1>3 DEF LocalInv

\* Evidence and checks come and go; what was vetted once stays so.
LEMMA ChecksKeep ==
  ASSUME Bounds, LocalInv, NEW r \in Revision, AcceptEvidence(r) \/ Expire(r) \/ Check(r)
  PROVE  LocalInv'
  <1>1. UNCHANGED <<main, route, slot, journal, config, status, timers, run, crashes, local, prewarm>>
    BY DEF AcceptEvidence, Expire, Check, vars
  <1>2. Safe'
    BY <1>1 DEF LocalInv, Safe, TypeOK, RouteServes, Serves, Knows, PendingJournal, Recovering, Deciding, Activating,
       Undoing, IsPending
  <1>3. LocalTypeOK' /\ Vets' /\ vetted \subseteq vetted'
    <2>1. CASE AcceptEvidence(r) \/ Expire(r)
      BY <1>1, <2>1 DEF LocalInv, LocalTypeOK, Vets, AcceptEvidence, Expire
    <2>2. CASE Check(r)
      <3>1. PICK s \in {"green", "failed"} : ci' = [ci EXCEPT ![r] = s] /\ vetted' = IF s = "green" THEN vetted \cup {r} ELSE vetted
        BY <2>2 DEF Check
      <3>2. evidence' = evidence
        BY <2>2 DEF Check
      <3> QED
        BY <1>1, <3>1, <3>2 DEF LocalInv, LocalTypeOK, Vets
    <2> QED
      BY <2>1, <2>2
  <1>4. Vetted' /\ Commands'
    BY <1>1, <1>3 DEF LocalInv, Vetted, Commands, ByOwner
  <1> QED
    BY <1>2, <1>3, <1>4 DEF LocalInv

LEMMA LocalInitInv ==
  ASSUME Bounds, LocalInit
  PROVE  LocalInv
  <1>1. Safe
    BY InitInv DEF LocalInit
  <1>2. Tool \in [do : {"none", "prepare", "warm", "promote"}, sha : Revision] /\ Tool.do = "none"
    BY DEF Tool, Bounds
  <1>3. LocalTypeOK /\ Vets /\ Commands
    BY <1>2 DEF LocalInit, LocalTypeOK, Vets, Commands, ByOwner, Bounds
  <1>4. Vetted
    BY DEF LocalInit, Init, Vetted, Idle, NoJournal
  <1> QED
    BY <1>1, <1>3, <1>4 DEF LocalInv

LEMMA LocalNextKeeps ==
  ASSUME Bounds, Cautious, LocalInv, LocalNext
  PROVE  LocalInv'
  <1>1. ASSUME Safe' /\ Orderly, Ends, UNCHANGED <<prewarm, evidence, ci, vetted>> PROVE LocalInv'
    BY <1>1, OrderlyKeeps
  <1>2. ASSUME \/ Activation
               \/ ~ ByOwner /\ (Tick \/ RecoverCommitted \/ RecoverStatus \/ TickDecides \/ TickGates)
               \/ ByOwner /\ (CommandCommitted \/ CommandRecovered \/ Promote \/ LocalGates \/ PrewarmUp \/ PrewarmFailed)
               \/ Push \/ Edit \/ \E t \in timers : Retire(t)
        PROVE  Safe' /\ Orderly
    BY <1>2, ActivationKeeps, TickStepKeeps, CommandKeeps, AroundKeeps
  <1>3. ASSUME NEW r \in Revision, AbortPrewarm(r) \/ AcceptEvidence(r) \/ Expire(r) \/ Check(r) PROVE LocalInv'
    BY <1>3, AbortKeeps, ChecksKeep
  <1>4. CASE Command("prepare") \/ Command("promote") \/ Prewarm
    BY <1>4, CommandBegins, PrewarmKeeps
  <1> QED
    BY <1>1, <1>2, <1>3, <1>4 DEF LocalNext

LEMMA LocalStutter ==
  ASSUME LocalInv, UNCHANGED <<vars, locals>>
  PROVE  LocalInv'
  <1>1. Safe'
    BY DEF LocalInv, vars, Safe, TypeOK, RouteServes, Serves, Knows, PendingJournal, Recovering, Deciding, Activating,
       Undoing, IsPending
  <1>2. LocalTypeOK' /\ Vetted' /\ Vets' /\ Commands'
    BY DEF LocalInv, vars, locals, LocalTypeOK, Vetted, Vets, Commands, ByOwner
  <1> QED
    BY <1>1, <1>2 DEF LocalInv

LEMMA LocalInvSound ==
  ASSUME LocalInv
  PROVE  StandbysApart /\ OnlyVettedServes
  BY DEF LocalInv, StandbysApart, OnlyVettedServes, Safe, WayBack, Knows, PendingJournal, IsPending, Vetted

\* Where nobody asks for a standby to be stopped while an activation is
\* interrupted, releases of the front end leave what is routed to and the way
\* back served, and route only to what was checked (local_frontend_release.py).
THEOREM LocalReleases ==
  ASSUME Bounds, Cautious
  PROVE  LocalSpec => [](StandbysApart /\ OnlyVettedServes)
  <1>1. LocalInit => LocalInv
    BY LocalInitInv
  <1>2. LocalInv /\ [LocalNext]_<<vars, locals>> => LocalInv'
    BY LocalNextKeeps, LocalStutter
  <1>3. LocalInv => StandbysApart /\ OnlyVettedServes
    BY LocalInvSound
  <1> QED
    BY <1>1, <1>2, <1>3, PTL DEF LocalSpec

-----------------------------------------------------------------------------
(* Agreements.                                                             *)

\* The time of a version that has bound has come, and is a time of the clock.
BoundHasCome == \A i \in bound : policy[i].at <= day

AgreementsInv == P!TypeOK /\ BoundHasCome

Version == [at : 0 .. MaxTime + 1, active : BOOLEAN]

\* Retiring versions leaves their times alone and activates none.
LEMMA RetireFields ==
  ASSUME NEW p \in [Id -> Version], NEW s
  PROVE  /\ P!Retire(p, s) \in [Id -> Version]
         /\ \A i \in Id : P!Retire(p, s)[i].at = p[i].at
         /\ \A i \in Id : P!Retire(p, s)[i].active <=> p[i].active /\ i \notin s
  <1> DEFINE left(i) == p[i].active /\ i \notin s
  <1>1. \A i \in Id : left(i) \in BOOLEAN
    BY Zenon
  <1>2. P!Retire(p, s) = [i \in Id |-> [at |-> p[i].at, active |-> left(i)]]
    BY Zenon DEF P!Retire
  <1>3. \A i \in Id : p[i].at \in 0 .. MaxTime + 1
    BY DEF Version
  <1> HIDE DEF left
  <1>4. \A i \in Id : [at |-> p[i].at, active |-> left(i)] \in Version
    BY <1>1, <1>3 DEF Version
  <1>5. P!Retire(p, s) \in [Id -> Version]
    BY <1>2, <1>4
  <1>6. \A i \in Id : P!Retire(p, s)[i] = [at |-> p[i].at, active |-> left(i)]
    BY <1>2
  <1>7. \A i \in Id : P!Retire(p, s)[i].at = p[i].at /\ (P!Retire(p, s)[i].active = left(i))
    <2> TAKE i \in Id
    <2>1. P!Retire(p, s)[i] = [at |-> p[i].at, active |-> left(i)]
      BY <1>6
    <2> QED
      BY ONLY <2>1
  <1> QED
    BY <1>5, <1>7, Zenon DEF left

LEMMA AgreementsInit ==
  ASSUME MaxTime \in Nat, P!Init
  PROVE  AgreementsInv
  BY DEF P!Init, AgreementsInv, P!TypeOK, BoundHasCome, P!Unpublished

\* Of the versions in force, those that are not superseded bind.
LEMMA BindingIs ==
  /\ P!Binding = P!InForce(policy) \ P!Superseded(policy)
  /\ P!Binding' = P!InForce(policy)' \ P!Superseded(policy)'
  BY DEF P!Binding, P!Superseded

LEMMA InForceNow ==
  /\ P!InForce(policy) = {i \in Id : policy[i].active /\ policy[i].at <= day}
  /\ P!InForce(policy)' = {i \in Id : policy'[i].active /\ policy'[i].at <= day'}
  BY DEF P!InForce

\* What binds after a step and has bound before it bound just before the step.
AgreementsMoved == \A i \in P!Binding' : i \in bound => i \in P!Binding

\* What every operation keeps of the versions that have bound: their times, and
\* that what is not in force, or superseded, does not bind later.
AgreementsKept ==
  /\ policy' \in [Id -> Version]
  /\ day' \in 0 .. MaxTime /\ day <= day'
  /\ \A i \in bound : policy'[i].at = policy[i].at
  /\ \A i \in bound : policy'[i].active => policy[i].active
  /\ \A i \in bound : i \in P!Superseded(policy) => i \notin P!Binding'

LEMMA KeptSuffices ==
  ASSUME MaxTime \in Nat, AgreementsInv, AgreementsKept, bound' = bound \cup P!Binding'
  PROVE  AgreementsInv' /\ AgreementsMoved
  <1> USE DEF AgreementsInv, AgreementsKept
  <1>1. \A i \in P!Binding' : i \in Id /\ policy'[i].at <= day'
    BY BindingIs, InForceNow
  <1>2. P!TypeOK'
    BY <1>1 DEF P!TypeOK, Version
  <1>3. \A i \in bound : i \in Id /\ policy[i].at \in Int /\ policy[i].at <= day
    BY DEF P!TypeOK, BoundHasCome
  <1>4. day \in Int /\ day' \in Int
    BY DEF P!TypeOK
  <1>5. \A i \in bound : policy'[i].at <= day'
    BY <1>3, <1>4
  <1>6. BoundHasCome'
    BY <1>1, <1>5 DEF BoundHasCome
  <1>7. ASSUME NEW i \in P!Binding', i \in bound
        PROVE  i \in P!Binding
    <2>1. policy'[i].active /\ i \notin P!Superseded(policy)
      BY <1>7, BindingIs, InForceNow
    <2>2. i \in P!InForce(policy)
      BY <1>3, <1>7, <2>1, InForceNow
    <2> QED
      BY <2>1, <2>2, BindingIs
  <1> QED
    BY <1>2, <1>6, <1>7 DEF AgreementsMoved

-----------------------------------------------------------------------------
(* One lemma per operation.                                                *)

\* Withdraw and Scan, and the end of Publish: what is superseded is retired.
LEMMA RetirementKeeps ==
  ASSUME MaxTime \in Nat, AgreementsInv, NEW s, P!Superseded(policy) \subseteq s,
         policy' = P!Retire(policy, s), day' = day
  PROVE  AgreementsKept
  <1>1. policy \in [Id -> Version] /\ day \in 0 .. MaxTime /\ bound \subseteq Id
    BY DEF AgreementsInv, P!TypeOK, Version
  <1>2. /\ policy' \in [Id -> Version]
        /\ \A i \in Id : policy'[i].at = policy[i].at
        /\ \A i \in Id : policy'[i].active <=> policy[i].active /\ i \notin s
    BY <1>1, RetireFields
  <1>3. \A i \in Id : i \in P!Superseded(policy) => i \notin P!Binding'
    BY <1>2, BindingIs, InForceNow
  <1> QED
    BY <1>1, <1>2, <1>3 DEF AgreementsKept

LEMMA PublicationKeeps ==
  ASSUME MaxTime \in Nat, AgreementsInv, NEW n \in Id, NEW at \in 0 .. MaxTime, P!Publish(n, at)
  PROVE  AgreementsKept
  <1> DEFINE added == [policy EXCEPT ![n] = [at |-> at, active |-> TRUE]]
  <1>1. policy \in [Id -> Version] /\ day \in 0 .. MaxTime /\ bound \subseteq Id
    BY DEF AgreementsInv, P!TypeOK, Version
  <1>2. policy[n] = P!Unpublished /\ policy' = P!Retire(added, P!Superseded(added)) /\ day' = day
    BY DEF P!Publish
  <1>3. [at |-> at, active |-> TRUE] \in Version
    BY DEF Version
  <1>4. added \in [Id -> Version] /\ \A i \in Id \ {n} : added[i] = policy[i]
    BY <1>1, <1>3
  <1> HIDE DEF added
  <1>5. /\ policy' \in [Id -> Version]
        /\ \A i \in Id : policy'[i].at = added[i].at
        /\ \A i \in Id : policy'[i].active <=> added[i].active /\ i \notin P!Superseded(added)
    BY <1>2, <1>4, RetireFields
  <1>6. n \notin bound /\ n \notin P!InForce(policy)
    BY <1>1, <1>2 DEF AgreementsInv, BoundHasCome, P!InForce, P!Unpublished
  <1>7. ASSUME NEW i \in bound, i \in P!Superseded(policy)
        PROVE  i \in P!Superseded(added)
    <2>1. PICK j \in P!InForce(policy) : i \in P!InForce(policy) /\ P!Before(policy, i, j)
      BY <1>7 DEF P!Superseded
    <2>2. i \in Id \ {n} /\ j \in Id \ {n}
      BY <1>6, <2>1 DEF P!InForce
    <2>3. added[i] = policy[i] /\ added[j] = policy[j]
      BY <1>4, <2>2
    <2>4. i \in P!InForce(added) /\ j \in P!InForce(added) /\ P!Before(added, i, j)
      BY <2>1, <2>2, <2>3 DEF P!InForce, P!Before
    <2> QED
      BY <2>4 DEF P!Superseded
  <1>8. \A i \in bound : i \in P!Superseded(policy) => i \notin P!Binding'
    BY <1>1, <1>5, <1>7, BindingIs, InForceNow
  <1>9. \A i \in bound : added[i] = policy[i]
    BY <1>1, <1>4, <1>6
  <1> QED
    BY <1>1, <1>2, <1>5, <1>8, <1>9 DEF AgreementsKept

LEMMA ClockKeeps ==
  ASSUME MaxTime \in Nat, AgreementsInv, P!Tick
  PROVE  AgreementsKept
  <1>1. policy \in [Id -> Version] /\ day \in 0 .. MaxTime /\ bound \subseteq Id
    BY DEF AgreementsInv, P!TypeOK, Version
  <1>2. policy' = policy /\ day' = day + 1 /\ day < MaxTime
    BY DEF P!Tick
  <1>3. \A i \in Id : policy[i].at \in Int
    BY <1>1 DEF Version
  <1>4. P!InForce(policy) \subseteq P!InForce(policy)'
    BY <1>1, <1>2, <1>3, InForceNow
  <1>5. P!Superseded(policy) \subseteq P!Superseded(policy)'
    BY <1>2, <1>4 DEF P!Superseded, P!Before
  <1>6. \A i \in bound : i \in P!Superseded(policy) => i \notin P!Binding'
    BY <1>5, BindingIs
  <1> QED
    BY <1>1, <1>2, <1>6 DEF AgreementsKept

\* The worker retires what does not bind, and nothing else.
LEMMA ScanDecidesNothing ==
  ASSUME MaxTime \in Nat, AgreementsInv, P!Scan
  PROVE  P!Binding' = P!Binding
  <1>1. policy \in [Id -> Version]
    BY DEF AgreementsInv, P!TypeOK, Version
  <1>2. policy' = P!Retire(policy, P!Superseded(policy)) /\ day' = day
    BY DEF P!Scan
  <1>3. /\ \A i \in Id : policy'[i].at = policy[i].at
        /\ \A i \in Id : policy'[i].active <=> policy[i].active /\ i \notin P!Superseded(policy)
    BY <1>1, <1>2, RetireFields
  <1>4. P!InForce(policy)' = P!Binding
    BY <1>2, <1>3, BindingIs, InForceNow
  <1>5. \A i, j \in Id : P!Before(policy, i, j)' <=> P!Before(policy, i, j)
    BY <1>3 DEF P!Before
  <1> QED
    BY <1>4, <1>5, InForceNow DEF P!Binding

-----------------------------------------------------------------------------

LEMMA AgreementsNext ==
  ASSUME MaxTime \in Nat, AgreementsInv, P!Next
  PROVE  AgreementsInv' /\ AgreementsMoved /\ (P!Scan => P!Binding' = P!Binding)
  <1>1. bound' = bound \cup P!Binding'
    BY DEF P!Next
  <1>2. ASSUME NEW i \in Id, P!Withdraw(i)
        PROVE  AgreementsKept
    <2>1. policy' = P!Retire(policy, P!Predecessors \cup {i}) /\ day' = day
      BY <1>2 DEF P!Withdraw
    <2> QED
      BY <2>1, RetirementKeeps DEF P!Predecessors
  <1>3. ASSUME NEW i \in Id, NEW at \in 0 .. MaxTime, P!Publish(i, at)
        PROVE  AgreementsKept
    BY <1>3, PublicationKeeps
  <1>4. ASSUME P!Scan PROVE AgreementsKept
    BY <1>4, RetirementKeeps DEF P!Scan
  <1>5. ASSUME P!Tick PROVE AgreementsKept
    BY <1>5, ClockKeeps
  <1>6. AgreementsKept
    BY <1>2, <1>3, <1>4, <1>5 DEF P!Next
  <1> QED
    BY <1>1, <1>6, KeptSuffices, ScanDecidesNothing

LEMMA AgreementsStutter ==
  ASSUME AgreementsInv, UNCHANGED P!vars
  PROVE  AgreementsInv'
  BY DEF AgreementsInv, P!TypeOK, BoundHasCome, P!vars

\* A version that was replaced or withdrawn never binds again, and the worker
\* decides nothing (policyLifecycle.ts), for any number of versions.
THEOREM AgreementsMove ==
  ASSUME MaxTime \in Nat
  PROVE  P!Spec => P!AgreementsMoveOn
<1>1. P!Init => AgreementsInv
  BY AgreementsInit
<1>2. AgreementsInv /\ [P!Next]_P!vars => AgreementsInv'
  BY AgreementsNext, AgreementsStutter
<1>3. AgreementsInv /\ [P!Next]_P!vars => [AgreementsMoved /\ (P!Scan => P!Binding' = P!Binding)]_P!vars
  BY AgreementsNext
<1> QED
  BY <1>1, <1>2, <1>3, PTL DEF P!Spec, P!AgreementsMoveOn, AgreementsMoved

-----------------------------------------------------------------------------
(* Certifications.                                                         *)

CertBounds == MaxTime \in Nat \ {0} /\ Revisions \in Nat \ {0} /\ Validity \in Nat /\ "none" \notin Tx

CertRequest == [pc : {"idle", "wait", "read", "write"}, do : {"none", "approve", "revoke", "validity"},
                trained : 0 .. MaxTime, seen : Nat, began : 0 .. MaxTime, before : C!Record]

\* A request as it was sent, and what it found under the lock: nobody else
\* writes until it is done.
CertAsked(t) ==
  /\ certifying[t].do = "approve" => certifying[t].trained >= 1
  /\ certifying[t].pc # "idle" => certifying[t].seen < Revisions
  /\ certifying[t].pc \in {"read", "write"} => certifier = t
  /\ certifying[t].pc = "write" =>
               /\ certifying[t].do # "validity" => certifying[t].seen = record.revision
               /\ certifying[t].do = "approve" => certifying[t].trained > record.revoked

\* The record says when it was revoked last, and only the step that gives the
\* certification a validity goes beyond the bound on its revisions.
CertRecorded ==
  /\ record.revoked = revoked
  /\ record.revision <= Revisions + (IF valid THEN 1 ELSE 0)

CertInv ==
  /\ C!TypeOK /\ certifying \in [Tx -> CertRequest] /\ CertRecorded
  /\ C!RevocationStands /\ C!NoneUndated
  /\ \A t \in Tx : CertAsked(t)

LEMMA CertIdle ==
  ASSUME CertBounds
  PROVE  C!NoRecord \in C!Record /\ C!Idle \in CertRequest /\ C!Idle.pc = "idle" /\ C!Idle.do = "none"
<1>1. C!Never \in Nat \ {0}
  BY DEF CertBounds, C!Never
<1>2. C!NoRecord \in C!Record
  BY <1>1 DEF CertBounds, C!NoRecord, C!Record, C!NoTime
<1> QED
  BY <1>2 DEF CertBounds, C!Idle, CertRequest, C!NoTime

\* A step that leaves the record alone.
LEMMA CertMoves ==
  ASSUME CertBounds, CertInv, NEW t \in Tx, NEW r \in CertRequest, certifying' = [certifying EXCEPT ![t] = r],
         UNCHANGED <<record, valid, clock, revoked>>, certifier' \in Tx \cup {"none"},
         certifier' = certifier \/ certifier \in {"none", t},
         CertAsked(t)'
  PROVE  CertInv'
<1>1. certifying' \in [Tx -> CertRequest] /\ \A u \in Tx \ {t} : certifying'[u] = certifying[u]
  BY DEF CertInv
<1>2. C!TypeOK' /\ CertRecorded' /\ C!RevocationStands' /\ C!NoneUndated'
  BY <1>1 DEF CertInv, C!TypeOK, CertRequest, CertRecorded, C!RevocationStands, C!NoneUndated, C!Record, C!Never
<1>3. ASSUME NEW u \in Tx \ {t} PROVE CertAsked(u)'
  BY <1>1 DEF CertInv, CertAsked, CertBounds
<1> QED
  BY <1>1, <1>2, <1>3 DEF CertInv

\* A step that ends the transaction that holds the lock, with what it writes.
LEMMA CertWrites ==
  ASSUME CertBounds, CertInv, NEW t \in Tx, certifying[t].pc = "write", C!Done(t), clock' = clock,
         record' \in C!Record, valid' \in BOOLEAN, revoked' \in 0 .. MaxTime,
         CertRecorded', C!RevocationStands', C!NoneUndated'
  PROVE  CertInv'
<1>1. certifying' \in [Tx -> CertRequest] /\ certifying'[t] = C!Idle /\ \A u \in Tx \ {t} : certifying'[u] = certifying[u]
  BY CertIdle DEF CertInv, C!Done
<1>2. certifier = t /\ certifier' = "none"
  BY DEF CertInv, CertAsked, C!Done
<1>3. C!TypeOK'
  BY <1>1, <1>2 DEF CertInv, C!TypeOK, CertRequest
<1>4. ASSUME NEW u \in Tx PROVE CertAsked(u)'
  <2>1. CASE u = t
    BY <1>1, <2>1, CertIdle DEF CertAsked
  <2>2. CASE u # t
    <3>1. certifying'[u] = certifying[u] /\ CertAsked(u) /\ certifying[u].pc \notin {"read", "write"}
      BY <1>1, <1>2, <2>2 DEF CertInv, CertAsked
    <3> QED
      BY <3>1 DEF CertAsked
  <2> QED
    BY <2>1, <2>2
<1> QED
  BY <1>1, <1>3, <1>4 DEF CertInv

LEMMA CertBegins ==
  ASSUME CertBounds, CertInv, NEW t \in Tx, NEW do \in {"approve", "revoke", "validity"},
         NEW trained \in 0 .. clock, do = "approve" => trained >= 1, C!Begin(t, do, trained)
  PROVE  CertInv'
<1> DEFINE r == [C!Idle EXCEPT !.pc = "wait", !.do = do, !.trained = trained, !.seen = record.revision, !.began = clock]
<1>1. /\ record.revision \in Nat /\ record.revision < Revisions /\ clock \in 1 .. MaxTime
      /\ certifier \in Tx \cup {"none"}
  BY DEF C!Begin, CertInv, C!TypeOK, C!Record, CertBounds
<1>2. r \in CertRequest /\ r.pc = "wait" /\ r.do = do /\ r.trained = trained /\ r.seen = record.revision
  <2>1. trained \in 0 .. MaxTime /\ clock \in 0 .. MaxTime
    BY <1>1 DEF CertBounds
  <2> QED
    BY <1>1, <2>1, CertIdle DEF C!Idle, CertRequest
<1>3. certifying' = [certifying EXCEPT ![t] = r] /\ UNCHANGED <<record, valid, certifier, clock, revoked>>
  BY DEF C!Begin
<1> HIDE DEF r
<1>4. certifying'[t] = r
  BY <1>3 DEF CertInv
<1>5. CertAsked(t)'
  BY <1>1, <1>2, <1>4 DEF CertAsked
<1> QED
  BY <1>1, <1>2, <1>3, <1>5, CertMoves

LEMMA CertLocks ==
  ASSUME CertBounds, CertInv, NEW t \in Tx, C!TakeLock(t)
  PROVE  CertInv'
<1> DEFINE r == [certifying[t] EXCEPT !.pc = "read"]
<1>1. certifying[t] \in CertRequest /\ certifying[t].pc = "wait" /\ CertAsked(t)
  BY DEF CertInv, C!TakeLock
<1>2. r \in CertRequest /\ r.pc = "read" /\ r.do = certifying[t].do /\ r.trained = certifying[t].trained /\ r.seen = certifying[t].seen
  BY <1>1 DEF CertRequest
<1>3. /\ certifying' = [certifying EXCEPT ![t] = r] /\ UNCHANGED <<record, valid, clock, revoked>>
      /\ certifier = "none" /\ certifier' = t
  BY DEF C!TakeLock, C!Serialized
<1> HIDE DEF r
<1>4. certifying'[t] = r
  BY <1>3 DEF CertInv
<1>5. CertAsked(t)'
  BY <1>1, <1>2, <1>3, <1>4 DEF CertAsked
<1> QED
  BY <1>2, <1>3, <1>5, CertMoves

LEMMA CertReads ==
  ASSUME CertBounds, CertInv, NEW t \in Tx, C!Read(t)
  PROVE  CertInv'
<1> DEFINE r == [certifying[t] EXCEPT !.pc = "write", !.before = record]
<1>1. certifying[t] \in CertRequest /\ certifying[t].pc = "read" /\ CertAsked(t) /\ record \in C!Record
  BY DEF CertInv, C!Read, C!TypeOK
<1>2. r \in CertRequest /\ r.pc = "write" /\ r.do = certifying[t].do /\ r.trained = certifying[t].trained /\ r.seen = certifying[t].seen
  BY <1>1 DEF CertRequest
<1>3. certifying' = [certifying EXCEPT ![t] = r] /\ UNCHANGED <<record, valid, certifier, clock, revoked>>
  BY DEF C!Read
<1>4. /\ certifying[t].do # "validity" => record.revision = certifying[t].seen
      /\ certifying[t].do = "approve" => certifying[t].trained > record.revoked
  BY DEF C!Read
<1> HIDE DEF r
<1>5. certifying'[t] = r
  BY <1>3 DEF CertInv
<1>6. CertAsked(t)'
  BY <1>1, <1>2, <1>3, <1>4, <1>5 DEF CertAsked
<1> QED
  BY <1>2, <1>3, <1>6, CertMoves DEF CertInv, C!TypeOK

LEMMA CertLeaves ==
  ASSUME CertBounds, CertInv, NEW t \in Tx, C!Leave(t)
  PROVE  CertInv'
<1>1. /\ certifying' = [certifying EXCEPT ![t] = C!Idle] /\ UNCHANGED <<record, valid, clock, revoked>>
      /\ certifier' = IF certifier = t THEN "none" ELSE certifier
  BY DEF C!Leave, C!Done
<1>2. certifying'[t] = C!Idle
  BY <1>1 DEF CertInv
<1>3. CertAsked(t)'
  BY <1>2, CertIdle DEF CertAsked
<1> QED
  BY <1>1, <1>3, CertIdle, CertMoves DEF CertInv, C!TypeOK

\* Training that was verified under the lock is newer than the revocation.
LEMMA CertApproves ==
  ASSUME CertBounds, CertInv, NEW t \in Tx, C!Approve(t)
  PROVE  CertInv'
<1> DEFINE expires == C!ExpiresAt(certifying[t].trained)
<1>1. /\ record \in C!Record /\ valid \in BOOLEAN /\ certifying[t] \in CertRequest /\ CertAsked(t) /\ CertRecorded
      /\ clock \in 1 .. MaxTime
  BY DEF CertInv, C!TypeOK
<1>2. /\ certifying[t].pc = "write" /\ certifying[t].do = "approve" /\ C!Done(t) /\ UNCHANGED <<valid, clock, revoked>>
      /\ record' = [record EXCEPT !.status = "active", !.trained = certifying[t].trained,
                                  !.expires = expires, !.revision = @ + 1]
  BY DEF C!Approve
<1>3. certifying[t].trained \in 1 .. MaxTime /\ certifying[t].trained > record.revoked /\ record.revision < Revisions
  BY <1>1, <1>2 DEF CertAsked, CertRequest, CertBounds
<1>4. expires \in 1 .. C!Never /\ (valid => expires # C!Never)
  BY <1>1, <1>3 DEF CertBounds, C!ExpiresAt, C!Never
<1>5. record.revision \in Nat /\ record.revision + 1 \in 0 .. Revisions + 1
  BY <1>1, <1>3 DEF C!Record, CertBounds
<1> HIDE DEF expires
<1>6. /\ record' \in C!Record /\ record'.status = "active" /\ record'.trained = certifying[t].trained
      /\ record'.expires = expires /\ record'.revoked = record.revoked /\ record'.revision = record.revision + 1
  <2>1. certifying[t].trained \in 0 .. MaxTime
    BY <1>3
  <2> QED
    BY <1>1, <1>2, <1>4, <1>5, <2>1 DEF C!Record
<1>7. CertRecorded' /\ C!RevocationStands' /\ C!NoneUndated'
  <2>1. CertRecorded'
    BY <1>1, <1>2, <1>3, <1>5, <1>6 DEF CertRecorded, CertBounds
  <2>2. C!RevocationStands'
    BY <1>1, <1>2, <1>3, <1>6 DEF C!RevocationStands, CertRecorded
  <2>3. C!NoneUndated'
    BY <1>2, <1>4, <1>6 DEF C!NoneUndated, C!Never
  <2> QED
    BY <2>1, <2>2, <2>3
<1> QED
  BY <1>1, <1>2, <1>6, <1>7, CertWrites DEF CertInv, C!TypeOK

LEMMA CertRevokes ==
  ASSUME CertBounds, CertInv, NEW t \in Tx, C!Revoke(t)
  PROVE  CertInv'
<1>1. record \in C!Record /\ certifying[t] \in CertRequest /\ CertAsked(t) /\ clock \in 1 .. MaxTime
  BY DEF CertInv, C!TypeOK
<1>2. /\ certifying[t].pc = "write" /\ certifying[t].do = "revoke" /\ C!Done(t) /\ UNCHANGED <<valid, clock>> /\ revoked' = clock
      /\ record' = [record EXCEPT !.status = "revoked", !.revoked = clock, !.revision = @ + 1]
  BY DEF C!Revoke, C!Stamp
<1>3. record.revision \in Nat /\ record.revision < Revisions /\ record.revision + 1 \in 0 .. Revisions + 1
  BY <1>1, <1>2 DEF CertAsked, CertBounds, C!Record
<1>4. clock \in 0 .. MaxTime
  BY <1>1 DEF CertBounds
<1>5. /\ record' \in C!Record /\ record'.status = "revoked" /\ record'.revoked = clock
      /\ record'.revision = record.revision + 1
  BY <1>1, <1>2, <1>3, <1>4 DEF C!Record
<1>6. CertRecorded'
  BY <1>2, <1>3, <1>5 DEF CertRecorded, CertBounds
<1>7. C!RevocationStands' /\ C!NoneUndated'
  BY <1>5 DEF C!RevocationStands, C!NoneUndated
<1> QED
  BY <1>2, <1>4, <1>5, <1>6, <1>7, CertWrites DEF CertInv, C!TypeOK

\* The backfill dates what had no end, once.
LEMMA CertSets ==
  ASSUME CertBounds, CertInv, NEW t \in Tx, C!SetValidity(t)
  PROVE  CertInv'
<1>1. record \in C!Record /\ clock \in 1 .. MaxTime /\ CertRecorded /\ C!RevocationStands /\ C!NoneUndated /\ valid \in BOOLEAN
  BY DEF CertInv, C!TypeOK
<1>2. certifying[t].pc = "write" /\ C!Done(t) /\ valid' = TRUE /\ UNCHANGED <<clock, revoked>> /\ record' = C!Backfill
  BY DEF C!SetValidity
<1>3. CASE record.status = "active" /\ record.expires = C!Never
  <2> DEFINE from == IF record.trained = C!NoTime THEN clock ELSE record.trained
  <2>1. record' = [record EXCEPT !.expires = from + Validity, !.revision = @ + 1]
    BY <1>2, <1>3 DEF C!Backfill
  <2>2. ~ valid /\ record.revision \in Nat /\ record.revision <= Revisions
    BY <1>1, <1>3 DEF C!NoneUndated, CertRecorded, C!Record, CertBounds
  <2>3. from \in 1 .. MaxTime
    BY <1>1 DEF C!Record, C!NoTime, CertBounds
  <2> HIDE DEF from
  <2>4. from + Validity \in 1 .. C!Never /\ from + Validity # C!Never
    BY <2>3 DEF C!Never, CertBounds
  <2>5. record.revision + 1 \in 0 .. Revisions + 1
    BY <2>2 DEF CertBounds
  <2>6. /\ record' \in C!Record /\ record'.expires = from + Validity /\ record'.revision = record.revision + 1
        /\ record'.status = record.status /\ record'.trained = record.trained /\ record'.revoked = record.revoked
    BY <1>1, <2>1, <2>4, <2>5 DEF C!Record
  <2>7. CertRecorded'
    BY <1>1, <1>2, <2>2, <2>6 DEF CertRecorded, CertBounds
  <2>8. C!RevocationStands' /\ C!NoneUndated'
    BY <1>1, <1>2, <2>4, <2>6 DEF C!RevocationStands, C!NoneUndated, C!Never
  <2> QED
    BY <1>1, <1>2, <2>6, <2>7, <2>8, CertWrites DEF CertInv, C!TypeOK
<1>4. CASE ~ (record.status = "active" /\ record.expires = C!Never)
  <2>1. record' = record
    BY <1>2, <1>4 DEF C!Backfill
  <2>2. CertRecorded'
    BY <1>1, <1>2, <2>1 DEF CertRecorded, CertBounds, C!Record
  <2>3. C!RevocationStands' /\ C!NoneUndated'
    BY <1>1, <1>2, <1>4, <2>1 DEF C!RevocationStands, C!NoneUndated, C!Never
  <2> QED
    BY <1>1, <1>2, <2>1, <2>2, <2>3, CertWrites DEF CertInv, C!TypeOK
<1> QED
  BY <1>3, <1>4

LEMMA CertTicks ==
  ASSUME CertBounds, CertInv, C!Tick \/ UNCHANGED C!vars
  PROVE  CertInv'
<1>1. UNCHANGED <<record, valid, certifier, certifying, revoked>> /\ clock' \in 1 .. MaxTime
  BY DEF C!Tick, C!vars, CertInv, C!TypeOK, CertBounds
<1>2. C!TypeOK' /\ CertRecorded' /\ C!RevocationStands' /\ C!NoneUndated'
  BY <1>1 DEF CertInv, C!TypeOK, CertRecorded, C!RevocationStands, C!NoneUndated, C!Never
<1>3. ASSUME NEW t \in Tx PROVE CertAsked(t)'
  BY <1>1 DEF CertInv, CertAsked
<1> QED
  BY <1>1, <1>2, <1>3 DEF CertInv

LEMMA CertInit ==
  ASSUME CertBounds, C!Init
  PROVE  CertInv
<1>1. C!Idle \in CertRequest /\ C!Idle.pc = "idle" /\ C!Idle.do = "none" /\ C!NoRecord \in C!Record
  BY CertIdle
<1>2. record \in C!Record /\ record.revoked = C!NoTime /\ record.revision <= Revisions /\ record.revision \in Nat
  <2>1. CASE record = C!NoRecord
    BY <1>1, <2>1 DEF C!NoRecord, CertBounds
  <2>2. CASE record = [C!NoRecord EXCEPT !.status = "active", !.revision = 1]
    <3>1. 1 \in 0 .. Revisions + 1
      BY DEF CertBounds
    <3>2. record \in C!Record
      BY <1>1, <2>2, <3>1 DEF C!Record
    <3>3. record.revoked = C!NoTime /\ record.revision = 1
      BY <2>2 DEF C!NoRecord
    <3> QED
      BY <3>2, <3>3 DEF CertBounds
  <2> QED
    BY <2>1, <2>2 DEF C!Init
<1>3. C!TypeOK /\ certifying \in [Tx -> CertRequest]
  <2>1. certifying \in [Tx -> CertRequest] /\ valid \in BOOLEAN /\ certifier \in Tx \cup {"none"}
    BY <1>1 DEF C!Init
  <2>2. clock \in 1 .. MaxTime /\ revoked \in 0 .. MaxTime
    BY DEF C!Init, C!NoTime, CertBounds
  <2>3. \A t \in Tx : certifying[t].pc = "idle" /\ certifying[t].before \in C!Record
    BY <1>1, <2>1 DEF C!Init, CertRequest
  <2> QED
    BY <1>2, <2>1, <2>2, <2>3 DEF C!TypeOK
<1>4. CertRecorded /\ C!RevocationStands /\ C!NoneUndated
  BY <1>2 DEF C!Init, CertRecorded, C!RevocationStands, C!NoneUndated, CertBounds
<1>5. \A t \in Tx : CertAsked(t)
  BY <1>1 DEF C!Init, CertAsked
<1> QED
  BY <1>3, <1>4, <1>5 DEF CertInv

LEMMA CertNext ==
  ASSUME CertBounds, CertInv, C!Next
  PROVE  CertInv'
<1>1. ASSUME NEW t \in Tx, NEW trained \in 1 .. clock, C!Begin(t, "approve", trained) PROVE CertInv'
  <2>1. trained \in 0 .. clock /\ trained >= 1
    BY DEF CertInv, C!TypeOK, CertBounds
  <2> QED
    BY <1>1, <2>1, CertBegins
<1>2. ASSUME NEW t \in Tx, NEW do \in {"revoke", "validity"}, C!Begin(t, do, C!NoTime) PROVE CertInv'
  <2>1. C!NoTime \in 0 .. clock
    BY DEF CertInv, C!TypeOK, CertBounds, C!NoTime
  <2> QED
    BY <1>2, <2>1, CertBegins
<1>3. ASSUME NEW t \in Tx, C!TakeLock(t) \/ C!Read(t) \/ C!Approve(t) \/ C!Revoke(t) \/ C!SetValidity(t) \/ C!Leave(t)
      PROVE  CertInv'
  BY <1>3, CertLocks, CertReads, CertApproves, CertRevokes, CertSets, CertLeaves
<1> QED
  BY <1>1, <1>2, <1>3, CertTicks DEF C!Next

\* A revoked certification is active again for training done since only, and
\* none lasts for ever once staff have given it a validity.
THEOREM CertificationsCorrect ==
  ASSUME CertBounds
  PROVE  C!Spec => [](C!RevocationStands /\ C!NoneUndated)
<1>1. C!Init => CertInv
  BY CertInit
<1>2. CertInv /\ [C!Next]_C!vars => CertInv'
  BY CertNext, CertTicks
<1>3. CertInv => C!RevocationStands /\ C!NoneUndated
  BY DEF CertInv
<1> QED
  BY <1>1, <1>2, <1>3, PTL DEF C!Spec

-----------------------------------------------------------------------------
(* Reminders.                                                              *)

RemWork == [at : {"idle", "claimed", "current", "stale"}, date : Date \cup {E!Never}]

RemTypes ==
  /\ E!TypeOK /\ mailed \in [Date -> Nat] /\ held \in [Tx -> SUBSET (Date \cup {E!Never})]

\* A reminder is accepted with its mail, and being sent by one worker.
RemSent ==
  /\ \A d \in Date : mailed[d] = IF reminder[d] = "accepted" THEN 1 ELSE 0
  /\ \A w \in Tx : worker[w].at # "idle" => worker[w].date \in Date /\ reminder[worker[w].date] = "sending"
  /\ \A w, v \in Tx : w # v /\ worker[w].at # "idle" /\ worker[v].at # "idle" => worker[w].date # worker[v].date

\* What stands has stood since each claim; what a worker has checked did.
RemHeld ==
  \A w \in Tx :
    /\ worker[w].at # "idle" => E!Stands \subseteq held[w]
    /\ worker[w].at = "current" => worker[w].date \in held[w]

RemInv == RemTypes /\ RemSent /\ RemHeld

\* What a change of the source does to the reminders: none that is being sent,
\* or was accepted, changes, and none becomes so.
LEMMA RemRows ==
  ASSUME NEW rows \in [Date -> E!Status], NEW d \in Date
  PROVE  /\ E!Enqueued(rows, d) \in [Date -> E!Status] /\ E!Canceled(rows) \in [Date -> E!Status]
         /\ E!Revived(rows, d) \in [Date -> E!Status]
         /\ \A x \in Date, s \in {"sending", "accepted"} :
              /\ E!Enqueued(rows, d)[x] = s <=> rows[x] = s
              /\ E!Canceled(rows)[x] = s <=> rows[x] = s
              /\ E!Revived(rows, d)[x] = s <=> rows[x] = s
<1>1. E!Enqueued(rows, d) \in [Date -> E!Status] /\ \A x \in Date : E!Enqueued(rows, d)[x] = rows[x] \/ (rows[x] = "none" /\ E!Enqueued(rows, d)[x] = "pending")
  BY DEF E!Enqueued, E!Status
<1>2. E!Canceled(rows) \in [Date -> E!Status] /\ \A x \in Date : E!Canceled(rows)[x] = rows[x] \/ (rows[x] = "pending" /\ E!Canceled(rows)[x] = "obsolete")
  BY DEF E!Canceled, E!Status
<1>3. E!Revived(rows, d) \in [Date -> E!Status] /\ \A x \in Date : E!Revived(rows, d)[x] = rows[x] \/ (rows[x] = "obsolete" /\ E!Revived(rows, d)[x] = "pending")
  BY DEF E!Revived, E!Status
<1> QED
  BY <1>1, <1>2, <1>3

LEMMA RemCanceled ==
  ASSUME NEW rows \in [Date -> E!Status]
  PROVE  /\ E!Canceled(rows) \in [Date -> E!Status]
         /\ \A x \in Date, s \in {"sending", "accepted"} : E!Canceled(rows)[x] = s <=> rows[x] = s
BY DEF E!Canceled, E!Status

\* The source changes, and the reminders with it.
LEMMA RemMoves ==
  ASSUME Horizon \in Nat, RemInv, reminder' \in [Date -> E!Status],
         \A x \in Date, s \in {"sending", "accepted"} : reminder'[x] = s <=> reminder[x] = s,
         expiry' \in Date \cup {E!Never}, standing' \in BOOLEAN, UNCHANGED <<kind, worker, mailed>>,
         E!Moved \/ (UNCHANGED <<expiry, standing, moves, held>>)
  PROVE  RemInv'
<1>1. /\ moves' \in 0 .. Horizon /\ held' \in [Tx -> SUBSET (Date \cup {E!Never})]
      /\ \A w \in Tx : held[w] \subseteq held'[w] /\ (E!Stands \subseteq held[w] => E!Stands' \subseteq held'[w])
  <2>1. CASE E!Moved
    <3>1. moves' \in 0 .. Horizon /\ held' = [w \in Tx |-> held[w] \cup E!Stands']
      BY <2>1 DEF E!Moved, RemInv, RemTypes, E!TypeOK
    <3>2. E!Stands' \subseteq Date \cup {E!Never}
      BY DEF E!Stands
    <3> QED
      BY <3>1, <3>2 DEF RemInv, RemTypes
  <2>2. CASE UNCHANGED <<expiry, standing, moves, held>>
    BY <2>2 DEF RemInv, RemTypes, E!TypeOK, E!Stands
  <2> QED
    BY <2>1, <2>2
<1>2. RemTypes'
  BY <1>1 DEF RemInv, RemTypes, E!TypeOK, E!Status
<1>3. RemSent'
  BY DEF RemInv, RemSent
<1>4. RemHeld'
  BY <1>1 DEF RemInv, RemHeld
<1> QED
  BY <1>2, <1>3, <1>4 DEF RemInv

LEMMA RemSource ==
  ASSUME Horizon \in Nat, RemInv,
         \/ \E d \in Date \cup {E!Never} : E!SetExpiry(d)
         \/ \E d \in Date : E!Renew(d)
         \/ E!Revoke \/ E!Scan
  PROVE  RemInv'
<1>1. reminder \in [Date -> E!Status] /\ expiry \in Date \cup {E!Never} /\ standing \in BOOLEAN
  BY DEF RemInv, RemTypes, E!TypeOK
<1>2. ASSUME NEW d \in Date \cup {E!Never}, E!SetExpiry(d) PROVE RemInv'
  <2>1. /\ reminder' \in [Date -> E!Status]
        /\ \A x \in Date, s \in {"sending", "accepted"} : reminder'[x] = s <=> reminder[x] = s
    <3>1. CASE d # E!Never /\ standing
      <4>1. d \in Date /\ reminder' = E!Revived(E!Enqueued(E!Canceled(reminder), d), d)
        BY <1>2, <3>1 DEF E!SetExpiry
      <4> DEFINE canceled == E!Canceled(reminder)
                 queued == E!Enqueued(canceled, d)
      <4>2. canceled \in [Date -> E!Status] /\ \A x \in Date, s \in {"sending", "accepted"} : canceled[x] = s <=> reminder[x] = s
        BY <1>1, RemCanceled
      <4> HIDE DEF canceled
      <4>3. queued \in [Date -> E!Status] /\ \A x \in Date, s \in {"sending", "accepted"} : queued[x] = s <=> canceled[x] = s
        BY <4>1, <4>2, RemRows
      <4> HIDE DEF queued
      <4>4. /\ E!Revived(queued, d) \in [Date -> E!Status]
            /\ \A x \in Date, s \in {"sending", "accepted"} : E!Revived(queued, d)[x] = s <=> queued[x] = s
        BY <4>1, <4>3, RemRows
      <4>5. reminder' = E!Revived(queued, d)
        BY <4>1 DEF queued, canceled
      <4> QED
        BY <4>2, <4>3, <4>4, <4>5
    <3>2. CASE ~ (d # E!Never /\ standing)
      BY <1>1, <1>2, <3>2, RemCanceled DEF E!SetExpiry
    <3> QED
      BY <3>1, <3>2
  <2> QED
    BY <1>1, <1>2, <2>1, RemMoves DEF E!SetExpiry
<1>3. ASSUME NEW d \in Date, E!Renew(d) PROVE RemInv'
  <2>1. /\ reminder' \in [Date -> E!Status]
        /\ \A x \in Date, s \in {"sending", "accepted"} : reminder'[x] = s <=> reminder[x] = s
    BY <1>1, <1>3, RemRows DEF E!Renew
  <2> QED
    BY <1>3, <2>1, RemMoves DEF E!Renew
<1>4. CASE E!Revoke
  BY <1>1, <1>4, RemMoves DEF E!Revoke
<1>5. CASE E!Scan
  <2>1. /\ reminder' \in [Date -> E!Status]
        /\ \A x \in Date, s \in {"sending", "accepted"} : reminder'[x] = s <=> reminder[x] = s
    BY <1>1, <1>5, RemRows DEF E!Scan
  <2> QED
    BY <1>1, <1>5, <2>1, RemMoves DEF E!Scan
<1> QED
  BY <1>2, <1>3, <1>4, <1>5

\* One worker at a time sends a reminder.
LEMMA RemClaims ==
  ASSUME RemInv, NEW w \in Tx, NEW d \in Date, E!Claim(w, d)
  PROVE  RemInv'
<1>1. /\ worker[w].at = "idle" /\ reminder[d] = "pending" /\ reminder' = [reminder EXCEPT ![d] = "sending"]
      /\ worker' = [worker EXCEPT ![w] = [at |-> "claimed", date |-> d]]
      /\ held' = [held EXCEPT ![w] = E!Stands] /\ UNCHANGED <<kind, expiry, standing, moves, mailed>>
  BY DEF E!Claim
<1>2. /\ worker' \in [Tx -> RemWork] /\ worker'[w].at = "claimed" /\ worker'[w].date = d
      /\ \A v \in Tx \ {w} : worker'[v] = worker[v]
  BY <1>1 DEF RemInv, RemTypes, E!TypeOK, RemWork
<1>3. reminder' \in [Date -> E!Status] /\ reminder'[d] = "sending" /\ \A x \in Date \ {d} : reminder'[x] = reminder[x]
  BY <1>1 DEF RemInv, RemTypes, E!TypeOK, E!Status
<1>4. E!Stands' = E!Stands /\ E!Stands \subseteq Date \cup {E!Never}
  BY <1>1 DEF E!Stands, RemInv, RemTypes, E!TypeOK
<1>5. /\ held' \in [Tx -> SUBSET (Date \cup {E!Never})] /\ held'[w] = E!Stands
      /\ \A v \in Tx \ {w} : held'[v] = held[v]
  BY <1>1, <1>4 DEF RemInv, RemTypes
<1>6. RemTypes'
  BY <1>1, <1>2, <1>3, <1>5 DEF RemInv, RemTypes, E!TypeOK, RemWork, E!Status
<1>7. \A v \in Tx \ {w} : worker[v].at # "idle" => worker[v].date # d
  BY <1>1 DEF RemInv, RemSent
<1>8. RemSent'
  <2>1. \A x \in Date : mailed'[x] = IF reminder'[x] = "accepted" THEN 1 ELSE 0
    BY <1>1, <1>3 DEF RemInv, RemSent
  <2>2. ASSUME NEW v \in Tx, worker'[v].at # "idle" PROVE worker'[v].date \in Date /\ reminder'[worker'[v].date] = "sending"
    BY <1>2, <1>3, <1>7, <2>2 DEF RemInv, RemSent
  <2>3. ASSUME NEW u \in Tx, NEW v \in Tx, u # v, worker'[u].at # "idle", worker'[v].at # "idle"
        PROVE  worker'[u].date # worker'[v].date
    BY <1>2, <1>7, <2>3 DEF RemInv, RemSent
  <2> QED
    BY <2>1, <2>2, <2>3 DEF RemSent
<1>9. RemHeld'
  <2>1. ASSUME NEW v \in Tx PROVE (worker'[v].at # "idle" => E!Stands' \subseteq held'[v]) /\ (worker'[v].at = "current" => worker'[v].date \in held'[v])
    BY <1>2, <1>4, <1>5 DEF RemInv, RemHeld
  <2> QED
    BY <2>1 DEF RemHeld
<1> QED
  BY <1>6, <1>8, <1>9 DEF RemInv

LEMMA RemChecks ==
  ASSUME RemInv, NEW w \in Tx, E!Check(w)
  PROVE  RemInv'
<1> DEFINE at == IF E!Current(worker[w].date) THEN "current" ELSE "stale"
<1>1. /\ worker[w].at = "claimed" /\ worker' = [worker EXCEPT ![w].at = at]
      /\ UNCHANGED <<kind, expiry, standing, reminder, moves, mailed, held>>
  BY DEF E!Check
<1>2. at \in {"current", "stale"} /\ (at = "current" => worker[w].date \in E!Stands)
  BY DEF E!Current, E!Stands
<1> HIDE DEF at
<1>3. /\ worker' \in [Tx -> RemWork] /\ worker'[w].at = at /\ worker'[w].date = worker[w].date
      /\ \A v \in Tx \ {w} : worker'[v] = worker[v]
  BY <1>1, <1>2 DEF RemInv, RemTypes, E!TypeOK, RemWork
<1>4. RemTypes'
  BY <1>1, <1>3 DEF RemInv, RemTypes, E!TypeOK, RemWork
<1>5. RemSent'
  <2>1. \A v \in Tx : worker'[v].date = worker[v].date /\ (worker'[v].at # "idle" => worker[v].at # "idle")
    BY <1>1, <1>2, <1>3
  <2> QED
    BY <1>1, <2>1 DEF RemInv, RemSent
<1>6. RemHeld'
  <2>1. E!Stands' = E!Stands
    BY <1>1 DEF E!Stands
  <2>2. ASSUME NEW v \in Tx PROVE (worker'[v].at # "idle" => E!Stands' \subseteq held'[v]) /\ (worker'[v].at = "current" => worker'[v].date \in held'[v])
    BY <1>1, <1>2, <1>3, <2>1 DEF RemInv, RemHeld
  <2> QED
    BY <2>2 DEF RemHeld
<1> QED
  BY <1>4, <1>5, <1>6 DEF RemInv

\* A worker is done with its reminder, which was mailed if it is accepted.
LEMMA RemFinishes ==
  ASSUME RemInv, NEW w \in Tx, worker[w].at # "idle", NEW s \in {"accepted", "pending", "failed", "obsolete"},
         E!Finish(w, s), UNCHANGED <<kind, expiry, standing, moves, held>>,
         mailed' = IF s = "accepted" THEN [mailed EXCEPT ![worker[w].date] = @ + 1] ELSE mailed
  PROVE  RemInv'
<1> DEFINE d == worker[w].date
<1>1. d \in Date /\ reminder[d] = "sending" /\ mailed[d] = 0
  BY DEF RemInv, RemSent
<1>2. reminder' \in [Date -> E!Status] /\ reminder'[d] = s /\ \A x \in Date \ {d} : reminder'[x] = reminder[x]
  <2>1. reminder' = [reminder EXCEPT ![d] = s]
    BY <1>1 DEF E!Finish
  <2> QED
    BY <1>1, <2>1 DEF RemInv, RemTypes, E!TypeOK, E!Status
<1>3. worker' \in [Tx -> RemWork] /\ worker'[w].at = "idle" /\ \A v \in Tx \ {w} : worker'[v] = worker[v]
  BY DEF E!Finish, RemInv, RemTypes, E!TypeOK, RemWork
<1>4. /\ mailed' \in [Date -> Nat] /\ mailed'[d] = (IF s = "accepted" THEN 1 ELSE 0)
      /\ \A x \in Date \ {d} : mailed'[x] = mailed[x]
  <2>1. CASE s = "accepted"
    BY <1>1, <2>1 DEF RemInv, RemTypes
  <2>2. CASE s # "accepted"
    BY <1>1, <2>2 DEF RemInv, RemTypes
  <2> QED
    BY <2>1, <2>2
<1>5. RemTypes'
  BY <1>2, <1>3, <1>4 DEF RemInv, RemTypes, E!TypeOK, RemWork, E!Status
<1>6. \A v \in Tx \ {w} : worker[v].at # "idle" => worker[v].date # d
  BY DEF RemInv, RemSent
<1> HIDE DEF d
<1>7. RemSent'
  <2>1. \A x \in Date : mailed'[x] = IF reminder'[x] = "accepted" THEN 1 ELSE 0
    BY <1>1, <1>2, <1>4 DEF RemInv, RemSent
  <2>2. ASSUME NEW v \in Tx, worker'[v].at # "idle" PROVE worker'[v].date \in Date /\ reminder'[worker'[v].date] = "sending"
    BY <1>2, <1>3, <1>6, <2>2 DEF RemInv, RemSent
  <2>3. ASSUME NEW u \in Tx, NEW v \in Tx, u # v, worker'[u].at # "idle", worker'[v].at # "idle"
        PROVE  worker'[u].date # worker'[v].date
    BY <1>3, <2>3 DEF RemInv, RemSent
  <2> QED
    BY <2>1, <2>2, <2>3 DEF RemSent
<1>8. RemHeld'
  <2>1. E!Stands' = E!Stands
    BY DEF E!Stands
  <2>2. ASSUME NEW v \in Tx PROVE (worker'[v].at # "idle" => E!Stands' \subseteq held'[v]) /\ (worker'[v].at = "current" => worker'[v].date \in held'[v])
    BY <1>3, <2>1 DEF RemInv, RemHeld
  <2> QED
    BY <2>2 DEF RemHeld
<1> QED
  BY <1>5, <1>7, <1>8 DEF RemInv

LEMMA RemInit ==
  ASSUME Horizon \in Nat, E!Init
  PROVE  RemInv
<1>1. RemTypes
  BY DEF E!Init, RemTypes, E!TypeOK, E!Status
<1>2. RemSent /\ RemHeld
  BY DEF E!Init, RemSent, RemHeld
<1> QED
  BY <1>1, <1>2 DEF RemInv

LEMMA RemNext ==
  ASSUME Horizon \in Nat, RemInv, E!Next
  PROVE  RemInv'
<1>1. ASSUME NEW w \in Tx, E!Drop(w) PROVE RemInv'
  BY <1>1, RemFinishes DEF E!Drop
<1>2. ASSUME NEW w \in Tx, E!Send(w) PROVE RemInv'
  BY <1>2, RemFinishes DEF E!Send
<1> QED
  BY <1>1, <1>2, RemSource, RemClaims, RemChecks DEF E!Next

LEMMA RemStutters ==
  ASSUME RemInv, UNCHANGED E!vars
  PROVE  RemInv'
BY DEF E!vars, RemInv, RemTypes, E!TypeOK, RemSent, RemHeld, E!Stands

\* What is mailed was checked against its source.
LEMMA RemTrue ==
  ASSUME RemInv
  PROVE  /\ E!OneReminder
         /\ \A w \in Tx : worker[w].at = "current" => worker[w].date \in held[w]
BY DEF RemInv, RemSent, RemHeld, E!OneReminder

\* One reminder goes out about each date, for any dates and any number of
\* workers and of moves of the source.
THEOREM RemindersCorrect ==
  ASSUME Horizon \in Nat
  PROVE  E!Spec => []E!OneReminder
<1>1. E!Init => RemInv
  BY RemInit
<1>2. RemInv /\ [E!Next]_E!vars => RemInv'
  BY RemNext, RemStutters
<1>3. RemInv => E!OneReminder
  BY RemTrue
<1> QED
  BY <1>1, <1>2, <1>3, PTL DEF E!Spec

-----------------------------------------------------------------------------
(* Registrations.                                                          *)

RegBounds == Email \subseteq Nat \ {0} /\ "none" \notin {a, b} \cup Token

RegRow == [person : {a, b} \cup {"none"}, token : Token \cup {"none"}, live : BOOLEAN]
RegTx == [pc : {"idle", "lock", "run"}, do : {"none", "sign up", "resend", "confirm"}, person : {a, b} \cup {"none"},
          email : Email \cup {0}, new : Email \cup {0}, token : Token \cup {"none"},
          want : SUBSET Email, locked : SUBSET Email]

RegTypes ==
  /\ pending \in [Email -> RegRow]
  /\ account \in [Email -> [person : {a, b} \cup {"none"}, token : Token \cup {"none"}]]
  /\ mail \in [Token -> [email : Email \cup {0}, person : {a, b} \cup {"none"}]]
  /\ confirming \in [Tx -> RegTx]

\* The link of a request that waits was mailed to where the request is now.
RegMailed ==
  \A e \in Email : pending[e] # R!NoRow =>
    pending[e].token \in Token /\ mail[pending[e].token] = [email |-> e, person |-> pending[e].person]

\* What a transaction has locked comes before what it still wants.
RegOrdered(t) ==
  /\ confirming[t].pc = "lock" =>
               /\ \E x, y \in Email : confirming[t].want = {x, y}
               /\ \A x \in confirming[t].locked, y \in confirming[t].want : x < y
  /\ confirming[t].do \in {"sign up", "resend"} => confirming[t].person \in {a, b} /\ confirming[t].email \in Email
  /\ confirming[t].do = "resend" => confirming[t].new \in Email
  /\ confirming[t].do = "confirm" => confirming[t].token \in Token

RegProven == R!AddressProven /\ \A e \in Email : account[e] # R!NoAccount => account[e].token \in Token

RegInv == RegTypes /\ RegMailed /\ RegProven /\ \A t \in Tx : RegOrdered(t)

LEMMA RegIdle ==
  ASSUME RegBounds
  PROVE  /\ R!Idle \in RegTx /\ R!Idle.pc = "idle" /\ R!Idle.do = "none" /\ R!Idle.locked = {}
         /\ R!NoRow \in RegRow /\ R!NoRow.live = FALSE
BY DEF R!Idle, RegTx, R!NoRow, RegRow

LEMMA RegMin ==
  ASSUME RegBounds, NEW x \in Email, NEW y \in Email
  PROVE  R!Min({x, y}) \in {x, y} /\ \A z \in {x, y} : R!Min({x, y}) <= z
<1>1. \E m \in {x, y} : \A z \in {x, y} : m <= z
  BY DEF RegBounds
<1> QED
  BY <1>1 DEF R!Min

LEMMA RegStays ==
  ASSUME NEW u \in Tx, confirming'[u] = confirming[u], RegOrdered(u)
  PROVE  RegOrdered(u)'
<1>1. RegOrdered(u)' <=> RegOrdered(u)
  BY Zenon DEF RegOrdered
<1> QED
  BY <1>1

\* A step of one transaction that writes nothing.
LEMMA RegMoves ==
  ASSUME RegInv, NEW t \in Tx, NEW r \in RegTx, confirming' = [confirming EXCEPT ![t] = r], UNCHANGED <<pending, account, mail>>,
         RegOrdered(t)'
  PROVE  RegInv'
<1>1. confirming' \in [Tx -> RegTx] /\ \A u \in Tx \ {t} : confirming'[u] = confirming[u]
  BY DEF RegInv, RegTypes
<1>2. RegTypes' /\ RegMailed' /\ RegProven'
  BY <1>1 DEF RegInv, RegTypes, RegMailed, RegProven, R!AddressProven
<1>3. ASSUME NEW u \in Tx \ {t} PROVE RegOrdered(u)'
  <2>1. confirming'[u] = confirming[u] /\ RegOrdered(u)
    BY <1>1 DEF RegInv
  <2> QED
    BY <2>1, RegStays
<1> QED
  BY <1>2, <1>3 DEF RegInv

\* A step that ends one, with what it writes.
LEMMA RegEnds ==
  ASSUME RegBounds, RegInv, NEW t \in Tx, R!Leave(t), pending' \in [Email -> RegRow],
         account' \in [Email -> [person : {a, b} \cup {"none"}, token : Token \cup {"none"}]],
         mail' \in [Token -> [email : Email \cup {0}, person : {a, b} \cup {"none"}]],
         RegMailed', RegProven'
  PROVE  RegInv'
<1>1. confirming' \in [Tx -> RegTx] /\ confirming'[t] = R!Idle /\ \A u \in Tx \ {t} : confirming'[u] = confirming[u]
  BY RegIdle DEF RegInv, RegTypes, R!Leave
<1>2. \A u \in Tx : RegOrdered(u)'
  <2>1. RegOrdered(t)'
    BY <1>1, RegIdle DEF RegOrdered
  <2>2. ASSUME NEW u \in Tx \ {t} PROVE RegOrdered(u)'
    <3>1. confirming'[u] = confirming[u] /\ RegOrdered(u)
      BY <1>1 DEF RegInv
    <3> QED
      BY <3>1, RegStays
  <2> QED
    BY <2>1, <2>2
<1> QED
  BY <1>1, <1>2 DEF RegInv, RegTypes

LEMMA RegBegins ==
  ASSUME RegBounds, RegInv, NEW t \in Tx,
         \/ \E p \in {a, b}, e \in Email : R!BeginSignUp(t, p, e) \/ \E new \in Email : R!BeginResend(t, p, e, new)
         \/ \E k \in Token : R!BeginConfirm(t, k)
  PROVE  RegInv'
<1>1. ASSUME NEW r \in RegTx, confirming' = [confirming EXCEPT ![t] = r], UNCHANGED <<pending, account, mail>>,
             r.locked = {}, \E x, y \in Email : r.want = {x, y},
             r.do \in {"sign up", "resend"} => r.person \in {a, b} /\ r.email \in Email,
             r.do = "resend" => r.new \in Email, r.do = "confirm" => r.token \in Token
      PROVE  RegInv'
  <2>1. confirming'[t] = r
    BY <1>1 DEF RegInv, RegTypes
  <2>2. RegOrdered(t)'
    BY <1>1, <2>1 DEF RegOrdered
  <2> QED
    BY <1>1, <2>2, RegMoves
<1>2. ASSUME NEW p \in {a, b}, NEW e \in Email, R!BeginSignUp(t, p, e) PROVE RegInv'
  <2> DEFINE r == [R!Idle EXCEPT !.pc = "lock", !.do = "sign up", !.person = p, !.email = e, !.want = {e}]
  <2>1. /\ r \in RegTx /\ r.locked = {} /\ r.want = {e, e} /\ r.do = "sign up" /\ r.person = p /\ r.email = e
    BY DEF R!Idle, RegTx
  <2>2. confirming' = [confirming EXCEPT ![t] = r] /\ UNCHANGED <<pending, account, mail>>
    BY <1>2 DEF R!BeginSignUp, R!Start
  <2> HIDE DEF r
  <2> QED
    BY <1>1, <2>1, <2>2
<1>3. ASSUME NEW p \in {a, b}, NEW e \in Email, NEW new \in Email, R!BeginResend(t, p, e, new) PROVE RegInv'
  <2> DEFINE r == [R!Idle EXCEPT !.pc = "lock", !.do = "resend", !.person = p, !.email = e, !.new = new,
                                 !.want = {e, new}]
  <2>1. /\ r \in RegTx /\ r.locked = {} /\ r.want = {e, new} /\ r.do = "resend" /\ r.person = p /\ r.email = e
        /\ r.new = new
    BY DEF R!Idle, RegTx
  <2>2. confirming' = [confirming EXCEPT ![t] = r] /\ UNCHANGED <<pending, account, mail>>
    BY <1>3 DEF R!BeginResend, R!Start
  <2> HIDE DEF r
  <2> QED
    BY <1>1, <2>1, <2>2
<1>4. ASSUME NEW k \in Token, R!BeginConfirm(t, k) PROVE RegInv'
  <2>1. PICK e \in Email :
          /\ R!Start(t, [R!Idle EXCEPT !.pc = "lock", !.do = "confirm", !.email = e, !.token = k, !.want = {e}])
          /\ UNCHANGED <<pending, account, mail>>
    BY <1>4 DEF R!BeginConfirm
  <2> DEFINE r == [R!Idle EXCEPT !.pc = "lock", !.do = "confirm", !.email = e, !.token = k, !.want = {e}]
  <2>2. /\ r \in RegTx /\ r.locked = {} /\ r.want = {e, e} /\ r.do = "confirm" /\ r.token = k
    BY DEF R!Idle, RegTx
  <2>3. confirming' = [confirming EXCEPT ![t] = r] /\ UNCHANGED <<pending, account, mail>>
    BY <2>1 DEF R!Start
  <2> HIDE DEF r
  <2> QED
    BY <1>1, <2>2, <2>3
<1> QED
  BY <1>2, <1>3, <1>4

LEMMA RegLocks ==
  ASSUME RegBounds, RegInv, NEW t \in Tx, R!TakeLock(t)
  PROVE  RegInv'
<1> DEFINE e == R!NextLock(t)
           pc == IF confirming[t].want = {e} THEN "run" ELSE "lock"
           r == [confirming[t] EXCEPT !.locked = @ \cup {e}, !.want = @ \ {e}, !.pc = pc]
<1>1. confirming[t] \in RegTx /\ confirming[t].pc = "lock" /\ RegOrdered(t)
  BY DEF RegInv, RegTypes, R!TakeLock
<1>2. PICK x, y \in Email : confirming[t].want = {x, y}
  BY <1>1 DEF RegOrdered
<1>3. e \in {x, y} /\ e <= x /\ e <= y /\ e \in Email
  BY <1>2, RegMin DEF R!NextLock
<1>4. confirming' = [confirming EXCEPT ![t] = r] /\ UNCHANGED <<pending, account, mail>>
  BY DEF R!TakeLock
<1> HIDE DEF e
<1>5. pc \in {"run", "lock"} /\ (pc = "lock" => confirming[t].want # {e})
  OBVIOUS
<1> HIDE DEF pc
<1>6. /\ r \in RegTx /\ r.locked = confirming[t].locked \cup {e} /\ r.want = confirming[t].want \ {e} /\ r.pc = pc
      /\ r.do = confirming[t].do /\ r.person = confirming[t].person /\ r.email = confirming[t].email /\ r.new = confirming[t].new
      /\ r.token = confirming[t].token
  BY <1>1, <1>3, <1>5 DEF RegTx
<1> HIDE DEF r
<1>7. confirming'[t] = r
  BY <1>4 DEF RegInv, RegTypes
<1>8. ASSUME pc = "lock"
      PROVE  (\E v, w \in Email : r.want = {v, w}) /\ \A v \in r.locked, w \in r.want : v < w
  <2>1. x # y
    BY <1>2, <1>3, <1>5, <1>8
  <2>2. CASE e = x
    <3>1. r.want = {y, y} /\ e < y
      BY <1>2, <1>3, <1>6, <2>1, <2>2 DEF RegBounds
    <3> QED
      BY <1>1, <1>2, <1>6, <3>1 DEF RegOrdered
  <2>3. CASE e = y
    <3>1. r.want = {x, x} /\ e < x
      BY <1>2, <1>3, <1>6, <2>1, <2>3 DEF RegBounds
    <3> QED
      BY <1>1, <1>2, <1>6, <3>1 DEF RegOrdered
  <2> QED
    BY <1>3, <2>2, <2>3
<1>9. RegOrdered(t)'
  BY <1>1, <1>6, <1>7, <1>8 DEF RegOrdered
<1> QED
  BY <1>4, <1>6, <1>9, RegMoves

\* A new link is mailed; those that were mailed stay.
LEMMA RegMails ==
  ASSUME RegBounds, RegInv, NEW k \in Token, NEW e \in Email, NEW p \in {a, b}, R!Mail(k, e, p)
  PROVE  /\ mail' \in [Token -> [email : Email \cup {0}, person : {a, b} \cup {"none"}]]
         /\ mail'[k] = [email |-> e, person |-> p]
         /\ \A d \in Email : pending[d] # R!NoRow => mail'[pending[d].token] = mail[pending[d].token]
         /\ \A d \in Email : account[d] # R!NoAccount => mail'[account[d].token] = mail[account[d].token]
<1>1. mail[k] = R!NotSent /\ mail' = [mail EXCEPT ![k] = [email |-> e, person |-> p]]
  BY DEF R!Mail
<1>2. mail \in [Token -> [email : Email \cup {0}, person : {a, b} \cup {"none"}]]
  BY DEF RegInv, RegTypes
<1>3. /\ mail' \in [Token -> [email : Email \cup {0}, person : {a, b} \cup {"none"}]]
      /\ mail'[k] = [email |-> e, person |-> p] /\ \A j \in Token \ {k} : mail'[j] = mail[j]
  BY <1>1, <1>2
<1>4. \A d \in Email : \A q : mail[k] # [email |-> d, person |-> q]
  BY <1>1 DEF R!NotSent, RegBounds
<1>5. ASSUME NEW d \in Email, pending[d] # R!NoRow PROVE mail'[pending[d].token] = mail[pending[d].token]
  <2>1. pending[d].token \in Token /\ pending[d].token # k
    BY <1>4, <1>5 DEF RegInv, RegMailed
  <2> QED
    BY <1>3, <2>1
<1>6. ASSUME NEW d \in Email, account[d] # R!NoAccount PROVE mail'[account[d].token] = mail[account[d].token]
  <2>1. account[d].token \in Token /\ account[d].token # k
    BY <1>4, <1>6 DEF RegInv, RegProven, R!AddressProven
  <2> QED
    BY <1>3, <2>1
<1> QED
  BY <1>3, <1>5, <1>6

LEMMA RegSigns ==
  ASSUME RegBounds, RegInv, NEW t \in Tx, R!SignUp(t)
  PROVE  RegInv'
<1> DEFINE e == confirming[t].email
           p == confirming[t].person
<1>1. e \in Email /\ p \in {a, b}
  BY DEF R!SignUp, RegInv, RegOrdered
<1>2. PICK k \in Token : /\ R!Mail(k, e, p)
                         /\ pending' = [pending EXCEPT ![e] = [person |-> p, token |-> k, live |-> TRUE]]
  BY DEF R!SignUp
<1>3. R!Leave(t) /\ UNCHANGED account
  BY DEF R!SignUp
<1> HIDE DEF e, p
<1>4. /\ mail' \in [Token -> [email : Email \cup {0}, person : {a, b} \cup {"none"}]]
      /\ mail'[k] = [email |-> e, person |-> p]
      /\ \A d \in Email : pending[d] # R!NoRow => mail'[pending[d].token] = mail[pending[d].token]
      /\ \A d \in Email : account[d] # R!NoAccount => mail'[account[d].token] = mail[account[d].token]
  BY <1>1, <1>2, RegMails
<1>5. [person |-> p, token |-> k, live |-> TRUE] \in RegRow
  BY <1>1 DEF RegRow
<1>6. /\ pending' \in [Email -> RegRow] /\ pending'[e].token = k /\ pending'[e].person = p
      /\ \A d \in Email \ {e} : pending'[d] = pending[d]
  BY <1>1, <1>2, <1>5 DEF RegInv, RegTypes
<1>7. RegMailed'
  <2> SUFFICES ASSUME NEW d \in Email, pending'[d] # R!NoRow
               PROVE  pending'[d].token \in Token /\ mail'[pending'[d].token] = [email |-> d, person |-> pending'[d].person]
    BY DEF RegMailed
  <2>1. CASE d = e
    BY <1>4, <1>6, <2>1
  <2>2. CASE d # e
    BY <1>4, <1>6, <2>2 DEF RegInv, RegMailed
  <2> QED
    BY <2>1, <2>2
<1>8. RegProven'
  BY <1>3, <1>4 DEF RegInv, RegProven, R!AddressProven
<1> QED
  BY <1>3, <1>4, <1>6, <1>7, <1>8, RegEnds DEF RegInv, RegTypes

LEMMA RegResends ==
  ASSUME RegBounds, RegInv, NEW t \in Tx, R!Resend(t)
  PROVE  RegInv'
<1> DEFINE e == confirming[t].email
           new == confirming[t].new
           p == confirming[t].person
<1>1. e \in Email /\ new \in Email /\ p \in {a, b} /\ pending[e].person = p
  BY DEF R!Resend, RegInv, RegOrdered
<1>2. PICK k \in Token : /\ R!Mail(k, new, p)
                         /\ pending' = [[pending EXCEPT ![e] = R!NoRow] EXCEPT ![new] = R!Moved(pending[e], k)]
  BY DEF R!Resend
<1>3. R!Leave(t) /\ UNCHANGED account
  BY DEF R!Resend
<1> HIDE DEF e, p, new
<1>4. /\ mail' \in [Token -> [email : Email \cup {0}, person : {a, b} \cup {"none"}]]
      /\ mail'[k] = [email |-> new, person |-> p]
      /\ \A d \in Email : pending[d] # R!NoRow => mail'[pending[d].token] = mail[pending[d].token]
      /\ \A d \in Email : account[d] # R!NoAccount => mail'[account[d].token] = mail[account[d].token]
  BY <1>1, <1>2, RegMails
<1> DEFINE row == R!Moved(pending[e], k)
<1>5. row \in RegRow /\ row.token = k /\ row.person = p
  <2>1. pending[e] \in RegRow /\ pending[e].person = p
    BY <1>1 DEF RegInv, RegTypes
  <2> QED
    BY <2>1 DEF R!Moved, RegRow
<1> HIDE DEF row
<1>6. /\ pending' \in [Email -> RegRow] /\ pending'[new] = row
      /\ \A d \in Email \ {new} : pending'[d] = pending[d] \/ pending'[d] = R!NoRow
  BY <1>1, <1>2, <1>5, RegIdle DEF RegInv, RegTypes, row
<1>7. RegMailed'
  <2> SUFFICES ASSUME NEW d \in Email, pending'[d] # R!NoRow
               PROVE  pending'[d].token \in Token /\ mail'[pending'[d].token] = [email |-> d, person |-> pending'[d].person]
    BY DEF RegMailed
  <2>1. CASE d = new
    BY <1>4, <1>5, <1>6, <2>1
  <2>2. CASE d # new
    BY <1>4, <1>6, <2>2 DEF RegInv, RegMailed
  <2> QED
    BY <2>1, <2>2
<1>8. RegProven'
  BY <1>3, <1>4 DEF RegInv, RegProven, R!AddressProven
<1> QED
  BY <1>3, <1>4, <1>6, <1>7, <1>8, RegEnds DEF RegInv, RegTypes

\* The request that is found by a link is where the link was mailed to.
LEMMA RegConfirms ==
  ASSUME RegBounds, RegInv, NEW t \in Tx, R!Confirm(t)
  PROVE  RegInv'
<1> DEFINE row == R!Found(t)
           e == R!At(row)
           k == confirming[t].token
<1>1. k \in Token
  BY DEF R!Confirm, RegInv, RegOrdered
<1>2. /\ row # R!NoRow /\ account' = [account EXCEPT ![e] = [person |-> row.person, token |-> k]]
      /\ pending' = [pending EXCEPT ![e] = R!NoRow] /\ R!Leave(t) /\ UNCHANGED mail
  BY DEF R!Confirm
<1>3. PICK d \in Email : pending[d].token = k /\ pending[d] = row
  <2> DEFINE rows == {pending[x] : x \in {d \in Email : pending[d].token = k}}
  <2>1. row = IF rows = {} THEN R!NoRow ELSE CHOOSE r \in rows : TRUE
    BY DEF R!Found
  <2>2. rows # {}
    BY <1>2, <2>1
  <2>3. row \in rows
    BY <2>1, <2>2
  <2> QED
    BY <2>3
<1>4. e \in Email /\ pending[e] = row
  BY <1>3 DEF R!At
<1> HIDE DEF row, e, k
<1>5. row \in RegRow /\ row.token = k /\ mail[k] = [email |-> e, person |-> row.person]
  BY <1>2, <1>3, <1>4 DEF RegInv, RegTypes, RegMailed
<1>6. /\ account' \in [Email -> [person : {a, b} \cup {"none"}, token : Token \cup {"none"}]]
      /\ account'[e] = [person |-> row.person, token |-> k] /\ \A x \in Email \ {e} : account'[x] = account[x]
  BY <1>1, <1>2, <1>4, <1>5 DEF RegInv, RegTypes, RegRow
<1>7. pending' \in [Email -> RegRow] /\ \A x \in Email : pending'[x] = pending[x] \/ pending'[x] = R!NoRow
  BY <1>2, <1>4, RegIdle DEF RegInv, RegTypes
<1>8. RegMailed'
  BY <1>2, <1>7 DEF RegInv, RegMailed
<1>9. RegProven'
  <2> SUFFICES ASSUME NEW x \in Email, account'[x] # R!NoAccount
               PROVE  account'[x].token \in Token /\ mail'[account'[x].token] = [email |-> x, person |-> account'[x].person]
    BY DEF RegProven, R!AddressProven
  <2>1. CASE x = e
    BY <1>1, <1>2, <1>5, <1>6, <2>1
  <2>2. CASE x # e
    BY <1>2, <1>6, <2>2 DEF RegInv, RegProven, R!AddressProven
  <2> QED
    BY <2>1, <2>2
<1> QED
  BY <1>2, <1>6, <1>7, <1>8, <1>9, RegEnds DEF RegInv, RegTypes

LEMMA RegAborts ==
  ASSUME RegBounds, RegInv, NEW t \in Tx, R!Abort(t)
  PROVE  RegInv'
<1>1. R!Leave(t) /\ UNCHANGED <<pending, account, mail>>
  BY DEF R!Abort
<1>2. RegMailed' /\ RegProven'
  BY <1>1 DEF RegInv, RegMailed, RegProven, R!AddressProven
<1> QED
  BY <1>1, <1>2, RegEnds DEF RegInv, RegTypes

LEMMA RegPrunes ==
  ASSUME RegBounds, RegInv, R!Prune \/ (\E e \in Email : R!Expire(e)) \/ UNCHANGED R!vars
  PROVE  RegInv'
<1>1. UNCHANGED <<account, mail, confirming>>
  BY DEF R!Prune, R!Expire, R!vars
<1> DEFINE Kept(e) == \/ pending'[e] \in {R!NoRow, pending[e]}
                      \/ /\ pending[e].live
                         /\ pending'[e].token = pending[e].token /\ pending'[e].person = pending[e].person
<1>2. pending' \in [Email -> RegRow] /\ \A e \in Email : Kept(e)
  <2>1. ASSUME NEW e \in Email, R!Expire(e) PROVE pending' \in [Email -> RegRow] /\ \A d \in Email : Kept(d)
    <3>1. pending \in [Email -> RegRow] /\ pending' = [pending EXCEPT ![e].live = FALSE] /\ pending[e].live
      BY <2>1 DEF R!Expire, RegInv, RegTypes
    <3> DEFINE row == [pending[e] EXCEPT !.live = FALSE]
    <3>2. row \in RegRow /\ row.token = pending[e].token /\ row.person = pending[e].person
      BY <3>1 DEF RegRow
    <3>3. pending' = [pending EXCEPT ![e] = row]
      BY <3>1
    <3> QED
      BY <3>1, <3>2, <3>3
  <2>2. CASE R!Prune
    <3>1. pending' = [e \in Email |-> IF pending[e].live THEN pending[e] ELSE R!NoRow]
      BY <2>2 DEF R!Prune
    <3> QED
      BY <3>1, RegIdle DEF RegInv, RegTypes
  <2>3. CASE UNCHANGED R!vars
    BY <2>3 DEF R!vars, RegInv, RegTypes
  <2> QED
    BY <2>1, <2>2, <2>3
<1>3. RegTypes'
  BY <1>1, <1>2 DEF RegInv, RegTypes
<1>4. RegMailed'
  BY <1>1, <1>2, RegIdle DEF RegInv, RegMailed
<1>5. RegProven' /\ \A t \in Tx : RegOrdered(t)'
  BY <1>1 DEF RegInv, RegProven, R!AddressProven, RegOrdered
<1> QED
  BY <1>3, <1>4, <1>5 DEF RegInv

LEMMA RegInit ==
  ASSUME RegBounds, R!Init
  PROVE  RegInv
<1>1. RegTypes
  BY RegIdle DEF R!Init, RegTypes, R!NoAccount, R!NotSent
<1>2. RegMailed /\ RegProven
  BY DEF R!Init, RegMailed, RegProven, R!AddressProven
<1>3. \A t \in Tx : RegOrdered(t)
  BY RegIdle DEF R!Init, RegOrdered
<1> QED
  BY <1>1, <1>2, <1>3 DEF RegInv

LEMMA RegNext ==
  ASSUME RegBounds, RegInv, R!Next
  PROVE  RegInv'
BY RegBegins, RegLocks, RegSigns, RegResends, RegConfirms, RegAborts, RegPrunes DEF R!Next

\* Nobody waits in a circle: the locks are taken in the order of the addresses.
LEMMA RegSound ==
  ASSUME RegBounds, RegInv
  PROVE  R!TypeOK /\ R!AddressProven /\ R!NoWaitingInACircle
<1>1. R!TypeOK /\ R!AddressProven
  BY DEF RegInv, RegTypes, R!TypeOK, RegProven, RegRow, RegTx
<1>2. ASSUME NEW t \in Tx, NEW u \in Tx, confirming[t].pc = "lock", confirming[u].pc = "lock",
             R!NextLock(t) \in confirming[u].locked, R!NextLock(u) \in confirming[t].locked
      PROVE  FALSE
  <2>1. \A s \in {t, u} : R!NextLock(s) \in confirming[s].want /\ confirming[s].want \subseteq Email
    <3> TAKE s \in {t, u}
    <3>1. PICK x, y \in Email : confirming[s].want = {x, y}
      BY <1>2 DEF RegInv, RegOrdered
    <3> QED
      BY <3>1, RegMin DEF R!NextLock
  <2>2. R!NextLock(t) < R!NextLock(u) /\ R!NextLock(u) < R!NextLock(t)
    BY <1>2, <2>1 DEF RegInv, RegOrdered
  <2>3. R!NextLock(t) \in Nat /\ R!NextLock(u) \in Nat
    BY <2>1 DEF RegBounds
  <2> HIDE DEF R!NextLock
  <2> QED
    BY <2>2, <2>3
<1> QED
  BY <1>1, <1>2 DEF R!NoWaitingInACircle

\* An account belongs to whoever asked for the link that made it, which was
\* mailed to its address, and nobody waits in a circle, for any addresses,
\* links and transactions.
THEOREM RegistrationsCorrect ==
  ASSUME RegBounds
  PROVE  R!Spec => [](R!AddressProven /\ R!NoWaitingInACircle)
<1>1. R!Init => RegInv
  BY RegInit
<1>2. RegInv /\ [R!Next]_R!vars => RegInv'
  BY RegNext, RegPrunes
<1>3. RegInv => R!AddressProven /\ R!NoWaitingInACircle
  BY RegSound
<1> QED
  BY <1>1, <1>2, <1>3, PTL DEF R!Spec

-----------------------------------------------------------------------------
(* The staff console.                                                      *)

DeskBounds == MaxRevision \in Nat /\ "none" \notin User \cup Tx

DeskUser == [active : BOOLEAN, role : S!Role, revision : 0 .. MaxRevision]
DeskTx == [pc : {"idle", "wait", "run"}, do : {"none", "suspend", "restore", "role", "profile", "issue"},
           actor : User \cup {"none"}, target : User \cup {"none"}, as : S!Role, seen : Nat, role : S!Role,
           request : Request \cup {"none"}]

DeskTypes ==
  /\ user \in [User -> DeskUser] /\ tx \in [Tx -> DeskTx] /\ writer \in Tx \cup {"none"}
  /\ saved \in [Request -> [actor : User \cup {"none"}, target : User \cup {"none"}]]
  /\ granted \in [Request -> Nat]

DeskAsked(t) ==
  /\ tx[t].pc = "run" => writer = t
  /\ tx[t].pc # "idle" =>
       /\ tx[t].actor \in User /\ tx[t].target \in User
       /\ tx[t].do = "issue" => tx[t].request \in Request
       /\ tx[t].do # "issue" => tx[t].seen < MaxRevision

\* An id has brought something if it is saved.
DeskIssued == \A r \in Request : granted[r] = IF saved[r] = S!NoRequest THEN 0 ELSE 1

DeskInv == DeskTypes /\ S!AdminRemains /\ DeskIssued /\ \A t \in Tx : DeskAsked(t)

\* The instance's operator is the library's.
LEMMA SameCount == \A s : S!Cardinality(s) = Cardinality(s)
BY DEF S!Cardinality, Cardinality

LEMMA DeskIdle == S!Idle \in DeskTx /\ S!Idle.pc = "idle"
BY DEF S!Idle, DeskTx, S!Role

\* A step that writes nothing.
LEMMA DeskMoves ==
  ASSUME DeskBounds, DeskInv, NEW t \in Tx, NEW r \in DeskTx, tx' = [tx EXCEPT ![t] = r], UNCHANGED <<user, saved, granted>>,
         writer' = writer \/ (writer \in {"none", t} /\ writer' \in {"none", t}), DeskAsked(t)'
  PROVE  DeskInv'
<1>1. tx' \in [Tx -> DeskTx] /\ \A u \in Tx \ {t} : tx'[u] = tx[u]
  BY DEF DeskInv, DeskTypes
<1>2. DeskTypes' /\ S!AdminRemains' /\ DeskIssued'
  BY <1>1 DEF DeskInv, DeskTypes, S!AdminRemains, S!ActiveAdmins, DeskIssued
<1>3. ASSUME NEW u \in Tx \ {t} PROVE DeskAsked(u)'
  <2>1. tx'[u] = tx[u] /\ DeskAsked(u)
    BY <1>1 DEF DeskInv
  <2>2. tx[u].pc = "run" => writer' = u
    BY <2>1 DEF DeskAsked, DeskBounds
  <2> QED
    BY <2>1, <2>2 DEF DeskAsked
<1> QED
  BY <1>1, <1>2, <1>3 DEF DeskInv

\* A step that writes and ends the transaction.
LEMMA DeskWrites ==
  ASSUME DeskBounds, DeskInv, NEW t \in Tx, tx[t].pc = "run", S!Done(t), user' \in [User -> DeskUser],
         saved' \in [Request -> [actor : User \cup {"none"}, target : User \cup {"none"}]],
         granted' \in [Request -> Nat], S!AdminRemains', DeskIssued'
  PROVE  DeskInv'
<1>1. tx' \in [Tx -> DeskTx] /\ tx'[t] = S!Idle /\ \A u \in Tx \ {t} : tx'[u] = tx[u]
  BY DeskIdle DEF DeskInv, DeskTypes, S!Done
<1>2. writer = t /\ writer' = "none"
  BY DEF DeskInv, DeskAsked, S!Done
<1>3. ASSUME NEW u \in Tx PROVE DeskAsked(u)'
  <2>1. CASE u = t
    BY <1>1, <2>1, DeskIdle DEF DeskAsked
  <2>2. CASE u # t
    <3>1. tx'[u] = tx[u] /\ DeskAsked(u) /\ tx[u].pc # "run"
      BY <1>1, <1>2, <2>2 DEF DeskInv, DeskAsked
    <3> QED
      BY <3>1 DEF DeskAsked
  <2> QED
    BY <2>1, <2>2
<1> QED
  BY <1>1, <1>2, <1>3 DEF DeskInv, DeskTypes

\* The row of one user is revised; who was active and an administrator is so
\* still, or is not the only one.
LEMMA DeskRevises ==
  ASSUME DeskBounds, DeskInv, NEW u \in User, NEW row \in DeskUser, row.revision < MaxRevision, user' = S!Revised(u, row),
         \/ u \in S!ActiveAdmins => row.active /\ row.role = "admin"
         \/ Cardinality(S!ActiveAdmins) > 1
  PROVE  user' \in [User -> DeskUser] /\ S!AdminRemains'
<1> DEFINE new == [row EXCEPT !.revision = @ + 1]
<1>1. new \in DeskUser /\ new.active = row.active /\ new.role = row.role
  <2>1. row.revision + 1 \in 0 .. MaxRevision
    BY DEF DeskUser, DeskBounds
  <2> QED
    BY <2>1 DEF DeskUser
<1>2. user' = [user EXCEPT ![u] = new]
  BY DEF S!Revised
<1> HIDE DEF new
<1>3. user' \in [User -> DeskUser] /\ user'[u] = new /\ \A v \in User \ {u} : user'[v] = user[v]
  BY <1>1, <1>2 DEF DeskInv, DeskTypes
<1>4. CASE u \in S!ActiveAdmins => row.active /\ row.role = "admin"
  <2>1. PICK v \in User : v \in S!ActiveAdmins
    BY DEF DeskInv, S!AdminRemains, S!ActiveAdmins
  <2>2. user'[v].active /\ user'[v].role = "admin"
    <3>1. user[v].active /\ user[v].role = "admin"
      BY <2>1 DEF S!ActiveAdmins
    <3>2. CASE v = u
      BY <1>1, <1>3, <1>4, <2>1, <3>2
    <3>3. CASE v # u
      BY <1>3, <3>1, <3>3
    <3> QED
      BY <3>2, <3>3
  <2> QED
    BY <1>3, <2>2 DEF S!AdminRemains, S!ActiveAdmins
<1>5. CASE Cardinality(S!ActiveAdmins) > 1
  <2>1. S!ActiveAdmins # {} /\ S!ActiveAdmins # {u}
    <3>1. Cardinality({}) = 0
      BY FS_EmptySet
    <3>2. Cardinality({u}) = 1
      BY FS_Singleton
    <3>3. S!ActiveAdmins # {}
      BY <1>5, <3>1
    <3>4. S!ActiveAdmins # {u}
      BY <1>5, <3>2
    <3> QED
      BY <3>3, <3>4
  <2>2. PICK v \in User : v \in S!ActiveAdmins /\ v # u
    BY <2>1 DEF S!ActiveAdmins
  <2>3. user'[v].active /\ user'[v].role = "admin"
    BY <1>3, <2>2 DEF S!ActiveAdmins
  <2> QED
    BY <1>3, <2>3 DEF S!AdminRemains, S!ActiveAdmins
<1> QED
  BY <1>3, <1>4, <1>5

LEMMA DeskBegins ==
  ASSUME DeskBounds, DeskInv, NEW t \in Tx, NEW do \in {"suspend", "restore", "role", "profile", "issue"},
         NEW who \in User, NEW u \in User, NEW role \in S!Role, NEW q \in Request \cup {"none"},
         do = "issue" => q \in Request, S!Begin(t, do, who, u, role, q)
  PROVE  DeskInv'
<1> DEFINE seen == IF do = "issue" THEN 0 ELSE user[u].revision
           r == [pc |-> "wait", do |-> do, actor |-> who, target |-> u, as |-> S!RoleOf(who), seen |-> seen,
                 role |-> role, request |-> q]
<1>1. user[u] \in DeskUser /\ S!RoleOf(who) \in S!Role /\ (do = "issue" \/ user[u].revision < MaxRevision)
  BY DEF S!Begin, DeskInv, DeskTypes, DeskUser, S!RoleOf, S!Role
<1>2. seen \in Nat /\ (do # "issue" => seen < MaxRevision)
  BY <1>1 DEF DeskUser, DeskBounds
<1>3. tx' = [tx EXCEPT ![t] = r] /\ UNCHANGED <<user, saved, granted, writer>>
  BY DEF S!Begin
<1> HIDE DEF seen
<1>4. /\ r \in DeskTx /\ r.pc = "wait" /\ r.do = do /\ r.actor = who /\ r.target = u /\ r.seen = seen /\ r.request = q
  BY <1>1, <1>2 DEF DeskTx
<1> HIDE DEF r
<1>5. tx'[t] = r
  BY <1>3 DEF DeskInv, DeskTypes
<1>6. DeskAsked(t)'
  BY <1>2, <1>4, <1>5 DEF DeskAsked
<1> QED
  BY <1>3, <1>4, <1>6, DeskMoves

LEMMA DeskLocks ==
  ASSUME DeskBounds, DeskInv, NEW t \in Tx, S!TakeLock(t)
  PROVE  DeskInv'
<1> DEFINE r == [tx[t] EXCEPT !.pc = "run"]
<1>1. tx[t] \in DeskTx /\ tx[t].pc = "wait" /\ DeskAsked(t) /\ writer = "none" /\ writer' = t
  BY DEF DeskInv, DeskTypes, S!TakeLock, S!LockFree
<1>2. /\ r \in DeskTx /\ r.pc = "run" /\ r.do = tx[t].do /\ r.actor = tx[t].actor /\ r.target = tx[t].target
      /\ r.seen = tx[t].seen /\ r.request = tx[t].request
  BY <1>1 DEF DeskTx
<1>3. tx' = [tx EXCEPT ![t] = r] /\ UNCHANGED <<user, saved, granted>>
  BY DEF S!TakeLock
<1> HIDE DEF r
<1>4. tx'[t] = r
  BY <1>3 DEF DeskInv, DeskTypes
<1>5. DeskAsked(t)'
  BY <1>1, <1>2, <1>4 DEF DeskAsked
<1> QED
  BY <1>1, <1>2, <1>3, <1>5, DeskMoves

LEMMA DeskLeaves ==
  ASSUME DeskBounds, DeskInv, NEW t \in Tx, S!Leave(t)
  PROVE  DeskInv'
<1>1. /\ tx' = [tx EXCEPT ![t] = S!Idle] /\ UNCHANGED <<user, saved, granted>>
      /\ writer' = IF writer = t THEN "none" ELSE writer
  BY DEF S!Leave
<1>2. tx'[t] = S!Idle
  BY <1>1 DEF DeskInv, DeskTypes
<1>3. DeskAsked(t)'
  BY <1>2, DeskIdle DEF DeskAsked
<1> QED
  BY <1>1, <1>3, DeskIdle, DeskMoves

\* Changes of a status, of a role and of a profile.
LEMMA DeskStatus ==
  ASSUME DeskBounds, DeskInv, NEW t \in Tx, S!AccountStatus(t)
  PROVE  DeskInv'
<1> DEFINE u == tx[t].target
           yes == tx[t].do = "restore"
           row == [user[u] EXCEPT !.active = yes]
<1>1. /\ tx[t].pc = "run" /\ tx[t].do \in {"suspend", "restore"} /\ S!Spared(t) /\ S!Fresh(t) /\ S!Done(t)
      /\ user' = S!Revised(u, row) /\ UNCHANGED <<saved, granted>>
  BY DEF S!AccountStatus
<1>2. u \in User /\ user[u] \in DeskUser /\ user[u].revision < MaxRevision /\ yes \in BOOLEAN
  BY <1>1 DEF DeskInv, DeskTypes, DeskAsked, S!Fresh
<1>3. user[u].active /\ user[u].role = "admin" => yes \/ Cardinality(S!ActiveAdmins) > 1
  BY <1>1, SameCount DEF S!Spared
<1> HIDE DEF yes, u
<1>4. row \in DeskUser /\ row.active = yes /\ row.role = user[u].role /\ row.revision = user[u].revision
  BY <1>2 DEF DeskUser
<1> HIDE DEF row
<1>5. (u \in S!ActiveAdmins => row.active /\ row.role = "admin") \/ Cardinality(S!ActiveAdmins) > 1
  BY <1>3, <1>4 DEF S!ActiveAdmins
<1>6. user' \in [User -> DeskUser] /\ S!AdminRemains'
  BY <1>1, <1>2, <1>4, <1>5, DeskRevises
<1>7. DeskIssued'
  BY <1>1 DEF DeskInv, DeskIssued
<1> QED
  BY <1>1, <1>6, <1>7, DeskWrites DEF DeskInv, DeskTypes

LEMMA DeskRoles ==
  ASSUME DeskBounds, DeskInv, NEW t \in Tx, S!ChangeRole(t)
  PROVE  DeskInv' /\ S!RoleOf(tx[t].actor) = "admin"
<1> DEFINE u == tx[t].target
           row == [user[u] EXCEPT !.role = tx[t].role]
<1>1. /\ tx[t].pc = "run" /\ tx[t].do = "role" /\ S!Permitted(t) /\ S!Spared(t) /\ S!Fresh(t) /\ S!Done(t)
      /\ user' = S!Revised(u, row) /\ UNCHANGED <<saved, granted>>
  BY DEF S!ChangeRole
<1>2. u \in User /\ user[u] \in DeskUser /\ user[u].revision < MaxRevision /\ tx[t].role \in S!Role
  BY <1>1 DEF DeskInv, DeskTypes, DeskAsked, S!Fresh, DeskTx
<1>3. user[u].role = "admin" => tx[t].role = "admin" \/ Cardinality(S!ActiveAdmins) > 1
  BY <1>1, SameCount DEF S!Spared
<1> HIDE DEF u
<1>4. row \in DeskUser /\ row.active = user[u].active /\ row.role = tx[t].role /\ row.revision = user[u].revision
  BY <1>2 DEF DeskUser
<1> HIDE DEF row
<1>5. (u \in S!ActiveAdmins => row.active /\ row.role = "admin") \/ Cardinality(S!ActiveAdmins) > 1
  BY <1>3, <1>4 DEF S!ActiveAdmins
<1>6. user' \in [User -> DeskUser] /\ S!AdminRemains'
  BY <1>1, <1>2, <1>4, <1>5, DeskRevises
<1>7. DeskIssued'
  BY <1>1 DEF DeskInv, DeskIssued
<1>8. S!RoleOf(tx[t].actor) = "admin"
  BY <1>1 DEF S!Permitted, S!Actor
<1> QED
  BY <1>1, <1>6, <1>7, <1>8, DeskWrites DEF DeskInv, DeskTypes

LEMMA DeskProfiles ==
  ASSUME DeskBounds, DeskInv, NEW t \in Tx, S!Profile(t)
  PROVE  DeskInv'
<1> DEFINE u == tx[t].target
<1>1. /\ tx[t].pc = "run" /\ tx[t].do = "profile" /\ S!Fresh(t) /\ S!Done(t)
      /\ user' = S!Revised(u, user[u]) /\ UNCHANGED <<saved, granted>>
  BY DEF S!Profile
<1>2. u \in User /\ user[u] \in DeskUser /\ user[u].revision < MaxRevision
  BY <1>1 DEF DeskInv, DeskTypes, DeskAsked, S!Fresh
<1> HIDE DEF u
<1>3. user' \in [User -> DeskUser] /\ S!AdminRemains'
  BY <1>1, <1>2, DeskRevises DEF S!ActiveAdmins
<1>4. DeskIssued'
  BY <1>1 DEF DeskInv, DeskIssued
<1> QED
  BY <1>1, <1>3, <1>4, DeskWrites DEF DeskInv, DeskTypes

LEMMA DeskIssues ==
  ASSUME DeskBounds, DeskInv, NEW t \in Tx, S!Issue(t)
  PROVE  DeskInv'
<1> DEFINE q == tx[t].request
<1>1. /\ tx[t].pc = "run" /\ tx[t].do = "issue" /\ saved[q] = S!NoRequest /\ S!Done(t) /\ UNCHANGED user
      /\ saved' = [saved EXCEPT ![q] = [actor |-> tx[t].actor, target |-> tx[t].target]]
      /\ granted' = [granted EXCEPT ![q] = @ + 1]
  BY DEF S!Issue, S!Previous
<1>2. q \in Request /\ tx[t].actor \in User /\ tx[t].target \in User
  BY <1>1 DEF DeskInv, DeskAsked
<1> DEFINE row == [actor |-> tx[t].actor, target |-> tx[t].target]
<1>3. row \in [actor : User \cup {"none"}, target : User \cup {"none"}] /\ row # S!NoRequest
  BY <1>2 DEF S!NoRequest, DeskBounds
<1> HIDE DEF q, row
<1>4. /\ saved' \in [Request -> [actor : User \cup {"none"}, target : User \cup {"none"}]]
      /\ saved'[q] # S!NoRequest /\ \A x \in Request \ {q} : saved'[x] = saved[x]
  BY <1>1, <1>2, <1>3 DEF DeskInv, DeskTypes, row
<1>5. granted[q] = 0
  BY <1>1, <1>2 DEF DeskInv, DeskIssued
<1>6. granted' \in [Request -> Nat] /\ granted'[q] = 1 /\ \A x \in Request \ {q} : granted'[x] = granted[x]
  BY <1>1, <1>2, <1>5 DEF DeskInv, DeskTypes
<1>7. DeskIssued'
  BY <1>4, <1>6 DEF DeskInv, DeskIssued
<1>8. S!AdminRemains'
  BY <1>1 DEF DeskInv, S!AdminRemains, S!ActiveAdmins
<1> QED
  BY <1>1, <1>4, <1>6, <1>7, <1>8, DeskWrites DEF DeskInv, DeskTypes

LEMMA DeskUpdates ==
  ASSUME DeskBounds, DeskInv, NEW u \in User, S!UpdateProfile(u)
  PROVE  DeskInv'
<1>1. user[u] \in DeskUser /\ user[u].revision < MaxRevision /\ user' = S!Revised(u, user[u]) /\ UNCHANGED <<saved, granted, writer, tx>>
  BY DEF S!UpdateProfile, DeskInv, DeskTypes
<1>2. user' \in [User -> DeskUser] /\ S!AdminRemains'
  BY <1>1, DeskRevises DEF S!ActiveAdmins
<1>3. DeskTypes' /\ DeskIssued'
  BY <1>1, <1>2 DEF DeskInv, DeskTypes, DeskIssued
<1>4. \A t \in Tx : DeskAsked(t)'
  BY <1>1 DEF DeskInv, DeskAsked
<1> QED
  BY <1>2, <1>3, <1>4 DEF DeskInv

\* Only ChangeRole gives somebody another role.
LEMMA DeskRoleKept ==
  ASSUME DeskInv, NEW u \in User, user' = S!Revised(u, user[u])
         \/ \E yes \in BOOLEAN : user' = S!Revised(u, [user[u] EXCEPT !.active = yes])
  PROVE  \A v \in User : user'[v].role = user[v].role
<1>1. user \in [User -> DeskUser]
  BY DEF DeskInv, DeskTypes
<1>2. ASSUME NEW row \in DeskUser, row.role = user[u].role, user' = S!Revised(u, row)
      PROVE  \A v \in User : user'[v].role = user[v].role
  <2> DEFINE new == [row EXCEPT !.revision = @ + 1]
  <2>1. new.role = user[u].role
    BY <1>2 DEF DeskUser
  <2>2. user' = [user EXCEPT ![u] = new]
    BY <1>2 DEF S!Revised
  <2> HIDE DEF new
  <2> QED
    BY <1>1, <2>1, <2>2
<1>3. ASSUME NEW yes \in BOOLEAN
      PROVE  [user[u] EXCEPT !.active = yes] \in DeskUser /\ [user[u] EXCEPT !.active = yes].role = user[u].role
  BY <1>1 DEF DeskUser
<1> QED
  BY <1>1, <1>2, <1>3

LEMMA DeskInit ==
  ASSUME DeskBounds, S!Init
  PROVE  DeskInv
<1>1. user \in [User -> DeskUser]
  <2>1. {0} \subseteq 0 .. MaxRevision /\ {TRUE} \subseteq BOOLEAN
    BY DEF DeskBounds
  <2>2. [active : {TRUE}, role : S!Role, revision : {0}] \subseteq DeskUser
    BY <2>1 DEF DeskUser
  <2> QED
    BY <2>2 DEF S!Init
<1>2. S!NoRequest \in [actor : User \cup {"none"}, target : User \cup {"none"}]
  BY DEF S!NoRequest
<1>3. DeskTypes
  BY <1>1, <1>2, DeskIdle DEF S!Init, DeskTypes
<1>4. S!AdminRemains /\ DeskIssued
  BY DEF S!Init, S!AdminRemains, DeskIssued
<1>5. \A t \in Tx : DeskAsked(t)
  BY DeskIdle DEF S!Init, DeskAsked
<1> QED
  BY <1>3, <1>4, <1>5 DEF DeskInv

DeskPromoted ==
  \A u \in User : user'[u].role # user[u].role => \E t \in Tx : tx[t].pc = "run" /\ S!RoleOf(tx[t].actor) = "admin"

LEMMA DeskNext ==
  ASSUME DeskBounds, DeskInv, S!Next
  PROVE  DeskInv' /\ DeskPromoted
<1>1. ASSUME NEW t \in Tx, NEW who \in User, NEW u \in User,
             S!Begin(t, IF user[u].active THEN "suspend" ELSE "restore", who, u, "member", "none")
      PROVE  DeskInv' /\ DeskPromoted
  BY <1>1, DeskBegins DEF DeskPromoted, S!Begin, S!Role
<1>2. ASSUME NEW t \in Tx, NEW who \in User, NEW u \in User, S!Begin(t, "profile", who, u, "member", "none")
      PROVE  DeskInv' /\ DeskPromoted
  BY <1>2, DeskBegins DEF DeskPromoted, S!Begin, S!Role
<1>3. ASSUME NEW t \in Tx, NEW who \in User, NEW u \in User, NEW role \in S!Role, S!Begin(t, "role", who, u, role, "none")
      PROVE  DeskInv' /\ DeskPromoted
  BY <1>3, DeskBegins DEF DeskPromoted, S!Begin
<1>4. ASSUME NEW t \in Tx, NEW who \in User, NEW u \in User, NEW r \in Request, S!Begin(t, "issue", who, u, "member", r)
      PROVE  DeskInv' /\ DeskPromoted
  BY <1>4, DeskBegins DEF DeskPromoted, S!Begin, S!Role
<1>5. ASSUME NEW t \in Tx, S!TakeLock(t)
      PROVE  DeskInv' /\ DeskPromoted
  BY <1>5, DeskLocks DEF DeskPromoted, S!TakeLock
<1>6. ASSUME NEW t \in Tx, S!Leave(t)
      PROVE  DeskInv' /\ DeskPromoted
  BY <1>6, DeskLeaves DEF DeskPromoted, S!Leave
<1>7. ASSUME NEW t \in Tx, S!AccountStatus(t)
      PROVE  DeskInv' /\ DeskPromoted
  <2>1. PICK yes \in BOOLEAN : yes = (tx[t].do = "restore")
    OBVIOUS
  <2>2. user' = S!Revised(tx[t].target, [user[tx[t].target] EXCEPT !.active = yes])
    BY <1>7, <2>1 DEF S!AccountStatus
  <2>3. tx[t].target \in User
    BY <1>7 DEF S!AccountStatus, DeskInv, DeskAsked
  <2>4. \A v \in User : user'[v].role = user[v].role
    BY <2>2, <2>3, DeskRoleKept
  <2> QED
    BY <1>7, <2>4, DeskStatus DEF DeskPromoted
<1>8. ASSUME NEW t \in Tx, S!ChangeRole(t)
      PROVE  DeskInv' /\ DeskPromoted
  BY <1>8, DeskRoles DEF DeskPromoted, S!ChangeRole
<1>9. ASSUME NEW t \in Tx, S!Profile(t)
      PROVE  DeskInv' /\ DeskPromoted
  <2>1. tx[t].target \in User /\ user' = S!Revised(tx[t].target, user[tx[t].target])
    BY <1>9 DEF S!Profile, DeskInv, DeskAsked
  <2>2. \A v \in User : user'[v].role = user[v].role
    BY <2>1, DeskRoleKept
  <2> QED
    BY <1>9, <2>2, DeskProfiles DEF DeskPromoted
<1>10. ASSUME NEW t \in Tx, S!Issue(t)
       PROVE  DeskInv' /\ DeskPromoted
  BY <1>10, DeskIssues DEF DeskPromoted, S!Issue
<1>11. ASSUME NEW u \in User, S!UpdateProfile(u)
       PROVE  DeskInv' /\ DeskPromoted
  <2>1. \A v \in User : user'[v].role = user[v].role
    BY <1>11, DeskRoleKept DEF S!UpdateProfile
  <2> QED
    BY <1>11, <2>1, DeskUpdates DEF DeskPromoted
<1> QED
  BY <1>1, <1>2, <1>3, <1>4, <1>5, <1>6, <1>7, <1>8, <1>9, <1>10, <1>11 DEF S!Next

LEMMA DeskStutters ==
  ASSUME DeskInv, UNCHANGED S!vars
  PROVE  DeskInv'
BY DEF S!vars, DeskInv, DeskTypes, S!AdminRemains, S!ActiveAdmins, DeskIssued, DeskAsked

LEMMA DeskSound ==
  ASSUME DeskInv
  PROVE  S!TypeOK /\ S!AdminRemains /\ S!IssuedOnce
<1>1. S!TypeOK
  BY DEF DeskInv, DeskTypes, DeskUser, DeskTx, DeskAsked, S!TypeOK
<1>2. S!IssuedOnce
  BY DEF DeskInv, DeskIssued, S!IssuedOnce
<1> QED
  BY <1>1, <1>2 DEF DeskInv

\* However administrators demote and suspend each other one remains, an issuance
\* sent again is not made again, and roles change at an active administrator's
\* hand only (StaffService.ts), for any number of people and of requests.
THEOREM DeskCorrect ==
  ASSUME DeskBounds
  PROVE  S!Spec => [](S!AdminRemains /\ S!IssuedOnce) /\ S!OnlyAdminsPromote
<1>1. S!Init => DeskInv
  BY DeskInit
<1>2. DeskInv /\ [S!Next]_S!vars => DeskInv'
  BY DeskNext, DeskStutters
<1>3. DeskInv => S!AdminRemains /\ S!IssuedOnce
  BY DeskSound
<1>4. DeskInv /\ [S!Next]_S!vars => [DeskPromoted]_S!vars
  BY DeskNext
<1> QED
  BY <1>1, <1>2, <1>3, <1>4, PTL DEF S!Spec, S!OnlyAdminsPromote, DeskPromoted

-----------------------------------------------------------------------------
(* The suite, in which one part steps and the others wait.                 *)

OfficeBounds ==
  /\ Bounds /\ DeskBounds /\ CertBounds /\ RegBounds
  /\ MaxTime \in Nat /\ Horizon \in Nat

All == <<part, Releases, Console, Certificates, Agreements, Reminders, Registrations>>

\* The releases and the releases of the front end are two parts: the first
\* leave the files of the second alone.
ReleasesInv == part = "release" => Safe /\ Told
FrontendInv == part = "frontend" => LocalInv
RecordsInv ==
  /\ part = "certificates" => CertInv
  /\ RemInv
  /\ part = "registrations" => RegInv

LEMMA OfficeInit ==
  ASSUME OfficeBounds, MCInit
  PROVE  ReleasesInv /\ FrontendInv /\ RecordsInv /\ AgreementsInv /\ DeskInv
<1>1. ReleasesInv /\ FrontendInv
  BY InitInv, LocalInitInv DEF OfficeBounds, MCInit, LocalInit, ReleasesInv, FrontendInv
<1>2. RecordsInv
  BY CertInit, RemInit, RegInit DEF OfficeBounds, MCInit, RecordsInv
<1>3. AgreementsInv /\ DeskInv
  BY AgreementsInit, DeskInit DEF OfficeBounds, MCInit
<1> QED
  BY <1>1, <1>2, <1>3

LEMMA ReleasesNext ==
  ASSUME OfficeBounds, ReleasesInv, MCNext \/ UNCHANGED All
  PROVE  ReleasesInv'
<1>1. part' = part /\ (part = "release" => [Next]_vars)
  BY DEF MCNext, All, Releases
<1> QED
  BY <1>1, StepKeeps DEF OfficeBounds, ReleasesInv

LEMMA FrontendNext ==
  ASSUME OfficeBounds, Cautious, FrontendInv, MCNext \/ UNCHANGED All
  PROVE  FrontendInv'
<1>1. part' = part /\ (part = "frontend" => LocalNext \/ UNCHANGED <<vars, locals>>)
  BY DEF MCNext, All, Releases
<1> QED
  BY <1>1, LocalNextKeeps, LocalStutter DEF OfficeBounds, FrontendInv

LEMMA RecordsNext ==
  ASSUME OfficeBounds, RecordsInv, MCNext \/ UNCHANGED All
  PROVE  RecordsInv'
<1>1. part' = part
  BY DEF MCNext, All
<1>2. part = "certificates" => C!Next \/ UNCHANGED C!vars
  BY DEF MCNext, All, Certificates, C!vars
<1>3. E!Next \/ UNCHANGED E!vars
  BY DEF MCNext, All, Reminders, E!vars
<1>4. part = "registrations" => R!Next \/ UNCHANGED R!vars
  BY DEF MCNext, All, Registrations, R!vars
<1>5. part = "certificates" => CertInv'
  BY <1>2, CertNext, CertTicks DEF OfficeBounds, RecordsInv
<1>6. RemInv'
  BY <1>3, RemNext, RemStutters DEF OfficeBounds, RecordsInv
<1>7. part = "registrations" => RegInv'
  BY <1>4, RegNext, RegPrunes DEF OfficeBounds, RecordsInv
<1> QED
  BY <1>1, <1>5, <1>6, <1>7 DEF RecordsInv

\* The agreements and the staff console step with their parts only.
LEMMA OfficeStepsBy ==
  ASSUME MCNext \/ UNCHANGED All
  PROVE  [P!Next]_P!vars /\ [S!Next]_S!vars /\ [E!Next]_E!vars
BY DEF MCNext, All, Agreements, P!vars, Console, S!vars, Reminders, E!vars

\* What serves runs, the way back stays open and nothing is deployed twice.
THEOREM ReleasesStand ==
  ASSUME OfficeBounds
  PROVE  MCSpec => []ReleasesSound
<1>1. MCInit => ReleasesInv
  BY OfficeInit
<1>2. ReleasesInv /\ [MCNext]_All => ReleasesInv'
  BY ReleasesNext
<1>3. ReleasesInv => ReleasesSound
  BY DEF ReleasesInv, ReleasesSound, Safe, Told, ReleaseSound, WayBack, NotDeployedTwice, Knows, PendingJournal,
         IsPending, Deciding
<1> QED
  BY <1>1, <1>2, <1>3, PTL DEF MCSpec, All

\* Where nobody asks for a standby to be stopped while an activation is
\* interrupted, only what was checked serves, and the way back with it.
THEOREM LocalReleasesStand ==
  ASSUME OfficeBounds, Cautious
  PROVE  MCSpec => []LocalReleaseSound
<1>1. MCInit => FrontendInv
  BY OfficeInit
<1>2. FrontendInv /\ [MCNext]_All => FrontendInv'
  BY FrontendNext
<1>3. FrontendInv => LocalReleaseSound
  BY LocalInvSound DEF FrontendInv, LocalReleaseSound
<1> QED
  BY <1>1, <1>2, <1>3, PTL DEF MCSpec, All

\* Certifications, reminders and registrations: what staff revoked stays
\* revoked, no date is told twice and no account is made for somebody else.
THEOREM RecordsAreSound ==
  ASSUME OfficeBounds
  PROVE  MCSpec => []RecordsStand
<1>1. MCInit => RecordsInv
  BY OfficeInit
<1>2. RecordsInv /\ [MCNext]_All => RecordsInv'
  BY RecordsNext
<1>3. RecordsInv => RecordsStand
  <2>1. CertInv => C!TypeOK /\ C!RevocationStands /\ C!NoneUndated
    BY DEF CertInv
  <2>2. RemInv => E!TypeOK /\ E!OneReminder
    BY RemTrue DEF RemInv, RemTypes
  <2>3. OfficeBounds /\ RegInv => R!TypeOK /\ R!AddressProven /\ R!NoWaitingInACircle
    BY RegSound DEF OfficeBounds
  <2> QED
    BY <2>1, <2>2, <2>3 DEF RecordsInv, RecordsStand
<1> QED
  BY <1>1, <1>2, <1>3, PTL DEF MCSpec, All

\* A reminder that is sent was true when its worker took it up, or later.
THEOREM RemindersWereTrue ==
  ASSUME OfficeBounds
  PROVE  MCSpec => ReminderWasTrue
<1> DEFINE true == \A w \in Tx : mailed' # mailed /\ worker[w].at = "current" /\ worker'[w].at = "idle"
                                   => worker[w].date \in held[w]
<1>1. MCInit => RecordsInv
  BY OfficeInit
<1>2. RecordsInv /\ [MCNext]_All => RecordsInv'
  BY RecordsNext
<1>3. RecordsInv /\ [MCNext]_All => [true]_E!vars
  BY RemTrue DEF RecordsInv
<1> QED
  BY <1>1, <1>2, <1>3, PTL DEF MCSpec, All, ReminderWasTrue, E!ReminderWasTrue

\* What binds moves on, and the worker decides nothing.
THEOREM AgreementsStand ==
  ASSUME OfficeBounds
  PROVE  MCSpec => AgreementsMoveOn
<1>1. MCInit => AgreementsInv
  BY OfficeInit
<1>2. AgreementsInv /\ [MCNext]_All => AgreementsInv'
  BY OfficeStepsBy, AgreementsNext, AgreementsStutter DEF OfficeBounds
<1>3. AgreementsInv /\ [MCNext]_All => [AgreementsMoved /\ (P!Scan => P!Binding' = P!Binding)]_P!vars
  BY OfficeStepsBy, AgreementsNext DEF OfficeBounds
<1> QED
  BY <1>1, <1>2, <1>3, PTL DEF MCSpec, All, AgreementsMoveOn, P!AgreementsMoveOn, AgreementsMoved

\* Somebody can always administer the makerspace, and nobody whose rights
\* ended while their request waited changes those of others.
THEOREM StaffStand ==
  ASSUME OfficeBounds
  PROVE  MCSpec => StaffSound
<1>1. MCInit => DeskInv
  BY OfficeInit
<1>2. DeskInv /\ [MCNext]_All => DeskInv'
  BY OfficeStepsBy, DeskNext, DeskStutters DEF OfficeBounds
<1>3. DeskInv => (part = "staff" => S!TypeOK /\ S!AdminRemains /\ S!IssuedOnce)
  BY DeskSound
<1>4. DeskInv /\ [MCNext]_All => [DeskPromoted]_S!vars
  BY OfficeStepsBy, DeskNext DEF OfficeBounds
<1> QED
  BY <1>1, <1>2, <1>3, <1>4, PTL DEF MCSpec, All, StaffSound, S!OnlyAdminsPromote, DeskPromoted

=============================================================================
