------------------------------- MODULE Release -------------------------------
(***************************************************************************)
(* A release of the public site into the slot that is not in use           *)
(* (deploy/blue_green_release.py), as a periodic tick of the deployment    *)
(* service drives it (deploy/auto_release.py).                             *)
(*                                                                         *)
(* Every file is replaced as a whole, and the service may die between two  *)
(* writes; a lock that dies with its holder keeps ticks and the timers     *)
(* that stop an old process apart.  Revisions move on main at any time, in *)
(* either direction, and the operator edits the configuration.             *)
(***************************************************************************)
EXTENDS Naturals

CONSTANTS
  Revision,    \* revisions of main
  First,       \* the one that runs at first
  MaxMoves,    \* bound on moves of main
  MaxCrashes,  \* bound on deaths of the service
  MaxEdits,    \* bound on edits of the configuration
  None

VARIABLES
  main,     \* the head of main and the number of its moves
  route,    \* routing/active.json: the port and the release behind it
  slot,     \* the process on each port: its revision and whether it is up
  journal,  \* activation.json
  config,   \* compose.json: the revision of its image, and the edit of the rest
  status,   \* status.json: the revisions deployed and failed
  timers,   \* the timers that will stop an old process
  run,      \* where the tick that holds the lock is, and what it remembers
  crashes

vars == <<main, route, slot, journal, config, status, timers, run, crashes>>
World == <<main, timers, crashes>>

Port == {"legacy", "green", "blue"}
Route == [port : Port, release : Revision]
Config == [image : Revision, edit : 0..MaxEdits]
Phase == {None, "pending", "committed", "rolled-back", "recovered"}
Place == {"idle", "recover", "reconfigure", "stop", "recovered", "decide", "prepare", "standby", "pending", "candidate",
          "gates", "switch", "verify", "schedule", "commit", "deployed", "undo", "undo config", "undone", "clean", "blocked"}

Idle == [at |-> "idle", old |-> [port |-> "legacy", release |-> First], new |-> [port |-> "legacy", release |-> First],
         original |-> [image |-> First, edit |-> 0]]
NoJournal == [phase |-> None, old |-> Idle.old, new |-> Idle.new, previous |-> Idle.original]

TypeOK ==
  /\ main \in [head : Revision, moves : 0..MaxMoves]
  /\ route \in Route
  /\ slot \in [Port -> [release : Revision \cup {None}, up : BOOLEAN]]
  /\ journal \in [phase : Phase, old : Route, new : Route, previous : Config]
  /\ config \in Config
  /\ status \in [deployed : Revision, failed : Revision \cup {None}]
  /\ timers \subseteq Route
  /\ run \in [at : Place, old : Route, new : Route, original : Config]
  /\ crashes \in 0..MaxCrashes

At(place) == run.at = place
Goes(place) == run' = [run EXCEPT !.at = place]
Leaves == run' = Idle

\* compose.json with the image of the release.
Candidate(original, release) == [original EXCEPT !.image = release]

-----------------------------------------------------------------------------
(* An activation that was interrupted: recover_activation.                 *)

Tick ==
  /\ At("idle")
  /\ Goes("recover")
  /\ UNCHANGED <<World, route, slot, journal, config, status>>

\* What was committed counts as deployed, if the route still says so.
RecoverCommitted ==
  /\ At("recover") /\ journal.phase = "committed"
  /\ IF route = journal.new
     THEN /\ status' = IF status.deployed = route.release THEN status ELSE [deployed |-> route.release, failed |-> None]
          /\ Goes("decide")
     ELSE Leaves /\ UNCHANGED status
  /\ UNCHANGED <<World, route, slot, journal, config>>

RecoverNothing ==
  /\ At("recover") /\ journal.phase \in {None, "rolled-back", "recovered"}
  /\ Goes("decide")
  /\ UNCHANGED <<World, route, slot, journal, config, status>>

\* The route goes back first.
RecoverPending ==
  /\ At("recover") /\ journal.phase = "pending"
  /\ route' = journal.old
  /\ Goes("reconfigure")
  /\ UNCHANGED <<World, slot, journal, config, status>>

\* An edit by the operator is not overwritten: a person has to look at it.
Ours == config \in {journal.previous, Candidate(journal.previous, journal.new.release)}

Recover ==
  /\ At("reconfigure") /\ Ours
  /\ config' = journal.previous
  /\ Goes("stop")
  /\ UNCHANGED <<World, route, slot, journal, status>>

RecoverRefused ==
  /\ At("reconfigure") /\ ~ Ours
  /\ Leaves
  /\ UNCHANGED <<World, route, slot, journal, config, status>>

StopNew(p) == slot' = [slot EXCEPT ![p].up = FALSE]

RecoverStop ==
  /\ At("stop")
  /\ StopNew(journal.new.port)
  /\ journal' = [journal EXCEPT !.phase = "recovered"]
  /\ Goes("recovered")
  /\ UNCHANGED <<World, route, config, status>>

RecoverStatus ==
  /\ At("recovered")
  /\ status' = [deployed |-> journal.old.release, failed |-> journal.new.release]
  /\ Goes("decide")
  /\ UNCHANGED <<World, route, slot, journal, config>>

-----------------------------------------------------------------------------
(* A tick that has a new revision to deploy: deploy_blue_green.            *)

\* A revision that failed is tried again only when the operator says so.
Decide ==
  /\ At("decide")
  /\ \/ Leaves
     \/ /\ main.head # status.deployed
        /\ \E retry \in BOOLEAN : main.head = status.failed => retry
        /\ run' = [at |-> "prepare", old |-> route, original |-> Idle.original,
                   new |-> [port |-> IF route.port = "green" THEN "blue" ELSE "green", release |-> main.head]]
  /\ UNCHANGED <<World, route, slot, journal, config, status>>

\* The image is built, the databases are backed up.
Prepare ==
  /\ At("prepare")
  /\ run' = [run EXCEPT !.at = "standby", !.original = config]
  /\ UNCHANGED <<World, route, slot, journal, config, status>>

\* The process in the slot is replaced by one of the new release.
Standby ==
  /\ At("standby")
  /\ slot' = [slot EXCEPT ![run.new.port] = [release |-> run.new.release, up |-> TRUE]]
  /\ Goes("pending")
  /\ UNCHANGED <<World, route, journal, config, status>>

Pending ==
  /\ At("pending") /\ config = run.original
  /\ journal' = [phase |-> "pending", old |-> run.old, new |-> run.new, previous |-> run.original]
  /\ Goes("candidate")
  /\ UNCHANGED <<World, route, slot, config, status>>

Configure ==
  /\ At("candidate")
  /\ config' = Candidate(run.original, run.new.release)
  /\ Goes("gates")
  /\ UNCHANGED <<World, route, slot, journal, status>>

Gates ==
  /\ At("gates")
  /\ config = Candidate(run.original, run.new.release) /\ route = run.old /\ main.head = run.new.release
  /\ Goes("switch")
  /\ UNCHANGED <<World, route, slot, journal, config, status>>

Switch ==
  /\ At("switch")
  /\ route' = run.new
  /\ Goes("verify")
  /\ UNCHANGED <<World, slot, journal, config, status>>

Verify ==
  /\ At("verify")
  /\ Goes("schedule")
  /\ UNCHANGED <<World, route, slot, journal, config, status>>

\* A timer that cannot be set leaves the old process running.
Schedule ==
  /\ At("schedule")
  /\ timers' \in {timers, timers \cup {run.old}}
  /\ Goes("commit")
  /\ UNCHANGED <<main, crashes, route, slot, journal, config, status>>

Commit ==
  /\ At("commit")
  /\ journal' = [journal EXCEPT !.phase = "committed"]
  /\ Goes("deployed")
  /\ UNCHANGED <<World, route, slot, config, status>>

Deployed ==
  /\ At("deployed")
  /\ status' = [deployed |-> run.new.release, failed |-> None]
  /\ Leaves
  /\ UNCHANGED <<World, route, slot, journal, config>>

\* A command, a check or a write fails, the last of them a write after the commit.
\* What was announced is rolled back.
Fail ==
  /\ \/ At("prepare") /\ Goes("blocked")
     \/ run.at \in {"standby", "pending"} /\ Goes("clean")
     \/ run.at \in {"candidate", "gates", "switch", "verify", "schedule", "commit", "deployed"} /\ Goes("undo")
  /\ UNCHANGED <<World, route, slot, journal, config, status>>

Undo ==
  /\ At("undo")
  /\ route' = journal.old
  /\ Goes("undo config")
  /\ UNCHANGED <<World, slot, journal, config, status>>

UndoConfig ==
  /\ At("undo config")
  /\ \/ Ours /\ config' = journal.previous /\ Goes("undone")
     \/ ~ Ours /\ Goes("blocked") /\ UNCHANGED config
  /\ UNCHANGED <<World, route, slot, journal, status>>

Undone ==
  /\ At("undone")
  /\ journal' = [journal EXCEPT !.phase = "rolled-back"]
  /\ Goes("clean")
  /\ UNCHANGED <<World, route, slot, config, status>>

Clean ==
  /\ At("clean")
  /\ StopNew(run.new.port)
  /\ Goes("blocked")
  /\ UNCHANGED <<World, route, journal, config, status>>

Blocked ==
  /\ At("blocked")
  /\ status' = [deployed |-> status.deployed, failed |-> run.new.release]
  /\ Leaves
  /\ UNCHANGED <<World, route, slot, journal, config>>

-----------------------------------------------------------------------------
(* Around the deployment.                                                  *)

\* A slip: what the journal says is not looked at before a process is stopped.
RetirableOffRoute(t) == route.port # t.port

Retirable(t) == route.port # t.port /\ journal.phase = "committed" /\ journal.old = t

\* A timer waits for the lock.
Retire(t) ==
  /\ At("idle")
  /\ timers' = timers \ {t}
  /\ slot' = IF Retirable(t) /\ slot[t.port].release = t.release THEN [slot EXCEPT ![t.port].up = FALSE] ELSE slot
  /\ UNCHANGED <<main, crashes, route, journal, config, status, run>>

Push ==
  /\ main.moves < MaxMoves
  /\ \E r \in Revision \ {main.head} : main' = [head |-> r, moves |-> main.moves + 1]
  /\ UNCHANGED <<timers, crashes, route, slot, journal, config, status, run>>

Edit ==
  /\ config.edit < MaxEdits
  /\ config' = [config EXCEPT !.edit = @ + 1]
  /\ UNCHANGED <<World, route, slot, journal, status, run>>

Crash ==
  /\ ~ At("idle") /\ crashes < MaxCrashes
  /\ crashes' = crashes + 1
  /\ Leaves
  /\ UNCHANGED <<main, timers, route, slot, journal, config, status>>

Init ==
  /\ main = [head |-> First, moves |-> 0]
  /\ route = Idle.old
  /\ slot = [p \in Port |-> IF p = "legacy" THEN [release |-> First, up |-> TRUE] ELSE [release |-> None, up |-> FALSE]]
  /\ journal = NoJournal
  /\ config = Idle.original
  /\ status = [deployed |-> First, failed |-> None]
  /\ timers = {}
  /\ run = Idle
  /\ crashes = 0

Next ==
  \/ Tick \/ RecoverCommitted \/ RecoverNothing \/ RecoverPending \/ Recover \/ RecoverRefused \/ RecoverStop \/ RecoverStatus
  \/ Decide \/ Prepare \/ Standby \/ Pending \/ Configure \/ Gates \/ Switch \/ Verify \/ Schedule \/ Commit \/ Deployed
  \/ Fail \/ Undo \/ UndoConfig \/ Undone \/ Clean \/ Blocked
  \/ (\E t \in timers : Retire(t)) \/ Push \/ Edit \/ Crash

Spec == Init /\ [][Next]_vars

-----------------------------------------------------------------------------
Serves(r) == slot[r.port] = [release |-> r.release, up |-> TRUE]

\* The gateway always points at a process of the release it names that runs,
\* whatever was interrupted, rolled back, retried or retired late.
RouteServes == Serves(route)

\* While a release is not committed, the process it may be rolled back to runs.
WayBack == journal.phase = "pending" => Serves(journal.old)

\* What already serves the public is not deployed once more into the other
\* slot, though the service died between committing and writing its status.
NotDeployedTwice == run.at \in {"prepare", "standby", "pending"} => run.new.release # route.release

\* The gateway points at a running process of the release it names and the way
\* back stays open until a release is committed, which is then not deployed
\* again, wherever the deployment service dies.
ReleaseSound == TypeOK /\ RouteServes /\ WayBack /\ NotDeployedTwice
=============================================================================
