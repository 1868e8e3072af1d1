---------------------------- MODULE FrontendRelease ----------------------------
(***************************************************************************)
(* Releases of the front end alone, beside the ticks of Release: the owner *)
(* runs the checks on a workstation (deploy/local_frontend.py), has the    *)
(* standby warmed up meanwhile, hands over the evidence and promotes       *)
(* (deploy/local_frontend_release.py).  A client that fails asks for its   *)
(* standby to be stopped, and clients may be slow: what they ask for may   *)
(* come after other releases.                                              *)
(*                                                                         *)
(* The steps of an activation are Release's; those of a local run differ   *)
(* where they decide, pass the gates, and recover.                         *)
(***************************************************************************)
EXTENDS Release

CONSTANT Cautious   \* nobody asks for a standby to be stopped while an activation is interrupted

VARIABLES
  local,     \* what the holder of the lock does for the owner, and for which revision
  prewarm,   \* prewarm.json of each revision: the port of its standby
  evidence,  \* the revisions with a receipt.json that still counts
  ci,        \* the hosted checks of each revision
  vetted     \* History: the revisions that passed the hosted checks, or the local ones

locals == <<local, prewarm, evidence, ci, vetted>>

Tool == [do |-> "none", sha |-> First]

LocalTypeOK ==
  /\ local \in [do : {"none", "prepare", "warm", "promote"}, sha : Revision]
  /\ prewarm \in [Revision -> Port \cup {None}]
  /\ evidence \subseteq Revision
  /\ ci \in [Revision -> {"waiting", "green", "failed"}]
  /\ vetted \subseteq Revision

ByOwner == local.do # "none"
Ends == local' = IF run'.at = "idle" THEN Tool ELSE local

-----------------------------------------------------------------------------
(* The owner's command takes the lock.                                     *)

Command(do) ==
  /\ At("idle")
  /\ Goes("recover")
  /\ local' = [do |-> do, sha |-> main.head]
  /\ UNCHANGED <<World, route, slot, journal, config, status, prewarm, evidence, ci, vetted>>

\* What the recovery finds committed is not written into the status here.
CommandCommitted ==
  /\ At("recover") /\ journal.phase = "committed"
  /\ IF route = journal.new THEN Goes("decide") ELSE Leaves
  /\ UNCHANGED <<World, route, slot, journal, config, status>>

\* The command gives up after it has rolled back; the next tick says so.
CommandRecovered ==
  /\ At("recovered")
  /\ Leaves
  /\ UNCHANGED <<World, route, slot, journal, config, status>>

\* check_scope: the baseline itself brings nothing, so no local release is of it.
Scoped == local.sha # First

Standing == IF route.port = "green" THEN "blue" ELSE "green"

\* inherited_checks: those of the baseline hold, and none of this revision's own has failed.
Inherited(r) == ci[First] = "green" /\ ci[r] # "failed"

\* A slip: nothing is asked of the evidence.
AnyEvidence(r) == TRUE

Evident(r) == r \in evidence

Promote ==
  /\ At("decide") /\ local.do = "promote"
  /\ IF status.failed = local.sha \/ ~ Scoped \/ ~ Evident(local.sha) \/ status.deployed = local.sha THEN Leaves
     ELSE \/ Leaves
          \/ run' = [at |-> "prepare", old |-> route, original |-> Idle.original,
                     new |-> [port |-> Standing, release |-> local.sha]]
  /\ UNCHANGED <<World, route, slot, journal, config, status>>

LocalGates ==
  /\ Gates
  /\ Evident(local.sha) /\ Inherited(local.sha)

-----------------------------------------------------------------------------
(* The standby that is warmed up while the checks run.                     *)

Prewarm ==
  /\ At("decide") /\ local.do = "prepare"
  /\ IF Scoped /\ status.failed # local.sha /\ route.release # local.sha /\ Inherited(local.sha)
     THEN /\ prewarm' = [prewarm EXCEPT ![local.sha] = Standing]
          /\ local' = [local EXCEPT !.do = "warm"]
          /\ UNCHANGED run
     ELSE Leaves /\ local' = Tool /\ UNCHANGED prewarm
  /\ UNCHANGED <<World, route, slot, journal, config, status, evidence, ci, vetted>>

PrewarmUp ==
  /\ At("decide") /\ local.do = "warm"
  /\ slot' = [slot EXCEPT ![prewarm[local.sha]] = [release |-> local.sha, up |-> TRUE]]
  /\ Leaves
  /\ UNCHANGED <<World, route, journal, config, status>>

\* A slip: the route is not looked at.
OursAnyway(r) == prewarm[r] # None /\ slot[prewarm[r]].release = r

\* The recorded standby, if it is not routed to and still this revision's.
OursToStop(r) == prewarm[r] # None /\ route.port # prewarm[r] /\ slot[prewarm[r]].release = r

Aborted(r) == slot' = IF OursToStop(r) THEN [slot EXCEPT ![prewarm[r]].up = FALSE] ELSE slot

PrewarmFailed ==
  /\ At("decide") /\ local.do = "warm"
  /\ Aborted(local.sha)
  /\ Leaves
  /\ UNCHANGED <<World, route, journal, config, status>>

\* The client failed, at any point, or the owner repeats its cleanup.
AbortPrewarm(r) ==
  /\ At("idle")
  /\ Cautious => journal.phase # "pending"
  /\ Aborted(r)
  /\ UNCHANGED <<World, route, journal, config, status, run, locals>>

-----------------------------------------------------------------------------
(* Around them.                                                            *)

\* Evidence is accepted without the lock; it counts for a quarter of an hour,
\* and for the baseline it would never be asked for.
AcceptEvidence(r) ==
  /\ r # First
  /\ evidence' = evidence \cup {r}
  /\ vetted' = vetted \cup {r}
  /\ UNCHANGED <<vars, local, prewarm, ci>>

Expire(r) ==
  /\ Evident(r)
  /\ evidence' = evidence \ {r}
  /\ UNCHANGED <<vars, local, prewarm, ci, vetted>>

\* Checks end, and may be run again.
Check(r) ==
  /\ \E s \in {"green", "failed"} \ {ci[r]} :
       ci' = [ci EXCEPT ![r] = s] /\ vetted' = IF s = "green" THEN vetted \cup {r} ELSE vetted
  /\ UNCHANGED <<vars, local, prewarm, evidence>>

\* A tick looks at the hosted checks of the revision itself.
TickDecides == Decide /\ (run'.at = "prepare" => ci[main.head] = "green")
TickGates == Gates /\ ci[run.new.release] = "green"

Activation ==
  \/ RecoverNothing \/ RecoverPending \/ Recover \/ RecoverRefused \/ RecoverStop
  \/ Prepare \/ Standby \/ Pending \/ Configure \/ Switch \/ Verify \/ Schedule \/ Commit \/ Deployed
  \/ Fail \/ Undo \/ UndoConfig \/ Undone \/ Clean \/ Blocked \/ Crash

LocalInit ==
  /\ Init
  /\ local = Tool
  /\ prewarm = [r \in Revision |-> None]
  /\ evidence = {}
  /\ ci = [r \in Revision |-> IF r = First THEN "green" ELSE "waiting"]
  /\ vetted = {First}

LocalNext ==
  \/ /\ \/ Activation
        \/ ~ ByOwner /\ (Tick \/ RecoverCommitted \/ RecoverStatus \/ TickDecides \/ TickGates)
        \/ ByOwner /\ (CommandCommitted \/ CommandRecovered \/ Promote \/ LocalGates \/ PrewarmUp \/ PrewarmFailed)
        \/ Push \/ Edit \/ \E t \in timers : Retire(t)
     /\ Ends
     /\ UNCHANGED <<prewarm, evidence, ci, vetted>>
  \/ Command("prepare") \/ Command("promote") \/ Prewarm
  \/ \E r \in Revision : AbortPrewarm(r) \/ AcceptEvidence(r) \/ Expire(r) \/ Check(r)

LocalSpec == LocalInit /\ [][LocalNext]_<<vars, locals>>

-----------------------------------------------------------------------------
(* Properties.                                                             *)

\* The way back of an activation and the public route stay served, though
\* standbys are warmed up and stopped for other revisions, and late.
StandbysApart == LocalTypeOK /\ RouteServes /\ WayBack

\* Whatever is warmed up before its checks have ended, only what passed the
\* hosted checks or brought the evidence of the local ones is routed to.
OnlyVettedServes == route.release \in vetted
=============================================================================
