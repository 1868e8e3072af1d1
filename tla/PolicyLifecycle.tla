-------------------------- MODULE PolicyLifecycle --------------------------
(***************************************************************************)
(* The versions of one agreement (policyLifecycle.ts, StaffService,        *)
(* EligibilityModel).  Administrators publish versions that take effect at *)
(* a time of their own, and withdraw them; a worker retires what a newer   *)
(* version has replaced.  Which version binds is computed from the rows    *)
(* whenever somebody asks.                                                 *)
(*                                                                         *)
(* Publication, withdrawal and the worker hold the staff lock throughout,  *)
(* so each is one step; no version takes effect within such a step.        *)
(***************************************************************************)
EXTENDS Naturals, FiniteSetsExt

CONSTANTS
  Id,       \* waiverid, in the order of publication: 1 .. n
  MaxTime   \* the clock stops here

VARIABLES
  policy,   \* waiver: the versions of one name
  clock,
  bound     \* the versions that have bound: for the properties

vars == <<policy, clock, bound>>

Unpublished == [at |-> MaxTime + 1, active |-> FALSE]

TypeOK ==
  /\ policy \in [Id -> [at : 0 .. MaxTime + 1, active : BOOLEAN]]
  /\ clock \in 0 .. MaxTime
  /\ bound \subseteq Id

\* i takes effect before j; of two at the same time, the later number counts.
Before(p, i, j) == p[i].at < p[j].at \/ (p[i].at = p[j].at /\ i < j)

\* The versions in force: active, and their time has come.
InForce(p) == {i \in Id : p[i].active /\ p[i].at <= clock}

\* current_versions: the newest of them binds, if there is one.
Binding == {i \in InForce(policy) : \A j \in InForce(policy) : ~ Before(policy, i, j)}

\* retireSupersededPolicies: all that a newer version in force has replaced.
Superseded(p) == {i \in InForce(p) : \E j \in InForce(p) : Before(p, i, j)}

Retire(p, s) == [i \in Id |-> [at |-> p[i].at, active |-> p[i].active /\ i \notin s]]

\* publishPolicy; a version may take effect at once, later, or in the past.
Publish(i, at) ==
  LET added == [policy EXCEPT ![i] = [at |-> at, active |-> TRUE]]
  IN /\ policy[i] = Unpublished /\ \A j \in Id : j < i => policy[j] # Unpublished
     /\ policy' = Retire(added, Superseded(added))
     /\ UNCHANGED clock

\* A slip: the version alone is withdrawn.
PredecessorsNone == {}

\* What the version has replaced is retired before it is withdrawn.
Predecessors == Superseded(policy)

\* retirePolicy.
Withdraw(i) ==
  /\ policy[i].active
  /\ policy' = Retire(policy, Predecessors \cup {i})
  /\ UNCHANGED clock

\* runPolicyRetirement, every fifteen seconds.
Scan ==
  /\ Superseded(policy) # {}
  /\ policy' = Retire(policy, Superseded(policy))
  /\ UNCHANGED clock

Tick ==
  /\ clock < MaxTime
  /\ clock' = clock + 1
  /\ UNCHANGED policy

Init ==
  /\ policy = [i \in Id |-> Unpublished]
  /\ clock = 0
  /\ bound = {}

Next ==
  /\ \/ \E i \in Id : Withdraw(i) \/ \E at \in 0 .. MaxTime : Publish(i, at)
     \/ Scan \/ Tick
  /\ bound' = bound \cup Binding'

Spec == Init /\ [][Next]_vars

-----------------------------------------------------------------------------
(* Properties.                                                             *)

\* A version that has been replaced or withdrawn never binds again, whatever
\* is withdrawn after it: nobody comes under an obsolete agreement.  And the
\* worker decides nothing: what binds after its scan is what bound before it,
\* in whatever order the versions were published and take effect.
AgreementsMoveOn ==
  [][/\ \A i \in Binding' : i \in bound => i \in Binding
     /\ Scan => Binding' = Binding]_vars
=============================================================================
