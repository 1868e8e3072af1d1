------------------------------ MODULE RelayLease ------------------------------
(***************************************************************************)
(* The relay controller on the reader (RelayLease in access_client.py):    *)
(* every lease starts a timer that switches the relay off, a renewal       *)
(* cancels the timer before it, and a timer that has already fired cannot  *)
(* be cancelled.  Each section under the lock is one step; a timer fires   *)
(* in a thread of its own and may be late.                                 *)
(***************************************************************************)
EXTENDS Naturals

CONSTANTS
  MaxGeneration,  \* leases given to the relay
  MaxLease,       \* in seconds: 5
  MaxTime

VARIABLES
  now,
  relay,
  generation,
  closed,
  timer,  \* the timer of each generation
  due     \* when it fires

vars == <<now, relay, generation, closed, timer, due>>

Generation == 0..MaxGeneration

TypeOK ==
  /\ now \in 0..MaxTime
  /\ relay \in BOOLEAN /\ closed \in BOOLEAN
  /\ generation \in Generation
  /\ timer \in [Generation -> {"none", "waiting", "fired", "cancelled", "done"}]
  /\ due \in [Generation -> 0..MaxTime + MaxLease]

\* cancel() does nothing to a timer whose thread is running.
Cancelled == [g \in Generation |-> IF timer[g] = "waiting" THEN "cancelled" ELSE timer[g]]

Usable == ~ closed

Start(g) == [Cancelled EXCEPT ![g] = "waiting"]

\* apply: a lease of some seconds, or none.
Apply(seconds) ==
  /\ Usable /\ generation < MaxGeneration
  /\ generation' = generation + 1
  /\ relay' = (seconds > 0)
  /\ timer' = IF seconds > 0 THEN Start(generation') ELSE Cancelled
  /\ due' = IF seconds > 0 THEN [due EXCEPT ![generation'] = now + seconds] ELSE due
  /\ UNCHANGED <<now, closed>>

\* authorize: the decision failed, or the controller was closed meanwhile.
FailAuthorize ==
  /\ relay' = FALSE
  /\ UNCHANGED <<now, generation, closed, timer, due>>

Fire(g) ==
  /\ timer[g] = "waiting" /\ due[g] <= now
  /\ timer' = [timer EXCEPT ![g] = "fired"]
  /\ UNCHANGED <<now, relay, generation, closed, due>>

\* A slip: any timer switches the relay off.
AnyGeneration(g) == TRUE

Current(g) == g = generation

\* _off, once it has the lock.
Off(g) ==
  /\ timer[g] = "fired"
  /\ timer' = [timer EXCEPT ![g] = "done"]
  /\ relay' = IF Current(g) THEN FALSE ELSE relay
  /\ UNCHANGED <<now, generation, closed, due>>

Close ==
  /\ ~ closed /\ generation < MaxGeneration
  /\ generation' = generation + 1
  /\ closed' = TRUE
  /\ timer' = Cancelled
  /\ relay' = FALSE
  /\ UNCHANGED <<now, due>>

Tick ==
  /\ now < MaxTime
  /\ now' = now + 1
  /\ UNCHANGED <<relay, generation, closed, timer, due>>

Init ==
  /\ now = 0
  /\ relay = FALSE /\ closed = FALSE
  /\ generation = 0
  /\ timer = [g \in Generation |-> "none"]
  /\ due = [g \in Generation |-> 0]

Next ==
  \/ \E seconds \in 0..MaxLease : Apply(seconds)
  \/ FailAuthorize
  \/ \E g \in Generation : Fire(g) \/ Off(g)
  \/ Close
  \/ Tick

Spec == Init /\ [][Next]_vars

-----------------------------------------------------------------------------
(* Properties.                                                             *)

\* A relay that is on will be switched off: the timer of its own lease still
\* has to run, and the controller is open.
OnWillEnd == relay => ~ closed /\ timer[generation] \in {"waiting", "fired"}

\* A renewed lease keeps its power: a timer that fired too late to be
\* cancelled does not cut it short.
LeaseRunsOut ==
  [][\A g \in Generation : timer[g] = "fired" /\ timer'[g] = "done" /\ relay /\ ~ relay'
       => due[generation] <= now]_vars

\* A relay that is on is watched by the timer of its own lease, and a timer too
\* late to be cancelled does not cut a renewed lease short.
RelayTimed == []OnWillEnd /\ LeaseRunsOut
=============================================================================
