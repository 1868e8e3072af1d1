----------------------------- MODULE ReaderBridge -----------------------------
(***************************************************************************)
(* The controller of a reader on the network (wireless/reader_bridge.py):  *)
(* a loop looks at the reader, has the tap it finds decided by the server  *)
(* in another thread, and sends the decision to the reader with an end in  *)
(* the reader's own clock.  A request that was given up may still arrive.  *)
(*                                                                         *)
(* The reader's firmware is not in the repository: it is what the bridge   *)
(* takes it for.  The heartbeats between decisions only raise its counter, *)
(* and so only make it refuse more; they are left out.                     *)
(***************************************************************************)
EXTENDS Naturals, FiniteSets

CONSTANTS Card, None, MaxTime, MaxScan, MaxTrouble, Lease, MaxGrant

VARIABLES
  clock,
  reader,   \* what it counts since it was switched on, and the tap that waits
  power,    \* until when the reader grants, to whom; whose decision it was and when that ends
  wire,     \* decisions on their way to the reader
  bridge,   \* session, counter and max_scan of ReaderClient; handled, backend_ok and where the loop is
  view,     \* the reader's state as the loop has it
  job,      \* the decision in the other thread, with identity
  trouble

vars == <<clock, reader, power, wire, bridge, view, job, trouble>>

Time == 0..MaxTime
Taps == [session : 0..MaxTrouble + 1, scan : 0..MaxScan]
NoTap == [session |-> 0, scan |-> 0]
NoJob == [at |-> "none", tap |-> NoTap, card |-> None, since |-> 0, allowed |-> FALSE, until |-> 0, end |-> 0]
NoPower == [card |-> None, for |-> None, until |-> 0, end |-> 0]
Started == [at |-> "top", session |-> 0, counter |-> 0, scan |-> 0, handled |-> NoTap, ok |-> FALSE]
NoView == [tap |-> NoTap, card |-> None, uptime |-> 0, counter |-> 0, received |-> 0]

TypeOK ==
  /\ clock \in Time
  /\ reader \in [session : 1..MaxTrouble + 1, began : Time, scan : 0..MaxScan, card : Card \cup {None}, counter : Nat]
  /\ power \in [card : Card \cup {None}, for : Card \cup {None}, until : 0..MaxTime + MaxGrant, end : 0..MaxTime + Lease]
  /\ bridge \in [at : {"top", "answered", "judge", "submit"}, session : 0..MaxTrouble + 1, counter : Nat,
                 scan : 0..MaxScan, handled : Taps, ok : BOOLEAN]
  /\ view \in [tap : Taps, card : Card \cup {None}, uptime : Time, counter : Nat, received : Time]
  /\ job \in [at : {"none", "asked", "answered", "done", "failed"}, tap : Taps, card : Card \cup {None}, since : Time,
              allowed : BOOLEAN, until : 0..MaxTime + Lease, end : 0..MaxTime + Lease]

-----------------------------------------------------------------------------
(* The reader.                                                             *)

Tick ==
  /\ clock < MaxTime
  /\ clock' = clock + 1
  /\ power' = IF power.until <= clock' THEN NoPower ELSE power
  /\ UNCHANGED <<reader, wire, bridge, view, job, trouble>>

Tap(c) ==
  /\ reader.scan < MaxScan
  /\ reader' = [reader EXCEPT !.scan = @ + 1, !.card = c]
  /\ UNCHANGED <<clock, power, wire, bridge, view, job, trouble>>

Boot ==
  /\ trouble < MaxTrouble
  /\ reader' = [session |-> reader.session + 1, began |-> clock, scan |-> 0, card |-> None, counter |-> 0]
  /\ power' = NoPower
  /\ wire' = {}
  /\ trouble' = trouble + 1
  /\ UNCHANGED <<clock, bridge, view, job>>

Answer ==
  /\ bridge.at = "top"
  /\ view' = [view EXCEPT !.tap = [session |-> reader.session, scan |-> reader.scan], !.card = reader.card,
                          !.uptime = clock - reader.began, !.counter = reader.counter]
  /\ bridge' = [bridge EXCEPT !.at = "answered"]
  /\ UNCHANGED <<clock, reader, power, wire, job, trouble>>

\* A request that was given up arrives late, or never.  A command with an old
\* counter is refused, and a decision about another tap
\* or past its end grants nothing.
Deliver(m) ==
  LET new == m.session = reader.session /\ m.counter > reader.counter
      fits == new /\ m.scan = reader.scan /\ reader.card # None
  IN /\ wire' = wire \ {m}
     /\ reader' = [reader EXCEPT !.counter = IF new THEN m.counter ELSE @, !.card = IF fits THEN None ELSE @]
     /\ power' = IF fits /\ m.allowed /\ reader.began + m.until > clock
                 THEN [card |-> reader.card, for |-> m.for, until |-> reader.began + m.until, end |-> m.end] ELSE power
     /\ UNCHANGED <<clock, bridge, view, job, trouble>>

-----------------------------------------------------------------------------
(* The loop.                                                               *)

\* ReaderClient.state(), in a round of the loop.  The server's health, which is
\* looked at every ten seconds, may be anything.
Receive ==
  LET v == view.tap
      same == bridge.session = v.session
      larger == IF bridge.counter > view.counter THEN bridge.counter ELSE view.counter
  IN /\ bridge.at = "answered"
     /\ \E ok \in BOOLEAN :
          bridge' = IF same /\ v.scan < bridge.scan THEN [bridge EXCEPT !.at = "top"]
                    ELSE [bridge EXCEPT !.at = "judge", !.session = v.session, !.scan = v.scan, !.ok = ok,
                                        !.counter = IF same THEN larger ELSE view.counter,
                                        !.handled = IF same THEN @ ELSE NoTap]
     /\ view' = IF bridge'.at = "top" THEN NoView ELSE [view EXCEPT !.received = clock]
     /\ UNCHANGED <<clock, reader, power, wire, job, trouble>>

\* The reader does not answer, or a heartbeat to it fails.
Fails ==
  /\ bridge.at \in {"answered", "judge"}
  /\ trouble < MaxTrouble
  /\ bridge' = [bridge EXCEPT !.at = "top", !.ok = FALSE]
  /\ view' = NoView
  /\ trouble' = trouble + 1
  /\ UNCHANGED <<clock, reader, power, wire, job>>

\* A slip: the reader grants for as long as it may, however old the decision is.
GrantInFull == MaxGrant

\* grant_ms, and how long the reader's clock has gone on since it was read.
Grant == IF job.until - clock < MaxGrant THEN job.until - clock ELSE MaxGrant
Elapsed == clock - view.received

\* A slip: whatever was decided is sent for the tap that waits.
AnyTap == TRUE

Current == job.tap = view.tap

\* decision_message: nothing is granted beyond the server's lease.
Message ==
  [session |-> bridge.session, counter |-> bridge.counter + 1, scan |-> view.tap.scan, allowed |-> job.allowed,
   until |-> IF job.allowed THEN view.uptime + Elapsed + Grant ELSE 0, for |-> IF job.allowed THEN job.card ELSE None, end |-> job.end]

Wanted == job.at = "done" /\ Current /\ view.card # None /\ bridge.ok
Late == job.allowed /\ job.until <= clock

\* A decision that is done goes to the tap it was asked for, if that still waits.
Judge ==
  LET sent == Wanted /\ ~ Late
  IN /\ bridge.at = "judge"
     /\ bridge' = [bridge EXCEPT !.at = "submit", !.counter = IF sent THEN @ + 1 ELSE @,
                                 !.ok = @ /\ job.at # "failed" /\ ~ (Wanted /\ Late)]
     /\ wire' = IF sent THEN wire \cup {Message} ELSE wire
     /\ job' = IF job.at \in {"done", "failed"} THEN NoJob ELSE job
     /\ UNCHANGED <<clock, reader, power, view, trouble>>

\* The reader does not acknowledge it; when it does not take the heartbeat that
\* follows either, the decision is kept for another round.
Unacknowledged ==
  /\ bridge.at = "judge" /\ Wanted /\ ~ Late
  /\ trouble < MaxTrouble
  /\ bridge' = [bridge EXCEPT !.at = "top", !.counter = @ + 1, !.ok = FALSE]
  /\ wire' = wire \cup {Message}
  /\ job' \in {job, NoJob}
  /\ view' = NoView
  /\ trouble' = trouble + 1
  /\ UNCHANGED <<clock, reader, power>>

\* A tap is asked about once; one that waits while the thread is busy, later.
Submit ==
  LET asks == bridge.ok /\ view.card # None /\ view.tap # bridge.handled /\ job.at = "none"
  IN /\ bridge.at = "submit"
     /\ bridge' = [bridge EXCEPT !.at = "top", !.ok = FALSE, !.handled = IF asks THEN view.tap ELSE @]
     /\ job' = IF asks THEN [NoJob EXCEPT !.at = "asked", !.tap = view.tap, !.card = view.card, !.since = clock] ELSE job
     /\ view' = NoView
     /\ UNCHANGED <<clock, reader, power, wire, trouble>>

\* The process is stopped, or dies, and is started again.
Restart ==
  /\ trouble < MaxTrouble
  /\ bridge' = Started /\ view' = NoView /\ job' = NoJob
  /\ trouble' = trouble + 1
  /\ UNCHANGED <<clock, reader, power, wire>>

-----------------------------------------------------------------------------
(* The decision: the server's, and what BackendClient.decide makes of it.  *)

Decide ==
  /\ job.at = "asked"
  /\ \E allowed \in BOOLEAN : job' = [job EXCEPT !.at = "answered", !.allowed = allowed,
                                                         !.end = IF allowed THEN clock + Lease ELSE 0]
  /\ UNCHANGED <<clock, reader, power, wire, bridge, view, trouble>>

\* The whole of the round trip counts against the lease, and so may the clocks.
Conclude ==
  /\ job.at = "answered"
  /\ \/ ~ job.allowed /\ job' = [job EXCEPT !.at = "done", !.since = 0]
     \/ /\ job.allowed
        /\ \E until \in clock + 1 .. job.since + Lease :
             job' = [job EXCEPT !.at = "done", !.until = until, !.since = 0]
     \/ job' = [NoJob EXCEPT !.at = "failed"]
  /\ UNCHANGED <<clock, reader, power, wire, bridge, view, trouble>>

Init ==
  /\ clock = 0
  /\ reader = [session |-> 1, began |-> 0, scan |-> 0, card |-> None, counter |-> 0]
  /\ power = NoPower /\ wire = {}
  /\ bridge = Started /\ view = NoView /\ job = NoJob
  /\ trouble = 0

Next ==
  \/ Tick \/ Boot \/ \E c \in Card : Tap(c)
  \/ Answer \/ Receive \/ Fails \/ Judge \/ Unacknowledged \/ Submit \/ Restart
  \/ Decide \/ Conclude
  \/ \E m \in wire : Deliver(m)

Spec == Init /\ [][Next]_vars

-----------------------------------------------------------------------------
(* Properties.                                                             *)

\* The reader grants to the card whose decision it has, whichever decision and
\* whichever tap overtook the other.
GrantsItsTap == power.card = power.for

\* However late a decision arrives, what it grants is over when the server's
\* lease is.
OffInTime == power.until <= power.end
=============================================================================
