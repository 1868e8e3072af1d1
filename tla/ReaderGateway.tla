---------------------------- MODULE ReaderGateway ----------------------------
(***************************************************************************)
(* The gateway that readers call themselves (wireless/direct_gateway.py,   *)
(* setup_gateway.py): a reader polls with its tap, one poll of it is in    *)
(* hand at a time, and the answer carries the decision.  Polls that the    *)
(* reader has given up may still arrive, after newer ones.                 *)
(*                                                                         *)
(* The reader's firmware is not in the repository: it is what the gateway  *)
(* takes it for, and waits for an answer no longer than Patience.          *)
(***************************************************************************)
EXTENDS Naturals, Sequences, FiniteSets

CONSTANTS Card, None, MaxTime, MaxScan, MaxCounter, MaxTrouble, Lease, MaxGrant, Patience,
          Kept   \* how many sessions a gateway remembers: 64

VARIABLES
  clock,
  reader,   \* its session, the tap that waits, the counter of its latest poll and since when it waits
  power,    \* until when the reader grants, to whom; whose decision it was and when that ends
  polls, replies,   \* on their way
  sessions, \* PollProtocol.sessions, the latest first
  hand,     \* the poll in hand, with its decision
  \* History:
  asked,    \* the taps that the server was asked about
  twice,    \* one of them more than once
  forgot,   \* the gateway lost what it knew of a session
  trouble

vars == <<clock, reader, power, polls, replies, sessions, hand, asked, twice, forgot, trouble>>
History == <<asked, twice, forgot>>

Time == 0..MaxTime
Taps == [session : 1..MaxTrouble + 1, scan : 0..MaxScan]
Entry == [session : 1..MaxTrouble + 1, counter : 0..MaxCounter, scan : 0..MaxScan, handled : 0..MaxScan]
NoPower == [card |-> None, for |-> None, until |-> 0, end |-> 0]
NoPoll == [session |-> 0, counter |-> 0, scan |-> 0, card |-> None]
Free == [at |-> "free", poll |-> NoPoll, since |-> 0, allowed |-> FALSE, end |-> 0]

TypeOK ==
  /\ clock \in Time
  /\ reader \in [session : 1..MaxTrouble + 1, scan : 0..MaxScan, card : Card \cup {None}, counter : 0..MaxCounter,
                 waits : BOOLEAN, since : Time]
  /\ power \in [card : Card \cup {None}, for : Card \cup {None}, until : 0..MaxTime + MaxGrant, end : 0..MaxTime + Lease]
  /\ \A i \in DOMAIN sessions : sessions[i] \in Entry
  /\ hand.at \in {"free", "asked", "answered"} /\ hand.since \in Time

-----------------------------------------------------------------------------
(* The reader.                                                             *)

\* An answer that comes after the reader's patience finds nobody waiting.
Tick ==
  /\ clock < MaxTime
  /\ clock' = clock + 1
  /\ power' = IF power.until <= clock' THEN NoPower ELSE power
  /\ IF reader.waits /\ clock' > reader.since + Patience
     THEN reader' = [reader EXCEPT !.waits = FALSE, !.since = 0] /\ replies' = {}
     ELSE UNCHANGED <<reader, replies>>
  /\ UNCHANGED <<polls, sessions, hand, History, trouble>>

Tap(c) ==
  /\ reader.scan < MaxScan
  /\ reader' = [reader EXCEPT !.scan = @ + 1, !.card = c]
  /\ UNCHANGED <<clock, power, polls, replies, sessions, hand, History, trouble>>

Poll ==
  /\ ~ reader.waits /\ reader.counter < MaxCounter
  /\ reader' = [reader EXCEPT !.counter = @ + 1, !.waits = TRUE, !.since = clock]
  /\ polls' = polls \cup {[session |-> reader.session, counter |-> reader.counter + 1, scan |-> reader.scan, card |-> reader.card]}
  /\ UNCHANGED <<clock, power, replies, sessions, hand, History, trouble>>

\* A connection is reset, or nothing comes for too long.
GiveUp ==
  /\ reader.waits /\ trouble < MaxTrouble
  /\ reader' = [reader EXCEPT !.waits = FALSE, !.since = 0]
  /\ replies' = {}
  /\ trouble' = trouble + 1
  /\ UNCHANGED <<clock, power, polls, sessions, hand, History>>

Boot ==
  /\ trouble < MaxTrouble
  /\ reader' = [session |-> reader.session + 1, scan |-> 0, card |-> None, counter |-> 0, waits |-> FALSE, since |-> 0]
  /\ power' = NoPower
  /\ replies' = {}
  /\ trouble' = trouble + 1
  /\ UNCHANGED <<clock, polls, sessions, hand, History>>

Hear(r) ==
  LET fits == r.scan = reader.scan /\ reader.card # None /\ r.decided
  IN /\ replies' = replies \ {r}
     /\ reader' = [reader EXCEPT !.waits = FALSE, !.since = 0, !.card = IF fits THEN None ELSE @]
     /\ power' = IF fits /\ r.grant > 0
                 THEN [card |-> reader.card, for |-> r.for, until |-> clock + r.grant, end |-> r.end] ELSE power
     /\ UNCHANGED <<clock, polls, sessions, hand, History, trouble>>

-----------------------------------------------------------------------------
(* The gateway.  What it holds of a session is found by its name.          *)

Known(s) == {i \in DOMAIN sessions : sessions[i].session = s}
EntryOf(s) ==
  IF Known(s) = {} THEN [session |-> s, counter |-> 0, scan |-> 0, handled |-> 0]
  ELSE sessions[CHOOSE i \in Known(s) : TRUE]

\* move_to_end, and the oldest go.
With(e) ==
  LET at == IF Known(e.session) = {} THEN Len(sessions) + 1 ELSE CHOOSE i \in Known(e.session) : TRUE
      moved == <<e>> \o SubSeq(sessions, 1, at - 1) \o SubSeq(sessions, at + 1, Len(sessions))
  IN SubSeq(moved, 1, IF Len(moved) < Kept THEN Len(moved) ELSE Kept)

\* A slip: a poll is taken whatever came before it.
AnyPoll(p) == TRUE

Fresh(p) == p.counter > EntryOf(p.session).counter /\ p.scan >= EntryOf(p.session).scan

\* A slip: what waits is decided at every poll.
AnyWaiting(p) == p.card # None

Decides(p) == p.card # None /\ EntryOf(p.session).handled # p.scan

\* Nobody hears an answer to a poll that was given up.
Send(r) ==
  replies' = IF reader.waits /\ r.session = reader.session /\ r.counter = reader.counter THEN {r} ELSE replies

Reply(p, decided, grant, for, end) ==
  [session |-> p.session, counter |-> p.counter, scan |-> p.scan, decided |-> decided, grant |-> grant, for |-> for, end |-> end]

\* The server's health is looked at every ten seconds.
Take(p) ==
  LET e == [EntryOf(p.session) EXCEPT !.counter = p.counter, !.scan = p.scan]
      tap == [session |-> p.session, scan |-> p.scan]
  IN /\ hand.at = "free"
     /\ polls' = polls \ {p}
     /\ IF ~ Fresh(p) THEN UNCHANGED <<replies, sessions, hand, History>>
        ELSE \E ok \in BOOLEAN :
               /\ forgot' = (forgot \/ Cardinality({e.session} \cup {sessions[i].session : i \in DOMAIN sessions}) > Kept)
               /\ IF ok /\ Decides(p)
                  THEN /\ sessions' = With([e EXCEPT !.handled = p.scan])
                       /\ hand' = [Free EXCEPT !.at = "asked", !.poll = p, !.since = clock]
                       /\ asked' = asked \cup {tap} /\ twice' = (twice \/ tap \in asked)
                       /\ UNCHANGED replies
                  ELSE /\ sessions' = With(e)
                       /\ Send(Reply(p, FALSE, 0, None, 0))
                       /\ UNCHANGED <<hand, asked, twice>>
     /\ UNCHANGED <<clock, reader, power, trouble>>

\* The server's answer.
Decide ==
  /\ hand.at = "asked"
  /\ \E allowed \in BOOLEAN : hand' = [hand EXCEPT !.at = "answered", !.allowed = allowed,
                                                   !.end = IF allowed THEN clock + Lease ELSE 0]
  /\ UNCHANGED <<clock, reader, power, polls, replies, sessions, History, trouble>>

\* The whole of the round trip counts against the lease, and so may the clocks.
\* A decision that fails is told as a server that is not available.
Conclude ==
  LET p == hand.poll
      answers == {Reply(p, TRUE, IF until - clock < MaxGrant THEN until - clock ELSE MaxGrant, p.card, hand.end) :
                    until \in clock + 1 .. hand.since + Lease}
  IN /\ hand.at = "answered"
     /\ \/ \E r \in IF hand.allowed THEN answers ELSE {Reply(p, TRUE, 0, None, 0)} :
             Send(r)
        \/ Send(Reply(p, FALSE, 0, None, 0))
     /\ hand' = Free
     /\ UNCHANGED <<clock, reader, power, polls, sessions, History, trouble>>

Restart ==
  /\ trouble < MaxTrouble
  /\ sessions' = <<>> /\ hand' = Free
  /\ polls' = {} /\ replies' = {}
  /\ reader' = [reader EXCEPT !.waits = FALSE, !.since = 0]
  /\ forgot' = TRUE
  /\ trouble' = trouble + 1
  /\ UNCHANGED <<clock, power, asked, twice>>

Init ==
  /\ clock = 0
  /\ reader = [session |-> 1, scan |-> 0, card |-> None, counter |-> 0, waits |-> FALSE, since |-> 0]
  /\ power = NoPower
  /\ polls = {} /\ replies = {}
  /\ sessions = <<>> /\ hand = Free
  /\ asked = {} /\ twice = FALSE /\ forgot = FALSE
  /\ trouble = 0

Next ==
  \/ Tick \/ Poll \/ GiveUp \/ Boot \/ \E c \in Card : Tap(c)
  \/ \E r \in replies : Hear(r)
  \/ \E p \in polls : Take(p)
  \/ Decide \/ Conclude \/ Restart

Spec == Init /\ [][Next]_vars

-----------------------------------------------------------------------------
(* Properties.                                                             *)

\* The reader grants to the card whose decision it has, whichever polls were
\* given up, and arrived late.
GrantsItsTap == power.card = power.for

\* A grant is over when the server's lease is, but for the time that the answer
\* was on its way, for which the reader has patience.
OffInTime == power.until <= power.end + Patience

\* A tap is decided, and the member checked in, once, unless the gateway lost
\* what it knew of the reader.
AskedOnce == twice => forgot
=============================================================================
