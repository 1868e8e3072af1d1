--------------------------- MODULE FacilityProofs ---------------------------
(***************************************************************************)
(* Proofs about the doors and the machines, for each part of the suite and *)
(* then for the suite, whose other parts leave its variables alone. In     *)
(* order: the relay, cards, visits, sponsor requests, the decision at a    *)
(* reader, the two ways from a reader to the server, and the set-up of a   *)
(* reader.                                                                 *)
(*                                                                         *)
(* The relay follows its leases, for any number of them: the generation    *)
(* counts the leases, so it names the newest timer: older ones do not wait *)
(* any more, later ones do not exist, and one that has fired was due. What *)
(* holds the other parts together is said where their invariants are       *)
(* defined: VisitsInv, AttemptsInv, AccessInv, CardsInv, BridgeInv,        *)
(* GateInv and SetupInv.                                                   *)
(***************************************************************************)
EXTENDS MCFacility, FiniteSetTheorems, SequenceTheorems, TLAPS

\* The timers of older leases are over, and those of later ones not begun.
Timers ==
  /\ \A g \in Generation : g < generation => timer[g] # "waiting"
  /\ \A g \in Generation : g > generation => timer[g] = "none"
  /\ \A g \in Generation : timer[g] = "fired" => due[g] <= now

RelayInv == TypeOK /\ OnWillEnd /\ Timers

RelayBounds == MaxGeneration \in Nat /\ MaxLease \in Nat /\ MaxTime \in Nat

LeaseEnds ==
  \A g \in Generation : timer[g] = "fired" /\ timer'[g] = "done" /\ relay /\ ~ relay'
    => due[generation] <= now

LEMMA InitInv ==
  ASSUME RelayBounds, Init
  PROVE  RelayInv
  <1> USE DEF RelayBounds, Init, Generation
  <1>1. \A g \in Generation : timer[g] = "none" /\ due[g] = 0
    OBVIOUS
  <1>2. timer \in [Generation -> {"none", "waiting", "fired", "cancelled", "done"}]
    OBVIOUS
  <1>3. 0 \in 0..MaxTime + MaxLease /\ now \in 0..MaxTime /\ generation \in Generation
    OBVIOUS
  <1>a. due \in [Generation -> 0..MaxTime + MaxLease]
    BY <1>3
  <1>b. relay \in BOOLEAN /\ closed \in BOOLEAN
    BY Zenon
  <1>4. TypeOK
    BY ONLY <1>2, <1>3, <1>a, <1>b DEF TypeOK
  <1>5. Timers
    BY <1>1 DEF Timers
  <1> QED
    BY <1>4, <1>5 DEF RelayInv, OnWillEnd

LEMMA CancelledFields ==
  ASSUME TypeOK
  PROVE  /\ Cancelled \in [Generation -> {"none", "waiting", "fired", "cancelled", "done"}]
         /\ \A g \in Generation : Cancelled[g] # "waiting"
         /\ \A g \in Generation : timer[g] = "none" => Cancelled[g] = "none"
         /\ \A g \in Generation : Cancelled[g] = "fired" => timer[g] = "fired"
  BY DEF Cancelled, TypeOK

LEMMA ApplyKeeps ==
  ASSUME RelayBounds, RelayInv, NEW seconds \in 0..MaxLease, Apply(seconds)
  PROVE  RelayInv' /\ LeaseEnds
  <1> USE DEF RelayBounds, RelayInv, Generation
  <1>1. generation' = generation + 1 /\ generation' \in Generation
    BY DEF Apply, TypeOK
  <1>2. timer' \in [Generation -> {"none", "waiting", "fired", "cancelled", "done"}]
    BY <1>1, CancelledFields DEF Apply, Start
  <1>3. due' \in [Generation -> 0..MaxTime + MaxLease]
    BY <1>1 DEF Apply, TypeOK
  <1>4. TypeOK'
    BY <1>1, <1>2, <1>3 DEF Apply, TypeOK
  <1>5. \A g \in Generation : g # generation' => timer'[g] = Cancelled[g] /\ due'[g] = due[g]
    BY <1>1, CancelledFields DEF Apply, Start, TypeOK
  <1>6. timer'[generation'] = IF seconds > 0 THEN "waiting" ELSE Cancelled[generation']
    BY <1>1, CancelledFields DEF Apply, Start
  <1>7. timer[generation'] = "none"
    BY <1>1 DEF Timers, TypeOK
  <1>8. \A g \in Generation : timer'[g] = "fired" => timer[g] = "fired" /\ due'[g] = due[g]
    BY <1>1, <1>5, <1>6, <1>7, CancelledFields
  <1>9. Timers'
    BY <1>1, <1>5, <1>6, <1>7, <1>8, CancelledFields DEF Timers, Apply, TypeOK
  <1>10. OnWillEnd'
    BY <1>6 DEF OnWillEnd, Apply, Usable
  <1>11. \A g \in Generation : timer[g] = "fired" => timer'[g] # "done"
    BY <1>1, <1>5, <1>6, <1>7 DEF Cancelled
  <1> QED
    BY <1>4, <1>9, <1>10, <1>11 DEF LeaseEnds

LEMMA CloseKeeps ==
  ASSUME RelayBounds, RelayInv, Close
  PROVE  RelayInv' /\ LeaseEnds
  <1> USE DEF RelayBounds, RelayInv, Generation
  <1>1. generation' = generation + 1 /\ generation' \in Generation
    BY DEF Close, TypeOK
  <1>2. TypeOK'
    BY <1>1, CancelledFields DEF Close, TypeOK
  <1>3. Timers'
    BY <1>1, CancelledFields DEF Timers, Close, TypeOK
  <1>4. OnWillEnd'
    BY DEF OnWillEnd, Close
  <1>5. \A g \in Generation : timer[g] = "fired" => timer'[g] # "done"
    BY DEF Close, Cancelled
  <1> QED
    BY <1>2, <1>3, <1>4, <1>5 DEF LeaseEnds

\* A timer fires when it is due, and only the newest one waits.
LEMMA FireKeeps ==
  ASSUME RelayBounds, RelayInv, NEW h \in Generation, Fire(h)
  PROVE  RelayInv' /\ LeaseEnds
  <1> USE DEF RelayBounds, RelayInv
  <1>1. TypeOK'
    BY DEF Fire, TypeOK
  <1>2. timer'[h] = "fired" /\ \A g \in Generation \ {h} : timer'[g] = timer[g]
    BY DEF Fire, TypeOK
  <1>3. Timers'
    BY <1>2 DEF Timers, Fire
  <1>4. OnWillEnd'
    BY <1>2 DEF OnWillEnd, Fire, TypeOK
  <1> QED
    BY <1>1, <1>3, <1>4 DEF LeaseEnds, Fire

\* Only the timer of the newest lease switches the relay off.
LEMMA OffKeeps ==
  ASSUME RelayBounds, RelayInv, NEW h \in Generation, Off(h)
  PROVE  RelayInv' /\ LeaseEnds
  <1> USE DEF RelayBounds, RelayInv
  <1>1. TypeOK'
    BY DEF Off, TypeOK
  <1>2. timer'[h] = "done" /\ \A g \in Generation \ {h} : timer'[g] = timer[g]
    BY DEF Off, TypeOK
  <1>3. Timers'
    BY <1>2 DEF Timers, Off
  <1>4. OnWillEnd'
    BY <1>2 DEF OnWillEnd, Off, Current, TypeOK
  <1>5. LeaseEnds
    BY <1>2 DEF LeaseEnds, Off, Current, Timers
  <1> QED
    BY <1>1, <1>3, <1>4, <1>5

LEMMA OthersKeep ==
  ASSUME RelayBounds, RelayInv, FailAuthorize \/ Tick \/ UNCHANGED vars
  PROVE  RelayInv' /\ LeaseEnds
  <1> USE DEF RelayBounds, RelayInv, LeaseEnds
  <1>1. CASE FailAuthorize
    BY <1>1 DEF FailAuthorize, TypeOK, OnWillEnd, Timers
  <1>2. CASE Tick
    BY <1>2 DEF Tick, TypeOK, OnWillEnd, Timers
  <1>3. CASE UNCHANGED vars
    BY <1>3 DEF vars, TypeOK, OnWillEnd, Timers
  <1> QED
    BY <1>1, <1>2, <1>3

LEMMA StepKeeps ==
  ASSUME RelayBounds, RelayInv, [Next]_vars
  PROVE  RelayInv' /\ LeaseEnds
  <1>1. ASSUME NEW seconds \in 0..MaxLease, Apply(seconds) PROVE RelayInv' /\ LeaseEnds
    BY <1>1, ApplyKeeps
  <1>2. ASSUME NEW g \in Generation, Fire(g) \/ Off(g) PROVE RelayInv' /\ LeaseEnds
    BY <1>2, FireKeeps, OffKeeps
  <1> QED
    BY <1>1, <1>2, CloseKeeps, OthersKeep DEF Next

\* A relay that is on will be switched off, and a renewed lease is not cut
\* short by the timer of an older one (access_client.py), whatever the bounds.
THEOREM Timed ==
  ASSUME RelayBounds
  PROVE  Spec => RelayTimed
  <1>1. Init => RelayInv
    BY InitInv
  <1>2. RelayInv /\ [Next]_vars => RelayInv'
    BY StepKeeps
  <1>3. RelayInv /\ [Next]_vars =>
          [\A g \in Generation : timer[g] = "fired" /\ timer'[g] = "done" /\ relay /\ ~ relay'
             => due[generation] <= now]_vars
    BY StepKeeps DEF LeaseEnds
  <1>4. RelayInv => OnWillEnd
    BY DEF RelayInv
  <1> QED
    BY <1>1, <1>2, <1>3, <1>4, PTL DEF Spec, RelayTimed, LeaseRunsOut

-----------------------------------------------------------------------------
(* The cards.                                                              *)

\* A transaction that is under way: whoever has its scan, its fingerprint or
\* its card has its lock on it, and what it read under the lock is still so.
CardsTx(t) ==
  enrolling[t].pc # "idle" =>
           /\ enrolling[t].do # "none" /\ enrolling[t].hash # "none"
           /\ enrolling[t].scan # "none" =>
                       /\ enrolling[t].do = "assign" /\ enrolling[t].scan \in enrolling[t].locked
                       /\ session[enrolling[t].scan].purpose = "assign" /\ session[enrolling[t].scan].hash = enrolling[t].hash
                       /\ ~ session[enrolling[t].scan].cancelled /\ ~ session[enrolling[t].scan].completed
           /\ enrolling[t].do # "assign" =>
                       enrolling[t].card # "none" /\ card[enrolling[t].card].rev > 0 /\ card[enrolling[t].card].hash = enrolling[t].hash
           /\ enrolling[t].do # "revoke" /\ enrolling[t].pc # "hash" => enrolling[t].hash \in enrolling[t].locked
           /\ enrolling[t].pc = "card" => enrolling[t].card # "none"
           /\ enrolling[t].pc \in {"check", "commit"} /\ enrolling[t].card # "none" =>
                       enrolling[t].card \in enrolling[t].locked /\ card[enrolling[t].card].active = (enrolling[t].do # "reactivate")
           /\ enrolling[t].pc = "commit" /\ enrolling[t].do # "revoke" =>
                       \A d \in Card \ {enrolling[t].card} : card[d].active => card[d].hash # enrolling[t].hash

CardsInv ==
  /\ C!TypeOK
  /\ \A t, u \in Tx : t # u => enrolling[t].locked \cap enrolling[u].locked = {}
  /\ \A t \in Tx : CardsTx(t)
  /\ \A c \in Card : /\ card[c].rev = 0 => ~ card[c].active /\ card[c].scan = "none"
                     /\ card[c].rev > 0 => card[c].hash # "none"
  /\ C!OneActive
  /\ C!ScanServesOnce

LEMMA ScanRows ==
  ASSUME NEW r \in C!ScanRow
  PROVE  /\ [r EXCEPT !.cancelled = TRUE] \in C!ScanRow /\ [r EXCEPT !.cancelled = TRUE].cancelled
         /\ [r EXCEPT !.cancelled = TRUE].purpose = r.purpose /\ [r EXCEPT !.cancelled = TRUE].hash = r.hash
         /\ [r EXCEPT !.cancelled = TRUE].completed = r.completed
         /\ [r EXCEPT !.expired = TRUE] \in C!ScanRow /\ [r EXCEPT !.expired = TRUE].cancelled = r.cancelled
         /\ [r EXCEPT !.expired = TRUE].purpose = r.purpose /\ [r EXCEPT !.expired = TRUE].hash = r.hash
         /\ [r EXCEPT !.expired = TRUE].completed = r.completed
         /\ [r EXCEPT !.completed = TRUE] \in C!ScanRow /\ [r EXCEPT !.completed = TRUE].cancelled = r.cancelled
         /\ [r EXCEPT !.completed = TRUE].purpose = r.purpose /\ [r EXCEPT !.completed = TRUE].hash = r.hash
         /\ [r EXCEPT !.completed = TRUE].completed
BY DEF C!ScanRow

LEMMA Takes ==
  ASSUME NEW f \in C!Progress, NEW x \in Session \cup Card \cup Hash
  PROVE  /\ [f EXCEPT !.locked = @ \cup {x}] \in C!Progress
         /\ [f EXCEPT !.locked = @ \cup {x}].locked = f.locked \cup {x}
         /\ [f EXCEPT !.locked = @ \cup {x}].pc = f.pc /\ [f EXCEPT !.locked = @ \cup {x}].do = f.do
         /\ [f EXCEPT !.locked = @ \cup {x}].scan = f.scan /\ [f EXCEPT !.locked = @ \cup {x}].hash = f.hash
         /\ [f EXCEPT !.locked = @ \cup {x}].card = f.card /\ [f EXCEPT !.locked = @ \cup {x}].rev = f.rev
BY DEF C!Progress

LEMMA Goes ==
  ASSUME NEW f \in C!Progress, NEW place \in {"idle", "hash", "card", "check", "commit"}
  PROVE  /\ [f EXCEPT !.pc = place] \in C!Progress /\ [f EXCEPT !.pc = place].pc = place
         /\ [f EXCEPT !.pc = place].do = f.do /\ [f EXCEPT !.pc = place].locked = f.locked
         /\ [f EXCEPT !.pc = place].scan = f.scan /\ [f EXCEPT !.pc = place].hash = f.hash
         /\ [f EXCEPT !.pc = place].card = f.card /\ [f EXCEPT !.pc = place].rev = f.rev
BY DEF C!Progress

LEMMA CardRows ==
  ASSUME NEW r \in C!CardRow, NEW a \in BOOLEAN, NEW k
  PROVE  [r EXCEPT !.active = a, !.rev = k].active = a
BY Zenon DEF C!CardRow

LEMMA ReplacedRow ==
  ASSUME CardsInv, NEW c \in Card, card[c].rev < MaxRev
  PROVE  /\ C!Replaced(c) \in C!CardRow /\ C!Replaced(c).rev = card[c].rev + 1
         /\ C!Replaced(c).hash = card[c].hash /\ C!Replaced(c).scan = card[c].scan
         /\ C!Replaced(c).active = ~ card[c].active
<1>1. card[c] \in C!CardRow
  BY DEF CardsInv, C!TypeOK
<1>2. card[c].rev \in 0..MaxRev
  BY <1>1 DEF C!CardRow
<1>3. card[c].rev + 1 \in 0..MaxRev
  BY <1>2, CardsAssumption
<1> DEFINE a == ~ card[c].active
<1>4. a \in BOOLEAN
  OBVIOUS
<1>5. C!Replaced(c) = [card[c] EXCEPT !.active = a, !.rev = card[c].rev + 1]
  BY DEF C!Replaced
<1> HIDE DEF a
<1> DEFINE k == card[c].rev + 1
           q == [card[c] EXCEPT !.active = a, !.rev = k]
<1>6. k \in 0..MaxRev
  BY <1>3
<1> HIDE DEF k
<1>7. q \in C!CardRow /\ q.rev = k /\ q.hash = card[c].hash /\ q.scan = card[c].scan
  BY <1>1, <1>4, <1>6 DEF C!CardRow
<1>8. q.active = a
  BY <1>1, <1>4, CardRows, Zenon
<1>9. C!Replaced(c) = q
  BY <1>5, Zenon DEF k
<1> HIDE DEF q
<1> QED
  BY <1>7, <1>8, <1>9, Zenon DEF a, k

LEMMA IdleTx == C!Idle \in C!Progress /\ C!Idle.pc = "idle" /\ C!Idle.locked = {}
BY CardsAssumption DEF C!Idle, C!Progress

\* A step of the transactions alone: one of them moves on.
LEMMA CardsMove ==
  ASSUME CardsInv, NEW t \in Tx, NEW f \in C!Progress, enrolling' = [enrolling EXCEPT ![t] = f],
         UNCHANGED <<enabled, session, card>>,
         \A u \in Tx \ {t} : f.locked \cap enrolling[u].locked = {},
         CardsTx(t)'
  PROVE  CardsInv'
<1>1. enrolling' \in [Tx -> C!Progress] /\ enrolling'[t] = f /\ \A u \in Tx \ {t} : enrolling'[u] = enrolling[u]
  BY DEF CardsInv, C!TypeOK
<1>2. C!TypeOK'
  BY <1>1 DEF CardsInv, C!TypeOK
<1>3. \A u \in Tx : CardsTx(u)'
  BY <1>1 DEF CardsInv, CardsTx
<1>4. \A u, w \in Tx : u # w => enrolling'[u].locked \cap enrolling'[w].locked = {}
  BY <1>1 DEF CardsInv
<1> QED
  BY <1>2, <1>3, <1>4 DEF CardsInv, C!OneActive, C!ScanServesOnce

LEMMA CardsEnd ==
  ASSUME CardsInv, NEW t \in Tx, enrolling' = [enrolling EXCEPT ![t] = C!Idle], UNCHANGED <<enabled, session, card>>
  PROVE  CardsInv'
<1>1. enrolling'[t] = C!Idle
  BY DEF CardsInv, C!TypeOK
<1> QED
  BY <1>1, IdleTx, CardsMove DEF CardsTx

\* A step of the scans alone: those that a transaction or a card has stay.
LEMMA CardsScan ==
  ASSUME CardsInv, enabled' \in BOOLEAN, session' \in [Session -> C!ScanRow], UNCHANGED <<card, enrolling>>,
         \A s \in Session :
           \/ /\ session'[s].purpose = session[s].purpose /\ session'[s].hash = session[s].hash
              /\ session'[s].cancelled = session[s].cancelled /\ session'[s].completed = session[s].completed
           \/ /\ \A t \in Tx : enrolling[t].pc # "idle" => enrolling[t].scan # s
              /\ \A c \in Card : card[c].scan # s
  PROVE  CardsInv'
<1>1. C!TypeOK'
  BY DEF CardsInv, C!TypeOK
<1>2. ASSUME NEW t \in Tx PROVE CardsTx(t)'
  <2>1. enrolling[t] \in C!Progress
    BY DEF CardsInv, C!TypeOK
  <2>2. enrolling[t].scan \in Session \cup {"none"}
    BY <2>1 DEF C!Progress
  <2> QED
    BY <2>2 DEF CardsInv, CardsTx
<1>3. C!ScanServesOnce'
  <2>1. \A c \in Card : card[c].scan \in Session \cup {"none"}
    BY DEF CardsInv, C!TypeOK, C!CardRow
  <2> QED
    BY <2>1 DEF CardsInv, C!ScanServesOnce
<1> QED
  BY <1>1, <1>2, <1>3 DEF CardsInv, C!OneActive

\* Nobody has a scan that nobody holds the lock of and that is not used up.
LEMMA CardsFree ==
  ASSUME CardsInv, NEW s \in Session, C!Free(s) \/ session[s].purpose = "none",
         ~ session[s].completed \/ session[s].purpose = "none"
  PROVE  /\ \A t \in Tx : enrolling[t].pc # "idle" => enrolling[t].scan # s
         /\ \A c \in Card : card[c].scan # s
<1>1. s # "none"
  BY CardsAssumption
<1> QED
  BY <1>1 DEF CardsInv, CardsTx, C!ScanServesOnce, C!Free

LEMMA CardsBegin ==
  ASSUME CardsInv, NEW s \in Session, NEW p \in {"assign", "lookup"}, C!Begin(s, p)
  PROVE  CardsInv'
<1>1. session \in [Session -> C!ScanRow] /\ enabled \in BOOLEAN
  BY DEF CardsInv, C!TypeOK
<1>2. [C!NoSession EXCEPT !.purpose = p] \in C!ScanRow
  BY DEF C!NoSession, C!ScanRow
<1>3. session' \in [Session -> C!ScanRow]
  BY <1>1, <1>2, ScanRows DEF C!Begin
<1>4. ASSUME NEW q \in Session, q = s \/ C!Open(q)
      PROVE  /\ \A t \in Tx : enrolling[t].pc # "idle" => enrolling[t].scan # q
             /\ \A c \in Card : card[c].scan # q
  BY <1>4, CardsFree DEF C!Begin, C!Open
<1>5. \A q \in Session : q = s \/ C!Open(q) \/ session'[q] = session[q]
  BY DEF C!Begin
<1> QED
  BY <1>1, <1>3, <1>4, <1>5, CardsScan DEF C!Begin

LEMMA CardsCapture ==
  ASSUME CardsInv, NEW s \in Session, NEW h \in Hash, C!Capture(s, h)
  PROVE  CardsInv'
<1>1. session \in [Session -> C!ScanRow] /\ enabled \in BOOLEAN
  BY DEF CardsInv, C!TypeOK
<1> DEFINE done == session[s].completed \/ session[s].purpose = "lookup"
<1>2. done \in BOOLEAN
  OBVIOUS
<1>3. session' = [session EXCEPT ![s] = [session[s] EXCEPT !.hash = h, !.completed = done]]
  BY <1>1 DEF C!Capture
<1> HIDE DEF done
<1>4. [session[s] EXCEPT !.hash = h, !.completed = done] \in C!ScanRow
  BY <1>1, <1>2 DEF C!ScanRow
<1>5. session' \in [Session -> C!ScanRow] /\ \A q \in Session \ {s} : session'[q] = session[q]
  BY <1>1, <1>3, <1>4
<1>6. /\ \A t \in Tx : enrolling[t].pc # "idle" => enrolling[t].scan # s
      /\ \A c \in Card : card[c].scan # s
  BY CardsFree DEF C!Capture, C!Open
<1> QED
  BY <1>1, <1>5, <1>6, CardsScan DEF C!Capture

LEMMA CardsToggle ==
  ASSUME CardsInv, C!Toggle
  PROVE  CardsInv'
<1>1. session \in [Session -> C!ScanRow]
  BY DEF CardsInv, C!TypeOK
<1>2. session' \in [Session -> C!ScanRow] /\ enabled' \in BOOLEAN
  BY <1>1, ScanRows DEF C!Toggle
<1>3. ASSUME NEW q \in Session, enabled, C!Open(q)
      PROVE  /\ \A t \in Tx : enrolling[t].pc # "idle" => enrolling[t].scan # q
             /\ \A c \in Card : card[c].scan # q
  BY <1>3, CardsFree DEF C!Toggle, C!Open
<1>4. \A q \in Session : (enabled /\ C!Open(q)) \/ session'[q] = session[q]
  BY DEF C!Toggle
<1> QED
  BY <1>2, <1>3, <1>4, CardsScan DEF C!Toggle

LEMMA CardsCancel ==
  ASSUME CardsInv, NEW s \in Session, C!Cancel(s)
  PROVE  CardsInv'
<1>1. session \in [Session -> C!ScanRow] /\ enabled \in BOOLEAN
  BY DEF CardsInv, C!TypeOK
<1>2. session' = [session EXCEPT ![s] = [session[s] EXCEPT !.cancelled = TRUE]]
  BY <1>1 DEF C!Cancel
<1>3. session' \in [Session -> C!ScanRow] /\ \A q \in Session \ {s} : session'[q] = session[q]
  BY <1>1, <1>2, ScanRows
<1>4. /\ \A t \in Tx : enrolling[t].pc # "idle" => enrolling[t].scan # s
      /\ \A c \in Card : card[c].scan # s
  BY CardsFree DEF C!Cancel, C!Open
<1> QED
  BY <1>1, <1>3, <1>4, CardsScan DEF C!Cancel

LEMMA CardsExpire ==
  ASSUME CardsInv, NEW s \in Session, C!Expire(s)
  PROVE  CardsInv'
<1>1. session \in [Session -> C!ScanRow] /\ enabled \in BOOLEAN
  BY DEF CardsInv, C!TypeOK
<1>2. session' = [session EXCEPT ![s] = [session[s] EXCEPT !.expired = TRUE]]
  BY <1>1 DEF C!Expire
<1>3. /\ session' \in [Session -> C!ScanRow]
      /\ session'[s] = [session[s] EXCEPT !.expired = TRUE]
      /\ \A q \in Session \ {s} : session'[q] = session[q]
  BY <1>1, <1>2, ScanRows
<1>4. LET r == [session[s] EXCEPT !.expired = TRUE]
      IN /\ r.purpose = session[s].purpose /\ r.hash = session[s].hash
         /\ r.cancelled = session[s].cancelled /\ r.completed = session[s].completed
  BY <1>1, ScanRows, Zenon
<1>5. \A q \in Session :
         /\ session'[q].purpose = session[q].purpose /\ session'[q].hash = session[q].hash
         /\ session'[q].cancelled = session[q].cancelled /\ session'[q].completed = session[q].completed
  BY <1>3, <1>4, Zenon
<1> QED
  BY <1>1, <1>3, <1>5, CardsScan DEF C!Expire

LEMMA CardsAssignScan ==
  ASSUME CardsInv, NEW t \in Tx, NEW s \in Session, C!AssignScan(t, s)
  PROVE  CardsInv'
<1>1. PICK old \in Card \cup {"none"} :
        C!Lock(t, s, [C!Idle EXCEPT !.pc = "hash", !.do = "assign", !.scan = s, !.hash = session[s].hash,
                   !.card = old, !.rev = IF old = "none" THEN 0 ELSE card[old].rev])
  BY DEF C!AssignScan, C!LockScan
<1> DEFINE k == IF old = "none" THEN 0 ELSE card[old].rev
           g == [C!Idle EXCEPT !.pc = "hash", !.do = "assign", !.scan = s, !.hash = session[s].hash,
                  !.card = old, !.rev = k]
           f == [g EXCEPT !.locked = @ \cup {s}]
<1>2. k \in 0..MaxRev
  BY CardsAssumption DEF CardsInv, C!TypeOK, C!CardRow
<1>3. session[s].hash \in Hash
  BY DEF C!AssignScan, C!LockScan, CardsInv, C!TypeOK, C!ScanRow
<1>4. enrolling' = [enrolling EXCEPT ![t] = f]
  BY <1>1 DEF C!Lock
<1> HIDE DEF k
<1>5. /\ g \in C!Progress /\ g.pc = "hash" /\ g.do = "assign" /\ g.scan = s
      /\ g.hash = session[s].hash /\ g.card = old /\ g.locked = {}
  BY <1>2, <1>3, CardsAssumption DEF C!Idle, C!Progress
<1> HIDE DEF g
<1>6. /\ f \in C!Progress /\ f.pc = "hash" /\ f.do = "assign" /\ f.scan = s
      /\ f.hash = session[s].hash /\ f.card = old /\ f.locked = {s}
  BY <1>5, Takes
<1> HIDE DEF f
<1>7. \A u \in Tx \ {t} : f.locked \cap enrolling[u].locked = {}
  BY <1>6 DEF C!AssignScan, C!LockScan, C!Free
<1>8. enrolling'[t] = f
  BY <1>4 DEF CardsInv, C!TypeOK
<1>9. CardsTx(t)'
  BY <1>3, <1>6, <1>8, CardsAssumption DEF CardsTx, C!AssignScan, C!LockScan, C!Open
<1> QED
  BY <1>4, <1>6, <1>7, <1>9, CardsMove DEF C!AssignScan

LEMMA CardsAssignTyped ==
  ASSUME CardsInv, NEW t \in Tx, NEW h \in Hash, C!AssignTyped(t, h)
  PROVE  CardsInv'
<1> DEFINE f == [C!Idle EXCEPT !.pc = "hash", !.do = "assign", !.hash = h]
<1>1. enrolling' = [enrolling EXCEPT ![t] = f]
  BY DEF C!AssignTyped
<1>20. 0 \in 0..MaxRev
  BY CardsAssumption
<1>21. f.pc = "hash" /\ f.do = "assign" /\ f.scan = "none" /\ f.hash = h /\ f.locked = {}
  BY DEF C!Idle
<1>22. f \in C!Progress
  BY <1>20 DEF C!Idle, C!Progress
<1>2. /\ f \in C!Progress /\ f.pc = "hash" /\ f.do = "assign" /\ f.scan = "none"
      /\ f.hash = h /\ f.locked = {}
  BY <1>21, <1>22
<1> HIDE DEF f
<1>3. enrolling'[t] = f
  BY <1>1 DEF CardsInv, C!TypeOK
<1>4. CardsTx(t)'
  BY <1>2, <1>3, CardsAssumption DEF CardsTx
<1> QED
  BY <1>1, <1>2, <1>4, CardsMove DEF C!AssignTyped

LEMMA CardsChangeCard ==
  ASSUME CardsInv, NEW t \in Tx, NEW c \in Card, NEW do \in {"revoke", "reactivate"}, C!ChangeCard(t, c, do)
  PROVE  CardsInv'
<1> DEFINE place == IF do = "reactivate" THEN "hash" ELSE "card"
           f == [C!Idle EXCEPT !.pc = place, !.do = do, !.hash = card[c].hash,
                               !.card = c, !.rev = card[c].rev]
<1>1. enrolling' = [enrolling EXCEPT ![t] = f]
  BY DEF C!ChangeCard
<1>2. card[c] \in C!CardRow /\ c # "none" /\ card[c].rev > 0 /\ card[c].hash # "none"
  BY CardsAssumption DEF CardsInv, C!TypeOK, C!ChangeCard
<1>3. place \in {"hash", "card"} /\ (place = "hash" <=> do = "reactivate")
  OBVIOUS
<1> HIDE DEF place
<1>4. /\ f \in C!Progress /\ f.pc = place /\ f.do = do /\ f.scan = "none"
      /\ f.hash = card[c].hash /\ f.card = c /\ f.locked = {}
  BY <1>2, <1>3, CardsAssumption DEF C!Idle, C!Progress, C!CardRow
<1> HIDE DEF f
<1>5. enrolling'[t] = f
  BY <1>1 DEF CardsInv, C!TypeOK
<1>60. card'[c] = card[c] /\ enrolling'[t].pc = place /\ enrolling'[t].do = do /\ enrolling'[t].scan = "none"
       /\ enrolling'[t].hash = card[c].hash /\ enrolling'[t].card = c
  BY <1>4, <1>5 DEF C!ChangeCard
<1>61. card'[c].rev > 0 /\ card'[c].hash # "none"
  BY <1>2, <1>60
<1>62. enrolling'[t].pc \notin {"check", "commit"} /\ (enrolling'[t].do = "reactivate" => enrolling'[t].pc = "hash")
  BY <1>3, <1>60
<1>6. CardsTx(t)'
  BY <1>2, <1>60, <1>61, <1>62 DEF CardsTx
<1>7. \A u \in Tx \ {t} : f.locked \cap enrolling[u].locked = {}
  BY <1>4
<1> QED
  BY <1>1, <1>4, <1>6, <1>7, CardsMove DEF C!ChangeCard

LEMMA CardsLockHash ==
  ASSUME CardsInv, NEW t \in Tx, C!LockHash(t)
  PROVE  CardsInv'
<1> DEFINE place == IF enrolling[t].card = "none" THEN "check" ELSE "card"
           g == [enrolling[t] EXCEPT !.pc = place]
           f == [g EXCEPT !.locked = @ \cup {enrolling[t].hash}]
<1>1. enrolling[t] \in C!Progress /\ enrolling[t].pc = "hash" /\ C!Free(enrolling[t].hash)
  BY DEF CardsInv, C!TypeOK, C!LockHash
<1>2. CardsTx(t)
  BY DEF CardsInv
<1>3. enrolling[t].hash \in Hash
  BY <1>1, <1>2 DEF C!Progress, CardsTx
<1>4. place \in {"check", "card"} /\ (enrolling[t].card = "none" <=> place = "check")
  OBVIOUS
<1>5. enrolling' = [enrolling EXCEPT ![t] = f]
  BY DEF C!LockHash, C!Lock
<1> HIDE DEF place
<1>51. /\ g \in C!Progress /\ g.locked = enrolling[t].locked /\ g.pc = place /\ g.do = enrolling[t].do
       /\ g.scan = enrolling[t].scan /\ g.hash = enrolling[t].hash /\ g.card = enrolling[t].card /\ g.rev = enrolling[t].rev
  BY <1>1, <1>4 DEF C!Progress
<1> HIDE DEF g
<1>6. /\ f \in C!Progress /\ f.locked = enrolling[t].locked \cup {enrolling[t].hash} /\ f.pc = place
      /\ f.do = enrolling[t].do /\ f.scan = enrolling[t].scan /\ f.hash = enrolling[t].hash
      /\ f.card = enrolling[t].card /\ f.rev = enrolling[t].rev
  BY <1>3, <1>51, Takes
<1> HIDE DEF f
<1>7. enrolling'[t] = f
  BY <1>5 DEF CardsInv, C!TypeOK
<1>8. \A u \in Tx \ {t} : f.locked \cap enrolling[u].locked = {}
  BY <1>1, <1>6 DEF CardsInv, C!Free
<1>9. CardsTx(t)'
  BY <1>1, <1>2, <1>4, <1>6, <1>7 DEF CardsTx, C!LockHash
<1> QED
  BY <1>5, <1>6, <1>8, <1>9, CardsMove DEF C!LockHash

LEMMA CardsLockCard ==
  ASSUME CardsInv, NEW t \in Tx, C!LockCard(t)
  PROVE  CardsInv'
<1> DEFINE c == enrolling[t].card
           place == IF enrolling[t].do = "revoke" THEN "commit" ELSE "check"
           g == [enrolling[t] EXCEPT !.pc = place]
           f == [g EXCEPT !.locked = @ \cup {c}]
<1>1. enrolling[t] \in C!Progress /\ enrolling[t].pc = "card" /\ C!Free(c)
  BY DEF CardsInv, C!TypeOK, C!LockCard
<1>2. CardsTx(t)
  BY DEF CardsInv
<1>3. c \in Card
  BY <1>1, <1>2 DEF C!Progress, CardsTx
<1>4. CASE card[c].rev = enrolling[t].rev /\ card[c].active = (enrolling[t].do # "reactivate")
  <2>1. place \in {"check", "commit"} /\ (enrolling[t].do = "revoke" <=> place = "commit")
    OBVIOUS
  <2>2. enrolling' = [enrolling EXCEPT ![t] = f]
    BY <1>4 DEF C!LockCard, C!Lock
  <2> HIDE DEF place
  <2>21. /\ g \in C!Progress /\ g.locked = enrolling[t].locked /\ g.pc = place /\ g.do = enrolling[t].do
         /\ g.scan = enrolling[t].scan /\ g.hash = enrolling[t].hash /\ g.card = c /\ g.rev = enrolling[t].rev
    BY <1>1, <2>1 DEF C!Progress
  <2> HIDE DEF g
  <2>3. /\ f \in C!Progress /\ f.locked = enrolling[t].locked \cup {c} /\ f.pc = place
        /\ f.do = enrolling[t].do /\ f.scan = enrolling[t].scan /\ f.hash = enrolling[t].hash
        /\ f.card = c /\ f.rev = enrolling[t].rev
    BY <1>3, <2>21, Takes
  <2> HIDE DEF f
  <2>4. enrolling'[t] = f
    BY <2>2 DEF CardsInv, C!TypeOK
  <2>5. \A u \in Tx \ {t} : f.locked \cap enrolling[u].locked = {}
    BY <1>1, <2>3 DEF CardsInv, C!Free
  <2>6. CardsTx(t)'
    BY <1>1, <1>2, <1>3, <1>4, <2>1, <2>3, <2>4 DEF CardsTx, C!LockCard
  <2> QED
    BY <2>2, <2>3, <2>5, <2>6, CardsMove DEF C!LockCard
<1>5. CASE ~ (card[c].rev = enrolling[t].rev /\ card[c].active = (enrolling[t].do # "reactivate"))
  BY <1>5, CardsEnd DEF C!LockCard
<1> QED
  BY <1>4, <1>5

LEMMA CardsCheckUnassigned ==
  ASSUME CardsInv, NEW t \in Tx, C!CheckUnassigned(t)
  PROVE  CardsInv'
<1> DEFINE taken == \E c \in Card \ {enrolling[t].card} : card[c].active /\ card[c].hash = enrolling[t].hash
           f == [enrolling[t] EXCEPT !.pc = "commit"]
<1>1. enrolling[t] \in C!Progress /\ enrolling[t].pc = "check" /\ CardsTx(t)
  BY DEF CardsInv, C!TypeOK, C!CheckUnassigned
<1>2. CASE taken
  BY <1>2, CardsEnd DEF C!CheckUnassigned
<1>3. CASE ~ taken
  <2>1. enrolling' = [enrolling EXCEPT ![t] = f]
    BY <1>3 DEF C!CheckUnassigned, CardsInv, C!TypeOK
  <2>2. /\ f \in C!Progress /\ f.locked = enrolling[t].locked /\ f.pc = "commit"
        /\ f.do = enrolling[t].do /\ f.scan = enrolling[t].scan /\ f.hash = enrolling[t].hash /\ f.card = enrolling[t].card
    BY <1>1, Goes
  <2> HIDE DEF f
  <2>3. enrolling'[t] = f
    BY <2>1 DEF CardsInv, C!TypeOK
  <2>4. \A u \in Tx \ {t} : f.locked \cap enrolling[u].locked = {}
    BY <2>2 DEF CardsInv
  <2>5. CardsTx(t)'
    BY <1>1, <1>3, <2>2, <2>3 DEF CardsTx, C!CheckUnassigned
  <2> QED
    BY <2>1, <2>2, <2>4, <2>5, CardsMove DEF C!CheckUnassigned
<1> QED
  BY <1>2, <1>3

\* A card is revoked or reactivated: nobody else has its lock, and a card that
\* is made active has a fingerprint that nobody else holds.
LEMMA CardsCommitChange ==
  ASSUME CardsInv, NEW t \in Tx, C!CommitChange(t)
  PROVE  CardsInv'
<1> DEFINE c == enrolling[t].card
           r == C!Replaced(c)
<1>1. enrolling[t] \in C!Progress /\ CardsTx(t) /\ enrolling[t].pc = "commit" /\ enrolling[t].do # "assign"
  BY DEF CardsInv, C!TypeOK, C!CommitChange
<1>2. c \in Card /\ c \in enrolling[t].locked /\ card[c].active = (enrolling[t].do # "reactivate")
      /\ card[c].rev > 0 /\ card[c].hash = enrolling[t].hash
  BY <1>1 DEF CardsTx, C!Progress
<1>3. r \in C!CardRow /\ r.rev = card[c].rev + 1 /\ r.hash = card[c].hash /\ r.scan = card[c].scan
      /\ r.active = ~ card[c].active
  BY <1>2, ReplacedRow DEF C!CommitChange
<1>4. card' = [card EXCEPT ![c] = r] /\ enrolling' = [enrolling EXCEPT ![t] = C!Idle] /\ UNCHANGED <<enabled, session>>
  BY DEF C!CommitChange
<1> HIDE DEF c, r
<1>5. card' \in [Card -> C!CardRow] /\ card'[c] = r /\ \A d \in Card \ {c} : card'[d] = card[d]
  BY <1>2, <1>3, <1>4 DEF CardsInv, C!TypeOK
<1>6. enrolling' \in [Tx -> C!Progress] /\ enrolling'[t] = C!Idle /\ \A u \in Tx \ {t} : enrolling'[u] = enrolling[u]
  BY <1>4, IdleTx DEF CardsInv, C!TypeOK
<1>7. C!TypeOK'
  BY <1>4, <1>5, <1>6 DEF CardsInv, C!TypeOK
<1>8. \A u, w \in Tx : u # w => enrolling'[u].locked \cap enrolling'[w].locked = {}
  BY <1>6, IdleTx DEF CardsInv
<1>9. /\ \A d \in Card : card'[d].hash = card[d].hash /\ card'[d].scan = card[d].scan
      /\ \A d \in Card : card[d].rev > 0 <=> card'[d].rev > 0
      /\ \A d \in Card : card'[d].active /\ d # c => card[d].active
  <2>1. card[c].rev \in Nat
    BY <1>2, CardsAssumption DEF CardsInv, C!TypeOK, C!CardRow
  <2> QED
    BY <1>2, <1>3, <1>5, <2>1
<1>10. card'[c].active <=> enrolling[t].do = "reactivate"
  BY <1>2, <1>3, <1>5
<1>11. card'[c].active => enrolling[t].hash \in enrolling[t].locked
                          /\ \A d \in Card \ {c} : card[d].active => card[d].hash # enrolling[t].hash
  BY <1>1, <1>10 DEF CardsTx, c
<1>12. ASSUME NEW u \in Tx PROVE CardsTx(u)'
  <2>1. CASE u = t
    BY <2>1, <1>6, IdleTx DEF CardsTx
  <2>2. CASE u # t
    <3>1. enrolling'[u] = enrolling[u] /\ CardsTx(u) /\ enrolling[u] \in C!Progress /\ enrolling[u].locked \cap enrolling[t].locked = {}
      BY <2>2, <1>6 DEF CardsInv, C!TypeOK
    <3>2. enrolling[u].pc \in {"check", "commit"} /\ enrolling[u].card # "none" => enrolling[u].card # c
      BY <3>1, <1>2, IdleTx DEF CardsTx
    <3>3. enrolling[u].pc \in {"check", "commit"} /\ enrolling[u].card # "none" => card'[enrolling[u].card] = card[enrolling[u].card]
      BY <3>1, <3>2, <1>5 DEF C!Progress
    <3>4. enrolling[u].pc # "idle" /\ enrolling[u].do # "assign" =>
                   enrolling[u].card # "none" /\ card'[enrolling[u].card].rev > 0 /\ card'[enrolling[u].card].hash = enrolling[u].hash
      BY <3>1, <1>9 DEF CardsTx, C!Progress
    <3>5. enrolling[u].pc = "commit" /\ enrolling[u].do # "revoke" =>
                   \A d \in Card \ {enrolling[u].card} : card'[d].active => card'[d].hash # enrolling[u].hash
      <4> SUFFICES ASSUME enrolling[u].pc = "commit", enrolling[u].do # "revoke",
                          NEW d \in Card \ {enrolling[u].card}, card'[d].active
                   PROVE  card'[d].hash # enrolling[u].hash
        OBVIOUS
      <4>1. enrolling[u].hash \in enrolling[u].locked
        BY <3>1 DEF CardsTx
      <4>2. CASE d = c
        BY <4>1, <4>2, <3>1, <1>2, <1>9, <1>11
      <4>3. CASE d # c
        BY <4>3, <3>1, <1>9 DEF CardsTx
      <4> QED
        BY <4>2, <4>3
    <3> QED
      BY <3>1, <3>3, <3>4, <3>5, <1>4 DEF CardsTx
  <2> QED
    BY <2>1, <2>2
<1>13. \A d \in Card : /\ card'[d].rev = 0 => ~ card'[d].active /\ card'[d].scan = "none"
                       /\ card'[d].rev > 0 => card'[d].hash # "none"
  <2>1. card'[c].rev > 0
    BY <1>2, <1>9
  <2> QED
    BY <2>1, <1>5, <1>9 DEF CardsInv
<1>14. C!OneActive'
  <2> SUFFICES ASSUME NEW d \in Card, NEW e \in Card, d # e, card'[d].active, card'[e].active
               PROVE  card'[d].hash # card'[e].hash
    BY DEF C!OneActive
  <2>1. CASE d = c
    BY <2>1, <1>2, <1>9, <1>11
  <2>2. CASE e = c
    BY <2>2, <1>2, <1>9, <1>11
  <2>3. CASE d # c /\ e # c
    BY <2>3, <1>9 DEF CardsInv, C!OneActive
  <2> QED
    BY <2>1, <2>2, <2>3
<1>15. C!ScanServesOnce'
  BY <1>4, <1>9 DEF CardsInv, C!ScanServesOnce
<1> QED
  BY <1>7, <1>8, <1>12, <1>13, <1>14, <1>15 DEF CardsInv

\* A card is assigned: its fingerprint and its scan are held by nobody else,
\* and the scan is not used up.
LEMMA CardsCommitAssign ==
  ASSUME CardsInv, NEW t \in Tx, NEW n \in Card, C!CommitAssign(t, n)
  PROVE  CardsInv'
<1> DEFINE c == enrolling[t].card
           s == enrolling[t].scan
           r == [hash |-> enrolling[t].hash, active |-> TRUE, rev |-> 1, scan |-> s]
           q == [session[s] EXCEPT !.completed = TRUE]
<1>1. enrolling[t] \in C!Progress /\ CardsTx(t) /\ enrolling[t].pc = "commit" /\ enrolling[t].do = "assign"
  BY DEF CardsInv, C!TypeOK, C!CommitAssign
<1>2. /\ enrolling[t].hash \in Hash /\ enrolling[t].hash # "none" /\ enrolling[t].hash \in enrolling[t].locked
      /\ c \in Card \cup {"none"} /\ s \in Session \cup {"none"}
  BY <1>1 DEF CardsTx, C!Progress
<1>3. c # "none" => c \in Card /\ c \in enrolling[t].locked /\ card[c].active
  BY <1>1, <1>2 DEF CardsTx
<1>4. n # c /\ card[n].rev = 0 /\ ~ card[n].active /\ n # "none"
  BY <1>3, CardsAssumption DEF CardsInv, C!CommitAssign
<1>5. r \in C!CardRow
  BY <1>2, CardsAssumption DEF C!CardRow
<1>6. c # "none" => /\ C!Replaced(c) \in C!CardRow /\ C!Replaced(c).rev = card[c].rev + 1
                    /\ C!Replaced(c).hash = card[c].hash /\ C!Replaced(c).scan = card[c].scan
                    /\ C!Replaced(c).active = ~ card[c].active
  BY <1>3, ReplacedRow DEF C!CommitAssign
<1>7. card' = [d \in Card |-> IF d = n THEN r ELSE IF d = c THEN C!Replaced(c) ELSE card[d]]
  BY DEF C!CommitAssign
<1>8. session' = [p \in Session |-> IF p = s THEN [session[p] EXCEPT !.completed = TRUE] ELSE session[p]]
      /\ enrolling' = [enrolling EXCEPT ![t] = C!Idle] /\ enabled' = enabled
  BY DEF C!CommitAssign
<1>9. r.hash = enrolling[t].hash /\ r.active /\ r.rev = 1 /\ r.scan = s
  OBVIOUS
<1> HIDE DEF r
<1>10. /\ card' \in [Card -> C!CardRow] /\ card'[n] = r /\ (c # "none" => card'[c] = C!Replaced(c))
       /\ \A d \in Card \ {n, c} : card'[d] = card[d]
  <2>1. card \in [Card -> C!CardRow]
    BY DEF CardsInv, C!TypeOK
  <2>2. \A d \in Card : (IF d = n THEN r ELSE IF d = c THEN C!Replaced(c) ELSE card[d]) \in C!CardRow
    BY <1>5, <1>6, <2>1, CardsAssumption
  <2> QED
    BY <2>1, <2>2, <1>3, <1>4, <1>7
<1>11. session' \in [Session -> C!ScanRow] /\ \A p \in Session \ {s} : session'[p] = session[p]
  <2>1. session \in [Session -> C!ScanRow]
    BY DEF CardsInv, C!TypeOK
  <2> QED
    BY <2>1, <1>8, ScanRows
<1>12. s # "none" => /\ session'[s].purpose = "assign" /\ session'[s].hash = enrolling[t].hash
                     /\ ~ session'[s].cancelled /\ session'[s].completed
  <2> SUFFICES ASSUME s # "none"
               PROVE  /\ session'[s].purpose = "assign" /\ session'[s].hash = enrolling[t].hash
                      /\ ~ session'[s].cancelled /\ session'[s].completed
    OBVIOUS
  <2>1. s \in Session /\ session[s] \in C!ScanRow
    BY <1>2 DEF CardsInv, C!TypeOK
  <2>2. session'[s] = q
    BY <2>1, <1>8
  <2>3. q.purpose = session[s].purpose /\ q.hash = session[s].hash /\ q.cancelled = session[s].cancelled
        /\ q.completed
    BY <2>1, ScanRows, Zenon
  <2> HIDE DEF q
  <2>4. session[s].purpose = "assign" /\ session[s].hash = enrolling[t].hash /\ ~ session[s].cancelled
    BY <1>1 DEF CardsTx
  <2> QED
    BY <2>2, <2>3, <2>4, Zenon
<1>13. s # "none" => s \in enrolling[t].locked /\ \A d \in Card : card[d].scan # s
  BY <1>1 DEF CardsTx, CardsInv, C!ScanServesOnce
<1>14. \A d \in Card \ {c} : card[d].active => card[d].hash # enrolling[t].hash
  BY <1>1 DEF CardsTx
<1>15. enrolling' \in [Tx -> C!Progress] /\ enrolling'[t] = C!Idle /\ \A u \in Tx \ {t} : enrolling'[u] = enrolling[u]
  BY <1>8, IdleTx DEF CardsInv, C!TypeOK
<1> HIDE DEF c, s, q
<1>16. C!TypeOK'
  BY <1>8, <1>10, <1>11, <1>15 DEF CardsInv, C!TypeOK
<1>17. \A u, w \in Tx : u # w => enrolling'[u].locked \cap enrolling'[w].locked = {}
  BY <1>15, IdleTx DEF CardsInv
<1>18. \A d \in Card \ {n} : /\ card'[d].hash = card[d].hash /\ card'[d].scan = card[d].scan
                             /\ (card[d].rev > 0 <=> card'[d].rev > 0)
                             /\ (card'[d].active => d # c /\ card[d].active)
  <2>1. \A d \in Card : card[d].rev \in Nat
    BY CardsAssumption DEF CardsInv, C!TypeOK, C!CardRow
  <2>2. c # "none" => card[c].rev > 0
    <3>1. c # "none" => card[c].rev # 0
      BY <1>3 DEF CardsInv
    <3> QED
      BY <3>1, <2>1, <1>3
  <2>3. CASE c = "none"
    BY <2>3, <1>10, CardsAssumption
  <2>4. CASE c # "none"
    <3>1. card[c].rev + 1 > 0 /\ card[c].rev > 0 /\ card[c].active
      BY <2>1, <2>2, <2>4, <1>3
    <3>2. /\ card'[c].hash = card[c].hash /\ card'[c].scan = card[c].scan /\ card'[c].rev > 0
          /\ ~ card'[c].active
      BY <3>1, <2>4, <1>6, <1>10
    <3>3. \A d \in Card \ {n, c} : card'[d] = card[d]
      BY <1>10
    <3> QED
      BY <3>1, <3>2, <3>3
  <2> QED
    BY <2>3, <2>4
<1>19. ASSUME NEW u \in Tx PROVE CardsTx(u)'
  <2>1. CASE u = t
    BY <2>1, <1>15, IdleTx DEF CardsTx
  <2>2. CASE u # t
    <3>1. enrolling'[u] = enrolling[u] /\ CardsTx(u) /\ enrolling[u] \in C!Progress /\ enrolling[u].locked \cap enrolling[t].locked = {}
      BY <2>2, <1>15 DEF CardsInv, C!TypeOK
    <3>2. enrolling[u].pc # "idle" /\ enrolling[u].scan # "none" => session'[enrolling[u].scan] = session[enrolling[u].scan]
      BY <3>1, <1>11, <1>13 DEF CardsTx, C!Progress
    <3>3. enrolling[u].pc \in {"check", "commit"} /\ enrolling[u].card # "none" => card'[enrolling[u].card].active = card[enrolling[u].card].active
      <4> SUFFICES ASSUME enrolling[u].pc \in {"check", "commit"}, enrolling[u].card # "none"
                   PROVE  card'[enrolling[u].card] = card[enrolling[u].card]
        OBVIOUS
      <4>1. enrolling[u].card \in Card /\ enrolling[u].card \in enrolling[u].locked
            /\ (enrolling[u].do = "reactivate" \/ card[enrolling[u].card].active)
        BY <3>1 DEF CardsTx, C!Progress
      <4>2. enrolling[u].card # c
        BY <4>1, <3>1, <1>3, CardsAssumption
      <4>3. enrolling[u].do = "reactivate" => card[enrolling[u].card].rev > 0
        BY <3>1 DEF CardsTx
      <4>4. enrolling[u].card # n
        BY <4>1, <4>3, <1>4
      <4> QED
        BY <4>1, <4>2, <4>4, <1>10
    <3>4. enrolling[u].pc # "idle" /\ enrolling[u].do # "assign" =>
                   enrolling[u].card # "none" /\ card'[enrolling[u].card].rev > 0 /\ card'[enrolling[u].card].hash = enrolling[u].hash
      BY <3>1, <1>4, <1>18 DEF CardsTx, C!Progress
    <3>5. enrolling[u].pc = "commit" /\ enrolling[u].do # "revoke" =>
                   \A d \in Card \ {enrolling[u].card} : card'[d].active => card'[d].hash # enrolling[u].hash
      <4> SUFFICES ASSUME enrolling[u].pc = "commit", enrolling[u].do # "revoke",
                          NEW d \in Card \ {enrolling[u].card}, card'[d].active
                   PROVE  card'[d].hash # enrolling[u].hash
        OBVIOUS
      <4>1. enrolling[u].hash \in enrolling[u].locked
        BY <3>1 DEF CardsTx
      <4>2. CASE d = n
        BY <4>1, <4>2, <3>1, <1>2, <1>9, <1>10
      <4>3. CASE d # n
        BY <4>3, <3>1, <1>18 DEF CardsTx
      <4> QED
        BY <4>2, <4>3
    <3> QED
      BY <3>1, <3>2, <3>3, <3>4, <3>5 DEF CardsTx
  <2> QED
    BY <2>1, <2>2
<1>20. \A d \in Card : /\ card'[d].rev = 0 => ~ card'[d].active /\ card'[d].scan = "none"
                       /\ card'[d].rev > 0 => card'[d].hash # "none"
  <2>1. card'[n].rev # 0 /\ card'[n].hash # "none"
    BY <1>2, <1>9, <1>10
  <2>2. \A d \in Card : card'[d].rev \in Nat /\ card[d].rev \in Nat
    BY <1>10, CardsAssumption DEF CardsInv, C!TypeOK, C!CardRow
  <2>3. \A d \in Card \ {n} : /\ card'[d].rev = 0 => card[d].rev = 0
                              /\ card'[d].rev > 0 => card[d].rev > 0
    BY <1>18, <2>2
  <2> QED
    BY <2>1, <2>3, <1>18 DEF CardsInv
<1>21. C!OneActive'
  <2> SUFFICES ASSUME NEW d \in Card, NEW e \in Card, d # e, card'[d].active, card'[e].active
               PROVE  card'[d].hash # card'[e].hash
    BY DEF C!OneActive
  <2>1. CASE d = n
    BY <2>1, <1>9, <1>10, <1>14, <1>18
  <2>2. CASE e = n
    BY <2>2, <1>9, <1>10, <1>14, <1>18
  <2>3. CASE d # n /\ e # n
    BY <2>3, <1>18 DEF CardsInv, C!OneActive
  <2> QED
    BY <2>1, <2>2, <2>3
<1>22. C!ScanServesOnce'
  <2> SUFFICES ASSUME NEW d \in Card, card'[d].scan # "none"
               PROVE  /\ session'[card'[d].scan].completed /\ ~ session'[card'[d].scan].cancelled
                      /\ session'[card'[d].scan].purpose = "assign"
                      /\ session'[card'[d].scan].hash = card'[d].hash
                      /\ \A e \in Card \ {d} : card'[e].scan # card'[d].scan
    BY DEF C!ScanServesOnce
  <2>1. CASE d = n
    BY <2>1, <1>9, <1>10, <1>12, <1>13, <1>18
  <2>2. CASE d # n
    <3>1. card'[d].scan = card[d].scan /\ card'[d].hash = card[d].hash /\ card[d].scan # s
      BY <2>2, <1>13, <1>18
    <3>2. card[d].scan \in Session
      BY <3>1 DEF CardsInv, C!TypeOK, C!CardRow
    <3>3. session'[card[d].scan] = session[card[d].scan]
      BY <3>1, <3>2, <1>11
    <3>4. \A e \in Card \ {d} : card'[e].scan # card[d].scan
      BY <3>1, <1>9, <1>10, <1>18 DEF CardsInv, C!ScanServesOnce
    <3> QED
      BY <3>1, <3>3, <3>4 DEF CardsInv, C!ScanServesOnce
  <2> QED
    BY <2>1, <2>2
<1> QED
  BY <1>16, <1>17, <1>19, <1>20, <1>21, <1>22 DEF CardsInv

LEMMA CardsInit == C!Init => CardsInv
<1> SUFFICES ASSUME C!Init PROVE CardsInv
  OBVIOUS
<1>1. C!NoSession \in C!ScanRow /\ C!NoCard \in C!CardRow
  BY CardsAssumption DEF C!NoSession, C!ScanRow, C!NoCard, C!CardRow
<1>2. C!TypeOK
  BY <1>1, IdleTx DEF C!Init, C!TypeOK
<1>3. \A c \in Card : card[c].scan = "none" /\ ~ card[c].active /\ card[c].rev = 0
  BY DEF C!Init, C!NoCard
<1>4. \A t \in Tx : enrolling[t] = C!Idle
  BY DEF C!Init
<1> QED
  BY <1>2, <1>3, <1>4, IdleTx DEF CardsInv, CardsTx, C!OneActive, C!ScanServesOnce

LEMMA CardsNext == CardsInv /\ [C!Next]_C!vars => CardsInv'
<1> SUFFICES ASSUME CardsInv, [C!Next]_C!vars PROVE CardsInv'
  OBVIOUS
<1>1. CASE C!Toggle
  BY <1>1, CardsToggle
<1>2. ASSUME NEW s \in Session,
             \/ C!Cancel(s) \/ C!Expire(s)
             \/ \E p \in {"assign", "lookup"} : C!Begin(s, p)
             \/ \E h \in Hash : C!Capture(s, h)
      PROVE  CardsInv'
  BY <1>2, CardsCancel, CardsExpire, CardsBegin, CardsCapture
<1>3. ASSUME NEW t \in Tx,
             \/ C!LockHash(t) \/ C!LockCard(t) \/ C!CheckUnassigned(t) \/ C!CommitChange(t) \/ C!Abort(t)
             \/ \E s \in Session : C!AssignScan(t, s)
             \/ \E h \in Hash : C!AssignTyped(t, h)
             \/ \E c \in Card : C!CommitAssign(t, c) \/ \E do \in {"revoke", "reactivate"} : C!ChangeCard(t, c, do)
      PROVE  CardsInv'
  <2>1. CASE C!Abort(t)
    BY <2>1, CardsEnd DEF C!Abort
  <2> QED
    BY <1>3, <2>1, CardsLockHash, CardsLockCard, CardsCheckUnassigned, CardsCommitChange,
       CardsAssignScan, CardsAssignTyped, CardsCommitAssign, CardsChangeCard
<1>4. CASE UNCHANGED C!vars
  BY <1>4 DEF C!vars, CardsInv, C!TypeOK, CardsTx, C!OneActive, C!ScanServesOnce
<1> QED
  BY <1>1, <1>2, <1>3, <1>4 DEF C!Next

THEOREM CardsCorrect == C!Spec => [](C!OneActive /\ C!ScanServesOnce)
<1>1. CardsInv => C!OneActive /\ C!ScanServesOnce
  BY DEF CardsInv
<1> QED
  BY CardsInit, CardsNext, <1>1, PTL DEF C!Spec

-----------------------------------------------------------------------------
(* Visits.                                                                 *)

\* Nobody is here from a day to come, and only minors have a sponsor.
VisitsDays ==
  /\ \A p \in V!Person : visit[p].day <= today
  /\ \A a \in Adult : V!Open(a) => visit[a].sponsor = None
  /\ \A t \in Tx : tx[t] # V!Idle => tx[t].day = today

\* The locks exclude each other: on a person's visits, on a minor's link, and
\* on the visit of an adult that a minor relies on.
VisitsLocks ==
  /\ \A s, t \in V!AtVisit : s # t => tx[s].user # tx[t].user
  /\ \A s \in V!Relinking, t \in V!Relinking \cup V!WithSponsor : s # t => tx[s].user # tx[t].user
  /\ \A s \in V!AtVisit, t \in V!WithSponsor : tx[s].user # tx[t].adult

\* A minor's arrival or booking still has the adult that it was checked for.
InCompany(t) ==
  /\ link[tx[t].user] = tx[t].adult /\ tx[t].adult \notin blocked
  /\ visit[tx[t].adult].day = today
  /\ ~ V!Is(t, {"book"}) => visit[tx[t].adult].building = tx[t].building

VisitsInv ==
  /\ V!TypeOK /\ VisitsDays /\ VisitsLocks
  /\ \A t \in V!WithSponsor : InCompany(t)
  /\ V!Supervised /\ V!LinkStands

Coming == {"arrive", "enter"}
Linking == {"unlink", "accept", "assign"}

\* What each kind of transaction carries.
LEMMA Transactions ==
  ASSUME NEW f \in V!Transaction
  PROVE  /\ f # V!Idle => f.day \in V!Day /\ f.user \in V!Person
         /\ f.op \in {"idle", "leave", "book"} \cup Coming \cup Linking
         /\ f.op = "idle" <=> f = V!Idle
         /\ f.op \in Coming => /\ f.building \in Building
                               /\ f.user \in Minor => f.adult \in Adult
                               /\ f.user \in Adult => f.adult = None
         /\ f.op \in {"book"} \cup Linking => f.user \in Minor /\ f.adult \in Adult
<1>1. CASE f = V!Idle
  BY <1>1 DEF V!Idle, Coming, Linking
<1>2. CASE f \in [op : {"arrive", "enter"}, day : V!Day, user : Adult, building : Building, adult : {None}]
  BY <1>2, VisitsAssumption DEF V!Idle, Coming, Linking, V!Person
<1>3. CASE f \in [op : {"arrive", "enter"}, day : V!Day, user : Minor, building : Building, adult : Adult]
  BY <1>3, VisitsAssumption DEF V!Idle, Coming, Linking, V!Person
<1>4. CASE f \in [op : {"book"}, day : V!Day, user : Minor, adult : Adult]
  BY <1>4 DEF V!Idle, Coming, Linking, V!Person
<1>5. CASE f \in [op : {"leave"}, day : V!Day, user : V!Person]
  BY <1>5 DEF V!Idle, Coming, Linking, V!Person
<1>6. CASE f \in [op : {"unlink", "accept", "assign"}, day : V!Day, user : Minor, adult : Adult]
  BY <1>6 DEF V!Idle, Coming, Linking, V!Person
<1> QED
  BY <1>1, <1>2, <1>3, <1>4, <1>5, <1>6 DEF V!Transaction

LEMMA IdleTransaction == V!Idle \in V!Transaction /\ V!Idle.op = "idle"
BY DEF V!Idle, V!Transaction

LEMMA VisitRows ==
  ASSUME NEW v \in V!Visit
  PROVE  /\ v.day \in 0..MaxDay /\ (v # V!NoVisit <=> v.day # 0)
         /\ v # V!NoVisit => v.day \in V!Day /\ v.building \in Building /\ v.sponsor \in Adult \cup {None}
<1>1. CASE v = V!NoVisit
  BY <1>1, VisitsAssumption DEF V!NoVisit
<1>2. CASE v \in [day : V!Day, building : Building, sponsor : Adult \cup {None}]
  BY <1>2, VisitsAssumption DEF V!NoVisit, V!Day
<1> QED
  BY <1>1, <1>2 DEF V!Visit

\* A step of one transaction that touches no visit and no link.
LEMMA VisitsMove ==
  ASSUME VisitsInv, NEW t \in Tx, NEW f \in V!Transaction, tx' = [tx EXCEPT ![t] = f],
         UNCHANGED <<link, visit, blocked, today>>, asked' \in [Minor -> SUBSET Adult],
         f # V!Idle => f.day = today,
         f.op \in {"enter", "leave"} =>
           /\ \A s \in V!AtVisit \ {t} : tx[s].user # f.user
           /\ \A s \in V!WithSponsor \ {t} : tx[s].adult # f.user,
         f.op \in Linking => \A s \in (V!WithSponsor \cup V!Relinking) \ {t} : tx[s].user # f.user,
         f.op \in Coming \cup {"book"} /\ f.user \in Minor =>
           /\ \A s \in V!Relinking \ {t} : tx[s].user # f.user
           /\ \A s \in V!AtVisit \ {t} : tx[s].user # f.adult
           /\ link[f.user] = f.adult /\ f.adult \notin blocked /\ visit[f.adult].day = today
           /\ f.op # "book" => visit[f.adult].building = f.building
  PROVE  VisitsInv'
<1>1. tx' \in [Tx -> V!Transaction] /\ tx'[t] = f /\ \A s \in Tx \ {t} : tx'[s] = tx[s]
  BY DEF VisitsInv, V!TypeOK
<1>2. V!TypeOK'
  BY <1>1 DEF VisitsInv, V!TypeOK
<1>3. VisitsDays'
  BY <1>1 DEF VisitsInv, VisitsDays, V!Open
<1>4. /\ \A s \in V!AtVisit' \ {t} : s \in V!AtVisit \ {t} /\ tx'[s] = tx[s]
      /\ \A s \in V!WithSponsor' \ {t} : s \in V!WithSponsor \ {t} /\ tx'[s] = tx[s]
      /\ \A s \in V!Relinking' \ {t} : s \in V!Relinking \ {t} /\ tx'[s] = tx[s]
  BY <1>1 DEF V!AtVisit, V!WithSponsor, V!Relinking, V!Is
<1>5. /\ t \in V!AtVisit' => f.op \in {"enter", "leave"}
      /\ t \in V!Relinking' => f.op \in Linking
      /\ t \in V!WithSponsor' => f.op \in Coming \cup {"book"} /\ f.user \in Minor
  BY <1>1 DEF V!AtVisit, V!WithSponsor, V!Relinking, V!Is, Coming, Linking
<1>6. /\ ~ (t \in V!AtVisit' /\ t \in V!WithSponsor' /\ f.user = f.adult)
      /\ ~ (t \in V!Relinking' /\ t \in V!WithSponsor')
  <2>1. t \in V!WithSponsor' => f.user \in Minor /\ f.adult \in Adult /\ f.op \notin Linking
    BY <1>5, Transactions DEF Coming, Linking
  <2> QED
    BY <2>1, <1>5, VisitsAssumption
<1>7. VisitsLocks'
  <2>1. \A s, u \in V!AtVisit' : s # u => tx'[s].user # tx'[u].user
    BY <1>1, <1>4, <1>5 DEF VisitsInv, VisitsLocks
  <2>2. \A s \in V!Relinking', u \in V!Relinking' \cup V!WithSponsor' : s # u => tx'[s].user # tx'[u].user
    BY <1>1, <1>4, <1>5 DEF VisitsInv, VisitsLocks
  <2>3. \A s \in V!AtVisit', u \in V!WithSponsor' : tx'[s].user # tx'[u].adult
    BY <1>1, <1>4, <1>5, <1>6 DEF VisitsInv, VisitsLocks
  <2> QED
    BY <2>1, <2>2, <2>3 DEF VisitsLocks
<1>8. \A s \in V!WithSponsor' : InCompany(s)'
  BY <1>1, <1>4, <1>5 DEF VisitsInv, InCompany, V!Is
<1> QED
  BY <1>2, <1>3, <1>7, <1>8 DEF VisitsInv, V!Supervised, V!LinkStands

LEMMA VisitsStop ==
  ASSUME VisitsInv, NEW t \in Tx, tx' = [tx EXCEPT ![t] = V!Idle],
         UNCHANGED <<link, asked, visit, blocked, today>>
  PROVE  VisitsInv'
<1>1. asked' \in [Minor -> SUBSET Adult]
  BY DEF VisitsInv, V!TypeOK
<1> QED
  BY <1>1, IdleTransaction, VisitsMove DEF Coming, Linking

\* A transaction that is done leaves the others their locks.
LEMMA VisitsDone ==
  ASSUME VisitsInv, NEW t \in Tx, tx' = [tx EXCEPT ![t] = V!Idle], today' = today
  PROVE  /\ tx' \in [Tx -> V!Transaction] /\ VisitsLocks'
         /\ \A s \in Tx : tx'[s] # V!Idle => tx'[s].day = today
         /\ \A s \in V!WithSponsor' : s \in V!WithSponsor \ {t} /\ tx'[s] = tx[s]
<1>1. tx' \in [Tx -> V!Transaction] /\ tx'[t] = V!Idle /\ \A s \in Tx \ {t} : tx'[s] = tx[s]
  BY IdleTransaction DEF VisitsInv, V!TypeOK
<1>2. /\ \A s \in V!AtVisit' : s \in V!AtVisit \ {t} /\ tx'[s] = tx[s]
      /\ \A s \in V!WithSponsor' : s \in V!WithSponsor \ {t} /\ tx'[s] = tx[s]
      /\ \A s \in V!Relinking' : s \in V!Relinking \ {t} /\ tx'[s] = tx[s]
  BY <1>1, IdleTransaction DEF V!AtVisit, V!WithSponsor, V!Relinking, V!Is
<1>3. VisitsLocks'
  BY <1>2 DEF VisitsInv, VisitsLocks
<1>4. \A s \in Tx : tx'[s] # V!Idle => tx'[s].day = today
  BY <1>1 DEF VisitsInv, VisitsDays
<1> QED
  BY <1>1, <1>2, <1>3, <1>4

\* The adult that a minor is let in with.
LEMMA SponsorIsHere ==
  ASSUME VisitsInv, NEW m \in Minor, NEW here \in SUBSET Building, NEW a \in V!Sponsor(m, here)
  PROVE  /\ a \in Adult /\ a \notin blocked /\ link[m] = a
         /\ visit[a].day = today /\ visit[a].building \in here
         /\ \A s \in V!Relinking : tx[s].user # m
         /\ \A s \in V!AtVisit : tx[s].user # a
BY DEF V!Sponsor

LEMMA VisitsArrive ==
  ASSUME VisitsInv, NEW t \in Tx, NEW b \in Building,
         \/ \E a \in Adult : V!AdultArrives(t, a, b)
         \/ \E m \in Minor : V!MinorArrives(t, m, b)
  PROVE  VisitsInv'
<1>1. today \in V!Day /\ asked \in [Minor -> SUBSET Adult]
  BY DEF VisitsInv, V!TypeOK
<1>2. ASSUME NEW a \in Adult, V!AdultArrives(t, a, b) PROVE VisitsInv'
  <2> DEFINE f == [op |-> "arrive", day |-> today, user |-> a, building |-> b, adult |-> None]
  <2>1. f \in V!Transaction /\ f.op = "arrive" /\ f.user \notin Minor /\ f.day = today
    BY <1>1, VisitsAssumption DEF V!Transaction
  <2>2. tx' = [tx EXCEPT ![t] = f] /\ UNCHANGED <<link, asked, visit, blocked, today>>
    BY <1>2 DEF V!AdultArrives, V!Start
  <2> HIDE DEF f
  <2> QED
    BY <1>1, <2>1, <2>2, VisitsMove DEF Linking
<1>3. ASSUME NEW m \in Minor, V!MinorArrives(t, m, b) PROVE VisitsInv'
  <2>1. PICK a \in V!Sponsor(m, {b}) :
          V!Start(t, [op |-> "arrive", day |-> today, user |-> m, building |-> b, adult |-> a])
    BY <1>3 DEF V!MinorArrives
  <2> DEFINE f == [op |-> "arrive", day |-> today, user |-> m, building |-> b, adult |-> a]
  <2>2. /\ a \in Adult /\ a \notin blocked /\ link[m] = a
        /\ visit[a].day = today /\ visit[a].building = b
        /\ \A s \in V!Relinking : tx[s].user # m
        /\ \A s \in V!AtVisit : tx[s].user # a
    BY SponsorIsHere
  <2>3. f \in V!Transaction /\ f.op = "arrive" /\ f.user = m /\ f.adult = a /\ f.building = b /\ f.day = today
    BY <1>1, <2>2 DEF V!Transaction
  <2>4. tx' = [tx EXCEPT ![t] = f] /\ UNCHANGED <<link, asked, visit, blocked, today>>
    BY <1>3, <2>1 DEF V!MinorArrives, V!Start
  <2> HIDE DEF f
  <2> QED
    BY <1>1, <2>2, <2>3, <2>4, VisitsMove DEF Linking
<1> QED
  BY <1>2, <1>3

LEMMA VisitsBook ==
  ASSUME VisitsInv, NEW t \in Tx, NEW m \in Minor, V!MinorBooks(t, m)
  PROVE  VisitsInv'
<1>1. today \in V!Day /\ asked \in [Minor -> SUBSET Adult]
  BY DEF VisitsInv, V!TypeOK
<1>2. PICK a \in V!Sponsor(m, Building) : V!Start(t, [op |-> "book", day |-> today, user |-> m, adult |-> a])
  BY DEF V!MinorBooks
<1> DEFINE f == [op |-> "book", day |-> today, user |-> m, adult |-> a]
<1>3. /\ a \in Adult /\ a \notin blocked /\ link[m] = a /\ visit[a].day = today
      /\ \A s \in V!Relinking : tx[s].user # m
      /\ \A s \in V!AtVisit : tx[s].user # a
  BY SponsorIsHere
<1>4. f \in V!Transaction /\ f.op = "book" /\ f.user = m /\ f.adult = a /\ f.day = today
  BY <1>1, <1>3 DEF V!Transaction
<1>5. tx' = [tx EXCEPT ![t] = f] /\ UNCHANGED <<link, asked, visit, blocked, today>>
  BY <1>2 DEF V!MinorBooks, V!Start
<1> HIDE DEF f
<1> QED
  BY <1>1, <1>3, <1>4, <1>5, VisitsMove DEF Linking

\* Whoever holds a person's visits free of others holds what relies on them.
LEMMA VisitIsFree ==
  ASSUME VisitsInv, NEW t \in Tx, NEW p \in V!Person, V!VisitFree(t, p)
  PROVE  /\ \A s \in V!AtVisit \ {t} : tx[s].user # p
         /\ \A s \in V!WithSponsor \ {t} : tx[s].adult # p
<1>1. ASSUME NEW s \in V!WithSponsor, tx[s].adult = p PROVE V!Open(p)
  <2>1. visit[p].day = today
    BY <1>1 DEF VisitsInv, InCompany
  <2>2. visit[p] \in V!Visit /\ today # 0
    BY VisitsAssumption DEF VisitsInv, V!TypeOK, V!Day
  <2> QED
    BY <2>1, <2>2, VisitRows DEF V!Open
<1> QED
  BY <1>1 DEF V!VisitFree

LEMMA VisitsTakeTurn ==
  ASSUME VisitsInv, NEW t \in Tx, V!TakeTurn(t)
  PROVE  VisitsInv'
<1> DEFINE f == [tx[t] EXCEPT !.op = "enter"]
           w == tx[t]
<1>1. w \in V!Transaction /\ w.op = "arrive" /\ w # V!Idle /\ asked \in [Minor -> SUBSET Adult] /\ w.day = today
  BY IdleTransaction DEF VisitsInv, V!TypeOK, V!TakeTurn, V!Is, VisitsDays
<1>2. /\ f \in V!Transaction /\ f.op = "enter" /\ f.user = w.user /\ f.adult = w.adult
      /\ f.building = w.building /\ f.day = w.day
  BY <1>1 DEF V!Transaction, V!Idle
<1>3. w.user \in V!Person /\ V!VisitFree(t, w.user)
  BY <1>1, Transactions DEF V!TakeTurn
<1>4. tx' = [tx EXCEPT ![t] = f] /\ UNCHANGED <<link, asked, visit, blocked, today>>
  BY DEF V!TakeTurn
<1>5. /\ \A s \in V!AtVisit \ {t} : tx[s].user # w.user
      /\ \A s \in V!WithSponsor \ {t} : tx[s].adult # w.user
  BY <1>3, VisitIsFree
<1>6. w.user \in Minor =>
        /\ \A s \in V!Relinking \ {t} : tx[s].user # w.user
        /\ \A s \in V!AtVisit \ {t} : tx[s].user # w.adult
        /\ link[w.user] = w.adult /\ w.adult \notin blocked /\ visit[w.adult].day = today
        /\ visit[w.adult].building = w.building
  <2>1. w.user \in Minor => t \in V!WithSponsor /\ ~ V!Is(t, {"book"})
    BY <1>1 DEF V!WithSponsor, V!Is
  <2> QED
    BY <2>1 DEF VisitsInv, VisitsLocks, InCompany
<1> HIDE DEF f, w
<1> QED
  BY <1>1, <1>2, <1>4, <1>5, <1>6, VisitsMove DEF Linking

LEMMA VisitsStartLeaving ==
  ASSUME VisitsInv, NEW t \in Tx, NEW p \in V!Person, V!StartLeaving(t, p)
  PROVE  VisitsInv'
<1> DEFINE f == [op |-> "leave", day |-> today, user |-> p]
<1>1. today \in V!Day /\ asked \in [Minor -> SUBSET Adult]
  BY DEF VisitsInv, V!TypeOK
<1>2. f \in V!Transaction /\ f.op = "leave" /\ f.user = p /\ f.day = today
  BY <1>1 DEF V!Transaction
<1>3. tx' = [tx EXCEPT ![t] = f] /\ UNCHANGED <<link, asked, visit, blocked, today>>
  BY DEF V!StartLeaving, V!Start
<1>4. /\ \A s \in V!AtVisit \ {t} : tx[s].user # p
      /\ \A s \in V!WithSponsor \ {t} : tx[s].adult # p
  BY VisitIsFree DEF V!StartLeaving
<1> HIDE DEF f
<1> QED
  BY <1>1, <1>2, <1>3, <1>4, VisitsMove DEF Coming, Linking

LEMMA VisitsStartLinking ==
  ASSUME VisitsInv, NEW t \in Tx, NEW m \in Minor, NEW a \in Adult,
         NEW op \in Linking, V!LinkFree(t, m),
         V!Start(t, [op |-> op, day |-> today, user |-> m, adult |-> a]),
         UNCHANGED <<link, asked, visit, blocked, today>>
  PROVE  VisitsInv'
<1> DEFINE f == [op |-> op, day |-> today, user |-> m, adult |-> a]
<1>1. today \in V!Day /\ asked' \in [Minor -> SUBSET Adult]
  BY DEF VisitsInv, V!TypeOK
<1>2. f \in V!Transaction /\ f.op = op /\ f.user = m /\ f.day = today
  BY <1>1 DEF V!Transaction, Linking
<1>3. tx' = [tx EXCEPT ![t] = f]
  BY DEF V!Start
<1>4. \A s \in (V!WithSponsor \cup V!Relinking) \ {t} : tx[s].user # m
  BY DEF V!LinkFree
<1>5. op \notin {"enter", "leave"} /\ op \notin Coming \cup {"book"}
  BY DEF Linking, Coming
<1> HIDE DEF f
<1> QED
  BY <1>1, <1>2, <1>3, <1>4, <1>5, VisitsMove

LEMMA VisitsAsk ==
  ASSUME VisitsInv, NEW a \in Adult, NEW m \in Minor, V!Ask(a, m) \/ V!Withdraw(a, m)
  PROVE  VisitsInv'
<1>1. asked' \in [Minor -> SUBSET Adult] /\ UNCHANGED <<link, visit, blocked, today, tx>>
  BY DEF V!Ask, V!Withdraw, VisitsInv, V!TypeOK
<1> QED
  BY <1>1 DEF VisitsInv, V!TypeOK, VisitsDays, VisitsLocks, InCompany, V!Supervised, V!LinkStands,
              V!Open, V!AtVisit, V!WithSponsor, V!Relinking, V!Is

LEMMA VisitsSuspend ==
  ASSUME VisitsInv, NEW a \in Adult, V!Suspend(a)
  PROVE  VisitsInv'
<1>1. blocked' \subseteq Adult /\ UNCHANGED <<link, asked, visit, today, tx>>
      /\ \A t \in Tx : V!Is(t, {"arrive", "enter", "book"}) => tx[t].adult # a
  BY DEF V!Suspend, VisitsInv, V!TypeOK, V!Is
<1>2. \A c \in Adult : c \notin blocked /\ c # a => c \notin blocked'
  BY DEF V!Suspend
<1>3. ASSUME NEW t \in V!WithSponsor PROVE InCompany(t)'
  <2>1. tx[t].adult \in Adult /\ tx[t].adult # a
    <3>1. tx[t] \in V!Transaction /\ tx[t].user \in Minor /\ tx[t].op \in Coming \cup {"book"}
      BY DEF V!WithSponsor, V!Is, Coming, VisitsInv, V!TypeOK
    <3>2. tx[t].adult \in Adult
      BY <3>1, Transactions
    <3>3. tx[t].adult # a
      BY <1>1 DEF V!WithSponsor, V!Is
    <3> QED
      BY <3>2, <3>3
  <2> QED
    BY <2>1, <1>1, <1>2 DEF VisitsInv, InCompany, V!Is
<1>4. V!WithSponsor' = V!WithSponsor /\ V!AtVisit' = V!AtVisit /\ V!Relinking' = V!Relinking
  BY <1>1 DEF V!WithSponsor, V!AtVisit, V!Relinking, V!Is
<1> QED
  BY <1>1, <1>3, <1>4 DEF VisitsInv, V!TypeOK, VisitsDays, VisitsLocks, V!Supervised, V!LinkStands, V!Open

\* At midnight nobody is here from the new day yet.
LEMMA VisitsMidnight ==
  ASSUME VisitsInv, ~ Straddle, V!Midnight
  PROVE  VisitsInv'
<1>1. /\ today \in 1..MaxDay /\ today' = today + 1 /\ today' \in V!Day
      /\ UNCHANGED <<link, asked, visit, blocked, tx>>
  BY VisitsAssumption DEF V!Midnight, VisitsInv, V!TypeOK, V!Day
<1>2. \A t \in Tx : tx[t] = V!Idle
  BY DEF V!Midnight
<1>3. V!WithSponsor' = {} /\ V!AtVisit' = {} /\ V!Relinking' = {}
  BY <1>1, <1>2, IdleTransaction DEF V!WithSponsor, V!AtVisit, V!Relinking, V!Is
<1>4. \A p \in V!Person : visit[p].day \in Nat /\ visit[p].day <= today
  BY VisitRows, VisitsAssumption DEF VisitsInv, V!TypeOK, VisitsDays
<1>5. \A p \in V!Person : visit[p].day <= today' /\ visit[p].day # today'
  BY <1>1, <1>4
<1>6. \A m \in Minor : m \in V!Person
  BY DEF V!Person
<1> QED
  BY <1>1, <1>2, <1>3, <1>5, <1>6 DEF VisitsInv, V!TypeOK, VisitsDays, VisitsLocks, V!Supervised, V!LinkStands, V!Open

\* A person comes in, moves or leaves, and takes along who is in their care.
LEMMA VisitsChange ==
  ASSUME VisitsInv, NEW t \in V!AtVisit, NEW p \in V!Person, p = tx[t].user,
         tx' = [tx EXCEPT ![t] = V!Idle], UNCHANGED <<link, asked, blocked, today>>,
         visit' \in [V!Person -> V!Visit],
         \A q \in V!Person \ {p} : \/ visit'[q] = visit[q]
                                   \/ visit'[q] = V!NoVisit /\ visit[q].sponsor = p /\ V!Open(q),
         \A m \in Minor : visit[m].day = today /\ visit[m].sponsor = p =>
                            visit'[m] = V!NoVisit \/ visit'[p] = visit[p],
         \/ visit'[p] = V!NoVisit \/ visit'[p] = visit[p]
         \/ /\ V!Is(t, {"enter"})
            /\ visit'[p] = [day |-> tx[t].day, building |-> tx[t].building, sponsor |-> tx[t].adult]
  PROVE  VisitsInv'
<1> DEFINE w == tx[t]
           new == [day |-> w.day, building |-> w.building, sponsor |-> w.adult]
<1>1. /\ tx' \in [Tx -> V!Transaction] /\ VisitsLocks'
      /\ \A s \in Tx : tx'[s] # V!Idle => tx'[s].day = today
      /\ \A s \in V!WithSponsor' : s \in V!WithSponsor \ {t} /\ tx'[s] = tx[s]
  BY VisitsDone DEF V!AtVisit
<1>2. V!TypeOK'
  BY <1>1 DEF VisitsInv, V!TypeOK
<1>3. w \in V!Transaction /\ w.op \in {"enter", "leave"} /\ w # V!Idle /\ w.day = today
  BY IdleTransaction DEF VisitsInv, V!TypeOK, V!AtVisit, V!Is, VisitsDays
<1>4. today # 0 /\ today \in Nat /\ V!NoVisit.day = 0
  BY VisitsAssumption DEF VisitsInv, V!TypeOK, V!Day, V!NoVisit
<1>5. \A a \in Adult : a \in V!Person \ Minor /\ (a # p => visit'[a] = visit[a])
  <2> SUFFICES ASSUME NEW a \in Adult, a # p PROVE visit'[a] = visit[a]
    BY VisitsAssumption DEF V!Person
  <2>1. visit[a].sponsor = None \/ ~ V!Open(a)
    BY DEF VisitsInv, VisitsDays
  <2>2. p # None /\ a \in V!Person
    BY VisitsAssumption DEF V!Person
  <2> QED
    BY <2>1, <2>2
<1>6. \A s \in V!WithSponsor' : InCompany(s)'
  <2> SUFFICES ASSUME NEW s \in V!WithSponsor' PROVE InCompany(s)'
    OBVIOUS
  <2>1. s \in V!WithSponsor /\ tx'[s] = tx[s] /\ s \in Tx
    BY <1>1 DEF V!WithSponsor
  <2>2. tx[s].adult # p
    BY <2>1 DEF VisitsInv, VisitsLocks
  <2>3. tx[s].adult \in Adult
    <3>1. tx[s] \in V!Transaction /\ tx[s].user \in Minor /\ tx[s].op \in Coming \cup {"book"}
      BY <2>1 DEF V!WithSponsor, V!Is, Coming, VisitsInv, V!TypeOK
    <3> QED
      BY <3>1, Transactions
  <2> QED
    BY <2>1, <2>2, <2>3, <1>5 DEF VisitsInv, InCompany, V!Is
<1>7. CASE V!Is(t, {"enter"}) /\ visit'[p] = new
  <2>1. w.op = "enter" /\ (p \in Adult => w.adult = None) /\ (p \in Minor => w.adult \in Adult)
    BY <1>3, <1>7, Transactions DEF V!Is, Coming
  <2>2. new.day = today /\ new.building = w.building /\ new.sponsor = w.adult
    BY <1>3
  <2> HIDE DEF new
  <2>3. p \in Minor => /\ link[p] = w.adult /\ visit'[w.adult].day = today
                       /\ visit'[w.adult].building = w.building
    <3>1. p \in Minor => t \in V!WithSponsor /\ ~ V!Is(t, {"book"})
      BY <2>1 DEF V!WithSponsor, V!Is, V!AtVisit
    <3>2. p \in Minor => /\ link[p] = w.adult /\ visit[w.adult].day = today
                         /\ visit[w.adult].building = w.building
      BY <3>1 DEF VisitsInv, InCompany
    <3>3. p \in Minor => w.adult # p
      BY <2>1, VisitsAssumption
    <3> QED
      BY <2>1, <3>2, <3>3, <1>5
  <2> HIDE DEF w
  <2>4. VisitsDays'
    <3>1. \A q \in V!Person : visit'[q].day <= today
      BY <1>4, <1>7, <2>2 DEF VisitsInv, VisitsDays
    <3>2. \A a \in Adult : visit'[a] # V!NoVisit => visit'[a].sponsor = None
      BY <1>5, <1>7, <2>1, <2>2 DEF VisitsInv, VisitsDays, V!Open
    <3> QED
      BY <1>1, <3>1, <3>2 DEF VisitsDays, V!Open
  <2>5. ASSUME NEW m \in Minor, visit'[m].day = today
        PROVE  /\ link[m] = visit'[m].sponsor
               /\ \E a \in Adult : visit'[m].sponsor = a /\ visit'[a].day = today
                                   /\ visit'[a].building = visit'[m].building
    <3>1. CASE m = p
      BY <3>1, <2>1, <2>2, <2>3, <1>7
    <3>2. CASE m # p
      <4>1. visit'[m] = visit[m] /\ m \in V!Person
        BY <3>2, <2>5, <1>4 DEF V!Person
      <4>2. PICK a \in Adult : visit[m].sponsor = a /\ visit[a].day = today
                               /\ visit[a].building = visit[m].building
        BY <4>1, <2>5 DEF VisitsInv, V!Supervised
      <4>3. visit'[a] = visit[a]
        BY <4>1, <4>2, <2>5, <1>5, <1>4
      <4> QED
        BY <4>1, <4>2, <4>3, <2>5 DEF VisitsInv, V!LinkStands
    <3> QED
      BY <3>1, <3>2
  <2> QED
    BY <1>1, <1>2, <1>6, <2>4, <2>5 DEF VisitsInv, V!Supervised, V!LinkStands
<1>8. CASE visit'[p] = V!NoVisit \/ visit'[p] = visit[p]
  <2> HIDE DEF new, w
  <2>4. VisitsDays'
    <3>1. \A q \in V!Person : visit'[q].day <= today
      BY <1>4, <1>8 DEF VisitsInv, VisitsDays
    <3>2. \A a \in Adult : visit'[a] # V!NoVisit => visit'[a].sponsor = None
      BY <1>5, <1>8 DEF VisitsInv, VisitsDays, V!Open
    <3> QED
      BY <1>1, <3>1, <3>2 DEF VisitsDays, V!Open
  <2>5. ASSUME NEW m \in Minor, visit'[m].day = today
        PROVE  /\ link[m] = visit'[m].sponsor
               /\ \E a \in Adult : visit'[m].sponsor = a /\ visit'[a].day = today
                                   /\ visit'[a].building = visit'[m].building
    <3>1. visit'[m] = visit[m] /\ m \in V!Person
      BY <2>5, <1>4, <1>8 DEF V!Person
    <3>2. PICK a \in Adult : visit[m].sponsor = a /\ visit[a].day = today
                             /\ visit[a].building = visit[m].building
      BY <3>1, <2>5 DEF VisitsInv, V!Supervised
    <3>3. visit'[a] = visit[a]
      BY <3>1, <3>2, <2>5, <1>5, <1>4
    <3> QED
      BY <3>1, <3>2, <3>3, <2>5 DEF VisitsInv, V!LinkStands
  <2> QED
    BY <1>1, <1>2, <1>6, <2>4, <2>5 DEF VisitsInv, V!Supervised, V!LinkStands
<1> QED
  BY <1>7, <1>8

LEMMA VisitsEnter ==
  ASSUME VisitsInv, NEW t \in Tx, V!Enter(t)
  PROVE  VisitsInv'
<1> DEFINE w == tx[t]
           p == w.user
           new == [day |-> w.day, building |-> w.building, sponsor |-> w.adult]
           current == V!Open(p) /\ visit[p].day = w.day
<1>1. t \in V!AtVisit /\ V!Is(t, {"enter"}) /\ tx' = [tx EXCEPT ![t] = V!Idle]
      /\ UNCHANGED <<link, asked, blocked, today>>
  BY DEF V!Enter, V!Finish, V!AtVisit, V!Is
<1>2. w \in V!Transaction /\ w.op = "enter" /\ w # V!Idle /\ w.day = today /\ visit \in [V!Person -> V!Visit]
  BY <1>1, IdleTransaction DEF VisitsInv, V!TypeOK, V!Is, VisitsDays
<1>3. p \in V!Person /\ w.day \in V!Day /\ w.building \in Building /\ w.adult \in Adult \cup {None}
  BY <1>2, Transactions DEF Coming, V!Person
<1>4. new \in V!Visit
  BY <1>3 DEF V!Visit
<1>5. CASE ~ current /\ visit' = [visit EXCEPT ![p] = new]
  <2>1. visit' \in [V!Person -> V!Visit] /\ visit'[p] = new /\ \A q \in V!Person \ {p} : visit'[q] = visit[q]
    BY <1>2, <1>3, <1>4, <1>5
  <2>2. visit[p].day # today
    <3>1. visit[p] \in V!Visit /\ today # 0
      BY <1>2, <1>3, VisitsAssumption DEF VisitsInv, V!TypeOK, V!Day
    <3> QED
      BY <3>1, <1>2, <1>5, VisitRows DEF V!Open
  <2>3. \A m \in Minor : ~ (visit[m].day = today /\ visit[m].sponsor = p)
    BY <2>2 DEF VisitsInv, V!Supervised
  <2> HIDE DEF current
  <2> QED
    BY <1>1, <1>3, <2>1, <2>3, VisitsChange
<1>6. CASE UNCHANGED visit
  BY <1>1, <1>2, <1>3, <1>6, VisitsChange
<1>7. CASE visit' = [V!Ended(V!InCare(p)) EXCEPT ![p] = new]
  <2>1. visit' \in [V!Person -> V!Visit] /\ visit'[p] = new
        /\ \A q \in V!Person \ {p} : visit'[q] = IF q \in V!InCare(p) THEN V!NoVisit ELSE visit[q]
    BY <1>2, <1>3, <1>4, <1>7 DEF V!Ended, V!Visit
  <2>2. \A q \in V!Person \ {p} : \/ visit'[q] = visit[q]
                                  \/ visit'[q] = V!NoVisit /\ visit[q].sponsor = p /\ V!Open(q)
    BY <2>1 DEF V!InCare
  <2>3. \A m \in Minor : visit[m].day = today /\ visit[m].sponsor = p =>
                           visit'[m] = V!NoVisit \/ visit'[p] = visit[p]
    <3> SUFFICES ASSUME NEW m \in Minor, visit[m].day = today, visit[m].sponsor = p
                 PROVE  visit'[m] = V!NoVisit
      OBVIOUS
    <3>1. m \in V!Person /\ p \in Adult
      BY DEF V!Person, VisitsInv, V!Supervised
    <3>2. visit[m] \in V!Visit /\ today # 0
      BY <1>2, <3>1, VisitsAssumption DEF VisitsInv, V!TypeOK, V!Day
    <3>3. V!Open(m)
      BY <3>2, VisitRows DEF V!Open
    <3> QED
      BY <2>1, <3>1, <3>3, VisitsAssumption DEF V!InCare
  <2> QED
    BY <1>1, <1>3, <2>1, <2>2, <2>3, VisitsChange
<1> QED
  BY <1>5, <1>6, <1>7 DEF V!Enter

LEMMA VisitsLeave ==
  ASSUME VisitsInv, NEW t \in Tx, V!Leave(t)
  PROVE  VisitsInv'
<1> DEFINE p == tx[t].user
<1>1. t \in V!AtVisit /\ tx' = [tx EXCEPT ![t] = V!Idle] /\ UNCHANGED <<link, asked, blocked, today>>
  BY DEF V!Leave, V!Finish, V!AtVisit, V!Is
<1>2. p \in V!Person /\ visit \in [V!Person -> V!Visit]
  <2>1. tx[t] \in V!Transaction /\ tx[t] # V!Idle /\ visit \in [V!Person -> V!Visit]
    BY IdleTransaction DEF VisitsInv, V!TypeOK, V!Leave, V!Is
  <2> QED
    BY <2>1, Transactions
<1>3. visit' \in [V!Person -> V!Visit]
      /\ \A q \in V!Person : visit'[q] = IF q \in V!InCare(p) THEN V!NoVisit ELSE visit[q]
  BY <1>2 DEF V!Leave, V!Ended, V!Visit
<1>4. \A q \in V!Person \ {p} : \/ visit'[q] = visit[q]
                                \/ visit'[q] = V!NoVisit /\ visit[q].sponsor = p /\ V!Open(q)
  BY <1>3 DEF V!InCare
<1>5. visit'[p] = V!NoVisit
  BY <1>2, <1>3 DEF V!InCare, V!Open
<1>6. \A m \in Minor : visit[m].day = today /\ visit[m].sponsor = p => visit'[m] = V!NoVisit
  BY <1>3 DEF V!InCare, V!Open, V!Person
<1> HIDE DEF p
<1> QED
  BY <1>1, <1>2, <1>3, <1>4, <1>5, <1>6, VisitsChange DEF p

\* A minor whose link changes is not here, and nobody relies on the minor.
LEMMA VisitsRelink ==
  ASSUME VisitsInv, NEW t \in Tx, V!Relink(t)
  PROVE  VisitsInv'
<1> DEFINE m == tx[t].user
<1>1. t \in V!Relinking /\ tx' = [tx EXCEPT ![t] = V!Idle] /\ UNCHANGED <<blocked, today>>
      /\ visit' = [visit EXCEPT ![m] = V!NoVisit]
  BY DEF V!Relink, V!Finish
<1>2. tx[t] \in V!Transaction /\ tx[t].op \in Linking /\ tx[t] # V!Idle
  BY <1>1, IdleTransaction DEF VisitsInv, V!TypeOK, V!Relinking, V!Is, Linking
<1>3. m \in Minor /\ tx[t].adult \in Adult /\ m \in V!Person
  BY <1>2, Transactions DEF V!Person
<1>4. /\ tx' \in [Tx -> V!Transaction] /\ VisitsLocks'
      /\ \A s \in Tx : tx'[s] # V!Idle => tx'[s].day = today
      /\ \A s \in V!WithSponsor' : s \in V!WithSponsor \ {t} /\ tx'[s] = tx[s]
  BY <1>1, VisitsDone
<1>5. /\ link' \in [Minor -> Adult \cup {None}] /\ asked' \in [Minor -> SUBSET Adult]
      /\ \A c \in Minor \ {m} : link'[c] = link[c]
  <2>1. (IF V!Is(t, {"unlink"}) THEN None ELSE tx[t].adult) \in Adult \cup {None}
    BY <1>3
  <2>2. asked' \in [Minor -> SUBSET Adult]
    BY <1>3 DEF V!Relink, VisitsInv, V!TypeOK
  <2> QED
    BY <1>3, <2>1, <2>2 DEF V!Relink, VisitsInv, V!TypeOK
<1>6. /\ visit' \in [V!Person -> V!Visit] /\ visit'[m] = V!NoVisit
      /\ \A q \in V!Person \ {m} : visit'[q] = visit[q]
  BY <1>1, <1>3 DEF VisitsInv, V!TypeOK, V!Visit
<1>7. V!TypeOK'
  BY <1>1, <1>4, <1>5, <1>6 DEF VisitsInv, V!TypeOK
<1>8. today \in Nat \ {0} /\ V!NoVisit.day = 0
  BY VisitsAssumption DEF VisitsInv, V!TypeOK, V!Day, V!NoVisit
<1>9. \A a \in Adult : a \in V!Person \ {m}
  BY <1>3, VisitsAssumption DEF V!Person
<1> HIDE DEF m
<1>10. VisitsDays'
  <2>1. \A q \in V!Person : visit'[q].day <= today
    BY <1>6, <1>8 DEF VisitsInv, VisitsDays
  <2>2. \A a \in Adult : visit'[a] # V!NoVisit => visit'[a].sponsor = None
    BY <1>6, <1>9 DEF VisitsInv, VisitsDays, V!Open
  <2> QED
    BY <1>1, <1>4, <2>1, <2>2 DEF VisitsDays, V!Open
<1>11. ASSUME NEW s \in V!WithSponsor' PROVE InCompany(s)'
  <2>1. s \in V!WithSponsor \ {t} /\ tx'[s] = tx[s]
    BY <1>4
  <2>2. tx[s].user \in Minor \ {m}
    BY <2>1, <1>1 DEF V!WithSponsor, VisitsInv, VisitsLocks, m
  <2>3. tx[s].adult \in Adult
    <3>1. tx[s] \in V!Transaction /\ tx[s].op \in Coming \cup {"book"}
      BY <2>1 DEF V!WithSponsor, V!Is, Coming, VisitsInv, V!TypeOK
    <3> QED
      BY <2>2, <3>1, Transactions
  <2> QED
    BY <2>1, <2>2, <2>3, <1>1, <1>5, <1>6, <1>9 DEF VisitsInv, InCompany, V!Is
<1>12. ASSUME NEW c \in Minor, visit'[c].day = today
       PROVE  /\ link'[c] = visit'[c].sponsor
              /\ \E a \in Adult : visit'[c].sponsor = a /\ visit'[a].day = today
                                  /\ visit'[a].building = visit'[c].building
  <2>1. c # m /\ c \in V!Person /\ visit'[c] = visit[c] /\ link'[c] = link[c]
    BY <1>12, <1>5, <1>6, <1>8 DEF V!Person
  <2> QED
    BY <2>1, <1>12, <1>6, <1>9 DEF VisitsInv, V!Supervised, V!LinkStands
<1> QED
  BY <1>1, <1>4, <1>7, <1>10, <1>11, <1>12 DEF VisitsInv, V!Supervised, V!LinkStands

LEMMA VisitsInit ==
  ASSUME V!Init
  PROVE  VisitsInv
<1>1. 1 \in V!Day /\ V!NoVisit \in V!Visit /\ V!NoVisit.day = 0 /\ V!Idle \in V!Transaction /\ V!Idle.op = "idle"
  BY VisitsAssumption DEF V!Day, V!Visit, V!NoVisit, V!Transaction, V!Idle
<1>2. V!TypeOK
  BY <1>1 DEF V!Init, V!TypeOK
<1>3. V!AtVisit = {} /\ V!WithSponsor = {} /\ V!Relinking = {}
  BY <1>1 DEF V!Init, V!AtVisit, V!WithSponsor, V!Relinking, V!Is
<1>4. \A p \in V!Person : visit[p] = V!NoVisit
  BY DEF V!Init
<1>5. Adult \subseteq V!Person /\ Minor \subseteq V!Person
  BY DEF V!Person
<1> QED
  BY <1>1, <1>2, <1>3, <1>4, <1>5 DEF V!Init, VisitsInv, VisitsDays, VisitsLocks, V!Supervised, V!LinkStands, V!Open

LEMMA VisitsNext ==
  ASSUME VisitsInv, ~ Straddle, [V!Next]_V!vars
  PROVE  VisitsInv'
<1>1. ASSUME NEW t \in Tx, NEW m \in Minor, NEW a \in Adult, V!StartAccept(t, m, a) \/ V!StartAssign(t, m, a)
      PROVE  VisitsInv'
  BY <1>1, VisitsStartLinking DEF V!StartAccept, V!StartAssign, Linking
<1>2. ASSUME NEW t \in Tx, NEW m \in Minor, V!StartUnlink(t, m)
      PROVE  VisitsInv'
  <2>1. link[m] \in Adult
    BY <1>2 DEF V!StartUnlink, VisitsInv, V!TypeOK
  <2> QED
    BY <1>2, <2>1, VisitsStartLinking DEF V!StartUnlink, Linking
<1>3. ASSUME NEW t \in Tx, V!Booked(t) \/ V!Abort(t) PROVE VisitsInv'
  BY <1>3, VisitsStop DEF V!Booked, V!Abort, V!Finish
<1>4. CASE UNCHANGED V!vars
  BY <1>4 DEF V!vars, VisitsInv, V!TypeOK, VisitsDays, VisitsLocks, InCompany, V!Supervised, V!LinkStands,
              V!Open, V!AtVisit, V!WithSponsor, V!Relinking, V!Is
<1> QED
  BY <1>1, <1>2, <1>3, <1>4, VisitsArrive, VisitsBook, VisitsTakeTurn, VisitsEnter, VisitsLeave,
     VisitsRelink, VisitsStartLeaving, VisitsAsk, VisitsSuspend, VisitsMidnight DEF V!Next

LEMMA VisitsHold ==
  ASSUME VisitsInv
  PROVE  V!TypeOK /\ V!Supervised /\ V!LinkStands /\ V!BookedInCompany
<1>1. ASSUME NEW t \in Tx, V!Is(t, {"book"})
      PROVE  t \in V!WithSponsor /\ tx[t].day = today
  <2>1. tx[t] \in V!Transaction /\ tx[t].op = "book" /\ tx[t] # V!Idle
    BY <1>1, IdleTransaction DEF VisitsInv, V!TypeOK, V!Is
  <2> QED
    BY <2>1, Transactions DEF V!WithSponsor, V!Is, VisitsInv, VisitsDays
<1> QED
  BY <1>1 DEF VisitsInv, V!BookedInCompany, InCompany

\* requireSponsor, startVisit and checkout: on a day that no transaction
\* outlasts, a minor who is in has the linked adult in the same building, and
\* so has a minor who books.
THEOREM MinorsAreSupervised ==
  ASSUME ~ Straddle
  PROVE  V!Spec => [](V!Supervised /\ V!LinkStands /\ V!BookedInCompany)
<1>1. V!Init => VisitsInv
  BY VisitsInit
<1>2. VisitsInv /\ [V!Next]_V!vars => VisitsInv'
  BY VisitsNext
<1>3. VisitsInv => V!Supervised /\ V!LinkStands /\ V!BookedInCompany
  BY VisitsHold
<1> QED
  BY <1>1, <1>2, <1>3, PTL DEF V!Spec

LEMMA VisitsLater ==
  ASSUME VisitsInv, [V!Next]_V!vars, NEW p \in V!Person, V!Open(p), visit'[p] # V!NoVisit
  PROVE  visit'[p].day >= visit[p].day
<1>1. visit[p].day \in Nat /\ visit[p].day <= today /\ today \in Nat /\ visit \in [V!Person -> V!Visit]
  BY VisitRows, VisitsAssumption DEF VisitsInv, V!TypeOK, VisitsDays, V!Day
<1>2. CASE visit' = visit
  BY <1>1, <1>2
<1>3. ASSUME NEW t \in Tx, V!Enter(t) PROVE visit'[p].day >= visit[p].day
  <2> DEFINE w == tx[t]
             new == [day |-> w.day, building |-> w.building, sponsor |-> w.adult]
  <2>1. w \in V!Transaction /\ w.op = "enter" /\ w.day = today
    BY <1>3, IdleTransaction DEF V!Enter, V!Is, VisitsInv, V!TypeOK, VisitsDays
  <2>2. w.user \in V!Person /\ new \in V!Visit /\ new.day = today
    BY <2>1, Transactions DEF Coming, V!Person, V!Visit
  <2>3. visit'[p] \in {visit[p], new}
    <3>1. CASE visit' = [visit EXCEPT ![w.user] = new] \/ visit' = visit
      BY <3>1, <1>1
    <3>2. CASE visit' = [V!Ended(V!InCare(w.user)) EXCEPT ![w.user] = new]
      BY <3>2, <1>1 DEF V!Ended
    <3> QED
      BY <3>1, <3>2, <1>3 DEF V!Enter
  <2> QED
    BY <1>1, <2>2, <2>3
<1>4. ASSUME NEW t \in Tx, V!Leave(t) \/ V!Relink(t) PROVE visit'[p].day >= visit[p].day
  <2>1. visit'[p] = visit[p]
    BY <1>1, <1>4 DEF V!Leave, V!Relink, V!Ended
  <2> QED
    BY <1>1, <2>1
<1> QED
  BY <1>2, <1>3, <1>4 DEF V!Next, V!vars, V!Midnight, V!Suspend, V!Ask, V!Withdraw, V!AdultArrives, V!MinorArrives,
     V!MinorBooks, V!StartUnlink, V!StartAccept, V!StartAssign, V!StartLeaving, V!Booked, V!TakeTurn, V!Abort

\* What startVisit closes as stale is from a previous day, where no
\* transaction outlasts its day: it is the midnight that breaks it.
THEOREM OnlyStaleVisitsEnd ==
  ASSUME ~ Straddle
  PROVE  V!Spec => V!VisitsMoveForward
<1> DEFINE step == \A p \in V!Person : V!Open(p) /\ visit'[p] # V!NoVisit => visit'[p].day >= visit[p].day
<1>1. V!Init => VisitsInv
  BY VisitsInit
<1>2. VisitsInv /\ [V!Next]_V!vars => VisitsInv'
  BY VisitsNext
<1>3. VisitsInv /\ [V!Next]_V!vars => [step]_V!vars
  BY VisitsLater
<1> QED
  BY <1>1, <1>2, <1>3, PTL DEF V!Spec, V!VisitsMoveForward

-----------------------------------------------------------------------------
(* Sponsor requests.                                                       *)

\* The tries that count against an e-mail and against an adult, from a day on.
Against(e, from) == {i \in DOMAIN tries : tries[i].day > from /\ tries[i].email = e /\ tries[i].matched = "no"}
MadeBy(a, from) == {i \in DOMAIN tries : tries[i].day > from /\ tries[i].adult = a}

\* Those of a month, and those of a day.
Guesses(e, d) ==
  {i \in DOMAIN tries : /\ tries[i].day \in R!MonthBefore(d) + 1..d
                        /\ tries[i].email = e /\ tries[i].matched = "no"}
Asks(a, d) == {i \in DOMAIN tries : tries[i].day \in d..d /\ tries[i].adult = a}

Waiting(t) == request[t].at \in {"asked", "matched"}

\* What a request has counted stays so until it has written its own try down:
\* nobody else writes for its e-mail or its adult.
AttemptsCounted ==
  /\ \A t \in Tx : request[t].at = "counted" =>
       /\ Cardinality(Against(request[t].email, R!MonthBefore(request[t].day))) < PerEmail
       /\ Cardinality(MadeBy(request[t].adult, request[t].day - 1)) < PerAdult
  /\ \A t, s \in Tx : t # s /\ request[t].at = "counted" /\ request[s].at = "counted" =>
       request[t].adult # request[s].adult /\ request[t].email # request[s].email

\* A try is one request's to mark, and one that missed is never marked.
AttemptsMarked ==
  /\ \A t \in Tx : Waiting(t) =>
       /\ request[t].try \in DOMAIN tries
       /\ tries[request[t].try].matched = "no" /\ ~ tries[request[t].try].missed
  /\ \A t, s \in Tx : t # s /\ Waiting(t) /\ Waiting(s) => request[t].try # request[s].try
  /\ \A i \in DOMAIN tries : tries[i].missed => tries[i].matched = "no"

\* The limits, of the tries not known to match: all that have missed are such.
AttemptsWithin ==
  /\ \A e \in Email, d \in R!Day : Cardinality(Guesses(e, d)) <= PerEmail
  /\ \A a \in Adult, d \in R!Day : Cardinality(Asks(a, d)) <= PerAdult

AttemptsInv == R!TypeOK /\ AttemptsCounted /\ AttemptsMarked /\ AttemptsWithin

Begun(t) == request[t].at \in {"begun", "counted"}

\* What a request at each stage knows.
LEMMA RequestKinds ==
  ASSUME R!TypeOK, NEW t \in Tx
  PROVE  /\ Begun(t) => request[t].adult \in Adult /\ request[t].email \in Email /\ request[t].day \in R!Day
         /\ Waiting(t) => request[t].try \in 1..MaxTries
         /\ request[t].at \in {"idle", "begun", "counted", "asked", "matched"}
BY DEF R!TypeOK, R!Request, R!Idle, Begun, Waiting

LEMMA TriesMade ==
  ASSUME R!TypeOK
  PROVE  /\ Len(tries) \in Nat /\ DOMAIN tries = 1..Len(tries)
         /\ \A i \in DOMAIN tries : /\ tries[i] \in R!Try /\ tries[i].day \in Int
                                    /\ tries[i].adult \in Adult /\ tries[i].email \in Email
<1>1. tries \in Seq(R!Try)
  BY DEF R!TypeOK
<1>2. Len(tries) \in Nat /\ DOMAIN tries = 1..Len(tries) /\ \A i \in DOMAIN tries : tries[i] \in R!Try
  BY <1>1, LenProperties, ElementOfSeq
<1> QED
  BY <1>2, AttemptsAssumption DEF R!Try, R!Day

\* The instance's operator is the library's.
LEMMA SameCount == \A S : R!Cardinality(S) = Cardinality(S)
BY DEF R!Cardinality, Cardinality

LEMMA CountsFinite ==
  ASSUME R!TypeOK
  PROVE  /\ \A T \in SUBSET DOMAIN tries : IsFiniteSet(T) /\ Cardinality(T) \in Nat
         /\ \A T \in SUBSET DOMAIN tries : \A S \in SUBSET T : Cardinality(S) <= Cardinality(T)
<1>1. IsFiniteSet(DOMAIN tries)
  <2>1. DOMAIN tries = 1..Len(tries) /\ 1 \in Int /\ Len(tries) \in Int
    BY TriesMade
  <2>2. IsFiniteSet(1..Len(tries))
    BY <2>1, FS_Interval
  <2> QED
    BY <2>1, <2>2
<1>2. \A T \in SUBSET DOMAIN tries : IsFiniteSet(T)
  BY <1>1, FS_Subset
<1>3. \A T \in SUBSET DOMAIN tries : Cardinality(T) \in Nat
  BY <1>2, FS_CardinalityType
<1> QED
  BY <1>2, <1>3, FS_Subset

\* Months that begin later end no earlier: a limit that holds from the
\* beginning of one holds in every month its last day falls in.
LEMMA MonthsInOrder ==
  ASSUME NEW c \in R!Day, NEW d \in R!Day
  PROVE  /\ R!MonthBefore(d) \in Nat /\ c \in Nat /\ d \in Nat
         /\ c <= d => R!MonthBefore(c) <= R!MonthBefore(d)
BY AttemptsAssumption DEF R!MonthBefore, R!Day

\* A step in which no try is written down and none becomes a guess.
LEMMA AttemptsShrink ==
  ASSUME AttemptsInv, R!TypeOK', DOMAIN tries' = DOMAIN tries,
         \A i \in DOMAIN tries : /\ tries'[i].day = tries[i].day /\ tries'[i].email = tries[i].email
                                 /\ tries'[i].adult = tries[i].adult
                                 /\ tries'[i].matched = "no" => tries[i].matched = "no"
  PROVE  /\ AttemptsWithin'
         /\ \A e, from : Cardinality(Against(e, from)') <= Cardinality(Against(e, from))
         /\ \A a, from : Cardinality(MadeBy(a, from)') <= Cardinality(MadeBy(a, from))
<1>1. \A e, from : Against(e, from)' \subseteq Against(e, from) /\ Against(e, from) \subseteq DOMAIN tries
  BY DEF Against
<1>2. \A a, from : MadeBy(a, from)' \subseteq MadeBy(a, from) /\ MadeBy(a, from) \subseteq DOMAIN tries
  BY DEF MadeBy
<1>3. \A e, d : Guesses(e, d)' \subseteq Guesses(e, d) /\ Guesses(e, d) \subseteq DOMAIN tries
  BY DEF Guesses, R!MonthBefore
<1>4. \A a, d : Asks(a, d)' \subseteq Asks(a, d) /\ Asks(a, d) \subseteq DOMAIN tries
  BY DEF Asks
<1>5. \A T \in SUBSET DOMAIN tries : \A S \in SUBSET T :
        Cardinality(S) <= Cardinality(T) /\ Cardinality(S) \in Nat /\ Cardinality(T) \in Nat
  BY CountsFinite DEF AttemptsInv
<1>6. AttemptsWithin'
  <2>1. ASSUME NEW e \in Email, NEW d \in R!Day PROVE Cardinality(Guesses(e, d)') <= PerEmail
    <3>1. Cardinality(Guesses(e, d)) <= PerEmail
      BY DEF AttemptsInv, AttemptsWithin
    <3>2. Guesses(e, d)' \in SUBSET Guesses(e, d) /\ Guesses(e, d) \in SUBSET DOMAIN tries
      BY <1>3
    <3> HIDE DEF Guesses
    <3> QED
      BY <3>1, <3>2, <1>5, AttemptsAssumption
  <2>2. ASSUME NEW a \in Adult, NEW d \in R!Day PROVE Cardinality(Asks(a, d)') <= PerAdult
    <3>1. Cardinality(Asks(a, d)) <= PerAdult
      BY DEF AttemptsInv, AttemptsWithin
    <3>2. Asks(a, d)' \in SUBSET Asks(a, d) /\ Asks(a, d) \in SUBSET DOMAIN tries
      BY <1>4
    <3> QED
      BY <3>1, <3>2, <1>5, AttemptsAssumption
  <2> QED
    BY <2>1, <2>2 DEF AttemptsWithin
<1>7. \A e, from : Cardinality(Against(e, from)') <= Cardinality(Against(e, from))
  BY <1>1, <1>5
<1>8. \A a, from : Cardinality(MadeBy(a, from)') <= Cardinality(MadeBy(a, from))
  BY <1>2, <1>5
<1> QED
  BY <1>6, <1>7, <1>8

\* One try more, by a request that has counted the others.
LEMMA AttemptsRecord ==
  ASSUME AttemptsInv, NEW t \in Tx, R!Record(t)
  PROVE  AttemptsInv'
<1> DEFINE w == request[t]
           k == Len(tries) + 1
           new == [adult |-> w.adult, email |-> w.email, day |-> w.day, matched |-> "no", missed |-> FALSE]
           after == [at |-> "asked", try |-> k]
<1>1. R!TypeOK /\ tries \in Seq(R!Try) /\ request \in [Tx -> R!Request] /\ Len(tries) \in Nat
      /\ DOMAIN tries = 1..Len(tries) /\ w.at = "counted" /\ Begun(t)
  BY TriesMade DEF AttemptsInv, R!TypeOK, R!Record, Begun
<1>2. w.adult \in Adult /\ w.email \in Email /\ w.day \in R!Day
  BY <1>1, RequestKinds
<1>3. new \in R!Try /\ new.adult = w.adult /\ new.email = w.email /\ new.day = w.day /\ new.matched = "no"
      /\ ~ new.missed
  BY <1>2 DEF R!Try
<1>4. tries' = Append(tries, new) /\ Len(tries) < MaxTries /\ request' = [request EXCEPT ![t] = after] /\ date' = date
  BY DEF R!Record
<1> HIDE DEF new
<1>5. tries' \in Seq(R!Try) /\ Len(tries') = k /\ tries'[k] = new
      /\ \A i \in DOMAIN tries : tries'[i] = tries[i]
  BY <1>1, <1>3, <1>4, AppendProperties
<1>6. DOMAIN tries' = DOMAIN tries \cup {k} /\ k \notin DOMAIN tries /\ k \in 1..MaxTries
  <2>1. DOMAIN tries' = 1..k
    BY <1>5, LenProperties
  <2> QED
    BY <2>1, <1>1, <1>4, AttemptsAssumption
<1>7. after \in R!Request /\ after.at = "asked" /\ after.try = k
  BY <1>6 DEF R!Request
<1>8. request' \in [Tx -> R!Request] /\ request'[t] = after /\ \A s \in Tx \ {t} : request'[s] = request[s]
  BY <1>1, <1>4, <1>7
<1> HIDE DEF after
<1>9. R!TypeOK'
  BY <1>1, <1>4, <1>5, <1>6, <1>8, AttemptsAssumption DEF R!TypeOK
<1>10. /\ Cardinality(Against(w.email, R!MonthBefore(w.day))) < PerEmail
       /\ Cardinality(MadeBy(w.adult, w.day - 1)) < PerAdult
  BY <1>1 DEF AttemptsInv, AttemptsCounted
<1> HIDE DEF w, k
<1>11. \A T \in SUBSET DOMAIN tries : IsFiniteSet(T) /\ Cardinality(T) \in Nat
                                      /\ Cardinality(T \cup {k}) = Cardinality(T) + 1
  BY <1>1, <1>6, CountsFinite, FS_AddElement
<1>14. AttemptsCounted'
  <2>1. ASSUME NEW s \in Tx, request'[s].at = "counted"
        PROVE  /\ s # t /\ request'[s] = request[s] /\ request[s].email \in Email \ {w.email}
               /\ request[s].adult \in Adult \ {w.adult}
    <3>1. s # t /\ request'[s] = request[s]
      BY <2>1, <1>7, <1>8
    <3>2. request[s].email \in Email /\ request[s].adult \in Adult
      BY <2>1, <3>1, <1>1, RequestKinds DEF Begun
    <3>3. request[s].adult # w.adult /\ request[s].email # w.email
      BY <2>1, <3>1, <1>1 DEF AttemptsInv, AttemptsCounted, w
    <3> QED
      BY <3>1, <3>2, <3>3
  <2>2. ASSUME NEW s \in Tx, request'[s].at = "counted"
        PROVE  (/\ Cardinality(Against(request[s].email, R!MonthBefore(request[s].day))) < PerEmail
                /\ Cardinality(MadeBy(request[s].adult, request[s].day - 1)) < PerAdult)'
    <3>1. PICK e \in Email, a \in Adult, d \in R!Day : e = request[s].email /\ a = request[s].adult /\ d = request[s].day
      BY <2>1, <2>2, <1>1, RequestKinds DEF Begun
    <3>2. Cardinality(Against(e, R!MonthBefore(d))) < PerEmail /\ Cardinality(MadeBy(a, d - 1)) < PerAdult
      BY <2>1, <2>2, <3>1 DEF AttemptsInv, AttemptsCounted
    <3>3. Against(e, R!MonthBefore(d))' = Against(e, R!MonthBefore(d)) /\ MadeBy(a, d - 1)' = MadeBy(a, d - 1)
      BY <2>1, <2>2, <3>1, <1>3, <1>5, <1>6 DEF Against, MadeBy, R!MonthBefore
    <3>4. request'[s].email = e /\ request'[s].adult = a /\ request'[s].day = d
      BY <2>1, <2>2, <3>1
    <3> QED
      BY <3>2, <3>3, <3>4
  <2>3. \A s, u \in Tx : s # u /\ request'[s].at = "counted" /\ request'[u].at = "counted" =>
          request'[s].adult # request'[u].adult /\ request'[s].email # request'[u].email
    BY <2>1 DEF AttemptsInv, AttemptsCounted
  <2> QED
    BY <2>2, <2>3 DEF AttemptsCounted
<1>15. AttemptsMarked'
  <2>1. \A s \in Tx : Waiting(s)' => (s = t /\ request'[s].try = k) \/ (s # t /\ Waiting(s) /\ request'[s] = request[s])
    BY <1>7, <1>8 DEF Waiting
  <2> QED
    BY <2>1, <1>3, <1>5, <1>6 DEF AttemptsInv, AttemptsMarked
<1>16. ASSUME NEW e \in Email, NEW d \in R!Day PROVE Cardinality(Guesses(e, d)') <= PerEmail
  <2>1. Guesses(e, d) \in SUBSET DOMAIN tries /\ Cardinality(Guesses(e, d)) <= PerEmail
    BY DEF AttemptsInv, AttemptsWithin, Guesses
  <2>2. CASE e = w.email /\ w.day \in R!MonthBefore(d) + 1..d
    <3>1. R!MonthBefore(w.day) <= R!MonthBefore(d) /\ R!MonthBefore(d) \in Nat /\ R!MonthBefore(w.day) \in Nat
      BY <2>2, <1>2, MonthsInOrder DEF w
    <3>2. Guesses(e, d) \subseteq Against(w.email, R!MonthBefore(w.day))
      <4>1. \A i \in DOMAIN tries : tries[i].day \in R!MonthBefore(d) + 1..d => tries[i].day > R!MonthBefore(w.day)
        BY <3>1, <1>1, TriesMade
      <4> QED
        BY <4>1, <2>2 DEF Guesses, Against
    <3>3. Cardinality(Guesses(e, d)) < PerEmail
      <4>1. Against(w.email, R!MonthBefore(w.day)) \in SUBSET DOMAIN tries
        BY DEF Against
      <4>2. Cardinality(Guesses(e, d)) <= Cardinality(Against(w.email, R!MonthBefore(w.day)))
        BY <3>2, <4>1, <1>1, CountsFinite
      <4>3. /\ Cardinality(Guesses(e, d)) \in Nat
            /\ Cardinality(Against(w.email, R!MonthBefore(w.day))) \in Nat
        BY <2>1, <4>1, <1>11
      <4> QED
        BY <4>2, <4>3, <1>10, AttemptsAssumption
    <3>4. Guesses(e, d)' = Guesses(e, d) \cup {k}
      BY <2>2, <1>3, <1>5, <1>6 DEF Guesses, R!MonthBefore
    <3>5. Cardinality(Guesses(e, d)) \in Nat /\ Cardinality(Guesses(e, d) \cup {k}) = Cardinality(Guesses(e, d)) + 1
      BY <2>1, <1>11
    <3> QED
      BY <3>3, <3>4, <3>5, AttemptsAssumption
  <2>3. CASE ~ (e = w.email /\ w.day \in R!MonthBefore(d) + 1..d)
    <3>1. Guesses(e, d)' = Guesses(e, d)
      BY <2>3, <1>3, <1>5, <1>6 DEF Guesses, R!MonthBefore
    <3> QED
      BY <2>1, <3>1
  <2> QED
    BY <2>2, <2>3
<1>17. ASSUME NEW a \in Adult, NEW d \in R!Day PROVE Cardinality(Asks(a, d)') <= PerAdult
  <2>1. Asks(a, d) \in SUBSET DOMAIN tries /\ Cardinality(Asks(a, d)) <= PerAdult
    BY DEF AttemptsInv, AttemptsWithin, Asks
  <2>2. CASE a = w.adult /\ w.day \in d..d
    <3>1. Asks(a, d) \subseteq MadeBy(w.adult, w.day - 1)
      <4>1. \A i \in DOMAIN tries : tries[i].day \in d..d => tries[i].day > w.day - 1
        BY <2>2, <1>1, <1>2, TriesMade, AttemptsAssumption DEF R!Day
      <4> QED
        BY <4>1, <2>2 DEF Asks, MadeBy
    <3>2. MadeBy(w.adult, w.day - 1) \in SUBSET DOMAIN tries
      BY DEF MadeBy
    <3>3. Cardinality(Asks(a, d)) <= Cardinality(MadeBy(w.adult, w.day - 1))
      BY <3>1, <3>2, <1>1, CountsFinite
    <3>4. Asks(a, d)' = Asks(a, d) \cup {k}
      BY <2>2, <1>3, <1>5, <1>6 DEF Asks
    <3>5. /\ Cardinality(Asks(a, d)) \in Nat /\ Cardinality(Asks(a, d) \cup {k}) = Cardinality(Asks(a, d)) + 1
          /\ Cardinality(MadeBy(w.adult, w.day - 1)) \in Nat
      BY <2>1, <3>2, <1>11
    <3> QED
      BY <3>3, <3>4, <3>5, <1>10, AttemptsAssumption
  <2>3. CASE ~ (a = w.adult /\ w.day \in d..d)
    <3>1. Asks(a, d)' = Asks(a, d)
      BY <2>3, <1>3, <1>5, <1>6 DEF Asks
    <3> QED
      BY <2>1, <3>1
  <2> QED
    BY <2>2, <2>3
<1> QED
  BY <1>9, <1>14, <1>15, <1>16, <1>17 DEF AttemptsInv, AttemptsWithin

\* One request moves on and nothing is written.
LEMMA AttemptsMove ==
  ASSUME AttemptsInv, NEW t \in Tx, NEW f \in R!Request, request' = [request EXCEPT ![t] = f],
         tries' = tries, date' = date,
         f.at = "counted" =>
           /\ Cardinality(Against(f.email, R!MonthBefore(f.day))) < PerEmail
           /\ Cardinality(MadeBy(f.adult, f.day - 1)) < PerAdult
           /\ \A s \in Tx \ {t} : request[s].at = "counted" => request[s].adult # f.adult /\ request[s].email # f.email,
         f.at \in {"asked", "matched"} => Waiting(t) /\ f.try = request[t].try
  PROVE  AttemptsInv'
<1>1. request' \in [Tx -> R!Request] /\ request'[t] = f /\ \A s \in Tx \ {t} : request'[s] = request[s]
  BY DEF AttemptsInv, R!TypeOK
<1>2. R!TypeOK'
  BY <1>1 DEF AttemptsInv, R!TypeOK
<1>3. AttemptsCounted'
  BY <1>1 DEF AttemptsInv, AttemptsCounted, Against, MadeBy, R!MonthBefore
<1>4. AttemptsMarked'
  <2>1. \A s \in Tx : Waiting(s)' => Waiting(s) /\ request'[s].try = request[s].try
    BY <1>1 DEF Waiting
  <2> QED
    BY <2>1 DEF AttemptsInv, AttemptsMarked
<1>5. AttemptsWithin'
  BY DEF AttemptsInv, AttemptsWithin, Guesses, Asks, R!MonthBefore
<1> QED
  BY <1>2, <1>3, <1>4, <1>5 DEF AttemptsInv

LEMMA AttemptsStop ==
  ASSUME AttemptsInv, NEW t \in Tx, request' = [request EXCEPT ![t] = R!Idle], tries' = tries, date' = date
  PROVE  AttemptsInv'
<1>1. R!Idle \in R!Request /\ R!Idle.at = "idle"
  BY DEF R!Idle, R!Request
<1> QED
  BY <1>1, AttemptsMove

LEMMA AttemptsBegin ==
  ASSUME AttemptsInv, NEW t \in Tx, NEW a \in Adult, NEW e \in Email, R!Begin(t, a, e)
  PROVE  AttemptsInv'
<1> DEFINE f == [at |-> "begun", adult |-> a, email |-> e, day |-> date]
<1>1. f \in R!Request /\ f.at = "begun"
  BY DEF R!Request, AttemptsInv, R!TypeOK
<1>2. request' = [request EXCEPT ![t] = f] /\ tries' = tries /\ date' = date
  BY DEF R!Begin
<1> HIDE DEF f
<1> QED
  BY <1>1, <1>2, AttemptsMove

LEMMA AttemptsCount ==
  ASSUME AttemptsInv, NEW t \in Tx, R!Count(t)
  PROVE  AttemptsInv'
<1> DEFINE f == [request[t] EXCEPT !.at = "counted"]
<1>1. request[t] \in [at : {"begun", "counted"}, adult : Adult, email : Email, day : R!Day] /\ request[t].at = "begun"
  BY DEF AttemptsInv, R!TypeOK, R!Request, R!Idle, R!Count
<1>2. f \in [at : {"begun", "counted"}, adult : Adult, email : Email, day : R!Day] /\ f.at = "counted"
      /\ f.adult = request[t].adult /\ f.email = request[t].email /\ f.day = request[t].day
  BY <1>1
<1>3. request' = [request EXCEPT ![t] = f] /\ tries' = tries /\ date' = date
  BY DEF R!Count
<1> HIDE DEF f
<1>4. /\ Cardinality(Against(f.email, R!MonthBefore(f.day))) < PerEmail
      /\ Cardinality(MadeBy(f.adult, f.day - 1)) < PerAdult
  <2>1. R!Within(request[t].adult, request[t].email, request[t].day)
    BY DEF R!Count
  <2>2. /\ Cardinality({i \in R!Since(R!DayBefore(request[t].day)) : tries[i].adult = request[t].adult}) < PerAdult
        /\ Cardinality({i \in R!Since(R!MonthBefore(request[t].day)) : tries[i].email = request[t].email /\ tries[i].matched = "no"})
             < PerEmail
    BY <2>1, SameCount DEF R!Within
  <2>3. /\ {i \in R!Since(R!DayBefore(request[t].day)) : tries[i].adult = request[t].adult} = MadeBy(f.adult, f.day - 1)
        /\ {i \in R!Since(R!MonthBefore(request[t].day)) : tries[i].email = request[t].email /\ tries[i].matched = "no"}
             = Against(f.email, R!MonthBefore(f.day))
    BY <1>2 DEF R!Since, R!DayBefore, Against, MadeBy
  <2> QED
    BY <2>2, <2>3
<1>5. \A s \in Tx \ {t} : request[s].at = "counted" => request[s].adult # f.adult /\ request[s].email # f.email
  BY <1>2 DEF R!Count, R!LocksFree
<1>6. f \in R!Request
  BY <1>2 DEF R!Request
<1> QED
  BY <1>2, <1>3, <1>4, <1>5, <1>6, AttemptsMove

LEMMA AttemptsMatch ==
  ASSUME AttemptsInv, NEW t \in Tx, R!Match(t)
  PROVE  AttemptsInv'
<1> DEFINE f == [request[t] EXCEPT !.at = "matched"]
<1>1. request[t] \in [at : {"asked", "matched"}, try : 1..MaxTries] /\ request[t].at = "asked"
  BY DEF AttemptsInv, R!TypeOK, R!Request, R!Idle, R!Match
<1>2. f \in [at : {"asked", "matched"}, try : 1..MaxTries] /\ f.at = "matched" /\ f.try = request[t].try
  BY <1>1
<1>3. request' = [request EXCEPT ![t] = f] /\ tries' = tries /\ date' = date
  BY DEF R!Match
<1>4. f \in R!Request /\ Waiting(t)
  BY <1>1, <1>2 DEF R!Request, Waiting
<1> HIDE DEF f
<1> QED
  BY <1>2, <1>3, <1>4, AttemptsMove

\* One try gets its answer: nobody else's.
LEMMA AttemptsAnswer ==
  ASSUME AttemptsInv, NEW t \in Tx, Waiting(t), NEW r \in R!Try,
         tries' = [tries EXCEPT ![request[t].try] = r],
         r.day = tries[request[t].try].day, r.adult = tries[request[t].try].adult,
         r.email = tries[request[t].try].email, r.missed => r.matched = "no",
         request' = [request EXCEPT ![t] = R!Idle], date' = date
  PROVE  AttemptsInv'
<1> DEFINE k == request[t].try
<1>1. R!TypeOK /\ tries \in Seq(R!Try) /\ DOMAIN tries = 1..Len(tries) /\ k \in DOMAIN tries
      /\ tries[k].matched = "no"
  BY TriesMade DEF AttemptsInv, R!TypeOK, AttemptsMarked
<1> HIDE DEF k
<1>2. tries' \in Seq(R!Try) /\ Len(tries') = Len(tries) /\ DOMAIN tries' = DOMAIN tries
      /\ tries'[k] = r /\ \A i \in DOMAIN tries \ {k} : tries'[i] = tries[i]
  BY <1>1, ExceptSeq, LenProperties DEF k
<1>3. R!Idle \in R!Request /\ R!Idle.at = "idle"
  BY DEF R!Idle, R!Request
<1>4. request' \in [Tx -> R!Request] /\ request'[t] = R!Idle /\ \A s \in Tx \ {t} : request'[s] = request[s]
  BY <1>3 DEF AttemptsInv, R!TypeOK
<1>5. R!TypeOK'
  BY <1>1, <1>2, <1>4 DEF R!TypeOK
<1>6. \A i \in DOMAIN tries : /\ tries'[i].day = tries[i].day /\ tries'[i].email = tries[i].email
                              /\ tries'[i].adult = tries[i].adult
                              /\ tries'[i].matched = "no" => tries[i].matched = "no"
  BY <1>1, <1>2 DEF k
<1>7. /\ AttemptsWithin'
      /\ \A e, from : Cardinality(Against(e, from)') <= Cardinality(Against(e, from))
      /\ \A a, from : Cardinality(MadeBy(a, from)') <= Cardinality(MadeBy(a, from))
  BY <1>2, <1>5, <1>6, AttemptsShrink
<1>8. AttemptsCounted'
  <2>1. ASSUME NEW s \in Tx, request'[s].at = "counted"
        PROVE  (/\ Cardinality(Against(request[s].email, R!MonthBefore(request[s].day))) < PerEmail
                /\ Cardinality(MadeBy(request[s].adult, request[s].day - 1)) < PerAdult)'
    <3>1. s # t /\ request'[s] = request[s]
      BY <2>1, <1>3, <1>4
    <3>2. PICK e \in Email, a \in Adult, d \in R!Day : e = request[s].email /\ a = request[s].adult /\ d = request[s].day
      BY <2>1, <3>1, <1>1, RequestKinds DEF Begun
    <3>3. Cardinality(Against(e, R!MonthBefore(d))) < PerEmail /\ Cardinality(MadeBy(a, d - 1)) < PerAdult
      BY <2>1, <3>1, <3>2 DEF AttemptsInv, AttemptsCounted
    <3>4. /\ Cardinality(Against(e, R!MonthBefore(d))') <= Cardinality(Against(e, R!MonthBefore(d)))
          /\ Cardinality(MadeBy(a, d - 1)') <= Cardinality(MadeBy(a, d - 1))
      BY <1>7 DEF R!MonthBefore
    <3>5. /\ Cardinality(Against(e, R!MonthBefore(d))') \in Nat /\ Cardinality(Against(e, R!MonthBefore(d))) \in Nat
          /\ Cardinality(MadeBy(a, d - 1)') \in Nat /\ Cardinality(MadeBy(a, d - 1)) \in Nat
      <4>1. Against(e, R!MonthBefore(d)) \in SUBSET DOMAIN tries /\ MadeBy(a, d - 1) \in SUBSET DOMAIN tries
            /\ Against(e, R!MonthBefore(d))' \in SUBSET DOMAIN tries /\ MadeBy(a, d - 1)' \in SUBSET DOMAIN tries
        BY <1>2 DEF Against, MadeBy
      <4> QED
        BY <4>1, <1>1, CountsFinite
    <3>6. /\ Cardinality(Against(e, R!MonthBefore(d))') < PerEmail
          /\ Cardinality(MadeBy(a, d - 1)') < PerAdult
      BY <3>3, <3>4, <3>5, AttemptsAssumption
    <3>7. request'[s].email = e /\ request'[s].adult = a /\ request'[s].day = d
      BY <3>1, <3>2
    <3> QED
      BY <3>6, <3>7
  <2>2. \A s, u \in Tx : s # u /\ request'[s].at = "counted" /\ request'[u].at = "counted" =>
          request'[s].adult # request'[u].adult /\ request'[s].email # request'[u].email
    BY <1>3, <1>4 DEF AttemptsInv, AttemptsCounted
  <2> QED
    BY <2>1, <2>2 DEF AttemptsCounted
<1>9. AttemptsMarked'
  <2>1. \A s \in Tx : Waiting(s)' => s # t /\ Waiting(s) /\ request'[s] = request[s] /\ request[s].try # k
    BY <1>3, <1>4 DEF Waiting, AttemptsInv, AttemptsMarked, k
  <2> QED
    BY <2>1, <1>1, <1>2 DEF AttemptsInv, AttemptsMarked
<1> QED
  BY <1>5, <1>7, <1>8, <1>9 DEF AttemptsInv

LEMMA AttemptsMiss ==
  ASSUME AttemptsInv, NEW t \in Tx, R!Miss(t) \/ R!Mark(t)
  PROVE  AttemptsInv'
<1> DEFINE k == request[t].try
           missed == [tries[k] EXCEPT !.missed = TRUE]
           marked == [tries[k] EXCEPT !.matched = "yes"]
<1>1. Waiting(t)
  BY DEF R!Miss, R!Mark, Waiting
<1>2. k \in DOMAIN tries /\ tries[k].matched = "no" /\ ~ tries[k].missed
  BY <1>1 DEF AttemptsInv, AttemptsMarked
<1>3. tries[k] \in R!Try /\ tries \in Seq(R!Try)
  BY <1>2, TriesMade DEF AttemptsInv, R!TypeOK
<1>4. request' = [request EXCEPT ![t] = R!Idle] /\ date' = date
  BY DEF R!Miss, R!Mark
<1>5. CASE R!Miss(t)
  <2>1. tries' = [tries EXCEPT ![k] = missed]
    BY <1>5, <1>2 DEF R!Miss
  <2>2. /\ missed \in R!Try /\ missed.day = tries[k].day /\ missed.adult = tries[k].adult
        /\ missed.email = tries[k].email /\ missed.matched = "no"
    BY <1>2, <1>3 DEF R!Try
  <2> HIDE DEF missed
  <2> QED
    BY <2>1, <2>2, <1>1, <1>4, AttemptsAnswer
<1>6. CASE R!Mark(t)
  <2>1. tries' = [tries EXCEPT ![k] = marked]
    BY <1>6, <1>2 DEF R!Mark
  <2>2. /\ marked \in R!Try /\ marked.day = tries[k].day /\ marked.adult = tries[k].adult
        /\ marked.email = tries[k].email
    BY <1>2, <1>3 DEF R!Try
  <2>3. marked.missed = tries[k].missed
    BY <1>3 DEF R!Try
  <2>4. ~ marked.missed
    BY <1>2, <2>3, Zenon
  <2> HIDE DEF marked
  <2> QED
    BY <2>1, <2>2, <2>4, <1>1, <1>4, AttemptsAnswer
<1> QED
  BY <1>5, <1>6

LEMMA AttemptsNextDay ==
  ASSUME AttemptsInv, R!NextDay
  PROVE  AttemptsInv'
<1>1. date' \in R!Day
  BY AttemptsAssumption DEF AttemptsInv, R!TypeOK, R!NextDay, R!Day
<1> QED
  BY <1>1 DEF R!NextDay, AttemptsInv, R!TypeOK, AttemptsCounted, AttemptsMarked, AttemptsWithin,
              Waiting, Guesses, Asks, Against, MadeBy, R!MonthBefore

LEMMA AttemptsInit == R!Init => AttemptsInv
<1> SUFFICES ASSUME R!Init PROVE AttemptsInv
  OBVIOUS
<1>1. R!Idle \in R!Request /\ R!Idle.at = "idle"
  BY DEF R!Idle, R!Request
<1>2. tries = <<>> /\ Len(tries) = 0 /\ DOMAIN tries = {} /\ tries \in Seq(R!Try)
  BY DEF R!Init
<1>3. R!TypeOK
  BY <1>1, <1>2, AttemptsAssumption DEF R!Init, R!TypeOK, R!Day
<1>4. \A e, d : Guesses(e, d) = {} /\ Asks(e, d) = {}
  BY <1>2 DEF Guesses, Asks
<1>5. AttemptsWithin
  BY <1>4, FS_EmptySet, AttemptsAssumption DEF AttemptsWithin
<1>6. \A t \in Tx : request[t].at = "idle"
  BY <1>1 DEF R!Init
<1> QED
  BY <1>2, <1>3, <1>5, <1>6 DEF AttemptsInv, AttemptsCounted, AttemptsMarked, Waiting

LEMMA AttemptsNext == AttemptsInv /\ [R!Next]_R!vars => AttemptsInv'
<1> SUFFICES ASSUME AttemptsInv, [R!Next]_R!vars PROVE AttemptsInv'
  OBVIOUS
<1>1. ASSUME NEW t \in Tx, R!Stop(t) PROVE AttemptsInv'
  BY <1>1, AttemptsStop DEF R!Stop
<1>2. CASE UNCHANGED R!vars
  BY <1>2 DEF R!vars, AttemptsInv, R!TypeOK, AttemptsCounted, AttemptsMarked, AttemptsWithin,
              Waiting, Guesses, Asks, Against, MadeBy, R!MonthBefore
<1> QED
  BY <1>1, <1>2, AttemptsBegin, AttemptsCount, AttemptsRecord, AttemptsMatch, AttemptsMiss, AttemptsNextDay DEF R!Next

\* A try that missed is one that is not known to match.
LEMMA AttemptsLimits == AttemptsInv => R!TypeOK /\ R!GuessesBounded /\ R!AsksBounded
<1> SUFFICES ASSUME AttemptsInv PROVE R!GuessesBounded /\ R!AsksBounded
  BY DEF AttemptsInv
<1>1. ASSUME NEW e \in Email, NEW d \in R!Day
      PROVE  Cardinality({i \in R!Made(R!MonthBefore(d) + 1, d) : tries[i].email = e /\ tries[i].missed}) <= PerEmail
  <2> DEFINE heard == {i \in R!Made(R!MonthBefore(d) + 1, d) : tries[i].email = e /\ tries[i].missed}
  <2>1. heard \in SUBSET Guesses(e, d) /\ Guesses(e, d) \in SUBSET DOMAIN tries
    BY DEF Guesses, AttemptsInv, AttemptsMarked, R!Made
  <2>2. Cardinality(Guesses(e, d)) <= PerEmail
    BY DEF AttemptsInv, AttemptsWithin
  <2> HIDE DEF heard
  <2>3. Cardinality(heard) <= Cardinality(Guesses(e, d)) /\ Cardinality(Guesses(e, d)) \in Nat
        /\ Cardinality(heard) \in Nat
    <3>1. heard \in SUBSET DOMAIN tries
      BY <2>1
    <3> QED
      BY <2>1, <3>1, CountsFinite DEF AttemptsInv
  <2>4. Cardinality(heard) <= PerEmail
    BY <2>2, <2>3, AttemptsAssumption
  <2> QED
    BY <2>4 DEF heard
<1>2. ASSUME NEW a \in Adult, NEW d \in R!Day
      PROVE  Cardinality({i \in R!Made(d, d) : tries[i].adult = a}) <= PerAdult
  <2>1. {i \in R!Made(d, d) : tries[i].adult = a} = Asks(a, d)
    BY DEF R!Made, Asks
  <2> QED
    BY <2>1 DEF AttemptsInv, AttemptsWithin
<1> QED
  BY <1>1, <1>2, SameCount DEF R!GuessesBounded, R!AsksBounded

\* However many accounts ask at once and whichever requests die half way,
\* neither limit is passed.
THEOREM AttemptsLimited == R!Spec => [](R!GuessesBounded /\ R!AsksBounded)
  BY AttemptsInit, AttemptsNext, AttemptsLimits, PTL DEF R!Spec

-----------------------------------------------------------------------------
(* The reader's decision.                                                  *)

Rows == {"reader", "card", "member", "machine", "booking"}

\* Whoever has read a row keeps it as it was read, staff and decision alike.
AccessLocks ==
  /\ \A s \in Staff : staff[s] # "none" =>
       staff[s] \notin A!Locked /\ \A u \in Staff \ {s} : staff[u] # staff[s]
  /\ \A s \in Staff : staff[s] = "machine" /\ ok["machine"] => grant <= instant
  /\ \A r \in A!Locked : ok[r]
  /\ ~ decision.open => decision.locked = 0 /\ decision.lease = 0
  /\ decision.lease > 0 => decision.locked = 5
  /\ decision.at <= instant

\* The device holds the relay for no longer than the grant that was saved.
AccessGrant ==
  /\ sent <= instant
  /\ decision.lease > 0 => sent + decision.lease <= A!Expires
  /\ reply.given => sent # 0 /\ (reply.lease > 0 => sent + reply.lease <= grant)
  /\ until <= grant
  /\ grant <= Ends /\ grant <= instant + Lease

\* No grant is saved while a condition does not hold.
AccessBroken ==
  /\ broken = 0 <=> \A r \in A!Row : ok[r]
  /\ broken # 0 => grant <= broken + Lease
  /\ ~ ok["machine"] => grant <= instant

AccessInv == A!TypeOK /\ AccessLocks /\ AccessGrant /\ AccessBroken

Decisions == [locked : 0..5, open : BOOLEAN, at : 0..MaxTime, lease : 0..Lease]
Replies == [lease : 0..Lease, given : BOOLEAN]

LEMMA RowOrder ==
  /\ Len(A!Order) = 5 /\ A!Order[1] = "reader" /\ A!Order[2] = "card" /\ A!Order[3] = "member"
  /\ A!Order[4] = "machine" /\ A!Order[5] = "booking" /\ A!Row = Rows
<1>1. /\ Len(A!Order) = 5 /\ A!Order[1] = "reader" /\ A!Order[2] = "card" /\ A!Order[3] = "member"
      /\ A!Order[4] = "machine" /\ A!Order[5] = "booking" /\ DOMAIN A!Order = 1..5
  BY DEF A!Order
<1>2. 1..5 = {1, 2, 3, 4, 5}
  OBVIOUS
<1>3. A!Row = {A!Order[1], A!Order[2], A!Order[3], A!Order[4], A!Order[5]}
  BY <1>1, <1>2 DEF A!Row
<1> QED
  BY <1>1, <1>3 DEF Rows

\* The rows that a decision has locked.
LEMMA LockedRows ==
  ASSUME A!TypeOK
  PROVE  /\ decision.locked \in 0..5 /\ A!Locked \subseteq Rows
         /\ decision.locked = 0 => A!Locked = {}
         /\ decision.locked = 5 => A!Locked = Rows
<1>1. decision.locked \in 0..5
  BY RowOrder DEF A!TypeOK
<1>2. \A i \in 1..5 : A!Order[i] \in Rows
  BY RowOrder DEF Rows
<1>3. A!Locked \subseteq Rows
  BY <1>1, <1>2 DEF A!Locked
<1>4. decision.locked = 0 => A!Locked = {}
  BY DEF A!Locked
<1>5. ASSUME decision.locked = 5 PROVE A!Locked = Rows
  <2>1. \A r \in Rows : \E i \in 1..5 : r = A!Order[i]
    <3>1. 1 \in 1..5 /\ 2 \in 1..5 /\ 3 \in 1..5 /\ 4 \in 1..5 /\ 5 \in 1..5
      OBVIOUS
    <3> QED
      BY <3>1, RowOrder DEF Rows
  <2> QED
    BY <2>1, <1>3, <1>5 DEF A!Locked
<1> QED
  BY <1>1, <1>3, <1>4, <1>5

LEMMA NoneYet ==
  /\ A!NoDecision \in Decisions /\ A!NoDecision.locked = 0 /\ ~ A!NoDecision.open
  /\ A!NoDecision.at = 0 /\ A!NoDecision.lease = 0
  /\ A!NoReply \in Replies /\ A!NoReply.lease = 0 /\ ~ A!NoReply.given
BY AccessAssumption DEF A!NoDecision, A!NoReply, Decisions, Replies

\* A decision that is over, whatever is answered, leaves the device no more
\* than was granted.
LEMMA AccessOver ==
  ASSUME AccessInv, NEW lease \in 0..Lease, decision' = A!NoDecision, reply' = A!Answer(lease),
         lease > 0 /\ sent # 0 => sent + lease <= grant',
         grant' \in 0..MaxTime + Lease, grant' >= grant, grant' <= Ends, grant' <= instant + Lease,
         grant' # grant => decision.locked = 5,
         UNCHANGED <<instant, ok, broken, sent, until, staff>>
  PROVE  AccessInv'
<1>1. decision \in Decisions /\ reply \in Replies
  BY RowOrder DEF AccessInv, A!TypeOK, Decisions, Replies
<1>2. reply' \in Replies /\ (reply'.given => reply'.lease = lease /\ sent # 0)
  BY NoneYet DEF A!Answer, Replies
<1>3. A!TypeOK'
  BY <1>2, NoneYet, RowOrder DEF AccessInv, A!TypeOK, Decisions, Replies
<1>4. A!Locked' = {}
  BY NoneYet DEF A!Locked
<1>5. grant' = grant \/ (broken = 0 /\ ok["machine"] /\ \A s \in Staff : staff[s] # "machine")
  <2>1. CASE decision.locked = 5
    <3>1. A!Locked = A!Row
      BY <2>1, LockedRows, RowOrder DEF AccessInv
    <3>2. "machine" \in A!Row
      BY RowOrder DEF Rows
    <3> QED
      BY <3>1, <3>2 DEF AccessInv, AccessLocks, AccessBroken
  <2> QED
    BY <2>1
<1>6. AccessLocks'
  BY <1>4, <1>5, NoneYet, AccessAssumption DEF AccessInv, AccessLocks, A!TypeOK, A!Time
<1>7. AccessGrant'
  BY <1>2, NoneYet, AccessAssumption DEF AccessInv, AccessGrant, A!TypeOK
<1>8. AccessBroken'
  BY <1>5 DEF AccessInv, AccessBroken
<1> QED
  BY <1>3, <1>6, <1>7, <1>8 DEF AccessInv

LEMMA AccessRefused ==
  ASSUME AccessInv, decision' = A!NoDecision, reply' = A!Answer(0), grant' = grant,
         UNCHANGED <<instant, ok, broken, sent, until, staff>>
  PROVE  AccessInv'
<1>1. 0 \in 0..Lease /\ grant \in 0..MaxTime + Lease /\ grant >= grant /\ grant <= Ends /\ grant <= instant + Lease
  BY AccessAssumption DEF AccessInv, AccessGrant, A!TypeOK
<1> QED
  BY <1>1, AccessOver

LEMMA AccessAsk ==
  ASSUME AccessInv, A!Ask
  PROVE  AccessInv'
<1> DEFINE d == [A!NoDecision EXCEPT !.open = TRUE]
<1>1. d \in Decisions /\ d.locked = 0 /\ d.open /\ d.at = 0 /\ d.lease = 0
  <2>1. d.locked = 0 /\ d.at = 0 /\ d.lease = 0 /\ d.open
    BY DEF A!NoDecision
  <2>2. 0 \in 0..5 /\ 0 \in 0..MaxTime /\ 0 \in 0..Lease
    BY AccessAssumption
  <2>3. d \in Decisions
    BY <2>2 DEF A!NoDecision, Decisions
  <2> QED
    BY <2>1, <2>3
<1> HIDE DEF d
<1>2. /\ decision' = d /\ sent' = instant
      /\ UNCHANGED <<instant, ok, broken, grant, reply, until, staff>>
  BY DEF A!Ask, d
<1>3. ~ decision.open /\ decision.locked = 0
  BY DEF A!Ask, AccessInv, AccessLocks
<1>4. A!TypeOK'
  BY <1>1, <1>2, RowOrder DEF AccessInv, A!TypeOK, Decisions, A!Time
<1>5. A!Locked' = {}
  BY <1>1, <1>2 DEF A!Locked
<1>6. AccessLocks'
  BY <1>1, <1>2, <1>5, AccessAssumption DEF AccessInv, AccessLocks, A!TypeOK, A!Time
<1>7. sent = 0 /\ ~ reply.given
  BY DEF A!Ask, AccessInv, AccessGrant
<1>8. AccessGrant'
  BY <1>1, <1>2, <1>7, AccessAssumption DEF AccessInv, AccessGrant, A!TypeOK, A!Time
<1>9. AccessBroken'
  BY <1>2 DEF AccessInv, AccessBroken
<1> QED
  BY <1>4, <1>6, <1>8, <1>9 DEF AccessInv

LEMMA AccessLockNext ==
  ASSUME AccessInv, A!LockNext
  PROVE  AccessInv'
<1> DEFINE n == decision.locked + 1
           r == A!Order[n]
           at == IF r = "card" THEN instant ELSE decision.at
           d == [decision EXCEPT !.locked = n, !.at = at]
<1>1. decision \in Decisions /\ decision.locked \in 0..5 /\ instant \in 0..MaxTime
  BY RowOrder DEF AccessInv, A!TypeOK, Decisions, A!Time
<1>2. decision.open /\ n \in 1..5 /\ A!Free(r) /\ UNCHANGED <<instant, ok, broken, grant, sent, until, staff>>
  BY <1>1, RowOrder DEF A!LockNext
<1>3. CASE ok[r]
  <2>1. decision' = d /\ reply' = reply
    BY <1>3 DEF A!LockNext
  <2>2. at \in 0..MaxTime /\ at <= instant
    BY <1>1 DEF AccessInv, AccessLocks, Decisions
  <2>3. n \in 0..5 /\ decision.locked < 5 /\ decision.locked # 5
    BY <1>1, <1>2
  <2> HIDE DEF at
  <2>4. d \in Decisions /\ d.locked = n /\ d.open = decision.open /\ d.at = at /\ d.lease = decision.lease
    BY <1>1, <2>2, <2>3 DEF Decisions
  <2>5. decision.lease = 0
    BY <1>1, <2>3 DEF AccessInv, AccessLocks, Decisions
  <2> HIDE DEF d
  <2>6. A!TypeOK'
    BY <1>2, <2>1, <2>4, RowOrder DEF AccessInv, A!TypeOK, Decisions
  <2>7. A!Locked' = A!Locked \cup {r}
    <3>1. A!Locked' = {A!Order[i] : i \in 1..n}
      BY <2>1, <2>4 DEF A!Locked
    <3>2. 1..n = (1..decision.locked) \cup {n}
      BY <1>1
    <3> QED
      BY <3>1, <3>2 DEF A!Locked
  <2> HIDE DEF n, r
  <2>8. \A s \in Staff : staff[s] # r
    BY <1>2 DEF A!Free
  <2>9. AccessLocks'
    <3>1. /\ ~ decision'.open => decision'.locked = 0 /\ decision'.lease = 0
          /\ decision'.lease > 0 => decision'.locked = 5
          /\ decision'.at <= instant'
      BY <1>2, <2>1, <2>2, <2>4, <2>5
    <3>2. \A q \in A!Locked' : ok'[q]
      BY <1>2, <1>3, <2>7 DEF AccessInv, AccessLocks
    <3>3. \A s \in Staff : staff'[s] # "none" =>
            staff'[s] \notin A!Locked' /\ \A u \in Staff \ {s} : staff'[u] # staff'[s]
      BY <1>2, <2>7, <2>8 DEF AccessInv, AccessLocks
    <3> QED
      BY <1>2, <3>1, <3>2, <3>3 DEF AccessInv, AccessLocks
  <2>10. AccessGrant'
    BY <1>2, <2>1, <2>4, <2>5 DEF AccessInv, AccessGrant
  <2>11. AccessBroken'
    BY <1>2 DEF AccessInv, AccessBroken
  <2> QED
    BY <2>6, <2>9, <2>10, <2>11 DEF AccessInv
<1>4. CASE ~ ok[r]
  BY <1>2, <1>4, AccessRefused DEF A!LockNext
<1> QED
  BY <1>3, <1>4

LEMMA AccessDecide ==
  ASSUME AccessInv, A!Decide
  PROVE  AccessInv'
<1> DEFINE left == A!Expires - instant
           d == [decision EXCEPT !.lease = left]
<1>1. decision \in Decisions /\ instant \in 1..MaxTime /\ decision.locked = 5 /\ decision.at \in Nat
  BY RowOrder DEF AccessInv, A!TypeOK, Decisions, A!Time, A!Decide
<1>2. UNCHANGED <<instant, ok, broken, grant, sent, until, staff>>
  BY DEF A!Decide
<1>3. CASE A!Expires > instant
  <2>1. decision' = d /\ reply' = reply
    BY <1>3 DEF A!Decide
  <2>2. A!Expires \in Nat /\ A!Expires <= decision.at + Lease
    BY <1>1, AccessAssumption DEF A!Expires, A!Earlier
  <2>3. decision.at <= instant
    BY DEF AccessInv, AccessLocks
  <2>4. left \in 0..Lease /\ left > 0 /\ instant + left = A!Expires
    BY <1>1, <1>3, <2>2, <2>3, AccessAssumption
  <2> HIDE DEF left
  <2>5. /\ d \in Decisions /\ d.locked = 5 /\ d.open = decision.open /\ d.at = decision.at
        /\ d.lease = left
    BY <1>1, <2>4 DEF Decisions
  <2> HIDE DEF d
  <2>6. A!Locked' = A!Locked /\ A!Expires' = A!Expires
    BY <1>1, <2>1, <2>5 DEF A!Locked, A!Expires
  <2>7. A!TypeOK'
    BY <1>2, <2>1, <2>5, RowOrder DEF AccessInv, A!TypeOK, Decisions
  <2>8. AccessLocks'
    <3>1. decision.open
      BY <1>1 DEF AccessInv, AccessLocks
    <3> QED
      BY <1>2, <2>1, <2>5, <2>6, <3>1 DEF AccessInv, AccessLocks
  <2>9. AccessGrant'
    <3>1. sent \in Nat /\ sent <= instant
      BY DEF AccessInv, AccessGrant, A!TypeOK
    <3>2. sent + left <= A!Expires
      BY <1>1, <2>2, <2>4, <3>1, AccessAssumption
    <3> QED
      BY <1>2, <2>1, <2>5, <2>6, <3>2 DEF AccessInv, AccessGrant
  <2>10. AccessBroken'
    BY <1>2 DEF AccessInv, AccessBroken
  <2> QED
    BY <2>7, <2>8, <2>9, <2>10 DEF AccessInv
<1>4. CASE ~ (A!Expires > instant)
  BY <1>2, <1>4, AccessRefused DEF A!Decide
<1> QED
  BY <1>3, <1>4

\* Every row was in order when the grant is saved.
LEMMA AccessCommit ==
  ASSUME AccessInv, A!Commit
  PROVE  AccessInv'
<1>1. /\ decision \in Decisions /\ decision.lease \in 0..Lease /\ decision.lease > 0 /\ decision.at \in Nat
      /\ instant \in 1..MaxTime /\ grant \in 0..MaxTime + Lease
  BY RowOrder DEF AccessInv, A!TypeOK, Decisions, A!Time, A!Commit
<1>2. A!Expires \in Nat /\ A!Expires <= decision.at + Lease /\ A!Expires <= Ends /\ decision.at <= instant
  BY <1>1, AccessAssumption DEF A!Expires, A!Earlier, AccessInv, AccessLocks
<1>3. decision.locked = 5 /\ sent + decision.lease <= A!Expires
  BY <1>1 DEF AccessInv, AccessLocks, AccessGrant
<1>4. /\ decision' = A!NoDecision /\ grant' = (IF A!Expires > grant THEN A!Expires ELSE grant)
      /\ reply' = A!Answer(decision.lease) /\ UNCHANGED <<instant, ok, broken, sent, until, staff>>
  BY DEF A!Commit
<1>5. /\ grant' \in 0..MaxTime + Lease /\ grant' >= grant /\ grant' >= A!Expires
      /\ grant' <= Ends /\ grant' <= instant + Lease
  BY <1>1, <1>2, <1>4, AccessAssumption DEF AccessInv, AccessGrant
<1>6. sent + decision.lease <= grant'
  BY <1>1, <1>2, <1>3, <1>5, AccessAssumption DEF AccessInv, A!TypeOK
<1> QED
  BY <1>1, <1>3, <1>4, <1>5, <1>6, AccessOver

LEMMA AccessReceive ==
  ASSUME AccessInv, A!Receive \/ A!Fail
  PROVE  AccessInv'
<1>1. /\ sent' = 0 /\ reply' = A!NoReply /\ until' \in {0, A!Hold(reply.lease)}
      /\ UNCHANGED <<instant, ok, broken, grant, decision, staff>>
      /\ until' # 0 => reply.given
  BY DEF A!Receive, A!Fail
<1>2. /\ sent \in Nat /\ instant \in 1..MaxTime /\ reply.lease \in 0..Lease /\ grant \in 0..MaxTime + Lease
      /\ decision \in Decisions
  BY RowOrder DEF AccessInv, A!TypeOK, A!Time, Decisions
<1>3. until' \in 0..MaxTime + Lease /\ until' <= grant
  <2>1. CASE until' = 0
    BY <2>1, <1>2, AccessAssumption
  <2>2. CASE until' # 0
    <3>0. until' = A!Hold(reply.lease) /\ reply.given
      BY <1>1, <2>2
    <3>1. reply.lease > instant - sent /\ until' = sent + reply.lease /\ sent <= instant
      BY <2>2, <3>0 DEF A!Hold, AccessInv, AccessGrant
    <3>2. reply.lease > 0
      BY <1>2, <3>1
    <3>3. until' <= grant
      BY <3>0, <3>1, <3>2 DEF AccessInv, AccessGrant
    <3> QED
      BY <1>2, <3>1, <3>3, AccessAssumption
  <2> QED
    BY <2>1, <2>2
<1>4. A!TypeOK'
  BY <1>1, <1>3, NoneYet, AccessAssumption DEF AccessInv, A!TypeOK, Replies
<1>5. A!Locked' = A!Locked /\ A!Expires' = A!Expires
  BY <1>1 DEF A!Locked, A!Expires
<1>6. AccessLocks'
  BY <1>1, <1>5 DEF AccessInv, AccessLocks
<1>7. AccessGrant'
  <2>1. decision.lease > 0 => 0 + decision.lease <= A!Expires
    <3>1. decision.lease \in Nat /\ decision.at \in Nat
      BY <1>2 DEF Decisions
    <3>2. A!Expires \in Nat
      BY <3>1, AccessAssumption DEF A!Expires, A!Earlier
    <3> QED
      BY <1>2, <3>1, <3>2 DEF AccessInv, AccessGrant
  <2> QED
    BY <1>1, <1>2, <1>3, <1>5, <2>1, NoneYet DEF AccessInv, AccessGrant
<1>8. AccessBroken'
  BY <1>1 DEF AccessInv, AccessBroken
<1> QED
  BY <1>4, <1>6, <1>7, <1>8 DEF AccessInv

\* Staff wait until the machine's grants have run out before they stop it.
LEMMA AccessTake ==
  ASSUME AccessInv, NEW s \in Staff, NEW r \in A!Row, A!Take(s, r)
  PROVE  AccessInv'
<1>1. staff \in [Staff -> A!Row \cup {"none"}]
  BY DEF AccessInv, A!TypeOK
<1>2. /\ staff' \in [Staff -> A!Row \cup {"none"}] /\ staff'[s] = r
      /\ \A u \in Staff \ {s} : staff'[u] = staff[u]
  BY <1>1 DEF A!Take
<1>3. UNCHANGED <<instant, ok, broken, grant, decision, reply, sent, until>>
  BY DEF A!Take
<1>4. A!TypeOK'
  BY <1>2, <1>3 DEF AccessInv, A!TypeOK
<1>5. A!Locked' = A!Locked /\ A!Expires' = A!Expires
  BY <1>3 DEF A!Locked, A!Expires
<1>6. \A u \in Staff : staff'[u] # "none" =>
        staff'[u] \notin A!Locked /\ \A w \in Staff \ {u} : staff'[w] # staff'[u]
  <2>1. r \notin A!Locked /\ \A u \in Staff : staff[u] # r
    BY DEF A!Take, A!Free
  <2> QED
    BY <1>2, <2>1 DEF AccessInv, AccessLocks
<1>7. \A u \in Staff : staff'[u] = "machine" /\ ok["machine"] => grant <= instant
  BY <1>2 DEF A!Take, A!Stoppable, AccessInv, AccessLocks
<1>8. AccessLocks' /\ AccessGrant' /\ AccessBroken'
  BY <1>3, <1>5, <1>6, <1>7 DEF AccessInv, AccessLocks, AccessGrant, AccessBroken
<1> QED
  BY <1>4, <1>8 DEF AccessInv

LEMMA AccessAbort ==
  ASSUME AccessInv, NEW s \in Staff, A!Abort(s)
  PROVE  AccessInv'
<1>1. staff \in [Staff -> A!Row \cup {"none"}]
  BY DEF AccessInv, A!TypeOK
<1>2. /\ staff' \in [Staff -> A!Row \cup {"none"}] /\ staff'[s] = "none"
      /\ \A u \in Staff \ {s} : staff'[u] = staff[u]
  BY <1>1 DEF A!Abort
<1>3. UNCHANGED <<instant, ok, broken, grant, decision, reply, sent, until>>
  BY DEF A!Abort
<1>4. A!TypeOK'
  BY <1>2, <1>3 DEF AccessInv, A!TypeOK
<1>5. A!Locked' = A!Locked /\ A!Expires' = A!Expires
  BY <1>3 DEF A!Locked, A!Expires
<1>6. \A u \in Staff : staff'[u] # "none" => u # s /\ staff'[u] = staff[u]
  BY <1>2
<1>7. AccessLocks' /\ AccessGrant' /\ AccessBroken'
  BY <1>2, <1>3, <1>5, <1>6 DEF AccessInv, AccessLocks, AccessGrant, AccessBroken
<1> QED
  BY <1>4, <1>7 DEF AccessInv

LEMMA AccessChange ==
  ASSUME AccessInv, NEW s \in Staff, A!Change(s)
  PROVE  AccessInv'
<1> DEFINE r == staff[s]
<1>1. staff \in [Staff -> A!Row \cup {"none"}] /\ ok \in [A!Row -> BOOLEAN] /\ r \in A!Row /\ instant \in 1..MaxTime
      /\ broken \in 0..MaxTime /\ grant \in 0..MaxTime + Lease
  BY DEF AccessInv, A!TypeOK, A!Change, A!Time
<1>2. /\ staff' \in [Staff -> A!Row \cup {"none"}] /\ staff'[s] = "none"
      /\ \A u \in Staff \ {s} : staff'[u] = staff[u]
  BY <1>1 DEF A!Change
<1>3. /\ ok' \in [A!Row -> BOOLEAN] /\ (ok'[r] <=> ~ ok[r])
      /\ \A q \in A!Row \ {r} : ok'[q] = ok[q]
  BY <1>1 DEF A!Change
<1>4. UNCHANGED <<instant, grant, decision, reply, sent, until>>
  BY DEF A!Change
<1>5. broken' = IF \A q \in A!Row : ok'[q] THEN 0 ELSE IF broken = 0 THEN instant ELSE broken
  BY DEF A!Change
<1>6. broken' \in 0..MaxTime /\ (broken' = 0 <=> \A q \in A!Row : ok'[q])
      /\ (broken' # 0 => broken' = instant \/ broken' = broken)
  <2>1. CASE \A q \in A!Row : ok'[q]
    <3>1. broken' = 0
      BY <2>1, <1>5
    <3> QED
      BY <2>1, <3>1, AccessAssumption
  <2>2. CASE ~ \A q \in A!Row : ok'[q]
    <3>1. broken' = IF broken = 0 THEN instant ELSE broken
      BY <2>2, <1>5
    <3>2. broken' \in 1..MaxTime
      BY <1>1, <3>1
    <3> QED
      BY <1>1, <2>2, <3>1, <3>2
  <2> QED
    BY <2>1, <2>2
<1>7. A!TypeOK'
  BY <1>2, <1>3, <1>4, <1>6 DEF AccessInv, A!TypeOK
<1>8. A!Locked' = A!Locked /\ A!Expires' = A!Expires
  BY <1>4 DEF A!Locked, A!Expires
<1>9. r \notin A!Locked /\ \A u \in Staff \ {s} : staff[u] # r
  BY <1>1, RowOrder DEF AccessInv, AccessLocks, Rows
<1>10. \A q \in A!Locked' : ok'[q]
  <2>1. A!Locked \subseteq A!Row
    BY LockedRows, RowOrder DEF AccessInv
  <2> QED
    BY <1>3, <1>8, <1>9, <2>1 DEF AccessInv, AccessLocks
<1>11. \A u \in Staff : staff'[u] = "machine" /\ ok'["machine"] => grant <= instant
  <2> SUFFICES ASSUME NEW u \in Staff, staff'[u] = "machine", ok'["machine"]
               PROVE  grant <= instant
    OBVIOUS
  <2>1. u # s /\ staff[u] = "machine" /\ "machine" \in A!Row
    BY <1>2, RowOrder DEF Rows
  <2>2. r # "machine" /\ ok["machine"]
    BY <1>3, <1>9, <2>1
  <2> QED
    BY <2>1, <2>2 DEF AccessInv, AccessLocks
<1>12. AccessLocks'
  <2>1. \A u \in Staff : staff'[u] # "none" => u # s /\ staff'[u] = staff[u]
    BY <1>2
  <2> QED
    BY <1>4, <1>8, <1>10, <1>11, <2>1, <1>2 DEF AccessInv, AccessLocks
<1>13. AccessGrant'
  BY <1>4, <1>8 DEF AccessInv, AccessGrant
<1>14. AccessBroken'
  <2>1. ~ ok'["machine"] => grant <= instant
    <3>1. CASE r = "machine"
      BY <1>1, <1>3, <3>1 DEF AccessInv, AccessLocks
    <3>2. CASE r # "machine"
      <4>1. "machine" \in A!Row
        BY RowOrder DEF Rows
      <4>2. ok'["machine"] = ok["machine"]
        BY <1>3, <3>2, <4>1
      <4> QED
        BY <4>2 DEF AccessInv, AccessBroken
    <3> QED
      BY <3>1, <3>2
  <2>2. broken' # 0 => grant <= broken' + Lease
    <3>1. CASE broken = 0 \/ broken' # broken
      BY <3>1, <1>5, <1>6 DEF AccessInv, AccessGrant
    <3>2. CASE broken # 0 /\ broken' = broken
      BY <3>2 DEF AccessInv, AccessBroken
    <3> QED
      BY <3>1, <3>2
  <2> QED
    BY <1>4, <1>6, <2>1, <2>2 DEF AccessBroken
<1> QED
  BY <1>7, <1>12, <1>13, <1>14 DEF AccessInv

LEMMA AccessTick ==
  ASSUME AccessInv, A!Tick
  PROVE  AccessInv'
<1>1. /\ instant \in 1..MaxTime /\ instant' = instant + 1 /\ instant' \in 1..MaxTime
      /\ UNCHANGED <<ok, broken, grant, decision, reply, sent, until, staff>>
  BY AccessAssumption DEF AccessInv, A!TypeOK, A!Time, A!Tick
<1>2. decision \in Decisions /\ sent \in Nat /\ grant \in Nat
  BY RowOrder, AccessAssumption DEF AccessInv, A!TypeOK, Decisions
<1>3. A!TypeOK'
  BY <1>1 DEF AccessInv, A!TypeOK, A!Time
<1>4. A!Locked' = A!Locked /\ A!Expires' = A!Expires
  BY <1>1 DEF A!Locked, A!Expires
<1>5. decision.at \in Nat
  BY <1>2 DEF Decisions
<1>6. decision.at <= instant' /\ sent <= instant' /\ grant <= instant' + Lease
      /\ (grant <= instant => grant <= instant')
  BY <1>1, <1>2, <1>5, AccessAssumption DEF AccessInv, AccessLocks, AccessGrant
<1>7. AccessLocks' /\ AccessGrant' /\ AccessBroken'
  BY <1>1, <1>4, <1>6 DEF AccessInv, AccessLocks, AccessGrant, AccessBroken
<1> QED
  BY <1>3, <1>7 DEF AccessInv

LEMMA AccessInit == A!Init => AccessInv
<1> SUFFICES ASSUME A!Init PROVE AccessInv
  OBVIOUS
<1>1. A!TypeOK
  BY NoneYet, RowOrder, AccessAssumption DEF A!Init, A!TypeOK, A!Time, Decisions, Replies
<1>2. A!Locked = {} /\ \A r \in A!Row : ok[r]
  BY NoneYet DEF A!Init, A!Locked
<1>3. "machine" \in A!Row
  BY RowOrder DEF Rows
<1>4. AccessLocks /\ AccessGrant /\ AccessBroken
  BY <1>2, <1>3, NoneYet, AccessAssumption DEF A!Init, AccessLocks, AccessGrant, AccessBroken
<1> QED
  BY <1>1, <1>4 DEF AccessInv

LEMMA AccessNext == AccessInv /\ [A!Next]_A!vars => AccessInv'
<1> SUFFICES ASSUME AccessInv, [A!Next]_A!vars PROVE AccessInv'
  OBVIOUS
<1>1. CASE A!TimeOut
  BY <1>1, AccessRefused DEF A!TimeOut
<1>2. ASSUME NEW s \in Staff, A!Change(s) \/ A!Abort(s) \/ \E r \in A!Row : A!Take(s, r)
      PROVE  AccessInv'
  BY <1>2, AccessChange, AccessAbort, AccessTake
<1>3. CASE UNCHANGED A!vars
  <2>1. A!Locked' = A!Locked /\ A!Expires' = A!Expires
    BY <1>3 DEF A!vars, A!Locked, A!Expires
  <2> QED
    BY <1>3, <2>1 DEF A!vars, AccessInv, A!TypeOK, AccessLocks, AccessGrant, AccessBroken
<1> QED
  BY <1>1, <1>2, <1>3, AccessAsk, AccessLockNext, AccessDecide, AccessCommit, AccessReceive, AccessTick DEF A!Next

\* What the invariant says of the relay.
LEMMA AccessPower == AccessInv => A!TypeOK /\ A!StoppedIsOff /\ A!RevocationBites
<1> SUFFICES ASSUME AccessInv PROVE A!StoppedIsOff /\ A!RevocationBites
  BY DEF AccessInv
<1>1. instant \in Nat /\ until \in Nat /\ grant \in Nat /\ broken \in Nat /\ until <= grant
  BY AccessAssumption DEF AccessInv, A!TypeOK, A!Time, AccessGrant
<1> QED
  BY <1>1, AccessAssumption DEF AccessInv, AccessGrant, AccessBroken, A!StoppedIsOff, A!RevocationBites, A!On

\* A machine that is out of service has no power, and whatever is taken away,
\* the relay is off one lease later and at the reservation's end.
THEOREM PowerFollows == A!Spec => [](A!StoppedIsOff /\ A!RevocationBites)
  BY AccessInit, AccessNext, AccessPower, PTL DEF A!Spec

-----------------------------------------------------------------------------
(* The bridge.                                                             *)

CommandRows == [session : 0..MaxTrouble + 1, counter : Nat, scan : 0..MaxScan, allowed : BOOLEAN,
            until : Nat, for : Tx \cup {None}, end : 0..Ticks + Lease]

\* What was read of a tap is still so, unless it was decided or another came.
BridgeReads(s, n, c) ==
  /\ s <= reader.session
  /\ s = reader.session => n <= reader.scan
  /\ s = reader.session /\ n = reader.scan /\ c # None => reader.card \in {c, None}

BridgeTypes ==
  /\ B!TypeOK
  /\ wire \subseteq CommandRows
  /\ trouble \in 0..MaxTrouble /\ reader.session <= trouble + 1
  /\ reader.began <= clock
  /\ power.card = power.for /\ power.until <= power.end

\* A view tells the reader's own clock, no later than it was received.
BridgeView ==
  bridge.at # "top" =>
    /\ BridgeReads(view.tap.session, view.tap.scan, view.card)
    /\ view.tap.session = reader.session =>
         reader.began + view.uptime <= (IF bridge.at = "answered" THEN clock ELSE view.received)
    /\ bridge.at # "answered" => view.received <= clock /\ bridge.session = view.tap.session

\* A decision is for a card that waited, and the server's lease outlasts it.
BridgeJob ==
  deciding.at \notin {"none", "failed"} =>
    /\ deciding.card # None
    /\ BridgeReads(deciding.tap.session, deciding.tap.scan, deciding.card)
    /\ deciding.at = "asked" => deciding.since <= clock
    /\ deciding.at = "answered" /\ deciding.allowed => deciding.since + Lease <= deciding.end
    /\ deciding.at = "done" /\ deciding.allowed => deciding.until <= deciding.end

\* So does what is sent to the reader.
BridgeWire ==
  \A m \in wire :
    /\ BridgeReads(m.session, m.scan, m.for)
    /\ m.allowed => m.for # None
    /\ m.allowed /\ m.session = reader.session =>
         reader.began + m.until <= m.end /\ reader.began + m.until <= Ticks + MaxGrant

BridgeInv == BridgeTypes /\ BridgeView /\ BridgeJob /\ BridgeWire

ViewRows == [tap : B!Taps, card : Tx \cup {None}, uptime : B!Time, counter : Nat, received : B!Time]
JobRows == [at : {"none", "asked", "answered", "done", "failed"}, tap : B!Taps, card : Tx \cup {None}, since : B!Time,
         allowed : BOOLEAN, until : 0..Ticks + Lease, end : 0..Ticks + Lease]
LoopRows == [at : {"top", "answered", "judge", "submit"}, session : 0..MaxTrouble + 1, counter : Nat,
          scan : 0..MaxScan, handled : B!Taps, ok : BOOLEAN]

\* While the reader is the same, what was read of it stays.
LEMMA BridgeStill ==
  ASSUME BridgeTypes, UNCHANGED reader, NEW s, NEW n, NEW c, BridgeReads(s, n, c)
  PROVE  BridgeReads(s, n, c)'
  BY DEF BridgeReads

LEMMA BridgeStart == B!Init => BridgeInv
<1> SUFFICES ASSUME B!Init PROVE BridgeInv
  OBVIOUS
<1>1. BridgeTypes
  BY LinkAssumption DEF B!Init, BridgeTypes, B!TypeOK, B!Time, B!Taps, B!NoTap, B!NoJob, B!NoPower, B!Started, B!NoView
<1> QED
  BY <1>1 DEF B!Init, BridgeInv, BridgeView, BridgeJob, BridgeWire, B!Started, B!NoJob

\* The reader's own steps.
LEMMA BridgeTick == ASSUME BridgeInv, B!Tick PROVE BridgeInv'
<1>1. /\ clock' = clock + 1 /\ clock' \in B!Time /\ clock \in Nat
      /\ power' \in {power, B!NoPower}
      /\ UNCHANGED <<reader, wire, bridge, view, deciding, trouble>>
  BY LinkAssumption DEF B!Tick, BridgeInv, BridgeTypes, B!TypeOK, B!Time
<1>2. BridgeTypes'
  <2>1. B!TypeOK'
    BY <1>1, LinkAssumption DEF BridgeInv, BridgeTypes, B!TypeOK, B!NoPower, B!Time
  <2>2. reader.began \in Nat
    BY <1>1, LinkAssumption DEF BridgeInv, BridgeTypes, B!TypeOK, B!Time
  <2> QED
    BY <1>1, <2>1, <2>2 DEF BridgeInv, BridgeTypes, B!NoPower
<1>3. BridgeView'
  <2>1. reader.began \in Nat /\ view.uptime \in Nat /\ view.received \in Nat
    BY <1>1, LinkAssumption DEF BridgeInv, BridgeTypes, B!TypeOK, B!Time
  <2> QED
    BY <1>1, <2>1 DEF BridgeInv, BridgeView, BridgeReads
<1>4. deciding.since \in Nat
  BY LinkAssumption DEF BridgeInv, BridgeTypes, B!TypeOK, B!Time
<1>5. BridgeJob' /\ BridgeWire'
  BY <1>1, <1>4 DEF BridgeInv, BridgeJob, BridgeWire, BridgeReads
<1> QED
  BY <1>2, <1>3, <1>5 DEF BridgeInv

\* A newer tap, or another boot: what was read before is over.
LEMMA BridgeTap == ASSUME BridgeInv, NEW c \in Tx, B!Tap(c) PROVE BridgeInv'
<1>0. reader \in [session : 1..MaxTrouble + 1, began : B!Time, scan : 0..MaxScan, card : Tx \cup {None}, counter : Nat]
  BY DEF BridgeInv, BridgeTypes, B!TypeOK
<1>1. /\ reader' = [reader EXCEPT !.scan = reader.scan + 1, !.card = c]
      /\ reader.scan + 1 \in 0..MaxScan
      /\ UNCHANGED <<clock, power, wire, bridge, view, deciding, trouble>>
  BY <1>0, LinkAssumption DEF B!Tap
<1>2. reader' \in [session : 1..MaxTrouble + 1, began : B!Time, scan : 0..MaxScan, card : Tx \cup {None}, counter : Nat]
  BY <1>0, <1>1
<1>3. reader'.session = reader.session /\ reader'.began = reader.began /\ reader'.scan = reader.scan + 1
  BY <1>0, <1>1
<1>4. BridgeTypes'
  BY <1>1, <1>2, <1>3 DEF BridgeInv, BridgeTypes, B!TypeOK
<1>5. ASSUME NEW s, NEW n \in Nat, NEW k, BridgeReads(s, n, k) PROVE BridgeReads(s, n, k)'
  BY <1>0, <1>3, <1>5 DEF BridgeReads
<1>6. view.tap.scan \in Nat /\ deciding.tap.scan \in Nat /\ \A m \in wire : m.scan \in Nat
  BY DEF BridgeInv, BridgeTypes, B!TypeOK, B!Taps, CommandRows
<1>7. BridgeView'
  <2>1. BridgeReads(view.tap.session, view.tap.scan, view.card) => BridgeReads(view.tap.session, view.tap.scan, view.card)'
    BY <1>1, <1>5, <1>6
  <2> QED
    BY <1>1, <1>3, <2>1 DEF BridgeInv, BridgeView
<1>8. BridgeJob'
  <2>1. BridgeReads(deciding.tap.session, deciding.tap.scan, deciding.card) => BridgeReads(deciding.tap.session, deciding.tap.scan, deciding.card)'
    BY <1>1, <1>5, <1>6
  <2> QED
    BY <1>1, <1>3, <2>1 DEF BridgeInv, BridgeJob
<1>9. BridgeWire'
  BY <1>1, <1>3, <1>5, <1>6 DEF BridgeInv, BridgeWire
<1> QED
  BY <1>4, <1>7, <1>8, <1>9 DEF BridgeInv

LEMMA BridgeBoot == ASSUME BridgeInv, B!Boot PROVE BridgeInv'
<1>0. reader \in [session : 1..MaxTrouble + 1, began : B!Time, scan : 0..MaxScan, card : Tx \cup {None}, counter : Nat]
  BY DEF BridgeInv, BridgeTypes, B!TypeOK
<1>1. /\ reader' = [session |-> reader.session + 1, began |-> clock, scan |-> 0, card |-> None, counter |-> 0]
      /\ power' = B!NoPower /\ wire' = {}
      /\ trouble < MaxTrouble /\ trouble' = trouble + 1
      /\ UNCHANGED <<clock, bridge, view, deciding>>
  BY DEF B!Boot
<1>2. clock \in Nat /\ trouble \in Nat /\ reader.session \in Nat /\ reader.session <= trouble + 1
  BY <1>0, LinkAssumption DEF BridgeInv, BridgeTypes, B!TypeOK, B!Time
<1>3. BridgeTypes'
  BY <1>0, <1>1, <1>2, LinkAssumption DEF BridgeInv, BridgeTypes, B!TypeOK, B!NoPower, B!Time
<1>4. view.tap.session \in Nat /\ deciding.tap.session \in Nat
  BY DEF BridgeInv, BridgeTypes, B!TypeOK, B!Taps
<1>5. BridgeView' /\ BridgeJob'
  BY <1>1, <1>2, <1>4 DEF BridgeInv, BridgeView, BridgeJob, BridgeReads
<1>6. BridgeWire'
  BY <1>1 DEF BridgeWire
<1> QED
  BY <1>3, <1>5, <1>6 DEF BridgeInv

LEMMA BridgeAnswer == ASSUME BridgeInv, B!Answer PROVE BridgeInv'
<1> DEFINE seen == [view EXCEPT !.tap = [session |-> reader.session, scan |-> reader.scan], !.card = reader.card,
                                !.uptime = clock - reader.began, !.counter = reader.counter]
<1>1. /\ bridge.at = "top" /\ view' = seen
      /\ bridge' = [bridge EXCEPT !.at = "answered"]
      /\ UNCHANGED <<clock, reader, power, wire, deciding, trouble>>
  BY DEF B!Answer
<1>0. /\ reader \in [session : 1..MaxTrouble + 1, began : B!Time, scan : 0..MaxScan, card : Tx \cup {None}, counter : Nat]
      /\ view \in ViewRows /\ bridge \in LoopRows /\ clock \in B!Time /\ reader.began <= clock
  BY DEF BridgeInv, BridgeTypes, B!TypeOK, ViewRows, LoopRows
<1>2. clock - reader.began \in B!Time /\ reader.session \in Nat /\ reader.scan \in Nat /\ reader.began \in Nat /\ clock \in Nat
  BY <1>0, LinkAssumption DEF B!Time
<1>3. /\ seen \in ViewRows /\ seen.tap = [session |-> reader.session, scan |-> reader.scan] /\ seen.card = reader.card
      /\ seen.uptime = clock - reader.began
  <2>1. [session |-> reader.session, scan |-> reader.scan] \in B!Taps /\ reader.card \in Tx \cup {None} /\ reader.counter \in Nat
    BY <1>0, LinkAssumption DEF B!Taps
  <2>2. view \in ViewRows
    BY <1>0
  <2> QED
    BY <1>2, <2>1, <2>2 DEF ViewRows
<1>4. bridge' \in LoopRows /\ bridge'.at = "answered"
  BY <1>0, <1>1 DEF LoopRows
<1> HIDE DEF seen
<1>5. BridgeTypes'
  BY <1>1, <1>3, <1>4 DEF BridgeInv, BridgeTypes, B!TypeOK, ViewRows, LoopRows
<1>6. BridgeView'
  BY <1>1, <1>2, <1>3, <1>4 DEF BridgeView, BridgeReads
<1>7. BridgeJob' /\ BridgeWire'
  BY <1>1 DEF BridgeInv, BridgeJob, BridgeWire, BridgeReads
<1> QED
  BY <1>5, <1>6, <1>7 DEF BridgeInv

\* A decision that fits the tap that waits is for its card, and over in time.
LEMMA BridgeDeliver == ASSUME BridgeInv, NEW m \in wire, B!Deliver(m) PROVE BridgeInv'
<1> DEFINE new == m.session = reader.session /\ m.counter > reader.counter
           fits == new /\ m.scan = reader.scan /\ reader.card # None
           grants == fits /\ m.allowed /\ reader.began + m.until > clock
           given == [card |-> reader.card, for |-> m.for, until |-> reader.began + m.until, end |-> m.end]
<1>0. /\ reader \in [session : 1..MaxTrouble + 1, began : B!Time, scan : 0..MaxScan, card : Tx \cup {None}, counter : Nat]
      /\ power \in [card : Tx \cup {None}, for : Tx \cup {None}, until : 0..Ticks + MaxGrant, end : 0..Ticks + Lease]
      /\ m \in CommandRows /\ reader.began \in Nat
  BY LinkAssumption DEF BridgeInv, BridgeTypes, B!TypeOK, B!Time
<1>1. /\ wire' = wire \ {m}
      /\ reader' = [reader EXCEPT !.counter = IF new THEN m.counter ELSE reader.counter,
                                  !.card = IF fits THEN None ELSE reader.card]
      /\ power' = IF grants THEN given ELSE power
      /\ UNCHANGED <<clock, bridge, view, deciding, trouble>>
  BY <1>0 DEF B!Deliver
<1>2. /\ reader' \in [session : 1..MaxTrouble + 1, began : B!Time, scan : 0..MaxScan, card : Tx \cup {None}, counter : Nat]
      /\ reader'.session = reader.session /\ reader'.began = reader.began /\ reader'.scan = reader.scan
      /\ reader'.card \in {reader.card, None}
  BY <1>0, <1>1 DEF CommandRows
<1>3. /\ power' \in [card : Tx \cup {None}, for : Tx \cup {None}, until : 0..Ticks + MaxGrant, end : 0..Ticks + Lease]
      /\ power'.card = power'.for /\ power'.until <= power'.end
  <2>1. CASE grants
    <3>1. m.for = reader.card /\ reader.began + m.until <= m.end /\ reader.began + m.until <= Ticks + MaxGrant
      BY <2>1 DEF BridgeInv, BridgeWire, BridgeReads
    <3>2. m.until \in Nat /\ reader.began + m.until \in 0..Ticks + MaxGrant
      BY <1>0, <3>1, LinkAssumption DEF CommandRows
    <3> QED
      BY <1>0, <1>1, <2>1, <3>1, <3>2 DEF CommandRows
  <2>2. CASE ~ grants
    BY <1>0, <1>1, <2>2 DEF BridgeInv, BridgeTypes
  <2> QED
    BY <2>1, <2>2
<1> HIDE DEF new, fits, grants, given
<1>4. BridgeTypes'
  BY <1>1, <1>2, <1>3 DEF BridgeInv, BridgeTypes, B!TypeOK
<1>5. ASSUME NEW s, NEW n, NEW k, BridgeReads(s, n, k) PROVE BridgeReads(s, n, k)'
  BY <1>2, <1>5 DEF BridgeReads
<1>6. BridgeView'
  <2>1. BridgeReads(view.tap.session, view.tap.scan, view.card) => BridgeReads(view.tap.session, view.tap.scan, view.card)'
    BY <1>1, <1>5
  <2> QED
    BY <1>1, <1>2, <2>1 DEF BridgeInv, BridgeView
<1>7. BridgeJob'
  <2>1. BridgeReads(deciding.tap.session, deciding.tap.scan, deciding.card) => BridgeReads(deciding.tap.session, deciding.tap.scan, deciding.card)'
    BY <1>1, <1>5
  <2> QED
    BY <1>1, <1>2, <2>1 DEF BridgeInv, BridgeJob
<1>8. BridgeWire'
  BY <1>1, <1>2, <1>5 DEF BridgeInv, BridgeWire
<1> QED
  BY <1>4, <1>6, <1>7, <1>8 DEF BridgeInv
-----------------------------------------------------------------------------
\* The loop.

LEMMA BridgeRows ==
  ASSUME BridgeInv
  PROVE  /\ view \in ViewRows /\ bridge \in LoopRows /\ deciding \in JobRows /\ clock \in B!Time
         /\ reader \in [session : 1..MaxTrouble + 1, began : B!Time, scan : 0..MaxScan, card : Tx \cup {None}, counter : Nat]
  BY DEF BridgeInv, BridgeTypes, B!TypeOK, ViewRows, LoopRows, JobRows

\* A step that leaves the reader alone.
LEMMA BridgeLoop ==
  ASSUME BridgeInv, UNCHANGED <<clock, reader, power>>,
         view' \in ViewRows, bridge' \in LoopRows, deciding' \in JobRows, wire' \subseteq CommandRows,
         trouble' \in 0..MaxTrouble, trouble' >= trouble
  PROVE  BridgeTypes'
<1>1. reader.session \in Nat /\ trouble \in Nat /\ trouble' \in Nat
  BY LinkAssumption DEF BridgeInv, BridgeTypes, B!TypeOK
<1> QED
  BY <1>1 DEF BridgeInv, BridgeTypes, B!TypeOK, ViewRows, LoopRows, JobRows

LEMMA BridgeIdle == B!NoView \in ViewRows /\ B!NoJob \in JobRows /\ B!Started \in LoopRows
  BY LinkAssumption DEF ViewRows, JobRows, LoopRows, B!NoView, B!NoJob, B!NoTap, B!Started, B!Taps, B!Time

LEMMA BridgeReceive == ASSUME BridgeInv, B!Receive PROVE BridgeInv'
<1> DEFINE same == bridge.session = view.tap.session
<1>0. /\ bridge.at = "answered" /\ UNCHANGED <<clock, reader, power, wire, deciding, trouble>>
      /\ view' = IF bridge'.at = "top" THEN B!NoView ELSE [view EXCEPT !.received = clock]
  BY DEF B!Receive
<1>1. \/ bridge' = [bridge EXCEPT !.at = "top"]
      \/ \E well \in BOOLEAN, counter \in Nat, handled \in B!Taps :
           bridge' = [bridge EXCEPT !.at = "judge", !.session = view.tap.session, !.scan = view.tap.scan, !.ok = well,
                                    !.counter = counter, !.handled = handled]
  <2>1. view.counter \in Nat /\ bridge.counter \in Nat /\ bridge.handled \in B!Taps /\ B!NoTap \in B!Taps
    BY BridgeRows, LinkAssumption DEF ViewRows, LoopRows, B!Taps, B!NoTap
  <2> QED
    BY <2>1 DEF B!Receive
<1>2. bridge' \in LoopRows /\ bridge'.at \in {"top", "judge"} /\ (bridge'.at = "judge" => bridge'.session = view.tap.session)
  <2>1. CASE bridge' = [bridge EXCEPT !.at = "top"]
    BY <2>1, BridgeRows DEF LoopRows
  <2>2. ASSUME NEW well \in BOOLEAN, NEW counter \in Nat, NEW handled \in B!Taps,
               bridge' = [bridge EXCEPT !.at = "judge", !.session = view.tap.session, !.scan = view.tap.scan, !.ok = well,
                                        !.counter = counter, !.handled = handled]
        PROVE  bridge' \in LoopRows /\ bridge'.at = "judge" /\ bridge'.session = view.tap.session
    <3>1. view.tap.session \in 0..MaxTrouble + 1 /\ view.tap.scan \in 0..MaxScan
      BY BridgeRows DEF ViewRows, B!Taps
    <3>2. bridge \in LoopRows
      BY BridgeRows
    <3> QED
      BY <2>2, <3>1, <3>2 DEF LoopRows
  <2> QED
    BY <1>1, <2>1, <2>2
<1>3. view' \in ViewRows
  BY <1>0, BridgeRows, BridgeIdle DEF ViewRows
<1>4. BridgeTypes'
  BY <1>0, <1>2, <1>3, BridgeLoop, BridgeRows DEF BridgeInv, BridgeTypes
<1>5. BridgeView'
  <2>1. CASE bridge'.at = "judge"
    <3>1. /\ view'.tap = view.tap /\ view'.card = view.card /\ view'.uptime = view.uptime /\ view'.received = clock
          /\ clock \in Nat
      BY <1>0, <2>1, BridgeRows, LinkAssumption DEF ViewRows, B!Time
    <3>2. BridgeReads(view.tap.session, view.tap.scan, view.card)'
      BY <1>0, <3>1 DEF BridgeInv, BridgeView, BridgeReads
    <3> QED
      BY <1>0, <1>2, <2>1, <3>1, <3>2 DEF BridgeInv, BridgeView
  <2> QED
    BY <1>2, <2>1 DEF BridgeView
<1>6. BridgeJob' /\ BridgeWire'
  BY <1>0 DEF BridgeInv, BridgeJob, BridgeWire, BridgeReads
<1> QED
  BY <1>4, <1>5, <1>6 DEF BridgeInv

LEMMA BridgeFails == ASSUME BridgeInv, B!Fails PROVE BridgeInv'
<1>1. bridge' \in LoopRows /\ bridge'.at = "top"
  BY BridgeRows DEF B!Fails, LoopRows
<1>2. trouble' \in 0..MaxTrouble /\ trouble' >= trouble
  BY LinkAssumption DEF B!Fails, BridgeInv, BridgeTypes
<1>3. BridgeTypes'
  BY <1>1, <1>2, BridgeLoop, BridgeRows, BridgeIdle DEF B!Fails, BridgeInv, BridgeTypes
<1>4. BridgeView' /\ BridgeJob' /\ BridgeWire'
  BY <1>1 DEF B!Fails, BridgeInv, BridgeView, BridgeJob, BridgeWire, BridgeReads
<1> QED
  BY <1>3, <1>4 DEF BridgeInv

\* What is sent of a decision is for the card that it was about, and grants
\* nothing beyond the lease.
LEMMA BridgeMessage ==
  ASSUME BridgeInv, bridge.at = "judge", B!Wanted, ~ B!Late
  PROVE  /\ B!Message \in CommandRows
         /\ BridgeReads(B!Message.session, B!Message.scan, B!Message.for)
         /\ B!Message.allowed => B!Message.for # None
         /\ B!Message.allowed /\ B!Message.session = reader.session =>
              reader.began + B!Message.until <= B!Message.end /\ reader.began + B!Message.until <= Ticks + MaxGrant
<1>0. /\ view \in ViewRows /\ bridge \in LoopRows /\ deciding \in JobRows /\ clock \in Nat
      /\ view.uptime \in Nat /\ view.received \in Nat /\ deciding.until \in Nat /\ deciding.end \in Nat /\ reader.began \in Nat
      /\ clock <= Ticks
  BY BridgeRows, LinkAssumption DEF ViewRows, JobRows, B!Time
<1>1. /\ deciding.at = "done" /\ deciding.tap = view.tap /\ deciding.card # None
      /\ BridgeReads(deciding.tap.session, deciding.tap.scan, deciding.card)
      /\ deciding.allowed => deciding.until <= deciding.end
      /\ view.received <= clock /\ bridge.session = view.tap.session
      /\ view.tap.session = reader.session => reader.began + view.uptime <= view.received
  BY DEF BridgeInv, BridgeView, BridgeJob, B!Wanted, B!Current
<1>2. deciding.allowed => deciding.until > clock
  BY <1>0, <1>1 DEF B!Late
<1>3. deciding.allowed => /\ B!Grant \in Nat /\ B!Grant <= deciding.until - clock /\ B!Grant <= MaxGrant
                          /\ B!Elapsed \in Nat /\ B!Elapsed = clock - view.received
  BY <1>0, <1>1, <1>2, LinkAssumption DEF B!Grant, B!Elapsed
<1>4. /\ B!Message.session = deciding.tap.session /\ B!Message.scan = deciding.tap.scan /\ B!Message.allowed = deciding.allowed
      /\ B!Message.counter = bridge.counter + 1 /\ B!Message.end = deciding.end
      /\ B!Message.for = (IF deciding.allowed THEN deciding.card ELSE None)
      /\ B!Message.until = (IF deciding.allowed THEN view.uptime + B!Elapsed + B!Grant ELSE 0)
  BY <1>1 DEF B!Message
<1>5. B!Message \in CommandRows
  <2>1. bridge.session \in 0..MaxTrouble + 1 /\ view.tap.scan \in 0..MaxScan /\ bridge.counter + 1 \in Nat
    BY <1>0 DEF ViewRows, LoopRows, B!Taps
  <2>2. deciding.allowed \in BOOLEAN /\ deciding.card \in Tx \cup {None} /\ deciding.end \in 0..Ticks + Lease
    BY <1>0 DEF JobRows
  <2>3. (IF deciding.allowed THEN view.uptime + B!Elapsed + B!Grant ELSE 0) \in Nat
    BY <1>0, <1>3
  <2>4. (IF deciding.allowed THEN deciding.card ELSE None) \in Tx \cup {None}
    BY <2>2
  <2> QED
    BY <2>1, <2>2, <2>3, <2>4 DEF B!Message, CommandRows
<1>6. ASSUME deciding.allowed, deciding.tap.session = reader.session
      PROVE  reader.began + B!Message.until <= deciding.end /\ reader.began + B!Message.until <= Ticks + MaxGrant
  <2>1. reader.began + view.uptime <= view.received
    BY <1>1, <1>6
  <2>2. reader.began + B!Message.until <= clock + B!Grant
    BY <1>0, <1>3, <1>4, <1>6, <2>1
  <2> QED
    BY <1>0, <1>1, <1>3, <1>6, <2>2, <1>4, LinkAssumption
<1>7. BridgeReads(B!Message.session, B!Message.scan, B!Message.for)
  BY <1>1, <1>4 DEF BridgeReads
<1> QED
  BY <1>1, <1>4, <1>5, <1>6, <1>7

LEMMA BridgeJudge == ASSUME BridgeInv, B!Judge PROVE BridgeInv'
<1>1. bridge.at = "judge" /\ UNCHANGED <<clock, reader, power, view, trouble>>
  BY DEF B!Judge
<1>2. bridge' \in LoopRows /\ bridge'.at = "submit" /\ bridge'.session = bridge.session
  <2>1. bridge \in LoopRows /\ bridge.counter + 1 \in Nat
    BY BridgeRows DEF LoopRows
  <2>2. \E n \in Nat, well \in BOOLEAN : bridge' = [bridge EXCEPT !.at = "submit", !.counter = n, !.ok = well]
    <3>1. PICK n \in {bridge.counter, bridge.counter + 1} :
            bridge' = [bridge EXCEPT !.at = "submit", !.counter = n,
                                     !.ok = bridge.ok /\ deciding.at # "failed" /\ ~ (B!Wanted /\ B!Late)]
      BY DEF B!Judge
    <3>2. (bridge.ok /\ deciding.at # "failed" /\ ~ (B!Wanted /\ B!Late)) \in BOOLEAN
      OBVIOUS
    <3> QED
      BY <2>1, <3>1, <3>2 DEF LoopRows
  <2> QED
    BY <2>1, <2>2 DEF LoopRows
<1>3. deciding' \in {deciding, B!NoJob} /\ deciding' \in JobRows
  BY BridgeRows, BridgeIdle DEF B!Judge
<1>4. wire' = wire \/ (B!Wanted /\ ~ B!Late /\ wire' = wire \cup {B!Message})
  BY DEF B!Judge
<1>5. wire' \subseteq CommandRows
  BY <1>1, <1>4, BridgeMessage DEF BridgeInv, BridgeTypes
<1>6. BridgeTypes'
  BY <1>1, <1>2, <1>3, <1>5, BridgeLoop, BridgeRows DEF BridgeInv, BridgeTypes
<1>7. BridgeView'
  <2>1. BridgeReads(view.tap.session, view.tap.scan, view.card)'
    BY <1>1 DEF BridgeInv, BridgeView, BridgeReads
  <2> QED
    BY <1>1, <1>2, <2>1 DEF BridgeInv, BridgeView
<1>8. BridgeJob'
  BY <1>1, <1>3 DEF BridgeInv, BridgeJob, BridgeReads, B!NoJob
<1>9. BridgeWire'
  <2>1. ASSUME NEW m \in wire'
        PROVE  /\ BridgeReads(m.session, m.scan, m.for)
               /\ m.allowed => m.for # None
               /\ m.allowed /\ m.session = reader.session =>
                    reader.began + m.until <= m.end /\ reader.began + m.until <= Ticks + MaxGrant
    <3>1. CASE m \in wire
      BY <3>1 DEF BridgeInv, BridgeWire
    <3>2. CASE m \notin wire
      BY <3>2, <2>1, <1>1, <1>4, BridgeMessage
    <3> QED
      BY <3>1, <3>2
  <2> QED
    BY <1>1, <2>1 DEF BridgeWire, BridgeReads
<1> QED
  BY <1>6, <1>7, <1>8, <1>9 DEF BridgeInv

LEMMA BridgeUnacknowledged == ASSUME BridgeInv, B!Unacknowledged PROVE BridgeInv'
<1>1. /\ bridge.at = "judge" /\ B!Wanted /\ ~ B!Late /\ UNCHANGED <<clock, reader, power>>
      /\ wire' = wire \cup {B!Message} /\ deciding' \in {deciding, B!NoJob} /\ view' = B!NoView
  BY DEF B!Unacknowledged
<1>2. bridge' \in LoopRows /\ bridge'.at = "top"
  <2>1. bridge \in LoopRows /\ bridge.counter + 1 \in Nat
    BY BridgeRows DEF LoopRows
  <2> QED
    BY <2>1 DEF B!Unacknowledged, LoopRows
<1>3. trouble' \in 0..MaxTrouble /\ trouble' >= trouble
  BY LinkAssumption DEF B!Unacknowledged, BridgeInv, BridgeTypes
<1>4. wire' \subseteq CommandRows /\ deciding' \in JobRows /\ view' \in ViewRows
  BY <1>1, BridgeMessage, BridgeRows, BridgeIdle DEF BridgeInv, BridgeTypes
<1>5. BridgeTypes' /\ BridgeView'
  BY <1>1, <1>2, <1>3, <1>4, BridgeLoop DEF BridgeView
<1>6. BridgeJob'
  BY <1>1 DEF BridgeInv, BridgeJob, BridgeReads, B!NoJob
<1>7. BridgeWire'
  <2>1. ASSUME NEW m \in wire'
        PROVE  /\ BridgeReads(m.session, m.scan, m.for)
               /\ m.allowed => m.for # None
               /\ m.allowed /\ m.session = reader.session =>
                    reader.began + m.until <= m.end /\ reader.began + m.until <= Ticks + MaxGrant
    <3>1. CASE m \in wire
      BY <3>1 DEF BridgeInv, BridgeWire
    <3>2. CASE m \notin wire
      BY <3>2, <2>1, <1>1, BridgeMessage
    <3> QED
      BY <3>1, <3>2
  <2> QED
    BY <1>1, <2>1 DEF BridgeWire, BridgeReads
<1> QED
  BY <1>5, <1>6, <1>7 DEF BridgeInv

LEMMA BridgeSubmit == ASSUME BridgeInv, B!Submit PROVE BridgeInv'
<1> DEFINE asks == bridge.ok /\ view.card # None /\ view.tap # bridge.handled /\ deciding.at = "none"
           inquiry == [B!NoJob EXCEPT !.at = "asked", !.tap = view.tap, !.card = view.card, !.since = clock]
<1>1. /\ bridge.at = "submit" /\ UNCHANGED <<clock, reader, power, wire, trouble>> /\ view' = B!NoView
      /\ bridge' = [bridge EXCEPT !.at = "top", !.ok = FALSE, !.handled = IF asks THEN view.tap ELSE bridge.handled]
      /\ deciding' = IF asks THEN inquiry ELSE deciding
  BY DEF B!Submit
<1>2. view.tap \in B!Taps /\ view.card \in Tx \cup {None} /\ clock \in B!Time /\ bridge \in LoopRows /\ bridge.handled \in B!Taps
  BY BridgeRows DEF ViewRows, LoopRows
<1>3. bridge' \in LoopRows /\ bridge'.at = "top"
  BY <1>1, <1>2 DEF LoopRows
<1>4. /\ inquiry \in JobRows /\ inquiry.at = "asked" /\ inquiry.tap = view.tap /\ inquiry.card = view.card /\ inquiry.since = clock
  BY <1>2, BridgeIdle DEF B!NoJob, JobRows
<1> HIDE DEF inquiry
<1>5. deciding' \in JobRows
  BY <1>1, <1>4, BridgeRows
<1>6. BridgeTypes' /\ BridgeView'
  BY <1>1, <1>3, <1>5, BridgeIdle, BridgeLoop DEF BridgeInv, BridgeTypes, BridgeView
<1>7. BridgeJob'
  <2>1. CASE asks
    <3>1. deciding' = inquiry /\ view.card # None /\ BridgeReads(view.tap.session, view.tap.scan, view.card) /\ clock \in Nat
      BY <1>1, <1>2, <2>1, LinkAssumption DEF BridgeInv, BridgeView, B!Time
    <3> QED
      BY <1>1, <1>4, <3>1 DEF BridgeJob, BridgeReads
  <2>2. CASE ~ asks
    BY <1>1, <2>2 DEF BridgeInv, BridgeJob, BridgeReads
  <2> QED
    BY <2>1, <2>2
<1>8. BridgeWire'
  BY <1>1 DEF BridgeInv, BridgeWire, BridgeReads
<1> QED
  BY <1>6, <1>7, <1>8 DEF BridgeInv

LEMMA BridgeRestart == ASSUME BridgeInv, B!Restart PROVE BridgeInv'
<1>1. bridge' \in LoopRows /\ bridge'.at = "top" /\ deciding' = B!NoJob /\ view' = B!NoView
  BY BridgeIdle DEF B!Restart, B!Started
<1>2. trouble' \in 0..MaxTrouble /\ trouble' >= trouble
  BY LinkAssumption DEF B!Restart, BridgeInv, BridgeTypes
<1>3. BridgeTypes'
  BY <1>1, <1>2, BridgeLoop, BridgeIdle DEF B!Restart, BridgeInv, BridgeTypes
<1>4. BridgeView' /\ BridgeJob' /\ BridgeWire'
  BY <1>1 DEF B!Restart, BridgeInv, BridgeView, BridgeJob, BridgeWire, BridgeReads, B!NoJob
<1> QED
  BY <1>3, <1>4 DEF BridgeInv

LEMMA BridgeDecide == ASSUME BridgeInv, B!Decide PROVE BridgeInv'
<1>1. deciding.at = "asked" /\ UNCHANGED <<clock, reader, power, wire, bridge, view, trouble>>
  BY DEF B!Decide
<1>2. deciding \in JobRows /\ clock \in Nat /\ clock <= Ticks /\ deciding.since \in Nat
  BY BridgeRows, LinkAssumption DEF JobRows, B!Time
<1>3. PICK allowed \in BOOLEAN : deciding' = [deciding EXCEPT !.at = "answered", !.allowed = allowed, !.end = IF allowed THEN clock + Lease ELSE 0]
  BY DEF B!Decide
<1>4. (IF allowed THEN clock + Lease ELSE 0) \in 0..Ticks + Lease
  BY <1>2, LinkAssumption
<1>5. deciding' \in JobRows
  BY <1>2, <1>3, <1>4 DEF JobRows
<1>6. /\ deciding'.at = "answered" /\ deciding'.tap = deciding.tap /\ deciding'.card = deciding.card /\ deciding'.since = deciding.since
      /\ deciding'.allowed = allowed /\ deciding'.end = (IF allowed THEN clock + Lease ELSE 0)
  BY <1>2, <1>3 DEF JobRows
<1>7. BridgeTypes'
  BY <1>1, <1>5, BridgeLoop, BridgeRows DEF BridgeInv, BridgeTypes
<1>8. BridgeView' /\ BridgeWire'
  BY <1>1 DEF BridgeInv, BridgeView, BridgeWire, BridgeReads
<1>9. BridgeJob'
  BY <1>1, <1>2, <1>6, LinkAssumption DEF BridgeInv, BridgeJob, BridgeReads
<1> QED
  BY <1>7, <1>8, <1>9 DEF BridgeInv

LEMMA BridgeConclude == ASSUME BridgeInv, B!Conclude PROVE BridgeInv'
<1>1. deciding.at = "answered" /\ UNCHANGED <<clock, reader, power, wire, bridge, view, trouble>>
  BY DEF B!Conclude
<1>2. deciding \in JobRows /\ clock \in Nat /\ clock <= Ticks /\ deciding.since \in Nat /\ deciding.since <= Ticks
  BY BridgeRows, LinkAssumption DEF JobRows, B!Time
<1>3. /\ deciding' \in JobRows
      /\ \/ deciding'.at = "failed"
         \/ /\ deciding'.at = "done" /\ deciding'.tap = deciding.tap /\ deciding'.card = deciding.card /\ deciding'.allowed = deciding.allowed /\ deciding'.end = deciding.end
            /\ deciding.allowed => deciding'.until \in Nat /\ deciding'.until <= deciding.since + Lease
  <2>1. CASE ~ deciding.allowed /\ deciding' = [deciding EXCEPT !.at = "done", !.since = 0]
    <3>1. 0 \in B!Time
      BY LinkAssumption DEF B!Time
    <3> QED
      BY <1>2, <2>1, <3>1 DEF JobRows
  <2>2. ASSUME deciding.allowed, NEW u \in clock + 1 .. deciding.since + Lease, deciding' = [deciding EXCEPT !.at = "done", !.until = u, !.since = 0]
        PROVE  /\ deciding' \in JobRows
               /\ deciding'.at = "done" /\ deciding'.tap = deciding.tap /\ deciding'.card = deciding.card /\ deciding'.allowed = deciding.allowed /\ deciding'.end = deciding.end
               /\ deciding'.until \in Nat /\ deciding'.until <= deciding.since + Lease
    <3>1. u \in Nat /\ u <= deciding.since + Lease /\ u \in 0..Ticks + Lease /\ 0 \in B!Time
      BY <1>2, <2>2, LinkAssumption DEF B!Time
    <3> QED
      BY <1>2, <2>2, <3>1 DEF JobRows
  <2>3. CASE deciding' = [B!NoJob EXCEPT !.at = "failed"]
    BY <2>3, BridgeIdle DEF JobRows, B!NoJob
  <2> QED
    BY <2>1, <2>2, <2>3 DEF B!Conclude
<1>4. BridgeTypes'
  BY <1>1, <1>3, BridgeLoop, BridgeRows DEF BridgeInv, BridgeTypes
<1>5. BridgeView' /\ BridgeWire'
  BY <1>1 DEF BridgeInv, BridgeView, BridgeWire, BridgeReads
<1>6. deciding.end \in Nat
  BY <1>2, LinkAssumption DEF JobRows
<1>7. BridgeJob'
  BY <1>1, <1>2, <1>3, <1>6, LinkAssumption DEF BridgeInv, BridgeJob, BridgeReads
<1> QED
  BY <1>4, <1>5, <1>7 DEF BridgeInv

LEMMA BridgeNext == BridgeInv /\ [B!Next]_B!vars => BridgeInv'
<1> SUFFICES ASSUME BridgeInv, [B!Next]_B!vars PROVE BridgeInv'
  OBVIOUS
<1>1. CASE UNCHANGED B!vars
  BY <1>1 DEF B!vars, BridgeInv, BridgeTypes, BridgeView, BridgeJob, BridgeWire, BridgeReads, B!TypeOK
<1>2. CASE B!Next
  BY <1>2, BridgeTick, BridgeBoot, BridgeTap, BridgeAnswer, BridgeReceive, BridgeFails, BridgeJudge, BridgeUnacknowledged,
     BridgeSubmit, BridgeRestart, BridgeDecide, BridgeConclude, BridgeDeliver DEF B!Next
<1> QED
  BY <1>1, <1>2

\* What the invariant says of the grant.
LEMMA BridgeGrant == BridgeInv => B!TypeOK /\ B!GrantsItsTap /\ B!OffInTime
  BY DEF BridgeInv, BridgeTypes, B!GrantsItsTap, B!OffInTime

\* A reader that the bridge talks to grants to the card whose decision it has,
\* and no longer than the server's lease.
THEOREM BridgeGrants == B!Spec => [](B!GrantsItsTap /\ B!OffInTime)
  BY BridgeStart, BridgeNext, BridgeGrant, PTL DEF B!Spec

-----------------------------------------------------------------------------
(* The gateway.                                                            *)

GateBoots == 1..MaxTrouble + 1
PollRows == [session : GateBoots, counter : 0..MaxCounter, scan : 0..MaxScan, card : Tx \cup {None}]
AnswerRows == [session : GateBoots, counter : 0..MaxCounter, scan : 0..MaxScan, decided : BOOLEAN,
            grant : 0..MaxGrant, for : Tx \cup {None}, end : 0..Ticks + Lease]
HandRows == [at : {"free", "asked", "answered"}, poll : PollRows \cup {G!NoPoll}, since : G!Time,
          allowed : BOOLEAN, end : 0..Ticks + Lease]
ReaderRows == [session : GateBoots, scan : 0..MaxScan, card : Tx \cup {None}, counter : 0..MaxCounter,
            waits : BOOLEAN, since : G!Time]
PowerRows == [card : Tx \cup {None}, for : Tx \cup {None}, until : 0..Ticks + MaxGrant, end : 0..Ticks + Lease]

\* What was read of a tap is still so, unless it was decided or another came.
GateReads(s, n, c) ==
  /\ s <= reader.session
  /\ s = reader.session => n <= reader.scan
  /\ s = reader.session /\ n = reader.scan /\ c # None => reader.card \in {c, None}

GateTypes ==
  /\ clock \in G!Time /\ reader \in ReaderRows /\ power \in PowerRows
  /\ polls \subseteq PollRows /\ replies \subseteq AnswerRows /\ hand \in HandRows
  /\ trouble \in 0..MaxTrouble /\ reader.session <= trouble + 1
  /\ power.card = power.for /\ power.until <= power.end + Patience
  /\ reader.waits => reader.since <= clock /\ clock <= reader.since + Patience

GatePolls == \A p \in polls : GateReads(p.session, p.scan, p.card)

\* A decision is for a card that waited, and the server's lease outlasts it.
GateHand ==
  hand.at # "free" =>
    /\ hand.poll \in PollRows /\ hand.poll.card # None
    /\ GateReads(hand.poll.session, hand.poll.scan, hand.poll.card)
    /\ hand.since <= clock
    /\ hand.at = "answered" /\ hand.allowed => hand.since + Lease <= hand.end

\* The reader waits for one answer, which came after it began to.
GateReplies ==
  /\ \A r, q \in replies : r = q
  /\ \A r \in replies :
       /\ reader.waits /\ r.session = reader.session
       /\ r.decided /\ r.grant > 0 =>
            /\ GateReads(r.session, r.scan, r.for) /\ r.for # None
            /\ reader.since + r.grant <= r.end

\* The gateway remembers so many sessions, and none of them twice.
GateSessions ==
  /\ sessions \in Seq(G!Entry) /\ Len(sessions) <= Kept
  /\ \A i, j \in DOMAIN sessions : sessions[i].session = sessions[j].session => i = j

\* What was decided of a session is remembered until it is forgotten.
GateHandled(t) ==
  /\ \E i \in DOMAIN sessions : sessions[i].session = t.session
  /\ \A i \in DOMAIN sessions : sessions[i].session = t.session =>
       sessions[i].scan >= t.scan /\ (sessions[i].scan = t.scan => sessions[i].handled = t.scan)

GateAsked ==
  /\ told \subseteq G!Taps
  /\ twice => forgot
  /\ ~ forgot => \A t \in told : GateHandled(t)

GateInv == GateTypes /\ GatePolls /\ GateHand /\ GateReplies /\ GateSessions /\ GateAsked

-----------------------------------------------------------------------------
\* What the gateway remembers.

LEMMA GateEntry ==
  ASSUME GateSessions, NEW s \in GateBoots
  PROVE  /\ G!EntryOf(s) \in G!Entry /\ G!EntryOf(s).session = s
         /\ \/ G!Known(s) = {} /\ G!EntryOf(s).scan = 0 /\ G!EntryOf(s).handled = 0
            \/ \E i \in DOMAIN sessions : G!EntryOf(s) = sessions[i]
<1>1. CASE G!Known(s) = {}
  BY <1>1, LinkAssumption DEF G!EntryOf, G!Entry, GateBoots
<1>2. CASE G!Known(s) # {}
  <2>1. PICK i : i = CHOOSE j \in G!Known(s) : TRUE
    OBVIOUS
  <2>2. i \in G!Known(s)
    BY <1>2, <2>1
  <2>3. G!EntryOf(s) = sessions[i]
    BY <1>2, <2>1 DEF G!EntryOf
  <2> QED
    BY <2>2, <2>3 DEF G!Known, GateSessions
<1> QED
  BY <1>1, <1>2

\* One entry comes to the front.
GateFront(q, at, e) == <<e>> \o SubSeq(q, 1, at - 1) \o SubSeq(q, at + 1, Len(q))

LEMMA GateMoved ==
  ASSUME NEW q \in Seq(G!Entry), NEW at \in 1..Len(q) + 1, NEW e \in G!Entry, NEW m, m = GateFront(q, at, e)
  PROVE  /\ m \in Seq(G!Entry) /\ m[1] = e
         /\ Len(m) = IF at <= Len(q) THEN Len(q) ELSE Len(q) + 1
         /\ \A j \in 2..Len(m) : m[j] = q[IF j - 1 < at THEN j - 1 ELSE j]
<1> DEFINE a == SubSeq(q, 1, at - 1)
           b == SubSeq(q, at + 1, Len(q))
<1>0. Len(q) \in Nat /\ at \in Nat /\ at >= 1 /\ at <= Len(q) + 1
  OBVIOUS
<1>1. a \in Seq(G!Entry) /\ Len(a) = at - 1 /\ \A j \in 1..at - 1 : a[j] = q[j]
  <2>1. \A j \in 1..at - 1 : q[j] \in G!Entry
    BY <1>0
  <2> QED
    BY <1>0, <2>1, SubSeqProperties
<1>2. b \in Seq(G!Entry) /\ Len(b) = (IF at <= Len(q) THEN Len(q) - at ELSE 0) /\ \A j \in 1..Len(q) - at : b[j] = q[at + j]
  <2>1. \A j \in at + 1..Len(q) : q[j] \in G!Entry
    BY <1>0
  <2>2. /\ b \in Seq(G!Entry)
        /\ Len(b) = (IF at + 1 <= Len(q) THEN Len(q) - (at + 1) + 1 ELSE 0)
        /\ \A j \in 1..Len(q) - (at + 1) + 1 : b[j] = q[at + 1 + j - 1]
    BY <1>0, <2>1, SubSeqProperties
  <2>3. b \in Seq(G!Entry) /\ Len(b) = (IF at <= Len(q) THEN Len(q) - at ELSE 0)
    BY <1>0, <2>2
  <2>4. ASSUME NEW j \in 1..Len(q) - at PROVE b[j] = q[at + j]
    <3>1. at + 1 + j - 1 = at + j /\ j \in 1..Len(q) - (at + 1) + 1
      BY <1>0
    <3> QED
      BY <2>2, <3>1
  <2> QED
    BY <2>3, <2>4
<1>3. <<e>> \in Seq(G!Entry) /\ Len(<<e>>) = 1 /\ <<e>>[1] = e
  OBVIOUS
<1>4. PICK l : l = <<e>> \o a
  OBVIOUS
<1>5. m = l \o b
  BY <1>4 DEF GateFront
<1> HIDE DEF a, b
<1>6. l \in Seq(G!Entry) /\ Len(l) = at /\ l[1] = e /\ \A j \in 2..at : l[j] = q[j - 1]
  <2>1. /\ l \in Seq(G!Entry) /\ Len(l) = 1 + Len(a)
        /\ \A j \in 1..1 + Len(a) : l[j] = IF j <= 1 THEN <<e>>[j] ELSE a[j - 1]
    BY <1>1, <1>3, <1>4, ConcatProperties
  <2>2. Len(l) = at /\ l[1] = e
    BY <1>0, <1>1, <1>3, <2>1
  <2>3. ASSUME NEW j \in 2..at PROVE l[j] = q[j - 1]
    <3>1. j \in 1..1 + Len(a) /\ ~ (j <= 1) /\ j - 1 \in 1..at - 1
      BY <1>0, <1>1
    <3> QED
      BY <1>1, <2>1, <3>1
  <2> QED
    BY <2>1, <2>2, <2>3
<1>7. PICK n : n = IF at <= Len(q) THEN Len(q) - at ELSE 0
  OBVIOUS
<1>7a. n \in Nat /\ n = Len(b)
  BY <1>0, <1>2, <1>7
<1>8. /\ m \in Seq(G!Entry) /\ Len(m) = at + n
      /\ \A j \in 1..at + n : m[j] = IF j <= at THEN l[j] ELSE b[j - at]
  <2>1. /\ l \o b \in Seq(G!Entry) /\ Len(l \o b) = Len(l) + Len(b)
        /\ \A j \in 1..Len(l) + Len(b) : (l \o b)[j] = IF j <= Len(l) THEN l[j] ELSE b[j - Len(l)]
    BY <1>2, <1>6, ConcatProperties
  <2> QED
    BY <1>5, <1>6, <1>7a, <2>1
<1>9. m[1] = e
  <2>1. 1 \in 1..at + n /\ 1 <= at
    BY <1>0, <1>7a
  <2> QED
    BY <1>6, <1>8, <2>1
<1>10. Len(m) = IF at <= Len(q) THEN Len(q) ELSE Len(q) + 1
  <2>1. CASE at <= Len(q)
    BY <1>0, <1>7, <1>8, <2>1
  <2>2. CASE ~ (at <= Len(q))
    BY <1>0, <1>7, <1>8, <2>2
  <2> QED
    BY <2>1, <2>2
<1>11. ASSUME NEW j \in 2..Len(m) PROVE m[j] = q[IF j - 1 < at THEN j - 1 ELSE j]
  <2>0. j \in Nat /\ j \in 1..at + n /\ j >= 2 /\ j <= at + n
    BY <1>0, <1>7a, <1>8
  <2>1. CASE j <= at
    <3>1. m[j] = l[j] /\ l[j] = q[j - 1] /\ j - 1 < at
      BY <1>0, <1>6, <1>8, <2>0, <2>1
    <3> QED
      BY <3>1
  <2>2. CASE ~ (j <= at)
    <3>1. j - at \in 1..Len(q) - at /\ at + (j - at) = j /\ ~ (j - 1 < at)
      BY <1>0, <1>7, <1>7a, <2>0, <2>2
    <3>2. m[j] = b[j - at] /\ b[j - at] = q[at + (j - at)]
      BY <1>2, <1>8, <2>0, <2>2, <3>1
    <3> QED
      BY <3>1, <3>2
  <2> QED
    BY <2>1, <2>2
<1> QED
  BY <1>8, <1>9, <1>10, <1>11

\* What is remembered after a poll: the entry of its session, and what was
\* remembered of others, unless there are too many.
\* The instance's operator is the library's.
LEMMA GateCount == \A s : G!Cardinality(s) = Cardinality(s)
BY DEF G!Cardinality, Cardinality

GateCrowded(e) == G!Cardinality({e.session} \cup {sessions[i].session : i \in DOMAIN sessions}) > Kept

GateFollows(q, e) ==
  /\ q \in Seq(G!Entry) /\ Len(q) <= Kept
  /\ \A i, j \in DOMAIN q : q[i].session = q[j].session => i = j
  /\ \A i \in DOMAIN q : q[i] = e \/ (q[i].session # e.session /\ \E j \in DOMAIN sessions : q[i] = sessions[j])
  /\ ~ GateCrowded(e) =>
       /\ \E i \in DOMAIN q : q[i] = e
       /\ \A j \in DOMAIN sessions : sessions[j].session # e.session => \E i \in DOMAIN q : q[i] = sessions[j]

LEMMA GateWith ==
  ASSUME GateSessions, NEW e \in G!Entry, NEW q, q = G!With(e)
  PROVE  GateFollows(q, e)
<1>1. PICK at : at = IF G!Known(e.session) = {} THEN Len(sessions) + 1 ELSE CHOOSE i \in G!Known(e.session) : TRUE
  OBVIOUS
<1>2. PICK m : m = GateFront(sessions, at, e)
  OBVIOUS
<1>3. PICK n : n = IF Len(m) < Kept THEN Len(m) ELSE Kept
  OBVIOUS
<1>4. q = SubSeq(m, 1, n)
  BY <1>1, <1>2, <1>3 DEF G!With, GateFront
<1>5. sessions \in Seq(G!Entry) /\ DOMAIN sessions = 1..Len(sessions) /\ Len(sessions) \in Nat /\ Kept \in Nat
  BY LinkAssumption DEF GateSessions
<1>6. /\ at \in 1..Len(sessions) + 1
      /\ at <= Len(sessions) => sessions[at].session = e.session
      /\ at = Len(sessions) + 1 => \A i \in DOMAIN sessions : sessions[i].session # e.session
  <2>1. CASE G!Known(e.session) = {}
    BY <1>1, <1>5, <2>1 DEF G!Known
  <2>2. CASE G!Known(e.session) # {}
    <3>1. at \in G!Known(e.session)
      BY <1>1, <2>2
    <3> QED
      BY <1>5, <3>1 DEF G!Known
  <2> QED
    BY <2>1, <2>2
<1>7. /\ m \in Seq(G!Entry) /\ m[1] = e
      /\ Len(m) = IF at <= Len(sessions) THEN Len(sessions) ELSE Len(sessions) + 1
      /\ \A j \in 2..Len(m) : m[j] = sessions[IF j - 1 < at THEN j - 1 ELSE j]
  <2>1. sessions \in Seq(G!Entry) /\ at \in 1..Len(sessions) + 1 /\ e \in G!Entry /\ m = GateFront(sessions, at, e)
    BY <1>2, <1>5, <1>6
  <2> HIDE DEF GateFront, G!Entry
  <2>2. m \in Seq(G!Entry) /\ m[1] = e
    BY <2>1, GateMoved
  <2>3. Len(m) = IF at <= Len(sessions) THEN Len(sessions) ELSE Len(sessions) + 1
    BY <2>1, GateMoved, Zenon
  <2>4. \A j \in 2..Len(m) : m[j] = sessions[IF j - 1 < at THEN j - 1 ELSE j]
    BY <2>1, GateMoved, SMTT(30)
  <2> QED
    BY <2>2, <2>3, <2>4
<1>8. n \in 0..Len(m) /\ n <= Kept /\ Len(m) \in Nat /\ n \in Nat /\ at \in Nat
  BY <1>3, <1>5, <1>6, <1>7
<1>9. q \in Seq(G!Entry) /\ Len(q) = n /\ DOMAIN q = 1..n /\ \A i \in 1..n : q[i] = m[i]
  <2>1. \A i \in 1..n : m[i] \in G!Entry
    BY <1>7, <1>8
  <2>2. q \in Seq(G!Entry) /\ Len(q) = (IF 1 <= n THEN n - 1 + 1 ELSE 0) /\ \A i \in 1..n - 1 + 1 : q[i] = m[1 + i - 1]
    BY <1>4, <1>8, <2>1, SubSeqProperties
  <2>3. Len(q) = n
    BY <1>8, <2>2
  <2>4. ASSUME NEW i \in 1..n PROVE q[i] = m[i]
    <3>1. i \in 1..n - 1 + 1 /\ 1 + i - 1 = i
      BY <1>8
    <3> QED
      BY <2>2, <3>1
  <2> QED
    BY <2>2, <2>3, <2>4
<1>10. ASSUME NEW j \in 2..Len(m)
       PROVE  \E k \in DOMAIN sessions : /\ k # at /\ m[j] = sessions[k] /\ m[j].session # e.session
                                         /\ k = IF j - 1 < at THEN j - 1 ELSE j
  <2>1. PICK k : k = IF j - 1 < at THEN j - 1 ELSE j
    OBVIOUS
  <2>2. k \in 1..Len(sessions) /\ k # at
    BY <1>5, <1>6, <1>7, <1>8, <2>1
  <2>3. m[j] = sessions[k]
    BY <1>7, <2>1
  <2>4. sessions[k].session # e.session
    BY <1>5, <1>6, <2>2 DEF GateSessions
  <2> QED
    BY <1>5, <2>1, <2>2, <2>3, <2>4
<1>11. ASSUME NEW i \in DOMAIN q, NEW j \in DOMAIN q, q[i].session = q[j].session PROVE i = j
  <2>1. i \in 1..Len(m) /\ j \in 1..Len(m) /\ q[i] = m[i] /\ q[j] = m[j] /\ i \in Nat /\ j \in Nat
    BY <1>8, <1>9, <1>11
  <2>2. CASE i = 1 \/ j = 1
    BY <1>7, <1>10, <1>11, <2>1, <2>2
  <2>3. CASE i # 1 /\ j # 1
    <3>1. i \in 2..Len(m) /\ j \in 2..Len(m)
      BY <2>1, <2>3
    <3>2. PICK k \in DOMAIN sessions : k # at /\ m[i] = sessions[k] /\ k = IF i - 1 < at THEN i - 1 ELSE i
      BY <1>10, <3>1
    <3>3. PICK l \in DOMAIN sessions : l # at /\ m[j] = sessions[l] /\ l = IF j - 1 < at THEN j - 1 ELSE j
      BY <1>10, <3>1
    <3>4. k = l
      BY <1>11, <2>1, <3>2, <3>3 DEF GateSessions
    <3> QED
      BY <1>8, <2>1, <3>2, <3>3, <3>4
  <2> QED
    BY <2>2, <2>3
<1>12. ASSUME NEW i \in DOMAIN q
       PROVE  q[i] = e \/ (q[i].session # e.session /\ \E j \in DOMAIN sessions : q[i] = sessions[j])
  <2>1. i \in 1..Len(m) /\ q[i] = m[i] /\ (i = 1 \/ i \in 2..Len(m))
    BY <1>8, <1>9
  <2> QED
    BY <1>7, <1>10, <2>1
<1>13. ASSUME ~ GateCrowded(e) PROVE n = Len(m) /\ n >= 1
  <2> DEFINE known == {sessions[i].session : i \in DOMAIN sessions}
             name == [i \in 1..Len(sessions) |-> sessions[i].session]
  <2>1. IsFiniteSet(known)
    <3>0. \A i \in 1..Len(sessions) : sessions[i] \in G!Entry
      BY <1>5
    <3>1. known \subseteq 1..MaxTrouble + 1
      BY <1>5, <3>0 DEF G!Entry
    <3>2. IsFiniteSet(1..MaxTrouble + 1)
      BY LinkAssumption, FS_Interval
    <3> QED
      BY <3>1, <3>2, FS_Subset
  <2>2. Cardinality(known) \in Nat /\ Len(sessions) <= Cardinality(known)
    <3>0. name \in [1..Len(sessions) -> known] /\ \A i, j \in 1..Len(sessions) : name[i] = name[j] => i = j
      BY <1>5 DEF GateSessions
    <3>1. name \in Injection(1..Len(sessions), known)
      BY <3>0 DEF Injection, IsInjective
    <3>2. Cardinality(1..Len(sessions)) = Len(sessions)
      <4>1. Cardinality(1..Len(sessions)) = IF 1 > Len(sessions) THEN 0 ELSE Len(sessions) - 1 + 1
        BY <1>5, FS_Interval
      <4> QED
        BY <1>5, <4>1
    <3>3. Cardinality(1..Len(sessions)) <= Cardinality(known)
      BY <2>1, <3>1, FS_Injection
    <3> QED
      BY <2>1, <3>2, <3>3, FS_CardinalityType
  <2>3. PICK all : all = Cardinality({e.session} \cup known)
    OBVIOUS
  <2>3a. all = IF e.session \in known THEN Cardinality(known) ELSE Cardinality(known) + 1
    <3>1. {e.session} \cup known = known \cup {e.session}
      OBVIOUS
    <3> QED
      BY <2>1, <2>3, <3>1, FS_AddElement
  <2>4. CASE at <= Len(sessions)
    <3>1. Len(m) = Len(sessions) /\ Len(sessions) <= Kept /\ Len(sessions) >= 1
      <4>1. at \in Nat /\ at >= 1
        BY <1>6
      <4> QED
        BY <1>5, <1>7, <2>4, <4>1 DEF GateSessions
    <3>2. Len(m) \in Nat /\ Len(m) <= Kept /\ Len(m) >= 1
      BY <1>8, <3>1
    <3>3. n = Len(m)
      BY <1>3, <1>5, <3>2
    <3> QED
      BY <3>2, <3>3
  <2>5. CASE at = Len(sessions) + 1
    <3>1. e.session \notin known
      BY <1>6, <2>5
    <3>2. G!Cardinality({e.session} \cup known) = all
      BY <2>3, GateCount
    <3>3. ~ (all > Kept)
      BY <1>13, <3>2 DEF GateCrowded
    <3>4. Len(sessions) + 1 <= Kept
      BY <1>5, <2>2, <2>3a, <3>1, <3>3
    <3> QED
      BY <1>3, <1>5, <1>7, <2>5, <3>4
  <2> QED
    BY <1>5, <1>6, <2>4, <2>5
<1>14. ASSUME ~ GateCrowded(e)
       PROVE  /\ \E i \in DOMAIN q : q[i] = e
              /\ \A j \in DOMAIN sessions : sessions[j].session # e.session => \E i \in DOMAIN q : q[i] = sessions[j]
  <2>1. n = Len(m) /\ n >= 1
    BY <1>13, <1>14
  <2>2. 1 \in DOMAIN q /\ q[1] = e
    BY <1>7, <1>8, <1>9, <2>1
  <2>3. ASSUME NEW j \in DOMAIN sessions, sessions[j].session # e.session
        PROVE  \E i \in DOMAIN q : q[i] = sessions[j]
    <3>1. PICK i : i = IF j < at THEN j + 1 ELSE j
      OBVIOUS
    <3>2. j \in 1..Len(sessions) /\ j # at
      BY <1>5, <1>6, <2>3
    <3>3. i \in 2..Len(m) /\ j = IF i - 1 < at THEN i - 1 ELSE i
      BY <1>5, <1>6, <1>7, <1>8, <3>1, <3>2
    <3>4. m[i] = sessions[j]
      BY <1>7, <3>3
    <3>5. i \in DOMAIN q /\ q[i] = m[i]
      BY <1>8, <1>9, <2>1, <3>3
    <3> QED
      BY <3>4, <3>5
  <2> QED
    BY <2>2, <2>3
<1> QED
  BY <1>8, <1>9, <1>11, <1>12, <1>14 DEF GateFollows
-----------------------------------------------------------------------------
\* The reader's steps.

LEMMA GateNatural ==
  ASSUME GateTypes
  PROVE  /\ clock \in Nat /\ clock <= Ticks /\ reader.since \in Nat /\ reader.session \in Nat /\ reader.scan \in Nat
         /\ reader.counter \in Nat /\ reader.waits \in BOOLEAN /\ reader.card \in Tx \cup {None}
         /\ power.until \in Nat /\ power.end \in Nat /\ hand.since \in Nat /\ hand.end \in Nat /\ trouble \in Nat
  BY LinkAssumption DEF GateTypes, ReaderRows, PowerRows, HandRows, G!Time, GateBoots

LEMMA GateIdle == G!NoPower \in PowerRows /\ G!Free \in HandRows /\ G!Free.at = "free"
  BY LinkAssumption DEF G!NoPower, G!Free, PowerRows, HandRows, G!Time

\* What the gateway holds does not change with the clock or the reader.
LEMMA GateKept ==
  ASSUME GateSessions, GateAsked, UNCHANGED <<sessions, told, twice, forgot>>
  PROVE  GateSessions' /\ GateAsked'
  BY DEF GateSessions, GateAsked, GateHandled

\* Where the reader's session and scan are the same, and its card or none.
GateSame == reader'.session = reader.session /\ reader'.scan = reader.scan /\ reader'.card \in {reader.card, None}

LEMMA GateStill ==
  ASSUME GateSame, NEW s, NEW n, NEW c, GateReads(s, n, c)
  PROVE  GateReads(s, n, c)'
  BY DEF GateSame, GateReads

LEMMA GateStart == G!Init => GateInv
<1> SUFFICES ASSUME G!Init PROVE GateInv
  OBVIOUS
<1>1. clock \in G!Time /\ reader \in ReaderRows /\ trouble \in 0..MaxTrouble /\ reader.session <= trouble + 1 /\ ~ reader.waits
  BY LinkAssumption DEF G!Init, ReaderRows, G!Time, GateBoots
<1>2. power.card = power.for /\ power.until <= power.end + Patience
  BY LinkAssumption DEF G!Init, G!NoPower
<1>3. GateTypes
  BY <1>1, <1>2, GateIdle DEF G!Init, GateTypes
<1>4. GateSessions
  BY LinkAssumption DEF G!Init, GateSessions
<1>5. GatePolls /\ GateHand /\ GateReplies /\ GateAsked
  BY GateIdle DEF G!Init, GatePolls, GateHand, GateReplies, GateAsked
<1> QED
  BY <1>3, <1>4, <1>5 DEF GateInv

LEMMA GateTick == ASSUME GateInv, G!Tick PROVE GateInv'
<1>0. GateTypes /\ GatePolls /\ GateHand /\ GateReplies
  BY DEF GateInv
<1>1. /\ clock' = clock + 1 /\ clock' \in G!Time /\ power' \in {power, G!NoPower}
      /\ UNCHANGED <<polls, sessions, hand, told, twice, forgot, trouble>>
      /\ \/ /\ reader' = [reader EXCEPT !.waits = FALSE, !.since = 0] /\ replies' = {}
         \/ /\ ~ (reader.waits /\ clock' > reader.since + Patience) /\ UNCHANGED <<reader, replies>>
  BY <1>0, GateNatural, LinkAssumption DEF G!Tick, G!History, G!Time
<1>2. reader' \in ReaderRows /\ GateSame /\ (reader'.waits => reader' = reader /\ clock' <= reader.since + Patience)
  <2>1. reader \in ReaderRows /\ 0 \in G!Time
    BY <1>0, LinkAssumption DEF GateTypes, G!Time
  <2>2. CASE reader' = [reader EXCEPT !.waits = FALSE, !.since = 0]
    BY <2>1, <2>2 DEF ReaderRows, GateSame
  <2>3. CASE ~ (reader.waits /\ clock' > reader.since + Patience) /\ reader' = reader
    BY <1>0, <1>1, <2>1, <2>3, GateNatural, LinkAssumption DEF GateSame
  <2> QED
    BY <1>1, <2>2, <2>3
<1>3. GateTypes'
  <2>1. power' \in PowerRows /\ power'.card = power'.for /\ power'.until <= power'.end + Patience
    BY <1>0, <1>1, GateIdle, LinkAssumption DEF GateTypes, G!NoPower
  <2>2. replies' \subseteq AnswerRows
    BY <1>0, <1>1 DEF GateTypes
  <2>3. reader'.session <= trouble' + 1
    BY <1>0, <1>1, <1>2 DEF GateTypes, GateSame
  <2>4. reader'.waits => reader'.since <= clock' /\ clock' <= reader'.since + Patience
    BY <1>0, <1>1, <1>2, GateNatural DEF GateTypes
  <2> QED
    BY <1>0, <1>1, <1>2, <2>1, <2>2, <2>3, <2>4 DEF GateTypes
<1>4. GatePolls'
  BY <1>0, <1>1, <1>2, GateStill DEF GatePolls
<1>5. GateHand'
  <2>1. hand.since <= clock => hand.since <= clock'
    BY <1>0, <1>1, GateNatural
  <2> QED
    BY <1>0, <1>1, <1>2, <2>1, GateStill DEF GateHand
<1>6. GateReplies'
  BY <1>0, <1>1, <1>2, GateStill DEF GateReplies
<1>7. GateSessions' /\ GateAsked'
  BY <1>1, GateKept DEF GateInv
<1> QED
  BY <1>3, <1>4, <1>5, <1>6, <1>7 DEF GateInv

\* A newer tap: what was read before is over.
LEMMA GateTap == ASSUME GateInv, NEW c \in Tx, G!Tap(c) PROVE GateInv'
<1>0. GateTypes /\ GatePolls /\ GateHand /\ GateReplies /\ reader \in ReaderRows
  BY DEF GateInv, GateTypes
<1>1. /\ reader' = [reader EXCEPT !.scan = reader.scan + 1, !.card = c] /\ reader.scan + 1 \in 0..MaxScan
      /\ UNCHANGED <<clock, power, polls, replies, sessions, hand, told, twice, forgot, trouble>>
  BY <1>0, GateNatural, LinkAssumption DEF G!Tap, G!History
<1>2. /\ reader' \in ReaderRows /\ reader'.session = reader.session /\ reader'.scan = reader.scan + 1
      /\ reader'.waits = reader.waits /\ reader'.since = reader.since
  BY <1>0, <1>1 DEF ReaderRows
<1>3. GateTypes'
  BY <1>0, <1>1, <1>2 DEF GateTypes
<1>4. ASSUME NEW s, NEW n \in Nat, NEW k, GateReads(s, n, k) PROVE GateReads(s, n, k)'
  BY <1>0, <1>2, <1>4, GateNatural DEF GateReads
<1>5. (\A p \in PollRows : p.scan \in Nat) /\ \A r \in AnswerRows : r.scan \in Nat
  BY DEF PollRows, AnswerRows
<1>6. GatePolls'
  BY <1>0, <1>1, <1>4, <1>5 DEF GatePolls, GateTypes
<1>7. GateHand'
  <2>1. CASE hand.at # "free"
    <3>1. hand.poll \in PollRows /\ GateReads(hand.poll.session, hand.poll.scan, hand.poll.card)
      BY <1>0, <2>1 DEF GateHand
    <3>2. GateReads(hand.poll.session, hand.poll.scan, hand.poll.card)'
      BY <1>1, <1>4, <1>5, <3>1
    <3> QED
      BY <1>0, <1>1, <2>1, <3>1, <3>2 DEF GateHand
  <2> QED
    BY <1>1, <2>1 DEF GateHand
<1>8. GateReplies'
  <2>1. ASSUME NEW r \in replies, GateReads(r.session, r.scan, r.for) PROVE GateReads(r.session, r.scan, r.for)'
    BY <1>0, <1>4, <1>5, <2>1 DEF GateTypes
  <2> QED
    BY <1>0, <1>1, <1>2, <2>1 DEF GateReplies
<1>9. GateSessions' /\ GateAsked'
  BY <1>1, GateKept DEF GateInv
<1> QED
  BY <1>3, <1>6, <1>7, <1>8, <1>9 DEF GateInv

LEMMA GatePoll == ASSUME GateInv, G!Poll PROVE GateInv'
<1> DEFINE polled == [session |-> reader.session, counter |-> reader.counter + 1, scan |-> reader.scan, card |-> reader.card]
<1>0. GateTypes /\ GatePolls /\ GateHand /\ GateReplies /\ reader \in ReaderRows /\ clock \in G!Time
  BY DEF GateInv, GateTypes
<1>1. /\ ~ reader.waits /\ reader.counter + 1 \in 0..MaxCounter
      /\ reader' = [reader EXCEPT !.counter = reader.counter + 1, !.waits = TRUE, !.since = clock]
      /\ polls' = polls \cup {polled}
      /\ UNCHANGED <<clock, power, replies, sessions, hand, told, twice, forgot, trouble>>
  BY <1>0, GateNatural, LinkAssumption DEF G!Poll, G!History
<1>2. reader' \in ReaderRows /\ GateSame /\ reader'.since = clock
  BY <1>0, <1>1 DEF ReaderRows, GateSame
<1>3. polled \in PollRows
  BY <1>0, <1>1 DEF ReaderRows, PollRows
<1>4. replies = {}
  BY <1>0, <1>1 DEF GateReplies
<1>5. GateTypes'
  <2>1. reader'.since <= clock' /\ clock' <= reader'.since + Patience
    BY <1>0, <1>1, <1>2, GateNatural, LinkAssumption
  <2> QED
    BY <1>0, <1>1, <1>2, <1>3, <2>1 DEF GateTypes, GateSame
<1>6. GatePolls'
  <2>1. GateReads(polled.session, polled.scan, polled.card)
    BY <1>0, GateNatural DEF GateReads
  <2>2. ASSUME NEW p \in polls' PROVE GateReads(p.session, p.scan, p.card)
    BY <1>0, <1>1, <2>1, <2>2 DEF GatePolls
  <2> QED
    BY <1>2, <2>2, GateStill DEF GatePolls
<1>7. GateHand' /\ GateReplies'
  BY <1>0, <1>1, <1>2, <1>4, GateStill DEF GateHand, GateReplies
<1>8. GateSessions' /\ GateAsked'
  BY <1>1, GateKept DEF GateInv
<1> QED
  BY <1>5, <1>6, <1>7, <1>8 DEF GateInv

LEMMA GateGiveUp == ASSUME GateInv, G!GiveUp PROVE GateInv'
<1>0. GateTypes /\ GatePolls /\ GateHand /\ reader \in ReaderRows /\ 0 \in G!Time
  BY LinkAssumption DEF GateInv, GateTypes, G!Time
<1>1. /\ reader' = [reader EXCEPT !.waits = FALSE, !.since = 0] /\ replies' = {}
      /\ trouble' \in 0..MaxTrouble /\ trouble' = trouble + 1
      /\ UNCHANGED <<clock, power, polls, sessions, hand, told, twice, forgot>>
  BY <1>0, GateNatural, LinkAssumption DEF G!GiveUp, G!History
<1>2. reader' \in ReaderRows /\ GateSame /\ ~ reader'.waits
  BY <1>0, <1>1 DEF ReaderRows, GateSame
<1>3. GateTypes'
  BY <1>0, <1>1, <1>2, GateNatural DEF GateTypes, GateSame
<1>4. GatePolls' /\ GateHand' /\ GateReplies'
  BY <1>0, <1>1, <1>2, GateStill DEF GatePolls, GateHand, GateReplies
<1>5. GateSessions' /\ GateAsked'
  BY <1>1, GateKept DEF GateInv
<1> QED
  BY <1>3, <1>4, <1>5 DEF GateInv

LEMMA GateBoot == ASSUME GateInv, G!Boot PROVE GateInv'
<1>0. GateTypes /\ GatePolls /\ GateHand
  BY DEF GateInv
<1>1. /\ reader' = [session |-> reader.session + 1, scan |-> 0, card |-> None, counter |-> 0, waits |-> FALSE, since |-> 0]
      /\ power' = G!NoPower /\ replies' = {}
      /\ trouble' \in 0..MaxTrouble /\ trouble' = trouble + 1
      /\ UNCHANGED <<clock, polls, sessions, hand, told, twice, forgot>>
  BY <1>0, GateNatural, LinkAssumption DEF G!Boot, G!History
<1>2. reader.session <= trouble + 1
  BY <1>0 DEF GateTypes
<1>3. reader' \in ReaderRows
  BY <1>0, <1>1, <1>2, GateNatural, LinkAssumption DEF ReaderRows, GateBoots, G!Time
<1>4. GateTypes'
  BY <1>0, <1>1, <1>2, <1>3, GateIdle, GateNatural, LinkAssumption DEF GateTypes, G!NoPower
<1>5. ASSUME NEW s \in Nat, NEW n, NEW k, GateReads(s, n, k) PROVE GateReads(s, n, k)'
  BY <1>0, <1>1, <1>5, GateNatural DEF GateReads
<1>6. \A p \in PollRows : p.session \in Nat
  BY DEF PollRows, GateBoots
<1>7. GatePolls'
  BY <1>0, <1>1, <1>5, <1>6 DEF GatePolls, GateTypes
<1>8. GateHand'
  <2>1. CASE hand.at # "free"
    <3>1. hand.poll \in PollRows /\ GateReads(hand.poll.session, hand.poll.scan, hand.poll.card)
      BY <1>0, <2>1 DEF GateHand
    <3>2. GateReads(hand.poll.session, hand.poll.scan, hand.poll.card)'
      BY <1>1, <1>5, <1>6, <3>1
    <3> QED
      BY <1>0, <1>1, <2>1, <3>1, <3>2 DEF GateHand
  <2> QED
    BY <1>1, <2>1 DEF GateHand
<1>9. GateReplies'
  BY <1>1 DEF GateReplies
<1>10. GateSessions' /\ GateAsked'
  BY <1>1, GateKept DEF GateInv
<1> QED
  BY <1>4, <1>7, <1>8, <1>9, <1>10 DEF GateInv

\* A grant is for the tap that waits, and over when the lease is, but for the
\* time that the answer was on its way.
LEMMA GateHear == ASSUME GateInv, NEW r \in replies, G!Hear(r) PROVE GateInv'
<1> DEFINE fits == r.scan = reader.scan /\ reader.card # None /\ r.decided
           given == [card |-> reader.card, for |-> r.for, until |-> clock + r.grant, end |-> r.end]
<1>0. /\ GateTypes /\ GatePolls /\ GateHand /\ GateReplies /\ reader \in ReaderRows /\ 0 \in G!Time
      /\ r \in AnswerRows
  BY LinkAssumption DEF GateInv, GateTypes, G!Time
<1>1. /\ replies' = replies \ {r}
      /\ reader' = [reader EXCEPT !.waits = FALSE, !.since = 0, !.card = IF fits THEN None ELSE reader.card]
      /\ power' = IF fits /\ r.grant > 0 THEN given ELSE power
      /\ UNCHANGED <<clock, polls, sessions, hand, told, twice, forgot, trouble>>
  BY DEF G!Hear, G!History
<1>2. replies' = {}
  BY <1>0, <1>1 DEF GateReplies
<1>3. reader' \in ReaderRows /\ GateSame /\ ~ reader'.waits
  BY <1>0, <1>1 DEF ReaderRows, GateSame
<1>4. power' \in PowerRows /\ power'.card = power'.for /\ power'.until <= power'.end + Patience
  <2>1. CASE fits /\ r.grant > 0
    <3>1. /\ reader.waits /\ r.session = reader.session /\ GateReads(r.session, r.scan, r.for) /\ r.for # None
          /\ reader.since + r.grant <= r.end
      BY <1>0, <2>1 DEF GateReplies
    <3>2. r.for = reader.card
      BY <2>1, <3>1 DEF GateReads
    <3>3. r.grant \in Nat /\ r.grant <= MaxGrant /\ r.end \in 0..Ticks + Lease /\ r.end \in Nat
      BY <1>0, LinkAssumption DEF AnswerRows
    <3>4. clock + r.grant \in 0..Ticks + MaxGrant
      BY <1>0, <3>3, GateNatural, LinkAssumption
    <3>5. clock <= reader.since + Patience
      BY <1>0, <3>1 DEF GateTypes
    <3>6. clock + r.grant <= r.end + Patience
      BY <1>0, <3>1, <3>3, <3>5, GateNatural, LinkAssumption
    <3>7. given \in PowerRows /\ given.card = given.for /\ given.until = clock + r.grant /\ given.end = r.end
      BY <1>0, <3>2, <3>3, <3>4, GateNatural DEF PowerRows
    <3>8. power' = given
      BY <1>1, <2>1
    <3> HIDE DEF given
    <3> QED
      BY <3>6, <3>7, <3>8
  <2>2. CASE ~ (fits /\ r.grant > 0)
    BY <1>0, <1>1, <2>2 DEF GateTypes
  <2> QED
    BY <2>1, <2>2
<1> HIDE DEF fits, given
<1>5. GateTypes'
  BY <1>0, <1>1, <1>2, <1>3, <1>4 DEF GateTypes, GateSame
<1>6. GatePolls' /\ GateHand' /\ GateReplies'
  BY <1>0, <1>1, <1>2, <1>3, GateStill DEF GatePolls, GateHand, GateReplies
<1>7. GateSessions' /\ GateAsked'
  BY <1>1, GateKept DEF GateInv
<1> QED
  BY <1>5, <1>6, <1>7 DEF GateInv

-----------------------------------------------------------------------------
\* The gateway's steps.

\* What is answered is heard by the reader that waits for it, or by nobody.
LEMMA GateSend ==
  ASSUME GateTypes, GateReplies, NEW r \in AnswerRows, G!Send(r), UNCHANGED reader,
         r.decided /\ r.grant > 0 /\ reader.waits =>
           /\ GateReads(r.session, r.scan, r.for) /\ r.for # None
           /\ reader.since + r.grant <= r.end
  PROVE  GateReplies' /\ replies' \subseteq AnswerRows
<1>1. CASE replies' = replies
  BY <1>1 DEF GateReplies, GateReads, GateTypes
<1>2. CASE reader.waits /\ r.session = reader.session /\ replies' = {r}
  BY <1>2 DEF GateReplies, GateReads, GateTypes
<1> QED
  BY <1>1, <1>2 DEF G!Send

\* A poll changes what is remembered of its session, and of no other while
\* there is room.
LEMMA GateRemembers ==
  ASSUME GateSessions, GateAsked, NEW p \in PollRows, G!Fresh(p), NEW k \in {G!EntryOf(p.session).handled, p.scan},
         NEW e, e = [[G!EntryOf(p.session) EXCEPT !.counter = p.counter, !.scan = p.scan] EXCEPT !.handled = k],
         sessions' = G!With(e),
         forgot' = (forgot \/ G!Cardinality({e.session} \cup {sessions[i].session : i \in DOMAIN sessions}) > Kept)
  PROVE  /\ GateSessions'
         /\ ~ forgot' => \A t \in told : GateHandled(t)'
         /\ ~ forgot' /\ k = p.scan => GateHandled([session |-> p.session, scan |-> p.scan])'
<1>1. p.session \in GateBoots /\ p.counter \in 0..MaxCounter /\ p.scan \in 0..MaxScan
  BY DEF PollRows
<1>2. PICK f : f = G!EntryOf(p.session)
  OBVIOUS
<1>3. /\ f \in G!Entry /\ f.session = p.session /\ p.scan >= f.scan
      /\ (G!Known(p.session) = {} \/ \E i \in DOMAIN sessions : f = sessions[i])
  BY <1>1, <1>2, GateEntry DEF G!Fresh
<1>4. k \in 0..MaxScan
  BY <1>1, <1>2, <1>3 DEF G!Entry
<1>5. e = [f EXCEPT !.counter = p.counter, !.scan = p.scan, !.handled = k]
  BY <1>2, <1>3 DEF G!Entry
<1>6. e \in G!Entry /\ e.session = p.session /\ e.scan = p.scan /\ e.handled = k
  BY <1>1, <1>3, <1>4, <1>5 DEF G!Entry
<1>7. PICK q : q = G!With(e)
  OBVIOUS
<1>8. forgot' = (forgot \/ GateCrowded(e))
  BY DEF GateCrowded
<1>9. /\ q \in Seq(G!Entry) /\ Len(q) <= Kept
      /\ \A i, j \in DOMAIN q : q[i].session = q[j].session => i = j
      /\ \A i \in DOMAIN q : q[i] = e \/ (q[i].session # e.session /\ \E j \in DOMAIN sessions : q[i] = sessions[j])
      /\ ~ GateCrowded(e) =>
           /\ \E i \in DOMAIN q : q[i] = e
           /\ \A j \in DOMAIN sessions : sessions[j].session # e.session => \E i \in DOMAIN q : q[i] = sessions[j]
  <2>1. GateFollows(q, e)
    BY <1>6, <1>7, GateWith
  <2> QED
    BY <2>1 DEF GateFollows
<1>10. sessions' = q /\ (~ forgot' => ~ forgot /\ ~ GateCrowded(e))
  BY <1>7, <1>8, Zenon
<1>11. GateSessions'
  BY <1>9, <1>10 DEF GateSessions
<1>12. ASSUME ~ forgot', NEW t, t.session = p.session,
              p.scan >= t.scan, p.scan = t.scan => k = t.scan
       PROVE  GateHandled(t)'
  <2>1. \E i \in DOMAIN q : q[i] = e
    BY <1>9, <1>10, <1>12
  <2>2. \A i \in DOMAIN q : q[i].session = t.session => q[i] = e
    BY <1>6, <1>9, <1>12
  <2>3. \E i \in DOMAIN q : q[i].session = t.session
    BY <1>6, <1>12, <2>1
  <2>4. \A i \in DOMAIN q : q[i].session = t.session => q[i].scan >= t.scan /\ (q[i].scan = t.scan => q[i].handled = t.scan)
    BY <1>6, <1>12, <2>2
  <2>5. sessions' = q
    BY <1>10
  <2> QED
    BY <2>3, <2>4, <2>5 DEF GateHandled
<1>13. ASSUME ~ forgot', NEW t \in told PROVE GateHandled(t)'
  <2>0. ~ forgot
    BY <1>10, <1>13, Zenon
  <2>1. GateHandled(t) /\ t.scan \in Nat
    BY <1>13, <2>0 DEF GateAsked, G!Taps
  <2>2. CASE t.session = p.session
    <3>1. PICK i \in DOMAIN sessions : f = sessions[i]
      BY <1>3, <2>1, <2>2 DEF GateHandled, G!Known
    <3>2. f.scan >= t.scan /\ (f.scan = t.scan => f.handled = t.scan)
      BY <1>3, <2>1, <2>2, <3>1 DEF GateHandled
    <3>3. f.scan \in Nat /\ p.scan \in Nat
      BY <1>1, <1>3 DEF G!Entry
    <3>4. p.scan >= t.scan /\ (p.scan = t.scan => k = t.scan)
      BY <1>2, <1>3, <2>1, <3>2, <3>3
    <3> QED
      BY <1>12, <1>13, <2>2, <3>4
  <2>3. CASE t.session # p.session
    <3>1. PICK j \in DOMAIN sessions : sessions[j].session = t.session
      BY <2>1 DEF GateHandled
    <3>2. \E i \in DOMAIN q : q[i] = sessions[j]
      BY <1>6, <1>9, <1>10, <1>13, <2>3, <3>1
    <3>3. ASSUME NEW i \in DOMAIN q, q[i].session = t.session
          PROVE  q[i].scan >= t.scan /\ (q[i].scan = t.scan => q[i].handled = t.scan)
      <4>1. q[i] # e
        BY <1>6, <2>3, <3>3
      <4>2. PICK l \in DOMAIN sessions : q[i] = sessions[l]
        BY <1>9, <3>3, <4>1
      <4> QED
        BY <2>1, <3>3, <4>2 DEF GateHandled
    <3> QED
      BY <1>10, <3>1, <3>2, <3>3 DEF GateHandled
  <2> QED
    BY <2>2, <2>3
<1>14. ASSUME ~ forgot', k = p.scan PROVE GateHandled([session |-> p.session, scan |-> p.scan])'
  <2>1. PICK t : t = [session |-> p.session, scan |-> p.scan]
    OBVIOUS
  <2>2. t.session = p.session /\ t.scan = p.scan /\ p.scan \in Nat
    BY <1>1, <2>1
  <2>3. GateHandled(t)'
    BY <1>12, <1>14, <2>2
  <2> QED
    BY <2>1, <2>3
<1> QED
  BY <1>11, <1>13, <1>14

LEMMA GateTake == ASSUME GateInv, NEW p \in polls, G!Take(p) PROVE GateInv'
<1> DEFINE f == G!EntryOf(p.session)
           e == [f EXCEPT !.counter = p.counter, !.scan = p.scan]
           tap == [session |-> p.session, scan |-> p.scan]
           no == G!Reply(p, FALSE, 0, None, 0)
<1>0. /\ GateTypes /\ GatePolls /\ GateHand /\ GateReplies /\ GateSessions /\ GateAsked /\ p \in PollRows
      /\ GateReads(p.session, p.scan, p.card)
  BY DEF GateInv, GateTypes, GatePolls
<1>1. polls' = polls \ {p} /\ UNCHANGED <<clock, reader, power, trouble>> /\ hand.at = "free"
  BY DEF G!Take
<1>2. f \in G!Entry /\ f.session = p.session /\ (G!Known(p.session) = {} \/ \E i \in DOMAIN sessions : f = sessions[i])
  BY <1>0, GateEntry DEF PollRows
<1>3. GatePolls'
  BY <1>0, <1>1 DEF GatePolls, GateReads
<1>4. CASE UNCHANGED <<replies, sessions, hand, told, twice, forgot>>
  <2>1. GateTypes' /\ GateHand' /\ GateReplies'
    BY <1>0, <1>1, <1>4 DEF GateTypes, GateHand, GateReplies, GateReads
  <2> QED
    BY <1>0, <1>3, <1>4, <2>1, GateKept DEF GateInv
<1>5. CASE /\ G!Fresh(p)
           /\ forgot' = (forgot \/ G!Cardinality({e.session} \cup {sessions[i].session : i \in DOMAIN sessions}) > Kept)
           /\ sessions' = G!With(e)
           /\ G!Send(no)
           /\ UNCHANGED <<hand, told, twice>>
  <2>1. e = [e EXCEPT !.handled = f.handled]
    BY <1>2 DEF G!Entry
  <2>2. GateSessions' /\ (~ forgot' => \A t \in told : GateHandled(t)')
    BY <1>0, <1>5, <2>1, GateRemembers
  <2>3. no \in AnswerRows /\ ~ no.decided
    BY <1>0, LinkAssumption DEF G!Reply, AnswerRows, PollRows
  <2>4. GateReplies' /\ replies' \subseteq AnswerRows
    BY <1>0, <1>1, <1>5, <2>3, GateSend
  <2>5. GateTypes' /\ GateHand'
    BY <1>0, <1>1, <1>5, <2>4 DEF GateTypes, GateHand, GateReads
  <2>6. GateAsked'
    BY <1>0, <1>5, <2>2 DEF GateAsked
  <2> QED
    BY <1>3, <2>2, <2>4, <2>5, <2>6 DEF GateInv
<1>6. CASE /\ G!Fresh(p) /\ G!Decides(p)
           /\ forgot' = (forgot \/ G!Cardinality({e.session} \cup {sessions[i].session : i \in DOMAIN sessions}) > Kept)
           /\ sessions' = G!With([e EXCEPT !.handled = p.scan])
           /\ hand' = [G!Free EXCEPT !.at = "asked", !.poll = p, !.since = clock]
           /\ told' = told \cup {tap} /\ twice' = (twice \/ tap \in told)
           /\ UNCHANGED replies
  <2>1. [e EXCEPT !.handled = p.scan].session = e.session
    BY <1>2 DEF G!Entry
  <2>2. /\ GateSessions' /\ (~ forgot' => \A t \in told : GateHandled(t)')
        /\ ~ forgot' => GateHandled(tap)'
    BY <1>0, <1>6, <2>1, GateRemembers
  <2>3. hand' \in HandRows /\ hand'.at = "asked" /\ hand'.poll = p /\ hand'.since = clock
    <3>1. p \in PollRows \cup {G!NoPoll} /\ clock \in G!Time /\ G!Free \in HandRows
      BY <1>0, GateIdle DEF GateTypes
    <3>2. hand' = [G!Free EXCEPT !.at = "asked", !.poll = p, !.since = clock]
      BY <1>6
    <3> QED
      BY <3>1, <3>2 DEF HandRows
  <2>4. GateTypes' /\ GateReplies'
    BY <1>0, <1>1, <1>6, <2>3 DEF GateTypes, GateReplies, GateReads
  <2>5. GateHand'
    <3>1. p.card # None
      BY <1>6 DEF G!Decides
    <3>2. clock \in Nat
      BY <1>0, GateNatural
    <3> QED
      BY <1>0, <1>1, <2>3, <3>1, <3>2 DEF GateHand, GateReads
  <2>6. ASSUME tap \in told PROVE forgot
    <3>1. SUFFICES ASSUME ~ forgot PROVE FALSE
      OBVIOUS
    <3>2. GateHandled(tap) /\ tap.session = p.session /\ tap.scan = p.scan
      BY <1>0, <2>6, <3>1 DEF GateAsked
    <3>3. PICK i \in DOMAIN sessions : f = sessions[i]
      BY <1>2, <3>2 DEF GateHandled, G!Known
    <3>4. f.scan >= p.scan /\ (f.scan = p.scan => f.handled = p.scan)
      BY <1>2, <3>2, <3>3 DEF GateHandled
    <3>5. p.scan >= f.scan /\ f.handled # p.scan /\ p.scan \in Nat /\ f.scan \in Nat
      BY <1>0, <1>2, <1>6 DEF G!Fresh, G!Decides, PollRows, G!Entry
    <3> QED
      BY <3>4, <3>5
  <2>7. tap \in G!Taps
    BY <1>0 DEF G!Taps, PollRows, GateBoots
  <2>8. GateAsked'
    BY <1>0, <1>6, <2>2, <2>6, <2>7 DEF GateAsked
  <2> QED
    BY <1>3, <2>2, <2>4, <2>5, <2>8 DEF GateInv
<1> QED
  BY <1>4, <1>5, <1>6 DEF G!Take, G!History

LEMMA GateDecide == ASSUME GateInv, G!Decide PROVE GateInv'
<1>0. GateTypes /\ GatePolls /\ GateHand /\ GateReplies /\ hand \in HandRows
  BY DEF GateInv, GateTypes
<1>1. hand.at = "asked" /\ UNCHANGED <<clock, reader, power, polls, replies, sessions, told, twice, forgot, trouble>>
  BY DEF G!Decide, G!History
<1>2. PICK allowed \in BOOLEAN : hand' = [hand EXCEPT !.at = "answered", !.allowed = allowed, !.end = IF allowed THEN clock + Lease ELSE 0]
  BY DEF G!Decide
<1>3. (IF allowed THEN clock + Lease ELSE 0) \in 0..Ticks + Lease
  BY <1>0, GateNatural, LinkAssumption
<1>4. hand' \in HandRows
  BY <1>0, <1>2, <1>3 DEF HandRows
<1>5. /\ hand'.at = "answered" /\ hand'.poll = hand.poll /\ hand'.since = hand.since
      /\ hand'.allowed = allowed /\ hand'.end = (IF allowed THEN clock + Lease ELSE 0)
  BY <1>0, <1>2 DEF HandRows
<1>6. GateTypes' /\ GatePolls' /\ GateReplies'
  BY <1>0, <1>1, <1>4 DEF GateTypes, GatePolls, GateReplies, GateReads
<1>7. GateHand'
  <2>1. hand.since <= clock /\ clock + Lease >= hand.since + Lease
    BY <1>0, <1>1, GateNatural, LinkAssumption DEF GateHand
  <2> QED
    BY <1>0, <1>1, <1>5, <2>1 DEF GateHand, GateReads
<1>8. GateSessions' /\ GateAsked'
  BY <1>1, GateKept DEF GateInv
<1> QED
  BY <1>6, <1>7, <1>8 DEF GateInv

LEMMA GateConclude == ASSUME GateInv, G!Conclude PROVE GateInv'
<1> DEFINE p == hand.poll
           no == G!Reply(p, TRUE, 0, None, 0)
           failed == G!Reply(p, FALSE, 0, None, 0)
<1>0. GateTypes /\ GatePolls /\ GateHand /\ GateReplies /\ hand \in HandRows
  BY DEF GateInv, GateTypes
<1>1. /\ hand.at = "answered" /\ hand' = G!Free
      /\ UNCHANGED <<clock, reader, power, polls, sessions, told, twice, forgot, trouble>>
  BY DEF G!Conclude, G!History
<1>2. /\ p \in PollRows /\ p.card # None /\ GateReads(p.session, p.scan, p.card)
      /\ hand.allowed => hand.since + Lease <= hand.end
  BY <1>0, <1>1 DEF GateHand
<1>3. no \in AnswerRows /\ failed \in AnswerRows /\ ~ (no.grant > 0) /\ ~ failed.decided
  BY <1>2, LinkAssumption DEF G!Reply, AnswerRows, PollRows
<1>4. GateReplies' /\ replies' \subseteq AnswerRows
  <2>1. CASE G!Send(no)
    BY <1>0, <1>1, <1>3, <2>1, GateSend
  <2>2. CASE G!Send(failed)
    BY <1>0, <1>1, <1>3, <2>2, GateSend
  <2>3. ASSUME hand.allowed, NEW u \in clock + 1 .. hand.since + Lease,
               G!Send(G!Reply(p, TRUE, IF u - clock < MaxGrant THEN u - clock ELSE MaxGrant, p.card, hand.end))
        PROVE  GateReplies' /\ replies' \subseteq AnswerRows
    <3>1. PICK n : n = IF u - clock < MaxGrant THEN u - clock ELSE MaxGrant
      OBVIOUS
    <3>2. n \in 0..MaxGrant /\ clock + n <= hand.since + Lease
      BY <1>0, <2>3, <3>1, GateNatural, LinkAssumption
    <3>3. PICK r : r = G!Reply(p, TRUE, n, p.card, hand.end)
      OBVIOUS
    <3>4. hand.end \in 0..Ticks + Lease /\ p.session \in GateBoots /\ p.counter \in 0..MaxCounter
          /\ p.scan \in 0..MaxScan /\ p.card \in Tx \cup {None}
      BY <1>0, <1>2 DEF HandRows, PollRows
    <3>5. r \in AnswerRows /\ r.session = p.session /\ r.scan = p.scan /\ r.for = p.card /\ r.grant = n /\ r.end = hand.end
      BY <3>2, <3>3, <3>4 DEF G!Reply, AnswerRows
    <3>6. reader.waits => reader.since + n <= hand.end
      <4>1. reader.waits => reader.since <= clock
        BY <1>0 DEF GateTypes
      <4>2. n \in Nat
        BY <3>2
      <4> QED
        BY <1>0, <1>2, <2>3, <3>2, <4>1, <4>2, GateNatural, LinkAssumption
    <3>7. G!Send(r)
      BY <2>3, <3>1, <3>3
    <3> QED
      BY <1>0, <1>1, <1>2, <3>5, <3>6, <3>7, GateSend
  <2> QED
    BY <2>1, <2>2, <2>3 DEF G!Conclude
<1>5. GateTypes' /\ GatePolls' /\ GateHand'
  BY <1>0, <1>1, <1>4, GateIdle DEF GateTypes, GatePolls, GateHand, GateReads
<1>6. GateSessions' /\ GateAsked'
  BY <1>1, GateKept DEF GateInv
<1> QED
  BY <1>4, <1>5, <1>6 DEF GateInv

LEMMA GateRestart == ASSUME GateInv, G!Restart PROVE GateInv'
<1>0. GateTypes /\ GateAsked /\ reader \in ReaderRows /\ 0 \in G!Time
  BY LinkAssumption DEF GateInv, GateTypes, G!Time
<1>1. /\ sessions' = <<>> /\ hand' = G!Free /\ polls' = {} /\ replies' = {}
      /\ reader' = [reader EXCEPT !.waits = FALSE, !.since = 0]
      /\ forgot' /\ trouble' \in 0..MaxTrouble /\ trouble' = trouble + 1
      /\ UNCHANGED <<clock, power, told, twice>>
  <2>1. trouble < MaxTrouble /\ trouble' = trouble + 1
    BY DEF G!Restart
  <2>2. trouble' \in 0..MaxTrouble
    BY <1>0, <2>1, GateNatural, LinkAssumption
  <2> QED
    BY <2>1, <2>2, Zenon DEF G!Restart
<1>2. reader' \in ReaderRows /\ GateSame /\ ~ reader'.waits
  BY <1>0, <1>1 DEF ReaderRows, GateSame
<1>3. GateTypes'
  BY <1>0, <1>1, <1>2, GateIdle, GateNatural DEF GateTypes, GateSame
<1>4. GatePolls' /\ GateHand' /\ GateReplies'
  BY <1>1, GateIdle DEF GatePolls, GateHand, GateReplies
<1>5. GateSessions' /\ GateAsked'
  BY <1>0, <1>1, LinkAssumption DEF GateSessions, GateAsked
<1> QED
  BY <1>3, <1>4, <1>5 DEF GateInv

LEMMA GateNext == GateInv /\ [G!Next]_G!vars => GateInv'
<1> SUFFICES ASSUME GateInv, [G!Next]_G!vars PROVE GateInv'
  OBVIOUS
<1>1. CASE UNCHANGED G!vars
  <2>1. UNCHANGED <<clock, reader, power, polls, replies, sessions, hand, told, twice, forgot, trouble>>
    BY <1>1 DEF G!vars
  <2>2. GateTypes' /\ GatePolls' /\ GateHand' /\ GateReplies'
    BY <2>1 DEF GateInv, GateTypes, GatePolls, GateHand, GateReplies, GateReads
  <2> QED
    BY <2>1, <2>2, GateKept DEF GateInv
<1>2. CASE G!Next
  BY <1>2, GateTick, GatePoll, GateGiveUp, GateBoot, GateTap, GateHear, GateTake, GateDecide, GateConclude, GateRestart DEF G!Next
<1> QED
  BY <1>1, <1>2

\* What the invariant says of the grants and of the decisions.
LEMMA GateGrant == GateInv => G!TypeOK /\ G!GrantsItsTap /\ G!OffInTime /\ G!AskedOnce
<1> SUFFICES ASSUME GateInv PROVE G!TypeOK
  BY DEF GateInv, GateTypes, GateAsked, G!GrantsItsTap, G!OffInTime, G!AskedOnce
<1>1. \A i \in DOMAIN sessions : sessions[i] \in G!Entry
  BY DEF GateInv, GateSessions
<1> QED
  BY <1>1 DEF GateInv, GateTypes, G!TypeOK, ReaderRows, PowerRows, HandRows, GateBoots

\* A reader that polls the gateway grants to the card whose decision it has, no
\* longer than the server's lease and the time an answer takes, and a tap is
\* decided once.
THEOREM GateGrants == G!Spec => [](G!GrantsItsTap /\ G!OffInTime /\ G!AskedOnce)
  BY GateStart, GateNext, GateGrant, PTL DEF G!Spec

-----------------------------------------------------------------------------
(* The set-up of a reader.                                                 *)

\* The port's executor works for the job.
PortBusy(j) == queue # <<>> /\ U!task.job = j

\* A job that there was not yet.
SetupFresh(j) ==
  /\ job[j] = U!NoRow /\ worker[j] = U!Idle /\ update[j] = None /\ profile # j /\ chip # j /\ ~ PortBusy(j)
  /\ (report # None => report.said[j] = None) /\ (answer # None => answer[j].status = None)

\* A job that is over, and the agent done with it.
SetupPast(j) ==
  /\ job[j].status \in U!Over /\ worker[j].thread # "alive" /\ profile # j /\ ~ PortBusy(j)
  /\ answer # None => answer[j].status \in U!Over \cup {None}

SetupRows ==
  \A j \in Job : /\ job[j].enabled => job[j].status = "complete"
                 /\ job[j].status = None => SetupFresh(j)
                 /\ worker[j].thread = None => worker[j] = U!Idle

\* There is one job at a time.
SetupOne == \A j, k \in Job : j = k \/ SetupFresh(j) \/ SetupPast(j) \/ SetupFresh(k) \/ SetupPast(k)

SetupReplies ==
  answer # None =>
    /\ report = None
    /\ \A j \in Job : /\ answer[j].status \in U!Over => job[j].status \in U!Over
                      /\ answer[j].status = "complete" => job[j].status = "complete"
                      /\ answer[j].status \in {"queued", "working"} => job[j].status \in {"queued", "working"} \cup U!Over
                      /\ answer[j].told => job[j].told

\* What a task has done so far.
TaskFits(t) ==
  /\ worker[t.job].thread # None /\ t.previous = None
  /\ t.do # "recover" => worker[t.job].thread = "alive"
  /\ t.do = "recover" => t.at = "verify" /\ job[t.job].status \in U!Over /\ profile # t.job
  /\ t.do = "resume" => t.at \in {"verify", "beat"} /\ profile = t.job
  /\ t.do = "provision" =>
       /\ t.at \in {"start", "backup", "pair", "save", "rollback"} => profile # t.job
       /\ t.at \in {"verify", "beat"} => profile = t.job
       /\ t.at = "save" => chip = t.job
       /\ t.at \in {"save", "verify", "beat"} => t.changed
       /\ t.at = "pair" \/ t.changed => backup[t.job] # None
       /\ ~ t.changed /\ crashes = 0 => chip # t.job

SetupTask == queue = <<>> \/ (U!task \in U!Task /\ queue = <<U!task>> /\ TaskFits(U!task))

SetupProfile == profile # None => chip = profile

SetupBackups ==
  \A k \in Job : /\ backup[k] # k
                 /\ chip = k => backup[k] # None
                 /\ \A i \in Job : backup[i] = k => backup[k] # None /\ SetupPast(k)

\* The port is paired for the job, and nothing undoes it.
PortPaired(j) == chip = j /\ profile = j /\ (queue # <<>> => U!task.do = "resume" /\ U!task.job = j)

SetupClaimed(j) == job[j].status = "complete" \/ update[j] = "complete" \/ (report # None /\ report.said[j] = "complete")

SetupPaired == \A j \in Job : job[j].status \notin U!Over /\ SetupClaimed(j) => PortPaired(j)

RecoveryTold(k) == job[k].told \/ update[k] = "recovery"

SetupTold ==
  crashes = 0 => \A k \in Job :
    /\ worker[k].thread = None => chip # k /\ update[k] # "recovery" /\ \A i \in Job : backup[i] # k
    /\ \A i \in Job : backup[i] = k => RecoveryTold(k)
    /\ chip = k /\ profile # k /\ ~ PortBusy(k) => RecoveryTold(k)

SetupInv ==
  /\ U!TypeOK /\ SetupRows /\ SetupOne /\ SetupReplies /\ SetupTask /\ SetupProfile /\ SetupBackups
  /\ SetupPaired /\ SetupTold

SetupStatus == {None, "queued", "working"} \cup U!Terminal
SetupJobs == [status : SetupStatus, told : BOOLEAN, enabled : BOOLEAN, revision : 0..MaxEdit]
SetupWorkers == [thread : {None, "alive", "done"}, cancelled : BOOLEAN, accepted : BOOLEAN]
SetupAnswers == [status : SetupStatus, told : BOOLEAN]

LEMMA SetupTypes ==
  U!TypeOK <=> /\ job \in [Job -> SetupJobs] /\ beat \in [Job -> BOOLEAN] /\ chip \in Job \cup {"original"}
               /\ profile \in Job \cup {None} /\ backup \in [Job -> Job \cup {"original", None}]
               /\ update \in [Job -> U!Update] /\ worker \in [Job -> SetupWorkers] /\ queue \in Seq(U!Task)
               /\ (report = None \/ report \in [said : [Job -> U!Update], awaited : BOOLEAN])
               /\ (answer = None \/ answer \in [Job -> SetupAnswers]) /\ crashes \in 0..MaxCrashes
BY DEF U!TypeOK, SetupJobs, SetupWorkers, SetupAnswers, SetupStatus

LEMMA OneTask ==
  ASSUME NEW t
  PROVE  Head(<<t>>) = t /\ Tail(<<t>>) = <<>> /\ <<t>> # <<>> /\ DOMAIN <<t>> = {1} /\ <<t>>[1] = t
  OBVIOUS

LEMMA FirstTask ==
  ASSUME NEW t
  PROVE  <<>> \o <<t>> = <<t>> /\ <<>> \o <<>> \o <<t>> = <<t>> /\ <<>> \o <<t>> \o <<>> = <<t>>
  OBVIOUS

LEMMA SetupNone ==
  /\ None \notin Job /\ "original" \notin Job /\ None # "original" /\ None \notin U!Over /\ None # "complete"
  /\ None # "alive" /\ None # "done" /\ None # "recovery" /\ None \notin {"queued", "working"}
  /\ U!NoRow.status = None /\ ~ U!NoRow.enabled /\ ~ U!NoRow.told /\ U!Idle.thread = None
BY SetupAssumption DEF U!Over, U!NoRow, U!Idle

LEMMA SetupRest ==
  ASSUME SetupTask, NEW j \in Job, job[j].status \in U!Over, U!Settled(j)
  PROVE  SetupPast(j)
<1>1. ~ PortBusy(j)
  <2> SUFFICES ASSUME PortBusy(j) PROVE FALSE
    OBVIOUS
  <2>1. PICK t : t = U!task /\ queue = <<t>>
    BY DEF SetupTask, PortBusy
  <2>2. 1 \in DOMAIN queue /\ queue[1] = t
    BY <2>1, OneTask
  <2> QED
    BY <2>1, <2>2 DEF PortBusy, U!Settled
<1> QED
  BY <1>1 DEF SetupPast, U!Settled

LEMMA SetupStart == U!Init => SetupInv
<1> SUFFICES ASSUME U!Init PROVE SetupInv
  OBVIOUS
<1>1. /\ job = [j \in Job |-> U!NoRow] /\ beat = [j \in Job |-> FALSE] /\ chip = "original" /\ profile = None
      /\ backup = [j \in Job |-> None] /\ update = [j \in Job |-> None] /\ worker = [j \in Job |-> U!Idle]
      /\ queue = <<>> /\ report = None /\ answer = None /\ crashes = 0
  BY DEF U!Init
<1>2. U!NoRow \in SetupJobs /\ U!Idle \in SetupWorkers /\ 0 \in 0..MaxCrashes
  <2>1. 0 \in 0..MaxEdit /\ 0 \in 0..MaxCrashes
    BY SetupAssumption
  <2> QED
    BY <2>1 DEF U!NoRow, SetupJobs, SetupStatus, U!Idle, SetupWorkers
<1>3. U!TypeOK
  <2>1. queue \in Seq(U!Task)
    BY <1>1
  <2> QED
    BY <1>1, <1>2, <2>1, SetupTypes DEF U!Update
<1>4. \A j \in Job : SetupFresh(j)
  BY <1>1, SetupNone DEF SetupFresh, PortBusy
<1>5. SetupRows /\ SetupOne /\ SetupReplies /\ SetupTask /\ SetupProfile /\ SetupBackups
  BY <1>1, <1>4, SetupNone DEF SetupRows, SetupOne, SetupReplies, SetupTask, SetupProfile, SetupBackups
<1>6. SetupPaired /\ SetupTold
  BY <1>1, SetupNone DEF SetupPaired, SetupTold, SetupClaimed, RecoveryTold
<1> QED
  BY <1>3, <1>5, <1>6 DEF SetupInv

-----------------------------------------------------------------------------
(* The worker's steps.                                                     *)

\* What the worker does for a job leaves the other jobs alone.
PortWorks(k) ==
  /\ PortBusy(k) /\ UNCHANGED <<job, report, answer, crashes>>
  /\ \A j \in Job \ {k} : update'[j] = update[j] /\ worker'[j] = worker[j] /\ backup'[j] = backup[j]
  /\ worker'[k].thread # None /\ profile' \in {profile, None, k} /\ (queue' = <<>> \/ U!task'.job = k)
  /\ chip' \in {chip, k} \cup ({backup[k]} \ {None}) /\ (chip' = k => backup'[k] # None)
  /\ backup'[k] = backup[k] \/ (backup[k] = None /\ backup'[k] = chip)
  /\ update'[k] = "complete" /\ job[k].status \notin U!Over => chip' = k /\ profile' = k /\ (queue' = <<>> \/ U!task'.do = "resume")
  /\ U!task.do = "resume" => chip' = chip /\ profile' = profile /\ (queue' = <<>> \/ U!task'.do = "resume")
  /\ crashes = 0 /\ queue' = <<>> => chip' # k \/ profile' = k \/ update'[k] = "recovery"

LEMMA SetupOthers ==
  ASSUME SetupInv, NEW k \in Job, PortWorks(k)
  PROVE  /\ \A j \in Job \ {k} : /\ SetupFresh(j) \/ SetupPast(j)
                                 /\ profile # j /\ profile' # j /\ ~ PortBusy(j) /\ ~ PortBusy(j)'
                                 /\ SetupFresh(j) => SetupFresh(j)'
         /\ ~ SetupFresh(k) /\ ~ SetupPast(k) /\ \A j \in Job : SetupPast(j) => SetupPast(j)'
<1>1. ~ SetupFresh(k) /\ ~ SetupPast(k)
  BY DEF PortWorks, SetupFresh, SetupPast
<1>2. \A j \in Job \ {k} : SetupFresh(j) \/ SetupPast(j)
  BY <1>1 DEF SetupInv, SetupOne
<1>3. \A j \in Job \ {k} : profile # j /\ profile' # j /\ ~ PortBusy(j) /\ ~ PortBusy(j)'
  <2>1. \A j \in Job \ {k} : profile # j /\ ~ PortBusy(j)
    BY <1>2 DEF SetupFresh, SetupPast
  <2> QED
    BY <2>1, SetupNone DEF PortWorks, PortBusy
<1>4. ASSUME NEW j \in Job \ {k}, SetupFresh(j) PROVE SetupFresh(j)'
  <2>1. backup[k] # j
    BY <1>4, SetupNone DEF SetupInv, SetupBackups, SetupPast, SetupFresh
  <2>2. chip' # j
    BY <1>4, <2>1 DEF PortWorks, SetupFresh
  <2> QED
    BY <1>3, <1>4, <2>2 DEF PortWorks, SetupFresh
<1>5. ASSUME NEW j \in Job, SetupPast(j) PROVE SetupPast(j)'
  BY <1>1, <1>3, <1>5 DEF PortWorks, SetupPast
<1> QED
  BY <1>1, <1>2, <1>3, <1>4, <1>5

LEMMA SetupWorks ==
  ASSUME SetupInv, NEW k \in Job, PortWorks(k), U!TypeOK', SetupTask', SetupProfile'
  PROVE  SetupInv'
<1>1. /\ \A j \in Job \ {k} : /\ SetupFresh(j) \/ SetupPast(j)
                              /\ profile # j /\ profile' # j /\ ~ PortBusy(j) /\ ~ PortBusy(j)'
                              /\ SetupFresh(j) => SetupFresh(j)'
      /\ ~ SetupFresh(k) /\ ~ SetupPast(k) /\ \A j \in Job : SetupPast(j) => SetupPast(j)'
  BY SetupOthers
<1>2. SetupRows /\ SetupReplies /\ SetupBackups /\ SetupPaired /\ SetupTold
  BY DEF SetupInv
<1>3. SetupRows'
  <2>1. job[k].status # None
    BY <1>1, <1>2 DEF SetupRows
  <2>2. \A j \in Job : job'[j] = job[j] /\ (worker'[j].thread = None => worker'[j] = worker[j] /\ j # k)
    BY DEF PortWorks
  <2> QED
    BY <1>1, <1>2, <2>1, <2>2 DEF SetupRows
<1>4. SetupOne'
  BY <1>1 DEF SetupOne
<1>5. SetupReplies'
  BY <1>2 DEF SetupReplies, PortWorks
<1>6. SetupBackups'
  <2>1. ASSUME NEW j \in Job PROVE backup'[j] # j /\ (chip' = j => backup'[j] # None)
    BY <1>2, <2>1, SetupNone DEF PortWorks, SetupBackups
  <2>2. ASSUME NEW j \in Job, NEW i \in Job, backup'[i] = j PROVE backup'[j] # None /\ SetupPast(j)'
    <3>1. CASE backup[i] = j
      <4>1. SetupPast(j) /\ backup[j] # None /\ j # k
        BY <1>1, <1>2, <3>1 DEF SetupBackups
      <4> QED
        BY <1>1, <4>1 DEF PortWorks
    <3>2. CASE backup[i] # j
      <4>1. i = k /\ backup[k] = None /\ chip = j
        BY <2>2, <3>2 DEF PortWorks
      <4>2. j # k /\ backup[j] # None
        BY <1>2, <4>1 DEF SetupBackups
      <4>3. SetupPast(j)
        BY <1>1, <4>1, <4>2 DEF SetupFresh
      <4> QED
        BY <1>1, <4>2, <4>3 DEF PortWorks
    <3> QED
      BY <3>1, <3>2
  <2> QED
    BY <2>1, <2>2 DEF SetupBackups
<1>7. SetupPaired'
  <2> SUFFICES ASSUME NEW j \in Job, job'[j].status \notin U!Over, SetupClaimed(j)' PROVE PortPaired(j)'
    BY DEF SetupPaired
  <2>1. CASE SetupClaimed(j)
    <3>1. PortPaired(j) /\ j = k /\ U!task.do = "resume"
      BY <1>2, <2>1 DEF SetupPaired, PortWorks, PortPaired, PortBusy
    <3> QED
      BY <3>1 DEF PortPaired, PortWorks
  <2>2. CASE ~ SetupClaimed(j)
    <3>1. j = k /\ update'[k] = "complete"
      BY <2>2 DEF SetupClaimed, PortWorks
    <3> QED
      BY <3>1 DEF PortPaired, PortWorks
  <2> QED
    BY <2>1, <2>2
<1>8. SetupTold'
  <2> SUFFICES ASSUME crashes = 0
               PROVE  \A j \in Job : /\ worker'[j].thread = None => /\ chip' # j /\ update'[j] # "recovery"
                                                                   /\ \A i \in Job : backup'[i] # j
                                     /\ \A i \in Job : backup'[i] = j => RecoveryTold(j)'
                                     /\ chip' = j /\ profile' # j /\ ~ PortBusy(j)' => RecoveryTold(j)'
    BY DEF SetupTold, PortWorks
  <2>0. \A j \in Job : /\ worker[j].thread = None => chip # j /\ update[j] # "recovery" /\ \A i \in Job : backup[i] # j
                       /\ \A i \in Job : backup[i] = j => RecoveryTold(j)
                       /\ chip = j /\ profile # j /\ ~ PortBusy(j) => RecoveryTold(j)
    BY <1>2 DEF SetupTold
  <2>1. \A j \in Job \ {k} : (RecoveryTold(j) => RecoveryTold(j)') /\ (chip = j => RecoveryTold(j))
    BY <1>1, <2>0 DEF PortWorks, RecoveryTold
  <2>2. \A i \in Job : backup'[i] = backup[i] \/ backup'[i] = chip
    BY DEF PortWorks
  <2>3. ASSUME NEW j \in Job, worker'[j].thread = None
        PROVE  chip' # j /\ update'[j] # "recovery" /\ \A i \in Job : backup'[i] # j
    <3>1. j # k /\ worker[j].thread = None /\ update'[j] = update[j]
      BY <2>3 DEF PortWorks
    <3>2. chip # j /\ update[j] # "recovery" /\ \A i \in Job : backup[i] # j
      BY <2>0, <3>1
    <3>3. chip' # j
      BY <3>1, <3>2 DEF PortWorks
    <3> QED
      BY <2>2, <3>1, <3>2, <3>3
  <2>4. ASSUME NEW j \in Job, NEW i \in Job, backup'[i] = j PROVE RecoveryTold(j)'
    <3>1. SetupPast(j)'
      BY <1>6, <2>4 DEF SetupBackups
    <3>2. j # k
      <4>1. CASE backup[i] = j
        BY <1>1, <1>2, <4>1 DEF SetupBackups
      <4>2. CASE backup[i] # j
        BY <1>2, <2>4, <4>2 DEF SetupBackups, PortWorks
      <4> QED
        BY <4>1, <4>2
    <3> QED
      BY <2>0, <2>1, <2>2, <2>4, <3>2
  <2>5. ASSUME NEW j \in Job, chip' = j, profile' # j, ~ PortBusy(j)' PROVE RecoveryTold(j)'
    <3>1. CASE j = k
      <4>1. queue' = <<>>
        BY <2>5, <3>1 DEF PortWorks, PortBusy
      <4> QED
        BY <2>5, <3>1, <4>1 DEF PortWorks, RecoveryTold
    <3>2. CASE j # k
      <4>1. chip = j \/ backup[k] = j
        BY <2>5, <3>2 DEF PortWorks
      <4> QED
        BY <2>0, <2>1, <3>2, <4>1
    <3> QED
      BY <3>1, <3>2
  <2> QED
    BY <2>3, <2>4, <2>5
<1> QED
  BY <1>3, <1>4, <1>5, <1>6, <1>7, <1>8 DEF SetupInv

\* The queue holds the running task alone.
LEMMA SetupRuns ==
  ASSUME SetupInv, queue # <<>>
  PROVE  \E t \in U!Task : /\ t = U!task /\ queue = <<t>> /\ TaskFits(t) /\ Tail(queue) = <<>> /\ t.job \in Job /\ t.previous = None
                           /\ t.changed \in BOOLEAN /\ PortBusy(t.job) /\ worker[t.job].thread # None
                           /\ profile \in {None, t.job}
<1>1. PICK t \in U!Task : t = U!task /\ queue = <<t>> /\ TaskFits(t)
  BY DEF SetupInv, SetupTask
<1>2. Tail(queue) = <<>>
  BY <1>1, OneTask
<1>3. t.job \in Job /\ t.changed \in BOOLEAN
  BY DEF U!Task
<1>4. worker[t.job].thread # None /\ t.previous = None
  BY <1>1 DEF TaskFits
<1>5. PortBusy(t.job)
  BY <1>1 DEF PortBusy
<1>6. profile \in {None, t.job}
  <2>1. \A j \in Job : j # t.job => profile # j
    BY <1>3, <1>4, <1>5 DEF SetupInv, SetupOne, SetupFresh, SetupPast
  <2>2. profile \in Job \cup {None}
    BY SetupTypes DEF SetupInv
  <2> QED
    BY <2>1, <2>2
<1> QED
  BY <1>1, <1>2, <1>3, <1>4, <1>5, <1>6

\* A step that leaves no task, or one task that fits.
LEMMA SetupMoves ==
  ASSUME SetupInv, NEW k \in Job, PortWorks(k), beat' \in [Job -> BOOLEAN], backup' \in [Job -> Job \cup {"original", None}],
         update' \in [Job -> U!Update], worker' \in [Job -> SetupWorkers],
         queue' = <<>> \/ \E u \in U!Task : queue' = <<u>> /\ TaskFits(u)',
         profile' # None => chip' = profile'
  PROVE  SetupInv'
<1>0. U!TypeOK
  BY DEF SetupInv
<1>1. SetupTask'
  <2>1. CASE queue' = <<>>
    BY <2>1 DEF SetupTask
  <2>2. CASE queue' # <<>>
    <3>1. PICK u \in U!Task : queue' = <<u>> /\ TaskFits(u)'
      BY <2>2
    <3>2. U!task' = u
      BY <3>1, OneTask DEF U!task
    <3> QED
      BY <3>1, <3>2 DEF SetupTask
  <2> QED
    BY <2>1, <2>2
<1>2. queue' \in Seq(U!Task)
  <2>1. CASE queue' = <<>>
    BY <2>1
  <2>2. CASE queue' # <<>>
    <3>1. PICK u \in U!Task : queue' = <<u>>
      BY <2>2
    <3>2. <<u>> \in Seq(U!Task)
      OBVIOUS
    <3> QED
      BY <3>1, <3>2
  <2> QED
    BY <2>1, <2>2
<1>3. chip' \in Job \cup {"original"} /\ profile' \in Job \cup {None}
  <2>1. chip \in Job \cup {"original"} /\ profile \in Job \cup {None} /\ backup[k] \in Job \cup {"original", None}
    BY <1>0, SetupTypes
  <2>2. profile' \in Job \cup {None}
    BY <2>1 DEF PortWorks
  <2>3. chip' \in {chip, k} \cup ({backup[k]} \ {None})
    BY DEF PortWorks
  <2>4. chip' \in Job \cup {"original"}
    BY <2>1, <2>3
  <2> QED
    BY <2>2, <2>4
<1>4. U!TypeOK'
  <2>1. UNCHANGED <<job, report, answer, crashes>>
    BY DEF PortWorks
  <2> QED
    BY <1>0, <1>2, <1>3, <2>1 DEF U!TypeOK, SetupWorkers
<1>5. SetupProfile'
  BY DEF SetupProfile
<1> QED
  BY <1>1, <1>4, <1>5, SetupWorks

\* The running task with its new step and notes.
LEMMA SetupGoes ==
  ASSUME NEW t \in U!Task, t = U!task, queue = <<t>>, NEW at \in {"start", "backup", "pair", "save", "verify", "beat", "finish", "undo", "rollback"},
         NEW on \in BOOLEAN, NEW u, u = [t EXCEPT !.at = at, !.changed = on]
  PROVE  /\ u \in U!Task /\ u.do = t.do /\ u.job = t.job /\ u.at = at /\ u.previous = t.previous /\ u.changed = on
         /\ <<u>> \o Tail(queue) = <<u>>
<1>1. Tail(queue) = <<>>
  BY OneTask
<1>2. <<u>> \o <<>> = <<u>>
  OBVIOUS
<1> QED
  BY <1>1, <1>2 DEF U!Task

LEMMA SetupStarts == ASSUME SetupInv, U!Start PROVE SetupInv'
<1>0. queue # <<>> /\ U!task.do = "provision" /\ U!task.at = "start"
  BY DEF U!Start, U!On
<1>1. PICK t \in U!Task : /\ t = U!task /\ queue = <<t>> /\ TaskFits(t) /\ Tail(queue) = <<>> /\ t.job \in Job /\ t.previous = None
                          /\ t.changed \in BOOLEAN /\ PortBusy(t.job) /\ worker[t.job].thread # None /\ profile \in {None, t.job}
  BY <1>0, SetupRuns
<1>2. PICK u : u = [t EXCEPT !.at = "backup", !.previous = profile] /\ queue' = <<u>> \o Tail(queue)
  BY <1>1 DEF U!Start, U!Staged
<1>3. u \in U!Task /\ u.do = t.do /\ u.job = t.job /\ u.at = "backup" /\ u.previous = None /\ u.changed = t.changed
  <2>1. profile = None
    BY <1>0, <1>1 DEF TaskFits
  <2> QED
    BY <1>1, <1>2, <2>1 DEF U!Task
<1>4. queue' = <<u>>
  BY <1>1, <1>2
<1>5. UNCHANGED <<job, beat, chip, profile, backup, worker, report, answer, crashes>> /\ update' = [update EXCEPT ![t.job] = "working"]
  BY <1>1 DEF U!Start, U!Staged, U!Disk
<1>6. U!TypeOK /\ SetupProfile /\ SetupBackups
  BY DEF SetupInv
<1>7. /\ beat' \in [Job -> BOOLEAN] /\ backup' \in [Job -> Job \cup {"original", None}] /\ worker' \in [Job -> SetupWorkers]
      /\ update' \in [Job -> U!Update] /\ update \in [Job -> U!Update] /\ worker \in [Job -> SetupWorkers]
      /\ chip \in Job \cup {"original"} /\ backup \in [Job -> Job \cup {"original", None}]
  BY <1>1, <1>5, <1>6, SetupTypes DEF U!Update
<1>8. TaskFits(u)'
  BY <1>0, <1>1, <1>2, <1>3, <1>5, <1>7, SetupNone DEF TaskFits
<1>9. U!task' = u /\ queue' # <<>>
  BY <1>4, OneTask DEF U!task
<1>10. PortWorks(t.job)
  BY <1>0, <1>1, <1>2, <1>3, <1>5, <1>6, <1>7, <1>9, SetupNone DEF PortWorks, SetupBackups, SetupProfile, TaskFits
<1>11. profile' # None => chip' = profile'
  BY <1>0, <1>1, <1>2, <1>3, <1>5, <1>6 DEF SetupProfile, TaskFits
<1>12. \E v \in U!Task : queue' = <<v>> /\ TaskFits(v)'
  BY <1>3, <1>4, <1>8
<1> QED
  BY <1>1, <1>7, <1>10, <1>11, <1>12, SetupMoves

LEMMA SetupSaves == ASSUME SetupInv, U!BackUp PROVE SetupInv'
<1>0. queue # <<>> /\ U!task.do = "provision" /\ U!task.at = "backup"
  BY DEF U!BackUp, U!On
<1>1. PICK t \in U!Task : /\ t = U!task /\ queue = <<t>> /\ TaskFits(t) /\ Tail(queue) = <<>> /\ t.job \in Job /\ t.previous = None
                          /\ t.changed \in BOOLEAN /\ PortBusy(t.job) /\ worker[t.job].thread # None /\ profile \in {None, t.job}
  BY <1>0, SetupRuns
<1>2. PICK u : u = [t EXCEPT !.at = "pair"] /\ queue' = <<u>> \o Tail(queue)
  BY <1>1 DEF U!BackUp, U!Goes, U!Staged
<1>3. u \in U!Task /\ u.do = t.do /\ u.job = t.job /\ u.previous = None /\ u.changed = t.changed /\ u.at = "pair"
  BY <1>1, <1>2 DEF U!Task
<1>4. queue' = <<u>>
  BY <1>1, <1>2
<1>5. UNCHANGED <<job, beat, chip, profile, worker, report, answer, crashes>> /\ update' = [update EXCEPT ![t.job] = "working"]
      /\ backup' = [backup EXCEPT ![t.job] = IF @ = None THEN chip ELSE @]
  BY <1>1 DEF U!BackUp, U!Goes, U!Staged, U!Disk
<1>6. U!TypeOK /\ SetupProfile /\ SetupBackups
  BY DEF SetupInv
<1>7. /\ beat' \in [Job -> BOOLEAN] /\ backup' \in [Job -> Job \cup {"original", None}] /\ worker' \in [Job -> SetupWorkers]
      /\ update' \in [Job -> U!Update] /\ update \in [Job -> U!Update] /\ worker \in [Job -> SetupWorkers]
      /\ chip \in Job \cup {"original"} /\ backup \in [Job -> Job \cup {"original", None}]
  BY <1>1, <1>5, <1>6, SetupTypes DEF U!Update
<1>8. TaskFits(u)'
  BY <1>0, <1>1, <1>2, <1>3, <1>5, <1>7, SetupNone DEF TaskFits
<1>9. U!task' = u /\ queue' # <<>>
  BY <1>4, OneTask DEF U!task
<1>10. PortWorks(t.job)
  BY <1>0, <1>1, <1>2, <1>3, <1>5, <1>6, <1>7, <1>9, SetupNone DEF PortWorks, SetupBackups, SetupProfile, TaskFits
<1>11. profile' # None => chip' = profile'
  BY <1>0, <1>1, <1>2, <1>3, <1>5, <1>6 DEF SetupProfile, TaskFits
<1>12. \E v \in U!Task : queue' = <<v>> /\ TaskFits(v)'
  BY <1>3, <1>4, <1>8
<1> QED
  BY <1>1, <1>7, <1>10, <1>11, <1>12, SetupMoves

LEMMA SetupPairs == ASSUME SetupInv, U!Pair PROVE SetupInv'
<1>0. queue # <<>> /\ U!task.do = "provision" /\ U!task.at = "pair"
  BY DEF U!Pair, U!On
<1>1. PICK t \in U!Task : /\ t = U!task /\ queue = <<t>> /\ TaskFits(t) /\ Tail(queue) = <<>> /\ t.job \in Job /\ t.previous = None
                          /\ t.changed \in BOOLEAN /\ PortBusy(t.job) /\ worker[t.job].thread # None /\ profile \in {None, t.job}
  BY <1>0, SetupRuns
<1>a. PICK on \in BOOLEAN : /\ queue' = <<[U!task EXCEPT !.at = IF on THEN "save" ELSE "undo", !.changed = TRUE]>> \o Tail(queue)
                           /\ chip' \in IF on THEN {U!task.job} ELSE {U!task.job, chip}
  BY DEF U!Pair
<1>2. PICK u : /\ u = [t EXCEPT !.at = IF on THEN "save" ELSE "undo", !.changed = TRUE] /\ queue' = <<u>> \o Tail(queue)
               /\ chip' \in {t.job, chip} /\ (on => chip' = t.job)
  BY <1>1, <1>a
<1>3. u \in U!Task /\ u.do = t.do /\ u.job = t.job /\ u.previous = None /\ u.changed /\ u.at = (IF on THEN "save" ELSE "undo")
  BY <1>1, <1>2 DEF U!Task
<1>4. queue' = <<u>>
  BY <1>1, <1>2
<1>5. UNCHANGED <<job, beat, profile, backup, worker, report, answer, crashes>> /\ update' = [update EXCEPT ![t.job] = "working"]
  BY <1>1 DEF U!Pair, U!Staged, U!Disk
<1>6. U!TypeOK /\ SetupProfile /\ SetupBackups
  BY DEF SetupInv
<1>7. /\ beat' \in [Job -> BOOLEAN] /\ backup' \in [Job -> Job \cup {"original", None}] /\ worker' \in [Job -> SetupWorkers]
      /\ update' \in [Job -> U!Update] /\ update \in [Job -> U!Update] /\ worker \in [Job -> SetupWorkers]
      /\ chip \in Job \cup {"original"} /\ backup \in [Job -> Job \cup {"original", None}]
  BY <1>1, <1>5, <1>6, SetupTypes DEF U!Update
<1>8. TaskFits(u)'
  BY <1>0, <1>1, <1>2, <1>3, <1>5, <1>7, SetupNone DEF TaskFits
<1>9. U!task' = u /\ queue' # <<>>
  BY <1>4, OneTask DEF U!task
<1>10. PortWorks(t.job)
  <2>1. /\ PortBusy(t.job) /\ UNCHANGED <<job, report, answer, crashes>>
        /\ \A j \in Job \ {t.job} : update'[j] = update[j] /\ worker'[j] = worker[j] /\ backup'[j] = backup[j]
    BY <1>1, <1>5, <1>7
  <2>2. worker'[t.job].thread # None /\ profile' \in {profile, None, t.job} /\ U!task'.job = t.job
    BY <1>1, <1>3, <1>5, <1>9
  <2>3. /\ chip' \in {chip, t.job} \cup ({backup[t.job]} \ {None}) /\ (chip' = t.job => backup'[t.job] # None)
        /\ (backup'[t.job] = backup[t.job] \/ (backup[t.job] = None /\ backup'[t.job] = chip))
    BY <1>0, <1>1, <1>2, <1>5, <1>6, <1>7 DEF SetupBackups, TaskFits
  <2>4. update'[t.job] = "complete" /\ job[t.job].status \notin U!Over => chip' = t.job /\ profile' = t.job /\ (queue' = <<>> \/ U!task'.do = "resume")
    <3>1. update[t.job] # "complete" \/ job[t.job].status \in U!Over \/ PortPaired(t.job)
      BY <1>1 DEF SetupPaired, SetupInv, SetupClaimed
    <3> QED
      BY <1>0, <1>1, <1>3, <1>5, <1>7, <1>9, <3>1 DEF PortPaired
  <2>5. U!task.do = "resume" => chip' = chip /\ profile' = profile /\ U!task'.do = "resume"
    BY <1>0, <1>1, <1>3, <1>5, <1>9
  <2> QED
    BY <1>9, <2>1, <2>2, <2>3, <2>4, <2>5 DEF PortWorks
<1>11. profile' # None => chip' = profile'
  BY <1>0, <1>1, <1>2, <1>3, <1>5, <1>6 DEF SetupProfile, TaskFits
<1>12. \E v \in U!Task : queue' = <<v>> /\ TaskFits(v)'
  BY <1>3, <1>4, <1>8
<1> QED
  BY <1>1, <1>7, <1>10, <1>11, <1>12, SetupMoves

LEMMA SetupInstalls == ASSUME SetupInv, U!Save PROVE SetupInv'
<1>0. queue # <<>> /\ U!task.do = "provision" /\ U!task.at = "save"
  BY DEF U!Save, U!On
<1>1. PICK t \in U!Task : /\ t = U!task /\ queue = <<t>> /\ TaskFits(t) /\ Tail(queue) = <<>> /\ t.job \in Job /\ t.previous = None
                          /\ t.changed \in BOOLEAN /\ PortBusy(t.job) /\ worker[t.job].thread # None /\ profile \in {None, t.job}
  BY <1>0, SetupRuns
<1>2. PICK u : u = [t EXCEPT !.at = "verify"] /\ queue' = <<u>> \o Tail(queue)
  BY <1>1 DEF U!Save, U!Goes
<1>3. u \in U!Task /\ u.do = t.do /\ u.job = t.job /\ u.previous = None /\ u.changed = t.changed /\ u.at = "verify"
  BY <1>1, <1>2 DEF U!Task
<1>4. queue' = <<u>>
  BY <1>1, <1>2
<1>5. UNCHANGED <<job, beat, chip, backup, update, worker, report, answer, crashes>> /\ profile' = t.job
  BY <1>1 DEF U!Save, U!Goes, U!Disk
<1>6. U!TypeOK /\ SetupProfile /\ SetupBackups
  BY DEF SetupInv
<1>7. /\ beat' \in [Job -> BOOLEAN] /\ backup' \in [Job -> Job \cup {"original", None}] /\ worker' \in [Job -> SetupWorkers]
      /\ update' \in [Job -> U!Update] /\ update \in [Job -> U!Update] /\ worker \in [Job -> SetupWorkers]
      /\ chip \in Job \cup {"original"} /\ backup \in [Job -> Job \cup {"original", None}]
  BY <1>1, <1>5, <1>6, SetupTypes DEF U!Update
<1>8. TaskFits(u)'
  BY <1>0, <1>1, <1>2, <1>3, <1>5, <1>7, SetupNone DEF TaskFits
<1>9. U!task' = u /\ queue' # <<>>
  BY <1>4, OneTask DEF U!task
<1>10. PortWorks(t.job)
  <2>1. /\ PortBusy(t.job) /\ UNCHANGED <<job, report, answer, crashes>>
        /\ \A j \in Job \ {t.job} : update'[j] = update[j] /\ worker'[j] = worker[j] /\ backup'[j] = backup[j]
    BY <1>1, <1>5, <1>7
  <2>2. worker'[t.job].thread # None /\ profile' \in {profile, None, t.job} /\ U!task'.job = t.job
    BY <1>1, <1>3, <1>5, <1>9
  <2>3. /\ chip' \in {chip, t.job} \cup ({backup[t.job]} \ {None}) /\ (chip' = t.job => backup'[t.job] # None)
        /\ (backup'[t.job] = backup[t.job] \/ (backup[t.job] = None /\ backup'[t.job] = chip))
    BY <1>0, <1>1, <1>2, <1>5, <1>6, <1>7 DEF SetupBackups, TaskFits
  <2>4. update'[t.job] = "complete" /\ job[t.job].status \notin U!Over => chip' = t.job /\ profile' = t.job /\ (queue' = <<>> \/ U!task'.do = "resume")
    <3>1. update[t.job] # "complete" \/ job[t.job].status \in U!Over \/ PortPaired(t.job)
      BY <1>1 DEF SetupPaired, SetupInv, SetupClaimed
    <3> QED
      BY <1>0, <1>1, <1>3, <1>5, <1>7, <1>9, <3>1 DEF PortPaired
  <2>5. U!task.do = "resume" => chip' = chip /\ profile' = profile /\ U!task'.do = "resume"
    BY <1>0, <1>1, <1>3, <1>5, <1>9
  <2> QED
    BY <1>9, <2>1, <2>2, <2>3, <2>4, <2>5 DEF PortWorks
<1>11. profile' # None => chip' = profile'
  BY <1>0, <1>1, <1>2, <1>3, <1>5, <1>6 DEF SetupProfile, TaskFits
<1>12. \E v \in U!Task : queue' = <<v>> /\ TaskFits(v)'
  BY <1>3, <1>4, <1>8
<1> QED
  BY <1>1, <1>7, <1>10, <1>11, <1>12, SetupMoves

LEMMA SetupVerifies == ASSUME SetupInv, U!Verify PROVE SetupInv'
<1>0. queue # <<>> /\ U!task.do \in {"provision", "resume"} /\ U!task.at = "verify"
  BY DEF U!Verify, U!On
<1>1. PICK t \in U!Task : /\ t = U!task /\ queue = <<t>> /\ TaskFits(t) /\ Tail(queue) = <<>> /\ t.job \in Job /\ t.previous = None
                          /\ t.changed \in BOOLEAN /\ PortBusy(t.job) /\ worker[t.job].thread # None /\ profile \in {None, t.job}
  BY <1>0, SetupRuns
<1>2. PICK u : u = [t EXCEPT !.at = "beat"] /\ queue' = <<u>> \o Tail(queue)
  BY <1>1 DEF U!Verify, U!Goes, U!Staged
<1>3. u \in U!Task /\ u.do = t.do /\ u.job = t.job /\ u.previous = None /\ u.changed = t.changed /\ u.at = "beat"
  BY <1>1, <1>2 DEF U!Task
<1>4. queue' = <<u>>
  BY <1>1, <1>2
<1>5. UNCHANGED <<job, beat, chip, profile, backup, worker, report, answer, crashes>> /\ update' = [update EXCEPT ![t.job] = "working"]
  BY <1>1 DEF U!Verify, U!Goes, U!Staged, U!Disk
<1>6. U!TypeOK /\ SetupProfile /\ SetupBackups
  BY DEF SetupInv
<1>7. /\ beat' \in [Job -> BOOLEAN] /\ backup' \in [Job -> Job \cup {"original", None}] /\ worker' \in [Job -> SetupWorkers]
      /\ update' \in [Job -> U!Update] /\ update \in [Job -> U!Update] /\ worker \in [Job -> SetupWorkers]
      /\ chip \in Job \cup {"original"} /\ backup \in [Job -> Job \cup {"original", None}]
  BY <1>1, <1>5, <1>6, SetupTypes DEF U!Update
<1>8. TaskFits(u)'
  BY <1>0, <1>1, <1>2, <1>3, <1>5, <1>7, SetupNone DEF TaskFits
<1>9. U!task' = u /\ queue' # <<>>
  BY <1>4, OneTask DEF U!task
<1>10. PortWorks(t.job)
  <2>1. /\ PortBusy(t.job) /\ UNCHANGED <<job, report, answer, crashes>>
        /\ \A j \in Job \ {t.job} : update'[j] = update[j] /\ worker'[j] = worker[j] /\ backup'[j] = backup[j]
    BY <1>1, <1>5, <1>7
  <2>2. worker'[t.job].thread # None /\ profile' \in {profile, None, t.job} /\ U!task'.job = t.job
    BY <1>1, <1>3, <1>5, <1>9
  <2>3. /\ chip' \in {chip, t.job} \cup ({backup[t.job]} \ {None}) /\ (chip' = t.job => backup'[t.job] # None)
        /\ (backup'[t.job] = backup[t.job] \/ (backup[t.job] = None /\ backup'[t.job] = chip))
    BY <1>0, <1>1, <1>2, <1>5, <1>6, <1>7 DEF SetupBackups, TaskFits
  <2>4. update'[t.job] = "complete" /\ job[t.job].status \notin U!Over => chip' = t.job /\ profile' = t.job /\ (queue' = <<>> \/ U!task'.do = "resume")
    <3>1. update[t.job] # "complete" \/ job[t.job].status \in U!Over \/ PortPaired(t.job)
      BY <1>1 DEF SetupPaired, SetupInv, SetupClaimed
    <3> QED
      BY <1>0, <1>1, <1>3, <1>5, <1>7, <1>9, <3>1 DEF PortPaired
  <2>5. U!task.do = "resume" => chip' = chip /\ profile' = profile /\ U!task'.do = "resume"
    BY <1>0, <1>1, <1>3, <1>5, <1>9
  <2> QED
    BY <1>9, <2>1, <2>2, <2>3, <2>4, <2>5 DEF PortWorks
<1>11. profile' # None => chip' = profile'
  BY <1>0, <1>1, <1>2, <1>3, <1>5, <1>6 DEF SetupProfile, TaskFits
<1>12. \E v \in U!Task : queue' = <<v>> /\ TaskFits(v)'
  BY <1>3, <1>4, <1>8
<1> QED
  BY <1>1, <1>7, <1>10, <1>11, <1>12, SetupMoves

LEMMA SetupBeats == ASSUME SetupInv, U!Beat PROVE SetupInv'
<1>0. queue # <<>> /\ U!task.do \in {"provision", "resume"} /\ U!task.at = "beat"
  BY DEF U!Beat, U!On
<1>1. PICK t \in U!Task : /\ t = U!task /\ queue = <<t>> /\ TaskFits(t) /\ Tail(queue) = <<>> /\ t.job \in Job /\ t.previous = None
                          /\ t.changed \in BOOLEAN /\ PortBusy(t.job) /\ worker[t.job].thread # None /\ profile \in {None, t.job}
  BY <1>0, SetupRuns
<1>4. queue' = <<>> /\ worker' = [worker EXCEPT ![t.job].thread = "done"]
  BY <1>1 DEF U!Beat, U!Staged, U!TaskEnds
<1>5. UNCHANGED <<job, chip, profile, backup, report, answer, crashes>> /\ update' = [update EXCEPT ![t.job] = "complete"]
      /\ beat' = [beat EXCEPT ![t.job] = TRUE]
  BY <1>1 DEF U!Beat, U!Staged, U!Disk
<1>6. U!TypeOK /\ SetupProfile /\ SetupBackups
  BY DEF SetupInv
<1>7. /\ beat' \in [Job -> BOOLEAN] /\ backup' \in [Job -> Job \cup {"original", None}] /\ worker' \in [Job -> SetupWorkers]
      /\ update' \in [Job -> U!Update] /\ update \in [Job -> U!Update] /\ worker \in [Job -> SetupWorkers]
      /\ chip \in Job \cup {"original"} /\ backup \in [Job -> Job \cup {"original", None}]
  <2>1. PICK w : w = [worker[t.job] EXCEPT !.thread = "done"] /\ worker' = [worker EXCEPT ![t.job] = w]
    BY <1>4
  <2>2. worker \in [Job -> SetupWorkers] /\ w \in SetupWorkers
    BY <1>1, <1>6, <2>1, SetupTypes DEF SetupWorkers
  <2>3. worker' \in [Job -> SetupWorkers]
    BY <2>1, <2>2
  <2> QED
    BY <1>1, <1>5, <1>6, <2>2, <2>3, SetupTypes DEF U!Update
<1>8. worker'[t.job].thread # None /\ \A j \in Job \ {t.job} : worker'[j] = worker[j]
  BY <1>1, <1>4, <1>7, SetupNone DEF SetupWorkers
<1>10. PortWorks(t.job)
  BY <1>0, <1>1, <1>4, <1>5, <1>6, <1>7, <1>8, SetupNone DEF PortWorks, SetupBackups, SetupProfile, TaskFits
<1>11. profile' # None => chip' = profile'
  BY <1>0, <1>1, <1>5, <1>6 DEF SetupProfile, TaskFits
<1> QED
  BY <1>1, <1>4, <1>7, <1>10, <1>11, SetupMoves

LEMMA SetupWaits == ASSUME SetupInv, U!BeatFails PROVE SetupInv'
<1>0. queue # <<>> /\ U!task.do \in {"provision", "resume"} /\ U!task.at = "beat"
  BY DEF U!BeatFails, U!On
<1>1. PICK t \in U!Task : /\ t = U!task /\ queue = <<t>> /\ TaskFits(t) /\ Tail(queue) = <<>> /\ t.job \in Job /\ t.previous = None
                          /\ t.changed \in BOOLEAN /\ PortBusy(t.job) /\ worker[t.job].thread # None /\ profile \in {None, t.job}
  BY <1>0, SetupRuns
<1>2. PICK u : u = [t EXCEPT !.at = "verify"] /\ queue' = <<u>> \o Tail(queue)
  BY <1>1 DEF U!BeatFails, U!Goes
<1>3. u \in U!Task /\ u.do = t.do /\ u.job = t.job /\ u.previous = None /\ u.changed = t.changed /\ u.at = "verify"
  BY <1>1, <1>2 DEF U!Task
<1>4. queue' = <<u>>
  BY <1>1, <1>2
<1>5. UNCHANGED <<job, beat, chip, profile, backup, update, worker, report, answer, crashes>>
  BY <1>1 DEF U!BeatFails, U!Goes, U!Disk
<1>6. U!TypeOK /\ SetupProfile /\ SetupBackups
  BY DEF SetupInv
<1>7. /\ beat' \in [Job -> BOOLEAN] /\ backup' \in [Job -> Job \cup {"original", None}] /\ worker' \in [Job -> SetupWorkers]
      /\ update' \in [Job -> U!Update] /\ update \in [Job -> U!Update] /\ worker \in [Job -> SetupWorkers]
      /\ chip \in Job \cup {"original"} /\ backup \in [Job -> Job \cup {"original", None}]
  BY <1>1, <1>5, <1>6, SetupTypes DEF U!Update
<1>8. TaskFits(u)'
  BY <1>0, <1>1, <1>2, <1>3, <1>5, <1>7, SetupNone DEF TaskFits
<1>9. U!task' = u /\ queue' # <<>>
  BY <1>4, OneTask DEF U!task
<1>10. PortWorks(t.job)
  <2>1. /\ PortBusy(t.job) /\ UNCHANGED <<job, report, answer, crashes>>
        /\ \A j \in Job \ {t.job} : update'[j] = update[j] /\ worker'[j] = worker[j] /\ backup'[j] = backup[j]
    BY <1>1, <1>5, <1>7
  <2>2. worker'[t.job].thread # None /\ profile' \in {profile, None, t.job} /\ U!task'.job = t.job
    BY <1>1, <1>3, <1>5, <1>9
  <2>3. /\ chip' \in {chip, t.job} \cup ({backup[t.job]} \ {None}) /\ (chip' = t.job => backup'[t.job] # None)
        /\ (backup'[t.job] = backup[t.job] \/ (backup[t.job] = None /\ backup'[t.job] = chip))
    BY <1>0, <1>1, <1>2, <1>5, <1>6, <1>7 DEF SetupBackups, TaskFits
  <2>4. update'[t.job] = "complete" /\ job[t.job].status \notin U!Over => chip' = t.job /\ profile' = t.job /\ (queue' = <<>> \/ U!task'.do = "resume")
    <3>1. update[t.job] # "complete" \/ job[t.job].status \in U!Over \/ PortPaired(t.job)
      BY <1>1 DEF SetupPaired, SetupInv, SetupClaimed
    <3> QED
      BY <1>0, <1>1, <1>3, <1>5, <1>7, <1>9, <3>1 DEF PortPaired
  <2>5. U!task.do = "resume" => chip' = chip /\ profile' = profile /\ U!task'.do = "resume"
    BY <1>0, <1>1, <1>3, <1>5, <1>9
  <2> QED
    BY <1>9, <2>1, <2>2, <2>3, <2>4, <2>5 DEF PortWorks
<1>11. profile' # None => chip' = profile'
  BY <1>0, <1>1, <1>2, <1>3, <1>5, <1>6 DEF SetupProfile, TaskFits
<1>12. \E v \in U!Task : queue' = <<v>> /\ TaskFits(v)'
  BY <1>3, <1>4, <1>8
<1> QED
  BY <1>1, <1>7, <1>10, <1>11, <1>12, SetupMoves

LEMMA SetupFails == ASSUME SetupInv, U!Fail PROVE SetupInv'
<1>0. queue # <<>> /\ U!task.do = "provision" /\ U!task.at \in {"backup", "pair", "save", "verify"}
  BY DEF U!Fail
<1>1. PICK t \in U!Task : /\ t = U!task /\ queue = <<t>> /\ TaskFits(t) /\ Tail(queue) = <<>> /\ t.job \in Job /\ t.previous = None
                          /\ t.changed \in BOOLEAN /\ PortBusy(t.job) /\ worker[t.job].thread # None /\ profile \in {None, t.job}
  BY <1>0, SetupRuns
<1>2. PICK u : u = [t EXCEPT !.at = "undo"] /\ queue' = <<u>> \o Tail(queue)
  BY <1>1 DEF U!Fail, U!Goes
<1>3. u \in U!Task /\ u.do = t.do /\ u.job = t.job /\ u.previous = None /\ u.changed = t.changed /\ u.at = "undo"
  BY <1>1, <1>2 DEF U!Task
<1>4. queue' = <<u>>
  BY <1>1, <1>2
<1>5. UNCHANGED <<job, beat, chip, profile, backup, update, worker, report, answer, crashes>>
  BY <1>1 DEF U!Fail, U!Goes, U!Disk
<1>6. U!TypeOK /\ SetupProfile /\ SetupBackups
  BY DEF SetupInv
<1>7. /\ beat' \in [Job -> BOOLEAN] /\ backup' \in [Job -> Job \cup {"original", None}] /\ worker' \in [Job -> SetupWorkers]
      /\ update' \in [Job -> U!Update] /\ update \in [Job -> U!Update] /\ worker \in [Job -> SetupWorkers]
      /\ chip \in Job \cup {"original"} /\ backup \in [Job -> Job \cup {"original", None}]
  BY <1>1, <1>5, <1>6, SetupTypes DEF U!Update
<1>8. TaskFits(u)'
  BY <1>0, <1>1, <1>2, <1>3, <1>5, <1>7, SetupNone DEF TaskFits
<1>9. U!task' = u /\ queue' # <<>>
  BY <1>4, OneTask DEF U!task
<1>10. PortWorks(t.job)
  <2>1. /\ PortBusy(t.job) /\ UNCHANGED <<job, report, answer, crashes>>
        /\ \A j \in Job \ {t.job} : update'[j] = update[j] /\ worker'[j] = worker[j] /\ backup'[j] = backup[j]
    BY <1>1, <1>5, <1>7
  <2>2. worker'[t.job].thread # None /\ profile' \in {profile, None, t.job} /\ U!task'.job = t.job
    BY <1>1, <1>3, <1>5, <1>9
  <2>3. /\ chip' \in {chip, t.job} \cup ({backup[t.job]} \ {None}) /\ (chip' = t.job => backup'[t.job] # None)
        /\ (backup'[t.job] = backup[t.job] \/ (backup[t.job] = None /\ backup'[t.job] = chip))
    BY <1>0, <1>1, <1>2, <1>5, <1>6, <1>7 DEF SetupBackups, TaskFits
  <2>4. update'[t.job] = "complete" /\ job[t.job].status \notin U!Over => chip' = t.job /\ profile' = t.job /\ (queue' = <<>> \/ U!task'.do = "resume")
    <3>1. update[t.job] # "complete" \/ job[t.job].status \in U!Over \/ PortPaired(t.job)
      BY <1>1 DEF SetupPaired, SetupInv, SetupClaimed
    <3> QED
      BY <1>0, <1>1, <1>3, <1>5, <1>7, <1>9, <3>1 DEF PortPaired
  <2>5. U!task.do = "resume" => chip' = chip /\ profile' = profile /\ U!task'.do = "resume"
    BY <1>0, <1>1, <1>3, <1>5, <1>9
  <2> QED
    BY <1>9, <2>1, <2>2, <2>3, <2>4, <2>5 DEF PortWorks
<1>11. profile' # None => chip' = profile'
  BY <1>0, <1>1, <1>2, <1>3, <1>5, <1>6 DEF SetupProfile, TaskFits
<1>12. \E v \in U!Task : queue' = <<v>> /\ TaskFits(v)'
  BY <1>3, <1>4, <1>8
<1> QED
  BY <1>1, <1>7, <1>10, <1>11, <1>12, SetupMoves

LEMMA SetupGivesUp == ASSUME SetupInv, U!ResumeFails PROVE SetupInv'
<1>0. queue # <<>> /\ U!task.do = "resume" /\ U!task.at = "verify"
  BY DEF U!ResumeFails, U!On
<1>1. PICK t \in U!Task : /\ t = U!task /\ queue = <<t>> /\ TaskFits(t) /\ Tail(queue) = <<>> /\ t.job \in Job /\ t.previous = None
                          /\ t.changed \in BOOLEAN /\ PortBusy(t.job) /\ worker[t.job].thread # None /\ profile \in {None, t.job}
  BY <1>0, SetupRuns
<1>4. queue' = <<>> /\ worker' = [worker EXCEPT ![t.job].thread = "done"]
  BY <1>1 DEF U!ResumeFails, U!Staged, U!TaskEnds
<1>5. UNCHANGED <<job, beat, chip, profile, backup, report, answer, crashes>> /\ update' = [update EXCEPT ![t.job] = "failed"]
  BY <1>1 DEF U!ResumeFails, U!Staged, U!Disk
<1>6. U!TypeOK /\ SetupProfile /\ SetupBackups
  BY DEF SetupInv
<1>7. /\ beat' \in [Job -> BOOLEAN] /\ backup' \in [Job -> Job \cup {"original", None}] /\ worker' \in [Job -> SetupWorkers]
      /\ update' \in [Job -> U!Update] /\ update \in [Job -> U!Update] /\ worker \in [Job -> SetupWorkers]
      /\ chip \in Job \cup {"original"} /\ backup \in [Job -> Job \cup {"original", None}]
  <2>1. PICK w : w = [worker[t.job] EXCEPT !.thread = "done"] /\ worker' = [worker EXCEPT ![t.job] = w]
    BY <1>4
  <2>2. worker \in [Job -> SetupWorkers] /\ w \in SetupWorkers
    BY <1>1, <1>6, <2>1, SetupTypes DEF SetupWorkers
  <2>3. worker' \in [Job -> SetupWorkers]
    BY <2>1, <2>2
  <2> QED
    BY <1>1, <1>5, <1>6, <2>2, <2>3, SetupTypes DEF U!Update
<1>8. worker'[t.job].thread # None /\ \A j \in Job \ {t.job} : worker'[j] = worker[j]
  BY <1>1, <1>4, <1>7, SetupNone DEF SetupWorkers
<1>10. PortWorks(t.job)
  BY <1>0, <1>1, <1>4, <1>5, <1>6, <1>7, <1>8, SetupNone DEF PortWorks, SetupBackups, SetupProfile, TaskFits
<1>11. profile' # None => chip' = profile'
  BY <1>0, <1>1, <1>5, <1>6 DEF SetupProfile, TaskFits
<1> QED
  BY <1>1, <1>4, <1>7, <1>10, <1>11, SetupMoves

LEMMA SetupUndoes == ASSUME SetupInv, U!Undo PROVE SetupInv'
<1>0. queue # <<>> /\ U!task.do = "provision" /\ U!task.at = "undo"
  BY DEF U!Undo, U!On
<1>1. PICK t \in U!Task : /\ t = U!task /\ queue = <<t>> /\ TaskFits(t) /\ Tail(queue) = <<>> /\ t.job \in Job /\ t.previous = None
                          /\ t.changed \in BOOLEAN /\ PortBusy(t.job) /\ worker[t.job].thread # None /\ profile \in {None, t.job}
  BY <1>0, SetupRuns
<1>2. PICK u : u = [t EXCEPT !.at = "rollback"] /\ queue' = <<u>> \o Tail(queue)
  BY <1>1 DEF U!Undo, U!Goes
<1>3. u \in U!Task /\ u.do = t.do /\ u.job = t.job /\ u.previous = None /\ u.changed = t.changed /\ u.at = "rollback"
  BY <1>1, <1>2 DEF U!Task
<1>4. queue' = <<u>>
  BY <1>1, <1>2
<1>5. UNCHANGED <<job, beat, chip, backup, update, worker, report, answer, crashes>> /\ profile' = None
  BY <1>1 DEF U!Undo, U!Goes, U!Disk
<1>6. U!TypeOK /\ SetupProfile /\ SetupBackups
  BY DEF SetupInv
<1>7. /\ beat' \in [Job -> BOOLEAN] /\ backup' \in [Job -> Job \cup {"original", None}] /\ worker' \in [Job -> SetupWorkers]
      /\ update' \in [Job -> U!Update] /\ update \in [Job -> U!Update] /\ worker \in [Job -> SetupWorkers]
      /\ chip \in Job \cup {"original"} /\ backup \in [Job -> Job \cup {"original", None}]
  BY <1>1, <1>5, <1>6, SetupTypes DEF U!Update
<1>8. TaskFits(u)'
  BY <1>0, <1>1, <1>2, <1>3, <1>5, <1>7, SetupNone DEF TaskFits
<1>9. U!task' = u /\ queue' # <<>>
  BY <1>4, OneTask DEF U!task
<1>10. PortWorks(t.job)
  <2>1. /\ PortBusy(t.job) /\ UNCHANGED <<job, report, answer, crashes>>
        /\ \A j \in Job \ {t.job} : update'[j] = update[j] /\ worker'[j] = worker[j] /\ backup'[j] = backup[j]
    BY <1>1, <1>5, <1>7
  <2>2. worker'[t.job].thread # None /\ profile' \in {profile, None, t.job} /\ U!task'.job = t.job
    BY <1>1, <1>3, <1>5, <1>9
  <2>3. /\ chip' \in {chip, t.job} \cup ({backup[t.job]} \ {None}) /\ (chip' = t.job => backup'[t.job] # None)
        /\ (backup'[t.job] = backup[t.job] \/ (backup[t.job] = None /\ backup'[t.job] = chip))
    BY <1>0, <1>1, <1>2, <1>5, <1>6, <1>7 DEF SetupBackups, TaskFits
  <2>4. update'[t.job] = "complete" /\ job[t.job].status \notin U!Over => chip' = t.job /\ profile' = t.job /\ (queue' = <<>> \/ U!task'.do = "resume")
    <3>1. update[t.job] # "complete" \/ job[t.job].status \in U!Over \/ PortPaired(t.job)
      BY <1>1 DEF SetupPaired, SetupInv, SetupClaimed
    <3> QED
      BY <1>0, <1>1, <1>3, <1>5, <1>7, <1>9, <3>1 DEF PortPaired
  <2>5. U!task.do = "resume" => chip' = chip /\ profile' = profile /\ U!task'.do = "resume"
    BY <1>0, <1>1, <1>3, <1>5, <1>9
  <2> QED
    BY <1>9, <2>1, <2>2, <2>3, <2>4, <2>5 DEF PortWorks
<1>11. profile' # None => chip' = profile'
  BY <1>0, <1>1, <1>2, <1>3, <1>5, <1>6 DEF SetupProfile, TaskFits
<1>12. \E v \in U!Task : queue' = <<v>> /\ TaskFits(v)'
  BY <1>3, <1>4, <1>8
<1> QED
  BY <1>1, <1>7, <1>10, <1>11, <1>12, SetupMoves

LEMMA SetupRollsBack == ASSUME SetupInv, U!RollBack PROVE SetupInv'
<1>0. queue # <<>> /\ U!task.do = "provision" /\ U!task.at = "rollback"
  BY DEF U!RollBack, U!On
<1>1. PICK t \in U!Task : /\ t = U!task /\ queue = <<t>> /\ TaskFits(t) /\ Tail(queue) = <<>> /\ t.job \in Job /\ t.previous = None
                          /\ t.changed \in BOOLEAN /\ PortBusy(t.job) /\ worker[t.job].thread # None /\ profile \in {None, t.job}
  BY <1>0, SetupRuns
<1>4. queue' = <<>> /\ worker' = [worker EXCEPT ![t.job].thread = "done"]
  BY <1>1 DEF U!RollBack, U!Staged, U!TaskEnds
<1>5. UNCHANGED <<job, beat, profile, backup, report, answer, crashes>>
      /\ \/ chip' = (IF t.changed THEN backup[t.job] ELSE chip) /\ update' = [update EXCEPT ![t.job] = "failed"]
         \/ chip' = chip /\ update' = [update EXCEPT ![t.job] = "recovery"]
  BY <1>1 DEF U!RollBack, U!Staged, U!Disk
<1>6. U!TypeOK /\ SetupProfile /\ SetupBackups
  BY DEF SetupInv
<1>7. /\ beat' \in [Job -> BOOLEAN] /\ backup' \in [Job -> Job \cup {"original", None}] /\ worker' \in [Job -> SetupWorkers]
      /\ update' \in [Job -> U!Update] /\ update \in [Job -> U!Update] /\ worker \in [Job -> SetupWorkers]
      /\ chip \in Job \cup {"original"} /\ backup \in [Job -> Job \cup {"original", None}]
  <2>1. PICK w : w = [worker[t.job] EXCEPT !.thread = "done"] /\ worker' = [worker EXCEPT ![t.job] = w]
    BY <1>4
  <2>2. worker \in [Job -> SetupWorkers] /\ w \in SetupWorkers
    BY <1>1, <1>6, <2>1, SetupTypes DEF SetupWorkers
  <2>3. worker' \in [Job -> SetupWorkers]
    BY <2>1, <2>2
  <2> QED
    BY <1>1, <1>5, <1>6, <2>2, <2>3, SetupTypes DEF U!Update
<1>8. worker'[t.job].thread # None /\ \A j \in Job \ {t.job} : worker'[j] = worker[j]
  BY <1>1, <1>4, <1>7, SetupNone DEF SetupWorkers
<1>10. PortWorks(t.job)
  BY <1>0, <1>1, <1>4, <1>5, <1>6, <1>7, <1>8, SetupNone DEF PortWorks, SetupBackups, SetupProfile, TaskFits
<1>11. profile' # None => chip' = profile'
  BY <1>0, <1>1, <1>5, <1>6 DEF SetupProfile, TaskFits
<1> QED
  BY <1>1, <1>4, <1>7, <1>10, <1>11, SetupMoves

LEMMA SetupRecovers == ASSUME SetupInv, U!Recover PROVE SetupInv'
<1>0. queue # <<>> /\ U!task.do = "recover" /\ U!task.at = "verify"
  BY DEF U!Recover, U!On
<1>1. PICK t \in U!Task : /\ t = U!task /\ queue = <<t>> /\ TaskFits(t) /\ Tail(queue) = <<>> /\ t.job \in Job /\ t.previous = None
                          /\ t.changed \in BOOLEAN /\ PortBusy(t.job) /\ worker[t.job].thread # None /\ profile \in {None, t.job}
  BY <1>0, SetupRuns
<1>4. queue' = <<>> /\ worker' = [worker EXCEPT ![t.job].thread = "done"]
  BY <1>1 DEF U!Recover, U!Staged, U!TaskEnds
<1>5. UNCHANGED <<job, beat, profile, backup, report, answer, crashes>>
      /\ \/ backup[t.job] # None /\ chip' = backup[t.job] /\ update' = update
         \/ chip' = chip /\ update' = [update EXCEPT ![t.job] = "recovery"]
  BY <1>1 DEF U!Recover, U!Staged, U!Disk
<1>6. U!TypeOK /\ SetupProfile /\ SetupBackups
  BY DEF SetupInv
<1>7. /\ beat' \in [Job -> BOOLEAN] /\ backup' \in [Job -> Job \cup {"original", None}] /\ worker' \in [Job -> SetupWorkers]
      /\ update' \in [Job -> U!Update] /\ update \in [Job -> U!Update] /\ worker \in [Job -> SetupWorkers]
      /\ chip \in Job \cup {"original"} /\ backup \in [Job -> Job \cup {"original", None}]
  <2>1. PICK w : w = [worker[t.job] EXCEPT !.thread = "done"] /\ worker' = [worker EXCEPT ![t.job] = w]
    BY <1>4
  <2>2. worker \in [Job -> SetupWorkers] /\ w \in SetupWorkers
    BY <1>1, <1>6, <2>1, SetupTypes DEF SetupWorkers
  <2>3. worker' \in [Job -> SetupWorkers]
    BY <2>1, <2>2
  <2> QED
    BY <1>1, <1>5, <1>6, <2>2, <2>3, SetupTypes DEF U!Update
<1>8. worker'[t.job].thread # None /\ \A j \in Job \ {t.job} : worker'[j] = worker[j]
  BY <1>1, <1>4, <1>7, SetupNone DEF SetupWorkers
<1>10. PortWorks(t.job)
  BY <1>0, <1>1, <1>4, <1>5, <1>6, <1>7, <1>8, SetupNone DEF PortWorks, SetupBackups, SetupProfile, TaskFits
<1>11. profile' # None => chip' = profile'
  BY <1>0, <1>1, <1>5, <1>6 DEF SetupProfile, TaskFits
<1> QED
  BY <1>1, <1>4, <1>7, <1>10, <1>11, SetupMoves

-----------------------------------------------------------------------------
(* The server's steps, and what is on its way.                             *)

LEMMA SetupServer ==
  ASSUME SetupInv, U!TypeOK', UNCHANGED <<chip, profile, backup, update, worker, queue, crashes>>,
         \A j \in Job : /\ job[j].status \in U!Over => job'[j].status \in U!Over
                        /\ job[j].told => job'[j].told
                        /\ job'[j].enabled => job'[j].status = "complete"
                        /\ job[j].status = None \/ job'[j].status = None => job'[j] = job[j]
                        /\ job'[j].status = "complete" => SetupClaimed(j) /\ job[j].status \notin U!Over
                        /\ report' # None => report'.said[j] = update[j] \/ (report # None /\ report'.said[j] = report.said[j])
                        /\ answer' # None => /\ SetupFresh(j) => answer'[j].status = None
                                             /\ SetupPast(j) => answer'[j].status \in U!Over \cup {None},
         SetupReplies'
  PROVE  SetupInv'
<1>0. SetupRows /\ SetupOne /\ SetupTask /\ SetupProfile /\ SetupBackups /\ SetupPaired /\ SetupTold
  BY DEF SetupInv
<1>1. \A j \in Job : /\ (SetupFresh(j) => SetupFresh(j)') /\ (SetupPast(j) => SetupPast(j)') /\ (PortBusy(j)' <=> PortBusy(j))
                     /\ (RecoveryTold(j) => RecoveryTold(j)')
  <2> SUFFICES ASSUME NEW j \in Job
               PROVE  /\ (SetupFresh(j) => SetupFresh(j)') /\ (SetupPast(j) => SetupPast(j)') /\ (PortBusy(j)' <=> PortBusy(j)) /\ (RecoveryTold(j) => RecoveryTold(j)')
    OBVIOUS
  <2>1. PortBusy(j)' <=> PortBusy(j)
    BY DEF PortBusy, U!task
  <2>2. ASSUME SetupFresh(j) PROVE SetupFresh(j)'
    <3>1. job'[j] = job[j]
      BY <2>2, SetupNone DEF SetupFresh
    <3> QED
      BY <2>1, <2>2, <3>1 DEF SetupFresh
  <2>3. ASSUME SetupPast(j) PROVE SetupPast(j)'
    BY <2>1, <2>3 DEF SetupPast
  <2>4. RecoveryTold(j) => RecoveryTold(j)'
    BY DEF RecoveryTold
  <2> QED
    BY <2>1, <2>2, <2>3, <2>4
<1>2. SetupRows'
  BY <1>0, <1>1 DEF SetupRows
<1>3. SetupOne'
  BY <1>0, <1>1 DEF SetupOne
<1>4. SetupTask'
  <2>1. CASE queue = <<>>
    BY <2>1 DEF SetupTask
  <2>2. CASE queue # <<>>
    <3>1. PICK t \in U!Task : t = U!task /\ queue = <<t>> /\ TaskFits(t)
      BY <1>0, <2>2 DEF SetupTask
    <3>2. t.job \in Job
      BY DEF U!Task
    <3>3. TaskFits(t)'
      BY <3>1, <3>2 DEF TaskFits
    <3>4. U!task' = t /\ queue' = <<t>>
      BY <3>1 DEF U!task
    <3> QED
      BY <3>3, <3>4 DEF SetupTask
  <2> QED
    BY <2>1, <2>2
<1>5. SetupProfile'
  BY <1>0 DEF SetupProfile
<1>6. SetupBackups'
  BY <1>0, <1>1 DEF SetupBackups
<1>7. SetupPaired'
  <2> SUFFICES ASSUME NEW j \in Job, job'[j].status \notin U!Over, SetupClaimed(j)' PROVE PortPaired(j)'
    BY DEF SetupPaired
  <2>1. job[j].status \notin U!Over /\ SetupClaimed(j)
    BY DEF SetupClaimed
  <2>2. PortPaired(j)
    BY <1>0, <2>1 DEF SetupPaired
  <2> QED
    BY <2>2 DEF PortPaired, U!task
<1>8. SetupTold'
  BY <1>0, <1>1 DEF SetupTold
<1> QED
  BY <1>2, <1>3, <1>4, <1>5, <1>6, <1>7, <1>8 DEF SetupInv

\* Whose row does not change keeps what is said of it.
LEMMA SetupUntouched ==
  ASSUME SetupInv, NEW j \in Job
  PROVE  /\ job[j].enabled => job[j].status = "complete"
         /\ job[j].status = "complete" => SetupClaimed(j)
         /\ answer # None => /\ SetupFresh(j) => answer[j].status = None
                             /\ SetupPast(j) => answer[j].status \in U!Over \cup {None}
         /\ job[j].status = "complete" => job[j].status \notin U!Over
         /\ job[j].status = None => ~ job[j].enabled /\ job[j].revision = 0 /\ job[j] = U!NoRow
<1>1. /\ job[j].enabled => job[j].status = "complete"
      /\ job[j].status = None => SetupFresh(j)
  BY DEF SetupInv, SetupRows
<1>2. job[j].status = "complete" => SetupClaimed(j) /\ job[j].status \notin U!Over
  BY DEF SetupClaimed, U!Over
<1>3. answer # None => /\ SetupFresh(j) => answer[j].status = None
                       /\ SetupPast(j) => answer[j].status \in U!Over \cup {None}
  BY DEF SetupFresh, SetupPast
<1>4. SetupFresh(j) => job[j] = U!NoRow
  BY DEF SetupFresh
<1>5. job[j].status = None => ~ job[j].enabled /\ job[j].revision = 0 /\ job[j] = U!NoRow
  BY <1>1, <1>4 DEF U!NoRow
<1> QED
  BY <1>1, <1>2, <1>3, <1>5

LEMMA SetupRow == ASSUME SetupInv, NEW j \in Job PROVE job[j] \in SetupJobs /\ update[j] \in U!Update
BY SetupTypes DEF SetupInv

LEMMA SetupSpeaks == ASSUME SetupInv, NEW j \in Job, U!Heartbeat(j) \/ U!Silence(j) PROVE SetupInv'
<1>1. UNCHANGED <<job, chip, profile, backup, update, worker, queue, report, answer, crashes>> /\ \E on \in BOOLEAN : beat' = [beat EXCEPT ![j] = on]
  BY DEF U!Heartbeat, U!Silence, U!Agent, U!Disk
<1>2. U!TypeOK /\ SetupReplies
  BY DEF SetupInv
<1>3. U!TypeOK'
  BY <1>1, <1>2 DEF U!TypeOK
<1>4. SetupReplies'
  BY <1>1, <1>2 DEF SetupReplies
<1> QED
  BY <1>1, <1>3, <1>4, SetupUntouched, SetupServer

LEMMA SetupReports == ASSUME SetupInv, U!Report PROVE SetupInv'
<1>1. UNCHANGED <<job, beat, chip, profile, backup, update, worker, queue, answer, crashes>> /\ report' = [said |-> update, awaited |-> TRUE]
      /\ answer = None
  BY DEF U!Report, U!Disk
<1>2. U!TypeOK /\ SetupReplies
  BY DEF SetupInv
<1>3. U!TypeOK'
  BY <1>1, <1>2 DEF U!TypeOK
<1>4. SetupReplies'
  BY <1>1, <1>2 DEF SetupReplies
<1>5. report'.said = update /\ answer' = None
  BY <1>1
<1>6. \A j \in Job : /\ job[j].enabled => job[j].status = "complete"
                     /\ job[j].status = "complete" => SetupClaimed(j) /\ job[j].status \notin U!Over
  BY SetupUntouched
<1>7. UNCHANGED <<job, chip, profile, backup, update, worker, queue, crashes>>
  BY <1>1
<1> QED
  BY <1>3, <1>4, <1>5, <1>6, <1>7, SetupServer

LEMMA SetupLoses == ASSUME SetupInv, U!Lose PROVE SetupInv'
<1>1. UNCHANGED <<job, beat, chip, profile, backup, update, worker, queue, crashes>>
      /\ \/ report # None /\ report' = [report EXCEPT !.awaited = FALSE] /\ answer' = answer
         \/ answer # None /\ answer' = None /\ report' = report
  BY DEF U!Lose, U!Disk
<1>2. U!TypeOK /\ SetupReplies
  BY DEF SetupInv
<1>3. U!TypeOK' /\ (report' # None => report # None /\ report'.said = report.said)
  BY <1>1, <1>2 DEF U!TypeOK
<1>4. SetupReplies'
  BY <1>1, <1>2 DEF SetupReplies
<1> QED
  BY <1>1, <1>3, <1>4, SetupUntouched, SetupServer

\* A job that is not over becomes one.
LEMMA SetupEnds ==
  ASSUME SetupInv, NEW j \in Job, U!Live(j), NEW s \in U!Over, job' = [job EXCEPT ![j].status = s, ![j].enabled = FALSE],
         UNCHANGED <<beat, chip, profile, backup, update, worker, queue, report, answer, crashes>>
  PROVE  SetupInv'
<1>1. PICK row : row = [job[j] EXCEPT !.status = s, !.enabled = FALSE]
  OBVIOUS
<1>2. U!TypeOK /\ SetupReplies /\ job[j] \in SetupJobs /\ job \in [Job -> SetupJobs]
  BY SetupRow, SetupTypes DEF SetupInv
<1>3. row \in SetupJobs /\ row.status = s /\ ~ row.enabled /\ row.told = job[j].told
  BY <1>1, <1>2 DEF SetupJobs, SetupStatus, U!Over, U!Terminal
<1>4. job' = [job EXCEPT ![j] = row]
  BY <1>1
<1>5. job' \in [Job -> SetupJobs] /\ job'[j] = row /\ \A k \in Job \ {j} : job'[k] = job[k]
  BY <1>2, <1>3, <1>4
<1>6. U!TypeOK'
  BY <1>2, <1>5 DEF U!TypeOK, SetupJobs, SetupStatus
<1>7. job[j].status \notin U!Over /\ job[j].status # None /\ s # None /\ s # "complete" /\ job[j].status # "complete"
  BY SetupNone DEF U!Live, U!Over
<1>8. SetupReplies'
  BY <1>2, <1>3, <1>5, <1>7 DEF SetupReplies
<1> QED
  BY <1>3, <1>5, <1>6, <1>7, <1>8, SetupUntouched, SetupServer

LEMMA SetupCancels == ASSUME SetupInv, NEW j \in Job, U!Cancel(j) PROVE SetupInv'
<1>1. "cancelled" \in U!Over
  BY DEF U!Over
<1>2. U!Live(j) /\ job' = [job EXCEPT ![j].status = "cancelled", ![j].enabled = FALSE]
      /\ UNCHANGED <<beat, chip, profile, backup, update, worker, queue, report, answer, crashes>>
  BY DEF U!Cancel, U!Agent, U!Disk
<1> QED
  BY <1>1, <1>2, SetupEnds

\* A row that the clock may have closed.
LEMMA SetupLapses ==
  ASSUME SetupInv, NEW j \in Job, NEW late \in BOOLEAN
  PROVE  /\ U!Lapsed(j, late) \in SetupJobs /\ U!Lapsed(j, late).told = job[j].told
         /\ U!Lapsed(j, late).enabled = job[j].enabled /\ U!Lapsed(j, late).revision = job[j].revision
         /\ \/ U!Lapsed(j, late) = job[j]
            \/ U!Live(j) /\ U!Lapsed(j, late).status = "expired" /\ ~ job[j].enabled
<1>1. job[j] \in SetupJobs /\ (job[j].enabled => job[j].status = "complete")
  BY SetupRow, SetupUntouched
<1>2. U!Lapsed(j, late) = IF U!Live(j) /\ late THEN [job[j] EXCEPT !.status = "expired"] ELSE job[j]
  BY DEF U!Lapsed
<1>3. CASE U!Live(j) /\ late
  <2>1. PICK row : row = [job[j] EXCEPT !.status = "expired"]
    OBVIOUS
  <2>2. row \in SetupJobs /\ row.told = job[j].told /\ row.enabled = job[j].enabled /\ row.revision = job[j].revision /\ row.status = "expired"
    BY <1>1, <2>1 DEF SetupJobs, SetupStatus, U!Terminal, U!Over
  <2>3. U!Lapsed(j, late) = row /\ ~ job[j].enabled
    BY <1>1, <1>2, <1>3, <2>1 DEF U!Live
  <2> QED
    BY <1>3, <2>2, <2>3
<1>4. CASE ~ (U!Live(j) /\ late)
  BY <1>1, <1>2, <1>4
<1> QED
  BY <1>3, <1>4

LEMMA SetupLists == ASSUME SetupInv, U!ListSetups PROVE SetupInv'
<1>1. job' = [j \in Job |-> U!Lapsed(j, TRUE)] /\ UNCHANGED <<beat, chip, profile, backup, update, worker, queue, report, answer, crashes>>
  BY DEF U!ListSetups, U!Agent, U!Disk
<1>2. \A j \in Job : job'[j] = U!Lapsed(j, TRUE)
  BY <1>1
<1>3. U!TypeOK /\ SetupReplies
  BY DEF SetupInv
<1>4. job' \in [Job -> SetupJobs]
  BY <1>1, SetupLapses
<1>5. U!TypeOK'
  BY <1>1, <1>3, <1>4 DEF U!TypeOK, SetupJobs, SetupStatus
<1>6. \A j \in Job : /\ job'[j].told = job[j].told /\ job'[j].enabled = job[j].enabled
                     /\ job'[j] = job[j] \/ (U!Live(j) /\ job'[j].status = "expired" /\ ~ job[j].enabled)
  BY <1>2, SetupLapses
<1>7. "expired" \in U!Over /\ "expired" # None /\ "complete" # None /\ \A j \in Job : U!Live(j) => job[j].status \notin U!Over \cup {None, "complete"}
  BY SetupNone DEF U!Live, U!Over
<1>8. SetupReplies'
  BY <1>1, <1>3, <1>6, <1>7 DEF SetupReplies
<1>9. \A j \in Job : /\ job[j].enabled => job[j].status = "complete"
                     /\ job[j].status = "complete" => SetupClaimed(j)
                     /\ answer # None => /\ SetupFresh(j) => answer[j].status = None
                                         /\ SetupPast(j) => answer[j].status \in U!Over \cup {None}
                     /\ job[j].status = "complete" => job[j].status \notin U!Over
  BY SetupUntouched
<1>10. \A j \in Job : /\ job[j].status \in U!Over => job'[j].status \in U!Over
                      /\ job[j].told => job'[j].told
                      /\ job'[j].enabled => job'[j].status = "complete"
                      /\ job[j].status = None \/ job'[j].status = None => job'[j] = job[j]
                      /\ job'[j].status = "complete" => SetupClaimed(j) /\ job[j].status \notin U!Over
  <2> SUFFICES ASSUME NEW j \in Job
               PROVE  /\ job[j].status \in U!Over => job'[j].status \in U!Over
                      /\ job[j].told => job'[j].told
                      /\ job'[j].enabled => job'[j].status = "complete"
                      /\ job[j].status = None \/ job'[j].status = None => job'[j] = job[j]
                      /\ job'[j].status = "complete" => SetupClaimed(j) /\ job[j].status \notin U!Over
    OBVIOUS
  <2>1. CASE job'[j] = job[j]
    BY <1>9, <2>1
  <2>2. CASE job'[j] # job[j]
    BY <1>6, <1>7, <2>2 DEF U!Over
  <2> QED
    BY <2>1, <2>2
<1> QED
  BY <1>1, <1>5, <1>8, <1>9, <1>10, SetupServer

LEMMA SetupEdits == ASSUME SetupInv, NEW j \in Job, NEW on \in BOOLEAN, U!EditReader(j, on) PROVE SetupInv'
<1>1. /\ job[j].status \notin U!Over /\ job[j].revision \in 1..(MaxEdit - 1) /\ (on => job[j].status = "complete")
      /\ job' = [job EXCEPT ![j].enabled = on, ![j].revision = @ + 1]
      /\ UNCHANGED <<beat, chip, profile, backup, update, worker, queue, report, answer, crashes>>
  BY DEF U!EditReader, U!Agent, U!Disk
<1>2. U!TypeOK /\ SetupReplies /\ job[j] \in SetupJobs /\ job \in [Job -> SetupJobs]
  BY SetupRow, SetupTypes DEF SetupInv
<1>3. PICK row : row = [job[j] EXCEPT !.enabled = on, !.revision = @ + 1]
  OBVIOUS
<1>4. job[j].revision + 1 \in 0..MaxEdit
  BY <1>1, SetupAssumption
<1>5. row \in SetupJobs /\ row.status = job[j].status /\ row.enabled = on /\ row.told = job[j].told
  BY <1>2, <1>3, <1>4 DEF SetupJobs
<1>6. job' = [job EXCEPT ![j] = row]
  BY <1>1, <1>3
<1>7. job' \in [Job -> SetupJobs] /\ job'[j] = row /\ \A k \in Job \ {j} : job'[k] = job[k]
  BY <1>2, <1>5, <1>6
<1>8. U!TypeOK'
  BY <1>1, <1>2, <1>7 DEF U!TypeOK, SetupJobs, SetupStatus
<1>9. job[j].status # None
  <2>1. job[j].revision # 0
    BY <1>1
  <2> QED
    BY <2>1, SetupUntouched
<1>10. SetupReplies'
  BY <1>1, <1>2, <1>5, <1>7 DEF SetupReplies
<1> QED
  BY <1>1, <1>5, <1>7, <1>8, <1>9, <1>10, SetupUntouched, SetupServer

\* What a report makes of a row.
LEMMA SetupReported ==
  ASSUME SetupInv, report # None, NEW j \in Job, NEW late \in BOOLEAN
  PROVE  LET row == U!Reported(j, late) IN
         /\ row \in SetupJobs
         /\ job[j].status \in U!Over => row.status \in U!Over
         /\ job[j].told => row.told
         /\ row.enabled => row.status = "complete"
         /\ job[j].status = None \/ row.status = None => row = job[j]
         /\ row.status = "complete" => SetupClaimed(j) /\ job[j].status \notin U!Over
<1> DEFINE was == U!Lapsed(j, late)
           said == report.said[j]
<1>1. /\ was \in SetupJobs /\ was.told = job[j].told /\ was.enabled = job[j].enabled /\ was.revision = job[j].revision
      /\ \/ was = job[j]
         \/ U!Live(j) /\ was.status = "expired" /\ ~ job[j].enabled
  BY SetupLapses
<1>2. U!Reported(j, late) = IF said = None THEN was
                            ELSE IF was.status \in U!Terminal
                            THEN IF was.status \in U!Over /\ said = "recovery" THEN [was EXCEPT !.told = TRUE] ELSE was
                            ELSE IF said = "complete"
                            THEN IF was.enabled \/ was.revision # 1 THEN [was EXCEPT !.status = "failed"]
                                 ELSE [was EXCEPT !.status = "complete", !.enabled = TRUE, !.revision = @ + 1]
                            ELSE IF said = "recovery" THEN [was EXCEPT !.status = "failed", !.told = TRUE]
                            ELSE [was EXCEPT !.status = said]
  BY DEF U!Reported
<1>3. /\ said \in U!Update
      /\ said = "complete" => SetupClaimed(j)
      /\ job[j].status = None => said = None
  <2>1. report \in [said : [Job -> U!Update], awaited : BOOLEAN]
    BY SetupTypes DEF SetupInv
  <2>2. job[j].status = None => said = None
    BY DEF SetupInv, SetupRows, SetupFresh
  <2> QED
    BY <2>1, <2>2 DEF SetupClaimed
<1>4. /\ job[j].enabled => job[j].status = "complete"
      /\ job[j].status = "complete" => SetupClaimed(j) /\ job[j].status \notin U!Over
      /\ job[j] \in SetupJobs
  BY SetupUntouched, SetupRow
<1>5. /\ was.status \in U!Over => was.status # "complete" /\ was.status # None /\ ~ was.enabled
      /\ job[j].status \in U!Over => was = job[j]
      /\ was.status = "complete" \/ was.status = None \/ job[j].status = None => was = job[j]
      /\ was.enabled => was.status = "complete" /\ was = job[j]
  <2>1. U!Live(j) => job[j].status \notin U!Over /\ job[j].status # None
    BY SetupNone DEF U!Live, U!Over
  <2>2. \A s \in U!Over : s # "complete" /\ s # None
    BY SetupNone DEF U!Over
  <2>3. "expired" \in U!Over
    BY DEF U!Over
  <2> QED
    BY <1>1, <1>4, <2>1, <2>2, <2>3
<1> HIDE DEF was, said
<1>6. CASE said = None
  <2>1. U!Reported(j, late) = was
    BY <1>2, <1>6
  <2>2. job[j].status \in U!Over => was.status \in U!Over
    BY <1>5
  <2> QED
    BY <1>1, <1>4, <1>5, <2>1, <2>2
<1>7. CASE said # None /\ was.status \in U!Over /\ said = "recovery"
  <2>1. PICK row : row = [was EXCEPT !.told = TRUE]
    OBVIOUS
  <2>2. U!Reported(j, late) = row
    BY <1>2, <1>7, <2>1 DEF U!Terminal
  <2>3. row \in SetupJobs /\ row.told /\ row.status = was.status /\ row.enabled = was.enabled
    BY <1>1, <2>1 DEF SetupJobs
  <2> QED
    BY <1>3, <1>5, <1>7, <2>2, <2>3
<1>8. CASE said # None /\ ~ (was.status \in U!Over /\ said = "recovery") /\ was.status \in U!Terminal
  <2>1. U!Reported(j, late) = was
    BY <1>2, <1>8
  <2>2. job[j].status \in U!Over => was.status \in U!Over
    BY <1>5
  <2> QED
    BY <1>1, <1>4, <1>5, <2>1, <2>2
<1>9. CASE said # None /\ was.status \notin U!Terminal
  <2>0. was.status \notin U!Over /\ was.status # "complete" /\ ~ was.enabled /\ job[j].status \notin U!Over
    <3>1. was.status \notin U!Over /\ was.status # "complete"
      BY <1>9 DEF U!Terminal
    <3> QED
      BY <1>5, <3>1
  <2>1. CASE said = "complete" /\ (was.enabled \/ was.revision # 1)
    <3>1. PICK row : row = [was EXCEPT !.status = "failed"]
      OBVIOUS
    <3>2. U!Reported(j, late) = row
      BY <1>2, <1>9, <2>0, <2>1, <3>1
    <3>3. row \in SetupJobs /\ row.status = "failed" /\ row.enabled = was.enabled /\ row.told = was.told
      BY <1>1, <3>1 DEF SetupJobs, SetupStatus, U!Terminal, U!Over
    <3>4. "failed" # None
      BY SetupNone DEF U!Over
    <3> QED
      BY <1>1, <1>3, <1>9, <2>0, <3>2, <3>3, <3>4
  <2>2. CASE said = "complete" /\ ~ (was.enabled \/ was.revision # 1)
    <3>1. PICK row : row = [was EXCEPT !.status = "complete", !.enabled = TRUE, !.revision = @ + 1]
      OBVIOUS
    <3>2. U!Reported(j, late) = row
      BY <1>2, <1>9, <2>0, <2>2, <3>1
    <3>3. was.revision + 1 \in 0..MaxEdit
      BY <2>2, SetupAssumption
    <3>4. row \in SetupJobs /\ row.status = "complete" /\ row.enabled /\ row.told = was.told
      BY <1>1, <3>1, <3>3 DEF SetupJobs, SetupStatus, U!Terminal
    <3> QED
      BY <1>1, <1>3, <1>9, <2>0, <2>2, <3>2, <3>4, SetupNone
  <2>3. CASE said = "recovery"
    <3>1. PICK row : row = [was EXCEPT !.status = "failed", !.told = TRUE]
      OBVIOUS
    <3>2. U!Reported(j, late) = row
      BY <1>2, <1>9, <2>0, <2>3, <3>1
    <3>3. row \in SetupJobs /\ row.status = "failed" /\ row.enabled = was.enabled /\ row.told
      BY <1>1, <3>1 DEF SetupJobs, SetupStatus, U!Terminal, U!Over
    <3>4. "failed" # None
      BY SetupNone DEF U!Over
    <3> QED
      BY <1>1, <1>3, <1>9, <2>0, <3>2, <3>3, <3>4
  <2>4. CASE said # "complete" /\ said # "recovery"
    <3>1. PICK row : row = [was EXCEPT !.status = said]
      OBVIOUS
    <3>2. U!Reported(j, late) = row
      BY <1>2, <1>9, <2>0, <2>4, <3>1
    <3>3. said \in {"working", "failed"}
      BY <1>3, <1>9, <2>4 DEF U!Update
    <3>4. row \in SetupJobs /\ row.status = said /\ row.enabled = was.enabled /\ row.told = was.told
      BY <1>1, <3>1, <3>3 DEF SetupJobs, SetupStatus, U!Terminal, U!Over
    <3> QED
      BY <1>1, <1>3, <1>9, <2>0, <2>4, <3>2, <3>4
  <2> QED
    BY <2>1, <2>2, <2>3, <2>4
<1> QED
  BY <1>6, <1>7, <1>8, <1>9

LEMMA SetupServes == ASSUME SetupInv, NEW late \in BOOLEAN, U!Serve(late) PROVE SetupInv'
<1>1. UNCHANGED <<beat, chip, profile, backup, update, worker, queue, crashes>> /\ report # None /\ report' = None
  BY DEF U!Serve, U!Disk
<1>2. U!TypeOK /\ SetupReplies
  BY DEF SetupInv
<1>3. CASE UNCHANGED <<job, answer>>
  <2>1. U!TypeOK'
    BY <1>1, <1>2, <1>3 DEF U!TypeOK
  <2>2. SetupReplies'
    BY <1>1, <1>2, <1>3 DEF SetupReplies
  <2> QED
    BY <1>1, <1>3, <2>1, <2>2, SetupUntouched, SetupServer
<1>4. CASE ~ UNCHANGED <<job, answer>>
  <2>1. /\ job' = [j \in Job |-> U!Reported(j, late)]
        /\ answer' = IF report.awaited THEN [j \in Job |-> [status |-> job'[j].status, told |-> job'[j].told]] ELSE None
    BY <1>4 DEF U!Serve
  <2>2. \A j \in Job : job'[j] = U!Reported(j, late)
    BY <2>1
  <2>3. \A j \in Job : /\ job'[j] \in SetupJobs
                       /\ job[j].status \in U!Over => job'[j].status \in U!Over
                       /\ job[j].told => job'[j].told
                       /\ job'[j].enabled => job'[j].status = "complete"
                       /\ job[j].status = None \/ job'[j].status = None => job'[j] = job[j]
                       /\ job'[j].status = "complete" => SetupClaimed(j) /\ job[j].status \notin U!Over
    BY <1>1, <2>2, SetupReported
  <2>4. job' \in [Job -> SetupJobs]
    BY <2>1, <2>2, <2>3
  <2>5. answer' # None => /\ answer' \in [Job -> SetupAnswers]
                          /\ \A j \in Job : answer'[j].status = job'[j].status /\ answer'[j].told = job'[j].told
    <3> SUFFICES ASSUME answer' # None
                 PROVE  /\ answer' \in [Job -> SetupAnswers]
                        /\ \A j \in Job : answer'[j].status = job'[j].status /\ answer'[j].told = job'[j].told
      OBVIOUS
    <3>1. answer' = [j \in Job |-> [status |-> job'[j].status, told |-> job'[j].told]]
      BY <2>1
    <3>2. \A j \in Job : [status |-> job'[j].status, told |-> job'[j].told] \in SetupAnswers
      BY <2>3 DEF SetupJobs, SetupAnswers
    <3> QED
      BY <3>1, <3>2
  <2>6. U!TypeOK'
    BY <1>1, <1>2, <2>4, <2>5 DEF U!TypeOK, SetupJobs, SetupAnswers, SetupStatus
  <2>7. SetupReplies'
    BY <1>1, <2>5 DEF SetupReplies
  <2>8. ASSUME answer' # None, NEW j \in Job
        PROVE  /\ SetupFresh(j) => answer'[j].status = None
               /\ SetupPast(j) => answer'[j].status \in U!Over \cup {None}
    BY <2>3, <2>5, <2>8, SetupNone DEF SetupFresh, SetupPast
  <2> QED
    BY <1>1, <2>3, <2>6, <2>7, <2>8, SetupServer
<1> QED
  BY <1>3, <1>4

LEMMA SetupRequests == ASSUME ~ Overtaking, SetupInv, NEW k \in Job, U!Request(k) PROVE SetupInv'
<1>0. U!TypeOK /\ SetupRows /\ SetupReplies /\ SetupTask /\ SetupProfile /\ SetupBackups /\ SetupPaired /\ SetupTold
  BY DEF SetupInv
<1>1. /\ job[k] = U!NoRow /\ (\A j \in Job : job[j].status \in U!Over \cup {None})
      /\ \A j \in Job : job[j].status \in U!Over => U!Settled(j)
      /\ UNCHANGED <<beat, chip, profile, backup, update, worker, queue, report, answer, crashes>>
  BY DEF U!Request, U!PortFree, U!Agent, U!Disk
<1>2. PICK row : row = [U!NoRow EXCEPT !.status = "queued", !.revision = 1] /\ job' = [job EXCEPT ![k] = row]
  BY DEF U!Request
<1>3. row \in SetupJobs /\ row.status = "queued" /\ ~ row.enabled /\ ~ row.told
  <2>1. 1 \in 0..MaxEdit
    BY SetupAssumption
  <2> QED
    BY <1>2, <2>1 DEF U!NoRow, SetupJobs, SetupStatus
<1>4. job' \in [Job -> SetupJobs] /\ job'[k] = row /\ \A j \in Job \ {k} : job'[j] = job[j]
  BY <1>0, <1>2, <1>3, SetupTypes
<1>5. U!TypeOK'
  BY <1>0, <1>1, <1>4 DEF U!TypeOK, SetupJobs, SetupStatus
<1>6. SetupFresh(k) /\ ~ SetupPast(k) /\ ~ RecoveryTold(k)
  <2>1. SetupFresh(k)
    BY <1>0, <1>1, SetupNone DEF SetupRows
  <2>2. ~ SetupPast(k)
    BY <1>1, SetupNone DEF SetupPast
  <2>3. ~ RecoveryTold(k)
    BY <1>1, <2>1, SetupNone DEF RecoveryTold, SetupFresh
  <2> QED
    BY <2>1, <2>2, <2>3
<1>7. \A j \in Job \ {k} : /\ (SetupFresh(j) => SetupFresh(j)') /\ (SetupPast(j) => SetupPast(j)') /\ (RecoveryTold(j) => RecoveryTold(j)')
                           /\ SetupFresh(j)' \/ SetupPast(j)'
  <2> SUFFICES ASSUME NEW j \in Job \ {k}
               PROVE  /\ (SetupFresh(j) => SetupFresh(j)') /\ (SetupPast(j) => SetupPast(j)') /\ (RecoveryTold(j) => RecoveryTold(j)') /\ (SetupFresh(j) \/ SetupPast(j))
    OBVIOUS
  <2>1. PortBusy(j)' <=> PortBusy(j)
    BY <1>1 DEF PortBusy, U!task
  <2>2. SetupFresh(j) \/ SetupPast(j)
    BY <1>0, <1>1, SetupRest DEF SetupRows
  <2>3. RecoveryTold(j) => RecoveryTold(j)'
    BY <1>1, <1>4 DEF RecoveryTold
  <2> QED
    BY <1>1, <1>4, <2>1, <2>2, <2>3 DEF SetupFresh, SetupPast
<1>8. SetupRows'
  BY <1>0, <1>1, <1>3, <1>4, <1>7, SetupNone DEF SetupRows
<1>9. SetupOne'
  BY <1>7 DEF SetupOne
<1>10. SetupReplies'
  <2> SUFFICES ASSUME answer # None
               PROVE  /\ report = None
                      /\ \A j \in Job : /\ answer[j].status \in U!Over => job'[j].status \in U!Over
                                        /\ answer[j].status = "complete" => job'[j].status = "complete"
                                        /\ answer[j].status \in {"queued", "working"} => job'[j].status \in {"queued", "working"} \cup U!Over
                                        /\ answer[j].told => job'[j].told
    BY <1>1 DEF SetupReplies
  <2>1. answer[k].status = None /\ ~ answer[k].told
    <3>1. ~ job[k].told /\ (answer[k].told => job[k].told)
      BY <1>0, <1>1, SetupNone DEF SetupReplies
    <3> QED
      BY <1>6, <3>1 DEF SetupFresh
  <2>2. /\ report = None
        /\ \A j \in Job : /\ answer[j].status \in U!Over => job[j].status \in U!Over
                          /\ answer[j].status = "complete" => job[j].status = "complete"
                          /\ answer[j].status \in {"queued", "working"} => job[j].status \in {"queued", "working"} \cup U!Over
                          /\ answer[j].told => job[j].told
    BY <1>0 DEF SetupReplies
  <2> QED
    BY <1>4, <2>1, <2>2, SetupNone
<1>11. SetupTask'
  <2>1. CASE queue = <<>>
    BY <1>1, <2>1 DEF SetupTask
  <2>2. CASE queue # <<>>
    <3>1. PICK t \in U!Task : t = U!task /\ queue = <<t>> /\ TaskFits(t)
      BY <1>0, <2>2 DEF SetupTask
    <3>2. t.job \in Job \ {k}
      BY <1>6, <2>2, <3>1 DEF U!Task, SetupFresh, PortBusy
    <3>3. TaskFits(t)'
      BY <1>1, <1>4, <3>1, <3>2 DEF TaskFits
    <3>4. U!task' = t /\ queue' = <<t>>
      BY <1>1, <3>1 DEF U!task
    <3> QED
      BY <3>3, <3>4 DEF SetupTask
  <2> QED
    BY <2>1, <2>2
<1>12. SetupProfile'
  BY <1>0, <1>1 DEF SetupProfile
<1>13. SetupBackups'
  BY <1>0, <1>1, <1>6, <1>7 DEF SetupBackups
<1>14. SetupPaired'
  <2> SUFFICES ASSUME NEW j \in Job, job'[j].status \notin U!Over, SetupClaimed(j)' PROVE PortPaired(j)'
    BY DEF SetupPaired
  <2>1. j # k
    BY <1>1, <1>3, <1>4, <1>6, SetupNone DEF SetupClaimed, SetupFresh
  <2>2. job[j].status \notin U!Over /\ SetupClaimed(j)
    BY <1>1, <1>4, <2>1 DEF SetupClaimed
  <2>3. PortPaired(j)
    BY <1>0, <2>2 DEF SetupPaired
  <2> QED
    BY <1>1, <2>3 DEF PortPaired, U!task
<1>15. SetupTold'
  <2>1. \A j \in Job : PortBusy(j)' <=> PortBusy(j)
    BY <1>1 DEF PortBusy, U!task
  <2>2. \A j \in Job : RecoveryTold(j) => RecoveryTold(j)'
    BY <1>6, <1>7
  <2> QED
    BY <1>0, <1>1, <2>1, <2>2 DEF SetupTold
<1> QED
  BY <1>5, <1>8, <1>9, <1>10, <1>11, <1>12, <1>13, <1>14, <1>15 DEF SetupInv

LEMMA SetupCrashes == ASSUME SetupInv, U!Crash PROVE SetupInv'
<1>0. U!TypeOK /\ SetupRows /\ SetupOne /\ SetupProfile /\ SetupBackups /\ SetupPaired
  BY DEF SetupInv
<1>1. /\ crashes < MaxCrashes /\ crashes' = crashes + 1 /\ update' = [j \in Job |-> None] /\ worker' = [j \in Job |-> U!Idle] /\ queue' = <<>>
      /\ report' = (IF report = None THEN None ELSE [report EXCEPT !.awaited = FALSE])
      /\ answer' = None /\ UNCHANGED <<job, beat, chip, profile, backup>>
  BY DEF U!Crash, U!Disk
<1>2. crashes \in 0..MaxCrashes /\ MaxCrashes \in Nat
  BY <1>0, SetupTypes, SetupAssumption
<1>3. crashes' \in 0..MaxCrashes /\ crashes' # 0
  BY <1>1, <1>2
<1>4. report' # None => report # None /\ report'.said = report.said /\ report' \in [said : [Job -> U!Update], awaited : BOOLEAN]
  BY <1>0, <1>1, SetupTypes
<1>5. U!Idle \in SetupWorkers /\ None \in U!Update
  BY DEF U!Idle, SetupWorkers, U!Update
<1>6. queue' \in Seq(U!Task) /\ worker' \in [Job -> SetupWorkers] /\ update' \in [Job -> U!Update]
  BY <1>1, <1>5
<1>7. U!TypeOK'
  BY <1>0, <1>1, <1>3, <1>4, <1>6 DEF U!TypeOK, SetupWorkers
<1>8. \A j \in Job : (SetupFresh(j) => SetupFresh(j)') /\ (SetupPast(j) => SetupPast(j)')
  BY <1>1, <1>4, SetupNone DEF SetupFresh, SetupPast, PortBusy
<1>9. SetupRows'
  BY <1>0, <1>1, <1>8 DEF SetupRows
<1>10. SetupOne'
  BY <1>0, <1>8 DEF SetupOne
<1>11. SetupReplies' /\ SetupTask' /\ SetupTold'
  BY <1>1, <1>3 DEF SetupReplies, SetupTask, SetupTold
<1>12. SetupProfile'
  BY <1>0, <1>1 DEF SetupProfile
<1>13. SetupBackups'
  BY <1>0, <1>1, <1>8 DEF SetupBackups
<1>14. SetupPaired'
  <2> SUFFICES ASSUME NEW j \in Job, job'[j].status \notin U!Over, SetupClaimed(j)' PROVE PortPaired(j)'
    BY DEF SetupPaired
  <2>1. job[j].status \notin U!Over /\ SetupClaimed(j)
    BY <1>1, <1>4, SetupNone DEF SetupClaimed
  <2>2. PortPaired(j)
    BY <1>0, <2>1 DEF SetupPaired
  <2> QED
    BY <1>1, <2>2 DEF PortPaired
<1> QED
  BY <1>7, <1>9, <1>10, <1>11, <1>12, <1>13, <1>14 DEF SetupInv
-----------------------------------------------------------------------------
(* The agent handles the jobs that came back.                              *)

ProfileKept == IF U!Abandoned = {} THEN profile ELSE None
SetupsStarted(found) == {j \in U!Wanted : ProfileKept = j \/ j \in found}

LEMMA SetupHandled ==
  ASSUME NEW found, U!Handle(found)
  PROVE  /\ answer # None /\ answer' = None /\ profile' = ProfileKept /\ UNCHANGED <<job, beat, chip, backup, report, crashes>>
         /\ queue' = queue \o (IF U!Abandoned = {} THEN <<>> ELSE <<U!New("recover", CHOOSE j \in U!Abandoned : TRUE)>>)
                           \o (IF SetupsStarted(found) = {} THEN <<>>
                               ELSE <<U!New(IF ProfileKept = (CHOOSE j \in SetupsStarted(found) : TRUE) THEN "resume" ELSE "provision",
                                               CHOOSE j \in SetupsStarted(found) : TRUE)>>)
         /\ update' = [j \in Job |-> IF U!Acknowledged(j) THEN None ELSE IF j \in U!Wanted \ SetupsStarted(found) THEN "failed" ELSE update[j]]
         /\ worker' = [j \in Job |->
             CASE j \in SetupsStarted(found) -> [U!Idle EXCEPT !.thread = "alive"]
               [] j \in U!Abandoned /\ worker[j] = U!Idle -> [U!Idle EXCEPT !.thread = "alive"]
               [] j \in U!Completed /\ worker[j].thread # None -> [worker[j] EXCEPT !.accepted = TRUE]
               [] j \in U!Ended /\ worker[j].thread # None /\ ~ worker[j].accepted -> [worker[j] EXCEPT !.cancelled = TRUE]
               [] OTHER -> worker[j]]
<1>1. answer # None /\ answer' = None /\ profile' = ProfileKept /\ UNCHANGED <<job, beat, chip, backup, report, crashes>>
  BY DEF U!Handle, ProfileKept
<1>2. queue' = queue \o (IF U!Abandoned = {} THEN <<>> ELSE <<U!New("recover", CHOOSE j \in U!Abandoned : TRUE)>>)
                     \o (IF SetupsStarted(found) = {} THEN <<>>
                               ELSE <<U!New(IF ProfileKept = (CHOOSE j \in SetupsStarted(found) : TRUE) THEN "resume" ELSE "provision",
                                               CHOOSE j \in SetupsStarted(found) : TRUE)>>)
  BY DEF U!Handle, ProfileKept, SetupsStarted
<1>3. update' = [j \in Job |-> IF U!Acknowledged(j) THEN None ELSE IF j \in U!Wanted \ SetupsStarted(found) THEN "failed" ELSE update[j]]
  BY DEF U!Handle, ProfileKept, SetupsStarted
<1>4. worker' = [j \in Job |->
             CASE j \in SetupsStarted(found) -> [U!Idle EXCEPT !.thread = "alive"]
               [] j \in U!Abandoned /\ worker[j] = U!Idle -> [U!Idle EXCEPT !.thread = "alive"]
               [] j \in U!Completed /\ worker[j].thread # None -> [worker[j] EXCEPT !.accepted = TRUE]
               [] j \in U!Ended /\ worker[j].thread # None /\ ~ worker[j].accepted -> [worker[j] EXCEPT !.cancelled = TRUE]
               [] OTHER -> worker[j]]
  BY DEF U!Handle, ProfileKept, SetupsStarted
<1> QED
  BY <1>1, <1>2, <1>3, <1>4

\* The jobs that an answer makes the agent take up or drop: one at most, and
\* then nothing else is queued.
LEMMA SetupChooses ==
  ASSUME SetupInv, answer # None, NEW found
  PROVE  /\ \A a \in U!Abandoned : /\ a \in Job /\ profile = a /\ job[a].status \in U!Over /\ worker[a].thread # "alive"
                                   /\ queue = <<>> /\ U!Abandoned = {a} /\ SetupsStarted(found) = {}
         /\ \A a \in SetupsStarted(found) : /\ a \in Job /\ worker[a].thread = None /\ ~ SetupFresh(a) /\ ~ SetupPast(a) /\ queue = <<>>
                                      /\ SetupsStarted(found) = {a} /\ U!Abandoned = {} /\ a \notin U!Ended /\ a \notin U!Completed
<1>0. SetupRows /\ SetupOne /\ SetupTask /\ SetupReplies
  BY DEF SetupInv
<1>1. ASSUME NEW a \in U!Abandoned
      PROVE  /\ a \in Job /\ profile = a /\ job[a].status \in U!Over /\ worker[a].thread # "alive" /\ queue = <<>> /\ U!Abandoned = {a}
             /\ ~ SetupFresh(a) /\ ~ SetupPast(a)
  <2>1. a \in Job /\ profile = a /\ answer[a].status \in U!Over /\ worker[a].thread # "alive"
    BY DEF U!Abandoned, U!Ended
  <2>2. job[a].status \in U!Over
    BY <1>0, <2>1 DEF SetupReplies
  <2>3. U!Abandoned = {a}
    BY <2>1 DEF U!Abandoned
  <2>4. queue = <<>>
    <3> SUFFICES ASSUME queue # <<>> PROVE FALSE
      OBVIOUS
    <3>1. PICK t \in U!Task : t = U!task /\ TaskFits(t) /\ t.job \in Job /\ profile \in {None, t.job}
      BY SetupRuns
    <3>2. t.job = a
      BY <2>1, <3>1, SetupNone
    <3> QED
      BY <2>1, <3>1, <3>2 DEF TaskFits
  <2> QED
    BY <2>1, <2>2, <2>3, <2>4 DEF SetupFresh, SetupPast
<1>2. ASSUME NEW w \in U!Wanted
      PROVE  w \in Job /\ worker[w].thread = None /\ ~ SetupFresh(w) /\ ~ SetupPast(w) /\ queue = <<>> /\ w \notin U!Ended /\ w \notin U!Completed
  <2>1. w \in Job /\ worker[w].thread = None /\ answer[w].status \in {"queued", "working"}
    BY DEF U!Wanted
  <2>2. answer[w].status \notin U!Over \cup {None, "complete"}
    BY <2>1, SetupNone DEF U!Over
  <2>3. ~ SetupFresh(w) /\ ~ SetupPast(w)
    BY <2>2 DEF SetupFresh, SetupPast
  <2>4. queue = <<>>
    <3> SUFFICES ASSUME queue # <<>> PROVE FALSE
      OBVIOUS
    <3>1. PICK t \in U!Task : t = U!task /\ t.job \in Job /\ PortBusy(t.job) /\ worker[t.job].thread # None
      BY SetupRuns
    <3>2. t.job # w
      BY <2>1, <3>1
    <3>3. ~ PortBusy(t.job)
      BY <1>0, <2>1, <2>3, <3>1, <3>2 DEF SetupOne, SetupFresh, SetupPast
    <3> QED
      BY <3>1, <3>3
  <2> QED
    BY <2>1, <2>2, <2>3, <2>4 DEF U!Ended, U!Completed
<1>3. \A w, v \in U!Wanted : w = v
  BY <1>0, <1>2 DEF SetupOne
<1>4. \A a \in U!Abandoned, w \in U!Wanted : FALSE
  <2> SUFFICES ASSUME NEW a \in U!Abandoned, NEW w \in U!Wanted PROVE FALSE
    OBVIOUS
  <2>1. a # w
    BY <1>2 DEF U!Abandoned
  <2> QED
    BY <1>0, <1>1, <1>2, <2>1 DEF SetupOne
<1>5. SetupsStarted(found) \subseteq U!Wanted
  BY DEF SetupsStarted
<1> QED
  BY <1>1, <1>2, <1>3, <1>4, <1>5

\* What becomes of a job's record and of what is staged about it.
LEMMA SetupMarks ==
  ASSUME SetupInv, NEW found, U!Handle(found), NEW j \in Job
  PROVE  /\ worker'[j] \in SetupWorkers /\ update'[j] \in U!Update
         /\ j \in SetupsStarted(found) => worker'[j].thread = "alive"
         /\ j \in U!Abandoned => worker'[j].thread # None
         /\ j \notin SetupsStarted(found) \cup U!Abandoned => worker'[j].thread = worker[j].thread
         /\ worker'[j].thread = None => worker'[j] = worker[j]
         /\ update'[j] = "complete" \/ update'[j] = "recovery" => update'[j] = update[j]
         /\ j \notin U!Ended \cup U!Completed \cup U!Wanted => worker'[j] = worker[j] /\ update'[j] = update[j]
         /\ update[j] = "recovery" => update'[j] = "recovery" \/ j \in U!Completed \cup U!Wanted \/ (j \in U!Ended /\ answer[j].told)
<1>0. U!TypeOK /\ SetupRows
  BY DEF SetupInv
<1>1. worker[j] \in SetupWorkers /\ update[j] \in U!Update /\ answer # None
  BY <1>0, SetupTypes, SetupHandled
<1>2. worker'[j] = CASE j \in SetupsStarted(found) -> [U!Idle EXCEPT !.thread = "alive"]
                     [] j \in U!Abandoned /\ worker[j] = U!Idle -> [U!Idle EXCEPT !.thread = "alive"]
                     [] j \in U!Completed /\ worker[j].thread # None -> [worker[j] EXCEPT !.accepted = TRUE]
                     [] j \in U!Ended /\ worker[j].thread # None /\ ~ worker[j].accepted -> [worker[j] EXCEPT !.cancelled = TRUE]
                     [] OTHER -> worker[j]
  BY SetupHandled
<1>3. update'[j] = IF U!Acknowledged(j) THEN None ELSE IF j \in U!Wanted \ SetupsStarted(found) THEN "failed" ELSE update[j]
  BY SetupHandled
<1>4. /\ update'[j] \in U!Update
      /\ update'[j] = "complete" \/ update'[j] = "recovery" => update'[j] = update[j]
      /\ j \notin U!Ended \cup U!Completed \cup U!Wanted => update'[j] = update[j]
      /\ update[j] = "recovery" => update'[j] = "recovery" \/ j \in U!Completed \cup U!Wanted \/ (j \in U!Ended /\ answer[j].told)
  BY <1>1, <1>3, SetupAssumption DEF U!Acknowledged, U!Update
<1>5. /\ j \in SetupsStarted(found) => j \in U!Wanted /\ worker[j].thread = None /\ j \notin U!Ended /\ j \notin U!Completed /\ j \notin U!Abandoned
      /\ j \in U!Abandoned => j \in U!Ended /\ j \notin U!Completed
      /\ j \in U!Ended => j \notin U!Completed
      /\ worker[j].thread = None <=> worker[j] = U!Idle
  <2>1. j \in SetupsStarted(found) => j \in U!Wanted /\ worker[j].thread = None
    BY DEF SetupsStarted, U!Wanted
  <2>2. j \in U!Wanted => j \notin U!Ended
    BY DEF U!Wanted, U!Ended, U!Over
  <2>3. j \in U!Wanted => j \notin U!Completed
    BY DEF U!Wanted, U!Completed
  <2>4. j \in U!Ended => j \notin U!Completed
    BY DEF U!Ended, U!Completed, U!Over
  <2>5. j \in U!Abandoned => j \in U!Ended
    BY DEF U!Abandoned
  <2>6. worker[j].thread = None <=> worker[j] = U!Idle
    BY <1>0, SetupNone DEF SetupRows
  <2> QED
    BY <2>1, <2>2, <2>3, <2>4, <2>5, <2>6
<1>6. "alive" # None /\ U!Idle.thread = None
  BY SetupNone
<1>7. CASE j \in SetupsStarted(found) \/ (j \in U!Abandoned /\ worker[j] = U!Idle)
  <2>1. PICK w : w = [U!Idle EXCEPT !.thread = "alive"]
    OBVIOUS
  <2>2. w \in SetupWorkers /\ w.thread = "alive"
    BY <2>1 DEF U!Idle, SetupWorkers
  <2>3. worker'[j] = w
    BY <1>2, <1>5, <1>6, <1>7, <2>1
  <2>4. j \in U!Ended \cup U!Completed \cup U!Wanted
    BY <1>5, <1>7
  <2> QED
    BY <1>4, <1>5, <1>6, <1>7, <2>2, <2>3, <2>4
<1>8. CASE j \notin SetupsStarted(found) /\ ~ (j \in U!Abandoned /\ worker[j] = U!Idle) /\ worker[j].thread # None /\ j \in U!Ended \cup U!Completed
  <2>1. PICK w : w = (IF j \in U!Completed THEN [worker[j] EXCEPT !.accepted = TRUE]
                      ELSE IF ~ worker[j].accepted THEN [worker[j] EXCEPT !.cancelled = TRUE] ELSE worker[j])
    OBVIOUS
  <2>2. w \in SetupWorkers /\ w.thread = worker[j].thread
    BY <1>1, <2>1 DEF SetupWorkers
  <2>3. worker'[j] = w
    BY <1>2, <1>5, <1>8, <2>1
  <2> QED
    BY <1>4, <1>5, <1>8, <2>2, <2>3
<1>9. CASE j \notin SetupsStarted(found) /\ ~ (j \in U!Abandoned /\ worker[j] = U!Idle) /\ ~ (worker[j].thread # None /\ j \in U!Ended \cup U!Completed)
  <2>1. worker'[j] = worker[j]
    BY <1>2, <1>9
  <2>2. j \notin U!Abandoned
    BY <1>5, <1>9
  <2> QED
    BY <1>1, <1>4, <1>9, <2>1, <2>2
<1> QED
  BY <1>7, <1>8, <1>9

LEMMA SetupHandles == ASSUME SetupInv, NEW found, U!Handle(found) PROVE SetupInv'
<1>0. U!TypeOK /\ SetupRows /\ SetupOne /\ SetupReplies /\ SetupTask /\ SetupProfile /\ SetupBackups /\ SetupPaired /\ SetupTold
  BY DEF SetupInv
<1>1. answer # None /\ answer' = None /\ profile' = ProfileKept /\ UNCHANGED <<job, beat, chip, backup, report, crashes>> /\ report = None
  BY <1>0, SetupHandled DEF SetupReplies
<1>2. /\ \A a \in U!Abandoned : /\ a \in Job /\ profile = a /\ job[a].status \in U!Over /\ worker[a].thread # "alive"
                                /\ queue = <<>> /\ U!Abandoned = {a} /\ SetupsStarted(found) = {}
      /\ \A a \in SetupsStarted(found) : /\ a \in Job /\ worker[a].thread = None /\ ~ SetupFresh(a) /\ ~ SetupPast(a) /\ queue = <<>>
                                   /\ SetupsStarted(found) = {a} /\ U!Abandoned = {} /\ a \notin U!Ended /\ a \notin U!Completed
  BY <1>1, SetupChooses
<1>3. \A j \in Job : /\ worker'[j] \in SetupWorkers /\ update'[j] \in U!Update
                     /\ j \in SetupsStarted(found) => worker'[j].thread = "alive"
                     /\ j \in U!Abandoned => worker'[j].thread # None
                     /\ j \notin SetupsStarted(found) \cup U!Abandoned => worker'[j].thread = worker[j].thread
                     /\ worker'[j].thread = None => worker'[j] = worker[j]
                     /\ update'[j] = "complete" \/ update'[j] = "recovery" => update'[j] = update[j]
                     /\ j \notin U!Ended \cup U!Completed \cup U!Wanted => worker'[j] = worker[j] /\ update'[j] = update[j]
                     /\ update[j] = "recovery" => update'[j] = "recovery" \/ j \in U!Completed \cup U!Wanted \/ (j \in U!Ended /\ answer[j].told)
  BY SetupMarks
<1>4. U!Abandoned = {} => profile' = profile
  BY <1>1 DEF ProfileKept
<1>5. /\ U!Abandoned # {} => \E a \in U!Abandoned : queue' = <<U!New("recover", a)>> /\ profile' = None
      /\ SetupsStarted(found) # {} => \E a \in SetupsStarted(found) : queue' = <<U!New(IF profile = a THEN "resume" ELSE "provision", a)>>
      /\ U!Abandoned = {} /\ SetupsStarted(found) = {} => queue' = queue
  <2>0. queue' = queue \o (IF U!Abandoned = {} THEN <<>> ELSE <<U!New("recover", CHOOSE j \in U!Abandoned : TRUE)>>)
                       \o (IF SetupsStarted(found) = {} THEN <<>>
                           ELSE <<U!New(IF ProfileKept = (CHOOSE j \in SetupsStarted(found) : TRUE) THEN "resume" ELSE "provision",
                                        CHOOSE j \in SetupsStarted(found) : TRUE)>>)
    BY SetupHandled
  <2>1. ASSUME U!Abandoned # {} PROVE \E a \in U!Abandoned : queue' = <<U!New("recover", a)>> /\ profile' = None
    <3>1. PICK a : a = (CHOOSE j \in U!Abandoned : TRUE)
      OBVIOUS
    <3>2. a \in U!Abandoned
      BY <2>1, <3>1
    <3>3. SetupsStarted(found) = {} /\ queue = <<>>
      BY <1>2, <3>2
    <3>4. queue' = <<>> \o <<U!New("recover", a)>> \o <<>>
      BY <2>0, <2>1, <3>1, <3>3
    <3>5. queue' = <<U!New("recover", a)>>
      BY <3>4, FirstTask
    <3> QED
      BY <1>1, <2>1, <3>2, <3>5 DEF ProfileKept
  <2>2. ASSUME SetupsStarted(found) # {}
        PROVE  \E a \in SetupsStarted(found) : queue' = <<U!New(IF profile = a THEN "resume" ELSE "provision", a)>>
    <3>1. PICK a : a = (CHOOSE j \in SetupsStarted(found) : TRUE)
      OBVIOUS
    <3>2. a \in SetupsStarted(found)
      BY <2>2, <3>1
    <3>3. U!Abandoned = {} /\ queue = <<>> /\ ProfileKept = profile
      BY <1>2, <3>2 DEF ProfileKept
    <3>4. queue' = <<>> \o <<>> \o <<U!New(IF profile = a THEN "resume" ELSE "provision", a)>>
      BY <2>0, <2>2, <3>1, <3>3
    <3>5. queue' = <<U!New(IF profile = a THEN "resume" ELSE "provision", a)>>
      BY <3>4, FirstTask
    <3> QED
      BY <3>2, <3>5
  <2>3. ASSUME U!Abandoned = {}, SetupsStarted(found) = {} PROVE queue' = queue
    <3>1. queue' = queue \o <<>> \o <<>>
      BY <2>0, <2>3
    <3>2. queue \in Seq(U!Task)
      BY <1>0, SetupTypes
    <3> QED
      BY <3>1, <3>2
  <2> QED
    BY <2>1, <2>2, <2>3
<1>6. queue' = <<>> \/ \E t \in U!Task : queue' = <<t>> /\ U!task' = t /\ TaskFits(t)' /\ (t.job \in SetupsStarted(found) \cup U!Abandoned \/ queue' = queue)
  <2>1. CASE U!Abandoned # {}
    <3>1. PICK a \in U!Abandoned : queue' = <<U!New("recover", a)>> /\ profile' = None
      BY <1>5, <2>1
    <3>2. PICK t : t = U!New("recover", a)
      OBVIOUS
    <3>3. a \in Job /\ job[a].status \in U!Over /\ worker'[a].thread # None
      BY <1>2, <1>3, <3>1
    <3>4. t \in U!Task /\ t.do = "recover" /\ t.job = a /\ t.at = "verify" /\ t.previous = None
      BY <3>2, <3>3 DEF U!New, U!Task
    <3>5. TaskFits(t)'
      BY <1>1, <3>1, <3>3, <3>4, SetupNone DEF TaskFits
    <3>6. U!task' = t
      BY <3>1, <3>2, OneTask DEF U!task
    <3> QED
      BY <3>1, <3>2, <3>4, <3>5, <3>6
  <2>2. CASE SetupsStarted(found) # {}
    <3>1. PICK a \in SetupsStarted(found) : queue' = <<U!New(IF profile = a THEN "resume" ELSE "provision", a)>>
      BY <1>5, <2>2
    <3>2. PICK t : t = U!New(IF profile = a THEN "resume" ELSE "provision", a)
      OBVIOUS
    <3>3. a \in Job /\ worker[a].thread = None /\ worker'[a].thread = "alive" /\ profile' = profile
      BY <1>2, <1>3, <1>4, <3>1
    <3>4. /\ t \in U!Task /\ t.job = a /\ t.previous = None /\ ~ t.changed
          /\ profile = a => t.do = "resume" /\ t.at = "verify"
          /\ profile # a => t.do = "provision" /\ t.at = "start"
      BY <3>2, <3>3 DEF U!New, U!Task
    <3>5. crashes = 0 => chip # a
      BY <1>0, <3>3 DEF SetupTold
    <3>6. TaskFits(t)'
      BY <1>1, <3>3, <3>4, <3>5, SetupNone DEF TaskFits
    <3>7. U!task' = t
      BY <3>1, <3>2, OneTask DEF U!task
    <3> QED
      BY <3>1, <3>2, <3>4, <3>6, <3>7
  <2>3. CASE U!Abandoned = {} /\ SetupsStarted(found) = {}
    <3>1. queue' = queue /\ profile' = profile
      BY <1>4, <1>5, <2>3
    <3>2. CASE queue = <<>>
      BY <3>1, <3>2
    <3>3. CASE queue # <<>>
      <4>1. PICK t \in U!Task : t = U!task /\ queue = <<t>> /\ TaskFits(t) /\ t.job \in Job
        BY <3>3, SetupRuns
      <4>2. worker'[t.job].thread = worker[t.job].thread
        BY <1>3, <2>3, <4>1
      <4>3. TaskFits(t)'
        BY <1>1, <3>1, <4>1, <4>2 DEF TaskFits
      <4>4. U!task' = t
        BY <3>1, <4>1 DEF U!task
      <4> QED
        BY <3>1, <4>1, <4>3, <4>4
    <3> QED
      BY <3>2, <3>3
  <2> QED
    BY <2>1, <2>2, <2>3
<1>7. SetupTask'
  BY <1>6 DEF SetupTask
<1>8. profile' \in {profile, None}
  BY <1>1 DEF ProfileKept
<1>9. U!TypeOK'
  <2>1. queue' \in Seq(U!Task)
    <3>1. CASE queue' = <<>>
      BY <3>1
    <3>2. CASE queue' # <<>>
      <4>1. PICK t \in U!Task : queue' = <<t>>
        BY <1>6, <3>2
      <4>2. <<t>> \in Seq(U!Task)
        OBVIOUS
      <4> QED
        BY <4>1, <4>2
    <3> QED
      BY <3>1, <3>2
  <2>2. worker' \in [Job -> SetupWorkers] /\ update' \in [Job -> U!Update]
    <3>1. /\ \E f : worker' = [j \in Job |-> f[j]]
          /\ \E f : update' = [j \in Job |-> f[j]]
      BY SetupHandled
    <3> QED
      BY <1>3, <3>1
  <2> QED
    BY <1>0, <1>1, <1>8, <2>1, <2>2 DEF U!TypeOK, SetupWorkers
<1>10. ASSUME NEW j \in Job
       PROVE  /\ SetupFresh(j) => SetupFresh(j)'
              /\ SetupPast(j) => SetupPast(j)'
  <2>1. SetupFresh(j) \/ SetupPast(j) => profile' # j /\ j \notin U!Abandoned /\ ~ PortBusy(j)'
    <3> SUFFICES ASSUME SetupFresh(j) \/ SetupPast(j) PROVE profile' # j /\ j \notin U!Abandoned /\ ~ PortBusy(j)'
      OBVIOUS
    <3>1. profile' # j /\ j \notin U!Abandoned
      BY <1>2, <1>8, SetupNone DEF SetupFresh, SetupPast
    <3>2. j \notin SetupsStarted(found) /\ ~ PortBusy(j)
      BY <1>2 DEF SetupFresh, SetupPast
    <3>3. PortBusy(j)' => PortBusy(j) \/ j \in SetupsStarted(found) \cup U!Abandoned
      BY <1>6 DEF PortBusy, U!task
    <3> QED
      BY <3>1, <3>2, <3>3
  <2>2. ASSUME SetupFresh(j) PROVE SetupFresh(j)'
    <3>1. j \notin U!Ended \cup U!Completed \cup U!Wanted
      BY <1>1, <2>2, SetupNone DEF SetupFresh, U!Ended, U!Completed, U!Wanted
    <3>2. worker'[j] = worker[j] /\ update'[j] = update[j]
      BY <1>3, <3>1
    <3> QED
      BY <1>1, <2>1, <2>2, <3>2 DEF SetupFresh
  <2>3. ASSUME SetupPast(j) PROVE SetupPast(j)'
    <3>1. worker'[j].thread = worker[j].thread
      BY <1>2, <1>3, <2>1, <2>3
    <3> QED
      BY <1>1, <2>1, <2>3, <3>1 DEF SetupPast
  <2> QED
    BY <2>2, <2>3
<1>11. SetupRows'
  BY <1>0, <1>1, <1>3, <1>10 DEF SetupRows
<1>12. SetupOne'
  BY <1>0, <1>10 DEF SetupOne
<1>13. SetupReplies' /\ SetupProfile'
  BY <1>0, <1>1, <1>8 DEF SetupReplies, SetupProfile
<1>14. SetupBackups'
  BY <1>0, <1>1, <1>10 DEF SetupBackups
<1>15. SetupPaired'
  <2> SUFFICES ASSUME NEW j \in Job, job'[j].status \notin U!Over, SetupClaimed(j)' PROVE PortPaired(j)'
    BY DEF SetupPaired
  <2>1. job[j].status \notin U!Over /\ SetupClaimed(j)
    BY <1>1, <1>3 DEF SetupClaimed
  <2>2. PortPaired(j)
    BY <1>0, <2>1 DEF SetupPaired
  <2>3. ~ SetupFresh(j) /\ ~ SetupPast(j)
    BY <2>1, <2>2 DEF SetupFresh, SetupPast, PortPaired
  <2>4. U!Abandoned = {}
    BY <1>2, <2>1, <2>2 DEF PortPaired
  <2>5. CASE SetupsStarted(found) = {}
    BY <1>1, <1>4, <1>5, <2>2, <2>4, <2>5 DEF PortPaired, U!task
  <2>6. CASE SetupsStarted(found) # {}
    <3>1. PICK a \in SetupsStarted(found) : queue' = <<U!New(IF profile = a THEN "resume" ELSE "provision", a)>>
      BY <1>5, <2>6
    <3>2. a = j
      BY <1>0, <1>2, <2>3, <3>1 DEF SetupOne
    <3>3. queue' = <<U!New("resume", j)>>
      BY <2>2, <3>1, <3>2 DEF PortPaired
    <3>4. U!task' = U!New("resume", j)
      BY <3>3, OneTask DEF U!task
    <3> QED
      BY <1>1, <1>4, <2>2, <2>4, <3>4 DEF PortPaired, U!New
  <2> QED
    BY <2>5, <2>6
<1>16. SetupTold'
  <2> SUFFICES ASSUME crashes = 0
               PROVE  \A j \in Job : /\ worker'[j].thread = None => /\ chip # j /\ update'[j] # "recovery"
                                                                   /\ \A i \in Job : backup[i] # j
                                     /\ \A i \in Job : backup[i] = j => RecoveryTold(j)'
                                     /\ chip = j /\ profile' # j /\ ~ PortBusy(j)' => RecoveryTold(j)'
    BY <1>1 DEF SetupTold
  <2>0. \A j \in Job : /\ worker[j].thread = None => chip # j /\ update[j] # "recovery" /\ \A i \in Job : backup[i] # j
                       /\ \A i \in Job : backup[i] = j => RecoveryTold(j)
                       /\ chip = j /\ profile # j /\ ~ PortBusy(j) => RecoveryTold(j)
    BY <1>0 DEF SetupTold
  <2>1. ASSUME NEW j \in Job, worker'[j].thread = None
        PROVE  chip # j /\ update'[j] # "recovery" /\ \A i \in Job : backup[i] # j
    BY <1>3, <2>0, <2>1
  <2>2. ASSUME NEW j \in Job, RecoveryTold(j), j \notin U!Completed PROVE RecoveryTold(j)'
    <3>1. CASE job[j].told
      BY <1>1, <3>1 DEF RecoveryTold
    <3>2. CASE update[j] = "recovery"
      <4>1. j \notin U!Wanted
        BY <2>0, <3>2 DEF U!Wanted
      <4>2. update'[j] = "recovery" \/ answer[j].told
        BY <1>3, <2>2, <3>2, <4>1
      <4>3. answer[j].told => job[j].told
        BY <1>0, <1>1 DEF SetupReplies
      <4> QED
        BY <1>1, <4>2, <4>3 DEF RecoveryTold
    <3> QED
      BY <2>2, <3>1, <3>2 DEF RecoveryTold
  <2>3. ASSUME NEW j \in Job, NEW i \in Job, backup[i] = j PROVE RecoveryTold(j)'
    <3>1. SetupPast(j)
      BY <1>0, <2>3 DEF SetupBackups
    <3>2. j \notin U!Completed
      BY <1>1, <3>1, SetupNone DEF SetupPast, U!Completed, U!Over
    <3> QED
      BY <2>0, <2>2, <2>3, <3>2
  <2>4. ASSUME NEW j \in Job, chip = j, profile' # j, ~ PortBusy(j)' PROVE RecoveryTold(j)'
    <3>1. ~ PortBusy(j)
      <4> SUFFICES ASSUME PortBusy(j) PROVE FALSE
        OBVIOUS
      <4>1. U!Abandoned = {} /\ SetupsStarted(found) = {}
        BY <1>2 DEF PortBusy
      <4>2. queue' = queue
        BY <1>5, <4>1
      <4> QED
        BY <2>4, <4>2 DEF PortBusy, U!task
    <3>2. profile # j
      <4> SUFFICES ASSUME profile = j PROVE FALSE
        OBVIOUS
      <4>1. U!Abandoned # {}
        BY <1>4, <2>4
      <4>2. PICK a \in U!Abandoned : queue' = <<U!New("recover", a)>>
        BY <1>5, <4>1
      <4>3. a = j
        BY <1>2, <4>2
      <4>4. U!task' = U!New("recover", j) /\ queue' # <<>>
        BY <4>2, <4>3, OneTask DEF U!task
      <4> QED
        BY <2>4, <4>4 DEF PortBusy, U!New
    <3>3. j \notin U!Completed
      <4>1. j \in U!Completed => job[j].status = "complete"
        BY <1>0, <1>1 DEF U!Completed, SetupReplies
      <4>2. job[j].status = "complete" => PortPaired(j)
        BY <1>0 DEF SetupPaired, SetupClaimed, U!Over
      <4> QED
        BY <3>2, <4>1, <4>2 DEF PortPaired
    <3> QED
      BY <2>0, <2>2, <2>4, <3>1, <3>2, <3>3
  <2> QED
    BY <2>1, <2>3, <2>4
<1> QED
  BY <1>7, <1>9, <1>11, <1>12, <1>13, <1>14, <1>15, <1>16 DEF SetupInv

-----------------------------------------------------------------------------
(* Every step, and what it means.                                          *)

LEMMA SetupNext == ASSUME ~ Overtaking, SetupInv, [U!Next]_U!vars PROVE SetupInv'
<1>1. CASE UNCHANGED U!vars
  <2>1. UNCHANGED <<job, beat, chip, profile, backup, update, worker, queue, report, answer, crashes>>
    BY <1>1 DEF U!vars
  <2>2. U!TypeOK /\ SetupReplies
    BY DEF SetupInv
  <2>3. U!TypeOK'
    BY <2>1, <2>2 DEF U!TypeOK
  <2>4. SetupReplies'
    BY <2>1, <2>2 DEF SetupReplies
  <2> QED
    BY <2>1, <2>3, <2>4, SetupUntouched, SetupServer
<1>2. CASE U!Next
  <2>1. ASSUME NEW j \in Job, U!Request(j) \/ U!Cancel(j) \/ U!Heartbeat(j) \/ U!Silence(j) PROVE SetupInv'
    BY <2>1, SetupRequests, SetupCancels, SetupSpeaks
  <2>2. ASSUME NEW j \in Job, NEW on \in BOOLEAN, U!EditReader(j, on) PROVE SetupInv'
    BY <2>2, SetupEdits
  <2>3. ASSUME U!ListSetups \/ (\E late \in BOOLEAN : U!Serve(late)) PROVE SetupInv'
    BY <2>3, SetupLists, SetupServes
  <2>4. ASSUME U!Report \/ U!Lose \/ (\E found \in {{}, Job} : U!Handle(found)) PROVE SetupInv'
    BY <2>4, SetupReports, SetupLoses, SetupHandles
  <2>5. ASSUME U!Start \/ U!BackUp \/ U!Pair \/ U!Save \/ U!Verify \/ U!Beat PROVE SetupInv'
    BY <2>5, SetupStarts, SetupSaves, SetupPairs, SetupInstalls, SetupVerifies, SetupBeats
  <2>6. ASSUME U!BeatFails \/ U!Fail \/ U!ResumeFails \/ U!Undo \/ U!RollBack \/ U!Recover \/ U!Crash PROVE SetupInv'
    BY <2>6, SetupWaits, SetupFails, SetupGivesUp, SetupUndoes, SetupRollsBack, SetupRecovers, SetupCrashes
  <2> QED
    BY <1>2, <2>1, <2>2, <2>3, <2>4, <2>5, <2>6 DEF U!Next
<1> QED
  BY <1>1, <1>2

LEMMA SetupMeans == SetupInv => U!TypeOK /\ U!EnabledIsConfirmed /\ U!CompleteIsPaired /\ U!RestoredOrTold
<1> SUFFICES ASSUME SetupInv PROVE U!TypeOK /\ U!EnabledIsConfirmed /\ U!CompleteIsPaired /\ U!RestoredOrTold
  OBVIOUS
<1>1. U!TypeOK /\ U!EnabledIsConfirmed
  BY DEF SetupInv, SetupRows, U!EnabledIsConfirmed
<1>2. U!CompleteIsPaired
  BY DEF SetupInv, SetupPaired, SetupClaimed, U!Over, PortPaired, U!CompleteIsPaired
<1>3. U!RestoredOrTold
  BY SetupNone DEF SetupInv, SetupTold, RecoveryTold, PortBusy, U!Quiet, U!RestoredOrTold
<1> QED
  BY <1>1, <1>2, <1>3

\* Where staff wait with a retry until the agent is done with the last try, a
\* reader is enabled only by a set-up that was completed, what staff see as
\* complete is paired, and a chip keeps the key of a set-up that is over only
\* if staff are told.
THEOREM SetupIsTrue ==
  ASSUME ~ Overtaking
  PROVE  U!Spec => [](U!EnabledIsConfirmed /\ U!CompleteIsPaired /\ U!RestoredOrTold)
<1>1. U!Init => SetupInv
  BY SetupStart
<1>2. SetupInv /\ [U!Next]_U!vars => SetupInv'
  BY SetupNext
<1>3. SetupInv => U!EnabledIsConfirmed /\ U!CompleteIsPaired /\ U!RestoredOrTold
  BY SetupMeans
<1> QED
  BY <1>1, <1>2, <1>3, PTL DEF U!Spec

-----------------------------------------------------------------------------
(* The parts of the suite.                                                 *)

\* No card opens doors for two members and no scan is used twice, in any
\* behaviour of the suite.
THEOREM CardsStand == MCSpec => []CardsServeOnce
<1> DEFINE inv == part = "cards" => CardsInv
<1>1. MCInit => inv
  BY CardsInit DEF MCInit
<1>2. inv /\ [MCNext]_<<part, All>> => inv'
  <2>1. ASSUME inv, MCNext PROVE inv'
    BY <2>1, CardsNext DEF MCNext
  <2>2. ASSUME inv, UNCHANGED <<part, All>> PROVE inv'
    BY <2>2, CardsNext DEF All, Cards, C!vars
  <2> QED
    BY <2>1, <2>2
<1>3. inv => CardsServeOnce
  BY DEF CardsServeOnce, CardsInv
<1> QED
  BY <1>1, <1>2, <1>3, PTL DEF MCSpec

\* The same of the visits, where no transaction outlasts its day.
THEOREM VisitsStand ==
  ASSUME ~ Straddle
  PROVE  MCSpec => []VisitsSound
<1> DEFINE inv == part = "visits" => VisitsInv
<1>1. MCInit => inv
  BY VisitsInit DEF MCInit
<1>2. inv /\ [MCNext]_<<part, All>> => inv'
  <2>1. ASSUME inv, MCNext PROVE inv'
    BY <2>1, VisitsNext DEF MCNext
  <2>2. ASSUME inv, UNCHANGED <<part, All>> PROVE inv'
    BY <2>2, VisitsNext DEF All, Visiting, V!vars
  <2> QED
    BY <2>1, <2>2
<1>3. inv => VisitsSound
  BY VisitsHold DEF VisitsSound
<1> QED
  BY <1>1, <1>2, <1>3, PTL DEF MCSpec

\* The same of the guesses and the requests that are counted.
THEOREM AttemptsStand == MCSpec => []AttemptsBounded
<1> DEFINE inv == part = "requests" => AttemptsInv
<1>1. MCInit => inv
  BY AttemptsInit DEF MCInit
<1>2. inv /\ [MCNext]_<<part, All>> => inv'
  <2>1. ASSUME inv, MCNext PROVE inv'
    BY <2>1, AttemptsNext DEF MCNext
  <2>2. ASSUME inv, UNCHANGED <<part, All>> PROVE inv'
    BY <2>2, AttemptsNext DEF All, Requests, R!vars
  <2> QED
    BY <2>1, <2>2
<1>3. inv => AttemptsBounded
  BY AttemptsLimits DEF AttemptsBounded
<1> QED
  BY <1>1, <1>2, <1>3, PTL DEF MCSpec

\* The same of the power that a grant gives.
THEOREM PowerStands == MCSpec => []PowerFollowsRights
<1> DEFINE inv == part = "access" => AccessInv
<1>1. MCInit => inv
  BY AccessInit DEF MCInit
<1>2. inv /\ [MCNext]_<<part, All>> => inv'
  <2>1. ASSUME inv, MCNext PROVE inv'
    BY <2>1, AccessNext DEF MCNext
  <2>2. ASSUME inv, UNCHANGED <<part, All>> PROVE inv'
    BY <2>2, AccessNext DEF All, Access, A!vars
  <2> QED
    BY <2>1, <2>2
<1>3. inv => PowerFollowsRights
  BY AccessPower DEF PowerFollowsRights
<1> QED
  BY <1>1, <1>2, <1>3, PTL DEF MCSpec

\* The same of the two ways from a reader to the server.
THEOREM LinkStands == MCSpec => []LinkSound
<1> DEFINE inv == /\ part = "bridge" => BridgeInv
                  /\ part = "gateway" => GateInv
<1>1. MCInit => inv
  BY BridgeStart, GateStart DEF MCInit
<1>2. inv /\ [MCNext]_<<part, All>> => inv'
  <2>1. ASSUME inv, MCNext, part = "bridge" PROVE BridgeInv'
    BY <2>1, BridgeNext DEF MCNext
  <2>2. ASSUME inv, MCNext, part = "gateway" PROVE GateInv'
    BY <2>2, GateNext DEF MCNext
  <2>3. ASSUME inv, MCNext PROVE inv'
    BY <2>1, <2>2, <2>3 DEF MCNext
  <2>4. ASSUME inv, UNCHANGED <<part, All>> PROVE inv'
    BY <2>4, BridgeNext, GateNext DEF All, Network, Bridge, Gateway, B!vars, G!vars
  <2> QED
    BY <2>3, <2>4
<1>3. inv => LinkSound
  BY BridgeGrant, GateGrant DEF LinkSound
<1> QED
  BY <1>1, <1>2, <1>3, PTL DEF MCSpec

\* The same of the set-up of a reader, where staff wait with a retry.
THEOREM SetupStands == ASSUME ~ Overtaking PROVE MCSpec => []SetupAgrees
<1> DEFINE inv == part = "setup" => SetupInv
<1>1. MCInit => inv
  BY SetupStart DEF MCInit
<1>2. inv /\ [MCNext]_<<part, All>> => inv'
  <2>1. ASSUME inv, MCNext PROVE inv'
    BY <2>1, SetupNext DEF MCNext
  <2>2. ASSUME inv, UNCHANGED <<part, All>> PROVE inv'
    BY <2>2, SetupNext DEF All, Setup, U!vars
  <2> QED
    BY <2>1, <2>2
<1>3. inv => SetupAgrees
  BY SetupMeans DEF SetupAgrees
<1> QED
  BY <1>1, <1>2, <1>3, PTL DEF MCSpec
=============================================================================
