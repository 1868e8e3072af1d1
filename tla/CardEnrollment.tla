---------------------------- MODULE CardEnrollment ----------------------------
(***************************************************************************)
(* Cards for one reader: a staff member opens a scan, the next tap is      *)
(* captured by it instead of opening the door, and the captured card is    *)
(* assigned to the member the scan was opened for; cards are revoked,      *)
(* replaced and reactivated (readerManagement.ts, accessCards.ts, the      *)
(* capture in deviceAccess.ts).                                            *)
(*                                                                         *)
(* Opening, capturing and disabling hold the reader's row for their whole  *)
(* transaction and are one step each.  An assignment is followed lock by   *)
(* lock.  The partial unique index on active fingerprints is left out:     *)
(* what it would refuse is what OneActive forbids.                         *)
(***************************************************************************)
EXTENDS Naturals, FiniteSets

CONSTANTS Session, Card, Hash, Tx, MaxRev

VARIABLES
  enabled,  \* the reader
  session,  \* app_card_enrollment
  card,     \* app_access_card; scan is the session it was assigned from
  tx

vars == <<enabled, session, card, tx>>

NoSession == [purpose |-> "none", hash |-> "none", expired |-> FALSE,
              cancelled |-> FALSE, completed |-> FALSE]
NoCard == [hash |-> "none", active |-> FALSE, rev |-> 0, scan |-> "none"]
Idle == [pc |-> "idle", do |-> "none", scan |-> "none", hash |-> "none",
         card |-> "none", rev |-> 0, locked |-> {}]

ScanRow == [purpose : {"none", "assign", "lookup"}, hash : Hash \cup {"none"},
            expired : BOOLEAN, cancelled : BOOLEAN, completed : BOOLEAN]
CardRow == [hash : Hash \cup {"none"}, active : BOOLEAN, rev : 0..MaxRev, scan : Session \cup {"none"}]
Progress == [pc : {"idle", "hash", "card", "check", "commit"},
             do : {"none", "assign", "revoke", "reactivate"},
             scan : Session \cup {"none"}, hash : Hash \cup {"none"},
             card : Card \cup {"none"}, rev : 0..MaxRev,
             locked : SUBSET (Session \cup Card \cup Hash)]

TypeOK ==
  /\ enabled \in BOOLEAN
  /\ session \in [Session -> ScanRow]
  /\ card \in [Card -> CardRow]
  /\ tx \in [Tx -> Progress]

Free(x) == \A t \in Tx : x \notin tx[t].locked
Lock(t, x, f) == tx' = [tx EXCEPT ![t] = [f EXCEPT !.locked = @ \cup {x}]]
Open(s) == session[s].purpose # "none" /\ ~ session[s].cancelled /\ ~ session[s].completed

-----------------------------------------------------------------------------
(* The reader.                                                             *)

\* A scan past its two minutes is cleared away by the next.
Begin(s, p) ==
  /\ enabled /\ session[s].purpose = "none"
  /\ \A q \in Session : Open(q) => session[q].expired /\ Free(q)
  /\ session' = [q \in Session |->
       IF q = s THEN [NoSession EXCEPT !.purpose = p]
       ELSE IF Open(q) THEN [session[q] EXCEPT !.cancelled = TRUE] ELSE session[q]]
  /\ UNCHANGED <<enabled, card, tx>>

Capture(s, h) ==
  /\ enabled /\ Open(s) /\ ~ session[s].expired /\ Free(s)
  /\ session[s].hash = "none"
  /\ session' = [session EXCEPT ![s].hash = h, ![s].completed = @ \/ session[s].purpose = "lookup"]
  /\ UNCHANGED <<enabled, card, tx>>

Toggle ==
  /\ enabled' = ~ enabled
  /\ enabled => \A s \in Session : Open(s) => Free(s)
  /\ session' = [s \in Session |->
       IF enabled /\ Open(s) THEN [session[s] EXCEPT !.cancelled = TRUE] ELSE session[s]]
  /\ UNCHANGED <<card, tx>>

Cancel(s) ==
  /\ Open(s) /\ Free(s)
  /\ session' = [session EXCEPT ![s].cancelled = TRUE]
  /\ UNCHANGED <<enabled, card, tx>>

Expire(s) ==
  /\ Open(s) /\ ~ session[s].expired
  /\ session' = [session EXCEPT ![s].expired = TRUE]
  /\ UNCHANGED <<enabled, card, tx>>

-----------------------------------------------------------------------------
(* Assignment: the scan, the fingerprint, the card being replaced, a look  *)
(* for another assignment, and the new row.                                *)

\* The card to be replaced, if any, is the one on the staff member's screen.
LockScan(t, s) ==
  /\ Free(s)
  /\ session[s].purpose = "assign" /\ session[s].hash # "none"
  /\ Open(s) /\ ~ session[s].expired
  /\ \E old \in Card \cup {"none"} :
       Lock(t, s, [Idle EXCEPT !.pc = "hash", !.do = "assign", !.scan = s,
                 !.hash = session[s].hash, !.card = old,
                 !.rev = IF old = "none" THEN 0 ELSE card[old].rev])

AssignScan(t, s) ==
  /\ tx[t].pc = "idle"
  /\ LockScan(t, s)
  /\ UNCHANGED <<enabled, session, card>>

\* The fingerprint may be typed in instead.
AssignTyped(t, h) ==
  /\ tx[t].pc = "idle"
  /\ tx' = [tx EXCEPT ![t] = [Idle EXCEPT !.pc = "hash", !.do = "assign", !.hash = h]]
  /\ UNCHANGED <<enabled, session, card>>

\* Another member of staff works on the card as it is on the screen now.
ChangeCard(t, c, do) ==
  /\ tx[t].pc = "idle" /\ card[c].rev > 0
  /\ tx' = [tx EXCEPT ![t] = [Idle EXCEPT !.pc = IF do = "reactivate" THEN "hash" ELSE "card",
              !.do = do, !.hash = card[c].hash, !.card = c, !.rev = card[c].rev]]
  /\ UNCHANGED <<enabled, session, card>>

\* A slip: no advisory lock, the index alone.
LockHashNever(t) ==
  /\ tx[t].pc = "hash"
  /\ tx' = [tx EXCEPT ![t].pc = IF tx[t].card = "none" THEN "check" ELSE "card"]
  /\ UNCHANGED <<enabled, session, card>>

LockHash(t) ==
  /\ tx[t].pc = "hash" /\ Free(tx[t].hash)
  /\ Lock(t, tx[t].hash, [tx[t] EXCEPT !.pc = IF tx[t].card = "none" THEN "check" ELSE "card"])
  /\ UNCHANGED <<enabled, session, card>>

\* The row must be as it was on the screen; otherwise the request is refused.
LockCard(t) ==
  LET c == tx[t].card
  IN /\ tx[t].pc = "card" /\ Free(c)
     /\ IF card[c].rev = tx[t].rev /\ card[c].active = (tx[t].do # "reactivate")
        THEN Lock(t, c, [tx[t] EXCEPT !.pc = IF tx[t].do = "revoke" THEN "commit" ELSE "check"])
        ELSE tx' = [tx EXCEPT ![t] = Idle]
     /\ UNCHANGED <<enabled, session, card>>

\* assertUnassigned; the transaction sees its own revocation.
CheckUnassigned(t) ==
  /\ tx[t].pc = "check"
  /\ tx' = [tx EXCEPT ![t] =
       IF \E c \in Card \ {tx[t].card} : card[c].active /\ card[c].hash = tx[t].hash
       THEN Idle ELSE [@ EXCEPT !.pc = "commit"]]
  /\ UNCHANGED <<enabled, session, card>>

Replaced(c) == [card[c] EXCEPT !.active = ~ @, !.rev = @ + 1]

CommitChange(t) ==
  LET c == tx[t].card
  IN /\ tx[t].pc = "commit" /\ tx[t].do # "assign" /\ card[c].rev < MaxRev
     /\ card' = [card EXCEPT ![c] = Replaced(c)]
     /\ tx' = [tx EXCEPT ![t] = Idle]
     /\ UNCHANGED <<enabled, session>>

CommitAssign(t, n) ==
  LET c == tx[t].card  s == tx[t].scan
  IN /\ tx[t].pc = "commit" /\ tx[t].do = "assign" /\ card[n].rev = 0
     /\ c # "none" => card[c].rev < MaxRev
     /\ card' = [d \in Card |->
          IF d = n THEN [hash |-> tx[t].hash, active |-> TRUE, rev |-> 1, scan |-> s]
          ELSE IF d = c THEN Replaced(c) ELSE card[d]]
     /\ session' = [q \in Session |->
          IF q = s THEN [session[q] EXCEPT !.completed = TRUE] ELSE session[q]]
     /\ tx' = [tx EXCEPT ![t] = Idle]
     /\ UNCHANGED enabled

\* An error, or the process dies: nothing is kept.
Abort(t) ==
  /\ tx[t].pc # "idle"
  /\ tx' = [tx EXCEPT ![t] = Idle]
  /\ UNCHANGED <<enabled, session, card>>

Init ==
  /\ enabled = TRUE
  /\ session = [s \in Session |-> NoSession]
  /\ card = [c \in Card |-> NoCard]
  /\ tx = [t \in Tx |-> Idle]

Next ==
  \/ Toggle
  \/ \E s \in Session :
       \/ Cancel(s) \/ Expire(s)
       \/ \E p \in {"assign", "lookup"} : Begin(s, p)
       \/ \E h \in Hash : Capture(s, h)
  \/ \E t \in Tx :
       \/ LockHash(t) \/ LockCard(t) \/ CheckUnassigned(t) \/ CommitChange(t) \/ Abort(t)
       \/ \E s \in Session : AssignScan(t, s)
       \/ \E h \in Hash : AssignTyped(t, h)
       \/ \E c \in Card : CommitAssign(t, c) \/ \E do \in {"revoke", "reactivate"} : ChangeCard(t, c, do)

Spec == Init /\ [][Next]_vars

-----------------------------------------------------------------------------
(* Properties.                                                             *)

\* A fingerprint opens doors for one member: two assignments, or an
\* assignment and a reactivation, never both go through.
OneActive ==
  \A c, d \in Card : c # d /\ card[c].active /\ card[d].active => card[c].hash # card[d].hash

\* A scan is used up by one assignment, of the card it captured, and never by
\* one after it was cancelled.
ScanServesOnce ==
  \A c \in Card : LET s == card[c].scan IN s # "none" =>
    /\ session[s].completed /\ ~ session[s].cancelled
    /\ session[s].purpose = "assign" /\ session[s].hash = card[c].hash
    /\ \A d \in Card \ {c} : card[d].scan # s
=============================================================================
