--------------------------- MODULE Certifications ---------------------------
(***************************************************************************)
(* A member's certification (certifications.ts): instructors record the    *)
(* training they verified, staff revoke, and staff give the certification  *)
(* a validity, which dates the records that had no end                     *)
(* (app_backfill_certification_expiry).  All of it is written under one    *)
(* advisory lock, which a request may wait for.                            *)
(*                                                                         *)
(* Roles and the form's fields only refuse and are left out.               *)
(***************************************************************************)
EXTENDS Naturals

CONSTANTS
  Tx,
  MaxTime,      \* the clock stops here
  MaxRevision,  \* of the record, as far as the run goes
  Validity      \* how long training counts, once staff have said so

VARIABLES
  record,    \* user_certifications, of one member for one certification
  valid,     \* certifications.validity_days is set
  writer,    \* the transaction that holds 'arbor-certification-writes'
  clock,
  tx,
  revoked    \* when the last revocation was committed: for the properties

vars == <<record, valid, writer, clock, tx, revoked>>

Never == MaxTime + Validity + 1  \* an expiry that does not come
NoTime == 0                        \* no such time: the clock starts at 1

NoRecord == [status |-> "none", trained |-> NoTime, expires |-> Never, revoked |-> NoTime, revision |-> 0]
Idle == [pc |-> "idle", do |-> "none", trained |-> NoTime, seen |-> 0, began |-> NoTime, before |-> NoRecord]

Record == [status : {"none", "active", "revoked"}, trained : 0 .. MaxTime, expires : 1 .. Never,
           revoked : 0 .. MaxTime, revision : 0 .. MaxRevision + 1]

TypeOK ==
  /\ record \in Record
  /\ valid \in BOOLEAN
  /\ writer \in Tx \cup {"none"}
  /\ clock \in 1 .. MaxTime
  /\ \A t \in Tx : tx[t].pc \in {"idle", "wait", "read", "write"} /\ tx[t].before \in Record
  /\ revoked \in 0 .. MaxTime

-----------------------------------------------------------------------------

\* A request as the client sends it, with the revision on its screen.
Begin(t, do, trained) ==
  /\ tx[t].pc = "idle" /\ record.revision < MaxRevision
  /\ tx' = [tx EXCEPT ![t] = [Idle EXCEPT !.pc = "wait", !.do = do, !.trained = trained,
                                          !.seen = record.revision, !.began = clock]]
  /\ UNCHANGED <<record, valid, writer, clock, revoked>>

\* A slip: instructors do not wait for each other.
Unserialized == TRUE

Serialized == writer = "none"

TakeLock(t) ==
  /\ tx[t].pc = "wait" /\ Serialized
  /\ writer' = t
  /\ tx' = [tx EXCEPT ![t].pc = "read"]
  /\ UNCHANGED <<record, valid, clock, revoked>>

\* FOR UPDATE, of a record that exists.
RowFree(t) == \A u \in Tx \ {t} : tx[u].pc = "write" => tx[u].before = NoRecord

\* The record is read, and the request refused if it is stale.
Read(t) ==
  /\ tx[t].pc = "read" /\ RowFree(t)
  /\ tx[t].do # "validity" => record.revision = tx[t].seen
  /\ tx[t].do = "approve" => tx[t].trained > record.revoked
  /\ tx[t].do = "revoke" => record # NoRecord
  /\ tx' = [tx EXCEPT ![t].pc = "write", ![t].before = record]
  /\ UNCHANGED <<record, valid, writer, clock, revoked>>

Done(t) ==
  /\ tx' = [tx EXCEPT ![t] = Idle]
  /\ writer' = IF writer = t THEN "none" ELSE writer

ExpiresAt(trained) == IF valid THEN trained + Validity ELSE Never

\* The record is made, or replaced whatever it has become.
Approve(t) ==
  /\ tx[t].pc = "write" /\ tx[t].do = "approve"
  /\ ExpiresAt(tx[t].trained) > clock
  /\ record' = [record EXCEPT !.status = "active", !.trained = tx[t].trained,
                              !.expires = ExpiresAt(tx[t].trained), !.revision = @ + 1]
  /\ Done(t)
  /\ UNCHANGED <<valid, clock, revoked>>

\* The trigger's clock_timestamp().
Stamp(t) == clock

Revoke(t) ==
  /\ tx[t].pc = "write" /\ tx[t].do = "revoke"
  /\ record' = [record EXCEPT !.status = "revoked", !.revoked = Stamp(t), !.revision = @ + 1]
  /\ revoked' = clock
  /\ Done(t)
  /\ UNCHANGED <<valid, clock>>

\* An active record without an end gets one.
Backfill ==
  IF record.status = "active" /\ record.expires = Never
  THEN [record EXCEPT !.expires = (IF record.trained = NoTime THEN clock ELSE record.trained) + Validity,
                      !.revision = @ + 1]
  ELSE record

SetValidity(t) ==
  /\ tx[t].pc = "write" /\ tx[t].do = "validity"
  /\ valid' = TRUE
  /\ record' = Backfill
  /\ Done(t)
  /\ UNCHANGED <<clock, revoked>>

\* A refusal, an error, or the end of the connection.
Leave(t) ==
  /\ tx[t].pc # "idle"
  /\ Done(t)
  /\ UNCHANGED <<record, valid, clock, revoked>>

Tick ==
  /\ clock < MaxTime
  /\ clock' = clock + 1
  /\ UNCHANGED <<record, valid, writer, tx, revoked>>

\* No record, or an old one that says neither when the training was nor when
\* it ends.
Init ==
  /\ record \in {NoRecord, [NoRecord EXCEPT !.status = "active", !.revision = 1]}
  /\ valid = FALSE
  /\ writer = "none"
  /\ clock = 1
  /\ tx = [t \in Tx |-> Idle]
  /\ revoked = NoTime

Next ==
  \/ \E t \in Tx :
       \/ \E trained \in 1 .. clock : Begin(t, "approve", trained)
       \/ \E do \in {"revoke", "validity"} : Begin(t, do, NoTime)
       \/ TakeLock(t) \/ Read(t) \/ Approve(t) \/ Revoke(t) \/ SetValidity(t) \/ Leave(t)
  \/ Tick

Spec == Init /\ [][Next]_vars

-----------------------------------------------------------------------------
(* Properties.                                                             *)

\* After an incident nobody works on the training they had before it: a
\* record is active again only for training done since the revocation.
RevocationStands == record.status = "active" /\ revoked # NoTime => record.trained > revoked

\* No certification lasts for ever once staff have given it a validity.
NoneUndated == valid /\ record.status = "active" => record.expires # Never
=============================================================================
