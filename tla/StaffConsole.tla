---------------------------- MODULE StaffConsole ----------------------------
(***************************************************************************)
(* The staff console's writes (StaffService.ts): accounts are suspended,   *)
(* roles changed, profiles edited and memberships issued in transactions   *)
(* that share one advisory lock.  Whoever asks was authenticated when the  *)
(* request arrived and is read again under the lock; a client that lost    *)
(* the answer of an issuance sends it again with the same request id.      *)
(*                                                                         *)
(* The permission matrix, plans and windows only refuse and are left out;  *)
(* the rows locked after the advisory lock are locked to the end.          *)
(***************************************************************************)
EXTENDS Naturals, FiniteSets

CONSTANTS
  User, Tx,
  Request,      \* ids that clients give to issuances
  MaxRevision   \* of a user's row, as far as the run goes

VARIABLES
  user,      \* "user" and user_role
  saved,     \* app_issuance_request: who asked for whom, under each id
  granted,   \* how many entitlements each request id has brought
  writer,    \* the transaction that holds 'arbor-staff-writes'
  tx

vars == <<user, saved, granted, writer, tx>>

\* What an account may do, of all the roles it has.
Role == {"admin", "staff", "member"}
Staff == {"admin", "staff"}
NoRequest == [actor |-> "none", target |-> "none"]
Idle == [pc |-> "idle", do |-> "none", actor |-> "none", target |-> "none", as |-> "member",
         seen |-> 0, role |-> "member", request |-> "none"]

TypeOK ==
  /\ user \in [User -> [active : BOOLEAN, role : Role, revision : 0 .. MaxRevision]]
  /\ saved \in [Request -> [actor : User \cup {"none"}, target : User \cup {"none"}]]
  /\ granted \in [Request -> Nat]
  /\ writer \in Tx \cup {"none"}
  /\ \A t \in Tx : tx[t].pc \in {"idle", "wait", "run"} /\ (tx[t].pc = "run" => writer = t)

-----------------------------------------------------------------------------
(* A request.                                                              *)

\* requireStaff: the role of the account that is signed in, none if inactive.
RoleOf(u) == IF user[u].active THEN user[u].role ELSE "member"

\* A request for a role or a status that the account has already changes no
\* more than a profile edit does.
Begin(t, do, a, u, role, r) ==
  /\ tx[t].pc = "idle" /\ RoleOf(a) \in Staff
  /\ do = "issue" \/ user[u].revision < MaxRevision
  /\ tx' = [tx EXCEPT ![t] = [pc |-> "wait", do |-> do, actor |-> a, target |-> u, as |-> RoleOf(a),
                              seen |-> IF do = "issue" THEN 0 ELSE user[u].revision, role |-> role, request |-> r]]
  /\ UNCHANGED <<user, saved, granted, writer>>

\* A slip: the lock is held for a statement and not for the transaction.
LockFreeAtOnce(t) == TRUE

LockFree(t) == writer = "none"

TakeLock(t) ==
  /\ tx[t].pc = "wait" /\ LockFree(t)
  /\ writer' = t
  /\ tx' = [tx EXCEPT ![t].pc = "run"]
  /\ UNCHANGED <<user, saved, granted>>

-----------------------------------------------------------------------------
(* The checks, under the lock.                                             *)

\* A slip: the roles that the request was authenticated with.
ActorAsked(t) == tx[t].as

Actor(t) == RoleOf(tx[t].actor)

\* write and target: only administrators change roles, or touch staff.
Permitted(t) ==
  /\ Actor(t) \in Staff
  /\ tx[t].do = "role" \/ user[tx[t].target].role \in Staff => Actor(t) = "admin"

ActiveAdmins == {u \in User : user[u].active /\ user[u].role = "admin"}

\* Nobody changes their own roles or status, and the last active
\* administrator keeps both.
Spared(t) ==
  /\ tx[t].actor # tx[t].target
  /\ LET before == user[tx[t].target]
     IN before.role = "admin"
          /\ (\/ tx[t].do = "role" /\ tx[t].role # "admin"
              \/ tx[t].do = "suspend" /\ before.active)
          => Cardinality(ActiveAdmins) > 1

\* The revision that the client saw is still the row's.
Fresh(t) == tx[t].seen = user[tx[t].target].revision

Previous(t) == saved[tx[t].request]

Done(t) == tx' = [tx EXCEPT ![t] = Idle] /\ writer' = "none"

Revised(u, row) == [user EXCEPT ![u] = [row EXCEPT !.revision = @ + 1]]

-----------------------------------------------------------------------------
(* The operations.                                                         *)

AccountStatus(t) ==
  LET u == tx[t].target
  IN /\ tx[t].pc = "run" /\ tx[t].do \in {"suspend", "restore"}
     /\ Permitted(t) /\ Spared(t) /\ Fresh(t)
     /\ user' = Revised(u, [user[u] EXCEPT !.active = tx[t].do = "restore"])
     /\ Done(t)
     /\ UNCHANGED <<saved, granted>>

ChangeRole(t) ==
  LET u == tx[t].target
  IN /\ tx[t].pc = "run" /\ tx[t].do = "role"
     /\ Permitted(t) /\ Spared(t) /\ Fresh(t)
     /\ user' = Revised(u, [user[u] EXCEPT !.role = tx[t].role])
     /\ Done(t)
     /\ UNCHANGED <<saved, granted>>

Profile(t) ==
  /\ tx[t].pc = "run" /\ tx[t].do = "profile"
  /\ Permitted(t) /\ Fresh(t)
  /\ user' = Revised(tx[t].target, user[tx[t].target])
  /\ Done(t)
  /\ UNCHANGED <<saved, granted>>

Issue(t) ==
  /\ tx[t].pc = "run" /\ tx[t].do = "issue"
  /\ Permitted(t) /\ Previous(t) = NoRequest /\ user[tx[t].target].active
  /\ saved' = [saved EXCEPT ![tx[t].request] = [actor |-> tx[t].actor, target |-> tx[t].target]]
  /\ granted' = [granted EXCEPT ![tx[t].request] = @ + 1]
  /\ Done(t)
  /\ UNCHANGED user

\* A refusal, the answer of a request that was already carried out, an error,
\* or the end of the connection.
Leave(t) ==
  /\ tx[t].pc # "idle"
  /\ tx' = [tx EXCEPT ![t] = Idle]
  /\ writer' = IF writer = t THEN "none" ELSE writer
  /\ UNCHANGED <<user, saved, granted>>

\* A member edits their own profile; the staff lock is not taken.  A row that
\* a running transaction has locked is left alone.
UpdateProfile(u) ==
  /\ user[u].revision < MaxRevision
  /\ \A t \in Tx : tx[t].pc = "run" => u \notin {tx[t].actor, tx[t].target}
  /\ user' = Revised(u, user[u])
  /\ UNCHANGED <<saved, granted, writer, tx>>

Init ==
  /\ user \in [User -> [active : {TRUE}, role : Role, revision : {0}]]
  /\ ActiveAdmins # {}
  /\ saved = [r \in Request |-> NoRequest]
  /\ granted = [r \in Request |-> 0]
  /\ writer = "none"
  /\ tx = [t \in Tx |-> Idle]

Next ==
  \/ \E t \in Tx :
       \/ \E a, u \in User :
            \/ Begin(t, IF user[u].active THEN "suspend" ELSE "restore", a, u, "member", "none")
            \/ Begin(t, "profile", a, u, "member", "none")
            \/ \E role \in Role \ {user[u].role} : Begin(t, "role", a, u, role, "none")
            \/ \E r \in Request : Begin(t, "issue", a, u, "member", r)
       \/ TakeLock(t) \/ Leave(t)
       \/ AccountStatus(t) \/ ChangeRole(t) \/ Profile(t) \/ Issue(t)
  \/ \E u \in User : UpdateProfile(u)

Spec == Init /\ [][Next]_vars

-----------------------------------------------------------------------------
(* Properties.                                                             *)

\* Someone can always administer the makerspace: however administrators
\* demote and suspend each other, one that is active remains.
AdminRemains == ActiveAdmins # {}

\* A client that repeats an issuance, or uses its id for another, never gets
\* a second entitlement for it.
IssuedOnce == \A r \in Request : granted[r] <= 1

\* Nothing is written for someone who was demoted or suspended while their
\* request waited: roles change at an active administrator's hand only.
OnlyAdminsPromote ==
  [][\A u \in User : user'[u].role # user[u].role =>
       \E t \in Tx : tx[t].pc = "run" /\ RoleOf(tx[t].actor) = "admin"]_vars
=============================================================================
