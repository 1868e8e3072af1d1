------------------------------- MODULE MCOffice -------------------------------
(***************************************************************************)
(* The office's records on small instances: the staff console, certifica-  *)
(* tions, agreements, reminders and registrations; and the release of a    *)
(* new version of the site, or of its front end alone.  They share no row  *)
(* that matters here, so "part" says which of them steps in a behaviour.   *)
(*                                                                         *)
(* People and transactions of the parts have the same names, which keeps   *)
(* the symmetry group small: a and b are the administrators of the first   *)
(* part and the people who sign up in the last.                            *)
(***************************************************************************)
EXTENDS FrontendRelease, TLC

CONSTANTS a, b, c, User, Tx, Request, MaxRevision, MaxTime, Validity, Revisions, Id, Date, Horizon, Email, Token

VARIABLES part,
  user, saved, granted, writer, tx,
  record, valid, certifier, clock, certifying, revoked,
  policy, day, bound,
  kind, expiry, standing, reminder, worker, moves, mailed, held,
  pending, account, mail, confirming

S == INSTANCE StaffConsole
C == INSTANCE Certifications WITH writer <- certifier, tx <- certifying, MaxRevision <- Revisions
P == INSTANCE PolicyLifecycle WITH clock <- day
E == INSTANCE ExpiryReminders WITH Worker <- Tx, MaxMoves <- Horizon
R == INSTANCE PendingRegistration WITH sent <- mail, tx <- confirming, Person <- {a, b}

Console == <<user, saved, granted, writer, tx>>
Certificates == <<record, valid, certifier, clock, certifying, revoked>>
Agreements == <<policy, day, bound>>
Reminders == <<kind, expiry, standing, reminder, worker, moves, mailed, held>>
Registrations == <<pending, account, mail, confirming>>
Releases == <<vars, locals>>

Symmetry == Permutations({a, b}) \cup Permutations(Tx)

\* Two administrators and an instructor: the least that can leave the
\* makerspace without any administrator.
\* What does not step is left out of the state where nothing looks at it.
MCInit ==
  /\ part \in {"staff", "certificates", "agreements", "reminders", "registrations", "release", "frontend"}
  /\ S!Init /\ user[a].role = "admin" /\ user[b].role = "admin" /\ user[c].role = "staff"
  /\ LocalInit /\ P!Init /\ E!Init
  /\ part # "reminders" => kind = "waiver" /\ expiry = "never"
  /\ IF part = "certificates" THEN C!Init
     ELSE record = 0 /\ valid = 0 /\ certifier = 0 /\ clock = 0 /\ certifying = 0 /\ revoked = 0
  /\ IF part = "registrations" THEN R!Init
     ELSE pending = 0 /\ account = 0 /\ mail = 0 /\ confirming = 0

\* Of the releases of the front end alone fewer moves and crashes are looked at.
Shortened == main.moves <= 2 /\ crashes <= 1 /\ config.edit = 0

MCNext ==
  /\ UNCHANGED part
  /\ \/ part = "staff" /\ S!Next /\ UNCHANGED <<Releases, Certificates, Agreements, Reminders, Registrations>>
     \/ part = "certificates" /\ C!Next /\ UNCHANGED <<Releases, Console, Agreements, Reminders, Registrations>>
     \/ part = "agreements" /\ P!Next /\ UNCHANGED <<Releases, Console, Certificates, Reminders, Registrations>>
     \/ part = "reminders" /\ E!Next /\ UNCHANGED <<Releases, Console, Certificates, Agreements, Registrations>>
     \/ part = "registrations" /\ R!Next /\ UNCHANGED <<Releases, Console, Certificates, Agreements, Reminders>>
     \/ /\ \/ part = "release" /\ Next /\ UNCHANGED locals
           \/ part = "frontend" /\ LocalNext /\ Shortened'
        /\ UNCHANGED <<Console, Certificates, Agreements, Reminders, Registrations>>

MCSpec == MCInit /\ [][MCNext]_<<part, Releases, Console, Certificates, Agreements, Reminders, Registrations>>

\* Of two administrators who demote or block each other one remains, access
\* asked for again is issued once, and roles change at an active administrator's
\* hand only.
StaffSound ==
  /\ [](part = "staff" => S!TypeOK /\ S!AdminRemains /\ S!IssuedOnce)
  /\ S!OnlyAdminsPromote

\* A revoked certification is active again for newer training only, and none
\* lasts for ever once it has been given a validity; one reminder goes out
\* about each date; an account's address was proven by the person it belongs
\* to, and corrections of addresses do not wait for each other in a circle.
RecordsStand ==
  /\ part = "certificates" => C!TypeOK /\ C!RevocationStands /\ C!NoneUndated
  /\ part = "reminders" => E!TypeOK /\ E!OneReminder
  /\ part = "registrations" => R!TypeOK /\ R!AddressProven /\ R!NoWaitingInACircle

\* What binds has never been replaced or withdrawn before, and the retirement
\* worker changes nothing about it.
AgreementsMoveOn == P!AgreementsMoveOn

\* A reminder is true when it is taken up.
ReminderWasTrue == E!ReminderWasTrue

\* Wherever the deployment service dies, what is routed to runs, the way back
\* of an activation stays open, and what serves is not deployed again.  (What
\* the owner starts may be.)
ReleasesSound == part = "release" => ReleaseSound

\* Standbys that are warmed up and stopped for other revisions leave the public
\* route and the way back of an activation served, and only what passed the
\* hosted or the local checks is routed to.
LocalReleaseSound == part = "frontend" => StandbysApart /\ OnlyVettedServes
=============================================================================
