------------------------------ MODULE MCFacility ------------------------------
(***************************************************************************)
(* The doors and the machines on small instances: visits and sponsor       *)
(* requests, the reader's decision on a tap, the cards it reads, and the   *)
(* relay that follows it, the two ways from a reader to the server, and    *)
(* the set-up of a new reader.  They share no row that matters here;       *)
(* "part" says which of them steps in a behaviour.                         *)
(***************************************************************************)
EXTENDS RelayLease, TLC

CONSTANTS Adult, Minor, Building, Tx, MaxDay, Straddle, None,
          Email, PerAdult, PerPair, PerEmail, Month, MaxTries,
          Staff, Lease, Ends, Session, Card, Hash, MaxRev,
          Job, MaxEdit, MaxCrashes, Overtaking,
          Ticks, MaxScan, MaxCounter, MaxTrouble, MaxGrant, Patience, Kept

ASSUME VisitsAssumption ==
  MaxDay \in Nat \ {0} /\ Adult \cap Minor = {} /\ None \notin Adult \cup Minor
ASSUME AttemptsAssumption ==
  MaxDay \in Nat \ {0} /\ MaxTries \in Nat /\ PerAdult \in Nat /\ PerEmail \in Nat /\ Month \in Nat
ASSUME AccessAssumption == MaxTime \in Nat \ {0} /\ Lease \in Nat /\ Ends \in Nat
ASSUME LinkAssumption ==
  /\ Ticks \in Nat /\ MaxScan \in Nat /\ MaxCounter \in Nat /\ MaxTrouble \in Nat
  /\ Lease \in Nat /\ MaxGrant \in Nat /\ Patience \in Nat /\ Kept \in Nat
ASSUME SetupAssumption ==
  /\ MaxEdit \in Nat \ {0, 1} /\ MaxCrashes \in Nat /\ "original" \notin Job
  /\ None \notin Job \cup {"original", "queued", "working", "cancelled", "expired", "failed", "complete", "recovery", "alive", "done"}
ASSUME CardsAssumption == MaxRev \in Nat \ {0} /\ "none" \notin Session \cup Card \cup Hash

VARIABLES part,
          link, asked, visit, blocked, today, tx,
          tries, date, request,
          instant, ok, broken, grant, decision, reply, sent, until, staff,
          enabled, session, card, enrolling,
          job, beat, chip, profile, backup, update, worker, queue, report, answer, crashes,
          clock, reader, power, trouble, wire, bridge, view, deciding,
          polls, replies, sessions, hand, told, twice, forgot

V == INSTANCE Visits
R == INSTANCE SponsorAttempts WITH today <- date, tx <- request, MaxDay <- MaxDay + 1
A == INSTANCE ReaderAccess WITH now <- instant
C == INSTANCE CardEnrollment WITH tx <- enrolling
U == INSTANCE ReaderSetup WITH reply <- answer, MaxRevision <- MaxEdit
B == INSTANCE ReaderBridge WITH Card <- Tx, MaxTime <- Ticks, job <- deciding
G == INSTANCE ReaderGateway WITH Card <- Tx, MaxTime <- Ticks, asked <- told

Visiting == <<link, asked, visit, blocked, today, tx>>
Requests == <<tries, date, request>>
Access == <<instant, ok, broken, grant, decision, reply, sent, until, staff>>
Cards == <<enabled, session, card, enrolling>>
Setup == <<job, beat, chip, profile, backup, update, worker, queue, report, answer, crashes>>
Network == <<clock, reader, power, trouble>>
Bridge == <<wire, bridge, view, deciding>>
Gateway == <<polls, replies, sessions, hand, told, twice, forgot>>

\* Set-up jobs, transactions and the cards that are
\* tapped have the same names.
Symmetry == Permutations(Tx)

\* What does not step is left out of the state.
MCInit ==
  /\ part \in {"visits", "requests", "access", "cards", "relay", "setup", "bridge", "gateway"}
  /\ Init
  /\ IF part = "visits" THEN V!Init
     ELSE link = 0 /\ asked = 0 /\ visit = 0 /\ blocked = 0 /\ today = 0 /\ tx = 0
  /\ IF part = "requests" THEN R!Init ELSE tries = 0 /\ date = 0 /\ request = 0
  /\ IF part = "access" THEN A!Init
     ELSE /\ instant = 0 /\ ok = 0 /\ broken = 0 /\ grant = 0 /\ decision = 0 /\ reply = 0
          /\ sent = 0 /\ until = 0 /\ staff = 0
  /\ IF part = "cards" THEN C!Init ELSE enabled = 0 /\ session = 0 /\ card = 0 /\ enrolling = 0
  /\ IF part = "setup" THEN U!Init
     ELSE /\ job = 0 /\ beat = 0 /\ chip = 0 /\ profile = 0 /\ backup = 0 /\ update = 0
          /\ worker = 0 /\ queue = 0 /\ report = 0 /\ answer = 0 /\ crashes = 0
  /\ IF part = "bridge" THEN B!Init ELSE wire = 0 /\ bridge = 0 /\ view = 0 /\ deciding = 0
  /\ IF part = "gateway" THEN G!Init
     ELSE /\ polls = 0 /\ replies = 0 /\ sessions = 0 /\ hand = 0 /\ told = 0 /\ twice = 0 /\ forgot = 0
          /\ part # "bridge" => clock = 0 /\ reader = 0 /\ power = 0 /\ trouble = 0

All == <<vars, Visiting, Requests, Access, Cards, Setup, Network, Bridge, Gateway>>

MCNext ==
  /\ UNCHANGED part
  /\ \/ part = "visits" /\ V!Next /\ UNCHANGED <<vars, Requests, Access, Cards, Setup>>
     \/ part = "requests" /\ R!Next /\ UNCHANGED <<vars, Visiting, Access, Cards, Setup>>
     \/ part = "access" /\ A!Next /\ UNCHANGED <<vars, Visiting, Requests, Cards, Setup>>
     \/ part = "cards" /\ C!Next /\ UNCHANGED <<vars, Visiting, Requests, Access, Setup>>
     \/ part = "relay" /\ Next /\ UNCHANGED <<Visiting, Requests, Access, Cards, Setup>>
     \/ part = "setup" /\ U!Next /\ UNCHANGED <<vars, Visiting, Requests, Access, Cards>>
     \/ part \in {"bridge", "gateway"} /\ UNCHANGED <<vars, Visiting, Requests, Access, Cards, Setup>>
  /\ CASE part = "bridge" -> B!Next /\ UNCHANGED Gateway
       [] part = "gateway" -> G!Next /\ UNCHANGED Bridge
       [] OTHER -> UNCHANGED <<Network, Bridge, Gateway>>

MCSpec == MCInit /\ [][MCNext]_<<part, All>>

\* A minor is inside with the adult who answers for it, under a link that
\* stands, and no booking of a minor is made without that adult inside.
VisitsSound == part = "visits" => V!TypeOK /\ V!Supervised /\ V!LinkStands /\ V!BookedInCompany

\* Neither a person's wrong guesses at an address nor an adult's requests of
\* any outcome exceed their limits, though requests overlap and are dropped.
AttemptsBounded == part = "requests" => R!TypeOK /\ R!GuessesBounded /\ R!AsksBounded

\* A machine out of service has no power, and whatever else is taken away, the
\* relay is off one lease later.
PowerFollowsRights == part = "access" => A!TypeOK /\ A!StoppedIsOff /\ A!RevocationBites

\* A fingerprint is active for one member at most, and a scan is used up by one
\* assignment, of the card it captured.
CardsServeOnce == part = "cards" => C!TypeOK /\ C!OneActive /\ C!ScanServesOnce

\* What staff see as complete is paired and only that is enabled, whatever was
\* cancelled, lost or resumed while the agent set the reader up; and once a
\* set-up has failed or was called off, the chip does not keep its key without
\* staff being told.
SetupAgrees == part = "setup" => U!TypeOK /\ U!EnabledIsConfirmed /\ U!CompleteIsPaired /\ U!RestoredOrTold

\* A reader on the network grants to the card whose decision it has, no longer
\* than the server's lease and the time an answer takes, and a tap is decided
\* once: whatever is late, lost, given up or started again.
LinkSound ==
  /\ part = "bridge" => B!TypeOK /\ B!GrantsItsTap /\ B!OffInTime
  /\ part = "gateway" => G!TypeOK /\ G!GrantsItsTap /\ G!OffInTime /\ G!AskedOnce
=============================================================================
