----------------------------- MODULE MCSessions -----------------------------
(***************************************************************************)
(* Sign-ins on small instances: the requests that make and end them, and a *)
(* page that uses one, with what it shows of a resource and the card scans *)
(* it opens.  They share no row that matters here; "part" says which of    *)
(* them steps in a behaviour.                                              *)
(***************************************************************************)
EXTENDS Sessions, TLC

CONSTANTS SignIns, Renewals, MaxTrouble, Overlapping, None,
          Path, MaxVersion, MaxRead, Denied, Scan, MaxPage

ASSUME SigningAssumption == SignIns \in Nat \ {0} /\ Renewals \in Nat \ {0} /\ None \notin Call
ASSUME ReadingAssumption == MaxVersion \in Nat /\ MaxRead \in Nat /\ None \notin Path
ASSUME ScanningAssumption == MaxPage \in Nat /\ MaxTrouble \in Nat /\ None \notin Scan

VARIABLES part, signin, restricted, cookie, page, asking, ended, estranged, replayed, disturbed, trouble,
          version, path, retain, data, flags, fetching, reads, count, newest,
          scan, screen, starting, polling, releasing, lost

B == INSTANCE BrowserPage WITH family <- signin, call <- asking, MaxFamily <- SignIns, MaxToken <- Renewals
D == INSTANCE PageData
C == INSTANCE ScanPage WITH page <- screen, trouble <- lost

Page == <<signin, restricted, cookie, page, asking, ended, estranged, replayed, disturbed, trouble>>
Reading == <<version, path, retain, data, flags, fetching, reads, count, newest>>
Scanning == <<scan, screen, starting, polling, releasing, lost>>

MCSymmetry == Permutations(Call) \cup Permutations(Family)

\* What does not step is left out of the state where nothing looks at it.
MCInit ==
  /\ part \in {"sign-ins", "page", "data", "scans"}
  /\ Init
  /\ IF part = "page" THEN B!Init
     ELSE /\ signin = 0 /\ restricted = 0 /\ cookie = 0 /\ page = 0 /\ asking = 0
          /\ ended = 0 /\ estranged = 0 /\ replayed = 0 /\ disturbed = 0 /\ trouble = 0
  /\ IF part = "data" THEN D!Init
     ELSE /\ version = 0 /\ path = 0 /\ retain = 0 /\ data = 0 /\ flags = 0 /\ fetching = 0
          /\ reads = 0 /\ count = 0 /\ newest = 0
  /\ IF part = "scans" THEN C!Init
     ELSE scan = 0 /\ screen = 0 /\ starting = 0 /\ polling = 0 /\ releasing = 0 /\ lost = 0

MCNext ==
  /\ UNCHANGED part
  /\ \/ part = "sign-ins" /\ Next /\ UNCHANGED <<Page, Reading, Scanning>>
     \/ part = "page" /\ B!Next /\ UNCHANGED <<vars, Reading, Scanning>>
     \/ part = "data" /\ D!Next /\ UNCHANGED <<vars, Page, Scanning>>
     \/ part = "scans" /\ C!Next /\ UNCHANGED <<vars, Page, Reading>>

MCSpec == MCInit /\ [][MCNext]_<<part, vars, Page, Reading, Scanning>>

\* A page shows the account its requests act on and never a sign-in that it has
\* ended, and its own renewals do not end one.  What it shows of a resource is
\* never older than an answer it has had, and no reader waits for a card of
\* which no page knows.
PageSound ==
  /\ part = "page" => B!TypeOK /\ B!SignedOutStays /\ B!ShowsWhereItActs /\ B!RenewsOnce
  /\ part = "data" => D!TypeOK /\ D!NothingOld /\ D!SaysItReads
  /\ part = "scans" => C!TypeOK /\ C!NoStrayScan
=============================================================================
