------------------------------- MODULE ScanPage -------------------------------
(***************************************************************************)
(* Staff open a card scan at a reader from a page (lib/useCardScan.ts): it *)
(* is started, watched by polls, called off and left, with answers that    *)
(* come after the page has moved on.  While a scan is open, the reader     *)
(* takes the next tap for it instead of opening the door.  What the server *)
(* does with scans is followed further in CardEnrollment.                  *)
(***************************************************************************)
EXTENDS Naturals

CONSTANTS Scan, None, MaxPage, MaxTrouble

VARIABLES
  scan,      \* app_card_enrollment of one reader
  page,      \* whether it is there, generation and busy; active, and the scan and status that it shows
  starting,  \* the starts that no answer was taken to, with their generation
  polling,   \* the poll whose answer would be taken, and the status it brings
  releasing, \* cancellations on their way
  trouble    \* History: calls that were lost, or their answers

vars == <<scan, page, starting, polling, releasing, trouble>>

NoPage(g) == [on |-> FALSE, generation |-> g, busy |-> FALSE, active |-> None, shown |-> "none"]
NoPoll == [of |-> None, status |-> "none"]
Status == {"none", "waiting", "captured", "completed", "cancelled", "expired"}
Opened == {"waiting", "captured"}

TypeOK ==
  /\ scan \in [Scan -> Status]
  /\ page \in [on : BOOLEAN, generation : 0..MaxPage, busy : BOOLEAN, active : Scan \cup {None}, shown : Status]
  /\ \A c \in starting : c.generation \in 1..MaxPage /\ c.got \in Scan \cup {None}
  /\ polling \in [of : Scan \cup {None}, status : Status]
  /\ releasing \subseteq Scan

-----------------------------------------------------------------------------
(* The page.                                                               *)

\* The button is there when no scan is shown, and not while one is started.
Start ==
  /\ page.on /\ ~ page.busy /\ page.active = None
  /\ page.generation < MaxPage
  /\ page' = [page EXCEPT !.generation = @ + 1, !.busy = TRUE]
  /\ starting' = starting \cup {[generation |-> page.generation + 1, at |-> "sent", got |-> None]}
  /\ UNCHANGED <<scan, polling, releasing, trouble>>

\* A slip: whatever was started is taken, whether it is still wanted or not.
TakenAnyway(c) == TRUE

Wanted(c) == c.generation = page.generation

TakeStart(c) ==
  /\ c.at # "sent"
  /\ starting' = starting \ {c}
  /\ page' = IF ~ Wanted(c) THEN page
             ELSE IF c.got = None THEN [page EXCEPT !.busy = FALSE]
             ELSE [page EXCEPT !.busy = FALSE, !.active = c.got, !.shown = "waiting"]
  /\ releasing' = IF ~ Wanted(c) /\ c.got # None THEN releasing \cup {c.got} ELSE releasing
  /\ polling' = IF Wanted(c) /\ c.got # None THEN [of |-> c.got, status |-> "none"] ELSE polling
  /\ UNCHANGED <<scan, trouble>>

\* The scan is called off, or one that has ended is put aside.
Cancel ==
  /\ page.on /\ (page.busy \/ page.active # None) /\ page.generation < MaxPage
  /\ page' = [NoPage(page.generation + 1) EXCEPT !.on = TRUE]
  /\ releasing' = IF page.active = None THEN releasing ELSE releasing \cup {page.active}
  /\ polling' = NoPoll
  /\ UNCHANGED <<scan, starting, trouble>>

\* The page is left; another one is opened.
Leave ==
  /\ page.on /\ page.generation < MaxPage
  /\ page' = NoPage(page.generation + 1)
  /\ releasing' = IF page.active = None THEN releasing ELSE releasing \cup {page.active}
  /\ polling' = NoPoll
  /\ UNCHANGED <<scan, starting, trouble>>

Enter ==
  /\ ~ page.on
  /\ page' = [page EXCEPT !.on = TRUE]
  /\ UNCHANGED <<scan, starting, polling, releasing, trouble>>

\* A poll that finds the scan still waiting is followed by another.
TakePoll ==
  /\ polling.status # "none"
  /\ page' = [page EXCEPT !.shown = polling.status]
  /\ polling' = IF polling.status = "waiting" THEN [polling EXCEPT !.status = "none"] ELSE NoPoll
  /\ UNCHANGED <<scan, starting, releasing, trouble>>

\* The page's clock runs out before the server says so; what is polled is not looked at any more.
RunOut ==
  /\ page.shown \in Opened
  /\ page' = [page EXCEPT !.shown = "expired"]
  /\ polling' = NoPoll
  /\ UNCHANGED <<scan, starting, releasing, trouble>>

-----------------------------------------------------------------------------
(* The server.                                                             *)

ServeStart(c) ==
  /\ c.at = "sent"
  /\ IF \E s \in Scan : scan[s] \in Opened
     THEN starting' = (starting \ {c}) \cup {[c EXCEPT !.at = "refused"]} /\ UNCHANGED scan
     ELSE \E s \in Scan :
            /\ scan[s] = "none"
            /\ scan' = [scan EXCEPT ![s] = "waiting"]
            /\ starting' = (starting \ {c}) \cup {[c EXCEPT !.at = "done", !.got = s]}
  /\ UNCHANGED <<page, polling, releasing, trouble>>

ServePoll ==
  /\ polling.of # None /\ polling.status = "none"
  /\ polling' = [polling EXCEPT !.status = scan[polling.of]]
  /\ UNCHANGED <<scan, page, starting, releasing, trouble>>

ServeRelease(s) ==
  /\ releasing' = releasing \ {s}
  /\ scan' = IF scan[s] \in Opened \cup {"expired"} THEN [scan EXCEPT ![s] = "cancelled"] ELSE scan
  /\ UNCHANGED <<page, starting, polling, trouble>>

\* A card is tapped, the captured card is assigned, or two minutes are over.
Step(s) ==
  /\ scan[s] \in Opened
  /\ \E next \in {"expired", IF scan[s] = "waiting" THEN "captured" ELSE "completed"} : scan' = [scan EXCEPT ![s] = next]
  /\ UNCHANGED <<page, starting, polling, releasing, trouble>>

\* A call does not arrive, or its answer does not; the poll is asked again by
\* hand, a cancellation is not.
Lose ==
  /\ trouble < MaxTrouble
  /\ trouble' = trouble + 1
  /\ \/ \E c \in starting :
          /\ starting' = (starting \ {c}) \cup {[c EXCEPT !.at = "refused", !.got = None]}
          /\ UNCHANGED releasing
     \/ \E s \in releasing : releasing' = releasing \ {s} /\ UNCHANGED starting
  /\ UNCHANGED <<scan, page, polling>>

Init ==
  /\ scan = [s \in Scan |-> "none"]
  /\ page = [NoPage(0) EXCEPT !.on = TRUE]
  /\ starting = {} /\ polling = NoPoll /\ releasing = {}
  /\ trouble = 0

Next ==
  \/ Start \/ Cancel \/ Leave \/ Enter \/ TakePoll \/ RunOut
  \/ \E c \in starting : TakeStart(c) \/ ServeStart(c)
  \/ \E s \in Scan : Step(s)
  \/ \E s \in releasing : ServeRelease(s)
  \/ ServePoll \/ Lose

Spec == Init /\ [][Next]_vars

-----------------------------------------------------------------------------
(* Properties.                                                             *)

\* When the page's calls have ended and none of them was lost, the reader waits
\* for a card, and keeps the door shut to it, only for the scan that is shown.
NoStrayScan ==
  starting = {} /\ releasing = {} /\ trouble = 0 =>
    \A s \in Scan : scan[s] \in Opened => page.on /\ page.active = s
=============================================================================
