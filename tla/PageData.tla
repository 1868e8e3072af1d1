------------------------------- MODULE PageData -------------------------------
(***************************************************************************)
(* What a page shows of a resource (lib/useApi.ts), while it is read again *)
(* by hand, by a timer and by the return of the window's focus, the page   *)
(* turns to another resource, and answers come in any order.               *)
(***************************************************************************)
EXTENDS Naturals

CONSTANTS
  Path, None, MaxVersion, MaxRead,
  Denied   \* the versions of a resource that this reader may not see

VARIABLES
  version,   \* of each resource, at the server
  path, retain,
  data,      \* what is shown, of which resource, in which version
  flags,     \* loading and refreshing
  fetching,
  reads,     \* reads under way, with the version that they met
  count,
  newest     \* History: the newest version that was answered while the page showed this resource

vars == <<version, path, retain, data, flags, fetching, reads, count, newest>>

Nothing == [path |-> None, version |-> 0]
Still == [loading |-> FALSE, refreshing |-> FALSE]

TypeOK ==
  /\ version \in [Path -> 0..MaxVersion]
  /\ path \in Path \cup {None} /\ retain \in BOOLEAN /\ fetching \in BOOLEAN
  /\ data \in [path : Path \cup {None}, version : 0..MaxVersion]
  /\ flags \in [loading : BOOLEAN, refreshing : BOOLEAN]
  /\ \A r \in reads : r.n \in 1..count /\ r.path \in Path /\ r.at \in {"sent", "done", "failed"}
  /\ count \in 0..MaxRead /\ newest \in 0..MaxVersion

-----------------------------------------------------------------------------
(* The effect: the read before is aborted, and only a first read, or one   *)
(* of another resource, puts away what is shown.                           *)

\* A slip: the read before goes on.
LeftAlone == reads

Aborted == {[r EXCEPT !.aborted = TRUE] : r \in reads}

Run(p) ==
  LET background == retain /\ p = path /\ data.path # None
  IN /\ count < MaxRead
     /\ path' = p
     /\ count' = count + 1
     /\ reads' = Aborted \cup {[n |-> count + 1, path |-> p, at |-> "sent", got |-> 0, aborted |-> FALSE]}
     /\ fetching' = TRUE
     /\ flags' = [loading |-> ~ background, refreshing |-> background]
     /\ data' = IF background THEN data ELSE Nothing
     /\ newest' = IF p = path THEN newest ELSE 0
     /\ UNCHANGED <<version, retain>>

Go(p) == p # path /\ Run(p)

Away ==
  /\ path # None
  /\ path' = None
  /\ reads' = Aborted /\ fetching' = FALSE
  /\ data' = Nothing /\ flags' = Still /\ newest' = 0
  /\ UNCHANGED <<version, retain, count>>

Reload == path # None /\ Run(path)

\* The timer, and the window's focus.  Hidden pages and forms that are edited
\* only keep it from reading.
Refresh == path # None /\ ~ fetching /\ Run(path)

-----------------------------------------------------------------------------
(* The answers.                                                            *)

Serve(r) ==
  /\ r.at = "sent"
  /\ \E how \in {"done", "failed"} :
       reads' = (reads \ {r}) \cup {[r EXCEPT !.at = how, !.got = IF how = "done" THEN version[r.path] ELSE 0]}
  /\ UNCHANGED <<version, path, retain, data, flags, fetching, count, newest>>

\* A refusal also takes away what was kept; another failure does not.
Shown(r) ==
  IF r.at = "failed" THEN data
  ELSE IF r.got \in Denied THEN IF retain THEN Nothing ELSE data
  ELSE [path |-> r.path, version |-> r.got]

Take(r) ==
  /\ r.at # "sent"
  /\ reads' = reads \ {r}
  /\ IF r.aborted THEN UNCHANGED <<data, flags, fetching, newest>>
     ELSE /\ data' = Shown(r)
          /\ flags' = Still /\ fetching' = FALSE
          /\ newest' = IF r.at = "done" /\ r.path = path /\ r.got > newest THEN r.got ELSE newest
  /\ UNCHANGED <<version, path, retain, count>>

\* The resource changes, or who may see it.
Change(p) ==
  /\ version[p] < MaxVersion
  /\ version' = [version EXCEPT ![p] = @ + 1]
  /\ UNCHANGED <<path, retain, data, flags, fetching, reads, count, newest>>

Init ==
  /\ version = [p \in Path |-> 0]
  /\ path = None /\ retain \in BOOLEAN
  /\ data = Nothing /\ flags = Still /\ fetching = FALSE
  /\ reads = {} /\ count = 0 /\ newest = 0

Next ==
  \/ \E p \in Path : Go(p) \/ Change(p)
  \/ Away \/ Reload \/ Refresh
  \/ \E r \in reads : Serve(r) \/ Take(r)

Spec == Init /\ [][Next]_vars

-----------------------------------------------------------------------------
(* Properties.                                                             *)

\* What is shown is of the resource that the page is for, and never from before
\* an answer that the page has had, a refusal among them, however late the
\* answers to earlier reads come.
NothingOld == data.path # None => data.path = path /\ data.version >= newest

\* The page says that it reads exactly while there is an answer to come that it
\* will take.
SaysItReads ==
  (flags.loading \/ flags.refreshing) <=> \E r \in reads : ~ r.aborted
=============================================================================
