------------------------------- MODULE Visits -------------------------------
(***************************************************************************)
(* Visits to the facility and the supervision of minors:                   *)
(* backend/src/minorSupervision.ts, with the arrivals and bookings that    *)
(* ask it for a minor's sponsor.                                           *)
(*                                                                         *)
(* A minor is let in, and may book, only while the adult linked to them is *)
(* in the same building.  Nothing but row locks and an advisory lock per   *)
(* visitor ties the two visits together: each transaction below takes its  *)
(* locks in one step and writes in another.                                *)
(***************************************************************************)
EXTENDS Naturals

CONSTANTS
  Adult, Minor, Building,  \* adults are no minors
  Tx,        \* overlapping transactions
  MaxDay,    \* the days looked at, from 1
  Straddle,  \* whether a transaction may last past midnight
  None       \* no adult, and none of them

VARIABLES
  link,      \* app_minor_sponsor: the adult of each minor
  asked,     \* pending app_minor_sponsor_request rows: the adults asking
  visit,     \* the open app_facility_visit row of each person
  blocked,   \* adults whose account or access is suspended
  today,     \* the date
  tx         \* what each transaction does and what it read

vars == <<link, asked, visit, blocked, today, tx>>

Person == Adult \cup Minor
Day == 1..MaxDay
Idle == [op |-> "idle"]
NoVisit == [day |-> 0]

Visit == {NoVisit} \cup [day : Day, building : Building, sponsor : Adult \cup {None}]
Transaction ==
  {Idle}
  \cup [op : {"arrive", "enter"}, day : Day, user : Adult, building : Building, adult : {None}]
  \cup [op : {"arrive", "enter"}, day : Day, user : Minor, building : Building, adult : Adult]
  \cup [op : {"book"}, day : Day, user : Minor, adult : Adult]
  \cup [op : {"leave"}, day : Day, user : Person]
  \cup [op : {"unlink", "accept", "assign"}, day : Day, user : Minor, adult : Adult]

TypeOK ==
  /\ link \in [Minor -> Adult \cup {None}]
  /\ asked \in [Minor -> SUBSET Adult]
  /\ visit \in [Person -> Visit]
  /\ blocked \subseteq Adult
  /\ today \in Day
  /\ tx \in [Tx -> Transaction]

Open(p) == visit[p] # NoVisit
Is(t, ops) == tx[t].op \in ops
Others(t) == Tx \ {t}
Start(t, work) == tx[t] = Idle /\ tx' = [tx EXCEPT ![t] = work]
Finish(t) == tx' = [tx EXCEPT ![t] = Idle]

-----------------------------------------------------------------------------
(* Locks.                                                                  *)

\* requireSponsor keeps the link, the adult and the adult's visit FOR SHARE.
WithSponsor == {t \in Tx : Is(t, {"arrive", "enter", "book"}) /\ tx[t].user \in Minor}
Relinking == {t \in Tx : Is(t, {"unlink", "accept", "assign"})}
AtVisit == {t \in Tx : Is(t, {"enter", "leave"})}

\* A person's advisory lock and their open visit, FOR UPDATE.
VisitFree(t, p) ==
  /\ \A s \in AtVisit \ {t} : tx[s].user # p
  /\ Open(p) => \A s \in WithSponsor \ {t} : tx[s].adult # p

\* The link of a minor, FOR UPDATE; the minor's own row orders these too.
LinkFree(t, m) == \A s \in (WithSponsor \cup Relinking) \ {t} : tx[s].user # m

-----------------------------------------------------------------------------
(* Coming in and booking.                                                  *)

\* requireSponsor: the linked adult, active and in the building today.
Sponsor(m, here) ==
  {a \in Adult \ blocked : /\ link[m] = a
                           /\ visit[a].day = today
                           /\ visit[a].building \in here
                           /\ \A s \in Relinking : tx[s].user # m
                           /\ \A s \in AtVisit : tx[s].user # a}

AdultArrives(t, a, b) ==
  /\ a \notin blocked
  /\ Start(t, [op |-> "arrive", day |-> today, user |-> a, building |-> b, adult |-> None])
  /\ UNCHANGED <<link, asked, visit, blocked, today>>

MinorArrives(t, m, b) ==
  /\ \E a \in Sponsor(m, {b}) :
       Start(t, [op |-> "arrive", day |-> today, user |-> m, building |-> b, adult |-> a])
  /\ UNCHANGED <<link, asked, visit, blocked, today>>

MinorBooks(t, m) ==
  /\ \E a \in Sponsor(m, Building) : Start(t, [op |-> "book", day |-> today, user |-> m, adult |-> a])
  /\ UNCHANGED <<link, asked, visit, blocked, today>>

Booked(t) ==
  /\ Is(t, {"book"})
  /\ Finish(t)
  /\ UNCHANGED <<link, asked, visit, blocked, today>>

\* startVisit waits for its turn at this person's visits.
TakeTurn(t) ==
  /\ Is(t, {"arrive"})
  /\ VisitFree(t, tx[t].user)
  /\ tx' = [tx EXCEPT ![t].op = "enter"]
  /\ UNCHANGED <<link, asked, visit, blocked, today>>

\* The visits a person's departure ends: their own and of minors in their care.
InCare(p) == {q \in Person : Open(q) /\ (q = p \/ visit[q].sponsor = p)}
Ended(who) == [p \in Person |-> IF p \in who THEN NoVisit ELSE visit[p]]
CareFree(t, p) == \A s \in Others(t) : s \in AtVisit => tx[s].user \notin InCare(p)

\* startVisit: what is open from another day is closed; an adult who arrives
\* elsewhere leaves the first building, a minor has to check out before.
Enter(t) ==
  LET w == tx[t]
      p == w.user
      new == [day |-> w.day, building |-> w.building, sponsor |-> w.adult]
      current == Open(p) /\ visit[p].day = w.day
  IN /\ Is(t, {"enter"})
     /\ \/ /\ ~ current
           /\ visit' = [visit EXCEPT ![p] = new]
        \/ /\ current /\ visit[p].building = w.building /\ visit[p].sponsor = w.adult
           /\ UNCHANGED visit
        \/ /\ current /\ visit[p].building # w.building /\ w.adult = None
           /\ CareFree(t, p)
           /\ visit' = [Ended(InCare(p)) EXCEPT ![p] = new]
     /\ Finish(t)
     /\ UNCHANGED <<link, asked, blocked, today>>

-----------------------------------------------------------------------------
(* Leaving: checkout.                                                      *)

StartLeaving(t, p) ==
  /\ VisitFree(t, p)
  /\ Start(t, [op |-> "leave", day |-> today, user |-> p])
  /\ UNCHANGED <<link, asked, visit, blocked, today>>

\* A slip: who leaves ends their own visit only.
LeaveAlone(t) ==
  /\ Is(t, {"leave"})
  /\ visit' = [visit EXCEPT ![tx[t].user] = NoVisit]
  /\ Finish(t)
  /\ UNCHANGED <<link, asked, blocked, today>>

Leave(t) ==
  /\ Is(t, {"leave"})
  /\ CareFree(t, tx[t].user)
  /\ visit' = Ended(InCare(tx[t].user))
  /\ Finish(t)
  /\ UNCHANGED <<link, asked, blocked, today>>

-----------------------------------------------------------------------------
(* Linking a minor to an adult.                                            *)

Ask(a, m) ==
  /\ a \notin blocked /\ link[m] = None /\ a \notin asked[m]
  /\ \A s \in Relinking : tx[s].user # m
  /\ asked' = [asked EXCEPT ![m] = @ \cup {a}]
  /\ UNCHANGED <<link, visit, blocked, today, tx>>

\* Cancelled by the adult or declined by the minor.
Withdraw(a, m) ==
  /\ a \in asked[m]
  /\ \A s \in Relinking : tx[s].user # m
  /\ asked' = [asked EXCEPT ![m] = @ \ {a}]
  /\ UNCHANGED <<link, visit, blocked, today, tx>>

StartUnlink(t, m) ==
  /\ link[m] # None
  /\ LinkFree(t, m)
  /\ Start(t, [op |-> "unlink", day |-> today, user |-> m, adult |-> link[m]])
  /\ UNCHANGED <<link, asked, visit, blocked, today>>

StartAccept(t, m, a) ==
  /\ a \in asked[m] \ blocked
  /\ link[m] \in {None, a}
  /\ LinkFree(t, m)
  /\ Start(t, [op |-> "accept", day |-> today, user |-> m, adult |-> a])
  /\ UNCHANGED <<link, asked, visit, blocked, today>>

\* Staff may also replace an adult.
StartAssign(t, m, a) ==
  /\ a \notin blocked
  /\ LinkFree(t, m)
  /\ Start(t, [op |-> "assign", day |-> today, user |-> m, adult |-> a])
  /\ UNCHANGED <<link, asked, visit, blocked, today>>

\* openVisit: a visit of another day is closed, one of today refuses.  An
\* accepted request ends the others.
Relink(t) ==
  LET m == tx[t].user
  IN /\ t \in Relinking
     /\ VisitFree(t, m)
     /\ visit[m].day # tx[t].day
     /\ visit' = [visit EXCEPT ![m] = NoVisit]
     /\ link' = [link EXCEPT ![m] = IF Is(t, {"unlink"}) THEN None ELSE tx[t].adult]
     /\ asked' = IF Is(t, {"accept"}) THEN [asked EXCEPT ![m] = {}] ELSE asked
     /\ Finish(t)
     /\ UNCHANGED <<blocked, today>>

-----------------------------------------------------------------------------

\* Staff suspend or restore an adult, whose row arrivals keep FOR SHARE.
Suspend(a) ==
  /\ \A t \in Tx : Is(t, {"arrive", "enter", "book", "accept", "assign"}) => a \notin {tx[t].user, tx[t].adult}
  /\ blocked' = IF a \in blocked THEN blocked \ {a} ELSE blocked \cup {a}
  /\ UNCHANGED <<link, asked, visit, today, tx>>

Abort(t) ==
  /\ tx[t] # Idle
  /\ Finish(t)
  /\ UNCHANGED <<link, asked, visit, blocked, today>>

Midnight ==
  /\ today < MaxDay
  /\ Straddle \/ \A t \in Tx : tx[t] = Idle
  /\ today' = today + 1
  /\ UNCHANGED <<link, asked, visit, blocked, tx>>

Init ==
  /\ link = [m \in Minor |-> None]
  /\ asked = [m \in Minor |-> {}]
  /\ visit = [p \in Person |-> NoVisit]
  /\ blocked = {}
  /\ today = 1
  /\ tx = [t \in Tx |-> Idle]

Next ==
  \/ Midnight
  \/ \E a \in Adult : Suspend(a)
  \/ \E a \in Adult, m \in Minor : Ask(a, m) \/ Withdraw(a, m)
  \/ \E t \in Tx :
       \/ \E a \in Adult, b \in Building : AdultArrives(t, a, b)
       \/ \E m \in Minor, b \in Building : MinorArrives(t, m, b)
       \/ \E m \in Minor : MinorBooks(t, m) \/ StartUnlink(t, m)
       \/ \E m \in Minor, a \in Adult : StartAccept(t, m, a) \/ StartAssign(t, m, a)
       \/ \E p \in Person : StartLeaving(t, p)
       \/ Booked(t) \/ TakeTurn(t) \/ Enter(t) \/ Leave(t) \/ Relink(t) \/ Abort(t)

Spec == Init /\ [][Next]_vars

-----------------------------------------------------------------------------
(* Properties.                                                             *)

\* A minor who is in today has an adult who is in the same building today:
\* checkout and arrival elsewhere take the minors along, and no arrival slips
\* in between.
Supervised ==
  \A m \in Minor : visit[m].day = today =>
    \E a \in Adult : /\ visit[m].sponsor = a
                     /\ visit[a].day = today
                     /\ visit[a].building = visit[m].building

\* That adult is the one linked to them: a link never changes under a visit.
LinkStands == \A m \in Minor : visit[m].day = today => link[m] = visit[m].sponsor

\* A visit is only ever followed by one of the same or a later day: what is
\* ended as stale is from a previous day.
VisitsMoveForward ==
  [][\A p \in Person : Open(p) /\ visit'[p] # NoVisit => visit'[p].day >= visit[p].day]_vars

\* While a minor's booking is written its adult stays linked, active and in.
BookedInCompany ==
  \A t \in Tx : Is(t, {"book"}) =>
    /\ link[tx[t].user] = tx[t].adult
    /\ visit[tx[t].adult].day = tx[t].day
    /\ tx[t].adult \notin blocked
=============================================================================
