------------------------------ MODULE Bookings ------------------------------
(***************************************************************************)
(* The reservation table and everybody who writes to it.                   *)
(*                                                                         *)
(* Three layers keep two bookings of one machine or room apart:            *)
(*   - ReservationService locks the resource row (SELECT ... FOR UPDATE)   *)
(*     and looks for overlaps and for the 15-minute cooldown before it     *)
(*     writes (create and update);                                         *)
(*   - partial GiST exclusion constraints compare every write with the     *)
(*     committed rows and with the writes still in flight;                 *)
(*   - a BEFORE trigger compares an enforced row with the grandfathered    *)
(*     rows, which the cooldown constraints leave out.                     *)
(* Class scheduling, supervised access and direct SQL skip the checks of   *)
(* the first layer, so each layer has a writer for which it is the only    *)
(* one.                                                                    *)
(*                                                                         *)
(* A transaction is a process: it views a row (staff edits), takes its     *)
(* locks and checks, writes (invisible to the others, READ COMMITTED) and  *)
(* commits, or aborts at any point.  Cancellations and payment decisions   *)
(* are single statements under the reservation's row lock.                 *)
(*                                                                         *)
(* Left out: prices, eligibility, permissions and the clock.  Each can     *)
(* only refuse a request, which Abort covers; the 24 hours' notice of a    *)
(* member's cancellation is such a refusal too.                            *)
(***************************************************************************)
EXTENDS Integers, FiniteSets

CONSTANTS
  Rid,          \* reservation ids the sequence may hand out
  Legacy,       \* ids of the rows present when the cooldown migration ran
  Member,       \* booked members
  Equipment,    \* machines
  Room,         \* rooms
  Window,       \* booking windows, records with a start and an end
  Cooldown,     \* RESERVATION_COOLDOWN_MINUTES, in the unit of Window
  Tx,           \* transactions that may run at once
  SqlTx,        \* those of them that write with direct SQL
  MaxRevision   \* bound on the revisions a row goes through

ASSUME BookingsAssumption ==
  /\ Legacy \subseteq Rid
  /\ Window \subseteq [start: Int, end: Int]
  /\ \A w \in Window : w.start < w.end
  /\ Cooldown \in Nat
  /\ MaxRevision \in Nat

VARIABLES
  rows,   \* the committed reservation table
  tx      \* what each transaction has seen, locked and written

vars == <<rows, tx>>

Resource == Equipment \cup Room

\* How a row came to be: with a card checkout, for a class, for access that
\* staff supervise, or none of these.
Via == {"desk", "card", "class", "override"}

Kind == {"create", "edit", "class", "override", "sql"}

Status == {"confirmed", "pending", "cancelled"}

Row == [user: Member, res: Resource, win: Window, status: Status, via: Via,
        enforced: BOOLEAN, revision: Nat]

NoRow == [status |-> "none"]

Idle == [phase |-> "idle"]

\* A transaction's work: the row it viewed or replaces and the row it means to
\* write.  It holds the row lock on rid from "checked" on, and the lock on the
\* new row's resource unless it writes with direct SQL.
Work == [phase: {"viewing", "checked", "written"}, kind: Kind,
         rid: Rid, seen: Row \cup {NoRow}, row: Row]

Active(a) == a.status \in {"confirmed", "pending"}

-----------------------------------------------------------------------------
(* Intervals.                                                              *)

Overlap(v, w) == v.start < w.end /\ v.end > w.start

Near(v, w) == v.start < w.end + Cooldown /\ v.end > w.start - Cooldown

\* The gap is machine-wide on equipment; in a room it is the same user's only.
GapApplies(a, b) == a.res \in Equipment \/ a.user = b.user

TooClose(a, b) ==
  /\ a.res = b.res
  /\ \/ Overlap(a.win, b.win)
     \/ Near(a.win, b.win) /\ GapApplies(a, b)

-----------------------------------------------------------------------------
(* Locks and versions.                                                     *)

InFlight(p) == tx[p].phase \in {"checked", "written"}

RowFree(r) == \A p \in Tx : InFlight(p) => tx[p].rid # r

NoResourceLock(x) == TRUE

ResourceFree(x) ==
  \A p \in Tx : InFlight(p) /\ tx[p].kind # "sql" => tx[p].row.res # x

\* A serial id is handed out once, to a transaction that may still abort.
Unused(r) == rows[r] = NoRow /\ \A p \in Tx : tx[p] # Idle => tx[p].rid # r

\* Every version of row r an index scan meets: the committed one and the one
\* an unfinished transaction has written.
Versions(r) ==
  {rows[r]} \cup {tx[p].row : p \in {q \in Tx : tx[q].phase = "written" /\ tx[q].rid = r}}

Booking(a) == <<a.user, a.res, a.win>>

-----------------------------------------------------------------------------
(* The three layers.                                                       *)

\* overlaps, equipmentCooldown, roomOverlaps and roomCooldown on the committed
\* rows, the booking's own row excepted.
ServiceClear(r, n) ==
  \A s \in Rid \ {r} : ~ (Active(rows[s]) /\ TooClose(n, rows[s]))

\* A slip: an update keeps the exemption whatever it changes.
EnforceKeepsExemption(old, n) ==
  [n EXCEPT !.enforced = IF old = NoRow THEN TRUE ELSE old.enforced]

\* The trigger's first part: which writes end a row's exemption.
Enforce(old, n) ==
  [n EXCEPT !.enforced =
     \/ old = NoRow
     \/ old.enforced
     \/ Booking(n) # Booking(old)
     \/ Active(n) /\ ~ Active(old)]

TriggerOff(r, n) == TRUE

\* The trigger's second part: an enforced row against the exempt ones.
TriggerClear(r, n) ==
  n.enforced /\ Active(n) =>
    \A s \in Rid \ {r} :
      ~ (Active(rows[s]) /\ ~ rows[s].enforced /\ TooClose(n, rows[s]))

ExclusionOnCommitted(r, n) ==
  Active(n) =>
    \A s \in Rid \ {r} :
      Active(rows[s]) /\ n.res = rows[s].res =>
        /\ ~ Overlap(n.win, rows[s].win)
        /\ n.enforced /\ rows[s].enforced => ~ TooClose(n, rows[s])

\* The exclusion constraints: overlap between any two active rows, the gap
\* between two enforced ones.  A conflict with a write still in flight makes
\* the scan wait for its transaction, so a row is in only once it has none.
ExclusionClear(r, n) ==
  Active(n) =>
    \A s \in Rid \ {r} : \A b \in Versions(s) :
      Active(b) /\ n.res = b.res =>
        /\ ~ Overlap(n.win, b.win)
        /\ n.enforced /\ b.enforced => ~ TooClose(n, b)

DbClear(r, n) == TriggerClear(r, n) /\ ExclusionClear(r, n)

-----------------------------------------------------------------------------
(* Transactions of several steps.                                          *)

NewRow(u, x, w, st, via) ==
  [user |-> u, res |-> x, win |-> w, status |-> st, via |-> via,
   enforced |-> TRUE, revision |-> 1]

Step(p, phase, kind, r, seen, n) ==
  tx' = [tx EXCEPT ![p] = [phase |-> phase, kind |-> kind, rid |-> r,
                           seen |-> seen, row |-> n]]

\* ReservationService.create up to its INSERT: the resource row is locked, the
\* checks pass.  A machine with a price and a configured Stripe gives a pending
\* row with a checkout, anything else a confirmed one.
BeginCreate(p, u, x, w) ==
  /\ p \notin SqlTx
  /\ tx[p] = Idle
  /\ ResourceFree(x)
  /\ \E r \in Rid, paid \in BOOLEAN :
       LET n == IF paid THEN NewRow(u, x, w, "pending", "card")
                        ELSE NewRow(u, x, w, "confirmed", "desk")
       IN  /\ Unused(r)
           /\ paid => x \in Equipment
           /\ ServiceClear(r, n)
           /\ Step(p, "checked", "create", r, NoRow, n)
  /\ UNCHANGED rows

\* A member of staff opens a reservation in the portal: the revision shown is
\* the one the edit will send back.
ViewReservation(p, r) ==
  /\ p \notin SqlTx
  /\ tx[p] = Idle
  /\ rows[r] # NoRow
  /\ Step(p, "viewing", "edit", r, rows[r], rows[r])
  /\ UNCHANGED rows

EditAnyRevision(p) == rows[tx[p].rid] # NoRow

SameRevision(p) == rows[tx[p].rid].revision = tx[p].seen.revision

\* ReservationService.update up to its UPDATE: reservation row lock, active,
\* neither a class nor a checkout, the revision the editor saw, then the target
\* resource's lock and the checks without the row itself.
BeginUpdate(p, u, x, w) ==
  LET r == tx[p].rid
      n == [rows[r] EXCEPT !.user = u, !.res = x, !.win = w, !.status = "confirmed",
                           !.revision = @ + 1]
  IN  /\ tx[p].phase = "viewing"
      /\ RowFree(r)
      /\ Active(rows[r])
      /\ rows[r].via \in {"desk", "override"}
      /\ SameRevision(p)
      /\ rows[r].revision < MaxRevision
      /\ ResourceFree(x)
      /\ ServiceClear(r, n)
      /\ Step(p, "checked", "edit", r, tx[p].seen, n)
      /\ UNCHANGED rows

\* Scheduling a class locks the room but leaves overlap and cooldown to the
\* database.
BeginClass(p, u, x, w) ==
  /\ p \notin SqlTx
  /\ tx[p] = Idle
  /\ x \in Room
  /\ ResourceFree(x)
  /\ \E r \in Rid :
       /\ Unused(r)
       /\ Step(p, "checked", "class", r, NoRow, NewRow(u, x, w, "confirmed", "class"))
  /\ UNCHANGED rows

\* Supervised access books the resource from now on, without looking for
\* overlaps, under its lock.
BeginOverride(p, u, x, w) ==
  /\ p \notin SqlTx
  /\ tx[p] = Idle
  /\ ResourceFree(x)
  /\ \E r \in Rid :
       /\ Unused(r)
       /\ Step(p, "checked", "override", r, NoRow, NewRow(u, x, w, "confirmed", "override"))
  /\ UNCHANGED rows

\* The statement that writes the row, with the trigger and the constraints.
Write(p) ==
  LET r == tx[p].rid
      n == Enforce(rows[r], tx[p].row)
  IN  /\ tx[p].phase = "checked"
      /\ DbClear(r, n)
      /\ Step(p, "written", tx[p].kind, r, tx[p].seen, n)
      /\ UNCHANGED rows

\* An operator's INSERT or UPDATE: no lock on the resource, no check of the
\* service, any member, resource, window and status.
SqlWrite(p, r, u, x, w, st) ==
  LET n == IF rows[r] = NoRow
           THEN NewRow(u, x, w, st, "desk")
           ELSE [rows[r] EXCEPT !.user = u, !.res = x, !.win = w, !.status = st]
      m == Enforce(rows[r], n)
  IN  /\ p \in SqlTx
      /\ tx[p] = Idle
      /\ rows[r] = NoRow => Unused(r)
      /\ RowFree(r)
      /\ DbClear(r, m)
      /\ Step(p, "written", "sql", r, NoRow, m)
      /\ UNCHANGED rows

Commit(p) ==
  /\ tx[p].phase = "written"
  /\ rows' = [rows EXCEPT ![tx[p].rid] = tx[p].row]
  /\ tx' = [tx EXCEPT ![p] = Idle]

\* A refusal, a constraint violation or a lost connection: nothing is written.
Abort(p) ==
  /\ tx[p] # Idle
  /\ tx' = [tx EXCEPT ![p] = Idle]
  /\ UNCHANGED rows

-----------------------------------------------------------------------------
(* Single statements under the reservation's row lock.                     *)

SetRow(r, n) ==
  LET m == Enforce(rows[r], n)
  IN  /\ RowFree(r)
      /\ DbClear(r, m)
      /\ rows' = [rows EXCEPT ![r] = m]
      /\ UNCHANGED tx

\* A member's cancellation and a staff one: not a class, no checkout waiting
\* for its payment.  The revision stays.
Cancel(r) ==
  /\ Active(rows[r])
  /\ rows[r].via # "class"
  /\ ~ (rows[r].via = "card" /\ rows[r].status = "pending")
  /\ SetRow(r, [rows[r] EXCEPT !.status = "cancelled"])

\* Cancelling a class cancels its room booking, whatever its status.
CancelClass(r) ==
  /\ rows[r] # NoRow
  /\ rows[r].via = "class"
  /\ rows[r].revision < MaxRevision
  /\ SetRow(r, [rows[r] EXCEPT !.status = "cancelled", !.revision = @ + 1])

\* Revoking supervised access cancels the booking made for it, wherever an edit
\* has moved it since (unless the edit changed its member, which the rows here
\* do not remember: the model may cancel that booking too).
RevokeOverride(r) ==
  /\ rows[r].status = "confirmed"
  /\ rows[r].via = "override"
  /\ rows[r].revision < MaxRevision
  /\ SetRow(r, [rows[r] EXCEPT !.status = "cancelled", !.revision = @ + 1])

\* EquipmentBilling.apply on a paid session, and on an expired one.
Settle(r) ==
  /\ rows[r].status = "pending"
  /\ rows[r].via = "card"
  /\ SetRow(r, [rows[r] EXCEPT !.status = "confirmed", !.revision = @ + 1])

Release(r) ==
  /\ rows[r].status = "pending"
  /\ rows[r].via = "card"
  /\ SetRow(r, [rows[r] EXCEPT !.status = "cancelled"])

-----------------------------------------------------------------------------

LegacyRow == [user: Member, res: Resource, win: Window, status: Status,
              via: {"desk"}, enforced: {FALSE}, revision: {1}]

\* The table as the migration leaves it: its rows are exempt from the cooldown
\* but already satisfied the overlap constraints.
Init ==
  /\ rows \in [Rid -> LegacyRow \cup {NoRow}]
  /\ \A r \in Rid \ Legacy : rows[r] = NoRow
  /\ \A r, s \in Rid :
       r # s /\ Active(rows[r]) /\ Active(rows[s]) /\ rows[r].res = rows[s].res =>
         ~ Overlap(rows[r].win, rows[s].win)
  /\ tx = [p \in Tx |-> Idle]

Next ==
  \/ \E p \in Tx :
       \/ \E u \in Member, x \in Resource, w \in Window :
            \/ BeginCreate(p, u, x, w)
            \/ BeginUpdate(p, u, x, w)
            \/ BeginClass(p, u, x, w)
            \/ BeginOverride(p, u, x, w)
            \/ \E r \in Rid, st \in Status : SqlWrite(p, r, u, x, w, st)
       \/ \E r \in Rid : ViewReservation(p, r)
       \/ Write(p)
       \/ Commit(p)
       \/ Abort(p)
  \/ \E r \in Rid : Cancel(r) \/ CancelClass(r) \/ RevokeOverride(r) \/ Settle(r) \/ Release(r)

Spec == Init /\ [][Next]_vars

-----------------------------------------------------------------------------
(* Properties.                                                             *)

TypeOK ==
  /\ rows \in [Rid -> Row \cup {NoRow}]
  /\ tx \in [Tx -> Work \cup {Idle}]

\* Two active bookings of one resource never overlap, and unless both were
\* grandfathered they keep the cooldown: machine-wide on equipment, per user in
\* a room.  Whoever wrote them, and in whatever order their transactions ran.
BookingsApart ==
  \A r, s \in Rid :
    r # s /\ Active(rows[r]) /\ Active(rows[s]) =>
      /\ rows[r].res = rows[s].res => ~ Overlap(rows[r].win, rows[s].win)
      /\ rows[r].enforced \/ rows[s].enforced => ~ TooClose(rows[r], rows[s])

\* What create and update found free under the resource lock stays free until
\* they write: the database never refuses a booking that passed the checks.
\* (Only without direct SQL, which takes no resource lock.)
CheckedStaysFree ==
  \A p \in Tx :
    tx[p].phase = "checked" /\ tx[p].kind \in {"create", "edit"} =>
      DbClear(tx[p].rid, Enforce(rows[tx[p].rid], tx[p].row))

\* An edit that passed the revision check replaces the booking its editor saw,
\* not one that somebody changed meanwhile.
EditSawTheBooking ==
  \A p \in Tx :
    InFlight(p) /\ tx[p].kind = "edit" =>
      /\ Active(rows[tx[p].rid])
      /\ Booking(rows[tx[p].rid]) = Booking(tx[p].seen)

\* A row that is active and exempt was so before, for the same member, resource
\* and window: no writer introduces a blocker the constraints do not see.
NoNewExemptBlocker ==
  [][\A r \in Rid :
       Active(rows'[r]) /\ ~ rows'[r].enforced =>
         Active(rows[r]) /\ ~ rows[r].enforced /\ Booking(rows'[r]) = Booking(rows[r])]_vars

=============================================================================
