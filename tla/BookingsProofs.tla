--------------------------- MODULE BookingsProofs ---------------------------
(***************************************************************************)
(* Proofs about Bookings, for any number of members, machines, rooms,      *)
(* windows and transactions.                                               *)
(*                                                                         *)
(* BookingsApart speaks of committed rows; a write in flight is compared   *)
(* with other writes in flight, so the inductive invariant speaks of every *)
(* version of a row (VersionsApart).  The trigger reads committed rows     *)
(* only: what makes that enough is ExemptWrites, a write that stays exempt *)
(* repeats the booking of the committed row it replaces.                   *)
(***************************************************************************)
EXTENDS Bookings, TLAPS

\* Two versions of different bookings that may both come to be committed.
Apart(a, b) ==
  Active(a) /\ Active(b) =>
    /\ a.res = b.res => ~ Overlap(a.win, b.win)
    /\ a.enforced \/ b.enforced => ~ TooClose(a, b)

RowLocks ==
  \A p, q \in Tx : p # q /\ InFlight(p) /\ InFlight(q) => tx[p].rid # tx[q].rid

ExemptWrites ==
  \A p \in Tx :
    LET n == tx[p].row
        old == rows[tx[p].rid]
    IN  tx[p].phase = "written" /\ Active(n) /\ ~ n.enforced =>
          Active(old) /\ ~ old.enforced /\ Booking(n) = Booking(old)

VersionsApart ==
  \A r, s \in Rid : r # s =>
    \A a \in Versions(r), b \in Versions(s) : Apart(a, b)

IInv == TypeOK /\ RowLocks /\ ExemptWrites /\ VersionsApart

-----------------------------------------------------------------------------
(* Facts about rows.                                                       *)

\* The empty entry is not a row and not active.
LEMMA NoRowIsNone ==
  /\ ~ Active(NoRow)
  /\ \A a \in Row : a # NoRow /\ a.status # "none"
BY SMT DEF Active, NoRow, Row, Status

\* A transaction at work is never the idle one.
LEMMA WorkIsBusy ==
  /\ Idle.phase = "idle"
  /\ \A k \in Work : k # Idle /\ k.phase # "idle"
BY SMT DEF Idle, Work

\* Distance is symmetric, so either of two rows may be the new one.
LEMMA ApartSymmetric ==
  ASSUME NEW a \in Row, NEW b \in Row, Apart(a, b)
  PROVE  Apart(b, a)
<1>1. /\ a.win.start \in Int /\ a.win.end \in Int
      /\ b.win.start \in Int /\ b.win.end \in Int
  BY SMT, BookingsAssumption DEF Row
<1>2. Overlap(a.win, b.win) <=> Overlap(b.win, a.win)
  BY SMT, <1>1 DEF Overlap
<1>3. Near(a.win, b.win) <=> Near(b.win, a.win)
  BY SMT, <1>1, BookingsAssumption DEF Near
<1> QED
  BY <1>2, <1>3 DEF Apart, TooClose, GapApplies

\* Distance depends on member, resource and window only.
LEMMA SameBookingSameDistance ==
  ASSUME NEW a, NEW b, NEW c, Booking(a) = Booking(b)
  PROVE  TooClose(a, c) <=> TooClose(b, c)
<1>1. a.user = b.user /\ a.res = b.res /\ a.win = b.win
  BY DEF Booking
<1> QED
  BY <1>1 DEF TooClose, GapApplies

\* The trigger changes nothing but the flag, and keeps a row exempt only if its
\* booking was active and exempt before.
LEMMA EnforceFacts ==
  ASSUME NEW old \in Row \cup {NoRow}, NEW n \in Row
  PROVE  /\ Enforce(old, n) \in Row
         /\ Booking(Enforce(old, n)) = Booking(n)
         /\ Active(Enforce(old, n)) <=> Active(n)
         /\ Active(n) /\ ~ Enforce(old, n).enforced =>
              Active(old) /\ ~ old.enforced /\ Booking(n) = Booking(old)
<1> DEFINE m == Enforce(old, n)
<1>1. m = [n EXCEPT !.enforced = m.enforced]
  BY SMT DEF Enforce, Row
<1>2. m.enforced \in BOOLEAN
  BY SMT DEF Enforce, Row
<1>3. /\ m \in Row /\ m.user = n.user /\ m.res = n.res /\ m.win = n.win
      /\ m.status = n.status
  <2> HIDE DEF m
  <2> QED BY SMT, <1>1, <1>2 DEF Row
<1>4. m.enforced <=> \/ old = NoRow \/ old.enforced \/ Booking(n) # Booking(old)
                     \/ Active(n) /\ ~ Active(old)
  BY SMT DEF Enforce, Row
<1> QED
  BY <1>3, <1>4 DEF Booking, Active

-----------------------------------------------------------------------------
(* Type correctness.                                                       *)

LEMMA NewRowType ==
  ASSUME NEW u \in Member, NEW x \in Resource, NEW w \in Window, NEW st \in Status,
         NEW via \in Via
  PROVE  NewRow(u, x, w, st, via) \in Row
BY SMT DEF NewRow, Row

LEMMA RowStatusType ==
  ASSUME NEW a \in Row, NEW st \in Status
  PROVE  /\ [a EXCEPT !.status = st] \in Row
         /\ [a EXCEPT !.status = st, !.revision = @ + 1] \in Row
<1>1. \A b \in Row : [b EXCEPT !.status = st] \in Row
  BY SMT DEF Row
<1>2. \A b \in Row, k \in Nat : [b EXCEPT !.revision = k] \in Row
  BY SMT DEF Row
<1>3. a.revision + 1 \in Nat
  BY SMT DEF Row
<1>4. [[a EXCEPT !.status = st] EXCEPT !.revision = a.revision + 1] \in Row
  BY Zenon, <1>1, <1>2, <1>3
<1> QED
  BY Zenon, <1>1, <1>4

LEMMA RowEditType ==
  ASSUME NEW a \in Row, NEW u \in Member, NEW x \in Resource, NEW w \in Window,
         NEW st \in Status
  PROVE  /\ [a EXCEPT !.user = u, !.res = x, !.win = w, !.status = st] \in Row
         /\ [a EXCEPT !.user = u, !.res = x, !.win = w, !.status = st,
                      !.revision = @ + 1] \in Row
<1>1. \A b \in Row : [b EXCEPT !.user = u] \in Row /\ [b EXCEPT !.res = x] \in Row
  BY SMT DEF Row
<1>2. \A b \in Row : [b EXCEPT !.win = w] \in Row /\ [b EXCEPT !.status = st] \in Row
  BY SMT DEF Row
<1>3. \A b \in Row, k \in Nat : [b EXCEPT !.revision = k] \in Row
  BY SMT DEF Row
<1>4. a.revision + 1 \in Nat
  BY SMT DEF Row
<1>5. [[[[a EXCEPT !.user = u] EXCEPT !.res = x] EXCEPT !.win = w] EXCEPT !.status = st] \in Row
  BY Zenon, <1>1, <1>2
<1> QED
  BY Zenon, <1>3, <1>4, <1>5

LEMMA StepType ==
  ASSUME TypeOK, NEW p \in Tx, NEW phase \in {"viewing", "checked", "written"},
         NEW kind \in Kind, NEW r \in Rid,
         NEW seen \in Row \cup {NoRow}, NEW n \in Row,
         Step(p, phase, kind, r, seen, n)
  PROVE  tx' \in [Tx -> Work \cup {Idle}]
<1>1. [phase |-> phase, kind |-> kind, rid |-> r, seen |-> seen, row |-> n] \in Work
  BY SMT DEF Work
<1> QED
  BY <1>1 DEF Step, TypeOK

LEMMA SetRowType ==
  ASSUME TypeOK, NEW r \in Rid, NEW n \in Row, SetRow(r, n)
  PROVE  TypeOK'
<1>1. Enforce(rows[r], n) \in Row
  BY EnforceFacts DEF TypeOK
<1> QED
  BY <1>1 DEF SetRow, TypeOK

LEMMA InitType == Init => TypeOK
<1>1. "desk" \in Via /\ FALSE \in BOOLEAN /\ 1 \in Nat
  BY DEF Via
<1>2. LegacyRow \subseteq Row
  BY Zenon, <1>1 DEF LegacyRow, Row
<1> QED
  BY <1>2 DEF Init, TypeOK

\* The table and the transactions keep their types.
LEMMA NextType == TypeOK /\ [Next]_vars => TypeOK'
<1> SUFFICES ASSUME TypeOK, [Next]_vars PROVE TypeOK'
  OBVIOUS
<1>1. CASE UNCHANGED vars
  BY <1>1 DEF vars, TypeOK
<1>2. ASSUME NEW p \in Tx, NEW u \in Member, NEW x \in Resource, NEW w \in Window,
             BeginCreate(p, u, x, w)
      PROVE  TypeOK'
  <2>1. PICK r \in Rid, paid \in BOOLEAN :
          Step(p, "checked", "create", r, NoRow,
               IF paid THEN NewRow(u, x, w, "pending", "card")
                       ELSE NewRow(u, x, w, "confirmed", "desk"))
    BY <1>2 DEF BeginCreate
  <2>2. /\ NewRow(u, x, w, "pending", "card") \in Row
        /\ NewRow(u, x, w, "confirmed", "desk") \in Row
    BY NewRowType DEF Status, Via
  <2> QED
    BY <1>2, <2>1, <2>2, StepType DEF BeginCreate, TypeOK, Kind
<1>3. ASSUME NEW p \in Tx, NEW u \in Member, NEW x \in Resource, NEW w \in Window,
             BeginUpdate(p, u, x, w)
      PROVE  TypeOK'
  <2> DEFINE r == tx[p].rid
             n == [rows[r] EXCEPT !.user = u, !.res = x, !.win = w, !.status = "confirmed",
                                  !.revision = @ + 1]
  <2>1. tx[p] \in Work
    BY <1>3 DEF BeginUpdate, TypeOK, Idle
  <2>2. r \in Rid /\ tx[p].seen \in Row \cup {NoRow}
    BY SMT, <2>1 DEF Work
  <2>3. rows[r] \in Row
    BY <1>3, <2>2, NoRowIsNone DEF BeginUpdate, TypeOK
  <2>4. n \in Row
    BY Zenon, <2>3, RowEditType DEF Status
  <2>5. Step(p, "checked", "edit", r, tx[p].seen, n) /\ UNCHANGED rows
    BY <1>3 DEF BeginUpdate
  <2> QED
    BY <2>2, <2>4, <2>5, StepType DEF TypeOK, Kind
<1>4. ASSUME NEW p \in Tx, NEW u \in Member, NEW x \in Resource, NEW w \in Window,
             BeginClass(p, u, x, w) \/ BeginOverride(p, u, x, w)
      PROVE  TypeOK'
  <2>1. \A via \in Via : NewRow(u, x, w, "confirmed", via) \in Row
    BY NewRowType DEF Status, Via
  <2> QED
    BY <1>4, <2>1, StepType DEF BeginClass, BeginOverride, TypeOK, Via, Kind
<1>5. ASSUME NEW p \in Tx, NEW u \in Member, NEW x \in Resource, NEW w \in Window,
             NEW r \in Rid, NEW st \in Status, SqlWrite(p, r, u, x, w, st)
      PROVE  TypeOK'
  <2> DEFINE n == IF rows[r] = NoRow
                  THEN NewRow(u, x, w, st, "desk")
                  ELSE [rows[r] EXCEPT !.user = u, !.res = x, !.win = w, !.status = st]
  <2>1. n \in Row
    <3>1. CASE rows[r] = NoRow
      BY <3>1, NewRowType DEF Via
    <3>2. CASE rows[r] # NoRow
      <4>1. rows[r] \in Row
        BY <3>2 DEF TypeOK
      <4> QED BY Zenon, <3>2, <4>1, RowEditType
    <3> QED BY <3>1, <3>2
  <2>2. Enforce(rows[r], n) \in Row
    BY <2>1, EnforceFacts DEF TypeOK
  <2>3. Step(p, "written", "sql", r, NoRow, Enforce(rows[r], n)) /\ UNCHANGED rows
    BY <1>5 DEF SqlWrite
  <2> QED
    BY <2>2, <2>3, StepType DEF TypeOK, Kind
<1>6. ASSUME NEW p \in Tx, NEW r \in Rid, ViewReservation(p, r)
      PROVE  TypeOK'
  <2>1. rows[r] \in Row
    BY <1>6 DEF ViewReservation, TypeOK
  <2> QED
    BY <1>6, <2>1, StepType DEF ViewReservation, TypeOK, Kind
<1>7. ASSUME NEW p \in Tx, Write(p)
      PROVE  TypeOK'
  <2>1. tx[p] \in Work
    BY <1>7 DEF Write, TypeOK, Idle
  <2>2. /\ tx[p].rid \in Rid /\ tx[p].row \in Row /\ tx[p].seen \in Row \cup {NoRow}
        /\ tx[p].kind \in Kind
    BY SMT, <2>1 DEF Work
  <2>3. Enforce(rows[tx[p].rid], tx[p].row) \in Row
    BY <2>2, EnforceFacts DEF TypeOK
  <2> QED
    BY <1>7, <2>2, <2>3, StepType DEF Write, TypeOK
<1>8. ASSUME NEW p \in Tx, Commit(p)
      PROVE  TypeOK'
  <2>1. tx[p] \in Work
    BY <1>8 DEF Commit, TypeOK, Idle
  <2>2. tx[p].row \in Row
    BY SMT, <2>1 DEF Work
  <2> QED
    BY <1>8, <2>2 DEF Commit, TypeOK
<1>9. ASSUME NEW p \in Tx, Abort(p)
      PROVE  TypeOK'
  BY <1>9 DEF Abort, TypeOK
<1>10. ASSUME NEW r \in Rid, Cancel(r) \/ Release(r)
       PROVE  TypeOK'
  <2>1. rows[r] \in Row
    BY <1>10, NoRowIsNone DEF Cancel, Release, TypeOK, NoRow
  <2>2. [rows[r] EXCEPT !.status = "cancelled"] \in Row
    BY Zenon, <2>1, RowStatusType DEF Status
  <2> QED
    BY <1>10, <2>2, SetRowType DEF Cancel, Release
<1>11. ASSUME NEW r \in Rid, CancelClass(r) \/ RevokeOverride(r)
       PROVE  TypeOK'
  <2>1. rows[r] \in Row
    BY <1>11, NoRowIsNone DEF CancelClass, RevokeOverride, TypeOK, NoRow
  <2>2. [rows[r] EXCEPT !.status = "cancelled", !.revision = @ + 1] \in Row
    BY Zenon, <2>1, RowStatusType DEF Status
  <2> QED
    BY <1>11, <2>2, SetRowType DEF CancelClass, RevokeOverride
<1>12. ASSUME NEW r \in Rid, Settle(r)
       PROVE  TypeOK'
  <2>1. rows[r] \in Row
    BY <1>12, NoRowIsNone DEF Settle, TypeOK, NoRow
  <2>2. [rows[r] EXCEPT !.status = "confirmed", !.revision = @ + 1] \in Row
    BY Zenon, <2>1, RowStatusType DEF Status
  <2> QED
    BY <1>12, <2>2, SetRowType DEF Settle
<1> QED
  BY <1>1, <1>2, <1>3, <1>4, <1>5, <1>6, <1>7, <1>8, <1>9, <1>10, <1>11, <1>12 DEF Next

\* Every reachable table holds well-formed rows: no writer leaves a status, a
\* revision or a half-built row behind that the others do not know.
THEOREM TypeCorrect == Spec => []TypeOK
BY InitType, NextType, PTL DEF Spec

-----------------------------------------------------------------------------
(* Separation.                                                             *)

\* A write the database accepts is apart from every version of every other
\* booking.  The trigger saw committed rows only; ExemptWrites tells that an
\* exempt version repeats one of those.
LEMMA AcceptedIsApart ==
  ASSUME IInv, NEW r \in Rid, NEW n \in Row, DbClear(r, Enforce(rows[r], n)),
         NEW s \in Rid \ {r}, NEW b \in Versions(s)
  PROVE  Apart(Enforce(rows[r], n), b)
<1> DEFINE m == Enforce(rows[r], n)
<1>1. /\ Booking(m) = Booking(n)
      /\ Active(m) /\ ~ m.enforced =>
           Active(rows[r]) /\ ~ rows[r].enforced /\ Booking(m) = Booking(rows[r])
  BY EnforceFacts DEF IInv, TypeOK
<1>2. TriggerClear(r, m) /\ ExclusionClear(r, m)
  BY DEF DbClear
<1>3. Active(b) /\ ~ b.enforced =>
        Active(rows[s]) /\ ~ rows[s].enforced /\ Booking(b) = Booking(rows[s])
  BY DEF Versions, IInv, ExemptWrites
<1>4. rows[r] \in Versions(r) /\ r # s
  BY DEF Versions
<1> HIDE DEF m
<1> SUFFICES ASSUME Active(m), Active(b)
             PROVE  /\ m.res = b.res => ~ Overlap(m.win, b.win)
                    /\ m.enforced \/ b.enforced => ~ TooClose(m, b)
  BY DEF Apart, m
<1>5. m.res = b.res => ~ Overlap(m.win, b.win)
  BY <1>2 DEF ExclusionClear
<1>6. CASE m.res # b.res
  BY <1>5, <1>6 DEF TooClose
<1>7. CASE m.res = b.res /\ m.enforced /\ b.enforced
  BY <1>2, <1>5, <1>7 DEF ExclusionClear
<1>8. CASE m.res = b.res /\ m.enforced /\ ~ b.enforced
  <2>1. ~ TooClose(m, rows[s])
    BY <1>2, <1>3, <1>8 DEF TriggerClear
  <2>2. b.user = rows[s].user /\ b.res = rows[s].res /\ b.win = rows[s].win
    BY <1>3, <1>8 DEF Booking
  <2> QED
    BY <1>5, <2>1, <2>2 DEF TooClose, GapApplies
<1>9. CASE m.res = b.res /\ ~ m.enforced /\ b.enforced
  <2>1. Apart(rows[r], b)
    BY <1>4 DEF IInv, VersionsApart
  <2>2. ~ TooClose(rows[r], b)
    BY <1>1, <1>9, <2>1 DEF Apart
  <2> QED
    BY <1>1, <1>5, <1>9, <2>2, SameBookingSameDistance
<1>10. CASE m.res = b.res /\ ~ m.enforced /\ ~ b.enforced
  BY <1>5, <1>10
<1> QED
  BY <1>6, <1>7, <1>8, <1>9, <1>10

\* Every version of a booking is an ordinary row or the empty entry.
LEMMA VersionType ==
  ASSUME TypeOK, NEW r \in Rid, NEW a \in Versions(r)
  PROVE  a \in Row \cup {NoRow}
<1>1. CASE a = rows[r]
  BY <1>1 DEF TypeOK
<1>2. ASSUME NEW p \in Tx, tx[p].phase = "written", a = tx[p].row PROVE a \in Row
  <2>1. tx[p] \in Work
    BY <1>2 DEF TypeOK, Idle
  <2> QED
    BY SMT, <1>2, <2>1 DEF Work
<1> QED
  BY <1>1, <1>2 DEF Versions

\* Separation survives a step that adds one accepted version, and a step that
\* adds none.
LEMMA AcceptedKeepsApart ==
  ASSUME IInv, NEW r \in Rid, NEW n \in Row, DbClear(r, Enforce(rows[r], n)),
         \A t \in Rid \ {r} : Versions(t)' \subseteq Versions(t),
         Versions(r)' \subseteq Versions(r) \cup {Enforce(rows[r], n)}
  PROVE  VersionsApart'
<1> DEFINE m == Enforce(rows[r], n)
<1>1. m \in Row
  BY EnforceFacts DEF IInv, TypeOK
<1>2. ASSUME NEW s \in Rid \ {r}, NEW b \in Versions(s)
      PROVE  Apart(m, b) /\ Apart(b, m)
  <2>1. Apart(m, b)
    BY AcceptedIsApart
  <2>2. b \in Row \cup {NoRow}
    BY VersionType DEF IInv
  <2>3. CASE b = NoRow
    BY <2>3, NoRowIsNone DEF Apart
  <2>4. CASE b \in Row
    BY <1>1, <2>1, <2>4, ApartSymmetric
  <2> QED
    BY <2>1, <2>2, <2>3, <2>4
<1> HIDE DEF m
<1>3. SUFFICES ASSUME NEW s \in Rid, NEW t \in Rid, s # t,
                      NEW a \in Versions(s)', NEW b \in Versions(t)'
               PROVE  Apart(a, b)
  BY DEF VersionsApart, Apart
<1>4. CASE a \in Versions(s) /\ b \in Versions(t)
  BY <1>3, <1>4 DEF IInv, VersionsApart
<1>5. CASE a \notin Versions(s)
  <2>1. s = r /\ a = m
    BY <1>5 DEF m
  <2> QED
    BY <1>2, <1>3, <2>1
<1>6. CASE b \notin Versions(t)
  <2>1. t = r /\ b = m
    BY <1>6 DEF m
  <2> QED
    BY <1>2, <1>3, <2>1
<1> QED
  BY <1>4, <1>5, <1>6

LEMMA NoNewVersionKeepsApart ==
  ASSUME IInv, \A t \in Rid : Versions(t)' \subseteq Versions(t)
  PROVE  VersionsApart'
BY DEF IInv, VersionsApart, Apart

\* What each kind of step does to the locks and the versions.

\* A transaction that writes a row it has locked, or locks by writing it.
LEMMA WriteStep ==
  ASSUME IInv, NEW p \in Tx, NEW kind \in Kind,
         NEW r \in Rid, NEW seen, NEW n \in Row,
         RowFree(r) \/ (InFlight(p) /\ tx[p].rid = r),
         tx[p].phase # "written",
         DbClear(r, Enforce(rows[r], n)),
         Step(p, "written", kind, r, seen, Enforce(rows[r], n)),
         UNCHANGED rows
  PROVE  RowLocks' /\ ExemptWrites' /\ VersionsApart'
<1> DEFINE m == Enforce(rows[r], n)
<1>1. /\ tx'[p].phase = "written" /\ tx'[p].rid = r /\ tx'[p].row = m
      /\ \A q \in Tx \ {p} : tx'[q] = tx[q]
  BY DEF Step, IInv, TypeOK
<1>2. /\ Booking(m) = Booking(n)
      /\ Active(m) /\ ~ m.enforced =>
           Active(rows[r]) /\ ~ rows[r].enforced /\ Booking(m) = Booking(rows[r])
  BY EnforceFacts DEF IInv, TypeOK
<1>3. \A t \in Rid \ {r} : Versions(t)' \subseteq Versions(t)
  BY <1>1 DEF Versions
<1>4. Versions(r)' \subseteq Versions(r) \cup {m}
  BY <1>1 DEF Versions
<1>5. VersionsApart'
  BY <1>3, <1>4, AcceptedKeepsApart
<1> HIDE DEF m
<1>6. \A q \in Tx \ {p} : InFlight(q) => tx[q].rid # r
  BY DEF RowFree, IInv, RowLocks
<1>7. RowLocks'
  BY <1>1, <1>6 DEF RowLocks, InFlight, IInv
<1>8. ExemptWrites'
  BY <1>1, <1>2 DEF ExemptWrites, IInv, Active, Booking
<1> QED
  BY <1>5, <1>7, <1>8

\* A transaction that has only viewed, or locked and checked.
LEMMA BeginStep ==
  ASSUME IInv, NEW p \in Tx, NEW phase \in {"viewing", "checked"}, NEW kind,
         NEW r \in Rid, NEW seen, NEW n,
         tx[p].phase \notin {"checked", "written"},
         phase = "checked" => RowFree(r),
         Step(p, phase, kind, r, seen, n),
         UNCHANGED rows
  PROVE  RowLocks' /\ ExemptWrites' /\ VersionsApart'
<1>1. /\ tx'[p].phase = phase /\ tx'[p].rid = r
      /\ \A q \in Tx \ {p} : tx'[q] = tx[q]
  BY DEF Step, IInv, TypeOK
<1>2. \A t \in Rid : Versions(t)' \subseteq Versions(t)
  BY <1>1 DEF Versions
<1>3. VersionsApart'
  BY <1>2, NoNewVersionKeepsApart
<1>4. RowLocks'
  BY <1>1 DEF RowLocks, InFlight, IInv, RowFree
<1>5. ExemptWrites'
  BY <1>1 DEF ExemptWrites, IInv
<1> QED
  BY <1>3, <1>4, <1>5

\* A statement that changes a row nobody has locked.
LEMMA SetRowStep ==
  ASSUME IInv, NEW r \in Rid, NEW n \in Row, SetRow(r, n)
  PROVE  RowLocks' /\ ExemptWrites' /\ VersionsApart'
<1> DEFINE m == Enforce(rows[r], n)
<1>1. /\ rows' = [rows EXCEPT ![r] = m] /\ UNCHANGED tx
      /\ DbClear(r, m) /\ RowFree(r)
  BY DEF SetRow
<1> HIDE DEF m
<1>2. rows'[r] = m /\ \A t \in Rid \ {r} : rows'[t] = rows[t]
  BY <1>1 DEF IInv, TypeOK
<1>3. \A t \in Rid \ {r} : Versions(t)' \subseteq Versions(t)
  BY <1>1, <1>2 DEF Versions
<1>4. Versions(r)' \subseteq Versions(r) \cup {m}
  BY <1>1, <1>2 DEF Versions
<1>5. VersionsApart'
  BY <1>1, <1>3, <1>4, AcceptedKeepsApart DEF m
<1>6. RowLocks'
  BY <1>1 DEF RowLocks, InFlight, IInv
<1>7. ExemptWrites'
  <2> SUFFICES ASSUME NEW p \in Tx, tx[p].phase = "written"
               PROVE  rows'[tx[p].rid] = rows[tx[p].rid]
    BY <1>1 DEF ExemptWrites, IInv, Active, Booking
  <2>1. tx[p].rid \in Rid
    BY SMT, WorkIsBusy DEF IInv, TypeOK, Work
  <2>2. tx[p].rid # r
    BY <1>1 DEF RowFree, InFlight
  <2> QED
    BY <1>2, <2>1, <2>2
<1> QED
  BY <1>5, <1>6, <1>7

LEMMA CommitStep ==
  ASSUME IInv, NEW p \in Tx, Commit(p)
  PROVE  RowLocks' /\ ExemptWrites' /\ VersionsApart'
<1>1. PICK r \in Rid : tx[p].rid = r
  BY SMT, WorkIsBusy DEF IInv, TypeOK, Work, Commit
<1>2. /\ rows'[r] = tx[p].row /\ \A t \in Rid \ {r} : rows'[t] = rows[t]
      /\ tx'[p] = Idle /\ \A q \in Tx \ {p} : tx'[q] = tx[q]
      /\ tx[p].phase = "written"
  BY <1>1 DEF Commit, IInv, TypeOK
<1>3. \A q \in Tx \ {p} : InFlight(q) => tx[q].rid # r
  BY <1>1, <1>2 DEF IInv, RowLocks, InFlight
<1>4. Versions(r)' \subseteq Versions(r)
  BY <1>1, <1>2, WorkIsBusy DEF Versions
<1>5. \A t \in Rid \ {r} : Versions(t)' \subseteq Versions(t)
  BY <1>2, WorkIsBusy DEF Versions
<1>6. VersionsApart'
  BY <1>4, <1>5, NoNewVersionKeepsApart
<1>7. RowLocks'
  BY <1>2, WorkIsBusy DEF RowLocks, InFlight, IInv
<1>8. ExemptWrites'
  <2> SUFFICES ASSUME NEW q \in Tx, tx'[q].phase = "written"
               PROVE  q # p /\ rows'[tx[q].rid] = rows[tx[q].rid]
    BY <1>2 DEF ExemptWrites, IInv, Active, Booking
  <2>1. q # p
    BY <1>2, WorkIsBusy
  <2>2. tx[q].rid \in Rid
    BY SMT, <1>2, <2>1, WorkIsBusy DEF IInv, TypeOK, Work
  <2>3. tx[q].rid # r
    BY <1>2, <1>3, <2>1 DEF InFlight
  <2> QED
    BY <1>2, <2>1, <2>2, <2>3
<1> QED
  BY <1>6, <1>7, <1>8

LEMMA AbortStep ==
  ASSUME IInv, NEW p \in Tx, Abort(p)
  PROVE  RowLocks' /\ ExemptWrites' /\ VersionsApart'
<1>1. /\ tx'[p] = Idle /\ \A q \in Tx \ {p} : tx'[q] = tx[q]
      /\ UNCHANGED rows
  BY DEF Abort, IInv, TypeOK
<1>2. \A t \in Rid : Versions(t)' \subseteq Versions(t)
  BY <1>1, WorkIsBusy DEF Versions
<1> QED
  BY <1>1, <1>2, NoNewVersionKeepsApart, WorkIsBusy
     DEF RowLocks, InFlight, ExemptWrites, IInv

LEMMA InitApart == Init => IInv
<1> SUFFICES ASSUME Init PROVE IInv
  OBVIOUS
<1>1. TypeOK
  BY InitType
<1>2. \A p \in Tx : tx[p] = Idle /\ ~ InFlight(p) /\ tx[p].phase # "written"
  BY WorkIsBusy DEF Init, InFlight
<1>3. \A r \in Rid : Versions(r) = {rows[r]}
  BY <1>2 DEF Versions
<1>4. \A r \in Rid : Active(rows[r]) => ~ rows[r].enforced
  <2>1. \A r \in Rid : rows[r] \in LegacyRow \/ rows[r] = NoRow
    BY DEF Init
  <2>2. \A a \in LegacyRow : a.enforced \in {FALSE}
    BY Zenon DEF LegacyRow
  <2> QED
    BY <2>1, <2>2, NoRowIsNone
<1>5. VersionsApart
  <2> SUFFICES ASSUME NEW r \in Rid, NEW s \in Rid, r # s
               PROVE  Apart(rows[r], rows[s])
    BY <1>3 DEF VersionsApart
  <2> QED
    BY <1>4 DEF Apart, Init
<1>6. RowLocks /\ ExemptWrites
  BY <1>2 DEF RowLocks, ExemptWrites
<1> QED
  BY <1>1, <1>5, <1>6 DEF IInv

LEMMA NextApart == IInv /\ [Next]_vars => IInv'
<1> SUFFICES ASSUME IInv, [Next]_vars PROVE IInv'
  OBVIOUS
<1> DEFINE Rest == RowLocks' /\ ExemptWrites' /\ VersionsApart'
<1>1. TypeOK'
  BY NextType DEF IInv
<1>2. CASE UNCHANGED vars
  BY <1>1, <1>2 DEF vars, IInv, RowLocks, ExemptWrites, VersionsApart, Versions, InFlight
<1>3. ASSUME NEW p \in Tx, NEW u \in Member, NEW x \in Resource, NEW w \in Window,
             \/ BeginCreate(p, u, x, w) \/ BeginClass(p, u, x, w) \/ BeginOverride(p, u, x, w)
      PROVE  Rest
  <2>1. PICK r \in Rid, kind \in {"create", "class", "override"}, n \in {tx'[p].row} :
          Unused(r) /\ Step(p, "checked", kind, r, NoRow, n)
    BY <1>3 DEF BeginCreate, BeginClass, BeginOverride, Step, IInv, TypeOK
  <2>2. tx[p] = Idle /\ UNCHANGED rows
    BY <1>3 DEF BeginCreate, BeginClass, BeginOverride
  <2>3. RowFree(r)
    BY <2>1, WorkIsBusy DEF Unused, RowFree, InFlight
  <2> QED
    BY <2>1, <2>2, <2>3, BeginStep, WorkIsBusy
<1>4. ASSUME NEW p \in Tx, NEW u \in Member, NEW x \in Resource, NEW w \in Window,
             BeginUpdate(p, u, x, w)
      PROVE  Rest
  <2>1. tx[p].rid \in Rid
    BY SMT, <1>4, WorkIsBusy DEF BeginUpdate, IInv, TypeOK, Work
  <2> QED
    BY <1>4, <2>1, BeginStep DEF BeginUpdate
<1>5. ASSUME NEW p \in Tx, NEW r \in Rid, ViewReservation(p, r)
      PROVE  Rest
  BY <1>5, BeginStep, WorkIsBusy DEF ViewReservation
<1>6. ASSUME NEW p \in Tx, NEW u \in Member, NEW x \in Resource, NEW w \in Window,
             NEW r \in Rid, NEW st \in Status, SqlWrite(p, r, u, x, w, st)
      PROVE  Rest
  <2> DEFINE n == IF rows[r] = NoRow
                  THEN NewRow(u, x, w, st, "desk")
                  ELSE [rows[r] EXCEPT !.user = u, !.res = x, !.win = w, !.status = st]
  <2>1. n \in Row
    <3>1. CASE rows[r] = NoRow
      BY <3>1, NewRowType DEF Via
    <3>2. CASE rows[r] # NoRow
      BY Zenon, <3>2, RowEditType DEF IInv, TypeOK
    <3> QED BY <3>1, <3>2
  <2> HIDE DEF n
  <2>2. /\ RowFree(r) /\ DbClear(r, Enforce(rows[r], n)) /\ UNCHANGED rows /\ tx[p] = Idle
        /\ Step(p, "written", "sql", r, NoRow, Enforce(rows[r], n))
    BY <1>6 DEF SqlWrite, n
  <2> QED
    BY <2>1, <2>2, WriteStep, WorkIsBusy DEF Kind
<1>7. ASSUME NEW p \in Tx, Write(p)
      PROVE  Rest
  <2>1. tx[p].rid \in Rid /\ tx[p].row \in Row /\ tx[p].kind \in Kind
    BY SMT, <1>7, WorkIsBusy DEF Write, IInv, TypeOK, Work
  <2> QED
    BY <1>7, <2>1, WriteStep DEF Write, InFlight
<1>8. ASSUME NEW r \in Rid, Cancel(r) \/ CancelClass(r) \/ RevokeOverride(r) \/ Settle(r) \/ Release(r)
      PROVE  Rest
  <2>1. rows[r] \in Row
    BY <1>8, NoRowIsNone DEF Cancel, CancelClass, RevokeOverride, Settle, Release, IInv, TypeOK, NoRow
  <2>2. "cancelled" \in Status /\ "confirmed" \in Status
    BY DEF Status
  <2>3. PICK n \in Row : SetRow(r, n)
    BY Zenon, <1>8, <2>1, <2>2, RowStatusType DEF Cancel, CancelClass, RevokeOverride, Settle, Release
  <2> QED
    BY <2>3, SetRowStep
<1> QED
  BY <1>1, <1>2, <1>3, <1>4, <1>5, <1>6, <1>7, <1>8, CommitStep, AbortStep DEF Next, IInv

\* Two active bookings of one machine or room never overlap and, unless both
\* were grandfathered, keep the cooldown: the database's constraints and trigger
\* suffice, whoever writes and however the transactions interleave.
THEOREM ApartAlways == Spec => []BookingsApart
<1>1. IInv => BookingsApart
  BY DEF IInv, VersionsApart, Versions, Apart, BookingsApart
<1> QED
  BY <1>1, InitApart, NextApart, PTL DEF Spec

-----------------------------------------------------------------------------
(* The exemption only ends.                                                *)

ExemptOnlyEnds(r) ==
  Active(rows'[r]) /\ ~ rows'[r].enforced =>
    Active(rows[r]) /\ ~ rows[r].enforced /\ Booking(rows'[r]) = Booking(rows[r])

LEMMA StepEndsExemption ==
  ASSUME IInv, [Next]_vars, NEW r \in Rid
  PROVE  ExemptOnlyEnds(r)
<1>1. CASE rows'[r] = rows[r]
  BY <1>1 DEF ExemptOnlyEnds, Booking
<1>2. ASSUME NEW p \in Tx, Commit(p)
      PROVE  ExemptOnlyEnds(r)
  <2>1. CASE tx[p].rid = r
    <3>1. rows'[r] = tx[p].row /\ tx[p].phase = "written"
      BY <1>2, <2>1 DEF Commit, IInv, TypeOK
    <3> QED
      BY <2>1, <3>1 DEF IInv, ExemptWrites, ExemptOnlyEnds
  <2>2. CASE tx[p].rid # r
    BY <1>1, <1>2, <2>2 DEF Commit, IInv, TypeOK
  <2> QED
    BY <2>1, <2>2
<1>3. ASSUME NEW s \in Rid, Cancel(s) \/ CancelClass(s) \/ RevokeOverride(s) \/ Settle(s) \/ Release(s)
      PROVE  ExemptOnlyEnds(r)
  <2>1. rows[s] \in Row
    BY <1>3, NoRowIsNone DEF Cancel, CancelClass, RevokeOverride, Settle, Release, IInv, TypeOK, NoRow
  <2>2. "cancelled" \in Status /\ "confirmed" \in Status
    BY DEF Status
  <2>3. PICK n \in Row : SetRow(s, n)
    BY Zenon, <1>3, <2>1, <2>2, RowStatusType DEF Cancel, CancelClass, RevokeOverride, Settle, Release
  <2>4. CASE s = r
    <3>1. rows'[r] = Enforce(rows[r], n)
      BY <2>3, <2>4 DEF SetRow, IInv, TypeOK
    <3> QED
      BY <2>1, <2>4, <3>1, EnforceFacts DEF ExemptOnlyEnds
  <2>5. CASE s # r
    BY <1>1, <2>3, <2>5 DEF SetRow, IInv, TypeOK
  <2> QED
    BY <2>4, <2>5
<1>4. ASSUME NEW p \in Tx, NEW u \in Member, NEW x \in Resource, NEW w \in Window,
             \/ BeginCreate(p, u, x, w) \/ BeginUpdate(p, u, x, w)
             \/ BeginClass(p, u, x, w) \/ BeginOverride(p, u, x, w)
             \/ \E s \in Rid, st \in Status : SqlWrite(p, s, u, x, w, st)
      PROVE  rows' = rows
  BY <1>4 DEF BeginCreate, BeginUpdate, BeginClass, BeginOverride, SqlWrite
<1>5. ASSUME NEW p \in Tx, Write(p) \/ Abort(p) \/ \E s \in Rid : ViewReservation(p, s)
      PROVE  rows' = rows
  BY <1>5 DEF Write, Abort, ViewReservation
<1>6. CASE UNCHANGED vars
  BY <1>1, <1>6 DEF vars
<1> QED
  BY <1>1, <1>2, <1>3, <1>4, <1>5, <1>6 DEF Next

\* No writer introduces an active row exempt from the cooldown: only the rows
\* the migration grandfathered are, as long as nobody moves them.
THEOREM ExemptionEnds == Spec => NoNewExemptBlocker
<1>1. IInv /\ [Next]_vars => \A r \in Rid : ExemptOnlyEnds(r)
  BY StepEndsExemption
<1> QED
  BY <1>1, InitApart, NextApart, PTL DEF Spec, NoNewExemptBlocker, ExemptOnlyEnds

-----------------------------------------------------------------------------
(* What the service checked under the resource lock.                       *)

\* The resource lock is exclusive, and nothing but a write under it can put an
\* active row on the resource: what a transaction found clear stays clear.
ResourceLocks ==
  \A p, q \in Tx : p # q /\ InFlight(p) /\ InFlight(q) => tx[p].row.res # tx[q].row.res

CheckedClear ==
  \A p \in Tx :
    tx[p].phase = "checked" /\ tx[p].kind \in {"create", "edit"} =>
      ServiceClear(tx[p].rid, tx[p].row)

NoSql == \A p \in Tx : InFlight(p) => tx[p].kind # "sql"

SInv == IInv /\ ResourceLocks /\ CheckedClear /\ NoSql

\* A statement keeps a row's booking and brings none back to life.
LEMMA StatementKeepsBooking ==
  ASSUME TypeOK, NEW r \in Rid, Cancel(r) \/ CancelClass(r) \/ RevokeOverride(r) \/ Settle(r) \/ Release(r)
  PROVE  /\ RowFree(r) /\ UNCHANGED tx
         /\ \A s \in Rid \ {r} : rows'[s] = rows[s]
         /\ Active(rows'[r]) => Active(rows[r])
         /\ Booking(rows'[r]) = Booking(rows[r])
<1>1. rows[r] \in Row
  BY NoRowIsNone DEF Cancel, CancelClass, RevokeOverride, Settle, Release, TypeOK, NoRow
<1>2. "cancelled" \in Status /\ "confirmed" \in Status
  BY DEF Status
<1>3. \A a \in Row, st \in Status :
        /\ [a EXCEPT !.status = st].status = st
        /\ Booking([a EXCEPT !.status = st]) = Booking(a)
  BY SMT DEF Row, Booking
<1>4. \A a \in Row, k \in Nat :
        /\ [a EXCEPT !.revision = k].status = a.status
        /\ Booking([a EXCEPT !.revision = k]) = Booking(a)
  BY SMT DEF Row, Booking
<1>5. rows[r].revision + 1 \in Nat
  BY SMT, <1>1 DEF Row
<1>6. ASSUME NEW st \in Status
      PROVE  LET n == [[rows[r] EXCEPT !.status = st] EXCEPT !.revision = rows[r].revision + 1]
             IN  n.status = st /\ Booking(n) = Booking(rows[r])
  <2> DEFINE b == [rows[r] EXCEPT !.status = st]
  <2>1. b \in Row
    BY Zenon, <1>1, RowStatusType
  <2>2. b.status = st /\ Booking(b) = Booking(rows[r])
    BY Zenon, <1>1, <1>3
  <2> HIDE DEF b
  <2>3. /\ [b EXCEPT !.revision = rows[r].revision + 1].status = b.status
        /\ Booking([b EXCEPT !.revision = rows[r].revision + 1]) = Booking(b)
    BY Zenon, <1>4, <1>5, <2>1
  <2> QED
    BY <2>2, <2>3 DEF b
<1>7. PICK n \in Row : /\ SetRow(r, n) /\ Booking(n) = Booking(rows[r])
                       /\ Active(n) => Active(rows[r])
  <2>1. CASE Settle(r)
    <3>1. Active(rows[r])
      BY <2>1 DEF Settle, Active
    <3> QED
      BY Zenon, <1>1, <1>2, <1>6, <2>1, <3>1, RowStatusType DEF Settle
  <2>2. CASE CancelClass(r) \/ RevokeOverride(r)
    <3>1. ~ Active([[rows[r] EXCEPT !.status = "cancelled"]
                       EXCEPT !.revision = rows[r].revision + 1])
      BY <1>2, <1>6 DEF Active
    <3> QED
      BY Zenon, <1>1, <1>2, <1>6, <2>2, <3>1, RowStatusType DEF CancelClass, RevokeOverride
  <2>3. CASE Cancel(r) \/ Release(r)
    <3>1. ~ Active([rows[r] EXCEPT !.status = "cancelled"])
      BY <1>1, <1>2, <1>3 DEF Active
    <3> QED
      BY Zenon, <1>1, <1>2, <1>3, <2>3, <3>1, RowStatusType DEF Cancel, Release
  <2> QED
    BY <2>1, <2>2, <2>3
<1>8. rows'[r] = Enforce(rows[r], n) /\ \A s \in Rid \ {r} : rows'[s] = rows[s]
  BY <1>7 DEF SetRow, TypeOK
<1> QED
  BY <1>1, <1>7, <1>8, EnforceFacts DEF SetRow

LEMMA InitClear == Init => SInv
BY InitApart, WorkIsBusy DEF Init, SInv, ResourceLocks, CheckedClear, NoSql, InFlight

\* Two versions on different resources are never too close.
LEMMA ClearTransfers ==
  ASSUME NEW r \in Rid, NEW n, NEW m, Booking(m) = Booking(n), ServiceClear(r, n)
  PROVE  ServiceClear(r, m)
BY SameBookingSameDistance DEF ServiceClear

\* A transaction that takes a free resource, with the locks of its row.
LEMMA TakeResource ==
  ASSUME SInv, NEW p \in Tx, NEW kind \in {"create", "edit", "class", "override"}, NEW r \in Rid,
         NEW seen, NEW n, ResourceFree(n.res),
         kind \in {"create", "edit"} => ServiceClear(r, n),
         Step(p, "checked", kind, r, seen, n), UNCHANGED rows
  PROVE  ResourceLocks' /\ CheckedClear' /\ NoSql'
<1>1. /\ tx'[p].phase = "checked" /\ tx'[p].kind = kind /\ tx'[p].rid = r /\ tx'[p].row = n
      /\ \A q \in Tx \ {p} : tx'[q] = tx[q]
  BY DEF Step, SInv, IInv, TypeOK
<1>2. \A q \in Tx : InFlight(q) => tx[q].row.res # n.res
  BY DEF ResourceFree, SInv, NoSql
<1>3. ResourceLocks'
  BY <1>1, <1>2 DEF ResourceLocks, SInv, InFlight
<1>4. CheckedClear'
  BY <1>1 DEF CheckedClear, SInv, ServiceClear
<1>5. NoSql'
  BY <1>1 DEF NoSql, SInv, InFlight
<1> QED
  BY <1>3, <1>4, <1>5

\* A transaction that holds no lock any more, or never held one.
LEMMA LetGo ==
  ASSUME SInv, NEW p \in Tx, tx'[p].phase \notin {"checked", "written"},
         \A q \in Tx \ {p} : tx'[q] = tx[q],
         \A q \in Tx \ {p} : tx[q].phase = "checked" =>
           \A s \in Rid : rows'[s] = rows[s] \/ rows'[s].res # tx[q].row.res
  PROVE  ResourceLocks' /\ CheckedClear' /\ NoSql'
<1>1. ResourceLocks'
  BY DEF ResourceLocks, SInv, InFlight
<1>2. CheckedClear'
  BY DEF CheckedClear, SInv, ServiceClear, TooClose
<1>3. NoSql'
  BY DEF NoSql, SInv, InFlight
<1> QED
  BY <1>1, <1>2, <1>3

LEMMA NextClear == SqlTx = {} /\ SInv /\ [Next]_vars => SInv'
<1> SUFFICES ASSUME SqlTx = {}, SInv, [Next]_vars PROVE SInv'
  OBVIOUS
<1> DEFINE Rest == ResourceLocks' /\ CheckedClear' /\ NoSql'
<1>1. IInv'
  BY NextApart DEF SInv
<1>2. CASE UNCHANGED vars
  BY <1>1, <1>2 DEF vars, SInv, ResourceLocks, CheckedClear, NoSql, InFlight, ServiceClear
<1>3. ASSUME NEW p \in Tx, NEW u \in Member, NEW x \in Resource, NEW w \in Window,
             \/ BeginCreate(p, u, x, w) \/ BeginClass(p, u, x, w) \/ BeginOverride(p, u, x, w)
      PROVE  Rest
  <2>1. /\ NewRow(u, x, w, "pending", "card").res = x
        /\ NewRow(u, x, w, "confirmed", "desk").res = x
        /\ NewRow(u, x, w, "confirmed", "class").res = x
        /\ NewRow(u, x, w, "confirmed", "override").res = x
    BY DEF NewRow
  <2>2. PICK r \in Rid, kind \in {"create", "class", "override"}, n \in {tx'[p].row} :
          /\ n.res = x
          /\ kind \in {"create", "edit"} => ServiceClear(r, n)
          /\ Step(p, "checked", kind, r, NoRow, n)
    BY <1>3, <2>1 DEF BeginCreate, BeginClass, BeginOverride, Step, SInv, IInv, TypeOK
  <2>3. ResourceFree(x) /\ UNCHANGED rows
    BY <1>3 DEF BeginCreate, BeginClass, BeginOverride
  <2> QED
    BY <2>2, <2>3, TakeResource
<1>4. ASSUME NEW p \in Tx, NEW u \in Member, NEW x \in Resource, NEW w \in Window,
             BeginUpdate(p, u, x, w)
      PROVE  Rest
  <2>1. tx[p].rid \in Rid
    BY SMT, <1>4, WorkIsBusy DEF BeginUpdate, SInv, IInv, TypeOK, Work
  <2>2. rows[tx[p].rid] \in Row
    BY <1>4, <2>1, NoRowIsNone DEF BeginUpdate, SInv, IInv, TypeOK
  <2>3. PICK n : /\ n.res = x /\ ServiceClear(tx[p].rid, n)
                 /\ Step(p, "checked", "edit", tx[p].rid, tx[p].seen, n)
    <3> DEFINE n == [rows[tx[p].rid] EXCEPT !.user = u, !.res = x, !.win = w,
                                            !.status = "confirmed", !.revision = @ + 1]
    <3>1. \A a \in Row, v \in Nat :
            [[[[[a EXCEPT !.user = u] EXCEPT !.res = x] EXCEPT !.win = w]
                EXCEPT !.status = "confirmed"] EXCEPT !.revision = v].res = x
      BY SMT DEF Row
    <3>2. rows[tx[p].rid].revision + 1 \in Nat
      BY SMT, <2>2 DEF Row
    <3>3. n.res = x
      BY Zenon, <2>2, <3>1, <3>2
    <3>4. ServiceClear(tx[p].rid, n) /\ Step(p, "checked", "edit", tx[p].rid, tx[p].seen, n)
      BY <1>4 DEF BeginUpdate
    <3> QED
      BY <3>3, <3>4
  <2> QED
    BY <1>4, <2>1, <2>3, TakeResource DEF BeginUpdate
<1>5. ASSUME NEW p \in Tx, NEW r \in Rid, ViewReservation(p, r)
      PROVE  Rest
  <2>1. /\ tx'[p].phase = "viewing" /\ UNCHANGED rows
        /\ \A q \in Tx \ {p} : tx'[q] = tx[q]
    BY <1>5 DEF ViewReservation, Step, SInv, IInv, TypeOK
  <2> QED
    BY <2>1, LetGo
<1>6. ASSUME NEW p \in Tx, Write(p)
      PROVE  Rest
  <2>1. tx[p].row \in Row /\ tx[p].rid \in Rid
    BY SMT, <1>6, WorkIsBusy DEF Write, SInv, IInv, TypeOK, Work
  <2>2. Enforce(rows[tx[p].rid], tx[p].row).res = tx[p].row.res
    BY <2>1, EnforceFacts DEF Booking, SInv, IInv, TypeOK
  <2>3. /\ tx'[p].phase = "written" /\ tx'[p].kind = tx[p].kind
        /\ tx'[p].row.res = tx[p].row.res /\ UNCHANGED rows /\ InFlight(p)
        /\ \A q \in Tx \ {p} : tx'[q] = tx[q]
    BY <1>6, <2>2 DEF Write, Step, InFlight, SInv, IInv, TypeOK
  <2>4. ResourceLocks'
    BY <2>3 DEF ResourceLocks, SInv, InFlight
  <2>5. CheckedClear'
    BY <2>3 DEF CheckedClear, SInv, ServiceClear
  <2>6. NoSql'
    BY <2>3 DEF NoSql, SInv, InFlight
  <2> QED
    BY <2>4, <2>5, <2>6
<1>7. ASSUME NEW p \in Tx, Commit(p)
      PROVE  Rest
  <2>1. /\ tx'[p] = Idle /\ \A q \in Tx \ {p} : tx'[q] = tx[q]
        /\ \A s \in Rid : rows'[s] = rows[s] \/ rows'[s] = tx[p].row
    BY <1>7 DEF Commit, SInv, IInv, TypeOK
  <2>2. \A q \in Tx \ {p} : tx[q].phase = "checked" => tx[q].row.res # tx[p].row.res
    BY <1>7 DEF Commit, SInv, ResourceLocks, InFlight
  <2> QED
    BY <2>1, <2>2, LetGo, WorkIsBusy
<1>8. ASSUME NEW p \in Tx, Abort(p)
      PROVE  Rest
  <2>1. /\ tx'[p] = Idle /\ UNCHANGED rows /\ \A q \in Tx \ {p} : tx'[q] = tx[q]
    BY <1>8 DEF Abort, SInv, IInv, TypeOK
  <2> QED
    BY <2>1, LetGo, WorkIsBusy
<1>9. ASSUME NEW r \in Rid, Cancel(r) \/ CancelClass(r) \/ RevokeOverride(r) \/ Settle(r) \/ Release(r)
      PROVE  Rest
  <2>1. /\ RowFree(r) /\ UNCHANGED tx
        /\ \A s \in Rid \ {r} : rows'[s] = rows[s]
        /\ Active(rows'[r]) => Active(rows[r])
        /\ Booking(rows'[r]) = Booking(rows[r])
    BY <1>9, StatementKeepsBooking DEF SInv, IInv
  <2>2. \A n : TooClose(n, rows'[r]) <=> TooClose(n, rows[r])
    BY <2>1 DEF Booking, TooClose, GapApplies
  <2>3. CheckedClear'
    BY <2>1, <2>2 DEF CheckedClear, SInv, ServiceClear
  <2>4. ResourceLocks' /\ NoSql'
    BY <2>1 DEF ResourceLocks, NoSql, SInv, InFlight
  <2> QED
    BY <2>3, <2>4
<1>10. ~ \E p \in Tx, u \in Member, x \in Resource, w \in Window, r \in Rid, st \in Status :
           SqlWrite(p, r, u, x, w, st)
  BY DEF SqlWrite
<1> QED
  BY <1>1, <1>2, <1>3, <1>4, <1>5, <1>6, <1>7, <1>8, <1>9, <1>10 DEF Next, SInv

LEMMA ClearIsAccepted == SInv => CheckedStaysFree
<1> SUFFICES ASSUME SInv, NEW p \in Tx, tx[p].phase = "checked",
                    tx[p].kind \in {"create", "edit"}
             PROVE  DbClear(tx[p].rid, Enforce(rows[tx[p].rid], tx[p].row))
  BY DEF CheckedStaysFree
<1>1. PICK r \in Rid, n \in Row : tx[p].rid = r /\ tx[p].row = n
  BY SMT, WorkIsBusy DEF SInv, IInv, TypeOK, Work
<1> DEFINE m == Enforce(rows[r], n)
<1>2. Booking(m) = Booking(n)
  BY EnforceFacts DEF SInv, IInv, TypeOK
<1>3. ServiceClear(r, m)
  BY <1>1, <1>2, ClearTransfers DEF SInv, CheckedClear
<1> HIDE DEF m
<1>4. TriggerClear(r, m)
  BY <1>3 DEF TriggerClear, ServiceClear
<1>5. ExclusionClear(r, m)
  <2> SUFFICES ASSUME NEW s \in Rid \ {r}, NEW b \in Versions(s), Active(b), m.res = b.res
               PROVE  ~ TooClose(m, b)
    BY DEF ExclusionClear, TooClose
  <2>1. b = rows[s]
    <3>1. ASSUME NEW q \in Tx, tx[q].phase = "written", b = tx[q].row PROVE FALSE
      BY <1>1, <1>2, <3>1 DEF SInv, ResourceLocks, InFlight, Booking
    <3> QED
      BY <3>1 DEF Versions
  <2> QED
    BY <1>3, <2>1 DEF ServiceClear
<1> QED
  BY <1>1, <1>4, <1>5 DEF DbClear, m

\* As long as nobody writes with direct SQL, a booking that passed the checks
\* of create or update under the resource lock is never refused by the database.
THEOREM CheckedIsAccepted ==
  ASSUME SqlTx = {}
  PROVE  Spec => []CheckedStaysFree
BY InitClear, NextClear, ClearIsAccepted, PTL DEF Spec

-----------------------------------------------------------------------------
(* What an editor saw.                                                     *)

\* An editor's row is not older than the one that was seen, and of the same
\* revision it is the same booking; under the row lock it stays so until the
\* edit commits the next revision.
Knows(p) ==
  LET old == rows[tx[p].rid]
      seen == tx[p].seen
  IN  /\ old # NoRow /\ seen # NoRow /\ seen.revision <= old.revision
      /\ old.revision = seen.revision => Booking(old) = Booking(seen)
      /\ InFlight(p) => /\ Active(old) /\ old.revision = seen.revision
                        /\ tx[p].row.revision = old.revision + 1

\* Whoever does not edit a row makes a new one.
EditorsKnow ==
  \A p \in Tx : tx[p] # Idle =>
    /\ tx[p].kind = "edit" => Knows(p)
    /\ tx[p].kind # "edit" => rows[tx[p].rid] = NoRow /\ InFlight(p)

EInv == IInv /\ EditorsKnow

LEMMA EnforceKeepsRevision ==
  ASSUME NEW old \in Row \cup {NoRow}, NEW n \in Row
  PROVE  Enforce(old, n).revision = n.revision
BY SMT DEF Enforce, Row

\* A step of one transaction that changes no row.
LEMMA EditorsMove ==
  ASSUME EInv, NEW p \in Tx, UNCHANGED rows, \A q \in Tx \ {p} : tx'[q] = tx[q],
         tx'[p] # Idle =>
           /\ tx'[p].kind = "edit" => Knows(p)'
           /\ tx'[p].kind # "edit" => rows[tx'[p].rid] = NoRow /\ InFlight(p)'
  PROVE  EditorsKnow'
BY DEF EInv, EditorsKnow, Knows, InFlight

\* A statement brings at most the next revision.
LEMMA StatementKeepsRevision ==
  ASSUME TypeOK, NEW r \in Rid, Cancel(r) \/ CancelClass(r) \/ RevokeOverride(r) \/ Settle(r) \/ Release(r)
  PROVE  rows[r] \in Row /\ rows'[r] \in Row /\ rows'[r].revision >= rows[r].revision
<1>1. rows[r] \in Row
  BY NoRowIsNone DEF Cancel, CancelClass, RevokeOverride, Settle, Release, TypeOK, NoRow
<1>2. "cancelled" \in Status /\ "confirmed" \in Status
  BY DEF Status
<1>3. \A a \in Row, st \in Status :
        [a EXCEPT !.status = st] \in Row /\ [a EXCEPT !.status = st].revision = a.revision
  BY SMT DEF Row
<1>4. \A a \in Row, k \in Nat : [a EXCEPT !.revision = k] \in Row /\ [a EXCEPT !.revision = k].revision = k
  BY SMT DEF Row
<1>5. rows[r].revision \in Nat /\ rows[r].revision + 1 \in Nat
  BY SMT, <1>1 DEF Row
<1>6. ASSUME NEW st \in Status
      PROVE  LET n == [[rows[r] EXCEPT !.status = st] EXCEPT !.revision = rows[r].revision + 1]
             IN  n \in Row /\ n.revision = rows[r].revision + 1
  BY Zenon, <1>1, <1>3, <1>4, <1>5
<1>7. PICK n \in Row : SetRow(r, n) /\ n.revision \in {rows[r].revision, rows[r].revision + 1}
  <2>1. CASE Settle(r)
    BY Zenon, <1>2, <1>6, <2>1 DEF Settle
  <2>2. CASE CancelClass(r) \/ RevokeOverride(r)
    BY Zenon, <1>2, <1>6, <2>2 DEF CancelClass, RevokeOverride
  <2>3. CASE Cancel(r) \/ Release(r)
    BY Zenon, <1>1, <1>2, <1>3, <2>3 DEF Cancel, Release
  <2> QED
    BY <2>1, <2>2, <2>3
<1>8. rows'[r] = Enforce(rows[r], n)
  BY <1>7 DEF SetRow, TypeOK
<1>9. rows'[r] \in Row /\ rows'[r].revision = n.revision
  BY <1>1, <1>8, EnforceFacts, EnforceKeepsRevision
<1> QED
  BY <1>1, <1>5, <1>7, <1>9

LEMMA InitEditors == Init => EInv
BY InitApart DEF Init, EInv, EditorsKnow

LEMMA NextEditors == SqlTx = {} /\ EInv /\ [Next]_vars => EInv'
<1> SUFFICES ASSUME SqlTx = {}, EInv, [Next]_vars PROVE EInv'
  OBVIOUS
<1>1. IInv'
  BY NextApart DEF EInv
<1>2. CASE UNCHANGED vars
  BY <1>1, <1>2 DEF vars, EInv, EditorsKnow, Knows, InFlight
<1>3. ASSUME NEW p \in Tx, NEW u \in Member, NEW x \in Resource, NEW w \in Window,
             BeginCreate(p, u, x, w) \/ BeginClass(p, u, x, w) \/ BeginOverride(p, u, x, w)
      PROVE  EditorsKnow'
  <2>1. PICK r \in Rid, kind \in {"create", "class", "override"} : \E n :
          Step(p, "checked", kind, r, NoRow, n) /\ Unused(r)
    BY <1>3 DEF BeginCreate, BeginClass, BeginOverride
  <2>2. /\ tx'[p].phase = "checked" /\ tx'[p].kind = kind /\ tx'[p].rid = r
        /\ \A q \in Tx \ {p} : tx'[q] = tx[q]
    BY <2>1 DEF Step, EInv, IInv, TypeOK
  <2>3. kind # "edit" /\ rows[r] = NoRow /\ UNCHANGED rows
    BY <1>3, <2>1 DEF Unused, BeginCreate, BeginClass, BeginOverride
  <2> QED
    BY <2>2, <2>3, EditorsMove DEF InFlight
<1>4. ASSUME NEW p \in Tx, NEW u \in Member, NEW x \in Resource, NEW w \in Window,
             BeginUpdate(p, u, x, w)
      PROVE  EditorsKnow'
  <2> DEFINE r == tx[p].rid
             n == [rows[r] EXCEPT !.user = u, !.res = x, !.win = w, !.status = "confirmed",
                                  !.revision = @ + 1]
  <2>1. tx[p].phase = "viewing" /\ tx[p] # Idle /\ r \in Rid
    BY SMT, <1>4, WorkIsBusy DEF BeginUpdate, EInv, IInv, TypeOK, Work
  <2>2. rows[r] \in Row
    BY <1>4, <2>1, NoRowIsNone DEF BeginUpdate, EInv, IInv, TypeOK
  <2>3. n.revision = rows[r].revision + 1
    <3>1. \A a \in Row, v \in Nat :
            [[[[[a EXCEPT !.user = u] EXCEPT !.res = x] EXCEPT !.win = w]
                EXCEPT !.status = "confirmed"] EXCEPT !.revision = v].revision = v
      BY SMT DEF Row
    <3>2. rows[r].revision + 1 \in Nat
      BY SMT, <2>2 DEF Row
    <3> QED
      BY Zenon, <2>2, <3>1, <3>2
  <2>4. Step(p, "checked", "edit", r, tx[p].seen, n) /\ UNCHANGED rows
    BY <1>4 DEF BeginUpdate
  <2> HIDE DEF n
  <2>5. /\ tx'[p].phase = "checked" /\ tx'[p].kind = "edit" /\ tx'[p].rid = r /\ tx'[p].seen = tx[p].seen
        /\ tx'[p].row = n /\ \A q \in Tx \ {p} : tx'[q] = tx[q]
    BY <2>4 DEF Step, EInv, IInv, TypeOK
  <2>6. Knows(p)
    BY <2>1 DEF EInv, EditorsKnow, InFlight
  <2>7. Knows(p)'
    BY <1>4, <2>3, <2>4, <2>5, <2>6 DEF Knows, BeginUpdate, SameRevision, InFlight
  <2> QED
    BY <2>4, <2>5, <2>7, EditorsMove
<1>5. ASSUME NEW p \in Tx, NEW r \in Rid, ViewReservation(p, r)
      PROVE  EditorsKnow'
  <2>1. /\ tx'[p].phase = "viewing" /\ tx'[p].kind = "edit" /\ tx'[p].rid = r /\ tx'[p].seen = rows[r]
        /\ UNCHANGED rows /\ rows[r] # NoRow /\ \A q \in Tx \ {p} : tx'[q] = tx[q]
    BY <1>5 DEF ViewReservation, Step, EInv, IInv, TypeOK
  <2>2. rows[r].revision \in Nat
    BY <2>1 DEF EInv, IInv, TypeOK, Row
  <2>3. Knows(p)'
    BY <2>1, <2>2 DEF Knows, InFlight
  <2> QED
    BY <2>1, <2>3, EditorsMove
<1>6. ASSUME NEW p \in Tx, Write(p)
      PROVE  EditorsKnow'
  <2>1. tx[p].row \in Row /\ tx[p].rid \in Rid /\ tx[p] # Idle
    BY SMT, <1>6, WorkIsBusy DEF Write, EInv, IInv, TypeOK, Work
  <2>2. Enforce(rows[tx[p].rid], tx[p].row).revision = tx[p].row.revision
    BY <2>1, EnforceKeepsRevision DEF EInv, IInv, TypeOK
  <2>3. /\ tx'[p].phase = "written" /\ tx'[p].kind = tx[p].kind /\ tx'[p].rid = tx[p].rid
        /\ tx'[p].seen = tx[p].seen /\ tx'[p].row.revision = tx[p].row.revision
        /\ UNCHANGED rows /\ InFlight(p) /\ \A q \in Tx \ {p} : tx'[q] = tx[q]
    BY <1>6, <2>2 DEF Write, Step, InFlight, EInv, IInv, TypeOK
  <2>4. tx[p].kind = "edit" => Knows(p)
    BY <2>1 DEF EInv, EditorsKnow
  <2>5. tx'[p].kind = "edit" => Knows(p)'
    BY <2>3, <2>4 DEF Knows, InFlight
  <2>6. tx'[p].kind # "edit" => rows[tx'[p].rid] = NoRow
    BY <2>1, <2>3 DEF EInv, EditorsKnow
  <2> QED
    BY <2>3, <2>5, <2>6, EditorsMove DEF InFlight
<1>7. ASSUME NEW p \in Tx, Commit(p)
      PROVE  EditorsKnow'
  <2> DEFINE r == tx[p].rid
  <2>1. r \in Rid /\ tx[p].row \in Row /\ tx[p] # Idle /\ InFlight(p)
    BY SMT, <1>7, WorkIsBusy DEF Commit, EInv, IInv, TypeOK, Work, InFlight
  <2>2. /\ tx'[p] = Idle /\ \A q \in Tx \ {p} : tx'[q] = tx[q]
        /\ rows'[r] = tx[p].row /\ \A s \in Rid \ {r} : rows'[s] = rows[s]
    BY <1>7, <2>1 DEF Commit, EInv, IInv, TypeOK
  <2>3. \A q \in Tx \ {p} : InFlight(q) => tx[q].rid # r
    BY <2>1 DEF EInv, IInv, RowLocks
  <2>4. ASSUME NEW q \in Tx \ {p}, tx[q] # Idle
        PROVE  /\ tx[q].kind = "edit" => Knows(q)'
               /\ tx[q].kind # "edit" => rows'[tx[q].rid] = NoRow /\ InFlight(q)
    <3>1. tx[q].rid \in Rid /\ tx[q].seen \in Row \cup {NoRow}
      BY SMT, <2>4 DEF EInv, IInv, TypeOK, Work
    <3>2. CASE tx[q].rid # r
      BY <2>2, <2>4, <3>1, <3>2 DEF EInv, EditorsKnow, Knows, InFlight
    <3>3. CASE tx[q].rid = r
      <4>1. ~ InFlight(q) /\ tx[q].kind = "edit" /\ Knows(q)
        BY <2>3, <2>4, <3>3 DEF EInv, EditorsKnow
      <4>2. rows[r] # NoRow /\ tx[q].seen.revision <= rows[r].revision /\ tx[q].seen # NoRow
        BY <3>3, <4>1 DEF Knows
      <4>3. tx[p].row.revision = rows[r].revision + 1
        BY <2>1, <4>2 DEF EInv, EditorsKnow, Knows
      <4>4. tx[q].seen.revision \in Nat /\ rows[r].revision \in Nat
        BY <2>1, <3>1, <4>2 DEF EInv, IInv, TypeOK, Row
      <4>5. tx[q].seen.revision < tx[p].row.revision /\ tx[p].row # NoRow
        BY <2>1, <4>2, <4>3, <4>4, NoRowIsNone
      <4>6. tx'[q] = tx[q] /\ rows'[tx'[q].rid] = tx[p].row /\ ~ InFlight(q)'
        BY <2>2, <3>3, <4>1 DEF InFlight
      <4>7. tx[p].row.revision \in Nat
        BY <2>1 DEF Row
      <4> HIDE DEF r
      <4>8. Knows(q)'
        BY <4>2, <4>4, <4>5, <4>6, <4>7 DEF Knows
      <4> QED
        BY <4>1, <4>8
    <3> QED
      BY <3>2, <3>3
  <2> QED
    BY <2>2, <2>4 DEF EditorsKnow, InFlight
<1>8. ASSUME NEW p \in Tx, Abort(p)
      PROVE  EditorsKnow'
  <2>1. tx'[p] = Idle /\ UNCHANGED rows /\ \A q \in Tx \ {p} : tx'[q] = tx[q]
    BY <1>8 DEF Abort, EInv, IInv, TypeOK
  <2> QED
    BY <2>1, EditorsMove
<1>9. ASSUME NEW r \in Rid, Cancel(r) \/ CancelClass(r) \/ RevokeOverride(r) \/ Settle(r) \/ Release(r)
      PROVE  EditorsKnow'
  <2>1. /\ RowFree(r) /\ UNCHANGED tx /\ \A s \in Rid \ {r} : rows'[s] = rows[s]
        /\ Booking(rows'[r]) = Booking(rows[r])
    BY <1>9, StatementKeepsBooking DEF EInv, IInv
  <2>2. rows[r] \in Row /\ rows'[r] \in Row /\ rows'[r].revision >= rows[r].revision
    BY <1>9, StatementKeepsRevision DEF EInv, IInv
  <2>3. ASSUME NEW q \in Tx, tx[q] # Idle
        PROVE  /\ tx[q].kind = "edit" => Knows(q)'
               /\ tx[q].kind # "edit" => rows'[tx[q].rid] = NoRow /\ InFlight(q)
    <3>1. tx[q].rid \in Rid /\ tx[q].seen \in Row \cup {NoRow}
      BY SMT, <2>3 DEF EInv, IInv, TypeOK, Work
    <3>2. CASE tx[q].rid # r
      BY <2>1, <2>3, <3>1, <3>2 DEF EInv, EditorsKnow, Knows, InFlight
    <3>3. CASE tx[q].rid = r
      <4>1. ~ InFlight(q) /\ tx[q].kind = "edit" /\ Knows(q)
        BY <2>1, <2>2, <2>3, <3>3, NoRowIsNone DEF EInv, EditorsKnow, RowFree
      <4>2. tx[q].seen.revision \in Nat /\ rows[r].revision \in Nat /\ rows'[r].revision \in Nat
        BY <2>2, <3>1, <4>1 DEF Knows, Row
      <4>3. Knows(q)'
        BY <2>1, <2>2, <3>3, <4>1, <4>2, NoRowIsNone DEF Knows, InFlight
      <4> QED
        BY <4>1, <4>3
    <3> QED
      BY <3>2, <3>3
  <2> QED
    BY <2>1, <2>3 DEF EditorsKnow, InFlight
<1>10. ~ \E p \in Tx, u \in Member, x \in Resource, w \in Window, r \in Rid, st \in Status :
           SqlWrite(p, r, u, x, w, st)
  BY DEF SqlWrite
<1> QED
  BY <1>1, <1>2, <1>3, <1>4, <1>5, <1>6, <1>7, <1>8, <1>9, <1>10 DEF Next, EInv

\* As long as nobody writes with direct SQL, which leaves the revision alone,
\* ReservationService.update replaces the booking that its editor was shown.
THEOREM EditorsSaw ==
  ASSUME SqlTx = {}
  PROVE  Spec => []EditSawTheBooking
<1>1. EInv => EditSawTheBooking
  <2> SUFFICES ASSUME EInv, NEW p \in Tx, InFlight(p), tx[p].kind = "edit"
               PROVE  Active(rows[tx[p].rid]) /\ Booking(rows[tx[p].rid]) = Booking(tx[p].seen)
    BY DEF EditSawTheBooking
  <2>1. tx[p] # Idle
    BY WorkIsBusy DEF InFlight
  <2> QED
    BY <2>1 DEF EInv, EditorsKnow, Knows
<1> QED
  BY <1>1, InitEditors, NextEditors, PTL DEF Spec
=============================================================================
