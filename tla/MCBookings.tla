----------------------------- MODULE MCBookings -----------------------------
(* Instances of Bookings for TLC.  One unit of time is the cooldown.         *)
EXTENDS Bookings, TLC

\* An hour is four cooldowns.  The second window starts when the first ends,
\* the third leaves exactly the cooldown after the first.
MCWindow == {[start |-> 0, end |-> 4], [start |-> 4, end |-> 8], [start |-> 5, end |-> 9]}

\* Two windows a cooldown too close to each other.
MCWindowPair == {[start |-> 0, end |-> 4], [start |-> 4, end |-> 8]}

MCSymmetryMember == Permutations(Member)

MCSymmetry == Permutations(Member) \cup Permutations(Tx)

MCSymmetryRid == Permutations(Member) \cup Permutations(Rid) \cup Permutations(Tx)
=============================================================================
