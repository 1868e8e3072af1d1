------------------------------ MODULE MCCharges ------------------------------
(***************************************************************************)
(* What is paid for with no reader involved, on small instances.  "scene"  *)
(* says which part steps in a behaviour: one month of a membership with    *)
(* its refunds and the desk, two months of it with cancellations, studio   *)
(* rentals, the seats of one class, one member's fees for two, or orders   *)
(* that a page sends again.                                                *)
(***************************************************************************)
EXTENDS MembershipBilling

CONSTANTS Rental, Card, Call, Member, Class, Tx, Capacity, Bills, m1, k1, Slot, None, MaxKey, MaxCalls
VARIABLES scene, rental, over, rentalSession, rentalRefund, events, call, class, seat, fee, tx,
          kind, page, request, row, other, letgo, misled

S == INSTANCE StudioRentals WITH session <- rentalSession, refund <- rentalRefund
T == INSTANCE TrainingClasses WITH bill <- fee
R == INSTANCE BookingRetry WITH call <- request

\* Who pays by card rents, "none" is the name of no one and of nothing, and
\* members, the places of a class and the keys of a page can be counted.
ASSUME RentalsAssumption == Card \subseteq Rental
ASSUME ClassesAssumption == IsFiniteSet(Member) /\ Capacity \in Nat /\ "none" \notin Member \cup Class \cup Bills
ASSUME KeysAssumption == MaxKey \in Nat

Studios == <<rental, over, rentalSession, rentalRefund, events, call>>
Classes == <<class, seat, fee, tx>>
Orders == <<kind, page, request, row, other, letgo, misled>>

MCInit ==
  /\ scene \in {"ledger", "cancels", "studios", "seats", "fees", "orders"}
  /\ Init /\ S!Init /\ T!Init
  /\ IF scene = "orders" THEN R!Init
     ELSE kind = 0 /\ page = 0 /\ request = 0 /\ row = 0 /\ other = 0 /\ letgo = 0 /\ misled = 0

\* What a scene leaves aside: the later month and what is cancelled; refunds
\* and the desk; the other classes; the other members.
FirstMonth == now' = 1 /\ \A p \in Canceller : work'[p] = work[p]
CardOnly == desk' = desk /\ refund' = refund /\ card' \in [Month -> {"none", "active"}]
OneClass == \A k \in Class \ {k1} : class'[k] = class[k] /\ \A t \in Tx : tx'[t].class # k
OneMember == \A m \in Member \ {m1}, t \in Tx : tx'[t].member # m

MCNext ==
  /\ UNCHANGED scene
  /\ \/ /\ \/ scene = "ledger" /\ Next /\ FirstMonth
           \/ scene = "cancels" /\ Next /\ CardOnly
        /\ UNCHANGED <<Studios, Classes, Orders>>
     \/ scene = "studios" /\ S!Next /\ UNCHANGED <<vars, Classes, Orders>>
     \/ /\ \/ scene = "seats" /\ T!Next /\ OneClass
           \/ scene = "fees" /\ T!Next /\ OneMember
        /\ UNCHANGED <<vars, Studios, Orders>>
     \/ scene = "orders" /\ R!Next /\ UNCHANGED <<vars, Studios, Classes>>

MCSpec == MCInit /\ [][MCNext]_<<scene, vars, Studios, Classes, Orders>>

\* A month is bought with money that Stripe has, once: what is paid is issued
\* unless the desk covers it, and what is issued is paid and in the ledger.
MembershipsPaid == TypeOK /\ NoOverlap /\ IssuedIsPaid /\ PaidIsIssued

\* A checkout that ended unpaid cannot be paid any more, and once Stripe has
\* said all it has to say the ledger and Stripe agree about refunds.
BillingAgrees == ExpiredIsUnpayable /\ LedgerSettles

\* Dates that were released cannot be paid for, a rental is confirmed for money
\* that Stripe has, and what staff are told of a refund is what became of it.
\* An order that is sent again, and overlaps with itself, is never refused for
\* the sake of its own booking, and books nothing after the page is done with it.
RentalsPaid ==
  /\ S!TypeOK /\ S!ReleasedIsUnpayable /\ S!ConfirmedIsPaid /\ S!RefundIsTold
  /\ scene = "orders" => R!TypeOK /\ R!ConflictIsAnothers /\ R!LetGoIsSettled

\* No class is overbooked, the training fee is billed once, and whoever
\* withdrew, or whose class was cancelled, owes nothing for it.
SeatsAndFees == T!TypeOK /\ T!SeatsBounded /\ T!BilledOnce /\ T!NothingOwed
=============================================================================
