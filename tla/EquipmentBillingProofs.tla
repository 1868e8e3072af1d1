----------------------- MODULE EquipmentBillingProofs -----------------------
(***************************************************************************)
(* Proofs about EquipmentBilling, for any number of overlapping calls.     *)
(*                                                                         *)
(* What a call has read may be old.  It is harmless because the states of  *)
(* Stripe that a call acts on are final: a session that is complete or     *)
(* expired stays so, and a refused session is never made later.  CallsKnow *)
(* says that every call's knowledge is of this kind.                       *)
(***************************************************************************)
EXTENDS EquipmentBilling, TLAPS

CallKnows(c) ==
  /\ call[c].saw \in Decided => session = call[c].saw
  /\ At(c, "creating") => c \in Caller /\ age # "forgotten"
  /\ At(c, "rejected") => session = "none" /\ ~ Creatable

CallsKnow == \A c \in Call : CallKnows(c)

ReceiptIsLinked == receipt = "paid" => checkout.payment = "receipt"

EInv == TypeOK /\ ReleasedIsUnpayable /\ RowsAgree /\ CallsKnow /\ ReceiptIsLinked

-----------------------------------------------------------------------------
(* Every step moves at most one call.                                      *)

LEMMA GotoMoves ==
  ASSUME TypeOK, NEW c \in Call, NEW step, NEW saw, Goto(c, step, saw)
  PROVE  /\ call'[c].at = step /\ call'[c].saw = saw
         /\ \A d \in Call \ {c} : call'[d] = call[d]
BY DEF Goto, TypeOK

LEMMA FinishMoves ==
  ASSUME TypeOK, NEW c \in Call, Finish(c)
  PROVE  Goto(c, "idle", "none")
BY DEF Goto, Finish, Idle

LEMMA ProgressType ==
  ASSUME NEW p \in Progress
  PROVE  /\ p.at \in {"idle", "known", "new", "creating", "retrieving", "expiring",
                      "rejected", "save", "apply"}
         /\ p.saw \in {"none", "open", "complete", "expired"}
BY SMT DEF Progress

LEMMA GotoType ==
  ASSUME TypeOK, NEW c \in Call,
         NEW step \in {"idle", "known", "new", "creating", "retrieving", "expiring",
                       "rejected", "save", "apply"},
         NEW saw \in {"none", "open", "complete", "expired"}, Goto(c, step, saw)
  PROVE  call' \in [Call -> Progress]
<1>1. [at |-> step, saw |-> saw] \in Progress
  BY SMT DEF Progress
<1> QED
  BY <1>1 DEF Goto, TypeOK

\* What the rows may do in one step.

RowsType ==
  /\ reservation \in {"pending", "confirmed", "cancelled"}
  /\ checkout \in CheckoutRow
  /\ bill \in {"pending", "paid", "void", "waived", "refunded"}
  /\ receipt \in {"none", "paid"}

RowsInv == RowsType /\ RowsAgree /\ ReleasedIsUnpayable /\ ReceiptIsLinked

LEMMA CheckoutFields ==
  ASSUME NEW k \in CheckoutRow, NEW st \in {"pending", "paid", "expired"}, NEW saved \in BOOLEAN
  PROVE  /\ k.status \in {"pending", "paid", "expired"}
         /\ k.saved \in BOOLEAN
         /\ k.payment \in {"none", "bill", "receipt"}
         /\ [k EXCEPT !.saved = saved] =
              [status |-> k.status, saved |-> saved, payment |-> k.payment]
         /\ [k EXCEPT !.status = st, !.saved = saved] =
              [status |-> st, saved |-> saved, payment |-> k.payment]
<1>1. /\ k.status \in {"pending", "paid", "expired"}
      /\ k.saved \in BOOLEAN
      /\ k.payment \in {"none", "bill", "receipt"}
  BY SMT DEF CheckoutRow
<1>2. \A j \in CheckoutRow :
        [j EXCEPT !.saved = saved] = [status |-> j.status, saved |-> saved, payment |-> j.payment]
  BY SMT DEF CheckoutRow
<1>3. /\ [k EXCEPT !.status = st] \in CheckoutRow
      /\ [k EXCEPT !.status = st].status = st
      /\ [k EXCEPT !.status = st].payment = k.payment
  BY SMT DEF CheckoutRow
<1> DEFINE j == [k EXCEPT !.status = st]
<1>4. j \in CheckoutRow /\ j.status = st /\ j.payment = k.payment
  BY <1>3
<1> HIDE DEF j
<1>5. [j EXCEPT !.saved = saved] = [status |-> st, saved |-> saved, payment |-> k.payment]
  BY <1>2, <1>4
<1> QED
  BY <1>1, <1>2, <1>5 DEF j

\* A released hold frees the rows together.
LEMMA ReleaseStep ==
  ASSUME RowsInv, NEW saved \in BOOLEAN, checkout.status = "pending", ReleaseRows(saved),
         session = "expired" \/ (session = "none" /\ ~ Creatable), UNCHANGED stripeVars
  PROVE  RowsInv'
<1>1. checkout' = [status |-> "expired", saved |-> saved, payment |-> checkout.payment]
  BY CheckoutFields DEF ReleaseRows, RowsInv, RowsType, CheckoutRow
<1>2. checkout' \in CheckoutRow /\ checkout'.status = "expired" /\ checkout'.payment = checkout.payment
  BY <1>1, CheckoutFields DEF RowsInv, RowsType, CheckoutRow
<1>3. checkout.payment = "none" /\ reservation = "pending"
  BY DEF RowsInv, RowsAgree
<1> QED
  BY <1>2, <1>3 DEF ReleaseRows, VoidBill, RowsInv, RowsType, RowsAgree, ReleasedIsUnpayable,
     ReceiptIsLinked, stripeVars, Creatable, CheckoutRow

LEMMA SettleStep ==
  ASSUME RowsInv, checkout.status = "pending", SettleRows, session = "complete",
         UNCHANGED stripeVars
  PROVE  RowsInv'
<1>1. receipt = "none"
  BY DEF RowsInv, RowsType, RowsAgree, ReceiptIsLinked
<1>2. /\ checkout' \in CheckoutRow /\ checkout'.status = "paid"
      /\ checkout'.payment = IF bill = "pending" THEN "bill" ELSE "receipt"
  BY DEF SettleRows, CheckoutRow
<1> QED
  BY <1>1, <1>2 DEF SettleRows, RowsInv, RowsType, RowsAgree, ReleasedIsUnpayable,
     ReceiptIsLinked, stripeVars, CheckoutRow

LEMMA ApplyStep ==
  ASSUME RowsInv, NEW saw \in {"none", "open", "complete", "expired"},
         saw \in Decided => session = saw, Apply(saw), UNCHANGED stripeVars
  PROVE  RowsInv'
<1>1. CASE UNCHANGED rowVars
  BY <1>1 DEF rowVars, stripeVars, RowsInv, RowsType, RowsAgree, ReleasedIsUnpayable,
     ReceiptIsLinked, Creatable
<1>2. CASE checkout.status = "pending" /\ saw = "expired" /\ ReleaseRows(TRUE)
  BY <1>2, ReleaseStep DEF Decided
<1>3. CASE checkout.status = "pending" /\ saw = "complete" /\ SettleRows
  BY <1>3, SettleStep DEF Decided
<1> QED
  BY <1>1, <1>2, <1>3 DEF Apply

-----------------------------------------------------------------------------
(* The rows.                                                               *)

LEMMA NextRows == EInv /\ [Next]_vars => RowsInv'
<1> SUFFICES ASSUME EInv, [Next]_vars PROVE RowsInv'
  OBVIOUS
<1>0. RowsInv
  BY DEF EInv, RowsInv, TypeOK, RowsType
<1>1. ASSUME UNCHANGED rowVars, session = "complete" => session' = "complete",
             session = "expired" => session' = "expired",
             session = "none" /\ ~ Creatable => session' = "none" /\ ~ Creatable'
      PROVE  RowsInv'
  BY <1>0, <1>1 DEF rowVars, RowsInv, RowsType, RowsAgree, ReleasedIsUnpayable, ReceiptIsLinked
<1>2. ASSUME UNCHANGED <<rowVars, stripeVars>>
      PROVE  RowsInv'
  BY <1>1, <1>2 DEF stripeVars, Creatable
<1>3. CASE UNCHANGED vars
  BY <1>2, <1>3 DEF vars, rowVars, stripeVars
<1>4. CASE Pay \/ Expire
  BY <1>1, <1>4 DEF Pay, Expire
<1>5. CASE GrowOld
  BY <1>1, <1>5 DEF GrowOld, Creatable
<1>6. CASE ChangeEligibility
  BY <1>2, <1>6 DEF ChangeEligibility
<1>7. ASSUME NEW c \in Caller, ReadRow(c) \/ Resume(c) \/ SendCreate(c)
      PROVE  RowsInv'
  BY <1>2, <1>7 DEF ReadRow, Resume, SendCreate
<1>8. ASSUME NEW c \in Caller, CreateSession(c)
      PROVE  RowsInv'
  BY <1>1, <1>8 DEF CreateSession, Creatable
<1>9. ASSUME NEW c \in Caller, Reject(c)
      PROVE  RowsInv'
  <2>1. session = "none" /\ ~ Creatable
    BY <1>9 DEF Reject, EInv, CallsKnow, CallKnows, Call
  <2> QED
    BY <1>0, <1>2, <1>9, <2>1, ReleaseStep DEF Reject
<1>10. ASSUME NEW c \in Caller, SaveSession(c)
       PROVE  RowsInv'
  <2>1. checkout' = [status |-> checkout.status, saved |-> TRUE, payment |-> checkout.payment]
    BY <1>0, <1>10, CheckoutFields DEF SaveSession, RowsInv, RowsType
  <2>2. /\ checkout' \in CheckoutRow /\ checkout'.status = checkout.status
        /\ checkout'.payment = checkout.payment
    BY <1>0, <2>1, CheckoutFields DEF RowsInv, RowsType, CheckoutRow
  <2> QED
    BY <1>0, <1>10, <2>2 DEF SaveSession, stripeVars, Creatable, RowsInv, RowsType, RowsAgree,
       ReleasedIsUnpayable, ReceiptIsLinked
<1>11. ASSUME NEW c \in Observer, StartWebhook(c) \/ StartReconcile(c)
       PROVE  RowsInv'
  BY <1>2, <1>11 DEF StartWebhook, StartReconcile
<1>12. ASSUME NEW c \in Canceller, StartCancel(c) \/ ExpireSession(c)
       PROVE  RowsInv'
  BY <1>1, <1>2, <1>12 DEF StartCancel, ExpireSession
<1>13. ASSUME NEW c \in Call, Retrieve(c) \/ GiveUp(c)
       PROVE  RowsInv'
  BY <1>2, <1>13 DEF Retrieve, GiveUp
<1>14. ASSUME NEW c \in Call, ApplyAndFinish(c)
       PROVE  RowsInv'
  <2>1. call[c].saw \in {"none", "open", "complete", "expired"}
    BY ProgressType DEF EInv, TypeOK
  <2>2. call[c].saw \in Decided => session = call[c].saw
    BY DEF EInv, CallsKnow, CallKnows
  <2> QED
    BY <1>0, <1>14, <2>1, <2>2, ApplyStep DEF ApplyAndFinish
<1>15. ASSUME NEW to \in {"paid", "void", "waived", "refunded"}, RecordPayment(to)
       PROVE  RowsInv'
  BY <1>0, <1>15 DEF RecordPayment, stripeVars, Creatable, RowsInv, RowsType, RowsAgree,
     ReleasedIsUnpayable, ReceiptIsLinked
<1>16. CASE CancelBooking
  BY <1>0, <1>16 DEF CancelBooking, VoidBill, stripeVars, Creatable, RowsInv, RowsType, RowsAgree,
     ReleasedIsUnpayable, ReceiptIsLinked, CheckoutRow
<1> QED
  BY <1>3, <1>4, <1>5, <1>6, <1>7, <1>8, <1>9, <1>10, <1>11, <1>12, <1>13, <1>14, <1>15, <1>16
     DEF Next

-----------------------------------------------------------------------------
(* The calls.                                                              *)

\* Knowledge survives whatever Stripe and time do.
LEMMA KnowledgeKept ==
  ASSUME CallsKnow, UNCHANGED call,
         session \in Decided => session' = session,
         age' = "forgotten" => age = "forgotten" \/ \A c \in Caller : ~ At(c, "creating"),
         session = "none" /\ ~ Creatable => session' = "none" /\ ~ Creatable'
  PROVE  CallsKnow'
BY DEF CallsKnow, CallKnows, At

\* A call that moves on must know what its new step relies on.
LEMMA KnowledgeGained ==
  ASSUME TypeOK, CallsKnow, NEW c \in Call, NEW step, NEW saw, Goto(c, step, saw),
         session \in Decided => session' = session, UNCHANGED <<age, acceptable>>,
         session = "none" /\ ~ Creatable => session' = "none" /\ ~ Creatable',
         saw \in Decided => session' = saw,
         step = "creating" => c \in Caller /\ age # "forgotten",
         step = "rejected" => session' = "none" /\ ~ Creatable'
  PROVE  CallsKnow'
BY GotoMoves DEF CallsKnow, CallKnows, At

LEMMA NextCalls == EInv /\ [Next]_vars => CallsKnow' /\ call' \in [Call -> Progress]
<1> SUFFICES ASSUME EInv, [Next]_vars PROVE CallsKnow' /\ call' \in [Call -> Progress]
  OBVIOUS
<1> USE DEF EInv
<1>0. TypeOK /\ CallsKnow /\ call \in [Call -> Progress]
  BY DEF TypeOK
<1>1. ASSUME NEW c \in Call,
             NEW step \in {"idle", "known", "new", "retrieving", "expiring", "save", "apply"},
             NEW saw \in {"none", "open", "complete", "expired"},
             Goto(c, step, saw), saw \in Decided => session = saw, UNCHANGED stripeVars
      PROVE  CallsKnow' /\ call' \in [Call -> Progress]
  BY <1>0, <1>1, KnowledgeGained, GotoType DEF stripeVars, Creatable
<1>2. CASE UNCHANGED vars
  BY <1>0, <1>2, KnowledgeKept DEF vars, Creatable
<1>3. CASE Pay \/ Expire
  BY <1>0, <1>3, KnowledgeKept DEF Pay, Expire, Decided
<1>4. CASE GrowOld
  BY <1>0, <1>4, KnowledgeKept DEF GrowOld, Creatable
<1>5. CASE ChangeEligibility
  BY <1>0, <1>5, KnowledgeKept DEF ChangeEligibility, stripeVars, Creatable
<1>6. ASSUME NEW c \in Caller, ReadRow(c) \/ Resume(c)
      PROVE  CallsKnow' /\ call' \in [Call -> Progress]
  BY <1>1, <1>6 DEF ReadRow, Resume, Call, Decided
<1>7. ASSUME NEW c \in Caller, SendCreate(c)
      PROVE  CallsKnow' /\ call' \in [Call -> Progress]
  BY <1>0, <1>7, KnowledgeGained, GotoType DEF SendCreate, Call, stripeVars, Creatable, Decided
<1>8. ASSUME NEW c \in Caller, CreateSession(c)
      PROVE  CallsKnow' /\ call' \in [Call -> Progress]
  <2>1. c \in Call /\ age # "forgotten"
    BY <1>8 DEF CreateSession, CallsKnow, CallKnows, Call
  <2>2. CASE Creatable /\ session' = "open" /\ Goto(c, "save", "open")
    BY <1>0, <1>8, <2>1, <2>2, KnowledgeGained, GotoType DEF CreateSession, Creatable, Decided
  <2>3. CASE session # "none" /\ Goto(c, "save", "open") /\ UNCHANGED session
    BY <1>0, <1>8, <2>1, <2>3, KnowledgeGained, GotoType DEF CreateSession, Creatable, Decided
  <2>4. CASE ~ Creatable /\ session = "none" /\ Goto(c, "rejected", "none") /\ UNCHANGED session
    BY <1>0, <1>8, <2>1, <2>4, KnowledgeGained, GotoType DEF CreateSession, Creatable, Decided
  <2> QED
    BY <1>8, <2>1, <2>2, <2>3, <2>4 DEF CreateSession
<1>9. ASSUME NEW c \in Caller, Reject(c)
      PROVE  CallsKnow' /\ call' \in [Call -> Progress]
  BY <1>0, <1>1, <1>9, FinishMoves DEF Reject, Call, Decided
<1>10. ASSUME NEW c \in Caller, SaveSession(c)
       PROVE  CallsKnow' /\ call' \in [Call -> Progress]
  <2>1. c \in Call /\ call[c].saw \in {"none", "open", "complete", "expired"}
    BY <1>0, ProgressType DEF Call
  <2>2. call[c].saw \in Decided => session = call[c].saw
    BY <2>1 DEF CallsKnow, CallKnows
  <2> QED
    BY <1>1, <1>10, <2>1, <2>2 DEF SaveSession
<1>11. ASSUME NEW c \in Observer, StartWebhook(c) \/ StartReconcile(c)
       PROVE  CallsKnow' /\ call' \in [Call -> Progress]
  BY <1>1, <1>11 DEF StartWebhook, StartReconcile, Call, Decided
<1>12. ASSUME NEW c \in Canceller, StartCancel(c)
       PROVE  CallsKnow' /\ call' \in [Call -> Progress]
  BY <1>1, <1>12 DEF StartCancel, Call, Decided
<1>13. ASSUME NEW c \in Canceller, ExpireSession(c)
       PROVE  CallsKnow' /\ call' \in [Call -> Progress]
  BY <1>0, <1>13, FinishMoves, KnowledgeGained, GotoType DEF ExpireSession, Call, Creatable, Decided
<1>14. ASSUME NEW c \in Call, Retrieve(c)
       PROVE  CallsKnow' /\ call' \in [Call -> Progress]
  BY <1>1, <1>14 DEF Retrieve, TypeOK
<1>15. ASSUME NEW c \in Call, ApplyAndFinish(c) \/ GiveUp(c)
       PROVE  CallsKnow' /\ call' \in [Call -> Progress]
  BY <1>0, <1>1, <1>15, FinishMoves DEF ApplyAndFinish, GiveUp, Decided
<1>16. CASE CancelBooking \/ \E to \in {"paid", "void", "waived", "refunded"} : RecordPayment(to)
  BY <1>0, <1>16, KnowledgeKept DEF CancelBooking, RecordPayment, stripeVars, Creatable
<1> QED
  BY <1>2, <1>3, <1>4, <1>5, <1>6, <1>7, <1>8, <1>9, <1>10, <1>11, <1>12, <1>13, <1>14, <1>15, <1>16
     DEF Next

-----------------------------------------------------------------------------
(* The theorems.                                                           *)

LEMMA InitHolds == Init => EInv
<1> SUFFICES ASSUME Init PROVE EInv
  OBVIOUS
<1>1. Idle \in Progress /\ Idle.at = "idle" /\ Idle.saw = "none"
  BY SMT DEF Idle, Progress
<1>2. TypeOK
  BY <1>1 DEF Init, TypeOK, CheckoutRow, Age
<1>3. \A c \in Call : call[c] = Idle
  BY DEF Init
<1>4. CallsKnow
  BY <1>1, <1>3 DEF CallsKnow, CallKnows, At, Decided
<1> QED
  BY <1>2, <1>4 DEF Init, EInv, RowsAgree, ReleasedIsUnpayable, ReceiptIsLinked

LEMMA NextTypes ==
  EInv /\ [Next]_vars =>
    /\ session' \in {"none", "open", "complete", "expired"}
    /\ acceptable' \in BOOLEAN
    /\ age' \in Age
    /\ eligible' \in BOOLEAN
<1> SUFFICES ASSUME TypeOK, [Next]_vars
             PROVE  /\ session' \in {"none", "open", "complete", "expired"}
                    /\ acceptable' \in BOOLEAN
                    /\ age' \in Age
                    /\ eligible' \in BOOLEAN
  BY DEF EInv
<1> QED
  BY DEF TypeOK, Next, vars, stripeVars, Age, Pay, Expire, GrowOld, ChangeEligibility, ReadRow,
     Resume, SendCreate, CreateSession, Reject, SaveSession, StartWebhook, StartReconcile,
     StartCancel, ExpireSession, Retrieve, ApplyAndFinish, GiveUp, RecordPayment, CancelBooking

LEMMA NextHolds == EInv /\ [Next]_vars => EInv'
BY NextRows, NextCalls, NextTypes DEF EInv, RowsInv, RowsType, TypeOK

LEMMA InvHolds == Spec => []EInv
BY InitHolds, NextHolds, PTL DEF Spec

\* The rows, the session and every call keep their types.
THEOREM TypeCorrect == Spec => []TypeOK
<1>1. EInv => TypeOK
  BY DEF EInv
<1> QED
  BY <1>1, InvHolds, PTL

\* A released hold is never charged, however many calls, deliveries and
\* cancellations overlap, die or are answered late.
THEOREM ReleasedNeverPayable == Spec => []ReleasedIsUnpayable
<1>1. EInv => ReleasedIsUnpayable
  BY DEF EInv
<1> QED
  BY <1>1, InvHolds, PTL

\* Reservation, checkout and payment records agree in every reachable state: a
\* confirmed booking is a charged one with a paid record.
THEOREM RowsAlwaysAgree == Spec => []RowsAgree
<1>1. EInv => RowsAgree
  BY DEF EInv
<1> QED
  BY <1>1, InvHolds, PTL

-----------------------------------------------------------------------------
(* Refinement.                                                             *)

LEMMA HoldValue ==
  ASSUME RowsInv
  PROVE  /\ checkout.status = "pending" => HoldState = "held"
         /\ checkout.status = "expired" => HoldState = "released"
         /\ checkout.status = "paid" /\ reservation = "confirmed" => HoldState = "booked"
         /\ checkout.status = "paid" /\ reservation # "confirmed" => HoldState = "cancelled"
         /\ checkout.status \in {"pending", "expired", "paid"}
BY CheckoutFields DEF HoldState, RowsInv, RowsType

LEMMA HoldStutters ==
  ASSUME RowsInv, RowsInv', checkout'.status = checkout.status, reservation' = reservation,
         session' = "complete" <=> session = "complete"
  PROVE  UNCHANGED Hold!vars
<1>1. HoldState' = HoldState
  BY DEF HoldState
<1>2. Charged' = Charged
  BY DEF Charged
<1> QED
  BY <1>1, <1>2 DEF Hold!vars

LEMMA HoldReleases ==
  ASSUME RowsInv, RowsInv', NEW saved \in BOOLEAN, checkout.status = "pending",
         ReleaseRows(saved), session # "complete", UNCHANGED session
  PROVE  Hold!Release
<1>1. checkout'.status = "expired"
  <2>1. checkout' = [status |-> "expired", saved |-> saved, payment |-> checkout.payment]
    BY CheckoutFields DEF ReleaseRows, RowsInv, RowsType
  <2> QED
    BY <2>1
<1>2. HoldState = "held" /\ HoldState' = "released"
  BY <1>1 DEF HoldState
<1>3. ~ Charged /\ Charged' = Charged
  BY DEF Charged
<1> QED
  BY <1>2, <1>3 DEF Hold!Release

LEMMA HoldSteps ==
  ASSUME EInv, RowsInv, RowsInv', [Next]_vars
  PROVE  [Hold!Next]_Hold!vars
<1>1. ASSUME UNCHANGED rowVars, session' = "complete" <=> session = "complete"
      PROVE  [Hold!Next]_Hold!vars
  BY <1>1, HoldStutters DEF rowVars
<1>2. CASE UNCHANGED vars
  BY <1>1, <1>2 DEF vars, rowVars
<1>3. CASE Pay
  <2>1. checkout.status = "pending"
    BY <1>3, HoldValue DEF Pay, RowsInv, RowsAgree, ReleasedIsUnpayable
  <2>2. HoldState = "held" /\ HoldState' = "held"
    BY <1>3, <2>1 DEF HoldState, Pay, rowVars
  <2>3. Charged' = TRUE
    BY <1>3 DEF Pay, Charged
  <2> QED
    BY <2>2, <2>3 DEF Hold!Next, Hold!Charge
<1>4. CASE Expire \/ GrowOld \/ ChangeEligibility
  BY <1>1, <1>4 DEF Expire, GrowOld, ChangeEligibility, stripeVars
<1>5. ASSUME NEW c \in Caller, ReadRow(c) \/ Resume(c) \/ SendCreate(c) \/ CreateSession(c)
      PROVE  [Hold!Next]_Hold!vars
  BY <1>1, <1>5 DEF ReadRow, Resume, SendCreate, CreateSession, stripeVars, Creatable
<1>6. ASSUME NEW c \in Caller, Reject(c)
      PROVE  [Hold!Next]_Hold!vars
  <2>1. session = "none"
    BY <1>6 DEF Reject, EInv, CallsKnow, CallKnows, Call
  <2> QED
    BY <1>1, <1>6, <2>1, HoldReleases DEF Reject, stripeVars, Hold!Next
<1>7. ASSUME NEW c \in Caller, SaveSession(c)
      PROVE  [Hold!Next]_Hold!vars
  <2>1. checkout'.status = checkout.status
    <3>1. checkout' = [status |-> checkout.status, saved |-> TRUE, payment |-> checkout.payment]
      BY <1>7, CheckoutFields DEF SaveSession, RowsInv, RowsType
    <3> QED
      BY <3>1
  <2> QED
    BY <1>7, <2>1, HoldStutters DEF SaveSession, stripeVars
<1>8. ASSUME NEW c \in Observer, StartWebhook(c) \/ StartReconcile(c)
      PROVE  [Hold!Next]_Hold!vars
  BY <1>1, <1>8 DEF StartWebhook, StartReconcile, stripeVars
<1>9. ASSUME NEW c \in Canceller, StartCancel(c) \/ ExpireSession(c)
      PROVE  [Hold!Next]_Hold!vars
  BY <1>1, <1>9 DEF StartCancel, ExpireSession, stripeVars
<1>10. ASSUME NEW c \in Call, Retrieve(c) \/ GiveUp(c)
       PROVE  [Hold!Next]_Hold!vars
  BY <1>1, <1>10 DEF Retrieve, GiveUp, stripeVars
<1>11. ASSUME NEW c \in Call, ApplyAndFinish(c)
       PROVE  [Hold!Next]_Hold!vars
  <2>1. call[c].saw \in Decided => session = call[c].saw
    BY DEF EInv, CallsKnow, CallKnows
  <2>2. UNCHANGED session /\ Apply(call[c].saw)
    BY <1>11 DEF ApplyAndFinish, stripeVars
  <2>3. CASE UNCHANGED rowVars
    BY <1>1, <2>2, <2>3
  <2>4. CASE checkout.status = "pending" /\ call[c].saw = "expired" /\ ReleaseRows(TRUE)
    BY <2>1, <2>2, <2>4, HoldReleases DEF Decided, Hold!Next
  <2>5. CASE checkout.status = "pending" /\ call[c].saw = "complete" /\ SettleRows
    <3>1. checkout'.status = "paid" /\ reservation' = "confirmed"
      BY <2>5 DEF SettleRows
    <3>2. HoldState = "held" /\ HoldState' = "booked"
      BY <2>5, <3>1 DEF HoldState
    <3>3. Charged /\ Charged' = Charged
      BY <2>1, <2>2, <2>5 DEF Charged, Decided
    <3> QED
      BY <3>2, <3>3 DEF Hold!Next, Hold!Book
  <2> QED
    BY <2>2, <2>3, <2>4, <2>5 DEF Apply
<1>12. ASSUME NEW to \in {"paid", "void", "waived", "refunded"}, RecordPayment(to)
       PROVE  [Hold!Next]_Hold!vars
  BY <1>12, HoldStutters DEF RecordPayment, stripeVars
<1>13. CASE CancelBooking
  <2>1. checkout.status = "paid" /\ reservation = "confirmed"
    BY <1>13, HoldValue DEF CancelBooking, RowsInv, RowsAgree
  <2>2. checkout'.status = "paid" /\ reservation' = "cancelled" /\ UNCHANGED session
    BY <1>13, <2>1 DEF CancelBooking, stripeVars
  <2>3. HoldState = "booked" /\ HoldState' = "cancelled" /\ Charged' = Charged
    BY <2>1, <2>2 DEF HoldState, Charged
  <2> QED
    BY <2>3 DEF Hold!Next, Hold!Cancel
<1> QED
  BY <1>2, <1>3, <1>4, <1>5, <1>6, <1>7, <1>8, <1>9, <1>10, <1>11, <1>12, <1>13 DEF Next

\* Every behaviour of the checkout is a behaviour of SlotHold.
THEOREM KeepsHold == Spec => HoldSpec
<1>1. Init => Hold!Init
  BY DEF Init, Hold!Init, HoldState, Charged
<1>2. EInv /\ EInv' /\ [Next]_vars => [Hold!Next]_Hold!vars
  <2>1. EInv => RowsInv
    BY DEF EInv, TypeOK, RowsInv, RowsType
  <2>2. EInv' => RowsInv'
    BY DEF EInv, TypeOK, RowsInv, RowsType
  <2> QED
    BY <2>1, <2>2, HoldSteps
<1> QED
  BY <1>1, <1>2, InvHolds, PTL DEF Spec, HoldSpec, Hold!Spec
=============================================================================
