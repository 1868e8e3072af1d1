----------------------------- MODULE BookingRetry -----------------------------
(***************************************************************************)
(* A booking that a page sends again after an answer was lost              *)
(* (EquipmentPage.tsx, StudiosPage.tsx): the page keeps one key for as     *)
(* long as the details are the same, and the server looks under that key,  *)
(* behind a lock, before it books.  "kind" says which of the two it is; a  *)
(* machine is paid for by card, since only then is its key kept.           *)
(*                                                                         *)
(* What becomes of the hold and its payment is in EquipmentBilling and     *)
(* StudioRentals; here it stands or is over.                               *)
(***************************************************************************)
EXTENDS Naturals

CONSTANTS Slot, None, MaxKey, MaxCalls

VARIABLES
  kind,
  page,    \* attempt, with the signature and the key, and whether a call is under way (busy)
  call,    \* what was sent: the page hears of the latest only
  row,     \* the bookings, by the key they were made with
  other,   \* slots that others have
  \* History:
  letgo,   \* keys that the page put away because of an answer
  misled   \* a conflict was answered to a key that has the slot, or a key called used for other details

vars == <<kind, page, call, row, other, letgo, misled>>

Key == 1..MaxKey
NoAttempt == [slot |-> None, key |-> 0]
NoRow == [slot |-> None, status |-> "none"]
NoCall == [pc |-> "none", key |-> 0, slot |-> None, heard |-> FALSE, answer |-> "none"]
Standing == {"held", "booked"}

TypeOK ==
  /\ page \in [attempt : [slot : Slot \cup {None}, key : 0..MaxKey], keys : 0..MaxKey, busy : BOOLEAN]
  /\ call \in [1..MaxCalls -> [pc : {"none", "sent", "locked", "made", "answered", "over"}, key : 0..MaxKey, slot : Slot \cup {None},
                               heard : BOOLEAN, answer : {"none", "url", "booked", "expired", "conflict", "reused", "refused"}]]
  /\ row \in [Key -> [slot : Slot \cup {None}, status : {"none", "held", "booked", "expired", "cancelled"}]]
  /\ other \subseteq Slot /\ letgo \subseteq Key

Calls == 1..MaxCalls

-----------------------------------------------------------------------------
(* The page.                                                               *)

\* A slip: the key stays when the details change.
KeptAnyway(s) == page.attempt.key # 0

Same(s) == page.attempt.slot = s

Submit(n, s) ==
  /\ ~ page.busy
  /\ call[n].pc = "none" /\ \A i \in 1..n-1 : call[i].pc # "none"
  /\ LET key == IF Same(s) THEN page.attempt.key ELSE page.keys + 1
     IN /\ key \in Key
        /\ page' = [attempt |-> [slot |-> s, key |-> key], keys |-> IF key > page.keys THEN key ELSE page.keys, busy |-> TRUE]
        /\ call' = [call EXCEPT ![n] = [NoCall EXCEPT !.pc = "sent", !.key = key, !.slot = s, !.heard = TRUE]]
  /\ UNCHANGED <<kind, row, other, letgo, misled>>

\* A slip: the key is put away after any answer.
AnyAnswer(a) == TRUE

Final(a) == a \in (IF kind = "machine" THEN {"url", "booked", "expired", "reused"} ELSE {"url", "booked"})

\* Checkout is another page; to come back is to begin anew.
Take(n) ==
  LET c == call[n]
  IN /\ c.pc = "answered" /\ c.heard
     /\ call' = [call EXCEPT ![n] = [NoCall EXCEPT !.pc = "over"]]
     /\ page' = [page EXCEPT !.busy = FALSE, !.attempt = IF Final(c.answer) THEN NoAttempt ELSE @]
     /\ letgo' = IF Final(c.answer) THEN letgo \cup {c.key} ELSE letgo
     /\ UNCHANGED <<kind, row, other, misled>>

\* The connection is lost; the server may go on with the request.
Lose(n) ==
  /\ call[n].heard
  /\ call' = [call EXCEPT ![n].heard = FALSE]
  /\ page' = [page EXCEPT !.busy = FALSE]
  /\ UNCHANGED <<kind, row, other, letgo, misled>>

Reload ==
  /\ page.busy \/ page.attempt # NoAttempt
  /\ page' = [page EXCEPT !.busy = FALSE, !.attempt = NoAttempt]
  /\ call' = [n \in Calls |-> [call[n] EXCEPT !.heard = FALSE]]
  /\ UNCHANGED <<kind, row, other, letgo, misled>>

-----------------------------------------------------------------------------
(* The server.                                                             *)

\* A slip: nothing is locked.
NoLock(n) == TRUE

\* Advisory: on the payer for machines, on the key for studios.
KeyFree(n) == \A i \in Calls : call[i].pc = "locked" => kind = "studio" /\ call[i].key # call[n].key

Answered(n, a) == call' = [call EXCEPT ![n].pc = "answered", ![n].answer = a]

Look(n) ==
  LET c == call[n]
      r == row[c.key]
  IN /\ c.pc = "sent" /\ KeyFree(n)
     /\ IF r.status = "none" THEN call' = [call EXCEPT ![n].pc = "locked"] /\ UNCHANGED misled
        ELSE IF r.slot # c.slot THEN Answered(n, "reused") /\ misled' = TRUE
        ELSE call' = [call EXCEPT ![n].pc = "made"] /\ UNCHANGED misled
     /\ UNCHANGED <<kind, page, row, other, letgo>>

\* The slot is checked, or the constraint does so, behind a lock on what is
\* booked; the request may be refused for other reasons, and a key is unique.
Commit(n) ==
  LET c == call[n]
      taken == c.slot \in other \/ \E k \in Key : row[k].slot = c.slot /\ row[k].status \in Standing
  IN /\ c.pc = "locked"
     /\ \/ taken /\ Answered(n, "conflict") /\ UNCHANGED row
           /\ misled' = (misled \/ row[c.key].status \in Standing)
        \/ ~ taken /\ row[c.key].status = "none"
           /\ row' = [row EXCEPT ![c.key] = [slot |-> c.slot, status |-> "held"]]
           /\ call' = [call EXCEPT ![n].pc = "made"] /\ UNCHANGED misled
        \/ Answered(n, "refused") /\ UNCHANGED <<row, misled>>
     /\ UNCHANGED <<kind, page, other, letgo>>

\* checkout(), or the rental as it is.  Stripe may not answer.
Conclude(n) ==
  LET s == row[call[n].key].status
  IN /\ call[n].pc = "made"
     /\ \/ Answered(n, IF s = "held" THEN "url"
                       ELSE IF s = "booked" \/ kind = "studio" THEN "booked"
                       ELSE IF s = "expired" THEN "expired" ELSE "refused")
        \/ s = "held" /\ kind = "studio" /\ Answered(n, "booked")
        \/ s = "held" /\ Answered(n, "refused")
     /\ UNCHANGED <<kind, page, row, other, letgo, misled>>

\* A hold is paid for or runs out, a booking is cancelled.
Step(k) ==
  /\ row[k].status \in Standing
  /\ \E s \in IF row[k].status = "held" THEN {"booked", "expired"} ELSE {"cancelled"} : row' = [row EXCEPT ![k].status = s]
  /\ UNCHANGED <<kind, page, call, other, letgo, misled>>

Others(s) ==
  /\ s \in other \/ \A k \in Key : ~ (row[k].slot = s /\ row[k].status \in Standing)
  /\ other' = IF s \in other THEN other \ {s} ELSE other \cup {s}
  /\ UNCHANGED <<kind, page, call, row, letgo, misled>>

Init ==
  /\ kind \in {"machine", "studio"}
  /\ page = [attempt |-> NoAttempt, keys |-> 0, busy |-> FALSE]
  /\ call = [n \in Calls |-> NoCall]
  /\ row = [k \in Key |-> NoRow]
  /\ other = {} /\ letgo = {} /\ misled = FALSE

Next ==
  \/ \E n \in Calls : \/ Take(n) \/ Lose(n) \/ Look(n) \/ Commit(n) \/ Conclude(n)
                      \/ \E s \in Slot : Submit(n, s)
  \/ Reload
  \/ \E k \in Key : Step(k)
  \/ \E s \in Slot : Others(s)

Spec == Init /\ [][Next]_vars

-----------------------------------------------------------------------------
(* Properties.                                                             *)

\* A request that is sent again is never told that the slot, which it got the
\* first time, is taken, nor that its key was used for other details, though
\* requests with one key overlap.
ConflictIsAnothers == ~ misled

\* A key that the page put away after an answer has its booking: whatever else
\* was sent with it, and is late, books nothing more.
LetGoIsSettled == \A k \in letgo : row[k].status # "none"
=============================================================================
