------------------------ MODULE PendingRegistration ------------------------
(***************************************************************************)
(* Signing up (confirmation/pendingRegistration.ts, AuthController).  A    *)
(* request waits, without an account, for the link mailed to its address;  *)
(* the link can be asked for again, to a corrected address, and is used    *)
(* once.  Advisory locks on the addresses order the transactions; the      *)
(* worker and every sign-up prune what has expired, without those locks.   *)
(*                                                                         *)
(* A password belongs to whoever chose it, so a request is known by its    *)
(* person.  The minute between two mails is left out, and the mails, which *)
(* are NotificationOutbox's: a link is in its inbox at once.               *)
(***************************************************************************)
EXTENDS Naturals, FiniteSets, FiniteSetsExt

CONSTANTS
  Email,   \* addresses, 1 .. n in their sorting order
  Person,  \* people who sign up, with a password each
  Token,   \* links, as many as the run sends
  Tx

VARIABLES
  pending,  \* app_pending_registration, by address
  account,  \* "user": whose account an address has, and the link that made it
  sent,     \* where each link was mailed, and for whose request
  tx

vars == <<pending, account, sent, tx>>

NoRow == [person |-> "none", token |-> "none", live |-> FALSE]
NoAccount == [person |-> "none", token |-> "none"]
NotSent == [email |-> 0, person |-> "none"]
Idle == [pc |-> "idle", do |-> "none", person |-> "none", email |-> 0, new |-> 0, token |-> "none",
         want |-> {}, locked |-> {}]

TypeOK ==
  /\ pending \in [Email -> [person : Person \cup {"none"}, token : Token \cup {"none"}, live : BOOLEAN]]
  /\ account \in [Email -> [person : Person \cup {"none"}, token : Token \cup {"none"}]]
  /\ sent \in [Token -> [email : Email \cup {0}, person : Person \cup {"none"}]]
  /\ \A t \in Tx : tx[t].pc \in {"idle", "lock", "run"} /\ tx[t].want \subseteq Email

-----------------------------------------------------------------------------
(* The requests, and the locks on their addresses.                         *)

Start(t, row) == tx[t].pc = "idle" /\ tx' = [tx EXCEPT ![t] = row]

BeginSignUp(t, p, e) ==
  /\ Start(t, [Idle EXCEPT !.pc = "lock", !.do = "sign up", !.person = p, !.email = e, !.want = {e}])
  /\ UNCHANGED <<pending, account, sent>>

\* new is the address itself when nothing is corrected.
BeginResend(t, p, e, new) ==
  /\ Start(t, [Idle EXCEPT !.pc = "lock", !.do = "resend", !.person = p, !.email = e, !.new = new,
                           !.want = {e, new}])
  /\ UNCHANGED <<pending, account, sent>>

\* The address is looked up by the link, before anything is locked.
BeginConfirm(t, k) ==
  \E e \in Email :
    /\ pending[e].token = k
    /\ Start(t, [Idle EXCEPT !.pc = "lock", !.do = "confirm", !.email = e, !.token = k, !.want = {e}])
    /\ UNCHANGED <<pending, account, sent>>

Free(t, e) == \A u \in Tx \ {t} : e \notin tx[u].locked

NextLock(t) == Min(tx[t].want)

TakeLock(t) ==
  LET e == NextLock(t)
  IN /\ tx[t].pc = "lock" /\ Free(t, e)
     /\ tx' = [tx EXCEPT ![t].locked = @ \cup {e}, ![t].want = @ \ {e},
                         ![t].pc = IF tx[t].want = {e} THEN "run" ELSE "lock"]
     /\ UNCHANGED <<pending, account, sent>>

Leave(t) == tx' = [tx EXCEPT ![t] = Idle]

-----------------------------------------------------------------------------
(* The transactions, under the locks.                                      *)

\* sendRegistrationConfirmation, with a link that is new.
Mail(k, e, p) ==
  /\ sent[k] = NotSent
  /\ sent' = [sent EXCEPT ![k] = [email |-> e, person |-> p]]

\* stageRegistration; a second request for an address changes nothing.
SignUp(t) ==
  LET e == tx[t].email
  IN /\ tx[t].pc = "run" /\ tx[t].do = "sign up"
     /\ account[e] = NoAccount /\ pending[e] = NoRow
     /\ \E k \in Token :
          /\ Mail(k, e, tx[t].person)
          /\ pending' = [pending EXCEPT ![e] = [person |-> tx[t].person, token |-> k, live |-> TRUE]]
     /\ Leave(t)
     /\ UNCHANGED account

Moved(row, k) == [row EXCEPT !.token = k, !.live = TRUE]

\* resendRegistration; an address that another request has refuses (23505).
Resend(t) ==
  LET e == tx[t].email  new == tx[t].new
  IN /\ tx[t].pc = "run" /\ tx[t].do = "resend"
     /\ pending[e].person = tx[t].person
     /\ new # e => account[new] = NoAccount /\ pending[new] = NoRow
     /\ \E k \in Token :
          /\ Mail(k, new, tx[t].person)
          /\ pending' = [[pending EXCEPT ![e] = NoRow] EXCEPT ![new] = Moved(pending[e], k)]
     /\ Leave(t)
     /\ UNCHANGED account

\* A slip: the request is found again by the address.
FoundByEmail(t) == pending[tx[t].email]

\* The request is found again by the link, wherever it is now.
Found(t) ==
  LET rows == {pending[e] : e \in {d \in Email : pending[d].token = tx[t].token}}
  IN IF rows = {} THEN NoRow ELSE CHOOSE row \in rows : TRUE

\* Where that request is.
At(row) == CHOOSE e \in Email : pending[e] = row

\* consumeRegistration; an address that has an account refuses (23505).
Confirm(t) ==
  LET row == Found(t)  e == At(row)
  IN /\ tx[t].pc = "run" /\ tx[t].do = "confirm"
     /\ row # NoRow /\ row.live /\ account[e] = NoAccount
     /\ account' = [account EXCEPT ![e] = [person |-> row.person, token |-> tx[t].token]]
     /\ pending' = [pending EXCEPT ![e] = NoRow]
     /\ Leave(t)
     /\ UNCHANGED sent

\* A refusal, an error, or the end of the connection.
Abort(t) ==
  /\ tx[t].pc # "idle" /\ Leave(t)
  /\ UNCHANGED <<pending, account, sent>>

-----------------------------------------------------------------------------

\* A day has passed since the link was sent.
Expire(e) ==
  /\ pending[e].live
  /\ pending' = [pending EXCEPT ![e].live = FALSE]
  /\ UNCHANGED <<account, sent, tx>>

\* pruneRegistrations.
Prune ==
  /\ \E e \in Email : pending[e] # NoRow /\ ~ pending[e].live
  /\ pending' = [e \in Email |-> IF pending[e].live THEN pending[e] ELSE NoRow]
  /\ UNCHANGED <<account, sent, tx>>

Init ==
  /\ pending = [e \in Email |-> NoRow]
  /\ account = [e \in Email |-> NoAccount]
  /\ sent = [k \in Token |-> NotSent]
  /\ tx = [t \in Tx |-> Idle]

Next ==
  \/ \E t \in Tx :
       \/ \E p \in Person, e \in Email : BeginSignUp(t, p, e) \/ \E new \in Email : BeginResend(t, p, e, new)
       \/ \E k \in Token : BeginConfirm(t, k)
       \/ TakeLock(t) \/ SignUp(t) \/ Resend(t) \/ Confirm(t) \/ Abort(t)
  \/ \E e \in Email : Expire(e)
  \/ Prune

Spec == Init /\ [][Next]_vars

-----------------------------------------------------------------------------
(* Properties.                                                             *)

\* Every account belongs to the person who asked for the link that made it,
\* and that link was mailed to the account's address and to no other, however
\* requests expired, were made anew and corrected while the link was followed.
AddressProven ==
  \A e \in Email : account[e] # NoAccount =>
    sent[account[e].token] = [email |-> e, person |-> account[e].person]

\* Two people who correct their addresses to each other's do not wait for
\* each other.
NoWaitingInACircle ==
  \A t, u \in Tx : ~ /\ t # u /\ tx[t].pc = "lock" /\ tx[u].pc = "lock"
                     /\ NextLock(t) \in tx[u].locked /\ NextLock(u) \in tx[t].locked
=============================================================================
