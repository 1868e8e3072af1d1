------------------------------ MODULE Sessions ------------------------------
(***************************************************************************)
(* Signing in, renewing and ending sign-ins, and password resets of one    *)
(* account.  A sign-in is a refresh family with a chain of refresh tokens, *)
(* of which one at a time may be exchanged for the next.                   *)
(*                                                                         *)
(* A call is one HTTP request.  Its statements are separate steps; inside  *)
(* a transaction it holds the account row (SHARE to sign in and renew,     *)
(* UPDATE to reset) and at most one family row until it commits, and what  *)
(* it writes shows at the commit.  Its process can die at any step.        *)
(*                                                                         *)
(* Left out: access tokens, which are valid only while their family is,    *)
(* accounts that are not confirmed, and the absolute lifetime's value.     *)
(***************************************************************************)
EXTENDS Naturals

CONSTANTS
  Call,        \* overlapping requests
  Family,      \* refresh families, in no order
  MaxToken,    \* bound: refresh tokens of a family
  MaxSecret,   \* bound: password changes
  MaxLink      \* bound: reset links

ASSUME SessionsAssumption ==
  /\ MaxToken \in Nat \ {0}
  /\ MaxSecret \in Nat
  /\ MaxLink \in Nat

VARIABLES
  account,   \* the stored password hash and whether the account is active
  family,    \* of each family its state and the number of tokens issued in it
  consumed,  \* refresh tokens that were exchanged
  link,      \* the one reset link that works, 0 if none, and how many were sent
  call,      \* where each request is
  secret,    \* history: the password chosen by the last reset
  knew,      \* history: the password a family's sign-in proved
  shown      \* history: tokens presented with their family's CSRF token and answered

vars == <<account, family, consumed, link, call, secret, knew, shown>>

\* A hash is the password in it and whether it is in the legacy format.  Every
\* reset chooses a new password, so a password is hashed with bcrypt for storage
\* once and its salt needs no name.
Hash == [word: 0..MaxSecret, legacy: BOOLEAN]

Bcrypt(word) == [word |-> word, legacy |-> FALSE]

Token == Family \X (1..MaxToken)

FamilyState == {"none", "live", "revoked", "expired"}

Free == [at |-> "idle"]

\* A sign-in with the hash it verified, a renewal of a token, a reset by a link.
Login == [at: {"verified", "outrun", "upgraded", "locked", "ready"}, hash: Hash,
          previous: Family \cup {"no family"}, active: BOOLEAN]

Renewal == [at: {"presented", "sharing", "holding"}, token: Token, used: BOOLEAN, active: BOOLEAN]

Reset == [at: {"opened", "owning", "spent"}, n: 1..MaxLink]

At(c, stage) == call[c].at = stage

End(c) == call' = [call EXCEPT ![c] = Free]

\* A sign-in goes on with a hash, a renewal with what it read, a reset with its link.
SigningIn(c, stage, hash, active) ==
  call' = [call EXCEPT ![c] =
    [at |-> stage, hash |-> hash, previous |-> call[c].previous, active |-> active]]

Renewing(c, stage, used, active) ==
  call' = [call EXCEPT ![c] =
    [at |-> stage, token |-> call[c].token, used |-> used, active |-> active]]

Resetting(c, stage) == call' = [call EXCEPT ![c] = [at |-> stage, n |-> call[c].n]]

-----------------------------------------------------------------------------
(* Row locks.                                                              *)

Sharing(c) == call[c].at \in {"locked", "ready", "sharing", "holding"}

Owning(c) == call[c].at \in {"owning", "spent"}

Holding(c, f) ==
  \/ At(c, "holding") /\ call[c].token[1] = f
  \/ At(c, "ready") /\ call[c].previous = f

\* SELECT ... FROM "user" ... FOR SHARE, and FOR UPDATE or a plain UPDATE.
CanShare(c) == \A d \in Call : ~ Owning(d)

\* A slip: changes of the account wait for nobody but each other.
OwnOverShares == \A d \in Call : ~ Owning(d)

CanOwn == \A d \in Call : ~ Owning(d) /\ ~ Sharing(d)

\* A slip: rotate reads the family without FOR UPDATE.
NoFamilyLock(c, f) == TRUE

FamilyFree(c, f) == \A d \in Call : d # c => ~ Holding(d, f)

\* UPDATE app_refresh_family SET revoked=true over a set of families.
Revoke(fs) == [f \in Family |->
  IF f \in fs /\ family[f].state = "live" THEN [family[f] EXCEPT !.state = "revoked"] ELSE family[f]]

-----------------------------------------------------------------------------
(* login and establish.                                                    *)

\* The hash is read and the password found to be the one in it.
Verify(c, p) ==
  /\ At(c, "idle")
  /\ p \in Family => family[p].state # "none"
  /\ call' = [call EXCEPT ![c] =
       [at |-> IF account.hash.legacy THEN "verified" ELSE "upgraded",
        hash |-> account.hash, previous |-> p, active |-> FALSE]]
  /\ UNCHANGED <<account, family, consumed, link, secret, knew, shown>>

\* A slip: the upgraded hash is stored whatever hash is there by now.
UpgradeAnyway(c) ==
  /\ At(c, "verified")
  /\ CanOwn
  /\ account' = [account EXCEPT !.hash = Bcrypt(call[c].hash.word)]
  /\ SigningIn(c, "upgraded", Bcrypt(call[c].hash.word), FALSE)
  /\ UNCHANGED <<family, consumed, link, secret, knew, shown>>

\* A legacy hash is replaced by a new hash of the same password, unless the
\* stored hash is no longer the verified one.
Upgrade(c) ==
  /\ At(c, "verified")
  /\ CanOwn
  /\ IF account.hash = call[c].hash
     THEN /\ account' = [account EXCEPT !.hash = Bcrypt(call[c].hash.word)]
          /\ SigningIn(c, "upgraded", Bcrypt(call[c].hash.word), FALSE)
     ELSE SigningIn(c, "outrun", call[c].hash, FALSE) /\ UNCHANGED account
  /\ UNCHANGED <<family, consumed, link, secret, knew, shown>>

\* Somebody else's hash is accepted after verifying the password again.
VerifyAgain(c) ==
  /\ At(c, "outrun")
  /\ IF account.hash.word = call[c].hash.word
     THEN SigningIn(c, "upgraded", account.hash, FALSE)
     ELSE End(c)
  /\ UNCHANGED <<account, family, consumed, link, secret, knew, shown>>

\* A slip: the hash is not compared again under the lock.
LockAccountOnly(c) ==
  /\ At(c, "upgraded")
  /\ CanShare(c)
  /\ SigningIn(c, "locked", call[c].hash, FALSE)
  /\ UNCHANGED <<account, family, consumed, link, secret, knew, shown>>

\* The account is locked and its hash compared with the verified one.
LockAccount(c) ==
  /\ At(c, "upgraded")
  /\ CanShare(c)
  /\ IF account.hash = call[c].hash THEN SigningIn(c, "locked", call[c].hash, FALSE) ELSE End(c)
  /\ UNCHANGED <<account, family, consumed, link, secret, knew, shown>>

\* The browser's previous family is revoked, and the status of the account read.
RevokePrevious(c) ==
  /\ At(c, "locked")
  /\ call[c].previous \in Family => FamilyFree(c, call[c].previous)
  /\ SigningIn(c, "ready", call[c].hash, account.active)
  /\ UNCHANGED <<account, family, consumed, link, secret, knew, shown>>

\* A family with its first token is committed with the revocation.
SignIn(c, f) ==
  /\ At(c, "ready")
  /\ call[c].active
  /\ family[f].state = "none"
  /\ family' = [Revoke({call[c].previous}) EXCEPT ![f] = [state |-> "live", issued |-> 1]]
  /\ knew' = [knew EXCEPT ![f] = call[c].hash.word]
  /\ End(c)
  /\ UNCHANGED <<account, consumed, link, secret, shown>>

-----------------------------------------------------------------------------
(* refresh.                                                                *)

Present(c, t) ==
  /\ At(c, "idle")
  /\ family[t[1]].state # "none"
  /\ t[2] <= family[t[1]].issued
  /\ call' = [call EXCEPT ![c] = [at |-> "presented", token |-> t, used |-> FALSE, active |-> FALSE]]
  /\ UNCHANGED <<account, family, consumed, link, secret, knew, shown>>

ShareAccount(c) ==
  /\ At(c, "presented")
  /\ CanShare(c)
  /\ Renewing(c, "sharing", FALSE, FALSE)
  /\ UNCHANGED <<account, family, consumed, link, secret, knew, shown>>

\* The family is locked; if it still counts and the CSRF token is right, the
\* token's use and the account's status are read.
LockFamily(c) ==
  /\ At(c, "sharing")
  /\ FamilyFree(c, call[c].token[1])
  /\ \/ /\ family[call[c].token[1]].state = "live"
        /\ Renewing(c, "holding", call[c].token \in consumed, account.active)
     \/ End(c)
  /\ UNCHANGED <<account, family, consumed, link, secret, knew, shown>>

\* A token that was used, or an account that is not active, ends the family.
EndReplay(c) ==
  /\ At(c, "holding")
  /\ call[c].used \/ ~ call[c].active
  /\ family' = Revoke({call[c].token[1]})
  /\ shown' = [shown EXCEPT ![call[c].token] = @ + 1]
  /\ End(c)
  /\ UNCHANGED <<account, consumed, link, secret, knew>>

\* Else it is exchanged for the next one.
Exchange(c) ==
  /\ At(c, "holding")
  /\ ~ call[c].used /\ call[c].active
  /\ family[call[c].token[1]].issued < MaxToken
  /\ family' = [family EXCEPT ![call[c].token[1]].issued = @ + 1]
  /\ consumed' = consumed \cup {call[c].token}
  /\ shown' = [shown EXCEPT ![call[c].token] = @ + 1]
  /\ End(c)
  /\ UNCHANGED <<account, link, secret, knew>>

-----------------------------------------------------------------------------
(* consumePasswordReset and issuePasswordReset.                            *)

\* passwordReset: a new link replaces the one before.  A closed account gets
\* none, one that is blocked only from the building may; neither is told apart.
SendLink ==
  /\ CanOwn
  /\ link.sent < MaxLink
  /\ link' = [works |-> link.sent + 1, sent |-> link.sent + 1]
  /\ UNCHANGED <<account, family, consumed, call, secret, knew, shown>>

\* The link is looked up, and works when the statement begins.
Open(c, n) ==
  /\ At(c, "idle")
  /\ link.works = n
  /\ call' = [call EXCEPT ![c] = [at |-> "opened", n |-> n]]
  /\ UNCHANGED <<account, family, consumed, link, secret, knew, shown>>

\* Then the account row is waited for; a closed account is refused.
OwnAccount(c) ==
  /\ At(c, "opened")
  /\ CanOwn
  /\ Resetting(c, "owning") \/ (~ account.active /\ End(c))
  /\ UNCHANGED <<account, family, consumed, link, secret, knew, shown>>

\* A slip: the link is deleted without asking whether it was still there.
SpendAnyLink(c) ==
  /\ At(c, "owning")
  /\ Resetting(c, "spent")
  /\ UNCHANGED <<account, family, consumed, link, secret, knew, shown>>

\* DELETE ... RETURNING under the lock: only the link that still works counts.
SpendLink(c) ==
  /\ At(c, "owning")
  /\ \/ link.works = call[c].n /\ Resetting(c, "spent")
     \/ End(c)
  /\ UNCHANGED <<account, family, consumed, link, secret, knew, shown>>

\* The new password is stored and every family of the account revoked.
ChangePassword(c) ==
  /\ At(c, "spent")
  /\ \A f \in Family : FamilyFree(c, f)
  /\ secret < MaxSecret
  /\ secret' = secret + 1
  /\ account' = [account EXCEPT !.hash = Bcrypt(secret + 1)]
  /\ family' = Revoke(Family)
  /\ link' = [link EXCEPT !.works = 0]
  /\ End(c)
  /\ UNCHANGED <<consumed, knew, shown>>

-----------------------------------------------------------------------------
(* Everybody else.                                                         *)

\* logout: one UPDATE of the family.
Logout(f) ==
  /\ \A c \in Call : ~ Holding(c, f)
  /\ family[f].state = "live"
  /\ family' = Revoke({f})
  /\ UNCHANGED <<account, consumed, link, call, secret, knew, shown>>

\* Staff block or restore the account, or SQL does: the families end with it.
SetActive(on) ==
  /\ CanOwn
  /\ on => ~ account.active
  /\ \A c \in Call, f \in Family : ~ Holding(c, f)
  /\ account' = [account EXCEPT !.active = on]
  /\ family' = Revoke(Family)
  /\ UNCHANGED <<consumed, link, call, secret, knew, shown>>

Expire(f) ==
  /\ family[f].state = "live"
  /\ family' = [family EXCEPT ![f].state = "expired"]
  /\ UNCHANGED <<account, consumed, link, call, secret, knew, shown>>

\* The transaction rolls back, or the process dies.
Abort(c) ==
  /\ ~ At(c, "idle")
  /\ End(c)
  /\ UNCHANGED <<account, family, consumed, link, secret, knew, shown>>

-----------------------------------------------------------------------------

Init ==
  /\ account = [hash |-> [word |-> 0, legacy |-> TRUE], active |-> TRUE]
  /\ family = [f \in Family |-> [state |-> "none", issued |-> 0]]
  /\ consumed = {}
  /\ link = [works |-> 0, sent |-> 0]
  /\ call = [c \in Call |-> Free]
  /\ secret = 0
  /\ knew = [f \in Family |-> 0]
  /\ shown = [t \in Token |-> 0]

Next ==
  \/ \E c \in Call :
       \/ \E p \in Family \cup {"no family"} : Verify(c, p)
       \/ Upgrade(c) \/ VerifyAgain(c) \/ LockAccount(c) \/ RevokePrevious(c)
       \/ \E f \in Family : SignIn(c, f)
       \/ \E t \in Token : Present(c, t)
       \/ ShareAccount(c) \/ LockFamily(c) \/ EndReplay(c) \/ Exchange(c)
       \/ \E n \in 1..MaxLink : Open(c, n)
       \/ OwnAccount(c) \/ SpendLink(c) \/ ChangePassword(c)
       \/ Abort(c)
  \/ SendLink
  \/ \E f \in Family : Logout(f) \/ Expire(f)
  \/ \E on \in BOOLEAN : SetActive(on)

Spec == Init /\ [][Next]_vars

-----------------------------------------------------------------------------
(* Properties.                                                             *)

TypeOK ==
  /\ account \in [hash: Hash, active: BOOLEAN]
  /\ family \in [Family -> [state: FamilyState, issued: 0..MaxToken]]
  /\ consumed \subseteq Token
  /\ link \in [works: 0..MaxLink, sent: 0..MaxLink]
  /\ link.works \in {0, link.sent}
  /\ call \in [Call -> Login \cup Renewal \cup Reset \cup {Free}]
  /\ secret \in 0..MaxSecret
  /\ knew \in [Family -> 0..MaxSecret]
  /\ shown \in [Token -> Nat]

\* A sign-in that counts was made with the present password: one whose password
\* was verified before a reset does not outlive the reset, however slow it is.
SignInsAreCurrent == \A f \in Family : family[f].state = "live" => knew[f] = secret

\* A blocked account has no sign-in that counts, not even one that was being
\* made or renewed when the account was blocked.
BlockedIsSignedOut == ~ account.active => \A f \in Family : family[f].state # "live"

\* However renewals overlap, a family's tokens form one chain: only the newest
\* of them is left to exchange.
OneSuccessor ==
  \A f \in Family : family[f].state = "live" =>
    \A i \in 1..family[f].issued : <<f, i>> \in consumed <=> i # family[f].issued

\* A family of which one token was presented twice is over.
ReplayEndsFamily == \A t \in Token : shown[t] > 1 => family[t[1]].state # "live"

\* No upgrade of an old hash undoes a reset.
ResetIsKept == account.hash.word = secret

\* Nor does it turn away the right password: a sign-in that has passed the
\* upgrade with the present password holds the present hash.
RightPasswordPasses ==
  \A c \in Call : At(c, "upgraded") /\ call[c].hash.word = secret => call[c].hash = account.hash

\* A password is changed only by the link that works, which is used up by it:
\* of two requests with one link, or with an old and a new link, one counts.
ChangedByLink ==
  [][secret' # secret =>
       /\ \E c \in Call : At(c, "spent") /\ call[c].n = link.works
       /\ link'.works = 0]_vars

\* Overlapping renewals leave one token to exchange, and a replay ends it all.
FamiliesStand == OneSuccessor /\ ReplayEndsFamily

\* An upgrade neither undoes a reset nor turns the right password away.
PasswordsKept == ResetIsKept /\ RightPasswordPasses
=============================================================================
