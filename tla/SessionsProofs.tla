--------------------------- MODULE SessionsProofs ---------------------------
(***************************************************************************)
(* Proofs about sign-ins, and about the pages that have one.               *)
(*                                                                         *)
(* The argument about sign-ins is what the row locks protect: nobody       *)
(* changes the account between a sign-in's or a renewal's look at it and   *)
(* the commit (Credentials), and nobody exchanges a token of a family      *)
(* between a renewal's look at the token and its commit (Chain).           *)
(*                                                                         *)
(* The pages are three: what one shows of a resource (DataInv), the scans  *)
(* it opens (ScanInv), and the sign-in it shows and acts for (PageInv).    *)
(* Each argues that of the answers to come those that will be taken up are *)
(* few, and true when they are.                                            *)
(***************************************************************************)
EXTENDS MCSessions, TLAPS

\* What a request has read of the account is still so while it holds a lock.
ReadOf(c) ==
  /\ At(c, "verified") => call[c].hash.legacy /\ call[c].hash.word = 0
  /\ At(c, "outrun") => ~ account.hash.legacy
  /\ At(c, "upgraded") => ~ call[c].hash.legacy /\ ~ account.hash.legacy
  /\ call[c].at \in {"locked", "ready"} => call[c].hash = account.hash
  /\ call[c].at \in {"ready", "holding"} => call[c].active = account.active
  /\ At(c, "spent") => call[c].n = link.works

Credentials ==
  /\ ResetIsKept
  /\ account.hash.legacy => secret = 0
  /\ \A c \in Call : ReadOf(c)

\* The locks of two requests go together.
Compatible(c, d) ==
  /\ Owning(c) => ~ Owning(d) /\ ~ Sharing(d)
  /\ Sharing(c) => ~ Owning(d)
  /\ \A f \in Family : ~ (Holding(c, f) /\ Holding(d, f))

Locks == \A c, d \in Call : c # d => Compatible(c, d)

\* The token of a renewal was issued, and its use known once the family is held.
TokenOf(c) ==
  /\ call[c].at \in {"presented", "sharing", "holding"} =>
       /\ family[call[c].token[1]].state # "none"
       /\ call[c].token[2] <= family[call[c].token[1]].issued
  /\ At(c, "holding") => (call[c].used <=> call[c].token \in consumed)

\* The consumed tokens of a family are those before its newest.
Chain ==
  /\ \A f \in Family, i \in 1..MaxToken : <<f, i>> \in consumed <=> i < family[f].issued
  /\ \A f \in Family : family[f].state = "none" => family[f].issued = 0
  /\ \A c \in Call : TokenOf(c)

SignInsHold == SignInsAreCurrent /\ BlockedIsSignedOut

\* A token that was answered is consumed or its family over.
Answered ==
  \A t \in Token :
    /\ family[t[1]].state = "none" => shown[t] = 0
    /\ family[t[1]].state = "live" => shown[t] = 0 \/ (shown[t] = 1 /\ t \in consumed)

IInv == TypeOK /\ Credentials /\ Locks /\ Chain /\ SignInsHold /\ Answered

-----------------------------------------------------------------------------
(* Requests and families.                                                  *)

Request == Login \cup Renewal \cup Reset \cup {Free}

LEMMA CallFields ==
  ASSUME TypeOK, NEW c \in Call
  PROVE  /\ call[c].at \in {"verified", "outrun", "upgraded", "locked", "ready"} =>
              /\ call[c] \in Login
              /\ call[c].hash \in Hash
              /\ call[c].previous \in Family \cup {"no family"}
              /\ call[c].active \in BOOLEAN
         /\ call[c].at \in {"presented", "sharing", "holding"} =>
              /\ call[c] \in Renewal
              /\ call[c].token \in Token
              /\ call[c].used \in BOOLEAN
              /\ call[c].active \in BOOLEAN
         /\ call[c].at \in {"opened", "owning", "spent"} => call[c] \in Reset /\ call[c].n \in 1..MaxLink
         /\ call[c].at = "idle" => call[c] = Free
<1>1. call[c] \in Request
  BY DEF TypeOK, Request
<1>2. CASE call[c] \in Login
  BY <1>2 DEF Login
<1>3. CASE call[c] \in Renewal
  BY <1>3 DEF Renewal
<1>4. CASE call[c] \in Reset
  BY <1>4 DEF Reset
<1>5. CASE call[c] = Free
  BY <1>5 DEF Free
<1> QED
  BY <1>1, <1>2, <1>3, <1>4, <1>5 DEF Request

LEMMA Moves ==
  ASSUME TypeOK, NEW c \in Call, NEW x, call' = [call EXCEPT ![c] = x]
  PROVE  /\ call'[c] = x
         /\ \A d \in Call : d # c => call'[d] = call[d]
         /\ x \in Request => call' \in [Call -> Request]
BY DEF TypeOK, Request

LEMMA TokenParts ==
  ASSUME NEW t \in Token
  PROVE  t[1] \in Family /\ t[2] \in 1..MaxToken /\ t = <<t[1], t[2]>>
BY DEF Token

LEMMA Revokes ==
  ASSUME TypeOK, NEW fs
  PROVE  /\ Revoke(fs) \in [Family -> [state: FamilyState, issued: 0..MaxToken]]
         /\ \A f \in Family :
              /\ Revoke(fs)[f].issued = family[f].issued
              /\ Revoke(fs)[f].state = "none" <=> family[f].state = "none"
              /\ Revoke(fs)[f].state = "live" => family[f].state = "live" /\ f \notin fs
<1>1. \A r \in [state: FamilyState, issued: 0..MaxToken] :
        /\ [r EXCEPT !.state = "revoked"] \in [state: FamilyState, issued: 0..MaxToken]
        /\ [r EXCEPT !.state = "revoked"].state = "revoked"
        /\ [r EXCEPT !.state = "revoked"].issued = r.issued
  BY DEF FamilyState
<1>2. \A f \in Family : family[f] \in [state: FamilyState, issued: 0..MaxToken]
  BY DEF TypeOK
<1> QED
  BY <1>1, <1>2 DEF Revoke

\* The account's two fields.
LEMMA AccountFields ==
  ASSUME NEW a \in [hash: Hash, active: BOOLEAN], NEW w \in 0..MaxSecret, NEW on \in BOOLEAN
  PROVE  /\ a.hash \in Hash /\ a.active \in BOOLEAN
         /\ a.hash.word \in 0..MaxSecret /\ a.hash.legacy \in BOOLEAN
         /\ Bcrypt(w) \in Hash /\ Bcrypt(w).word = w /\ Bcrypt(w).legacy = FALSE
         /\ [a EXCEPT !.hash = Bcrypt(w)] \in [hash: Hash, active: BOOLEAN]
         /\ [a EXCEPT !.hash = Bcrypt(w)].hash = Bcrypt(w)
         /\ [a EXCEPT !.hash = Bcrypt(w)].active = a.active
         /\ [a EXCEPT !.active = on] \in [hash: Hash, active: BOOLEAN]
         /\ [a EXCEPT !.active = on].hash = a.hash
         /\ [a EXCEPT !.active = on].active = on
<1>1. Bcrypt(w) \in Hash /\ Bcrypt(w).word = w /\ Bcrypt(w).legacy = FALSE
  BY DEF Bcrypt, Hash
<1>2. \A h \in Hash : /\ [a EXCEPT !.hash = h] \in [hash: Hash, active: BOOLEAN]
                      /\ [a EXCEPT !.hash = h].hash = h
                      /\ [a EXCEPT !.hash = h].active = a.active
  OBVIOUS
<1>3. a.hash.word \in 0..MaxSecret /\ a.hash.legacy \in BOOLEAN
  BY DEF Hash
<1> QED
  BY <1>1, <1>2, <1>3

LEMMA Zero == 0 \in 0..MaxSecret
BY SessionsAssumption

LEMMA SameHash ==
  ASSUME NEW g \in Hash, NEW h \in Hash, g.legacy, h.legacy, g.word = h.word
  PROVE  g = h
<1>1. g = [word |-> g.word, legacy |-> g.legacy] /\ h = [word |-> h.word, legacy |-> h.legacy]
  BY DEF Hash
<1>2. g.legacy = TRUE /\ h.legacy = TRUE
  BY DEF Hash
<1> QED
  BY <1>1, <1>2

\* The four ways a request goes on.
LEMMA SignsIn ==
  ASSUME TypeOK, NEW c \in Call, call[c].previous \in Family \cup {"no family"},
         NEW stage \in {"verified", "outrun", "upgraded", "locked", "ready"}, NEW hash \in Hash,
         NEW active \in BOOLEAN, SigningIn(c, stage, hash, active)
  PROVE  /\ call' \in [Call -> Request]
         /\ call'[c].at = stage /\ call'[c].hash = hash /\ call'[c].active = active
         /\ call'[c].previous = call[c].previous
         /\ \A d \in Call : d # c => call'[d] = call[d]
<1> DEFINE x == [at |-> stage, hash |-> hash, previous |-> call[c].previous, active |-> active]
<1>1. x \in Request
  BY DEF Request, Login
<1>2. call' = [call EXCEPT ![c] = x]
  BY DEF SigningIn
<1>3. x.at = stage /\ x.hash = hash /\ x.active = active /\ x.previous = call[c].previous
  OBVIOUS
<1> HIDE DEF x
<1> QED
  BY <1>1, <1>2, <1>3, Moves

LEMMA Renews ==
  ASSUME TypeOK, NEW c \in Call, call[c].token \in Token,
         NEW stage \in {"presented", "sharing", "holding"}, NEW used \in BOOLEAN,
         NEW active \in BOOLEAN, Renewing(c, stage, used, active)
  PROVE  /\ call' \in [Call -> Request]
         /\ call'[c].at = stage /\ call'[c].used = used /\ call'[c].active = active
         /\ call'[c].token = call[c].token
         /\ \A d \in Call : d # c => call'[d] = call[d]
<1> DEFINE x == [at |-> stage, token |-> call[c].token, used |-> used, active |-> active]
<1>1. x \in Request
  BY DEF Request, Renewal
<1>2. call' = [call EXCEPT ![c] = x]
  BY DEF Renewing
<1>3. x.at = stage /\ x.used = used /\ x.active = active /\ x.token = call[c].token
  OBVIOUS
<1> HIDE DEF x
<1> QED
  BY <1>1, <1>2, <1>3, Moves

LEMMA Resets ==
  ASSUME TypeOK, NEW c \in Call, call[c].n \in 1..MaxLink,
         NEW stage \in {"opened", "owning", "spent"}, Resetting(c, stage)
  PROVE  /\ call' \in [Call -> Request]
         /\ call'[c].at = stage /\ call'[c].n = call[c].n
         /\ \A d \in Call : d # c => call'[d] = call[d]
<1> DEFINE x == [at |-> stage, n |-> call[c].n]
<1>1. x \in Request
  BY DEF Request, Reset
<1>2. call' = [call EXCEPT ![c] = x]
  BY DEF Resetting
<1>3. x.at = stage /\ x.n = call[c].n
  OBVIOUS
<1> HIDE DEF x
<1> QED
  BY <1>1, <1>2, <1>3, Moves

LEMMA Ends ==
  ASSUME TypeOK, NEW c \in Call, End(c)
  PROVE  /\ call' \in [Call -> Request]
         /\ call'[c].at = "idle"
         /\ \A d \in Call : d # c => call'[d] = call[d]
<1>1. Free \in Request /\ Free.at = "idle"
  BY DEF Request, Free
<1> QED
  BY <1>1, Moves DEF End

-----------------------------------------------------------------------------
(* The invariant.                                                          *)

LEMMA InitHolds == Init => IInv
<1> SUFFICES ASSUME Init
             PROVE  IInv
  OBVIOUS
<1>1. \A c \in Call : call[c].at = "idle"
  BY DEF Init, Free
<1>2. account.hash.word = 0 /\ account.active = TRUE /\ secret = 0
  BY DEF Init
<1>3. \A f \in Family : family[f].state = "none" /\ family[f].issued = 0
  BY DEF Init
<1>4. TypeOK
  <2>1. account \in [hash: Hash, active: BOOLEAN]
    BY SessionsAssumption DEF Init, Hash
  <2>2. family \in [Family -> [state: FamilyState, issued: 0..MaxToken]]
    BY SessionsAssumption DEF Init, FamilyState
  <2>3. link \in [works: 0..MaxLink, sent: 0..MaxLink] /\ link.works \in {0, link.sent}
    BY SessionsAssumption DEF Init
  <2> QED
    BY <2>1, <2>2, <2>3, SessionsAssumption DEF Init, TypeOK
<1>5. Credentials /\ Locks
  BY <1>1, <1>2 DEF Credentials, ResetIsKept, ReadOf, Locks, Compatible, At, Owning, Sharing, Holding
<1>6. Chain
  BY <1>1, <1>3, SessionsAssumption DEF Chain, TokenOf, At, Init
<1>7. SignInsHold /\ Answered
  BY <1>2, <1>3, TokenParts DEF SignInsHold, SignInsAreCurrent, BlockedIsSignedOut, Answered, Init
<1> QED
  BY <1>4, <1>5, <1>6, <1>7 DEF IInv

\* A step of one request that changes nothing else keeps the invariant if what
\* the request has read is so and its locks were free.
LEMMA Quiet ==
  ASSUME IInv, NEW c \in Call, UNCHANGED <<account, family, consumed, link, secret, knew, shown>>,
         call' \in [Call -> Request], \A d \in Call : d # c => call'[d] = call[d],
         ReadOf(c)', TokenOf(c)', \A d \in Call \ {c} : Compatible(c, d)'
  PROVE  IInv'
<1>1. TypeOK'
  BY DEF IInv, TypeOK, Request
<1>2. Credentials'
  BY DEF IInv, Credentials, ResetIsKept, ReadOf, At
<1>3. Chain'
  BY DEF IInv, Chain, TokenOf, At
<1>4. Locks'
  <2>1. ASSUME NEW d \in Call, NEW e \in Call, d # e, d # c, e # c
        PROVE  Compatible(d, e)'
    BY <2>1 DEF IInv, Locks, Compatible, Owning, Sharing, Holding, At
  <2>2. ASSUME NEW d \in Call, d # c
        PROVE  Compatible(d, c)'
    BY <2>2 DEF Compatible
  <2> QED
    BY <2>1, <2>2 DEF Locks
<1>5. SignInsHold' /\ Answered'
  BY DEF IInv, SignInsHold, SignInsAreCurrent, BlockedIsSignedOut, Answered
<1> QED
  BY <1>1, <1>2, <1>3, <1>4, <1>5 DEF IInv

Same == UNCHANGED <<account, family, consumed, link, secret, knew, shown>>

\* A request that holds no lock is compatible with all; so is one that keeps or
\* gives up its locks.
LEMMA NoLock ==
  ASSUME NEW c \in Call, call'[c].at \notin {"locked", "ready", "sharing", "holding", "owning", "spent"}
  PROVE  \A d \in Call : Compatible(c, d)'
BY DEF Compatible, Owning, Sharing, Holding, At

LEMMA Idles == ASSUME IInv, NEW c \in Call, End(c), Same PROVE IInv'
<1>1. /\ call' \in [Call -> Request]
      /\ call'[c].at = "idle"
      /\ \A d \in Call : d # c => call'[d] = call[d]
  BY Ends DEF IInv
<1>2. ReadOf(c)' /\ TokenOf(c)'
  BY <1>1 DEF ReadOf, TokenOf, At
<1> QED
  BY <1>1, <1>2, NoLock, Quiet DEF Same

LEMMA QuietLogin ==
  ASSUME IInv, NEW c \in Call, Same,
         \/ \E p \in Family \cup {"no family"} : Verify(c, p)
         \/ Upgrade(c) \/ VerifyAgain(c) \/ LockAccount(c) \/ RevokePrevious(c)
  PROVE  IInv'
<1>0. TypeOK /\ Credentials /\ Locks /\ ReadOf(c)
  BY DEF IInv, Credentials
<1>1. account \in [hash: Hash, active: BOOLEAN] /\ account.hash \in Hash /\ account.active \in BOOLEAN
  BY <1>0 DEF TypeOK
<1>2. ASSUME NEW p \in Family \cup {"no family"}, Verify(c, p)
      PROVE  IInv'
  <2> DEFINE x == [at |-> IF account.hash.legacy THEN "verified" ELSE "upgraded",
                   hash |-> account.hash, previous |-> p, active |-> FALSE]
  <2>1. x \in Request
    BY <1>1 DEF Request, Login
  <2>2. /\ x.at = "verified" <=> account.hash.legacy
        /\ x.at \in {"verified", "upgraded"}
        /\ x.hash = account.hash
    OBVIOUS
  <2>3. call' = [call EXCEPT ![c] = x]
    BY <1>2 DEF Verify
  <2> HIDE DEF x
  <2>4. /\ call' \in [Call -> Request]
        /\ call'[c] = x
        /\ \A d \in Call : d # c => call'[d] = call[d]
    BY <1>0, <2>1, <2>3, Moves
  <2>5. ReadOf(c)' /\ TokenOf(c)'
    BY <1>0, <2>2, <2>4 DEF ReadOf, TokenOf, At, Same, Credentials, ResetIsKept
  <2>6. \A d \in Call : Compatible(c, d)'
    BY <2>2, <2>4, NoLock
  <2> QED
    BY <2>4, <2>5, <2>6, Quiet DEF Same
<1>3. ASSUME NEW stage \in {"outrun", "upgraded"}, NEW hash \in Hash, SigningIn(c, stage, hash, FALSE),
             call[c].previous \in Family \cup {"no family"}, ~ account.hash.legacy, stage = "upgraded" => ~ hash.legacy
      PROVE  IInv'
  <2>1. /\ call' \in [Call -> Request]
        /\ call'[c].at = stage /\ call'[c].hash = hash
        /\ \A d \in Call : d # c => call'[d] = call[d]
    BY <1>0, <1>3, SignsIn
  <2>2. ReadOf(c)' /\ TokenOf(c)'
    BY <1>3, <2>1 DEF ReadOf, TokenOf, At, Same
  <2>3. \A d \in Call : Compatible(c, d)'
    BY <2>1, NoLock
  <2> QED
    BY <2>1, <2>2, <2>3, Quiet DEF Same
<1>4. CASE Upgrade(c)
  <2>1. /\ At(c, "verified") /\ call[c].hash \in Hash /\ call[c].previous \in Family \cup {"no family"}
        /\ call[c].hash.legacy /\ call[c].hash.word = 0
    BY <1>0, <1>4, CallFields DEF Upgrade, At, ReadOf
  <2>2. account.hash # call[c].hash => ~ account.hash.legacy
    <3>1. account.hash.legacy => account.hash.word = 0
      BY <1>0 DEF Credentials, ResetIsKept
    <3> QED
      BY <1>1, <2>1, <3>1, SameHash
  <2>3. CASE account.hash = call[c].hash
    <3>1. account' = [account EXCEPT !.hash = Bcrypt(call[c].hash.word)]
      BY <1>4, <2>3 DEF Upgrade
    <3>2. call[c].hash.word \in 0..MaxSecret
      BY <2>1, Zero, Zenon
    <3>3. account'.hash = Bcrypt(call[c].hash.word) /\ Bcrypt(call[c].hash.word).legacy = FALSE
      BY <1>1, <3>1, <3>2, AccountFields
    <3> QED
      BY <2>1, <2>3, <3>3 DEF Same
  <2>4. CASE account.hash # call[c].hash
    BY <1>3, <1>4, <2>1, <2>2, <2>4 DEF Upgrade
  <2> QED
    BY <2>3, <2>4
<1>5. CASE VerifyAgain(c)
  <2>1. call[c].previous \in Family \cup {"no family"} /\ ~ account.hash.legacy
    BY <1>0, <1>5, CallFields DEF VerifyAgain, At, ReadOf
  <2> QED
    BY <1>1, <1>3, <1>5, <2>1, Idles DEF VerifyAgain
<1>6. CASE LockAccount(c)
  <2>1. call[c].hash \in Hash /\ call[c].previous \in Family \cup {"no family"}
    BY <1>0, <1>6, CallFields DEF LockAccount, At
  <2>2. CASE account.hash = call[c].hash /\ SigningIn(c, "locked", call[c].hash, FALSE)
    <3>1. /\ call' \in [Call -> Request]
          /\ call'[c].at = "locked" /\ call'[c].hash = call[c].hash
          /\ \A d \in Call : d # c => call'[d] = call[d]
      BY <1>0, <2>1, <2>2, SignsIn
    <3>2. ReadOf(c)' /\ TokenOf(c)'
      BY <2>2, <3>1 DEF ReadOf, TokenOf, At, Same
    <3>3. \A d \in Call \ {c} : Compatible(c, d)'
      BY <1>6, <3>1 DEF Compatible, Owning, Sharing, Holding, At, LockAccount, CanShare
    <3> QED
      BY <3>1, <3>2, <3>3, Quiet DEF Same
  <2> QED
    BY <1>6, <2>2, Idles DEF LockAccount
<1>7. CASE RevokePrevious(c)
  <2>1. /\ call[c].hash \in Hash /\ call[c].previous \in Family \cup {"no family"}
        /\ call[c].hash = account.hash /\ Sharing(c)
    BY <1>0, <1>7, CallFields DEF RevokePrevious, At, ReadOf, Sharing
  <2>2. /\ call' \in [Call -> Request]
        /\ call'[c].at = "ready" /\ call'[c].hash = call[c].hash /\ call'[c].active = account.active
        /\ call'[c].previous = call[c].previous
        /\ \A d \in Call : d # c => call'[d] = call[d]
    <3> DEFINE on == account.active
               h == call[c].hash
    <3>1. SigningIn(c, "ready", h, on) /\ on \in BOOLEAN /\ h \in Hash
      BY <1>1, <1>7, <2>1 DEF RevokePrevious
    <3>2. "ready" \in {"verified", "outrun", "upgraded", "locked", "ready"}
      OBVIOUS
    <3> HIDE DEF on, h
    <3>3. /\ call' \in [Call -> Request]
          /\ call'[c].at = "ready" /\ call'[c].hash = h /\ call'[c].active = on
          /\ call'[c].previous = call[c].previous
          /\ \A d \in Call : d # c => call'[d] = call[d]
      BY <1>0, <2>1, <3>1, <3>2, SignsIn, Zenon
    <3> QED
      BY <3>3, Zenon DEF on, h
  <2>3. ReadOf(c)' /\ TokenOf(c)'
    BY <2>1, <2>2 DEF ReadOf, TokenOf, At, Same
  <2>4. \A d \in Call \ {c} : Compatible(c, d)'
    <3> SUFFICES ASSUME NEW d \in Call \ {c}
                 PROVE  Compatible(c, d)'
      OBVIOUS
    <3>1. ~ Owning(d)
      BY <1>0, <2>1 DEF Locks, Compatible
    <3>2. \A f \in Family : Holding(c, f)' => ~ Holding(d, f)
      BY <1>7, <2>2 DEF RevokePrevious, FamilyFree, Holding, At
    <3> QED
      BY <2>2, <3>1, <3>2 DEF Compatible, Owning, Sharing, Holding, At
  <2> QED
    BY <2>2, <2>3, <2>4, Quiet DEF Same
<1> QED
  BY <1>2, <1>4, <1>5, <1>6, <1>7

LEMMA QuietRenewal ==
  ASSUME IInv, NEW c \in Call, Same, (\E t \in Token : Present(c, t)) \/ ShareAccount(c) \/ LockFamily(c)
  PROVE  IInv'
<1>0. TypeOK /\ Locks /\ TokenOf(c) /\ account.active \in BOOLEAN
  BY DEF IInv, Chain, TypeOK
<1>1. ASSUME NEW t \in Token, Present(c, t)
      PROVE  IInv'
  <2> DEFINE x == [at |-> "presented", token |-> t, used |-> FALSE, active |-> FALSE]
  <2>1. x \in Request /\ x.at = "presented" /\ x.token = t
    BY DEF Request, Renewal
  <2>2. call' = [call EXCEPT ![c] = x]
    BY <1>1 DEF Present
  <2> HIDE DEF x
  <2>3. /\ call' \in [Call -> Request]
        /\ call'[c] = x
        /\ \A d \in Call : d # c => call'[d] = call[d]
    BY <1>0, <2>1, <2>2, Moves
  <2>4. ReadOf(c)' /\ TokenOf(c)'
    BY <1>1, <2>1, <2>3 DEF ReadOf, TokenOf, At, Same, Present
  <2>5. \A d \in Call : Compatible(c, d)'
    BY <2>1, <2>3, NoLock
  <2> QED
    BY <2>3, <2>4, <2>5, Quiet DEF Same
<1>2. CASE ShareAccount(c)
  <2>1. call[c].token \in Token
    BY <1>0, <1>2, CallFields DEF ShareAccount, At
  <2>2. /\ call' \in [Call -> Request]
        /\ call'[c].at = "sharing" /\ call'[c].token = call[c].token
        /\ \A d \in Call : d # c => call'[d] = call[d]
    BY <1>0, <1>2, <2>1, Renews DEF ShareAccount
  <2>3. ReadOf(c)' /\ TokenOf(c)'
    BY <1>0, <1>2, <2>2 DEF ReadOf, TokenOf, At, Same, ShareAccount
  <2>4. \A d \in Call \ {c} : Compatible(c, d)'
    BY <1>2, <2>2 DEF Compatible, Owning, Sharing, Holding, At, ShareAccount, CanShare
  <2> QED
    BY <2>2, <2>3, <2>4, Quiet DEF Same
<1>3. CASE LockFamily(c)
  <2>1. call[c].token \in Token
    BY <1>0, <1>3, CallFields DEF LockFamily, At
  <2>2. CASE Renewing(c, "holding", call[c].token \in consumed, account.active)
    <3> DEFINE on == account.active
               used == call[c].token \in consumed
    <3>1. Renewing(c, "holding", used, on) /\ used \in BOOLEAN /\ on \in BOOLEAN
      BY <1>0, <2>2
    <3>2. "holding" \in {"presented", "sharing", "holding"}
      OBVIOUS
    <3> HIDE DEF on, used
    <3>3. /\ call' \in [Call -> Request]
          /\ call'[c].at = "holding" /\ call'[c].used = used /\ call'[c].active = on
          /\ call'[c].token = call[c].token
          /\ \A d \in Call : d # c => call'[d] = call[d]
      BY <1>0, <2>1, <3>1, <3>2, Renews, Zenon
    <3>4. call'[c].used <=> call[c].token \in consumed
      BY <3>3, Zenon DEF used
    <3>5. call'[c].active = account.active
      BY <3>3, Zenon DEF on
    <3>6. ReadOf(c)'
      BY <3>3, <3>5 DEF ReadOf, At, Same
    <3>7. TokenOf(c)'
      BY <1>0, <1>3, <3>3, <3>4 DEF TokenOf, At, Same, LockFamily
    <3>8. \A d \in Call \ {c} : Compatible(c, d)'
      <4> SUFFICES ASSUME NEW d \in Call \ {c}
                   PROVE  Compatible(c, d)'
        OBVIOUS
      <4>1. ~ Owning(d)
        BY <1>0, <1>3 DEF Locks, Compatible, Sharing, LockFamily, At
      <4>2. \A f \in Family : Holding(c, f)' => ~ Holding(d, f)
        BY <1>3, <2>1, <3>3 DEF LockFamily, FamilyFree, Holding, At
      <4> QED
        BY <3>3, <4>1, <4>2 DEF Compatible, Owning, Sharing, Holding, At
    <3> QED
      BY <3>3, <3>6, <3>7, <3>8, Quiet DEF Same
  <2> QED
    BY <1>3, <2>2, Idles DEF LockFamily
<1> QED
  BY <1>1, <1>2, <1>3

LEMMA QuietReset ==
  ASSUME IInv, NEW c \in Call, Same, (\E n \in 1..MaxLink : Open(c, n)) \/ OwnAccount(c) \/ SpendLink(c)
  PROVE  IInv'
<1>0. TypeOK /\ Locks
  BY DEF IInv
<1>1. ASSUME NEW n \in 1..MaxLink, Open(c, n)
      PROVE  IInv'
  <2> DEFINE x == [at |-> "opened", n |-> n]
  <2>1. x \in Request /\ x.at = "opened"
    BY DEF Request, Reset
  <2>2. call' = [call EXCEPT ![c] = x]
    BY <1>1 DEF Open
  <2> HIDE DEF x
  <2>3. /\ call' \in [Call -> Request]
        /\ call'[c] = x
        /\ \A d \in Call : d # c => call'[d] = call[d]
    BY <1>0, <2>1, <2>2, Moves
  <2>4. ReadOf(c)' /\ TokenOf(c)'
    BY <2>1, <2>3 DEF ReadOf, TokenOf, At
  <2>5. \A d \in Call : Compatible(c, d)'
    BY <2>1, <2>3, NoLock
  <2> QED
    BY <2>3, <2>4, <2>5, Quiet DEF Same
<1>2. CASE OwnAccount(c) /\ Resetting(c, "owning")
  <2>1. call[c].n \in 1..MaxLink
    BY <1>0, <1>2, CallFields DEF OwnAccount, At
  <2>2. /\ call' \in [Call -> Request]
        /\ call'[c].at = "owning"
        /\ \A d \in Call : d # c => call'[d] = call[d]
    BY <1>0, <1>2, <2>1, Resets
  <2>3. ReadOf(c)' /\ TokenOf(c)'
    BY <2>2 DEF ReadOf, TokenOf, At
  <2>4. \A d \in Call \ {c} : Compatible(c, d)'
    BY <1>2, <2>2 DEF Compatible, Owning, Sharing, Holding, At, OwnAccount, CanOwn
  <2> QED
    BY <2>2, <2>3, <2>4, Quiet DEF Same
<1>3. CASE At(c, "owning") /\ link.works = call[c].n /\ Resetting(c, "spent")
  <2>1. call[c].n \in 1..MaxLink
    BY <1>0, <1>3, CallFields DEF At
  <2>2. /\ call' \in [Call -> Request]
        /\ call'[c].at = "spent" /\ call'[c].n = call[c].n
        /\ \A d \in Call : d # c => call'[d] = call[d]
    BY <1>0, <1>3, <2>1, Resets
  <2>3. ReadOf(c)' /\ TokenOf(c)'
    BY <1>3, <2>2 DEF ReadOf, TokenOf, At, Same
  <2>4. \A d \in Call \ {c} : Compatible(c, d)'
    BY <1>0, <1>3, <2>2 DEF Locks, Compatible, Owning, Sharing, Holding, At
  <2> QED
    BY <2>2, <2>3, <2>4, Quiet DEF Same
<1> QED
  BY <1>1, <1>2, <1>3, Idles DEF OwnAccount, SpendLink

\* Families may end and requests leave at any time.
LEMMA Endings ==
  ASSUME IInv, UNCHANGED consumed,
         \A f \in Family : /\ family'[f].issued = family[f].issued
                           /\ family'[f].state = "none" <=> family[f].state = "none",
         \A c \in Call : call'[c] = call[c] \/ call'[c].at = "idle"
  PROVE  Chain' /\ Locks'
<1>1. Chain'
  <2>1. \A f \in Family, i \in 1..MaxToken : <<f, i>> \in consumed' <=> i < family'[f].issued
    BY DEF IInv, Chain
  <2>2. \A f \in Family : family'[f].state = "none" => family'[f].issued = 0
    BY DEF IInv, Chain
  <2>3. ASSUME NEW c \in Call
        PROVE  TokenOf(c)'
    <3>1. CASE call'[c].at = "idle"
      BY <3>1 DEF TokenOf, At
    <3>2. CASE call'[c] = call[c]
      <4>1. call[c].at \in {"presented", "sharing", "holding"} => call[c].token[1] \in Family
        BY CallFields, TokenParts DEF IInv
      <4> QED
        BY <3>2, <4>1 DEF IInv, Chain, TokenOf, At
    <3> QED
      BY <3>1, <3>2
  <2> QED
    BY <2>1, <2>2, <2>3 DEF Chain
<1>2. Locks'
  <2> SUFFICES ASSUME NEW c \in Call, NEW d \in Call, c # d
               PROVE  Compatible(c, d)'
    BY DEF Locks
  <2>1. Compatible(c, d)
    BY DEF IInv, Locks
  <2> QED
    BY <2>1 DEF Compatible, Owning, Sharing, Holding, At
<1> QED
  BY <1>1, <1>2

\* While the account row may be changed, no request holds what it has read of it.
LEMMA Alone ==
  ASSUME CanOwn, NEW c \in Call
  PROVE  call[c].at \notin {"locked", "ready", "holding", "sharing", "owning", "spent"}
BY DEF CanOwn, Owning, Sharing

LEMMA Upgrades ==
  ASSUME IInv, NEW c \in Call, Upgrade(c), account.hash = call[c].hash
  PROVE  IInv'
<1> DEFINE h == Bcrypt(call[c].hash.word)
<1>0. TypeOK /\ Credentials /\ account \in [hash: Hash, active: BOOLEAN]
  BY DEF IInv, TypeOK
<1>1. /\ At(c, "verified") /\ call[c].hash \in Hash /\ call[c].previous \in Family \cup {"no family"}
      /\ call[c].hash.word = 0 /\ CanOwn
  BY <1>0, CallFields DEF Upgrade, At, Credentials, ReadOf
<1>2. call[c].hash.word \in 0..MaxSecret
  BY <1>1, Zero, Zenon
<1>3. /\ h \in Hash /\ h.word = call[c].hash.word /\ h.legacy = FALSE
      /\ [account EXCEPT !.hash = h] \in [hash: Hash, active: BOOLEAN]
      /\ [account EXCEPT !.hash = h].hash = h
      /\ [account EXCEPT !.hash = h].active = account.active
  BY <1>0, <1>2, AccountFields
<1>4. /\ account' = [account EXCEPT !.hash = h] /\ SigningIn(c, "upgraded", h, FALSE)
      /\ UNCHANGED <<family, consumed, link, secret, knew, shown>>
  BY DEF Upgrade
<1> HIDE DEF h
<1>5. /\ account' \in [hash: Hash, active: BOOLEAN]
      /\ account'.hash = h /\ account'.active = account.active
  BY <1>3, <1>4
<1>6. /\ call' \in [Call -> Request]
      /\ call'[c].at = "upgraded" /\ call'[c].hash = h
      /\ \A d \in Call : d # c => call'[d] = call[d]
  BY <1>0, <1>1, <1>3, <1>4, SignsIn
<1>7. TypeOK'
  BY <1>0, <1>4, <1>5, <1>6 DEF TypeOK, Request
<1>8. Credentials'
  <2>1. account'.hash.word = secret' /\ ~ account'.hash.legacy
    BY <1>0, <1>3, <1>4, <1>5 DEF Credentials, ResetIsKept, Upgrade
  <2>2. ReadOf(c)'
    BY <1>3, <1>6, <2>1 DEF ReadOf, At
  <2>3. ASSUME NEW d \in Call, d # c
        PROVE  ReadOf(d)'
    <3>1. UNCHANGED call[d] /\ ReadOf(d)
      BY <1>0, <1>6, <2>3 DEF Credentials
    <3>2. call[d].at \notin {"locked", "ready", "holding", "sharing", "owning", "spent"}
      BY <1>1, Alone
    <3> QED
      BY <2>1, <3>1, <3>2 DEF ReadOf, At
  <2> QED
    BY <2>1, <2>2, <2>3 DEF Credentials, ResetIsKept
<1>9. Locks'
  <2>1. ASSUME NEW a \in Call, NEW b \in Call, a # b
        PROVE  Compatible(a, b)'
    <3>1. /\ call'[a].at \notin {"locked", "ready", "holding", "sharing", "owning", "spent"}
          /\ call'[b].at \notin {"locked", "ready", "holding", "sharing", "owning", "spent"}
      BY <1>1, <1>6, Alone
    <3> QED
      BY <3>1 DEF Compatible, Owning, Sharing, Holding, At
  <2> QED
    BY <2>1 DEF Locks
<1>10. Chain'
  <2>1. ASSUME NEW d \in Call
        PROVE  TokenOf(d)'
    BY <1>4, <1>6 DEF IInv, Chain, TokenOf, At
  <2> QED
    BY <1>4, <2>1 DEF IInv, Chain
<1>11. SignInsHold' /\ Answered'
  BY <1>4, <1>5 DEF IInv, SignInsHold, SignInsAreCurrent, BlockedIsSignedOut, Answered
<1> QED
  BY <1>7, <1>8, <1>9, <1>10, <1>11 DEF IInv

LEMMA Signs ==
  ASSUME IInv, NEW c \in Call, NEW f \in Family, SignIn(c, f)
  PROVE  IInv'
<1> DEFINE p == call[c].previous
           new == [state |-> "live", issued |-> 1]
<1>0. TypeOK /\ Credentials /\ Locks /\ Chain /\ SignInsHold /\ Answered /\ ReadOf(c)
  BY DEF IInv, Credentials
<1>1. /\ At(c, "ready") /\ call[c].active /\ call[c].hash = account.hash
      /\ call[c].active = account.active /\ account.hash.word = secret /\ Sharing(c)
  BY <1>0 DEF SignIn, ReadOf, At, Credentials, ResetIsKept, Sharing
<1>2. /\ call' \in [Call -> Request]
      /\ call'[c].at = "idle"
      /\ \A d \in Call : d # c => call'[d] = call[d]
  BY <1>0, Ends DEF SignIn
<1>3. /\ Revoke({p}) \in [Family -> [state: FamilyState, issued: 0..MaxToken]]
      /\ \A g \in Family :
              /\ Revoke({p})[g].issued = family[g].issued
              /\ Revoke({p})[g].state = "none" <=> family[g].state = "none"
              /\ Revoke({p})[g].state = "live" => family[g].state = "live"
  BY <1>0, Revokes
<1>4. new \in [state: FamilyState, issued: 0..MaxToken] /\ new.state = "live" /\ new.issued = 1
  BY SessionsAssumption DEF FamilyState
<1>5. family' = [Revoke({p}) EXCEPT ![f] = new]
  BY DEF SignIn
<1> HIDE DEF new, p
<1>6. /\ family' \in [Family -> [state: FamilyState, issued: 0..MaxToken]]
      /\ family'[f].state = "live" /\ family'[f].issued = 1
      /\ \A g \in Family : g # f =>
           /\ family'[g].issued = family[g].issued
           /\ family'[g].state = "none" <=> family[g].state = "none"
           /\ family'[g].state = "live" => family[g].state = "live"
  BY <1>3, <1>4, <1>5
<1>7. family[f].state = "none" /\ family[f].issued = 0
  BY <1>0 DEF SignIn, Chain
<1>8. UNCHANGED <<account, consumed, link, secret, shown>> /\ knew' = [knew EXCEPT ![f] = call[c].hash.word]
  BY DEF SignIn
<1>9. TypeOK'
  <2>1. knew' \in [Family -> 0..MaxSecret]
    BY <1>0, <1>1, <1>8 DEF TypeOK
  <2> QED
    BY <1>0, <1>2, <1>6, <1>8, <2>1 DEF TypeOK, Request
<1>10. Credentials'
  BY <1>0, <1>2, <1>8 DEF Credentials, ResetIsKept, ReadOf, At
<1>11. Locks'
  BY <1>0, <1>2 DEF Locks, Compatible, Owning, Sharing, Holding, At
<1>12. Chain'
  <2>1. ASSUME NEW g \in Family, NEW i \in 1..MaxToken
        PROVE  <<g, i>> \in consumed' <=> i < family'[g].issued
    <3>1. <<g, i>> \in consumed' <=> i < family[g].issued
      BY <1>0, <1>8 DEF Chain
    <3>2. CASE g = f
      BY <1>6, <1>7, <3>1, <3>2
    <3>3. CASE g # f
      BY <1>6, <3>1, <3>3
    <3> QED
      BY <3>2, <3>3
  <2>2. \A g \in Family : family'[g].state = "none" => family'[g].issued = 0
    BY <1>0, <1>6 DEF Chain
  <2>3. ASSUME NEW d \in Call
        PROVE  TokenOf(d)'
    <3>1. CASE d = c
      BY <1>2, <3>1 DEF TokenOf, At
    <3>2. CASE d # c
      <4>1. call[d].at \in {"presented", "sharing", "holding"} =>
              call[d].token[1] \in Family /\ call[d].token[1] # f
        BY <1>0, <1>7, CallFields, TokenParts DEF Chain, TokenOf
      <4> QED
        BY <1>0, <1>2, <1>6, <1>8, <3>2, <4>1 DEF Chain, TokenOf, At
    <3> QED
      BY <3>1, <3>2
  <2> QED
    BY <2>1, <2>2, <2>3 DEF Chain
<1>13. SignInsHold'
  <2>1. \A g \in Family : g # f => knew'[g] = knew[g]
    BY <1>0, <1>8 DEF TypeOK
  <2>2. knew'[f] = secret
    BY <1>0, <1>1, <1>8 DEF TypeOK
  <2>3. SignInsAreCurrent'
    BY <1>0, <1>6, <1>8, <2>1, <2>2 DEF SignInsHold, SignInsAreCurrent
  <2>4. account'.active
    BY <1>1, <1>8
  <2> QED
    BY <2>3, <2>4 DEF SignInsHold, BlockedIsSignedOut
<1>14. Answered'
  BY <1>0, <1>6, <1>7, <1>8, TokenParts DEF Answered
<1> QED
  BY <1>9, <1>10, <1>11, <1>12, <1>13, <1>14 DEF IInv

-----------------------------------------------------------------------------
(* Renewals.                                                               *)

\* What a renewal that holds its family knows.
LEMMA Held ==
  ASSUME IInv, NEW c \in Call, At(c, "holding")
  PROVE  /\ call[c].token \in Token
         /\ call[c].token[1] \in Family
         /\ call[c].token[2] \in 1..MaxToken
         /\ call[c].token = <<call[c].token[1], call[c].token[2]>>
         /\ call[c].used <=> call[c].token \in consumed
         /\ call[c].active = account.active
         /\ family[call[c].token[1]].state # "none"
         /\ call[c].token[2] <= family[call[c].token[1]].issued
         /\ \A d \in Call : d # c => ~ (At(d, "holding") /\ call[d].token[1] = call[c].token[1])
<1>1. TypeOK /\ TokenOf(c) /\ ReadOf(c) /\ Locks
  BY DEF IInv, Chain, Credentials
<1>2. call[c].token \in Token
  BY <1>1, CallFields DEF At
<1>3. \A d \in Call : d # c => ~ (At(d, "holding") /\ call[d].token[1] = call[c].token[1])
  BY <1>1, <1>2, TokenParts DEF Locks, Compatible, Holding
<1> QED
  BY <1>1, <1>2, <1>3, TokenParts DEF TokenOf, ReadOf, At

LEMMA Counted ==
  ASSUME TypeOK, NEW t \in Token, shown' = [shown EXCEPT ![t] = @ + 1]
  PROVE  /\ shown' \in [Token -> Nat]
         /\ shown'[t] = shown[t] + 1
         /\ \A u \in Token : u # t => shown'[u] = shown[u]
BY DEF TypeOK

LEMMA Replays ==
  ASSUME IInv, NEW c \in Call, EndReplay(c)
  PROVE  IInv'
<1> DEFINE t == call[c].token
<1>0. TypeOK /\ Credentials /\ SignInsHold /\ Answered
  BY DEF IInv
<1>1. /\ t \in Token /\ t[1] \in Family
      /\ family[t[1]].state # "none"
  BY Held DEF EndReplay
<1>2. /\ call' \in [Call -> Request]
      /\ call'[c].at = "idle"
      /\ \A d \in Call : d # c => call'[d] = call[d]
  BY <1>0, Ends DEF EndReplay
<1>3. /\ UNCHANGED <<account, consumed, link, secret, knew>>
      /\ shown' = [shown EXCEPT ![t] = @ + 1]
      /\ family' = Revoke({t[1]})
  BY DEF EndReplay
<1> HIDE DEF t
<1>4. /\ family' \in [Family -> [state: FamilyState, issued: 0..MaxToken]]
      /\ \A g \in Family :
           /\ family'[g].issued = family[g].issued
           /\ family'[g].state = "none" <=> family[g].state = "none"
           /\ family'[g].state = "live" => family[g].state = "live" /\ g # t[1]
  BY <1>0, <1>3, Revokes
<1>5. /\ shown' \in [Token -> Nat]
      /\ \A u \in Token : u # t => shown'[u] = shown[u]
  BY <1>0, <1>1, <1>3, Counted
<1>6. TypeOK'
  BY <1>0, <1>2, <1>3, <1>4, <1>5 DEF TypeOK, Request
<1>7. Credentials'
  BY <1>0, <1>2, <1>3 DEF Credentials, ResetIsKept, ReadOf, At
<1>8. Chain' /\ Locks'
  BY <1>2, <1>3, <1>4, Endings
<1>9. SignInsHold'
  BY <1>0, <1>3, <1>4 DEF SignInsHold, SignInsAreCurrent, BlockedIsSignedOut
<1>10. Answered'
  <2> SUFFICES ASSUME NEW u \in Token
               PROVE  /\ family'[u[1]].state = "none" => shown'[u] = 0
                      /\ family'[u[1]].state = "live" =>
                           shown'[u] = 0 \/ (shown'[u] = 1 /\ u \in consumed')
    BY DEF Answered
  <2>1. u[1] \in Family
    BY TokenParts
  <2>2. CASE u = t
    BY <1>1, <1>4, <2>2
  <2>3. CASE u # t
    BY <1>0, <1>3, <1>4, <1>5, <2>1, <2>3 DEF Answered
  <2> QED
    BY <2>2, <2>3
<1> QED
  BY <1>6, <1>7, <1>8, <1>9, <1>10 DEF IInv

LEMMA Exchanges ==
  ASSUME IInv, NEW c \in Call, Exchange(c)
  PROVE  IInv'
<1> DEFINE t == call[c].token
<1>0. TypeOK /\ Credentials /\ Locks /\ Chain /\ SignInsHold /\ Answered
  BY DEF IInv
<1>1. /\ t \in Token /\ t[1] \in Family /\ t[2] \in 1..MaxToken /\ t = <<t[1], t[2]>>
      /\ t \notin consumed
      /\ family[t[1]].state # "none"
      /\ t[2] <= family[t[1]].issued
      /\ family[t[1]].issued < MaxToken
  BY Held DEF Exchange
<1>2. \A d \in Call : d # c => ~ (At(d, "holding") /\ call[d].token[1] = t[1])
  BY Held DEF Exchange
<1>3. /\ call' \in [Call -> Request]
      /\ call'[c].at = "idle"
      /\ \A d \in Call : d # c => call'[d] = call[d]
  BY <1>0, Ends DEF Exchange
<1>4. /\ UNCHANGED <<account, link, secret, knew>>
      /\ shown' = [shown EXCEPT ![t] = @ + 1]
      /\ family' = [family EXCEPT ![t[1]].issued = @ + 1]
      /\ consumed' = consumed \cup {t}
  BY DEF Exchange
<1> HIDE DEF t
<1>5. /\ family' \in [Family -> [state: FamilyState, issued: 0..MaxToken]]
      /\ family'[t[1]].issued = family[t[1]].issued + 1
      /\ \A g \in Family :
           /\ family'[g].state = family[g].state
           /\ g # t[1] => family'[g].issued = family[g].issued
  <2>1. \A r \in [state: FamilyState, issued: 0..MaxToken] : r.issued < MaxToken =>
          /\ [r EXCEPT !.issued = @ + 1] \in [state: FamilyState, issued: 0..MaxToken]
          /\ [r EXCEPT !.issued = @ + 1].state = r.state
          /\ [r EXCEPT !.issued = @ + 1].issued = r.issued + 1
    BY SessionsAssumption
  <2>2. family \in [Family -> [state: FamilyState, issued: 0..MaxToken]]
    BY <1>0 DEF TypeOK
  <2>3. family' = [family EXCEPT ![t[1]] = [family[t[1]] EXCEPT !.issued = @ + 1]]
    BY <1>4
  <2> QED
    BY <1>1, <2>1, <2>2, <2>3
<1>6. /\ shown' \in [Token -> Nat]
      /\ shown'[t] = shown[t] + 1
      /\ \A u \in Token : u # t => shown'[u] = shown[u]
  BY <1>0, <1>1, <1>4, Counted
<1>7. t[2] = family[t[1]].issued
  <2>1. ~ (t[2] < family[t[1]].issued)
    BY <1>0, <1>1 DEF Chain
  <2>2. family[t[1]].issued \in Nat
    BY <1>0, <1>1 DEF TypeOK
  <2> QED
    BY <1>1, <2>1, <2>2
<1>8. TypeOK'
  BY <1>0, <1>1, <1>3, <1>4, <1>5, <1>6 DEF TypeOK, Request
<1>9. Credentials'
  BY <1>0, <1>3, <1>4 DEF Credentials, ResetIsKept, ReadOf, At
<1>10. Locks'
  BY <1>0, <1>3 DEF Locks, Compatible, Owning, Sharing, Holding, At
<1>11. Chain'
  <2>1. ASSUME NEW g \in Family, NEW i \in 1..MaxToken
        PROVE  <<g, i>> \in consumed' <=> i < family'[g].issued
    <3>1. <<g, i>> \in consumed <=> i < family[g].issued
      BY <1>0 DEF Chain
    <3>2. family[g].issued \in Nat
      BY <1>0 DEF TypeOK
    <3>3. CASE g = t[1]
      <4>1. <<g, i>> = t <=> i = family[g].issued
        BY <1>1, <1>7, <3>3
      <4> QED
        BY <1>4, <1>5, <3>1, <3>2, <3>3, <4>1
    <3>4. CASE g # t[1]
      <4>1. <<g, i>> # t
        BY <1>1, <3>4
      <4> QED
        BY <1>4, <1>5, <3>1, <3>4, <4>1
    <3> QED
      BY <3>3, <3>4
  <2>2. ASSUME NEW g \in Family, family'[g].state = "none"
        PROVE  family'[g].issued = 0
    <3>1. family[g].state = "none" /\ g # t[1]
      BY <1>1, <1>5, <2>2
    <3>2. family[g].issued = 0
      BY <1>0, <3>1 DEF Chain
    <3> QED
      BY <1>5, <3>1, <3>2
  <2>3. ASSUME NEW d \in Call
        PROVE  TokenOf(d)'
    <3>1. CASE d = c
      BY <1>3, <3>1 DEF TokenOf, At
    <3>2. CASE d # c /\ call[d].at \in {"presented", "sharing", "holding"}
      <4>0. call[d].token \in Token
        BY <1>0, <3>2, CallFields
      <4>1. call[d].token[1] \in Family /\ call[d].token[2] \in Nat
        BY <4>0, TokenParts, SessionsAssumption
      <4>2. call'[d] = call[d] /\ TokenOf(d)
        BY <1>0, <1>3, <3>2 DEF Chain
      <4>3. family[call[d].token[1]].issued \in Nat
        BY <1>0, <4>1 DEF TypeOK
      <4>4. family[call[d].token[1]].issued <= family'[call[d].token[1]].issued
        <5> DEFINE g == call[d].token[1]
        <5>1. g \in Family
          BY <4>1
        <5> HIDE DEF g
        <5>2. family[g].issued \in Nat => family[g].issued <= family'[g].issued
          <6>1. CASE g = t[1]
            BY <1>5, <6>1
          <6>2. CASE g # t[1]
            BY <1>5, <5>1, <6>2
          <6> QED
            BY <6>1, <6>2
        <5> QED
          BY <4>3, <5>2 DEF g
      <4>5. family'[call[d].token[1]].issued \in Nat
        BY <1>5, <4>1
      <4>6. At(d, "holding") => (call[d].token \in consumed' <=> call[d].token \in consumed)
        BY <1>2, <1>4, <3>2
      <4>7. /\ family'[call[d].token[1]].state # "none"
            /\ call[d].token[2] <= family'[call[d].token[1]].issued
        BY <1>5, <3>2, <4>1, <4>2, <4>3, <4>4, <4>5 DEF TokenOf
      <4>8. UNCHANGED call[d]
        BY <4>2
      <4> QED
        BY <4>2, <4>6, <4>7, <4>8 DEF TokenOf, At
    <3>3. CASE d # c /\ call[d].at \notin {"presented", "sharing", "holding"}
      BY <1>3, <3>3 DEF TokenOf, At
    <3> QED
      BY <3>1, <3>2, <3>3
  <2> QED
    BY <2>1, <2>2, <2>3 DEF Chain
<1>12. SignInsHold'
  BY <1>0, <1>4, <1>5 DEF SignInsHold, SignInsAreCurrent, BlockedIsSignedOut
<1>13. Answered'
  <2> SUFFICES ASSUME NEW u \in Token
               PROVE  /\ family'[u[1]].state = "none" => shown'[u] = 0
                      /\ family'[u[1]].state = "live" =>
                           shown'[u] = 0 \/ (shown'[u] = 1 /\ u \in consumed')
    BY DEF Answered
  <2>1. u[1] \in Family
    BY TokenParts
  <2>2. CASE u = t
    BY <1>0, <1>1, <1>4, <1>5, <1>6, <2>2 DEF Answered
  <2>3. CASE u # t
    BY <1>0, <1>4, <1>5, <1>6, <2>1, <2>3 DEF Answered
  <2> QED
    BY <2>2, <2>3
<1> QED
  BY <1>8, <1>9, <1>10, <1>11, <1>12, <1>13 DEF IInv

-----------------------------------------------------------------------------
(* Changes of the account, and the ends of families.                       *)

\* What is kept when families end and nothing was answered.
LEMMA Ended ==
  ASSUME IInv, NEW fs, family' = Revoke(fs), UNCHANGED <<consumed, knew, shown>>
  PROVE  /\ family' \in [Family -> [state: FamilyState, issued: 0..MaxToken]]
         /\ \A f \in Family :
              /\ family'[f].issued = family[f].issued
              /\ family'[f].state = "none" <=> family[f].state = "none"
              /\ family'[f].state = "live" => family[f].state = "live" /\ f \notin fs
         /\ Answered'
<1>1. /\ family' \in [Family -> [state: FamilyState, issued: 0..MaxToken]]
      /\ \A f \in Family :
           /\ family'[f].issued = family[f].issued
           /\ family'[f].state = "none" <=> family[f].state = "none"
           /\ family'[f].state = "live" => family[f].state = "live" /\ f \notin fs
  BY Revokes DEF IInv
<1>2. Answered'
  BY <1>1, TokenParts DEF IInv, Answered
<1> QED
  BY <1>1, <1>2

LEMMA Sends == ASSUME IInv, SendLink PROVE IInv'
<1>0. TypeOK /\ Credentials /\ CanOwn /\ UNCHANGED <<account, family, consumed, call, secret, knew, shown>>
  BY DEF IInv, SendLink
<1>1. TypeOK'
  <2>1. link' = [works |-> link.sent + 1, sent |-> link.sent + 1] /\ link.sent + 1 \in 0..MaxLink
    BY <1>0, SessionsAssumption DEF SendLink, TypeOK
  <2> DEFINE n == link.sent + 1
  <2>2. link' = [works |-> n, sent |-> n] /\ n \in 0..MaxLink
    BY <2>1
  <2> HIDE DEF n
  <2>3. link' \in [works: 0..MaxLink, sent: 0..MaxLink] /\ link'.works \in {0, link'.sent}
    BY <2>2
  <2> QED
    BY <1>0, <2>3 DEF TypeOK
<1>2. Credentials'
  BY <1>0, Alone DEF Credentials, ResetIsKept, ReadOf, At
<1>3. Locks' /\ Chain' /\ SignInsHold' /\ Answered'
  BY <1>0 DEF IInv, Locks, Compatible, Owning, Sharing, Holding, At, Chain, TokenOf, SignInsHold,
     SignInsAreCurrent, BlockedIsSignedOut, Answered
<1> QED
  BY <1>1, <1>2, <1>3 DEF IInv

LEMMA Changes ==
  ASSUME IInv, NEW c \in Call, ChangePassword(c)
  PROVE  IInv'
<1> DEFINE w == secret + 1
<1>0. TypeOK /\ Credentials /\ Locks /\ account \in [hash: Hash, active: BOOLEAN]
  BY DEF IInv, TypeOK
<1>1. w \in 0..MaxSecret
  BY <1>0, SessionsAssumption DEF ChangePassword, TypeOK
<1>2. /\ account' = [account EXCEPT !.hash = Bcrypt(w)]
      /\ secret' = w /\ family' = Revoke(Family) /\ link' = [link EXCEPT !.works = 0]
      /\ UNCHANGED <<consumed, knew, shown>>
  BY DEF ChangePassword
<1> HIDE DEF w
<1>3. /\ account' \in [hash: Hash, active: BOOLEAN]
      /\ account'.hash.word = w /\ account'.hash.legacy = FALSE
  BY <1>0, <1>1, <1>2, AccountFields
<1>4. /\ call' \in [Call -> Request]
      /\ call'[c].at = "idle"
      /\ \A d \in Call : d # c => call'[d] = call[d]
  BY <1>0, Ends DEF ChangePassword
<1>5. /\ family' \in [Family -> [state: FamilyState, issued: 0..MaxToken]]
      /\ \A f \in Family :
           /\ family'[f].issued = family[f].issued
           /\ family'[f].state = "none" <=> family[f].state = "none"
           /\ family'[f].state # "live"
      /\ Answered'
  BY <1>2, Ended
<1>6. TypeOK'
  <2>1. link' \in [works: 0..MaxLink, sent: 0..MaxLink] /\ link'.works \in {0, link'.sent}
    BY <1>0, <1>2, SessionsAssumption DEF TypeOK
  <2> QED
    BY <1>0, <1>1, <1>2, <1>3, <1>4, <1>5, <2>1 DEF TypeOK, Request
<1>7. Credentials'
  <2>1. ReadOf(c)'
    BY <1>4 DEF ReadOf, At
  <2>2. ASSUME NEW d \in Call, d # c
        PROVE  ReadOf(d)'
    <3>1. ~ Owning(d) /\ ~ Sharing(d)
      BY <1>0, <2>2 DEF Locks, Compatible, Owning, ChangePassword, At
    <3> QED
      BY <1>0, <1>3, <1>4, <2>2, <3>1 DEF Credentials, ReadOf, At, Owning, Sharing
  <2> QED
    BY <1>2, <1>3, <2>1, <2>2 DEF Credentials, ResetIsKept
<1>8. Chain' /\ Locks'
  BY <1>2, <1>4, <1>5, Endings
<1>9. SignInsHold'
  BY <1>5 DEF SignInsHold, SignInsAreCurrent, BlockedIsSignedOut
<1> QED
  BY <1>5, <1>6, <1>7, <1>8, <1>9 DEF IInv

LEMMA Actives ==
  ASSUME IInv, NEW on \in BOOLEAN, SetActive(on)
  PROVE  IInv'
<1>0. TypeOK /\ Credentials /\ CanOwn /\ account \in [hash: Hash, active: BOOLEAN]
  BY DEF IInv, TypeOK, SetActive
<1>1. /\ account' = [account EXCEPT !.active = on] /\ family' = Revoke(Family)
      /\ UNCHANGED <<consumed, link, call, secret, knew, shown>>
  BY DEF SetActive
<1>2. account' \in [hash: Hash, active: BOOLEAN] /\ account'.hash = account.hash
  BY <1>0, <1>1
<1>3. /\ family' \in [Family -> [state: FamilyState, issued: 0..MaxToken]]
      /\ \A f \in Family :
           /\ family'[f].issued = family[f].issued
           /\ family'[f].state = "none" <=> family[f].state = "none"
           /\ family'[f].state # "live"
      /\ Answered'
  BY <1>1, Ended
<1>4. TypeOK'
  BY <1>0, <1>1, <1>2, <1>3 DEF TypeOK
<1>5. Credentials'
  BY <1>0, <1>1, <1>2, Alone DEF Credentials, ResetIsKept, ReadOf, At
<1>6. Chain' /\ Locks'
  BY <1>1, <1>3, Endings
<1>7. SignInsHold'
  BY <1>3 DEF SignInsHold, SignInsAreCurrent, BlockedIsSignedOut
<1> QED
  BY <1>3, <1>4, <1>5, <1>6, <1>7 DEF IInv

LEMMA FamilyEnds ==
  ASSUME IInv, NEW f \in Family, Logout(f) \/ Expire(f)
  PROVE  IInv'
<1>0. TypeOK /\ Credentials /\ SignInsHold /\ UNCHANGED <<account, consumed, link, call, secret, knew, shown>>
  BY DEF IInv, Logout, Expire
<1>1. /\ family' \in [Family -> [state: FamilyState, issued: 0..MaxToken]]
      /\ \A g \in Family :
           /\ family'[g].issued = family[g].issued
           /\ family'[g].state = "none" <=> family[g].state = "none"
           /\ family'[g].state = "live" => family[g].state = "live"
  <2>1. CASE Logout(f)
    BY <2>1, <1>0, Ended DEF Logout
  <2>2. CASE Expire(f)
    <3>1. \A r \in [state: FamilyState, issued: 0..MaxToken] :
            /\ [r EXCEPT !.state = "expired"] \in [state: FamilyState, issued: 0..MaxToken]
            /\ [r EXCEPT !.state = "expired"].state = "expired"
            /\ [r EXCEPT !.state = "expired"].issued = r.issued
      BY DEF FamilyState
    <3>2. family' = [family EXCEPT ![f] = [family[f] EXCEPT !.state = "expired"]]
      BY <2>2 DEF Expire
    <3>3. family[f].state = "live" /\ family \in [Family -> [state: FamilyState, issued: 0..MaxToken]]
      BY <1>0, <2>2 DEF Expire, TypeOK
    <3> QED
      BY <3>1, <3>2, <3>3
  <2> QED
    BY <2>1, <2>2
<1>2. TypeOK'
  BY <1>0, <1>1 DEF TypeOK
<1>3. Credentials'
  BY <1>0 DEF Credentials, ResetIsKept, ReadOf, At
<1>4. Chain' /\ Locks'
  BY <1>0, <1>1, Endings
<1>5. SignInsHold'
  BY <1>0, <1>1 DEF SignInsHold, SignInsAreCurrent, BlockedIsSignedOut
<1>6. Answered'
  BY <1>0, <1>1, TokenParts DEF IInv, Answered
<1> QED
  BY <1>2, <1>3, <1>4, <1>5, <1>6 DEF IInv

-----------------------------------------------------------------------------
(* The theorems.                                                           *)

LEMMA NextHolds == IInv /\ [Next]_vars => IInv'
<1> SUFFICES ASSUME IInv, [Next]_vars
             PROVE  IInv'
  OBVIOUS
<1>1. ASSUME NEW c \in Call, NEW p \in Family \cup {"no family"}, Verify(c, p)
      PROVE  IInv'
  BY <1>1, QuietLogin DEF Verify, Same
<1>2. ASSUME NEW c \in Call, Upgrade(c)
      PROVE  IInv'
  <2>1. CASE account.hash = call[c].hash
    BY <1>2, <2>1, Upgrades
  <2>2. CASE account.hash # call[c].hash
    BY <1>2, <2>2, QuietLogin DEF Upgrade, Same
  <2> QED
    BY <2>1, <2>2
<1>3. ASSUME NEW c \in Call, VerifyAgain(c) \/ LockAccount(c) \/ RevokePrevious(c)
      PROVE  IInv'
  BY <1>3, QuietLogin DEF VerifyAgain, LockAccount, RevokePrevious, Same
<1>4. ASSUME NEW c \in Call, NEW t \in Token, Present(c, t)
      PROVE  IInv'
  BY <1>4, QuietRenewal DEF Present, Same
<1>5. ASSUME NEW c \in Call, ShareAccount(c) \/ LockFamily(c)
      PROVE  IInv'
  BY <1>5, QuietRenewal DEF ShareAccount, LockFamily, Same
<1>6. ASSUME NEW c \in Call, NEW n \in 1..MaxLink, Open(c, n)
      PROVE  IInv'
  BY <1>6, QuietReset DEF Open, Same
<1>7. ASSUME NEW c \in Call, OwnAccount(c) \/ SpendLink(c)
      PROVE  IInv'
  BY <1>7, QuietReset DEF OwnAccount, SpendLink, Same
<1>8. ASSUME NEW c \in Call, Abort(c)
      PROVE  IInv'
  BY <1>8, Idles DEF Abort, Same
<1>9. CASE UNCHANGED vars
  BY <1>9 DEF vars, IInv, TypeOK, Credentials, ResetIsKept, ReadOf, Locks, Compatible, Owning, Sharing,
     Holding, At, Chain, TokenOf, SignInsHold, SignInsAreCurrent, BlockedIsSignedOut, Answered
<1> QED
  BY <1>1, <1>2, <1>3, <1>4, <1>5, <1>6, <1>7, <1>8, <1>9, Signs, Replays, Exchanges, Sends, Changes,
     Actives, FamilyEnds DEF Next

LEMMA Holds == Spec => []IInv
BY InitHolds, NextHolds, PTL DEF Spec

\* Requests, families, tokens and links are always of their types, and only the
\* link that was sent last can work.
THEOREM TypeCorrect == Spec => []TypeOK
<1>1. IInv => TypeOK
  BY DEF IInv
<1> QED
  BY <1>1, Holds, PTL

\* A sign-in that counts was made with the present password, for any number of
\* sign-ins and resets under way (establish compares the hash under its lock).
THEOREM CurrentSignIns == Spec => []SignInsAreCurrent
<1>1. IInv => SignInsAreCurrent
  BY DEF IInv, SignInsHold
<1> QED
  BY <1>1, Holds, PTL

\* A blocked account has no sign-in that counts: the trigger's revocation waits
\* for every sign-in and renewal that has read the status.
THEOREM BlockedOut == Spec => []BlockedIsSignedOut
<1>1. IInv => BlockedIsSignedOut
  BY DEF IInv, SignInsHold
<1> QED
  BY <1>1, Holds, PTL

\* The tokens of a family are exchanged one after the other, each once.
THEOREM OneSuccessorHolds == Spec => []OneSuccessor
<1>1. ASSUME IInv, NEW f \in Family, NEW i \in 1..family[f].issued
      PROVE  <<f, i>> \in consumed <=> i # family[f].issued
  <2>1. family[f].issued \in 0..MaxToken
    BY <1>1 DEF IInv, TypeOK
  <2>2. i \in 1..MaxToken /\ i \in Nat /\ i <= family[f].issued
    BY <2>1, SessionsAssumption
  <2>3. <<f, i>> \in consumed <=> i < family[f].issued
    BY <1>1, <2>2 DEF IInv, Chain
  <2> QED
    BY <2>1, <2>2, <2>3
<1>2. IInv => OneSuccessor
  BY <1>1 DEF OneSuccessor
<1> QED
  BY <1>2, Holds, PTL

\* A family of which one token was presented twice is over, whichever of the
\* two requests came first and wherever they overlapped.
THEOREM ReplayEnds == Spec => []ReplayEndsFamily
<1>1. IInv => ReplayEndsFamily
  BY DEF IInv, Answered, ReplayEndsFamily
<1> QED
  BY <1>1, Holds, PTL

\* The stored hash is of the password chosen last: no upgrade undoes a reset.
THEOREM ResetKept == Spec => []ResetIsKept
<1>1. IInv => ResetIsKept
  BY DEF IInv, Credentials
<1> QED
  BY <1>1, Holds, PTL

\* Concurrent upgrades of one legacy hash turn no sign-in with the present
\* password away.
THEOREM RightPassword == Spec => []RightPasswordPasses
<1>1. ASSUME IInv, NEW c \in Call, At(c, "upgraded"), call[c].hash.word = secret
      PROVE  call[c].hash = account.hash
  <2>1. call[c].hash \in Hash /\ account.hash \in Hash
    BY <1>1, CallFields DEF IInv, TypeOK, At
  <2>2. ~ call[c].hash.legacy /\ ~ account.hash.legacy /\ account.hash.word = secret
    BY <1>1 DEF IInv, Credentials, ReadOf, ResetIsKept
  <2>3. \A h \in Hash : ~ h.legacy => h = Bcrypt(h.word)
    BY DEF Hash, Bcrypt
  <2> QED
    BY <1>1, <2>1, <2>2, <2>3
<1>2. IInv => RightPasswordPasses
  BY <1>1 DEF RightPasswordPasses
<1> QED
  BY <1>2, Holds, PTL

\* A password is changed only by the link that works, which is used up by it.
THEOREM LinkChanges == Spec => ChangedByLink
<1>1. ASSUME IInv, [Next]_vars, secret' # secret
      PROVE  /\ \E c \in Call : At(c, "spent") /\ call[c].n = link.works
             /\ link'.works = 0
  <2>1. PICK c \in Call : ChangePassword(c)
    BY <1>1 DEF Next, vars, Verify, Upgrade, VerifyAgain, LockAccount, RevokePrevious, SignIn, Present,
       ShareAccount, LockFamily, EndReplay, Exchange, Open, OwnAccount, SpendLink, Abort, SendLink,
       Logout, Expire, SetActive
  <2>2. At(c, "spent") /\ call[c].n = link.works
    BY <1>1, <2>1 DEF IInv, Credentials, ReadOf, ChangePassword
  <2>3. link'.works = 0
    BY <1>1, <2>1 DEF ChangePassword, IInv, TypeOK
  <2> QED
    BY <2>2, <2>3
<1>2. IInv /\ [Next]_vars =>
        [secret' # secret =>
           /\ \E c \in Call : At(c, "spent") /\ call[c].n = link.works
           /\ link'.works = 0]_vars
  BY <1>1
<1> QED
  BY <1>2, Holds, PTL DEF Spec, ChangedByLink

\* However renewals overlap, one token of a family is left to exchange, and a
\* token answered twice leaves its family revoked.
THEOREM FamiliesHold == Spec => []FamiliesStand
<1>1. OneSuccessor /\ ReplayEndsFamily <=> FamiliesStand
  BY DEF FamiliesStand
<1> QED
  BY <1>1, OneSuccessorHolds, ReplayEnds, PTL

\* No upgrade of an old hash undoes a reset or turns the right password away.
THEOREM PasswordsHold == Spec => []PasswordsKept
<1>1. ResetIsKept /\ RightPasswordPasses <=> PasswordsKept
  BY DEF PasswordsKept
<1> QED
  BY <1>1, ResetKept, RightPassword, PTL

-----------------------------------------------------------------------------
(* What a page shows of a resource.                                        *)

ReadRows == [n : Nat, path : Path, at : {"sent", "done", "failed"}, got : 0..MaxVersion, aborted : BOOLEAN]

\* One answer at most will be taken, and it is not older than the last.
DataReads ==
  /\ reads \subseteq ReadRows
  /\ \A r, q \in reads : ~ r.aborted /\ ~ q.aborted => r = q
  /\ \A r \in reads : ~ r.aborted => r.path = path /\ (r.at = "done" => r.got >= newest)
  /\ fetching <=> \E r \in reads : ~ r.aborted
  /\ flags.loading \/ flags.refreshing <=> fetching

\* Where nothing is kept, nothing is shown while it is read.
DataShown ==
  /\ D!NothingOld
  /\ path \in Path => newest <= version[path]
  /\ \A r \in reads : r.got <= version[r.path]
  /\ ~ retain /\ fetching => data.path = None

DataInv == D!TypeOK /\ DataReads /\ DataShown

LEMMA DataStart == D!Init => DataInv
<1> SUFFICES ASSUME D!Init PROVE DataInv
  OBVIOUS
<1>1. 0 \in 0..MaxVersion /\ 0 \in 0..MaxRead /\ reads = {}
  BY ReadingAssumption DEF D!Init
<1>2. data \in [path : Path \cup {None}, version : 0..MaxVersion] /\ flags \in [loading : BOOLEAN, refreshing : BOOLEAN]
  BY <1>1 DEF D!Init, D!Nothing, D!Still
<1>3. version \in [Path -> 0..MaxVersion] /\ path \in Path \cup {None} /\ retain \in BOOLEAN /\ fetching \in BOOLEAN
  BY <1>1 DEF D!Init
<1>4. count \in 0..MaxRead /\ newest \in 0..MaxVersion
  BY <1>1 DEF D!Init
<1>5. D!TypeOK
  BY <1>1, <1>2, <1>3, <1>4 DEF D!TypeOK
<1> QED
  BY <1>1, <1>5, ReadingAssumption DEF D!Init, DataInv, DataReads, DataShown, D!NothingOld, D!Nothing, D!Still

\* The read before is aborted, and the new one is the only one to be taken.
LEMMA DataRun == ASSUME DataInv, NEW p \in Path, D!Run(p) PROVE DataInv'
<1> DEFINE background == retain /\ p = path /\ data.path # None
           sending == [n |-> count + 1, path |-> p, at |-> "sent", got |-> 0, aborted |-> FALSE]
<1>0. D!TypeOK /\ DataReads /\ DataShown /\ count \in Nat /\ newest \in Nat /\ version[p] \in Nat /\ 0 \in 0..MaxVersion
  BY ReadingAssumption DEF DataInv, D!TypeOK
<1>1. /\ path' = p /\ count' = count + 1 /\ count < MaxRead
      /\ reads' = D!Aborted \cup {sending} /\ fetching' = TRUE
      /\ flags' = [loading |-> ~ background, refreshing |-> background]
      /\ data' = (IF background THEN data ELSE D!Nothing)
      /\ newest' = (IF p = path THEN newest ELSE 0)
      /\ UNCHANGED <<version, retain>>
  BY DEF D!Run
<1>2. ASSUME NEW r \in reads' PROVE r = sending \/ (r \in ReadRows /\ r.aborted /\ r.n \in 1..count /\ r.got <= version[r.path])
  <2>1. CASE r \in D!Aborted
    <3>1. PICK q \in reads : r = [q EXCEPT !.aborted = TRUE]
      BY <2>1 DEF D!Aborted
    <3>2. q \in ReadRows /\ q.n \in 1..count /\ q.got <= version[q.path]
      BY <1>0 DEF DataReads, D!TypeOK, DataShown
    <3> QED
      BY <3>1, <3>2 DEF ReadRows
  <2> QED
    BY <1>1, <1>2, <2>1
<1>3. sending \in ReadRows /\ ~ sending.aborted /\ sending.path = p /\ sending.n = count + 1 /\ sending.at = "sent" /\ sending.got = 0
  BY <1>0 DEF ReadRows
<1>4. sending \in reads'
  BY <1>1
<1> HIDE DEF sending
<1>5. D!TypeOK'
  <2>1. \A r \in reads' : r.n \in 1..count' /\ r.path \in Path /\ r.at \in {"sent", "done", "failed"}
    BY <1>0, <1>1, <1>2, <1>3 DEF ReadRows
  <2>2. data' \in [path : Path \cup {None}, version : 0..MaxVersion] /\ newest' \in 0..MaxVersion
    BY <1>0, <1>1 DEF D!TypeOK, D!Nothing
  <2>3. flags' \in [loading : BOOLEAN, refreshing : BOOLEAN] /\ count' \in 0..MaxRead
    BY <1>0, <1>1, ReadingAssumption
  <2> QED
    BY <1>0, <1>1, <2>1, <2>2, <2>3 DEF D!TypeOK
<1>6. DataReads'
  <2>1. reads' \subseteq ReadRows /\ \A r, q \in reads' : ~ r.aborted /\ ~ q.aborted => r = q
    BY <1>2, <1>3
  <2>2. \A r \in reads' : ~ r.aborted => r.path = path' /\ r.at # "done"
    BY <1>1, <1>2, <1>3
  <2>3. fetching' /\ (flags'.loading \/ flags'.refreshing) /\ \E r \in reads' : ~ r.aborted
    BY <1>1, <1>3, <1>4
  <2> QED
    BY <2>1, <2>2, <2>3 DEF DataReads
<1>7. DataShown'
  <2>1. \A r \in reads' : r.got <= version'[r.path]
    BY <1>0, <1>1, <1>2, <1>3
  <2>2. CASE background
    BY <1>0, <1>1, <2>1, <2>2 DEF DataShown, D!NothingOld
  <2>3. CASE ~ background
    BY <1>0, <1>1, <2>1, <2>3 DEF DataShown, D!NothingOld, D!Nothing
  <2> QED
    BY <2>2, <2>3
<1> QED
  BY <1>5, <1>6, <1>7 DEF DataInv

LEMMA DataAway == ASSUME DataInv, D!Away PROVE DataInv'
<1>0. D!TypeOK /\ DataReads /\ DataShown
  BY DEF DataInv
<1>1. \A r \in D!Aborted : r \in ReadRows /\ r.aborted /\ r.n \in 1..count /\ r.got <= version[r.path]
  <2>1. ASSUME NEW q \in reads PROVE [q EXCEPT !.aborted = TRUE] \in ReadRows /\ [q EXCEPT !.aborted = TRUE].aborted
                                     /\ [q EXCEPT !.aborted = TRUE].n \in 1..count
                                     /\ [q EXCEPT !.aborted = TRUE].got <= version[[q EXCEPT !.aborted = TRUE].path]
    <3>1. q \in ReadRows /\ q.n \in 1..count /\ q.got <= version[q.path]
      BY <1>0 DEF DataReads, D!TypeOK, DataShown
    <3> QED
      BY <3>1 DEF ReadRows
  <2> QED
    BY <2>1 DEF D!Aborted
<1>2. D!TypeOK'
  <2>1. \A r \in D!Aborted : r.path \in Path /\ r.at \in {"sent", "done", "failed"}
    BY <1>1 DEF ReadRows
  <2>2. data' \in [path : Path \cup {None}, version : 0..MaxVersion] /\ newest' \in 0..MaxVersion
    BY ReadingAssumption DEF D!Away, D!Nothing
  <2>3. flags' \in [loading : BOOLEAN, refreshing : BOOLEAN] /\ fetching' \in BOOLEAN /\ path' \in Path \cup {None}
    BY DEF D!Away, D!Still
  <2>4. version' \in [Path -> 0..MaxVersion] /\ retain' \in BOOLEAN /\ count' \in 0..MaxRead
    BY <1>0 DEF D!Away, D!TypeOK
  <2>5. \A r \in reads' : r.n \in 1..count' /\ r.path \in Path /\ r.at \in {"sent", "done", "failed"}
    BY <1>1, <2>1 DEF D!Away
  <2> QED
    BY <2>2, <2>3, <2>4, <2>5 DEF D!TypeOK
<1>3. DataReads'
  BY <1>1 DEF D!Away, DataReads, D!Still
<1>4. DataShown'
  BY <1>1, ReadingAssumption DEF D!Away, DataShown, D!NothingOld, D!Nothing
<1> QED
  BY <1>2, <1>3, <1>4 DEF DataInv

LEMMA DataServe == ASSUME DataInv, NEW r \in reads, D!Serve(r) PROVE DataInv'
<1>0. D!TypeOK /\ DataReads /\ DataShown /\ r \in ReadRows /\ r.n \in 1..count
  BY DEF DataInv, DataReads, D!TypeOK
<1>1. PICK how \in {"done", "failed"} :
        reads' = (reads \ {r}) \cup {[r EXCEPT !.at = how, !.got = IF how = "done" THEN version[r.path] ELSE 0]}
  BY DEF D!Serve
<1>2. PICK q : q = [r EXCEPT !.at = how, !.got = IF how = "done" THEN version[r.path] ELSE 0]
  OBVIOUS
<1>3. r.path \in Path /\ version[r.path] \in 0..MaxVersion /\ 0 \in 0..MaxVersion
  BY <1>0, ReadingAssumption DEF D!TypeOK, ReadRows
<1>4. /\ q \in ReadRows /\ q.n = r.n /\ q.path = r.path /\ q.aborted = r.aborted
      /\ q.at = how /\ (how = "done" => q.got = version[r.path]) /\ q.got <= version[q.path]
  <2>1. q.n = r.n /\ q.path = r.path /\ q.aborted = r.aborted /\ q.at = how
        /\ q.got = IF how = "done" THEN version[r.path] ELSE 0
    BY <1>0, <1>2 DEF ReadRows
  <2>2. q \in ReadRows
    BY <1>0, <1>2, <1>3 DEF ReadRows
  <2>3. q.got <= version[q.path]
    BY <1>3, <2>1
  <2> QED
    BY <2>1, <2>2, <2>3
<1>5. reads' = (reads \ {r}) \cup {q} /\ UNCHANGED <<version, path, retain, data, flags, fetching, count, newest>>
  BY <1>1, <1>2 DEF D!Serve
<1>6. D!TypeOK'
  BY <1>0, <1>4, <1>5 DEF D!TypeOK, ReadRows
<1>7. DataReads'
  <2>1. reads' \subseteq ReadRows
    BY <1>0, <1>4, <1>5 DEF DataReads
  <2>2. \A s, t \in reads' : ~ s.aborted /\ ~ t.aborted => s = t
    BY <1>0, <1>4, <1>5 DEF DataReads
  <2>3. ASSUME NEW s \in reads', ~ s.aborted PROVE s.path = path /\ (s.at = "done" => s.got >= newest)
    <3>1. CASE s = q
      <4>1. r.path = path
        BY <1>0, <1>4, <2>3, <3>1 DEF DataReads
      <4>2. newest <= version[path] /\ newest \in Nat /\ version[path] \in Nat
        BY <1>0, <1>3, <4>1 DEF DataShown, ReadRows, D!TypeOK
      <4> QED
        BY <1>4, <3>1, <4>1, <4>2
    <3>2. CASE s # q
      BY <1>0, <1>5, <2>3, <3>2 DEF DataReads
    <3> QED
      BY <3>1, <3>2
  <2>4. (\E s \in reads' : ~ s.aborted) <=> \E s \in reads : ~ s.aborted
    BY <1>4, <1>5
  <2> QED
    BY <1>0, <1>5, <2>1, <2>2, <2>3, <2>4 DEF DataReads
<1>8. \A s \in reads' : s.got <= version'[s.path]
  BY <1>0, <1>4, <1>5 DEF DataShown
<1>9. DataShown'
  BY <1>0, <1>5, <1>8 DEF DataShown, D!NothingOld
<1> QED
  BY <1>6, <1>7, <1>9 DEF DataInv

LEMMA DataTake == ASSUME DataInv, NEW r \in reads, D!Take(r) PROVE DataInv'
<1>0. D!TypeOK /\ DataReads /\ DataShown /\ r \in ReadRows
  BY DEF DataInv, DataReads
<1>1. r.at # "sent" /\ reads' = reads \ {r} /\ UNCHANGED <<version, path, retain, count>>
  BY DEF D!Take
<1>2. CASE r.aborted
  <2>1. UNCHANGED <<data, flags, fetching, newest>>
    BY <1>2 DEF D!Take
  <2>2. (\E s \in reads' : ~ s.aborted) <=> \E s \in reads : ~ s.aborted
    BY <1>1, <1>2
  <2>3. DataReads'
    BY <1>0, <1>1, <2>1, <2>2 DEF DataReads
  <2> QED
    BY <1>0, <1>1, <2>1, <2>3 DEF DataInv, D!TypeOK, DataShown, D!NothingOld
<1>3. CASE ~ r.aborted
  <2>1. /\ data' = D!Shown(r) /\ flags' = D!Still /\ fetching' = FALSE
        /\ newest' = IF r.at = "done" /\ r.path = path /\ r.got > newest THEN r.got ELSE newest
    BY <1>3 DEF D!Take
  <2>2. \A s \in reads' : s.aborted
    BY <1>0, <1>1, <1>3 DEF DataReads
  <2>3. r.path = path /\ r.path \in Path /\ r.got \in 0..MaxVersion /\ newest \in 0..MaxVersion /\ fetching
         /\ r.got <= version[path]
    BY <1>0, <1>3 DEF DataReads, ReadRows, D!TypeOK, DataShown
  <2>4. D!TypeOK'
    <3>1. D!Shown(r) \in [path : Path \cup {None}, version : 0..MaxVersion]
      <4>1. D!Shown(r) \in {data, D!Nothing, [path |-> r.path, version |-> r.got]}
        BY DEF D!Shown
      <4>2. data \in [path : Path \cup {None}, version : 0..MaxVersion] /\ 0 \in 0..MaxVersion
        BY <1>0, ReadingAssumption DEF D!TypeOK
      <4>3. D!Nothing \in [path : Path \cup {None}, version : 0..MaxVersion]
        BY <4>2 DEF D!Nothing
      <4>4. [path |-> r.path, version |-> r.got] \in [path : Path \cup {None}, version : 0..MaxVersion]
        BY <2>3
      <4> QED
        BY ZenonT(20), <4>1, <4>2, <4>3, <4>4
    <3>2. newest' \in 0..MaxVersion /\ flags' \in [loading : BOOLEAN, refreshing : BOOLEAN]
      <4>1. newest' \in {r.got, newest}
        BY <2>1
      <4>2. newest' \in 0..MaxVersion
        BY ZenonT(20), <2>3, <4>1
      <4>3. flags' \in [loading : BOOLEAN, refreshing : BOOLEAN]
        BY <2>1 DEF D!Still
      <4> QED
        BY <4>2, <4>3
    <3>3. fetching' \in BOOLEAN /\ data' \in [path : Path \cup {None}, version : 0..MaxVersion]
      BY <2>1, <3>1
    <3>4. version' \in [Path -> 0..MaxVersion] /\ path' \in Path \cup {None} /\ retain' \in BOOLEAN /\ count' \in 0..MaxRead
      BY ZenonT(20), <1>0, <1>1 DEF D!TypeOK
    <3>5. \A s \in reads' : s.n \in 1..count' /\ s.path \in Path /\ s.at \in {"sent", "done", "failed"}
      BY <1>0, <1>1 DEF D!TypeOK
    <3> QED
      BY ZenonT(20), <3>2, <3>3, <3>4, <3>5 DEF D!TypeOK
  <2>5. DataReads'
    BY <1>0, <1>1, <2>1, <2>2 DEF DataReads, D!Still
  <2>6. D!NothingOld'
    <3>1. CASE r.at = "failed"
      <4>1. data' = data
        BY <2>1, <3>1 DEF D!Shown
      <4>2. newest' = newest /\ path' = path
        BY <1>1, <2>1, <3>1
      <4> QED
        BY <1>0, <4>1, <4>2 DEF DataShown, D!NothingOld
    <3>2. CASE r.at = "done" /\ r.got \in Denied
      BY <1>0, <1>1, <2>1, <2>3, <3>2 DEF D!Shown, DataShown, D!NothingOld, D!Nothing
    <3>3. CASE r.at = "done" /\ r.got \notin Denied
      <4>1. r.got >= newest
        BY <1>0, <1>3, <3>3 DEF DataReads
      <4> QED
        BY <1>1, <2>1, <2>3, <3>3, <4>1, ReadingAssumption DEF D!Shown, D!NothingOld
    <3> QED
      BY <1>0, <1>1, <3>1, <3>2, <3>3 DEF ReadRows
  <2>7. path' \in Path => newest' <= version'[path']
    BY <1>0, <1>1, <2>1, <2>3 DEF DataShown
  <2>9. \A s \in reads' : s.got <= version'[s.path]
    BY <1>0, <1>1 DEF DataShown
  <2>8. ~ fetching'
    BY ZenonT(20), <2>1
  <2> QED
    BY ZenonT(20), <2>4, <2>5, <2>6, <2>7, <2>8, <2>9 DEF DataInv, DataShown
<1> QED
  BY <1>2, <1>3

LEMMA DataChange == ASSUME DataInv, NEW p \in Path, D!Change(p) PROVE DataInv'
<1>0. D!TypeOK /\ DataReads /\ DataShown /\ version[p] \in 0..MaxVersion
  BY DEF DataInv, D!TypeOK
<1>1. version' = [version EXCEPT ![p] = version[p] + 1] /\ version[p] + 1 \in 0..MaxVersion
      /\ UNCHANGED <<path, retain, data, flags, fetching, reads, count, newest>>
  BY <1>0, ReadingAssumption DEF D!Change
<1>2. version' \in [Path -> 0..MaxVersion]
  BY <1>0, <1>1 DEF D!TypeOK
<1>3. \A q \in Path : version[q] <= version'[q] /\ version[q] \in Nat /\ version'[q] \in Nat
  BY <1>0, <1>1, <1>2 DEF D!TypeOK
<1>4. newest \in Nat /\ \A r \in reads : r.path \in Path /\ r.got \in Nat
  BY <1>0 DEF D!TypeOK, DataReads, ReadRows
<1>5. (path \in Path => newest <= version'[path]) /\ \A r \in reads : r.got <= version'[r.path]
  BY <1>0, <1>3, <1>4 DEF DataShown
<1> QED
  BY <1>0, <1>1, <1>2, <1>5 DEF DataInv, D!TypeOK, DataReads, DataShown, D!NothingOld

LEMMA DataNext == DataInv /\ [D!Next]_D!vars => DataInv'
<1> SUFFICES ASSUME DataInv, [D!Next]_D!vars PROVE DataInv'
  OBVIOUS
<1>1. path \in Path \cup {None}
  BY DEF DataInv, D!TypeOK
<1>2. CASE D!Next
  BY <1>1, <1>2, DataRun, DataAway, DataServe, DataTake, DataChange DEF D!Next, D!Go, D!Reload, D!Refresh
<1>3. CASE UNCHANGED D!vars
  BY <1>3 DEF D!vars, DataInv, D!TypeOK, DataReads, DataShown, D!NothingOld
<1> QED
  BY <1>2, <1>3

\* What the invariant says of what is shown.
LEMMA DataHolds == DataInv => D!TypeOK /\ D!NothingOld /\ D!SaysItReads
  BY DEF DataInv, DataReads, DataShown, D!SaysItReads

\* What a page shows of a resource is of the one it is for and never older than
\* an answer it has had, and it says that it reads while an answer is to come.
THEOREM DataIsNew == D!Spec => [](D!NothingOld /\ D!SaysItReads)
  BY DataStart, DataNext, DataHolds, PTL DEF D!Spec

-----------------------------------------------------------------------------
(* The card scans of a page.                                               *)

StartRows == [generation : 1..MaxPage, at : {"sent", "done", "refused"}, got : Scan \cup {None}]
ScreenRows == [on : BOOLEAN, generation : 0..MaxPage, busy : BOOLEAN, active : Scan \cup {None}, shown : C!Status]

ScanTypes ==
  /\ C!TypeOK
  /\ starting \subseteq StartRows
  /\ lost \in Nat

\* One start is wanted at most, and only by a page that has no scan.
ScanStarts ==
  /\ \A c \in starting : c.generation <= screen.generation
  /\ \A c, d \in starting : c.generation = d.generation => c = d
  /\ \A c \in starting : c.generation = screen.generation => screen.on /\ screen.active = None
  /\ screen.active # None => screen.on

\* Somebody knows of every scan that is open, or a call was lost.
Accounted(s) == screen.active = s \/ s \in releasing \/ \E c \in starting : c.got = s
ScanKnown == lost = 0 => \A s \in Scan : scan[s] \in C!Opened => Accounted(s)

ScanInv == ScanTypes /\ ScanStarts /\ ScanKnown

LEMMA ScanBegins == C!Init => ScanInv
<1> SUFFICES ASSUME C!Init PROVE ScanInv
  OBVIOUS
<1>1. screen = [on |-> TRUE, generation |-> 0, busy |-> FALSE, active |-> None, shown |-> "none"]
  BY DEF C!Init, C!NoPage
<1>2. 0 \in 0..MaxPage /\ screen \in ScreenRows
  BY <1>1, ScanningAssumption DEF ScreenRows, C!Status
<1>3. scan \in [Scan -> C!Status] /\ polling \in [of : Scan \cup {None}, status : C!Status]
  BY DEF C!Init, C!NoPoll, C!Status
<1>4. ScanTypes
  BY <1>2, <1>3 DEF C!Init, ScanTypes, C!TypeOK, ScreenRows
<1> QED
  BY <1>1, <1>4 DEF C!Init, ScanInv, ScanStarts, ScanKnown, C!NoPage, C!Opened

LEMMA ScanStart == ASSUME ScanInv, C!Start PROVE ScanInv'
<1> DEFINE added == [generation |-> screen.generation + 1, at |-> "sent", got |-> None]
<1>0. ScanTypes /\ ScanStarts /\ ScanKnown /\ screen \in ScreenRows
  BY DEF ScanInv, ScanTypes, C!TypeOK, ScreenRows
<1>7. screen.generation \in Nat /\ screen.generation < MaxPage
  BY <1>0 DEF C!Start, ScreenRows
<1>8. screen.generation + 1 \in 1..MaxPage /\ screen.generation + 1 \in 0..MaxPage
  BY <1>7, ScanningAssumption
<1>1. /\ screen.on /\ screen.active = None
      /\ screen' = [screen EXCEPT !.generation = screen.generation + 1, !.busy = TRUE]
      /\ starting' = starting \cup {added}
      /\ UNCHANGED <<scan, polling, releasing, lost>>
  BY DEF C!Start
<1>2. screen' \in ScreenRows /\ screen'.on /\ screen'.active = None /\ screen'.generation = screen.generation + 1
  BY <1>0, <1>1, <1>8 DEF ScreenRows
<1>3. added \in StartRows /\ added.generation = screen.generation + 1 /\ added.got = None
  BY <1>8 DEF StartRows
<1> HIDE DEF added
<1>4. ScanTypes'
  BY <1>0, <1>1, <1>2, <1>3 DEF ScanTypes, C!TypeOK, ScreenRows, StartRows
<1>5. ScanStarts'
  <2>1. screen.generation \in Nat /\ \A c \in starting : c.generation \in Nat
    BY <1>0 DEF ScreenRows, ScanTypes, StartRows
  <2>2. \A c \in starting : c.generation < screen'.generation
    BY <1>0, <1>2, <2>1 DEF ScanStarts
  <2>3. \A c \in starting' : c.generation <= screen'.generation
    BY <1>1, <1>2, <1>3, <2>1, <2>2
  <2>4. \A c, d \in starting' : c.generation = d.generation => c = d
    BY <1>0, <1>1, <1>2, <1>3, <2>1, <2>2 DEF ScanStarts
  <2> QED
    BY <1>2, <2>3, <2>4 DEF ScanStarts
<1>6. ScanKnown'
  BY <1>0, <1>1, <1>2 DEF ScanKnown, Accounted
<1> QED
  BY <1>4, <1>5, <1>6 DEF ScanInv

LEMMA ScanTakeStart == ASSUME ScanInv, NEW c \in starting, C!TakeStart(c) PROVE ScanInv'
<1>0. ScanTypes /\ ScanStarts /\ ScanKnown /\ screen \in ScreenRows /\ c \in StartRows
  BY DEF ScanInv, ScanTypes, C!TypeOK, ScreenRows
<1>1. starting' = starting \ {c} /\ UNCHANGED <<scan, lost>>
  BY DEF C!TakeStart
<1>2. c.got \in Scan \cup {None} /\ c.generation \in Nat
  BY <1>0 DEF StartRows
<1>3. CASE ~ C!Wanted(c)
  <2>1. screen' = screen /\ polling' = polling /\ releasing' = (IF c.got # None THEN releasing \cup {c.got} ELSE releasing)
    BY <1>3 DEF C!TakeStart
  <2>2. ScanTypes' /\ ScanStarts'
    BY <1>0, <1>1, <1>2, <2>1 DEF ScanTypes, C!TypeOK, ScanStarts
  <2>3. ScanKnown'
    BY <1>0, <1>1, <1>2, <2>1, ScanningAssumption DEF ScanKnown, Accounted
  <2> QED
    BY <2>2, <2>3 DEF ScanInv
<1>4. CASE C!Wanted(c) /\ c.got = None
  <2>1. screen' = [screen EXCEPT !.busy = FALSE] /\ polling' = polling /\ releasing' = releasing
    BY <1>4 DEF C!TakeStart
  <2>2. screen' \in ScreenRows /\ screen'.on = screen.on /\ screen'.active = screen.active /\ screen'.generation = screen.generation
    BY <1>0, <2>1 DEF ScreenRows
  <2>3. ScanTypes' /\ ScanStarts'
    BY <1>0, <1>1, <2>1, <2>2 DEF ScanTypes, C!TypeOK, ScanStarts, ScreenRows
  <2>4. ScanKnown'
    BY <1>0, <1>1, <1>4, <2>1, <2>2, ScanningAssumption DEF ScanKnown, Accounted
  <2> QED
    BY <2>3, <2>4 DEF ScanInv
<1>5. CASE C!Wanted(c) /\ c.got # None
  <2>1. /\ screen' = [screen EXCEPT !.busy = FALSE, !.active = c.got, !.shown = "waiting"]
        /\ polling' = [of |-> c.got, status |-> "none"] /\ releasing' = releasing
    BY <1>5 DEF C!TakeStart
  <2>2. screen' \in ScreenRows /\ screen'.on = screen.on /\ screen'.active = c.got /\ screen'.generation = screen.generation
    BY <1>0, <1>2, <2>1 DEF ScreenRows, C!Status
  <2>3. screen.on /\ screen.active = None /\ c.generation = screen.generation
    BY <1>0, <1>5 DEF ScanStarts, C!Wanted
  <2>4. \A d \in starting' : d.generation # screen.generation
    BY <1>0, <1>1, <2>3 DEF ScanStarts
  <2>5. ScanTypes'
    BY <1>0, <1>1, <1>2, <1>5, <2>1, <2>2 DEF ScanTypes, C!TypeOK, ScreenRows, C!Status
  <2>6. ScanStarts'
    BY <1>0, <1>1, <2>2, <2>3, <2>4 DEF ScanStarts
  <2>7. ScanKnown'
    BY <1>0, <1>1, <2>1, <2>2, <2>3, ScanningAssumption DEF ScanKnown, Accounted
  <2> QED
    BY <2>5, <2>6, <2>7 DEF ScanInv
<1> QED
  BY <1>3, <1>4, <1>5

\* The page moves on: what it had open is released, and what it asked for is
\* not wanted any more.
LEMMA ScanMoves ==
  ASSUME ScanInv, screen' \in ScreenRows, screen'.generation = screen.generation + 1, screen'.active = None,
         releasing' = (IF screen.active = None THEN releasing ELSE releasing \cup {screen.active}),
         polling' = C!NoPoll, UNCHANGED <<scan, starting, lost>>
  PROVE  ScanInv'
<1>0. ScanTypes /\ ScanStarts /\ ScanKnown /\ screen \in ScreenRows
  BY DEF ScanInv, ScanTypes, C!TypeOK, ScreenRows
<1>1. screen.generation \in Nat /\ screen.active \in Scan \cup {None} /\ \A c \in starting : c.generation \in Nat
  BY <1>0 DEF ScreenRows, ScanTypes, StartRows
<1>2. ScanTypes'
  BY <1>0, <1>1 DEF ScanTypes, C!TypeOK, ScreenRows, C!NoPoll, C!Status
<1>3. \A c \in starting : c.generation < screen'.generation
  BY <1>0, <1>1 DEF ScanStarts
<1>4. ScanStarts'
  BY <1>0, <1>1, <1>3 DEF ScanStarts
<1>5. ScanKnown'
  BY <1>0, ScanningAssumption DEF ScanKnown, Accounted
<1> QED
  BY <1>2, <1>4, <1>5 DEF ScanInv

LEMMA ScanCancel == ASSUME ScanInv, C!Cancel \/ C!Leave PROVE ScanInv'
<1>1. screen \in ScreenRows /\ screen.generation < MaxPage
  BY DEF ScanInv, ScanTypes, C!TypeOK, ScreenRows, C!Cancel, C!Leave
<1>2. screen.generation + 1 \in 0..MaxPage
  BY <1>1, ScanningAssumption DEF ScreenRows
<1>3. screen' \in {[C!NoPage(screen.generation + 1) EXCEPT !.on = TRUE], C!NoPage(screen.generation + 1)}
  BY DEF C!Cancel, C!Leave
<1>4. screen' \in ScreenRows /\ screen'.generation = screen.generation + 1 /\ screen'.active = None
  <2>1. CASE screen' = C!NoPage(screen.generation + 1)
    BY <1>2, <2>1 DEF C!NoPage, ScreenRows, C!Status
  <2>2. CASE screen' = [C!NoPage(screen.generation + 1) EXCEPT !.on = TRUE]
    <3>1. screen' = [on |-> TRUE, generation |-> screen.generation + 1, busy |-> FALSE, active |-> None, shown |-> "none"]
      BY ZenonT(20), <2>2 DEF C!NoPage
    <3> QED
      BY <1>2, <3>1 DEF ScreenRows, C!Status
  <2> QED
    BY <1>3, <2>1, <2>2
<1> QED
  BY <1>4, ScanMoves DEF C!Cancel, C!Leave

\* What changes only what the page shows.
LEMMA ScanShows ==
  ASSUME ScanInv, screen' \in ScreenRows, screen'.generation = screen.generation, screen'.active = screen.active,
         screen.on => screen'.on, polling' \in [of : Scan \cup {None}, status : C!Status],
         UNCHANGED <<scan, starting, releasing, lost>>
  PROVE  ScanInv'
<1>0. ScanTypes /\ ScanStarts /\ ScanKnown
  BY DEF ScanInv
<1>1. ScanTypes'
  BY <1>0 DEF ScanTypes, C!TypeOK, ScreenRows
<1>2. ScanStarts' /\ ScanKnown'
  BY <1>0 DEF ScanStarts, ScanKnown, Accounted
<1> QED
  BY <1>1, <1>2 DEF ScanInv

LEMMA ScanViews == ASSUME ScanInv, C!Enter \/ C!TakePoll \/ C!RunOut \/ C!ServePoll PROVE ScanInv'
<1>0. screen \in ScreenRows /\ polling \in [of : Scan \cup {None}, status : C!Status] /\ scan \in [Scan -> C!Status]
  BY DEF ScanInv, ScanTypes, C!TypeOK, ScreenRows
<1>1. CASE C!Enter
  <2>1. screen' \in ScreenRows /\ screen'.generation = screen.generation /\ screen'.active = screen.active /\ screen'.on
    BY <1>0, <1>1 DEF C!Enter, ScreenRows
  <2> QED
    BY <1>0, <1>1, <2>1, ScanShows DEF C!Enter
<1>2. CASE C!TakePoll
  <2>1. screen' \in ScreenRows /\ screen'.generation = screen.generation /\ screen'.active = screen.active /\ screen'.on = screen.on
    BY <1>0, <1>2 DEF C!TakePoll, ScreenRows
  <2>2. polling' \in [of : Scan \cup {None}, status : C!Status]
    BY <1>0, <1>2 DEF C!TakePoll, C!NoPoll, C!Status
  <2> QED
    BY <1>2, <2>1, <2>2, ScanShows DEF C!TakePoll
<1>3. CASE C!RunOut
  <2>1. screen' \in ScreenRows /\ screen'.generation = screen.generation /\ screen'.active = screen.active /\ screen'.on = screen.on
    BY <1>0, <1>3 DEF C!RunOut, ScreenRows, C!Status
  <2>2. polling' \in [of : Scan \cup {None}, status : C!Status]
    BY <1>3 DEF C!RunOut, C!NoPoll, C!Status
  <2> QED
    BY <1>3, <2>1, <2>2, ScanShows DEF C!RunOut
<1>4. CASE C!ServePoll
  <2>1. scan[polling.of] \in C!Status
    BY <1>0, <1>4 DEF C!ServePoll
  <2>2. polling' \in [of : Scan \cup {None}, status : C!Status]
    BY <1>0, <1>4, <2>1 DEF C!ServePoll
  <2> QED
    BY <1>0, <1>4, <2>2, ScanShows DEF C!ServePoll
<1> QED
  BY <1>1, <1>2, <1>3, <1>4

\* One start in the place of another of the same page.
LEMMA ScanReplaces ==
  ASSUME ScanTypes, ScanStarts, UNCHANGED screen, NEW c \in starting, NEW d \in StartRows,
         d.generation = c.generation, starting' = (starting \ {c}) \cup {d}
  PROVE  ScanStarts' /\ starting' \subseteq StartRows
  BY DEF ScanTypes, ScanStarts

LEMMA ScanServeStart == ASSUME ScanInv, NEW c \in starting, C!ServeStart(c) PROVE ScanInv'
<1>0. ScanTypes /\ ScanStarts /\ ScanKnown /\ c \in StartRows /\ scan \in [Scan -> C!Status]
  BY DEF ScanInv, ScanTypes, C!TypeOK
<1>1. UNCHANGED <<screen, polling, releasing, lost>>
  BY DEF C!ServeStart
<1>2. CASE \E s \in Scan : scan[s] \in C!Opened
  <2>1. PICK d : d = [c EXCEPT !.at = "refused"]
    OBVIOUS
  <2>2. d \in StartRows /\ d.generation = c.generation /\ d.got = c.got
    BY <1>0, <2>1 DEF StartRows
  <2>3. starting' = (starting \ {c}) \cup {d} /\ UNCHANGED scan
    BY <1>2, <2>1 DEF C!ServeStart
  <2>4. ScanStarts' /\ starting' \subseteq StartRows
    BY <1>0, <1>1, <2>2, <2>3, ScanReplaces
  <2>5. ScanTypes'
    BY <1>0, <1>1, <2>3, <2>4 DEF ScanTypes, C!TypeOK, StartRows
  <2>6. ScanKnown'
    BY <1>0, <1>1, <2>2, <2>3 DEF ScanKnown, Accounted
  <2> QED
    BY <2>4, <2>5, <2>6 DEF ScanInv
<1>3. CASE ~ \E s \in Scan : scan[s] \in C!Opened
  <2>1. PICK s \in Scan : /\ scan' = [scan EXCEPT ![s] = "waiting"]
                          /\ starting' = (starting \ {c}) \cup {[c EXCEPT !.at = "done", !.got = s]}
    BY <1>3 DEF C!ServeStart
  <2>2. PICK d : d = [c EXCEPT !.at = "done", !.got = s]
    OBVIOUS
  <2>3. d \in StartRows /\ d.generation = c.generation /\ d.got = s
    BY <1>0, <2>2 DEF StartRows
  <2>4. ScanStarts' /\ starting' \subseteq StartRows
    BY <1>0, <1>1, <2>1, <2>2, <2>3, ScanReplaces
  <2>5. scan' \in [Scan -> C!Status] /\ \A x \in Scan : scan'[x] \in C!Opened => x = s
    BY <1>0, <1>3, <2>1 DEF C!Status
  <2>6. ScanTypes'
    BY <1>0, <1>1, <2>4, <2>5 DEF ScanTypes, C!TypeOK, StartRows
  <2>7. ScanKnown'
    BY <2>1, <2>2, <2>3, <2>5 DEF ScanKnown, Accounted
  <2> QED
    BY <2>4, <2>6, <2>7 DEF ScanInv
<1> QED
  BY <1>2, <1>3

LEMMA ScanServes == ASSUME ScanInv, NEW s \in Scan, C!Step(s) \/ (s \in releasing /\ C!ServeRelease(s)) PROVE ScanInv'
<1>0. ScanTypes /\ ScanStarts /\ ScanKnown /\ scan \in [Scan -> C!Status] /\ releasing \subseteq Scan
  BY DEF ScanInv, ScanTypes, C!TypeOK
<1>1. UNCHANGED <<screen, starting, polling, lost>>
  BY DEF C!Step, C!ServeRelease
<1>2. /\ scan' \in [Scan -> C!Status] /\ \A x \in Scan \ {s} : scan'[x] = scan[x]
      /\ releasing' \subseteq Scan
      /\ \/ releasing' = releasing /\ scan[s] \in C!Opened
         \/ releasing' = releasing \ {s} /\ scan'[s] \notin C!Opened
  <2>1. CASE C!Step(s)
    <3>1. PICK next \in {"expired", IF scan[s] = "waiting" THEN "captured" ELSE "completed"} : scan' = [scan EXCEPT ![s] = next]
      BY <2>1 DEF C!Step
    <3>2. next \in C!Status
      BY <3>1 DEF C!Status
    <3> QED
      BY <1>0, <2>1, <3>1, <3>2 DEF C!Step
  <2>2. CASE s \in releasing /\ C!ServeRelease(s)
    <3>1. releasing' = releasing \ {s}
      BY <2>2 DEF C!ServeRelease
    <3>2. CASE scan[s] \in C!Opened \cup {"expired"}
      BY <1>0, <2>2, <3>1, <3>2 DEF C!ServeRelease, C!Status, C!Opened
    <3>3. CASE scan[s] \notin C!Opened \cup {"expired"}
      BY <1>0, <2>2, <3>1, <3>3 DEF C!ServeRelease
    <3> QED
      BY <3>2, <3>3
  <2> QED
    BY <2>1, <2>2
<1>3. ScanTypes'
  BY <1>0, <1>1, <1>2 DEF ScanTypes, C!TypeOK
<1>4. ScanStarts'
  BY <1>0, <1>1 DEF ScanStarts
<1>5. ScanKnown'
  <2>1. ASSUME lost = 0, NEW x \in Scan, scan'[x] \in C!Opened PROVE Accounted(x)'
    <3>1. Accounted(x)
      BY <1>0, <1>2, <2>1 DEF ScanKnown
    <3>2. x \in releasing => x \in releasing'
      BY <1>2, <2>1
    <3> QED
      BY <1>1, <3>1, <3>2 DEF Accounted
  <2> QED
    BY <1>1, <2>1 DEF ScanKnown
<1> QED
  BY <1>3, <1>4, <1>5 DEF ScanInv

LEMMA ScanLose == ASSUME ScanInv, C!Lose PROVE ScanInv'
<1>0. ScanTypes /\ ScanStarts
  BY DEF ScanInv
<1>1. lost' = lost + 1 /\ lost' \in Nat /\ lost' # 0 /\ UNCHANGED <<scan, screen, polling>>
  <2>1. lost \in Nat
    BY <1>0 DEF ScanTypes
  <2>2. lost' = lost + 1 /\ UNCHANGED <<scan, screen, polling>>
    BY ZenonT(20) DEF C!Lose
  <2> QED
    BY <2>1, <2>2
<1>2. ScanKnown'
  BY <1>1 DEF ScanKnown
<1>3. CASE \E s \in releasing : releasing' = releasing \ {s} /\ UNCHANGED starting
  BY <1>0, <1>1, <1>2, <1>3 DEF ScanInv, ScanTypes, C!TypeOK, ScanStarts
<1>4. CASE \E c \in starting : /\ starting' = (starting \ {c}) \cup {[c EXCEPT !.at = "refused", !.got = None]}
                               /\ UNCHANGED releasing
  <2>1. PICK c \in starting : starting' = (starting \ {c}) \cup {[c EXCEPT !.at = "refused", !.got = None]}
    BY <1>4
  <2>2. PICK d : d = [c EXCEPT !.at = "refused", !.got = None]
    OBVIOUS
  <2>3. c \in StartRows
    BY <1>0 DEF ScanTypes
  <2>4. d \in StartRows /\ d.generation = c.generation
    BY <2>2, <2>3 DEF StartRows
  <2>5. ScanStarts' /\ starting' \subseteq StartRows
    BY <1>0, <1>1, <2>1, <2>2, <2>4, ScanReplaces
  <2>6. ScanTypes'
    BY <1>0, <1>1, <1>4, <2>5 DEF ScanTypes, C!TypeOK, StartRows
  <2> QED
    BY <1>2, <2>5, <2>6 DEF ScanInv
<1> QED
  BY <1>3, <1>4 DEF C!Lose

LEMMA ScanNext == ScanInv /\ [C!Next]_C!vars => ScanInv'
<1> SUFFICES ASSUME ScanInv, [C!Next]_C!vars PROVE ScanInv'
  OBVIOUS
<1>1. releasing \subseteq Scan
  BY DEF ScanInv, ScanTypes, C!TypeOK
<1>2. CASE C!Next
  BY <1>1, <1>2, ScanStart, ScanTakeStart, ScanCancel, ScanViews, ScanServeStart, ScanServes, ScanLose DEF C!Next
<1>3. CASE UNCHANGED C!vars
  BY <1>3 DEF C!vars, ScanInv, ScanTypes, C!TypeOK, ScanStarts, ScanKnown, Accounted
<1> QED
  BY <1>2, <1>3

\* What the invariant says of the scans that are open.
LEMMA ScanHolds == ScanInv => C!TypeOK /\ C!NoStrayScan
<1> SUFFICES ASSUME ScanInv PROVE C!NoStrayScan
  BY DEF ScanInv, ScanTypes
<1> QED
  BY ScanningAssumption DEF ScanInv, ScanTypes, C!TypeOK, ScanStarts, ScanKnown, Accounted, C!NoStrayScan

\* When no call was lost, a reader waits for a card only for the scan that the
\* page shows.
THEOREM ScansAreShown == C!Spec => []C!NoStrayScan
  BY ScanBegins, ScanNext, ScanHolds, PTL DEF C!Spec

-----------------------------------------------------------------------------
(* The page and its sign-in.                                               *)

\* A sign-in that there was.
Used(f) == f = 0 \/ signin[f].newest # 0

Working(c) == asking[c].at # "idle"
Changing(c) == Working(c) /\ asking[c].do \in B!Change
Exchanging(c) == asking[c].at \in {"refresh", "refresh answered"}
RenewsNow(c) == asking[c].at \in {"csrf", "csrf answered"} \/ Exchanging(c)
Granted(c) == asking[c].at = "answered" /\ asking[c].answer = "ok"
Switched(c) == Granted(c) /\ asking[c].do \in {"open", "close"}
Turned(c) == asking[c].at = "refresh answered" /\ asking[c].answer = "ok"

\* What is taken up when it is answered: changes, and the latest read of the session.
Kept(c) == asking[c].do \in {"login", "open", "close"} \/ (asking[c].do = "session" /\ page.wanted = c)
Away(c) == asking[c].at \in {"sent", "closing"} \/ Granted(c)

\* Sign-ins are not taken up again once they have ended.
PageFamilies ==
  /\ ~ signin[0].live /\ signin[0].newest = 0
  /\ \A f \in B!Families : signin[f].live => signin[f].newest # 0
  /\ Used(cookie.family) /\ Used(page.access.family) /\ Used(page.shown.family)
  /\ \A c \in Call : Used(asking[c].token.family) /\ Used(asking[c].view.family)
  /\ \A f \in ended : f \in B!Families /\ f # 0 /\ Used(f) /\ ~ signin[f].live

\* One change at a time, and no other call with a sign-in.
PageChanges ==
  /\ \A c, d \in Call : Changing(c) /\ Changing(d) => c = d
  /\ \A c \in Call : Working(c) /\ asking[c].do = "login" =>
       page.shown = B!Nobody /\ page.wanted = None /\ \A d \in Call \ {c} : ~ Working(d)

PageAnswers ==
  /\ \A c \in Call : Granted(c) /\ asking[c].do # "login" => asking[c].view.family = asking[c].token.family
  /\ \A c \in Call : Granted(c) /\ asking[c].do = "logout" =>
       asking[c].view.family # 0 /\ ~ signin[asking[c].view.family].live
  /\ \A c \in Call : Granted(c) /\ asking[c].do = "login" => asking[c].view.family \notin ended
  /\ \A c \in Call : (asking[c].at = "closing" \/ Granted(c)) /\ Kept(c) /\ asking[c].do # "login" => asking[c].token.family \notin ended
  /\ \A c \in Call : asking[c].at = "closing" => asking[c].do \in {"session", "read"}
  /\ page.shown.family \notin ended

\* One renewal at a time, with the newest token that there is.
PageRenewals ==
  /\ \A c, d \in Call : RenewsNow(c) /\ RenewsNow(d) => c = d
  /\ ~ disturbed => \A c \in Call :
       /\ asking[c].at = "refresh" \/ Turned(c) =>
            (signin[asking[c].token.family].live => asking[c].token.number = signin[asking[c].token.family].newest)
       /\ Granted(c) /\ asking[c].do = "login" =>
            (signin[asking[c].view.family].live => signin[asking[c].view.family].newest = 1)
  /\ ~ disturbed /\ signin[cookie.family].live =>
       \/ cookie.number = signin[cookie.family].newest
       \/ \E c \in Call : Turned(c) /\ asking[c].token.family = cookie.family
  /\ B!RenewsOnce

PageTokens ==
  signin[page.access.family].live =>
    /\ page.access.family = cookie.family
    /\ \A c \in Call : Exchanging(c) => asking[c].token.family = page.access.family

\* The page's tokens, and those to come, are of this sign-in.
Stands(f) ==
  /\ cookie.family = f /\ page.access.family \in {0, f}
  /\ \A c \in Call : Exchanging(c) => asking[c].token.family = f

PageStands ==
  /\ \A c \in Call : Kept(c) /\ Away(c) /\ asking[c].do # "login" /\ asking[c].later /\ signin[asking[c].token.family].live =>
       Stands(asking[c].token.family)
  /\ ~ estranged /\ signin[page.shown.family].live => Stands(page.shown.family)

\* The account is known to be as it was answered, but for a change that was
\* answered and not taken up.
PageActing ==
  /\ \A c \in Call : Kept(c) /\ Granted(c) /\ asking[c].later /\ signin[asking[c].view.family].live
                     /\ (asking[c].do = "session" => \A d \in Call : ~ Switched(d)) =>
       asking[c].view.acting = signin[asking[c].view.family].acting
  /\ ~ estranged /\ signin[page.shown.family].live /\ (\A d \in Call : ~ Switched(d)) =>
       page.shown.acting = signin[page.shown.family].acting

PageInv ==
  B!TypeOK /\ PageFamilies /\ PageChanges /\ PageAnswers /\ PageRenewals /\ PageTokens /\ PageStands /\ PageActing

FamilyRows == [live : BOOLEAN, acting : BOOLEAN, newest : 0..Renewals, lapsed : 0..Renewals]
PageRows == [access : B!TokenOf, csrf : B!Families, shown : B!View, wanted : Call \cup {None}]
CallRows == [at : B!Place, do : B!Change \cup {"session", "read"}, token : B!TokenOf, csrf : B!Families,
             again : BOOLEAN, later : BOOLEAN, answer : {"none", "ok", "401", "no"}, view : B!View]

LEMMA PageTypes ==
  B!TypeOK <=> /\ signin \in [B!Families -> FamilyRows] /\ cookie \in B!TokenOf
               /\ page \in PageRows /\ asking \in [Call -> CallRows]
BY DEF B!TypeOK, FamilyRows, PageRows, CallRows

LEMMA PageNothing ==
  /\ 0 \in B!Families /\ B!NoToken \in B!TokenOf /\ B!Nobody \in B!View
  /\ B!NoToken.family = 0 /\ B!Nobody.family = 0 /\ ~ B!Nobody.acting
<1>1. 0 \in B!Families /\ 0 \in 0..Renewals
  BY SigningAssumption DEF B!Families
<1>2. B!NoToken \in B!TokenOf /\ B!NoToken.family = 0
  BY <1>1 DEF B!NoToken, B!TokenOf
<1>3. B!Nobody \in B!View /\ B!Nobody.family = 0 /\ ~ B!Nobody.acting
  BY <1>1 DEF B!Nobody, B!View
<1> QED
  BY <1>1, <1>2, <1>3

LEMMA PageIdle ==
  /\ B!Idle \in CallRows /\ B!Idle.at = "idle" /\ B!Idle.token = B!NoToken /\ B!Idle.view = B!Nobody
  /\ B!Idle.answer = "none" /\ ~ B!Idle.later /\ ~ B!Idle.again
BY PageNothing DEF B!Idle, CallRows, B!Place

LEMMA PageSignedOut ==
  B!SignedOut \in PageRows /\ B!SignedOut.access = B!NoToken /\ B!SignedOut.shown = B!Nobody /\ B!SignedOut.wanted = None
BY PageNothing DEF B!SignedOut, PageRows

LEMMA PageStart == B!Init => PageInv
<1> SUFFICES ASSUME B!Init PROVE PageInv
  OBVIOUS
<1>1. \A f \in B!Families : /\ signin[f] \in FamilyRows /\ (signin[f].live <=> f = 1) /\ ~ signin[f].acting
                            /\ signin[f].newest = (IF f = 1 THEN 1 ELSE 0)
  <2>1. 0 \in 0..Renewals /\ 1 \in 0..Renewals
    BY SigningAssumption
  <2> QED
    BY <2>1 DEF B!Init, FamilyRows
<1>2. cookie \in B!TokenOf /\ cookie.family \in {0, 1} /\ cookie.number = cookie.family /\ 1 \in B!Families
  <2>1. 1 \in B!Families /\ 1 \in 0..Renewals
    BY SigningAssumption DEF B!Families
  <2>2. CASE cookie = B!NoToken
    BY <2>1, <2>2, PageNothing DEF B!NoToken
  <2>3. CASE cookie = [family |-> 1, number |-> 1]
    BY <2>1, <2>3 DEF B!TokenOf
  <2> QED
    BY <2>1, <2>2, <2>3 DEF B!Init
<1>3. /\ page = B!SignedOut /\ asking = [c \in Call |-> B!Idle] /\ ended = {}
      /\ ~ estranged /\ ~ replayed /\ ~ disturbed
  BY DEF B!Init
<1>4. \A c \in Call : asking[c] = B!Idle
  BY <1>3
<1>5. B!TypeOK
  <2>1. signin \in [B!Families -> FamilyRows]
    BY <1>1 DEF B!Init
  <2> QED
    BY <2>1, <1>2, <1>3, PageIdle, PageSignedOut, PageTypes
<1>6. PageFamilies
  BY <1>1, <1>2, <1>3, <1>4, PageIdle, PageSignedOut, PageNothing DEF PageFamilies, Used
<1>7. PageChanges /\ PageAnswers
  BY <1>3, <1>4, PageIdle, PageSignedOut, PageNothing DEF PageChanges, PageAnswers, Changing, Working, Granted
<1>8. PageRenewals
  BY <1>1, <1>2, <1>3, <1>4, PageIdle, PageNothing DEF PageRenewals, RenewsNow, Exchanging, Turned, Granted, B!RenewsOnce
<1>9. PageTokens /\ PageStands /\ PageActing
  BY <1>1, <1>3, <1>4, PageIdle, PageSignedOut, PageNothing DEF PageTokens, PageStands, PageActing, Away, Granted
<1> QED
  BY <1>5, <1>6, <1>7, <1>8, <1>9 DEF PageInv

-----------------------------------------------------------------------------
(* Steps that give nothing new.                                            *)

\* What holds of a sign-in after the step.
StillUsed(f) == f = 0 \/ signin'[f].newest # 0
StillStands(f) ==
  /\ cookie'.family = f /\ page'.access.family \in {0, f}
  /\ \A c \in Call : Exchanging(c)' => asking'[c].token.family = f

\* The sign-ins that the page, its calls and the browser know.
KnownSignIns == {0, cookie.family, page.access.family, page.shown.family}
          \cup {asking[c].token.family : c \in Call} \cup {asking[c].view.family : c \in Call}

\* A sign-in that has ended stays so, in every step.
Ages ==
  /\ ~ signin'[0].live /\ signin'[0].newest = 0
  /\ \A f \in B!Families : (signin'[f].live => StillUsed(f)) /\ (Used(f) => StillUsed(f) /\ (signin'[f].live => signin[f].live))

LEMMA PageHeld == PageInv => \A f \in KnownSignIns : f \in B!Families /\ Used(f)
<1> SUFFICES ASSUME PageInv PROVE \A f \in KnownSignIns : f \in B!Families /\ Used(f)
  OBVIOUS
<1>1. /\ \A c \in Call : asking[c].token.family \in B!Families /\ asking[c].view.family \in B!Families
      /\ page.shown.family \in B!Families /\ page.access.family \in B!Families /\ cookie.family \in B!Families
  BY PageTypes DEF PageInv, PageRows, CallRows, B!TokenOf, B!View
<1>2. PageFamilies
  BY DEF PageInv
<1> QED
  BY <1>1, <1>2, PageNothing DEF KnownSignIns, PageFamilies, Used

LEMMA PageFamiliesOn ==
  ASSUME PageInv, Ages, cookie'.family \in KnownSignIns \/ StillUsed(cookie'.family),
         page'.access.family \in KnownSignIns, page'.shown.family \in KnownSignIns,
         \A c \in Call : asking'[c].token.family \in KnownSignIns /\ (asking'[c].view.family \in KnownSignIns \/ StillUsed(asking'[c].view.family)),
         \A f \in ended' : f \in ended \/ (f \in KnownSignIns /\ f # 0 /\ ~ signin[f].live)
  PROVE  PageFamilies'
<1>1. \A f \in KnownSignIns : f \in B!Families /\ StillUsed(f) /\ (signin'[f].live => signin[f].live)
  BY PageHeld DEF Ages
<1>2. \A f \in ended : f \in B!Families /\ f # 0 /\ StillUsed(f) /\ ~ signin'[f].live
  BY DEF PageInv, PageFamilies, Ages
<1>3. StillUsed(cookie'.family) /\ StillUsed(page'.access.family) /\ StillUsed(page'.shown.family)
  BY <1>1
<1>4. \A c \in Call : StillUsed(asking'[c].token.family) /\ StillUsed(asking'[c].view.family)
  BY <1>1
<1>5. \A f \in ended' : f \in B!Families /\ f # 0 /\ StillUsed(f) /\ ~ signin'[f].live
  BY <1>1, <1>2
<1>6. ~ signin'[0].live /\ signin'[0].newest = 0 /\ \A f \in B!Families : signin'[f].live => signin'[f].newest # 0
  BY DEF Ages, StillUsed
<1> QED
  BY <1>3, <1>4, <1>5, <1>6 DEF PageFamilies, Used, StillUsed

LEMMA PageChangesOn ==
  ASSUME PageInv, \A c \in Call : Working(c)' => Working(c) /\ asking'[c].do = asking[c].do,
         (\E c \in Call : Working(c) /\ asking[c].do = "login") => page'.shown \in {page.shown, B!Nobody} /\ page'.wanted \in {page.wanted, None}
  PROVE  PageChanges'
<1>1. PageChanges
  BY DEF PageInv
<1>2. \A c, d \in Call : Changing(c)' /\ Changing(d)' => c = d
  BY <1>1 DEF PageChanges, Changing
<1>3. \A c \in Call : Working(c)' /\ asking'[c].do = "login" =>
        page'.shown = B!Nobody /\ page'.wanted = None /\ \A d \in Call \ {c} : ~ Working(d)'
  BY <1>1 DEF PageChanges
<1> QED
  BY <1>2, <1>3 DEF PageChanges

\* An answer that was there, and is kept if it was.
AnswersLess(c) ==
  /\ Granted(c)' => Granted(c) /\ asking'[c].do = asking[c].do /\ asking'[c].view = asking[c].view /\ asking'[c].token = asking[c].token
  /\ (asking'[c].at = "closing" => asking[c].at = "closing" /\ asking'[c].do = asking[c].do /\ asking'[c].token = asking[c].token)
  /\ (asking'[c].at = "closing" \/ Granted(c)') /\ Kept(c)' => Kept(c)

\* An answer of now.
AnswersNow(c) ==
  /\ Granted(c)' /\ asking'[c].do # "login" => asking'[c].view.family = asking'[c].token.family
  /\ Granted(c)' /\ asking'[c].do = "logout" => asking'[c].view.family # 0 /\ ~ signin'[asking'[c].view.family].live
  /\ Granted(c)' /\ asking'[c].do = "login" => asking'[c].view.family \notin ended'
  /\ (asking'[c].at = "closing" \/ Granted(c)') /\ Kept(c)' /\ asking'[c].do # "login" => asking'[c].token.family \notin ended'
  /\ (asking'[c].at = "closing" => asking'[c].do \in {"session", "read"})

LEMMA PageAnswersOn ==
  ASSUME PageInv, Ages, \A c \in Call : AnswersLess(c) \/ AnswersNow(c), ended' = ended, page'.shown.family \notin ended'
  PROVE  PageAnswers'
<1>0. PageAnswers /\ \A c \in Call : asking[c].view.family \in KnownSignIns
  BY DEF PageInv, KnownSignIns
<1>1. \A f \in KnownSignIns : signin'[f].live => signin[f].live
  BY PageHeld DEF Ages
<1>2. ASSUME NEW c \in Call, AnswersLess(c) PROVE AnswersNow(c)
  <2>1. Granted(c)' /\ asking'[c].do # "login" => asking'[c].view.family = asking'[c].token.family
    BY <1>0, <1>2 DEF PageAnswers, AnswersLess
  <2>2. Granted(c)' /\ asking'[c].do = "logout" => asking'[c].view.family # 0 /\ ~ signin'[asking'[c].view.family].live
    BY <1>0, <1>1, <1>2 DEF PageAnswers, AnswersLess
  <2>3. Granted(c)' /\ asking'[c].do = "login" => asking'[c].view.family \notin ended'
    BY <1>0, <1>2 DEF PageAnswers, AnswersLess
  <2>4. (asking'[c].at = "closing" \/ Granted(c)') /\ Kept(c)' /\ asking'[c].do # "login" => asking'[c].token.family \notin ended'
    BY <1>0, <1>2 DEF PageAnswers, AnswersLess
  <2>5. asking'[c].at = "closing" => asking'[c].do \in {"session", "read"}
    BY <1>0, <1>2 DEF PageAnswers, AnswersLess
  <2> QED
    BY <2>1, <2>2, <2>3, <2>4, <2>5 DEF AnswersNow
<1>3. \A c \in Call : AnswersNow(c)
  BY <1>2
<1> QED
  BY <1>3 DEF PageAnswers, AnswersNow

ExchangesLess(c) == Exchanging(c)' => Exchanging(c) /\ asking'[c].token.family = asking[c].token.family

RenewsLess(c) ==
  /\ (asking'[c].at = "refresh" => asking[c].at = "refresh" /\ asking'[c].token = asking[c].token)
  /\ (Turned(c)' => Turned(c) /\ asking'[c].token = asking[c].token)
  /\ (Turned(c) => disturbed' \/ (Turned(c)' /\ asking'[c].token = asking[c].token))
  /\ (Granted(c)' /\ asking'[c].do = "login" =>
        \/ signin'[asking'[c].view.family].newest = 1
        \/ Granted(c) /\ asking[c].do = "login" /\ asking'[c].view = asking[c].view)

LEMMA PageRenewalsOn ==
  ASSUME PageInv, Ages, \A f \in B!Families : Used(f) => signin'[f].newest = signin[f].newest,
         \A c, d \in Call : RenewsNow(c)' /\ RenewsNow(d)' => c = d,
         \A c \in Call : RenewsLess(c), disturbed => disturbed', replayed' => replayed \/ disturbed',
         \/ cookie' = cookie
         \/ signin'[cookie'.family].live => cookie'.number = signin'[cookie'.family].newest
  PROVE  PageRenewals'
<1>0. /\ PageRenewals /\ cookie.family \in KnownSignIns
      /\ \A c \in Call : asking[c].view.family \in KnownSignIns /\ asking[c].token.family \in KnownSignIns
  BY DEF PageInv, KnownSignIns
<1>1. \A f \in KnownSignIns : (signin'[f].live => signin[f].live) /\ signin'[f].newest = signin[f].newest
  BY PageHeld DEF Ages
<1>2. ASSUME ~ disturbed', NEW c \in Call, asking'[c].at = "refresh" \/ Turned(c)', signin'[asking'[c].token.family].live
      PROVE  asking'[c].token.number = signin'[asking'[c].token.family].newest
  <2>1. (asking[c].at = "refresh" \/ Turned(c)) /\ asking'[c].token = asking[c].token
    BY <1>2 DEF RenewsLess
  <2>2. signin[asking[c].token.family].live /\ signin'[asking[c].token.family].newest = signin[asking[c].token.family].newest
    BY <1>0, <1>1, <1>2, <2>1
  <2> QED
    BY <1>0, <1>2, <2>1, <2>2 DEF PageRenewals
<1>3. ASSUME ~ disturbed', NEW c \in Call, Granted(c)', asking'[c].do = "login", signin'[asking'[c].view.family].live
      PROVE  signin'[asking'[c].view.family].newest = 1
  <2>1. CASE Granted(c) /\ asking[c].do = "login" /\ asking'[c].view = asking[c].view
    <3>1. signin[asking[c].view.family].live /\ signin'[asking[c].view.family].newest = signin[asking[c].view.family].newest
      BY <1>0, <1>1, <1>3, <2>1
    <3> QED
      BY <1>0, <1>3, <2>1, <3>1 DEF PageRenewals
  <2> QED
    BY <1>3, <2>1 DEF RenewsLess
<1>4. ASSUME ~ disturbed', signin'[cookie'.family].live
      PROVE  \/ cookie'.number = signin'[cookie'.family].newest
             \/ \E c \in Call : Turned(c)' /\ asking'[c].token.family = cookie'.family
  <2>1. cookie' = cookie => signin[cookie.family].live /\ signin'[cookie.family].newest = signin[cookie.family].newest
    BY <1>0, <1>1, <1>4
  <2>2. CASE cookie'.number = signin'[cookie'.family].newest
    BY <2>2
  <2>3. CASE cookie'.number # signin'[cookie'.family].newest
    <3>0. cookie' = cookie /\ cookie.number # signin[cookie.family].newest
      BY <1>4, <2>1, <2>3
    <3>1. PICK c \in Call : Turned(c) /\ asking[c].token.family = cookie.family
      BY <1>0, <1>4, <2>1, <3>0 DEF PageRenewals
    <3>2. Turned(c)' /\ asking'[c].token = asking[c].token
      BY <1>4, <3>1 DEF RenewsLess
    <3> QED
      BY <3>0, <3>1, <3>2
  <2> QED
    BY <2>2, <2>3
<1>5. B!RenewsOnce'
  BY <1>0 DEF PageRenewals, B!RenewsOnce
<1> QED
  BY <1>2, <1>3, <1>4, <1>5 DEF PageRenewals

LEMMA PageTokensOn ==
  ASSUME PageInv, Ages, cookie' = cookie, page'.access \in {page.access, B!NoToken},
         \A c \in Call : ExchangesLess(c) \/ asking'[c].token = cookie
  PROVE  PageTokens'
<1>0. PageTokens /\ page.access.family \in KnownSignIns
  BY DEF PageInv, KnownSignIns
<1>1. \A f \in KnownSignIns : signin'[f].live => signin[f].live
  BY PageHeld DEF Ages
<1>2. signin'[page'.access.family].live => page'.access.family = page.access.family /\ signin[page.access.family].live
  BY <1>0, <1>1, PageNothing DEF Ages
<1> QED
  BY <1>0, <1>2 DEF PageTokens, ExchangesLess

\* What is kept was kept, and was on its way.
AwayLess(c) ==
  Kept(c)' /\ Away(c)' /\ asking'[c].do # "login" /\ asking'[c].later =>
    Kept(c) /\ Away(c) /\ asking[c].do # "login" /\ asking[c].later /\ asking'[c].token = asking[c].token

LEMMA PageStandsOn ==
  ASSUME PageInv, Ages, cookie' = cookie, page'.access \in {page.access, B!NoToken},
         \A c \in Call : ExchangesLess(c) \/ asking'[c].token = cookie,
         \A c \in Call : AwayLess(c) \/ asking'[c].token = page.access,
         \/ estranged'
         \/ page'.shown.family = 0
         \/ ~ estranged /\ page'.shown.family = page.shown.family
         \/ \E c \in Call : Kept(c) /\ Away(c) /\ asking[c].do # "login" /\ asking[c].later /\ page'.shown.family = asking[c].token.family
  PROVE  PageStands'
<1>0. PageStands /\ page.shown.family \in KnownSignIns /\ \A c \in Call : asking[c].token.family \in KnownSignIns
  BY DEF PageInv, KnownSignIns
<1>1. \A f \in KnownSignIns : signin'[f].live => signin[f].live
  BY PageHeld DEF Ages
<1>2. \A f \in B!Families : Stands(f) => StillStands(f)
  BY PageNothing DEF Stands, StillStands, ExchangesLess
<1>3. ASSUME NEW c \in Call, Kept(c), Away(c), asking[c].do # "login", asking[c].later, signin[asking[c].token.family].live
      PROVE  StillStands(asking[c].token.family)
  BY <1>0, <1>2, <1>3, PageHeld DEF PageStands
<1>4. ASSUME NEW c \in Call, Kept(c)', Away(c)', asking'[c].do # "login", asking'[c].later, signin'[asking'[c].token.family].live
      PROVE  StillStands(asking'[c].token.family)
  <2>1. CASE AwayLess(c)
    BY <1>0, <1>1, <1>3, <1>4, <2>1 DEF AwayLess
  <2>2. CASE asking'[c].token = page.access
    <3>1. page.access.family \in KnownSignIns /\ signin[page.access.family].live /\ PageTokens
      BY <1>1, <1>4, <2>2 DEF KnownSignIns, PageInv
    <3>2. Stands(page.access.family)
      BY <3>1 DEF PageTokens, Stands
    <3> QED
      BY <1>2, <2>2, <3>1, <3>2, PageHeld
  <2> QED
    BY <1>4, <2>1, <2>2
<1>5. ASSUME ~ estranged', signin'[page'.shown.family].live PROVE StillStands(page'.shown.family)
  <2>1. page'.shown.family # 0
    BY <1>5 DEF Ages
  <2>2. CASE ~ estranged /\ page'.shown.family = page.shown.family
    BY <1>0, <1>1, <1>2, <1>5, <2>2, PageHeld DEF PageStands
  <2>3. CASE \E c \in Call : Kept(c) /\ Away(c) /\ asking[c].do # "login" /\ asking[c].later /\ page'.shown.family = asking[c].token.family
    BY <1>0, <1>1, <1>3, <1>5, <2>3
  <2> QED
    BY <1>5, <2>1, <2>2, <2>3
<1> QED
  BY <1>4, <1>5 DEF PageStands, Stands, StillStands

\* What was answered is known as it was.
ActingLess(c) ==
  Kept(c)' /\ Granted(c)' /\ asking'[c].later =>
    Kept(c) /\ Granted(c) /\ asking[c].later /\ asking'[c].view = asking[c].view /\ asking'[c].do = asking[c].do

LEMMA PageActingOn ==
  ASSUME PageInv, Ages, \A f \in B!Families : Used(f) => signin'[f].acting = signin[f].acting,
         \A c \in Call : /\ ActingLess(c) \/ asking'[c].view.acting = signin'[asking'[c].view.family].acting
                         /\ Switched(c) => Switched(c)',
         page'.shown \in {page.shown, B!Nobody}, estranged' <=> estranged
  PROVE  PageActing'
<1>0. PageActing /\ page.shown.family \in KnownSignIns /\ \A c \in Call : asking[c].view.family \in KnownSignIns
  BY DEF PageInv, KnownSignIns
<1>1. \A f \in KnownSignIns : (signin'[f].live => signin[f].live) /\ signin'[f].acting = signin[f].acting
  BY PageHeld DEF Ages
<1>2. (\A d \in Call : ~ Switched(d)') => \A d \in Call : ~ Switched(d)
  OBVIOUS
<1>3. ASSUME NEW c \in Call, Kept(c)', Granted(c)', asking'[c].later, signin'[asking'[c].view.family].live,
             asking'[c].do = "session" => \A d \in Call : ~ Switched(d)'
      PROVE  asking'[c].view.acting = signin'[asking'[c].view.family].acting
  <2>1. CASE ActingLess(c)
    <3>1. Kept(c) /\ Granted(c) /\ asking[c].later /\ asking'[c].view = asking[c].view /\ asking'[c].do = asking[c].do
      BY <1>3, <2>1 DEF ActingLess
    <3>2. signin[asking[c].view.family].live /\ signin'[asking[c].view.family].acting = signin[asking[c].view.family].acting
      BY <1>0, <1>1, <1>3, <3>1
    <3> QED
      BY <1>0, <1>2, <1>3, <3>1, <3>2 DEF PageActing
  <2> QED
    BY <2>1
<1>4. ASSUME ~ estranged', signin'[page'.shown.family].live, \A d \in Call : ~ Switched(d)'
      PROVE  page'.shown.acting = signin'[page'.shown.family].acting
  <2>1. page'.shown = page.shown /\ ~ estranged
    BY <1>4, PageNothing DEF Ages
  <2>2. signin[page.shown.family].live /\ signin'[page.shown.family].acting = signin[page.shown.family].acting
    BY <1>0, <1>1, <1>4, <2>1
  <2> QED
    BY <1>0, <1>2, <1>4, <2>1, <2>2 DEF PageActing
<1> QED
  BY <1>3, <1>4 DEF PageActing

\* Nothing is known for sure any more.
LEMMA PageEstranged ==
  ASSUME estranged', \A c \in Call : ~ asking'[c].later
  PROVE  PageStands' /\ PageActing'
BY DEF PageStands, PageActing

SameFamilies == \A f \in B!Families :
  signin'[f].live = signin[f].live /\ signin'[f].acting = signin[f].acting /\ signin'[f].newest = signin[f].newest

LEMMA PageSameAges == ASSUME PageInv, SameFamilies PROVE Ages
  BY PageNothing DEF PageInv, PageFamilies, SameFamilies, Ages, Used, StillUsed

\* The call claims nothing that it did not claim before.
Less(c) ==
  /\ Working(c)' => Working(c) /\ asking'[c].do = asking[c].do
  /\ ExchangesLess(c) /\ RenewsLess(c)
  /\ Granted(c)' => Granted(c) /\ asking'[c].view = asking[c].view
  /\ (asking'[c].at = "closing" => asking[c].at = "closing")
  /\ Away(c)' => Away(c) /\ asking'[c].token = asking[c].token
  /\ (asking'[c].later => asking[c].later)
  /\ asking'[c].token \in {asking[c].token, cookie, B!NoToken}
  /\ asking'[c].view \in {asking[c].view, B!Nobody} \/ asking'[c].view.family = asking[c].token.family

LEMMA PageFades ==
  ASSUME PageInv, B!TypeOK', \A c \in Call : Less(c), SameFamilies,
         UNCHANGED <<cookie, ended, replayed>>, disturbed => disturbed',
         page'.shown \in {page.shown, B!Nobody}, page'.access \in {page.access, B!NoToken}, page'.wanted \in {page.wanted, None},
         \A c, d \in Call : RenewsNow(c)' /\ RenewsNow(d)' => c = d,
         \/ estranged' /\ \A c \in Call : ~ asking'[c].later
         \/ (estranged' <=> estranged) /\ \A c \in Call : Switched(c) => Switched(c)'
         \/ page'.shown = B!Nobody /\ \A c \in Call : ~ Away(c)'
  PROVE  PageInv'
<1>1. Ages /\ \A f \in B!Families : signin'[f].newest = signin[f].newest /\ signin'[f].acting = signin[f].acting
  BY PageSameAges DEF SameFamilies
<1>2. \A c \in Call : Granted(c)' => /\ Granted(c) /\ asking'[c].view = asking[c].view /\ asking'[c].token = asking[c].token
                                   /\ asking'[c].do = asking[c].do
  BY DEF Less, Granted, Away, Working
<1>3. \A c \in Call : Away(c)' => Away(c) /\ asking'[c].token = asking[c].token /\ asking'[c].do = asking[c].do
  BY DEF Less, Away, Granted, Working
<1>4. \A c \in Call : Kept(c)' /\ Away(c)' => Kept(c)
  <2>1. None \notin Call
    BY SigningAssumption
  <2> QED
    BY <1>3, <2>1 DEF Kept
<1>5. PageFamilies'
  <2>1. \A c \in Call : asking'[c].token.family \in KnownSignIns /\ asking'[c].view.family \in KnownSignIns
    BY PageNothing DEF Less, KnownSignIns
  <2>2. cookie'.family \in KnownSignIns /\ page'.access.family \in KnownSignIns /\ page'.shown.family \in KnownSignIns
    BY PageNothing DEF KnownSignIns
  <2> QED
    BY <1>1, <2>1, <2>2, PageFamiliesOn
<1>6. PageChanges'
  <2>1. \A c \in Call : Working(c)' => Working(c) /\ asking'[c].do = asking[c].do
    BY DEF Less
  <2> QED
    BY <2>1, PageChangesOn
<1>7. PageAnswers'
  <2>1. \A c \in Call : AnswersLess(c)
    <3>1. \A c \in Call : asking'[c].at = "closing" => asking[c].at = "closing"
      BY DEF Less
    <3>2. \A c \in Call : asking'[c].at = "closing" \/ Granted(c)' => Away(c)'
      BY DEF Away
    <3> QED
      BY <1>2, <1>3, <1>4, <3>1, <3>2 DEF AnswersLess
  <2>2. page'.shown.family \notin ended'
    BY PageNothing DEF PageInv, PageAnswers, PageFamilies
  <2> QED
    BY <1>1, <2>1, <2>2, PageAnswersOn
<1>8. PageRenewals'
  <2>1. \A c \in Call : RenewsLess(c)
    BY DEF Less
  <2> QED
    BY <1>1, <2>1, PageRenewalsOn
<1>9. \A c \in Call : ExchangesLess(c) /\ AwayLess(c)
  BY <1>3, <1>4 DEF Less, AwayLess
<1>10. PageTokens'
  BY <1>1, <1>9, PageTokensOn
<1>11. PageStands' /\ PageActing'
  <2>1. CASE estranged' /\ \A c \in Call : ~ asking'[c].later
    BY <2>1, PageEstranged
  <2>2. CASE (estranged' <=> estranged) /\ \A c \in Call : Switched(c) => Switched(c)'
    <3>1. \A c \in Call : ActingLess(c)
      BY <1>2, <1>4 DEF ActingLess, Less, Away
    <3>2. PageActing'
      BY <1>1, <2>2, <3>1, PageActingOn
    <3>3. \/ estranged'
          \/ page'.shown.family = 0
          \/ ~ estranged /\ page'.shown.family = page.shown.family
      BY <2>2, PageNothing
    <3>4. PageStands'
      BY <1>1, <1>9, <3>3, PageStandsOn
    <3> QED
      BY <3>2, <3>4
  <2>3. CASE page'.shown = B!Nobody /\ \A c \in Call : ~ Away(c)'
    BY <1>1, <2>3, PageNothing DEF PageStands, PageActing, Away, Ages
  <2> QED
    BY <2>1, <2>2, <2>3
<1> QED
  BY <1>5, <1>6, <1>7, <1>8, <1>10, <1>11 DEF PageInv

\* A call that is as it was, and one that is over.
LEMMA PageStill == ASSUME NEW c \in Call, asking'[c] = asking[c], disturbed => disturbed' PROVE Less(c)
  BY DEF Less, Working, ExchangesLess, Exchanging, RenewsLess, Turned, Granted, Away

LEMMA PageOver ==
  ASSUME NEW c \in Call, asking'[c] = B!Idle, Turned(c) => disturbed'
  PROVE  Less(c) /\ ~ RenewsNow(c)'
  BY PageIdle DEF Less, Working, ExchangesLess, Exchanging, RenewsLess, Turned, Granted, Away, RenewsNow

LEMMA PageRefusedCall ==
  ASSUME NEW c \in Call, asking[c].at = "sent", asking'[c].at = "answered", asking'[c].answer # "ok", asking'[c].do = asking[c].do,
         asking'[c].token = asking[c].token, asking'[c].later = asking[c].later,
         asking'[c].view \in {asking[c].view, B!Nobody} \/ asking'[c].view.family = asking[c].token.family
  PROVE  Less(c) /\ ~ RenewsNow(c)' /\ ~ Switched(c)
  BY DEF Less, Working, ExchangesLess, Exchanging, RenewsLess, Turned, Granted, Away, RenewsNow, Switched

-----------------------------------------------------------------------------
(* What a call's row is after a step.                                      *)

LEMMA PageRow ==
  ASSUME asking \in [Call -> CallRows], NEW c \in Call, NEW k \in CallRows, asking' = [asking EXCEPT ![c] = k]
  PROVE  asking' \in [Call -> CallRows] /\ asking'[c] = k /\ \A d \in Call \ {c} : asking'[d] = asking[d]
  OBVIOUS

LEMMA PageAnswer ==
  ASSUME asking \in [Call -> CallRows], NEW c \in Call, NEW a \in {"none", "ok", "401", "no"}, NEW v \in B!View
  PROVE  /\ B!Answer(c, a, v) \in [Call -> CallRows] /\ \A d \in Call \ {c} : B!Answer(c, a, v)[d] = asking[d]
         /\ B!Answer(c, a, v)[c].at = "answered" /\ B!Answer(c, a, v)[c].answer = a /\ B!Answer(c, a, v)[c].view = v
         /\ B!Answer(c, a, v)[c].do = asking[c].do /\ B!Answer(c, a, v)[c].token = asking[c].token
         /\ B!Answer(c, a, v)[c].later = asking[c].later /\ B!Answer(c, a, v)[c].csrf = asking[c].csrf
<1> DEFINE k == [asking[c] EXCEPT !.at = "answered", !.answer = a, !.view = v]
<1>1. k \in CallRows /\ k.at = "answered" /\ k.answer = a /\ k.view = v /\ k.do = asking[c].do /\ k.token = asking[c].token
      /\ k.later = asking[c].later /\ k.csrf = asking[c].csrf
  BY DEF CallRows, B!Place
<1>2. B!Answer(c, a, v) = [asking EXCEPT ![c] = k]
  BY DEF B!Answer
<1> HIDE DEF k
<1> QED
  BY <1>1, <1>2

LEMMA PageDone ==
  ASSUME asking \in [Call -> CallRows], NEW who
  PROVE  B!Done(who) \in [Call -> CallRows] /\ \A d \in Call : B!Done(who)[d] = (IF d \in who THEN B!Idle ELSE asking[d])
  BY PageIdle DEF B!Done

\* Only one call renews, and it goes on or another starts when none does.
LEMMA PageOneRenewal ==
  ASSUME PageInv, NEW c \in Call, \A d \in Call \ {c} : RenewsNow(d)' => RenewsNow(d),
         RenewsNow(c)' => RenewsNow(c) \/ \A d \in Call : ~ RenewsNow(d)
  PROVE  \A b, d \in Call : RenewsNow(b)' /\ RenewsNow(d)' => b = d
  BY DEF PageInv, PageRenewals

LEMMA PageTypesThen ==
  ASSUME signin' \in [B!Families -> FamilyRows], cookie' \in B!TokenOf, page' \in PageRows, asking' \in [Call -> CallRows]
  PROVE  B!TypeOK'
BY DEF B!TypeOK, FamilyRows, PageRows, CallRows

LEMMA PageKnown ==
  PageInv => /\ signin \in [B!Families -> FamilyRows] /\ cookie \in B!TokenOf
             /\ page \in PageRows /\ asking \in [Call -> CallRows]
BY PageTypes DEF PageInv

-----------------------------------------------------------------------------
(* Refusals, ends and losses.                                              *)

LEMMA PageRefused == ASSUME PageInv, NEW c \in Call, B!Refused(c) PROVE PageInv'
<1>0. /\ signin \in [B!Families -> FamilyRows] /\ cookie \in B!TokenOf /\ page \in PageRows /\ asking \in [Call -> CallRows]
      /\ asking[c].at = "sent" /\ asking' = B!Answer(c, "401", B!Nobody)
      /\ UNCHANGED <<signin, restricted, replayed, cookie, page, ended, disturbed, trouble, estranged>>
  BY PageKnown DEF B!Refused, B!Server, B!Around
<1>1. /\ asking' \in [Call -> CallRows] /\ \A d \in Call \ {c} : asking'[d] = asking[d]
      /\ asking'[c].at = "answered" /\ asking'[c].answer = "401" /\ asking'[c].view = B!Nobody
      /\ asking'[c].do = asking[c].do /\ asking'[c].token = asking[c].token /\ asking'[c].later = asking[c].later
  BY <1>0, PageAnswer, PageNothing
<1>2. Less(c) /\ ~ RenewsNow(c)' /\ ~ Switched(c)
  BY <1>0, <1>1, PageRefusedCall
<1>3. \A d \in Call : Less(d)
  BY <1>0, <1>1, <1>2, PageStill
<1>4. \A b, d \in Call : RenewsNow(b)' /\ RenewsNow(d)' => b = d
  <2>1. \A d \in Call \ {c} : RenewsNow(d)' => RenewsNow(d)
    BY <1>1 DEF RenewsNow, Exchanging
  <2> QED
    BY <1>2, <2>1, PageOneRenewal
<1>5. \A d \in Call : Switched(d) => Switched(d)'
  BY <1>1, <1>2 DEF Switched, Granted
<1>6. B!TypeOK' /\ SameFamilies
  BY <1>0, <1>1, PageTypesThen DEF SameFamilies
<1> QED
  BY <1>0, <1>3, <1>4, <1>5, <1>6, PageFades

LEMMA PageServeCsrf == ASSUME PageInv, NEW c \in Call, B!ServeCsrf(c) PROVE PageInv'
<1> DEFINE k == [asking[c] EXCEPT !.at = "csrf answered", !.csrf = asking[c].token.family,
                                  !.answer = IF B!Newest(asking[c].token) THEN "ok" ELSE "401"]
<1>0. /\ signin \in [B!Families -> FamilyRows] /\ cookie \in B!TokenOf /\ page \in PageRows /\ asking \in [Call -> CallRows]
      /\ asking[c].at = "csrf" /\ asking' = [asking EXCEPT ![c] = k]
      /\ UNCHANGED <<signin, restricted, replayed, cookie, page, ended, disturbed, trouble, estranged>>
  BY PageKnown DEF B!ServeCsrf, B!Server, B!Around
<1>1. asking[c].token.family \in B!Families
  BY <1>0 DEF CallRows, B!TokenOf
<1>2. /\ k \in CallRows /\ k.at = "csrf answered" /\ k.do = asking[c].do /\ k.token = asking[c].token
      /\ k.view = asking[c].view /\ k.later = asking[c].later
  BY <1>0, <1>1 DEF CallRows, B!Place
<1> HIDE DEF k
<1>3. asking' \in [Call -> CallRows] /\ asking'[c] = k /\ \A d \in Call \ {c} : asking'[d] = asking[d]
  BY <1>0, <1>2, PageRow
<1>4. Less(c) /\ ~ Switched(c)
  BY <1>0, <1>2, <1>3 DEF Less, Working, ExchangesLess, Exchanging, RenewsLess, Turned, Granted, Away, RenewsNow, Switched
<1>5. \A d \in Call : Less(d)
  BY <1>0, <1>3, <1>4, PageStill
<1>6. \A b, d \in Call : RenewsNow(b)' /\ RenewsNow(d)' => b = d
  <2>1. \A d \in Call : RenewsNow(d)' => RenewsNow(d)
    BY <1>0, <1>3 DEF RenewsNow, Exchanging
  <2> QED
    BY <2>1, PageOneRenewal
<1>7. \A d \in Call : Switched(d) => Switched(d)'
  BY <1>3, <1>4 DEF Switched, Granted
<1>8. B!TypeOK' /\ SameFamilies
  BY <1>0, <1>3, PageTypesThen DEF SameFamilies
<1> QED
  BY <1>0, <1>5, <1>6, <1>7, <1>8, PageFades

\* Some calls are over, none of them a renewal that the server has done.
LEMMA PageDrops ==
  ASSUME PageInv, NEW who, asking' = B!Done(who), page' \in PageRows,
         UNCHANGED <<signin, cookie, ended, replayed>>, disturbed => disturbed',
         \A c \in Call : c \in who /\ Turned(c) => disturbed',
         page'.shown \in {page.shown, B!Nobody}, page'.access \in {page.access, B!NoToken}, page'.wanted \in {page.wanted, None},
         \A c \in Call : c \in who => ~ Switched(c), estranged' = estranged
  PROVE  PageInv'
<1>0. signin \in [B!Families -> FamilyRows] /\ cookie \in B!TokenOf /\ asking \in [Call -> CallRows]
  BY PageKnown
<1>1. asking' \in [Call -> CallRows] /\ \A d \in Call : asking'[d] = (IF d \in who THEN B!Idle ELSE asking[d])
  BY <1>0, PageDone
<1>2. ASSUME NEW d \in Call PROVE Less(d) /\ (RenewsNow(d)' => RenewsNow(d)) /\ (Switched(d) => Switched(d)')
  <2>1. CASE d \in who
    <3>1. asking'[d] = B!Idle /\ (Turned(d) => disturbed') /\ ~ Switched(d)
      BY <1>1, <2>1
    <3> QED
      BY <3>1, PageOver
  <2>2. CASE d \notin who
    <3>1. asking'[d] = asking[d]
      BY <1>1, <2>2
    <3> QED
      BY <3>1, PageStill DEF RenewsNow, Exchanging, Switched, Granted
  <2> QED
    BY <2>1, <2>2
<1>3. \A b, d \in Call : RenewsNow(b)' /\ RenewsNow(d)' => b = d
  BY <1>2 DEF PageInv, PageRenewals
<1>4. B!TypeOK' /\ SameFamilies
  BY <1>0, <1>1, PageTypesThen DEF SameFamilies
<1> QED
  BY <1>2, <1>3, <1>4, PageFades

LEMMA PageTakeRead == ASSUME PageInv, NEW c \in Call, B!TakeRead(c) PROVE PageInv'
<1>1. /\ asking' = B!Done({c}) /\ page' = page /\ page \in PageRows
      /\ UNCHANGED <<signin, cookie, ended, replayed, disturbed, estranged>>
  BY PageKnown DEF B!TakeRead, B!Server, B!Around
<1>2. ~ Turned(c) /\ ~ Switched(c)
  BY DEF B!TakeRead, Turned, Switched, Granted
<1> QED
  BY <1>1, <1>2, PageDrops

LEMMA PageTakeNoRenewal == ASSUME PageInv, NEW c \in Call, B!TakeNoRenewal(c) PROVE PageInv'
<1>1. /\ asking' = B!Done({c} \cup B!Waiting) /\ page' = B!SignedOut
      /\ UNCHANGED <<signin, cookie, ended, replayed, disturbed, estranged>>
  BY DEF B!TakeNoRenewal, B!Server, B!Around
<1>2. \A d \in Call : d \in {c} \cup B!Waiting => ~ Turned(d) /\ ~ Switched(d)
  BY DEF B!TakeNoRenewal, Turned, Switched, Granted, B!Waiting
<1> QED
  BY <1>1, <1>2, PageDrops, PageSignedOut

LEMMA PageTakeOldSession ==
  ASSUME PageInv, NEW c \in Call, B!TakeSession(c), ~ B!Wanted(c)
  PROVE  PageInv'
<1>1. /\ asking' = B!Done({c}) /\ page' = page /\ page \in PageRows
      /\ UNCHANGED <<signin, cookie, ended, replayed, disturbed, estranged>>
  BY PageKnown DEF B!TakeSession, B!Server, B!Around
<1>2. ~ Turned(c) /\ ~ Switched(c)
  BY DEF B!TakeSession, Turned, Switched, Granted
<1> QED
  BY <1>1, <1>2, PageDrops

LEMMA PageRestrict == ASSUME PageInv, B!Restrict PROVE PageInv'
<1>1. UNCHANGED <<signin, replayed, cookie, page, asking, ended, disturbed, estranged>>
  BY DEF B!Restrict
<1>2. /\ B!TypeOK' /\ SameFamilies
      /\ \A d \in Call : Less(d) /\ (RenewsNow(d)' => RenewsNow(d)) /\ (Switched(d) => Switched(d)')
  BY <1>1, PageStill DEF PageInv, B!TypeOK, SameFamilies, RenewsNow, Exchanging, Switched, Granted
<1>3. \A b, d \in Call : RenewsNow(b)' /\ RenewsNow(d)' => b = d
  BY <1>2 DEF PageInv, PageRenewals
<1> QED
  BY <1>1, <1>2, <1>3, PageFades

LEMMA PageLapse == ASSUME PageInv, B!Lapse PROVE PageInv'
<1>1. PICK f \in B!Families : signin' = [signin EXCEPT ![f].lapsed = signin[f].newest]
  BY DEF B!Lapse
<1>2. UNCHANGED <<replayed, cookie, page, asking, ended, disturbed, estranged>>
  BY DEF B!Lapse, B!Around
<1>3. PICK row : row = [signin[f] EXCEPT !.lapsed = signin[f].newest]
  OBVIOUS
<1>4. /\ row \in FamilyRows /\ row.live = signin[f].live /\ row.acting = signin[f].acting /\ row.newest = signin[f].newest
  BY <1>3, PageKnown DEF FamilyRows
<1>5. signin' = [signin EXCEPT ![f] = row]
  BY <1>1, <1>3
<1>6. signin' \in [B!Families -> FamilyRows] /\ SameFamilies
  BY <1>4, <1>5, PageKnown DEF SameFamilies
<1>7. /\ B!TypeOK'
      /\ \A d \in Call : Less(d) /\ (RenewsNow(d)' => RenewsNow(d)) /\ (Switched(d) => Switched(d)')
  BY <1>2, <1>6, PageStill, PageKnown, PageTypesThen DEF RenewsNow, Exchanging, Switched, Granted
<1>8. \A b, d \in Call : RenewsNow(b)' /\ RenewsNow(d)' => b = d
  BY <1>7 DEF PageInv, PageRenewals
<1> QED
  BY <1>2, <1>6, <1>7, <1>8, PageFades

LEMMA PageReload == ASSUME PageInv, B!Reload PROVE PageInv'
<1>1. /\ \A d \in Call : asking'[d] = B!Idle
      /\ asking' = [d \in Call |-> B!Idle] /\ page' = B!SignedOut
      /\ UNCHANGED <<signin, replayed, cookie, ended, estranged>>
  BY DEF B!Reload, B!Server
<1>2. (disturbed => disturbed') /\ \A d \in Call : Turned(d) => disturbed'
  <2>1. disturbed' = (disturbed \/ \E c \in Call : B!AnsweredWell(c, {"refresh answered"}))
    BY DEF B!Reload
  <2>2. \A d \in Call : Turned(d) => B!AnsweredWell(d, {"refresh answered"})
    BY DEF Turned, B!AnsweredWell
  <2> QED
    BY <2>1, <2>2
<1>3. page'.shown = B!Nobody /\ page'.access = B!NoToken /\ page'.wanted = None
  BY <1>1, PageSignedOut
<1>4. B!TypeOK' /\ SameFamilies
  BY <1>1, PageKnown, PageTypesThen, PageIdle, PageSignedOut DEF SameFamilies
<1>5. \A d \in Call : Less(d) /\ ~ RenewsNow(d)' /\ ~ Away(d)'
  BY <1>1, <1>2, PageOver, PageIdle DEF Away, Granted
<1> QED
  BY <1>1, <1>2, <1>3, <1>4, <1>5, PageFades

LEMMA PageEstrange ==
  ASSUME NEW calls, calls \in [Call -> CallRows], B!Estrange(calls)
  PROVE  /\ asking' \in [Call -> CallRows] /\ estranged'
         /\ \A d \in Call : /\ ~ asking'[d].later /\ asking'[d].at = calls[d].at /\ asking'[d].do = calls[d].do
                            /\ asking'[d].token = calls[d].token /\ asking'[d].view = calls[d].view
                            /\ asking'[d].answer = calls[d].answer
<1>1. \A d \in Call : calls[d] \in CallRows /\ asking'[d] = [calls[d] EXCEPT !.later = FALSE]
  BY DEF B!Estrange
<1>2. \A d \in Call : /\ asking'[d] \in CallRows
                      /\ ~ asking'[d].later /\ asking'[d].at = calls[d].at /\ asking'[d].do = calls[d].do
                      /\ asking'[d].token = calls[d].token /\ asking'[d].view = calls[d].view
                      /\ asking'[d].answer = calls[d].answer
  <2> SUFFICES ASSUME NEW d \in Call, NEW k \in CallRows, NEW l, l = [k EXCEPT !.later = FALSE]
               PROVE  /\ l \in CallRows /\ ~ l.later /\ l.at = k.at /\ l.do = k.do /\ l.token = k.token
                      /\ l.view = k.view /\ l.answer = k.answer
    BY <1>1
  <2> QED
    BY DEF CallRows
<1>3. asking' = [d \in Call |-> asking'[d]]
  BY DEF B!Estrange
<1>4. estranged'
  BY DEF B!Estrange
<1> QED
  BY <1>2, <1>3, <1>4

LEMMA PageLose == ASSUME PageInv, NEW c \in Call, B!Lose(c) PROVE PageInv'
<1> DEFINE who == {c} \cup IF asking[c].at \in {"sent", "closing", "answered"} THEN {} ELSE B!Waiting
<1>0. /\ signin \in [B!Families -> FamilyRows] /\ cookie \in B!TokenOf /\ page \in PageRows /\ asking \in [Call -> CallRows]
      /\ UNCHANGED <<signin, replayed, cookie, ended>>
  BY PageKnown DEF B!Lose, B!Server
<1>1. page' = B!Without(who)
  BY DEF B!Lose
<1>2. page' \in PageRows /\ page'.shown = page.shown /\ page'.access = page.access /\ page'.wanted \in {page.wanted, None}
  BY <1>0, <1>1 DEF B!Without, PageRows
<1>3. disturbed => disturbed'
  BY DEF B!Lose
<1>4. \A d \in Call : d \in who => d = c \/ asking[d].at = "waiting"
  BY DEF B!Waiting
<1>5. \A d \in Call : d \in who /\ Turned(d) => disturbed'
  BY <1>4 DEF B!Lose, Turned, B!AnsweredWell
<1>6. CASE asking[c].do \in B!Change /\ B!AnsweredWell(c, {"answered"})
  <2>1. B!Estrange(B!Done(who))
    BY <1>6 DEF B!Lose
  <2>2. B!Done(who) \in [Call -> CallRows] /\ \A d \in Call : B!Done(who)[d] = (IF d \in who THEN B!Idle ELSE asking[d])
    BY <1>0, PageDone
  <2>3. /\ asking' \in [Call -> CallRows] /\ estranged'
        /\ \A d \in Call : /\ ~ asking'[d].later /\ asking'[d].at = B!Done(who)[d].at /\ asking'[d].do = B!Done(who)[d].do
                           /\ asking'[d].token = B!Done(who)[d].token /\ asking'[d].view = B!Done(who)[d].view
                           /\ asking'[d].answer = B!Done(who)[d].answer
    BY <2>1, <2>2, PageEstrange
  <2> HIDE DEF who
  <2>4. ASSUME NEW d \in Call PROVE Less(d) /\ (RenewsNow(d)' => RenewsNow(d))
    <3>1. CASE d \in who
      <4>1. asking'[d].at = "idle" /\ asking'[d].token = B!NoToken /\ asking'[d].view = B!Nobody /\ ~ asking'[d].later
        BY <2>2, <2>3, <3>1, PageIdle
      <4> QED
        BY <1>5, <3>1, <4>1 DEF Less, Working, ExchangesLess, Exchanging, RenewsLess, Turned, Granted, Away, RenewsNow
    <3>2. CASE d \notin who
      <4>1. /\ asking'[d].at = asking[d].at /\ asking'[d].token = asking[d].token /\ asking'[d].view = asking[d].view
            /\ ~ asking'[d].later /\ asking'[d].do = asking[d].do /\ asking'[d].answer = asking[d].answer
        BY <2>2, <2>3, <3>2
      <4> QED
        BY <4>1 DEF Less, Working, ExchangesLess, Exchanging, RenewsLess, Turned, Granted, Away, RenewsNow
    <3> QED
      BY <3>1, <3>2
  <2>5. \A b, d \in Call : RenewsNow(b)' /\ RenewsNow(d)' => b = d
    BY <2>4 DEF PageInv, PageRenewals
  <2>6. B!TypeOK' /\ SameFamilies
    BY <1>0, <1>2, <2>3, PageTypesThen DEF SameFamilies
  <2> QED
    BY <1>0, <1>2, <1>3, <2>3, <2>4, <2>5, <2>6, PageFades
<1>7. CASE ~ (asking[c].do \in B!Change /\ B!AnsweredWell(c, {"answered"}))
  <2>1. asking' = B!Done(who) /\ estranged' = estranged
    BY <1>7 DEF B!Lose
  <2>2. \A d \in Call : d \in who => ~ Switched(d)
    BY <1>4, <1>7 DEF Switched, Granted, B!AnsweredWell, B!Change
  <2> HIDE DEF who
  <2> QED
    BY <1>0, <1>2, <1>3, <1>5, <2>1, <2>2, PageDrops
<1> QED
  BY <1>6, <1>7

LEMMA PageTakeRefusal == ASSUME PageInv, NEW c \in Call, B!TakeRefusal(c) PROVE PageInv'
<1>0. /\ signin \in [B!Families -> FamilyRows] /\ cookie \in B!TokenOf /\ page \in PageRows /\ asking \in [Call -> CallRows]
      /\ asking[c].at = "answered" /\ asking[c].answer = "401"
      /\ UNCHANGED <<signin, replayed, cookie, ended, disturbed, estranged>>
  BY PageKnown DEF B!TakeRefusal, B!Server, B!Around
<1>1. CASE ~ asking[c].again
  <2> DEFINE k == B!Renews([asking[c] EXCEPT !.again = TRUE, !.answer = "none"])
  <2>1. asking' = [asking EXCEPT ![c] = k] /\ page' = page
    BY <1>1 DEF B!TakeRefusal
  <2>2. /\ k \in CallRows /\ k.do = asking[c].do /\ k.view = asking[c].view /\ k.later = asking[c].later /\ k.answer = "none"
        /\ \/ k.at = "waiting" /\ k.token = asking[c].token
           \/ k.at = "csrf" /\ k.token = cookie /\ \A d \in Call : ~ RenewsNow(d)
    <3>1. PICK l : l = [asking[c] EXCEPT !.again = TRUE, !.answer = "none"]
      OBVIOUS
    <3>2. /\ l \in CallRows /\ l.do = asking[c].do /\ l.view = asking[c].view /\ l.later = asking[c].later /\ l.answer = "none"
          /\ l.token = asking[c].token
      BY <1>0, <3>1 DEF CallRows
    <3>3. CASE B!Renewing
      <4>1. k = [l EXCEPT !.at = "waiting"]
        BY <3>1, <3>3 DEF B!Renews, B!SharesRenewal
      <4> QED
        BY <3>2, <4>1 DEF CallRows, B!Place
    <3>4. CASE ~ B!Renewing
      <4>1. k = [l EXCEPT !.at = "csrf", !.token = cookie]
        BY <3>1, <3>4 DEF B!Renews, B!SharesRenewal
      <4>2. \A d \in Call : ~ RenewsNow(d)
        BY <3>4 DEF B!Renewing, RenewsNow, Exchanging
      <4>3. k \in CallRows
        BY <1>0, <3>2, <4>1 DEF CallRows, B!Place
      <4>4. /\ k.do = asking[c].do /\ k.view = asking[c].view /\ k.later = asking[c].later /\ k.answer = "none"
            /\ k.at = "csrf" /\ k.token = cookie
        BY <3>2, <4>1 DEF CallRows
      <4> QED
        BY <4>2, <4>3, <4>4
    <3> QED
      BY <3>3, <3>4
  <2> HIDE DEF k
  <2>3. asking' \in [Call -> CallRows] /\ asking'[c] = k /\ \A d \in Call \ {c} : asking'[d] = asking[d]
    BY <1>0, <2>1, <2>2, PageRow
  <2>4. Less(c) /\ ~ Switched(c) /\ (RenewsNow(c)' => \A d \in Call : ~ RenewsNow(d))
    BY <1>0, <2>2, <2>3 DEF Less, Working, ExchangesLess, Exchanging, RenewsLess, Turned, Granted, Away, RenewsNow, Switched
  <2>5. \A d \in Call : Less(d)
    BY <1>0, <2>3, <2>4, PageStill
  <2>6. \A b, d \in Call : RenewsNow(b)' /\ RenewsNow(d)' => b = d
    <3>1. \A d \in Call \ {c} : RenewsNow(d)' => RenewsNow(d)
      BY <2>3 DEF RenewsNow, Exchanging
    <3> QED
      BY <2>4, <3>1, PageOneRenewal
  <2>7. \A d \in Call : Switched(d) => Switched(d)'
    BY <2>3, <2>4 DEF Switched, Granted
  <2>8. B!TypeOK' /\ SameFamilies
    BY <1>0, <2>1, <2>3, PageTypesThen DEF SameFamilies
  <2> QED
    BY <1>0, <2>1, <2>5, <2>6, <2>7, <2>8, PageFades
<1>2. CASE asking[c].again
  <2>1. asking' = B!Done({c}) /\ page' \in {B!SignedOut, page}
    BY <1>2 DEF B!TakeRefusal
  <2>2. ~ Turned(c) /\ ~ Switched(c)
    BY <1>0 DEF Turned, Switched, Granted
  <2>3. page' \in PageRows /\ page'.shown \in {page.shown, B!Nobody} /\ page'.access \in {page.access, B!NoToken}
        /\ page'.wanted \in {page.wanted, None}
    BY <1>0, <2>1, PageSignedOut
  <2> QED
    BY <1>0, <2>1, <2>2, <2>3, PageDrops
<1> QED
  BY <1>1, <1>2

-----------------------------------------------------------------------------
(* Calls.                                                                  *)

\* What a call is when it begins.
LEMMA PageBegun ==
  ASSUME PageInv, NEW c \in Call, NEW do \in B!Change \cup {"session", "read"}, B!Begin(c, do)
  PROVE  /\ asking' \in [Call -> CallRows] /\ \A d \in Call \ {c} : asking'[d] = asking[d]
         /\ asking'[c].do = do /\ asking'[c].view = B!Nobody /\ asking'[c].answer = "none"
         /\ asking'[c].at \in {"waiting", "csrf", "sent"} /\ asking'[c].token \in {B!NoToken, cookie, page.access}
         /\ (asking'[c].at = "csrf" => \A d \in Call : ~ RenewsNow(d))
         /\ (asking'[c].at = "sent" /\ do # "login" => asking'[c].token = page.access)
<1> DEFINE k == [B!Idle EXCEPT !.do = do, !.later = TRUE]
           l == IF page.access = B!NoToken /\ do # "login" THEN B!Renews(k) ELSE B!Sent(k, page)
<1>0. cookie \in B!TokenOf /\ page \in PageRows /\ asking \in [Call -> CallRows]
  BY PageKnown
<1>1. k \in CallRows /\ k.do = do /\ k.view = B!Nobody /\ k.answer = "none" /\ k.token = B!NoToken
  BY PageIdle DEF CallRows
<1>2. asking' = [asking EXCEPT ![c] = l]
  BY DEF B!Begin
<1> HIDE DEF k
<1>3. CASE page.access = B!NoToken /\ do # "login" /\ B!Renewing
  <2>1. l = [k EXCEPT !.at = "waiting"]
    BY <1>3 DEF B!Renews, B!SharesRenewal
  <2>2. l \in CallRows /\ l.do = do /\ l.view = B!Nobody /\ l.answer = "none" /\ l.token = B!NoToken /\ l.at = "waiting"
    BY <1>1, <2>1 DEF CallRows, B!Place
  <2> HIDE DEF l
  <2> QED
    BY <1>0, <1>2, <2>2, PageRow
<1>4. CASE page.access = B!NoToken /\ do # "login" /\ ~ B!Renewing
  <2>1. l = [k EXCEPT !.at = "csrf", !.token = cookie]
    BY <1>4 DEF B!Renews, B!SharesRenewal
  <2>2. l \in CallRows
    BY <1>0, <1>1, <2>1 DEF CallRows, B!Place
  <2>3. l.do = do /\ l.view = B!Nobody /\ l.answer = "none" /\ l.token = cookie /\ l.at = "csrf"
    BY <1>1, <2>1 DEF CallRows
  <2>4. \A d \in Call : ~ RenewsNow(d)
    BY <1>4 DEF B!Renewing, RenewsNow, Exchanging
  <2> HIDE DEF l
  <2> QED
    BY <1>0, <1>2, <2>2, <2>3, <2>4, PageRow
<1>5. CASE ~ (page.access = B!NoToken /\ do # "login")
  <2>1. l = [k EXCEPT !.at = "sent", !.token = IF k.do = "login" THEN cookie ELSE page.access, !.csrf = page.csrf]
    BY <1>5 DEF B!Sent
  <2>2. PICK t \in {cookie, page.access} : t = (IF k.do = "login" THEN cookie ELSE page.access)
    OBVIOUS
  <2>3. t \in B!TokenOf /\ page.csrf \in B!Families
    BY <1>0, <2>2 DEF PageRows
  <2>4. l = [k EXCEPT !.at = "sent", !.token = t, !.csrf = page.csrf]
    BY <2>1, <2>2
  <2>5. l \in CallRows
    BY <1>1, <2>3, <2>4 DEF CallRows, B!Place
  <2>6. l.do = do /\ l.view = B!Nobody /\ l.answer = "none" /\ l.token = t /\ l.at = "sent"
    BY <1>1, <2>4 DEF CallRows
  <2>7. do # "login" => t = page.access
    BY <1>1, <2>2
  <2> HIDE DEF l
  <2> QED
    BY <1>0, <1>2, <2>2, <2>5, <2>6, <2>7, PageRow
<1> QED
  BY <1>3, <1>4, <1>5

LEMMA PageBegin ==
  ASSUME ~ Overlapping, PageInv, NEW c \in Call, NEW do \in B!Change \cup {"session", "read"}, B!Begin(c, do)
  PROVE  PageInv'
<1>0. /\ signin \in [B!Families -> FamilyRows] /\ cookie \in B!TokenOf /\ page \in PageRows /\ asking \in [Call -> CallRows]
      /\ UNCHANGED <<signin, replayed, cookie, ended, disturbed, estranged>> /\ PageChanges
      /\ asking[c].at = "idle" /\ B!Offered(do)
  BY PageKnown DEF B!Begin, B!Server, B!Around, PageInv
<1>1. /\ asking' \in [Call -> CallRows] /\ \A d \in Call \ {c} : asking'[d] = asking[d]
      /\ asking'[c].do = do /\ asking'[c].view = B!Nobody /\ asking'[c].answer = "none"
      /\ asking'[c].at \in {"waiting", "csrf", "sent"} /\ asking'[c].token \in {B!NoToken, cookie, page.access}
      /\ (asking'[c].at = "csrf" => \A d \in Call : ~ RenewsNow(d))
      /\ (asking'[c].at = "sent" /\ do # "login" => asking'[c].token = page.access)
  BY PageBegun
<1>2. /\ page' \in PageRows /\ page'.shown = page.shown /\ page'.access = page.access
      /\ page'.wanted \in {page.wanted, c, None} /\ (do # "session" => page'.wanted \in {page.wanted, None})
  <2>1. PICK w : w = CASE do = "session" -> c [] do = "logout" -> None [] OTHER -> page.wanted
    OBVIOUS
  <2>2. w \in {page.wanted, c, None} /\ (do # "session" => w \in {page.wanted, None})
    BY <2>1
  <2>3. page' = [page EXCEPT !.wanted = w]
    BY <2>1 DEF B!Begin
  <2> QED
    BY <1>0, <2>2, <2>3 DEF PageRows
<1>3. Ages /\ SameFamilies /\ B!TypeOK'
  BY <1>0, <1>1, <1>2, PageSameAges, PageTypesThen DEF SameFamilies
<1>4. \A d \in Call : ~ (Working(d) /\ asking[d].do = "login")
  <2> SUFFICES ASSUME NEW d \in Call, Working(d), asking[d].do = "login" PROVE FALSE
    OBVIOUS
  <2>1. page.shown = B!Nobody /\ ~ page.shown.acting
    BY <1>0, PageNothing DEF PageChanges
  <2>2. B!Underway({"login"})
    BY DEF B!Underway, Working
  <2>3. do = "login"
    BY <1>0, <2>1, <2>2 DEF B!Offered
  <2> QED
    BY <1>0, <2>3 DEF B!Offered, Working
<1>5. do \in B!Change => \A d \in Call : ~ Changing(d)
  <2>1. CASE do = "login"
    BY <1>0, <2>1 DEF B!Offered, Changing, Working
  <2>2. CASE do \in B!Change \ {"login"}
    BY <1>0, <2>2 DEF B!Offered, B!Free, B!Underway, Changing, Working, B!Change
  <2> QED
    BY <2>1, <2>2
<1>6. PageChanges'
  <2>1. \A b, d \in Call : Changing(b)' /\ Changing(d)' => b = d
    BY <1>0, <1>1, <1>5 DEF PageChanges, Changing, Working
  <2>2. ASSUME NEW d \in Call, Working(d)', asking'[d].do = "login"
        PROVE  page'.shown = B!Nobody /\ page'.wanted = None /\ \A b \in Call \ {d} : ~ Working(b)'
    <3>1. d = c /\ do = "login"
      BY <1>1, <1>4, <2>2 DEF Working
    <3>2. page.shown = B!Nobody /\ page.wanted = None /\ \A b \in Call : ~ Working(b)
      BY <1>0, <3>1 DEF B!Offered, Working
    <3> QED
      BY <1>1, <1>2, <3>1, <3>2 DEF Working
  <2> QED
    BY <2>1, <2>2 DEF PageChanges
<1>7. PageFamilies'
  <2>1. \A d \in Call : asking'[d].token.family \in KnownSignIns /\ asking'[d].view.family \in KnownSignIns
    BY <1>1, PageNothing DEF KnownSignIns
  <2>2. cookie'.family \in KnownSignIns /\ page'.access.family \in KnownSignIns /\ page'.shown.family \in KnownSignIns
    BY <1>0, <1>2 DEF KnownSignIns
  <2> QED
    BY <1>0, <1>3, <2>1, <2>2, PageFamiliesOn
<1>8. \A d \in Call \ {c} : Kept(d)' => Kept(d)
  <2>1. None \notin Call
    BY SigningAssumption
  <2> QED
    BY <1>1, <1>2, <2>1 DEF Kept
<1>9. ~ Granted(c)' /\ ~ Switched(c) /\ ~ Exchanging(c)' /\ ~ Turned(c)' /\ ~ Turned(c) /\ asking'[c].at # "closing"
  BY <1>0, <1>1 DEF Granted, Switched, Exchanging, Turned
<1>10. PageAnswers'
  <2>1. \A d \in Call : AnswersLess(d)
    BY <1>1, <1>8, <1>9 DEF AnswersLess, Granted
  <2>2. page'.shown.family \notin ended'
    BY <1>0, <1>2 DEF PageInv, PageAnswers
  <2> QED
    BY <1>0, <1>3, <2>1, <2>2, PageAnswersOn
<1>11. PageRenewals'
  <2>1. \A b, d \in Call : RenewsNow(b)' /\ RenewsNow(d)' => b = d
    <3>1. \A d \in Call \ {c} : RenewsNow(d)' => RenewsNow(d)
      BY <1>1 DEF RenewsNow, Exchanging
    <3>2. RenewsNow(c)' => (RenewsNow(c) \/ \A d \in Call : ~ RenewsNow(d))
      BY <1>1, <1>9 DEF RenewsNow
    <3> QED
      BY <3>1, <3>2, PageOneRenewal
  <2>2. \A d \in Call : RenewsLess(d)
    BY <1>1, <1>9 DEF RenewsLess, Turned, Granted
  <2> QED
    BY <1>0, <1>3, <2>1, <2>2, PageRenewalsOn
<1>12. \A d \in Call : ExchangesLess(d)
  BY <1>1, <1>9 DEF ExchangesLess, Exchanging
<1>13. PageTokens'
  BY <1>0, <1>2, <1>3, <1>12, PageTokensOn
<1>14. PageStands'
  <2>1. \A d \in Call : AwayLess(d) \/ asking'[d].token = page.access
    <3>1. \A d \in Call \ {c} : AwayLess(d)
      BY <1>1, <1>8 DEF AwayLess, Away, Granted
    <3>2. AwayLess(c) \/ asking'[c].token = page.access
      <4>1. CASE asking'[c].at = "sent" /\ do # "login"
        BY <1>1, <4>1
      <4>2. CASE asking'[c].at # "sent" \/ do = "login"
        BY <1>1, <1>9, <4>2 DEF AwayLess, Away
      <4> QED
        BY <4>1, <4>2
    <3> QED
      BY <3>1, <3>2
  <2>2. estranged' \/ (~ estranged /\ page'.shown.family = page.shown.family)
    BY <1>0, <1>2
  <2> QED
    BY <1>0, <1>2, <1>3, <1>12, <2>1, <2>2, PageStandsOn
<1>15. PageActing'
  <2>1. \A d \in Call : ActingLess(d) /\ (Switched(d) => Switched(d)')
    BY <1>1, <1>8, <1>9 DEF ActingLess, Switched, Granted
  <2> QED
    BY <1>0, <1>2, <1>3, <2>1, PageActingOn
<1> QED
  BY <1>3, <1>6, <1>7, <1>10, <1>11, <1>13, <1>14, <1>15 DEF PageInv

-----------------------------------------------------------------------------
(* The server.                                                             *)

LEMMA PageServeRead == ASSUME PageInv, NEW c \in Call, B!ServeRead(c) PROVE PageInv'
<1> DEFINE f == asking[c].token.family
           k == [asking[c] EXCEPT !.at = "closing"]
           v == [family |-> f, acting |-> signin[f].acting]
<1>0. /\ signin \in [B!Families -> FamilyRows] /\ cookie \in B!TokenOf /\ page \in PageRows /\ asking \in [Call -> CallRows]
      /\ UNCHANGED <<signin, replayed, cookie, page, ended, disturbed, estranged>>
      /\ asking[c].at = "sent" /\ asking[c].do \in {"session", "read"} /\ signin[f].live
      /\ asking' = IF signin[f].acting /\ restricted THEN [asking EXCEPT ![c] = k] ELSE B!Answer(c, "ok", v)
  BY PageKnown DEF B!ServeRead, B!Server, B!Around, B!Valid
<1>1. f \in B!Families /\ f \notin ended /\ v \in B!View /\ v.family = f /\ v.acting = signin[f].acting
  <2>1. f \in B!Families
    BY <1>0 DEF CallRows, B!TokenOf
  <2>2. signin[f].acting \in BOOLEAN
    BY <1>0, <2>1 DEF FamilyRows
  <2> QED
    BY <1>0, <2>1, <2>2 DEF B!View, PageInv, PageFamilies
<1>2. /\ k \in CallRows /\ k.at = "closing" /\ k.do = asking[c].do /\ k.token = asking[c].token /\ k.later = asking[c].later
      /\ k.view = asking[c].view
  BY <1>0 DEF CallRows, B!Place
<1> HIDE DEF k, v
<1>3. /\ asking' \in [Call -> CallRows] /\ \A d \in Call \ {c} : asking'[d] = asking[d]
      /\ asking'[c].do = asking[c].do /\ asking'[c].token = asking[c].token /\ asking'[c].later = asking[c].later
      /\ \/ asking'[c].at = "closing" /\ asking'[c].view = asking[c].view
         \/ asking'[c].at = "answered" /\ asking'[c].view = v
  <2>1. CASE signin[f].acting /\ restricted
    BY <1>0, <1>2, <2>1, PageRow
  <2>2. CASE ~ (signin[f].acting /\ restricted)
    BY <1>0, <1>1, <2>2, PageAnswer
  <2> QED
    BY <2>1, <2>2
<1>4. Ages /\ SameFamilies /\ B!TypeOK'
  BY <1>0, <1>3, PageSameAges, PageTypesThen DEF SameFamilies
<1>5. PageFamilies'
  <2>1. \A d \in Call : asking'[d].token.family \in KnownSignIns /\ asking'[d].view.family \in KnownSignIns
    BY <1>1, <1>3 DEF KnownSignIns
  <2>2. cookie'.family \in KnownSignIns /\ page'.access.family \in KnownSignIns /\ page'.shown.family \in KnownSignIns
    BY <1>0 DEF KnownSignIns
  <2> QED
    BY <1>0, <1>4, <2>1, <2>2, PageFamiliesOn
<1>6. PageChanges'
  BY <1>0, <1>3, PageChangesOn DEF Working
<1>7. \A d \in Call : Kept(d)' <=> Kept(d)
  BY <1>0, <1>3 DEF Kept
<1>8. PageAnswers'
  <2>1. \A d \in Call \ {c} : AnswersLess(d)
    BY <1>3, <1>7 DEF AnswersLess, Granted
  <2>2. AnswersNow(c)
    BY <1>0, <1>1, <1>3 DEF AnswersNow, Granted
  <2>3. page'.shown.family \notin ended'
    BY <1>0 DEF PageInv, PageAnswers
  <2> QED
    BY <1>0, <1>4, <2>1, <2>2, <2>3, PageAnswersOn
<1>9. \A d \in Call : RenewsNow(d)' => RenewsNow(d)
  BY <1>3 DEF RenewsNow, Exchanging
<1>10. PageRenewals'
  <2>1. \A b, d \in Call : RenewsNow(b)' /\ RenewsNow(d)' => b = d
    BY <1>9 DEF PageInv, PageRenewals
  <2>2. \A d \in Call : RenewsLess(d)
    BY <1>0, <1>3 DEF RenewsLess, Turned, Granted
  <2> QED
    BY <1>0, <1>4, <2>1, <2>2, PageRenewalsOn
<1>11. \A d \in Call : ExchangesLess(d) /\ AwayLess(d)
  BY <1>0, <1>3, <1>7 DEF ExchangesLess, Exchanging, AwayLess, Away, Granted
<1>12. PageTokens'
  BY <1>0, <1>4, <1>11, PageTokensOn
<1>13. PageStands'
  BY <1>0, <1>4, <1>11, PageStandsOn
<1>14. PageActing'
  <2>1. \A d \in Call : Switched(d) => Switched(d)'
    BY <1>0, <1>3 DEF Switched, Granted
  <2>2. \A d \in Call \ {c} : ActingLess(d)
    BY <1>3, <1>7 DEF ActingLess, Granted
  <2>3. ActingLess(c) \/ asking'[c].view.acting = signin'[asking'[c].view.family].acting
    BY <1>0, <1>1, <1>3 DEF ActingLess, Granted
  <2> QED
    BY <1>0, <1>4, <2>1, <2>2, <2>3, PageActingOn DEF SameFamilies
<1> QED
  BY <1>4, <1>5, <1>6, <1>8, <1>10, <1>12, <1>13, <1>14 DEF PageInv

LEMMA PageCloseAccount == ASSUME PageInv, NEW c \in Call, B!CloseAccount(c) PROVE PageInv'
<1> DEFINE f == asking[c].token.family
           v == [family |-> f, acting |-> FALSE]
           row == [signin[f] EXCEPT !.acting = FALSE]
<1>0. /\ signin \in [B!Families -> FamilyRows] /\ cookie \in B!TokenOf /\ page \in PageRows /\ asking \in [Call -> CallRows]
      /\ UNCHANGED <<replayed, cookie, page, ended, disturbed>>
      /\ asking[c].at = "closing" /\ signin' = [signin EXCEPT ![f] = row] /\ B!Estrange(B!Answer(c, "ok", v))
  BY PageKnown DEF B!CloseAccount, B!Server, B!Around
<1>1. f \in B!Families /\ v \in B!View /\ v.family = f
  <2>1. f \in B!Families
    BY <1>0 DEF CallRows, B!TokenOf
  <2> QED
    BY <2>1 DEF B!View
<1>2. row \in FamilyRows /\ row.live = signin[f].live /\ row.newest = signin[f].newest
  BY <1>0, <1>1 DEF FamilyRows
<1> HIDE DEF v, row
<1>3. PICK calls : calls = B!Answer(c, "ok", v)
  OBVIOUS
<1>16. /\ calls \in [Call -> CallRows] /\ \A d \in Call \ {c} : calls[d] = asking[d]
       /\ calls[c].at = "answered" /\ calls[c].do = asking[c].do /\ calls[c].token = asking[c].token /\ calls[c].view = v
  BY <1>0, <1>1, <1>3, PageAnswer
<1>17. B!Estrange(calls)
  BY <1>0, <1>3
<1>4. /\ asking' \in [Call -> CallRows] /\ estranged' /\ \A d \in Call : ~ asking'[d].later
      /\ \A d \in Call \ {c} : /\ asking'[d].at = asking[d].at /\ asking'[d].do = asking[d].do /\ asking'[d].token = asking[d].token
                               /\ asking'[d].view = asking[d].view /\ asking'[d].answer = asking[d].answer
      /\ asking'[c].at = "answered" /\ asking'[c].do = asking[c].do /\ asking'[c].token = asking[c].token /\ asking'[c].view.family = f
  <2>1. /\ asking' \in [Call -> CallRows] /\ estranged'
        /\ \A d \in Call : /\ ~ asking'[d].later /\ asking'[d].at = calls[d].at /\ asking'[d].do = calls[d].do
                           /\ asking'[d].token = calls[d].token /\ asking'[d].view = calls[d].view
                           /\ asking'[d].answer = calls[d].answer
    BY <1>16, <1>17, PageEstrange
  <2> QED
    BY <1>1, <1>16, <2>1
<1>5. /\ signin' \in [B!Families -> FamilyRows]
      /\ \A g \in B!Families : signin'[g].live = signin[g].live /\ signin'[g].newest = signin[g].newest
  BY <1>0, <1>1, <1>2
<1>6. Ages /\ B!TypeOK'
  BY <1>0, <1>4, <1>5, PageNothing, PageTypesThen DEF PageInv, PageFamilies, Ages, Used, StillUsed
<1>7. PageFamilies'
  <2>1. \A d \in Call : asking'[d].token.family \in KnownSignIns /\ asking'[d].view.family \in KnownSignIns
    BY <1>4 DEF KnownSignIns
  <2>2. cookie'.family \in KnownSignIns /\ page'.access.family \in KnownSignIns /\ page'.shown.family \in KnownSignIns
    BY <1>0 DEF KnownSignIns
  <2> QED
    BY <1>0, <1>6, <2>1, <2>2, PageFamiliesOn
<1>8. PageChanges'
  BY <1>0, <1>4, PageChangesOn DEF Working
<1>9. \A d \in Call : Kept(d)' <=> Kept(d)
  BY <1>0, <1>4 DEF Kept
<1>10. PageAnswers'
  <2>1. \A d \in Call \ {c} : AnswersLess(d) \/ AnswersNow(d)
    BY <1>4, <1>9, <1>0, <1>6 DEF AnswersLess, AnswersNow, Granted
  <2>2. AnswersNow(c)
    BY <1>0, <1>4, <1>9 DEF AnswersNow, Granted, PageInv, PageAnswers
  <2>3. page'.shown.family \notin ended'
    BY <1>0 DEF PageInv, PageAnswers
  <2> QED
    BY <1>0, <1>6, <2>1, <2>2, <2>3, PageAnswersOn
<1>11. \A d \in Call : RenewsNow(d)' => RenewsNow(d)
  BY <1>4 DEF RenewsNow, Exchanging
<1>12. PageRenewals'
  <2>1. \A b, d \in Call : RenewsNow(b)' /\ RenewsNow(d)' => b = d
    BY <1>11 DEF PageInv, PageRenewals
  <2>2. asking[c].do # "login"
    BY <1>0 DEF PageInv, PageAnswers
  <2>3. \A d \in Call : RenewsLess(d)
    BY <1>0, <1>4, <2>2 DEF RenewsLess, Turned, Granted
  <2> QED
    BY <1>0, <1>5, <1>6, <2>1, <2>3, PageRenewalsOn
<1>13. \A d \in Call : ExchangesLess(d)
  BY <1>0, <1>4 DEF ExchangesLess, Exchanging
<1>14. PageTokens'
  BY <1>0, <1>6, <1>13, PageTokensOn
<1>15. PageStands' /\ PageActing'
  BY <1>4, PageEstranged
<1> QED
  BY <1>6, <1>7, <1>8, <1>10, <1>12, <1>14, <1>15 DEF PageInv

\* A call that the server turns down.
LEMMA PageTurnsDown ==
  ASSUME PageInv, NEW c \in Call, asking[c].at = "sent", NEW a \in {"401", "no"}, NEW v \in B!View,
         v = B!Nobody \/ v.family = asking[c].token.family, asking' = B!Answer(c, a, v),
         UNCHANGED <<signin, replayed, cookie, page, ended, disturbed, estranged>>
  PROVE  PageInv'
<1>0. signin \in [B!Families -> FamilyRows] /\ cookie \in B!TokenOf /\ page \in PageRows /\ asking \in [Call -> CallRows]
  BY PageKnown
<1>1. /\ asking' \in [Call -> CallRows] /\ \A d \in Call \ {c} : asking'[d] = asking[d]
      /\ asking'[c].at = "answered" /\ asking'[c].answer = a /\ asking'[c].view = v
      /\ asking'[c].do = asking[c].do /\ asking'[c].token = asking[c].token /\ asking'[c].later = asking[c].later
  BY <1>0, PageAnswer
<1>2. Less(c) /\ ~ RenewsNow(c)' /\ ~ Switched(c)
  BY <1>0, <1>1, PageRefusedCall
<1>3. \A d \in Call : Less(d)
  BY <1>0, <1>1, <1>2, PageStill
<1>4. \A b, d \in Call : RenewsNow(b)' /\ RenewsNow(d)' => b = d
  <2>1. \A d \in Call \ {c} : RenewsNow(d)' => RenewsNow(d)
    BY <1>1 DEF RenewsNow, Exchanging
  <2> QED
    BY <1>2, <2>1, PageOneRenewal
<1>5. \A d \in Call : Switched(d) => Switched(d)'
  BY <1>1, <1>2 DEF Switched, Granted
<1>6. B!TypeOK' /\ SameFamilies
  BY <1>0, <1>1, PageTypesThen DEF SameFamilies
<1> QED
  BY <1>0, <1>3, <1>4, <1>5, <1>6, PageFades

LEMMA PageServeChange == ASSUME PageInv, NEW c \in Call, B!ServeChange(c) PROVE PageInv'
<1> DEFINE f == asking[c].token.family
           granted == asking[c].csrf = f /\ ~ (asking[c].do = "open" /\ restricted)
           v == [family |-> f, acting |-> asking[c].do = "open"]
           row == IF asking[c].do = "logout" THEN [signin[f] EXCEPT !.live = FALSE]
                  ELSE [signin[f] EXCEPT !.acting = (asking[c].do = "open")]
<1>0. /\ signin \in [B!Families -> FamilyRows] /\ cookie \in B!TokenOf /\ page \in PageRows /\ asking \in [Call -> CallRows]
      /\ UNCHANGED <<replayed, cookie, page, ended, disturbed, estranged>>
      /\ asking[c].at = "sent" /\ asking[c].do \in {"logout", "open", "close"} /\ signin[f].live
      /\ asking' = B!Answer(c, IF granted THEN "ok" ELSE "no", v)
  BY PageKnown DEF B!ServeChange, B!Server, B!Around, B!Valid
<1>1. f \in B!Families /\ v \in B!View /\ v.family = f /\ v.acting = (asking[c].do = "open")
  <2>1. f \in B!Families
    BY <1>0 DEF CallRows, B!TokenOf
  <2> QED
    BY <2>1 DEF B!View
<1>2. CASE ~ granted
  <2>1. asking' = B!Answer(c, "no", v) /\ signin' = signin
    BY <1>0, <1>2 DEF B!ServeChange
  <2> QED
    BY <1>0, <1>1, <2>1, PageTurnsDown
<1>3. CASE granted
  <2>1. asking' = B!Answer(c, "ok", v)
    BY <1>0, <1>3
  <2>2. signin' = [signin EXCEPT ![f] = row]
    BY <1>0, <1>3 DEF B!ServeChange
  <2>3. /\ row \in FamilyRows /\ row.newest = signin[f].newest
        /\ row.live = (asking[c].do # "logout")
        /\ row.acting = (IF asking[c].do = "logout" THEN signin[f].acting ELSE asking[c].do = "open")
    <3>1. signin[f] \in FamilyRows /\ signin[f].live = TRUE
      BY <1>0, <1>1 DEF FamilyRows
    <3>2. CASE asking[c].do = "logout"
      <4>1. row = [signin[f] EXCEPT !.live = FALSE]
        BY <3>2
      <4> QED
        BY <3>1, <3>2, <4>1 DEF FamilyRows
    <3>3. CASE asking[c].do # "logout"
      <4>1. PICK on \in BOOLEAN : on = (asking[c].do = "open") /\ row = [signin[f] EXCEPT !.acting = on]
        BY <3>3
      <4> QED
        BY <3>1, <3>3, <4>1 DEF FamilyRows
    <3> QED
      BY <3>2, <3>3
  <2> HIDE DEF v, row
  <2>4. /\ asking' \in [Call -> CallRows] /\ \A d \in Call \ {c} : asking'[d] = asking[d]
        /\ asking'[c].at = "answered" /\ asking'[c].answer = "ok" /\ asking'[c].view = v
        /\ asking'[c].do = asking[c].do /\ asking'[c].token = asking[c].token /\ asking'[c].later = asking[c].later
    BY <1>0, <1>1, <2>1, PageAnswer
  <2>5. /\ signin' \in [B!Families -> FamilyRows] /\ signin'[f] = row
        /\ \A g \in B!Families \ {f} : signin'[g] = signin[g]
    BY <1>0, <1>1, <2>2, <2>3
  <2>6. \A g \in B!Families : (signin'[g].live => signin[g].live) /\ signin'[g].newest = signin[g].newest
    BY <1>0, <1>1, <2>3, <2>5
  <2>7. f # 0 /\ f \notin ended
    BY <1>0 DEF PageInv, PageFamilies
  <2>8. Ages /\ B!TypeOK'
    BY <1>0, <2>4, <2>5, <2>6, PageNothing, PageTypesThen DEF PageInv, PageFamilies, Ages, Used, StillUsed
  <2>9. PageFamilies'
    <3>1. \A d \in Call : asking'[d].token.family \in KnownSignIns /\ asking'[d].view.family \in KnownSignIns
      BY <1>1, <2>4 DEF KnownSignIns
    <3>2. cookie'.family \in KnownSignIns /\ page'.access.family \in KnownSignIns /\ page'.shown.family \in KnownSignIns
      BY <1>0 DEF KnownSignIns
    <3> QED
      BY <1>0, <2>8, <3>1, <3>2, PageFamiliesOn
  <2>10. PageChanges'
    BY <1>0, <2>4, PageChangesOn DEF Working
  <2>11. \A d \in Call : Kept(d)' <=> Kept(d)
    BY <1>0, <2>4 DEF Kept
  <2>12. PageAnswers'
    <3>1. \A d \in Call \ {c} : AnswersLess(d)
      BY <2>4, <2>11 DEF AnswersLess, Granted
    <3>2. AnswersNow(c)
      <4>1. /\ asking'[c].at = "answered" /\ asking'[c].view.family = f /\ asking'[c].token.family = f
            /\ asking'[c].do = asking[c].do /\ asking[c].do # "login" /\ f # 0 /\ f \notin ended'
        BY <1>0, <1>1, <2>4, <2>7
      <4>2. asking[c].do = "logout" => ~ signin'[f].live
        BY <2>3, <2>5
      <4> QED
        BY <4>1, <4>2 DEF AnswersNow
    <3>3. page'.shown.family \notin ended'
      BY <1>0 DEF PageInv, PageAnswers
    <3> QED
      BY <1>0, <2>8, <3>1, <3>2, <3>3, PageAnswersOn
  <2>13. \A d \in Call : RenewsNow(d)' => RenewsNow(d)
    BY <2>4 DEF RenewsNow, Exchanging
  <2>14. PageRenewals'
    <3>1. \A b, d \in Call : RenewsNow(b)' /\ RenewsNow(d)' => b = d
      BY <2>13 DEF PageInv, PageRenewals
    <3>2. \A d \in Call \ {c} : RenewsLess(d)
      BY <2>4 DEF RenewsLess, Turned, Granted
    <3>3. RenewsLess(c)
      <4>1. asking'[c].at = "answered" /\ asking[c].at = "sent" /\ asking'[c].do # "login"
        BY <1>0, <2>4
      <4> QED
        BY <4>1 DEF RenewsLess, Turned, Granted
    <3> QED
      BY <1>0, <2>6, <2>8, <3>1, <3>2, <3>3, PageRenewalsOn
  <2>15. \A d \in Call : ExchangesLess(d) /\ AwayLess(d)
    BY <1>0, <2>4, <2>11 DEF ExchangesLess, Exchanging, AwayLess, Away, Granted
  <2>16. PageTokens'
    BY <1>0, <2>8, <2>15, PageTokensOn
  <2>17. PageStands'
    BY <1>0, <2>8, <2>15, PageStandsOn
  <2>18. \A d \in Call \ {c} : ActingLess(d) /\ (Switched(d) => Switched(d)')
    BY <2>4, <2>11 DEF ActingLess, Granted, Switched
  <2>19. ~ Switched(c)
    BY <1>0 DEF Switched, Granted
  <2>20. PageActing'
    <3>1. CASE asking[c].do = "logout"
      <4>1. \A g \in B!Families : Used(g) => signin'[g].acting = signin[g].acting
        BY <2>3, <2>5, <3>1
      <4>2. ActingLess(c)
        BY <2>4, <3>1 DEF ActingLess, Kept
      <4> QED
        BY <1>0, <2>8, <2>18, <2>19, <4>1, <4>2, PageActingOn
    <3>2. CASE asking[c].do # "logout"
      <4>1. Switched(c)'
        BY <1>0, <2>4, <3>2 DEF Switched, Granted
      <4>2. \A d \in Call \ {c} : Kept(d)' /\ Granted(d)' => asking'[d].do = "session"
        <5>1. \A d \in Call \ {c} : ~ Changing(d)
          BY <1>0 DEF PageInv, PageChanges, Changing, Working, B!Change
        <5> QED
          BY <2>4, <5>1 DEF Changing, Working, B!Change, Kept, Granted
      <4>3. asking'[c].view.acting = signin'[asking'[c].view.family].acting
        BY <1>1, <2>3, <2>4, <2>5, <3>2
      <4>4. asking'[c].do # "session"
        BY <1>0, <2>4
      <4> QED
        BY <4>1, <4>2, <4>3, <4>4 DEF PageActing
    <3> QED
      BY <3>1, <3>2
  <2> QED
    BY <2>8, <2>9, <2>10, <2>12, <2>14, <2>16, <2>17, <2>20 DEF PageInv
<1> QED
  BY <1>2, <1>3

LEMMA PageServeRefresh == ASSUME PageInv, NEW c \in Call, B!ServeRefresh(c) PROVE PageInv'
<1> DEFINE f == asking[c].token.family
           known == signin[f].live /\ asking[c].csrf = f
           rotates == known /\ asking[c].token.number = signin[f].newest
           next == signin[f].newest + 1
           row == IF rotates THEN [signin[f] EXCEPT !.newest = next]
                  ELSE [signin[f] EXCEPT !.live = signin[f].live /\ ~ known]
           a == IF rotates THEN "ok" ELSE "401"
           n == IF rotates THEN next ELSE asking[c].token.number
           k == [asking[c] EXCEPT !.at = "refresh answered", !.answer = a, !.token.number = n]
<1>0. /\ signin \in [B!Families -> FamilyRows] /\ cookie \in B!TokenOf /\ page \in PageRows /\ asking \in [Call -> CallRows]
      /\ UNCHANGED <<cookie, page, ended, disturbed, estranged>>
      /\ asking[c].at = "refresh" /\ (rotates => next <= Renewals)
      /\ signin' = [signin EXCEPT ![f] = row] /\ replayed' = (replayed \/ (known /\ ~ rotates))
      /\ asking' = [asking EXCEPT ![c] = k]
  BY PageKnown DEF B!ServeRefresh, B!Around
<1>1. f \in B!Families /\ asking[c].token.number \in 0..Renewals /\ signin[f] \in FamilyRows /\ signin[f].newest \in Nat
  <2>1. f \in B!Families /\ asking[c].token.number \in 0..Renewals
    BY <1>0 DEF CallRows, B!TokenOf
  <2>2. signin[f] \in FamilyRows
    BY <1>0, <2>1
  <2>3. signin[f].newest \in 0..Renewals
    BY <2>2 DEF FamilyRows
  <2>4. signin[f].newest \in Nat
    BY <2>3, SigningAssumption
  <2> QED
    BY <2>1, <2>2, <2>4
<1>2. n \in 0..Renewals /\ a \in {"ok", "401"}
  <2>1. rotates => next \in 0..Renewals
    BY <1>0, <1>1, SigningAssumption
  <2>2. n \in 0..Renewals
    BY <1>1, <2>1
  <2> QED
    BY <2>2
<1>3. /\ row \in FamilyRows /\ row.acting = signin[f].acting
      /\ row.newest = (IF rotates THEN next ELSE signin[f].newest)
      /\ (row.live => signin[f].live)
  <2>1. CASE rotates
    <3>1. row = [signin[f] EXCEPT !.newest = next] /\ next \in 0..Renewals
      BY <1>0, <1>1, <2>1, SigningAssumption
    <3> QED
      BY <1>1, <2>1, <3>1 DEF FamilyRows
  <2>2. CASE ~ rotates
    <3>1. PICK on \in BOOLEAN : on = (signin[f].live /\ ~ known) /\ row = [signin[f] EXCEPT !.live = on]
      BY <2>2
    <3> QED
      BY <1>1, <2>2, <3>1 DEF FamilyRows
  <2> QED
    BY <2>1, <2>2
<1>4. /\ k \in CallRows /\ k.at = "refresh answered" /\ k.answer = a /\ k.do = asking[c].do /\ k.view = asking[c].view
      /\ k.later = asking[c].later /\ k.token.family = f /\ k.token.number = n
  <2>1. PICK t : t = [asking[c].token EXCEPT !.number = n]
    OBVIOUS
  <2>2. t \in B!TokenOf /\ t.family = f /\ t.number = n
    BY <1>0, <1>1, <1>2, <2>1 DEF CallRows, B!TokenOf
  <2>3. k = [asking[c] EXCEPT !.at = "refresh answered", !.answer = a, !.token = t]
    BY <1>0, <2>1 DEF CallRows
  <2> HIDE DEF k
  <2>4. k \in CallRows
    BY <1>0, <1>2, <2>2, <2>3 DEF CallRows, B!Place
  <2>5. k.at = "refresh answered" /\ k.answer = a /\ k.do = asking[c].do /\ k.view = asking[c].view /\ k.later = asking[c].later /\ k.token = t
    BY <1>0, <2>3 DEF CallRows
  <2> QED
    BY <2>2, <2>4, <2>5
<1> HIDE DEF k, row
<1>5. asking' \in [Call -> CallRows] /\ asking'[c] = k /\ \A d \in Call \ {c} : asking'[d] = asking[d]
  BY <1>0, <1>4, PageRow
<1>6. /\ signin' \in [B!Families -> FamilyRows] /\ signin'[f] = row /\ \A g \in B!Families \ {f} : signin'[g] = signin[g]
  BY <1>0, <1>1, <1>3
<1>7. \A g \in B!Families : (signin'[g].live => signin[g].live) /\ signin'[g].acting = signin[g].acting
  BY <1>3, <1>6
<1>8. Ages /\ B!TypeOK'
  <2>1. f # 0 \/ ~ rotates
    BY DEF PageInv, PageFamilies
  <2>2. next # 0
    BY <1>1
  <2>3. signin'[0].newest = 0 /\ \A g \in B!Families : signin[g].newest # 0 => signin'[g].newest # 0
    BY <1>3, <1>6, <2>1, <2>2, PageNothing DEF PageInv, PageFamilies
  <2>4. B!TypeOK'
    BY <1>0, <1>5, <1>6, PageTypesThen
  <2> QED
    BY <1>7, <2>3, <2>4, PageNothing DEF PageInv, PageFamilies, Ages, Used, StillUsed
<1>9. PageFamilies'
  <2>1. \A d \in Call : asking'[d].token.family \in KnownSignIns /\ asking'[d].view.family \in KnownSignIns
    BY <1>4, <1>5 DEF KnownSignIns
  <2>2. cookie'.family \in KnownSignIns /\ page'.access.family \in KnownSignIns /\ page'.shown.family \in KnownSignIns
    BY <1>0 DEF KnownSignIns
  <2> QED
    BY <1>0, <1>8, <2>1, <2>2, PageFamiliesOn
<1>10. PageChanges'
  BY <1>0, <1>4, <1>5, PageChangesOn DEF Working
<1>11. \A d \in Call : Kept(d)' <=> Kept(d)
  BY <1>0, <1>4, <1>5 DEF Kept
<1>12. PageAnswers'
  <2>1. \A d \in Call : AnswersLess(d)
    BY <1>4, <1>5, <1>11 DEF AnswersLess, Granted
  <2>2. page'.shown.family \notin ended'
    BY <1>0 DEF PageInv, PageAnswers
  <2> QED
    BY <1>0, <1>8, <2>1, <2>2, PageAnswersOn
<1>13. \A b, d \in Call : RenewsNow(b)' /\ RenewsNow(d)' => b = d
  <2>1. \A d \in Call : RenewsNow(d)' => RenewsNow(d)
    BY <1>0, <1>5 DEF RenewsNow, Exchanging
  <2> QED
    BY <2>1 DEF PageInv, PageRenewals
<1>14. \A d \in Call \ {c} : ~ RenewsNow(d) /\ asking'[d].at # "refresh" /\ ~ Turned(d) /\ ~ Turned(d)'
  <2>1. RenewsNow(c)
    BY <1>0 DEF RenewsNow, Exchanging
  <2>2. \A d \in Call \ {c} : ~ RenewsNow(d)
    BY <2>1 DEF PageInv, PageRenewals
  <2> QED
    BY <1>5, <2>2 DEF RenewsNow, Exchanging, Turned
<1>15. PageRenewals'
  <2>0. PageRenewals
    BY DEF PageInv
  <2>1. CASE rotates
    <3>1. asking'[c].token.family = f /\ asking'[c].token.number = next /\ signin'[f].newest = next /\ Turned(c)' /\ ~ Turned(c)
      BY <1>0, <1>3, <1>4, <1>5, <1>6, <2>1 DEF Turned
    <3>2. ASSUME NEW d \in Call, asking'[d].at = "refresh" \/ Turned(d)', signin'[asking'[d].token.family].live
          PROVE  asking'[d].token.number = signin'[asking'[d].token.family].newest
      BY <1>14, <3>1, <3>2
    <3>3. ASSUME NEW d \in Call, Granted(d)', asking'[d].do = "login" PROVE FALSE
      <4>1. d # c /\ Working(d) /\ asking[d].do = "login" /\ Working(c)
        BY <1>0, <1>4, <1>5, <3>3 DEF Granted, Working
      <4> QED
        BY <4>1 DEF PageInv, PageChanges
    <3>4. ASSUME ~ disturbed', signin'[cookie'.family].live
          PROVE  \/ cookie'.number = signin'[cookie'.family].newest
                 \/ \E d \in Call : Turned(d)' /\ asking'[d].token.family = cookie'.family
      <4>1. CASE cookie.family = f
        BY <1>0, <3>1, <4>1
      <4>2. CASE cookie.family # f
        <5>1. cookie.family \in B!Families /\ signin'[cookie.family] = signin[cookie.family]
          BY <1>0, <1>6, <4>2 DEF B!TokenOf
        <5> QED
          BY <1>0, <1>14, <2>0, <3>1, <3>4, <5>1 DEF PageRenewals
      <4> QED
        BY <4>1, <4>2
    <3>5. B!RenewsOnce'
      BY <1>0, <2>0, <2>1 DEF PageRenewals, B!RenewsOnce
    <3> QED
      BY <1>13, <3>2, <3>3, <3>4, <3>5 DEF PageRenewals
  <2>2. CASE ~ rotates
    <3>1. \A g \in B!Families : Used(g) => signin'[g].newest = signin[g].newest
      BY <1>3, <1>6, <2>2
    <3>2. \A d \in Call : RenewsLess(d)
      BY <1>0, <1>4, <1>5, <2>2 DEF RenewsLess, Turned, Granted
    <3>3. known => disturbed
      BY <1>0, <2>0, <2>2 DEF PageRenewals
    <3>4. replayed' => replayed \/ disturbed'
      BY <1>0, <3>3
    <3> QED
      BY <1>0, <1>8, <1>13, <3>1, <3>2, <3>4, PageRenewalsOn
  <2> QED
    BY <2>1, <2>2
<1>16. \A d \in Call : ExchangesLess(d) /\ AwayLess(d)
  BY <1>0, <1>4, <1>5, <1>11 DEF ExchangesLess, Exchanging, AwayLess, Away, Granted
<1>17. PageTokens'
  BY <1>0, <1>8, <1>16, PageTokensOn
<1>18. PageStands'
  BY <1>0, <1>8, <1>16, PageStandsOn
<1>19. PageActing'
  <2>1. \A d \in Call : ActingLess(d) /\ (Switched(d) => Switched(d)')
    BY <1>0, <1>4, <1>5, <1>11 DEF ActingLess, Granted, Switched
  <2> QED
    BY <1>0, <1>7, <1>8, <2>1, PageActingOn
<1> QED
  BY <1>8, <1>9, <1>10, <1>12, <1>15, <1>17, <1>18, <1>19 DEF PageInv

\* A sign-in that is new.
LEMMA PageSignedIn ==
  ASSUME PageInv, NEW old \in B!Families, NEW f \in B!Unused, Used(old), signin' = B!SignedIn(old, f)
  PROVE  /\ signin' \in [B!Families -> FamilyRows] /\ Ages /\ f \in B!Families /\ f # 0 /\ ~ Used(f)
         /\ signin'[f].newest = 1 /\ ~ signin'[f].acting /\ ~ signin'[old].live
         /\ \A g \in B!Families : Used(g) => signin'[g].newest = signin[g].newest /\ signin'[g].acting = signin[g].acting
<1>0. signin \in [B!Families -> FamilyRows] /\ f \in B!Families /\ f # 0 /\ ~ Used(f) /\ f # old /\ PageFamilies
  BY PageKnown DEF B!Unused, Used, PageInv
<1>1. PICK row : row = [signin[old] EXCEPT !.live = FALSE]
  OBVIOUS
<1>2. row \in FamilyRows /\ ~ row.live /\ row.newest = signin[old].newest /\ row.acting = signin[old].acting
  BY <1>0, <1>1 DEF FamilyRows
<1>3. PICK new : new = [live |-> TRUE, acting |-> FALSE, newest |-> 1, lapsed |-> 0]
  OBVIOUS
<1>4. new \in FamilyRows /\ new.live /\ ~ new.acting /\ new.newest = 1
  <2>1. 0 \in 0..Renewals /\ 1 \in 0..Renewals
    BY SigningAssumption
  <2> QED
    BY <1>3, <2>1 DEF FamilyRows
<1>5. signin' = [[signin EXCEPT ![old] = row] EXCEPT ![f] = new]
  BY <1>1, <1>3 DEF B!SignedIn
<1>6. /\ signin' \in [B!Families -> FamilyRows] /\ signin'[f] = new /\ signin'[old] = row
      /\ \A g \in B!Families \ {old, f} : signin'[g] = signin[g]
  BY <1>0, <1>2, <1>4, <1>5
<1>7. \A g \in B!Families : Used(g) => /\ signin'[g].newest = signin[g].newest /\ signin'[g].acting = signin[g].acting
                                       /\ (signin'[g].live => signin[g].live)
  BY <1>0, <1>2, <1>6
<1>8. Ages
  <2>1. Used(0) /\ 0 \in B!Families
    BY PageNothing DEF Used
  <2>2. ~ signin'[0].live /\ signin'[0].newest = 0
    BY <1>0, <1>7, <2>1 DEF PageFamilies
  <2>3. ASSUME NEW g \in B!Families, Used(g) PROVE StillUsed(g) /\ (signin'[g].live => signin[g].live)
    BY <1>7, <2>3 DEF Used, StillUsed
  <2>4. ASSUME NEW g \in B!Families, signin'[g].live PROVE StillUsed(g)
    <3>1. CASE g = f
      BY <1>4, <1>6, <3>1 DEF StillUsed
    <3>2. CASE g # f
      <4>1. g # old
        BY <1>2, <1>6, <2>4
      <4>2. signin[g].live /\ Used(g)
        BY <1>0, <1>6, <2>4, <3>2, <4>1 DEF PageFamilies, Used
      <4> QED
        BY <2>3, <4>2
    <3> QED
      BY <3>1, <3>2
  <2> QED
    BY <2>2, <2>3, <2>4 DEF Ages
<1> QED
  BY <1>0, <1>2, <1>4, <1>6, <1>7, <1>8

LEMMA PageServeLogin == ASSUME PageInv, NEW c \in Call, B!ServeLogin(c) PROVE PageInv'
<1>0. /\ signin \in [B!Families -> FamilyRows] /\ cookie \in B!TokenOf /\ page \in PageRows /\ asking \in [Call -> CallRows]
      /\ UNCHANGED <<replayed, cookie, page, ended, disturbed, estranged>>
      /\ asking[c].at = "sent" /\ asking[c].do = "login" /\ PageFamilies
  BY PageKnown DEF B!ServeLogin, B!Around, PageInv
<1>1. CASE asking' = B!Answer(c, "no", B!Nobody) /\ UNCHANGED signin
  BY <1>0, <1>1, PageTurnsDown, PageNothing
<1>2. ASSUME NEW f \in B!Unused, signin' = B!SignedIn(asking[c].token.family, f),
             asking' = B!Answer(c, "ok", [family |-> f, acting |-> FALSE])
      PROVE  PageInv'
  <2> DEFINE v == [family |-> f, acting |-> FALSE]
  <2>1. asking[c].token.family \in B!Families /\ Used(asking[c].token.family)
    BY <1>0 DEF CallRows, B!TokenOf, PageFamilies
  <2>2. /\ signin' \in [B!Families -> FamilyRows] /\ Ages /\ f \in B!Families /\ f # 0 /\ ~ Used(f)
        /\ signin'[f].newest = 1 /\ ~ signin'[f].acting
        /\ \A g \in B!Families : Used(g) => signin'[g].newest = signin[g].newest /\ signin'[g].acting = signin[g].acting
    BY <1>2, <2>1, PageSignedIn
  <2>3. v \in B!View /\ v.family = f /\ v.acting = FALSE
    BY <2>2 DEF B!View
  <2>16. asking' = B!Answer(c, "ok", v)
    BY <1>2
  <2> HIDE DEF v
  <2>4. /\ asking' \in [Call -> CallRows] /\ \A d \in Call \ {c} : asking'[d] = asking[d]
        /\ asking'[c].at = "answered" /\ asking'[c].answer = "ok" /\ asking'[c].view = v
        /\ asking'[c].do = asking[c].do /\ asking'[c].token = asking[c].token /\ asking'[c].later = asking[c].later
    BY <1>0, <2>3, <2>16, PageAnswer
  <2>5. \A d \in Call \ {c} : asking[d].at = "idle" /\ asking'[d].at = "idle"
    BY <1>0, <2>4 DEF PageInv, PageChanges, Working
  <2>6. B!TypeOK'
    BY <1>0, <2>2, <2>4, PageTypesThen
  <2>7. PageFamilies'
    <3>1. StillUsed(f)
      BY <2>2 DEF StillUsed
    <3>2. \A d \in Call : asking'[d].token.family \in KnownSignIns /\ (asking'[d].view.family \in KnownSignIns \/ StillUsed(asking'[d].view.family))
      BY <2>3, <2>4, <3>1 DEF KnownSignIns
    <3>3. cookie'.family \in KnownSignIns /\ page'.access.family \in KnownSignIns /\ page'.shown.family \in KnownSignIns
      BY <1>0 DEF KnownSignIns
    <3> QED
      BY <1>0, <2>2, <3>2, <3>3, PageFamiliesOn
  <2>8. PageChanges'
    BY <1>0, <2>4, PageChangesOn DEF Working
  <2>9. PageAnswers'
    <3>1. f \notin ended
      BY <1>0, <2>2 DEF PageFamilies
    <3>2. AnswersNow(c)
      BY <1>0, <2>3, <2>4, <3>1 DEF AnswersNow, Granted
    <3>3. \A d \in Call \ {c} : AnswersLess(d)
      BY <2>5 DEF AnswersLess, Granted
    <3>4. page'.shown.family \notin ended'
      BY <1>0 DEF PageInv, PageAnswers
    <3> QED
      BY <1>0, <2>2, <3>2, <3>3, <3>4, PageAnswersOn
  <2>10. \A d \in Call : ~ RenewsNow(d)' /\ ~ Exchanging(d)' /\ ~ Turned(d) /\ ~ Turned(d)' /\ ~ Switched(d)
    BY <1>0, <2>4, <2>5 DEF RenewsNow, Exchanging, Turned, Switched, Granted
  <2>11. PageRenewals'
    <3>1. RenewsLess(c)
      BY <2>2, <2>3, <2>4, <2>10 DEF RenewsLess
    <3>2. \A d \in Call \ {c} : RenewsLess(d)
      BY <2>5, <2>10 DEF RenewsLess, Granted
    <3> QED
      BY <1>0, <2>2, <2>10, <3>1, <3>2, PageRenewalsOn
  <2>12. \A d \in Call : ExchangesLess(d) /\ AwayLess(d)
    BY <1>0, <2>4, <2>5, <2>10 DEF ExchangesLess, AwayLess, Away, Granted
  <2>13. PageTokens'
    BY <1>0, <2>2, <2>12, PageTokensOn
  <2>14. PageStands'
    BY <1>0, <2>2, <2>12, PageStandsOn
  <2>15. PageActing'
    <3>1. asking'[c].view.acting = signin'[asking'[c].view.family].acting
      <4>1. signin'[f].acting = FALSE
        BY <2>2 DEF FamilyRows
      <4> QED
        BY <2>3, <2>4, <4>1
    <3>2. \A d \in Call \ {c} : ActingLess(d)
      BY <2>5 DEF ActingLess, Granted
    <3> QED
      BY <1>0, <2>2, <2>10, <3>1, <3>2, PageActingOn
  <2> QED
    BY <2>6, <2>7, <2>8, <2>9, <2>11, <2>13, <2>14, <2>15 DEF PageInv
<1> QED
  BY <1>1, <1>2 DEF B!ServeLogin

-----------------------------------------------------------------------------
(* What the page takes up.                                                 *)

\* The page shows what it asked for.
LEMMA PageShowsIt ==
  ASSUME PageInv, NEW c \in Call, Granted(c), Kept(c), asking[c].do \in {"session", "open", "close"},
         page' = B!Shows(asking[c].view), estranged' = ~ asking[c].later, asking' = B!Done({c}),
         UNCHANGED <<signin, replayed, cookie, ended, disturbed>>
  PROVE  PageInv'
<1>0. /\ signin \in [B!Families -> FamilyRows] /\ cookie \in B!TokenOf /\ page \in PageRows /\ asking \in [Call -> CallRows]
      /\ PageChanges /\ PageAnswers /\ PageActing /\ None \notin Call
  BY PageKnown, SigningAssumption DEF PageInv
<1>1. asking' \in [Call -> CallRows] /\ asking'[c] = B!Idle /\ \A d \in Call \ {c} : asking'[d] = asking[d]
  BY <1>0, PageDone
<1>2. asking[c].view \in B!View /\ asking[c].view.family \in B!Families /\ asking[c].later \in BOOLEAN
  BY <1>0 DEF CallRows, B!View
<1>3. /\ page' \in PageRows /\ page'.shown = asking[c].view /\ page'.access = page.access /\ page'.wanted = None
  BY <1>0, <1>2 DEF B!Shows, PageRows
<1>4. asking[c].view.family = asking[c].token.family /\ asking[c].view.family \notin ended
  BY <1>0 DEF PageAnswers
<1>5. Ages /\ B!TypeOK'
  BY <1>0, <1>1, <1>3, PageSameAges, PageTypesThen DEF SameFamilies
<1>6. \A d \in Call : Less(d) /\ (RenewsNow(d)' => RenewsNow(d))
  <2>1. ~ Turned(c)
    BY DEF Turned, Granted
  <2> QED
    BY <1>1, <2>1, PageOver, PageStill DEF RenewsNow, Exchanging
<1>7. PageFamilies'
  <2>1. \A d \in Call : asking'[d].token.family \in KnownSignIns /\ asking'[d].view.family \in KnownSignIns
    BY <1>1, PageIdle, PageNothing DEF KnownSignIns
  <2>2. cookie'.family \in KnownSignIns /\ page'.access.family \in KnownSignIns /\ page'.shown.family \in KnownSignIns
    BY <1>3 DEF KnownSignIns
  <2> QED
    BY <1>5, <2>1, <2>2, PageFamiliesOn
<1>8. PageChanges'
  <2>1. \A d \in Call : ~ (Working(d) /\ asking[d].do = "login")
    <3> SUFFICES ASSUME NEW d \in Call, Working(d), asking[d].do = "login" PROVE FALSE
      OBVIOUS
    <3>1. d # c /\ Working(c)
      BY DEF Working, Granted
    <3> QED
      BY <1>0, <3>1 DEF PageChanges
  <2> QED
    BY <1>6, <2>1, PageChangesOn DEF Less
<1>9. \A d \in Call : Kept(d)' /\ Working(d)' => Kept(d) /\ d # c /\ asking[d].do # "session"
  BY <1>0, <1>1, <1>3, PageIdle DEF Kept, Working
<1>10. PageAnswers'
  <2>1. AnswersLess(c)
    BY <1>1, PageIdle DEF AnswersLess, Granted
  <2>2. \A d \in Call \ {c} : AnswersLess(d)
    BY <1>1, <1>9 DEF AnswersLess, Granted, Working
  <2>3. page'.shown.family \notin ended'
    BY <1>3, <1>4
  <2> QED
    BY <1>5, <2>1, <2>2, <2>3, PageAnswersOn
<1>11. PageRenewals'
  <2>1. \A b, d \in Call : RenewsNow(b)' /\ RenewsNow(d)' => b = d
    BY <1>6 DEF PageInv, PageRenewals
  <2>2. \A f \in B!Families : Used(f) => signin'[f].newest = signin[f].newest
    OBVIOUS
  <2> QED
    BY <1>5, <1>6, <2>1, <2>2, PageRenewalsOn DEF Less
<1>12. \A d \in Call : ExchangesLess(d) /\ AwayLess(d)
  <2>1. \A d \in Call : ExchangesLess(d)
    BY <1>6 DEF Less
  <2>2. \A d \in Call \ {c} : AwayLess(d)
    BY <1>1, <1>9 DEF AwayLess, Away, Granted, Working
  <2>3. AwayLess(c)
    BY <1>1, PageIdle DEF AwayLess, Away, Granted
  <2> QED
    BY <2>1, <2>2, <2>3
<1>13. PageTokens'
  BY <1>3, <1>5, <1>12, PageTokensOn
<1>14. PageStands'
  <2>1. estranged' \/ (Kept(c) /\ Away(c) /\ asking[c].do # "login" /\ asking[c].later /\ page'.shown.family = asking[c].token.family)
    BY <1>2, <1>3, <1>4 DEF Away
  <2> QED
    BY <1>3, <1>5, <1>12, <2>1, PageStandsOn
<1>15. PageActing'
  <2>1. ASSUME NEW d \in Call, Kept(d)', Granted(d)', asking'[d].later, signin'[asking'[d].view.family].live
        PROVE  asking'[d].view.acting = signin'[asking'[d].view.family].acting
    <3>1. Kept(d) /\ d # c /\ asking[d].do # "session" /\ asking'[d] = asking[d]
      BY <1>1, <1>9, <2>1 DEF Granted, Working
    <3> QED
      BY <1>0, <2>1, <3>1 DEF PageActing, Granted
  <2>2. ASSUME ~ estranged', signin'[page'.shown.family].live, \A d \in Call : ~ Switched(d)'
        PROVE  page'.shown.acting = signin'[page'.shown.family].acting
    <3>1. asking[c].later /\ signin[asking[c].view.family].live
      BY <1>2, <1>3, <2>2
    <3>2. asking[c].do = "session" => \A d \in Call : ~ Switched(d)
      BY <1>1, <2>2 DEF Switched, Granted
    <3> QED
      BY <1>0, <1>3, <3>1, <3>2 DEF PageActing
  <2> QED
    BY <2>1, <2>2 DEF PageActing
<1> QED
  BY <1>5, <1>7, <1>8, <1>10, <1>11, <1>13, <1>14, <1>15 DEF PageInv

LEMMA PageTakeSession == ASSUME PageInv, NEW c \in Call, B!TakeSession(c) PROVE PageInv'
<1>1. CASE B!Wanted(c)
  <2>1. Granted(c) /\ Kept(c) /\ asking[c].do = "session"
    BY <1>1 DEF B!TakeSession, Granted, Kept, B!Wanted
  <2>2. /\ page' = B!Shows(asking[c].view) /\ estranged' = ~ asking[c].later /\ asking' = B!Done({c})
        /\ UNCHANGED <<signin, replayed, cookie, ended, disturbed>>
    BY <1>1 DEF B!TakeSession, B!Server, B!Around
  <2> QED
    BY <2>1, <2>2, PageShowsIt
<1> QED
  BY <1>1, PageTakeOldSession

LEMMA PageTakeAccount == ASSUME PageInv, NEW c \in Call, B!TakeAccount(c) PROVE PageInv'
<1>1. Granted(c) /\ Kept(c) /\ asking[c].do \in {"open", "close"}
  BY DEF B!TakeAccount, Granted, Kept
<1>2. /\ page' = B!Shows(asking[c].view) /\ estranged' = ~ asking[c].later /\ asking' = B!Done({c})
      /\ UNCHANGED <<signin, replayed, cookie, ended, disturbed>>
  BY DEF B!TakeAccount, B!Server, B!Around
<1> QED
  BY <1>1, <1>2, PageShowsIt

LEMMA PageTakeLogin == ASSUME PageInv, NEW c \in Call, B!TakeLogin(c) PROVE PageInv'
<1> DEFINE v == asking[c].view
           t == [family |-> v.family, number |-> 1]
<1>0. /\ signin \in [B!Families -> FamilyRows] /\ cookie \in B!TokenOf /\ page \in PageRows /\ asking \in [Call -> CallRows]
      /\ UNCHANGED <<signin, replayed, ended, disturbed>>
      /\ asking[c].at = "answered" /\ asking[c].answer = "ok" /\ asking[c].do = "login" /\ Granted(c) /\ Kept(c)
      /\ cookie' = t /\ page' = [B!Shows(v) EXCEPT !.access = t] /\ estranged' = ~ asking[c].later /\ asking' = B!Done({c})
      /\ PageChanges /\ PageAnswers /\ PageRenewals /\ PageActing
  BY PageKnown DEF B!TakeLogin, B!Server, B!Around, Granted, Kept, PageInv
<1>1. v \in B!View /\ v.family \in B!Families /\ asking[c].later \in BOOLEAN /\ v.family \notin ended
  BY <1>0 DEF CallRows, B!View, PageAnswers
<1>2. t \in B!TokenOf /\ t.family = v.family /\ t.number = 1
  <2>1. 1 \in 0..Renewals
    BY SigningAssumption
  <2> QED
    BY <1>1, <2>1 DEF B!TokenOf
<1> HIDE DEF t
<1>3. page' \in PageRows /\ page'.shown = v /\ page'.access = t
  BY <1>0, <1>1, <1>2 DEF B!Shows, PageRows
<1>4. asking' \in [Call -> CallRows] /\ asking'[c] = B!Idle /\ \A d \in Call \ {c} : asking'[d] = asking[d]
  BY <1>0, PageDone
<1>5. \A d \in Call : asking'[d].at = "idle"
  BY <1>0, <1>4, PageIdle DEF PageChanges, Working
<1>6. Ages /\ B!TypeOK'
  BY <1>0, <1>2, <1>3, <1>4, PageSameAges, PageTypesThen DEF SameFamilies
<1>7. PageFamilies'
  <2>1. \A d \in Call : asking'[d].token.family \in KnownSignIns /\ asking'[d].view.family \in KnownSignIns
    BY <1>4, PageIdle, PageNothing DEF KnownSignIns
  <2>2. cookie'.family \in KnownSignIns /\ page'.access.family \in KnownSignIns /\ page'.shown.family \in KnownSignIns
    BY <1>0, <1>2, <1>3 DEF KnownSignIns
  <2> QED
    BY <1>0, <1>6, <2>1, <2>2, PageFamiliesOn
<1>8. \A d \in Call : /\ ~ Working(d)' /\ ~ Changing(d)' /\ ~ Granted(d)' /\ ~ Switched(d)' /\ ~ Away(d)' /\ ~ RenewsNow(d)'
                      /\ ~ Exchanging(d)' /\ ~ Turned(d)' /\ asking'[d].at # "closing" /\ asking'[d].at # "refresh"
  BY <1>5 DEF Working, Changing, Granted, Switched, Away, RenewsNow, Exchanging, Turned
<1>9. PageChanges'
  BY <1>8 DEF PageChanges
<1>10. PageAnswers'
  <2>1. page'.shown.family \notin ended'
    <3>1. page'.shown = v /\ ended' = ended
      BY <1>0, <1>3
    <3> QED
      BY <1>1, <3>1
  <2> QED
    BY <1>8, <2>1 DEF PageAnswers
<1>11. PageRenewals'
  <2>1. ~ disturbed /\ signin[v.family].live => signin[v.family].newest = 1
    BY <1>0 DEF PageRenewals
  <2> QED
    BY <1>0, <1>2, <1>8, <2>1 DEF PageRenewals, B!RenewsOnce
<1>12. PageTokens'
  BY <1>0, <1>3, <1>8 DEF PageTokens
<1>13. PageStands'
  BY <1>0, <1>2, <1>3, <1>8 DEF PageStands, Stands
<1>14. PageActing'
  <2>1. ASSUME ~ estranged', signin[v.family].live PROVE v.acting = signin[v.family].acting
    BY <1>0, <1>1, <2>1 DEF PageActing
  <2> QED
    BY <1>0, <1>3, <1>8, <2>1 DEF PageActing
<1> QED
  BY <1>6, <1>7, <1>9, <1>10, <1>11, <1>12, <1>13, <1>14 DEF PageInv

LEMMA PageTakeLogout == ASSUME PageInv, NEW c \in Call, B!TakeLogout(c) PROVE PageInv'
<1> DEFINE f == asking[c].view.family
<1>0. /\ signin \in [B!Families -> FamilyRows] /\ cookie \in B!TokenOf /\ page \in PageRows /\ asking \in [Call -> CallRows]
      /\ UNCHANGED <<signin, replayed, disturbed, estranged>>
      /\ asking[c].at = "answered" /\ asking[c].answer = "ok" /\ asking[c].do = "logout" /\ Granted(c)
      /\ cookie' = B!NoToken /\ page' = B!SignedOut /\ ended' = ended \cup {f} /\ asking' = B!Done({c})
      /\ PageFamilies /\ PageChanges /\ PageAnswers /\ PageRenewals /\ None \notin Call
  BY PageKnown, SigningAssumption DEF B!TakeLogout, B!Server, Granted, PageInv
<1>1. f # 0 /\ ~ signin[f].live
  BY <1>0 DEF PageAnswers
<1>2. /\ page' \in PageRows /\ page'.shown = B!Nobody /\ page'.access = B!NoToken /\ page'.wanted = None
      /\ page'.shown.family = 0 /\ page'.access.family = 0 /\ cookie' \in B!TokenOf /\ cookie'.family = 0
      /\ ~ signin[0].live
  BY <1>0, PageSignedOut, PageNothing DEF PageFamilies
<1>3. asking' \in [Call -> CallRows] /\ asking'[c] = B!Idle /\ \A d \in Call \ {c} : asking'[d] = asking[d]
  BY <1>0, PageDone
<1>4. Ages /\ B!TypeOK'
  BY <1>0, <1>2, <1>3, PageSameAges, PageTypesThen DEF SameFamilies
<1>5. PageFamilies'
  <2>1. \A d \in Call : asking'[d].token.family \in KnownSignIns /\ asking'[d].view.family \in KnownSignIns
    BY <1>3, PageIdle, PageNothing DEF KnownSignIns
  <2>2. cookie'.family \in KnownSignIns /\ page'.access.family \in KnownSignIns /\ page'.shown.family \in KnownSignIns
    BY <1>2 DEF KnownSignIns
  <2>3. \A g \in ended' : g \in ended \/ (g \in KnownSignIns /\ g # 0 /\ ~ signin[g].live)
    BY <1>0, <1>1 DEF KnownSignIns
  <2> QED
    BY <1>4, <2>1, <2>2, <2>3, PageFamiliesOn
<1>6. \A d \in Call : Less(d) /\ (RenewsNow(d)' => RenewsNow(d))
  <2>1. ~ Turned(c)
    BY <1>0 DEF Turned
  <2> QED
    BY <1>0, <1>3, <2>1, PageOver, PageStill DEF RenewsNow, Exchanging
<1>7. PageChanges'
  BY <1>2, <1>6, PageChangesOn DEF Less
<1>8. \A d \in Call : Working(d)' => d # c /\ asking'[d] = asking[d] /\ ~ Kept(d)'
  <2>1. \A d \in Call \ {c} : Working(d) => asking[d].do \notin B!Change
    BY <1>0 DEF PageChanges, Changing, Working, B!Change
  <2>2. \A d \in Call : Working(d)' => d # c /\ asking'[d] = asking[d] /\ Working(d)
    BY <1>3, PageIdle DEF Working
  <2>3. \A d \in Call : page'.wanted # d
    BY <1>0, <1>2
  <2>4. ASSUME NEW d \in Call, Working(d)' PROVE ~ Kept(d)'
    <3>1. d # c /\ asking'[d] = asking[d] /\ asking[d].do \notin B!Change
      BY <2>1, <2>2, <2>4
    <3> QED
      BY <2>3, <3>1 DEF Kept, B!Change
  <2> QED
    BY <2>2, <2>4
<1>9. PageAnswers'
  <2>1. \A d \in Call : asking'[d].at = "closing" \/ Granted(d)' => Working(d)'
    BY DEF Granted, Working
  <2>2. \A d \in Call : Granted(d)' => Granted(d) /\ asking'[d] = asking[d] /\ asking[d].do # "login"
    BY <1>8, <2>1 DEF Granted, Kept
  <2>3. \A d \in Call : asking'[d].at = "closing" => asking[d].at = "closing" /\ asking'[d] = asking[d]
    BY <1>8, <2>1
  <2>4. page'.shown.family \notin ended'
    BY <1>0, <1>1, <1>2 DEF PageFamilies
  <2> QED
    BY <1>0, <1>8, <2>1, <2>2, <2>3, <2>4 DEF PageAnswers
<1>10. PageRenewals'
  <2>1. \A b, d \in Call : RenewsNow(b)' /\ RenewsNow(d)' => b = d
    BY <1>0, <1>6 DEF PageRenewals
  <2>2. \A g \in B!Families : Used(g) => signin'[g].newest = signin[g].newest
    BY <1>0
  <2>3. ~ signin'[cookie'.family].live
    BY <1>0, <1>2
  <2> QED
    BY <1>0, <1>4, <1>6, <2>1, <2>2, <2>3, PageRenewalsOn DEF Less
<1>11. PageTokens'
  BY <1>0, <1>2 DEF PageTokens
<1>12. PageStands' /\ PageActing'
  <2>1. \A d \in Call : ~ (Kept(d)' /\ Away(d)')
    BY <1>8 DEF Away, Granted, Working
  <2> QED
    BY <1>0, <1>2, <2>1 DEF PageStands, PageActing, Away
<1> QED
  BY <1>4, <1>5, <1>7, <1>9, <1>10, <1>11, <1>12 DEF PageInv

LEMMA PageTakeCsrf == ASSUME PageInv, NEW c \in Call, B!TakeCsrf(c) PROVE PageInv'
<1> DEFINE k == [asking[c] EXCEPT !.at = "refresh", !.token = cookie, !.answer = "none"]
<1>0. /\ signin \in [B!Families -> FamilyRows] /\ cookie \in B!TokenOf /\ page \in PageRows /\ asking \in [Call -> CallRows]
      /\ UNCHANGED <<signin, replayed, cookie, ended, disturbed, estranged>>
      /\ asking[c].at = "csrf answered" /\ page' = [page EXCEPT !.csrf = asking[c].csrf] /\ asking' = [asking EXCEPT ![c] = k]
      /\ PageRenewals
  BY PageKnown DEF B!TakeCsrf, B!Server, B!Around, PageInv
<1>1. page' \in PageRows /\ page'.shown = page.shown /\ page'.access = page.access /\ page'.wanted = page.wanted
  <2>1. asking[c].csrf \in B!Families
    BY <1>0 DEF CallRows
  <2> QED
    BY <1>0, <2>1 DEF PageRows
<1>2. k \in CallRows
  BY <1>0 DEF CallRows, B!Place
<1>3. k.at = "refresh" /\ k.token = cookie /\ k.do = asking[c].do /\ k.view = asking[c].view /\ k.later = asking[c].later
  BY <1>0 DEF CallRows
<1> HIDE DEF k
<1>4. asking' \in [Call -> CallRows] /\ asking'[c] = k /\ \A d \in Call \ {c} : asking'[d] = asking[d]
  BY <1>0, <1>2, PageRow
<1>5. Ages /\ B!TypeOK'
  BY <1>0, <1>1, <1>4, PageSameAges, PageTypesThen DEF SameFamilies
<1>6. PageFamilies'
  <2>1. \A d \in Call : asking'[d].token.family \in KnownSignIns /\ asking'[d].view.family \in KnownSignIns
    BY <1>3, <1>4 DEF KnownSignIns
  <2>2. cookie'.family \in KnownSignIns /\ page'.access.family \in KnownSignIns /\ page'.shown.family \in KnownSignIns
    BY <1>0, <1>1 DEF KnownSignIns
  <2> QED
    BY <1>0, <1>5, <2>1, <2>2, PageFamiliesOn
<1>7. PageChanges'
  BY <1>0, <1>1, <1>3, <1>4, PageChangesOn DEF Working
<1>8. \A d \in Call : Kept(d)' <=> Kept(d)
  BY <1>1, <1>3, <1>4 DEF Kept
<1>9. PageAnswers'
  <2>1. \A d \in Call : AnswersLess(d)
    BY <1>3, <1>4, <1>8 DEF AnswersLess, Granted
  <2>2. page'.shown.family \notin ended'
    <3>1. page'.shown = page.shown /\ ended' = ended /\ PageAnswers
      BY <1>0, <1>1 DEF PageInv
    <3> QED
      BY <3>1 DEF PageAnswers
  <2> QED
    BY <1>0, <1>5, <2>1, <2>2, PageAnswersOn
<1>10. \A d \in Call : RenewsNow(d)' => RenewsNow(d)
  BY <1>0, <1>4 DEF RenewsNow, Exchanging
<1>11. \A d \in Call \ {c} : ~ RenewsNow(d) /\ ~ RenewsNow(d)'
  <2>1. RenewsNow(c)
    BY <1>0 DEF RenewsNow
  <2> QED
    BY <1>0, <1>10, <2>1 DEF PageRenewals
<1>12. \A d \in Call : ~ Turned(d) /\ ~ Turned(d)' /\ (asking'[d].at = "refresh" => d = c)
  BY <1>0, <1>3, <1>4, <1>11 DEF RenewsNow, Exchanging, Turned
<1>13. PageRenewals'
  <2>1. \A b, d \in Call : RenewsNow(b)' /\ RenewsNow(d)' => b = d
    BY <1>11
  <2>2. ~ disturbed /\ signin[cookie.family].live => cookie.number = signin[cookie.family].newest
    BY <1>0, <1>12 DEF PageRenewals
  <2>3. \A d \in Call : Granted(d)' => Granted(d) /\ asking'[d] = asking[d]
    BY <1>3, <1>4 DEF Granted
  <2> QED
    BY <1>0, <1>3, <1>4, <1>12, <2>1, <2>2, <2>3 DEF PageRenewals, B!RenewsOnce
<1>14. \A d \in Call : (ExchangesLess(d) \/ asking'[d].token = cookie) /\ AwayLess(d)
  BY <1>3, <1>4, <1>8 DEF ExchangesLess, Exchanging, AwayLess, Away, Granted
<1>15. PageTokens'
  BY <1>0, <1>1, <1>5, <1>14, PageTokensOn
<1>16. PageStands'
  <2>1. estranged' \/ (~ estranged /\ page'.shown.family = page.shown.family)
    BY <1>0, <1>1
  <2> QED
    BY <1>0, <1>1, <1>5, <1>14, <2>1, PageStandsOn
<1>17. PageActing'
  <2>1. \A d \in Call : ActingLess(d) /\ (Switched(d) => Switched(d)')
    BY <1>0, <1>3, <1>4, <1>8 DEF ActingLess, Granted, Switched
  <2> QED
    BY <1>0, <1>1, <1>5, <2>1, PageActingOn
<1> QED
  BY <1>5, <1>6, <1>7, <1>9, <1>13, <1>15, <1>16, <1>17 DEF PageInv

LEMMA PageTakeRefresh == ASSUME PageInv, NEW c \in Call, B!TakeRefresh(c) PROVE PageInv'
<1> DEFINE t == asking[c].token
           who == {c} \cup B!Waiting
<1>0. /\ signin \in [B!Families -> FamilyRows] /\ cookie \in B!TokenOf /\ page \in PageRows /\ asking \in [Call -> CallRows]
      /\ UNCHANGED <<signin, replayed, ended, disturbed, estranged>>
      /\ asking[c].at = "refresh answered" /\ asking[c].answer = "ok"
      /\ cookie' = t /\ page' = [page EXCEPT !.access = t, !.csrf = t.family]
      /\ asking' = [d \in Call |-> IF d \in who THEN B!Sent([asking[d] EXCEPT !.answer = "none"], page') ELSE asking[d]]
  BY PageKnown DEF B!TakeRefresh, B!Server, B!Around
<1>20. Turned(c) /\ RenewsNow(c) /\ Exchanging(c) /\ PageRenewals /\ PageStands
  BY <1>0 DEF Turned, RenewsNow, Exchanging, PageInv
<1>1. t \in B!TokenOf /\ t.family \in B!Families
  BY <1>0 DEF CallRows, B!TokenOf
<1>2. page' \in PageRows /\ page'.shown = page.shown /\ page'.access = t /\ page'.wanted = page.wanted
  BY <1>0, <1>1 DEF PageRows
<1>3. \A d \in Call : d \in who => d = c \/ asking[d].at = "waiting"
  BY DEF B!Waiting
<1> HIDE DEF who
<1>4. /\ \A d \in Call : asking'[d] = (IF d \in who THEN B!Sent([asking[d] EXCEPT !.answer = "none"], page') ELSE asking[d])
      /\ asking' = [d \in Call |-> asking'[d]]
  BY <1>0
<1>5. ASSUME NEW d \in Call, d \in who
      PROVE  /\ asking'[d] \in CallRows /\ asking'[d].at = "sent" /\ asking'[d].do = asking[d].do /\ asking'[d].view = asking[d].view
             /\ asking'[d].later = asking[d].later /\ asking'[d].answer = "none"
             /\ asking'[d].token \in {cookie, t} /\ (asking[d].do # "login" => asking'[d].token = t)
  <2>1. asking[d] \in CallRows
    BY <1>0
  <2>2. PICK k : k = [asking[d] EXCEPT !.answer = "none"]
    OBVIOUS
  <2>7. k \in CallRows /\ k.do = asking[d].do /\ k.view = asking[d].view /\ k.later = asking[d].later /\ k.answer = "none"
    BY <2>1, <2>2 DEF CallRows
  <2>3. PICK p \in PageRows : p = page'
    BY <1>2
  <2>4. PICK l : l = asking'[d]
    OBVIOUS
  <2>5. l = [k EXCEPT !.at = "sent", !.token = IF k.do = "login" THEN cookie ELSE p.access, !.csrf = p.csrf]
    BY <1>4, <1>5, <2>2, <2>3, <2>4 DEF B!Sent
  <2>6. /\ l \in CallRows /\ l.at = "sent" /\ l.do = k.do /\ l.view = k.view /\ l.later = k.later /\ l.answer = k.answer
        /\ l.token \in {cookie, p.access} /\ (k.do # "login" => l.token = p.access)
    <3>1. PICK s \in {cookie, p.access} : s = (IF k.do = "login" THEN cookie ELSE p.access)
      OBVIOUS
    <3>2. s \in B!TokenOf /\ p.csrf \in B!Families
      BY <1>0, <3>1 DEF PageRows
    <3>3. l = [k EXCEPT !.at = "sent", !.token = s, !.csrf = p.csrf]
      BY <2>5, <3>1
    <3>4. l \in CallRows
      BY <2>7, <3>2, <3>3 DEF CallRows, B!Place
    <3>5. l.at = "sent" /\ l.do = k.do /\ l.view = k.view /\ l.later = k.later /\ l.answer = k.answer /\ l.token = s
      BY <2>7, <3>3 DEF CallRows
    <3> QED
      BY <3>1, <3>4, <3>5
  <2> QED
    BY <1>2, <2>3, <2>4, <2>6, <2>7
<1>6. \A d \in Call \ who : asking'[d] = asking[d]
  BY <1>4
<1>7. asking' \in [Call -> CallRows]
  <2>1. \A d \in Call : asking'[d] \in CallRows
    BY <1>0, <1>5, <1>6
  <2> QED
    BY <1>4, <2>1
<1>8. Ages /\ B!TypeOK'
  BY <1>0, <1>1, <1>2, <1>7, PageSameAges, PageTypesThen DEF SameFamilies
<1>9. c \in who
  BY DEF who
<1>10. PageFamilies'
  <2>1. \A d \in Call : asking'[d].token.family \in KnownSignIns /\ asking'[d].view.family \in KnownSignIns
    BY <1>5, <1>6 DEF KnownSignIns
  <2>2. cookie'.family \in KnownSignIns /\ page'.access.family \in KnownSignIns /\ page'.shown.family \in KnownSignIns
    BY <1>0, <1>2 DEF KnownSignIns
  <2> QED
    BY <1>0, <1>8, <2>1, <2>2, PageFamiliesOn
<1>11. \A d \in Call : (Kept(d)' <=> Kept(d)) /\ asking'[d].do = asking[d].do
  BY <1>2, <1>5, <1>6 DEF Kept
<1>12. PageChanges'
  <2>1. \A d \in Call : Working(d)' => Working(d)
    BY <1>0, <1>3, <1>6 DEF Working
  <2> QED
    BY <1>2, <1>11, <2>1, PageChangesOn
<1>13. \A d \in Call : Granted(d)' => Granted(d) /\ asking'[d] = asking[d]
  BY <1>5, <1>6 DEF Granted
<1>14. PageAnswers'
  <2>1. \A d \in Call : asking'[d].at = "closing" => asking'[d] = asking[d]
    BY <1>5, <1>6
  <2>2. \A d \in Call : AnswersLess(d)
    BY <1>11, <1>13, <2>1 DEF AnswersLess
  <2>3. page'.shown.family \notin ended'
    <3>1. page'.shown = page.shown /\ ended' = ended /\ PageAnswers
      BY <1>0, <1>2 DEF PageInv
    <3> QED
      BY <3>1 DEF PageAnswers
  <2> QED
    BY <1>0, <1>8, <2>2, <2>3, PageAnswersOn
<1>15. \A d \in Call : ~ RenewsNow(d)' /\ ~ Exchanging(d)' /\ ~ Turned(d)' /\ asking'[d].at # "refresh"
  <2>1. \A d \in Call \ {c} : ~ RenewsNow(d)
    BY <1>20 DEF PageRenewals
  <2> QED
    BY <1>5, <1>6, <1>9, <2>1 DEF RenewsNow, Exchanging, Turned
<1>16. PageRenewals'
  <2>1. ~ disturbed /\ signin[t.family].live => t.number = signin[t.family].newest
    BY <1>20 DEF PageRenewals
  <2>2. ~ disturbed' /\ signin'[cookie'.family].live => cookie'.number = signin'[cookie'.family].newest
    BY <1>0, <2>1
  <2>3. ASSUME ~ disturbed', NEW d \in Call, Granted(d)', asking'[d].do = "login", signin'[asking'[d].view.family].live
        PROVE  signin'[asking'[d].view.family].newest = 1
    <3>1. Granted(d) /\ asking'[d] = asking[d] /\ ~ disturbed /\ signin' = signin
      BY <1>0, <1>13, <2>3
    <3> QED
      BY <1>20, <2>3, <3>1 DEF PageRenewals
  <2>4. B!RenewsOnce'
    BY <1>0, <1>20 DEF PageRenewals, B!RenewsOnce
  <2> QED
    BY <1>15, <2>2, <2>3, <2>4 DEF PageRenewals
<1>17. PageTokens'
  BY <1>0, <1>2, <1>15 DEF PageTokens
<1>18. PageStands'
  <2>1. \A f \in B!Families : Stands(f) => StillStands(f)
    BY <1>0, <1>2, <1>15, <1>20 DEF Stands, StillStands
  <2>2. StillStands(t.family)
    BY <1>0, <1>2, <1>15 DEF StillStands
  <2>3. ASSUME NEW d \in Call, Kept(d)', Away(d)', asking'[d].do # "login", asking'[d].later, signin'[asking'[d].token.family].live
        PROVE  StillStands(asking'[d].token.family)
    <3>1. CASE d \in who
      BY <1>5, <1>11, <2>2, <2>3, <3>1
    <3>2. CASE d \notin who
      <4>1. asking'[d] = asking[d] /\ Kept(d) /\ Away(d)
        BY <1>6, <1>11, <2>3, <3>2 DEF Away, Granted
      <4>2. asking[d].token.family \in B!Families
        BY <1>0 DEF CallRows, B!TokenOf
      <4> QED
        BY <1>0, <1>20, <2>1, <2>3, <4>1, <4>2 DEF PageStands
    <3> QED
      BY <3>1, <3>2
  <2>4. ASSUME ~ estranged', signin'[page'.shown.family].live PROVE StillStands(page'.shown.family)
    <3>1. page.shown.family \in B!Families /\ ~ estranged /\ signin[page.shown.family].live
      BY <1>0, <1>2, <2>4 DEF PageRows, B!View
    <3> QED
      BY <1>2, <1>20, <2>1, <3>1 DEF PageStands
  <2> QED
    BY <2>3, <2>4 DEF PageStands, Stands, StillStands
<1>19. PageActing'
  <2>1. \A d \in Call : ActingLess(d)
    BY <1>11, <1>13 DEF ActingLess
  <2>2. \A d \in Call : Switched(d) => Switched(d)'
    BY <1>0, <1>3, <1>6 DEF Switched, Granted
  <2> QED
    BY <1>0, <1>2, <1>8, <2>1, <2>2, PageActingOn
<1> QED
  BY <1>8, <1>10, <1>12, <1>14, <1>16, <1>17, <1>18, <1>19 DEF PageInv

\* What another tab does to the sign-in of the cookie.
LEMMA PageBehind ==
  ASSUME PageInv, B!Estrange(asking), UNCHANGED <<replayed, page, ended>>, signin' \in [B!Families -> FamilyRows], Ages,
         cookie' \in B!TokenOf, cookie'.family \in KnownSignIns \/ StillUsed(cookie'.family),
         cookie'.family = cookie.family \/ ~ signin'[cookie.family].live,
         disturbed => disturbed',
         \/ disturbed'
         \/ /\ \A f \in B!Families : Used(f) => signin'[f].newest = signin[f].newest
            /\ cookie' = cookie \/ (signin'[cookie'.family].live => cookie'.number = signin'[cookie'.family].newest)
  PROVE  PageInv'
<1>0. page \in PageRows /\ asking \in [Call -> CallRows] /\ PageRenewals /\ PageTokens
  BY PageKnown DEF PageInv
<1>1. /\ asking' \in [Call -> CallRows] /\ estranged'
      /\ \A d \in Call : /\ ~ asking'[d].later /\ asking'[d].at = asking[d].at /\ asking'[d].do = asking[d].do
                         /\ asking'[d].token = asking[d].token /\ asking'[d].view = asking[d].view
                         /\ asking'[d].answer = asking[d].answer
  BY <1>0, PageEstrange
<1>2. B!TypeOK'
  BY <1>0, <1>1, PageTypesThen
<1>3. PageFamilies'
  <2>1. \A d \in Call : asking'[d].token.family \in KnownSignIns /\ asking'[d].view.family \in KnownSignIns
    BY <1>1 DEF KnownSignIns
  <2>2. page'.access.family \in KnownSignIns /\ page'.shown.family \in KnownSignIns
    BY DEF KnownSignIns
  <2> QED
    BY <2>1, <2>2, PageFamiliesOn
<1>4. PageChanges'
  BY <1>1, PageChangesOn DEF Working
<1>5. PageAnswers'
  <2>1. \A d \in Call : AnswersLess(d)
    BY <1>1 DEF AnswersLess, Granted, Kept
  <2>2. page'.shown.family \notin ended'
    BY DEF PageInv, PageAnswers
  <2> QED
    BY <2>1, <2>2, PageAnswersOn
<1>6. PageRenewals'
  <2>1. \A b, d \in Call : RenewsNow(b)' /\ RenewsNow(d)' => b = d
    BY <1>0, <1>1 DEF PageRenewals, RenewsNow, Exchanging
  <2>2. CASE disturbed'
    BY <2>1, <2>2 DEF PageRenewals, B!RenewsOnce
  <2>3. CASE /\ \A f \in B!Families : Used(f) => signin'[f].newest = signin[f].newest
             /\ cookie' = cookie \/ (signin'[cookie'.family].live => cookie'.number = signin'[cookie'.family].newest)
    <3>1. \A d \in Call : RenewsLess(d)
      BY <1>1 DEF RenewsLess, Turned, Granted
    <3>2. \/ cookie' = cookie
          \/ signin'[cookie'.family].live => cookie'.number = signin'[cookie'.family].newest
      BY <2>3
    <3> QED
      BY <2>1, <2>3, <3>1, <3>2, PageRenewalsOn
  <2> QED
    BY <2>2, <2>3
<1>7. PageTokens'
  <2> SUFFICES ASSUME signin'[page.access.family].live
               PROVE  /\ page.access.family = cookie'.family
                      /\ \A d \in Call : Exchanging(d)' => asking'[d].token.family = page.access.family
    BY DEF PageTokens
  <2>1. signin[page.access.family].live
    BY PageHeld DEF Ages, KnownSignIns
  <2>2. page.access.family = cookie.family /\ \A d \in Call : Exchanging(d) => asking[d].token.family = page.access.family
    BY <1>0, <2>1 DEF PageTokens
  <2>3. cookie'.family = cookie.family
    BY <2>2
  <2> QED
    BY <1>1, <2>2, <2>3 DEF Exchanging
<1>8. PageStands' /\ PageActing'
  BY <1>1, PageEstranged
<1> QED
  BY <1>2, <1>3, <1>4, <1>5, <1>6, <1>7, <1>8 DEF PageInv

\* The sign-in of the cookie, and what is known of it when it is changed.
LEMMA PageBehindRow ==
  ASSUME PageInv, NEW f \in B!Families, NEW row \in FamilyRows, signin' = [signin EXCEPT ![f] = row],
         row.live => signin[f].live, f # 0, signin[f].newest # 0 => row.newest # 0
  PROVE  /\ signin' \in [B!Families -> FamilyRows] /\ Ages /\ signin'[f] = row
         /\ (row.newest = signin[f].newest => \A g \in B!Families : signin'[g].newest = signin[g].newest)
<1>0. signin \in [B!Families -> FamilyRows] /\ PageFamilies
  BY PageKnown DEF PageInv
<1>1. /\ signin' \in [B!Families -> FamilyRows] /\ signin'[f] = row /\ \A g \in B!Families \ {f} : signin'[g] = signin[g]
  BY <1>0
<1>2. Ages
  <2>1. ~ signin'[0].live /\ signin'[0].newest = 0
    BY <1>0, <1>1, PageNothing DEF PageFamilies
  <2>2. ASSUME NEW g \in B!Families PROVE /\ (signin'[g].live => signin[g].live) /\ (signin[g].newest # 0 => signin'[g].newest # 0)
    BY <1>1
  <2> QED
    BY <1>0, <2>1, <2>2 DEF PageFamilies, Ages, Used, StillUsed
<1> QED
  BY <1>1, <1>2

LEMMA PageOtherTab == ASSUME PageInv, B!OtherTab PROVE PageInv'
<1> DEFINE f == cookie.family
<1>0. /\ signin \in [B!Families -> FamilyRows] /\ cookie \in B!TokenOf /\ f \in B!Families /\ signin[f] \in FamilyRows
      /\ B!Estrange(asking) /\ UNCHANGED <<replayed, page, ended>> /\ PageFamilies /\ f \in KnownSignIns /\ 0 \in KnownSignIns
      /\ cookie.number \in 0..Renewals
  BY PageKnown DEF B!OtherTab, B!TokenOf, PageInv, KnownSignIns
<1>1. CASE B!Newest(cookie) /\ signin' = [signin EXCEPT ![f].acting = ~ @] /\ UNCHANGED <<cookie, disturbed>>
  <2>1. f # 0
    BY <1>0, <1>1 DEF B!Newest, PageFamilies
  <2>2. PICK on \in BOOLEAN : on = ~ signin[f].acting
    OBVIOUS
  <2>3. PICK row : row = [signin[f] EXCEPT !.acting = on]
    OBVIOUS
  <2>4. row \in FamilyRows /\ row.live = signin[f].live /\ row.newest = signin[f].newest
    BY <1>0, <2>3 DEF FamilyRows
  <2>5. signin' = [signin EXCEPT ![f] = row]
    BY <1>1, <2>2, <2>3
  <2>6. signin' \in [B!Families -> FamilyRows] /\ Ages /\ \A g \in B!Families : signin'[g].newest = signin[g].newest
    BY <1>0, <2>1, <2>4, <2>5, PageBehindRow
  <2> QED
    BY <1>0, <1>1, <2>6, PageBehind
<1>2. CASE B!Newest(cookie) /\ signin' = [signin EXCEPT ![f].live = FALSE] /\ cookie' = B!NoToken /\ UNCHANGED disturbed
  <2>1. f # 0
    BY <1>0, <1>2 DEF B!Newest, PageFamilies
  <2>2. PICK row : row = [signin[f] EXCEPT !.live = FALSE]
    OBVIOUS
  <2>3. row \in FamilyRows /\ ~ row.live /\ row.newest = signin[f].newest
    BY <1>0, <2>2 DEF FamilyRows
  <2>4. signin' = [signin EXCEPT ![f] = row]
    BY <1>2, <2>2
  <2>5. /\ signin' \in [B!Families -> FamilyRows] /\ Ages /\ \A g \in B!Families : signin'[g].newest = signin[g].newest
        /\ ~ signin'[f].live
    BY <1>0, <2>1, <2>3, <2>4, PageBehindRow
  <2>6. cookie' \in B!TokenOf /\ cookie'.family \in KnownSignIns /\ ~ signin'[cookie'.family].live
    BY <1>0, <1>2, <2>5, PageNothing DEF Ages
  <2> QED
    BY <1>0, <1>2, <2>5, <2>6, PageBehind
<1>3. ASSUME NEW g \in B!Unused, signin' = B!SignedIn(f, g), cookie' = [family |-> g, number |-> 1], UNCHANGED disturbed
      PROVE  PageInv'
  <2>1. /\ signin' \in [B!Families -> FamilyRows] /\ Ages /\ g \in B!Families /\ signin'[g].newest = 1 /\ ~ signin'[f].live
        /\ \A h \in B!Families : Used(h) => signin'[h].newest = signin[h].newest
    BY <1>0, <1>3, PageSignedIn DEF PageFamilies
  <2>2. cookie' \in B!TokenOf /\ cookie'.family = g /\ cookie'.number = 1 /\ StillUsed(g)
    <3>1. 1 \in 0..Renewals
      BY SigningAssumption
    <3> QED
      BY <1>3, <2>1, <3>1 DEF B!TokenOf, StillUsed
  <2> QED
    BY <1>0, <1>3, <2>1, <2>2, PageBehind
<1>4. CASE /\ B!Newest(cookie) /\ cookie.number < Renewals /\ signin' = [signin EXCEPT ![f].newest = @ + 1]
           /\ cookie' = [cookie EXCEPT !.number = @ + 1] /\ disturbed' = TRUE
  <2>1. f # 0 /\ signin[f].newest = cookie.number
    BY <1>0, <1>4 DEF B!Newest, PageFamilies
  <2>2. cookie.number + 1 \in 0..Renewals /\ cookie.number + 1 # 0
    BY <1>0, <1>4, SigningAssumption
  <2>3. PICK n : n = cookie.number + 1
    OBVIOUS
  <2>4. PICK row : row = [signin[f] EXCEPT !.newest = n]
    OBVIOUS
  <2>5. row \in FamilyRows /\ row.live = signin[f].live /\ row.newest # 0
    BY <1>0, <2>2, <2>3, <2>4 DEF FamilyRows
  <2>6. signin' = [signin EXCEPT ![f] = row]
    BY <1>4, <2>1, <2>3, <2>4
  <2>7. signin' \in [B!Families -> FamilyRows] /\ Ages
    BY <1>0, <2>1, <2>5, <2>6, PageBehindRow
  <2>8. cookie' \in B!TokenOf /\ cookie'.family = f
    <3>1. cookie' = [cookie EXCEPT !.number = n] /\ n \in 0..Renewals
      BY <1>4, <2>2, <2>3
    <3> QED
      BY <1>0, <3>1 DEF B!TokenOf
  <2> QED
    BY <1>0, <1>4, <2>7, <2>8, PageBehind
<1> QED
  BY <1>1, <1>2, <1>3, <1>4 DEF B!OtherTab

-----------------------------------------------------------------------------
LEMMA PageNext ==
  ASSUME ~ Overlapping, PageInv, [B!Next]_B!vars
  PROVE  PageInv'
<1>1. CASE UNCHANGED B!vars
  <2>1. /\ B!TypeOK' /\ SameFamilies
        /\ \A d \in Call : Less(d) /\ (RenewsNow(d)' => RenewsNow(d)) /\ (Switched(d) => Switched(d)')
    BY <1>1, PageStill DEF B!vars, PageInv, B!TypeOK, SameFamilies, RenewsNow, Exchanging, Switched, Granted
  <2>2. \A b, d \in Call : RenewsNow(b)' /\ RenewsNow(d)' => b = d
    BY <2>1 DEF PageInv, PageRenewals
  <2> QED
    BY <1>1, <2>1, <2>2, PageFades DEF B!vars
<1>2. ASSUME NEW c \in Call, NEW do \in B!Change \cup {"session", "read"}, B!Begin(c, do) PROVE PageInv'
  BY <1>2, PageBegin
<1>3. ASSUME NEW c \in Call,
             B!Refused(c) \/ B!ServeRead(c) \/ B!CloseAccount(c) \/ B!ServeChange(c) \/ B!ServeLogin(c) \/ B!ServeCsrf(c) \/ B!ServeRefresh(c)
      PROVE  PageInv'
  BY <1>3, PageRefused, PageServeRead, PageCloseAccount, PageServeChange, PageServeLogin, PageServeCsrf, PageServeRefresh
<1>4. ASSUME NEW c \in Call,
             \/ B!TakeSession(c) \/ B!TakeAccount(c) \/ B!TakeLogin(c) \/ B!TakeLogout(c) \/ B!TakeRead(c) \/ B!TakeRefusal(c)
             \/ B!TakeCsrf(c) \/ B!TakeRefresh(c) \/ B!TakeNoRenewal(c) \/ B!Lose(c)
      PROVE  PageInv'
  BY <1>4, PageTakeSession, PageTakeAccount, PageTakeLogin, PageTakeLogout, PageTakeRead, PageTakeRefusal,
     PageTakeCsrf, PageTakeRefresh, PageTakeNoRenewal, PageLose
<1>5. CASE B!Reload \/ B!OtherTab \/ B!Restrict \/ B!Lapse
  BY <1>5, PageReload, PageOtherTab, PageRestrict, PageLapse
<1> QED
  BY <1>1, <1>2, <1>3, <1>4, <1>5 DEF B!Next

LEMMA PageHolds == PageInv => B!TypeOK /\ B!SignedOutStays /\ B!ShowsWhereItActs /\ B!RenewsOnce
<1> SUFFICES ASSUME PageInv PROVE B!TypeOK /\ B!SignedOutStays /\ B!ShowsWhereItActs /\ B!RenewsOnce
  OBVIOUS
<1>1. B!TypeOK /\ B!SignedOutStays /\ B!RenewsOnce
  BY DEF PageInv, PageAnswers, B!SignedOutStays, PageRenewals
<1>2. ASSUME B!Quiet, ~ estranged, signin[page.shown.family].live
      PROVE  page.shown.acting = signin[page.shown.family].acting /\ page.access.family \in {0, page.shown.family}
  <2>1. \A d \in Call : ~ Switched(d)
    BY <1>2 DEF B!Quiet, Switched, Granted
  <2> QED
    BY <1>2, <2>1 DEF PageInv, PageActing, PageStands, Stands
<1> QED
  BY <1>1, <1>2 DEF B!ShowsWhereItActs

\* Where the page waits for a change of its account before it starts the next, it
\* never shows a sign-in that it has ended, shows the account that its requests
\* act on, and does not end its sign-in by renewing.
THEOREM PageIsTrue ==
  ASSUME ~ Overlapping
  PROVE  B!Spec => [](B!SignedOutStays /\ B!ShowsWhereItActs /\ B!RenewsOnce)
<1>1. B!Init => PageInv
  BY PageStart
<1>2. PageInv /\ [B!Next]_B!vars => PageInv'
  BY PageNext
<1>3. PageInv => B!SignedOutStays /\ B!ShowsWhereItActs /\ B!RenewsOnce
  BY PageHolds
<1> QED
  BY <1>1, <1>2, <1>3, PTL DEF B!Spec

\* The same of the behaviours of MCSessions, in which one of the parts steps.
THEOREM PagesAreSound ==
  ASSUME ~ Overlapping
  PROVE  MCSpec => []PageSound
<1> DEFINE inv == /\ part = "page" => PageInv
                  /\ part = "data" => DataInv
                  /\ part = "scans" => ScanInv
<1>1. MCInit => inv
  BY PageStart, DataStart, ScanBegins DEF MCInit
<1>2. inv /\ [MCNext]_<<part, vars, Page, Reading, Scanning>> => inv'
  <2>1. ASSUME inv, MCNext, part = "page" PROVE PageInv'
    BY <2>1, PageNext DEF MCNext
  <2>2. ASSUME inv, MCNext, part = "data" PROVE DataInv'
    BY <2>2, DataNext DEF MCNext
  <2>3. ASSUME inv, MCNext, part = "scans" PROVE ScanInv'
    BY <2>3, ScanNext DEF MCNext
  <2>4. ASSUME inv, MCNext PROVE inv'
    BY <2>1, <2>2, <2>3, <2>4 DEF MCNext
  <2>5. ASSUME inv, UNCHANGED <<part, vars, Page, Reading, Scanning>> PROVE inv'
    BY <2>5, PageNext, DataNext, ScanNext DEF Page, Reading, Scanning, B!vars, D!vars, C!vars
  <2> QED
    BY <2>4, <2>5
<1>3. inv => PageSound
  BY PageHolds, DataHolds, ScanHolds DEF PageSound
<1> QED
  BY <1>1, <1>2, <1>3, PTL DEF MCSpec
=============================================================================
