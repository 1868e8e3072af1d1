----------------------------- MODULE BrowserPage -----------------------------
(***************************************************************************)
(* One page of the site and the sign-in behind it: the calls of a page     *)
(* overlap and share one renewal (frontend/src/lib/api.ts), reads of the   *)
(* session overtake sign-ins, sign-outs and the accounts that staff open   *)
(* (AuthContext.tsx), and the account stays open on the server             *)
(* (accountMode.ts).  The cookie belongs to every tab.                     *)
(*                                                                         *)
(* A token is the family it belongs to and its number in it; the access    *)
(* token and the refresh token that are issued together have one number.   *)
(***************************************************************************)
EXTENDS Naturals, FiniteSets

CONSTANTS
  Call,         \* calls of api() that may overlap
  MaxFamily,    \* bound on sign-ins
  MaxToken,     \* bound on renewals of one
  MaxTrouble,   \* bound on lost messages, reloads, and what another tab or staff elsewhere do
  Overlapping,  \* whether the page changes its account, or signs in, while it has not done with the last change
  None

VARIABLES
  family,      \* app_refresh_family, its newest token and the tokens whose time is over
  restricted,  \* the member whose account is opened is suspended or restricted
  cookie,      \* the refresh token the browser keeps
  page,        \* accessToken, csrfToken, user with actor, and the read refresh() waits for
  call,
  \* History:
  ended,       \* the sign-ins this page has signed out of
  estranged,   \* the account changed behind the page after it asked for what it shows
  replayed,    \* a refresh token was used twice
  disturbed,   \* an answer to a renewal was lost, or another tab renewed
  trouble

vars == <<family, restricted, cookie, page, call, ended, estranged, replayed, disturbed, trouble>>
Server == <<family, restricted, replayed>>
Around == <<ended, disturbed, trouble>>

Families == 0..MaxFamily
TokenOf == [family : Families, number : 0..MaxToken]
NoToken == [family |-> 0, number |-> 0]
View == [family : Families, acting : BOOLEAN]
Nobody == [family |-> 0, acting |-> FALSE]

Change == {"login", "logout", "open", "close"}
\* A call that renews goes through the last four of these; others wait for it.
Place == {"idle", "waiting", "sent", "closing", "answered", "csrf", "csrf answered", "refresh", "refresh answered"}
Idle == [at |-> "idle", do |-> "read", token |-> NoToken, csrf |-> 0, again |-> FALSE, later |-> FALSE,
         answer |-> "none", view |-> Nobody]

TypeOK ==
  /\ family \in [Families -> [live : BOOLEAN, acting : BOOLEAN, newest : 0..MaxToken, lapsed : 0..MaxToken]]
  /\ cookie \in TokenOf
  /\ page \in [access : TokenOf, csrf : Families, shown : View, wanted : Call \cup {None}]
  /\ call \in [Call -> [at : Place, do : Change \cup {"session", "read"}, token : TokenOf, csrf : Families,
                        again : BOOLEAN, later : BOOLEAN, answer : {"none", "ok", "401", "no"}, view : View]]

Valid(t) == family[t.family].live /\ t.number > family[t.family].lapsed
Newest(t) == family[t.family].live /\ t.number = family[t.family].newest

-----------------------------------------------------------------------------
(* api(): a call is sent with what the page holds, or a renewal goes first. *)

Renewing == \E d \in Call : call[d].at \in {"csrf", "csrf answered", "refresh", "refresh answered"}

\* A slip: every call renews for itself.
ForItself == FALSE

SharesRenewal == Renewing

Sent(k, p) == [k EXCEPT !.at = "sent", !.token = IF k.do = "login" THEN cookie ELSE p.access, !.csrf = p.csrf]
Renews(k) == IF SharesRenewal THEN [k EXCEPT !.at = "waiting"] ELSE [k EXCEPT !.at = "csrf", !.token = cookie]

Underway(what) == \E d \in Call : call[d].at # "idle" /\ call[d].do \in what
Free == Overlapping \/ ~ Underway(Change)

\* The sign-in form waits for the read of the session, which starts on other pages.
Offered(do) ==
  CASE do = "session" -> ~ Underway({"login"})
    [] do = "login" -> page.shown = Nobody /\ page.wanted = None /\ (Overlapping \/ \A d \in Call : call[d].at = "idle")
    [] do = "read" -> page.shown # Nobody
    [] do = "close" -> page.shown.acting /\ Free
    [] OTHER -> page.shown # Nobody /\ Free

\* A read of the session outdates the reads before it, and so does a sign-out.
Begin(c, do) ==
  /\ call[c].at = "idle" /\ Offered(do)
  /\ LET k == [Idle EXCEPT !.do = do, !.later = TRUE]
     IN call' = [call EXCEPT ![c] = IF page.access = NoToken /\ do # "login" THEN Renews(k) ELSE Sent(k, page)]
  /\ page' = [page EXCEPT !.wanted = CASE do = "session" -> c [] do = "logout" -> None [] OTHER -> @]
  /\ UNCHANGED <<Server, cookie, Around, estranged>>

-----------------------------------------------------------------------------
(* The server.                                                             *)

Answer(c, answer, view) == [call EXCEPT ![c].at = "answered", ![c].answer = answer, ![c].view = view]

\* What was read or asked before the account changed behind the page says nothing.
Estrange(calls) ==
  /\ call' = [d \in Call |-> [calls[d] EXCEPT !.later = FALSE]]
  /\ estranged' = TRUE

Refused(c) ==
  /\ call[c].at = "sent"
  /\ call[c].do # "login" /\ ~ Valid(call[c].token)
  /\ call' = Answer(c, "401", Nobody)
  /\ UNCHANGED <<Server, cookie, page, Around, estranged>>

\* requireUser reads which account is open, and closes one that may not be open
\* any more in a statement of its own; the request goes on for who is signed in.
ServeRead(c) ==
  LET f == call[c].token.family
  IN /\ call[c].at = "sent" /\ call[c].do \in {"session", "read"} /\ Valid(call[c].token)
     /\ call' = IF family[f].acting /\ restricted THEN [call EXCEPT ![c].at = "closing"]
                ELSE Answer(c, "ok", [family |-> f, acting |-> family[f].acting])
     /\ UNCHANGED <<Server, cookie, page, Around, estranged>>

CloseAccount(c) ==
  LET f == call[c].token.family
  IN /\ call[c].at = "closing"
     /\ family' = [family EXCEPT ![f].acting = FALSE]
     /\ Estrange(Answer(c, "ok", [family |-> f, acting |-> FALSE]))
     /\ UNCHANGED <<restricted, replayed, cookie, page, Around>>

ServeChange(c) ==
  LET k == call[c]
      f == k.token.family
      granted == k.csrf = f /\ ~ (k.do = "open" /\ restricted)
  IN /\ k.at = "sent" /\ k.do \in {"logout", "open", "close"} /\ Valid(k.token)
     /\ family' = IF ~ granted THEN family
                  ELSE IF k.do = "logout" THEN [family EXCEPT ![f].live = FALSE]
                  ELSE [family EXCEPT ![f].acting = (k.do = "open")]
     /\ call' = Answer(c, IF granted THEN "ok" ELSE "no", [family |-> f, acting |-> k.do = "open"])
     /\ UNCHANGED <<restricted, replayed, cookie, page, Around, estranged>>

\* The sign-in of the cookie ends where a new one starts.
SignedIn(old, new) ==
  [family EXCEPT ![old].live = FALSE, ![new] = [live |-> TRUE, acting |-> FALSE, newest |-> 1, lapsed |-> 0]]
Unused == {f \in Families \ {0} : family[f].newest = 0}

ServeLogin(c) ==
  /\ call[c].at = "sent" /\ call[c].do = "login"
  /\ \/ \E f \in Unused :
          /\ \A g \in Unused : f <= g
          /\ family' = SignedIn(call[c].token.family, f)
          /\ call' = Answer(c, "ok", [family |-> f, acting |-> FALSE])
     \/ call' = Answer(c, "no", Nobody) /\ UNCHANGED family
  /\ UNCHANGED <<restricted, replayed, cookie, page, Around, estranged>>

ServeCsrf(c) ==
  /\ call[c].at = "csrf"
  /\ call' = [call EXCEPT ![c].at = "csrf answered", ![c].csrf = call[c].token.family,
                          ![c].answer = IF Newest(call[c].token) THEN "ok" ELSE "401"]
  /\ UNCHANGED <<Server, cookie, page, Around, estranged>>

\* A token that was used before ends the sign-in.
ServeRefresh(c) ==
  LET k == call[c]
      f == k.token.family
      known == family[f].live /\ k.csrf = f
      rotates == known /\ k.token.number = family[f].newest
      next == family[f].newest + 1
  IN /\ k.at = "refresh" /\ (rotates => next <= MaxToken)
     /\ family' = IF rotates THEN [family EXCEPT ![f].newest = next]
                  ELSE [family EXCEPT ![f].live = family[f].live /\ ~ known]
     /\ replayed' = (replayed \/ (known /\ ~ rotates))
     /\ call' = [call EXCEPT ![c].at = "refresh answered", ![c].answer = IF rotates THEN "ok" ELSE "401",
                             ![c].token.number = IF rotates THEN next ELSE @]
     /\ UNCHANGED <<restricted, cookie, page, Around, estranged>>

-----------------------------------------------------------------------------
(* The page takes an answer up.                                            *)

Waiting == {d \in Call : call[d].at = "waiting"}
Done(who) == [d \in Call |-> IF d \in who THEN Idle ELSE call[d]]
Without(who) == [page EXCEPT !.wanted = IF @ \in who THEN None ELSE @]
SignedOut == [access |-> NoToken, csrf |-> 0, shown |-> Nobody, wanted |-> None]
Shows(view) == [page EXCEPT !.shown = view, !.csrf = view.family, !.wanted = None]

\* A slip: a read is taken up whatever has happened since it was sent.
AnyRead(c) == TRUE

Wanted(c) == page.wanted = c

\* refresh(): only the latest read counts, and none that an account change overtook.
TakeSession(c) ==
  /\ call[c].at = "answered" /\ call[c].answer = "ok" /\ call[c].do = "session"
  /\ IF Wanted(c)
     THEN page' = Shows(call[c].view) /\ estranged' = ~ call[c].later
     ELSE UNCHANGED <<page, estranged>>
  /\ call' = Done({c})
  /\ UNCHANGED <<Server, cookie, Around>>

\* openAccount, closeAccount.
TakeAccount(c) ==
  /\ call[c].at = "answered" /\ call[c].answer = "ok" /\ call[c].do \in {"open", "close"}
  /\ page' = Shows(call[c].view)
  /\ estranged' = ~ call[c].later
  /\ call' = Done({c})
  /\ UNCHANGED <<Server, cookie, Around>>

TakeLogin(c) ==
  /\ call[c].at = "answered" /\ call[c].answer = "ok" /\ call[c].do = "login"
  /\ cookie' = [family |-> call[c].view.family, number |-> 1]
  /\ page' = [Shows(call[c].view) EXCEPT !.access = cookie']
  /\ estranged' = ~ call[c].later
  /\ call' = Done({c})
  /\ UNCHANGED <<Server, Around>>

\* Reads that were sent while the sign-out was under way are outdated with it.
TakeLogout(c) ==
  /\ call[c].at = "answered" /\ call[c].answer = "ok" /\ call[c].do = "logout"
  /\ page' = SignedOut
  /\ cookie' = NoToken
  /\ ended' = ended \cup {call[c].view.family}
  /\ call' = Done({c})
  /\ UNCHANGED <<Server, disturbed, trouble, estranged>>

TakeRead(c) ==
  /\ call[c].at = "answered"
  /\ \/ call[c].answer = "no"
     \/ call[c].answer = "ok" /\ call[c].do = "read"
  /\ call' = Done({c})
  /\ UNCHANGED <<Server, cookie, page, Around, estranged>>

\* The first refusal renews; the second signs the page out, but for a read that
\* is outdated and a sign-out that fails.
TakeRefusal(c) ==
  /\ call[c].at = "answered" /\ call[c].answer = "401"
  /\ IF ~ call[c].again
     THEN call' = [call EXCEPT ![c] = Renews([@ EXCEPT !.again = TRUE, !.answer = "none"])] /\ UNCHANGED page
     ELSE /\ call' = Done({c})
          /\ page' = IF call[c].do \in {"read", "open", "close"} \/ (call[c].do = "session" /\ Wanted(c)) THEN SignedOut ELSE page
  /\ UNCHANGED <<Server, cookie, Around, estranged>>

TakeCsrf(c) ==
  /\ call[c].at = "csrf answered" /\ call[c].answer = "ok"
  /\ page' = [page EXCEPT !.csrf = call[c].csrf]
  /\ call' = [call EXCEPT ![c].at = "refresh", ![c].token = cookie, ![c].answer = "none"]
  /\ UNCHANGED <<Server, cookie, Around, estranged>>

\* Everyone who waited goes on with the new token.
TakeRefresh(c) ==
  /\ call[c].at = "refresh answered" /\ call[c].answer = "ok"
  /\ cookie' = call[c].token
  /\ page' = [page EXCEPT !.access = call[c].token, !.csrf = call[c].token.family]
  /\ call' = [d \in Call |-> IF d \in {c} \cup Waiting THEN Sent([call[d] EXCEPT !.answer = "none"], page') ELSE call[d]]
  /\ UNCHANGED <<Server, Around, estranged>>

TakeNoRenewal(c) ==
  /\ call[c].at \in {"csrf answered", "refresh answered"} /\ call[c].answer = "401"
  /\ page' = SignedOut
  /\ call' = Done({c} \cup Waiting)
  /\ UNCHANGED <<Server, cookie, Around, estranged>>

-----------------------------------------------------------------------------
(* What goes wrong, and what others do.                                    *)

AnsweredWell(c, places) == call[c].at \in places /\ call[c].answer = "ok"

\* A request or its answer is lost: the call fails, with those that wait for it.
Lose(c) ==
  LET who == {c} \cup IF call[c].at \in {"sent", "closing", "answered"} THEN {} ELSE Waiting
  IN /\ call[c].at \notin {"idle", "waiting"} /\ trouble < MaxTrouble
     /\ page' = Without(who)
     /\ IF call[c].do \in Change /\ AnsweredWell(c, {"answered"}) THEN Estrange(Done(who))
        ELSE call' = Done(who) /\ UNCHANGED estranged
     /\ disturbed' = (disturbed \/ AnsweredWell(c, {"refresh answered"}))
     /\ trouble' = trouble + 1
     /\ UNCHANGED <<Server, cookie, ended>>

\* The page is loaded again; what it waited for is dropped with its connections.
Reload ==
  /\ trouble < MaxTrouble
  /\ page' = SignedOut
  /\ call' = [c \in Call |-> Idle]
  /\ disturbed' = (disturbed \/ \E c \in Call : AnsweredWell(c, {"refresh answered"}))
  /\ trouble' = trouble + 1
  /\ UNCHANGED <<Server, cookie, ended, estranged>>

\* Another tab opens or closes the account, signs in or out, or renews.
OtherTab ==
  LET f == cookie.family
  IN /\ trouble < MaxTrouble
     /\ \/ /\ Newest(cookie)
           /\ \/ family[f].acting \/ ~ restricted
           /\ family' = [family EXCEPT ![f].acting = ~ @]
           /\ UNCHANGED <<cookie, disturbed>>
        \/ /\ Newest(cookie)
           /\ family' = [family EXCEPT ![f].live = FALSE]
           /\ cookie' = NoToken
           /\ UNCHANGED disturbed
        \/ \E g \in Unused :
             /\ \A h \in Unused : g <= h
             /\ family' = SignedIn(f, g)
             /\ cookie' = [family |-> g, number |-> 1]
             /\ UNCHANGED disturbed
        \/ /\ Newest(cookie) /\ cookie.number < MaxToken
           /\ family' = [family EXCEPT ![f].newest = @ + 1]
           /\ cookie' = [cookie EXCEPT !.number = @ + 1]
           /\ disturbed' = TRUE
     /\ Estrange(call)
     /\ trouble' = trouble + 1
     /\ UNCHANGED <<restricted, replayed, page, ended>>

\* Staff elsewhere restrict the member, or lift it.
Restrict ==
  /\ trouble < MaxTrouble
  /\ restricted' = ~ restricted
  /\ trouble' = trouble + 1
  /\ UNCHANGED <<family, replayed, cookie, page, call, ended, disturbed, estranged>>

\* The access tokens of a sign-in come to their end.
Lapse ==
  \E f \in Families :
    /\ family[f].live /\ family[f].lapsed < family[f].newest /\ family[f].newest < MaxToken
    /\ family' = [family EXCEPT ![f].lapsed = family[f].newest]
    /\ UNCHANGED <<restricted, replayed, cookie, page, call, Around, estranged>>

Init ==
  /\ family = [f \in Families |-> [live |-> f = 1, acting |-> FALSE, newest |-> IF f = 1 THEN 1 ELSE 0, lapsed |-> 0]]
  /\ restricted = FALSE
  /\ cookie \in {NoToken, [family |-> 1, number |-> 1]}
  /\ page = SignedOut
  /\ call = [c \in Call |-> Idle]
  /\ ended = {} /\ estranged = FALSE /\ replayed = FALSE /\ disturbed = FALSE
  /\ trouble = 0

Next ==
  \/ \E c \in Call :
       \/ \E do \in Change \cup {"session", "read"} : Begin(c, do)
       \/ Refused(c) \/ ServeRead(c) \/ CloseAccount(c) \/ ServeChange(c) \/ ServeLogin(c) \/ ServeCsrf(c) \/ ServeRefresh(c)
       \/ TakeSession(c) \/ TakeAccount(c) \/ TakeLogin(c) \/ TakeLogout(c) \/ TakeRead(c) \/ TakeRefusal(c)
       \/ TakeCsrf(c) \/ TakeRefresh(c) \/ TakeNoRenewal(c)
       \/ Lose(c)
  \/ Reload \/ OtherTab \/ Restrict \/ Lapse

Spec == Init /\ [][Next]_vars

-----------------------------------------------------------------------------
(* Properties.                                                             *)

\* A sign-in that this page has signed out of is not shown again, whichever
\* reads of the session were on their way.
SignedOutStays == page.shown.family \notin ended

Quiet == \A c \in Call : call[c].at = "idle"

\* When nothing is on its way, the account that the page shows is the one its
\* requests act on, unless that changed behind the page since its last read.
ShowsWhereItActs ==
  Quiet /\ ~ estranged /\ page.shown # Nobody /\ family[page.shown.family].live =>
    /\ page.shown.acting = family[page.shown.family].acting
    /\ page.access.family \in {0, page.shown.family}

\* Calls that renew at the same time do not end their own sign-in.
RenewsOnce == replayed => disturbed
=============================================================================
