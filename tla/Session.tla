------------------------------ MODULE Session ------------------------------
(***************************************************************************)
(* One browser with several tabs of the admin interface, and the sessions  *)
(* the server keeps: the session provider (session.tsx), the request       *)
(* wrapper with its CSRF token and its "session lost" listeners (api.ts),  *)
(* the shell that chooses between loading, login, the forced password      *)
(* change and the pages (Shell.tsx), and the login and password forms,     *)
(* against the middleware and the handlers of src/internal/api and         *)
(* src/internal/auth.                                                      *)
(*                                                                         *)
(* The tabs share the cookies, and nothing else: the CSRF token and the    *)
(* signed-in user are state of the tab.  A session also names the CSRF     *)
(* token issued with it, because the two cookies are set and cleared by    *)
(* the same responses and live equally long.                               *)
(***************************************************************************)
EXTENDS Naturals, FiniteSets

CONSTANTS
  Tab,        \* tabs of one browser
  User,       \* accounts (by id: a rename changes nothing here)
  Session,    \* sessions the server may open, each with its CSRF token
  None,
  Routes,     \* whether the route of a tab is kept; see At
  MaxCalls,   \* bound: calls in flight at once, all tabs together
  MaxLosses,  \* bound: calls the network loses
  MaxResets   \* bound: password resets by an administrator

ASSUME NoneAssumption == None \notin User \cup Session
ASSUME BoundsAssumption ==
  Routes \in BOOLEAN /\ MaxCalls \in Nat /\ MaxLosses \in Nat /\ MaxResets \in Nat

VARIABLES
  owner,      \* the account each opened session belongs to, None: not opened
  alive,      \* the rows of table sessions
  must,       \* users.must_change
  jar,        \* the browser's cookies: the session they name, or None
  user,       \* user, of each tab's SessionProvider
  gate,       \* user.mustChange, as the tab was told
  ready,      \* ready, of each tab's SessionProvider
  token,      \* csrfToken, of each tab's copy of api.ts
  onAccount,  \* the tab's route is /account, not one of the other pages
  busy,       \* busy, of the tab's Login form
  throttled,  \* throttled, of the tab's Login form
  requests,   \* calls the server has not answered
  answers,    \* answers the tab has not seen
  losses,     \* calls lost so far
  resets      \* resets so far

tabs    == <<user, gate, ready, token, onAccount, busy, throttled>>
server  == <<owner, alive, must>>
bounds  == <<losses, resets>>
vars    == <<server, jar, tabs, requests, answers, bounds>>

-----------------------------------------------------------------------------
(* Calls *)

\* The calls of api.ts made with a method other than GET ("act" stands for
\* every one a page makes) carry the CSRF header.
Mutating == {"logout", "password", "username", "act"}
Kind     == Mutating \cup {"login", "me", "poll"}

\* The routes an account that must change its password may still call.
PasswordChangeRoute == {"me", "logout", "password", "username"}

Request == [tab : Tab, kind : Kind, who : User \cup {None},
            cookie : Session \cup {None}, header : Session \cup {None},
            read : BOOLEAN \cup {None}]

\* A tab tells no other failures apart: the rest is "error".
Status == {"ok", "unauthorized", "throttled", "error", "lost"}

\* "cookie" is the session that a 401 says is gone.
Answer == [tab : Tab, kind : Kind, status : Status, cookie : Session \cup {None},
           token : Session \cup {None}, user : User \cup {None}, must : BOOLEAN,
           clears : BOOLEAN]

\* Bound: one call of a kind per tab at a time, MaxCalls over all.
CanSend(t, kind) ==
  /\ \A r \in requests : ~(r.tab = t /\ r.kind = kind)
  /\ \A a \in answers  : ~(a.tab = t /\ a.kind = kind)
  /\ Cardinality(requests) + Cardinality(answers) < MaxCalls

\* Wrong variant of CsrfHeader: reads the cookie anew for every call.
CsrfHeaderOfCookie(t) == jar

\* The token request puts in X-JARVIS-CSRF: the module's variable.
CsrfHeader(t) == token[t]

\* The browser adds the cookies it holds, request the header when the call
\* mutates.  "who" is the account a login names, or, with a call that changes
\* something, the one on the tab's screen.
Sent(t, kind, who) ==
  [tab |-> t, kind |-> kind, who |-> who, cookie |-> jar,
   header |-> IF kind \in Mutating THEN CsrfHeader(t) ELSE None,
   read |-> None]

Init ==
  /\ owner = [s \in Session |-> None] /\ alive = {}
  /\ must = [u \in User |-> TRUE]
  /\ jar = None
  /\ user = [t \in Tab |-> None] /\ gate = [t \in Tab |-> FALSE]
  /\ ready = [t \in Tab |-> FALSE] /\ token = [t \in Tab |-> None]
  /\ onAccount = [t \in Tab |-> FALSE]
  /\ busy = [t \in Tab |-> FALSE] /\ throttled = [t \in Tab |-> FALSE]
  /\ requests = {Sent(t, "me", None) : t \in Tab} /\ answers = {}
  /\ losses = 0 /\ resets = 0

-----------------------------------------------------------------------------
(* The tab *)

\* Shell: what a tab renders.
Screen(t) ==
  CASE ~ready[t]                              -> "loading"
    [] ready[t] /\ user[t] = None             -> "login"
    [] ready[t] /\ user[t] # None /\ gate[t]  -> "gate"
    [] OTHER                                  -> "pages"

\* setUser, and what follows from rendering it: leaving or entering the login
\* screen mounts a Login form with fresh state.
SetUser(t, u, g) ==
  /\ user' = [user EXCEPT ![t] = u]
  /\ gate' = [gate EXCEPT ![t] = g]

FreshLogin(t) ==
  /\ busy' = [busy EXCEPT ![t] = FALSE]
  /\ throttled' = [throttled EXCEPT ![t] = FALSE]

RemountLogin(t, u) ==
  IF (u = None) = (user[t] = None) THEN UNCHANGED <<busy, throttled>> ELSE FreshLogin(t)

\* A tab is opened or reloaded: the token is read from the cookie, /auth/me is
\* asked, and the answers to the page before go nowhere.
Reload(t) ==
  /\ ready[t]
  /\ token' = [token EXCEPT ![t] = jar]
  /\ SetUser(t, None, FALSE)
  /\ FreshLogin(t)
  /\ ready' = [ready EXCEPT ![t] = FALSE]
  /\ LET others == {r \in requests : r.tab # t}
     IN requests' = others \cup {Sent(t, "me", None)}
  /\ answers' = {a \in answers : a.tab # t}
  /\ UNCHANGED <<server, jar, onAccount, bounds>>

\* The tab shows the account page, or another one.  The operator may go from one
\* to the other whenever there are pages, and nothing else depends on it: where
\* routes are not kept, a step that needs one of them may happen on the pages at
\* any time, which reaches the same states of all the other variables.
At(t, account) == Screen(t) = "pages" /\ (Routes => onAccount[t] = account)

\* A page or the account page is opened from the navigation.
Navigate(t) ==
  /\ Routes /\ Screen(t) = "pages"
  /\ onAccount' = [onAccount EXCEPT ![t] = ~@]
  /\ UNCHANGED <<server, jar, user, gate, ready, token, busy, throttled,
                 requests, answers, bounds>>

Send(t, kind, who) ==
  /\ CanSend(t, kind)
  /\ requests' = requests \cup {Sent(t, kind, who)}
  /\ UNCHANGED <<server, jar, user, gate, ready, token, onAccount, answers, bounds>>

\* Login.submit, as far as its await.
SubmitLogin(t, u) ==
  /\ Screen(t) = "login" /\ ~busy[t] /\ ~throttled[t]
  /\ busy' = [busy EXCEPT ![t] = TRUE]
  /\ throttled' = [throttled EXCEPT ![t] = FALSE]
  /\ Send(t, "login", u)

\* The log-out button, of the top bar and of the forced password change.
SignOut(t) ==
  /\ Screen(t) \in {"pages", "gate"}
  /\ Send(t, "logout", user[t])
  /\ UNCHANGED <<busy, throttled>>

\* ChangePassword is rendered: as the gate, or as the account page.
PasswordFormShown(t) == Screen(t) = "gate" \/ At(t, TRUE)

\* ChangePassword.submitPassword, past the checks of the form.  Its button is
\* disabled while a submission of the form, or the refresh after it, runs.
SubmitPassword(t) ==
  /\ PasswordFormShown(t)
  /\ CanSend(t, "username") /\ CanSend(t, "me")
  /\ Send(t, "password", user[t])
  /\ UNCHANGED <<busy, throttled>>

\* ChangePassword.submitUsername, when the name differs.
SubmitUsername(t) ==
  /\ PasswordFormShown(t)
  /\ CanSend(t, "password") /\ CanSend(t, "me")
  /\ Send(t, "username", user[t])
  /\ UNCHANGED <<busy, throttled>>

\* A polling panel asks; every page but the account page has one.
Poll(t) ==
  /\ At(t, FALSE)
  /\ Send(t, "poll", None)
  /\ UNCHANGED <<busy, throttled>>

\* A page changes something on the server.
Act(t) ==
  /\ At(t, FALSE)
  /\ Send(t, "act", user[t])
  /\ UNCHANGED <<busy, throttled>>

-----------------------------------------------------------------------------
(* The server *)

\* requireCSRF: the header repeats the cookie.
PassesCsrf(r) == r.kind \in Mutating => r.cookie # None /\ r.header = r.cookie

\* requireAuth: the cookie names a session that lives ...
Authentic(r) == r.cookie \in alive

\* ... and an account that must change its password reaches only the routes to do so.
GateAllows(r) == ~must[owner[r.cookie]] \/ r.kind \in PasswordChangeRoute

Admitted(r) == PassesCsrf(r) /\ Authentic(r) /\ GateAllows(r)

Reply(r, status, clears) ==
  [tab |-> r.tab, kind |-> r.kind, status |-> status,
   cookie |-> IF status = "unauthorized" THEN r.cookie ELSE None,
   token |-> None, user |-> None, must |-> FALSE, clears |-> clears]

\* meResponse: the account, and the CSRF token that goes with the session.
ReplyMe(r, s, u, m) ==
  [tab |-> r.tab, kind |-> r.kind, status |-> "ok", cookie |-> None,
   token |-> s, user |-> u, must |-> m, clears |-> FALSE]

Finish(r, a) ==
  /\ requests' = requests \ {r}
  /\ answers' = answers \cup {a}

\* Wrong variant of Refuse: every request that is turned away gets a 401.
RefuseAs401(r) ==
  /\ r.kind # "login" /\ ~Admitted(r)
  /\ Finish(r, Reply(r, "unauthorized", r.cookie # None))
  /\ UNCHANGED <<server, jar, tabs, bounds>>

\* The middleware turns the request away, and clears cookies that name no session.
Refuse(r) ==
  /\ r.kind # "login" /\ ~Admitted(r)
  /\ LET status == IF PassesCsrf(r) /\ ~Authentic(r) THEN "unauthorized" ELSE "error"
     IN Finish(r, Reply(r, status, status = "unauthorized" /\ r.cookie # None))
  /\ UNCHANGED <<server, jar, tabs, bounds>>

\* handleMe.
ServeMe(r) ==
  /\ r.kind = "me" /\ Admitted(r)
  /\ Finish(r, ReplyMe(r, r.cookie, owner[r.cookie], must[owner[r.cookie]]))
  /\ UNCHANGED <<server, jar, tabs, bounds>>

\* A handler of a page, or handleChangeUsername, which may refuse what is asked.
ServePage(r) ==
  /\ r.kind \in {"poll", "act", "username"} /\ Admitted(r)
  /\ \E status \in {"ok", "error"} : Finish(r, Reply(r, status, FALSE))
  /\ UNCHANGED <<server, jar, tabs, bounds>>

\* handleLogout: the row goes, and the answer clears the cookies.
ServeLogout(r) ==
  /\ r.kind = "logout" /\ Admitted(r)
  /\ alive' = alive \ {r.cookie}
  /\ Finish(r, Reply(r, "ok", TRUE))
  /\ UNCHANGED <<owner, must, jar, tabs, bounds>>

\* handleChangePassword: the account's other sessions end with the old password.  Or
\* the current password is wrong, or the new one refused.
ServePassword(r) ==
  /\ r.kind = "password" /\ Admitted(r)
  /\ \/ /\ must' = [must EXCEPT ![owner[r.cookie]] = FALSE]
        /\ alive' = {s \in alive : owner[s] = owner[r.cookie] => s = r.cookie}
        /\ Finish(r, Reply(r, "ok", FALSE))
     \/ /\ \E status \in {"unauthorized", "error"} : Finish(r, Reply(r, status, FALSE))
        /\ UNCHANGED <<must, alive>>
  /\ UNCHANGED <<owner, jar, tabs, bounds>>

\* handleLogin turns the attempt away: the password is wrong, or there were too many.
RefuseLogin(r) ==
  /\ r.kind = "login" /\ r.read = None
  /\ \E status \in {"unauthorized", "throttled"} : Finish(r, Reply(r, status, FALSE))
  /\ UNCHANGED <<server, jar, tabs, bounds>>

\* Service.Login reads the account and verifies the password ...
ReadAccount(r) ==
  /\ r.kind = "login" /\ r.read = None
  /\ requests' = (requests \ {r}) \cup
       {[tab |-> r.tab, kind |-> r.kind, who |-> r.who, cookie |-> r.cookie,
         header |-> r.header, read |-> must[r.who]]}
  /\ UNCHANGED <<server, jar, tabs, answers, bounds>>

\* ... and, in a statement of its own, opens the session.
OpenSession(r, s) ==
  /\ r.kind = "login" /\ r.read # None
  /\ owner[s] = None
  /\ owner' = [owner EXCEPT ![s] = r.who]
  /\ alive' = alive \cup {s}
  /\ Finish(r, ReplyMe(r, s, r.who, r.read))
  /\ UNCHANGED <<must, jar, tabs, bounds>>

\* A session expires, idles out, or ends with its account.
Expire(s) ==
  /\ alive' = alive \ {s} /\ s \in alive
  /\ UNCHANGED <<owner, must, jar, tabs, requests, answers, bounds>>

\* Service.ResetPassword, by an administrator elsewhere.
ResetPassword(u) ==
  /\ resets < MaxResets
  /\ resets' = resets + 1
  /\ must' = [must EXCEPT ![u] = TRUE]
  /\ alive' = {s \in alive : owner[s] # u}
  /\ UNCHANGED <<owner, jar, tabs, requests, answers, losses>>

\* The network loses a call on its way out or an answer on its way back.
Lose ==
  /\ losses < MaxLosses /\ losses' = losses + 1
  /\ \/ \E r \in requests : Finish(r, Reply(r, "lost", FALSE))
     \/ \E a \in answers :
          /\ a.status # "lost"
          /\ answers' = (answers \ {a}) \cup
               {Reply(a, "lost", FALSE)}
          /\ UNCHANGED requests
  /\ UNCHANGED <<server, jar, tabs, resets>>

-----------------------------------------------------------------------------
(* The answer reaches the tab *)

\* The browser obeys Set-Cookie before any script runs.
SetCookie(a) ==
  jar' = IF a.clears THEN None
         ELSE IF a.kind = "login" /\ a.status = "ok" THEN a.token ELSE jar

\* Wrong variant of Bounces: only the session provider's own call tells.
BouncesOfMe(a) == a.status = "unauthorized" /\ a.kind = "me"

\* request tells the session listeners of every 401 that is not the login's.
Bounces(a) == a.status = "unauthorized" /\ a.kind # "login"

\* signIn, and Login.submit past its await.
LoginAnswered(a) ==
  /\ a.kind = "login"
  /\ IF a.status = "ok"
     THEN /\ token' = [token EXCEPT ![a.tab] = a.token]
          /\ SetUser(a.tab, a.user, a.must)
          /\ RemountLogin(a.tab, a.user)
     ELSE /\ busy' = [busy EXCEPT ![a.tab] = FALSE]
          /\ throttled' = [throttled EXCEPT
               ![a.tab] = IF busy[a.tab] THEN a.status = "throttled" ELSE @]
          /\ UNCHANGED <<token, user, gate>>
  /\ answers' = answers \ {a}
  /\ UNCHANGED <<ready, requests>>

\* SessionProvider.refresh past its await: any failure shows the login screen.
MeAnswered(a) ==
  /\ a.kind = "me"
  /\ LET t == a.tab IN
     /\ IF a.status = "ok"
        THEN /\ token' = [token EXCEPT ![t] = a.token]
             /\ SetUser(t, a.user, a.must)
             /\ RemountLogin(t, a.user)
        ELSE /\ SetUser(t, None, FALSE)
             /\ RemountLogin(t, None)
             /\ UNCHANGED token
     /\ ready' = [ready EXCEPT ![t] = TRUE]
  /\ answers' = answers \ {a}
  /\ UNCHANGED requests

\* signOut past its await: the tab forgets the user whatever the answer.
LogoutAnswered(a) ==
  /\ a.kind = "logout"
  /\ SetUser(a.tab, None, FALSE)
  /\ RemountLogin(a.tab, None)
  /\ answers' = answers \ {a}
  /\ UNCHANGED <<token, ready, requests>>

\* Wrong variant of CallAnswered: the forms do not refresh the session.
CallAnsweredNoRefresh(a) ==
  /\ a.kind \in {"poll", "act", "password", "username"}
  /\ IF Bounces(a)
     THEN SetUser(a.tab, None, FALSE) /\ RemountLogin(a.tab, None)
     ELSE UNCHANGED <<user, gate, busy, throttled>>
  /\ answers' = answers \ {a}
  /\ UNCHANGED <<requests, token, ready>>

\* Any other answer: a 401 bounces the tab, and a form of ChangePassword that
\* succeeded refreshes the session.
CallAnswered(a) ==
  /\ a.kind \in {"poll", "act", "password", "username"}
  /\ IF Bounces(a)
     THEN SetUser(a.tab, None, FALSE) /\ RemountLogin(a.tab, None)
     ELSE UNCHANGED <<user, gate, busy, throttled>>
  /\ answers' = answers \ {a}
  /\ requests' = IF a.kind \in {"password", "username"} /\ a.status = "ok"
                 THEN requests \cup {Sent(a.tab, "me", None)}
                 ELSE requests
  /\ UNCHANGED <<token, ready>>

Receive(a) ==
  /\ SetCookie(a)
  /\ LoginAnswered(a) \/ MeAnswered(a) \/ LogoutAnswered(a) \/ CallAnswered(a)
  /\ UNCHANGED <<server, onAccount, bounds>>

-----------------------------------------------------------------------------
(* The specification *)

Serve(r) ==
  \/ Refuse(r) \/ ServeMe(r) \/ ServePage(r) \/ ServeLogout(r) \/ ServePassword(r)
  \/ RefuseLogin(r) \/ ReadAccount(r) \/ \E s \in Session : OpenSession(r, s)

Operator(t) ==
  \/ Reload(t) \/ Navigate(t) \/ SignOut(t) \/ Act(t)
  \/ SubmitPassword(t) \/ SubmitUsername(t) \/ \E u \in User : SubmitLogin(t, u)

Next ==
  \/ \E t \in Tab : Operator(t) \/ Poll(t)
  \/ \E r \in requests : Serve(r)
  \/ \E a \in answers : Receive(a)
  \/ \E s \in Session : Expire(s)
  \/ \E u \in User : ResetPassword(u)
  \/ Lose

Spec == Init /\ [][Next]_vars

\* The panels' timers fire, the server answers what it is asked and the
\* browser delivers the answers.
ServeOne(t, k) == \E r \in requests : r.tab = t /\ r.kind = k /\ Serve(r)
HearOne(t, k)  == \E a \in answers : a.tab = t /\ a.kind = k /\ Receive(a)

FairSpec ==
  /\ Spec
  /\ \A t \in Tab :
       /\ SF_vars(Poll(t))
       /\ \A k \in Kind : WF_vars(ServeOne(t, k)) /\ WF_vars(HearOne(t, k))

-----------------------------------------------------------------------------
(* Properties *)

\* Every variable keeps its type.
TypeOK ==
  /\ owner \in [Session -> User \cup {None}] /\ alive \subseteq Session
  /\ must \in [User -> BOOLEAN] /\ jar \in Session \cup {None}
  /\ user \in [Tab -> User \cup {None}] /\ token \in [Tab -> Session \cup {None}]
  /\ gate \in [Tab -> BOOLEAN] /\ ready \in [Tab -> BOOLEAN]
  /\ onAccount \in [Tab -> BOOLEAN]
  /\ busy \in [Tab -> BOOLEAN] /\ throttled \in [Tab -> BOOLEAN]
  /\ requests \subseteq Request /\ answers \subseteq Answer
  /\ losses \in 0..MaxLosses /\ resets \in 0..MaxResets

\* What a tab asks the server to change is only ever carried out in the name of
\* the user that was on the tab's screen, although the tabs share one cookie
\* and another tab may have signed in as somebody else (api.ts request,
\* middleware.go requireCSRF).
ActsAsShown ==
  \A r \in requests : r.kind \in Mutating /\ Admitted(r) => owner[r.cookie] = r.who

\* When request tells the listeners that a session is lost, on any call but the
\* change of the password, the session it was made under is gone (api.ts request).
GoneMeansGone ==
  \A a \in answers : Bounces(a) /\ a.kind # "password" => a.cookie \notin alive

\* A tab that shows a page with panels is not left there on a dead session: it
\* falls back to the login screen, or the browser gets a live session, or the
\* tab leaves for the account page, which polls nothing (usePolled, request).
DeadSessionIsNoticed ==
  \A t \in Tab : []<>(Screen(t) # "pages" \/ onAccount[t] \/ jar \in alive)

\* When the server has changed the password, the forced change does not stay in
\* front of a tab whose user need change nothing, unless the answer that says
\* so is lost on its way (ChangePassword.submitPassword, session.tsx refresh).
GateOpens ==
  \A t \in Tab :
    LET told(status) == \E a \in answers :
          a.tab = t /\ a.kind = "password" /\ a.status = status
    IN told("ok") ~> (told("lost") \/ ~(Screen(t) = "gate" /\ ~must[user[t]]))

=============================================================================
