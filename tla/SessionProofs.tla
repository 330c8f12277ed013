---------------------------- MODULE SessionProofs ----------------------------
(***************************************************************************)
(* Session proved, for every number of tabs, accounts and sessions.        *)
(*                                                                         *)
(* What a call carries is fixed when it is sent, and the tab, the cookie   *)
(* and the session may all have changed by the time it is served.  The     *)
(* invariant therefore says of every call and every answer under way, and  *)
(* of every tab, whose session it names; it stands because a session       *)
(* never changes hands and is never opened a second time.                  *)
(***************************************************************************)
EXTENDS Session, TLAPS

\* The sessions that were opened, and what a cookie or a token may be, where the
\* owners are o.
Opened(o) == {s \in Session : o[s] # None}
Known(o)  == Opened(o) \cup {None}

ReqOK(r, o) ==
  /\ r \in Request
  /\ r.cookie \in Known(o)
  /\ r.kind \in Mutating \cup {"login"} => r.who \in User
  /\ r.kind \in Mutating /\ r.header # None => o[r.header] = r.who

AnsOK(a, o, al) ==
  /\ a \in Answer
  /\ a.cookie \in Known(o) /\ a.token \in Known(o)
  /\ a.kind \in {"login", "me"} /\ a.status = "ok" =>
       a.token # None /\ a.user \in User /\ o[a.token] = a.user
  /\ Bounces(a) /\ a.kind # "password" => a.cookie \notin al

TabOK(u, k, o) == u # None => k # None /\ o[k] = u

TabTypes ==
  /\ user \in [Tab -> User \cup {None}] /\ token \in [Tab -> Session \cup {None}]
  /\ gate \in [Tab -> BOOLEAN] /\ ready \in [Tab -> BOOLEAN]
  /\ onAccount \in [Tab -> BOOLEAN]
  /\ busy \in [Tab -> BOOLEAN] /\ throttled \in [Tab -> BOOLEAN]

Others == must \in [User -> BOOLEAN] /\ losses \in 0..MaxLosses /\ resets \in 0..MaxResets

IInv ==
  /\ TabTypes /\ Others
  /\ owner \in [Session -> User \cup {None}]
  /\ alive \subseteq Opened(owner) /\ jar \in Known(owner)
  /\ \A r \in requests : ReqOK(r, owner)
  /\ \A a \in answers : AnsOK(a, owner, alive)
  /\ \A t \in Tab : TabOK(user[t], token[t], owner)

-----------------------------------------------------------------------------
(* What the invariant says *)

LEMMA InvTypeOK ==
  ASSUME IInv
  PROVE  TypeOK
<1>1. requests \subseteq Request
  BY DEF IInv, ReqOK
<1>2. answers \subseteq Answer
  BY DEF IInv, AnsOK
<1>3. alive \subseteq Session /\ jar \in Session \cup {None}
  BY DEF IInv, Opened, Known
<1> QED  BY <1>1, <1>2, <1>3 DEF IInv, TypeOK, TabTypes, Others

LEMMA InvActs ==
  ASSUME IInv
  PROVE  ActsAsShown
<1>1. SUFFICES ASSUME NEW r \in requests, r.kind \in Mutating, Admitted(r)
               PROVE  owner[r.cookie] = r.who
  BY DEF ActsAsShown
<1>2. r.header = r.cookie /\ r.cookie # None
  BY <1>1 DEF Admitted, PassesCsrf
<1>3. ReqOK(r, owner)
  BY DEF IInv
<1> QED  BY <1>1, <1>2, <1>3 DEF ReqOK

LEMMA InvGone ==
  ASSUME IInv
  PROVE  GoneMeansGone
BY DEF IInv, AnsOK, GoneMeansGone

-----------------------------------------------------------------------------
(* Calls and answers stay good while sessions are opened and end *)

\* Sessions keep their owners.
Grows(o, p) ==
  /\ o \in [Session -> User \cup {None}] /\ p \in [Session -> User \cup {None}]
  /\ \A s \in Session : o[s] # None => p[s] = o[s]

LEMMA KnownGrows ==
  ASSUME NEW o, NEW p, Grows(o, p), NEW s \in Known(o)
  PROVE  s \in Known(p)
BY DEF Grows, Known, Opened

LEMMA ReqGrows ==
  ASSUME NEW o, NEW p, Grows(o, p), NEW r, ReqOK(r, o)
  PROVE  ReqOK(r, p)
<1>1. r.cookie \in Known(p)
  BY KnownGrows DEF ReqOK
<1>2. ASSUME r.kind \in Mutating, r.header # None
      PROVE  p[r.header] = r.who
  <2>1. r.who \in User /\ o[r.header] = r.who
    BY <1>2 DEF ReqOK
  <2>2. r.header \in Session
    BY <1>2 DEF ReqOK, Request
  <2>3. o[r.header] # None
    BY <2>1, NoneAssumption
  <2> QED  BY <2>1, <2>2, <2>3 DEF Grows
<1> QED  BY <1>1, <1>2 DEF ReqOK

LEMMA AnsGrows ==
  ASSUME NEW o, NEW p, Grows(o, p), NEW al, NEW bl, NEW a, AnsOK(a, o, al),
         \A s \in bl : s \in al \/ s \notin Known(o)
  PROVE  AnsOK(a, p, bl)
<1>1. a.cookie \in Known(p) /\ a.token \in Known(p)
  BY KnownGrows DEF AnsOK
<1>2. ASSUME a.kind \in {"login", "me"}, a.status = "ok"
      PROVE  a.token # None /\ a.user \in User /\ p[a.token] = a.user
  <2>1. a.token # None /\ a.user \in User /\ o[a.token] = a.user
    BY <1>2 DEF AnsOK
  <2>2. a.token \in Session
    BY <2>1 DEF AnsOK, Known, Opened
  <2>3. o[a.token] # None
    BY <2>1, NoneAssumption
  <2> QED  BY <2>1, <2>2, <2>3 DEF Grows
<1>3. ASSUME Bounces(a), a.kind # "password"
      PROVE  a.cookie \notin bl
  BY <1>3 DEF AnsOK
<1> QED  BY <1>1, <1>2, <1>3 DEF AnsOK

LEMMA TabGrows ==
  ASSUME NEW o, NEW p, Grows(o, p), NEW u \in User \cup {None}, NEW k \in Session \cup {None},
         TabOK(u, k, o)
  PROVE  TabOK(u, k, p)
BY NoneAssumption DEF TabOK, Grows

\* A step of the server: the tabs and the cookies stay as they are.
LEMMA ServerStep ==
  ASSUME IInv, Others', UNCHANGED <<jar, tabs>>,
         Grows(owner, owner'), alive' \subseteq Opened(owner'),
         \A s \in alive' : s \in alive \/ s \notin Known(owner),
         \A r \in requests' : r \in requests \/ ReqOK(r, owner'),
         \A a \in answers' : a \in answers \/ AnsOK(a, owner', alive')
  PROVE  IInv'
<1>1. TabTypes'
  BY DEF IInv, TabTypes, tabs
<1>2. jar' \in Known(owner')
  <2>1. jar \in Known(owner)
    BY DEF IInv
  <2>2. jar \in Known(owner')
    BY <2>1 DEF Known, Opened, Grows
  <2> QED  BY <2>2
<1>3. \A r \in requests' : ReqOK(r, owner')
  <2>1. \A r \in requests : ReqOK(r, owner)
    BY DEF IInv
  <2> QED  BY <2>1, ReqGrows
<1>4. \A a \in answers' : AnsOK(a, owner', alive')
  <2>1. \A a \in answers : AnsOK(a, owner, alive)
    BY DEF IInv
  <2> QED  BY <2>1, AnsGrows
<1>5. \A t \in Tab : TabOK(user'[t], token'[t], owner')
  <2>1. SUFFICES ASSUME NEW t \in Tab PROVE TabOK(user[t], token[t], owner')
    BY DEF tabs
  <2>2. TabOK(user[t], token[t], owner)
    BY DEF IInv
  <2>3. user[t] \in User \cup {None} /\ token[t] \in Session \cup {None}
    BY DEF IInv, TabTypes
  <2> QED  BY <2>2, <2>3, TabGrows
<1>6. owner' \in [Session -> User \cup {None}]
  BY DEF Grows
<1> QED  BY <1>1, <1>2, <1>3, <1>4, <1>5, <1>6 DEF IInv

\* A step of a tab: the sessions stay as they are.
LEMMA TabStep ==
  ASSUME IInv, UNCHANGED <<server, bounds>>, TabTypes', jar' \in Known(owner),
         \A r \in requests' : r \in requests \/ ReqOK(r, owner),
         answers' \subseteq answers,
         \A t \in Tab : TabOK(user'[t], token'[t], owner)
  PROVE  IInv'
<1>1. owner' = owner /\ alive' = alive /\ must' = must /\ losses' = losses /\ resets' = resets
  BY DEF server, bounds
<1>2. Others'
  BY <1>1 DEF IInv, Others
<1> QED  BY <1>1, <1>2 DEF IInv

LEMMA SameOwners ==
  ASSUME IInv
  PROVE  Grows(owner, owner)
BY DEF IInv, Grows

-----------------------------------------------------------------------------
(* Calls and answers that are made *)

LEMMA SentOK ==
  ASSUME IInv, NEW t \in Tab, NEW kind \in Kind, NEW who \in User \cup {None},
         kind \in Mutating => who = user[t] /\ user[t] # None,
         kind = "login" => who \in User
  PROVE  ReqOK(Sent(t, kind, who), owner)
<1> DEFINE q == Sent(t, kind, who)
<1>1. jar \in Known(owner) /\ jar \in Session \cup {None}
  BY DEF IInv, Known, Opened
<1>2. token[t] \in Session \cup {None}
  BY DEF IInv, TabTypes
<1>3. q.header \in Session \cup {None}
  BY <1>2 DEF Sent, CsrfHeader
<1>4. q \in Request
  BY <1>1, <1>3 DEF Sent, Request
<1>5. ASSUME kind \in Mutating, q.header # None
      PROVE  owner[q.header] = who
  <2>1. q.header = token[t]
    BY <1>5 DEF Sent, CsrfHeader
  <2>2. TabOK(user[t], token[t], owner)
    BY DEF IInv
  <2> QED  BY <1>5, <2>1, <2>2 DEF TabOK
<1>6. q.cookie = jar /\ q.kind = kind /\ q.who = who
  BY DEF Sent
<1>7. kind \in Mutating \cup {"login"} => who \in User
  OBVIOUS
<1> HIDE DEF q
<1>8. ReqOK(q, owner)
  BY <1>1, <1>4, <1>5, <1>6, <1>7 DEF ReqOK
<1> QED  BY <1>8 DEF q

\* The part of a call or of an answer that an answer is made from.
Origin(r) == r.tab \in Tab /\ r.kind \in Kind /\ r.cookie \in Session \cup {None}

LEMMA RequestOrigin ==
  ASSUME NEW o, NEW r, ReqOK(r, o)
  PROVE  Origin(r) /\ r.cookie \in Known(o)
BY DEF ReqOK, Request, Origin

LEMMA ReplyOK ==
  ASSUME NEW r, Origin(r), NEW o, r.cookie \in Known(o), NEW al,
         NEW status \in Status, NEW clears \in BOOLEAN,
         ~(r.kind \in {"login", "me"} /\ status = "ok"),
         status = "unauthorized" /\ r.kind \notin {"login", "password"} => r.cookie \notin al
  PROVE  AnsOK(Reply(r, status, clears), o, al)
<1> DEFINE a == Reply(r, status, clears)
<1>1. /\ a.tab = r.tab /\ a.kind = r.kind /\ a.status = status
      /\ a.cookie = IF status = "unauthorized" THEN r.cookie ELSE None
      /\ a.token = None
  BY DEF Reply
<1>2. a \in Answer
  BY DEF Origin, Reply, Answer
<1>3. None \in Known(o)
  BY DEF Known
<1> HIDE DEF a
<1>4. AnsOK(a, o, al)
  BY <1>1, <1>2, <1>3 DEF AnsOK, Bounces
<1> QED  BY <1>4 DEF a

LEMMA ReplyMeOK ==
  ASSUME NEW r, Origin(r), NEW o, NEW al, NEW s \in Opened(o), NEW u \in User,
         o[s] = u, NEW m \in BOOLEAN
  PROVE  AnsOK(ReplyMe(r, s, u, m), o, al)
<1> DEFINE a == ReplyMe(r, s, u, m)
<1>1. /\ a.kind = r.kind /\ a.status = "ok" /\ a.cookie = None
      /\ a.token = s /\ a.user = u
  BY DEF ReplyMe
<1>2. s \in Session /\ s # None
  BY NoneAssumption DEF Opened
<1>3. a \in Answer
  BY <1>2 DEF Origin, ReplyMe, Answer, Status
<1>4. None \in Known(o) /\ s \in Known(o)
  BY DEF Known
<1> HIDE DEF a
<1>5. AnsOK(a, o, al)
  BY <1>1, <1>2, <1>3, <1>4 DEF AnsOK, Bounces
<1> QED  BY <1>5 DEF a

-----------------------------------------------------------------------------
(* The server *)

\* The server answers a call, and opens no session.
LEMMA FinishKeeps ==
  ASSUME IInv, NEW r \in requests, NEW a, Finish(r, a),
         Others', UNCHANGED <<jar, tabs>>, owner' = owner, alive' \subseteq alive,
         AnsOK(a, owner, alive')
  PROVE  IInv'
<1>1. requests' \subseteq requests /\ answers' = answers \cup {a}
  BY DEF Finish
<1>2. Grows(owner, owner')
  BY SameOwners
<1>3. alive' \subseteq Opened(owner')
  BY DEF IInv
<1> QED  BY <1>1, <1>2, <1>3, ServerStep

LEMMA SameOthers ==
  ASSUME IInv, UNCHANGED <<must, bounds>>
  PROVE  Others'
BY DEF IInv, Others, bounds

LEMMA InRequests ==
  ASSUME IInv, NEW r \in requests
  PROVE  ReqOK(r, owner) /\ Origin(r) /\ r.cookie \in Known(owner)
<1>1. ReqOK(r, owner)
  BY DEF IInv
<1> QED  BY <1>1, RequestOrigin

\* A call that is admitted comes with a session that lives, and has an owner.
LEMMA Admission ==
  ASSUME IInv, NEW r \in requests, Admitted(r)
  PROVE  /\ r.cookie \in Opened(owner) /\ owner[r.cookie] \in User
         /\ must[owner[r.cookie]] \in BOOLEAN
<1>1. r.cookie \in Opened(owner)
  BY DEF IInv, Admitted, Authentic
<1>2. owner[r.cookie] \in User
  BY <1>1 DEF IInv, Opened
<1> QED  BY <1>1, <1>2 DEF IInv, Others

LEMMA RefuseKeeps ==
  ASSUME IInv, NEW r \in requests, Refuse(r)
  PROVE  IInv'
<1> DEFINE status == IF PassesCsrf(r) /\ ~Authentic(r) THEN "unauthorized" ELSE "error"
           clears == status = "unauthorized" /\ r.cookie # None
<1>1. /\ Finish(r, Reply(r, status, clears)) /\ r.kind # "login" /\ ~Admitted(r)
      /\ owner' = owner /\ alive' = alive /\ must' = must
      /\ UNCHANGED <<jar, tabs>> /\ UNCHANGED bounds
  BY DEF Refuse, server
<1>2. status \in Status /\ clears \in BOOLEAN /\ status # "ok"
  BY DEF Status
<1>3. status = "unauthorized" => r.cookie \notin alive
  BY DEF Authentic
<1> HIDE DEF status, clears
<1>4. AnsOK(Reply(r, status, clears), owner, alive')
  BY <1>1, <1>2, <1>3, InRequests, ReplyOK
<1>5. Others'
  BY <1>1, SameOthers
<1> QED  BY <1>1, <1>4, <1>5, FinishKeeps

LEMMA ServeMeKeeps ==
  ASSUME IInv, NEW r \in requests, ServeMe(r)
  PROVE  IInv'
<1> DEFINE a == ReplyMe(r, r.cookie, owner[r.cookie], must[owner[r.cookie]])
<1>1. /\ Finish(r, a) /\ Admitted(r)
      /\ owner' = owner /\ alive' = alive /\ must' = must
      /\ UNCHANGED <<jar, tabs>> /\ UNCHANGED bounds
  BY DEF ServeMe, server
<1>2. AnsOK(a, owner, alive')
  BY <1>1, InRequests, Admission, ReplyMeOK
<1>3. Others'
  BY <1>1, SameOthers
<1> HIDE DEF a
<1> QED  BY <1>1, <1>2, <1>3, FinishKeeps

LEMMA ServePageKeeps ==
  ASSUME IInv, NEW r \in requests, ServePage(r)
  PROVE  IInv'
<1>0. PICK status \in {"ok", "error"} : Finish(r, Reply(r, status, FALSE))
  BY DEF ServePage
<1>1. /\ Finish(r, Reply(r, status, FALSE)) /\ r.kind \in {"poll", "act", "username"}
      /\ owner' = owner /\ alive' = alive /\ must' = must
      /\ UNCHANGED <<jar, tabs>> /\ UNCHANGED bounds
  BY <1>0 DEF ServePage, server
<1>2. status \in Status /\ FALSE \in BOOLEAN /\ status # "unauthorized"
  BY DEF Status
<1>3. AnsOK(Reply(r, status, FALSE), owner, alive')
  BY <1>1, <1>2, InRequests, ReplyOK
<1>4. Others'
  BY <1>1, SameOthers
<1> QED  BY <1>1, <1>3, <1>4, FinishKeeps

LEMMA ServeLogoutKeeps ==
  ASSUME IInv, NEW r \in requests, ServeLogout(r)
  PROVE  IInv'
<1>1. /\ Finish(r, Reply(r, "ok", TRUE)) /\ r.kind = "logout"
      /\ owner' = owner /\ alive' \subseteq alive /\ must' = must
      /\ UNCHANGED <<jar, tabs>> /\ UNCHANGED bounds
  BY DEF ServeLogout
<1>2. "ok" \in Status /\ TRUE \in BOOLEAN
  BY DEF Status
<1>3. AnsOK(Reply(r, "ok", TRUE), owner, alive')
  BY <1>1, <1>2, InRequests, ReplyOK
<1>4. Others'
  BY <1>1, SameOthers
<1> QED  BY <1>1, <1>3, <1>4, FinishKeeps

LEMMA ServePasswordKeeps ==
  ASSUME IInv, NEW r \in requests, ServePassword(r)
  PROVE  IInv'
<1>0. PICK status \in {"ok", "unauthorized", "error"} : Finish(r, Reply(r, status, FALSE))
  BY DEF ServePassword
<1>1. /\ Finish(r, Reply(r, status, FALSE)) /\ r.kind = "password"
      /\ owner' = owner /\ alive' \subseteq alive /\ UNCHANGED bounds
      /\ UNCHANGED <<jar, tabs>>
  BY <1>0 DEF ServePassword
<1>2. status \in Status /\ FALSE \in BOOLEAN
  BY DEF Status
<1>3. AnsOK(Reply(r, status, FALSE), owner, alive')
  BY <1>1, <1>2, InRequests, ReplyOK
<1>4. Others'
  <2>1. must' \in [User -> BOOLEAN]
    BY DEF IInv, Others, ServePassword
  <2> QED  BY <1>1, <2>1 DEF IInv, Others, bounds
<1> QED  BY <1>1, <1>3, <1>4, FinishKeeps

LEMMA RefuseLoginKeeps ==
  ASSUME IInv, NEW r \in requests, RefuseLogin(r)
  PROVE  IInv'
<1>0. PICK status \in {"unauthorized", "throttled"} : Finish(r, Reply(r, status, FALSE))
  BY DEF RefuseLogin
<1>1. /\ Finish(r, Reply(r, status, FALSE)) /\ r.kind = "login"
      /\ owner' = owner /\ alive' = alive /\ must' = must
      /\ UNCHANGED <<jar, tabs>> /\ UNCHANGED bounds
  BY <1>0 DEF RefuseLogin, server
<1>2. status \in Status /\ FALSE \in BOOLEAN /\ status # "ok"
  BY DEF Status
<1>3. AnsOK(Reply(r, status, FALSE), owner, alive')
  BY <1>1, <1>2, InRequests, ReplyOK
<1>4. Others'
  BY <1>1, SameOthers
<1> QED  BY <1>1, <1>3, <1>4, FinishKeeps

LEMMA ReadAccountKeeps ==
  ASSUME IInv, NEW r \in requests, ReadAccount(r)
  PROVE  IInv'
<1> DEFINE q == [tab |-> r.tab, kind |-> r.kind, who |-> r.who, cookie |-> r.cookie,
                 header |-> r.header, read |-> must[r.who]]
<1>1. /\ requests' = (requests \ {r}) \cup {q} /\ r.kind = "login"
      /\ owner' = owner /\ alive' = alive /\ must' = must
      /\ UNCHANGED <<jar, tabs>> /\ UNCHANGED bounds /\ answers' = answers
  BY DEF ReadAccount, server
<1>2. ReqOK(r, owner)
  BY InRequests
<1>3. must[r.who] \in BOOLEAN
  BY <1>1, <1>2 DEF ReqOK, IInv, Others
<1>4. q \in Request
  BY <1>2, <1>3 DEF ReqOK, Request
<1>5. q.kind = r.kind /\ q.who = r.who /\ q.cookie = r.cookie /\ q.header = r.header
  OBVIOUS
<1> HIDE DEF q
<1>6. ReqOK(q, owner')
  BY <1>1, <1>2, <1>4, <1>5 DEF ReqOK
<1>7. Others'
  BY <1>1, SameOthers
<1>8. Grows(owner, owner') /\ alive' \subseteq Opened(owner')
  BY <1>1, SameOwners DEF IInv
<1> QED  BY <1>1, <1>6, <1>7, <1>8, ServerStep

LEMMA OpenSessionKeeps ==
  ASSUME IInv, NEW r \in requests, NEW s \in Session, OpenSession(r, s)
  PROVE  IInv'
<1> DEFINE a == ReplyMe(r, s, r.who, r.read)
<1>1. /\ Finish(r, a) /\ r.kind = "login" /\ r.read # None /\ owner[s] = None
      /\ owner' = [owner EXCEPT ![s] = r.who] /\ alive' = alive \cup {s} /\ must' = must
      /\ UNCHANGED <<jar, tabs>> /\ UNCHANGED bounds
  BY DEF OpenSession
<1>2. r.who \in User /\ Origin(r) /\ r \in Request
  BY <1>1, InRequests DEF ReqOK
<1>3. r.read \in BOOLEAN
  BY <1>1, <1>2 DEF Request
<1>4. owner \in [Session -> User \cup {None}]
  BY DEF IInv
<1>5. owner'[s] = r.who /\ \A x \in Session \ {s} : owner'[x] = owner[x]
  BY <1>1, <1>4
<1>6. owner' \in [Session -> User \cup {None}]
  BY <1>1, <1>2, <1>4
<1>7. Grows(owner, owner')
  BY <1>1, <1>4, <1>5, <1>6 DEF Grows
<1>8. s \in Opened(owner') /\ s \notin Known(owner)
  BY <1>1, <1>2, <1>5, NoneAssumption DEF Opened, Known
<1>9. alive' \subseteq Opened(owner')
  BY <1>1, <1>7, <1>8 DEF IInv, Opened, Grows
<1>10. AnsOK(a, owner', alive')
  BY <1>2, <1>3, <1>5, <1>8, ReplyMeOK
<1> HIDE DEF a
<1>11. requests' \subseteq requests /\ answers' = answers \cup {a}
  BY <1>1 DEF Finish
<1>12. Others'
  BY <1>1, SameOthers
<1> QED  BY <1>1, <1>7, <1>8, <1>9, <1>10, <1>11, <1>12, ServerStep

LEMMA ServeKeeps ==
  ASSUME IInv, NEW r \in requests, Serve(r)
  PROVE  IInv'
BY RefuseKeeps, ServeMeKeeps, ServePageKeeps, ServeLogoutKeeps, ServePasswordKeeps,
   RefuseLoginKeeps, ReadAccountKeeps, OpenSessionKeeps DEF Serve

LEMMA ExpireKeeps ==
  ASSUME IInv, NEW s \in Session, Expire(s)
  PROVE  IInv'
<1>1. /\ owner' = owner /\ alive' \subseteq alive /\ must' = must
      /\ UNCHANGED <<jar, tabs>> /\ UNCHANGED bounds
      /\ requests' = requests /\ answers' = answers
  BY DEF Expire
<1>2. Grows(owner, owner') /\ alive' \subseteq Opened(owner')
  BY <1>1, SameOwners DEF IInv
<1>3. Others'
  BY <1>1, SameOthers
<1> QED  BY <1>1, <1>2, <1>3, ServerStep

LEMMA ResetKeeps ==
  ASSUME IInv, NEW u \in User, ResetPassword(u)
  PROVE  IInv'
<1>1. /\ owner' = owner /\ alive' \subseteq alive /\ losses' = losses
      /\ must' = [must EXCEPT ![u] = TRUE] /\ resets < MaxResets /\ resets' = resets + 1
      /\ UNCHANGED <<jar, tabs>> /\ requests' = requests /\ answers' = answers
  BY DEF ResetPassword
<1>2. Grows(owner, owner') /\ alive' \subseteq Opened(owner')
  BY <1>1, SameOwners DEF IInv
<1>3. must' \in [User -> BOOLEAN]
  BY <1>1 DEF IInv, Others
<1>4. resets' \in 0..MaxResets
  BY <1>1, BoundsAssumption DEF IInv, Others
<1>5. Others'
  BY <1>1, <1>3, <1>4 DEF IInv, Others
<1> QED  BY <1>1, <1>2, <1>5, ServerStep

LEMMA LoseKeeps ==
  ASSUME IInv, Lose
  PROVE  IInv'
<1>1. /\ losses < MaxLosses /\ losses' = losses + 1
      /\ UNCHANGED <<jar, tabs>> /\ owner' = owner /\ alive' = alive
      /\ must' = must /\ resets' = resets
  BY DEF Lose, server
<1>2. Others'
  <2>1. losses' \in 0..MaxLosses
    BY <1>1, BoundsAssumption DEF IInv, Others
  <2> QED  BY <1>1, <2>1 DEF IInv, Others
<1>3. "lost" \in Status /\ FALSE \in BOOLEAN
  BY DEF Status
<1>4. ASSUME NEW r \in requests, Finish(r, Reply(r, "lost", FALSE))
      PROVE  IInv'
  <2>1. AnsOK(Reply(r, "lost", FALSE), owner, alive')
    BY <1>3, InRequests, ReplyOK
  <2> QED  BY <1>1, <1>2, <1>4, <2>1, FinishKeeps
<1>5. ASSUME NEW a \in answers, UNCHANGED requests,
             answers' = (answers \ {a}) \cup {Reply(a, "lost", FALSE)}
      PROVE  IInv'
  <2>1. AnsOK(a, owner, alive)
    BY DEF IInv
  <2>2. Origin(a) /\ a.cookie \in Known(owner)
    BY <2>1 DEF AnsOK, Answer, Origin
  <2>3. AnsOK(Reply(a, "lost", FALSE), owner, alive)
    BY <1>3, <2>2, ReplyOK
  <2>4. Grows(owner, owner') /\ alive' \subseteq Opened(owner')
    BY <1>1, SameOwners DEF IInv
  <2> QED  BY <1>1, <1>2, <1>5, <2>3, <2>4, ServerStep
<1> QED  BY <1>4, <1>5 DEF Lose

-----------------------------------------------------------------------------
(* The tabs *)

\* A call is sent: of the tabs only what the login form shows may change.
LEMMA SendKeeps ==
  ASSUME IInv, UNCHANGED <<server, jar, user, gate, ready, token, onAccount, answers, bounds>>,
         busy' \in [Tab -> BOOLEAN], throttled' \in [Tab -> BOOLEAN],
         \A q \in requests' : q \in requests \/ ReqOK(q, owner)
  PROVE  IInv'
<1>1. TabTypes'
  BY DEF IInv, TabTypes
<1>2. jar' \in Known(owner) /\ answers' \subseteq answers
  BY DEF IInv
<1>3. \A t \in Tab : TabOK(user'[t], token'[t], owner)
  BY DEF IInv
<1> QED  BY <1>1, <1>2, <1>3, TabStep

\* On the pages and before the gate there is a user.
LEMMA SomebodyThere ==
  ASSUME IInv, NEW t \in Tab, Screen(t) \in {"pages", "gate"}
  PROVE  user[t] # None /\ user[t] \in User
<1>1. ready[t] \in BOOLEAN /\ gate[t] \in BOOLEAN /\ user[t] \in User \cup {None}
  BY DEF IInv, TabTypes
<1>2. user[t] # None
  BY <1>1 DEF Screen
<1> QED  BY <1>1, <1>2

\* A tab sends what the user on its screen asks for.
LEMMA OwnCallKeeps ==
  ASSUME IInv, NEW t \in Tab, NEW kind \in Mutating, Screen(t) \in {"pages", "gate"},
         Send(t, kind, user[t]), UNCHANGED <<busy, throttled>>
  PROVE  IInv'
<1>1. user[t] # None /\ user[t] \in User \cup {None}
  BY SomebodyThere
<1>2. kind \in Kind /\ kind # "login"
  BY DEF Kind, Mutating
<1>3. ReqOK(Sent(t, kind, user[t]), owner)
  BY <1>1, <1>2, SentOK
<1>4. \A q \in requests' : q \in requests \/ ReqOK(q, owner)
  BY <1>3 DEF Send
<1>5. busy' \in [Tab -> BOOLEAN] /\ throttled' \in [Tab -> BOOLEAN]
  BY DEF IInv, TabTypes
<1> QED  BY <1>4, <1>5, SendKeeps DEF Send

LEMMA OperatorCallKeeps ==
  ASSUME IInv, NEW t \in Tab,
         SignOut(t) \/ Act(t) \/ SubmitPassword(t) \/ SubmitUsername(t)
  PROVE  IInv'
<1>1. {"logout", "act", "password", "username"} \subseteq Mutating
  BY DEF Mutating
<1>2. ASSUME PasswordFormShown(t)
      PROVE  Screen(t) \in {"pages", "gate"}
  BY <1>2 DEF PasswordFormShown, At
<1>3. CASE SignOut(t)
  BY <1>1, <1>3, OwnCallKeeps DEF SignOut
<1>4. CASE Act(t)
  BY <1>1, <1>4, OwnCallKeeps DEF Act, At
<1>5. CASE SubmitPassword(t)
  BY <1>1, <1>2, <1>5, OwnCallKeeps DEF SubmitPassword
<1>6. CASE SubmitUsername(t)
  BY <1>1, <1>2, <1>6, OwnCallKeeps DEF SubmitUsername
<1> QED  BY <1>3, <1>4, <1>5, <1>6

LEMMA PollKeeps ==
  ASSUME IInv, NEW t \in Tab, Poll(t)
  PROVE  IInv'
<1>1. "poll" \in Kind /\ "poll" \notin Mutating
  BY DEF Kind, Mutating
<1>2. ReqOK(Sent(t, "poll", None), owner)
  BY <1>1, SentOK
<1>3. \A q \in requests' : q \in requests \/ ReqOK(q, owner)
  BY <1>2 DEF Poll, Send
<1>4. busy' \in [Tab -> BOOLEAN] /\ throttled' \in [Tab -> BOOLEAN]
  BY DEF IInv, TabTypes, Poll
<1> QED  BY <1>3, <1>4, SendKeeps DEF Poll, Send

LEMMA SubmitLoginKeeps ==
  ASSUME IInv, NEW t \in Tab, NEW u \in User, SubmitLogin(t, u)
  PROVE  IInv'
<1>1. "login" \in Kind /\ "login" \notin Mutating
  BY DEF Kind, Mutating
<1>2. ReqOK(Sent(t, "login", u), owner)
  BY <1>1, SentOK
<1>3. \A q \in requests' : q \in requests \/ ReqOK(q, owner)
  BY <1>2 DEF SubmitLogin, Send
<1>4. busy' \in [Tab -> BOOLEAN] /\ throttled' \in [Tab -> BOOLEAN]
  BY DEF IInv, TabTypes, SubmitLogin
<1> QED  BY <1>3, <1>4, SendKeeps DEF SubmitLogin, Send

\* The tab's user is set to somebody whose session its token names, or to nobody.
LEMMA SetUserOK ==
  ASSUME IInv, NEW t \in Tab, NEW u \in User \cup {None}, NEW g \in BOOLEAN,
         NEW k \in Session \cup {None}, TabOK(u, k, owner),
         SetUser(t, u, g), token' = [token EXCEPT ![t] = k],
         UNCHANGED onAccount, ready' \in [Tab -> BOOLEAN],
         FreshLogin(t) \/ UNCHANGED <<busy, throttled>>
  PROVE  TabTypes' /\ \A x \in Tab : TabOK(user'[x], token'[x], owner)
<1>1. TabTypes
  BY DEF IInv
<1>2. /\ user' = [user EXCEPT ![t] = u] /\ gate' = [gate EXCEPT ![t] = g]
  BY DEF SetUser
<1>3. user' \in [Tab -> User \cup {None}] /\ gate' \in [Tab -> BOOLEAN]
  BY <1>1, <1>2 DEF TabTypes
<1>4. token' \in [Tab -> Session \cup {None}]
  BY <1>1 DEF TabTypes
<1>5. busy' \in [Tab -> BOOLEAN] /\ throttled' \in [Tab -> BOOLEAN]
  BY <1>1 DEF TabTypes, FreshLogin
<1>6. TabTypes'
  BY <1>1, <1>3, <1>4, <1>5 DEF TabTypes
<1>7. ASSUME NEW x \in Tab
      PROVE  TabOK(user'[x], token'[x], owner)
  <2>1. CASE x = t
    <3>1. user'[x] = u /\ token'[x] = k
      BY <1>1, <1>2, <2>1 DEF TabTypes
    <3> QED  BY <3>1
  <2>2. CASE x # t
    <3>1. user'[x] = user[x] /\ token'[x] = token[x]
      BY <1>1, <1>2, <2>2 DEF TabTypes
    <3> QED  BY <3>1 DEF IInv
  <2> QED  BY <2>1, <2>2
<1> QED  BY <1>6, <1>7

LEMMA NobodyOK ==
  ASSUME NEW k, NEW o
  PROVE  TabOK(None, k, o)
BY DEF TabOK

LEMMA ReloadKeeps ==
  ASSUME IInv, NEW t \in Tab, Reload(t)
  PROVE  IInv'
<1>1. jar \in Session \cup {None} /\ jar \in Known(owner)
  BY DEF IInv, Known, Opened
<1>2. ready' \in [Tab -> BOOLEAN]
  BY DEF IInv, TabTypes, Reload
<1>3. TabTypes' /\ \A x \in Tab : TabOK(user'[x], token'[x], owner)
  BY <1>1, <1>2, NobodyOK, SetUserOK DEF Reload
<1>4. "me" \in Kind /\ "me" \notin Mutating
  BY DEF Kind, Mutating
<1>5. ReqOK(Sent(t, "me", None), owner)
  BY <1>4, SentOK
<1>6. \A q \in requests' : q \in requests \/ ReqOK(q, owner)
  BY <1>5 DEF Reload
<1>7. answers' \subseteq answers /\ jar' = jar /\ UNCHANGED <<server, bounds>>
  BY DEF Reload
<1> QED  BY <1>1, <1>3, <1>6, <1>7, TabStep

LEMMA NavigateKeeps ==
  ASSUME IInv, NEW t \in Tab, Navigate(t)
  PROVE  IInv'
<1>1. onAccount' \in [Tab -> BOOLEAN]
  BY DEF IInv, TabTypes, Navigate
<1>2. TabTypes'
  BY <1>1 DEF IInv, TabTypes, Navigate
<1>3. /\ UNCHANGED <<server, bounds>> /\ jar' \in Known(owner)
      /\ requests' = requests /\ answers' = answers
      /\ \A x \in Tab : TabOK(user'[x], token'[x], owner)
  BY DEF IInv, Navigate
<1> QED  BY <1>2, <1>3, TabStep

-----------------------------------------------------------------------------
(* The answers *)

\* What every answer that reaches its tab has in common.
LEMMA Delivery ==
  ASSUME IInv, NEW a \in answers
  PROVE  /\ AnsOK(a, owner, alive) /\ a.tab \in Tab /\ a.must \in BOOLEAN
         /\ a.token \in Session \cup {None}
<1>1. AnsOK(a, owner, alive)
  BY DEF IInv
<1> QED  BY <1>1 DEF AnsOK, Answer

LEMMA CookieOK ==
  ASSUME IInv, NEW a \in answers, SetCookie(a)
  PROVE  jar' \in Known(owner)
<1>1. a.token \in Known(owner)
  BY Delivery DEF AnsOK
<1>2. jar \in Known(owner) /\ None \in Known(owner)
  BY DEF IInv, Known
<1> QED  BY <1>1, <1>2 DEF SetCookie

\* An answer that says who is signed in, or one after which nobody is.
LEMMA ArrivalOK ==
  ASSUME IInv, NEW a \in answers, UNCHANGED onAccount, ready' \in [Tab -> BOOLEAN],
         \/ /\ a.kind \in {"login", "me"} /\ a.status = "ok"
            /\ token' = [token EXCEPT ![a.tab] = a.token]
            /\ SetUser(a.tab, a.user, a.must) /\ RemountLogin(a.tab, a.user)
         \/ /\ UNCHANGED token
            /\ SetUser(a.tab, None, FALSE) /\ RemountLogin(a.tab, None)
  PROVE  TabTypes' /\ \A x \in Tab : TabOK(user'[x], token'[x], owner)
<1>1. FreshLogin(a.tab) \/ UNCHANGED <<busy, throttled>>
  BY DEF RemountLogin
<1>2. CASE /\ a.kind \in {"login", "me"} /\ a.status = "ok"
           /\ token' = [token EXCEPT ![a.tab] = a.token]
           /\ SetUser(a.tab, a.user, a.must)
  <2>1. TabOK(a.user, a.token, owner) /\ a.user \in User \cup {None}
    BY <1>2, Delivery DEF AnsOK, TabOK
  <2> QED  BY <1>1, <1>2, <2>1, Delivery, SetUserOK
<1>3. CASE UNCHANGED token /\ SetUser(a.tab, None, FALSE)
  <2>1. token \in [Tab -> Session \cup {None}] /\ a.tab \in Tab
    BY Delivery DEF IInv, TabTypes
  <2>2. token' = [token EXCEPT ![a.tab] = token[a.tab]] /\ token[a.tab] \in Session \cup {None}
    BY <1>3, <2>1
  <2>3. TabOK(None, token[a.tab], owner) /\ FALSE \in BOOLEAN
    BY NobodyOK
  <2> QED  BY <1>1, <1>3, <2>1, <2>2, <2>3, SetUserOK
<1> QED  BY <1>2, <1>3

LEMMA LoginAnsweredOK ==
  ASSUME IInv, NEW a \in answers, LoginAnswered(a), UNCHANGED onAccount
  PROVE  TabTypes' /\ \A x \in Tab : TabOK(user'[x], token'[x], owner)
<1>1. ready' \in [Tab -> BOOLEAN]
  BY DEF IInv, TabTypes, LoginAnswered
<1>2. CASE a.status = "ok"
  BY <1>1, <1>2, ArrivalOK DEF LoginAnswered
<1>3. CASE a.status # "ok"
  <2>1. UNCHANGED <<token, user, gate, ready>>
    BY <1>3 DEF LoginAnswered
  <2>2. a.tab \in Tab
    BY Delivery
  <2>3. busy \in [Tab -> BOOLEAN] /\ throttled \in [Tab -> BOOLEAN]
    BY DEF IInv, TabTypes
  <2>4. busy' \in [Tab -> BOOLEAN]
    BY <1>3, <2>2, <2>3 DEF LoginAnswered
  <2>5. throttled' \in [Tab -> BOOLEAN]
    <3> DEFINE shown == IF busy[a.tab] THEN a.status = "throttled" ELSE throttled[a.tab]
    <3>1. throttled' = [throttled EXCEPT ![a.tab] = shown]
      BY <1>3 DEF LoginAnswered
    <3>2. throttled[a.tab] \in BOOLEAN
      BY <2>2, <2>3
    <3>3. shown \in BOOLEAN
      BY <3>2
    <3> QED  BY <2>2, <2>3, <3>1, <3>3
  <2> QED  BY <2>1, <2>4, <2>5 DEF IInv, TabTypes
<1> QED  BY <1>2, <1>3

LEMMA MeAnsweredOK ==
  ASSUME IInv, NEW a \in answers, MeAnswered(a), UNCHANGED onAccount
  PROVE  TabTypes' /\ \A x \in Tab : TabOK(user'[x], token'[x], owner)
<1>1. ready' \in [Tab -> BOOLEAN]
  BY DEF IInv, TabTypes, MeAnswered
<1> QED  BY <1>1, ArrivalOK DEF MeAnswered

LEMMA LogoutAnsweredOK ==
  ASSUME IInv, NEW a \in answers, LogoutAnswered(a), UNCHANGED onAccount
  PROVE  TabTypes' /\ \A x \in Tab : TabOK(user'[x], token'[x], owner)
<1>1. ready' \in [Tab -> BOOLEAN]
  BY DEF IInv, TabTypes, LogoutAnswered
<1> QED  BY <1>1, ArrivalOK DEF LogoutAnswered

LEMMA CallAnsweredOK ==
  ASSUME IInv, NEW a \in answers, CallAnswered(a), UNCHANGED onAccount
  PROVE  TabTypes' /\ \A x \in Tab : TabOK(user'[x], token'[x], owner)
<1>1. ready' \in [Tab -> BOOLEAN]
  BY DEF IInv, TabTypes, CallAnswered
<1>2. CASE Bounces(a)
  BY <1>1, <1>2, ArrivalOK DEF CallAnswered
<1>3. CASE ~Bounces(a)
  BY <1>3 DEF CallAnswered, IInv, TabTypes
<1> QED  BY <1>2, <1>3

LEMMA ReceiveKeeps ==
  ASSUME IInv, NEW a \in answers, Receive(a)
  PROVE  IInv'
<1>1. TabTypes' /\ \A x \in Tab : TabOK(user'[x], token'[x], owner)
  BY LoginAnsweredOK, MeAnsweredOK, LogoutAnsweredOK, CallAnsweredOK DEF Receive
<1>2. jar' \in Known(owner)
  BY CookieOK DEF Receive
<1>3. answers' \subseteq answers
  BY DEF Receive, LoginAnswered, MeAnswered, LogoutAnswered, CallAnswered
<1>4. \A q \in requests' : q \in requests \/ ReqOK(q, owner)
  <2>1. "me" \in Kind /\ "me" \notin Mutating
    BY DEF Kind, Mutating
  <2>2. a.tab \in Tab
    BY Delivery
  <2>3. ReqOK(Sent(a.tab, "me", None), owner)
    BY <2>1, <2>2, SentOK
  <2>4. requests' \subseteq requests \cup {Sent(a.tab, "me", None)}
    BY DEF Receive, LoginAnswered, MeAnswered, LogoutAnswered, CallAnswered
  <2> QED  BY <2>3, <2>4
<1>5. UNCHANGED <<server, bounds>>
  BY DEF Receive
<1> QED  BY <1>1, <1>2, <1>3, <1>4, <1>5, TabStep

-----------------------------------------------------------------------------
(* Every step *)

LEMMA InitInv ==
  ASSUME Init
  PROVE  IInv
<1>1. TabTypes
  BY DEF Init, TabTypes
<1>2. Others
  BY BoundsAssumption DEF Init, Others
<1>3. /\ owner \in [Session -> User \cup {None}] /\ alive \subseteq Opened(owner)
      /\ jar \in Known(owner) /\ jar = None /\ answers = {}
  BY DEF Init, Known
<1>4. \A t \in Tab : TabOK(user[t], token[t], owner)
  BY DEF Init, TabOK
<1>5. ASSUME NEW t \in Tab
      PROVE  ReqOK(Sent(t, "me", None), owner)
  <2> DEFINE q == Sent(t, "me", None)
  <2>1. "me" \in Kind /\ "me" \notin Mutating \cup {"login"}
    BY DEF Kind, Mutating
  <2>2. q = [tab |-> t, kind |-> "me", who |-> None, cookie |-> None, header |-> None,
             read |-> None]
    BY <1>3, <2>1 DEF Sent
  <2>3. q \in Request
    BY <2>1, <2>2 DEF Request
  <2>4. q.cookie = None /\ q.kind = "me"
    BY <2>2
  <2> HIDE DEF q
  <2>5. ReqOK(q, owner)
    BY <1>3, <2>1, <2>3, <2>4 DEF ReqOK
  <2> QED  BY <2>5 DEF q
<1>6. \A r \in requests : ReqOK(r, owner)
  BY <1>5 DEF Init
<1> QED  BY <1>1, <1>2, <1>3, <1>4, <1>6 DEF IInv

LEMMA StepKeeps ==
  ASSUME IInv, [Next]_vars
  PROVE  IInv'
<1>1. CASE UNCHANGED vars
  <2>1. /\ UNCHANGED <<server, bounds>> /\ jar' = jar /\ UNCHANGED tabs
        /\ requests' = requests /\ answers' = answers
    BY <1>1 DEF vars
  <2>2. TabTypes' /\ \A t \in Tab : TabOK(user'[t], token'[t], owner)
    BY <2>1 DEF IInv, TabTypes, tabs
  <2>3. jar' \in Known(owner)
    BY <2>1 DEF IInv
  <2> QED  BY <2>1, <2>2, <2>3, TabStep
<1>2. ASSUME NEW t \in Tab, Operator(t) \/ Poll(t)
      PROVE  IInv'
  BY <1>2, ReloadKeeps, NavigateKeeps, OperatorCallKeeps, SubmitLoginKeeps, PollKeeps
     DEF Operator
<1>3. CASE Next
  BY <1>2, <1>3, ServeKeeps, ReceiveKeeps, ExpireKeeps, ResetKeeps, LoseKeeps DEF Next
<1> QED  BY <1>1, <1>3

-----------------------------------------------------------------------------
(* The theorems *)

LEMMA Invariance == Spec => []IInv
<1>1. Init => IInv
  BY InitInv
<1>2. IInv /\ [Next]_vars => IInv'
  BY StepKeeps
<1> QED  BY <1>1, <1>2, PTL DEF Spec

\* Whatever is changed on the server is changed in the name of the user who was
\* on the screen that asked for it, whoever has signed in from another tab since
\* (api.ts request, requireCSRF).
THEOREM CallsActAsShown == Spec => []ActsAsShown
<1>1. IInv => ActsAsShown
  BY InvActs
<1> QED  BY <1>1, Invariance, PTL

\* A tab is thrown back to the login screen, by any answer but that to a change
\* of the password, only when the session the call was made with is gone, for
\* good (api.ts request, middleware requireAuth).
THEOREM BouncedWhenGone == Spec => []GoneMeansGone
<1>1. IInv => GoneMeansGone
  BY InvGone
<1> QED  BY <1>1, Invariance, PTL

\* Every variable of Session keeps its type.
THEOREM SessionTyped == Spec => []TypeOK
<1>1. IInv => TypeOK
  BY InvTypeOK
<1> QED  BY <1>1, Invariance, PTL

=============================================================================
