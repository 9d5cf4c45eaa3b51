-------------------------- MODULE WebSessionProofs --------------------------
(***************************************************************************)
(* Theorems about WebSession, for every number of tabs, sessions and login *)
(* flows.                                                                  *)
(***************************************************************************)
EXTENDS WebSession, TLAPS

Secret == {None} \cup Session
Request == [kind : Unsafe \cup {"none", "callback"}, header : Secret,
            flow : {None} \cup Flow, cookies : Jar]
What == {"none", "csrf", "refused", "set", "redirect", "clear", "state",
         "login"}

\* What an answer on its way carries.
AnswerSound(t) ==
    /\ pc[t] # "answered" => answer[t] = NoReply
    /\ answer[t].what \in {"set", "login"} => answer[t].session \in Session
    /\ answer[t].what = "clear" => answer[t].session \in Secret
    /\ answer[t].what = "state" =>
          answer[t].session \in 1..flows /\ answer[t].session \notin away

\* A page prepares a POST; a request the handler works on carries a refresh
\* token.
Reading(t) ==
    /\ pc[t] = "ready" => req[t].kind \in Unsafe
    /\ pc[t] = "read" =>
          req[t].kind = "refresh" /\ req[t].cookies.refresh \in Session

\* The header a page has read fits the cookie, until the cookie is swapped.
HeaderSound(t) ==
    /\ pc[t] = "ready" /\ t \notin swapped =>
          /\ req[t].header # None
          /\ req[t].header = jar.csrf \/ jar.access = None
    /\ pc[t] = "sent" /\ t \notin swapped => CsrfPasses(req[t])

\* A callback fits the cookie it was sent with unless it came too late.
FlowSound(t) ==
    /\ t \in late => /\ pc[t] \in {"sent", "answered"}
                     /\ req[t].kind = "callback"
    /\ pc[t] = "sent" /\ req[t].kind = "callback" =>
          (StateFits(req[t]) <=> t \notin late)

TabInv(t) ==
    AnswerSound(t) /\ Reading(t) /\ HeaderSound(t) /\ FlowSound(t)

\* The state cookie is that of the one flow that is not spoilt; flows are
\* numbered apart.
StateInv ==
    /\ jar.state \in {None} \cup away
    /\ \A f \in away : f \in spoilt <=> jar.state # f
    /\ \A t, u \in Tab :
          answer[t].what = "state" /\ answer[u].what = "state" /\ t # u =>
              answer[t].session # answer[u].session

IInv ==
    /\ TypeOK
    /\ \A t \in Tab : TabInv(t)
    /\ StateInv
    /\ CookiesOfOneAnswer
    /\ CsrfRefusesOnlyRaces
    /\ OvertakenFlowFails
-----------------------------------------------------------------------------
\* The parts of TypeOK.
BrowserTypes ==
    /\ pc \in [Tab -> {"idle", "ready", "sent", "read", "answered"}]
    /\ req \in [Tab -> Request]
    /\ answer \in [Tab -> [what : What, session : Nat]]
    /\ jar \in Jar

ServerTypes ==
    /\ token \in [Session -> {"unused", "put", "live", "revoked", "void"}]
    /\ commits \subseteq [old : SUBSET Session, new : SUBSET Session]
    /\ family \in [Session -> Secret]
    /\ flows \in 0..MaxFlow /\ codes \subseteq 1..flows

HistoryTypes ==
    /\ swapped \subseteq Tab /\ tangled \in BOOLEAN /\ out \in BOOLEAN
    /\ left \in Secret
    /\ spoilt \subseteq away /\ away \subseteq 1..flows /\ late \subseteq Tab

LEMMA TypeParts == TypeOK <=> BrowserTypes /\ ServerTypes /\ HistoryTypes
  BY DEF TypeOK, BrowserTypes, ServerTypes, HistoryTypes, Request, What, Secret

LEMMA NextTypeParts ==
  BrowserTypes' /\ ServerTypes' /\ HistoryTypes' => TypeOK'
  BY DEF TypeOK, BrowserTypes, ServerTypes, HistoryTypes, Request, What,
         Secret, Jar, Session, Flow

LEMMA NoneTyped ==
  /\ NoCookies \in Jar
  /\ NoRequest \in Request
  /\ NoReply \in [what : What, session : Nat]
  BY DEF None, NoCookies, NoRequest, NoReply, Jar, Request, What, Secret

LEMMA InitInv == Init => IInv
<1> SUFFICES ASSUME Init PROVE IInv
  OBVIOUS
<1>1. TypeOK
  <2>1. BrowserTypes
    BY NoneTyped DEF Init, BrowserTypes
  <2>2. ServerTypes
    BY BoundAssumption DEF Init, ServerTypes, Secret
  <2>3. HistoryTypes
    BY DEF Init, HistoryTypes, Secret
  <2> QED
    BY <2>1, <2>2, <2>3, TypeParts
<1>2. \A t \in Tab : TabInv(t)
  BY DEF Init, TabInv, AnswerSound, Reading, HeaderSound, FlowSound,
         NoReply, NoRequest
<1>3. StateInv /\ CookiesOfOneAnswer
  BY DEF Init, StateInv, CookiesOfOneAnswer, NoCookies, NoReply
<1>4. CsrfRefusesOnlyRaces /\ OvertakenFlowFails
  BY DEF Init, CsrfRefusesOnlyRaces, OvertakenFlowFails, NoReply
<1> QED
  BY <1>1, <1>2, <1>3, <1>4 DEF IInv
-----------------------------------------------------------------------------
(* The server. *)

\* An answer to the request of one tab, that says what the request deserves
\* and leaves the browser alone.
LEMMA ReplyStep ==
  ASSUME IInv, NEW t \in Tab, NEW what \in What, NEW s \in Nat,
         Reply(t, what, s), UNCHANGED <<jar, away, historyVars>>,
         flows' \in 0..MaxFlow, flows <= flows',
         what \in {"set", "login"} => s \in Session,
         what = "clear" => s \in Secret,
         what = "state" => s = flows' /\ flows < flows',
         what = "csrf" => t \in swapped,
         what = "refused" /\ req[t].kind = "callback" => t \in late,
         what = "login" => t \notin late,
         ServerTypes'
  PROVE  IInv'
<1> USE DEF IInv, historyVars, sessionHistory, flowHistory
<1>0. /\ flows \in Nat /\ flows' \in Nat
      /\ away \subseteq 1..flows
      /\ req \in [Tab -> Request]
      /\ answer \in [Tab -> [what : What, session : Nat]]
      /\ pc \in [Tab -> {"idle", "ready", "sent", "read", "answered"}]
      /\ jar \in Jar
  BY BoundAssumption, TypeParts
     DEF BrowserTypes, ServerTypes, HistoryTypes
<1>1. /\ pc' = [pc EXCEPT ![t] = "answered"]
      /\ answer' = [answer EXCEPT ![t] = [what |-> what, session |-> s]]
      /\ req' = [req EXCEPT ![t] = [NoRequest EXCEPT !.kind = req[t].kind]]
      /\ jar' = jar /\ away' = away /\ swapped' = swapped /\ late' = late
      /\ spoilt' = spoilt
  BY DEF Reply
<1>2. [NoRequest EXCEPT !.kind = req[t].kind] \in Request
  BY <1>0, NoneTyped DEF Request
<1>3. BrowserTypes'
  BY <1>0, <1>1, <1>2 DEF BrowserTypes
<1>4. /\ pc'[t] = "answered" /\ answer'[t].what = what
      /\ answer'[t].session = s /\ req'[t].kind = req[t].kind
  BY <1>0, <1>1, NoneTyped DEF Request, NoRequest
<1>5. \A u \in Tab : u # t => /\ pc'[u] = pc[u] /\ answer'[u] = answer[u]
                              /\ req'[u] = req[u]
  BY <1>0, <1>1
<1>6. ASSUME NEW u \in Tab PROVE TabInv(u)'
  <2>1. CASE u = t
    <3>1. AnswerSound(u)'
      BY <1>0, <1>1, <1>4, <2>1 DEF AnswerSound
    <3>2. Reading(u)' /\ HeaderSound(u)'
      BY <1>4, <2>1 DEF Reading, HeaderSound
    <3>3. FlowSound(u)'
      BY <1>1, <1>4, <2>1 DEF TabInv, FlowSound
    <3> QED
      BY <3>1, <3>2, <3>3 DEF TabInv
  <2>2. CASE u # t
    <3>0. TabInv(u)
      OBVIOUS
    <3>1. AnswerSound(u)'
      BY <1>0, <1>1, <1>5, <2>2, <3>0 DEF TabInv, AnswerSound
    <3>2. Reading(u)'
      BY <1>5, <2>2, <3>0 DEF TabInv, Reading
    <3>3. HeaderSound(u)'
      BY <1>1, <1>5, <2>2, <3>0 DEF TabInv, HeaderSound, CsrfPasses
    <3>4. FlowSound(u)'
      BY <1>1, <1>5, <2>2, <3>0 DEF TabInv, FlowSound, StateFits
    <3> QED
      BY <3>1, <3>2, <3>3, <3>4 DEF TabInv
  <2> QED
    BY <2>1, <2>2
<1>7. StateInv'
  <2>1. ASSUME NEW u \in Tab, NEW v \in Tab, answer'[u].what = "state",
               answer'[v].what = "state", u # v
        PROVE  answer'[u].session # answer'[v].session
    <3>1. \A w \in Tab : answer[w].what = "state" =>
                answer[w].session \in 1..flows
      BY DEF TabInv, AnswerSound
    <3> QED
      BY <1>0, <1>4, <1>5, <2>1, <3>1 DEF StateInv
  <2> QED
    BY <1>1, <2>1 DEF StateInv
<1>8. CookiesOfOneAnswer'
  BY <1>1 DEF CookiesOfOneAnswer
<1>9. CsrfRefusesOnlyRaces'
  BY <1>1, <1>4, <1>5 DEF CsrfRefusesOnlyRaces
<1>10. OvertakenFlowFails'
  BY <1>1, <1>4, <1>5 DEF OvertakenFlowFails
<1>11. HistoryTypes'
  BY <1>0, <1>1, TypeParts DEF HistoryTypes
<1>12. TypeOK'
  BY <1>3, <1>11, NextTypeParts
<1> QED
  BY <1>6, <1>7, <1>8, <1>9, <1>10, <1>12
-----------------------------------------------------------------------------
LEMMA ServeStep == ASSUME IInv, NEW t \in Tab, Serve(t) PROVE IInv'
<1>0. /\ TabInv(t) /\ ServerTypes /\ TypeOK
      /\ req[t] \in Request
  BY TypeParts DEF IInv, BrowserTypes
<1>1. flows \in 0..MaxFlow /\ flows \in Nat
  BY <1>0, BoundAssumption DEF ServerTypes
<1> USE DEF serverVars, tokenVars
<1>2. CASE CsrfRefuses(t)
  <2>1. t \in swapped
    BY <1>0, <1>2 DEF CsrfRefuses, TabInv, HeaderSound
  <2>2. ServerTypes'
    BY <1>0, <1>2 DEF CsrfRefuses, ServerTypes
  <2> QED
    BY <1>1, <1>2, <2>1, <2>2, ReplyStep DEF CsrfRefuses, What, None
<1>3. CASE RefreshRefused(t)
  <2>1. ServerTypes' /\ req[t].kind = "refresh"
    BY <1>0, <1>3 DEF RefreshRefused, Handles, ServerTypes
  <2> QED
    BY <1>1, <1>3, <2>1, ReplyStep DEF RefreshRefused, What, None
<1>4. CASE RefreshReads(t)
  <2>1. /\ req' = req /\ answer' = answer /\ jar' = jar /\ away' = away
        /\ swapped' = swapped /\ late' = late /\ spoilt' = spoilt
        /\ flows' = flows
        /\ pc' = [pc EXCEPT ![t] = "read"] /\ pc[t] = "sent"
        /\ req[t].kind = "refresh"
    BY <1>4 DEF RefreshReads, Handles, historyVars, flowHistory
  <2>2. TypeOK'
    BY <1>0, <1>4, <2>1 DEF TypeOK, RefreshReads, historyVars,
                             sessionHistory, flowHistory
  <2>3. req[t].cookies.refresh \in Session
    BY <1>0, <1>4 DEF RefreshReads, Usable, Request, Jar
  <2>4. pc'[t] = "read" /\ \A u \in Tab : u # t => pc'[u] = pc[u]
    BY <1>0, <2>1 DEF TypeOK
  <2>5. ASSUME NEW u \in Tab PROVE TabInv(u)'
    BY <1>0, <2>1, <2>3, <2>4
       DEF IInv, TabInv, AnswerSound, Reading, HeaderSound, FlowSound,
           CsrfPasses, StateFits
  <2> QED
    BY <2>1, <2>2, <2>5 DEF IInv, StateInv, CookiesOfOneAnswer,
                            CsrfRefusesOnlyRaces, OvertakenFlowFails
<1>5. CASE RefreshFails(t)
  <2>1. ServerTypes' /\ req[t].kind = "refresh"
    BY <1>0, <1>5 DEF RefreshFails, ServerTypes, TabInv, Reading
  <2> QED
    BY <1>1, <1>5, <2>1, ReplyStep DEF RefreshFails, What, None
<1>6. CASE RefreshRotates(t)
  <2> DEFINE old == req[t].cookies.refresh
  <2>1. PICK s \in Session :
            /\ Issue(s, family[old])
            /\ commits' = commits \cup {[old |-> {old}, new |-> {s}]}
            /\ Reply(t, "set", s)
    BY <1>6 DEF RefreshRotates
  <2>2. old \in Session /\ UNCHANGED <<flows, codes, jar, away, historyVars>>
    BY <1>0, <1>6 DEF RefreshRotates, TabInv, Reading
  <2>3. ServerTypes'
    BY <1>0, <2>1, <2>2 DEF ServerTypes, Issue, Secret
  <2>4. s \in Nat
    BY DEF Session
  <2> QED
    BY <1>1, <2>1, <2>2, <2>3, <2>4, ReplyStep DEF What
<1>7. CASE ServeLogout(t)
  <2> DEFINE s == req[t].cookies.refresh
  <2>1. s \in Secret /\ s \in Nat
    BY <1>0, BoundAssumption DEF Request, Jar, Secret, Session, None
  <2>2. ServerTypes'
    <3>1. {r \in {s} \ {None} : token[r] = "live"} \in SUBSET Session
      BY <2>1 DEF Secret
    <3> QED
      BY <1>0, <1>7, <3>1 DEF ServeLogout, ServerTypes
  <2> QED
    BY <1>1, <1>7, <2>1, <2>2, ReplyStep DEF ServeLogout, What
<1>8. CASE ServeLogin(t)
  <2>1. /\ flows' = flows + 1 /\ flows < MaxFlow
        /\ codes' = codes \cup {flows + 1}
        /\ token' = token /\ family' = family /\ commits' = commits
    BY <1>8 DEF ServeLogin
  <2>2. /\ flows' \in 0..MaxFlow /\ flows' \in Nat
        /\ flows < flows' /\ flows <= flows'
    BY <1>1, <2>1, BoundAssumption
  <2>3. codes' \subseteq 1..flows'
    BY <1>0, <1>1, <2>1 DEF ServerTypes
  <2>4. ServerTypes'
    BY <1>0, <2>1, <2>2, <2>3 DEF ServerTypes
  <2> QED
    BY <1>1, <1>8, <2>1, <2>2, <2>4, ReplyStep DEF ServeLogin, What
<1>9. CASE CallbackDenied(t)
  <2>1. ServerTypes'
    BY <1>0, <1>9 DEF CallbackDenied, ServerTypes
  <2> QED
    BY <1>1, <1>9, <2>1, ReplyStep DEF CallbackDenied, What, None
<1>10. CASE CallbackRefused(t)
  <2>1. ServerTypes' /\ t \in late
    BY <1>0, <1>10 DEF CallbackRefused, ServerTypes, Handles, TabInv, FlowSound
  <2> QED
    BY <1>1, <1>10, <2>1, ReplyStep DEF CallbackRefused, What, None
<1>11. CASE CallbackFails(t)
  <2>1. ServerTypes'
    BY <1>0, <1>11 DEF CallbackFails, ServerTypes
  <2> QED
    BY <1>1, <1>11, <2>1, ReplyStep DEF CallbackFails, What, None
<1>12. CASE CallbackLogsIn(t)
  <2>1. PICK s \in Session :
            /\ Issue(s, s)
            /\ commits' = commits \cup {[old |-> {}, new |-> {s}]}
            /\ Reply(t, "login", s)
    BY <1>12 DEF CallbackLogsIn
  <2>2. /\ UNCHANGED <<flows, jar, away, historyVars>>
        /\ codes' \subseteq codes
        /\ t \notin late
    BY <1>0, <1>12 DEF CallbackLogsIn, Handles, TabInv, FlowSound
  <2>3. ServerTypes'
    BY <1>0, <2>1, <2>2 DEF ServerTypes, Issue, Secret
  <2>4. s \in Nat
    BY DEF Session
  <2> QED
    BY <1>1, <2>1, <2>2, <2>3, <2>4, ReplyStep DEF What
<1> QED
  BY <1>2, <1>3, <1>4, <1>5, <1>6, <1>7, <1>8, <1>9, <1>10, <1>11, <1>12
     DEF Serve
-----------------------------------------------------------------------------
(* The database. *)

LEMMA CommitStep ==
  ASSUME IInv, NEW c \in commits, Commit(c) \/ CommitFails(c)
  PROVE  IInv'
<1>1. /\ UNCHANGED <<flows, codes, family, jar, away, pc, req, answer,
                     swapped, spoilt, late>>
      /\ token' \in [Session -> {"unused", "put", "live", "revoked", "void"}]
      /\ commits' \subseteq commits
  BY TypeParts DEF IInv, Commit, CommitFails, historyVars, flowHistory,
                   ServerTypes
<1>2. tangled' \in BOOLEAN /\ out' \in BOOLEAN /\ left' \in Secret
  BY TypeParts DEF IInv, Commit, CommitFails, historyVars, sessionHistory,
                   TangledIf, HistoryTypes, Secret
<1>3. TypeOK'
  <2>1. BrowserTypes' /\ ServerTypes' /\ HistoryTypes'
    BY <1>1, <1>2, TypeParts DEF IInv, BrowserTypes, ServerTypes, HistoryTypes
  <2> QED
    BY <2>1, NextTypeParts
<1>4. ASSUME NEW t \in Tab PROVE TabInv(t)'
  BY <1>1 DEF IInv, TabInv, AnswerSound, Reading, HeaderSound, FlowSound,
              CsrfPasses, StateFits
<1> QED
  BY <1>1, <1>3, <1>4 DEF IInv, StateInv, CookiesOfOneAnswer,
                          CsrfRefusesOnlyRaces, OvertakenFlowFails
-----------------------------------------------------------------------------
(* The browser. *)

\* A tab that has no answer yet gets on with its request.
LEMMA SendStep ==
  ASSUME IInv, NEW t \in Tab, pc[t] # "answered", pc'[t] # "answered",
         UNCHANGED <<flows, jar, away, answer, swapped, spoilt>>,
         \A u \in Tab \ {t} : /\ pc'[u] = pc[u] /\ req'[u] = req[u]
                              /\ u \in late' <=> u \in late,
         TypeOK', Reading(t)', HeaderSound(t)', FlowSound(t)'
  PROVE  IInv'
<1>1. answer'[t] = NoReply
  BY DEF IInv, TabInv, AnswerSound
<1>2. ASSUME NEW u \in Tab PROVE TabInv(u)'
  <2>1. CASE u = t
    BY <1>1, <2>1 DEF TabInv, AnswerSound, NoReply
  <2>2. CASE u # t
    <3>0. /\ TabInv(u) /\ pc'[u] = pc[u] /\ req'[u] = req[u]
          /\ (u \in late' <=> u \in late)
          /\ flows' = flows /\ jar' = jar /\ away' = away
          /\ answer' = answer /\ swapped' = swapped
      BY <2>2 DEF IInv
    <3>1. AnswerSound(u)' /\ Reading(u)'
      BY <3>0 DEF TabInv, AnswerSound, Reading
    <3>2. HeaderSound(u)'
      BY <3>0 DEF TabInv, HeaderSound, CsrfPasses
    <3>3. FlowSound(u)'
      BY <3>0 DEF TabInv, FlowSound, StateFits
    <3> QED
      BY <3>1, <3>2, <3>3 DEF TabInv
  <2> QED
    BY <2>1, <2>2
<1>3. StateInv' /\ CookiesOfOneAnswer' /\ CsrfRefusesOnlyRaces'
  BY DEF IInv, StateInv, CookiesOfOneAnswer, CsrfRefusesOnlyRaces
<1>4. OvertakenFlowFails'
  <2>1. ASSUME NEW u \in Tab, req'[u].kind = "callback"
        PROVE  /\ answer'[u].what = "refused" => u \in late'
               /\ answer'[u].what = "login" => u \notin late'
    <3>1. CASE u = t
      BY <1>1, <3>1 DEF NoReply
    <3>2. CASE u # t
      <4>1. /\ req[u].kind = "callback" /\ (u \in late' <=> u \in late)
            /\ answer' = answer
        BY <2>1, <3>2
      <4> QED
        BY <4>1 DEF IInv, OvertakenFlowFails
    <3> QED
      BY <3>1, <3>2
  <2> QED
    BY <2>1 DEF OvertakenFlowFails
<1> QED
  BY <1>2, <1>3, <1>4 DEF IInv

\* The cookies change, and the tabs in D are done with their requests.
LEMMA JarStep ==
  ASSUME IInv, NEW D \in SUBSET Tab, TypeOK', flows' = flows,
         \A u \in D : pc'[u] = "idle" /\ answer'[u] = NoReply,
         \A u \in Tab \ D : /\ pc'[u] = pc[u] /\ req'[u] = req[u]
                            /\ answer'[u] = answer[u],
         late' = late \ D, swapped \ D \subseteq swapped',
         \A u \in Tab \ D :
             pc[u] = "ready" => \/ u \in swapped'
                               \/ jar'.access = None
                               \/ /\ jar'.csrf = jar.csrf
                                  /\ jar'.access = jar.access,
         CookiesOfOneAnswer',
         jar'.state \in {None} \cup away',
         \A f \in away' : f \in spoilt' <=> jar'.state # f,
         \A u \in Tab \ D : answer[u].what = "state" =>
                                answer[u].session \notin away'
  PROVE  IInv'
<1>1. ASSUME NEW u \in Tab PROVE TabInv(u)'
  <2>1. CASE u \in D
    BY <2>1 DEF TabInv, AnswerSound, Reading, HeaderSound, FlowSound, NoReply
  <2>2. CASE u \notin D
    <3>0. TabInv(u)
      BY DEF IInv
    <3>1. AnswerSound(u)' /\ Reading(u)'
      BY <2>2, <3>0 DEF TabInv, AnswerSound, Reading
    <3>2. HeaderSound(u)'
      BY <2>2, <3>0 DEF TabInv, HeaderSound, CsrfPasses
    <3>3. FlowSound(u)'
      BY <2>2, <3>0 DEF TabInv, FlowSound, StateFits
    <3> QED
      BY <3>1, <3>2, <3>3 DEF TabInv
  <2> QED
    BY <2>1, <2>2
<1>2. StateInv'
  BY DEF IInv, StateInv, NoReply
<1>3. CsrfRefusesOnlyRaces' /\ OvertakenFlowFails'
  BY DEF IInv, CsrfRefusesOnlyRaces, OvertakenFlowFails, NoReply
<1> QED
  BY <1>1, <1>2, <1>3 DEF IInv

\* The tab is idle again.
LEMMA DoneTypes ==
  ASSUME IInv, NEW t \in Tab, Done(t)
  PROVE  /\ pc' \in [Tab -> {"idle", "ready", "sent", "read", "answered"}]
         /\ req' \in [Tab -> Request]
         /\ answer' \in [Tab -> [what : What, session : Nat]]
         /\ late' = late \ {t} /\ late' \subseteq Tab
         /\ \A u \in {t} : pc'[u] = "idle" /\ answer'[u] = NoReply
         /\ \A u \in Tab \ {t} : /\ pc'[u] = pc[u] /\ req'[u] = req[u]
                                 /\ answer'[u] = answer[u]
  BY NoneTyped, TypeParts DEF IInv, Done, BrowserTypes, HistoryTypes

\* An answer, or its loss, that leaves the cookies alone.
LEMMA QuietStep ==
  ASSUME IInv, NEW t \in Tab, Done(t), swapped' = swapped \ {t},
         UNCHANGED <<serverVars, jar, away, spoilt>>,
         tangled' \in BOOLEAN, out' \in BOOLEAN, left' \in Secret
  PROVE  IInv'
<1>1. TypeOK'
  <2>1. BrowserTypes' /\ ServerTypes' /\ HistoryTypes'
    BY DoneTypes, TypeParts DEF IInv, BrowserTypes, ServerTypes, HistoryTypes,
                                serverVars, tokenVars
  <2> QED
    BY <2>1, NextTypeParts
<1>2. {t} \in SUBSET Tab /\ flows' = flows
  BY DEF serverVars
<1>3. \A u \in Tab \ {t} : pc[u] = "ready" =>
          \/ u \in swapped' \/ jar'.access = None
          \/ jar'.csrf = jar.csrf /\ jar'.access = jar.access
  OBVIOUS
<1>4. /\ CookiesOfOneAnswer'
      /\ jar'.state \in {None} \cup away'
      /\ \A f \in away' : f \in spoilt' <=> jar'.state # f
  BY DEF IInv, CookiesOfOneAnswer, StateInv
<1>5. \A u \in Tab \ {t} : answer[u].what = "state" =>
                                answer[u].session \notin away'
  BY DEF IInv, TabInv, AnswerSound
<1> QED
  BY <1>1, <1>2, <1>3, <1>4, <1>5, DoneTypes, JarStep

\* A response with session cookies arrives, or one that clears them.
LEMMA SwapStep ==
  ASSUME IInv, NEW t \in Tab, Done(t), Swaps(t),
         UNCHANGED <<serverVars, away>>,
         jar' \in Jar, CookiesOfOneAnswer',
         \/ jar'.state = jar.state /\ spoilt' = spoilt
         \/ jar'.state = None /\ Overtakes(None),
         tangled' \in BOOLEAN, out' \in BOOLEAN, left' \in Secret
  PROVE  IInv'
<1>1. /\ swapped \ {t} \subseteq swapped' /\ swapped' \subseteq Tab
      /\ \A u \in Tab \ {t} : pc[u] = "ready" => u \in swapped'
  BY TypeParts DEF IInv, Swaps, HistoryTypes
<1>2. /\ jar'.state \in {None} \cup away' /\ spoilt' \subseteq away'
      /\ \A f \in away' : f \in spoilt' <=> jar'.state # f
  <2>1. None \notin away
    BY TypeParts DEF IInv, HistoryTypes, None
  <2> QED
    BY <2>1, TypeParts DEF IInv, HistoryTypes, StateInv, Overtakes
<1>3. TypeOK'
  <2>1. BrowserTypes' /\ ServerTypes' /\ HistoryTypes'
    BY <1>1, <1>2, DoneTypes, TypeParts
       DEF IInv, BrowserTypes, ServerTypes, HistoryTypes, serverVars, tokenVars
  <2> QED
    BY <2>1, NextTypeParts
<1>4. {t} \in SUBSET Tab /\ flows' = flows
  BY DEF serverVars
<1>5. \A u \in Tab \ {t} : answer[u].what = "state" =>
                                answer[u].session \notin away'
  BY DEF IInv, TabInv, AnswerSound
<1> QED
  BY <1>1, <1>2, <1>3, <1>4, <1>5, DoneTypes, JarStep

LEMMA ReceiveStep ==
  ASSUME IInv, NEW t \in Tab,
         \/ ReceiveOther(t) \/ ReceiveSession(t) \/ ReceiveClear(t)
         \/ ReceiveState(t) \/ ReceiveLogin(t) \/ Lose(t)
  PROVE  IInv'
<1>0. /\ AnswerSound(t) /\ jar \in Jar /\ answer[t].session \in Nat
      /\ tangled \in BOOLEAN /\ out \in BOOLEAN /\ left \in Secret
      /\ family \in [Session -> Secret]
  BY TypeParts DEF IInv, TabInv, BrowserTypes, ServerTypes, HistoryTypes
<1>1. CASE ReceiveOther(t)
  BY <1>0, <1>1, QuietStep DEF ReceiveOther, sessionHistory
<1>2. CASE ReceiveSession(t)
  <2>1. answer[t].session \in Session
    BY <1>0, <1>2 DEF ReceiveSession, AnswerSound
  <2>2. jar' \in Jar /\ CookiesOfOneAnswer' /\ jar'.state = jar.state
    BY <1>0, <1>2, <2>1
       DEF ReceiveSession, WithSession, Jar, CookiesOfOneAnswer
  <2> QED
    BY <1>0, <1>2, <2>2, SwapStep DEF ReceiveSession, sessionHistory
<1>3. CASE ReceiveClear(t)
  <2>1. answer[t].session \in Secret
    BY <1>0, <1>3 DEF ReceiveClear, AnswerSound
  <2>2. jar' \in Jar /\ CookiesOfOneAnswer' /\ jar'.state = jar.state
    BY <1>0, <1>3 DEF ReceiveClear, WithoutSession, Jar, CookiesOfOneAnswer
  <2>3. out' \in BOOLEAN /\ left' \in Secret /\ tangled' \in BOOLEAN
    BY <1>0, <1>3, <2>1 DEF ReceiveClear, Secret
  <2> QED
    BY <1>3, <2>2, <2>3, SwapStep DEF ReceiveClear
<1>4. CASE ReceiveState(t)
  <2> DEFINE f == answer[t].session
  <2>1. /\ f \in 1..flows /\ f \notin away
        /\ jar' = WithState(jar, f) /\ away' = away \cup {f}
        /\ Done(t) /\ Overtakes(f)
        /\ UNCHANGED <<serverVars, swapped, sessionHistory>>
    BY <1>0, <1>4 DEF ReceiveState, AnswerSound
  <2>2. /\ flows \in Nat /\ f # None /\ f \in Flow
        /\ spoilt \subseteq away /\ away \subseteq 1..flows
        /\ swapped \subseteq Tab
    BY <2>1, TypeParts, BoundAssumption
       DEF IInv, ServerTypes, HistoryTypes, None, Flow
  <2>3. /\ jar' \in Jar /\ jar'.state = f
        /\ jar'.csrf = jar.csrf /\ jar'.access = jar.access
        /\ jar'.refresh = jar.refresh
    BY <1>0, <2>1, <2>2 DEF WithState, Jar
  <2>4. /\ \A g \in away' : g \in spoilt' <=> jar'.state # g
        /\ spoilt' \subseteq away'
    <3>1. /\ jar.state \in {None} \cup away
          /\ \A g \in away : g \in spoilt <=> jar.state # g
      BY DEF IInv, StateInv
    <3>2. spoilt' = IF jar.state = None THEN spoilt
                    ELSE spoilt \cup {jar.state}
      BY <2>1, <3>1 DEF Overtakes
    <3>3. f \notin spoilt' /\ spoilt' \subseteq away'
      BY <2>1, <2>2, <3>1, <3>2
    <3>4. ASSUME NEW g \in away
          PROVE  g # f /\ g \in spoilt'
      <4>1. CASE jar.state = g
        BY <2>1, <2>2, <3>2, <4>1 DEF None
      <4>2. CASE jar.state # g
        BY <2>1, <3>1, <3>2, <4>2
      <4> QED
        BY <4>1, <4>2
    <3> QED
      BY <2>1, <2>3, <3>3, <3>4
  <2>5. TypeOK'
    <3>1. BrowserTypes' /\ ServerTypes' /\ HistoryTypes'
      BY <1>0, <2>1, <2>2, <2>3, <2>4, DoneTypes, TypeParts
         DEF IInv, BrowserTypes, ServerTypes, HistoryTypes, serverVars,
             tokenVars, sessionHistory
    <3> QED
      BY <3>1, NextTypeParts
  <2>6. \A u \in Tab \ {t} : answer[u].what = "state" =>
                                  answer[u].session \notin away'
    BY <1>4, <2>1 DEF IInv, TabInv, AnswerSound, StateInv, ReceiveState
  <2>7. /\ CookiesOfOneAnswer' /\ jar'.state \in {None} \cup away'
        /\ {t} \in SUBSET Tab /\ flows' = flows
        /\ swapped \ {t} \subseteq swapped'
    BY <2>1, <2>3 DEF IInv, CookiesOfOneAnswer, serverVars
  <2> QED
    BY <2>1, <2>3, <2>4, <2>5, <2>6, <2>7, DoneTypes, JarStep
<1>5. CASE ReceiveLogin(t)
  <2>1. answer[t].session \in Session
    BY <1>0, <1>5 DEF ReceiveLogin, AnswerSound
  <2>2. jar' \in Jar /\ CookiesOfOneAnswer' /\ jar'.state = None
    BY <1>0, <1>5, <2>1
       DEF ReceiveLogin, WithSession, WithState, Jar, CookiesOfOneAnswer
  <2>3. out' \in BOOLEAN /\ left' \in Secret /\ tangled' \in BOOLEAN
    BY <1>5 DEF ReceiveLogin, Secret
  <2> QED
    BY <1>5, <2>2, <2>3, SwapStep DEF ReceiveLogin
<1>6. CASE Lose(t)
  <2>1. out' \in BOOLEAN /\ left' \in Secret /\ tangled' \in BOOLEAN
    BY <1>0, <1>6 DEF Lose, TangledIf, sessionHistory, Secret
  <2> QED
    BY <1>6, <2>1, QuietStep DEF Lose
<1> QED
  BY <1>1, <1>2, <1>3, <1>4, <1>5, <1>6

LEMMA ExpireStep == ASSUME IInv, Expire PROVE IInv'
<1>0. /\ jar \in Jar /\ jar' \in Aged(jar) /\ flows' = flows
      /\ spoilt \subseteq away /\ None \notin away
  BY TypeParts
     DEF IInv, BrowserTypes, HistoryTypes, Expire, serverVars, None
<1>1. /\ jar' \in Jar
      /\ \/ jar'.access = None
         \/ jar'.csrf = jar.csrf /\ jar'.access = jar.access
      /\ jar'.state \in {jar.state, None}
      /\ CookiesOfOneAnswer'
  <2>1. CASE jar' = [jar EXCEPT !.access = None]
    BY <1>0, <2>1 DEF Jar, IInv, CookiesOfOneAnswer
  <2>2. CASE jar' = WithoutSession(jar)
    BY <1>0, <2>2 DEF Jar, WithoutSession, IInv, CookiesOfOneAnswer
  <2>3. CASE jar' = WithState(jar, None)
    BY <1>0, <2>3 DEF Jar, WithState, IInv, CookiesOfOneAnswer
  <2> QED
    BY <1>0, <2>1, <2>2, <2>3 DEF Aged
<1>2. /\ jar'.state \in {None} \cup away' /\ spoilt' \subseteq away'
      /\ \A f \in away' : f \in spoilt' <=> jar'.state # f
  BY <1>0, <1>1 DEF Expire, IInv, StateInv, Overtakes
<1>3. TypeOK'
  <2>1. BrowserTypes' /\ ServerTypes' /\ HistoryTypes'
    BY <1>0, <1>1, <1>2, TypeParts
       DEF IInv, BrowserTypes, ServerTypes, HistoryTypes, Expire, serverVars,
           tokenVars, sessionHistory
  <2> QED
    BY <2>1, NextTypeParts
<1>4. /\ {} \in SUBSET Tab /\ late' = late \ {}
      /\ swapped \ {} \subseteq swapped'
      /\ UNCHANGED <<pc, req, answer, away>>
  BY DEF Expire
<1>5. \A u \in Tab \ {} : answer[u].what = "state" =>
                               answer[u].session \notin away'
  BY <1>4 DEF IInv, TabInv, AnswerSound
<1> QED
  BY <1>0, <1>1, <1>2, <1>3, <1>4, <1>5, JarStep
-----------------------------------------------------------------------------
LEMMA AskStep ==
  ASSUME IInv, NEW t \in Tab,
         \/ \E kind \in Unsafe : Prepare(t, kind)
         \/ Send(t) \/ \E f \in away : ComeBack(t, f)
  PROVE  IInv'
<1>0. /\ TabInv(t) /\ req[t] \in Request /\ jar \in Jar
      /\ spoilt \subseteq away /\ None \notin away
      /\ tangled \in BOOLEAN /\ out \in BOOLEAN /\ left \in Secret
  BY TypeParts DEF IInv, BrowserTypes, HistoryTypes, None
<1>1. CASE \E kind \in Unsafe : Prepare(t, kind)
  <2>1. PICK kind \in Unsafe : Prepare(t, kind)
    BY <1>1
  <2>2. /\ pc[t] = "idle" /\ jar.csrf # None
        /\ pc' = [pc EXCEPT ![t] = "ready"]
        /\ req' = [req EXCEPT ![t] = [NoRequest EXCEPT !.kind = kind,
                                                       !.header = jar.csrf]]
        /\ UNCHANGED <<serverVars, jar, away, answer, historyVars>>
    BY <2>1 DEF Prepare
  <2>3. [NoRequest EXCEPT !.kind = kind, !.header = jar.csrf] \in Request
    BY <1>0, NoneTyped DEF Request, Jar, Secret
  <2>4. /\ req' \in [Tab -> Request]
        /\ pc' \in [Tab -> {"idle", "ready", "sent", "read", "answered"}]
        /\ req'[t].kind = kind /\ req'[t].header = jar.csrf
        /\ pc'[t] = "ready"
        /\ \A u \in Tab \ {t} : pc'[u] = pc[u] /\ req'[u] = req[u]
    BY <2>2, <2>3, NoneTyped, TypeParts DEF IInv, BrowserTypes, Request
  <2>5. /\ UNCHANGED <<token, family, commits, flows, codes, jar, away,
                       answer, swapped, tangled, out, left, spoilt, late>>
    BY <2>2 DEF serverVars, tokenVars, historyVars, sessionHistory, flowHistory
  <2>6. TypeOK'
    <3>1. BrowserTypes' /\ ServerTypes' /\ HistoryTypes'
      BY <2>4, <2>5, TypeParts
         DEF IInv, BrowserTypes, ServerTypes, HistoryTypes
    <3> QED
      BY <3>1, NextTypeParts
  <2>7. Reading(t)' /\ HeaderSound(t)' /\ FlowSound(t)'
    BY <1>0, <2>2, <2>4, <2>5 DEF Reading, HeaderSound, FlowSound, TabInv
  <2> QED
    BY <2>2, <2>4, <2>5, <2>6, <2>7, SendStep
<1>2. CASE Send(t)
  <2>1. /\ pc[t] = "ready"
        /\ pc' = [pc EXCEPT ![t] = "sent"]
        /\ req' = [req EXCEPT ![t].cookies = jar]
        /\ UNCHANGED <<token, family, commits, flows, codes, jar, away,
                       answer, swapped, spoilt, late>>
    BY <1>2 DEF Send, serverVars, tokenVars, flowHistory
  <2>2. tangled' \in BOOLEAN /\ out' \in BOOLEAN /\ left' \in Secret
    BY <1>0, <1>2 DEF Send, TangledIf, sessionHistory, Secret
  <2>3. /\ req' \in [Tab -> Request]
        /\ pc' \in [Tab -> {"idle", "ready", "sent", "read", "answered"}]
        /\ req'[t].kind = req[t].kind /\ req'[t].header = req[t].header
        /\ req'[t].cookies = jar /\ pc'[t] = "sent"
        /\ \A u \in Tab \ {t} : pc'[u] = pc[u] /\ req'[u] = req[u]
    BY <1>0, <2>1, TypeParts DEF IInv, BrowserTypes, Request
  <2>4. TypeOK'
    <3>1. BrowserTypes' /\ ServerTypes' /\ HistoryTypes'
      BY <2>1, <2>2, <2>3, TypeParts
         DEF IInv, BrowserTypes, ServerTypes, HistoryTypes
    <3> QED
      BY <3>1, NextTypeParts
  <2>5. HeaderSound(t)'
    BY <1>0, <2>1, <2>3 DEF HeaderSound, CsrfPasses, TabInv
  <2>6. Reading(t)' /\ FlowSound(t)'
    BY <1>0, <2>1, <2>3 DEF Reading, FlowSound, TabInv, Unsafe
  <2> QED
    BY <2>1, <2>3, <2>4, <2>5, <2>6, SendStep
<1>3. CASE \E f \in away : ComeBack(t, f)
  <2>1. PICK f \in away : ComeBack(t, f)
    BY <1>3
  <2>2. /\ pc[t] = "idle"
        /\ pc' = [pc EXCEPT ![t] = "sent"]
        /\ req' = [req EXCEPT ![t] = [NoRequest EXCEPT !.kind = "callback",
                                            !.flow = f, !.cookies = jar]]
        /\ late' = IF f \in spoilt THEN late \cup {t} ELSE late
        /\ UNCHANGED <<token, family, commits, flows, codes, jar, away,
                       answer, swapped, spoilt>>
    BY <2>1 DEF ComeBack, serverVars, tokenVars
  <2>3. tangled' \in BOOLEAN /\ out' \in BOOLEAN /\ left' \in Secret
    BY <1>0, <2>1 DEF ComeBack, TangledIf, sessionHistory, Secret
  <2>4. [NoRequest EXCEPT !.kind = "callback", !.flow = f, !.cookies = jar]
            \in Request
    <3>1. f \in Flow
      BY TypeParts, BoundAssumption DEF IInv, ServerTypes, HistoryTypes, Flow
    <3> QED
      BY <1>0, <3>1, NoneTyped DEF Request
  <2>5. /\ req' \in [Tab -> Request]
        /\ pc' \in [Tab -> {"idle", "ready", "sent", "read", "answered"}]
        /\ req'[t].kind = "callback" /\ req'[t].flow = f
        /\ req'[t].cookies = jar /\ pc'[t] = "sent"
        /\ \A u \in Tab \ {t} : /\ pc'[u] = pc[u] /\ req'[u] = req[u]
                                /\ u \in late' <=> u \in late
    BY <2>2, <2>4, NoneTyped, TypeParts DEF IInv, BrowserTypes, Request
  <2>6. TypeOK'
    <3>1. BrowserTypes' /\ ServerTypes' /\ HistoryTypes'
      BY <2>2, <2>3, <2>5, TypeParts
         DEF IInv, BrowserTypes, ServerTypes, HistoryTypes
    <3> QED
      BY <3>1, NextTypeParts
  <2>7. Reading(t)' /\ HeaderSound(t)'
    BY <2>5 DEF Reading, HeaderSound, CsrfPasses, Unsafe
  <2>8. FlowSound(t)'
    <3>1. StateFits(req'[t]) <=> f \notin spoilt
      BY <1>0, <2>5 DEF StateFits, IInv, StateInv
    <3>2. t \notin late
      BY <1>0, <2>2 DEF TabInv, FlowSound
    <3> QED
      BY <2>2, <2>5, <3>1, <3>2 DEF FlowSound, StateFits
  <2> QED
    BY <2>2, <2>5, <2>6, <2>7, <2>8, SendStep
<1> QED
  BY <1>1, <1>2, <1>3
-----------------------------------------------------------------------------
LEMMA Inductive == IInv /\ [Next]_vars => IInv'
<1> SUFFICES ASSUME IInv, [Next]_vars PROVE IInv'
  OBVIOUS
<1>1. ASSUME NEW t \in Tab, TabStep(t) PROVE IInv'
  BY <1>1, AskStep, ReceiveStep DEF TabStep
<1>2. ASSUME NEW t \in Tab, Serve(t) PROVE IInv'
  BY <1>2, ServeStep
<1>3. ASSUME NEW c \in commits, Commit(c) \/ CommitFails(c) PROVE IInv'
  BY <1>3, CommitStep
<1>4. CASE UNCHANGED vars
  BY <1>4 DEF vars, serverVars, tokenVars, historyVars, sessionHistory,
              flowHistory, IInv, TypeOK, TabInv, AnswerSound, Reading,
              HeaderSound, FlowSound, CsrfPasses, StateFits, StateInv,
              CookiesOfOneAnswer, CsrfRefusesOnlyRaces, OvertakenFlowFails
<1> QED
  BY <1>1, <1>2, <1>3, <1>4, ExpireStep DEF Next

LEMMA Invariance == Spec => []IInv
  BY InitInv, Inductive, PTL DEF Spec

\* The variables of the browser and of the server keep their types.
THEOREM TypeCorrect == Spec => []TypeOK
  BY Invariance, PTL DEF IInv

\* _set_session_cookies and logout keep the three cookies together: a browser
\* with an access cookie has the csrf and the refresh cookie that came with
\* it, however the answers overtake each other and whichever get lost.
THEOREM CookiesTogether == Spec => []CookiesOfOneAnswer
  BY Invariance, PTL DEF IInv

\* CSRFMiddleware refuses a request of the page itself only when another
\* answer changed the csrf cookie after the page had read it.
THEOREM CsrfOnlyRaces == Spec => []CsrfRefusesOnlyRaces
  BY Invariance, PTL DEF IInv

\* github_callback refuses the state of a flow only when its cookie had gone
\* before the browser came back, and then it never logs in.
THEOREM OvertakenFails == Spec => []OvertakenFlowFails
  BY Invariance, PTL DEF IInv
-----------------------------------------------------------------------------
(* The sessions.  LInv, on the server's tokens and the answers on their    *)
(* way, holds whatever overlaps or gets lost.                              *)

\* A tab's progress fits its request and its answer; the refresh cookie is in
\* a request only between sending and answering it.
KindsOf(t) ==
    /\ pc[t] = "idle" => req[t].kind = "none"
    /\ pc[t] \in {"sent", "read"} => req[t].kind \in Changing
    /\ req[t].cookies.refresh # None => pc[t] \in {"sent", "read"}
    /\ answer[t].what = "set" => req[t].kind = "refresh"
    /\ answer[t].what = "clear" => req[t].kind = "logout"
    /\ answer[t].what = "login" => req[t].kind = "callback"

\* The browser has s, or has had it and it is used up by a request.
Carried(s) ==
    \/ s = jar.refresh
    \/ \E t \in Tab : \/ s = req[t].cookies.refresh
                      \/ answer[t].what = "clear" /\ s = answer[t].session
    \/ \E c \in commits : s \in c.old

OnItsWay(t, s) == answer[t].what \in {"set", "login"} /\ s = answer[t].session

\* A session that has not been issued appears nowhere.
UnusedNowhere(s) ==
    /\ token[s] = "unused" =>
          /\ ~Carried(s) /\ left # s
          /\ \A c \in commits : s \notin c.new
          /\ \A t \in Tab : ~OnItsWay(t, s)
          /\ family[s] = None
          /\ \A r \in Session : family[r] # s
    /\ token[s] # "unused" => family[s] # None

\* What the open transactions write fits the tokens.
CommitsFit ==
    /\ \A c \in commits : \A s \in Session :
          /\ s \in c.old => token[s] \in {"live", "revoked"}
          /\ s \in c.new => token[s] = "put"
    /\ \A b, c \in commits : \A s \in Session :
          s \in b.new /\ s \in c.new => b = c
    /\ \A s \in Session : token[s] = "put" => \E c \in commits : s \in c.new
    /\ \A t \in Tab : pc[t] = "read" =>
          token[req[t].cookies.refresh] \in {"live", "revoked"}

\* A session on its way to the browser is known to nobody else, and at a login
\* its family has no other.
Unreceived(t, s) ==
    OnItsWay(t, s) =>
        /\ ~Carried(s)
        /\ \A u \in Tab \ {t} : ~OnItsWay(u, s)
        /\ token[s] \in {"put", "live", "void"}
        /\ answer[t].what = "login" =>
              \A r \in Session : family[r] = s <=> r = s

LInv == /\ \A t \in Tab : KindsOf(t)
        /\ \A s \in Session : UnusedNowhere(s)
        /\ CommitsFit
        /\ \A t \in Tab, s \in Session : Unreceived(t, s)

\* The types the steps below need.
LEMMA Basics ==
  ASSUME IInv
  PROVE  /\ pc \in [Tab -> {"idle", "ready", "sent", "read", "answered"}]
         /\ req \in [Tab -> Request]
         /\ answer \in [Tab -> [what : What, session : Nat]]
         /\ jar \in Jar
         /\ token \in [Session -> {"unused", "put", "live", "revoked",
                                   "void"}]
         /\ commits \subseteq [old : SUBSET Session, new : SUBSET Session]
         /\ family \in [Session -> Secret]
         /\ tangled \in BOOLEAN /\ out \in BOOLEAN /\ left \in Secret
         /\ None \notin Session
         /\ \A t \in Tab : AnswerSound(t) /\ Reading(t)
  BY TypeParts DEF IInv, BrowserTypes, ServerTypes, HistoryTypes, TabInv,
                   None, Session

LEMMA InitLedger == Init => LInv
<1> SUFFICES ASSUME Init PROVE LInv
  OBVIOUS
<1>1. /\ \A s \in Session : /\ token[s] = "unused" /\ family[s] = None
                            /\ s # None
      /\ commits = {} /\ left = None /\ jar.refresh = None
  BY DEF Init, Session, None, NoCookies
<1>2. \A t \in Tab : /\ pc[t] = "idle" /\ answer[t].what = "none"
                     /\ req[t].kind = "none" /\ req[t].cookies.refresh = None
  BY DEF Init, NoRequest, NoReply, NoCookies
<1> QED
  BY <1>1, <1>2 DEF LInv, KindsOf, UnusedNowhere, CommitsFit, Unreceived,
                    Carried, OnItsWay

\* What a step that writes nothing may do to a tab.
Quiet(u) ==
    /\ req'[u].cookies.refresh \in
            {None, jar.refresh, req[u].cookies.refresh}
    /\ \/ answer'[u] = answer[u]
       \/ answer'[u].what \notin {"set", "login", "clear"}
    /\ pc'[u] = "read" =>
          \/ pc[u] = "read" /\ req'[u] = req[u]
          \/ token[req'[u].cookies.refresh] = "live"
    /\ KindsOf(u)'

\* The step leaves the tokens alone; the jar keeps its session, loses it or
\* takes one that was on its way.
LEMMA QuietLedger ==
  ASSUME IInv, LInv, UNCHANGED <<token, family, commits>>,
         \/ jar'.refresh \in {jar.refresh, None}
         \/ \E t \in Tab : /\ OnItsWay(t, jar'.refresh)
                           /\ answer'[t] = NoReply,
         \A s \in Session : left' = s => left = s \/ token[s] # "unused",
         \A u \in Tab : Quiet(u)
  PROVE  LInv'
<1> USE DEF LInv
<1>1. ASSUME NEW s \in Session, Carried(s)'
      PROVE  Carried(s) \/ (s = jar'.refresh /\ s # jar.refresh)
  BY <1>1, Basics DEF Carried, Quiet
<1>2. \A u \in Tab, s \in Session : OnItsWay(u, s)' =>
          OnItsWay(u, s) /\ answer'[u] = answer[u]
  BY DEF OnItsWay, Quiet
<1>3. ASSUME NEW s \in Session, s = jar'.refresh, s # jar.refresh
      PROVE  /\ token[s] # "unused"
             /\ \A u \in Tab : ~OnItsWay(u, s)'
  <2>1. PICK t \in Tab : OnItsWay(t, s) /\ answer'[t] = NoReply
    BY <1>3, Basics
  <2>2. Unreceived(t, s) /\ UnusedNowhere(s)
    OBVIOUS
  <2>3. ~OnItsWay(t, s)'
    BY <2>1 DEF OnItsWay, NoReply
  <2> QED
    BY <1>2, <2>1, <2>2, <2>3 DEF Unreceived
<1>4. ASSUME NEW s \in Session PROVE UnusedNowhere(s)'
  <2>1. UnusedNowhere(s)
    OBVIOUS
  <2> QED
    BY <1>1, <1>2, <1>3, <2>1 DEF UnusedNowhere
<1>5. CommitsFit'
  BY DEF CommitsFit, Quiet
<1>6. ASSUME NEW t \in Tab, NEW s \in Session PROVE Unreceived(t, s)'
  <2>1. Unreceived(t, s)
    OBVIOUS
  <2> QED
    BY <1>1, <1>2, <1>3, <2>1 DEF Unreceived
<1>7. \A u \in Tab : KindsOf(u)'
  BY DEF Quiet
<1> QED
  BY <1>4, <1>5, <1>6, <1>7
-----------------------------------------------------------------------------
\* A request is answered: what that does to the tabs.
LEMMA Replied ==
  ASSUME IInv, NEW t \in Tab, NEW what, NEW s, Reply(t, what, s)
  PROVE  /\ pc'[t] = "answered" /\ req'[t].kind = req[t].kind
         /\ req'[t].cookies.refresh = None
         /\ answer'[t].what = what /\ answer'[t].session = s
         /\ \A u \in Tab \ {t} : /\ pc'[u] = pc[u] /\ req'[u] = req[u]
                                 /\ answer'[u] = answer[u]
  BY Basics, NoneTyped DEF Reply, Request, NoRequest, NoCookies

\* Replies that neither issue nor revoke a token.
LEMMA PlainReply ==
  ASSUME IInv, LInv, NEW t \in Tab, NEW what, NEW s, Reply(t, what, s),
         what \notin {"set", "login", "clear"},
         UNCHANGED <<token, family, commits, jar, left>>
  PROVE  LInv'
<1>1. \A u \in Tab : Quiet(u)
  BY Replied DEF Quiet, LInv, KindsOf
<1> QED
  BY <1>1, QuietLedger

\* The logout's UPDATE.
LEMMA LogoutLedger ==
  ASSUME IInv, LInv, NEW t \in Tab, ServeLogout(t)
  PROVE  LInv'
<1> DEFINE x == req[t].cookies.refresh
           rows == {r \in {x} \ {None} : token[r] = "live"}
<1> USE DEF LInv
<1>1. /\ pc[t] = "sent" /\ req[t].kind = "logout"
      /\ Reply(t, "clear", x)
      /\ \/ rows = {} /\ commits' = commits
         \/ rows # {} /\ commits' = commits \cup {[old |-> rows, new |-> {}]}
      /\ UNCHANGED <<token, family, jar, left>>
  BY DEF ServeLogout, Handles, historyVars, sessionHistory
<1>2. \A s \in rows : s = x /\ token[s] = "live"
  OBVIOUS
<1>3. ASSUME NEW s \in Session PROVE Carried(s)' => Carried(s)
  BY <1>1, <1>2, <1>3, Basics, Replied DEF Carried
<1>4. \A u \in Tab, s \in Session : OnItsWay(u, s)' => OnItsWay(u, s) /\ u # t
  BY <1>1, Replied DEF OnItsWay
<1>5. ASSUME NEW s \in Session PROVE UnusedNowhere(s)'
  <2>1. UnusedNowhere(s)
    OBVIOUS
  <2> QED
    BY <1>1, <1>3, <1>4, <2>1 DEF UnusedNowhere
<1>6. CommitsFit'
  BY <1>1, <1>2, Replied DEF CommitsFit
<1>7. ASSUME NEW u \in Tab, NEW s \in Session PROVE Unreceived(u, s)'
  <2>1. Unreceived(u, s)
    OBVIOUS
  <2> QED
    BY <1>1, <1>3, <1>4, <2>1, Replied DEF Unreceived
<1>8. \A u \in Tab : KindsOf(u)'
  BY <1>1, Replied DEF KindsOf
<1> QED
  BY <1>5, <1>6, <1>7, <1>8

\* A refresh or a login issues a session and, at a refresh, revokes x.
LEMMA IssueLedger ==
  ASSUME IInv, LInv, NEW t \in Tab, NEW s \in Session, NEW first \in Session,
         NEW old, NEW what, Issue(s, first), Reply(t, what, s),
         commits' = commits \cup {[old |-> old, new |-> {s}]},
         UNCHANGED <<jar, left>>,
         \/ what = "login" /\ first = s /\ old = {} /\ req[t].kind = "callback"
         \/ /\ what = "set" /\ req[t].kind = "refresh" /\ pc[t] = "read"
            /\ first = family[req[t].cookies.refresh]
            /\ old = {req[t].cookies.refresh}
  PROVE  LInv'
<1> DEFINE x == req[t].cookies.refresh
<1> USE DEF LInv
<1>1. /\ token[s] = "unused" /\ token'[s] = "put" /\ family'[s] = first
      /\ \A r \in Session \ {s} : /\ token'[r] = token[r]
                                  /\ family'[r] = family[r]
  BY Basics DEF Issue
<1>2. UnusedNowhere(s)
  OBVIOUS
<1>3. what = "set" => /\ x \in Session /\ x # s
                      /\ token[x] \in {"live", "revoked"}
  BY <1>1, Basics DEF CommitsFit, Reading
<1>4. ASSUME NEW r \in Session PROVE Carried(r)' => Carried(r)
  BY Basics, Replied DEF Carried
<1>5. \A u \in Tab, r \in Session : OnItsWay(u, r)' =>
          \/ u = t /\ r = s
          \/ u # t /\ r # s /\ OnItsWay(u, r)
  BY <1>1, <1>2, Replied DEF OnItsWay, UnusedNowhere
<1>6. ASSUME NEW r \in Session PROVE UnusedNowhere(r)'
  <2>1. UnusedNowhere(r) /\ first # None /\ family[s] = None
    BY <1>1, <1>2, Basics DEF UnusedNowhere
  <2>2. token[r] = "unused" /\ r # s => first # r
    <3>1. CASE what = "set"
      <4>1. UnusedNowhere(r)
        OBVIOUS
      <4> QED
        BY <1>3, <3>1, <4>1 DEF UnusedNowhere
    <3> QED
      BY <3>1
  <2> QED
    BY <1>1, <1>4, <1>5, <2>1, <2>2 DEF UnusedNowhere
<1>7. CommitsFit'
  <2>1. \A c \in commits : s \notin c.old /\ s \notin c.new
    BY <1>1, <1>2 DEF UnusedNowhere, Carried
  <2>2. \A r \in Session : r \in old => r = x /\ r # s
    BY <1>3
  <2>3. \A c \in commits' : c \in commits \/ (c.old = old /\ c.new = {s})
    OBVIOUS
  <2>4. [old |-> old, new |-> {s}] \in commits' /\ commits \subseteq commits'
    OBVIOUS
  <2>5. ASSUME NEW c \in commits', NEW r \in Session
        PROVE  /\ r \in c.old => token'[r] \in {"live", "revoked"}
               /\ r \in c.new => token'[r] = "put"
    BY <1>1, <1>3, <2>1, <2>2, <2>3 DEF CommitsFit
  <2>6. ASSUME NEW b \in commits', NEW c \in commits', NEW r \in Session,
               r \in b.new, r \in c.new
        PROVE  b = c
    <3>1. CASE b \in commits /\ c \in commits
      BY <2>6, <3>1 DEF CommitsFit
    <3>2. CASE b \notin commits /\ c \notin commits
      BY <3>2
    <3>3. b \notin commits => b.new = {s}
      BY <2>3
    <3>4. c \notin commits => c.new = {s}
      BY <2>3
    <3> QED
      BY <2>1, <2>6, <3>1, <3>2, <3>3, <3>4
  <2>7. ASSUME NEW r \in Session, token'[r] = "put"
        PROVE  \E c \in commits' : r \in c.new
    BY <1>1, <2>4, <2>7 DEF CommitsFit
  <2>8. ASSUME NEW u \in Tab, pc'[u] = "read"
        PROVE  token'[req'[u].cookies.refresh] \in {"live", "revoked"}
    <3>1. u # t /\ pc[u] = "read" /\ req'[u] = req[u]
      BY <2>8, Replied
    <3>2. req[u].cookies.refresh \in Session
      BY <3>1, Basics DEF Reading
    <3> QED
      BY <1>1, <3>1, <3>2 DEF CommitsFit
  <2> QED
    BY <2>5, <2>6, <2>7, <2>8 DEF CommitsFit
<1>8. ASSUME NEW u \in Tab, NEW r \in Session, OnItsWay(u, r)'
      PROVE  Unreceived(u, r)'
  <2>1. CASE u = t
    <3>1. r = s /\ ~Carried(s)
      BY <1>1, <1>2, <1>5, <1>8, <2>1 DEF UnusedNowhere
    <3>2. \A v \in Tab \ {t} : ~OnItsWay(v, s)'
      BY <1>5
    <3>3. what = "login" => \A q \in Session : family'[q] = s <=> q = s
      BY <1>1, <1>2 DEF UnusedNowhere
    <3> QED
      BY <1>1, <1>4, <2>1, <3>1, <3>2, <3>3, Replied DEF Unreceived
  <2>2. CASE u # t
    <3>1. Unreceived(u, r) /\ OnItsWay(u, r) /\ r # s
      BY <1>5, <1>8, <2>2
    <3>2. \A v \in Tab \ {u} : ~OnItsWay(v, r)'
      BY <1>5, <3>1 DEF Unreceived
    <3>3. answer[u].what = "login" => first # r
      <4>1. CASE what = "set"
        BY <1>3, <3>1, <4>1 DEF Unreceived, Carried
      <4> QED
        BY <3>1, <4>1
    <3> QED
      BY <1>1, <1>4, <2>2, <3>1, <3>2, <3>3, Replied DEF Unreceived
  <2> QED
    BY <2>1, <2>2
<1>9. \A u \in Tab : KindsOf(u)'
  BY Replied DEF KindsOf
<1>10. \A u \in Tab, r \in Session : Unreceived(u, r)'
  BY <1>8 DEF Unreceived
<1> QED
  BY <1>6, <1>7, <1>9, <1>10

\* A transaction ends, one way or the other.
LEMMA EndLedger ==
  ASSUME IInv, LInv, NEW c \in commits, Commit(c) \/ CommitFails(c)
  PROVE  LInv'
<1> USE DEF LInv
<1>1. /\ commits' = commits \ {c} /\ UNCHANGED <<family, jar, pc, req, answer>>
      /\ left' \in {left, None}
      /\ \A s \in Session :
            \/ token'[s] = token[s] /\ s \notin c.new
            \/ token[s] \in {"live", "revoked"} /\ token'[s] = "revoked"
               /\ s \in c.old
            \/ s \in c.new /\ token[s] = "put"
               /\ token'[s] \in {"live", "void"}
  BY Basics DEF Commit, CommitFails, CommitsFit, TangledIf, historyVars,
                sessionHistory
<1>2. \A s \in Session : Carried(s)' => Carried(s)
  BY <1>1 DEF Carried
<1>3. \A u \in Tab, s \in Session : OnItsWay(u, s)' <=> OnItsWay(u, s)
  BY <1>1 DEF OnItsWay
<1>4. ASSUME NEW s \in Session PROVE UnusedNowhere(s)'
  <2>1. UnusedNowhere(s)
    OBVIOUS
  <2> QED
    BY <1>1, <1>2, <1>3, <2>1, Basics DEF UnusedNowhere
<1>5. CommitsFit'
  <2>1. ASSUME NEW b \in commits', NEW s \in Session
        PROVE  /\ s \in b.old => token'[s] \in {"live", "revoked"}
               /\ s \in b.new => token'[s] = "put"
    BY <1>1 DEF CommitsFit
  <2>2. ASSUME NEW s \in Session, token'[s] = "put"
        PROVE  \E b \in commits' : s \in b.new
    BY <1>1, <2>2 DEF CommitsFit
  <2>3. ASSUME NEW u \in Tab, pc[u] = "read"
        PROVE  token'[req[u].cookies.refresh] \in {"live", "revoked"}
    <3>1. req[u].cookies.refresh \in Session
      BY <2>3, Basics DEF Reading
    <3> QED
      BY <1>1, <2>3, <3>1 DEF CommitsFit
  <2> QED
    BY <1>1, <2>1, <2>2, <2>3 DEF CommitsFit
<1>6. ASSUME NEW u \in Tab, NEW s \in Session PROVE Unreceived(u, s)'
  <2>1. Unreceived(u, s)
    OBVIOUS
  <2>2. OnItsWay(u, s) => \A b \in commits : s \notin b.old
    BY <2>1 DEF Unreceived, Carried
  <2> QED
    BY <1>1, <1>2, <1>3, <2>1, <2>2 DEF Unreceived
<1>7. \A u \in Tab : KindsOf(u)'
  BY <1>1 DEF KindsOf
<1> QED
  BY <1>4, <1>5, <1>6, <1>7
LEMMA ServeLedger == ASSUME IInv, LInv, NEW t \in Tab, Serve(t) PROVE LInv'
<1> USE DEF serverVars, tokenVars, historyVars, sessionHistory
<1>1. CASE \/ CsrfRefuses(t) \/ RefreshRefused(t) \/ RefreshFails(t)
           \/ ServeLogin(t) \/ CallbackDenied(t) \/ CallbackRefused(t)
           \/ CallbackFails(t)
  <2>1. PICK what, s : /\ Reply(t, what, s)
                       /\ what \notin {"set", "login", "clear"}
                       /\ UNCHANGED <<token, family, commits, jar, left>>
    BY <1>1 DEF CsrfRefuses, RefreshRefused, RefreshFails, ServeLogin,
                CallbackDenied, CallbackRefused, CallbackFails
  <2> QED
    BY <2>1, PlainReply
<1>2. CASE RefreshReads(t)
  <2>1. /\ pc' = [pc EXCEPT ![t] = "read"] /\ pc[t] = "sent"
        /\ token[req[t].cookies.refresh] = "live"
        /\ UNCHANGED <<token, family, commits, jar, left, req, answer>>
    BY <1>2 DEF RefreshReads, Handles, Usable
  <2>2. \A u \in Tab : Quiet(u)
    BY <2>1, Basics DEF Quiet, LInv, KindsOf
  <2> QED
    BY <2>1, <2>2, QuietLedger
<1>3. CASE RefreshRotates(t)
  <2> DEFINE x == req[t].cookies.refresh
  <2>1. /\ pc[t] = "read" /\ req[t].kind = "refresh" /\ x \in Session
        /\ UNCHANGED <<jar, left>>
    BY <1>3, Basics DEF RefreshRotates, Reading
  <2>2. family[x] \in Session
    BY <2>1, Basics DEF LInv, CommitsFit, UnusedNowhere, Secret
  <2>3. PICK s \in Session :
            /\ Issue(s, family[x]) /\ Reply(t, "set", s)
            /\ commits' = commits \cup {[old |-> {x}, new |-> {s}]}
    BY <1>3 DEF RefreshRotates
  <2> QED
    BY <2>1, <2>2, <2>3, IssueLedger
<1>4. CASE CallbackLogsIn(t)
  <2>1. req[t].kind = "callback" /\ UNCHANGED <<jar, left>>
    BY <1>4 DEF CallbackLogsIn, Handles
  <2>2. PICK s \in Session :
            /\ Issue(s, s) /\ Reply(t, "login", s)
            /\ commits' = commits \cup {[old |-> {}, new |-> {s}]}
    BY <1>4 DEF CallbackLogsIn
  <2> QED
    BY <2>1, <2>2, IssueLedger
<1> QED
  BY <1>1, <1>2, <1>3, <1>4, LogoutLedger DEF Serve

\* An answer has been received, or given up.
LEMMA Received ==
  ASSUME IInv, NEW t \in Tab, Done(t)
  PROVE  /\ pc'[t] = "idle" /\ req'[t].kind = "none"
         /\ req'[t].cookies.refresh = None /\ answer'[t] = NoReply
         /\ \A u \in Tab \ {t} : /\ pc'[u] = pc[u] /\ req'[u] = req[u]
                                 /\ answer'[u] = answer[u]
  BY Basics DEF Done, NoRequest, NoCookies

\* A request gets ready or is sent.
LEMMA Asked ==
  ASSUME IInv, LInv, NEW t \in Tab,
         \/ \E kind \in Unsafe : Prepare(t, kind)
         \/ Send(t) \/ \E f \in away : ComeBack(t, f)
  PROVE  /\ pc[t] \in {"idle", "ready"} /\ pc'[t] \in {"ready", "sent"}
         /\ answer' = answer
         /\ \/ pc'[t] = "ready" /\ req'[t].cookies.refresh = None
               /\ UNCHANGED sessionHistory
            \/ pc'[t] = "sent" /\ req'[t].cookies.refresh = jar.refresh
               /\ TangledIf(UnderWay)
         /\ pc'[t] = "sent" => req'[t].kind \in Changing
         /\ UNCHANGED <<serverVars, jar>>
         /\ \A u \in Tab \ {t} : pc'[u] = pc[u] /\ req'[u] = req[u]
<1>0. /\ Reading(t) /\ req[t] \in Request /\ Unsafe \subseteq Changing
  BY Basics DEF Unsafe, Changing
<1>1. ASSUME NEW kind \in Unsafe, Prepare(t, kind) PROVE
         /\ pc[t] = "idle" /\ pc'[t] = "ready"
         /\ req'[t].cookies.refresh = None
  <2>1. [NoRequest EXCEPT !.kind = kind, !.header = jar.csrf]
            .cookies.refresh = None
    BY DEF NoRequest, NoCookies
  <2> QED
    BY <1>1, <2>1, Basics DEF Prepare
<1>2. CASE Send(t)
  <2>1. /\ pc[t] = "ready" /\ pc'[t] = "sent"
        /\ req'[t].cookies = jar /\ req'[t].kind = req[t].kind
    BY <1>0, <1>2, Basics DEF Send, Request
  <2>2. req[t].kind \in Changing
    BY <1>0, <2>1 DEF Reading
  <2>3. TangledIf(UnderWay)
    BY <1>2, <2>2 DEF Send, TangledIf
  <2> QED
    BY <1>2, <2>1, <2>2, <2>3, Basics DEF Send
<1>3. ASSUME NEW f \in away, ComeBack(t, f) PROVE
         /\ pc[t] = "idle" /\ pc'[t] = "sent"
         /\ req'[t].cookies = jar /\ req'[t].kind = "callback"
  BY <1>3, Basics DEF ComeBack, NoRequest
<1>4. CASE \E kind \in Unsafe : Prepare(t, kind)
  BY <1>1, <1>4, Basics DEF Prepare, historyVars
<1>5. CASE \E f \in away : ComeBack(t, f)
  BY <1>3, <1>5, Basics DEF ComeBack, Changing
<1> QED
  BY <1>2, <1>4, <1>5

LEMMA TabLedger == ASSUME IInv, LInv, NEW t \in Tab, TabStep(t) PROVE LInv'
<1> USE DEF serverVars, tokenVars, historyVars, sessionHistory
<1>1. ASSUME Done(t) PROVE \A u \in Tab : Quiet(u)
  BY <1>1, Received DEF Quiet, LInv, KindsOf, NoReply
<1>2. CASE ReceiveOther(t)
  BY <1>1, <1>2, QuietLedger DEF ReceiveOther
<1>3. CASE ReceiveState(t)
  <2>1. jar'.refresh = jar.refresh
    BY <1>3, Basics DEF ReceiveState, WithState, Jar
  <2> QED
    BY <1>1, <1>3, <2>1, QuietLedger DEF ReceiveState
<1>4. CASE Lose(t)
  <2>1. left' \in {left, None}
    BY <1>4 DEF Lose, TangledIf
  <2> QED
    BY <1>1, <1>4, <2>1, Basics, QuietLedger DEF Lose
<1>5. CASE ReceiveSession(t) \/ ReceiveLogin(t)
  <2>1. OnItsWay(t, jar'.refresh) /\ answer'[t] = NoReply
    BY <1>5, Basics, Received
       DEF OnItsWay, ReceiveSession, ReceiveLogin, WithSession, WithState, Jar
  <2>2. left' \in {left, None} /\ UNCHANGED <<token, family, commits>>
    BY <1>5 DEF ReceiveSession, ReceiveLogin
  <2>3. Done(t)
    BY <1>5 DEF ReceiveSession, ReceiveLogin
  <2> QED
    BY <1>1, <2>1, <2>2, <2>3, Basics, QuietLedger
<1>6. CASE ReceiveClear(t)
  <2>1. /\ jar'.refresh = None /\ UNCHANGED <<token, family, commits>>
        /\ Done(t) /\ answer[t].what = "clear"
        /\ \/ left' = None
           \/ left' = family[answer[t].session] /\ answer[t].session # None
    BY <1>6, Basics DEF ReceiveClear, WithoutSession, Jar
  <2>2. answer[t].session # None => answer[t].session \in Session
    BY <2>1, Basics DEF AnswerSound, Secret
  <2>3. \A s \in Session : left' = s => left = s \/ token[s] # "unused"
    BY <2>1, <2>2, Basics DEF LInv, UnusedNowhere
  <2> QED
    BY <1>1, <2>1, <2>3, QuietLedger
<1>7. CASE \/ \E kind \in Unsafe : Prepare(t, kind)
           \/ Send(t) \/ \E f \in away : ComeBack(t, f)
  <2>1. \A u \in Tab : Quiet(u)
    <3>1. Quiet(t)
      BY <1>7, Asked, Basics DEF Quiet, KindsOf, LInv, AnswerSound, NoReply
    <3>2. ASSUME NEW u \in Tab \ {t} PROVE Quiet(u)
      BY <1>7, Asked DEF Quiet, KindsOf, LInv
    <3> QED
      BY <3>1, <3>2
  <2>2. left' \in {left, None}
    BY <1>7, Asked DEF TangledIf
  <2> QED
    BY <1>7, <2>1, <2>2, Asked, Basics, QuietLedger
<1> QED
  BY <1>2, <1>3, <1>4, <1>5, <1>6, <1>7 DEF TabStep

LEMMA LedgerStep == IInv /\ LInv /\ [Next]_vars => LInv'
<1> SUFFICES ASSUME IInv, LInv, [Next]_vars PROVE LInv'
  OBVIOUS
<1> USE DEF serverVars, tokenVars, historyVars, sessionHistory
<1>1. CASE Expire
  <2>1. jar'.refresh \in {jar.refresh, None}
    BY <1>1, Basics DEF Expire, Aged, WithoutSession, WithState, Jar
  <2>2. \A u \in Tab : Quiet(u)
    BY <1>1 DEF Expire, Quiet, LInv, KindsOf
  <2> QED
    BY <1>1, <2>1, <2>2, QuietLedger DEF Expire
<1>2. CASE UNCHANGED vars
  BY <1>2, QuietLedger DEF vars, Quiet, LInv, KindsOf
<1> QED
  BY <1>1, <1>2, ServeLedger, TabLedger, EndLedger DEF Next
-----------------------------------------------------------------------------
(* While nothing overlaps and nothing is lost.                             *)

\* The token is used up, or will be when an open transaction commits.
Dead(s) == \/ token[s] \in {"revoked", "void"}
           \/ \E c \in commits : s \in c.old

\* It is good, or will be.
Good(s) == /\ token[s] \in {"put", "live"}
           /\ \A c \in commits : s \notin c.old

\* It is the only one of its family that may be good.
Alone(s) == \A r \in Session \ {s} : family[r] = family[s] => Dead(r)

\* One request at a time; a transaction that is still open belongs to one that
\* has been answered.
InTurn ==
    /\ \A t, u \in Busy : t = u
    /\ \A t \in Busy : pc[t] # "answered" => commits = {}

\* The browser's token is good, unless an answer that replaces it is coming.
JarGood ==
    \/ jar.refresh = None
    \/ \E t \in Tab : answer[t].what \in {"set", "clear"}
    \/ Good(jar.refresh) /\ Alone(jar.refresh)

RequestAlone(t) ==
    req[t].cookies.refresh # None => Alone(req[t].cookies.refresh)

\* A refresh brings the one good token of the family, a logout leaves none.
AnswerGood(t) ==
    LET s == answer[t].session IN
    /\ answer[t].what = "set" => Good(s) /\ Alone(s)
    /\ answer[t].what = "clear" /\ s # None => Dead(s) /\ Alone(s)

Untangled ==
    /\ InTurn /\ JarGood
    /\ \A t \in Tab : RequestAlone(t) /\ AnswerGood(t)

\* After a logout nothing brings the session back.
LoggedOut ==
    /\ ~tangled
    /\ jar.access = None /\ jar.refresh = None
    /\ \A t \in Tab : /\ req[t].cookies.refresh = None
                      /\ answer[t].what # "set"
    /\ left # None => \A s \in Session : family[s] = left => Dead(s)

SInv == (~tangled => Untangled) /\ (out => LoggedOut)

LEMMA InitSession == Init => SInv
<1> SUFFICES ASSUME Init PROVE SInv
  OBVIOUS
<1>1. /\ jar.refresh = None /\ jar.access = None
      /\ left = None /\ ~out /\ commits = {} /\ Busy = {}
      /\ \A t \in Tab : /\ answer[t].what = "none"
                        /\ req[t].cookies.refresh = None
  BY DEF Init, NoRequest, NoReply, NoCookies, Busy
<1> QED
  BY <1>1 DEF SInv, Untangled, LoggedOut, InTurn, JarGood, RequestAlone,
              AnswerGood

LEMMA Tangles == tangled' /\ ~out' => SInv'
  BY DEF SInv

LEMMA StaysTangled ==
  SInv /\ tangled /\ UNCHANGED sessionHistory => SInv'
  BY DEF SInv, LoggedOut, sessionHistory

\* Whatever carries the refresh cookie or changes it is busy.
LEMMA OnlyBusy ==
  ASSUME IInv, LInv, NEW t \in Tab,
         req[t].cookies.refresh # None \/ answer[t].what \in {"set", "clear"}
  PROVE  t \in Busy
<1>1. KindsOf(t) /\ AnswerSound(t)
  BY Basics DEF LInv
<1> QED
  BY <1>1 DEF Busy, KindsOf, AnswerSound, NoReply, Changing

LEMMA TurnStays ==
  ASSUME InTurn, commits' \subseteq commits, Busy' \subseteq Busy,
         \A t \in Busy' : pc'[t] # "answered" => pc[t] # "answered"
  PROVE  InTurn'
  BY DEF InTurn

\* The tokens stay, and no answer that changes the session cookies comes or
\* goes.
LEMMA QuietSession ==
  ASSUME IInv, LInv, SInv,
         UNCHANGED <<token, family, commits, sessionHistory>>,
         jar'.refresh \in {jar.refresh, None},
         jar'.access \in {jar.access, None},
         \A u \in Tab :
            /\ \/ req'[u].cookies.refresh \in {None, req[u].cookies.refresh}
               \/ req'[u].cookies.refresh = jar.refresh /\ ~UnderWay
            /\ \/ answer'[u] = answer[u]
               \/ /\ answer[u].what \notin {"set", "clear"}
                  /\ answer'[u].what \notin {"set", "clear"},
         ~tangled => InTurn'
  PROVE  SInv'
<1>1. /\ \A s : (Dead(s)' <=> Dead(s)) /\ (Good(s)' <=> Good(s))
      /\ \A s : Alone(s)' <=> Alone(s)
  BY DEF Dead, Good, Alone
<1>2. CASE tangled
  BY <1>2, StaysTangled
<1>3. CASE ~tangled
  <2>1. Untangled
    BY <1>3 DEF SInv
  <2>2. JarGood'
    BY <1>1, <2>1 DEF Untangled, JarGood
  <2>3. ~UnderWay /\ jar.refresh # None => Alone(jar.refresh)
    BY <2>1, OnlyBusy DEF UnderWay, Untangled, JarGood
  <2>4. \A u \in Tab : RequestAlone(u)'
    BY <1>1, <2>1, <2>3 DEF Untangled, RequestAlone
  <2>5. \A u \in Tab : AnswerGood(u)'
    BY <1>1, <2>1 DEF Untangled, AnswerGood
  <2>6. out' => LoggedOut'
    BY <1>1 DEF SInv, LoggedOut, sessionHistory
  <2> QED
    BY <1>3, <2>2, <2>4, <2>5, <2>6 DEF SInv, Untangled
<1> QED
  BY <1>2, <1>3
\* A session answer or a clear arrives in good order.
LEMMA ReceiveSessionStep ==
  ASSUME IInv, LInv, SInv, NEW t \in Tab, ReceiveSession(t)
  PROVE  SInv'
<1> DEFINE x == answer[t].session
<1>1. /\ pc[t] = "answered" /\ answer[t].what = "set" /\ x \in Session
      /\ jar'.refresh = x /\ Done(t)
      /\ UNCHANGED <<token, family, commits, sessionHistory>>
  BY Basics DEF ReceiveSession, WithSession, Jar, AnswerSound, serverVars,
                tokenVars
<1>2. CASE tangled
  BY <1>1, <1>2, StaysTangled
<1>3. CASE ~tangled
  <2>1. Untangled /\ ~out
    BY <1>1, <1>3 DEF SInv, LoggedOut
  <2>2. /\ \A s : (Dead(s)' <=> Dead(s)) /\ (Good(s)' <=> Good(s))
        /\ \A s : Alone(s)' <=> Alone(s)
    BY <1>1 DEF Dead, Good, Alone
  <2>3. InTurn'
    <3>1. \A u \in Busy' : u \in Busy /\ pc'[u] = pc[u]
      BY <1>1, Received DEF Busy
    <3> QED
      BY <1>1, <2>1, <3>1, TurnStays DEF Untangled
  <2>4. JarGood'
    BY <1>1, <2>1, <2>2 DEF Untangled, AnswerGood, JarGood
  <2>5. \A u \in Tab : RequestAlone(u)' /\ AnswerGood(u)'
    BY <1>1, <2>1, <2>2, Received
       DEF Untangled, RequestAlone, AnswerGood, NoReply
  <2> QED
    BY <1>1, <2>1, <2>3, <2>4, <2>5 DEF SInv, Untangled, sessionHistory
<1> QED
  BY <1>2, <1>3

LEMMA ReceiveClearStep ==
  ASSUME IInv, LInv, SInv, NEW t \in Tab, ReceiveClear(t)
  PROVE  SInv'
<1> DEFINE x == answer[t].session
<1>1. /\ pc[t] = "answered" /\ answer[t].what = "clear" /\ x \in Secret
      /\ jar'.refresh = None /\ jar'.access = None /\ Done(t)
      /\ UNCHANGED <<token, family, commits, tangled>>
      /\ out' = ~tangled
      /\ left' = IF tangled \/ x = None THEN None ELSE family[x]
  BY Basics DEF ReceiveClear, WithoutSession, Jar, AnswerSound, serverVars,
                tokenVars
<1>2. CASE tangled
  BY <1>1, <1>2, Basics, Tangles
<1>3. CASE ~tangled
  <2>1. Untangled
    BY <1>3 DEF SInv
  <2>2. /\ \A s : (Dead(s)' <=> Dead(s)) /\ (Good(s)' <=> Good(s))
        /\ \A s : Alone(s)' <=> Alone(s)
    BY <1>1 DEF Dead, Good, Alone
  <2>3. \A u \in Tab : /\ req'[u].cookies.refresh = None
                       /\ answer'[u].what \notin {"set", "clear"}
    <3>1. \A u \in Tab \ {t} : u \notin Busy
      BY <1>1, <2>1, OnlyBusy DEF Untangled, InTurn
    <3> QED
      BY <1>1, <3>1, Received, OnlyBusy DEF NoReply
  <2>4. InTurn'
    <3>1. \A u \in Busy' : u \in Busy /\ pc'[u] = pc[u]
      BY <1>1, Received DEF Busy
    <3> QED
      BY <1>1, <2>1, <3>1, TurnStays DEF Untangled
  <2>5. JarGood' /\ \A u \in Tab : RequestAlone(u)' /\ AnswerGood(u)'
    BY <1>1, <2>3 DEF JarGood, RequestAlone, AnswerGood
  <2>6. left' # None => \A s \in Session : family[s] = left' => Dead(s)
    <3>1. SUFFICES ASSUME left' # None, NEW s \in Session,
                          family[s] = family[x], x # None
                   PROVE  Dead(s)
      BY <1>1
    <3>2. Dead(x) /\ Alone(x)
      BY <1>1, <2>1, <3>1 DEF Untangled, AnswerGood
    <3> QED
      BY <3>1, <3>2 DEF Alone
  <2>7. LoggedOut'
    BY <1>1, <1>3, <2>2, <2>3, <2>6 DEF LoggedOut
  <2> QED
    BY <2>4, <2>5, <2>7 DEF SInv, Untangled
<1> QED
  BY <1>2, <1>3

\* A login starts afresh: its session is alone in its family, whatever is
\* still under way for others.
LEMMA ReceiveLoginStep ==
  ASSUME IInv, LInv, SInv, NEW t \in Tab, ReceiveLogin(t)
  PROVE  SInv'
<1> DEFINE x == answer[t].session
<1>1. /\ pc[t] = "answered" /\ answer[t].what = "login" /\ x \in Session
      /\ jar'.refresh = x /\ Done(t)
      /\ UNCHANGED <<token, family, commits>>
      /\ tangled' = (Busy \ {t} # {} \/ token[x] = "void") /\ ~out'
  BY Basics DEF ReceiveLogin, WithSession, WithState, Jar, AnswerSound,
                serverVars, tokenVars
<1>2. CASE tangled'
  BY <1>1, <1>2, Tangles
<1>3. CASE ~tangled'
  <2>1. \A u \in Tab \ {t} : u \notin Busy
    BY <1>1, <1>3
  <2>2. Busy' = {}
    BY <1>1, <2>1, Received DEF Busy, Changing
  <2>3. \A u \in Tab : /\ req'[u].cookies.refresh = None
                       /\ answer'[u].what \notin {"set", "clear"}
    BY <1>1, <2>1, Received, OnlyBusy DEF NoReply
  <2>4. Good(jar.refresh)' /\ Alone(jar.refresh)'
    <3>1. Unreceived(t, x) /\ OnItsWay(t, x)
      BY <1>1 DEF LInv, OnItsWay
    <3>2. \A r \in Session : family[r] = x <=> r = x
      BY <1>1, <3>1 DEF Unreceived
    <3>3. token[x] # "void"
      BY <1>1, <1>3
    <3> QED
      BY <1>1, <3>1, <3>2, <3>3
         DEF Unreceived, Carried, Good, Alone
  <2>5. /\ InTurn' /\ JarGood'
        /\ \A u \in Tab : RequestAlone(u)' /\ AnswerGood(u)'
    BY <1>1, <2>2, <2>3, <2>4 DEF InTurn, JarGood, RequestAlone, AnswerGood
  <2> QED
    BY <1>1, <1>3, <2>5 DEF SInv, Untangled
<1> QED
  BY <1>2, <1>3

LEMMA TabSession ==
  ASSUME IInv, LInv, SInv, NEW t \in Tab, TabStep(t) PROVE SInv'
<1> USE DEF serverVars, tokenVars, historyVars
<1>1. CASE ReceiveOther(t) \/ ReceiveState(t)
  <2>1. /\ Done(t) /\ UNCHANGED <<token, family, commits, sessionHistory>>
        /\ answer[t].what \notin {"set", "clear"}
        /\ jar'.refresh = jar.refresh /\ jar'.access = jar.access
    BY <1>1, Basics DEF ReceiveOther, ReceiveState, WithState, Jar
  <2>2. \A u \in Busy' : u \in Busy /\ pc'[u] = pc[u]
    BY <2>1, Received DEF Busy
  <2>3. ~tangled => InTurn'
    BY <2>1, <2>2, TurnStays DEF SInv, Untangled
  <2>4. answer'[t].what \notin {"set", "clear"}
    BY <2>1, Received DEF NoReply
  <2> QED
    BY <2>1, <2>3, <2>4, Received, QuietSession
<1>2. CASE Lose(t)
  <2>1. CASE req[t].kind \in Changing
    BY <1>2, <2>1, Tangles DEF Lose, TangledIf
  <2>2. CASE req[t].kind \notin Changing
    <3>1. /\ Done(t)
          /\ UNCHANGED <<token, family, commits, jar, sessionHistory>>
      BY <1>2, <2>2 DEF Lose, TangledIf
    <3>2. answer[t].what \notin {"set", "clear"}
      BY <2>2, OnlyBusy DEF Busy
    <3>3. \A u \in Busy' : u \in Busy /\ pc'[u] = pc[u]
      BY <3>1, Received DEF Busy
    <3>4. ~tangled => InTurn'
      BY <3>1, <3>3, TurnStays DEF SInv, Untangled
    <3>5. answer'[t].what \notin {"set", "clear"}
      BY <3>1, Received DEF NoReply
    <3> QED
      BY <3>1, <3>2, <3>4, <3>5, Received, QuietSession
  <2> QED
    BY <2>1, <2>2
<1>3. CASE \/ \E kind \in Unsafe : Prepare(t, kind)
           \/ Send(t) \/ \E f \in away : ComeBack(t, f)
  <2>1. CASE pc'[t] = "sent" /\ UnderWay
    BY <1>3, <2>1, Asked, Tangles DEF TangledIf
  <2>2. CASE pc'[t] = "ready" \/ ~UnderWay
    <3>1. /\ UNCHANGED <<token, family, commits, jar, answer, sessionHistory>>
          /\ \/ req'[t].cookies.refresh = None
             \/ req'[t].cookies.refresh = jar.refresh /\ ~UnderWay
      BY <1>3, <2>2, Asked DEF TangledIf
    <3>2. ~tangled => InTurn'
      <4>1. CASE pc'[t] = "ready"
        <5>1. \A u \in Busy' : u \in Busy /\ pc'[u] = pc[u]
          BY <1>3, <4>1, Asked DEF Busy
        <5> QED
          BY <3>1, <5>1, TurnStays DEF SInv, Untangled
      <4>2. CASE ~UnderWay
        <5>1. Busy = {} /\ commits' = {}
          BY <3>1, <4>2 DEF UnderWay
        <5>2. \A u \in Busy' : u = t
          BY <1>3, <5>1, Asked DEF Busy
        <5> QED
          BY <5>1, <5>2 DEF InTurn
      <4> QED
        BY <2>2, <4>1, <4>2
    <3> QED
      BY <1>3, <3>1, <3>2, Asked, QuietSession
  <2> QED
    BY <1>3, <2>1, <2>2, Asked
<1> QED
  BY <1>1, <1>2, <1>3, ReceiveSessionStep, ReceiveClearStep, ReceiveLoginStep
     DEF TabStep
\* While the requests take turns, the one that is being served is the only
\* one that carries a token, and nothing is open in the database.
LEMMA ServedAlone ==
  ASSUME IInv, LInv, SInv, ~tangled, NEW t \in Tab, t \in Busy,
         pc[t] \in {"sent", "read"}
  PROVE  /\ commits = {} /\ answer[t] = NoReply
         /\ \A u \in Tab \ {t} : /\ u \notin Busy
                                 /\ req[u].cookies.refresh = None
                                 /\ answer[u].what \notin {"set", "clear"}
<1>1. InTurn /\ AnswerSound(t)
  BY Basics DEF SInv, Untangled
<1> QED
  BY <1>1, OnlyBusy DEF InTurn, AnswerSound

\* Tokens that are used up stay so when the server issues another or opens a
\* transaction.
LEMMA DeadStays ==
  ASSUME commits \subseteq commits',
         NEW s, token'[s] = token[s], Dead(s)
  PROVE  Dead(s)'
  BY DEF Dead

LEMMA RotateSession ==
  ASSUME IInv, LInv, SInv, NEW t \in Tab, RefreshRotates(t)
  PROVE  SInv'
<1>1. PICK x \in Session :
      /\ x = req[t].cookies.refresh
      /\ pc[t] = "read" /\ req[t].kind = "refresh" /\ t \in Busy
      /\ UNCHANGED <<jar, sessionHistory>>
  BY Basics DEF RefreshRotates, Reading, Busy, Changing, historyVars
<1>2. PICK s \in Session :
          /\ Issue(s, family[x]) /\ Reply(t, "set", s)
          /\ commits' = commits \cup {[old |-> {x}, new |-> {s}]}
  BY <1>1 DEF RefreshRotates
<1>3. CASE tangled
  BY <1>1, <1>3, StaysTangled
<1>4. CASE ~tangled
  <2>1. /\ commits = {} /\ RequestAlone(t) /\ UnusedNowhere(s)
        /\ token[x] \in {"live", "revoked"}
    BY <1>1, <1>4, ServedAlone DEF SInv, Untangled, LInv, CommitsFit
  <2>2. /\ token[s] = "unused" /\ token'[s] = "put" /\ family'[s] = family[x]
        /\ \A r \in Session \ {s} : /\ token'[r] = token[r]
                                    /\ family'[r] = family[r]
    BY <1>2, Basics DEF Issue
  <2>3. s # x
    BY <2>1, <2>2
  <2>4. Dead(x)'
    <3>1. [old |-> {x}, new |-> {s}] \in commits'
      BY <1>2
    <3>2. x \in [old |-> {x}, new |-> {s}].old
      OBVIOUS
    <3> QED
      BY <3>1, <3>2 DEF Dead
  <2>5. ASSUME NEW r \in Session \ {s}, family'[r] = family[x] PROVE Dead(r)'
    <3>1. CASE r = x
      BY <2>4, <3>1
    <3>2. CASE r # x
      <4>1. Dead(r)
        BY <1>1, <2>1, <2>2, <2>5, <3>2, Basics DEF RequestAlone, Alone
      <4> QED
        BY <1>2, <2>2, <4>1, DeadStays
    <3> QED
      BY <3>1, <3>2
  <2>6. answer'[t].what = "set" /\ answer'[t].session = s
    BY <1>2, Replied
  <2>7. AnswerGood(t)'
    <3>1. \A c \in commits' : s \notin c.old
      BY <1>2, <2>1, <2>3
    <3> QED
      BY <2>2, <2>5, <2>6, <3>1 DEF AnswerGood, Good, Alone
  <2>8. ASSUME NEW u \in Tab PROVE RequestAlone(u)' /\ AnswerGood(u)'
    BY <1>1, <1>2, <1>4, <2>7, Replied, ServedAlone
       DEF RequestAlone, AnswerGood
  <2>9. InTurn' /\ JarGood'
    <3>1. \A u \in Busy' : u = t
      BY <1>1, <1>2, <1>4, Replied, ServedAlone DEF Busy
    <3> QED
      BY <1>2, <2>6, <3>1, Replied DEF InTurn, JarGood
  <2>10. ~out
    BY <1>1, Basics DEF SInv, LoggedOut
  <2> QED
    BY <1>1, <2>8, <2>9, <2>10 DEF SInv, Untangled, sessionHistory
<1> QED
  BY <1>3, <1>4

LEMMA LoginSession ==
  ASSUME IInv, LInv, SInv, NEW t \in Tab, CallbackLogsIn(t)
  PROVE  SInv'
<1>1. /\ pc[t] = "sent" /\ req[t].kind = "callback"
      /\ t \in Busy /\ UNCHANGED <<jar, sessionHistory>>
  BY DEF CallbackLogsIn, Handles, Busy, Changing, historyVars
<1>2. PICK s \in Session :
          /\ Issue(s, s) /\ Reply(t, "login", s)
          /\ commits' = commits \cup {[old |-> {}, new |-> {s}]}
  BY DEF CallbackLogsIn
<1>3. CASE tangled
  BY <1>1, <1>3, StaysTangled
<1>4. CASE ~tangled
  <2>1. commits = {} /\ answer[t] = NoReply /\ UnusedNowhere(s)
    BY <1>1, <1>4, ServedAlone DEF LInv
  <2>2. /\ token[s] = "unused" /\ token'[s] = "put" /\ family'[s] = s
        /\ \A r \in Session \ {s} : /\ token'[r] = token[r]
                                    /\ family'[r] = family[r]
    BY <1>2, Basics DEF Issue
  <2>3. \A r \in Session \ {s} : Dead(r) => Dead(r)'
    BY <1>2, <2>2, DeadStays
  <2>4. ASSUME NEW u \in Tab
        PROVE  /\ req'[u].cookies.refresh = None
               /\ answer'[u].what \notin {"set", "clear"}
    BY <1>1, <1>2, <1>4, Replied, ServedAlone
  <2>5. InTurn'
    <3>1. \A u \in Busy' : u = t
      BY <1>1, <1>2, <1>4, Replied, ServedAlone DEF Busy
    <3> QED
      BY <1>2, <3>1, Replied DEF InTurn
  <2>6. JarGood'
    <3>1. SUFFICES ASSUME jar.refresh # None
                   PROVE  Good(jar.refresh)' /\ Alone(jar.refresh)'
      BY <1>1 DEF JarGood
    <3>2. /\ Good(jar.refresh) /\ Alone(jar.refresh)
      BY <1>1, <1>4, <2>1, <3>1, ServedAlone
         DEF SInv, Untangled, JarGood, NoReply
    <3>3. jar.refresh \in Session \ {s} /\ jar' = jar
      BY <1>1, <2>1, <2>2, <3>1, Basics DEF UnusedNowhere, Carried, Jar
    <3>4. Good(jar.refresh)'
      BY <1>2, <2>1, <2>2, <3>2, <3>3 DEF Good
    <3>5. family'[s] # family'[jar.refresh]
      BY <2>1, <2>2, <3>3 DEF UnusedNowhere
    <3> QED
      BY <2>2, <2>3, <3>2, <3>3, <3>4, <3>5 DEF Alone
  <2>7. out' => LoggedOut'
    <3>1. SUFFICES ASSUME out' PROVE LoggedOut'
      OBVIOUS
    <3>2. LoggedOut /\ ~tangled' /\ left' = left
      BY <1>1, <3>1 DEF SInv, sessionHistory, LoggedOut
    <3>3. left # None => \A r \in Session : family'[r] = left => Dead(r)'
      BY <2>1, <2>2, <2>3, <3>2 DEF LoggedOut, UnusedNowhere
    <3> QED
      BY <1>1, <2>4, <3>2, <3>3 DEF LoggedOut
  <2> QED
    BY <1>4, <2>4, <2>5, <2>6, <2>7
       DEF SInv, Untangled, RequestAlone, AnswerGood
<1> QED
  BY <1>3, <1>4

LEMMA LogoutSession ==
  ASSUME IInv, LInv, SInv, NEW t \in Tab, ServeLogout(t)
  PROVE  SInv'
<1>1. PICK x \in Secret, rows \in SUBSET Secret :
      /\ x = req[t].cookies.refresh
      /\ rows = {r \in {x} \ {None} : token[r] = "live"}
      /\ pc[t] = "sent" /\ t \in Busy /\ Reply(t, "clear", x)
      /\ \/ rows = {} /\ commits' = commits
         \/ rows # {} /\ commits' = commits \cup {[old |-> rows, new |-> {}]}
      /\ UNCHANGED <<token, family, jar, sessionHistory>>
  <2> DEFINE x == req[t].cookies.refresh
             rows == {r \in {x} \ {None} : token[r] = "live"}
  <2>1. x \in Secret /\ rows \in SUBSET Secret
    BY Basics DEF Request, Jar, Secret
  <2> QED
    BY <2>1 DEF ServeLogout, Handles, Busy, Changing, historyVars
<1>2. CASE tangled
  BY <1>1, <1>2, StaysTangled
<1>3. CASE ~tangled
  <2>1. \A r : Dead(r) => Dead(r)'
    BY <1>1, DeadStays
  <2>2. \A r : Alone(r) => Alone(r)'
    BY <1>1, <2>1 DEF Alone
  <2>3. /\ answer'[t].what = "clear" /\ answer'[t].session = x
        /\ RequestAlone(t) /\ commits = {}
    BY <1>1, <1>3, Replied, ServedAlone DEF SInv, Untangled
  <2>4. ASSUME x # None PROVE Dead(x)'
    <3>1. x \in Session
      BY <2>4 DEF Secret
    <3>2. token[x] # "unused"
      BY <1>1, <3>1 DEF LInv, UnusedNowhere, Carried
    <3>3. token[x] # "put"
      BY <2>3, <3>1 DEF LInv, CommitsFit
    <3>4. token[x] = "live" => x \in rows
      BY <1>1, <2>4
    <3>5. token[x] = "live" => [old |-> rows, new |-> {}] \in commits'
      BY <1>1, <3>4
    <3>6. [old |-> rows, new |-> {}].old = rows
      OBVIOUS
    <3> QED
      BY <1>1, <3>1, <3>2, <3>3, <3>4, <3>5, <3>6, Basics DEF Dead
  <2>5. ASSUME NEW u \in Tab PROVE RequestAlone(u)' /\ AnswerGood(u)'
    BY <1>1, <1>3, <2>2, <2>3, <2>4, Replied, ServedAlone
       DEF RequestAlone, AnswerGood
  <2>6. InTurn' /\ JarGood'
    <3>1. \A u \in Busy' : u = t
      BY <1>1, <1>3, Replied, ServedAlone DEF Busy
    <3> QED
      BY <1>1, <2>3, <3>1, Replied DEF InTurn, JarGood
  <2>7. out' => LoggedOut'
    BY <1>1, <2>1, Replied DEF SInv, LoggedOut, sessionHistory
  <2> QED
    BY <2>5, <2>6, <2>7 DEF SInv, Untangled
<1> QED
  BY <1>2, <1>3

LEMMA ServeSession ==
  ASSUME IInv, LInv, SInv, NEW t \in Tab, Serve(t) PROVE SInv'
<1> USE DEF serverVars, tokenVars, historyVars
<1>1. CASE \/ CsrfRefuses(t) \/ RefreshRefused(t) \/ RefreshFails(t)
           \/ ServeLogin(t) \/ CallbackDenied(t) \/ CallbackRefused(t)
           \/ CallbackFails(t)
  <2>1. PICK what, s :
            /\ Reply(t, what, s) /\ what \notin {"set", "clear"}
            /\ pc[t] # "answered"
            /\ \/ pc[t] \in {"sent", "read"}
               \/ req[t].kind \notin Changing
            /\ UNCHANGED <<token, family, commits, jar, sessionHistory>>
    BY <1>1 DEF CsrfRefuses, RefreshRefused, RefreshFails, ServeLogin,
                CallbackDenied, CallbackRefused, CallbackFails, Handles,
                LInv, KindsOf, Changing
  <2>2. \A u \in Busy' : u \in Busy /\ (pc'[u] # "answered" => pc'[u] = pc[u])
    BY <2>1, Replied DEF Busy
  <2>3. ~tangled => InTurn'
    BY <2>1, <2>2, TurnStays DEF SInv, Untangled
  <2>4. answer[t].what \notin {"set", "clear"}
    BY <2>1, Basics DEF AnswerSound, NoReply
  <2> QED
    BY <2>1, <2>3, <2>4, Replied, QuietSession
<1>2. CASE RefreshReads(t)
  <2>1. /\ pc' = [pc EXCEPT ![t] = "read"] /\ pc[t] = "sent"
        /\ UNCHANGED <<token, family, commits, jar, req, answer,
                       sessionHistory>>
    BY <1>2 DEF RefreshReads, Handles
  <2>2. \A u \in Busy' : u \in Busy /\ (pc'[u] # "answered" =>
                                            pc[u] # "answered")
    BY <2>1, Basics DEF Busy
  <2>3. ~tangled => InTurn'
    BY <2>1, <2>2, TurnStays DEF SInv, Untangled
  <2> QED
    BY <2>1, <2>3, QuietSession
<1> QED
  BY <1>1, <1>2, RotateSession, LoginSession, LogoutSession DEF Serve

LEMMA CommitSession ==
  ASSUME IInv, LInv, SInv, NEW c \in commits, Commit(c) PROVE SInv'
<1>1. /\ commits' = commits \ {c}
      /\ UNCHANGED <<family, jar, pc, req, answer, sessionHistory>>
      /\ \A s \in Session :
            /\ s \in c.old => token'[s] = "revoked"
            /\ s \in c.new => token[s] = "put"
            /\ s \notin c.old => token'[s] \in {token[s], "live"}
            /\ s \notin c.old /\ s \notin c.new => token'[s] = token[s]
  BY DEF Commit, historyVars, LInv, CommitsFit
<1>2. \A s \in Session : Dead(s) => Dead(s)'
  BY <1>1 DEF Dead
<1>3. \A s \in Session : Good(s) => Good(s)'
  BY <1>1 DEF Good
<1>4. \A s \in Session : Alone(s) => Alone(s)'
  BY <1>1, <1>2 DEF Alone
<1>5. CASE tangled
  BY <1>1, <1>5, StaysTangled
<1>6. CASE ~tangled
  <2>1. Untangled
    BY <1>6 DEF SInv
  <2>2. InTurn'
    <3>1. Busy' = Busy
      BY <1>1 DEF Busy
    <3> QED
      BY <1>1, <2>1, <3>1, TurnStays DEF Untangled
  <2>3. JarGood'
    BY <1>1, <1>3, <1>4, <2>1, Basics DEF Untangled, JarGood, Jar
  <2>4. ASSUME NEW u \in Tab PROVE RequestAlone(u)' /\ AnswerGood(u)'
    <3>1. /\ req[u].cookies.refresh # None =>
                req[u].cookies.refresh \in Session
          /\ answer[u].what = "set" => answer[u].session \in Session
          /\ answer[u].what = "clear" /\ answer[u].session # None =>
                answer[u].session \in Session
      BY Basics DEF Request, Jar, AnswerSound, Secret
    <3>2. RequestAlone(u) /\ AnswerGood(u)
      BY <2>1 DEF Untangled
    <3> QED
      BY <1>1, <1>2, <1>3, <1>4, <3>1, <3>2 DEF RequestAlone, AnswerGood
  <2>5. out' => LoggedOut'
    BY <1>1, <1>2 DEF SInv, LoggedOut, sessionHistory
  <2> QED
    BY <2>2, <2>3, <2>4, <2>5 DEF SInv, Untangled
<1> QED
  BY <1>5, <1>6

LEMMA SessionStep == IInv /\ LInv /\ SInv /\ [Next]_vars => SInv'
<1> SUFFICES ASSUME IInv, LInv, SInv, [Next]_vars PROVE SInv'
  OBVIOUS
<1> USE DEF serverVars, tokenVars, historyVars
<1>1. CASE Expire
  <2>1. /\ jar'.refresh \in {jar.refresh, None}
        /\ jar'.access \in {jar.access, None}
    BY <1>1, Basics DEF Expire, Aged, WithoutSession, WithState, Jar
  <2>2. Busy' = Busy
    BY <1>1 DEF Expire, Busy
  <2>3. ~tangled => InTurn'
    BY <1>1, <2>2, TurnStays DEF SInv, Untangled, Expire
  <2> QED
    BY <1>1, <2>1, <2>3, QuietSession DEF Expire
<1>2. ASSUME NEW c \in commits, CommitFails(c) PROVE SInv'
  BY <1>2, Tangles DEF CommitFails, TangledIf
<1>3. CASE UNCHANGED vars
  <2>1. Busy' = Busy
    BY <1>3 DEF vars, Busy
  <2>2. ~tangled => InTurn'
    BY <1>3, <2>1, TurnStays DEF SInv, Untangled, vars
  <2> QED
    BY <1>3, <2>2, QuietSession DEF vars
<1> QED
  BY <1>1, <1>2, <1>3, ServeSession, TabSession, CommitSession DEF Next

LEMMA Sessions == Spec => [](IInv /\ LInv /\ SInv)
<1>1. Init => IInv /\ LInv /\ SInv
  BY InitInv, InitLedger, InitSession
<1>2. IInv /\ LInv /\ SInv /\ [Next]_vars => (IInv /\ LInv /\ SInv)'
  BY Inductive, LedgerStep, SessionStep
<1> QED
  BY <1>1, <1>2, PTL DEF Spec

\* Tabs that take turns never leave the browser with a refresh token that
\* rotate_refresh_token would take for reuse.
THEOREM NoDeadTokens == Spec => []DeadTokenNeedsTangle
<1>1. IInv /\ LInv /\ SInv => DeadTokenNeedsTangle
  <2> SUFFICES ASSUME IInv, LInv, SInv, jar.refresh # None, ~UnderWay, ~tangled
               PROVE  token[jar.refresh] = "live"
    BY DEF DeadTokenNeedsTangle
  <2>1. Good(jar.refresh)
    BY OnlyBusy DEF SInv, Untangled, JarGood, UnderWay
  <2>2. jar.refresh \in Session
    BY Basics DEF Jar
  <2> QED
    BY <2>1, <2>2 DEF Good, LInv, CommitsFit, UnderWay
<1> QED
  BY <1>1, Sessions, PTL

\* README.md:276-278: after a logout in good order no live token of the session
\* is left on the server, and the browser has no session cookies.
THEOREM LogoutStays == Spec => []LogoutIsFinal
<1>1. IInv /\ LInv /\ SInv => LogoutIsFinal
  BY DEF SInv, LoggedOut, Dead, LogoutIsFinal, UnderWay
<1> QED
  BY <1>1, Sessions, PTL
-----------------------------------------------------------------------------
(* The sessions implement the ledger.                                      *)

\* The first session of a family is on record as long as another one names
\* it.
HeadsRecorded ==
    \A r \in Session : family[r] \notin {None, r} =>
        token[family[r]] \in {"live", "revoked"}

\* An open transaction is that of a login, a rotation or a logout.
Opens(c) == c.old = {} /\ \E s \in Session : c.new = {s} /\ family[s] = s
Trades(c) == \E x, s \in Session :
                c.old = {x} /\ c.new = {s} /\ family[s] = family[x]
Closes(c) == c.new = {} /\ \E x \in Session : c.old = {x}

RInv == HeadsRecorded /\ \A c \in commits : Opens(c) \/ Trades(c) \/ Closes(c)

\* A session is issued, and the transaction that commits it opens.
LEMMA IssueForms ==
  ASSUME IInv, LInv, RInv, NEW s \in Session, NEW first \in Session, NEW old,
         Issue(s, first),
         commits' = commits \cup {[old |-> old, new |-> {s}]},
         \/ first = s /\ old = {}
         \/ \E x \in Session : /\ token[x] \in {"live", "revoked"}
                               /\ first = family[x] /\ old = {x}
  PROVE  RInv'
<1>1. /\ token[s] = "unused" /\ family'[s] = first
      /\ \A r \in Session \ {s} : /\ token'[r] = token[r]
                                  /\ family'[r] = family[r]
  BY Basics DEF Issue
<1>2. UnusedNowhere(s) /\ None \notin Session
  BY Basics DEF LInv
<1>3. HeadsRecorded'
  <2> SUFFICES ASSUME NEW r \in Session, family'[r] \notin {None, r}
               PROVE  token'[family'[r]] \in {"live", "revoked"}
    BY DEF HeadsRecorded
  <2>1. CASE r # s
    <3>1. token[family[r]] \in {"live", "revoked"} /\ family[r] # s
      BY <1>1, <1>2, <2>1 DEF RInv, HeadsRecorded, UnusedNowhere
    <3>2. family[r] \in Session
      BY <1>1, <2>1, Basics DEF Secret
    <3> QED
      BY <1>1, <2>1, <3>1, <3>2
  <2>2. CASE r = s
    <3>1. PICK x \in Session : /\ token[x] \in {"live", "revoked"}
                               /\ first = family[x]
      BY <1>1, <2>2
    <3>2. token[first] \in {"live", "revoked"}
      BY <1>2, <3>1 DEF RInv, HeadsRecorded
    <3> QED
      BY <1>1, <2>2, <3>2
  <2> QED
    BY <2>1, <2>2
<1>4. ASSUME NEW c \in commits' PROVE (Opens(c) \/ Trades(c) \/ Closes(c))'
  <2>1. CASE c \in commits
    <3>1. s \notin c.old /\ s \notin c.new
      BY <1>1, <1>2, <2>1 DEF UnusedNowhere, Carried
    <3>2. CASE Opens(c)
      BY <1>1, <3>1, <3>2 DEF Opens
    <3>3. CASE Trades(c)
      BY <1>1, <3>1, <3>3 DEF Trades
    <3>4. CASE Closes(c)
      BY <3>4 DEF Closes
    <3> QED
      BY <2>1, <3>2, <3>3, <3>4 DEF RInv
  <2>2. CASE c.old = old /\ c.new = {s}
    <3>1. CASE first = s /\ old = {}
      BY <1>1, <2>2, <3>1 DEF Opens
    <3>2. CASE \E x \in Session : /\ token[x] \in {"live", "revoked"}
                                  /\ first = family[x] /\ old = {x}
      BY <1>1, <2>2, <3>2 DEF Trades
    <3> QED
      BY <3>1, <3>2
  <2> QED
    BY <2>1, <2>2
<1> QED
  BY <1>3, <1>4 DEF RInv

\* A step that issues nothing and opens at most a logout's transaction.
LEMMA QuietForms ==
  ASSUME IInv, LInv, RInv, UNCHANGED family,
         \A c \in commits' : c \in commits \/ Closes(c),
         \A s \in Session : token[s] \in {"live", "revoked"} =>
                                token'[s] \in {"live", "revoked"}
  PROVE  RInv'
<1>1. HeadsRecorded'
  BY Basics DEF RInv, HeadsRecorded, Secret
<1> QED
  BY <1>1 DEF RInv, Opens, Trades, Closes

LEMMA FormStep == IInv /\ LInv /\ RInv /\ [Next]_vars => RInv'
<1> SUFFICES ASSUME IInv, LInv, RInv, [Next]_vars PROVE RInv'
  OBVIOUS
<1> USE DEF serverVars, tokenVars
<1>1. CASE Expire \/ UNCHANGED vars
  BY <1>1, QuietForms DEF Expire, vars
<1>2. ASSUME NEW t \in Tab, TabStep(t) PROVE RInv'
  BY <1>2, QuietForms
     DEF TabStep, Prepare, Send, ComeBack, ReceiveOther, ReceiveSession,
         ReceiveClear, ReceiveState, ReceiveLogin, Lose
<1>3. ASSUME NEW t \in Tab, Serve(t) PROVE RInv'
  <2>1. CASE RefreshRotates(t)
    <3>1. pc[t] = "read" /\ req[t].cookies.refresh \in Session
      BY <2>1, Basics DEF RefreshRotates, Reading
    <3>2. token[req[t].cookies.refresh] \in {"live", "revoked"}
      BY <3>1 DEF LInv, CommitsFit
    <3>3. family[req[t].cookies.refresh] \in Session
      BY <3>1, <3>2, Basics DEF LInv, UnusedNowhere, Secret
    <3>4. PICK s \in Session :
              /\ Issue(s, family[req[t].cookies.refresh])
              /\ commits' = commits \cup
                    {[old |-> {req[t].cookies.refresh}, new |-> {s}]}
      BY <2>1 DEF RefreshRotates
    <3> QED
      BY <3>1, <3>2, <3>3, <3>4, IssueForms
  <2>2. CASE CallbackLogsIn(t)
    <3>1. PICK s \in Session :
              /\ Issue(s, s)
              /\ commits' = commits \cup {[old |-> {}, new |-> {s}]}
      BY <2>2 DEF CallbackLogsIn
    <3> QED
      BY <3>1, IssueForms
  <2>3. CASE ServeLogout(t)
    <3>1. ASSUME NEW c \in commits', c \notin commits PROVE Closes(c)
      <4>1. req[t].cookies.refresh \in Session \cup {None}
        BY Basics DEF Request, Jar
      <4>2. /\ c.new = {}
            /\ c.old # {}
            /\ c.old \subseteq {req[t].cookies.refresh} \ {None}
        BY <2>3, <3>1 DEF ServeLogout
      <4> QED
        BY <4>1, <4>2 DEF Closes
    <3> QED
      BY <2>3, <3>1, QuietForms DEF ServeLogout
  <2>4. CASE \/ CsrfRefuses(t) \/ RefreshRefused(t) \/ RefreshReads(t)
             \/ RefreshFails(t) \/ ServeLogin(t) \/ CallbackDenied(t)
             \/ CallbackRefused(t) \/ CallbackFails(t)
    BY <2>4, QuietForms
       DEF CsrfRefuses, RefreshRefused, RefreshReads, RefreshFails,
           ServeLogin, CallbackDenied, CallbackRefused, CallbackFails
  <2> QED
    BY <1>3, <2>1, <2>2, <2>3, <2>4 DEF Serve
<1>4. ASSUME NEW c \in commits, Commit(c) \/ CommitFails(c) PROVE RInv'
  <2>1. \A s \in Session : token[s] \in {"live", "revoked"} =>
            s \notin c.new /\ token'[s] \in {"live", "revoked"}
    BY <1>4, Basics DEF Commit, CommitFails, LInv, CommitsFit
  <2> QED
    BY <1>4, <2>1, QuietForms DEF Commit, CommitFails
<1> QED
  BY <1>1, <1>2, <1>3, <1>4 DEF Next

\* A commit is one ledger step: a login issues, a rotation exchanges, a logout
\* revokes or finds the token revoked.
LEMMA CommitKeepsBooks ==
  ASSUME IInv, LInv, RInv, NEW c \in commits, Commit(c)
  PROVE  [Ledger!Next]_(Ledger!vars)
<1> DEFINE Entry(s) == [id |-> s, family |-> family[s]]
<1>1. /\ family' = family
      /\ token' = [s \in Session |->
                    IF s \in c.old THEN "revoked"
                    ELSE IF s \in c.new THEN "live" ELSE token[s]]
  BY DEF Commit
<1>2. \A s \in Session : /\ s \in c.old => token[s] \in {"live", "revoked"}
                         /\ s \in c.new => token[s] = "put"
  BY DEF LInv, CommitsFit
<1>3. \A s \in Session : token[s] # "unused" =>
          family[s] \in Session /\ Entry(s) \in [id : Session,
                                                 family : Session]
  BY Basics DEF LInv, UnusedNowhere, Secret
<1>4. /\ \A s \in Session : /\ token[s] = "live" <=> Entry(s) \in
                                    Numbered("live")
                            /\ token[s] = "revoked" <=> Entry(s) \in
                                    Numbered("revoked")
      /\ \A e \in Numbered("live") \cup Numbered("revoked") :
            \E s \in Session : /\ e = Entry(s)
                               /\ token[s] \in {"live", "revoked"}
  BY DEF Numbered
<1>5. /\ Numbered("live")' =
            {Entry(s) : s \in {r \in Session : token'[r] = "live"}}
      /\ Numbered("revoked")' =
            {Entry(s) : s \in {r \in Session : token'[r] = "revoked"}}
  BY <1>1 DEF Numbered
<1>6. CASE Opens(c)
  <2>1. PICK s \in Session : c.old = {} /\ c.new = {s} /\ family[s] = s
    BY <1>6 DEF Opens
  <2>2. token[s] = "put"
    BY <1>2, <2>1
  <2>3. \A e \in Numbered("live") \cup Numbered("revoked") : e.family # s
    BY <1>4, <2>1, <2>2 DEF RInv, HeadsRecorded, Session, None
  <2>4. Numbered("live")' = Numbered("live") \cup {Entry(s)}
    BY <1>1, <1>5, <2>1, <2>2 DEF Numbered
  <2>5. Numbered("revoked")' = Numbered("revoked")
    BY <1>1, <1>5, <2>1, <2>2 DEF Numbered
  <2>6. Ledger!Issue(Entry(s))
    BY <2>1, <2>3, <2>4, <2>5 DEF Ledger!Issue, Ledger!Recorded
  <2> QED
    BY <1>3, <2>2, <2>6 DEF Ledger!Next
<1>7. CASE Trades(c)
  <2>1. PICK x, s \in Session :
            c.old = {x} /\ c.new = {s} /\ family[s] = family[x]
    BY <1>7 DEF Trades
  <2>2. token[s] = "put" /\ token[x] \in {"live", "revoked"} /\ x # s
    BY <1>2, <2>1
  <2>3. Numbered("live")' = (Numbered("live") \ {Entry(x)}) \cup {Entry(s)}
    BY <1>1, <1>5, <2>1, <2>2 DEF Numbered
  <2>4. Numbered("revoked")' = Numbered("revoked") \cup {Entry(x)}
    BY <1>1, <1>5, <2>1, <2>2 DEF Numbered
  <2>5. /\ Entry(x) \in Numbered("live") \cup Numbered("revoked")
        /\ Entry(s) \notin Numbered("live") \cup Numbered("revoked")
    BY <1>4, <2>2
  <2>6. Ledger!Exchange(Entry(x), Entry(s))
    BY <2>1, <2>3, <2>4, <2>5 DEF Ledger!Exchange, Ledger!Recorded
  <2> QED
    BY <1>3, <2>2, <2>6 DEF Ledger!Next
<1>8. CASE Closes(c)
  <2>1. PICK x \in Session : c.old = {x} /\ c.new = {}
    BY <1>8 DEF Closes
  <2>2. token[x] \in {"live", "revoked"}
    BY <1>2, <2>1
  <2>3. Numbered("live")' = Numbered("live") \ {Entry(x)}
    BY <1>1, <1>5, <2>1 DEF Numbered
  <2>4. Numbered("revoked")' = Numbered("revoked") \cup {Entry(x)}
    BY <1>1, <1>5, <2>1 DEF Numbered
  <2>5. CASE token[x] = "live"
    <3>1. Ledger!Revoke(Entry(x))
      BY <1>4, <2>3, <2>4, <2>5 DEF Ledger!Revoke
    <3> QED
      BY <1>3, <2>5, <3>1 DEF Ledger!Next
  <2>6. CASE token[x] = "revoked"
    BY <1>4, <2>3, <2>4, <2>6 DEF Ledger!vars
  <2> QED
    BY <2>2, <2>5, <2>6
<1> QED
  BY <1>6, <1>7, <1>8 DEF RInv

\* Every other step leaves the ledger alone: what is written and not committed
\* is not in it, and a lost commit leaves nothing behind.
LEMMA OnlyCommitsCount ==
  ASSUME IInv, LInv, [Next]_vars, \A c \in commits : ~Commit(c)
  PROVE  UNCHANGED (Ledger!vars)
<1>1. \A s \in Session :
          /\ token[s] \in {"live", "revoked"} \/
             token'[s] \in {"live", "revoked"} => token'[s] = token[s]
          /\ token[s] \in {"live", "revoked"} => family'[s] = family[s]
  <2> USE DEF serverVars, tokenVars
  <2>1. CASE Expire \/ UNCHANGED vars
    BY <2>1 DEF Expire, vars
  <2>2. ASSUME NEW t \in Tab, TabStep(t) PROVE UNCHANGED <<token, family>>
    BY <2>2 DEF TabStep, Prepare, Send, ComeBack, ReceiveOther,
                ReceiveSession, ReceiveClear, ReceiveState, ReceiveLogin,
                Lose
  <2>3. ASSUME NEW t \in Tab, Serve(t),
               ~(RefreshRotates(t) \/ CallbackLogsIn(t))
        PROVE  UNCHANGED <<token, family>>
    BY <2>3 DEF Serve, CsrfRefuses, RefreshRefused, RefreshReads,
                RefreshFails, ServeLogout, ServeLogin, CallbackDenied,
                CallbackRefused, CallbackFails
  <2>4. ASSUME NEW t \in Tab, RefreshRotates(t) \/ CallbackLogsIn(t)
        PROVE  \E s \in Session : \E first : Issue(s, first)
    BY <2>4 DEF RefreshRotates, CallbackLogsIn
  <2>5. ASSUME NEW s \in Session, NEW first, Issue(s, first),
               NEW r \in Session
        PROVE  \/ token'[r] = token[r] /\ family'[r] = family[r]
               \/ token[r] = "unused" /\ token'[r] = "put"
    BY <2>5, Basics DEF Issue
  <2>6. ASSUME NEW c \in commits, CommitFails(c), NEW r \in Session
        PROVE  /\ family'[r] = family[r]
               /\ \/ token'[r] = token[r]
                  \/ token[r] = "put" /\ token'[r] = "void"
    BY <2>6 DEF CommitFails, LInv, CommitsFit
  <2> QED
    BY <2>1, <2>2, <2>3, <2>4, <2>5, <2>6 DEF Next
<1>2. Numbered("live")' = Numbered("live")
  BY <1>1 DEF Numbered
<1>3. Numbered("revoked")' = Numbered("revoked")
  BY <1>1 DEF Numbered
<1> QED
  BY <1>2, <1>3 DEF Ledger!vars

\* The browser's sessions implement the ledger too: however requests of its
\* tabs are overtaken, lost or answered and not committed, a session is issued
\* once, spent for good, and exchanged in one step.
THEOREM SessionsKeepLedger == Spec => LedgerSpec
<1>1. Init => RInv
  BY DEF Init, RInv, HeadsRecorded
<1>2. Init => Ledger!Init
  BY DEF Init, Ledger!Init, Numbered
<1>3. IInv /\ LInv /\ RInv /\ [Next]_vars => [Ledger!Next]_(Ledger!vars)
  <2> SUFFICES ASSUME IInv, LInv, RInv, [Next]_vars
               PROVE  [Ledger!Next]_(Ledger!vars)
    OBVIOUS
  <2>1. CASE \E c \in commits : Commit(c)
    BY <2>1, CommitKeepsBooks
  <2>2. CASE \A c \in commits : ~Commit(c)
    BY <2>2, OnlyCommitsCount
  <2> QED
    BY <2>1, <2>2
<1> QED
  BY <1>1, <1>2, <1>3, FormStep, Sessions, PTL
     DEF Spec, LedgerSpec, Ledger!Spec
=============================================================================
