----------------------------- MODULE WebSession -----------------------------
(***************************************************************************)
(* A browser's session with the web portal: the cookies that the /auth     *)
(* endpoints set and clear, shared by all its tabs, whose requests and     *)
(* answers overtake each other and get lost; and CSRFMiddleware, which     *)
(* compares a cookie with a header that the page read from it before.      *)
(*                                                                         *)
(* A session is a number, issued in turn: it stands for the access, the    *)
(* refresh and the csrf token that one response brings.  RefreshTokens has *)
(* the database's side in detail.  Here a request reads in one step and    *)
(* writes in another; as get_db commits after the response has gone, the   *)
(* writes become visible later, in a step of their own, or never.          *)
(***************************************************************************)
EXTENDS Naturals, FiniteSets

CONSTANTS
    Tab,
    MaxSession, MaxFlow      \* bounds

ASSUME BoundAssumption == MaxSession \in Nat /\ MaxFlow \in Nat

Session == 1..MaxSession
Flow == 1..MaxFlow
None == 0

VARIABLES
    \* the server's side
    token,     \* state of each session's refresh token
    family,    \* the first session of its family
    flows,     \* OAuth flows started
    codes,     \* flows whose code GitHub has not exchanged yet
    commits,   \* answered transactions: the tokens they revoke and issue
    \* the browser's side
    jar,       \* its cookies
    away,      \* flows for which it has gone to GitHub
    pc, req,   \* each tab's request: its progress, what it carries,
    answer,    \*   and what came back
    \* history
    swapped,   \* tabs whose csrf header was read before the cookie changed
    tangled,   \* requests of this login overlapped, or one was lost
    out, left, \* logged out in an orderly way, and of which family
    spoilt,    \* flows whose cookie is gone again
    late       \* tabs whose callback was sent for such a flow

tokenVars == <<token, family, commits>>
serverVars == <<tokenVars, flows, codes>>
flowHistory == <<spoilt, late>>
sessionHistory == <<tangled, out, left>>
historyVars == <<swapped, sessionHistory, flowHistory>>
vars == <<serverVars, jar, away, pc, req, answer, historyVars>>

NoCookies == [access |-> None, refresh |-> None, csrf |-> None, state |-> None]
NoRequest == [kind |-> "none", header |-> None, flow |-> None,
              cookies |-> NoCookies]
NoReply == [what |-> "none", session |-> None]

Init ==
    /\ token = [s \in Session |-> "unused"]
    /\ family = [s \in Session |-> None]
    /\ flows = 0 /\ codes = {} /\ commits = {}
    /\ jar = NoCookies
    /\ pc = [t \in Tab |-> "idle"]
    /\ req = [t \in Tab |-> NoRequest]
    /\ answer = [t \in Tab |-> NoReply]
    /\ swapped = {} /\ tangled = FALSE /\ out = FALSE /\ left = None
    /\ spoilt = {} /\ late = {} /\ away = {}
-----------------------------------------------------------------------------
(* The cookies. *)

\* Mutant of WithSession: the refresh cookie that is there stays.
OldRefresh(j, s) ==
    [j EXCEPT !.access = s, !.csrf = s,
              !.refresh = IF @ = None THEN s ELSE @]

\* _set_session_cookies
WithSession(j, s) == [j EXCEPT !.access = s, !.refresh = s, !.csrf = s]

\* Mutant of WithoutSession: the access cookie stays.
KeepsAccess(j) == [j EXCEPT !.refresh = None, !.csrf = None]

\* logout
WithoutSession(j) ==
    [j EXCEPT !.access = None, !.refresh = None, !.csrf = None]

\* github_login sets the state cookie, a callback that logs in clears it.
WithState(j, f) == [j EXCEPT !.state = f]

\* Mutant of Aged: the csrf cookie has the access cookie's max_age.
AgedCsrf(j) == {[j EXCEPT !.access = None, !.csrf = None],
                WithoutSession(j), WithState(j, None)}

\* What max_age may leave of the cookies, however long they are: the access
\* cookie goes first, the refresh and the csrf cookie go together, and the
\* state cookie goes on its own.
Aged(j) == {[j EXCEPT !.access = None], WithoutSession(j), WithState(j, None)}
-----------------------------------------------------------------------------
(* A tab sends a request. *)

Changing == {"refresh", "logout", "callback"}
Unsafe == {"refresh", "logout"}

\* Requests under way that may change the session.
Busy == {t \in Tab : /\ pc[t] \in {"sent", "read", "answered"}
                     /\ req[t].kind \in Changing}

UnderWay == Busy # {} \/ commits # {}

\* Order is lost, until the next login.
TangledIf(lost) ==
    IF lost THEN tangled' = TRUE /\ out' = FALSE /\ left' = None
            ELSE UNCHANGED sessionHistory

\* A page that has a session reads the csrf cookie for a POST ...
Prepare(t, kind) ==
    /\ pc[t] = "idle" /\ jar.csrf # None
    /\ pc' = [pc EXCEPT ![t] = "ready"]
    /\ req' = [req EXCEPT ![t] = [NoRequest EXCEPT !.kind = kind,
                                                   !.header = jar.csrf]]
    /\ UNCHANGED <<serverVars, jar, away, answer, historyVars>>

\* ... and the browser adds the cookies it has when it sends it.
Send(t) ==
    /\ pc[t] = "ready"
    /\ pc' = [pc EXCEPT ![t] = "sent"]
    /\ req' = [req EXCEPT ![t].cookies = jar]
    /\ TangledIf(req[t].kind \in Changing /\ UnderWay)
    /\ UNCHANGED <<serverVars, jar, away, answer, swapped,
                   flowHistory>>

\* GitHub sends the browser back, in whichever tab, perhaps twice.
ComeBack(t, f) ==
    /\ pc[t] = "idle"
    /\ pc' = [pc EXCEPT ![t] = "sent"]
    /\ req' = [req EXCEPT ![t] = [NoRequest EXCEPT !.kind = "callback",
                                        !.flow = f, !.cookies = jar]]
    /\ TangledIf(UnderWay)
    /\ late' = IF f \in spoilt THEN late \cup {t} ELSE late
    /\ UNCHANGED <<serverVars, jar, away, answer, swapped,
                   spoilt>>
-----------------------------------------------------------------------------
(* The server. *)

\* The answer replaces the request.
Reply(t, what, s) ==
    /\ req' = [req EXCEPT ![t] = [NoRequest EXCEPT !.kind = req[t].kind]]
    /\ pc' = [pc EXCEPT ![t] = "answered"]
    /\ answer' = [answer EXCEPT ![t] = [what |-> what, session |-> s]]

\* CSRFMiddleware lets a request to the handler.
CsrfPasses(r) ==
    \/ r.kind \notin Unsafe
    \/ r.cookies.access = None
    \/ r.cookies.csrf # None /\ r.cookies.csrf = r.header

CsrfRefuses(t) ==
    /\ pc[t] = "sent" /\ ~CsrfPasses(req[t])
    /\ Reply(t, "csrf", None)
    /\ UNCHANGED <<serverVars, jar, away, historyVars>>

Handles(t, kind) ==
    pc[t] = "sent" /\ req[t].kind = kind /\ CsrfPasses(req[t])

Usable(s) == s # None /\ token[s] = "live"

\* rotate_refresh_token reads the token and refuses it ...
RefreshRefused(t) ==
    /\ Handles(t, "refresh")
    /\ ~Usable(req[t].cookies.refresh)
    /\ Reply(t, "refused", None)
    /\ UNCHANGED <<serverVars, jar, away, historyVars>>

\* ... or goes on with it.
RefreshReads(t) ==
    /\ Handles(t, "refresh")
    /\ Usable(req[t].cookies.refresh)
    /\ pc' = [pc EXCEPT ![t] = "read"]
    /\ UNCHANGED <<serverVars, jar, away, req, answer, historyVars>>

\* The token has expired, the account is disabled, or the successor is the
\* same token, issued in the same second.
RefreshFails(t) ==
    /\ pc[t] = "read"
    /\ Reply(t, "refused", None)
    /\ UNCHANGED <<serverVars, jar, away, historyVars>>

\* An uncommitted UPDATE of the token's row holds its lock.
Unlocked(s) == \A c \in commits : s # None => s \notin c.old

\* The next token, written but not committed.
Issue(s, first) ==
    /\ token[s] = "unused"
    /\ \A r \in Session : token[r] = "unused" => s <= r
    /\ token' = [token EXCEPT ![s] = "put"]
    /\ family' = [family EXCEPT ![s] = first]

\* Mutant of RefreshRotates: the old token stays valid.
RefreshAdds(t) ==
    /\ pc[t] = "read"
    /\ \E s \in Session :
        /\ Issue(s, family[req[t].cookies.refresh])
        /\ commits' = commits \cup {[old |-> {}, new |-> {s}]}
        /\ Reply(t, "set", s)
    /\ UNCHANGED <<flows, codes, jar, away, historyVars>>

\* It revokes the token, also if another request has done so meanwhile, and
\* issues its successor.
RefreshRotates(t) ==
    /\ pc[t] = "read"
    /\ Unlocked(req[t].cookies.refresh)
    /\ \E s \in Session :
        /\ Issue(s, family[req[t].cookies.refresh])
        /\ commits' = commits \cup
                {[old |-> {req[t].cookies.refresh}, new |-> {s}]}
        /\ Reply(t, "set", s)
    /\ UNCHANGED <<flows, codes, jar, away, historyVars>>

\* revoke_by_token updates the row, if there is a cookie and its row is
\* committed and not revoked; the answer is the same.  (It carries the token,
\* for the history.)
ServeLogout(t) ==
    /\ Handles(t, "logout")
    /\ Unlocked(req[t].cookies.refresh)
    /\ LET s == req[t].cookies.refresh
           rows == {r \in {s} \ {None} : token[r] = "live"} IN
        commits' = IF rows = {} THEN commits
                   ELSE commits \cup {[old |-> rows, new |-> {}]}
    /\ Reply(t, "clear", req[t].cookies.refresh)
    /\ UNCHANGED <<token, family, flows, codes, jar, away,
                   historyVars>>

\* get_db commits what an answered request has written ...
Commit(c) ==
    /\ token' = [s \in Session |->
                    IF s \in c.old THEN "revoked"
                    ELSE IF s \in c.new THEN "live" ELSE token[s]]
    /\ commits' = commits \ {c}
    /\ UNCHANGED <<family, flows, codes, jar, away, pc, req,
                   answer, historyVars>>

\* ... or the database is gone, and nobody is told.
CommitFails(c) ==
    /\ token' = [s \in Session |-> IF s \in c.new THEN "void" ELSE token[s]]
    /\ commits' = commits \ {c}
    /\ TangledIf(TRUE)
    /\ UNCHANGED <<family, flows, codes, jar, away, pc, req,
                   answer, swapped, flowHistory>>

\* Mutant of ServeLogin: the state is that of the next flow.
LoginUncounted(t) ==
    /\ pc[t] = "idle"
    /\ flows < MaxFlow
    /\ codes' = codes \cup {flows + 1}
    /\ Reply(t, "state", flows + 1)
    /\ UNCHANGED <<tokenVars, flows, jar, away, historyVars>>

\* github_login: the request carries nothing that matters.
ServeLogin(t) ==
    /\ pc[t] = "idle"
    /\ flows < MaxFlow
    /\ flows' = flows + 1
    /\ codes' = codes \cup {flows + 1}
    /\ Reply(t, "state", flows + 1)
    /\ UNCHANGED <<tokenVars, jar, away, historyVars>>

\* GitHub reports an error: a redirect, whatever the state is.
CallbackDenied(t) ==
    /\ Handles(t, "callback")
    /\ Reply(t, "redirect", None)
    /\ UNCHANGED <<serverVars, jar, away, historyVars>>

\* Mutant of StateFits: any started flow will do.
AnyState(r) == r.flow # None

StateFits(r) == r.cookies.state # None /\ r.flow = r.cookies.state

\* github_callback: the state is not the cookie's: 400.
CallbackRefused(t) ==
    /\ Handles(t, "callback")
    /\ ~StateFits(req[t])
    /\ Reply(t, "refused", None)
    /\ UNCHANGED <<serverVars, jar, away, historyVars>>

\* GitHub does not take the code, or the account is disabled: a redirect to
\* the login page that sets no cookie.
CallbackFails(t) ==
    /\ Handles(t, "callback")
    /\ StateFits(req[t])
    /\ codes' = codes \ {req[t].flow}
    /\ Reply(t, "redirect", None)
    /\ UNCHANGED <<tokenVars, flows, jar, away, historyVars>>

CallbackLogsIn(t) ==
    /\ Handles(t, "callback")
    /\ StateFits(req[t])
    /\ req[t].flow \in codes
    /\ codes' = codes \ {req[t].flow}
    /\ \E s \in Session :
        /\ Issue(s, s)
        /\ commits' = commits \cup {[old |-> {}, new |-> {s}]}
        /\ Reply(t, "login", s)
    /\ UNCHANGED <<flows, jar, away, historyVars>>
-----------------------------------------------------------------------------
(* The answer arrives. *)

\* The csrf cookie changes under the other tabs that have read it.
Swaps(t) == swapped' = (swapped \ {t}) \cup {u \in Tab : pc[u] = "ready"}

\* The state cookie goes from one value to another.
Overtakes(new) ==
    spoilt' = IF jar.state \in {None, new} THEN spoilt
              ELSE spoilt \cup {jar.state}

Done(t) ==
    /\ pc' = [pc EXCEPT ![t] = "idle"]
    /\ req' = [req EXCEPT ![t] = NoRequest]
    /\ answer' = [answer EXCEPT ![t] = NoReply]
    /\ late' = late \ {t}

\* One that sets no cookie.
ReceiveOther(t) ==
    /\ pc[t] = "answered"
    /\ answer[t].what \in {"csrf", "refused", "redirect"}
    /\ Done(t)
    /\ swapped' = swapped \ {t}
    /\ UNCHANGED <<serverVars, jar, away, sessionHistory, spoilt>>

ReceiveSession(t) ==
    /\ pc[t] = "answered" /\ answer[t].what = "set"
    /\ jar' = WithSession(jar, answer[t].session)
    /\ Done(t) /\ Swaps(t)
    /\ UNCHANGED <<serverVars, away, sessionHistory, spoilt>>

ReceiveClear(t) ==
    /\ pc[t] = "answered" /\ answer[t].what = "clear"
    /\ jar' = WithoutSession(jar)
    /\ Done(t) /\ Swaps(t)
    /\ out' = ~tangled
    /\ left' = IF tangled \/ answer[t].session = None THEN None
               ELSE family[answer[t].session]
    /\ UNCHANGED <<serverVars, away, tangled, spoilt>>

\* It replaces the state of any flow that has not come back.
ReceiveState(t) ==
    /\ pc[t] = "answered" /\ answer[t].what = "state"
    /\ jar' = WithState(jar, answer[t].session)
    /\ away' = away \cup {answer[t].session}
    /\ Done(t)
    /\ Overtakes(answer[t].session)
    /\ UNCHANGED <<serverVars, swapped, sessionHistory>>

\* It brings a session and clears the state, whosever it is.
ReceiveLogin(t) ==
    /\ pc[t] = "answered" /\ answer[t].what = "login"
    /\ jar' = WithState(WithSession(jar, answer[t].session), None)
    /\ Done(t) /\ Swaps(t)
    /\ tangled' = (Busy \ {t} # {} \/ token[answer[t].session] = "void")
    /\ out' = FALSE /\ left' = None
    /\ Overtakes(None)
    /\ UNCHANGED <<serverVars, away>>

\* The request or its answer is lost, or the tab closed.
Lose(t) ==
    /\ pc[t] \in {"sent", "read", "answered"}
    /\ Done(t)
    /\ swapped' = swapped \ {t}
    /\ TangledIf(req[t].kind \in Changing)
    /\ UNCHANGED <<serverVars, jar, away, spoilt>>

Expire ==
    /\ jar' \in Aged(jar) \ {jar}
    /\ Overtakes(jar'.state)
    /\ UNCHANGED <<serverVars, away, pc, req, answer, swapped,
                   sessionHistory, late>>

TabStep(t) ==
    \/ \E kind \in Unsafe : Prepare(t, kind)
    \/ Send(t) \/ \E f \in away : ComeBack(t, f)
    \/ ReceiveOther(t) \/ ReceiveSession(t) \/ ReceiveClear(t)
    \/ ReceiveState(t) \/ ReceiveLogin(t) \/ Lose(t)

Serve(t) ==
    \/ CsrfRefuses(t)
    \/ RefreshRefused(t) \/ RefreshReads(t)
    \/ RefreshFails(t) \/ RefreshRotates(t)
    \/ ServeLogout(t) \/ ServeLogin(t)
    \/ CallbackDenied(t) \/ CallbackRefused(t)
    \/ CallbackFails(t) \/ CallbackLogsIn(t)

Next ==
    \/ Expire
    \/ \E t \in Tab : TabStep(t) \/ Serve(t)
    \/ \E c \in commits : Commit(c) \/ CommitFails(c)

Spec == Init /\ [][Next]_vars
-----------------------------------------------------------------------------
Jar == [access : {None} \cup Session, refresh : {None} \cup Session,
        csrf : {None} \cup Session, state : {None} \cup Flow]

\* Types of the variables.
TypeOK ==
    /\ token \in [Session -> {"unused", "put", "live", "revoked", "void"}]
    /\ commits \subseteq [old : SUBSET Session, new : SUBSET Session]
    /\ family \in [Session -> {None} \cup Session]
    /\ flows \in 0..MaxFlow /\ codes \subseteq 1..flows
    /\ jar \in Jar
    /\ pc \in [Tab -> {"idle", "ready", "sent", "read", "answered"}]
    /\ req \in [Tab -> [kind : Unsafe \cup {"none", "callback"},
                        header : {None} \cup Session,
                        flow : {None} \cup Flow, cookies : Jar]]
    /\ answer \in [Tab -> [what : {"none", "csrf", "refused", "set",
                                   "redirect", "clear", "state", "login"},
                           session : Nat]]
    /\ swapped \subseteq Tab /\ tangled \in BOOLEAN /\ out \in BOOLEAN
    /\ left \in {None} \cup Session
    /\ spoilt \subseteq away /\ away \subseteq 1..flows /\ late \subseteq Tab

\* A browser with an access cookie always has the csrf cookie of the same
\* response, so that the page can pass the csrf check; and the refresh cookie
\* to go on with.
CookiesOfOneAnswer ==
    /\ jar.access # None => jar.access = jar.csrf /\ jar.access = jar.refresh
    /\ jar.csrf = jar.refresh

\* The page's own POST is refused by the csrf check only when an answer in
\* another tab replaced or cleared the cookie after the page had read it.
CsrfRefusesOnlyRaces ==
    \A t \in Tab : answer[t].what = "csrf" => t \in swapped

\* The browser is left with a revoked refresh token only when its refreshes,
\* logouts and logins overlapped or an answer was lost: tabs that take turns
\* never lock themselves out.
DeadTokenNeedsTangle ==
    (jar.refresh # None /\ ~UnderWay /\ ~tangled)
        => token[jar.refresh] = "live"

\* README.md:276-278: logout revokes the refresh token and clears the cookies.
\* Unless requests overlapped, no live token of the session is left anywhere
\* and nothing logs the browser in again behind the user's back.
LogoutIsFinal ==
    (out /\ ~UnderWay) =>
        /\ jar.access = None /\ jar.refresh = None
        /\ \A s \in Session : (left # None /\ family[s] = left)
                                => token[s] # "live"

\* Of several login flows in one browser, a callback is refused only if the
\* cookie of its flow had expired or been replaced or cleared by another
\* answer before, and in that case it never logs in.
OvertakenFlowFails ==
    \A t \in Tab : req[t].kind = "callback" =>
        /\ answer[t].what = "refused" => t \in late
        /\ answer[t].what = "login" => t \notin late

\* The committed refresh tokens that are in some state, as the ledger's.
Numbered(state) ==
    {[id |-> s, family |-> family[s]] :
        s \in {r \in Session : token[r] = state}}

Ledger == INSTANCE TokenLedger
            WITH Token <- [id : Session, family : Session],
                 live <- Numbered("live"), spent <- Numbered("revoked")

\* Whatever the browser's tabs send twice, overtake or lose, the server's
\* tokens follow the same ledger as in RefreshTokens: issued once, spent for
\* good, and a successor is committed in the step that spends the token it
\* was exchanged for.
LedgerSpec == Ledger!Spec
=============================================================================
