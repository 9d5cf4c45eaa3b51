--------------------------- MODULE RefreshTokens ---------------------------
(***************************************************************************)
(* Refresh tokens: issue at login, rotation with reuse detection, logout.  *)
(*                                                                         *)
(* Every request runs in its own database session (get_db), that is in one *)
(* READ COMMITTED transaction: its writes stay in mark and put, and hold   *)
(* row locks, until Commit or Rollback.  A step is what runs between two   *)
(* awaits, so requests interleave at every database round trip.  The       *)
(* framework sends the response before it resumes get_db, so a successful  *)
(* request is answered first and committed afterwards; a request that      *)
(* raises is rolled back.                                                  *)
(*                                                                         *)
(* The clock counts whole seconds, the resolution of iat and exp.  The     *)
(* user is fixed by the family, and what get_user_by_id answers is left    *)
(* open here.                                                              *)
(***************************************************************************)
EXTENDS Naturals

CONSTANTS
    Request,      \* concurrent request handlers
    Family,       \* rotation families; uuid7 never repeats one
    RefreshTTL,   \* refresh_token_ttl_seconds
    MaxClock,     \* bound: the last second modelled
    MaxLosses,    \* bound: database connections (or processes) that die
    NoToken       \* no token presented

Token == [family : Family, iat : 0..MaxClock]
Row   == [token : Token, expires : 0..(MaxClock + RefreshTTL)]

ASSUME TTLAssumption    == RefreshTTL \in Nat
ASSUME BoundsAssumption == MaxClock \in Nat /\ MaxLosses \in Nat
ASSUME NoTokenAssumption == NoToken \notin Token

VARIABLES
    clock,     \* now, in seconds
    held,      \* refresh tokens the server has sent to clients
    minted,    \* families handed out by uuid7
    rows,      \* committed refresh_tokens rows
    revoked,   \* tokens whose committed row has revoked_at set
    lineage,   \* <<new, old>>: committed exchanges (history, never read)
    overlap,   \* families where two rotations overlapped (history)
    losses,    \* connections lost so far
    pc,        \* where each request is suspended
    tok,       \* the token it presents (or, at login, issues)
    now,       \* rotate_refresh_token's local now
    iat,       \* iat of the token it has encoded
    todo,      \* rows its UPDATE has matched and not yet locked
    mark,      \* its uncommitted revoked_at writes
    put,       \* its uncommitted INSERT
    reply      \* the last response of each handler

tableVars == <<rows, revoked, lineage>>
txnVars   == <<todo, mark, put>>
localVars == <<tok, now, iat>>
worldVars == <<clock, minted, losses>>
vars == <<clock, held, minted, rows, revoked, lineage, overlap, losses, pc,
          tok, now, iat, todo, mark, put, reply>>

Stored == {row.token : row \in rows}
Live   == Stored \ revoked
LiveIn(f) == {t \in Live : t.family = f}

PutTokens(r) == {row.token : row \in put[r]}

\* Row locks: an uncommitted UPDATE of t blocks every other UPDATE of t, an
\* uncommitted INSERT of t every other INSERT of t (the unique index).
LockedByOther(r, t) == \E q \in Request \ {r} : t \in mark[q]
PutByOther(r, t)    == \E q \in Request \ {r} : t \in PutTokens(q)

\* jwt.decode refuses a token from its exp on.
JwtExpired(t) == t.iat + RefreshTTL <= clock

\* The token encode_refresh_token returns is a function of family and second.
NewToken(r) == [family |-> tok[r].family, iat |-> iat[r]]
NewRowTwiceTTL(r) ==
    [token |-> NewToken(r), expires |-> now[r] + RefreshTTL + RefreshTTL]
NewRow(r)   == [token |-> NewToken(r), expires |-> now[r] + RefreshTTL]

\* Past the SELECT that found its token unrevoked, and not finished.  (A login
\* puts the very token in tok.)
Rotating(r) == \/ pc[r] \in {"user", "rotate", "insert"}
               \/ \E row \in put[r] : row.token # tok[r]
Overlapped(r) ==
    \E q \in Request \ {r} : Rotating(q) /\ tok[q].family = tok[r].family

Init ==
    /\ clock = 0
    /\ held = {} /\ minted = {}
    /\ rows = {} /\ revoked = {}
    /\ lineage = {} /\ overlap = {}
    /\ losses = 0
    /\ pc = [r \in Request |-> "idle"]
    /\ tok = [r \in Request |-> NoToken]
    /\ now = [r \in Request |-> 0]
    /\ iat = [r \in Request |-> 0]
    /\ todo = [r \in Request |-> {}]
    /\ mark = [r \in Request |-> {}]
    /\ put = [r \in Request |-> {}]
    /\ reply = [r \in Request |-> "none"]
-----------------------------------------------------------------------------
Goto(r, label) == pc' = [pc EXCEPT ![r] = label]

\* A 401 or 403 is "refused", but for "reused"; "conflict" and "deadlock" are
\* 500s.  An HTTPException or a database error leaves the handler: get_db will
\* roll back before the error response is sent.
Raise(r, answer) ==
    /\ Goto(r, "raise")
    /\ reply' = [reply EXCEPT ![r] = answer]

\* The session is gone, with whatever it had not committed.
EndSession(r) ==
    /\ Goto(r, "idle")
    /\ now' = [now EXCEPT ![r] = 0]
    /\ iat' = [iat EXCEPT ![r] = 0]
    /\ todo' = [todo EXCEPT ![r] = {}]
    /\ mark' = [mark EXCEPT ![r] = {}]
    /\ put' = [put EXCEPT ![r] = {}]

Present(r, t) ==
    /\ pc[r] = "idle"
    /\ tok' = [tok EXCEPT ![r] = t]
-----------------------------------------------------------------------------
\* issue_session: a new family, its first token, the row flushed.
Login(r, f) ==
    /\ f \notin minted
    /\ minted' = minted \cup {f}
    /\ LET t == [family |-> f, iat |-> clock] IN
        /\ Present(r, t)
        /\ put' = [put EXCEPT ![r] =
                     {[token |-> t, expires |-> clock + RefreshTTL]}]
    /\ Goto(r, "answer")
    /\ reply' = [reply EXCEPT ![r] = "none"]
    /\ UNCHANGED <<clock, held, tableVars, overlap, losses, now, iat, todo,
                   mark>>

\* Neither cookie nor body: a refresh is refused, a logout has nothing to do.
NothingPresented(r) ==
    /\ Present(r, NoToken)
    /\ \E answer \in {"refused", "logged_out"} :
           reply' = [reply EXCEPT ![r] = answer]
    /\ UNCHANGED <<worldVars, held, tableVars, overlap, pc, now, iat, txnVars>>

\* POST /auth/refresh refused before the database is read.
RefreshRefused(r, t) ==
    /\ JwtExpired(t)
    /\ Present(r, t)
    /\ reply' = [reply EXCEPT ![r] = "refused"]
    /\ UNCHANGED <<worldVars, held, tableVars, overlap, pc, now, iat, txnVars>>

\* POST /auth/refresh: the JWT is good, the SELECT is on its way.
RefreshStart(r, t) ==
    /\ ~JwtExpired(t)
    /\ Present(r, t)
    /\ Goto(r, "select")
    /\ reply' = [reply EXCEPT ![r] = "none"]
    /\ UNCHANGED <<worldVars, held, tableVars, overlap, now, iat, txnVars>>

SelectUnknown(r) ==
    /\ pc[r] = "select"
    /\ tok[r] \notin Stored
    /\ Raise(r, "refused")
    /\ UNCHANGED <<worldVars, held, tableVars, overlap, localVars, txnVars>>

\* A revoked token: reuse.  The family's UPDATE is sent next.
SelectRevoked(r) ==
    /\ pc[r] = "select"
    /\ tok[r] \in Stored \cap revoked
    /\ Goto(r, "scan")
    /\ UNCHANGED <<worldVars, held, tableVars, overlap, localVars, txnVars,
                   reply>>

\* expires_at and now carry fractions of a second, so within the second of
\* expires_at both outcomes happen (here and in SelectLive).
SelectExpired(r) ==
    /\ pc[r] = "select"
    /\ tok[r] \notin revoked
    /\ \E row \in rows : row.token = tok[r] /\ row.expires <= clock
    /\ Raise(r, "refused")
    /\ UNCHANGED <<worldVars, held, tableVars, overlap, localVars, txnVars>>

\* Mutant of SelectLive: revoked_at is not looked at.
SelectLiveReplay(r) ==
    /\ pc[r] = "select"
    /\ \E row \in rows : row.token = tok[r] /\ row.expires >= clock
    /\ now' = [now EXCEPT ![r] = clock]
    /\ Goto(r, "user")
    /\ overlap' = IF Overlapped(r) THEN overlap \cup {tok[r].family}
                                  ELSE overlap
    /\ UNCHANGED <<worldVars, held, tableVars, tok, iat, txnVars, reply>>

SelectLive(r) ==
    /\ pc[r] = "select"
    /\ tok[r] \notin revoked
    /\ \E row \in rows : row.token = tok[r] /\ row.expires >= clock
    /\ now' = [now EXCEPT ![r] = clock]
    /\ Goto(r, "user")
    /\ overlap' = IF Overlapped(r) THEN overlap \cup {tok[r].family}
                                  ELSE overlap
    /\ UNCHANGED <<worldVars, held, tableVars, tok, iat, txnVars, reply>>

UserRefused(r) ==
    /\ pc[r] = "user"
    /\ Raise(r, "refused")
    /\ UNCHANGED <<worldVars, held, tableVars, overlap, localVars, txnVars>>

\* The user is active: the new pair is encoded and the flush begins.
UserFound(r) ==
    /\ pc[r] = "user"
    /\ iat' = [iat EXCEPT ![r] = clock]
    /\ Goto(r, "rotate")
    /\ UNCHANGED <<worldVars, held, tableVars, overlap, tok, now, txnVars,
                   reply>>

\* Mutant of RotateUpdate: the presented token is left unrevoked.
RotateNoRevoke(r) ==
    /\ pc[r] = "rotate"
    /\ Goto(r, "insert")
    /\ UNCHANGED <<worldVars, held, tableVars, overlap, localVars, txnVars,
                   reply>>

\* UPDATE refresh_tokens SET revoked_at = now WHERE id = row.id.  It waits
\* for the row's lock and does not look at revoked_at again.
RotateUpdate(r) ==
    /\ pc[r] = "rotate"
    /\ ~LockedByOther(r, tok[r])
    /\ mark' = [mark EXCEPT ![r] = {tok[r]}]
    /\ Goto(r, "insert")
    /\ UNCHANGED <<worldVars, held, tableVars, overlap, localVars, todo, put,
                   reply>>

\* Mutant of RotateInsert: token_hash is not unique.
InsertNotUnique(r) ==
    /\ pc[r] = "insert"
    /\ put' = [put EXCEPT ![r] = {NewRow(r)}]
    /\ Goto(r, "answer")
    /\ UNCHANGED <<worldVars, held, tableVars, overlap, localVars, todo, mark,
                   reply>>

\* INSERT of the new token's row, which waits for an uncommitted INSERT of
\* the same token_hash to end.
RotateInsert(r) ==
    /\ pc[r] = "insert"
    /\ ~PutByOther(r, NewToken(r))
    /\ NewToken(r) \notin Stored
    /\ put' = [put EXCEPT ![r] = {NewRow(r)}]
    /\ Goto(r, "answer")
    /\ UNCHANGED <<worldVars, held, tableVars, overlap, localVars, todo, mark,
                   reply>>

\* The unique index refuses the INSERT: IntegrityError, a 500 response.
RotateConflict(r) ==
    /\ pc[r] = "insert"
    /\ NewToken(r) \in Stored
    /\ Raise(r, "conflict")
    /\ UNCHANGED <<worldVars, held, tableVars, overlap, localVars, txnVars>>

\* _revoke_family: the UPDATE finds the family's unrevoked rows ...
RevokeScan(r) ==
    /\ pc[r] = "scan"
    /\ todo' = [todo EXCEPT ![r] = LiveIn(tok[r].family)]
    /\ Goto(r, "revoke")
    /\ UNCHANGED <<worldVars, held, tableVars, overlap, localVars, mark, put,
                   reply>>

\* ... and locks them one by one, rechecking revoked_at IS NULL.
RevokeRow(r) ==
    /\ pc[r] = "revoke"
    /\ \E t \in todo[r] :
        /\ ~LockedByOther(r, t)
        /\ todo' = [todo EXCEPT ![r] = @ \ {t}]
        /\ mark' = [mark EXCEPT ![r] = @ \cup ({t} \ revoked)]
    /\ UNCHANGED <<worldVars, held, tableVars, overlap, pc, localVars, put,
                   reply>>

\* Two revocations of a forked family may lock its rows in opposite orders:
\* PostgreSQL aborts one statement of the cycle, a 500 response.
RevokeDeadlock(r) ==
    /\ \E S \in SUBSET Request :
        /\ r \in S
        /\ \A q \in S : /\ pc[q] = "revoke" /\ todo[q] # {}
                         /\ todo[q] \subseteq UNION {mark[p] : p \in S \ {q}}
    /\ Raise(r, "deadlock")
    /\ UNCHANGED <<worldVars, held, tableVars, overlap, localVars, txnVars>>

\* raise RefreshTokenError("Refresh token reuse detected")
ReuseDetected(r) ==
    /\ pc[r] = "revoke"
    /\ todo[r] = {}
    /\ Raise(r, "reused")
    /\ UNCHANGED <<worldVars, held, tableVars, overlap, localVars, txnVars>>
-----------------------------------------------------------------------------
\* POST /auth/logout: the token is not decoded, only hashed.
LogoutStart(r, t) ==
    /\ Present(r, t)
    /\ Goto(r, "logout")
    /\ reply' = [reply EXCEPT ![r] = "none"]
    /\ UNCHANGED <<worldVars, held, tableVars, overlap, now, iat, txnVars>>

\* UPDATE ... WHERE token_hash = h AND revoked_at IS NULL: no row, or the one
\* row once its lock is free.
LogoutUpdate(r) ==
    /\ pc[r] = "logout"
    /\ \/ /\ tok[r] \notin Live
          /\ UNCHANGED mark
       \/ /\ tok[r] \in Live
          /\ ~LockedByOther(r, tok[r])
          /\ mark' = [mark EXCEPT ![r] = {tok[r]}]
    /\ Goto(r, "answer")
    /\ UNCHANGED <<worldVars, held, tableVars, overlap, localVars, todo, put,
                   reply>>
-----------------------------------------------------------------------------
\* The handler has returned: the response reaches the client.
Answer(r) ==
    /\ pc[r] = "answer"
    /\ held' = held \cup PutTokens(r)
    /\ reply' = [reply EXCEPT ![r] = IF put[r] = {} THEN "logged_out"
                                                    ELSE "pair"]
    /\ Goto(r, "commit")
    /\ UNCHANGED <<worldVars, tableVars, overlap, localVars, txnVars>>

\* Mutant of Commit: get_db forgets to commit.
CommitNothing(r) ==
    /\ pc[r] = "commit"
    /\ EndSession(r)
    /\ UNCHANGED <<worldVars, held, tableVars, overlap, tok, reply>>

\* get_db resumes after its yield.
Commit(r) ==
    /\ pc[r] = "commit"
    /\ rows' = rows \cup put[r]
    /\ revoked' = revoked \cup mark[r]
    /\ lineage' = lineage \cup 
                  {<<n, tok[r]>> : n \in PutTokens(r) \ {tok[r]}}
    /\ EndSession(r)
    /\ UNCHANGED <<worldVars, held, overlap, tok, reply>>

\* Mutant of Rollback: the session is not closed and keeps its row locks.
RollbackKeepsLocks(r) ==
    /\ pc[r] = "raise"
    /\ Goto(r, "idle")
    /\ UNCHANGED <<worldVars, held, tableVars, overlap, localVars, txnVars,
                   reply>>

\* get_db's except branch: the exception of Raise is thrown into it.
Rollback(r) ==
    /\ pc[r] = "raise"
    /\ EndSession(r)
    /\ UNCHANGED <<worldVars, held, tableVars, overlap, tok, reply>>

\* The connection or the process dies: the database rolls the session back.
\* A client that was already answered does not learn of it.
ConnectionLost(r) ==
    /\ pc[r] \notin {"idle", "raise"}
    /\ losses < MaxLosses
    /\ losses' = losses + 1
    /\ reply' = [reply EXCEPT ![r] = IF pc[r] = "commit" THEN @ ELSE "lost"]
    /\ EndSession(r)
    /\ UNCHANGED <<clock, held, minted, tableVars, overlap, tok>>

Tick ==
    /\ clock < MaxClock
    /\ clock' = clock + 1
    /\ UNCHANGED <<held, minted, tableVars, overlap, losses, pc, localVars,
                   txnVars, reply>>
-----------------------------------------------------------------------------
\* A client may present any token it was ever sent, old ones included.
ClientStep(r) ==
    \/ \E f \in Family : Login(r, f)
    \/ NothingPresented(r)
    \/ \E t \in held : \/ RefreshRefused(r, t)
                       \/ RefreshStart(r, t)
                       \/ LogoutStart(r, t)

ServerStep(r) ==
    \/ SelectUnknown(r) \/ SelectRevoked(r) \/ SelectExpired(r)
    \/ SelectLive(r)    \/ UserRefused(r)   \/ UserFound(r)
    \/ RotateUpdate(r)  \/ RotateInsert(r)  \/ RotateConflict(r)
    \/ RevokeScan(r)    \/ RevokeRow(r)     \/ RevokeDeadlock(r)
    \/ ReuseDetected(r) \/ LogoutUpdate(r)
    \/ Answer(r)        \/ Commit(r)        \/ Rollback(r)

Next == \/ Tick
        \/ \E r \in Request :
              ClientStep(r) \/ ServerStep(r) \/ ConnectionLost(r)

Spec == Init /\ [][Next]_vars

\* The event loop resumes every ready coroutine and the database grants row
\* locks in the order they were asked for: a request that is ready again and
\* again goes on.  Clients and the clock owe nothing.
Fairness == \A r \in Request : SF_vars(ServerStep(r))
FairSpec == Spec /\ Fairness
-----------------------------------------------------------------------------
Labels == {"idle", "select", "user", "rotate", "insert", "scan", "revoke",
           "logout", "answer", "commit", "raise"}
Replies == {"none", "pair", "logged_out", "refused", "reused", "conflict",
            "deadlock", "lost"}

\* The shape of every variable (the types of models.py and of the locals of
\* rotate_refresh_token).
TypeOK ==
    /\ clock \in 0..MaxClock /\ losses \in 0..MaxLosses
    /\ held \subseteq Token /\ minted \subseteq Family
    /\ rows \subseteq Row /\ revoked \subseteq Token
    /\ lineage \subseteq Token \X Token /\ overlap \subseteq Family
    /\ pc \in [Request -> Labels]
    /\ tok \in [Request -> Token \cup {NoToken}]
    /\ now \in [Request -> 0..MaxClock] /\ iat \in [Request -> 0..MaxClock]
    /\ todo \in [Request -> SUBSET Token]
    /\ mark \in [Request -> SUBSET Token]
    /\ put \in [Request -> SUBSET Row]
    /\ reply \in [Request -> Replies]

\* The unique index on token_hash holds up under concurrent rotations that
\* encode the same token in the same second: one row per token, so that
\* scalar_one_or_none never finds two.
UniqueHash == \A a, b \in rows : a.token = b.token => a = b

\* Rotation is atomic: wherever a token obtained by an exchange is on record,
\* the token it was exchanged for is revoked, whatever crashed or raced.
ExchangeRevokes == \A p \in lineage : p[1] \in Stored /\ p[2] \in revoked

\* As long as no two rotations of a family overlapped, the family has at most
\* one live token, whatever logouts, replays and crashes happened.
ForkNeedsOverlap ==
    \A f \in Family \ overlap : \A s, t \in LiveIn(f) : s = t

\* A token a client was sent is on record or is about to be committed by the
\* request that sent it; only a connection lost after the answer breaks this.
HeldAccounted ==
    losses = 0 => \A t \in held : \/ t \in Stored
                                  \/ \E r \in Request : /\ pc[r] = "commit"
                                                        /\ t \in PutTokens(r)

\* Every request ends: no cycle of row locks and unique-index waits, even with
\* rotations, family revocations and logouts of one family in flight.
EveryRequestEnds == \A r \in Request : pc[r] # "idle" ~> pc[r] = "idle"

Ledger == INSTANCE TokenLedger
            WITH live <- Live, spent <- Stored \cap revoked

\* The committed table follows the ledger: tokens are issued once, spent for
\* good, and an exchange spends the old token in the step that adds the new.
LedgerSpec == Ledger!Spec
-----------------------------------------------------------------------------
(* What the documentation says and the code does not do.                   *)

AllIdle == \A r \in Request : pc[r] = "idle"

\* README.md:249-251: presenting a revoked token again revokes its family.
ReuseKillsFamily ==
    AllIdle => \A r \in Request :
                   reply[r] = "reused" => LiveIn(tok[r].family) = {}

\* README.md:246: a refresh with a good token always issues a new pair.
AlwaysNewPair == \A r \in Request : reply[r] # "conflict"
=============================================================================
