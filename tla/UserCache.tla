----------------------------- MODULE UserCache -----------------------------
(***************************************************************************)
(* The users table behind the cache of get_user_by_id: requests that       *)
(* resolve their user through it, GitHub logins that upsert the user and   *)
(* drop the cached copy, the grader's login that does neither, and an      *)
(* operator who edits role and is_active in the database.                  *)
(*                                                                         *)
(* No code deletes users, so an account stands for its user id.            *)
(***************************************************************************)
EXTENDS TTLCache

CONSTANTS
    Request,       \* concurrent request handlers
    Profile,       \* username, email and avatar, as GitHub tells them
    GraderAdmin,   \* the account of the test_code shortcut ...
    GraderProfile, \* ... and its fixed username
    None

Account == Key
User == [profile : Profile, role : {"admin", "analyst"}, active : BOOLEAN]

ASSUME GraderAssumption == GraderAdmin \in Account /\ GraderProfile \in Profile
ASSUME NoneAssumption == None \notin User /\ None \notin Account

VARIABLES
    users,      \* committed rows; None if there is none
    cache,      \* _user_cache
    pc,         \* where each request is suspended
    acct,       \* the account it is about
    row,        \* its copy of the account's row, as read or as written
    unnoticed,  \* accounts edited since their last login (history)
    raced,      \* accounts whose cached copy raced with a writer (history)
    tainted     \* reads a commit has overtaken (history)

ghostVars == <<unnoticed, raced, tainted>>
vars == <<users, cache, pc, acct, row, unnoticed, raced, tainted>>

\* Requests whose open transaction has written their account's row.
Writing(r) == pc[r] \in {"invalidate", "issue", "redirect"}

\* The row, or the index entry, of the account is locked by another session.
Locked(a, others) == \E q \in others : Writing(q) /\ acct[q] = a

Free(r) == ~Locked(acct[r], Request \ {r})

Init ==
    /\ users = [a \in Account |-> None]
    /\ cache = EmptyCache
    /\ pc = [r \in Request |-> "idle"]
    /\ acct = [r \in Request |-> None]
    /\ row = [r \in Request |-> None]
    /\ unnoticed = {} /\ raced = {} /\ tainted = {}
-----------------------------------------------------------------------------
Goto(r, label) == pc' = [pc EXCEPT ![r] = label]

\* A handler begins by selecting its user, on the way to label.
Start(r, label, a) ==
    /\ pc[r] = "idle"
    /\ Goto(r, label)
    /\ acct' = [acct EXCEPT ![r] = a]

EndSession(r) ==
    /\ Goto(r, "idle")
    /\ acct' = [acct EXCEPT ![r] = None]
    /\ row' = [row EXCEPT ![r] = None]

\* Reads of account a that a commit to it overtakes.
Overtaken(a) == {r \in Request : pc[r] = "fill" /\ acct[r] = a}

\* A login has dropped the cached copy and is still to commit another row.
Outdating(a) == \E q \in Request : /\ pc[q] \in {"issue", "redirect"}
                                   /\ acct[q] = a /\ row[q] # users[a]
-----------------------------------------------------------------------------
\* get_user_by_id, for get_current_user and rotate_refresh_token: a hit.  The
\* 401, 403 and role checks that follow leave no trace.
AuthHit(r, a) == pc[r] = "idle" /\ a \in Hits(cache) /\ UNCHANGED vars

AuthMiss(r, a) ==
    /\ a \notin Hits(cache)
    /\ Start(r, "query", a)
    /\ UNCHANGED <<users, cache, row, ghostVars>>

\* SELECT: no such user, 401; nothing is cached.
AuthUnknown(r) ==
    /\ pc[r] = "query"
    /\ users[acct[r]] = None
    /\ EndSession(r)
    /\ UNCHANGED <<users, cache, ghostVars>>

AuthRead(r) ==
    /\ pc[r] = "query"
    /\ users[acct[r]] # None
    /\ row' = [row EXCEPT ![r] = users[acct[r]]]
    /\ Goto(r, "fill")
    /\ UNCHANGED <<users, cache, acct, ghostVars>>

\* The detached copy is cached, whatever has happened since.
AuthFill(r) ==
    /\ pc[r] = "fill"
    /\ cache' \in Stored(cache, acct[r], row[r])
    /\ raced' = IF r \in tainted \/ Outdating(acct[r])
                THEN raced \cup {acct[r]} ELSE raced \ {acct[r]}
    /\ tainted' = tainted \ {r}
    /\ EndSession(r)
    /\ UNCHANGED <<users, unnoticed>>
-----------------------------------------------------------------------------
\* The login is refused, by the user, the state check or GitHub (no code, an
\* error, no token): nothing has been read or written yet.
LoginRefused(r) == pc[r] = "idle" /\ UNCHANGED vars

\* Web callback or CLI exchange, once GitHub has answered: upsert_from_github
\* selects the user by its GitHub id.
LoginStart(r, a) ==
    /\ a # GraderAdmin
    /\ Start(r, "upsert", a)
    /\ row' = [row EXCEPT ![r] = users[a]]
    /\ UNCHANGED <<users, cache, ghostVars>>

\* Mutant of Updated: every column of the row that was read is written.
UpdatedWhole(r, p) == [row[r] EXCEPT !.profile = p]

\* The row after an UPDATE of what differs from the copy that was read.
Updated(r, p) ==
    IF p = row[r].profile THEN users[acct[r]]
    ELSE [users[acct[r]] EXCEPT !.profile = p]

\* The user was there: flush and refresh.  last_login_at always changes, so
\* the row is always locked.
UpsertUpdate(r, p) ==
    /\ pc[r] = "upsert"
    /\ row[r] # None
    /\ Free(r)
    /\ row' = [row EXCEPT ![r] = Updated(r, p)]
    /\ Goto(r, "invalidate")
    /\ UNCHANGED <<users, cache, acct, ghostVars>>

\* It was not and still is not: INSERT with the server's defaults.
UpsertInsert(r, p) ==
    /\ pc[r] = "upsert"
    /\ row[r] = None /\ users[acct[r]] = None
    /\ Free(r)
    /\ row' = [row EXCEPT ![r] =
                 [profile |-> p, role |-> "analyst", active |-> TRUE]]
    /\ Goto(r, "invalidate")
    /\ UNCHANGED <<users, cache, acct, ghostVars>>

\* Somebody inserted it in between: an IntegrityError nobody handles.
UpsertConflict(r) ==
    /\ pc[r] \in {"upsert", "grader"}
    /\ row[r] = None /\ users[acct[r]] # None
    /\ Free(r)
    /\ EndSession(r)
    /\ UNCHANGED <<users, cache, ghostVars>>

\* Mutant of Invalidate: the login forgets the cached copy.
InvalidateNot(r) ==
    /\ pc[r] = "invalidate"
    /\ unnoticed' = unnoticed \ {acct[r]} /\ raced' = raced \ {acct[r]}
    /\ UNCHANGED <<users, cache, tainted>>

\* invalidate_user
Invalidate(r) ==
    /\ pc[r] = "invalidate"
    /\ cache' = Dropped(cache, acct[r])
    /\ unnoticed' = unnoticed \ {acct[r]} /\ raced' = raced \ {acct[r]}
    /\ UNCHANGED <<users, tainted>>

\* Mutant of LoginAccepted: is_active is not looked at.
LoginAcceptedAnyway(r) ==
    Invalidate(r) /\ Goto(r, "issue") /\ UNCHANGED <<acct, row>>

\* The account is active: issue_session, the answer, then the commit.
LoginAccepted(r) ==
    /\ Invalidate(r)
    /\ row[r].active
    /\ Goto(r, "issue")
    /\ UNCHANGED <<acct, row>>

\* It is not: the web flow redirects, which commits the upsert ...
LoginRedirected(r) ==
    /\ Invalidate(r)
    /\ ~row[r].active
    /\ Goto(r, "redirect")
    /\ UNCHANGED <<acct, row>>

\* ... the CLI flow raises a 403, which rolls it back.
LoginForbidden(r) ==
    /\ Invalidate(r)
    /\ ~row[r].active
    /\ EndSession(r)
-----------------------------------------------------------------------------
\* code=test_code: _get_or_create selects the grader's user ...
GraderStart(r) ==
    /\ Start(r, "grader", GraderAdmin)
    /\ row' = [row EXCEPT ![r] = users[GraderAdmin]]
    /\ UNCHANGED <<users, cache, ghostVars>>

\* ... creates it, or sets last_login_at only; is_active is not looked at.
GraderUpsert(r) ==
    /\ pc[r] = "grader"
    /\ row[r] = None => users[acct[r]] = None
    /\ Free(r)
    /\ row' = [row EXCEPT ![r] =
                 IF row[r] # None THEN users[acct[r]]
                 ELSE [profile |-> GraderProfile, role |-> "admin",
                       active |-> TRUE]]
    /\ Goto(r, "issue")
    /\ UNCHANGED <<users, cache, acct, ghostVars>>

\* get_db commits after the answer.
Commit(r) ==
    /\ pc[r] \in {"issue", "redirect"}
    /\ users' = [users EXCEPT ![acct[r]] = row[r]]
    /\ tainted' = IF row[r] = users[acct[r]] THEN tainted
                  ELSE tainted \cup Overtaken(acct[r])
    /\ EndSession(r)
    /\ UNCHANGED <<cache, unnoticed, raced>>

ConnectionLost(r) ==
    /\ pc[r] # "idle"
    /\ EndSession(r)
    /\ tainted' = tainted \ {r}
    /\ UNCHANGED <<users, cache, unnoticed, raced>>

\* An operator changes role or is_active; nothing tells the cache.
AdminEdit(a, role, active) ==
    /\ users[a] # None
    /\ ~Locked(a, Request)
    /\ <<role, active>> # <<users[a].role, users[a].active>>
    /\ users' = [users EXCEPT ![a] = [@ EXCEPT !.role = role,
                                               !.active = active]]
    /\ unnoticed' = unnoticed \cup {a}
    /\ tainted' = tainted \cup Overtaken(a)
    /\ UNCHANGED <<cache, pc, acct, row, raced>>

Tick ==
    /\ cache' = Aged(cache)
    /\ UNCHANGED <<users, pc, acct, row, ghostVars>>
-----------------------------------------------------------------------------
\* A request resolves its user.
Resolve(r) ==
    \/ \E a \in Account : AuthHit(r, a) \/ AuthMiss(r, a)
    \/ AuthUnknown(r) \/ AuthRead(r) \/ AuthFill(r)

\* A login that has begun goes on.
LoginStep(r) ==
    \/ \E p \in Profile : UpsertUpdate(r, p) \/ UpsertInsert(r, p)
    \/ UpsertConflict(r)
    \/ LoginAccepted(r) \/ LoginRedirected(r) \/ LoginForbidden(r)
    \/ GraderUpsert(r)
    \/ Commit(r)

Next ==
    \/ \E r \in Request :
          \/ Resolve(r)
          \/ LoginRefused(r)
          \/ \E a \in Account : LoginStart(r, a)
          \/ GraderStart(r)
          \/ LoginStep(r)
          \/ ConnectionLost(r)
    \/ \E a \in Account, role \in {"admin", "analyst"}, active \in BOOLEAN :
          AdminEdit(a, role, active)
    \/ Tick

Spec == Init /\ [][Next]_vars
-----------------------------------------------------------------------------
TypeOK ==
    /\ users \in [Account -> User \cup {None}]
    /\ cache \in CacheOf(User)
    /\ pc \in [Request -> {"idle", "query", "fill", "upsert", "invalidate",
                           "issue", "redirect", "grader"}]
    /\ acct \in [Request -> Account \cup {None}]
    /\ row \in [Request -> User \cup {None}]
    /\ unnoticed \subseteq Account /\ raced \subseteq Account
    /\ tainted \subseteq Request

LocalFields(u) == <<u.role, u.active>>

\* No step of a request changes role or is_active of a user that exists, though
\* a login writes back a row it read before an operator's edit
\* (upsert_from_github: "Local fields (role, is_active) are NOT touched").
LocalFieldsKept ==
    [][pc' # pc => \A a \in Account : users[a] # None =>
                      LocalFields(users'[a]) = LocalFields(users[a])]_vars

\* From the moment a GitHub login has passed the is_active check until it has
\* committed its session, the account is not disabled: the row it has written
\* keeps the operator's edit waiting.
SessionNeedsActive ==
    \A r \in Request : pc[r] = "issue" /\ acct[r] # GraderAdmin =>
        users[acct[r]] = None \/ users[acct[r]].active

\* A cached user differs from the table only if it was edited since its last
\* login, or if the copy was read before a commit and cached after it, or
\* cached between a login's invalidate_user and its commit.
StaleNeedsCause ==
    \A a \in Hits(cache) : cache[a].value # users[a] =>
        a \in unnoticed \cup raced

=============================================================================
