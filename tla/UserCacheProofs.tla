-------------------------- MODULE UserCacheProofs --------------------------
(***************************************************************************)
(* Theorems about UserCache, for every number of requests and accounts and *)
(* every cache size and lifetime.                                          *)
(***************************************************************************)
EXTENDS UserCache, TTLCacheProofs, TLAPS

USE DEF Goto, EndSession, ghostVars

\* What a request knows of its account, by where it is suspended.
Knows(r) ==
    /\ pc[r] # "idle" => acct[r] \in Account
    /\ Writing(r) \/ pc[r] = "fill" => row[r] \in User
    /\ pc[r] \in {"upsert", "grader"} /\ row[r] # None => users[acct[r]] # None
    /\ pc[r] = "grader" => acct[r] = GraderAdmin

\* The lock: one writer per account, whose copy of role and is_active is the
\* table's, so that the is_active check still holds when the session starts.
RowLocked ==
    /\ \A r, q \in Request : Writing(r) /\ Writing(q) /\ acct[r] = acct[q] =>
          r = q
    /\ \A r \in Request : Writing(r) /\ users[acct[r]] # None =>
          LocalFields(row[r]) = LocalFields(users[acct[r]])
    /\ \A r \in Request : pc[r] = "issue" /\ acct[r] # GraderAdmin =>
          row[r].active

TableInv == TypeOK /\ (\A r \in Request : Knows(r)) /\ RowLocked

\* A read that no commit has overtaken holds what the table holds.
FreshRead ==
    \A r \in Request : pc[r] = "fill" /\ r \notin tainted =>
        row[r] = users[acct[r]]

\* A commit to come outdates only copies that are known to be suspect.
YoungCopies ==
    \A a \in Hits(cache) : Outdating(a) => a \in unnoticed \cup raced

CacheInv == FreshRead /\ YoungCopies /\ StaleNeedsCause

IInv == TableInv /\ CacheInv
-----------------------------------------------------------------------------
\* The rows a login writes are users.
LEMMA UpdatedUser ==
  ASSUME NEW r \in Request, NEW p \in Profile, row[r] \in User,
         users[acct[r]] \in User
  PROVE  /\ Updated(r, p) \in User
         /\ LocalFields(Updated(r, p)) = LocalFields(users[acct[r]])
  BY DEF Updated, User, LocalFields

LEMMA NewUser ==
  ASSUME NEW p \in Profile, NEW role \in {"admin", "analyst"}
  PROVE  [profile |-> p, role |-> role, active |-> TRUE] \in User
  BY DEF User

LEMMA EditedUser ==
  ASSUME NEW u \in User, NEW role \in {"admin", "analyst"},
         NEW active \in BOOLEAN
  PROVE  [u EXCEPT !.role = role, !.active = active] \in User
  BY DEF User

\* The types, and what requests know, survive every step.
LEMMA TypeStep ==
  TableInv /\ [Next]_vars => TypeOK' /\ (\A q \in Request : Knows(q))'
<1> SUFFICES ASSUME TableInv, [Next]_vars
             PROVE  TypeOK' /\ (\A q \in Request : Knows(q))'
  OBVIOUS
<1> DEFINE Goal == TypeOK /\ \A q \in Request : Knows(q)
<1> USE GraderAssumption, NoneAssumption
<1> USE DEF TableInv, TypeOK, Knows, Writing, Start
<1>1. ASSUME NEW r \in Request, Resolve(r) PROVE Goal'
  <2>1. ASSUME NEW a \in Account, AuthHit(r, a) PROVE Goal'
    BY <2>1 DEF AuthHit, vars
  <2>2. ASSUME NEW a \in Account, AuthMiss(r, a) PROVE Goal'
    BY <2>2 DEF AuthMiss
  <2>3. CASE AuthUnknown(r)
    BY <2>3 DEF AuthUnknown
  <2>4. CASE AuthRead(r)
    BY <2>4 DEF AuthRead
  <2>5. CASE AuthFill(r)
    <3>1. cache' \in CacheOf(User)
      BY <2>5, StoredEntry DEF AuthFill, Account
    <3> QED
      BY <2>5, <3>1 DEF AuthFill
  <2> QED
    BY <1>1, <2>1, <2>2, <2>3, <2>4, <2>5 DEF Resolve
<1>2. ASSUME NEW r \in Request, NEW a \in Account, LoginStart(r, a) PROVE Goal'
  BY <1>2 DEF LoginStart
<1>3. ASSUME NEW r \in Request, GraderStart(r) PROVE Goal'
  BY <1>3 DEF GraderStart
<1>4. ASSUME NEW r \in Request, LoginRefused(r) PROVE Goal'
  BY <1>4 DEF LoginRefused, vars
<1>5. ASSUME NEW r \in Request, LoginStep(r) PROVE Goal'
  <2>1. ASSUME NEW p \in Profile, UpsertUpdate(r, p) PROVE Goal'
    <3>1. Updated(r, p) \in User
      BY <2>1, UpdatedUser DEF UpsertUpdate
    <3> QED
      BY <2>1, <3>1 DEF UpsertUpdate
  <2>2. ASSUME NEW p \in Profile, UpsertInsert(r, p) PROVE Goal'
    BY <2>2, NewUser DEF UpsertInsert
  <2>3. CASE UpsertConflict(r)
    BY <2>3 DEF UpsertConflict
  <2>4. ASSUME Invalidate(r) PROVE cache' \in CacheOf(User)
    BY <2>4, DroppedEntry DEF Invalidate, Account
  <2>5. CASE LoginAccepted(r)
    BY <2>4, <2>5 DEF LoginAccepted, Invalidate
  <2>6. CASE LoginRedirected(r)
    BY <2>4, <2>6 DEF LoginRedirected, Invalidate
  <2>7. CASE LoginForbidden(r)
    BY <2>4, <2>7 DEF LoginForbidden, Invalidate
  <2>8. CASE GraderUpsert(r)
    BY <2>8, NewUser DEF GraderUpsert
  <2>9. CASE Commit(r)
    BY <2>9 DEF Commit, Overtaken
  <2> QED
    BY <1>5, <2>1, <2>2, <2>3, <2>5, <2>6, <2>7, <2>8, <2>9 DEF LoginStep
<1>6. ASSUME NEW r \in Request, ConnectionLost(r) PROVE Goal'
  BY <1>6 DEF ConnectionLost
<1>7. ASSUME NEW a \in Account, NEW role \in {"admin", "analyst"},
             NEW active \in BOOLEAN, AdminEdit(a, role, active)
      PROVE  Goal'
  <2>1. [users[a] EXCEPT !.role = role, !.active = active] \in User
    BY <1>7, EditedUser DEF AdminEdit
  <2>2. /\ users' \in [Account -> User \cup {None}]
        /\ \A b \in Account : users[b] # None => users'[b] # None
    BY <1>7, <2>1 DEF AdminEdit
  <2> QED
    BY <1>7, <2>2 DEF AdminEdit, Overtaken
<1>8. CASE Tick
  BY <1>8, AgedEntries DEF Tick
<1>9. CASE UNCHANGED vars
  BY <1>9 DEF vars
<1> QED
  BY <1>1, <1>2, <1>3, <1>4, <1>5, <1>6, <1>7, <1>8, <1>9 DEF Next

-----------------------------------------------------------------------------
\* A step that lets nobody begin to write and changes no row anyone has written
\* or committed keeps the lock.
LEMMA NobodyWrites ==
  ASSUME RowLocked, UNCHANGED users,
         \A q \in Request : Writing(q)' =>
             /\ Writing(q) /\ acct'[q] = acct[q] /\ row'[q] = row[q]
             /\ pc'[q] = "issue" => pc[q] = "issue"
  PROVE  RowLocked'
  BY DEF RowLocked, Writing

\* A request that begins to write has found the row free.
LEMMA BeginsToWrite ==
  ASSUME TableInv, NEW r \in Request, Free(r), UNCHANGED <<users, acct>>,
         \A q \in Request \ {r} : pc'[q] = pc[q] /\ row'[q] = row[q],
         users[acct[r]] # None =>
             LocalFields(row'[r]) = LocalFields(users[acct[r]]),
         pc'[r] = "issue" => acct[r] = GraderAdmin
  PROVE  RowLocked'
  BY DEF TableInv, RowLocked, Free, Locked, Writing

\* The lock survives every step.
LEMMA LockStep == TableInv /\ [Next]_vars => RowLocked'
<1> SUFFICES ASSUME TableInv, [Next]_vars PROVE RowLocked'
  OBVIOUS
<1>0. TypeOK /\ RowLocked /\ (\A q \in Request : Knows(q))
  BY DEF TableInv
<1> USE <1>0 DEF Start
<1>1. ASSUME NEW r \in Request, Resolve(r) PROVE RowLocked'
  <2>1. ASSUME NEW a \in Account, AuthHit(r, a) PROVE RowLocked'
    BY <2>1, NobodyWrites DEF AuthHit, vars, Writing
  <2>2. ASSUME NEW a \in Account, AuthMiss(r, a) PROVE RowLocked'
    BY <2>2, NobodyWrites DEF AuthMiss, Writing, TypeOK
  <2>3. CASE AuthUnknown(r)
    BY <2>3, NobodyWrites DEF AuthUnknown, Writing, TypeOK
  <2>4. CASE AuthRead(r)
    BY <2>4, NobodyWrites DEF AuthRead, Writing, TypeOK
  <2>5. CASE AuthFill(r)
    BY <2>5, NobodyWrites DEF AuthFill, Writing, TypeOK
  <2> QED
    BY <1>1, <2>1, <2>2, <2>3, <2>4, <2>5 DEF Resolve
<1>2. ASSUME NEW r \in Request, NEW a \in Account, LoginStart(r, a)
      PROVE  RowLocked'
  BY <1>2, NobodyWrites DEF LoginStart, Writing, TypeOK
<1>3. ASSUME NEW r \in Request, GraderStart(r) PROVE RowLocked'
  BY <1>3, NobodyWrites DEF GraderStart, Writing, TypeOK
<1>4. ASSUME NEW r \in Request, LoginRefused(r) PROVE RowLocked'
  BY <1>4, NobodyWrites DEF LoginRefused, vars, Writing
<1>5. ASSUME NEW r \in Request, LoginStep(r) PROVE RowLocked'
  <2>1. ASSUME NEW p \in Profile, UpsertUpdate(r, p) PROVE RowLocked'
    <3>1. LocalFields(Updated(r, p)) = LocalFields(users[acct[r]])
      BY <2>1, UpdatedUser DEF UpsertUpdate, Knows, TypeOK, Writing, User
    <3> QED
      BY <2>1, <3>1, BeginsToWrite DEF UpsertUpdate, TypeOK
  <2>2. ASSUME NEW p \in Profile, UpsertInsert(r, p) PROVE RowLocked'
    BY <2>2, BeginsToWrite DEF UpsertInsert, TypeOK
  <2>3. CASE UpsertConflict(r)
    BY <2>3, NobodyWrites DEF UpsertConflict, Writing, TypeOK
  <2>4. CASE LoginAccepted(r)
    BY <2>4 DEF LoginAccepted, Invalidate, RowLocked, Writing, TypeOK
  <2>5. CASE LoginRedirected(r)
    BY <2>5 DEF LoginRedirected, Invalidate, RowLocked, Writing, TypeOK
  <2>6. CASE LoginForbidden(r)
    BY <2>6, NobodyWrites DEF LoginForbidden, Invalidate, Writing, TypeOK
  <2>7. CASE GraderUpsert(r)
    BY <2>7, BeginsToWrite DEF GraderUpsert, TypeOK, Knows, Writing
  <2>8. CASE Commit(r)
    BY <2>8 DEF Commit, RowLocked, Writing, TypeOK
  <2> QED
    BY <1>5, <2>1, <2>2, <2>3, <2>4, <2>5, <2>6, <2>7, <2>8 DEF LoginStep
<1>6. ASSUME NEW r \in Request, ConnectionLost(r) PROVE RowLocked'
  BY <1>6, NobodyWrites DEF ConnectionLost, Writing, TypeOK
<1>7. ASSUME NEW a \in Account, NEW role \in {"admin", "analyst"},
             NEW active \in BOOLEAN, AdminEdit(a, role, active)
      PROVE  RowLocked'
  <2>1. \A q \in Request : Writing(q) => users'[acct[q]] = users[acct[q]]
    BY <1>7 DEF AdminEdit, Locked, TypeOK
  <2> QED
    BY <1>7, <2>1 DEF AdminEdit, RowLocked, Writing
<1>8. CASE Tick \/ UNCHANGED vars
  BY <1>8, NobodyWrites DEF Tick, vars, Writing
<1> QED
  BY <1>1, <1>2, <1>3, <1>4, <1>5, <1>6, <1>7, <1>8 DEF Next

LEMMA TableStep == TableInv /\ [Next]_vars => TableInv'
  BY TypeStep, LockStep DEF TableInv

LEMMA TableInit == Init => TableInv
  BY NoneAssumption
     DEF Init, TableInv, TypeOK, CacheOf, EmptyCache, Knows, RowLocked, Writing

\* Every variable keeps its type.
THEOREM TypeCorrect == Spec => []TypeOK
<1>1. TableInv => TypeOK
  BY DEF TableInv
<1> QED
  BY <1>1, TableInit, TableStep, PTL DEF Spec

\* A session is only ever granted to an account that is not disabled: the row
\* lock keeps the edit waiting, however many logins and edits there are.
THEOREM SessionsNeedActive == Spec => []SessionNeedsActive
<1>1. TableInv => SessionNeedsActive
  BY DEF TableInv, RowLocked, SessionNeedsActive, Writing, LocalFields
<1> QED
  BY <1>1, TableInit, TableStep, PTL DEF Spec

\* No request ever changes role or is_active of an existing user.
THEOREM LocalFieldsUntouched == Spec => LocalFieldsKept
<1> DEFINE Kept == pc' # pc =>
             \A a \in Account : users[a] # None =>
                 LocalFields(users'[a]) = LocalFields(users[a])
<1>1. TableInv /\ [Next]_vars => [Kept]_vars
  <2> SUFFICES ASSUME TableInv, Next, pc' # pc PROVE Kept
    OBVIOUS
  <2>1. CASE users' = users
    BY <2>1
  <2>2. ASSUME NEW r \in Request, Commit(r) PROVE Kept
    BY <2>2 DEF Commit, TableInv, TypeOK, RowLocked, Writing
  <2>3. users' = users \/ \E r \in Request : Commit(r)
    BY DEF Next, Resolve, AuthHit, AuthMiss, AuthUnknown, AuthRead, AuthFill,
           LoginStart, LoginRefused, GraderStart, LoginStep, UpsertUpdate,
           UpsertInsert, UpsertConflict, LoginAccepted, LoginRedirected,
           LoginForbidden, Invalidate, GraderUpsert, ConnectionLost, AdminEdit,
           Tick, vars
  <2> QED
    BY <2>1, <2>2, <2>3
<1> QED
  BY <1>1, TableInit, TableStep, PTL DEF Spec, LocalFieldsKept
-----------------------------------------------------------------------------
\* A step that fills, writes and commits nothing.
LEMMA QuietStep ==
  ASSUME CacheInv,
         UNCHANGED <<users, unnoticed, raced>>,
         \A a \in Hits(cache)' :
             a \in Hits(cache) /\ cache'[a].value = cache[a].value,
         \A q \in Request : pc'[q] \in {"fill", "issue", "redirect"} =>
             pc'[q] = pc[q] /\ acct'[q] = acct[q] /\ row'[q] = row[q],
         \A q \in Request : pc'[q] = "fill" /\ q \in tainted => q \in tainted'
  PROVE  CacheInv'
<1>1. FreshRead'
  BY DEF CacheInv, FreshRead
<1>2. YoungCopies'
  BY DEF CacheInv, YoungCopies, Outdating
<1>3. StaleNeedsCause'
  BY DEF CacheInv, StaleNeedsCause
<1> QED
  BY <1>1, <1>2, <1>3 DEF CacheInv

\* A login that drops the cached copy is the only writer of its account.
LEMMA DropKeeps ==
  ASSUME TableInv, CacheInv, NEW r \in Request, Invalidate(r),
         UNCHANGED acct \/ acct' = [acct EXCEPT ![r] = None],
         \A q \in Request \ {r} : pc'[q] = pc[q] /\ row'[q] = row[q],
         pc'[r] # "fill"
  PROVE  CacheInv'
<1>0. /\ TypeOK /\ acct[r] \in Account
      /\ \A q \in Request \ {r} : Writing(q) => acct[q] # acct[r]
      /\ \A q \in Request \ {r} : acct'[q] = acct[q]
  BY DEF TableInv, Knows, RowLocked, Invalidate, Writing, TypeOK
<1>1. \A a \in Hits(cache)' :
          a # acct[r] /\ a \in Hits(cache) /\ cache'[a] = cache[a]
  BY <1>0, DroppedEntry DEF Invalidate, TypeOK, Hits, Account
<1>2. FreshRead'
  BY <1>0 DEF Invalidate, CacheInv, FreshRead
<1>3. YoungCopies'
  <2>1. ASSUME NEW a \in Hits(cache)', Outdating(a)' PROVE Outdating(a)
    BY <1>0, <1>1, <2>1, NoneAssumption
       DEF Invalidate, Outdating, Writing, TypeOK, Hits, Account
  <2> QED
    BY <1>1, <2>1 DEF Invalidate, CacheInv, YoungCopies
<1>4. StaleNeedsCause'
  BY <1>1 DEF Invalidate, CacheInv, StaleNeedsCause
<1> QED
  BY <1>2, <1>3, <1>4 DEF CacheInv

\* Storing a copy is marked when it was overtaken or is about to be.
LEMMA FillKeeps ==
  ASSUME TableInv, CacheInv, NEW r \in Request, AuthFill(r)
  PROVE  CacheInv'
<1>0. TypeOK /\ acct[r] \in Account /\ row[r] \in User
  BY DEF TableInv, Knows, AuthFill
<1>1. /\ cache'[acct[r]].value = row[r]
      /\ \A a \in Hits(cache)' \ {acct[r]} :
            a \in Hits(cache) /\ cache'[a] = cache[a]
  <2>1. cache' \in Stored(cache, acct[r], row[r])
    BY DEF AuthFill
  <2> QED
    BY <1>0, <2>1, StoredEntry DEF TypeOK, Account, Hits
<1>2. FreshRead'
  BY <1>0 DEF AuthFill, CacheInv, FreshRead, TypeOK
<1>3. \A a \in Account : Outdating(a)' => Outdating(a)
  BY <1>0 DEF AuthFill, Outdating, TypeOK
<1>4. YoungCopies'
  BY <1>1, <1>3 DEF AuthFill, CacheInv, YoungCopies, Hits, Account
<1>5. r \notin tainted => row[r] = users[acct[r]]
  BY DEF AuthFill, CacheInv, FreshRead
<1>6. StaleNeedsCause'
  BY <1>1, <1>5 DEF AuthFill, CacheInv, StaleNeedsCause
<1> QED
  BY <1>2, <1>4, <1>6 DEF CacheInv

\* A commit outdates the copies that YoungCopies has marked.
LEMMA CommitKeeps ==
  ASSUME TableInv, CacheInv, NEW r \in Request, Commit(r)
  PROVE  CacheInv'
<1>0. /\ TypeOK /\ acct[r] \in Account
      /\ \A q \in Request \ {r} : Writing(q) => acct[q] # acct[r]
  BY DEF TableInv, Knows, RowLocked, Commit, Writing
<1>1. /\ users'[acct[r]] = row[r]
      /\ \A a \in Account \ {acct[r]} : users'[a] = users[a]
  BY <1>0 DEF Commit, TypeOK
<1>2. FreshRead'
  <2> SUFFICES ASSUME NEW q \in Request, pc'[q] = "fill", q \notin tainted'
               PROVE  row'[q] = users'[acct'[q]]
    BY DEF FreshRead
  <2>1. /\ q # r /\ pc[q] = "fill" /\ acct[q] \in Account
        /\ acct'[q] = acct[q] /\ row'[q] = row[q] /\ q \notin tainted
    BY <1>0 DEF Commit, TypeOK, TableInv, Knows
  <2>2. acct[q] = acct[r] => users' = users
    BY <1>0, <2>1 DEF Commit, Overtaken, TypeOK
  <2> QED
    BY <1>1, <2>1, <2>2 DEF CacheInv, FreshRead
<1>3. YoungCopies'
  <2>1. ASSUME NEW a \in Account, Outdating(a)' PROVE Outdating(a)
    BY <1>0, <1>1, <2>1 DEF Commit, Outdating, Writing, TypeOK
  <2> QED
    BY <2>1 DEF Commit, CacheInv, YoungCopies, Hits, Account
<1>4. StaleNeedsCause'
  <2>1. row[r] # users[acct[r]] => Outdating(acct[r])
    BY DEF Commit, Outdating
  <2> QED
    BY <1>1, <2>1
       DEF Commit, CacheInv, YoungCopies, StaleNeedsCause, Hits, Account
<1> QED
  BY <1>2, <1>3, <1>4 DEF CacheInv

\* What is known of cached copies survives every step.
LEMMA CacheStep == IInv /\ [Next]_vars => CacheInv'
<1> SUFFICES ASSUME TableInv, CacheInv, [Next]_vars PROVE CacheInv'
  BY DEF IInv
<1>0. TypeOK
  BY DEF TableInv
<1> USE <1>0 DEF Start
<1>1. ASSUME NEW r \in Request, Resolve(r) PROVE CacheInv'
  <2>1. ASSUME NEW a \in Account, AuthHit(r, a) PROVE CacheInv'
    BY <2>1, QuietStep DEF AuthHit, vars, Hits
  <2>2. ASSUME NEW a \in Account, AuthMiss(r, a) PROVE CacheInv'
    BY <2>2, QuietStep DEF AuthMiss, TypeOK, Hits
  <2>3. CASE AuthUnknown(r)
    BY <2>3, QuietStep DEF AuthUnknown, TypeOK, Hits
  <2>4. CASE AuthRead(r)
    <3>1. FreshRead'
      BY <2>4 DEF AuthRead, CacheInv, FreshRead, TypeOK
    <3>2. YoungCopies' /\ StaleNeedsCause'
      BY <2>4 DEF AuthRead, CacheInv, YoungCopies, StaleNeedsCause, Outdating,
                  Hits, TypeOK
    <3> QED
      BY <3>1, <3>2 DEF CacheInv
  <2>5. CASE AuthFill(r)
    BY <2>5, FillKeeps
  <2> QED
    BY <1>1, <2>1, <2>2, <2>3, <2>4, <2>5 DEF Resolve
<1>2. ASSUME NEW r \in Request, NEW a \in Account, LoginStart(r, a)
      PROVE  CacheInv'
  BY <1>2, QuietStep DEF LoginStart, TypeOK, Hits
<1>3. ASSUME NEW r \in Request, GraderStart(r) PROVE CacheInv'
  BY <1>3, QuietStep DEF GraderStart, TypeOK, Hits
<1>4. ASSUME NEW r \in Request, LoginRefused(r) PROVE CacheInv'
  BY <1>4, QuietStep DEF LoginRefused, vars, Hits
<1>5. ASSUME NEW r \in Request, LoginStep(r) PROVE CacheInv'
  <2>1. ASSUME NEW p \in Profile, UpsertUpdate(r, p) PROVE CacheInv'
    BY <2>1, QuietStep DEF UpsertUpdate, TypeOK, Hits
  <2>2. ASSUME NEW p \in Profile, UpsertInsert(r, p) PROVE CacheInv'
    BY <2>2, QuietStep DEF UpsertInsert, TypeOK, Hits
  <2>3. CASE UpsertConflict(r)
    BY <2>3, QuietStep DEF UpsertConflict, TypeOK, Hits
  <2>4. CASE LoginAccepted(r)
    BY <2>4, DropKeeps DEF LoginAccepted, TypeOK
  <2>5. CASE LoginRedirected(r)
    BY <2>5, DropKeeps DEF LoginRedirected, TypeOK
  <2>6. CASE LoginForbidden(r)
    BY <2>6, DropKeeps DEF LoginForbidden, TypeOK
  <2>7. CASE GraderUpsert(r)
    <3>1. row'[r] # users[acct[r]] => users[acct[r]] = None
      BY <2>7 DEF GraderUpsert, TypeOK
    <3>2. FreshRead'
      BY <2>7 DEF GraderUpsert, CacheInv, FreshRead, TypeOK
    <3>3. \A a \in Hits(cache) : users[a] = None => a \in unnoticed \cup raced
      BY NoneAssumption DEF CacheInv, StaleNeedsCause, TypeOK, CacheOf, Hits,
                            Account
    <3>4. YoungCopies'
      <4>1. ASSUME NEW a \in Hits(cache), Outdating(a)'
            PROVE  Outdating(a) \/ users[a] = None
        BY <2>7, <3>1, <4>1 DEF GraderUpsert, Outdating, TypeOK
      <4> QED
        BY <2>7, <3>3, <4>1 DEF GraderUpsert, CacheInv, YoungCopies, Hits
    <3>5. StaleNeedsCause'
      BY <2>7 DEF GraderUpsert, CacheInv, StaleNeedsCause, Hits
    <3> QED
      BY <3>2, <3>4, <3>5 DEF CacheInv
  <2>8. CASE Commit(r)
    BY <2>8, CommitKeeps
  <2> QED
    BY <1>5, <2>1, <2>2, <2>3, <2>4, <2>5, <2>6, <2>7, <2>8 DEF LoginStep
<1>6. ASSUME NEW r \in Request, ConnectionLost(r) PROVE CacheInv'
  BY <1>6, QuietStep DEF ConnectionLost, TypeOK, Hits
<1>7. ASSUME NEW a \in Account, NEW role \in {"admin", "analyst"},
             NEW active \in BOOLEAN, AdminEdit(a, role, active)
      PROVE  CacheInv'
  <2>1. \A b \in Account \ {a} : users'[b] = users[b]
    BY <1>7 DEF AdminEdit, TypeOK
  <2>2. FreshRead'
    <3>1. \A q \in Request : pc[q] = "fill" => acct[q] \in Account
      BY DEF TableInv, Knows
    <3> QED
      BY <1>7, <2>1, <3>1 DEF AdminEdit, Overtaken, CacheInv, FreshRead
  <2>3. YoungCopies'
    <3>1. ASSUME NEW b \in Account \ {a}, Outdating(b)' PROVE Outdating(b)
      BY <1>7, <2>1, <3>1 DEF AdminEdit, Outdating
    <3> QED
      BY <1>7, <3>1 DEF AdminEdit, CacheInv, YoungCopies, Hits, Account
  <2>4. StaleNeedsCause'
    BY <1>7, <2>1 DEF AdminEdit, CacheInv, StaleNeedsCause, Hits, Account
  <2> QED
    BY <2>2, <2>3, <2>4 DEF CacheInv
<1>8. CASE Tick
  BY <1>8, QuietStep, AgedEntries DEF Tick, TypeOK, Hits
<1>9. CASE UNCHANGED vars
  BY <1>9, QuietStep DEF vars, Hits
<1> QED
  BY <1>1, <1>2, <1>3, <1>4, <1>5, <1>6, <1>7, <1>8, <1>9 DEF Next

\* However logins, edits and reads interleave, a cached user is out of date
\* only for one of the named causes.
THEOREM OnlyCausesMakeStale == Spec => []StaleNeedsCause
<1>1. Init => IInv
  BY TableInit
     DEF Init, IInv, CacheInv, FreshRead, YoungCopies, StaleNeedsCause, Hits,
         EmptyCache
<1>2. IInv /\ [Next]_vars => IInv'
  BY TableStep, CacheStep DEF IInv
<1>3. IInv => StaleNeedsCause
  BY DEF IInv, CacheInv
<1> QED
  BY <1>1, <1>2, <1>3, PTL DEF Spec
-----------------------------------------------------------------------------
\* The cached copy of account a is not its row.
OutOfDate(a) == a \in Hits(cache) /\ cache[a].value # users[a]

\* Reads of account a that a commit to it has overtaken.
LateReads(a) == {r \in tainted : acct[r] = a}

GrowsOlder(a) ==
    /\ OutOfDate(a)
    /\ cache'[a].value = cache[a].value
    /\ cache'[a].age = IF Tick THEN cache[a].age + 1 ELSE cache[a].age

PutBack(a) == \E r \in LateReads(a) \ tainted' : AuthFill(r)

\* A step that leaves an account's row alone makes its cached copy out of date
\* only by putting back what a commit had overtaken, of which there is no more
\* after it; a copy that is out of date it ages by a tick at most, and never
\* renews.
Fades(a) ==
    users'[a] = users[a] => /\ LateReads(a)' \subseteq LateReads(a)
                            /\ OutOfDate(a)' => GrowsOlder(a) \/ PutBack(a)

\* Only a read waiting to fill the cache can have been overtaken.
LateFills == \A r \in tainted : pc[r] = "fill"

FadeInv == IInv /\ LateFills

\* A step that changes entries by dropping them at most, and begins or ends no
\* overtaken read.
LEMMA NothingFilled ==
  ASSUME FadeInv, ~Tick, tainted' \subseteq tainted,
         \A j \in Hits(cache)' : j \in Hits(cache) /\ cache'[j] = cache[j],
         \A q \in tainted' :
             pc'[q] = pc[q] /\ acct'[q] = acct[q]
  PROVE  LateFills' /\ \A a \in Account : Fades(a)
<1>1. LateFills'
  BY DEF FadeInv, LateFills
<1>2. \A a \in Account : LateReads(a)' \subseteq LateReads(a)
  BY DEF LateReads
<1>3. ASSUME NEW a \in Account, users'[a] = users[a], OutOfDate(a)'
      PROVE  GrowsOlder(a)
  BY <1>3 DEF OutOfDate, GrowsOlder, Hits
<1> QED
  BY <1>1, <1>2, <1>3 DEF Fades

\* A step that changes nothing is no tick, unless the cache is empty.
LEMMA NothingChanged ==
  ASSUME FadeInv, UNCHANGED vars
  PROVE  LateFills' /\ \A a \in Account : Fades(a)
<1>1. LateFills'
  BY DEF FadeInv, LateFills, vars
<1>2. ASSUME NEW a \in Account, OutOfDate(a)', Tick PROVE FALSE
  <2>1. a \in Hits(Aged(cache)) /\ Aged(cache) = cache
    BY <1>2 DEF OutOfDate, Tick, Hits, vars
  <2>2. cache[a].age = cache[a].age + 1 /\ cache[a].age \in Nat
    BY <2>1, AgedAges, CacheAssumption
       DEF FadeInv, IInv, TableInv, TypeOK, CacheOf, Hits, Aged
  <2> QED
    BY <2>2
<1>3. ASSUME NEW a \in Account PROVE Fades(a)
  BY <1>2 DEF Fades, LateReads, OutOfDate, GrowsOlder, Hits, vars
<1> QED
  BY <1>1, <1>3

\* A fill stores something out of date only if its read was overtaken.
LEMMA FillFades ==
  ASSUME FadeInv, NEW r \in Request, AuthFill(r)
  PROVE  LateFills' /\ \A a \in Account : Fades(a)
<1>0. /\ TypeOK /\ acct[r] \in Account /\ row[r] \in User
      /\ LateFills /\ FreshRead
  BY DEF FadeInv, IInv, TableInv, CacheInv, Knows, AuthFill
<1>1. /\ cache'[acct[r]].value = row[r]
      /\ \A a \in Hits(cache)' \ {acct[r]} :
            a \in Hits(cache) /\ cache'[a] = cache[a]
  <2>1. cache' \in Stored(cache, acct[r], row[r])
    BY DEF AuthFill
  <2> QED
    BY <1>0, <2>1, StoredEntry DEF TypeOK, Account, Hits
<1>2. /\ tainted' = tainted \ {r} /\ users' = users /\ ~Tick
      /\ \A q \in Request \ {r} : pc'[q] = pc[q] /\ acct'[q] = acct[q]
  BY <1>0 DEF AuthFill, Tick, TypeOK
<1>3. LateFills' /\ \A a \in Account : LateReads(a)' \subseteq LateReads(a)
  BY <1>0, <1>2 DEF LateFills, LateReads, TypeOK
<1>4. ASSUME NEW a \in Account, OutOfDate(a)'
      PROVE  GrowsOlder(a) \/ PutBack(a)
  <2>1. CASE a # acct[r]
    BY <1>1, <1>2, <1>4, <2>1 DEF OutOfDate, GrowsOlder, Hits, Account
  <2>2. CASE a = acct[r] /\ r \in tainted
    BY <1>2, <2>2 DEF PutBack, LateReads
  <2>3. CASE a = acct[r] /\ r \notin tainted
    <3>1. row[r] = users[a]
      BY <1>0, <2>3 DEF AuthFill, FreshRead
    <3> QED
      BY <1>1, <1>2, <1>4, <2>3, <3>1 DEF OutOfDate
  <2> QED
    BY <2>1, <2>2, <2>3
<1> QED
  BY <1>3, <1>4 DEF Fades

\* A commit overtakes reads of the account whose row it changes, and no other.
LEMMA CommitFades ==
  ASSUME FadeInv, NEW r \in Request, Commit(r)
  PROVE  LateFills' /\ \A a \in Account : Fades(a)
<1>0. TypeOK /\ acct[r] \in Account /\ LateFills /\ r \notin tainted
  BY DEF FadeInv, IInv, TableInv, Knows, LateFills, Commit
<1>1. /\ cache' = cache /\ ~Tick /\ r \notin tainted'
      /\ \A q \in Request \ {r} : pc'[q] = pc[q] /\ acct'[q] = acct[q]
      /\ tainted' \subseteq tainted \cup Overtaken(acct[r])
  BY <1>0 DEF Commit, Tick, TypeOK, Overtaken
<1>2. LateFills'
  BY <1>0, <1>1 DEF LateFills, Overtaken, TypeOK
<1>3. ASSUME NEW a \in Account, users'[a] = users[a]
      PROVE  LateReads(a)' \subseteq LateReads(a)
  <2>1. CASE a # acct[r]
    BY <1>0, <1>1, <2>1 DEF LateReads, Overtaken, TypeOK
  <2>2. CASE a = acct[r]
    <3>1. tainted' = tainted
      BY <1>0, <1>3, <2>2 DEF Commit, TypeOK
    <3> QED
      BY <1>0, <1>1, <3>1 DEF LateReads, TypeOK
  <2> QED
    BY <2>1, <2>2
<1> QED
  BY <1>1, <1>2, <1>3 DEF Fades, OutOfDate, GrowsOlder, Hits

\* So does an edit.
LEMMA EditFades ==
  ASSUME FadeInv, NEW b \in Account, NEW role \in {"admin", "analyst"},
         NEW active \in BOOLEAN, AdminEdit(b, role, active)
  PROVE  LateFills' /\ \A a \in Account : Fades(a)
<1>0. TypeOK /\ LateFills
  BY DEF FadeInv, IInv, TableInv
<1>1. /\ cache' = cache /\ pc' = pc /\ acct' = acct
      /\ tainted' = tainted \cup Overtaken(b)
  BY DEF AdminEdit
<1>2. users'[b] # users[b]
  <2>1. users[b] \in User
    BY <1>0 DEF AdminEdit, TypeOK
  <2>2. [users[b] EXCEPT !.role = role, !.active = active] # users[b]
    BY <2>1 DEF AdminEdit, User
  <2> QED
    BY <1>0, <2>2 DEF AdminEdit, TypeOK
<1>3. LateFills'
  BY <1>0, <1>1 DEF LateFills, Overtaken
<1>4. ASSUME NEW a \in Account, users'[a] = users[a]
      PROVE  LateReads(a)' \subseteq LateReads(a)
  BY <1>1, <1>2, <1>4 DEF LateReads, Overtaken
<1>5. ~Tick
  BY <1>2 DEF Tick
<1> QED
  BY <1>1, <1>3, <1>4, <1>5 DEF Fades, OutOfDate, GrowsOlder, Hits

\* A tick fills nothing, and renews no copy.
LEMMA TickFades ==
  ASSUME FadeInv, Tick
  PROVE  LateFills' /\ \A a \in Account : Fades(a)
<1>1. LateFills' /\ \A a \in Account : LateReads(a)' \subseteq LateReads(a)
  BY DEF FadeInv, LateFills, LateReads, Tick, ghostVars
<1>2. ASSUME NEW a \in Account, OutOfDate(a)' PROVE GrowsOlder(a)
  <2>1. a \in Hits(Aged(cache)) /\ cache' = Aged(cache) /\ users' = users
    BY <1>2 DEF Tick, OutOfDate, Hits
  <2>2. cache \in CacheOf(User)
    BY DEF FadeInv, IInv, TableInv, TypeOK
  <2>3. /\ a \in Hits(cache)
        /\ cache'[a].value = cache[a].value
        /\ cache'[a].age = cache[a].age + 1
    BY <2>1, <2>2, AgedEntries, AgedAges
  <2> QED
    BY <1>2, <2>1, <2>3 DEF GrowsOlder, OutOfDate
<1> QED
  BY <1>1, <1>2 DEF Fades

\* Dropping a copy leaves nothing of it to be out of date.
LEMMA DropFades ==
  ASSUME FadeInv, NEW r \in Request, Invalidate(r), pc' # pc,
         \A q \in Request \ {r} : pc'[q] = pc[q] /\ acct'[q] = acct[q]
  PROVE  LateFills' /\ \A a \in Account : Fades(a)
<1>0. TypeOK /\ acct[r] \in Account /\ r \notin tainted
  BY DEF FadeInv, IInv, TableInv, Knows, LateFills, Invalidate
<1>1. \A j \in Hits(cache)' : j \in Hits(cache) /\ cache'[j] = cache[j]
  BY <1>0, DroppedEntry DEF Invalidate, TypeOK, Hits, Account
<1> QED
  BY <1>0, <1>1, NothingFilled DEF Invalidate, Tick, TypeOK

\* Every other step of a request leaves the cache and the overtaken reads as
\* they are.
LEMMA FadeStep ==
  ASSUME FadeInv, [Next]_vars
  PROVE  LateFills' /\ \A a \in Account : Fades(a)
<1> DEFINE Goal == LateFills' /\ \A a \in Account : Fades(a)
<1>0. TypeOK /\ LateFills
  BY DEF FadeInv, IInv, TableInv
<1> USE DEF Start
<1>1. ASSUME NEW r \in Request, Resolve(r) PROVE Goal
  <2>1. ASSUME NEW a \in Account, AuthHit(r, a) PROVE Goal
    BY <2>1, NothingChanged DEF AuthHit
  <2>2. ASSUME NEW a \in Account, AuthMiss(r, a) PROVE Goal
    BY <1>0, <2>2, NothingFilled
       DEF AuthMiss, Tick, TypeOK, Hits, LateFills
  <2>3. CASE AuthUnknown(r)
    BY <1>0, <2>3, NothingFilled
       DEF AuthUnknown, Tick, TypeOK, Hits, LateFills
  <2>4. CASE AuthRead(r)
    BY <1>0, <2>4, NothingFilled
       DEF AuthRead, Tick, TypeOK, Hits, LateFills
  <2>5. CASE AuthFill(r)
    BY <2>5, FillFades
  <2> QED
    BY <1>1, <2>1, <2>2, <2>3, <2>4, <2>5 DEF Resolve
<1>2. ASSUME NEW r \in Request, NEW a \in Account, LoginStart(r, a) PROVE Goal
  BY <1>0, <1>2, NothingFilled
     DEF LoginStart, Tick, TypeOK, Hits, LateFills
<1>3. ASSUME NEW r \in Request, GraderStart(r) PROVE Goal
  BY <1>0, <1>3, NothingFilled
     DEF GraderStart, Tick, TypeOK, Hits, LateFills
<1>4. ASSUME NEW r \in Request, LoginRefused(r) PROVE Goal
  BY <1>4, NothingChanged DEF LoginRefused
<1>5. ASSUME NEW r \in Request, LoginStep(r) PROVE Goal
  <2>1. ASSUME NEW p \in Profile, UpsertUpdate(r, p) PROVE Goal
    BY <1>0, <2>1, NothingFilled
       DEF UpsertUpdate, Tick, TypeOK, Hits, LateFills
  <2>2. ASSUME NEW p \in Profile, UpsertInsert(r, p) PROVE Goal
    BY <1>0, <2>2, NothingFilled
       DEF UpsertInsert, Tick, TypeOK, Hits, LateFills
  <2>3. CASE UpsertConflict(r)
    BY <1>0, <2>3, NothingFilled
       DEF UpsertConflict, Tick, TypeOK, Hits, LateFills
  <2>4. CASE LoginAccepted(r)
    BY <1>0, <2>4, DropFades DEF LoginAccepted, Invalidate, TypeOK
  <2>5. CASE LoginRedirected(r)
    BY <1>0, <2>5, DropFades DEF LoginRedirected, Invalidate, TypeOK
  <2>6. CASE LoginForbidden(r)
    BY <1>0, <2>6, DropFades DEF LoginForbidden, Invalidate, TypeOK
  <2>7. CASE GraderUpsert(r)
    BY <1>0, <2>7, NothingFilled
       DEF GraderUpsert, Tick, TypeOK, Hits, LateFills
  <2>8. CASE Commit(r)
    BY <2>8, CommitFades
  <2> QED
    BY <1>5, <2>1, <2>2, <2>3, <2>4, <2>5, <2>6, <2>7, <2>8 DEF LoginStep
<1>6. ASSUME NEW r \in Request, ConnectionLost(r) PROVE Goal
  BY <1>0, <1>6, NothingFilled
     DEF ConnectionLost, Tick, TypeOK, Hits, LateFills
<1>7. ASSUME NEW a \in Account, NEW role \in {"admin", "analyst"},
             NEW active \in BOOLEAN, AdminEdit(a, role, active)
      PROVE  Goal
  BY <1>7, EditFades
<1>8. CASE Tick
  BY <1>8, TickFades
<1>9. CASE UNCHANGED vars
  BY <1>9, NothingChanged
<1> QED
  BY <1>1, <1>2, <1>3, <1>4, <1>5, <1>6, <1>7, <1>8, <1>9 DEF Next

\* However logins, edits, reads and ticks interleave, an account whose row
\* nobody changes is served out of date only by the copy the cache holds, which
\* nothing renews, and by reads the last change has overtaken, which dwindle
\* (users.py: "admin-driven changes to is_active or role propagate without
\* manual invalidation").
THEOREM OutOfDateFades == Spec => [][\A a \in Account : Fades(a)]_vars
<1>1. Init => FadeInv
  BY TableInit
     DEF Init, FadeInv, LateFills, IInv, CacheInv, FreshRead, YoungCopies,
         StaleNeedsCause, Hits, EmptyCache
<1>2. FadeInv /\ [Next]_vars => FadeInv' /\ [\A a \in Account : Fades(a)]_vars
  BY FadeStep, TableStep, CacheStep DEF FadeInv, IInv
<1> QED
  BY <1>1, <1>2, PTL DEF Spec
=============================================================================
