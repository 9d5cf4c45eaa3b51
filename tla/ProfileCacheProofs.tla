------------------------- MODULE ProfileCacheProofs -------------------------
(***************************************************************************)
(* Theorems about ProfileCache, for every number of requests, names, ids   *)
(* and queries, every set of files and every cache size and lifetime.      *)
(***************************************************************************)
EXTENDS ProfileCache, TTLCacheProofs, SequenceTheorems, TLAPS
-----------------------------------------------------------------------------
USE DEF Goto, EndSession, localVars, txnVars, ghostVars

LEMMA EmptyCacheType == EmptyCache \in CacheOf(Seq(SUBSET Profile))
  BY DEF EmptyCache, CacheOf

\* The types survive every step.
LEMMA TypeStep == TypeOK /\ [Next]_vars => TypeOK'
<1> SUFFICES ASSUME TypeOK, [Next]_vars PROVE TypeOK'
  OBVIOUS
<1> USE QueryAssumption, FileAssumption, EmptyCacheType
<1> USE DEF TypeOK, Sessions, LocalsFit, Filling, Profile,
            Start, AnswerAtOnce, Flush, vars
<1>1. CASE Tick
  <2>1. cache' \in CacheOf(Seq(SUBSET Profile))
    BY <1>1, AgedEntries DEF Tick
  <2> QED
    BY <1>1, <2>1 DEF Tick
<1>2. ASSUME NEW r \in Request, NEW k \in Key, ReadHit(r, k) PROVE TypeOK'
  BY <1>2 DEF ReadHit
<1>3. ASSUME NEW r \in Request, NEW k \in Key, ReadMiss(r, k) PROVE TypeOK'
  BY <1>3 DEF ReadMiss
<1>4. ASSUME NEW r \in Request, NEW n \in Name, CreateExists(r, n)
      PROVE  TypeOK'
  BY <1>4 DEF CreateExists
<1>5. ASSUME NEW r \in Request, NEW n \in Name, CreateStart(r, n) PROVE TypeOK'
  BY <1>5 DEF CreateStart
<1>6. ASSUME NEW r \in Request, NEW i \in Id, DeleteMissing(r, i) PROVE TypeOK'
  BY <1>6 DEF DeleteMissing
<1>7. ASSUME NEW r \in Request, NEW p \in rows, DeleteStart(r, p) PROVE TypeOK'
  BY <1>7 DEF DeleteStart
<1>8. ASSUME NEW r \in Request, UploadRefused(r) PROVE TypeOK'
  BY <1>8 DEF UploadRefused
<1>9. ASSUME NEW r \in Request, UploadNothing(r) PROVE TypeOK'
  BY <1>9 DEF UploadNothing
<1>10. ASSUME NEW r \in Request, NEW f \in File, UploadStart(r, f)
       PROVE  TypeOK'
  <2>1. Head(f) \in Seq(Name) /\ Tail(f) \in Seq(Seq(Name))
    BY HeadTailProperties
  <2> QED
    BY <1>10, <2>1 DEF UploadStart
<1>11. ASSUME NEW r \in Request, ReadStatement(r) PROVE TypeOK'
  <2>1. Selected(arg[r]) \in SUBSET Profile
    BY DEF Selected
  <2>2. /\ Append(seen[r], Selected(arg[r])) \in Seq(SUBSET Profile)
        /\ Len(Append(seen[r], Selected(arg[r]))) = Len(seen[r]) + 1
    BY <2>1, AppendProperties
  <2>3. arg[r] \in Key /\ Len(seen[r]) + 1 <= Statements[arg[r]]
    BY <1>11, LenProperties DEF ReadStatement
  <2> QED
    BY <1>11, <2>2, <2>3 DEF ReadStatement
<1>12. ASSUME NEW r \in Request, FillCache(r) PROVE TypeOK'
  <2>1. arg[r] \in Key /\ cache' \in CacheOf(Seq(SUBSET Profile))
    BY <1>12, StoredEntry DEF FillCache
  <2> QED
    BY <1>12, <2>1 DEF FillCache
<1>13. ASSUME NEW r \in Request, EnrichFailed(r) PROVE TypeOK'
  BY <1>13 DEF EnrichFailed
<1>14. ASSUME NEW r \in Request, Enriched(r) PROVE TypeOK'
  BY <1>14 DEF Enriched
<1>15. ASSUME NEW r \in Request, CreateInsert(r) PROVE TypeOK'
  BY <1>15 DEF CreateInsert
<1>16. ASSUME NEW r \in Request, CreateConflict(r) PROVE TypeOK'
  BY <1>16 DEF CreateConflict
<1>17. ASSUME NEW r \in Request, CreateReselect(r) PROVE TypeOK'
  BY <1>17 DEF CreateReselect
<1>18. ASSUME NEW r \in Request, CreateVanished(r) PROVE TypeOK'
  BY <1>18 DEF CreateVanished
<1>19. ASSUME NEW r \in Request, DeleteRow(r) PROVE TypeOK'
  BY <1>19 DEF DeleteRow
<1>20. ASSUME NEW r \in Request, ChunkRow(r) PROVE TypeOK'
  <2>1. Head(todo[r]) \in Name /\ Tail(todo[r]) \in Seq(Name)
    BY <1>20, HeadTailProperties DEF ChunkRow
  <2>2. ins' \in Sessions /\ unused' \subseteq Id
    <3>1. CASE UNCHANGED <<unused, ins>>
      BY <3>1
    <3>2. ASSUME NEW i \in unused, unused' = unused \ {i},
                 ins' = [ins EXCEPT ![r] =
                           @ \cup {[id |-> i, name |-> Head(todo[r])]}]
          PROVE  ins' \in Sessions /\ unused' \subseteq Id
      BY <2>1, <3>2
    <3> QED
      BY <1>20, <3>1, <3>2 DEF ChunkRow
  <2> QED
    BY <1>20, <2>1, <2>2 DEF ChunkRow
<1>21. ASSUME NEW r \in Request, ChunkCommit(r) PROVE TypeOK'
  <2>1. file[r] # <<>> =>
            Head(file[r]) \in Seq(Name) /\ Tail(file[r]) \in Seq(Seq(Name))
    BY HeadTailProperties
  <2>2. CASE file[r] = <<>>
    BY <1>21, <2>2 DEF ChunkCommit, Hits
  <2>3. CASE file[r] # <<>>
    <3>1. /\ todo' \in [Request -> Seq(Name)]
          /\ file' \in [Request -> Seq(Seq(Name))]
      <4>1. Head(file[r]) \in Seq(Name) /\ Tail(file[r]) \in Seq(Seq(Name))
        BY <2>1, <2>3
      <4>2. /\ todo' = [todo EXCEPT ![r] = Head(file[r])]
            /\ file' = [file EXCEPT ![r] = Tail(file[r])]
        BY <1>21, <2>3 DEF ChunkCommit
      <4>3. /\ todo \in [Request -> Seq(Name)]
            /\ file \in [Request -> Seq(Seq(Name))]
        OBVIOUS
      <4> HIDE DEF TypeOK
      <4> QED
        BY <4>1, <4>2, <4>3, Zenon
    <3>2. rows' \subseteq Profile /\ ins' \in Sessions
      BY <1>21 DEF ChunkCommit
    <3>3. tainted' \subseteq Filling' /\ leftover' \subseteq Key
      BY <1>21, <2>3 DEF ChunkCommit, Hits
    <3> QED
      BY <1>21, <2>3, <3>1, <3>2, <3>3 DEF ChunkCommit
  <2> QED
    BY <2>2, <2>3
<1>22. ASSUME NEW r \in Request, ChunkFailed(r) PROVE TypeOK'
  BY <1>22 DEF ChunkFailed
<1>23. ASSUME NEW r \in Request, FlushCache(r) PROVE TypeOK'
  BY <1>23 DEF FlushCache
<1>24. ASSUME NEW r \in Request, Commit(r) PROVE TypeOK'
  BY <1>24 DEF Commit
<1>25. ASSUME NEW r \in Request, ConnectionLost(r) PROVE TypeOK'
  BY <1>25 DEF ConnectionLost
<1>26. CASE UNCHANGED vars
  BY <1>26 DEF vars
<1> QED
  BY <1>1, <1>2, <1>3, <1>4, <1>5, <1>6, <1>7, <1>8, <1>9, <1>10, <1>11, <1>12,
     <1>13, <1>14, <1>15, <1>16, <1>17, <1>18, <1>19, <1>20, <1>21, <1>22,
     <1>23, <1>24, <1>25, <1>26
     DEF Next, ReaderStarts, WriterStarts, ServerStep, Fault, UploadDeadlock

\* Every variable keeps its shape, ids and results included.
THEOREM TypeCorrect == Spec => []TypeOK
<1>1. Init => TypeOK
  BY EmptyCacheType
     DEF Init, TypeOK, Sessions, LocalsFit, Filling
<1> QED
  BY <1>1, TypeStep, PTL DEF Spec
-----------------------------------------------------------------------------
\* Nothing is written before the INSERT or DELETE, nor left by a conflict.
Shape(r) ==
    pc[r] \in {"idle", "query", "enrich", "insert", "reselect", "delete"} =>
        ins[r] = {} /\ del[r] = {}

\* Profiles committed or about to be.
Written == rows \cup UNION {ins[r] : r \in Request}

\* The unique indexes hold of pending INSERTs too: no two carry one name or
\* one id, and no id will be generated again.
WrittenDistinct ==
    /\ \A p, q \in Written : p.name = q.name \/ p.id = q.id => p = q
    /\ \A p \in Written : p.id \notin unused

\* What a query that no commit has overtaken returned is what the table holds.
FreshFill ==
    \A r \in Request : pc[r] = "query" /\ r \notin tainted =>
        \A i \in 1..Len(seen[r]) : seen[r][i] = Selected(arg[r])

\* Every entry is younger than the flush of a writer that has yet to commit,
\* unless an upload has outdated it.
YoungEntries == PastFlush # {} => Hits(cache) \subseteq suspect \cup leftover

TableInv == /\ TypeOK
            /\ \A r \in Request : Shape(r)
            /\ WrittenDistinct

CacheInv == /\ TypeOK
            /\ FreshFill /\ YoungEntries /\ StaleNeedsRace
-----------------------------------------------------------------------------
\* A step that generates no profile.
LEMMA NothingNew ==
  ASSUME TableInv, UNCHANGED unused,
         rows' \subseteq Written, ins' \in Sessions,
         \A r \in Request : ins'[r] \subseteq ins[r]
  PROVE  WrittenDistinct'
<1>1. Written' \subseteq Written
  BY DEF Written
<1> QED
  BY <1>1 DEF TableInv, WrittenDistinct

\* A step that inserts one with a fresh id and a name nobody has.
LEMMA OneNew ==
  ASSUME TableInv, NEW r \in Request, NEW n \in Name, NEW i \in unused,
         rows' = rows, unused' = unused \ {i},
         ins' = [ins EXCEPT ![r] = @ \cup {[id |-> i, name |-> n]}],
         \A p \in rows \cup ins[r] : p.name # n, ~Waits(r, n)
  PROVE  WrittenDistinct'
<1> DEFINE new == [id |-> i, name |-> n]
<1>1. Written' \subseteq Written \cup {new}
  BY DEF Written, TableInv, TypeOK, Sessions
<1>2. \A p \in Written : p.name # new.name /\ p.id # new.id
  BY DEF Written, Waits, Pending, TableInv, WrittenDistinct
<1>3. new.id \notin unused' /\ \A p \in Written : p.id \notin unused'
  BY DEF TableInv, WrittenDistinct
<1> QED
  BY <1>1, <1>2, <1>3 DEF TableInv, WrittenDistinct

\* A session that ends, or moves on without writing.
LEMMA SessionEnds ==
  ASSUME TableInv, NEW r \in Request, EndSession(r), UNCHANGED unused,
         rows' \subseteq Written
  PROVE  (\A q \in Request : Shape(q))' /\ WrittenDistinct'
<1> USE DEF TableInv, TypeOK, Sessions
<1>1. \A q \in Request : Shape(q)'
  BY DEF Shape
<1>2. WrittenDistinct'
  BY NothingNew
<1> QED
  BY <1>1, <1>2

LEMMA SessionMoves ==
  ASSUME TableInv, NEW r \in Request, NEW l, Goto(r, l),
         UNCHANGED <<unused, rows, ins, del>>,
         l \in {"idle", "query", "enrich", "insert", "reselect", "delete"} =>
             pc[r] \in {"idle", "enrich", "insert"}
  PROVE  (\A q \in Request : Shape(q))' /\ WrittenDistinct'
<1> USE DEF TableInv, TypeOK, Sessions
<1>1. \A q \in Request : Shape(q)'
  BY DEF Shape
<1>2. WrittenDistinct'
  BY NothingNew DEF Written
<1> QED
  BY <1>1, <1>2

\* The table's part of the invariant survives every step.
LEMMA TableStep == TableInv /\ [Next]_vars => TableInv'
<1> SUFFICES ASSUME TableInv, [Next]_vars
             PROVE  (\A q \in Request : Shape(q))' /\ WrittenDistinct'
  BY TypeStep DEF TableInv
<1> DEFINE Rest == (\A q \in Request : Shape(q)) /\ WrittenDistinct
<1> USE DEF Start, AnswerAtOnce, Flush, vars
<1>1. ASSUME UNCHANGED <<unused, rows, pc, ins, del>> PROVE Rest'
  BY <1>1 DEF TableInv, Shape, WrittenDistinct, Written
<1>2. ASSUME Tick \/ UNCHANGED vars PROVE Rest'
  BY <1>1, <1>2 DEF Tick, vars
<1>3. ASSUME NEW r \in Request, ReaderStarts(r) PROVE Rest'
  <2>1. ASSUME NEW k \in Key, ReadHit(r, k) PROVE Rest'
    BY <1>1, <2>1 DEF ReadHit
  <2>2. ASSUME NEW k \in Key, ReadMiss(r, k) PROVE Rest'
    BY <2>2, SessionMoves DEF ReadMiss
  <2> QED
    BY <1>3, <2>1, <2>2 DEF ReaderStarts
<1>4. ASSUME NEW r \in Request, WriterStarts(r) PROVE Rest'
  <2>1. ASSUME NEW n \in Name, CreateExists(r, n) PROVE Rest'
    BY <1>1, <2>1 DEF CreateExists
  <2>2. ASSUME NEW n \in Name, CreateStart(r, n) PROVE Rest'
    BY <2>2, SessionMoves DEF CreateStart
  <2>3. ASSUME NEW i \in Id, DeleteMissing(r, i) PROVE Rest'
    BY <1>1, <2>3 DEF DeleteMissing
  <2>4. ASSUME NEW p \in rows, DeleteStart(r, p) PROVE Rest'
    BY <2>4, SessionMoves DEF DeleteStart
  <2>5. ASSUME UploadRefused(r) PROVE Rest'
    BY <1>1, <2>5 DEF UploadRefused
  <2>6. ASSUME UploadNothing(r) PROVE Rest'
    BY <2>6, SessionMoves DEF UploadNothing
  <2>7. ASSUME NEW f \in File, UploadStart(r, f) PROVE Rest'
    BY <2>7, SessionMoves DEF UploadStart
  <2> QED
    BY <1>4, <2>1, <2>2, <2>3, <2>4, <2>5, <2>6, <2>7 DEF WriterStarts
<1>5. ASSUME NEW r \in Request, ServerStep(r) PROVE Rest'
  <2>1. CASE ReadStatement(r)
    BY <1>1, <2>1 DEF ReadStatement
  <2>2. CASE FillCache(r)
    BY <2>2, SessionEnds DEF FillCache, Written
  <2>3. CASE EnrichFailed(r)
    BY <2>3, SessionEnds DEF EnrichFailed, Written
  <2>4. CASE Enriched(r)
    BY <2>4, SessionMoves DEF Enriched
  <2>5. CASE CreateInsert(r)
    <3>1. ins[r] = {} /\ arg[r] \in Name
      BY <2>5 DEF CreateInsert, TableInv, Shape, TypeOK, LocalsFit
    <3>2. PICK i \in unused :
            /\ unused' = unused \ {i}
            /\ ins' = [ins EXCEPT ![r] = {[id |-> i, name |-> arg[r]]}]
      BY <2>5 DEF CreateInsert
    <3>3. ins' = [ins EXCEPT ![r] = @ \cup {[id |-> i, name |-> arg[r]]}]
      BY <3>1, <3>2
    <3>4. WrittenDistinct'
      BY <2>5, <3>1, <3>2, <3>3, OneNew DEF CreateInsert
    <3>5. \A q \in Request : Shape(q)'
      BY <2>5, <3>2 DEF CreateInsert, TableInv, TypeOK, Sessions, Shape
    <3> QED
      BY <3>4, <3>5
  <2>6. CASE CreateConflict(r)
    BY <2>6, SessionMoves DEF CreateConflict
  <2>7. CASE CreateReselect(r)
    BY <2>7, SessionMoves DEF CreateReselect
  <2>8. CASE CreateVanished(r)
    BY <2>8, SessionEnds DEF CreateVanished, Written
  <2>9. CASE DeleteRow(r)
    <3>1. \A q \in Request : Shape(q)'
      BY <2>9 DEF DeleteRow, TableInv, TypeOK, Sessions, Shape
    <3>2. WrittenDistinct'
      BY <2>9, NothingNew DEF DeleteRow, TableInv, TypeOK, Sessions, Written
    <3> QED
      BY <3>1, <3>2
  <2>10. CASE ChunkRow(r)
    <3>1. \A q \in Request : Shape(q)'
      BY <2>10 DEF ChunkRow, TableInv, TypeOK, Sessions, Shape
    <3>2. CASE UNCHANGED <<unused, ins>>
      BY <1>1, <2>10, <3>2 DEF ChunkRow
    <3>3. CASE \A p \in rows \cup ins[r] : p.name # Head(todo[r])
      <4>1. Head(todo[r]) \in Name
        BY <2>10, HeadTailProperties DEF ChunkRow, TableInv, TypeOK
      <4> QED
        BY <2>10, <3>1, <3>3, <4>1, OneNew DEF ChunkRow
    <3> QED
      BY <2>10, <3>2, <3>3 DEF ChunkRow
  <2>11. CASE ChunkCommit(r)
    <3>1. \A q \in Request : Shape(q)'
      BY <2>11 DEF ChunkCommit, TableInv, TypeOK, Sessions, Shape
    <3>2. WrittenDistinct'
      BY <2>11, NothingNew DEF ChunkCommit, TableInv, TypeOK, Sessions, Written
    <3> QED
      BY <3>1, <3>2
  <2>12. CASE ChunkFailed(r)
    BY <2>12, SessionEnds DEF ChunkFailed, Written
  <2>13. CASE FlushCache(r)
    BY <2>13, SessionMoves DEF FlushCache
  <2>14. CASE Commit(r)
    BY <2>14, SessionEnds DEF Commit, Written
  <2> QED
    BY <1>5, <2>1, <2>2, <2>3, <2>4, <2>5, <2>6, <2>7, <2>8, <2>9, <2>10,
       <2>11, <2>12, <2>13, <2>14 DEF ServerStep, UploadDeadlock
<1>6. ASSUME NEW r \in Request, Fault(r) PROVE Rest'
  BY <1>6, SessionEnds DEF Fault, ConnectionLost, ChunkFailed, Written
<1> QED
  BY <1>2, <1>3, <1>4, <1>5, <1>6 DEF Next

\* Whatever races for a name, the table never holds it twice.
THEOREM NamesUnique == Spec => []UniqueName
<1>1. Init => TableInv
  BY EmptyCacheType
     DEF Init, TableInv, TypeOK, Sessions, LocalsFit, Filling, Shape,
         WrittenDistinct, Written
<1>2. TableInv => UniqueName
  BY DEF TableInv, WrittenDistinct, Written, UniqueName
<1> QED
  BY <1>1, <1>2, TableStep, PTL DEF Spec
-----------------------------------------------------------------------------
\* A step that leaves table and cache alone and makes no writer flushed.
LEMMA EntriesKept ==
  ASSUME CacheInv, UNCHANGED <<rows, cache, suspect, leftover>>,
         PastFlush' \subseteq PastFlush
  PROVE  YoungEntries' /\ StaleNeedsRace'
  BY DEF CacheInv, YoungEntries, StaleNeedsRace, Stale, Selected

\* A step that begins or advances no query.
LEMMA FillsKept ==
  ASSUME CacheInv, UNCHANGED rows,
         \A r \in Filling' \ tainted' :
             r \in Filling \ tainted /\ arg'[r] = arg[r] /\ seen'[r] = seen[r]
  PROVE  FreshFill'
  BY DEF CacheInv, FreshFill, Filling, Selected

\* A request that leaves the cache to others, and neither reads nor flushes.
LEMMA RequestMoves ==
  ASSUME CacheInv, NEW r \in Request,
         UNCHANGED <<rows, cache, suspect, leftover>>,
         tainted' \in {tainted, tainted \ {r}},
         \A q \in Request \ {r} :
             /\ pc'[q] = pc[q] /\ arg'[q] = arg[q] /\ seen'[q] = seen[q]
             /\ ins'[q] = ins[q] /\ del'[q] = del[q],
         pc'[r] \notin {"query", "commit"}
  PROVE  FreshFill' /\ YoungEntries' /\ StaleNeedsRace'
<1>1. PastFlush' \subseteq PastFlush
  BY DEF PastFlush
<1>2. FreshFill'
  BY FillsKept DEF Filling
<1> QED
  BY <1>1, <1>2, EntriesKept

\* A flush leaves no entry that could be stale.
LEMMA FlushKeeps == Flush => YoungEntries' /\ StaleNeedsRace'
  BY DEF Flush, EmptyCache, Hits, YoungEntries, StaleNeedsRace, Stale

\* A flush by a request that is not reading.
LEMMA RequestFlushes ==
  ASSUME CacheInv, NEW r \in Request, Flush, UNCHANGED <<rows, tainted>>,
         \A q \in Request \ {r} :
             pc'[q] = pc[q] /\ arg'[q] = arg[q] /\ seen'[q] = seen[q],
         pc'[r] # "query"
  PROVE  FreshFill' /\ YoungEntries' /\ StaleNeedsRace'
<1>1. FreshFill'
  BY FillsKept DEF Filling
<1> QED
  BY <1>1, FlushKeeps

\* The cache's part of the invariant survives every step.
LEMMA CacheStep == CacheInv /\ [Next]_vars => CacheInv'
<1> SUFFICES ASSUME CacheInv, [Next]_vars
             PROVE  FreshFill' /\ YoungEntries' /\ StaleNeedsRace'
  BY TypeStep DEF CacheInv
<1> DEFINE Rest == FreshFill /\ YoungEntries /\ StaleNeedsRace
<1> USE DEF Start, AnswerAtOnce, vars
<1>0. TypeOK
  BY DEF CacheInv
<1>1. ASSUME UNCHANGED <<rows, cache, pc, arg, seen, ins, del, tainted,
                         suspect, leftover>>
      PROVE  Rest'
  BY <1>1, EntriesKept, FillsKept DEF Filling, PastFlush
<1>2. CASE Tick
  <2>1. \A j \in Hits(cache)' :
            j \in Hits(cache) /\ cache'[j].value = cache[j].value
    BY <1>0, <1>2, AgedEntries DEF Tick, TypeOK, Hits
  <2>2. FreshFill'
    BY <1>2, FillsKept DEF Tick, Filling
  <2>3. YoungEntries'
    BY <1>2, <2>1 DEF Tick, CacheInv, YoungEntries, PastFlush
  <2>4. StaleNeedsRace'
    BY <1>2, <2>1 DEF Tick, CacheInv, StaleNeedsRace, Stale, Selected
  <2> QED
    BY <2>2, <2>3, <2>4
<1>3. ASSUME NEW r \in Request, ReaderStarts(r) PROVE Rest'
  <2>1. ASSUME NEW k \in Key, ReadHit(r, k) PROVE Rest'
    BY <1>1, <2>1 DEF ReadHit
  <2>2. ASSUME NEW k \in Key, ReadMiss(r, k) PROVE Rest'
    <3>1. seen'[r] = <<>> /\ PastFlush' \subseteq PastFlush
      BY <1>0, <2>2 DEF ReadMiss, TypeOK, LocalsFit, PastFlush
    <3>2. FreshFill'
      BY <1>0, <2>2, <3>1 DEF ReadMiss, TypeOK, CacheInv, FreshFill, Selected
    <3> QED
      BY <2>2, <3>1, <3>2, EntriesKept DEF ReadMiss
  <2> QED
    BY <1>3, <2>1, <2>2 DEF ReaderStarts
<1>4. ASSUME NEW r \in Request, WriterStarts(r) PROVE Rest'
  <2> USE <1>0 DEF TypeOK
  <2>1. ASSUME NEW n \in Name, CreateExists(r, n) PROVE Rest'
    BY <1>1, <2>1 DEF CreateExists
  <2>2. ASSUME NEW n \in Name, CreateStart(r, n) PROVE Rest'
    BY <2>2, RequestMoves DEF CreateStart
  <2>3. ASSUME NEW i \in Id, DeleteMissing(r, i) PROVE Rest'
    BY <1>1, <2>3 DEF DeleteMissing
  <2>4. ASSUME NEW p \in rows, DeleteStart(r, p) PROVE Rest'
    BY <2>4, RequestMoves DEF DeleteStart
  <2>5. ASSUME UploadRefused(r) PROVE Rest'
    BY <1>1, <2>5 DEF UploadRefused
  <2>6. ASSUME UploadNothing(r) PROVE Rest'
    BY <2>6, RequestMoves DEF UploadNothing
  <2>7. ASSUME NEW f \in File, UploadStart(r, f) PROVE Rest'
    BY <2>7, RequestMoves DEF UploadStart
  <2> QED
    BY <1>4, <2>1, <2>2, <2>3, <2>4, <2>5, <2>6, <2>7 DEF WriterStarts
<1>5. ASSUME NEW r \in Request, ServerStep(r) PROVE Rest'
  <2> USE <1>0 DEF TypeOK
  <2>1. CASE ReadStatement(r)
    <3>1. FreshFill'
      <4>1. \A q \in Request \ {r} : seen'[q] = seen[q]
        BY <2>1 DEF ReadStatement
      <4>2. /\ seen[r] \in Seq(SUBSET Profile)
            /\ Selected(arg[r]) \in SUBSET Profile
        BY DEF Selected
      <4>3. \A i \in 1..Len(seen'[r]) :
              seen'[r][i] = IF i <= Len(seen[r]) THEN seen[r][i]
                            ELSE Selected(arg[r])
        BY <2>1, <4>2, AppendProperties, LenProperties DEF ReadStatement
      <4>4. \A i \in 1..Len(seen'[r]) :
              i <= Len(seen[r]) => i \in 1..Len(seen[r])
        BY <4>2, LenProperties
      <4>5. UNCHANGED <<rows, pc, arg, tainted>>
        BY <2>1 DEF ReadStatement
      <4>6. ASSUME NEW q \in Request, pc[q] = "query", q \notin tainted,
                   NEW i \in 1..Len(seen'[q])
            PROVE  seen'[q][i] = Selected(arg[q])
        <5>1. \A h \in 1..Len(seen[q]) : seen[q][h] = Selected(arg[q])
          BY <4>6 DEF CacheInv, FreshFill
        <5>2. CASE q = r
          BY <4>3, <4>4, <4>6, <5>1, <5>2
        <5>3. CASE q # r
          BY <4>1, <4>6, <5>1, <5>3
        <5> QED
          BY <5>2, <5>3
      <4> QED
        BY <4>5, <4>6 DEF FreshFill, Selected
    <3> QED
      BY <2>1, <3>1, EntriesKept DEF ReadStatement, PastFlush
  <2>2. CASE FillCache(r)
    <3>1. /\ arg[r] \in Key
          /\ \A j \in Hits(cache)' \ {arg[r]} :
                j \in Hits(cache) /\ cache'[j] = cache[j]
          /\ cache'[arg[r]].value = seen[r]
      <4>1. /\ arg[r] \in Key /\ seen[r] \in Seq(SUBSET Profile)
            /\ cache' \in Stored(cache, arg[r], seen[r])
        BY <2>2 DEF FillCache, LocalsFit
      <4> QED
        BY <4>1, StoredEntry DEF Hits
    <3>2. PastFlush' = PastFlush
      BY <2>2 DEF FillCache, PastFlush
    <3>3. FreshFill'
      BY <2>2, FillsKept DEF FillCache, Filling
    <3>4. YoungEntries'
      BY <2>2, <3>1, <3>2 DEF FillCache, CacheInv, YoungEntries
    <3>5. StaleNeedsRace'
      <4>1. CASE r \in tainted \/ PastFlush # {}
        BY <2>2, <3>1, <4>1
           DEF FillCache, CacheInv, StaleNeedsRace, Stale, Selected
      <4>2. CASE r \notin tainted
        <5>1. \A i \in 1..Statements[arg[r]] : seen[r][i] = Selected(arg[r])
          BY <2>2, <4>2 DEF FillCache, CacheInv, FreshFill
        <5> QED
          BY <2>2, <3>1, <4>2, <5>1
             DEF FillCache, CacheInv, StaleNeedsRace, Stale, Selected
      <4> QED
        BY <4>1, <4>2
    <3> QED
      BY <3>3, <3>4, <3>5
  <2>3. CASE EnrichFailed(r)
    BY <2>3, RequestMoves DEF EnrichFailed
  <2>4. CASE Enriched(r)
    BY <2>4, RequestMoves DEF Enriched
  <2>5. CASE CreateInsert(r)
    BY <2>5, RequestMoves DEF CreateInsert
  <2>6. CASE CreateConflict(r)
    BY <2>6, RequestMoves DEF CreateConflict
  <2>7. CASE CreateReselect(r)
    BY <2>7, RequestFlushes DEF CreateReselect
  <2>8. CASE CreateVanished(r)
    BY <2>8, RequestFlushes DEF CreateVanished
  <2>9. CASE DeleteRow(r)
    BY <2>9, RequestMoves DEF DeleteRow
  <2>10. CASE ChunkRow(r)
    <3>1. \A q \in Request \ {r} : ins'[q] = ins[q]
      <4>1. ASSUME NEW i,
                   ins' = [ins EXCEPT ![r] =
                             @ \cup {[id |-> i, name |-> Head(todo[r])]}]
            PROVE  \A q \in Request \ {r} : ins'[q] = ins[q]
        BY <4>1 DEF Sessions
      <4> QED
        BY <2>10, <4>1 DEF ChunkRow
    <3> QED
      BY <2>10, <3>1, RequestMoves DEF ChunkRow
  <2>11. CASE ChunkCommit(r)
    <3>1. /\ Filling' \subseteq tainted'
          /\ PastFlush' \subseteq PastFlush
          /\ Hits(cache)' \subseteq leftover'
      BY <2>11 DEF ChunkCommit, Filling, PastFlush, Hits
    <3> QED
      BY <3>1 DEF FreshFill, Filling, YoungEntries, StaleNeedsRace, Stale
  <2>12. CASE ChunkFailed(r)
    BY <2>12, RequestMoves DEF ChunkFailed
  <2>13. CASE FlushCache(r)
    BY <2>13, RequestFlushes DEF FlushCache
  <2>14. CASE Commit(r)
    <3>1. CASE ins[r] \cup del[r] = {}
      <4>1. rows' = rows
        BY <2>14, <3>1 DEF Commit
      <4> QED
        BY <2>14, <3>1, <4>1, RequestMoves DEF Commit, Sessions
    <3>2. CASE ins[r] \cup del[r] # {}
      <4>1. Filling' \subseteq tainted'
        BY <2>14, <3>2 DEF Commit, Filling
      <4>2. Hits(cache)' \subseteq suspect' \cup leftover'
        BY <2>14, <3>2 DEF Commit, CacheInv, YoungEntries, PastFlush, Hits
      <4> QED
        BY <4>1, <4>2
           DEF FreshFill, Filling, YoungEntries, StaleNeedsRace, Stale
    <3> QED
      BY <3>1, <3>2
  <2> QED
    BY <1>5, <2>1, <2>2, <2>3, <2>4, <2>5, <2>6, <2>7, <2>8, <2>9, <2>10,
       <2>11, <2>12, <2>13, <2>14 DEF ServerStep, UploadDeadlock
<1>6. ASSUME NEW r \in Request, Fault(r) PROVE Rest'
  <2>1. CASE ConnectionLost(r)
    BY <1>0, <2>1, RequestMoves DEF ConnectionLost, TypeOK, Sessions
  <2>2. CASE ChunkFailed(r)
    BY <1>0, <2>2, RequestMoves DEF ChunkFailed, TypeOK, Sessions
  <2> QED
    BY <1>6, <2>1, <2>2 DEF Fault
<1>7. CASE UNCHANGED vars
  BY <1>1, <1>7 DEF vars
<1> QED
  BY <1>2, <1>3, <1>4, <1>5, <1>6, <1>7 DEF Next

LEMMA CacheInit == Init => CacheInv
  BY EmptyCacheType
     DEF Init, CacheInv, TypeOK, Sessions, LocalsFit, Filling, FreshFill,
         YoungEntries, PastFlush, StaleNeedsRace, Stale, Hits, EmptyCache

\* However reads, writes, uploads and ticks interleave, an entry is stale only
\* through one of the three races.
THEOREM OnlyRacesMakeStale == Spec => []StaleNeedsRace
<1>1. CacheInv => StaleNeedsRace
  BY DEF CacheInv
<1> QED
  BY <1>1, CacheInit, CacheStep, PTL DEF Spec
-----------------------------------------------------------------------------
\* What a stale entry may be after a step that begins with no writer: one that
\* was stale already and only grows older, or what a query put back that a
\* commit had overtaken.
GrowsOlder(k) ==
    /\ Stale(k)
    /\ cache'[k].value = cache[k].value
    /\ cache'[k].age = IF Tick THEN cache[k].age + 1 ELSE cache[k].age

PutBack(k) == \E r \in tainted \ tainted' : FillCache(r) /\ arg[r] = k

\* The safety half of EventuallyFresh: while nobody writes, no query becomes
\* overtaken, each overtaken one can put back a stale entry once, and no other
\* entry becomes stale or is renewed.
StaleFades ==
    ~Writing => /\ tainted' \subseteq tainted
                /\ \A k \in Key : Stale(k)' => GrowsOlder(k) \/ PutBack(k)

\* A step that leaves table, cache and clock alone.
LEMMA LeftAsItIs ==
  ASSUME UNCHANGED <<rows, cache>>, ~Tick, NEW k \in Key, Stale(k)'
  PROVE  GrowsOlder(k)
  BY DEF Stale, Selected, GrowsOlder

\* Without a writer, only ticks, queries and the starts of requests happen.
LEMMA QuietSteps ==
  ASSUME Next, ~Writing
  PROVE  \/ Tick
         \/ \E r \in Request : FillCache(r)
         \/ UNCHANGED <<rows, cache>> /\ tainted' \subseteq tainted
<1> USE DEF Start, AnswerAtOnce, vars, Writing
<1>1. ASSUME NEW r \in Request, ReaderStarts(r)
      PROVE  UNCHANGED <<rows, cache, tainted>>
  BY <1>1 DEF ReaderStarts, ReadHit, ReadMiss
<1>2. ASSUME NEW r \in Request, WriterStarts(r)
      PROVE  UNCHANGED <<rows, cache, tainted>>
  BY <1>2 DEF WriterStarts, CreateExists, CreateStart, DeleteMissing,
              DeleteStart, UploadRefused, UploadNothing, UploadStart
<1>3. ASSUME NEW r \in Request, ServerStep(r), ~FillCache(r)
      PROVE  UNCHANGED <<rows, cache, tainted>>
  BY <1>3 DEF ServerStep, ReadStatement, EnrichFailed, Enriched, CreateInsert,
              CreateConflict, CreateReselect, CreateVanished, DeleteRow,
              ChunkRow, ChunkCommit, UploadDeadlock, ChunkFailed, FlushCache,
              Commit
<1>4. ASSUME NEW r \in Request, Fault(r)
      PROVE  UNCHANGED <<rows, cache>> /\ tainted' \subseteq tainted
  BY <1>4 DEF Fault, ConnectionLost, ChunkFailed
<1> QED
  BY <1>1, <1>2, <1>3, <1>4 DEF Next

\* A tick renews nothing.
LEMMA TickAges ==
  ASSUME CacheInv, Tick, NEW k \in Key, Stale(k)'
  PROVE  GrowsOlder(k)
<1>1. k \in Hits(Aged(cache)) /\ cache' = Aged(cache) /\ rows' = rows
  BY DEF Tick, Stale, Hits
<1>2. cache \in CacheOf(Seq(SUBSET Profile))
  BY DEF CacheInv, TypeOK
<1>3. /\ k \in Hits(cache)
      /\ cache'[k].value = cache[k].value
      /\ cache'[k].age = cache[k].age + 1
  BY <1>1, <1>2, AgedEntries, AgedAges
<1> QED
  BY <1>1, <1>3 DEF GrowsOlder, Stale, Selected

\* A query stores something stale only if a commit has overtaken it.
LEMMA FillPutsBack ==
  ASSUME CacheInv, NEW r \in Request, FillCache(r), NEW k \in Key, Stale(k)'
  PROVE  GrowsOlder(k) \/ PutBack(k)
<1>1. /\ arg[r] \in Key /\ seen[r] \in Seq(SUBSET Profile)
      /\ cache' \in Stored(cache, arg[r], seen[r])
      /\ cache \in CacheOf(Seq(SUBSET Profile))
  BY DEF FillCache, CacheInv, TypeOK, LocalsFit
<1>2. /\ cache'[arg[r]].value = seen[r]
      /\ \A j \in Hits(cache)' \ {arg[r]} :
            j \in Hits(cache) /\ cache'[j] = cache[j]
  BY <1>1, StoredEntry DEF Hits
<1>3. rows' = rows /\ tainted' = tainted \ {r} /\ ~Tick
  BY DEF FillCache, Tick, CacheInv, TypeOK
<1>4. CASE k # arg[r]
  BY <1>2, <1>3, <1>4 DEF GrowsOlder, Stale, Selected, Hits
<1>5. CASE k = arg[r] /\ r \in tainted
  BY <1>3, <1>5 DEF PutBack
<1>6. CASE k = arg[r] /\ r \notin tainted
  <2>1. \A i \in 1..Statements[k] : seen[r][i] = Selected(k)
    BY <1>6 DEF FillCache, CacheInv, FreshFill
  <2> QED
    BY <1>2, <1>3, <1>6, <2>1 DEF Stale, Selected
<1> QED
  BY <1>4, <1>5, <1>6

\* Once writing stops, what is stale was already or comes from a query begun
\* before; every tick brings it nearer to its end and nothing renews it.
THEOREM StaleOnlyFades == Spec => [][StaleFades]_vars
<1>1. CacheInv /\ [Next]_vars => [StaleFades]_vars
  <2> SUFFICES ASSUME CacheInv, Next, ~Writing
               PROVE  /\ tainted' \subseteq tainted
                      /\ \A k \in Key : Stale(k)' =>
                             GrowsOlder(k) \/ PutBack(k)
    BY DEF StaleFades
  <2>1. CASE Tick
    BY <2>1, TickAges DEF Tick
  <2>2. ASSUME NEW r \in Request, FillCache(r)
        PROVE  /\ tainted' \subseteq tainted
               /\ \A k \in Key : Stale(k)' => GrowsOlder(k) \/ PutBack(k)
    BY <2>2, FillPutsBack DEF FillCache
  <2>3. CASE /\ ~Tick
             /\ UNCHANGED <<rows, cache>> /\ tainted' \subseteq tainted
    BY <2>3, LeftAsItIs
  <2> QED
    BY <2>1, <2>2, <2>3, QuietSteps
<1> QED
  BY <1>1, CacheInit, CacheStep, PTL DEF Spec
=============================================================================
