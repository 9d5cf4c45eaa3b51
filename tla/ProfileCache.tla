---------------------------- MODULE ProfileCache ----------------------------
(***************************************************************************)
(* The profiles table behind the query cache: list, search and stats       *)
(* readers that fill the cache, and the writers that flush it - create and *)
(* delete, which commit after the answer, and CSV upload, which commits    *)
(* chunk by chunk on a connection of its own.                              *)
(*                                                                         *)
(* A step is what runs between two awaits; a statement sees what is        *)
(* committed when it runs (READ COMMITTED).                                *)
(***************************************************************************)
EXTENDS TTLCache, Sequences

CONSTANTS
    Request,      \* concurrent request handlers
    Name,         \* profile names
    Fold,         \* [Name -> Name]: lower()
    Id,           \* uuid7 values; also the bound on profiles ever inserted
    Matches,      \* [Key -> SUBSET Name]: names a cached query selects
    Statements,   \* [Key -> Nat]: SELECTs the query runs (count and page: 2)
    File,         \* files to upload: sequences of chunks of names
    Nothing

Profile == [id : Id, name : Name]

ASSUME FoldAssumption == Fold \in [Name -> Name]
ASSUME QueryAssumption == /\ Matches \in [Key -> SUBSET Name]
                          /\ Statements \in [Key -> Nat \ {0}]
ASSUME FileAssumption == File \subseteq Seq(Seq(Name)) \ {<<>>}

VARIABLES
    rows,       \* committed profiles
    unused,     \* ids not generated yet
    cache,      \* query_cache._cache
    pc,         \* where each request is suspended
    arg,        \* what it works on: a name, a profile or a key
    seen,       \* what the statements of its query returned
    ins, del,   \* its uncommitted INSERTs and DELETE
    file, todo, \* its upload: chunks to come, rows of the chunk to insert
    tainted,    \* fills a commit has overtaken (history)
    suspect,    \* keys whose entry raced with a writer (history)
    leftover    \* keys whose entry an upload has outdated (history)

localVars == <<arg, seen, file, todo>>
txnVars   == <<ins, del>>
ghostVars == <<tainted, suspect, leftover>>
vars == <<rows, unused, cache, pc, arg, seen, ins, del, file, todo,
          tainted, suspect, leftover>>

Selected(k) == {p \in rows : p.name \in Matches[k]}

\* An entry that is not what its query would return now.
Stale(k) == /\ k \in Hits(cache)
            /\ \E i \in 1..Statements[k] : cache[k].value[i] # Selected(k)

\* get_profile_by_name
Known(n) == \E p \in rows : Fold[p.name] = Fold[n]

Pending(r, n) == \E p \in ins[r] \cup del[r] : p.name = n

\* An INSERT waits for an uncommitted INSERT of the name by another session,
\* or DELETE of the row that has it, to end.
Waits(r, n) == \E q \in Request \ {r} : Pending(q, n)

Init ==
    /\ rows = {} /\ unused = Id /\ cache = EmptyCache
    /\ pc = [r \in Request |-> "idle"]
    /\ arg = [r \in Request |-> Nothing]
    /\ seen = [r \in Request |-> <<>>]
    /\ ins = [r \in Request |-> {}] /\ del = [r \in Request |-> {}]
    /\ file = [r \in Request |-> <<>>] /\ todo = [r \in Request |-> <<>>]
    /\ tainted = {} /\ suspect = {} /\ leftover = {}
-----------------------------------------------------------------------------
Goto(r, label) == pc' = [pc EXCEPT ![r] = label]

Start(r, label, what) ==
    /\ pc[r] = "idle"
    /\ Goto(r, label)
    /\ arg' = [arg EXCEPT ![r] = what]

\* A handler that answers at once and leaves nothing behind.
AnswerAtOnce(r) == pc[r] = "idle" /\ UNCHANGED vars

\* The session ends, with whatever it had not committed.
EndSession(r) ==
    /\ Goto(r, "idle")
    /\ arg' = [arg EXCEPT ![r] = Nothing]
    /\ seen' = [seen EXCEPT ![r] = <<>>]
    /\ ins' = [ins EXCEPT ![r] = {}] /\ del' = [del EXCEPT ![r] = {}]
    /\ file' = [file EXCEPT ![r] = <<>>] /\ todo' = [todo EXCEPT ![r] = <<>>]

\* invalidate_all()
Flush ==
    /\ cache' = EmptyCache
    /\ suspect' = {} /\ leftover' = {}

\* Requests whose fill has read something a commit may have outdated.
Filling == {r \in Request : pc[r] = "query"}

\* Writers that flushed the cache and have not committed yet.
PastFlush == {r \in Request : pc[r] = "commit" /\ ins[r] \cup del[r] # {}}
-----------------------------------------------------------------------------
\* get_profiles_cached, get_stats_cached: a hit.
ReadHit(r, k) == k \in Hits(cache) /\ AnswerAtOnce(r)

ReadMiss(r, k) ==
    /\ k \notin Hits(cache)
    /\ Start(r, "query", k)
    /\ UNCHANGED <<rows, unused, cache, seen, txnVars, file, todo, ghostVars>>

\* The next SELECT of get_profiles or get_stats.
ReadStatement(r) ==
    /\ pc[r] = "query"
    /\ Len(seen[r]) < Statements[arg[r]]
    /\ seen' = [seen EXCEPT ![r] = Append(@, Selected(arg[r]))]
    /\ UNCHANGED <<rows, unused, cache, pc, arg, txnVars, file, todo,
                   ghostVars>>

\* query_cache.set with what was read, whatever has happened since.
FillCache(r) ==
    /\ pc[r] = "query"
    /\ Len(seen[r]) = Statements[arg[r]]
    /\ cache' \in Stored(cache, arg[r], seen[r])
    /\ suspect' = IF r \in tainted \/ PastFlush # {}
                  THEN suspect \cup {arg[r]} ELSE suspect \ {arg[r]}
    /\ leftover' = leftover \ {arg[r]}
    /\ tainted' = tainted \ {r}
    /\ EndSession(r)
    /\ UNCHANGED <<rows, unused>>
-----------------------------------------------------------------------------
\* POST: the case-insensitive check finds the name.
CreateExists(r, n) == Known(n) /\ AnswerAtOnce(r)

\* ... or does not, and the enrichment services are called.
CreateStart(r, n) ==
    /\ ~Known(n)
    /\ Start(r, "enrich", n)
    /\ UNCHANGED <<rows, unused, cache, seen, txnVars, file, todo, ghostVars>>

\* enrich_name raises a 502 ...
EnrichFailed(r) ==
    /\ pc[r] = "enrich"
    /\ EndSession(r)
    /\ UNCHANGED <<rows, unused, cache, ghostVars>>

\* ... or answers.
Enriched(r) ==
    /\ pc[r] = "enrich"
    /\ Goto(r, "insert")
    /\ UNCHANGED <<rows, unused, cache, localVars, txnVars, ghostVars>>

\* Mutant of CreateInsert: the unique index on name is missing.
CreateTwice(r) ==
    /\ pc[r] = "insert"
    /\ \E i \in unused :
        /\ unused' = unused \ {i}
        /\ ins' = [ins EXCEPT ![r] = {[id |-> i, name |-> arg[r]]}]
    /\ Goto(r, "flush")
    /\ UNCHANGED <<rows, cache, localVars, del, ghostVars>>

\* create_profile: the INSERT succeeds.
CreateInsert(r) ==
    /\ pc[r] = "insert"
    /\ ~Waits(r, arg[r])
    /\ \A p \in rows : p.name # arg[r]
    /\ \E i \in unused :
        /\ unused' = unused \ {i}
        /\ ins' = [ins EXCEPT ![r] = {[id |-> i, name |-> arg[r]]}]
    /\ Goto(r, "flush")
    /\ UNCHANGED <<rows, cache, localVars, del, ghostVars>>

\* ... or finds the name taken meanwhile: IntegrityError, rollback.
CreateConflict(r) ==
    /\ pc[r] = "insert"
    /\ ~Waits(r, arg[r])
    /\ \E p \in rows : p.name = arg[r]
    /\ Goto(r, "reselect")
    /\ UNCHANGED <<rows, unused, cache, localVars, txnVars, ghostVars>>

\* create_profile returns get_profile_by_name; the endpoint goes on.
CreateReselect(r) ==
    /\ pc[r] = "reselect"
    /\ Known(arg[r])
    /\ Flush
    /\ Goto(r, "commit")
    /\ UNCHANGED <<rows, unused, localVars, txnVars, tainted>>

\* It returns None: the endpoint flushes and fails on new_profile.id.
CreateVanished(r) ==
    /\ pc[r] = "reselect"
    /\ ~Known(arg[r])
    /\ Flush
    /\ EndSession(r)
    /\ UNCHANGED <<rows, unused, tainted>>
-----------------------------------------------------------------------------
\* DELETE of an unknown id: 404.
DeleteMissing(r, i) ==
    /\ \A p \in rows : p.id # i
    /\ AnswerAtOnce(r)

DeleteStart(r, p) ==
    /\ p \in rows
    /\ Start(r, "delete", p)
    /\ UNCHANGED <<rows, unused, cache, seen, txnVars, file, todo, ghostVars>>

\* delete_profile: no effect if another session has deleted the row.
DeleteRow(r) ==
    /\ pc[r] = "delete"
    /\ \A q \in Request \ {r} : arg[r] \notin del[q]
    /\ del' = [del EXCEPT ![r] = {arg[r]} \cap rows]
    /\ Goto(r, "flush")
    /\ UNCHANGED <<rows, unused, cache, localVars, ins, ghostVars>>
-----------------------------------------------------------------------------
\* POST /upload of something that is no CSV file with the required columns.
UploadRefused(r) == AnswerAtOnce(r)

\* ... of a file whose rows are all skipped.
UploadNothing(r) ==
    /\ Start(r, "flush", Nothing)
    /\ UNCHANGED <<rows, unused, cache, seen, txnVars, file, todo, ghostVars>>

\* ... or of one with rows to insert.
UploadStart(r, f) ==
    /\ Start(r, "chunk", Nothing)
    /\ file' = [file EXCEPT ![r] = Tail(f)]
    /\ todo' = [todo EXCEPT ![r] = Head(f)]
    /\ UNCHANGED <<rows, unused, cache, seen, txnVars, ghostVars>>

\* INSERT ... SELECT ... ON CONFLICT (name) DO NOTHING, row by row.
ChunkRow(r) ==
    /\ pc[r] = "chunk"
    /\ todo[r] # <<>>
    /\ LET n == Head(todo[r]) IN
        /\ ~Waits(r, n)
        /\ IF \E p \in rows \cup ins[r] : p.name = n
           THEN UNCHANGED <<unused, ins>>
           ELSE \E i \in unused :
                    /\ unused' = unused \ {i}
                    /\ ins' =
                        [ins EXCEPT ![r] = @ \cup {[id |-> i, name |-> n]}]
    /\ todo' = [todo EXCEPT ![r] = Tail(@)]
    /\ UNCHANGED <<rows, cache, pc, arg, seen, del, file, ghostVars>>

\* The chunk's transaction commits; the next chunk, or the flush, follows.
ChunkCommit(r) ==
    /\ pc[r] = "chunk"
    /\ todo[r] = <<>>
    /\ rows' = rows \cup ins[r]
    /\ ins' = [ins EXCEPT ![r] = {}]
    /\ tainted' = tainted \cup Filling
    /\ leftover' = leftover \cup Hits(cache)
    /\ IF file[r] = <<>>
       THEN Goto(r, "flush") /\ UNCHANGED <<file, todo>>
       ELSE /\ todo' = [todo EXCEPT ![r] = Head(file[r])]
            /\ file' = [file EXCEPT ![r] = Tail(@)]
            /\ UNCHANGED pc
    /\ UNCHANGED <<unused, cache, arg, seen, del, suspect>>

\* Mutant of ChunkFailed: the connection is not closed.
ChunkFailedLeaks(r) ==
    /\ pc[r] = "chunk"
    /\ Goto(r, "idle")
    /\ arg' = [arg EXCEPT ![r] = Nothing]
    /\ file' = [file EXCEPT ![r] = <<>>] /\ todo' = [todo EXCEPT ![r] = <<>>]
    /\ UNCHANGED <<rows, unused, cache, seen, txnVars, ghostVars>>

\* A row the table refuses, or a lost connection: the exception passes
\* _flush_chunk and ingest_csv_stream, whose finally only closes the
\* connection.
ChunkFailed(r) ==
    /\ pc[r] = "chunk"
    /\ EndSession(r)
    /\ UNCHANGED <<rows, unused, cache, ghostVars>>

\* Two uploads that hold each other's next name: PostgreSQL aborts one, and
\* its chunk fails.
UploadDeadlock(r) ==
    /\ \E S \in SUBSET Request :
        /\ r \in S
        /\ \A q \in S :
            /\ pc[q] = "chunk" /\ todo[q] # <<>>
            /\ \E p \in S \ {q} : Pending(p, Head(todo[q]))
    /\ ChunkFailed(r)
-----------------------------------------------------------------------------
\* Mutant of FlushCache: the writer forgets invalidate_all.
NoFlush(r) ==
    /\ pc[r] = "flush"
    /\ Goto(r, "commit")
    /\ UNCHANGED <<rows, unused, cache, localVars, txnVars, ghostVars>>

\* await query_cache.invalidate_all(); the handler returns, its response goes
\* out ...
FlushCache(r) ==
    /\ pc[r] = "flush"
    /\ Flush
    /\ Goto(r, "commit")
    /\ UNCHANGED <<rows, unused, localVars, txnVars, tainted>>

\* ... and get_db commits.
Commit(r) ==
    /\ pc[r] = "commit"
    /\ rows' = (rows \ del[r]) \cup ins[r]
    /\ tainted' = IF ins[r] \cup del[r] = {} THEN tainted
                  ELSE tainted \cup Filling
    /\ EndSession(r)
    /\ UNCHANGED <<unused, cache, suspect, leftover>>

\* The session's connection is lost.
ConnectionLost(r) ==
    /\ pc[r] \notin {"idle", "chunk"}
    /\ EndSession(r)
    /\ tainted' = tainted \ {r}
    /\ UNCHANGED <<rows, unused, cache, suspect, leftover>>

\* Time passes for the cache.
Tick ==
    /\ cache' = Aged(cache)
    /\ UNCHANGED <<rows, unused, pc, localVars, txnVars, ghostVars>>
-----------------------------------------------------------------------------
ReaderStarts(r) == \E k \in Key : ReadHit(r, k) \/ ReadMiss(r, k)

WriterStarts(r) ==
    \/ \E n \in Name : CreateExists(r, n) \/ CreateStart(r, n)
    \/ \E i \in Id : DeleteMissing(r, i)
    \/ \E p \in rows : DeleteStart(r, p)
    \/ UploadRefused(r)
    \/ UploadNothing(r)
    \/ \E f \in File : UploadStart(r, f)

ServerStep(r) ==
    \/ ReadStatement(r)  \/ FillCache(r)
    \/ EnrichFailed(r)   \/ Enriched(r)
    \/ CreateInsert(r)   \/ CreateConflict(r)
    \/ CreateReselect(r) \/ CreateVanished(r)
    \/ DeleteRow(r)
    \/ ChunkRow(r)       \/ ChunkCommit(r)  \/ UploadDeadlock(r)
    \/ FlushCache(r)     \/ Commit(r)

Fault(r) == ConnectionLost(r) \/ ChunkFailed(r)

Next == \/ Tick
        \/ \E r \in Request : \/ ReaderStarts(r) \/ WriterStarts(r)
                              \/ ServerStep(r)   \/ Fault(r)

Spec == Init /\ [][Next]_vars

\* The event loop and PostgreSQL's lock queue pass nobody over for ever, and
\* the clock goes on.
FairSpec == /\ Spec
            /\ WF_vars(Tick)
            /\ \A r \in Request : SF_vars(ServerStep(r))
-----------------------------------------------------------------------------
Sessions == [Request -> SUBSET Profile]

\* Where the parts of a request's state may be non-empty.
LocalsFit(r) ==
    /\ pc[r] = "query" => /\ arg[r] \in Key
                          /\ Len(seen[r]) <= Statements[arg[r]]
    /\ pc[r] \in {"enrich", "insert", "reselect"} => arg[r] \in Name
    /\ pc[r] = "delete" => arg[r] \in Profile
    /\ pc[r] # "query" => seen[r] = <<>>

\* Types of the variables: an entry holds one result per SELECT of its query,
\* a stored profile has an id that was generated once.
TypeOK ==
    /\ rows \subseteq Profile
    /\ unused \subseteq Id
    /\ cache \in CacheOf(Seq(SUBSET Profile))
    /\ pc \in [Request -> {"idle", "query", "enrich", "insert", "reselect",
                           "delete", "chunk", "flush", "commit"}]
    /\ arg \in [Request -> Key \cup Name \cup Profile \cup {Nothing}]
    /\ seen \in [Request -> Seq(SUBSET Profile)]
    /\ ins \in Sessions /\ del \in Sessions
    /\ file \in [Request -> Seq(Seq(Name))]
    /\ todo \in [Request -> Seq(Name)]
    /\ tainted \subseteq Filling
    /\ suspect \subseteq Key /\ leftover \subseteq Key
    /\ \A r \in Request : LocalsFit(r)

\* However creates, uploads and deletes of one name interleave, the table
\* never holds two profiles of exactly that name, nor one id twice: the check
\* before the enrichment proves nothing, the unique index decides.
UniqueName ==
    \A p, q \in rows : p.name = q.name \/ p.id = q.id => p = q

\* The only ways to a stale entry: its query overlapped a commit, or it was
\* filled between the flush and the commit of some writer, or an upload has
\* committed a chunk since and not (yet) flushed.
StaleNeedsRace == \A k \in Key : Stale(k) => k \in suspect \cup leftover

\* Nobody waits for ever for a name another session holds, two uploads of the
\* same names in opposite orders included (unless the bound on ids is reached).
EveryRequestEnds ==
    \A r \in Request : pc[r] # "idle" ~> pc[r] = "idle" \/ unused = {}

Writing == \E r \in Request : pc[r] \notin {"idle", "query"}

\* Once writing stops, every answer is fresh in the end: stale entries expire,
\* reads do not renew them, and no query begun before puts them back.
EventuallyFresh == <>[]~Writing => <>[](\A k \in Key : ~Stale(k))
-----------------------------------------------------------------------------
AllIdle == \A r \in Request : pc[r] = "idle"

\* What the repository says and the code does not keep.

\* SOLUTION.md, section 5.2: mutations flush the cache, so writes propagate
\* immediately.
WritesPropagate == AllIdle => \A k \in Key : ~Stale(k)

=============================================================================
