# Formal models of the profile intelligence service

TLA+ models of the FastAPI service in `src/app`, the TLC runs that check them on
small instances, and theorems the TLA+ proof system checks for every value of the
constants. The service classifies people by name, stores the profiles in
PostgreSQL, answers filtered and natural-language queries through an in-process
cache, ingests CSV files, and authenticates users by GitHub OAuth with rotating
refresh tokens.

## 1. Inventory

One process, one asyncio event loop: a handler runs without interruption from one
`await` to the next, so the steps of the models are what lies between two awaits.
Every request has its own SQLAlchemy session (`get_db`), in a READ COMMITTED
transaction. In the locked FastAPI version the code after a dependency's `yield`
runs when the response has been sent: **a successful request is answered first and
committed afterwards**; an exception, an `HTTPException` included, is thrown into
`get_db` and rolls the session back before the error response goes out.

| Component | State | Operations | What makes it correct | What is hard |
|---|---|---|---|---|
| Refresh tokens (`services/refresh_tokens.py`, `services/tokens.py`, `routers/auth.py`) | `refresh_tokens` rows: hash, family, expiry, `revoked_at` | `issue_session`, `rotate_refresh_token`, `_revoke_family`, `revoke_by_token` | a token is issued once, spent for good, exchanged for one successor; reuse ends the family | overlapping rotations, answer before commit, rollback of the revocation, second-resolution tokens |
| User cache (`services/users.py`, `security/deps.py`) | `_user_cache`, 30 s | `get_user_by_id`, `invalidate_user`, `upsert_from_github`, grader `_get_or_create` | role and status changes take effect | fill in flight across an invalidation, invalidation before commit, two first logins at once |
| Profiles and query cache (`services/profile.py`, `services/query_cache.py`, `routers/profiles.py`) | `profiles` rows; `_cache`, 60 s | list/search/stats, create, delete | one profile per name; answers follow writes | check-then-insert over an await, invalidation before commit, in-flight fills, several statements per answer |
| CSV ingestion and loaders (`services/csv_ingest.py`, `scripts/load_csv.py`, `seed.py`) | chunk transactions, `IngestSummary` | `ingest_csv_stream`, `_flush_chunk`, `load_csv`, `seed` | counts match what was inserted; earlier chunks survive a failure; the loader is all or nothing | partial failure, chunk boundaries, two writers of the same names, a COMMIT whose answer is lost |
| Rate limiting (`middleware/rate_limit.py`) | one deque of times per key | `dispatch` | at most the limit per window, never fewer than allowed | window edges, rejected requests |
| OAuth and web session (`routers/auth.py`, `services/github_oauth.py`, `middleware/csrf.py`) | browser cookies with their ages | login, callback, CLI exchange, cookies, CSRF check | a callback is accepted only by the browser that started it | two tabs, responses out of order, expiry of one cookie before another |
| Query parser, filter keys, pagination (`services/query_parser.py`, `services/normalize.py`, `routers/profiles.py`) | none | `parse_query`, `canonicalize`/`cache_key`, `paginated_response` | equal keys mean equal queries; pages partition the result | precedence of patterns, whitespace, the last page |
| Enrichment (`services/enrichment.py`) | none | three parallel calls, `parse_enrichment_data` | one failure fails the request with 502 | the exception that swallows another |
| Middleware order, seeding, scripts, configuration, schemas, migrations | — | — | — | — |

Interactions: `rotate_refresh_token` and `get_current_user` read users through the
user cache; login upserts the user and issues a family in one transaction; every
profile write flushes the query cache; CSV ingestion writes profiles over a
connection of its own and flushes the cache when it is done.

## 2. Plan

In the order they were built, the most important behaviour first:

1. `TokenLedger`, `RefreshTokens`, `MCRefreshTokens`, `RefreshTokensProofs`.
2. `TTLCache`, `ProfileCache`, `MCProfileCache`, `ProfileCacheProofs`.
3. `UserCache`, `MCUserCache`, `UserCacheProofs`.
4. `RateLimit`, `MCRateLimit`, `RateLimitProofs`.
5. `BulkLoad`, `MCBulkLoad`, `BulkLoadProofs`.
6. `QueryParser`, `Listing`, `MCListing`, `ListingProofs`.
7. `WebSession`, `MCWebSession`, `WebSessionProofs`.

`ProfileCache` and `UserCache` are built on `TTLCache`, `Listing` on `QueryParser`;
`RefreshTokens` and `WebSession` implement `TokenLedger`. `WebSession` and `Listing` take
from `RefreshTokens` and `ProfileCache` what a client can see of them: a token's state
with its uncommitted moment, a cache that every write empties.

Every safety property of every passing run is also proved for all values of the
constants (`PhrasingsCollapse` under a condition on the parser, section 8). The three
liveness properties (`EveryRequestEnds` of sections 3 and 4, `EventuallyFresh`) are
model-checked only: the prover handles neither fairness nor ENABLED.

## 3. Refresh tokens

### Model

`RefreshTokens` has one action per stretch between two awaits of `Login`
(`issue_session`), `POST /auth/refresh` (`rotate_refresh_token`) and
`POST /auth/logout` (`revoke_by_token`).

| Model | Code |
|---|---|
| `rows`, `revoked` | committed rows of `refresh_tokens`; those with `revoked_at` set |
| `mark[r]`, `put[r]`, `todo[r]` | the open transaction of request `r`: `revoked_at` written, row inserted, rows its UPDATE has still to lock |
| `tok[r]`, `now[r]`, `iat[r]` | `raw_token` and the local `now` of `rotate_refresh_token`, the second of `encode_refresh_token` |
| `pc[r]` | the await at which the request is suspended |
| `held` | every refresh token that was ever sent to a client; clients may present old ones |
| `lineage`, `overlap` | history, read by no action: committed exchanges, and families where two rotations overlapped |

A token is a record of its family and its second because that is all that varies
in the JWT. Row locks and unique-index waits are guards (`LockedByOther`,
`PutByOther`), PostgreSQL's deadlock detection is `RevokeDeadlock`.
`ConnectionLost` drops a session at any point, after the answer included. What
`get_user_by_id` returns is left open (`UserFound`, `UserRefused`): a user may be
deleted or disabled at any time. Replies keep only what the properties tell apart.

`TokenLedger` is what the table promises: tokens are issued in a fresh family,
exchanged or revoked, and never move back from spent to live.

### Runs

| Run | Bounds | Shows |
|---|---|---|
| `refresh_tokens` | 2 requests, 1 family, seconds 0..2, lifetime 2 s, 1 lost connection | types, one row per hash, an exchange revokes what it was paid with, a family forks only if two of its rotations overlapped, a token sent is on record or about to be; the table implements `TokenLedger` |
| `refresh_ends` | 2 requests, 1 family, seconds 0..2, lifetime 3 s | every request ends, two revocations of a forked family included |
| `refresh_reuse`, `refresh_new_pair` | 2 requests, 1 family | the documentation's claims the code does not keep (section 11) |

Two requests are enough for every race of one row (each hazard is between two
handlers) and one family holds all the interaction: no statement touches two
families. Three seconds are the fewest in which two rotations of one token can
encode different successors. A lifetime of two seconds makes tokens expire inside
the bound, and one of three lets a spent token still be presented when its family
has forked, which the deadlock of two revocations needs.

### Fairness

`FairSpec` assumes strong fairness of each request's server steps: the event loop
resumes ready coroutines in order, and PostgreSQL grants a row lock in the order
it was asked for, so a waiting statement is not passed over for ever. Clients and
the clock owe nothing.

### Proofs (`RefreshTokensProofs`)

For every number of requests and families and every bound: type correctness,
`UniqueHash`, `ExchangeRevokes`, `ForkNeedsOverlap`, `HeldAccounted`, and the
refinement of `TokenLedger`. The assumptions are the three on the constants. None of the safety
properties is inductive; `IInv` adds what their proofs need:

- `TokPresented`, `FamiliesMinted`: a request at work presents a token of a family
  some login opened;
- `Shape(r)`: what the transaction of `r` has written, by where `r` is: at most one
  row, in the family of its token, with a revocation of just that token unless it
  is a login;
- `RevokedStored`, `PutsDisjoint`: only recorded tokens are revoked, and pending
  inserts clash neither with rows nor with each other (the unique index);
- `LoginAlone`, `RotatesAlone`: nobody else is in the family of a login in
  progress; a rotation of a family without overlap is alone there and holds its
  only live token. The last is the heart of `ForkNeedsOverlap`.

Most steps write nothing to the table: they are `Quiet`, and one lemma shows that a
quiet step that keeps its own request in `Shape` keeps `IInv`. Login, the start of
a rotation, its INSERT and the commit have lemmas of their own. Only a commit maps
to a ledger step (`CommitRefines`).

`HeldAccounted` needs no more than types: `KeepsTokens` says of every step that rows
stay, that an answered transaction keeps what it writes until it is in the table, and
that a client is sent a token only as its transaction reaches the commit; all but the
loss of a connection do that, and the loss is what `losses` counts.

Liveness (`EveryRequestEnds`) is model-checked only.

## 4. Profiles and the query cache

### Model

`TTLCache` has the operators of `cachetools.TTLCache` as the code uses it.
`ProfileCache` extends it with the `profiles` table, the readers that fill the
cache (`get_profiles_cached`, `get_stats_cached`) and the writers that flush it:
`POST /api/profiles`, `DELETE /api/profiles/{id}` and `POST /api/profiles/upload`.

| Model | Code |
|---|---|
| `rows` | committed rows of `profiles`: id and name |
| `cache` | `query_cache._cache`: what each SELECT of the query returned, and its age |
| `ins[r]`, `del[r]` | the open transaction of request `r` |
| `seen[r]` | results of the SELECTs its query has run so far |
| `file[r]`, `todo[r]` | an upload: chunks to come, names of the current one to insert |
| `pc[r]` | the await at which the request is suspended |
| `tainted`, `suspect`, `leftover` | history, read by no action: queries a commit has overtaken, entries that raced with a writer, entries an upload has outdated |

A query is the set of names it selects and the number of its SELECTs; a result is
the set of profiles selected, which is what count, page and aggregates derive from.
Cached lists, searches and stats differ only in their key. Case-insensitive
comparison is `Fold`. An `INSERT` of a name another session has written waits
(`Waits`), two uploads that wait for each other are `UploadDeadlock`, and the row a
chunk cannot store or a lost connection is `ChunkFailed`. Get-by-id and export read
committed rows and touch nothing else. `CreateVanished` is a create that lost the
race for its name to a profile deleted before the second SELECT: the endpoint then
fails on `new_profile.id`.

### Runs

| Run | Bounds | Shows |
|---|---|---|
| `profile_cache` | 2 requests, 2 names, 3 ids, 2 queries (one with two SELECTs), room for one entry, 2 ticks, two-name uploads in opposite orders | types, name uniqueness, staleness only through a race, eviction and expiry included |
| `profile_live` | as `profile_cache`, but one query of one SELECT and 1 tick; fair | every request ends; no stale entry outlives the end of writing |
| `profile_writes` | 2 requests | a claim the code does not keep (section 11) |

A reader and a writer, or two writers, suffice for every race of one entry or one
name. Three ids let both uploads hold a name while they wait for the other's;
`EveryRequestEnds` excuses a request only where the bound on ids is exhausted. Two
ticks make an entry live through one tick and expire at the next.

### Fairness

`FairSpec` assumes weak fairness of the clock and strong fairness of each request's
server steps, as in section 3. Starting requests and failing is up to the
environment.

### Proofs (`ProfileCacheProofs`)

For all constants: type correctness, `UniqueName`, `StaleNeedsRace`. Two invariants
carry them:

- `TableInv`: `Shape` (no request has written anything before its INSERT or DELETE)
  and `WrittenDistinct`: committed and pending profiles together have distinct names
  and ids. A commit then only moves profiles that are distinct already.
- `CacheInv`: a query no commit has overtaken has seen what the table holds
  (`FreshFill`), and while a writer is between flush and commit every entry is known
  to be suspect or left over (`YoungEntries`): its commit can outdate no other.

`StaleOnlyFades` is what `EventuallyFresh` needs besides fairness, for every step that
begins with no writer at work: no query becomes overtaken; an entry becomes stale only
when an overtaken query stores it, after which the query is gone; an entry that was stale
keeps its value and gets older with every tick (`AgedAges` bounds its age by `TTL`). What
it leaves to TLC is that ticks and fills do happen. In the instance of `profile_cache`
both ways to be stale without a writer are met.

The assumptions are those on the constants. `EveryRequestEnds` and `EventuallyFresh`
themselves are model-checked only.

## 5. Users and their cache

### Model

`UserCache` extends `TTLCache` with the `users` table, the readers
(`get_user_by_id`, under `get_current_user` and `rotate_refresh_token`) and the
writers: the web callback and the CLI exchange, which run `upsert_from_github`, the
`test_code` shortcut, which runs `_get_or_create`, and an operator who edits `role`
and `is_active` in the database, which no code of the service does.

| Model | Code |
|---|---|
| `users` | committed rows of `users`: GitHub's columns as one `profile`, `role`, `is_active` |
| `cache` | `_user_cache` |
| `acct[r]`, `row[r]` | the account a request is about and its copy of the row, as selected or as written |
| `pc[r]` | the await at which the request is suspended; from `invalidate` on it holds the row lock (`Writing`) |
| `unnoticed`, `raced`, `tainted` | history, read by no action: accounts edited since their last login, cached copies that raced with a writer, reads a commit has overtaken |

Nothing deletes users and `github_id` is unique, so an account stands for both keys.
The UPDATE writes the columns that differ from the row that was selected, as
SQLAlchemy does; `last_login_at` always differs, so it always locks the row. The
session a login opens is `RefreshTokens.Login`; the web flow answers a disabled
account with a redirect, which commits, the CLI flow with a 403, which does not. The
`oauth_state` check and GitHub's refusals (`LoginRefused`) come before anything is
read or written and leave no trace here. `get_or_create_grader_analyst`, which only a script calls, is not an
action of its own.

### Runs

| Run | Bounds | Shows |
|---|---|---|
| `user_cache` | 2 requests, a GitHub account and the grader's, 2 profiles, room for one copy, lifetime 1 tick | types, `SessionNeedsActive`, `LocalFieldsKept`, and that a copy is stale only for a named cause |

Every race is between two handlers, or one and the operator, on one account; the
second account is there for eviction. Ages decide nothing but expiry, so one tick
is enough. That a stale copy expires is `ProfileCache`'s `EventuallyFresh`, about the
same `TTLCache`; no liveness is checked here, but see `OutOfDateFades` below.

### Proofs (`UserCacheProofs`)

For all constants: type correctness, `SessionNeedsActive`, `LocalFieldsKept` and
`StaleNeedsCause`. `TTLCacheProofs` has the lemmas about storing, dropping and ageing
entries that this module and `ProfileCacheProofs` share. The invariants:

- `TableInv`: what a request knows of its account (`Knows`), and `RowLocked`: one
  writer per account, whose copy has the table's role and `is_active`. A login's
  commit then changes neither, and the `is_active` it checked still holds.
- `CacheInv`: a read no commit has overtaken holds what the table holds
  (`FreshRead`), and a commit to come outdates only copies already known to be
  suspect (`YoungCopies`).

`OutOfDateFades` is about how long a change can go unseen (`users.py:8-10`: role and
`is_active` "propagate without manual invalidation"). In every step that leaves an
account's row alone, the reads its last change has overtaken can only get fewer, each
can put the old row back once, and a copy that is out of date is never renewed. It needs
`LateFills` besides the two invariants: an overtaken read is still waiting to fill. TLC
found the property to hold in the instance of `user_cache` before it was proved.

## 6. Rate limiting

`RateLimit` models `RateLimitMiddleware.dispatch`, which reaches its verdict without
an await: `Scope` chooses the bucket, `Prunes` and `Kept` are the `popleft` loop,
`Admit` and `Refuse` the two outcomes. A key is the scope with an address or the
subject of a valid access token; the clock is counted in ticks. `admitted` and
`refused` are history. Requests below other paths, and all requests when
`rate_limit_enabled` is off, leave no trace.

The run `rate_limit` (one address, one user, so three keys; limits 2 and 1, a window
of 2 ticks, times 0..6) checks that no closed window of a key holds more admissions
than its limit, and that a key is refused only when it was let through that often
within the window. Seven instants are three windows: enough for a bucket to fill,
expire in part, fill again and expire at the edge.

`RateLimitProofs` proves both for every limit and window. The invariant says that a
bucket is the tail of its key's admissions and that all it has forgotten is expired
(`BucketIsTail`), and that admissions are in order (`InOrder`).

## 7. Bulk writers of the profiles table

### Model

`BulkLoad` has the three programs that write many profiles, row by row.

| Model | Code |
|---|---|
| `rows`, `ins[w]` | committed profiles; those of `w`'s open transaction. An id is the writer and the position of the row in its file |
| `file[w]`, `at[w]`, `batch[w]` | the file, how far the reader has come, the records collected since the last flush |
| `sum[w]` | `IngestSummary` |
| `pc[w]` | `read` the file, `copy` into the staging table, `merge` it, `commit`; `failed` has raised, `lost` has lost its connection |
| `calm`, `reruns` | history: writers since whose start no profile has gone; uploads of a file that a calm upload had loaded |

`TakeRow`, `SkipRow` and `EndOfFile` are the reader's loop, with `Verdict` for
`_validate_row` and `Record` for `_build_record`; `CopyChunk`, `MergeChunk` and
`CommitChunk` are `_flush_chunk`; `LoadStart`, `MergeAll` and `CommitAll` are
`load_csv.py`; `SeedDrop`, `MergeAll` and `CommitAll` are `seed.py`. `Fail` drops a
connection anywhere; the COMMIT it interrupts may have reached the database or not.
`Merged` is `INSERT ... SELECT ... ON CONFLICT DO NOTHING` in one step: the row-by-row
locks of that statement, their deadlock, and the flush of the query cache are
`ProfileCache`'s. `SeedDrop` waits for the transactions that hold a lock on the table,
as DROP TABLE does. A row of a file has the features validation and the columns tell
apart: cut off, an empty cell, gender, a numeric age, whether the country code fits.

### Run

`bulk_load`: two uploads, the loader and the seeder; two files whose rows hit every
reason to be skipped, the age boundaries 12, 19, 20, 59, 120 and 121, a name twice in
one chunk and again after it, a row the COPY refuses; chunks of two rows, so that a
five-row file has a trailing partial chunk and its twin ends on a boundary. The model
stops when every call has ended, hence no deadlock check.

| Property | Says |
|---|---|
| `CountsAddUp` | at any moment every row read is counted exactly once: inserted, skipped for one reason, or in the batch |
| `InsertedIsStored` | `inserted` is what the upload put into the table, whatever is inserted beside it; only a COMMIT whose answer was lost goes uncounted |
| `HandledStored` | wherever chunks end and the upload stops, each valid row flushed has its name in the table, from its first row |
| `RerunAddsNothing` | the second run of a loaded file inserts nothing and cannot fail |
| `LoaderAllOrNothing` | if the table has one row of the loader's, it has every name of its file |
| `SameAgeGroups` | the upload's age groups are those `POST` derives, boundaries included |

The constraint on deletions (`calm`) is in the statements because an admin's DELETE
may take any row at any time; `Remove` is unconstrained.

### Proofs (`BulkLoadProofs`)

All six properties and type correctness, for all files, chunk sizes and numbers of
uploads, loaders and seeders, from the assumptions on the constants (a chunk has a
row, files are sequences of rows, no call is two kinds of writer at once). The
inductive invariant comes in layers, each proved from those before it:

- `BaseInv`: types; `ReaderInv`, what an upload has collected by where it is, with
  valid rows in the batch and `fits` behind it; `InsInv` and `RowsInv`, that every
  row, committed or not, is the record of its position in its writer's file.
- `CountInv`: the summary is `Balanced` with the rows read and the batch.
- `NamesInv`: while nothing is deleted, the names a transaction has merged are in the
  table or among its own new rows (`PendingInv`), those of flushed rows are in the
  table (`StoredInv`), a repeated file finds all of its names there (`RerunInv`), and
  the loader has no row before its commit (`LoaderInv`).
- `UniqueInv` and `UploadsInv`: uncommitted rows have names nobody else has, which is
  what the wait in `WaitsFor` and the unique index give; an upload's rows come before
  its batch (`OrderInv`); hence counters and rows agree (`InsertedInv`).

`MergedRows` says of the INSERT what the steps need: only new names, the first row of
each, and no name of the batch left out. `Bystander` and `RowsBystander` deal with the
steps of other writers.

## 8. Queries, filters, keys and pages

### Model

`QueryParser` is `parse_query` as a function of a sequence of tokens: whole words for
the `\b` patterns, `Contains` for what `in q` finds inside a word (`nigeria` in
`nigerian`, `niger` in `nigeria`), the three range patterns in order with their
leftmost match, the single bounds, the keywords in order of precedence, countries by
falling length. What lies inside which word is a constant: the model says which
words the instance uses and what they contain.

`Listing` extends it with `GET /api/profiles` and `/api/profiles/search` as a client
uses them: `Ask` sends a request, `Hit` or `Miss` answers it, `FollowNext` and
`FollowPrev` take a link of the envelope. `Canonical` is `canonicalize` (the cache key is
a hash of it), `Selects` the WHERE clause, `Orders` the orders in which ORDER BY may
deliver rows that tie, `Page`, `TotalPages` and `HasNext` the arithmetic. Rows are added
and deleted between any two requests, and each write empties the cache in the same
step: the races in between are `ProfileCache`'s subject, and with them none of these
properties would say anything about keys or pages. The two probability filters
behave as `min_age` does and are left out.

### Run

`listing`: three profiles, two of which tie in `created_at`; six lists (sorting by age
and by time, both orders, an age bound, one filter typed plainly, in capitals and with
blanks), eight queries, four first pages (`page` beyond the end and a `limit` that is
refused among them), page size at most 2, a cache of 2 entries. One client suffices:
the cache is filled by its earlier requests, and nothing else is shared.

| Property | Says |
|---|---|
| `WrongNeedsBlanks` | an entry that answers a question wrongly has to do with blanks around a parameter: key and WHERE clause agree on everything else |
| `SameMeaningSameKey` | requests that differ in capitals share an entry |
| `QuietWalkIsExport` | following "next" to the end delivers what an export delivers, if nothing is written and no rows tie |
| `GrowingWalkMissesNothing` | rows added during the walk never make it miss one that was there |
| `NextHasRows` | a link leads to a page with rows, unless something is deleted |
| `PhrasingsCollapse` | the documented ways to put a query become the filters its author means |

The conditions on ties and blanks are limits of the code, not of the model: without them TLC finds a row that is skipped because two SELECTs
deliver a tie in different orders, and a wrong answer for `" female"`.

### Proofs (`ListingProofs`)

For all clients, profiles, requests, queries, page sizes and cache sizes: type
correctness and all properties of the run, the last under a condition. The assumptions
are those on the constants: profiles are finitely many, with numbers for their two sort columns; an
absent filter is no text; requests and queries have their types; the codes of
`COUNTRY_MAP` and the parser's own words are words.

- The parser: what it finds are filters (`SearchTypes`), and `RangeInOrder`: a range it
  understands has its smaller age first. `RangePhrasingsAgree`: two queries with one range
  each, of the same two ages - "between 20 and 45", "ages 45-20", "20 to 45", anywhere in
  the sentence - and the same genders and countries become the same filters, whatever
  else they say.
- Keys: `KeyTellsAll`, that without blanks two requests with one key select the same
  rows in the same order and cut the same page; capitals and blanks are folded one
  after the other (`TextFolds`).
- Pages: `PageTypes` and `NextMeansMore`, the arithmetic of offset, limit and
  `math.ceil`: there is a next page if and only if rows are left.
- Order: without ties, the row at position i has rank i (`RankIsPosition`), so that two
  SELECTs deliver the same sequence (`OneOrder`), and ranks only grow while rows are
  added (`RankGrows`).

`Base` is the inductive invariant of types and cache: every entry is under the key of
the request that filled it, and is what that request would be answered now, as every
write empties the cache. `IInv` adds, for each walk that began at the first page, had
nothing to do with blanks and saw no deletion: a page on its way is not past the end
(`Linked`); the rows it began with and has not shown rank behind its pages (`Ahead`); and if
nothing was written, it has exactly the first rows of the one order (`Quiet`). None of
the properties is inductive without these, as they speak of the end of a walk only. TLC
found `IInv` to hold in all states of the run's instance, and in the first millions of
one with two clients, before it was proved. The steps of a walk (`WalkStarts`,
`WalkShows`, `WalkFollows`, `WalkGrows`) are lemmas about pages and orders alone; `Served`
says that a hit and a miss look the same to a walk without blanks.

`PhrasingsCollapse` is `MeaningSurvives`: if the parser finds what each question means
for some way of phrasing its ages (`ParserUnderstands`), every phrasing is answered with
these filters, for every number of clients and up to the last page of every walk. The
condition is about the constants alone: what an English sentence means is given with the
query, not computed, so that the parser is right about arbitrary sentences is nothing
one can prove. TLC found the condition to hold for the eight queries of the run, five of
which are phrasings of one range.

## 9. The browser's session

### Model

`WebSession` has the cookies of one browser (`jar`), shared by its tabs, each with one
request under way, and the handlers that set, clear and check them.

| Model | Code |
|---|---|
| a session number | the access, refresh and csrf tokens one response brings |
| `token`, `family` | the refresh token's row; `put` until it is committed, `void` if that failed |
| `commits` | requests that are answered and not committed (`get_db`), with what they revoke and issue |
| `flows`, `codes` | `oauth_state` values made; flows whose code GitHub has yet to exchange |
| `jar` | the cookies `access_token`, `refresh_token`, `csrf_token`, `oauth_state` |
| `pc[t]`, `req[t]`, `answer[t]` | a tab's request: what it carries, how far it is, what comes back |
| `away` | flows for which the browser has been sent to GitHub |
| `swapped`, `tangled`, `out`, `left`, `spoilt`, `late` | history, read by no action |

A page reads the csrf cookie (`Prepare`) and sends its POST later (`Send`), with the
cookies of that moment. `CsrfRefuses` and `CsrfPasses` are `CSRFMiddleware`, `Refresh...`
the reads and writes of `/auth/refresh`, `ServeLogout`, `ServeLogin` and `Callback...` the
other endpoints, `Receive...` what each answer does to the cookies. `Commit` and
`CommitFails` follow an answer at any distance, as in section 1. `Lose` loses a request, an
answer or the tab. `Expire` removes cookies as their `max_age` allows: the access cookie
before the other two, which go together, the state cookie alone; when, is left open.
A POST whose csrf header comes from nowhere, that is, of another site, is not in the
model: its subject is what the page's own requests meet.

### Run

`web_session`: two tabs, two sessions and two login flows. Two tabs make every race of
two answers, two sessions a login and one refresh (or two logins), two flows the two
that share a state cookie. The bounds end the model, hence no deadlock check. With
three sessions all properties hold as well (four million states).

| Property | Says |
|---|---|
| `CookiesOfOneAnswer` | a browser with an access cookie has the csrf and refresh cookies that came with it, whatever overtakes what |
| `CsrfRefusesOnlyRaces` | the csrf check refuses the page's own POST only if another answer changed the cookie after the page read it |
| `DeadTokenNeedsTangle` | the browser holds a dead refresh token only after requests overlapped or one was lost |
| `LogoutIsFinal` | after a logout with nothing in flight, no cookie logs the browser in and no token of the family is live |
| `OvertakenFlowFails` | a callback is refused only if its flow's state cookie had gone before, and then it never logs in |
| `LedgerSpec` | whatever the tabs send twice, overtake or lose, the server's tokens follow `TokenLedger`, as those of `RefreshTokens` do |

`DeadTokenNeedsTangle` and `LogoutIsFinal` need their conditions: without them TLC shows
two tabs that refresh at once and keep the loser's cookie, and a logout that overtakes
the commit of the refresh before it (section 11).

### Proofs (`WebSessionProofs`)

For every number of tabs, sessions and flows: type correctness, `CookiesOfOneAnswer`,
`CsrfRefusesOnlyRaces` and `OvertakenFlowFails`, from the assumption that the bounds are
natural numbers. `IInv` adds, for each tab, what its answer carries (`AnswerSound`), that
a header that was read fits the cookie until somebody swaps it (`HeaderSound`), that a
callback fits its cookie unless it is late (`FlowSound`), and of the state cookie that it
is the one flow that is not spoilt (`StateInv`). Steps come in four kinds with a lemma
each: an answer of the server (`ReplyStep`), a commit (`CommitStep`), a request on its way
(`SendStep`) and a change of the cookies (`JarStep`).

`DeadTokenNeedsTangle` and `LogoutIsFinal` follow a family through its whole history
and take two more layers, which TLC checked on the instance of `web_session` before
they were proved:

- `LInv`, which holds whatever overlaps or gets lost: a session that was not issued
  appears nowhere (`UnusedNowhere`), an open transaction revokes what was live and
  issues what nobody else issues (`CommitsFit`), and a session on its way to the browser
  is known to nobody else (`Unreceived`).
- `SInv`, on top of it. While nothing is tangled (`Untangled`), one request is at work
  at a time, and every open transaction belongs to one that was answered (`InTurn`); the
  token in the jar is good and the only one of its family that is, unless an answer that
  replaces it is coming (`JarGood`, `RequestAlone`, `AnswerGood`). After a logout in good
  order (`LoggedOut`), the jar is empty, no request carries a token, no answer sets one,
  and the family has none that is live or will be.

Each layer has one lemma per handler, and `Sessions` puts them together.

`SessionsKeepLedger` is the refinement of `TokenLedger`, with `Numbered` as its mapping: a
committed session is a live token of the family its login opened, a revoked one a spent
token. Only `Commit` maps to a step of the ledger, every other action to a stutter. What
has to be known of a commit to see which step it is (`RInv`): it opens a family with
its first token, trades a live token for a new one of its family, or revokes one
(`CommitsFit` and the forms of a transaction), and the session that opened a family is
recorded before the family has another (`HeadsRecorded`), so that none is traded for
before the login that opened its family has committed.

## 10. What is not modelled

- Enrichment (`services/enrichment.py`): three calls to external services under one
  `gather`, all or 502, before anything is written; `ProfileCache` has the await and its
  failure, the mapping of the answers is data.
- SlowAPI's limits: they count in the library's storage, per route and peer address,
  after a request has passed `RateLimit`.
- `APIVersionMiddleware` decides from one header; request logging, CORS, GZip and the
  order of the stack keep no state.
- The CLI's exchange sets no cookie: its login is `UserCache`'s and its tokens are
  `RefreshTokens`'.
- `RefreshTokens` leaves open what `get_user_by_id` returns instead of being composed
  with `UserCache`: its properties hold for any answer.
- CSV layout of the export, pydantic schemas, migrations, `benchmark.py`,
  `generate_csv.py`, the health endpoint. GitHub, the enrichment services and
  PostgreSQL appear as what the code can observe of them.

Four hazards have no property, because nothing in the code or its documents promises
one. Two are decided by an index or reported as an error: two first logins of one
account (`UserCache.UpsertConflict`) and a conflicting row that is deleted before it
can be returned (`ProfileCache.CreateVanished`). The deques of the rate limiter are
never removed, and nothing bounds the number of keys. `seed.py` drops the tables before
it reads its data, and a failure leaves them empty (`BulkLoad.SeedDrop`, `Fail`).

## 11. Disagreements of code and documentation

Shown by a run:

- **Reuse detection does not revoke.** The revocation is rolled back by the
  exception that reports it (`refresh_reuse`).
- **A refresh in the second of issue fails** with a unique violation
  (`refresh_new_pair`).
- **Writes do not propagate immediately**: create and delete flush the cache before
  they commit, and a query in flight stores its old result afterwards
  (`profile_writes`).

Met while modelling; the models have the code's behaviour:

- A partial upload does not flush the cache: SOLUTION.md:285 says "Cache is still
  invalidated", `csv_ingest.py:259` is reached only when every chunk succeeded. Nor is
  there a summary of what was counted (`profiles.py:261-263`): the exception passes.
- SOLUTION.md:284 says a single bad row never aborts; a `country_id` of more than 20
  characters fails the COPY of its chunk, and the upload (`BulkLoad.CopyChunk`).
- Upload and `POST` have the "same idempotency rule" (SOLUTION.md:298); the upload
  compares names with case, `POST` without.
- `users.py:9-11` says a re-login applies role and status changes at once; a read in
  flight across `invalidate_user` stores the old user again (`UserCache.StaleNeedsCause`
  names this cause).
- README.md calls the seed script idempotent, "re-running skips existing rows";
  `seed.py:14` drops every table first, users and tokens included.
- `canonicalize` strips filter values, the WHERE clause does not (`profile.py:92-95`):
  `" female"` and `"female"` share a cache entry and select different rows
  (`Listing.WrongNeedsBlanks`).
- SOLUTION.md:196 gives `aged? X and Y` as a range; the pattern has `ages?` only, so
  "aged 20 and 45" is no range. "over 30 years old" also yields `age_group=senior`.
- Logout marks the token revoked (README.md:276-278); one that overtakes the commit of
  the refresh before it finds no row, and the new token becomes live behind it
  (`WebSession`, the condition of `LogoutIsFinal`).
- README.md:89 lists the middleware without `RateLimitMiddleware`.
