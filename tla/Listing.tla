------------------------------ MODULE Listing ------------------------------
(***************************************************************************)
(* GET /api/profiles and /api/profiles/search as a client uses them: it    *)
(* asks for a page and follows the links.  The answers come from           *)
(* get_profiles_cached, under the key that normalize.py derives from the   *)
(* filters, while profiles are added and deleted.                          *)
(*                                                                         *)
(* A write and its flush are one step here, and so are the two SELECTs of  *)
(* a page: the races between them are those of ProfileCache.               *)
(***************************************************************************)
EXTENDS QueryParser, FiniteSets

CONSTANTS
    Client,
    Stock,     \* profiles that may exist, with the columns a query looks at
    Lists,     \* parameters of list requests
    Searches,  \* queries, with the filters their author means
    Pages,     \* <<page, limit>> a client asks for first
    MaxLimit,  \* 50 in the code
    MaxEntries \* maxsize of the cache

\* A text parameter as it is sent: a word, perhaps in capitals, perhaps with
\* blanks around it.
Text == [word : Words, upper : BOOLEAN, blanks : BOOLEAN]
Typed(w) == [word |-> w, upper |-> FALSE, blanks |-> FALSE]

\* Query parameters after the checks of the endpoints.
Filters == [gender : {None} \cup Text, group : {None} \cup Text,
            country : {None} \cup Text, minAge : {None} \cup Nat,
            maxAge : {None} \cup Nat, sortBy : {None, "age", "created_at"},
            order : {None, "asc", "desc"}, page : Nat \ {0},
            limit : Nat \ {0}]

ASSUME QueryAssumption ==
    /\ Lists \subseteq Filters
    /\ \A s \in Searches : s.q \in Seq([word : STRING, number : Nat])
    /\ \A s \in Searches : s.meant = None \/ s.meant \in Filters
ASSUME NoneAssumption == None \notin Text
ASSUME StockAssumption ==
    /\ IsFiniteSet(Stock)
    /\ \A p \in Stock : p.age \in Nat /\ p.created \in Nat
ASSUME PageAssumption == /\ Pages \subseteq (Nat \ {0}) \X (Nat \ {0})
                         /\ MaxLimit \in Nat /\ MaxEntries \in Nat \ {0}

VARIABLES
    rows,    \* committed profiles
    cache,   \* query_cache._cache: answers by key
    pc,      \* what each client is doing
    asked,   \* the filters of the request it sent last
    answer,  \* the page it got
    got,     \* ids on the pages it has walked through
    meant,   \* the filters its query should have, for a search
    whole,   \* it walks by "next" from the first page on (history)
    base,    \* what matched when its walk began (history)
    calm,    \* clients since whose start nothing was written (history)
    growing, \* ... nothing was deleted (history)
    clean    \* ... no page had to do with blanks (history)

walkVars == <<whole, base, calm, growing>>
vars == <<rows, cache, pc, asked, answer, got, meant, walkVars, clean>>
-----------------------------------------------------------------------------
(* Filters, keys and queries. *)

Lowered(t) == IF t = None THEN None ELSE [t EXCEPT !.upper = FALSE]
Stripped(t) == IF t = None THEN None ELSE [t EXCEPT !.blanks = FALSE]

\* Mutant of Canonical: max_age is missing from _KNOWN_FIELDS.
CanonicalNoMaxAge(f) ==
    [f EXCEPT !.gender = Lowered(Stripped(@)),
              !.group = Lowered(Stripped(@)),
              !.country = Lowered(Stripped(@)),
              !.maxAge = None]

\* Mutant of Canonical: text is taken as it comes.
CanonicalAsTyped(f) == f

\* canonicalize; cache_key hashes it.
Canonical(f) ==
    [f EXCEPT !.gender = Lowered(Stripped(@)),
              !.group = Lowered(Stripped(@)),
              !.country = Lowered(Stripped(@))]

\* The WHERE clause, which folds case and does not strip.
Selects(f, p) ==
    /\ f.gender # None => Lowered(f.gender) = Typed(p.gender)
    /\ f.group # None => Lowered(f.group) = Typed(p.group)
    /\ f.country # None => Lowered(f.country) = Typed(p.country)
    /\ f.minAge # None => p.age >= f.minAge
    /\ f.maxAge # None => p.age <= f.maxAge

Selected(f) == {p \in rows : Selects(f, p)}

\* A text parameter has blanks around it.
Blanks(f) == \E t \in {f.gender, f.group, f.country} : t # None /\ t.blanks

\* The sort column: created_at unless another is named.
SortKey(f, p) == IF f.sortBy = "age" THEN p.age ELSE p.created

InOrder(f, p, q) == IF f.order = "desc" THEN SortKey(f, p) >= SortKey(f, q)
                                        ELSE SortKey(f, p) <= SortKey(f, q)

\* The orders in which the SELECT may deliver S: rows that tie come as they
\* please, each time anew.
Orders(f, S) ==
    {s \in [1..Cardinality(S) -> S] :
        /\ \A i, j \in 1..Cardinality(S) : i < j => s[i] # s[j]
        /\ \A i, j \in 1..Cardinality(S) : i < j => InOrder(f, s[i], s[j])}

\* Mutant of Page: the offset counts pages from zero.
PageFromZero(f, s) ==
    SubSeq(s, f.page * f.limit + 1,
           IF (f.page + 1) * f.limit <= Len(s) THEN (f.page + 1) * f.limit
                                              ELSE Len(s))

\* Mutant of Page: the limit is taken for the last index.
PageTooLong(f, s) ==
    SubSeq(s, (f.page - 1) * f.limit + 1,
           IF f.page * f.limit < Len(s) THEN f.page * f.limit + 1
                                        ELSE Len(s))

\* OFFSET (page - 1) * limit LIMIT limit
Page(f, s) ==
    SubSeq(s, (f.page - 1) * f.limit + 1,
           IF f.page * f.limit <= Len(s) THEN f.page * f.limit ELSE Len(s))

\* get_profiles
Answers(f) ==
    {[data |-> Page(f, s), total |-> Len(s)] :
        s \in Orders(f, Selected(f))}

\* Mutant of TotalPages: division rounds down.
PagesFloor(f, total) == total \div f.limit

\* math.ceil(total / limit)
TotalPages(f, total) == (total + f.limit - 1) \div f.limit

\* Mutant of HasNext: the last page has a successor, too.
NextAtEnd(f, total) == f.page <= TotalPages(f, total)

\* paginated_response: whether there is a link to the next page, the last.
HasNext(f, total) == f.page < TotalPages(f, total)
HasPrev(f) == f.page > 1

\* What the parser makes of each query.
Parsed == [q \in {s.q : s \in Searches} |-> Parse(q)]

\* The parameters a search passes on: no sort_by, no order.
SearchFilters(q, page, limit) ==
    LET found == Parsed[q]
        text(w) == IF w = None THEN None ELSE Typed(w)
    IN  [gender |-> text(found.gender), group |-> text(found.group),
         country |-> text(found.country), minAge |-> found.minAge,
         maxAge |-> found.maxAge, sortBy |-> None, order |-> None,
         page |-> page, limit |-> limit]
-----------------------------------------------------------------------------
NoFilters == [gender |-> None, group |-> None, country |-> None,
              minAge |-> None, maxAge |-> None, sortBy |-> None,
              order |-> None, page |-> 1, limit |-> 1]
NoAnswer == [data |-> <<>>, total |-> 0]

Init ==
    /\ rows \in SUBSET Stock
    /\ cache = <<>>
    /\ pc = [c \in Client |-> "idle"]
    /\ asked = [c \in Client |-> NoFilters]
    /\ answer = [c \in Client |-> NoAnswer]
    /\ got = [c \in Client |-> <<>>]
    /\ meant = [c \in Client |-> None]
    /\ whole = {} /\ calm = {} /\ growing = {} /\ clean = {}
    /\ base = [c \in Client |-> {}]

Goto(c, label) == pc' = [pc EXCEPT ![c] = label]

\* A request that passes the checks is on its way.
Ask(c, f, m) ==
    /\ pc[c] = "idle"
    /\ f.limit \in 1..MaxLimit
    /\ Goto(c, "asked")
    /\ asked' = [asked EXCEPT ![c] = f]
    /\ meant' = [meant EXCEPT ![c] = m]
    /\ whole' = IF f.page = 1 THEN whole \cup {c} ELSE whole
    /\ base' = [base EXCEPT ![c] = Selected(f)]
    /\ calm' = calm \cup {c} /\ growing' = growing \cup {c}
    /\ clean' = clean \cup {c}
    /\ UNCHANGED <<rows, cache, answer, got>>

\* The limit is out of range (400), or the query makes no filters.
Refused(c, f) ==
    /\ pc[c] = "idle"
    /\ f.limit \notin 1..MaxLimit
    /\ UNCHANGED vars

NotUnderstood(c, q) ==
    pc[c] = "idle" /\ ~Understood(Parsed[q]) /\ UNCHANGED vars

List(c, f, p) ==
    LET g == [f EXCEPT !.page = p[1], !.limit = p[2]]
    IN  Ask(c, g, None) \/ Refused(c, g)

Search(c, s, p) ==
    \/ NotUnderstood(c, s.q)
    \/ /\ pc[c] = "idle"
       /\ Understood(Parsed[s.q])
       /\ LET g == SearchFilters(s.q, p[1], p[2])
          IN  Ask(c, g, s.meant) \/ Refused(c, g)

Show(c, a) ==
    /\ Goto(c, "shown")
    /\ answer' = [answer EXCEPT ![c] = [data |-> a.data, total |-> a.total]]
    /\ got' = [got EXCEPT ![c] = @ \o a.data]

Without(k) == [j \in DOMAIN cache \ {k} |-> cache[j]]
With(old, k, e) ==
    [j \in DOMAIN old \cup {k} |-> IF j = k THEN e ELSE old[j]]

\* A full cache evicts an entry.
Room == IF Cardinality(DOMAIN cache) < MaxEntries THEN {cache}
        ELSE {Without(k) : k \in DOMAIN cache}

\* get_profiles_cached: a hit ...
Hit(c) ==
    /\ pc[c] = "asked"
    /\ Canonical(asked[c]) \in DOMAIN cache
    /\ Show(c, cache[Canonical(asked[c])])
    /\ clean' = IF \/ Blanks(asked[c])
                   \/ Blanks(cache[Canonical(asked[c])].filled)
                THEN clean \ {c} ELSE clean
    /\ UNCHANGED <<rows, cache, asked, meant, walkVars>>

\* ... and a miss.
Miss(c) ==
    /\ pc[c] = "asked"
    /\ Canonical(asked[c]) \notin DOMAIN cache
    /\ \E a \in Answers(asked[c]) :
        /\ Show(c, a)
        /\ \E old \in Room :
            cache' = With(old, Canonical(asked[c]),
                          [data |-> a.data, total |-> a.total,
                           filled |-> asked[c]])
    /\ clean' = IF Blanks(asked[c]) THEN clean \ {c} ELSE clean
    /\ UNCHANGED <<rows, asked, meant, walkVars>>

\* The entry expires.
Expire(k) ==
    /\ cache' = Without(k)
    /\ UNCHANGED <<rows, pc, asked, answer, got, meant, walkVars, clean>>

\* The client follows the link to the next page, or to the one before.
FollowNext(c) ==
    /\ pc[c] = "shown"
    /\ HasNext(asked[c], answer[c].total)
    /\ Goto(c, "asked")
    /\ asked' = [asked EXCEPT ![c].page = @ + 1]
    /\ UNCHANGED <<rows, cache, answer, got, meant, walkVars, clean>>

FollowPrev(c) ==
    /\ pc[c] = "shown"
    /\ HasPrev(asked[c])
    /\ Goto(c, "asked")
    /\ asked' = [asked EXCEPT ![c].page = @ - 1]
    /\ got' = [got EXCEPT ![c] = <<>>]
    /\ whole' = whole \ {c}
    /\ UNCHANGED <<rows, cache, answer, meant, base, calm, growing, clean>>

Leave(c) ==
    /\ pc[c] = "shown"
    /\ Goto(c, "idle")
    /\ asked' = [asked EXCEPT ![c] = NoFilters]
    /\ answer' = [answer EXCEPT ![c] = NoAnswer]
    /\ got' = [got EXCEPT ![c] = <<>>]
    /\ meant' = [meant EXCEPT ![c] = None]
    /\ base' = [base EXCEPT ![c] = {}]
    /\ whole' = whole \ {c} /\ calm' = calm \ {c}
    /\ growing' = growing \ {c} /\ clean' = clean \ {c}
    /\ UNCHANGED <<rows, cache>>
-----------------------------------------------------------------------------
\* A create or an upload, and an admin's delete, each with its flush.
Added(p) ==
    /\ p \in Stock \ rows
    /\ rows' = rows \cup {p}
    /\ cache' = <<>>
    /\ calm' = {}
    /\ UNCHANGED <<pc, asked, answer, got, meant, whole, base, growing,
                   clean>>

Deleted(p) ==
    /\ p \in rows
    /\ rows' = rows \ {p}
    /\ cache' = <<>>
    /\ calm' = {} /\ growing' = {}
    /\ UNCHANGED <<pc, asked, answer, got, meant, whole, base, clean>>

ClientStep(c) ==
    \/ \E p \in Pages : \/ \E f \in Lists : List(c, f, p)
                       \/ \E s \in Searches : Search(c, s, p)
    \/ Hit(c) \/ Miss(c)
    \/ FollowNext(c) \/ FollowPrev(c) \/ Leave(c)

Next == \/ \E c \in Client : ClientStep(c)
        \/ \E k \in DOMAIN cache : Expire(k)
        \/ \E p \in Stock : Added(p) \/ Deleted(p)

Spec == Init /\ [][Next]_vars
-----------------------------------------------------------------------------
\* get_all_profiles_filtered: what an export with these filters delivers.
Exports(f) == Orders(f, Selected(f))

Finished(c) == pc[c] = "shown" /\ ~HasNext(asked[c], answer[c].total)

NoTies(f, S) == \A p, q \in S : SortKey(f, p) = SortKey(f, q) => p = q

RowsIn(s) == {s[i] : i \in 1..Len(s)}

\* Types of the variables; a page is never longer than its limit.
TypeOK ==
    /\ rows \subseteq Stock
    /\ pc \in [Client -> {"idle", "asked", "shown"}]
    /\ \A c \in Client :
        /\ asked[c] \in Filters
        /\ answer[c].data \in Seq(Stock) /\ got[c] \in Seq(Stock)
        /\ answer[c].total \in 0..Cardinality(Stock)
        /\ Len(answer[c].data) <= asked[c].limit
        /\ base[c] \subseteq Stock
    /\ whole \cup calm \cup growing \subseteq Client
    /\ Cardinality(DOMAIN cache) <= MaxEntries

\* An entry that answers a question with other rows than its query would
\* select was filled by a request with blanks around a parameter, or answers
\* one: key and query agree on everything else, and every write empties the
\* cache.
WrongNeedsBlanks ==
    \A f \in {asked[c] : c \in {d \in Client : pc[d] = "asked"}} :
        Canonical(f) \in DOMAIN cache =>
            LET e == cache[Canonical(f)] IN
            \/ Blanks(f) \/ Blanks(e.filled)
            \/ /\ e.total = Cardinality(Selected(f))
               /\ e.data \in {Page(f, s) : s \in Orders(f, Selected(f))}

\* normalize.py: two requests that mean the same - that differ in capitals
\* only - have the same key, so that the second finds the first one's entry.
AsMeant(f) == [f EXCEPT !.gender = Lowered(@), !.group = Lowered(@),
                        !.country = Lowered(@)]

SameMeaningSameKey ==
    \A c \in Client, k \in DOMAIN cache :
        AsMeant(asked[c]) = AsMeant(cache[k].filled)
            => Canonical(asked[c]) = k

\* Following "next" from the first page to the end while nothing is written
\* delivers exactly what an export delivers, whatever the page size and
\* whoever filled the cache - if no two of the rows tie in the sort column,
\* and no parameter has blanks.
QuietWalkIsExport ==
    \A c \in whole \cap calm \cap clean :
        Finished(c) /\ NoTies(asked[c], Selected(asked[c]))
            => got[c] \in Exports(asked[c])

\* Rows added meanwhile, wherever they sort, can show a row twice but never
\* make such a walk miss one that was there when it began.
GrowingWalkMissesNothing ==
    \A c \in whole \cap growing \cap clean :
        Finished(c) /\ NoTies(asked[c], Stock)
            => base[c] \subseteq RowsIn(got[c])

\* A link leads to a page with rows, unless something is deleted.
NextHasRows ==
    \A c \in whole \cap growing \cap clean :
        pc[c] = "shown" /\ asked[c].page > 1 => answer[c].data # <<>>

\* However a question is put, it becomes the filters its author means.
PhrasingsCollapse ==
    \A c \in Client : meant[c] # None =>
        [asked[c] EXCEPT !.page = 1, !.limit = 1] = meant[c]
=============================================================================
