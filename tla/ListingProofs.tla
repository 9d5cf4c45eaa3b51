--------------------------- MODULE ListingProofs ---------------------------
(***************************************************************************)
(* Theorems about Listing, for every set of clients, profiles, list        *)
(* requests and queries, and every page and cache size.                    *)
(***************************************************************************)
EXTENDS Listing, FiniteSetTheorems, SequenceTheorems, TLAPS

USE DEF Goto, walkVars

\* A walk is in a state st of its client, with filters f that select the rows
\* S; it has shown the rows g since it began, with the rows b in the list.

\* The rows it has behind it, the page that is on its way not counted.
Behind(st, f) == IF st = "shown" THEN f.page * f.limit
                                 ELSE (f.page - 1) * f.limit

\* Where a row of S stands, if no two tie.
Rank(f, S, b) == Cardinality({q \in S : InOrder(f, q, b)})

Types ==
    /\ rows \subseteq Stock
    /\ pc \in [Client -> {"idle", "asked", "shown"}]
    /\ asked \in [Client -> Filters]
    /\ answer \in [Client -> [data : Seq(Stock), total : Nat]]
    /\ got \in [Client -> Seq(Stock)]
    /\ base \in [Client -> SUBSET Stock]
    /\ whole \subseteq Client /\ growing \subseteq Client
    /\ calm \subseteq growing
    /\ IsFiniteSet(DOMAIN cache) /\ Cardinality(DOMAIN cache) <= MaxEntries

\* A page fits its request, and nothing is left of a walk that ended.
Fits ==
    \A c \in Client :
        /\ Len(answer[c].data) <= asked[c].limit
        /\ answer[c].total <= Cardinality(Stock)
        /\ pc[c] = "idle" => /\ answer[c] = NoAnswer /\ got[c] = <<>>
                             /\ c \notin whole

\* An entry is under the key of the request that filled it, and is what the
\* same request would be answered now.
Entry(k) ==
    /\ cache[k].filled \in Filters
    /\ k = Canonical(cache[k].filled)
    /\ [data |-> cache[k].data, total |-> cache[k].total]
            \in Answers(cache[k].filled)

\* Whoever goes by the links finds rows: a page on its way is not past the
\* end, and the total that was shown has not shrunk.
Linked(st, f, a, S) ==
    /\ st = "asked" /\ f.page > 1 => Behind(st, f) < Cardinality(S)
    /\ st = "shown" => /\ a.total <= Cardinality(S)
                       /\ f.page > 1 => a.data # <<>>

\* A quiet walk has the first rows of the only order there is.
Quiet(st, f, a, g, S) ==
    /\ st = "shown" => a.total = Cardinality(S) /\ Orders(f, S) # {}
    /\ \A s \in Orders(f, S) :
            g = SubSeq(s, 1, IF Behind(st, f) <= Len(s) THEN Behind(st, f)
                                                        ELSE Len(s))

\* What a walk has not shown of the rows it began with is still ahead.
Ahead(st, f, a, g, b, S) ==
    /\ b \subseteq S
    /\ \A p \in b : Rank(f, S, p) <= Behind(st, f) => p \in RowsIn(g)
    /\ st = "shown" /\ ~HasNext(f, a.total) => b \subseteq RowsIn(g)

\* Client c walks with filters f that select S; it began at the first page,
\* and since then nothing was deleted.
Walk(c, f, S) ==
    /\ Linked(pc[c], f, answer[c], S)
    /\ NoTies(f, Stock) => Ahead(pc[c], f, answer[c], got[c], base[c], S)
    /\ c \in calm /\ NoTies(f, S) => Quiet(pc[c], f, answer[c], got[c], S)

Base == Types /\ Fits /\ \A k \in DOMAIN cache : Entry(k)

IInv == /\ Base
        /\ \A c \in whole \cap growing \cap clean :
                Walk(c, asked[c], Selected(asked[c]))

-----------------------------------------------------------------------------
(* What the parser finds are filters. *)

\* The smallest of a set of positions is one of them.
LEMMA FirstIsIn ==
    ASSUME NEW S \in SUBSET Nat, S # {}
    PROVE  /\ First(S) \in S
           /\ \A j \in S : First(S) <= j
<1>. DEFINE T == {0..i : i \in S}
<1>1. T \subseteq FiniteSubsetsOf(Nat) /\ T # {}
    <2>1. \A i \in S : IsFiniteSet(0..i)
        BY FS_Interval
    <2>2. ASSUME NEW t \in T
          PROVE  t \in SUBSET Nat /\ IsFiniteSet(t)
        <3>1. PICK i \in S : t = 0..i
            OBVIOUS
        <3>2. t \subseteq Nat
            BY <3>1, SMT
        <3>3. IsFiniteSet(t)
            BY <2>1, <3>1, Zenon
        <3>. QED
            BY <3>2, <3>3
    <2>. HIDE DEF T
    <2>3. T \subseteq FiniteSubsetsOf(Nat)
        BY <2>2, Zenon DEF FiniteSubsetsOf
    <2>. QED
        BY <2>3 DEF T
<1>2. PICK x \in T : \A y \in T : <<y, x>> \notin StrictSubsetOrdering(Nat)
    <2>. HIDE DEF T
    <2>. QED
        BY <1>1, WFMin, FS_StrictSubsetOrderingWellFounded
<1>3. PICK i \in S : x = 0..i
    OBVIOUS
<1>4. ASSUME NEW j \in S, j < i
      PROVE  FALSE
    <2>1. /\ 0..j \in T /\ 0..j \subseteq 0..i
          /\ i \in 0..i /\ i \notin 0..j
        BY <1>4
    <2>2. <<0..j, 0..i>> \in StrictSubsetOrdering(Nat)
        BY <2>1 DEF StrictSubsetOrdering
    <2>. QED
        BY <1>2, <1>3, <2>1, <2>2
<1>5. \A j \in S : i <= j
    BY <1>4
<1>. QED
    BY <1>5 DEF First

Token == [word : STRING, number : Nat]
Tokens == Seq(Token)

LEMMA TokenTypes ==
    ASSUME NEW q \in Tokens
    PROVE  /\ Len(q) \in Nat
           /\ \A i \in 1..Len(q) : q[i].number \in Nat
<1>1. Len(q) \in Nat
    BY LenProperties DEF Tokens
<1>2. \A i \in 1..Len(q) : q[i] \in Token
    BY ElementOfSeq DEF Tokens
<1>. QED
    BY <1>1, <1>2 DEF Token

LEMMA RangeTypes ==
    ASSUME NEW q \in Tokens, AgeRange(q) # <<>>
    PROVE  /\ AgeRange(q)[1] \in Nat /\ AgeRange(q)[2] \in Nat
           /\ AgeRange(q)[1] <= AgeRange(q)[2]
<1>. DEFINE S == IF Between(q) # {} THEN Between(q)
                 ELSE IF Ages(q) # {} THEN Ages(q) ELSE Plain(q)
<1>0. Len(q) \in Nat /\ \A i \in 1..Len(q) : q[i].number \in Nat
    BY TokenTypes
<1>1. S \subseteq 1..Len(q) /\ \A i \in S : i + 2 \in 1..Len(q)
    BY <1>0 DEF Between, Ages, Plain, IsNumber
<1>2. S # {}
    BY DEF AgeRange
<1>3. First(S) \in S
    <2>1. S \in SUBSET Nat
        BY <1>0, <1>1
    <2>. HIDE DEF S
    <2>. QED
        BY <2>1, <1>2, FirstIsIn
<1>4. /\ q[First(S)].number \in Nat
      /\ q[First(S) + 2].number \in Nat
    <2>. HIDE DEF S
    <2>. QED
        BY <1>0, <1>1, <1>3
<1>5. AgeRange(q) = LET a == q[First(S)].number
                        b == q[First(S) + 2].number
                    IN  IF a <= b THEN <<a, b>> ELSE <<b, a>>
    BY <1>2 DEF AgeRange
<1>. HIDE DEF S
<1>. QED
    BY <1>4, <1>5

\* Whichever way round a query puts its two ages, the filters it becomes have
\* the smaller one first: no range that was understood is empty.
THEOREM RangeInOrder ==
    ASSUME NEW q \in Tokens, AgeRange(q) # <<>>
    PROVE  Parse(q).minAge <= Parse(q).maxAge
BY RangeTypes DEF Parse

LEMMA BoundTypes ==
    ASSUME NEW q \in Tokens, NEW W
    PROVE  Bound(q, W) \in {None} \cup Nat
<1>. DEFINE at == {i \in 2..Len(q) : IsNumber(q, i) /\ IsWord(q, i - 1, W)}
<1>1. Len(q) \in Nat /\ \A i \in 1..Len(q) : q[i].number \in Nat
    BY TokenTypes
<1>2. CASE at = {}
    BY <1>2 DEF Bound
<1>3. CASE at # {}
    <2>1. First(at) \in at
        <3>1. at \in SUBSET Nat
            BY <1>1
        <3>. HIDE DEF at
        <3>. QED
            BY <3>1, <1>3, FirstIsIn
    <2>2. q[First(at)].number \in Nat
        BY <1>1, <2>1
    <2>. QED
        BY <1>3, <2>2 DEF Bound
<1>. QED
    BY <1>2, <1>3

LEMMA CountryTypes ==
    ASSUME NEW q
    PROVE  CountryOf(q) \in {None} \cup Words
<1>. DEFINE found == {i \in 1..Len(CountryOrder) :
                        HasPart(q, CountryOrder[i])}
<1>1. Len(CountryOrder) \in Nat
    BY CountryAssumption, LenProperties
<1>2. CASE found = {}
    BY <1>2 DEF CountryOf
<1>3. CASE found # {}
    <2>1. First(found) \in found
        <3>1. found \in SUBSET Nat
            BY <1>1
        <3>. HIDE DEF found
        <3>. QED
            BY <3>1, <1>3, FirstIsIn
    <2>2. CountryMap[CountryOrder[First(found)]] \in Words
        BY <2>1, CountryAssumption
    <2>. QED
        BY <1>3, <2>2 DEF CountryOf
<1>. QED
    BY <1>2, <1>3

LEMMA GroupTypes ==
    ASSUME NEW q
    PROVE  GroupOf(q) \in {None} \cup Words
BY WordAssumption DEF GroupOf

LEMMA SearchTypes ==
    ASSUME NEW s \in Searches, NEW page \in Nat \ {0}, NEW limit \in Nat \ {0}
    PROVE  SearchFilters(s.q, page, limit) \in Filters
<1>. DEFINE q == s.q
            text(w) == IF w = None THEN None ELSE Typed(w)
<1>0. q \in Tokens
    BY QueryAssumption DEF Tokens, Token
<1>1. Parsed[q] = Parse(q)
    BY DEF Parsed
<1>2. \A w \in {None} \cup Words : text(w) \in {None} \cup Text
    BY DEF Typed, Text
<1>3. /\ GenderOf(q) \in {None} \cup Words
      /\ Parse(q).group \in {None} \cup Words
      /\ CountryOf(q) \in {None} \cup Words
    <2>1. GenderOf(q) \in {None} \cup Words
        BY WordAssumption DEF GenderOf
    <2>2. /\ GroupOf(q) \in {None} \cup Words
          /\ CountryOf(q) \in {None} \cup Words
        BY GroupTypes, CountryTypes
    <2>. QED
        BY <2>1, <2>2 DEF Parse
<1>4. Parse(q).minAge \in {None} \cup Nat
    BY <1>0, RangeTypes, BoundTypes DEF Parse
<1>5. Parse(q).maxAge \in {None} \cup Nat
    BY <1>0, RangeTypes, BoundTypes DEF Parse
<1>6. /\ Parse(q).gender = GenderOf(q)
      /\ Parse(q).country = CountryOf(q)
    BY DEF Parse
<1>7. SearchFilters(q, page, limit) =
        [gender |-> text(Parse(q).gender), group |-> text(Parse(q).group),
         country |-> text(Parse(q).country), minAge |-> Parse(q).minAge,
         maxAge |-> Parse(q).maxAge, sortBy |-> None, order |-> None,
         page |-> page, limit |-> limit]
    BY <1>1 DEF SearchFilters
<1>8. /\ text(Parse(q).gender) \in {None} \cup Text
      /\ text(Parse(q).group) \in {None} \cup Text
      /\ text(Parse(q).country) \in {None} \cup Text
    BY <1>2, <1>3, <1>6
<1>. HIDE DEF q, text
<1>9. SearchFilters(q, page, limit) \in Filters
    BY <1>4, <1>5, <1>7, <1>8 DEF Filters
<1>. QED
    BY <1>9 DEF q
-----------------------------------------------------------------------------
(* Filters, keys and pages. *)

\* What the WHERE clause and the sort look at is that of the key.
LEMMA CanonicalFields ==
    ASSUME NEW f \in Filters
    PROVE  LET k == Canonical(f) IN
           /\ k.gender = Lowered(Stripped(f.gender))
           /\ k.group = Lowered(Stripped(f.group))
           /\ k.country = Lowered(Stripped(f.country))
           /\ k.minAge = f.minAge /\ k.maxAge = f.maxAge
           /\ k.sortBy = f.sortBy /\ k.order = f.order
           /\ k.page = f.page /\ k.limit = f.limit
BY DEF Canonical, Filters

\* Capitals and blanks are folded one after the other.
LEMMA TextFolds ==
    ASSUME NEW t \in {None} \cup Text, NEW u \in {None} \cup Text
    PROVE  /\ Lowered(t) = Lowered(u) =>
                Lowered(Stripped(t)) = Lowered(Stripped(u))
           /\ /\ Lowered(Stripped(t)) = Lowered(Stripped(u))
              /\ ~(t # None /\ t.blanks) /\ ~(u # None /\ u.blanks)
              => /\ Lowered(t) = Lowered(u)
                 /\ (t = None) <=> (u = None)
<1>1. CASE t = None /\ u = None
    BY <1>1 DEF Lowered, Stripped
<1>2. ASSUME NEW a \in Text
      PROVE  /\ a # None /\ Stripped(a) \in Text /\ Lowered(a) \in Text
             /\ Stripped(a) = [a EXCEPT !.blanks = FALSE]
             /\ Lowered(a) = [a EXCEPT !.upper = FALSE]
             /\ Lowered(a) # None /\ Stripped(a) # None
             /\ Lowered(Stripped(a)) \in Text
             /\ Lowered(Stripped(a)) # None
             /\ ~a.blanks => Stripped(a) = a
             /\ Lowered(Stripped(a)) = [Lowered(a) EXCEPT !.blanks = FALSE]
    BY NoneAssumption DEF Lowered, Stripped, Text
<1>3. Lowered(None) = None /\ Stripped(None) = None
    BY DEF Lowered, Stripped
<1>4. CASE t = None /\ u \in Text
    BY <1>2, <1>3, <1>4
<1>5. CASE u = None /\ t \in Text
    BY <1>2, <1>3, <1>5
<1>6. CASE u \in Text /\ t \in Text
    BY <1>2, <1>6
<1>. QED
    BY <1>1, <1>4, <1>5, <1>6

\* f and g ask for the same rows in the same order.
Alike(f, g) ==
    /\ \A p : Selects(f, p) = Selects(g, p)
    /\ \A p : SortKey(f, p) = SortKey(g, p)
    /\ f.order = g.order

LEMMA AlikeIsEnough ==
    ASSUME NEW f, NEW g, Alike(f, g)
    PROVE  /\ Selected(f) = Selected(g)
           /\ \A S : Orders(f, S) = Orders(g, S)
           /\ \A S : NoTies(f, S) = NoTies(g, S)
           /\ \A S, b : Rank(f, S, b) = Rank(g, S, b)
<1>1. Selected(f) = Selected(g)
    BY DEF Alike, Selected
<1>2. \A p, q : InOrder(f, p, q) = InOrder(g, p, q)
    BY DEF Alike, InOrder
<1>3. \A S : Orders(f, S) = Orders(g, S)
    BY <1>2 DEF Orders
<1>4. \A S : NoTies(f, S) = NoTies(g, S)
    BY DEF Alike, NoTies
<1>5. \A S, b : Rank(f, S, b) = Rank(g, S, b)
    <2>1. \A S, b : {q \in S : InOrder(f, q, b)} = {q \in S : InOrder(g, q, b)}
        BY <1>2
    <2>. QED
        BY <2>1 DEF Rank
<1>. QED
    BY <1>1, <1>3, <1>4, <1>5

\* Another page of the same list.
LEMMA OtherPage ==
    ASSUME NEW f \in Filters, NEW n \in Nat \ {0}
    PROVE  LET g == [f EXCEPT !.page = n] IN
           /\ g \in Filters /\ Alike(f, g)
           /\ g.page = n /\ g.limit = f.limit
<1>. DEFINE g == [f EXCEPT !.page = n]
<1>1. /\ g \in Filters /\ g.page = n /\ g.limit = f.limit
      /\ g.gender = f.gender /\ g.group = f.group /\ g.country = f.country
      /\ g.minAge = f.minAge /\ g.maxAge = f.maxAge
      /\ g.sortBy = f.sortBy /\ g.order = f.order
    BY DEF Filters
<1>. HIDE DEF g
<1>2. Alike(f, g)
    BY <1>1 DEF Alike, Selects, SortKey
<1>. QED
    BY <1>1, <1>2 DEF g

\* Without blanks, the key tells all that the query looks at.
LEMMA KeyTellsAll ==
    ASSUME NEW f \in Filters, NEW g \in Filters,
           Canonical(f) = Canonical(g), ~Blanks(f), ~Blanks(g)
    PROVE  Alike(f, g) /\ f.page = g.page /\ f.limit = g.limit
<1>1. /\ Lowered(Stripped(f.gender)) = Lowered(Stripped(g.gender))
      /\ Lowered(Stripped(f.group)) = Lowered(Stripped(g.group))
      /\ Lowered(Stripped(f.country)) = Lowered(Stripped(g.country))
      /\ f.minAge = g.minAge /\ f.maxAge = g.maxAge
      /\ f.sortBy = g.sortBy /\ f.order = g.order
      /\ f.page = g.page /\ f.limit = g.limit
    BY CanonicalFields
<1>2. /\ f.gender \in {None} \cup Text /\ g.gender \in {None} \cup Text
      /\ f.group \in {None} \cup Text /\ g.group \in {None} \cup Text
      /\ f.country \in {None} \cup Text /\ g.country \in {None} \cup Text
    BY DEF Filters
<1>3. \A t \in {f.gender, f.group, f.country, g.gender, g.group, g.country} :
        ~(t # None /\ t.blanks)
    BY DEF Blanks
<1>4. /\ Lowered(f.gender) = Lowered(g.gender)
      /\ (f.gender = None) <=> (g.gender = None)
    BY <1>1, <1>2, <1>3, TextFolds
<1>5. /\ Lowered(f.group) = Lowered(g.group)
      /\ (f.group = None) <=> (g.group = None)
    BY <1>1, <1>2, <1>3, TextFolds
<1>6. /\ Lowered(f.country) = Lowered(g.country)
      /\ (f.country = None) <=> (g.country = None)
    BY <1>1, <1>2, <1>3, TextFolds
<1>7. \A p : Selects(f, p) = Selects(g, p)
    BY <1>1, <1>4, <1>5, <1>6 DEF Selects
<1>8. \A p : SortKey(f, p) = SortKey(g, p)
    BY <1>1 DEF SortKey
<1>. QED
    BY <1>1, <1>7, <1>8 DEF Alike
LEMMA OffsetTypes ==
    ASSUME NEW f \in Filters
    PROVE  /\ f.limit \in Nat /\ f.limit > 0
           /\ f.page \in Nat /\ f.page > 0
           /\ f.page * f.limit \in Nat /\ (f.page - 1) * f.limit \in Nat
           /\ (f.page - 1) * f.limit + f.limit = f.page * f.limit
<1>1. f.limit \in Nat /\ f.limit > 0 /\ f.page \in Nat /\ f.page > 0
    BY DEF Filters
<1>2. \A a, b \in Nat : a > 0 => /\ a * b \in Nat /\ (a - 1) * b \in Nat
                                 /\ (a - 1) * b + b = a * b
    OBVIOUS
<1>. QED
    BY <1>1, <1>2

\* An order of a finite set is a sequence with all of it.
LEMMA OrderTypes ==
    ASSUME NEW f, NEW S \in SUBSET Stock, NEW s \in Orders(f, S)
    PROVE  /\ IsFiniteSet(S) /\ Cardinality(S) \in Nat
           /\ s \in Seq(Stock) /\ Len(s) = Cardinality(S)
           /\ s \in [1..Len(s) -> S]
           /\ \A p \in S : \E i \in 1..Len(s) : s[i] = p
<1>. DEFINE n == Cardinality(S)
<1>1. IsFiniteSet(S) /\ n \in Nat
    BY StockAssumption, FS_Subset, FS_CardinalityType
<1>2. s \in [1..n -> S]
    BY DEF Orders
<1>3. s \in Seq(Stock) /\ Len(s) = n
    <2>1. s \in Seq(S) /\ Len(s) = n
        BY <1>1, <1>2
    <2>. QED
        BY <2>1, SeqMonotonic
<1>4. s \in Injection(1..n, S)
    <2>1. \A i, j \in 1..n : i < j => s[i] # s[j]
        BY DEF Orders
    <2>2. \A i, j \in 1..n : s[i] = s[j] => i = j
        BY <1>1, <2>1
    <2>. QED
        BY <1>2, <2>2 DEF Injection, IsInjective
<1>5. s \in Surjection(1..n, S)
    <2>1. Cardinality(1..n) = n /\ IsFiniteSet(1..n)
        BY <1>1, FS_Interval
    <2>. QED
        BY <1>1, <1>4, <2>1, FS_Injection
<1>6. \A p \in S : \E i \in 1..n : s[i] = p
    BY <1>5 DEF Surjection
<1>. QED
    BY <1>1, <1>2, <1>3, <1>6

\* A page is the stretch of the order between two offsets.
LEMMA PageTypes ==
    ASSUME NEW f \in Filters, NEW s \in Seq(Stock)
    PROVE  LET k == (f.page - 1) * f.limit
               m == IF k + f.limit <= Len(s) THEN k + f.limit ELSE Len(s)
           IN  /\ Page(f, s) = SubSeq(s, k + 1, m)
               /\ Page(f, s) \in Seq(Stock)
               /\ Len(Page(f, s)) = IF k < m THEN m - k ELSE 0
               /\ Len(Page(f, s)) <= f.limit
               /\ \A i \in k + 1..m : Page(f, s)[i - k] = s[i]
<1>. DEFINE k == (f.page - 1) * f.limit
            m == IF k + f.limit <= Len(s) THEN k + f.limit ELSE Len(s)
<1>1. /\ k \in Nat /\ f.limit \in Nat /\ k + f.limit = f.page * f.limit
      /\ Len(s) \in Nat
    BY OffsetTypes, LenProperties
<1>2. Page(f, s) = SubSeq(s, k + 1, m)
    BY <1>1 DEF Page
<1>. HIDE DEF k
<1>3. m \in Nat /\ m <= Len(s) /\ m <= k + f.limit
    BY <1>1
<1>. HIDE DEF m
<1>4. \A i \in k + 1..m : s[i] \in Stock
    BY <1>1, <1>3, ElementOfSeq
<1>5. /\ SubSeq(s, k + 1, m) \in Seq(Stock)
      /\ Len(SubSeq(s, k + 1, m)) = IF k + 1 <= m THEN m - (k + 1) + 1 ELSE 0
      /\ \A i \in 1..m - (k + 1) + 1 :
            SubSeq(s, k + 1, m)[i] = s[k + 1 + i - 1]
    BY <1>1, <1>3, <1>4, SubSeqProperties
<1>6. /\ Len(Page(f, s)) = IF k < m THEN m - k ELSE 0
      /\ Len(Page(f, s)) <= f.limit
    BY <1>1, <1>2, <1>3, <1>5
<1>7. ASSUME NEW i \in k + 1..m
      PROVE  Page(f, s)[i - k] = s[i]
    <2>1. i - k \in 1..m - (k + 1) + 1 /\ k + 1 + (i - k) - 1 = i
        BY <1>1, <1>3
    <2>. QED
        BY <1>2, <1>5, <2>1
<1>. QED
    BY <1>2, <1>5, <1>6, <1>7 DEF k, m

\* What get_profiles returns.
LEMMA AnswerTypes ==
    ASSUME NEW f \in Filters, rows \subseteq Stock, NEW a \in Answers(f)
    PROVE  /\ a.data \in Seq(Stock) /\ Len(a.data) <= f.limit
           /\ a.total = Cardinality(Selected(f))
           /\ a.total \in Nat /\ a.total <= Cardinality(Stock)
           /\ a = [data |-> a.data, total |-> a.total]
           /\ \E s \in Orders(f, Selected(f)) : a.data = Page(f, s)
<1>1. PICK s \in Orders(f, Selected(f)) :
            a = [data |-> Page(f, s), total |-> Len(s)]
    BY DEF Answers
<1>2. Selected(f) \in SUBSET Stock
    BY DEF Selected
<1>3. s \in Seq(Stock) /\ Len(s) = Cardinality(Selected(f)) /\ Len(s) \in Nat
    BY <1>2, OrderTypes
<1>4. Cardinality(Selected(f)) <= Cardinality(Stock)
    BY <1>2, StockAssumption, FS_Subset
<1>5. Page(f, s) \in Seq(Stock) /\ Len(Page(f, s)) <= f.limit
    BY <1>3, PageTypes
<1>. QED
    BY <1>1, <1>3, <1>4, <1>5
-----------------------------------------------------------------------------
(* Ranks: without ties, there is one order. *)

LEMMA KeyTypes ==
    ASSUME NEW f, NEW p \in Stock
    PROVE  SortKey(f, p) \in Nat
BY StockAssumption DEF SortKey

\* The row at position i has rank i.
LEMMA RankIsPosition ==
    ASSUME NEW f, NEW S \in SUBSET Stock, NoTies(f, S),
           NEW s \in Orders(f, S), NEW i \in 1..Len(s)
    PROVE  Rank(f, S, s[i]) = i
<1>. DEFINE upto == {q \in S : InOrder(f, q, s[i])}
            at == [j \in 1..i |-> s[j]]
<1>1. /\ Len(s) \in Nat /\ \A j \in 1..Len(s) : s[j] \in S
      /\ \A p \in S : \E j \in 1..Len(s) : s[j] = p
      /\ Len(s) = Cardinality(S)
    BY OrderTypes
<1>2. /\ \A j, k \in 1..Len(s) : j < k => s[j] # s[k]
      /\ \A j, k \in 1..Len(s) : j < k => InOrder(f, s[j], s[k])
    BY <1>1 DEF Orders
<1>3. \A j \in 1..Len(s) : SortKey(f, s[j]) \in Nat
    BY <1>1, KeyTypes
<1>4. \A j \in 1..i : s[j] \in upto
    <2>1. \A j \in 1..i : InOrder(f, s[j], s[i])
        BY <1>1, <1>2, <1>3 DEF InOrder
    <2>. QED
        BY <1>1, <2>1
<1>5. ASSUME NEW q \in upto
      PROVE  \E j \in 1..i : s[j] = q
    <2>1. PICK j \in 1..Len(s) : s[j] = q
        BY <1>1
    <2>2. ASSUME j > i
          PROVE  FALSE
        <3>1. InOrder(f, s[i], s[j]) /\ InOrder(f, s[j], s[i])
            BY <1>2, <2>1, <2>2
        <3>2. SortKey(f, s[i]) = SortKey(f, s[j])
            BY <1>3, <3>1 DEF InOrder
        <3>3. s[i] = s[j]
            BY <1>1, <3>2 DEF NoTies
        <3>. QED
            BY <1>2, <2>2, <3>3
    <2>. QED
        BY <1>1, <2>1, <2>2
<1>6. at \in Bijection(1..i, upto)
    <2>1. at \in [1..i -> upto]
        BY <1>4
    <2>2. \A j, k \in 1..i : at[j] = at[k] => j = k
        BY <1>1, <1>2
    <2>3. \A q \in upto : \E j \in 1..i : at[j] = q
        BY <1>5
    <2>. HIDE DEF at, upto
    <2>. QED
        BY <2>1, <2>2, <2>3
            DEF Bijection, Injection, Surjection, IsInjective
<1>7. Cardinality(upto) = i
    <2>. HIDE DEF at, upto
    <2>1. ExistsBijection(1..i, upto)
        BY <1>6 DEF ExistsBijection
    <2>. QED
        BY <2>1, FS_CountingElements
<1>. QED
    BY <1>7 DEF Rank

\* A row that is added can only come before the others.
LEMMA RankGrows ==
    ASSUME NEW f, NEW T \in SUBSET Stock, NEW S \in SUBSET T, NEW b
    PROVE  Rank(f, S, b) <= Rank(f, T, b) /\ Rank(f, S, b) \in Nat
<1>1. IsFiniteSet({q \in T : InOrder(f, q, b)})
    BY StockAssumption, FS_Subset
<1>2. {q \in S : InOrder(f, q, b)} \in SUBSET {q \in T : InOrder(f, q, b)}
    OBVIOUS
<1>3. /\ Cardinality({q \in S : InOrder(f, q, b)})
            <= Cardinality({q \in T : InOrder(f, q, b)})
      /\ IsFiniteSet({q \in S : InOrder(f, q, b)})
    BY <1>1, <1>2, FS_Subset
<1>. QED
    BY <1>3, FS_CardinalityType DEF Rank

LEMMA RankIsPositive ==
    ASSUME NEW f, NEW S \in SUBSET Stock, NEW b \in S
    PROVE  Rank(f, S, b) \in Nat /\ Rank(f, S, b) > 0
<1>. DEFINE upto == {q \in S : InOrder(f, q, b)}
<1>1. b \in upto
    <2>1. SortKey(f, b) \in Nat
        BY KeyTypes
    <2>. QED
        BY <2>1 DEF InOrder
<1>2. IsFiniteSet(upto)
    BY StockAssumption, FS_Subset
<1>. HIDE DEF upto
<1>3. Cardinality(upto) \in Nat /\ Cardinality(upto) # 0
    BY <1>1, <1>2, FS_CardinalityType, FS_EmptySet
<1>. QED
    BY <1>3 DEF Rank, upto

LEMMA OneOrder ==
    ASSUME NEW f, NEW S \in SUBSET Stock, NoTies(f, S),
           NEW s \in Orders(f, S), NEW t \in Orders(f, S)
    PROVE  s = t
<1>1. /\ s \in Seq(Stock) /\ t \in Seq(Stock) /\ Len(s) = Len(t)
      /\ \A i \in 1..Len(s) : s[i] \in S
      /\ \A p \in S : \E i \in 1..Len(t) : t[i] = p
    BY OrderTypes
<1>2. ASSUME NEW i \in 1..Len(s)
      PROVE  s[i] = t[i]
    <2>1. PICK j \in 1..Len(t) : t[j] = s[i]
        BY <1>1
    <2>2. Rank(f, S, s[i]) = i /\ Rank(f, S, t[j]) = j
        BY <2>1, RankIsPosition
    <2>. QED
        BY <2>1, <2>2
<1>. QED
    BY <1>1, <1>2, SeqEqual

\* math.ceil and "page < total_pages": whether rows are left.
LEMMA NextMeansMore ==
    ASSUME NEW f \in Filters, NEW total \in Nat
    PROVE  HasNext(f, total) <=> f.page * f.limit < total
<1>. DEFINE n == f.limit
            k == TotalPages(f, total)
<1>1. n \in Nat /\ n > 0 /\ f.page \in Nat /\ f.page * n \in Nat
    BY OffsetTypes
<1>2. /\ k \in Nat
      /\ total <= k * n /\ k * n < total + n
    <2>1. \A x, d \in Nat : d > 0 => /\ x \div d \in Nat
                                     /\ (x \div d) * d <= x
                                     /\ x < (x \div d) * d + d
        OBVIOUS
    <2>2. total + n - 1 \in Nat
        BY <1>1
    <2>3. k \in Nat /\ k * n <= total + n - 1 /\ total + n - 1 < k * n + n
        BY <1>1, <2>1, <2>2 DEF TotalPages
    <2>4. k * n \in Nat
        BY <1>1, <2>3
    <2>. HIDE DEF k, n
    <2>. QED
        BY <1>1, <2>3, <2>4
<1>3. \A a, b, d \in Nat : a <= b => a * d <= b * d
    OBVIOUS
<1>4. \A a, d \in Nat : (a + 1) * d = a * d + d
    OBVIOUS
<1>. HIDE DEF n, k
<1>5. k * n \in Nat
    BY <1>1, <1>2
<1>6. CASE f.page < k
    <2>1. (f.page + 1) * n <= k * n /\ (f.page + 1) * n = f.page * n + n
        BY <1>1, <1>2, <1>3, <1>4, <1>6
    <2>. QED
        BY <1>1, <1>2, <1>5, <1>6, <2>1 DEF HasNext, n, k
<1>7. CASE ~(f.page < k)
    <2>1. k * n <= f.page * n
        BY <1>1, <1>2, <1>3, <1>7
    <2>. QED
        BY <1>1, <1>2, <1>5, <1>7, <2>1 DEF HasNext, n, k
<1>. QED
    BY <1>6, <1>7
-----------------------------------------------------------------------------
(* Types, and the entries of the cache. *)

LEMMA SameAnswers ==
    ASSUME NEW f \in Filters, NEW g \in Filters,
           Canonical(f) = Canonical(g), ~Blanks(f), ~Blanks(g)
    PROVE  Answers(f) = Answers(g)
<1>1. Alike(f, g) /\ f.page = g.page /\ f.limit = g.limit
    BY KeyTellsAll
<1>2. Orders(f, Selected(f)) = Orders(g, Selected(g))
    BY <1>1, AlikeIsEnough
<1>3. \A s : Page(f, s) = Page(g, s)
    BY <1>1 DEF Page
<1>. QED
    BY <1>2, <1>3 DEF Answers

LEMMA QuietRows ==
    ASSUME NEW f, rows' = rows
    PROVE  Selected(f)' = Selected(f) /\ Answers(f)' = Answers(f)
<1>1. Selected(f)' = Selected(f)
    BY DEF Selected
<1>. QED
    BY <1>1 DEF Answers

LEMMA EntryStays ==
    ASSUME NEW j, NEW e, e = cache'[j], e.filled \in Filters,
           j = Canonical(e.filled), rows' = rows,
           [data |-> e.data, total |-> e.total] \in Answers(e.filled)
    PROVE  Entry(j)'
<1>1. [data |-> e.data, total |-> e.total] \in Answers(e.filled)'
    BY QuietRows
<1>. QED
    BY <1>1 DEF Entry, Answers, Selected

\* What a client is shown, from the cache or not, is a page of its request -
\* and if no blanks are involved, what the database would answer it now.
LEMMA Served ==
    ASSUME Base, NEW c \in Client, Hit(c) \/ Miss(c)
    PROVE  /\ pc[c] = "asked" /\ clean' \subseteq clean
           /\ UNCHANGED <<rows, asked, meant, walkVars>>
           /\ \E d \in Seq(Stock), t \in Nat :
                /\ Len(d) <= asked[c].limit /\ t <= Cardinality(Stock)
                /\ Goto(c, "shown")
                /\ answer' = [answer EXCEPT ![c] = [data |-> d, total |-> t]]
                /\ got' = [got EXCEPT ![c] = @ \o d]
                /\ c \in clean' =>
                        [data |-> d, total |-> t] \in Answers(asked[c])
<1>. DEFINE f == asked[c]
<1>1. f \in Filters /\ rows \subseteq Stock
    BY DEF Base, Types
<1>2. CASE Hit(c)
    <2>. DEFINE e == cache[Canonical(f)]
    <2>1. Entry(Canonical(f))
        BY <1>2 DEF Hit, Base
    <2>2. /\ e.filled \in Filters /\ Canonical(f) = Canonical(e.filled)
          /\ [data |-> e.data, total |-> e.total] \in Answers(e.filled)
        BY <2>1 DEF Entry
    <2>3. e.filled.limit = f.limit
        <3>. HIDE DEF f, e
        <3>. QED
            BY <1>1, <2>2, CanonicalFields
    <2>4. /\ e.data \in Seq(Stock) /\ Len(e.data) <= f.limit
          /\ e.total \in Nat /\ e.total <= Cardinality(Stock)
        <3>. HIDE DEF f
        <3>1. PICK g, a : /\ g = e.filled
                          /\ a = [data |-> e.data, total |-> e.total]
            OBVIOUS
        <3>. HIDE DEF e
        <3>2. a \in Answers(g) /\ g \in Filters
            BY <2>2, <3>1
        <3>3. /\ a.data \in Seq(Stock) /\ Len(a.data) <= g.limit
              /\ a.total \in Nat /\ a.total <= Cardinality(Stock)
            BY <1>1, <3>2, AnswerTypes
        <3>. QED
            BY <2>3, <3>1, <3>3
    <2>5. ASSUME c \in clean'
          PROVE  [data |-> e.data, total |-> e.total] \in Answers(f)
        <3>1. ~Blanks(f) /\ ~Blanks(e.filled)
            BY <1>2, <2>5 DEF Hit
        <3>. HIDE DEF f, e
        <3>. QED
            BY <1>1, <2>2, <3>1, SameAnswers
    <2>6. /\ Goto(c, "shown") /\ pc[c] = "asked" /\ clean' \subseteq clean
          /\ answer' = [answer EXCEPT ![c] =
                            [data |-> e.data, total |-> e.total]]
          /\ got' = [got EXCEPT ![c] = @ \o e.data]
          /\ UNCHANGED <<rows, asked, meant, walkVars>>
        BY <1>2 DEF Hit, Show
    <2>. HIDE DEF e
    <2>. QED
        BY <2>4, <2>5, <2>6
<1>3. CASE Miss(c)
    <2>1. PICK a \in Answers(f) : Show(c, a)
        BY <1>3 DEF Miss
    <2>2. /\ a.data \in Seq(Stock) /\ Len(a.data) <= f.limit
          /\ a.total \in Nat /\ a.total <= Cardinality(Stock)
          /\ a = [data |-> a.data, total |-> a.total]
        BY <1>1, AnswerTypes
    <2>3. /\ pc[c] = "asked" /\ clean' \subseteq clean
          /\ UNCHANGED <<rows, asked, meant, walkVars>>
        BY <1>3 DEF Miss
    <2>. QED
        BY <2>1, <2>2, <2>3 DEF Show
<1>. QED
    BY <1>2, <1>3

LEMMA RoomTypes ==
    ASSUME Types, NEW old \in Room
    PROVE  /\ DOMAIN old \subseteq DOMAIN cache
           /\ \A j \in DOMAIN old : old[j] = cache[j]
           /\ IsFiniteSet(DOMAIN old) /\ Cardinality(DOMAIN old) < MaxEntries
<1>1. IsFiniteSet(DOMAIN cache) /\ Cardinality(DOMAIN cache) <= MaxEntries
    BY DEF Types
<1>2. Cardinality(DOMAIN cache) \in Nat /\ MaxEntries \in Nat
    BY <1>1, FS_CardinalityType, PageAssumption
<1>3. CASE Cardinality(DOMAIN cache) < MaxEntries
    BY <1>1, <1>3 DEF Room
<1>4. CASE ~(Cardinality(DOMAIN cache) < MaxEntries)
    <2>1. PICK k \in DOMAIN cache : old = Without(k)
        BY <1>4 DEF Room
    <2>2. DOMAIN old = DOMAIN cache \ {k}
        BY <2>1 DEF Without
    <2>3. \A j \in DOMAIN old : old[j] = cache[j]
        BY <2>1 DEF Without
    <2>4. /\ IsFiniteSet(DOMAIN old)
          /\ Cardinality(DOMAIN old) = Cardinality(DOMAIN cache) - 1
        BY <1>1, <2>2, FS_RemoveElement
    <2>. QED
        BY <1>1, <1>2, <2>2, <2>3, <2>4
<1>. QED
    BY <1>3, <1>4

\* The part of the invariant about the cache.
CacheFine == /\ IsFiniteSet(DOMAIN cache)
             /\ Cardinality(DOMAIN cache) <= MaxEntries
             /\ \A k \in DOMAIN cache : Entry(k)

LEMMA MissCache ==
    ASSUME Base, NEW c \in Client, Miss(c)
    PROVE  CacheFine'
<1>. DEFINE f == asked[c]
            k == Canonical(f)
<1>1. f \in Filters /\ rows \subseteq Stock /\ rows' = rows
    BY DEF Base, Types, Miss
<1>2. PICK a \in Answers(f), old \in Room :
        cache' = With(old, k,
                      [data |-> a.data, total |-> a.total, filled |-> f])
    BY DEF Miss
<1>3. /\ DOMAIN old \subseteq DOMAIN cache
      /\ \A j \in DOMAIN old : old[j] = cache[j]
      /\ IsFiniteSet(DOMAIN old) /\ Cardinality(DOMAIN old) < MaxEntries
    BY RoomTypes DEF Base
<1>. HIDE DEF k
<1>4. DOMAIN cache' = DOMAIN old \cup {k}
    BY <1>2 DEF With
<1>5. IsFiniteSet(DOMAIN cache') /\ Cardinality(DOMAIN cache') <= MaxEntries
    <2>1. /\ IsFiniteSet(DOMAIN old \cup {k})
          /\ Cardinality(DOMAIN old \cup {k}) <= Cardinality(DOMAIN old) + 1
          /\ Cardinality(DOMAIN old) \in Nat
        <3>1. PICK D : D = DOMAIN old
            OBVIOUS
        <3>2. IsFiniteSet(D) /\ Cardinality(D) \in Nat
            BY <1>3, <3>1, FS_CardinalityType
        <3>3. /\ IsFiniteSet(D \cup {k})
              /\ Cardinality(D \cup {k}) = IF k \in D THEN Cardinality(D)
                                           ELSE Cardinality(D) + 1
            BY <3>2, FS_AddElement
        <3>. QED
            BY <3>1, <3>2, <3>3
    <2>2. Cardinality(DOMAIN old \cup {k}) \in Nat
        BY <2>1, FS_CardinalityType
    <2>. QED
        BY <1>3, <1>4, <2>1, <2>2, PageAssumption
<1>6. ASSUME NEW j \in DOMAIN cache'
      PROVE  Entry(j)'
    <2>1. CASE j = k
        <3>1. PICK e : e = [data |-> a.data, total |-> a.total, filled |-> f]
            OBVIOUS
        <3>2. cache'[j] = e
            BY <1>2, <1>4, <2>1, <3>1 DEF With
        <3>3. [data |-> e.data, total |-> e.total] \in Answers(e.filled)
            <4>1. a = [data |-> a.data, total |-> a.total]
                BY <1>1, AnswerTypes
            <4>2. e.data = a.data /\ e.total = a.total /\ e.filled = f
                BY <3>1
            <4>. QED
                BY <4>1, <4>2
        <3>4. e.filled \in Filters /\ j = Canonical(e.filled)
            BY <1>1, <2>1, <3>1 DEF k
        <3>. QED
            BY <1>1, <3>2, <3>3, <3>4, EntryStays
    <2>2. CASE j # k
        <3>1. j \in DOMAIN old /\ j \in DOMAIN cache
            BY <1>3, <1>4, <2>2
        <3>2. cache'[j] = cache[j]
            BY <1>2, <1>3, <2>2, <3>1 DEF With
        <3>3. PICK e : e = cache[j]
            OBVIOUS
        <3>4. Entry(j)
            BY <3>1 DEF Base
        <3>5. /\ e.filled \in Filters /\ j = Canonical(e.filled)
              /\ [data |-> e.data, total |-> e.total] \in Answers(e.filled)
            BY <3>3, <3>4 DEF Entry
        <3>. QED
            BY <1>1, <3>2, <3>3, <3>5, EntryStays
    <2>. QED
        BY <2>1, <2>2
<1>. QED
    BY <1>5, <1>6 DEF CacheFine

LEMMA ExpireCache ==
    ASSUME Base, NEW k \in DOMAIN cache, Expire(k)
    PROVE  CacheFine'
<1>1. cache' = Without(k) /\ rows' = rows
    BY DEF Expire
<1>2. DOMAIN cache' = DOMAIN cache \ {k}
    BY <1>1 DEF Without
<1>3. IsFiniteSet(DOMAIN cache') /\ Cardinality(DOMAIN cache') <= MaxEntries
    <2>1. /\ IsFiniteSet(DOMAIN cache) /\ Cardinality(DOMAIN cache) \in Nat
          /\ Cardinality(DOMAIN cache) <= MaxEntries
        BY FS_CardinalityType DEF Base, Types
    <2>2. /\ IsFiniteSet(DOMAIN cache \ {k})
          /\ Cardinality(DOMAIN cache \ {k}) = Cardinality(DOMAIN cache) - 1
        BY <2>1, FS_RemoveElement
    <2>. QED
        BY <1>2, <2>1, <2>2, PageAssumption
<1>4. ASSUME NEW j \in DOMAIN cache'
      PROVE  Entry(j)'
    <2>1. j \in DOMAIN cache /\ cache'[j] = cache[j]
        BY <1>1, <1>2 DEF Without
    <2>2. PICK e : e = cache[j]
        OBVIOUS
    <2>3. Entry(j)
        BY <2>1 DEF Base
    <2>4. /\ e.filled \in Filters /\ j = Canonical(e.filled)
          /\ [data |-> e.data, total |-> e.total] \in Answers(e.filled)
        BY <2>2, <2>3 DEF Entry
    <2>. QED
        BY <1>1, <2>1, <2>2, <2>4, EntryStays
<1>. QED
    BY <1>3, <1>4 DEF CacheFine

LEMMA SameCache ==
    ASSUME Base, cache' = cache, rows' = rows
    PROVE  CacheFine'
<1>1. ASSUME NEW j \in DOMAIN cache'
      PROVE  Entry(j)'
    <2>1. PICK e : e = cache[j]
        OBVIOUS
    <2>2. Entry(j)
        BY DEF Base
    <2>3. /\ e.filled \in Filters /\ j = Canonical(e.filled)
          /\ [data |-> e.data, total |-> e.total] \in Answers(e.filled)
        BY <2>1, <2>2 DEF Entry
    <2>. QED
        BY <2>1, <2>3, EntryStays
<1>. QED
    BY <1>1 DEF Base, Types, CacheFine

LEMMA FlushedCache ==
    ASSUME cache' = <<>>
    PROVE  CacheFine'
<1>1. DOMAIN cache' = {}
    OBVIOUS
<1>. QED
    BY <1>1, FS_EmptySet, PageAssumption DEF CacheFine
\* A request is refused, or starts out with proper filters.
LEMMA Requests ==
    ASSUME NEW c \in Client, NEW p \in Pages,
           \/ \E f \in Lists : List(c, f, p)
           \/ \E s \in Searches : Search(c, s, p)
    PROVE  (\E f \in Filters : \E m : Ask(c, f, m)) \/ UNCHANGED vars
<1>1. p[1] \in Nat \ {0} /\ p[2] \in Nat \ {0}
    BY PageAssumption
<1>2. ASSUME NEW f \in Lists, List(c, f, p)
      PROVE  (\E g \in Filters : \E m : Ask(c, g, m)) \/ UNCHANGED vars
    <2>1. f \in Filters
        BY QueryAssumption
    <2>2. [f EXCEPT !.page = p[1], !.limit = p[2]] \in Filters
        BY <1>1, <2>1 DEF Filters
    <2>. QED
        BY <1>2, <2>2 DEF List, Refused
<1>3. ASSUME NEW s \in Searches, Search(c, s, p)
      PROVE  (\E g \in Filters : \E m : Ask(c, g, m)) \/ UNCHANGED vars
    <2>1. SearchFilters(s.q, p[1], p[2]) \in Filters
        BY <1>1, SearchTypes
    <2>. QED
        BY <1>3, <2>1 DEF Search, NotUnderstood, Refused
<1>. QED
    BY <1>2, <1>3

LEMMA NothingTypes ==
    NoFilters \in Filters /\ NoAnswer \in [data : Seq(Stock), total : Nat]
        /\ Len(NoAnswer.data) = 0 /\ NoAnswer.total = 0
        /\ Cardinality(Stock) \in Nat
<1>1. NoFilters \in Filters
    BY DEF NoFilters, Filters
<1>2. /\ NoAnswer \in [data : Seq(Stock), total : Nat]
      /\ Len(NoAnswer.data) = 0 /\ NoAnswer.total = 0
    BY EmptySeq DEF NoAnswer
<1>. QED
    BY <1>1, <1>2, StockAssumption, FS_CardinalityType

LEMMA AskBase ==
    ASSUME Base, NEW c \in Client, NEW f \in Filters, NEW m, Ask(c, f, m)
    PROVE  Base'
<1>1. CacheFine'
    BY SameCache DEF Ask
<1>2. Types'
    <2>1. Selected(f) \in SUBSET Stock
        BY DEF Base, Types, Selected
    <2>. QED
        BY <1>1, <2>1 DEF Base, Types, CacheFine, Ask
<1>3. Fits'
    <2>1. /\ answer[c] = NoAnswer /\ f.limit \in Nat
          /\ answer' = answer /\ got' = got /\ pc'[c] = "asked"
          /\ asked'[c] = f
        BY DEF Base, Types, Fits, Ask, Filters
    <2>2. ASSUME NEW d \in Client, d # c
          PROVE  pc'[d] = pc[d] /\ asked'[d] = asked[d]
                 /\ (d \in whole' <=> d \in whole)
        BY <2>2 DEF Base, Types, Ask
    <2>. QED
        BY <2>1, <2>2, NothingTypes DEF Base, Fits
<1>. QED
    BY <1>1, <1>2, <1>3 DEF Base, CacheFine

LEMMA ServedBase ==
    ASSUME Base, NEW c \in Client, Hit(c) \/ Miss(c)
    PROVE  Base'
<1>1. CacheFine'
    BY SameCache, MissCache DEF Hit
<1>2. PICK d \in Seq(Stock), t \in Nat :
        /\ Len(d) <= asked[c].limit /\ t <= Cardinality(Stock)
        /\ Goto(c, "shown")
        /\ answer' = [answer EXCEPT ![c] = [data |-> d, total |-> t]]
        /\ got' = [got EXCEPT ![c] = @ \o d]
    BY Served
<1>3. UNCHANGED <<rows, asked, meant, walkVars>>
    BY Served
<1>4. got[c] \o d \in Seq(Stock)
    BY ConcatProperties DEF Base, Types
<1>5. Types'
    BY <1>1, <1>2, <1>3, <1>4 DEF Base, Types, CacheFine
<1>6. Fits'
    BY <1>2, <1>3 DEF Base, Types, Fits
<1>. QED
    BY <1>1, <1>5, <1>6 DEF Base, CacheFine

\* From page to page, a client keeps its filters.
LEMMA FollowFilters ==
    ASSUME Base, NEW c \in Client, FollowNext(c) \/ FollowPrev(c)
    PROVE  \E n \in Nat \ {0} :
            /\ asked' = [asked EXCEPT ![c] = [asked[c] EXCEPT !.page = n]]
            /\ FollowNext(c) => n = asked[c].page + 1
<1>1. asked[c] \in Filters /\ asked \in [Client -> Filters]
    BY DEF Base, Types
<1>2. asked[c].page \in Nat /\ asked[c].page > 0
    BY <1>1, OffsetTypes
<1>3. CASE FollowNext(c)
    <2>1. asked[c].page + 1 \in Nat \ {0}
        BY <1>2
    <2>2. asked' = [asked EXCEPT ![c] =
                        [asked[c] EXCEPT !.page = asked[c].page + 1]]
        BY <1>3 DEF FollowNext
    <2>. QED
        BY <2>1, <2>2
<1>4. CASE FollowPrev(c) /\ ~FollowNext(c)
    <2>1. asked[c].page - 1 \in Nat \ {0}
        BY <1>2, <1>4 DEF FollowPrev, HasPrev
    <2>. QED
        BY <1>1, <1>4, <2>1 DEF FollowPrev
<1>. QED
    BY <1>3, <1>4

LEMMA FollowBase ==
    ASSUME Base, NEW c \in Client, FollowNext(c) \/ FollowPrev(c)
    PROVE  Base'
<1>1. CacheFine'
    BY SameCache DEF FollowNext, FollowPrev
<1>2. PICK n \in Nat \ {0} :
        asked' = [asked EXCEPT ![c] = [asked[c] EXCEPT !.page = n]]
    BY FollowFilters
<1>3. /\ [asked[c] EXCEPT !.page = n] \in Filters
      /\ [asked[c] EXCEPT !.page = n].limit = asked[c].limit
    BY OtherPage DEF Base, Types
<1>4. /\ UNCHANGED <<rows, answer, base, growing, calm>>
      /\ pc' = [pc EXCEPT ![c] = "asked"]
      /\ whole' \subseteq whole
      /\ got' = got \/ got' = [got EXCEPT ![c] = <<>>]
    BY DEF FollowNext, FollowPrev
<1>5. Types'
    <2>1. asked' \in [Client -> Filters]
        BY <1>2, <1>3 DEF Base, Types
    <2>2. got' \in [Client -> Seq(Stock)]
        <3>1. <<>> \in Seq(Stock)
            BY EmptySeq, Zenon
        <3>2. got \in [Client -> Seq(Stock)]
            BY DEF Base, Types
        <3>3. CASE got' = got
            BY <3>2, <3>3
        <3>4. CASE got' = [got EXCEPT ![c] = <<>>]
            BY <3>1, <3>2, <3>4, Zenon
        <3>. QED
            BY <1>4, <3>3, <3>4
    <2>3. pc' \in [Client -> {"idle", "asked", "shown"}]
        BY <1>4 DEF Base, Types
    <2>. QED
        BY <1>1, <1>4, <2>1, <2>2, <2>3 DEF Base, Types, CacheFine
<1>6. Fits'
    <2>1. \A d \in Client : asked'[d].limit = asked[d].limit
        BY <1>2, <1>3 DEF Base, Types
    <2>. QED
        BY <1>4, <2>1 DEF Base, Types, Fits
<1>. QED
    BY <1>1, <1>5, <1>6 DEF Base, CacheFine

LEMMA LeaveBase ==
    ASSUME Base, NEW c \in Client, Leave(c)
    PROVE  Base'
<1>1. CacheFine'
    BY SameCache DEF Leave
<1>2. Types'
    BY <1>1, NothingTypes, EmptySeq DEF Base, Types, CacheFine, Leave
<1>3. Fits'
    <2>1. NoFilters.limit = 1
        BY DEF NoFilters
    <2>2. /\ asked'[c] = NoFilters /\ answer'[c] = NoAnswer
          /\ got'[c] = <<>> /\ c \notin whole'
        BY DEF Base, Types, Leave
    <2>3. ASSUME NEW d \in Client, d # c
          PROVE  /\ pc'[d] = pc[d] /\ asked'[d] = asked[d]
                 /\ answer'[d] = answer[d] /\ got'[d] = got[d]
                 /\ (d \in whole' <=> d \in whole)
        BY <2>3 DEF Base, Types, Leave
    <2>. QED
        BY <2>1, <2>2, <2>3, NothingTypes DEF Base, Fits
<1>. QED
    BY <1>1, <1>2, <1>3 DEF Base, CacheFine

LEMMA BaseStep ==
    ASSUME Base, [Next]_vars
    PROVE  Base'
<1>1. CASE UNCHANGED vars
    <2>1. CacheFine'
        BY <1>1, SameCache DEF vars
    <2>. QED
        BY <1>1, <2>1 DEF vars, Base, Types, Fits, CacheFine
<1>2. ASSUME NEW c \in Client, NEW p \in Pages,
             \/ \E f \in Lists : List(c, f, p)
             \/ \E s \in Searches : Search(c, s, p)
      PROVE  Base'
    BY <1>1, <1>2, Requests, AskBase
<1>3. ASSUME NEW c \in Client,
             Hit(c) \/ Miss(c) \/ FollowNext(c) \/ FollowPrev(c) \/ Leave(c)
      PROVE  Base'
    BY <1>3, ServedBase, FollowBase, LeaveBase
<1>4. ASSUME NEW k \in DOMAIN cache, Expire(k)
      PROVE  Base'
    <2>1. CacheFine'
        BY <1>4, ExpireCache
    <2>. QED
        BY <1>4, <2>1 DEF Expire, Base, Types, Fits, CacheFine
<1>5. ASSUME NEW p \in Stock, Added(p) \/ Deleted(p)
      PROVE  Base'
    <2>1. CacheFine'
        BY <1>5, FlushedCache DEF Added, Deleted
    <2>2. Types'
        BY <1>5, <2>1 DEF Added, Deleted, Base, Types, CacheFine
    <2>3. Fits'
        BY <1>5 DEF Added, Deleted, Base, Fits
    <2>. QED
        BY <2>1, <2>2, <2>3 DEF Base, CacheFine
<1>. QED
    BY <1>1, <1>2, <1>3, <1>4, <1>5 DEF Next, ClientStep

LEMMA BaseInit ==
    ASSUME Init
    PROVE  Base
<1>1. DOMAIN cache = {}
    BY DEF Init
<1>2. IsFiniteSet(DOMAIN cache) /\ Cardinality(DOMAIN cache) <= MaxEntries
    BY <1>1, FS_EmptySet, PageAssumption
<1>3. Types
    BY <1>2, NothingTypes, EmptySeq DEF Init, Types
<1>4. Fits
    <2>1. NoFilters.limit = 1
        BY DEF NoFilters
    <2>. QED
        BY <2>1, NothingTypes DEF Init, Fits
<1>. QED
    BY <1>1, <1>3, <1>4 DEF Base

LEMMA Caches == Spec => []Base
<1>1. Init => Base
    BY BaseInit
<1>2. Base /\ [Next]_vars => Base'
    BY BaseStep
<1>. QED
    BY <1>1, <1>2, PTL DEF Spec

\* Every variable keeps its type, no page is longer than its limit, and the
\* cache never holds more than maxsize entries.
THEOREM TypesHold == Spec => []TypeOK
<1>1. Base => TypeOK
    <2>. SUFFICES ASSUME Base
                  PROVE  TypeOK
        OBVIOUS
    <2>1. ASSUME NEW c \in Client
          PROVE  /\ asked[c] \in Filters
                 /\ answer[c].data \in Seq(Stock) /\ got[c] \in Seq(Stock)
                 /\ answer[c].total \in 0..Cardinality(Stock)
                 /\ Len(answer[c].data) <= asked[c].limit
                 /\ base[c] \subseteq Stock
        BY NothingTypes DEF Base, Types, Fits
    <2>. QED
        BY <2>1 DEF Base, Types, TypeOK
<1>. QED
    BY <1>1, Caches, PTL

\* normalize.py: the key of a request is that of every entry that was filled
\* by a request which differs from it in capitals only.
THEOREM MeaningIsKey == Spec => []SameMeaningSameKey
<1>1. Base => SameMeaningSameKey
    <2>. SUFFICES ASSUME Base, NEW c \in Client, NEW k \in DOMAIN cache,
                         AsMeant(asked[c]) = AsMeant(cache[k].filled)
                  PROVE  Canonical(asked[c]) = k
        BY DEF SameMeaningSameKey
    <2>1. PICK f, g : f = asked[c] /\ g = cache[k].filled
        OBVIOUS
    <2>2. f \in Filters /\ g \in Filters /\ k = Canonical(g)
        BY <2>1 DEF Base, Types, Entry
    <2>3. AsMeant(f) = AsMeant(g)
        BY <2>1
    <2>4. /\ Lowered(f.gender) = Lowered(g.gender)
          /\ Lowered(f.group) = Lowered(g.group)
          /\ Lowered(f.country) = Lowered(g.country)
          /\ f.minAge = g.minAge /\ f.maxAge = g.maxAge
          /\ f.sortBy = g.sortBy /\ f.order = g.order
          /\ f.page = g.page /\ f.limit = g.limit
        BY <2>2, <2>3 DEF AsMeant, Filters
    <2>5. /\ f.gender \in {None} \cup Text /\ g.gender \in {None} \cup Text
          /\ f.group \in {None} \cup Text /\ g.group \in {None} \cup Text
          /\ f.country \in {None} \cup Text /\ g.country \in {None} \cup Text
        BY <2>2 DEF Filters
    <2>6. /\ Lowered(Stripped(f.gender)) = Lowered(Stripped(g.gender))
          /\ Lowered(Stripped(f.group)) = Lowered(Stripped(g.group))
          /\ Lowered(Stripped(f.country)) = Lowered(Stripped(g.country))
        BY <2>4, <2>5, TextFolds
    <2>7. Canonical(f) = Canonical(g)
        BY <2>2, <2>4, <2>6 DEF Canonical, Filters
    <2>. QED
        BY <2>1, <2>2, <2>7
<1>. QED
    BY <1>1, Caches, PTL

\* An entry answers a request that has blanks around no parameter, and was
\* filled by one that has none, with what the database would answer now.
THEOREM EntriesAnswer == Spec => []WrongNeedsBlanks
<1>1. Base => WrongNeedsBlanks
    <2>. SUFFICES ASSUME Base, NEW c \in Client,
                         Canonical(asked[c]) \in DOMAIN cache,
                         ~Blanks(asked[c]),
                         ~Blanks(cache[Canonical(asked[c])].filled)
                  PROVE  LET f == asked[c]
                             e == cache[Canonical(f)]
                         IN  /\ e.total = Cardinality(Selected(f))
                             /\ e.data \in {Page(f, s) :
                                    s \in Orders(f, Selected(f))}
        BY DEF WrongNeedsBlanks
    <2>1. PICK f, e : f = asked[c] /\ e = cache[Canonical(f)]
        OBVIOUS
    <2>2. f \in Filters /\ rows \subseteq Stock
        BY <2>1 DEF Base, Types
    <2>3. /\ e.filled \in Filters /\ Canonical(f) = Canonical(e.filled)
          /\ [data |-> e.data, total |-> e.total] \in Answers(e.filled)
        BY <2>1 DEF Base, Entry
    <2>4. PICK a : a = [data |-> e.data, total |-> e.total]
        OBVIOUS
    <2>5. a \in Answers(f)
        BY <2>1, <2>2, <2>3, <2>4, SameAnswers
    <2>6. /\ a.total = Cardinality(Selected(f))
          /\ \E s \in Orders(f, Selected(f)) : a.data = Page(f, s)
        BY <2>2, <2>5, AnswerTypes
    <2>7. e.total = a.total /\ e.data = a.data
        BY <2>4
    <2>. QED
        BY <2>1, <2>6, <2>7
<1>. QED
    BY <1>1, Caches, PTL
-----------------------------------------------------------------------------
(* The steps of a walk. *)

LEMMA WalkStarts ==
    ASSUME NEW f \in Filters, f.page = 1, NEW S \in SUBSET Stock, NEW a
    PROVE  /\ Linked("asked", f, a, S)
           /\ Ahead("asked", f, a, <<>>, S, S)
           /\ Quiet("asked", f, a, <<>>, S)
<1>1. Behind("asked", f) = 0
    BY OffsetTypes DEF Behind
<1>2. Linked("asked", f, a, S)
    BY DEF Linked
<1>3. Ahead("asked", f, a, <<>>, S, S)
    BY <1>1, RankIsPositive DEF Ahead
<1>4. ASSUME NEW s \in Orders(f, S)
      PROVE  <<>> = SubSeq(s, 1, IF 0 <= Len(s) THEN 0 ELSE Len(s))
    <2>1. 0 <= Len(s)
        BY OrderTypes, LenProperties
    <2>2. SubSeq(s, 1, 0) = <<>>
        BY SubSeqEmpty
    <2>. QED
        BY <2>1, <2>2
<1>. QED
    BY <1>1, <1>2, <1>3, <1>4 DEF Quiet

\* A page arrives that the database has or would have served now.
LEMMA WalkShows ==
    ASSUME NEW f \in Filters, NEW S \in SUBSET Stock, NEW s \in Orders(f, S),
           NEW a, a.data = Page(f, s), a.total = Len(s),
           NEW g \in Seq(Stock), NEW b, NEW old,
           Linked("asked", f, old, S)
    PROVE  /\ Linked("shown", f, a, S)
           /\ NoTies(f, S) /\ Ahead("asked", f, old, g, b, S) =>
                Ahead("shown", f, a, g \o a.data, b, S)
           /\ NoTies(f, S) /\ Quiet("asked", f, old, g, S) =>
                Quiet("shown", f, a, g \o a.data, S)
<1>. DEFINE k == (f.page - 1) * f.limit
            m == IF k + f.limit <= Len(s) THEN k + f.limit ELSE Len(s)
<1>1. /\ s \in Seq(Stock) /\ Len(s) = Cardinality(S) /\ Len(s) \in Nat
      /\ \A p \in S : \E i \in 1..Len(s) : s[i] = p
    BY OrderTypes
<1>2. /\ Page(f, s) = SubSeq(s, k + 1, m) /\ Page(f, s) \in Seq(Stock)
      /\ Len(Page(f, s)) = IF k < m THEN m - k ELSE 0
      /\ \A i \in k + 1..m : Page(f, s)[i - k] = s[i]
    BY <1>1, PageTypes
<1>3. /\ k \in Nat /\ f.limit \in Nat /\ f.limit > 0
      /\ f.page \in Nat /\ f.page > 0
      /\ k + f.limit = f.page * f.limit
      /\ Behind("asked", f) = k /\ Behind("shown", f) = k + f.limit
    BY OffsetTypes DEF Behind
<1>4. k <= Len(s) /\ (f.page > 1 => k < Len(s))
    <2>1. f.page > 1 => k < Len(s)
        BY <1>1, <1>3 DEF Linked
    <2>2. f.page = 1 => k = 0
        BY <1>3
    <2>. HIDE DEF k
    <2>. QED
        BY <1>1, <1>3, <2>1, <2>2
<1>5. m \in k..Len(s)
    <2>. HIDE DEF k
    <2>. QED
        BY <1>1, <1>3, <1>4
<1>6. Linked("shown", f, a, S)
    <2>1. ASSUME f.page > 1
          PROVE  a.data # <<>>
        <3>1. k < m
            <4>. HIDE DEF k
            <4>. QED
                BY <1>1, <1>3, <1>4, <2>1
        <3>2. Len(a.data) > 0
            <4>. HIDE DEF k, m
            <4>. QED
                BY <1>2, <1>3, <1>5, <3>1
        <3>. QED
            BY <3>2, EmptySeq
    <2>. QED
        BY <1>1, <2>1 DEF Linked
<1>7. ASSUME NoTies(f, S), Ahead("asked", f, old, g, b, S)
      PROVE  Ahead("shown", f, a, g \o a.data, b, S)
    <2>1. /\ Len(g \o a.data) = Len(g) + Len(a.data) /\ Len(g) \in Nat
          /\ \A i \in 1..Len(g) + Len(a.data) : (g \o a.data)[i] =
                    IF i <= Len(g) THEN g[i] ELSE a.data[i - Len(g)]
        BY <1>2, ConcatProperties, LenProperties
    <2>2. RowsIn(g) \subseteq RowsIn(g \o a.data)
        <3>1. Len(a.data) \in Nat
            BY <1>2, LenProperties
        <3>. QED
            BY <2>1, <3>1 DEF RowsIn
    <2>3. ASSUME NEW i \in k + 1..m
          PROVE  s[i] \in RowsIn(g \o a.data)
        <3>. HIDE DEF k, m
        <3>1. /\ i - k \in 1..Len(a.data) /\ a.data[i - k] = s[i]
              /\ Len(a.data) \in Nat
            BY <1>1, <1>2, <1>3, <1>5
        <3>2. PICK j : j = Len(g) + (i - k)
            OBVIOUS
        <3>3. /\ j \in 1..Len(g) + Len(a.data)
              /\ j - Len(g) = i - k /\ ~(j <= Len(g))
            BY <1>3, <1>5, <2>1, <3>1, <3>2
        <3>4. (g \o a.data)[j] = s[i]
            BY <2>1, <3>1, <3>3
        <3>. QED
            BY <2>1, <3>3, <3>4 DEF RowsIn
    <2>4. ASSUME NEW p \in b, Rank(f, S, p) <= k + f.limit
          PROVE  p \in RowsIn(g \o a.data)
        <3>1. PICK i \in 1..Len(s) : s[i] = p
            BY <1>1, <1>7 DEF Ahead
        <3>2. Rank(f, S, p) = i
            BY <1>7, <3>1, RankIsPosition
        <3>3. CASE i <= k
            BY <1>3, <1>7, <2>2, <3>2, <3>3 DEF Ahead
        <3>4. CASE i > k
            <4>1. i \in k + 1..m
                <5>. HIDE DEF k
                <5>. QED
                    BY <1>1, <1>3, <2>4, <3>2, <3>4
            <4>. QED
                BY <2>3, <3>1, <4>1
        <3>. QED
            BY <1>3, <3>3, <3>4
    <2>5. ASSUME ~HasNext(f, a.total)
          PROVE  b \subseteq RowsIn(g \o a.data)
        <3>1. Len(s) <= k + f.limit
            BY <1>1, <1>3, <2>5, NextMeansMore
        <3>2. ASSUME NEW p \in b
              PROVE  Rank(f, S, p) <= k + f.limit
            <4>1. PICK i \in 1..Len(s) : s[i] = p
                BY <1>1, <1>7 DEF Ahead
            <4>2. Rank(f, S, p) = i
                BY <1>7, <4>1, RankIsPosition
            <4>. HIDE DEF k
            <4>. QED
                BY <1>1, <1>3, <3>1, <4>2
        <3>. QED
            BY <2>4, <3>2
    <2>. QED
        BY <1>3, <1>7, <2>4, <2>5 DEF Ahead
<1>8. ASSUME NoTies(f, S), Quiet("asked", f, old, g, S)
      PROVE  Quiet("shown", f, a, g \o a.data, S)
    <2>1. g = SubSeq(s, 1, k)
        BY <1>3, <1>4, <1>8 DEF Quiet
    <2>2. SubSeq(s, 1, k) \o SubSeq(s, k + 1, m) = SubSeq(s, 1, m)
        <3>. HIDE DEF k, m
        <3>1. 1 \in 1..Len(s) + 1 /\ k \in 1 - 1..Len(s) /\ m \in k..Len(s)
            BY <1>1, <1>3, <1>4, <1>5
        <3>. QED
            BY <1>1, <3>1, ConcatAdjacentSubSeq
    <2>3. g \o a.data = SubSeq(s, 1, m)
        BY <1>2, <2>1, <2>2
    <2>4. \A t \in Orders(f, S) : t = s
        BY <1>8, OneOrder
    <2>. QED
        BY <1>1, <1>3, <2>3, <2>4 DEF Quiet
<1>. QED
    BY <1>6, <1>7, <1>8

\* The link to the next page is followed.
LEMMA WalkFollows ==
    ASSUME NEW f \in Filters, NEW S \in SUBSET Stock,
           NEW a, a.total \in Nat, HasNext(f, a.total), NEW g, NEW b,
           NEW h, h = [f EXCEPT !.page = f.page + 1],
           Linked("shown", f, a, S)
    PROVE  /\ Linked("asked", h, a, S)
           /\ Ahead("shown", f, a, g, b, S) => Ahead("asked", h, a, g, b, S)
           /\ Quiet("shown", f, a, g, S) => Quiet("asked", h, a, g, S)
<1>1. f.page \in Nat /\ f.page + 1 \in Nat \ {0}
    BY OffsetTypes
<1>2. /\ h \in Filters /\ Alike(f, h)
      /\ h.page = f.page + 1 /\ h.limit = f.limit
    BY <1>1, OtherPage
<1>3. Behind("asked", h) = Behind("shown", f)
    BY <1>1, <1>2 DEF Behind
<1>4. Cardinality(S) \in Nat
    BY StockAssumption, FS_Subset, FS_CardinalityType
<1>5. Behind("shown", f) \in Nat /\ Behind("shown", f) < a.total
    BY NextMeansMore, OffsetTypes DEF Behind
<1>6. Linked("asked", h, a, S)
    BY <1>3, <1>4, <1>5 DEF Linked
<1>7. Orders(h, S) = Orders(f, S) /\ \A p : Rank(h, S, p) = Rank(f, S, p)
    BY <1>2, AlikeIsEnough
<1>8. Ahead("shown", f, a, g, b, S) => Ahead("asked", h, a, g, b, S)
    BY <1>3, <1>7 DEF Ahead
<1>9. Quiet("shown", f, a, g, S) => Quiet("asked", h, a, g, S)
    BY <1>3, <1>7 DEF Quiet
<1>. QED
    BY <1>6, <1>8, <1>9

\* A row is added: the others can only move away from the first page.
LEMMA WalkGrows ==
    ASSUME NEW f \in Filters, NEW T \in SUBSET Stock, NEW S \in SUBSET T,
           NEW st, NEW a, a.total \in Nat, NEW g, NEW b
    PROVE  /\ Linked(st, f, a, S) => Linked(st, f, a, T)
           /\ Ahead(st, f, a, g, b, S) => Ahead(st, f, a, g, b, T)
<1>1. /\ Cardinality(S) \in Nat /\ Cardinality(T) \in Nat
      /\ Cardinality(S) <= Cardinality(T)
    <2>1. IsFiniteSet(T) /\ S \in SUBSET T
        BY StockAssumption, FS_Subset
    <2>. QED
        BY <2>1, FS_Subset, FS_CardinalityType
<1>2. Behind(st, f) \in Nat
    BY OffsetTypes DEF Behind
<1>3. Linked(st, f, a, S) => Linked(st, f, a, T)
    BY <1>1, <1>2 DEF Linked
<1>4. ASSUME Ahead(st, f, a, g, b, S)
      PROVE  Ahead(st, f, a, g, b, T)
    <2>1. ASSUME NEW p \in b, Rank(f, T, p) <= Behind(st, f)
          PROVE  p \in RowsIn(g)
        <3>1. /\ Rank(f, S, p) <= Rank(f, T, p)
              /\ Rank(f, S, p) \in Nat /\ Rank(f, T, p) \in Nat
            BY RankGrows
        <3>2. Rank(f, S, p) <= Behind(st, f)
            BY <1>2, <2>1, <3>1
        <3>. QED
            BY <1>4, <3>2 DEF Ahead
    <2>. QED
        BY <1>4, <2>1 DEF Ahead
<1>. QED
    BY <1>3, <1>4
-----------------------------------------------------------------------------
(* What the steps of the system do to the walks. *)

LEMMA WalkGoesOn ==
    ASSUME NEW d, NEW f, f = asked'[d], NEW S, S = Selected(f)',
           Linked(pc'[d], f, answer'[d], S),
           NoTies(f, Stock) =>
                Ahead(pc'[d], f, answer'[d], got'[d], base'[d], S),
           d \in calm' /\ NoTies(f, S) =>
                Quiet(pc'[d], f, answer'[d], got'[d], S)
    PROVE  Walk(d, asked[d], Selected(asked[d]))'
<1>1. Walk(d, f, S)'
    BY DEF Walk
<1>. QED
    BY <1>1 DEF Walk, Selected

\* A step of others that writes nothing leaves a walk alone.
LEMMA WalkStays ==
    ASSUME IInv, NEW d \in whole \cap growing \cap clean,
           rows' = rows, pc'[d] = pc[d], asked'[d] = asked[d],
           answer'[d] = answer[d], got'[d] = got[d], base'[d] = base[d],
           d \in calm' => d \in calm
    PROVE  Walk(d, asked[d], Selected(asked[d]))'
<1>1. PICK f, S : f = asked[d] /\ S = Selected(f)
    OBVIOUS
<1>2. Walk(d, f, S)
    BY <1>1 DEF IInv
<1>3. S = Selected(f)'
    BY <1>1, QuietRows
<1>. QED
    BY <1>1, <1>2, <1>3, WalkGoesOn DEF Walk

LEMMA AskWalk ==
    ASSUME IInv, NEW c \in Client, NEW f \in Filters, NEW m, Ask(c, f, m),
           NEW d \in (whole \cap growing \cap clean)'
    PROVE  Walk(d, asked[d], Selected(asked[d]))'
<1>1. CASE d = c
    <2>1. c \notin whole /\ got[c] = <<>>
        BY DEF IInv, Base, Fits, Ask
    <2>2. f.page = 1
        BY <1>1, <2>1 DEF Ask
    <2>3. PICK S : S = Selected(f)
        OBVIOUS
    <2>4. S \in SUBSET Stock
        BY <2>3 DEF IInv, Base, Types, Selected
    <2>5. S = Selected(f)'
        BY <2>3, QuietRows DEF Ask
    <2>6. /\ asked'[c] = f /\ pc'[c] = "asked" /\ got'[c] = <<>>
          /\ base'[c] = S
        BY <2>1, <2>3 DEF Ask, IInv, Base, Types
    <2>. QED
        BY <1>1, <2>2, <2>4, <2>5, <2>6, WalkStarts, WalkGoesOn
<1>2. CASE d # c
    <2>1. d \in whole \cap growing \cap clean /\ d \in Client
        BY <1>2 DEF Ask, IInv, Base, Types
    <2>2. /\ rows' = rows /\ pc'[d] = pc[d] /\ asked'[d] = asked[d]
          /\ answer'[d] = answer[d] /\ got'[d] = got[d]
          /\ base'[d] = base[d] /\ (d \in calm' => d \in calm)
        BY <1>2, <2>1 DEF Ask, IInv, Base, Types
    <2>. QED
        BY <2>1, <2>2, WalkStays
<1>. QED
    BY <1>1, <1>2

LEMMA ServedWalk ==
    ASSUME IInv, NEW c \in Client, Hit(c) \/ Miss(c),
           NEW d \in (whole \cap growing \cap clean)'
    PROVE  Walk(d, asked[d], Selected(asked[d]))'
<1>1. PICK page \in Seq(Stock), t \in Nat :
        /\ Goto(c, "shown")
        /\ answer' = [answer EXCEPT ![c] = [data |-> page, total |-> t]]
        /\ got' = [got EXCEPT ![c] = @ \o page]
        /\ c \in clean' => [data |-> page, total |-> t] \in Answers(asked[c])
    BY Served DEF IInv
<1>2. /\ UNCHANGED <<rows, asked, meant, walkVars>>
      /\ pc[c] = "asked" /\ clean' \subseteq clean
    BY Served DEF IInv
<1>3. d \in whole \cap growing \cap clean /\ d \in Client
    BY <1>2 DEF IInv, Base, Types
<1>4. CASE d = c
    <2>1. PICK f, S : f = asked[c] /\ S = Selected(f)
        OBVIOUS
    <2>2. f \in Filters /\ S \in SUBSET Stock /\ rows \subseteq Stock
        BY <2>1 DEF IInv, Base, Types, Selected
    <2>3. PICK a : a = [data |-> page, total |-> t]
        OBVIOUS
    <2>4. a \in Answers(f)
        BY <1>1, <1>4, <2>1, <2>3
    <2>5. PICK s \in Orders(f, S) :
            a = [data |-> Page(f, s), total |-> Len(s)]
        BY <2>1, <2>4 DEF Answers
    <2>6. a.data = Page(f, s) /\ a.total = Len(s) /\ a.data = page
        BY <2>3, <2>5
    <2>7. PICK g, b, old : g = got[c] /\ b = base[c] /\ old = answer[c]
        OBVIOUS
    <2>8. /\ g \in Seq(Stock)
          /\ asked'[c] = f /\ S = Selected(f)' /\ pc'[c] = "shown"
          /\ answer'[c] = a /\ got'[c] = g \o a.data /\ base'[c] = b
          /\ c \in calm' => c \in calm
        BY <1>1, <1>2, <2>1, <2>3, <2>6, <2>7, QuietRows
            DEF IInv, Base, Types
    <2>9. /\ Linked("asked", f, old, S)
          /\ NoTies(f, Stock) => Ahead("asked", f, old, g, b, S)
          /\ c \in calm /\ NoTies(f, S) => Quiet("asked", f, old, g, S)
        BY <1>2, <1>3, <1>4, <2>1, <2>7 DEF IInv, Walk
    <2>10. NoTies(f, Stock) => NoTies(f, S)
        BY <2>2 DEF NoTies
    <2>11. /\ Linked("shown", f, a, S)
           /\ NoTies(f, Stock) => Ahead("shown", f, a, g \o a.data, b, S)
           /\ c \in calm /\ NoTies(f, S) =>
                Quiet("shown", f, a, g \o a.data, S)
        BY <2>2, <2>5, <2>6, <2>8, <2>9, <2>10, WalkShows
    <2>. QED
        BY <1>4, <2>8, <2>11, WalkGoesOn
<1>5. CASE d # c
    BY <1>1, <1>2, <1>3, <1>5, WalkStays DEF IInv, Base, Types
<1>. QED
    BY <1>4, <1>5

LEMMA NextWalk ==
    ASSUME IInv, NEW c \in Client, FollowNext(c),
           NEW d \in (whole \cap growing \cap clean)'
    PROVE  Walk(d, asked[d], Selected(asked[d]))'
<1>1. d \in whole \cap growing \cap clean /\ d \in Client
    BY DEF FollowNext, IInv, Base, Types
<1>2. CASE d = c
    <2>1. PICK f, S, h : /\ f = asked[c] /\ S = Selected(f)
                         /\ h = [f EXCEPT !.page = f.page + 1]
        OBVIOUS
    <2>2. /\ f \in Filters /\ S \in SUBSET Stock
          /\ f.page \in Nat /\ f.page + 1 \in Nat \ {0}
        <3>1. f \in Filters /\ S \in SUBSET Stock
            BY <2>1 DEF IInv, Base, Types, Selected
        <3>. QED
            BY <3>1, OffsetTypes
    <2>3. asked'[c] = h
        BY <2>1, FollowFilters DEF IInv, Base, Types
    <2>4. PICK a, g, b : a = answer[c] /\ g = got[c] /\ b = base[c]
        OBVIOUS
    <2>5. /\ rows' = rows /\ pc[c] = "shown" /\ pc'[c] = "asked"
          /\ answer'[c] = a /\ got'[c] = g /\ base'[c] = b
          /\ calm' = calm /\ a.total \in Nat /\ HasNext(f, a.total)
        BY <2>1, <2>4 DEF FollowNext, IInv, Base, Types
    <2>6. h \in Filters /\ Alike(f, h)
        BY <2>1, <2>2, OtherPage
    <2>7. /\ S = Selected(h)
          /\ NoTies(f, Stock) = NoTies(h, Stock)
          /\ NoTies(f, S) = NoTies(h, S)
        BY <2>1, <2>6, AlikeIsEnough
    <2>8. S = Selected(h)'
        BY <2>5, <2>7, QuietRows
    <2>9. /\ Linked("shown", f, a, S)
          /\ NoTies(f, Stock) => Ahead("shown", f, a, g, b, S)
          /\ c \in calm /\ NoTies(f, S) => Quiet("shown", f, a, g, S)
        BY <1>1, <1>2, <2>1, <2>4, <2>5 DEF IInv, Walk
    <2>10. /\ Linked("asked", h, a, S)
           /\ NoTies(f, Stock) => Ahead("asked", h, a, g, b, S)
           /\ c \in calm /\ NoTies(f, S) => Quiet("asked", h, a, g, S)
        BY <2>1, <2>2, <2>5, <2>9, WalkFollows
    <2>. QED
        BY <1>2, <2>3, <2>5, <2>7, <2>8, <2>10, WalkGoesOn
<1>3. CASE d # c
    BY <1>1, <1>3, WalkStays DEF FollowNext, IInv, Base, Types
<1>. QED
    BY <1>2, <1>3

LEMMA AddedWalk ==
    ASSUME IInv, NEW p \in Stock, Added(p),
           NEW d \in (whole \cap growing \cap clean)'
    PROVE  Walk(d, asked[d], Selected(asked[d]))'
<1>1. d \in whole \cap growing \cap clean /\ d \in Client
    BY DEF Added, IInv, Base, Types
<1>2. PICK f, S, T : f = asked[d] /\ S = Selected(f) /\ T = Selected(f)'
    OBVIOUS
<1>3. f \in Filters /\ T \in SUBSET Stock /\ S \in SUBSET T
    BY <1>1, <1>2 DEF Added, IInv, Base, Types, Selected
<1>4. PICK st, a, g, b : /\ st = pc[d] /\ a = answer[d]
                         /\ g = got[d] /\ b = base[d]
    OBVIOUS
<1>5. /\ asked'[d] = f /\ pc'[d] = st /\ answer'[d] = a /\ got'[d] = g
      /\ base'[d] = b /\ d \notin calm' /\ a.total \in Nat
    BY <1>1, <1>2, <1>4 DEF Added, IInv, Base, Types
<1>6. /\ Linked(st, f, a, S)
      /\ NoTies(f, Stock) => Ahead(st, f, a, g, b, S)
    BY <1>1, <1>2, <1>4 DEF IInv, Walk
<1>7. /\ Linked(st, f, a, T)
      /\ NoTies(f, Stock) => Ahead(st, f, a, g, b, T)
    BY <1>3, <1>5, <1>6, WalkGrows
<1>. QED
    BY <1>2, <1>5, <1>7, WalkGoesOn

LEMMA WalkStep ==
    ASSUME IInv, [Next]_vars,
           NEW d \in (whole \cap growing \cap clean)'
    PROVE  Walk(d, asked[d], Selected(asked[d]))'
<1>1. CASE UNCHANGED vars
    BY <1>1, WalkStays DEF vars
<1>2. ASSUME NEW c \in Client, NEW p \in Pages,
             \/ \E f \in Lists : List(c, f, p)
             \/ \E s \in Searches : Search(c, s, p)
      PROVE  Walk(d, asked[d], Selected(asked[d]))'
    BY <1>1, <1>2, Requests, AskWalk
<1>3. ASSUME NEW c \in Client, Hit(c) \/ Miss(c) \/ FollowNext(c)
      PROVE  Walk(d, asked[d], Selected(asked[d]))'
    BY <1>3, ServedWalk, NextWalk
<1>4. ASSUME NEW c \in Client, FollowPrev(c) \/ Leave(c)
      PROVE  Walk(d, asked[d], Selected(asked[d]))'
    <2>1. d # c /\ d \in whole \cap growing \cap clean /\ d \in Client
        BY <1>4 DEF FollowPrev, Leave, IInv, Base, Types
    <2>2. /\ rows' = rows /\ pc'[d] = pc[d] /\ asked'[d] = asked[d]
          /\ answer'[d] = answer[d] /\ got'[d] = got[d]
          /\ base'[d] = base[d] /\ (d \in calm' => d \in calm)
        BY <1>4, <2>1 DEF FollowPrev, Leave, IInv, Base, Types
    <2>. QED
        BY <2>1, <2>2, WalkStays
<1>5. ASSUME NEW k \in DOMAIN cache, Expire(k)
      PROVE  Walk(d, asked[d], Selected(asked[d]))'
    BY <1>5, WalkStays DEF Expire
<1>6. ASSUME NEW p \in Stock, Added(p) \/ Deleted(p)
      PROVE  Walk(d, asked[d], Selected(asked[d]))'
    BY <1>6, AddedWalk DEF Deleted
<1>. QED
    BY <1>1, <1>2, <1>3, <1>4, <1>5, <1>6 DEF Next, ClientStep

LEMMA Walks == Spec => []IInv
<1>1. Init => IInv
    BY BaseInit DEF Init, IInv
<1>2. IInv /\ [Next]_vars => IInv'
    BY BaseStep, WalkStep DEF IInv
<1>. QED
    BY <1>1, <1>2, PTL DEF Spec

\* A link leads to a page with rows as long as nothing is deleted: whatever
\* the total was when it was shown, that many rows are still there.
THEOREM LinksLeadToRows == Spec => []NextHasRows
<1>1. IInv => NextHasRows
    BY DEF IInv, Walk, Linked, NextHasRows
<1>. QED
    BY <1>1, Walks, PTL

\* The pages of a walk during which nothing is written are the pages of one
\* order, cut at its offsets: together they are what an export delivers.
THEOREM QuietWalkExports == Spec => []QuietWalkIsExport
<1>1. IInv => QuietWalkIsExport
    <2>. SUFFICES ASSUME IInv, NEW c \in whole \cap calm \cap clean,
                         Finished(c), NoTies(asked[c], Selected(asked[c]))
                  PROVE  got[c] \in Exports(asked[c])
        BY DEF QuietWalkIsExport
    <2>1. PICK f, S, a, g : /\ f = asked[c] /\ S = Selected(f)
                            /\ a = answer[c] /\ g = got[c]
        OBVIOUS
    <2>2. /\ c \in growing /\ c \in Client /\ f \in Filters
          /\ S \in SUBSET Stock
        BY <2>1 DEF IInv, Base, Types, Selected
    <2>3. Quiet("shown", f, a, g, S)
        BY <2>1, <2>2 DEF IInv, Walk, Finished
    <2>4. PICK s \in Orders(f, S) : TRUE
        BY <2>3 DEF Quiet
    <2>5. /\ s \in Seq(Stock) /\ Len(s) = Cardinality(S)
          /\ Cardinality(S) \in Nat
        BY <2>2, OrderTypes
    <2>6. Behind("shown", f) >= Len(s)
        BY <2>1, <2>2, <2>3, <2>5, NextMeansMore, OffsetTypes
            DEF Behind, Finished, Quiet
    <2>7. Behind("shown", f) \in Nat
        BY <2>2, OffsetTypes DEF Behind
    <2>8. g = SubSeq(s, 1, Len(s))
        BY <2>3, <2>5, <2>6, <2>7 DEF Quiet
    <2>9. g = s
        BY <2>5, <2>8, SubSeqFull
    <2>. QED
        BY <2>1, <2>9 DEF Exports
<1>. QED
    BY <1>1, Walks, PTL

\* A row that was in the list when a walk began, and is not on the pages it
\* has shown, ranks behind them: rows that are added push it back, never
\* forward past the reader.
THEOREM GrowingWalkSeesAll == Spec => []GrowingWalkMissesNothing
<1>1. IInv => GrowingWalkMissesNothing
    BY DEF IInv, Walk, Ahead, Finished, GrowingWalkMissesNothing
<1>. QED
    BY <1>1, Walks, PTL
-----------------------------------------------------------------------------
(* What becomes of a question. *)

\* Some pattern finds a range of ages at i, and no pattern finds another.
OneRange(q, i) == Between(q) \cup Ages(q) \cup Plain(q) = {i}

\* To the filters that are not about age, q and r look the same.
SoundAlike(q, r) ==
    /\ \A W \in {FemaleWords, MaleWords} : HasWord(q, W) <=> HasWord(r, W)
    /\ \A name \in DOMAIN CountryMap : HasPart(q, name) <=> HasPart(r, name)

\* Two questions that ask for the same two ages - with "between", "ages" or
\* neither, the larger one first or last, anywhere in the sentence - and name
\* the same genders and countries.
Rephrases(q, r) ==
    /\ SoundAlike(q, r)
    /\ \E i \in 1..Len(q), j \in 1..Len(r) :
        /\ OneRange(q, i) /\ OneRange(r, j)
        /\ {q[i].number, q[i + 2].number} = {r[j].number, r[j + 2].number}

\* The ages are those on either side of the connector, in their order.
LEMMA RangeFound ==
    ASSUME NEW q \in Tokens, NEW i, OneRange(q, i)
    PROVE  /\ q[i].number \in Nat /\ q[i + 2].number \in Nat
           /\ AgeRange(q) = IF q[i].number <= q[i + 2].number
                            THEN <<q[i].number, q[i + 2].number>>
                            ELSE <<q[i + 2].number, q[i].number>>
           /\ AgeRange(q) # <<>>
<1>. DEFINE S == IF Between(q) # {} THEN Between(q)
                 ELSE IF Ages(q) # {} THEN Ages(q) ELSE Plain(q)
<1>0. Len(q) \in Nat /\ \A k \in 1..Len(q) : q[k].number \in Nat
    BY TokenTypes
<1>1. S = {i}
    BY DEF OneRange
<1>2. i \in 1..Len(q) /\ i + 2 \in 1..Len(q)
    BY <1>0, <1>1 DEF Between, Ages, Plain, IsNumber
<1>3. First({i}) = i
    <2>1. {i} \in SUBSET Nat
        BY <1>0, <1>2
    <2>. QED
        BY <2>1, FirstIsIn
<1>4. AgeRange(q) = LET a == q[First(S)].number
                        b == q[First(S) + 2].number
                    IN  IF S = {} THEN <<>>
                        ELSE IF a <= b THEN <<a, b>> ELSE <<b, a>>
    BY DEF AgeRange
<1>. HIDE DEF S
<1>5. AgeRange(q) = IF q[i].number <= q[i + 2].number
                    THEN <<q[i].number, q[i + 2].number>>
                    ELSE <<q[i + 2].number, q[i].number>>
    BY <1>1, <1>3, <1>4
<1>. QED
    BY <1>0, <1>2, <1>5

\* They become the same filters.
LEMMA SameParse ==
    ASSUME NEW q \in Tokens, NEW r \in Tokens, Rephrases(q, r)
    PROVE  Parse(q) = Parse(r)
<1>0. PICK i \in 1..Len(q), j \in 1..Len(r) :
        /\ OneRange(q, i) /\ OneRange(r, j)
        /\ {q[i].number, q[i + 2].number} = {r[j].number, r[j + 2].number}
    BY DEF Rephrases
<1>1. AgeRange(q) = AgeRange(r) /\ AgeRange(q) # <<>>
    <2>1. PICK a \in Nat, b \in Nat :
            /\ a = q[i].number /\ b = q[i + 2].number
            /\ AgeRange(q) = IF a <= b THEN <<a, b>> ELSE <<b, a>>
            /\ AgeRange(q) # <<>>
        BY <1>0, RangeFound
    <2>2. PICK d \in Nat, e \in Nat :
            /\ d = r[j].number /\ e = r[j + 2].number
            /\ AgeRange(r) = IF d <= e THEN <<d, e>> ELSE <<e, d>>
        BY <1>0, RangeFound
    <2>3. (a = d /\ b = e) \/ (a = e /\ b = d)
        BY <1>0, <2>1, <2>2
    <2>4. CASE a = d /\ b = e
        BY <2>1, <2>2, <2>4
    <2>5. CASE a = e /\ b = d
        <3>1. CASE a = b
            BY <2>1, <2>2, <2>5, <3>1
        <3>2. CASE a # b
            <4>1. (a <= b) <=> ~(b <= a)
                BY <3>2
            <4>. QED
                BY <2>1, <2>2, <2>5, <4>1
        <3>. QED
            BY <3>1, <3>2
    <2>. QED
        BY <2>3, <2>4, <2>5
<1>2. GenderOf(q) = GenderOf(r)
    BY DEF Rephrases, SoundAlike, GenderOf
<1>3. CountryOf(q) = CountryOf(r)
    <2>1. \A k \in 1..Len(CountryOrder) : CountryOrder[k] \in DOMAIN CountryMap
        BY CountryAssumption
    <2>2. {k \in 1..Len(CountryOrder) : HasPart(q, CountryOrder[k])} =
          {k \in 1..Len(CountryOrder) : HasPart(r, CountryOrder[k])}
        BY <2>1 DEF Rephrases, SoundAlike
    <2>. QED
        BY <2>2 DEF CountryOf
<1>. QED
    BY <1>1, <1>2, <1>3 DEF Parse

\* Such searches ask for the same rows under the same key: the second finds
\* the first one's entry.
THEOREM RangePhrasingsAgree ==
    ASSUME NEW s \in Searches, NEW t \in Searches, Rephrases(s.q, t.q),
           NEW page, NEW limit
    PROVE  SearchFilters(s.q, page, limit) = SearchFilters(t.q, page, limit)
<1>1. s.q \in Tokens /\ t.q \in Tokens
    BY QueryAssumption DEF Tokens, Token
<1>2. Parse(s.q) = Parse(t.q)
    BY <1>1, SameParse
<1>3. Parsed[s.q] = Parse(s.q) /\ Parsed[t.q] = Parse(t.q)
    BY DEF Parsed
<1>. QED
    BY <1>2, <1>3 DEF SearchFilters

\* The parser finds what the author of each question means, or would if the
\* ages were put in another way.
ParserUnderstands ==
    \A s \in Searches : s.meant # None /\ Understood(Parsed[s.q]) =>
        \E t \in Searches : /\ s.q = t.q \/ Rephrases(s.q, t.q)
                           /\ SearchFilters(t.q, 1, 1) = s.meant

\* Filters without their page.
FirstOf(f) == [f EXCEPT !.page = 1, !.limit = 1]

MInv == meant = [c \in Client |-> meant[c]] /\ PhrasingsCollapse

LEMMA PageAside ==
    ASSUME NEW f \in Filters, NEW n \in Nat \ {0}
    PROVE  FirstOf([f EXCEPT !.page = n]) = FirstOf(f)
BY DEF Filters, FirstOf

LEMMA SearchAside ==
    ASSUME NEW s \in Searches, NEW page \in Nat \ {0}, NEW limit \in Nat \ {0}
    PROVE  FirstOf(SearchFilters(s.q, page, limit)) = SearchFilters(s.q, 1, 1)
<1>. DEFINE f == SearchFilters(s.q, page, limit)
            g == SearchFilters(s.q, 1, 1)
<1>1. f \in Filters /\ g \in Filters
    BY SearchTypes
<1>2. /\ f.gender = g.gender /\ f.group = g.group /\ f.country = g.country
      /\ f.minAge = g.minAge /\ f.maxAge = g.maxAge
      /\ f.sortBy = g.sortBy /\ f.order = g.order
      /\ g.page = 1 /\ g.limit = 1
    BY DEF SearchFilters
<1>. HIDE DEF f, g
<1>3. FirstOf(f) = g
    BY <1>1, <1>2 DEF FirstOf, Filters
<1>. QED
    BY <1>3 DEF f, g

\* A request starts out with the filters its question means.
LEMMA AskMeans ==
    ASSUME Base, MInv, NEW c \in Client, NEW f \in Filters, NEW m,
           Ask(c, f, m), m # None => FirstOf(f) = m
    PROVE  MInv'
<1>1. /\ asked' = [asked EXCEPT ![c] = f] /\ meant' = [meant EXCEPT ![c] = m]
      /\ asked \in [Client -> Filters]
    BY DEF Ask, Base, Types
<1>2. asked'[c] = f /\ meant'[c] = m
    BY <1>1 DEF MInv
<1>3. \A d \in Client \ {c} : asked'[d] = asked[d] /\ meant'[d] = meant[d]
    BY <1>1 DEF MInv
<1>4. meant' = [d \in Client |-> meant'[d]]
    BY <1>1 DEF MInv
<1>5. PhrasingsCollapse'
    BY <1>2, <1>3 DEF MInv, PhrasingsCollapse, FirstOf
<1>. QED
    BY <1>4, <1>5 DEF MInv

\* A step that keeps what is meant, and the filters but for the page.
LEMMA KeepsMeaning ==
    ASSUME MInv, UNCHANGED meant,
           \A c \in Client : FirstOf(asked'[c]) = FirstOf(asked[c])
    PROVE  MInv'
BY DEF MInv, PhrasingsCollapse, FirstOf

LEMMA MeaningStep ==
    ASSUME ParserUnderstands, Base, MInv, [Next]_vars
    PROVE  MInv'
<1>1. ASSUME NEW c \in Client, NEW p \in Pages, NEW f \in Lists, List(c, f, p)
      PROVE  MInv'
    <2>1. [f EXCEPT !.page = p[1], !.limit = p[2]] \in Filters
        BY QueryAssumption, PageAssumption DEF Filters
    <2>2. CASE UNCHANGED vars
        BY <2>2, KeepsMeaning DEF vars
    <2>. QED
        BY <1>1, <2>1, <2>2, AskMeans DEF List, Refused
<1>2. ASSUME NEW c \in Client, NEW p \in Pages, NEW s \in Searches,
             Search(c, s, p)
      PROVE  MInv'
    <2>1. CASE UNCHANGED vars
        BY <2>1, KeepsMeaning DEF vars
    <2>2. CASE /\ Understood(Parsed[s.q])
               /\ Ask(c, SearchFilters(s.q, p[1], p[2]), s.meant)
        <3>1. SearchFilters(s.q, p[1], p[2]) \in Filters
            BY PageAssumption, SearchTypes
        <3>2. s.meant # None =>
                FirstOf(SearchFilters(s.q, p[1], p[2])) = s.meant
            <4>1. s.meant # None => SearchFilters(s.q, 1, 1) = s.meant
                BY <2>2, RangePhrasingsAgree DEF ParserUnderstands
            <4>. QED
                BY <4>1, PageAssumption, SearchAside
        <3>. QED
            BY <2>2, <3>1, <3>2, AskMeans
    <2>. QED
        BY <1>2, <2>1, <2>2 DEF Search, NotUnderstood, Refused
<1>3. ASSUME NEW c \in Client, FollowNext(c) \/ FollowPrev(c)
      PROVE  MInv'
    <2>1. PICK n \in Nat \ {0} :
            asked' = [asked EXCEPT ![c] = [asked[c] EXCEPT !.page = n]]
        BY <1>3, FollowFilters
    <2>2. asked \in [Client -> Filters]
        BY DEF Base, Types
    <2>3. \A d \in Client : FirstOf(asked'[d]) = FirstOf(asked[d])
        BY <2>1, <2>2, PageAside
    <2>4. UNCHANGED meant
        BY <1>3 DEF FollowNext, FollowPrev
    <2>. QED
        BY <2>3, <2>4, KeepsMeaning
<1>4. ASSUME NEW c \in Client, Leave(c)
      PROVE  MInv'
    BY <1>4 DEF Leave, MInv, PhrasingsCollapse, Base, Types
<1>5. CASE \/ UNCHANGED vars
           \/ \E c \in Client : Hit(c) \/ Miss(c)
           \/ \E k \in DOMAIN cache : Expire(k)
           \/ \E p \in Stock : Added(p) \/ Deleted(p)
    <2>1. UNCHANGED <<asked, meant>>
        BY <1>5 DEF vars, Hit, Miss, Expire, Added, Deleted
    <2>. QED
        BY <2>1, KeepsMeaning
<1>. QED
    BY <1>1, <1>2, <1>3, <1>4, <1>5 DEF Next, ClientStep

\* If the parser finds what one way of putting each question means, every way
\* of putting it is answered so, up to the last page: no phrasing of the ages
\* changes the filters, and no parameter is lost, added or left over from
\* another request.
THEOREM MeaningSurvives ==
    ASSUME ParserUnderstands
    PROVE  Spec => []PhrasingsCollapse
<1>1. Init => MInv
    BY DEF Init, MInv, PhrasingsCollapse
<1>2. Base /\ MInv /\ [Next]_vars => MInv'
    BY MeaningStep
<1>3. MInv => PhrasingsCollapse
    BY DEF MInv
<1>. QED
    BY <1>1, <1>2, <1>3, Caches, PTL DEF Spec
=============================================================================
