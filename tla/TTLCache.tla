------------------------------ MODULE TTLCache ------------------------------
(***************************************************************************)
(* cachetools.TTLCache as query_cache.py and users.py use it: a value that *)
(* holds at most one entry per key, drops an entry TTL ticks after it was  *)
(* set (reading it does not renew it), and when full makes room by         *)
(* dropping one.  Each call runs under an asyncio.Lock that is never held  *)
(* across another await, so it is one step.                                *)
(***************************************************************************)
EXTENDS Naturals, FiniteSets

CONSTANTS
    Key,
    TTL,          \* lifetime of an entry, in ticks
    MaxEntries,   \* maxsize
    NoEntry

ASSUME CacheAssumption == TTL \in Nat \ {0} /\ MaxEntries \in Nat \ {0}

CacheOf(Value) == [Key -> [value : Value, age : 0..(TTL - 1)] \cup {NoEntry}]

EmptyCache == [k \in Key |-> NoEntry]

Hits(c) == {k \in Key : c[k] # NoEntry}

\* popitem picks the least recently used entry; which one that is stays open.
RoomFor(c, k) ==
    IF k \in Hits(c) \/ Cardinality(Hits(c)) < MaxEntries
    THEN {c}
    ELSE {[c EXCEPT ![old] = NoEntry] : old \in Hits(c)}

\* The caches that storing v under k may leave.
Stored(c, k, v) ==
    {[d EXCEPT ![k] = [value |-> v, age |-> 0]] : d \in RoomFor(c, k)}

Dropped(c, k) == [c EXCEPT ![k] = NoEntry]

\* Mutant of Aged: entries never expire.
NeverAged(c) == c

\* Mutant of Aged: entries live one tick too long.
AgedLate(c) ==
    [k \in Key |-> IF c[k] = NoEntry \/ c[k].age = TTL THEN NoEntry
                   ELSE [c[k] EXCEPT !.age = @ + 1]]

\* One tick later.
Aged(c) ==
    [k \in Key |-> IF c[k] = NoEntry \/ c[k].age + 1 = TTL THEN NoEntry
                   ELSE [c[k] EXCEPT !.age = @ + 1]]
=============================================================================
