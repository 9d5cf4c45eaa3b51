--------------------------- MODULE TTLCacheProofs ---------------------------
(* What the operators of TTLCache keep, for every size and lifetime. *)
EXTENDS TTLCache, TLAPS

\* Storing an entry keeps the cache's type and disturbs no other entry.
LEMMA StoredEntry ==
  ASSUME NEW V, NEW c \in CacheOf(V), NEW k \in Key, NEW v \in V,
         NEW d \in Stored(c, k, v)
  PROVE  /\ d \in CacheOf(V)
         /\ d[k].value = v
         /\ \A j \in Hits(d) \ {k} : j \in Hits(c) /\ d[j] = c[j]
<1> USE CacheAssumption DEF CacheOf
<1>1. PICK e \in RoomFor(c, k) : d = [e EXCEPT ![k] = [value |-> v, age |-> 0]]
  BY DEF Stored
<1>2. /\ e \in CacheOf(V)
      /\ \A j \in Hits(e) : j \in Hits(c) /\ e[j] = c[j]
  BY DEF RoomFor, Hits
<1>3. [value |-> v, age |-> 0] \in [value : V, age : 0..(TTL - 1)]
  OBVIOUS
<1> QED
  BY <1>1, <1>2, <1>3 DEF Hits

\* A tick drops entries or ages them, and changes no value.
LEMMA AgedEntries ==
  ASSUME NEW V, NEW c \in CacheOf(V)
  PROVE  /\ Aged(c) \in CacheOf(V)
         /\ \A j \in Hits(Aged(c)) :
                j \in Hits(c) /\ Aged(c)[j].value = c[j].value
<1> USE CacheAssumption DEF CacheOf, Aged, Hits
<1>1. \A j \in Key : c[j] # NoEntry /\ c[j].age + 1 # TTL =>
          /\ [c[j] EXCEPT !.age = @ + 1] \in [value : V, age : 0..(TTL - 1)]
          /\ [c[j] EXCEPT !.age = @ + 1].value = c[j].value
  OBVIOUS
<1> QED
  BY <1>1

\* Dropping an entry disturbs no other.
LEMMA DroppedEntry ==
  ASSUME NEW V, NEW c \in CacheOf(V), NEW k \in Key
  PROVE  /\ Dropped(c, k) \in CacheOf(V)
         /\ \A j \in Hits(Dropped(c, k)) :
                j # k /\ j \in Hits(c) /\ Dropped(c, k)[j] = c[j]
  BY DEF CacheOf, Dropped, Hits
\* A tick makes an entry it keeps one tick older, and keeps none past TTL.
LEMMA AgedAges ==
  ASSUME NEW V, NEW c \in CacheOf(V), NEW j \in Hits(Aged(c))
  PROVE  /\ j \in Hits(c)
         /\ Aged(c)[j].age = c[j].age + 1
         /\ Aged(c)[j].age < TTL
<1> USE CacheAssumption DEF CacheOf, Aged, Hits
<1>1. c[j] # NoEntry /\ c[j].age + 1 # TTL
  OBVIOUS
<1>2. c[j] \in [value : V, age : 0..(TTL - 1)]
  BY <1>1
<1>3. Aged(c)[j] = [c[j] EXCEPT !.age = @ + 1]
  BY <1>1
<1> QED
  BY <1>1, <1>2, <1>3
=============================================================================
