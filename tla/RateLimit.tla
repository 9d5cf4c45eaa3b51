----------------------------- MODULE RateLimit -----------------------------
(***************************************************************************)
(* RateLimitMiddleware: one deque of admission times per key.  dispatch    *)
(* runs to its verdict without an await, so a request is one step.         *)
(* Requests below other paths pass and leave no trace.                     *)
(***************************************************************************)
EXTENDS Integers, Sequences

CONSTANTS
    Ip, User,     \* client addresses, and subjects of valid access tokens
    Anonymous,    \* no such token
    AuthLimit, ApiLimit,
    Window,       \* WINDOW_SECONDS, in ticks
    MaxTime       \* bound on the clock

ASSUME LimitAssumption == /\ AuthLimit \in Nat \ {0} /\ ApiLimit \in Nat \ {0}
                          /\ Window \in Nat /\ MaxTime \in Nat
ASSUME KeyAssumption == User \cap Ip = {} /\ Anonymous \notin User

VARIABLES
    now,       \* time.monotonic()
    bucket,    \* _buckets
    admitted,  \* times of all requests let through (history)
    refused    \* keys refused a request at this very time (history)

vars == <<now, bucket, admitted, refused>>

Key == ({"auth"} \X Ip) \cup ({"api"} \X (Ip \cup User))

\* _scope: the bucket of a request, and its limit.
Scope(path, ip, user) ==
    IF path = "api" /\ user # Anonymous THEN <<path, user>> ELSE <<path, ip>>

Limit(k) == IF k[1] = "auth" THEN AuthLimit ELSE ApiLimit

Init ==
    /\ now = 0
    /\ bucket = [k \in Key |-> <<>>]
    /\ admitted = [k \in Key |-> <<>>]
    /\ refused = {}
-----------------------------------------------------------------------------
\* Mutant of Expired: a request exactly one window old is forgotten.
ExpiredEarly(t) == t + Window <= now

Expired(t) == t + Window < now

\* The popleft loop drops n times.
Prunes(k, n) ==
    /\ \A i \in 1..n : Expired(bucket[k][i])
    /\ n < Len(bucket[k]) => ~Expired(bucket[k][n + 1])

Kept(k, n) == SubSeq(bucket[k], n + 1, Len(bucket[k]))

\* Mutant of Full: one request too many.
FullLate(k, n) == Len(Kept(k, n)) > Limit(k)

Full(k, n) == Len(Kept(k, n)) >= Limit(k)

Admit(k) ==
    \E n \in 0..Len(bucket[k]) :
       /\ Prunes(k, n) /\ ~Full(k, n)
       /\ bucket' = [bucket EXCEPT ![k] = Append(Kept(k, n), now)]
       /\ admitted' = [admitted EXCEPT ![k] = Append(@, now)]
       /\ UNCHANGED <<now, refused>>

\* Mutant of Refuse: the refused request is counted too.
RefuseCounts(k) ==
    \E n \in 0..Len(bucket[k]) :
       /\ Prunes(k, n) /\ Full(k, n)
       /\ bucket' = [bucket EXCEPT ![k] = Append(Kept(k, n), now)]
       /\ refused' = refused \cup {k}
       /\ UNCHANGED <<now, admitted>>

\* 429, which is not counted.
Refuse(k) ==
    \E n \in 0..Len(bucket[k]) :
       /\ Prunes(k, n) /\ Full(k, n)
       /\ bucket' = [bucket EXCEPT ![k] = Kept(k, n)]
       /\ refused' = refused \cup {k}
       /\ UNCHANGED <<now, admitted>>

Dispatch(path, ip, user) ==
    LET k == Scope(path, ip, user) IN Admit(k) \/ Refuse(k)

Tick ==
    /\ now < MaxTime
    /\ now' = now + 1
    /\ refused' = {}
    /\ UNCHANGED <<bucket, admitted>>

Next ==
    \/ \E path \in {"auth", "api"}, ip \in Ip, user \in User \cup {Anonymous} :
          Dispatch(path, ip, user)
    \/ Tick

Spec == Init /\ [][Next]_vars
-----------------------------------------------------------------------------
TypeOK ==
    /\ now \in 0..MaxTime
    /\ bucket \in [Key -> Seq(0..MaxTime)]
    /\ admitted \in [Key -> Seq(0..MaxTime)]
    /\ refused \subseteq Key
    /\ \A k \in Key : Len(bucket[k]) <= Limit(k)

\* README.md:627-630, as strictly as it can be read: of any Limit + 1
\* consecutive admissions of a key the last comes more than a whole window
\* after the first, so that no window, edges included, holds more than Limit.
WindowBounded ==
    \A k \in Key : \A i \in 1..Len(admitted[k]) :
        i + Limit(k) <= Len(admitted[k]) =>
            admitted[k][i] + Window < admitted[k][i + Limit(k)]

\* A request is refused only when its key was in fact let through Limit times
\* within the window: refused requests and other keys do not use it up.
RefusedOnlyWhenSpent ==
    \A k \in refused : \E first \in 1..Len(admitted[k]) :
        /\ Len(admitted[k]) - first + 1 = Limit(k)
        /\ now <= admitted[k][first] + Window
=============================================================================
