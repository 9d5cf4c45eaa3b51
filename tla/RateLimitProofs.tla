-------------------------- MODULE RateLimitProofs --------------------------
(* Theorems about RateLimit, for all limits, windows, addresses and users. *)
EXTENDS RateLimit, SequenceTheorems, TLAPS

Time == 0..MaxTime

\* How many admissions the bucket of k has forgotten.
Forgotten(k) == Len(admitted[k]) - Len(bucket[k])

\* The bucket is the tail of the admissions; all it has forgotten is expired.
BucketIsTail(k) ==
    /\ Len(bucket[k]) <= Len(admitted[k])
    /\ \A i \in 1..Len(bucket[k]) :
          bucket[k][i] = admitted[k][Forgotten(k) + i]
    /\ \A i \in 1..Forgotten(k) : Expired(admitted[k][i])

\* Admissions are in order and none is in the future.
InOrder(k) ==
    /\ \A i \in 1..Len(admitted[k]) : admitted[k][i] <= now
    /\ \A i, j \in 1..Len(admitted[k]) :
          i <= j => admitted[k][i] <= admitted[k][j]

IInv ==
    /\ TypeOK
    /\ \A k \in Key : BucketIsTail(k) /\ InOrder(k)
    /\ WindowBounded
    /\ RefusedOnlyWhenSpent
-----------------------------------------------------------------------------
LEMMA LimitPositive == \A k \in Key : Limit(k) \in Nat \ {0}
  BY LimitAssumption DEF Limit

LEMMA ScopeIsKey ==
  ASSUME NEW path \in {"auth", "api"}, NEW ip \in Ip,
         NEW user \in User \cup {Anonymous}
  PROVE  Scope(path, ip, user) \in Key
  BY DEF Scope, Key

\* What is kept is a tail of the bucket.
LEMMA KeptTail ==
  ASSUME TypeOK, NEW k \in Key, NEW n \in 0..Len(bucket[k])
  PROVE  /\ Kept(k, n) \in Seq(Time)
         /\ Len(Kept(k, n)) = Len(bucket[k]) - n
         /\ \A i \in 1..Len(Kept(k, n)) : Kept(k, n)[i] = bucket[k][n + i]
<1>1. bucket[k] \in Seq(Time) /\ Len(bucket[k]) \in Nat
  BY LenProperties DEF TypeOK, Time
<1>2. /\ n + 1 \in 1..(Len(bucket[k]) + 1)
      /\ Len(bucket[k]) \in n..Len(bucket[k])
  BY <1>1
<1> QED
  BY <1>1, <1>2, SubSeqProperties DEF Kept

\* Dropping expired times from the bucket drops what is expired.
LEMMA KeptIsTail ==
  ASSUME TypeOK, NEW k \in Key, BucketIsTail(k), NEW n \in 0..Len(bucket[k]),
         Prunes(k, n)
  PROVE  /\ Len(Kept(k, n)) <= Len(admitted[k])
         /\ \A i \in 1..Len(Kept(k, n)) :
               Kept(k, n)[i] =
                 admitted[k][Len(admitted[k]) - Len(Kept(k, n)) + i]
         /\ \A i \in 1..(Len(admitted[k]) - Len(Kept(k, n))) :
               Expired(admitted[k][i])
<1> DEFINE a == admitted[k]
           b == bucket[k]
           c == Kept(k, n)
           gone == Len(a) - Len(b)
<1>1. /\ Len(a) \in Nat /\ Len(b) \in Nat /\ Len(c) \in Nat /\ n \in Nat
      /\ Len(b) <= Len(a) /\ n <= Len(b) /\ Len(c) = Len(b) - n
  <2>1. Len(a) \in Nat /\ Len(b) \in Nat
    BY LenProperties DEF TypeOK
  <2>2. Len(c) = Len(b) - n
    BY KeptTail
  <2>3. Len(b) <= Len(a)
    BY DEF BucketIsTail
  <2> QED
    BY <2>1, <2>2, <2>3
<1>2. \A i \in 1..Len(c) : c[i] = b[n + i]
  BY KeptTail
<1>3. /\ \A i \in 1..Len(b) : b[i] = a[gone + i]
      /\ \A i \in 1..gone : Expired(a[i])
      /\ \A i \in 1..n : Expired(b[i])
  BY DEF BucketIsTail, Forgotten, Prunes
<1>4. gone \in Nat /\ gone = Len(a) - Len(b) /\ Len(a) - Len(c) = gone + n
  BY <1>1
<1> HIDE DEF a, b, c, gone
<1>5. ASSUME NEW i \in 1..Len(c) PROVE c[i] = a[Len(a) - Len(c) + i]
  <2>1. n + i \in 1..Len(b) /\ gone + (n + i) = Len(a) - Len(c) + i
    BY <1>1, <1>4
  <2>2. c[i] = b[n + i] /\ b[n + i] = a[gone + (n + i)]
    BY <1>2, <1>3, <2>1
  <2> QED
    BY <2>1, <2>2
<1>6. ASSUME NEW i \in 1..(Len(a) - Len(c)) PROVE Expired(a[i])
  <2>1. CASE i <= gone
    <3>1. i \in 1..gone
      BY <1>1, <1>4, <2>1
    <3> QED
      BY <1>3, <3>1
  <2>2. CASE ~(i <= gone)
    <3> DEFINE j == i - gone
    <3>1. j \in 1..n /\ j \in 1..Len(b) /\ gone + j = i
      BY <1>1, <1>4, <2>2
    <3> HIDE DEF j
    <3>2. Expired(b[j]) /\ b[j] = a[gone + j]
      BY <1>3, <3>1
    <3> QED
      BY <3>1, <3>2
  <2> QED
    BY <2>1, <2>2
<1>7. Len(c) <= Len(a)
  BY <1>1
<1> QED
  BY <1>5, <1>6, <1>7 DEF a, c

\* Only what happens to its own bucket concerns a key.
LEMMA OtherKey ==
  ASSUME NEW j \in Key, BucketIsTail(j), bucket'[j] = bucket[j],
         admitted'[j] = admitted[j], now' = now
  PROVE  BucketIsTail(j)'
<1>1. Forgotten(j)' = Forgotten(j)
  BY DEF Forgotten
<1>2. \A t : Expired(t) => t + Window < now'
  BY DEF Expired
<1> QED
  BY <1>1, <1>2 DEF BucketIsTail, Expired

\* An admission.
LEMMA AdmitStep == ASSUME IInv, NEW k \in Key, Admit(k) PROVE IInv'
<1>0. /\ TypeOK /\ (\A j \in Key : BucketIsTail(j) /\ InOrder(j))
      /\ WindowBounded /\ RefusedOnlyWhenSpent
  BY DEF IInv
<1>1. PICK n \in 0..Len(bucket[k]) :
          /\ Prunes(k, n) /\ ~Full(k, n)
          /\ bucket' = [bucket EXCEPT ![k] = Append(Kept(k, n), now)]
          /\ admitted' = [admitted EXCEPT ![k] = Append(@, now)]
          /\ UNCHANGED <<now, refused>>
  BY DEF Admit
<1> DEFINE b == Kept(k, n)
           a == admitted[k]
<1>2. /\ b \in Seq(Time) /\ Len(b) \in Nat /\ now \in Time
      /\ a \in Seq(Time) /\ Len(a) \in Nat /\ Time \subseteq Nat
  BY <1>0, KeptTail, LenProperties, LimitAssumption DEF TypeOK, Time
<1>3. /\ Append(b, now) \in Seq(Time) /\ Len(Append(b, now)) = Len(b) + 1
      /\ \A i \in 1..Len(b) : Append(b, now)[i] = b[i]
      /\ Append(b, now)[Len(b) + 1] = now
  BY <1>2, AppendProperties
<1>4. /\ Append(a, now) \in Seq(Time) /\ Len(Append(a, now)) = Len(a) + 1
      /\ \A i \in 1..Len(a) : Append(a, now)[i] = a[i]
      /\ Append(a, now)[Len(a) + 1] = now
  BY <1>2, AppendProperties
<1>5. /\ bucket'[k] = Append(b, now) /\ admitted'[k] = Append(a, now)
      /\ \A j \in Key \ {k} :
            bucket'[j] = bucket[j] /\ admitted'[j] = admitted[j]
  BY <1>0, <1>1 DEF TypeOK
<1>6. /\ Len(b) <= Len(a)
      /\ \A i \in 1..Len(b) : b[i] = a[Len(a) - Len(b) + i]
      /\ \A i \in 1..(Len(a) - Len(b)) : Expired(a[i])
  BY <1>0, <1>1, KeptIsTail
<1>7. Limit(k) \in Nat /\ Limit(k) > 0 /\ Len(b) < Limit(k)
  BY <1>1, <1>2, LimitPositive DEF Full
<1>8. \A i \in 1..Len(a) : a[i] \in Nat
  BY <1>2, ElementOfSeq
<1> HIDE DEF a, b
<1>9. TypeOK'
  <2>1. /\ bucket' \in [Key -> Seq(0..MaxTime)]
        /\ admitted' \in [Key -> Seq(0..MaxTime)]
    BY <1>0, <1>1, <1>3, <1>4 DEF TypeOK, Time, a, b
  <2>2. \A j \in Key : Len(bucket'[j]) <= Limit(j)
    <3>1. Len(bucket'[k]) <= Limit(k)
      BY <1>2, <1>3, <1>5, <1>7
    <3>2. \A j \in Key \ {k} : Len(bucket'[j]) <= Limit(j)
      BY <1>0, <1>5 DEF TypeOK
    <3> QED
      BY <3>1, <3>2
  <2> QED
    BY <1>0, <1>1, <2>1, <2>2 DEF TypeOK
<1>10. \A j \in Key : BucketIsTail(j)'
  <2>1. BucketIsTail(k)'
    <3>1. Forgotten(k)' = Len(a) - Len(b)
      BY <1>2, <1>3, <1>4, <1>5 DEF Forgotten
    <3>2. \A i \in 1..(Len(b) + 1) :
            Append(b, now)[i] = Append(a, now)[Len(a) - Len(b) + i]
      <4>1. ASSUME NEW i \in 1..Len(b)
            PROVE  Append(b, now)[i] = Append(a, now)[Len(a) - Len(b) + i]
        <5>1. Len(a) - Len(b) + i \in 1..Len(a)
          BY <1>2, <1>6
        <5> QED
          BY <1>3, <1>4, <1>6, <5>1
      <4>2. Append(b, now)[Len(b) + 1] =
              Append(a, now)[Len(a) - Len(b) + (Len(b) + 1)]
        <5>1. Len(a) - Len(b) + (Len(b) + 1) = Len(a) + 1
          BY <1>2
        <5> QED
          BY <1>3, <1>4, <5>1
      <4>3. \A i \in 1..(Len(b) + 1) : i \in 1..Len(b) \/ i = Len(b) + 1
        BY <1>2
      <4> QED
        BY <4>1, <4>2, <4>3
    <3>3. \A i \in 1..(Len(a) - Len(b)) : i \in 1..Len(a)
      BY <1>2, <1>6
    <3>4. \A i \in 1..(Len(a) - Len(b)) : Append(a, now)[i] + Window < now'
      BY <1>1, <1>4, <1>6, <3>3 DEF Expired
    <3>5. Len(b) + 1 <= Len(a) + 1
      BY <1>2, <1>6
    <3> QED
      BY <1>3, <1>4, <1>5, <3>1, <3>2, <3>4, <3>5 DEF BucketIsTail, Expired
  <2>2. ASSUME NEW j \in Key \ {k} PROVE BucketIsTail(j)'
    BY <1>0, <1>1, <1>5, OtherKey
  <2> QED
    BY <2>1, <2>2
<1>11. \A j \in Key : InOrder(j)'
  <2>1. InOrder(k)'
    <3>1. \A i \in 1..Len(a) : a[i] <= now
      BY <1>0 DEF InOrder, a
    <3>2. \A i, j \in 1..Len(a) : i <= j => a[i] <= a[j]
      BY <1>0 DEF InOrder, a
    <3>3. ASSUME NEW i \in 1..(Len(a) + 1) PROVE Append(a, now)[i] <= now
      BY <1>2, <1>4, <3>1
    <3>4. ASSUME NEW i \in 1..(Len(a) + 1), NEW j \in 1..(Len(a) + 1), i <= j
          PROVE  Append(a, now)[i] <= Append(a, now)[j]
      BY <1>2, <1>4, <3>1, <3>2, <3>4
    <3> QED
      BY <1>1, <1>4, <1>5, <3>3, <3>4 DEF InOrder
  <2> QED
    BY <1>0, <1>1, <1>5, <2>1 DEF InOrder
<1>12. WindowBounded'
  <2>1. ASSUME NEW i \in 1..(Len(a) + 1), i + Limit(k) <= Len(a) + 1
        PROVE  Append(a, now)[i] + Window < Append(a, now)[i + Limit(k)]
    <3>1. CASE i + Limit(k) <= Len(a)
      <4>1. a[i] + Window < a[i + Limit(k)]
        BY <1>0, <1>2, <1>7, <3>1 DEF WindowBounded, a
      <4> QED
        BY <1>2, <1>4, <1>7, <3>1, <4>1
    <3>2. CASE i + Limit(k) = Len(a) + 1
      <4>1. i \in 1..(Len(a) - Len(b)) /\ i \in 1..Len(a)
        BY <1>2, <1>7, <3>2
      <4> QED
        BY <1>4, <1>6, <3>2, <4>1 DEF Expired
    <3> QED
      BY <1>2, <1>7, <2>1, <3>1, <3>2
  <2> QED
    BY <1>0, <1>4, <1>5, <2>1 DEF WindowBounded, Limit
<1>13. RefusedOnlyWhenSpent'
  <2>1. ASSUME k \in refused
        PROVE  \E first \in 1..(Len(a) + 1) :
                  /\ (Len(a) + 1) - first + 1 = Limit(k)
                  /\ now <= Append(a, now)[first] + Window
    <3>1. PICK f \in 1..Len(a) : /\ Len(a) - f + 1 = Limit(k)
                                 /\ now <= a[f] + Window
      BY <1>0, <2>1 DEF RefusedOnlyWhenSpent, a
    <3>2. CASE f = Len(a)
      BY <1>2, <1>4, <3>1, <3>2, LimitAssumption
    <3>3. CASE f < Len(a)
      <4>1. a[f] <= a[f + 1] /\ a[f] \in Nat /\ a[f + 1] \in Nat
        BY <1>0, <1>2, <1>8, <3>3 DEF InOrder, a
      <4>2. now <= Append(a, now)[f + 1] + Window
        BY <1>2, <1>4, <3>1, <3>3, <4>1, LimitAssumption
      <4> QED
        BY <1>2, <3>1, <3>3, <4>2
    <3> QED
      BY <1>2, <3>2, <3>3
  <2> QED
    <3>1. ASSUME k \in refused
          PROVE  \E first \in 1..Len(admitted'[k]) :
                    /\ Len(admitted'[k]) - first + 1 = Limit(k)
                    /\ now' <= admitted'[k][first] + Window
      BY <1>1, <1>4, <1>5, <2>1, <3>1
    <3>2. ASSUME NEW j \in refused \ {k}
          PROVE  \E first \in 1..Len(admitted'[j]) :
                    /\ Len(admitted'[j]) - first + 1 = Limit(j)
                    /\ now' <= admitted'[j][first] + Window
      <4>1. admitted'[j] = admitted[j]
        BY <1>0, <1>5 DEF TypeOK
      <4> QED
        BY <1>0, <1>1, <4>1 DEF RefusedOnlyWhenSpent
    <3> QED
      BY <1>1, <3>1, <3>2 DEF RefusedOnlyWhenSpent, Limit
<1> QED
  BY <1>9, <1>10, <1>11, <1>12, <1>13 DEF IInv

\* A refusal.
LEMMA RefuseStep == ASSUME IInv, NEW k \in Key, Refuse(k) PROVE IInv'
<1>0. /\ TypeOK /\ (\A j \in Key : BucketIsTail(j) /\ InOrder(j))
      /\ WindowBounded /\ RefusedOnlyWhenSpent
  BY DEF IInv
<1>1. PICK n \in 0..Len(bucket[k]) :
          /\ Prunes(k, n) /\ Full(k, n)
          /\ bucket' = [bucket EXCEPT ![k] = Kept(k, n)]
          /\ refused' = refused \cup {k}
          /\ UNCHANGED <<now, admitted>>
  BY DEF Refuse
<1> DEFINE b == Kept(k, n)
<1>2. /\ b \in Seq(Time) /\ Len(b) = Len(bucket[k]) - n
      /\ \A i \in 1..Len(b) : b[i] = bucket[k][n + i]
      /\ Len(bucket[k]) \in Nat /\ Len(admitted[k]) \in Nat
  BY <1>0, KeptTail, LenProperties DEF TypeOK
<1>3. /\ bucket'[k] = b
      /\ \A j \in Key \ {k} : bucket'[j] = bucket[j]
  BY <1>0, <1>1 DEF TypeOK
<1>4. /\ Len(b) <= Len(admitted[k])
      /\ \A i \in 1..Len(b) :
            b[i] = admitted[k][Len(admitted[k]) - Len(b) + i]
      /\ \A i \in 1..(Len(admitted[k]) - Len(b)) : Expired(admitted[k][i])
  BY <1>0, <1>1, KeptIsTail
<1>5. Len(b) = Limit(k) /\ n = 0 /\ Limit(k) \in Nat \ {0}
  BY <1>0, <1>1, <1>2, LimitPositive DEF TypeOK, Full
<1> HIDE DEF b
<1>6. TypeOK'
  BY <1>0, <1>1, <1>2, <1>3, <1>5 DEF TypeOK, Time, b
<1>7. \A j \in Key : BucketIsTail(j)'
  <2>1. BucketIsTail(k)'
    BY <1>1, <1>3, <1>4 DEF BucketIsTail, Forgotten, Expired
  <2>2. ASSUME NEW j \in Key \ {k} PROVE BucketIsTail(j)'
    BY <1>0, <1>1, <1>3, OtherKey
  <2> QED
    BY <2>1, <2>2
<1>8. (\A j \in Key : InOrder(j)') /\ WindowBounded'
  BY <1>0, <1>1 DEF InOrder, WindowBounded, Limit
<1>9. RefusedOnlyWhenSpent'
  <2> DEFINE first == Len(admitted[k]) - Len(b) + 1
  <2>0. /\ Len(admitted[k]) \in Nat /\ Len(b) \in Nat /\ 0 < Len(b)
        /\ Len(b) <= Len(admitted[k]) /\ Len(bucket[k]) = Len(b)
    BY <1>2, <1>4, <1>5
  <2>1. first \in 1..Len(admitted[k])
    BY <2>0
  <2>2. Len(admitted[k]) - first + 1 = Limit(k)
    BY <1>5, <2>0
  <2>3. b[1] = admitted[k][first] /\ b[1] = bucket[k][1] /\ 0 < Len(bucket[k])
    <3>1. 1 \in 1..Len(b) /\ n + 1 = 1
      BY <1>5, <2>0
    <3>2. b[1] = bucket[k][n + 1]
      BY <1>2, <3>1
    <3>3. b[1] = admitted[k][first]
      BY <1>4, <3>1
    <3> QED
      BY <2>0, <3>1, <3>2, <3>3
  <2>4. ~Expired(admitted[k][first])
    BY <1>1, <1>5, <2>3 DEF Prunes
  <2>5. admitted[k][first] \in Nat /\ now \in Nat
    BY <1>0, <2>1, ElementOfSeq, LimitAssumption DEF TypeOK
  <2>6. now <= admitted[k][first] + Window
    BY <2>4, <2>5, LimitAssumption DEF Expired
  <2> HIDE DEF first
  <2> QED
    BY <1>0, <1>1, <2>1, <2>2, <2>6 DEF RefusedOnlyWhenSpent, Limit
<1> QED
  BY <1>6, <1>7, <1>8, <1>9 DEF IInv

\* Time passes: what was expired stays so.
LEMMA TickStep == ASSUME IInv, Tick PROVE IInv'
<1> USE LimitAssumption DEF IInv, Tick
<1>1. TypeOK'
  BY DEF TypeOK
<1>2. \A k \in Key : \A i \in 1..Len(admitted[k]) :
          admitted[k][i] \in Nat /\ now \in Nat
  BY ElementOfSeq DEF TypeOK
<1>3. ASSUME NEW k \in Key PROVE BucketIsTail(k)'
  <2>1. Len(bucket[k]) \in Nat /\ Len(admitted[k]) \in Nat
    BY LenProperties DEF TypeOK
  <2>2. \A i \in 1..Forgotten(k) : i \in 1..Len(admitted[k])
    BY <2>1 DEF Forgotten
  <2>3. \A i \in 1..Forgotten(k) : Expired(admitted[k][i])'
    BY <1>2, <2>2 DEF BucketIsTail, Expired
  <2> QED
    BY <2>3 DEF BucketIsTail, Forgotten
<1>4. \A k \in Key : InOrder(k)'
  BY <1>2 DEF InOrder
<1>5. WindowBounded' /\ RefusedOnlyWhenSpent'
  BY DEF WindowBounded, RefusedOnlyWhenSpent, Limit
<1> QED
  BY <1>1, <1>3, <1>4, <1>5

LEMMA InvHolds == Spec => []IInv
<1>1. Init => IInv
  BY LimitAssumption, LimitPositive, EmptySeq
     DEF Init, IInv, TypeOK, BucketIsTail, Forgotten, InOrder, WindowBounded,
         RefusedOnlyWhenSpent
<1>2. IInv /\ [Next]_vars => IInv'
  <2> SUFFICES ASSUME IInv, [Next]_vars PROVE IInv'
    OBVIOUS
  <2>1. ASSUME NEW k \in Key, Admit(k) \/ Refuse(k) PROVE IInv'
    BY <2>1, AdmitStep, RefuseStep
  <2>2. CASE \E path \in {"auth", "api"}, ip \in Ip,
               user \in User \cup {Anonymous} : Dispatch(path, ip, user)
    BY <2>1, <2>2, ScopeIsKey DEF Dispatch
  <2>3. CASE Tick
    BY <2>3, TickStep
  <2>4. CASE UNCHANGED vars
    BY <2>4 DEF vars, IInv, TypeOK, BucketIsTail, Forgotten, InOrder,
                WindowBounded, RefusedOnlyWhenSpent, Expired, Limit
  <2> QED
    BY <2>2, <2>3, <2>4 DEF Next
<1> QED
  BY <1>1, <1>2, PTL DEF Spec

\* Every variable keeps its type and no bucket outgrows its limit.
THEOREM TypeCorrect == Spec => []TypeOK
<1>1. IInv => TypeOK
  BY DEF IInv
<1> QED
  BY <1>1, InvHolds, PTL

\* No window of any key holds more admissions than its limit, for every limit
\* and window.
THEOREM NoWindowOverflows == Spec => []WindowBounded
<1>1. IInv => WindowBounded
  BY DEF IInv
<1> QED
  BY <1>1, InvHolds, PTL

\* A key is refused only when it has used up its window.
THEOREM NobodyRefusedEarly == Spec => []RefusedOnlyWhenSpent
<1>1. IInv => RefusedOnlyWhenSpent
  BY DEF IInv
<1> QED
  BY <1>1, InvHolds, PTL
=============================================================================
