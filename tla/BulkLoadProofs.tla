--------------------------- MODULE BulkLoadProofs ---------------------------
(***************************************************************************)
(* Theorems about BulkLoad, for all files, chunk sizes and numbers of      *)
(* uploads, loaders and seeders.                                           *)
(***************************************************************************)
EXTENDS BulkLoad, FunctionTheorems, FiniteSetTheorems,
        WellFoundedInduction, TLAPS

\* Rows an upload is done with.
Flushed(u) == {i \in 1..at[u] : Valid(file[u][i]) /\ i \notin InBatch(u)}

\* What an upload has read and collected, by where it is.
ReaderInv(u) ==
    /\ pc[u] = "idle" => at[u] = 0 /\ batch[u] = <<>> /\ sum[u] = NoRows
    /\ pc[u] = "read" => Len(batch[u]) < ChunkSize
    /\ pc[u] = "done" => at[u] = Len(file[u]) /\ batch[u] = <<>>
    /\ \A i \in InBatch(u) : Valid(file[u][i])
    /\ pc[u] \in {"merge", "commit"} => \A i \in InBatch(u) : file[u][i].fits
    /\ \A i \in Flushed(u) : file[u][i].fits

\* p is what w makes of a row of its file.
Made(w, p) ==
    p.id[1] = w /\ p.id[2] \in 1..Len(file[w]) /\ p = Record(w, p.id[2])

\* What a writer has inserted and not committed.
InsInv(w) ==
    /\ pc[w] # "commit" => ins[w] = {}
    /\ IsFiniteSet(ins[w])
    /\ \A p \in ins[w] : Made(w, p)
    /\ w \in Upload => /\ Cardinality(ins[w]) <= Len(batch[w])
                       /\ \A p \in ins[w] : p.id[2] \in InBatch(w)

RowsInv ==
    /\ IsFiniteSet(rows)
    /\ \A p \in rows : pc[p.id[1]] # "idle" /\ Made(p.id[1], p)

BaseInv ==
    /\ TypeOK
    /\ \A u \in Upload : ReaderInv(u)
    /\ \A w \in Writer : InsInv(w)
    /\ RowsInv
-----------------------------------------------------------------------------
(* Records and merges. *)

LEMMA LeastOf ==
  ASSUME NEW S \in SUBSET Nat, S # {}
  PROVE  \E m \in S : \A n \in S : m <= n
<1>1. PICK m \in S : \A n \in S : <<n, m>> \notin OpToRel(<, Nat)
  BY NatLessThanWellFounded, WFMin
<1>2. \A n \in S : ~(n < m)
  BY <1>1 DEF OpToRel
<1> QED
  BY <1>2

LEMMA FileLength ==
  ASSUME file \in [Writer -> Seq(Row)], NEW w \in Writer
  PROVE  Len(file[w]) \in Nat
  OBVIOUS

LEMMA SameGroups ==
  \A age \in Int : ClassifyAgeGroup(age) = EnrichedAgeGroup(age)
  BY DEF ClassifyAgeGroup, EnrichedAgeGroup

LEMMA RowOfFile ==
  ASSUME NEW f \in Seq(Row), NEW i \in 1..Len(f)
  PROVE  f[i] \in Row
  OBVIOUS

LEMMA RecordType ==
  ASSUME file \in [Writer -> Seq(Row)], NEW w \in Writer,
         NEW i \in 1..Len(file[w])
  PROVE  /\ Record(w, i) \in Profile
         /\ Made(w, Record(w, i))
         /\ Record(w, i).id[2] = i /\ Record(w, i).name = file[w][i].name
<1>1. file[w][i] \in Row /\ i \in Nat
  OBVIOUS
<1>2. ClassifyAgeGroup(file[w][i].age) \in AgeGroups
  BY <1>1 DEF Row, ClassifyAgeGroup, AgeGroups
<1>3. Record(w, i) \in Profile
  BY <1>1, <1>2 DEF Record, Profile, Row
<1> QED
  BY <1>1, <1>3 DEF Record, Made

\* What ON CONFLICT DO NOTHING inserts of the rows at S.
LEMMA MergedRows ==
  ASSUME file \in [Writer -> Seq(Row)], NEW w \in Writer,
         NEW S \in SUBSET (1..Len(file[w]))
  PROVE  /\ Merged(w, S) \in SUBSET Profile
         /\ \A p \in Merged(w, S) : /\ Made(w, p) /\ p.id[2] \in S
                                    /\ p.name \notin NamesOf(rows)
                                    /\ \A j \in S : file[w][j].name = p.name
                                                        => p.id[2] <= j
         /\ \A i \in S : \/ file[w][i].name \in NamesOf(rows)
                         \/ file[w][i].name \in NamesOf(Merged(w, S))
<1>1. ASSUME NEW p \in Merged(w, S)
      PROVE  /\ p \in Profile /\ Made(w, p) /\ p.id[2] \in S
             /\ p.name \notin NamesOf(rows)
             /\ \A j \in S : file[w][j].name = p.name => p.id[2] <= j
  <2>1. PICK i \in S : /\ p = Record(w, i)
                       /\ file[w][i].name \notin NamesOf(rows)
                       /\ \A j \in S : file[w][j].name = file[w][i].name
                                            => i <= j
    BY DEF Merged
  <2> QED
    BY <2>1, RecordType
<1>2. ASSUME NEW i \in S, file[w][i].name \notin NamesOf(rows)
      PROVE  file[w][i].name \in NamesOf(Merged(w, S))
  <2> DEFINE T == {j \in S : file[w][j].name = file[w][i].name}
  <2>1. T \in SUBSET Nat /\ T # {}
    <3>1. S \subseteq Nat
      BY FileLength
    <3>2. i \in T
      OBVIOUS
    <3> QED
      BY <3>1, <3>2
  <2>2. PICK k \in T : \A j \in T : k <= j
    BY <2>1, LeastOf
  <2>3. Record(w, k) \in Merged(w, S)
    BY <1>2, <2>2 DEF Merged
  <2>4. Record(w, k).name = file[w][i].name
    BY <2>2, RecordType
  <2> QED
    BY <2>3, <2>4 DEF NamesOf
<1> QED
  BY <1>1, <1>2

LEMMA MergedCount ==
  ASSUME file \in [Writer -> Seq(Row)], NEW w \in Writer,
         NEW S \in SUBSET (1..Len(file[w]))
  PROVE  /\ IsFiniteSet(Merged(w, S))
         /\ Cardinality(Merged(w, S)) <= Cardinality(S)
<1>1. IsFiniteSet(S)
  <2>1. 0 \in Int /\ 1 \in Int /\ Len(file[w]) \in Int
    BY FileLength
  <2>2. IsFiniteSet(1..Len(file[w]))
    BY <2>1, FS_Interval
  <2> QED
    BY <2>2, FS_Subset
<1> DEFINE f == [p \in Merged(w, S) |-> p.id[2]]
<1>2. f \in Injection(Merged(w, S), S)
  BY MergedRows DEF Injection, IsInjective, Made
<1> QED
  BY <1>1, <1>2, FS_Injection

LEMMA BatchCount ==
  ASSUME batch \in [Writer -> Seq(Nat)], NEW u \in Writer
  PROVE  IsFiniteSet(InBatch(u)) /\ Cardinality(InBatch(u)) <= Len(batch[u])
<1> DEFINE n == Len(batch[u])
<1>1. batch[u] \in Seq(Nat) /\ n \in Nat
  OBVIOUS
<1>2. IsFiniteSet(1..n) /\ Cardinality(1..n) = n
  <2>1. 1 \in Int /\ n \in Int /\ (IF 1 > n THEN 0 ELSE n - 1 + 1) = n
    BY <1>1
  <2> QED
    BY <2>1, FS_Interval
<1> DEFINE f == [k \in 1..n |-> batch[u][k]]
<1>3. f \in Surjection(1..n, InBatch(u))
  BY DEF Surjection, InBatch
<1> QED
  BY <1>2, <1>3, FS_Surjection
-----------------------------------------------------------------------------
(* Types, readers and records. *)

\* A step of one writer that may move its rows into the table.
LEMMA OneWriter ==
  ASSUME BaseInv, NEW w \in Writer,
         pc' \in [Writer -> Labels], file' \in [Writer -> Seq(Row)],
         at' \in [Writer -> Nat], batch' \in [Writer -> Seq(Nat)],
         sum' \in [Writer -> Summary], ins' \in [Writer -> SUBSET Profile],
         \A v \in Writer \ {w} :
            /\ pc'[v] = pc[v] /\ file'[v] = file[v] /\ at'[v] = at[v]
            /\ batch'[v] = batch[v] /\ sum'[v] = sum[v] /\ ins'[v] = ins[v],
         rows' \subseteq rows \cup ins[w],
         pc'[w] # "idle", pc[w] # "idle" => file'[w] = file[w],
         calm' \subseteq Writer, reruns' \subseteq Upload,
         w \in Upload => /\ at'[w] <= Len(file'[w])
                         /\ Len(batch'[w]) <= ChunkSize
                         /\ InBatch(w)' \subseteq 1..at'[w]
                         /\ ReaderInv(w)',
         InsInv(w)'
  PROVE  BaseInv'
<1>1. TypeOK'
  <2>1. rows' \subseteq Profile
    BY DEF BaseInv, TypeOK
  <2>2. ASSUME NEW u \in Upload
        PROVE  /\ at'[u] <= Len(file'[u])
               /\ Len(batch'[u]) <= ChunkSize
               /\ InBatch(u)' \subseteq 1..at'[u]
    <3>1. CASE u = w
      BY <3>1
    <3>2. CASE u # w
      <4>1. u \in Writer \ {w}
        BY <3>2 DEF Writer
      <4>2. InBatch(u)' = InBatch(u)
        BY <4>1 DEF InBatch
      <4> QED
        BY <4>1, <4>2 DEF BaseInv, TypeOK
    <3> QED
      BY <3>1, <3>2
  <2> QED
    BY <2>1, <2>2 DEF TypeOK
<1>2. ASSUME NEW v \in Writer, v # w
      PROVE  InsInv(v)' /\ (v \in Upload => ReaderInv(v)')
  <2>1. /\ pc'[v] = pc[v] /\ file'[v] = file[v] /\ at'[v] = at[v]
        /\ batch'[v] = batch[v] /\ sum'[v] = sum[v] /\ ins'[v] = ins[v]
        /\ InsInv(v) /\ (v \in Upload => ReaderInv(v))
    BY <1>2 DEF BaseInv
  <2>2. InBatch(v)' = InBatch(v)
    BY <2>1 DEF InBatch
  <2>3. \A p : Made(v, p)' <=> Made(v, p)
    BY <2>1 DEF Made, Record
  <2>4. InsInv(v)'
    BY <2>1, <2>2, <2>3 DEF InsInv
  <2>5. Flushed(v)' = Flushed(v)
    BY <2>1, <2>2 DEF Flushed
  <2> QED
    BY <2>1, <2>2, <2>4, <2>5 DEF ReaderInv
<1>3. RowsInv'
  <2>1. IsFiniteSet(rows')
    <3>1. IsFiniteSet(rows \cup ins[w])
      BY FS_Union DEF BaseInv, RowsInv, InsInv
    <3> QED
      BY <3>1, FS_Subset
  <2>2. ASSUME NEW p \in rows'
        PROVE  pc'[p.id[1]] # "idle" /\ Made(p.id[1], p)'
    <3>1. /\ p.id[1] \in Writer /\ pc[p.id[1]] # "idle"
          /\ Made(p.id[1], p)
      <4>1. CASE p \in rows
        BY <4>1 DEF BaseInv, RowsInv, TypeOK, Profile
      <4>2. CASE p \in ins[w]
        BY <4>2 DEF BaseInv, InsInv, Made
      <4> QED
        BY <4>1, <4>2
    <3>2. file'[p.id[1]] = file[p.id[1]] /\ pc'[p.id[1]] # "idle"
      BY <3>1
    <3> QED
      BY <3>1, <3>2 DEF Made, Record
  <2> QED
    BY <2>1, <2>2 DEF RowsInv
<1> QED
  BY <1>1, <1>2, <1>3 DEF BaseInv, Writer

LEMMA BaseInit == Init => BaseInv
<1> SUFFICES ASSUME Init PROVE BaseInv
  OBVIOUS
<1> USE DEF Init
<1>1. NoRows \in Summary
  BY DEF NoRows, Summary
<1>2. \A w \in Writer : InBatch(w) = {} /\ Len(batch[w]) = 0
  BY DEF InBatch
<1>3. TypeOK
  <2>1. <<>> \in Seq(Row) /\ <<>> \in Seq(Nat) /\ ChunkSize \in Nat
    BY ChunkAssumption
  <2> QED
    BY <1>1, <1>2, <2>1 DEF TypeOK, Labels, Writer
<1>4. \A u \in Upload : ReaderInv(u)
  BY <1>2 DEF ReaderInv, Flushed, Writer
<1>5. \A w \in Writer : InsInv(w)
  BY <1>2, FS_EmptySet DEF InsInv
<1>6. RowsInv
  BY FS_EmptySet DEF RowsInv
<1> QED
  BY <1>3, <1>4, <1>5, <1>6 DEF BaseInv

LEMMA NoInserts ==
  ASSUME NEW w \in Writer, ins'[w] = {}, batch' \in [Writer -> Seq(Nat)]
  PROVE  InsInv(w)'
<1>1. Len(batch'[w]) \in Nat
  OBVIOUS
<1> QED
  BY <1>1, FS_EmptySet DEF InsInv

LEMMA OneMore ==
  ASSUME NEW m \in Summary
  PROVE  [m EXCEPT !.total = @ + 1] \in Summary
  BY DEF Summary

\* An upload reads its file.
LEMMA ReadStep ==
  ASSUME BaseInv, NEW u \in Upload, TakeRow(u) \/ SkipRow(u) \/ EndOfFile(u)
  PROVE  BaseInv'
<1>0. /\ u \in Writer /\ TypeOK /\ InsInv(u) /\ ReaderInv(u)
      /\ pc[u] = "read" /\ at[u] \in Nat /\ Len(file[u]) \in Nat
      /\ at[u] <= Len(file[u]) /\ Len(batch[u]) < ChunkSize
      /\ InBatch(u) \subseteq 1..at[u]
      /\ sum[u] \in Summary /\ batch[u] \in Seq(Nat)
      /\ Len(batch[u]) \in Nat /\ ins[u] = {} /\ ChunkSize \in Nat
  BY ChunkAssumption DEF BaseInv, TypeOK, Writer, InsInv, ReaderInv, TakeRow,
                         SkipRow, EndOfFile
<1>1. /\ rows' = rows /\ ins' = ins /\ file' = file
      /\ calm' = calm /\ reruns' = reruns
  BY DEF TakeRow, SkipRow, EndOfFile, ghostVars
<1>2. \A p : Made(u, p)' <=> Made(u, p)
  BY <1>1 DEF Made, Record
<1>3. batch' \in [Writer -> Seq(Nat)] => InsInv(u)'
  BY <1>0, <1>1, NoInserts
<1>4. CASE TakeRow(u)
  <2> DEFINE n == at[u] + 1
  <2>1. /\ n <= Len(file[u]) /\ Valid(file[u][n]) /\ n \in Nat
        /\ at' = [at EXCEPT ![u] = n]
        /\ batch' = [batch EXCEPT ![u] = Append(batch[u], n)]
        /\ sum' = [sum EXCEPT ![u].total = @ + 1]
        /\ pc' = IF Len(batch[u]) + 1 >= ChunkSize
                 THEN [pc EXCEPT ![u] = "copy"] ELSE pc
    BY <1>0, <1>4 DEF TakeRow, Goto
  <2>2. /\ at'[u] = n /\ batch'[u] = Append(batch[u], n)
        /\ Len(batch'[u]) = Len(batch[u]) + 1
        /\ Len(batch'[u]) <= ChunkSize
        /\ batch' \in [Writer -> Seq(Nat)] /\ at' \in [Writer -> Nat]
    BY <1>0, <2>1 DEF TypeOK
  <2>3. InBatch(u)' = InBatch(u) \cup {n}
    <3>1. /\ \A k \in 1..Len(batch[u]) : batch'[u][k] = batch[u][k]
          /\ batch'[u][Len(batch[u]) + 1] = n
          /\ 1..Len(batch'[u]) = 1..Len(batch[u]) \cup {Len(batch[u]) + 1}
      BY <1>0, <2>1, <2>2
    <3> QED
      BY <1>0, <3>1 DEF InBatch
  <2>4. Flushed(u)' \subseteq Flushed(u)
    BY <1>0, <1>1, <2>2, <2>3 DEF Flushed
  <2>5. /\ pc' \in [Writer -> Labels]
        /\ pc'[u] \in {"read", "copy"}
        /\ pc'[u] = "read" => Len(batch'[u]) < ChunkSize
    BY <1>0, <2>1, <2>2 DEF TypeOK, Labels
  <2>6. ReaderInv(u)'
    BY <1>0, <1>1, <2>1, <2>3, <2>4, <2>5 DEF ReaderInv
  <2>7. sum' \in [Writer -> Summary]
    <3>1. [sum[u] EXCEPT !.total = @ + 1] \in Summary
      BY <1>0, OneMore
    <3>2. sum' = [sum EXCEPT ![u] = [sum[u] EXCEPT !.total = @ + 1]]
      BY <2>1
    <3> QED
      BY <1>0, <3>1, <3>2 DEF TypeOK
  <2>8. InBatch(u)' \subseteq 1..at'[u]
    BY <1>0, <2>1, <2>2, <2>3
  <2>9. \A v \in Writer \ {u} :
            /\ pc'[v] = pc[v] /\ file'[v] = file[v] /\ at'[v] = at[v]
            /\ batch'[v] = batch[v] /\ sum'[v] = sum[v] /\ ins'[v] = ins[v]
    BY <1>0, <1>1, <2>1 DEF TypeOK
  <2> QED
    BY <1>0, <1>1, <1>3, <2>1, <2>2, <2>5, <2>6, <2>7, <2>8, <2>9, OneWriter
       DEF TypeOK
<1>5. CASE SkipRow(u)
  <2> DEFINE n == at[u] + 1
             r == Verdict(file[u][n])
  <2>1. /\ n <= Len(file[u]) /\ ~Valid(file[u][n]) /\ n \in Nat
        /\ at' = [at EXCEPT ![u] = n]
        /\ sum' = [sum EXCEPT ![u].total = @ + 1, ![u].skipped = @ + 1,
                              ![u].reasons[r] = @ + 1]
        /\ batch' = batch /\ pc' = pc
    BY <1>0, <1>5 DEF SkipRow
  <2>2. at'[u] = n /\ at' \in [Writer -> Nat]
    BY <1>0, <2>1 DEF TypeOK
  <2>3. InBatch(u)' = InBatch(u)
    BY <2>1 DEF InBatch
  <2>4. Flushed(u)' \subseteq Flushed(u)
    BY <1>0, <1>1, <2>1, <2>2, <2>3 DEF Flushed
  <2>5. ReaderInv(u)'
    BY <1>0, <1>1, <2>1, <2>3, <2>4 DEF ReaderInv
  <2>6. r \in Reason
    BY DEF Verdict, Reason
  <2>7. sum' \in [Writer -> Summary]
    BY <1>0, <2>1, <2>6 DEF TypeOK, Summary
  <2>8. InBatch(u)' \subseteq 1..at'[u]
    BY <1>0, <2>2, <2>3
  <2>9. \A v \in Writer \ {u} :
            /\ pc'[v] = pc[v] /\ file'[v] = file[v] /\ at'[v] = at[v]
            /\ batch'[v] = batch[v] /\ sum'[v] = sum[v] /\ ins'[v] = ins[v]
    BY <1>0, <1>1, <2>1 DEF TypeOK
  <2>10. Len(batch'[u]) <= ChunkSize
    BY <1>0, <2>1
  <2> QED
    BY <1>0, <1>1, <1>3, <2>1, <2>2, <2>5, <2>7, <2>8, <2>9, <2>10, OneWriter
       DEF TypeOK
<1>6. CASE EndOfFile(u)
  <2>1. /\ at[u] = Len(file[u])
        /\ pc' = [pc EXCEPT ![u] = IF batch[u] = <<>> THEN "done" ELSE "copy"]
        /\ at' = at /\ batch' = batch /\ sum' = sum
    BY <1>0, <1>6 DEF EndOfFile, Goto
  <2>2. /\ pc' \in [Writer -> Labels]
        /\ pc'[u] = IF batch[u] = <<>> THEN "done" ELSE "copy"
    BY <1>0, <2>1 DEF TypeOK, Labels
  <2>3. InBatch(u)' = InBatch(u)
    BY <2>1 DEF InBatch
  <2>4. Flushed(u)' = Flushed(u)
    BY <1>1, <2>1, <2>3 DEF Flushed
  <2>5. ReaderInv(u)'
    BY <1>0, <1>1, <2>1, <2>2, <2>3, <2>4 DEF ReaderInv
  <2>6. \A v \in Writer \ {u} :
            /\ pc'[v] = pc[v] /\ file'[v] = file[v] /\ at'[v] = at[v]
            /\ batch'[v] = batch[v] /\ sum'[v] = sum[v] /\ ins'[v] = ins[v]
    BY <1>0, <1>1, <2>1 DEF TypeOK
  <2>7. InBatch(u)' \subseteq 1..at'[u] /\ Len(batch'[u]) <= ChunkSize
    BY <1>0, <2>1, <2>3
  <2> QED
    BY <1>0, <1>1, <1>3, <2>1, <2>2, <2>5, <2>6, <2>7, OneWriter DEF TypeOK
<1> QED
  BY <1>4, <1>5, <1>6

\* A writer moves on, and inserts or commits nothing.
LEMMA GotoStep ==
  ASSUME BaseInv, NEW w \in Writer, NEW label \in Labels,
         pc[w] \notin {"idle", "commit"},
         label \notin {"idle", "read", "done"}, Goto(w, label),
         UNCHANGED <<rows, ins, file, at, batch, sum, ghostVars>>,
         label \in {"merge", "commit"} /\ w \in Upload =>
            \A i \in InBatch(w) : file[w][i].fits
  PROVE  BaseInv'
<1>0. TypeOK /\ InsInv(w) /\ (w \in Upload => ReaderInv(w)) /\ ins[w] = {}
  BY DEF BaseInv, InsInv
<1>1. /\ pc' = [pc EXCEPT ![w] = label] /\ pc'[w] = label
      /\ pc' \in [Writer -> Labels]
      /\ rows' = rows /\ ins' = ins /\ file' = file /\ at' = at
      /\ batch' = batch /\ sum' = sum /\ calm' = calm /\ reruns' = reruns
  BY <1>0 DEF TypeOK, Goto, ghostVars
<1>2. InBatch(w)' = InBatch(w) /\ Flushed(w)' = Flushed(w)
  BY <1>1 DEF InBatch, Flushed
<1>3. InsInv(w)'
  BY <1>0, <1>1, FS_EmptySet DEF InsInv
<1>4. w \in Upload => ReaderInv(w)'
  BY <1>0, <1>1, <1>2 DEF ReaderInv
<1>5. w \in Upload => /\ at'[w] <= Len(file'[w])
                      /\ Len(batch'[w]) <= ChunkSize
                      /\ InBatch(w)' \subseteq 1..at'[w]
  BY <1>0, <1>1, <1>2 DEF TypeOK
<1>6. \A v \in Writer \ {w} :
          /\ pc'[v] = pc[v] /\ file'[v] = file[v] /\ at'[v] = at[v]
          /\ batch'[v] = batch[v] /\ sum'[v] = sum[v] /\ ins'[v] = ins[v]
  BY <1>0, <1>1 DEF TypeOK
<1> QED
  BY <1>0, <1>1, <1>3, <1>4, <1>5, <1>6, OneWriter DEF TypeOK

LEMMA StartStep ==
  ASSUME BaseInv, NEW w \in Upload \cup Loader, NEW f \in File,
         NEW label \in {"read", "merge", "failed"},
         w \in Upload => label = "read",
         Starts(w, label, f), UNCHANGED <<rows, ins, at, batch, sum>>,
         reruns' \subseteq Upload
  PROVE  BaseInv'
<1>0. /\ w \in Writer /\ f \in Seq(Row) /\ TypeOK /\ ChunkSize \in Nat \ {0}
      /\ InsInv(w) /\ (w \in Upload => ReaderInv(w)) /\ pc[w] = "idle"
      /\ ins[w] = {} /\ calm' = calm \cup {w}
  BY FileAssumption, ChunkAssumption DEF BaseInv, InsInv, Writer, Starts
<1>1. /\ pc' = [pc EXCEPT ![w] = label] /\ file' = [file EXCEPT ![w] = f]
      /\ rows' = rows /\ ins' = ins /\ at' = at /\ batch' = batch
      /\ sum' = sum
  BY DEF Starts, Goto
<1>2. /\ pc' \in [Writer -> Labels] /\ file' \in [Writer -> Seq(Row)]
      /\ pc'[w] = label /\ file'[w] = f
  BY <1>0, <1>1 DEF TypeOK, Labels
<1>3. InsInv(w)'
  BY <1>0, <1>1, NoInserts DEF TypeOK
<1>4. w \in Upload => /\ at'[w] = 0 /\ Len(batch'[w]) = 0
                      /\ InBatch(w)' = {} /\ Flushed(w)' = {}
  BY <1>0, <1>1 DEF ReaderInv, InBatch, Flushed
<1>5. w \in Upload => /\ at'[w] <= Len(file'[w])
                      /\ Len(batch'[w]) <= ChunkSize
                      /\ InBatch(w)' \subseteq 1..at'[w]
                      /\ ReaderInv(w)'
  BY <1>0, <1>2, <1>4 DEF ReaderInv
<1>6. \A v \in Writer \ {w} :
          /\ pc'[v] = pc[v] /\ file'[v] = file[v] /\ at'[v] = at[v]
          /\ batch'[v] = batch[v] /\ sum'[v] = sum[v] /\ ins'[v] = ins[v]
  BY <1>0, <1>1 DEF TypeOK
<1>7. calm' \subseteq Writer
  BY <1>0 DEF TypeOK
<1> QED
  BY <1>0, <1>1, <1>2, <1>3, <1>5, <1>6, <1>7, OneWriter DEF TypeOK

\* A writer inserts the rows at S.
LEMMA MergeStep ==
  ASSUME BaseInv, NEW w \in Writer, NEW S \in SUBSET (1..Len(file[w])),
         pc[w] = "merge", w \in Upload => S = InBatch(w),
         ins' = [ins EXCEPT ![w] = Merged(w, S)],
         Goto(w, "commit"), UNCHANGED <<rows, file, at, batch, sum, ghostVars>>
  PROVE  BaseInv'
<1>0. TypeOK /\ (w \in Upload => ReaderInv(w))
  BY DEF BaseInv
<1>1. /\ pc' = [pc EXCEPT ![w] = "commit"]
      /\ rows' = rows /\ file' = file /\ at' = at
      /\ batch' = batch /\ sum' = sum /\ calm' = calm /\ reruns' = reruns
  BY DEF Goto, ghostVars
<1>2. /\ pc' \in [Writer -> Labels] /\ pc'[w] = "commit"
      /\ ins' \in [Writer -> SUBSET Profile] /\ ins'[w] = Merged(w, S)
  BY <1>0, <1>1, MergedRows DEF TypeOK, Labels
<1>3. InBatch(w)' = InBatch(w) /\ Flushed(w)' = Flushed(w)
  BY <1>1 DEF InBatch, Flushed
<1>4. InsInv(w)'
  <2>1. \A p \in ins'[w] : Made(w, p)' /\ p.id[2] \in S
    <3>1. \A p : Made(w, p)' <=> Made(w, p)
      BY <1>1 DEF Made, Record
    <3>2. \A p \in Merged(w, S) : Made(w, p) /\ p.id[2] \in S
      BY <1>0, MergedRows DEF TypeOK
    <3> QED
      BY <1>2, <3>1, <3>2
  <2>2. IsFiniteSet(ins'[w])
    BY <1>0, <1>2, MergedCount DEF TypeOK
  <2>3. w \in Upload => Cardinality(ins'[w]) <= Len(batch'[w])
    <3>1. Cardinality(ins'[w]) <= Cardinality(S)
      BY <1>0, <1>2, MergedCount DEF TypeOK
    <3>2. w \in Upload => /\ IsFiniteSet(S) /\ Cardinality(S) <= Len(batch[w])
      BY <1>0, BatchCount DEF TypeOK
    <3>3. w \in Upload => Cardinality(S) \in Nat
      BY <3>2, FS_CardinalityType
    <3>4. Cardinality(ins'[w]) \in Nat
      BY <2>2, FS_CardinalityType
    <3>5. Len(batch[w]) \in Nat
      BY <1>0 DEF TypeOK
    <3> QED
      BY <1>1, <3>1, <3>2, <3>3, <3>4, <3>5
  <2> QED
    BY <1>2, <1>3, <2>1, <2>2, <2>3 DEF InsInv
<1>5. w \in Upload => ReaderInv(w)'
  BY <1>0, <1>1, <1>2, <1>3 DEF ReaderInv
<1>6. w \in Upload => /\ at'[w] <= Len(file'[w])
                      /\ Len(batch'[w]) <= ChunkSize
                      /\ InBatch(w)' \subseteq 1..at'[w]
  BY <1>0, <1>1, <1>3 DEF TypeOK
<1>7. \A v \in Writer \ {w} :
          /\ pc'[v] = pc[v] /\ file'[v] = file[v] /\ at'[v] = at[v]
          /\ batch'[v] = batch[v] /\ sum'[v] = sum[v] /\ ins'[v] = ins[v]
  BY <1>0, <1>1 DEF TypeOK
<1> QED
  BY <1>0, <1>1, <1>2, <1>4, <1>5, <1>6, <1>7, OneWriter DEF TypeOK

\* The rows of a writer reach the table, or vanish.
LEMMA EndStep ==
  ASSUME BaseInv, NEW w \in Writer, NEW label \in {"done", "lost"},
         pc[w] \in {"copy", "merge", "commit"},
         label = "done" => w \notin Upload,
         rows' \subseteq rows \cup ins[w], ins' = [ins EXCEPT ![w] = {}],
         Goto(w, label), UNCHANGED <<file, at, batch, sum, ghostVars>>
  PROVE  BaseInv'
<1>0. TypeOK /\ (w \in Upload => ReaderInv(w))
  BY DEF BaseInv
<1>1. /\ pc' = [pc EXCEPT ![w] = label]
      /\ file' = file /\ at' = at
      /\ batch' = batch /\ sum' = sum /\ calm' = calm /\ reruns' = reruns
  BY DEF Goto, ghostVars
<1>2. /\ pc' \in [Writer -> Labels] /\ pc'[w] = label
      /\ ins' \in [Writer -> SUBSET Profile] /\ ins'[w] = {}
  BY <1>0, <1>1 DEF TypeOK, Labels
<1>3. InBatch(w)' = InBatch(w) /\ Flushed(w)' = Flushed(w)
  BY <1>1 DEF InBatch, Flushed
<1>4. InsInv(w)'
  BY <1>0, <1>1, <1>2, NoInserts DEF TypeOK
<1>5. w \in Upload => ReaderInv(w)'
  BY <1>0, <1>1, <1>2, <1>3 DEF ReaderInv
<1>6. w \in Upload => /\ at'[w] <= Len(file'[w])
                      /\ Len(batch'[w]) <= ChunkSize
                      /\ InBatch(w)' \subseteq 1..at'[w]
  BY <1>0, <1>1, <1>3 DEF TypeOK
<1>7. \A v \in Writer \ {w} :
          /\ pc'[v] = pc[v] /\ file'[v] = file[v] /\ at'[v] = at[v]
          /\ batch'[v] = batch[v] /\ sum'[v] = sum[v] /\ ins'[v] = ins[v]
  BY <1>0, <1>1 DEF TypeOK
<1> QED
  BY <1>0, <1>1, <1>2, <1>4, <1>5, <1>6, <1>7, OneWriter DEF TypeOK

\* What a chunk adds to the summary.
LEMMA CountedType ==
  ASSUME NEW m \in Summary, NEW n \in Nat, NEW d \in Nat
  PROVE  [m EXCEPT !.inserted = @ + n, !.skipped = @ + d,
                   !.reasons["duplicate_name"] = @ + d] \in Summary
<1> DEFINE r == [m.reasons EXCEPT !["duplicate_name"] = @ + d]
<1>1. r \in [Reason -> Nat]
  BY DEF Summary, Reason
<1>2. m.inserted + n \in Nat /\ m.skipped + d \in Nat /\ m.total \in Nat
  BY DEF Summary
<1> HIDE DEF r
<1>3. [m EXCEPT !.inserted = m.inserted + n, !.skipped = m.skipped + d,
                !.reasons = r] \in Summary
  BY <1>1, <1>2 DEF Summary
<1> QED
  BY <1>3 DEF r

LEMMA CommitStep == ASSUME BaseInv, NEW u \in Upload, CommitChunk(u)
                    PROVE  BaseInv'
<1> DEFINE n == Cardinality(ins[u])
           k == Len(batch[u])
<1>0. /\ u \in Writer /\ TypeOK /\ ReaderInv(u) /\ pc[u] = "commit"
      /\ sum[u] \in Summary /\ n \in Nat /\ k \in Nat /\ n <= k
      /\ ChunkSize \in Nat \ {0}
  BY ChunkAssumption, FS_CardinalityType
     DEF BaseInv, InsInv, TypeOK, Writer, CommitChunk
<1>1. /\ pc' = [pc EXCEPT ![u] = "read"] /\ rows' = rows \cup ins[u]
      /\ ins' = [ins EXCEPT ![u] = {}] /\ batch' = [batch EXCEPT ![u] = <<>>]
      /\ sum' = Counted(u, n) /\ file' = file /\ at' = at
      /\ calm' = calm /\ reruns' = reruns
  BY DEF CommitChunk, Goto, ghostVars
<1>2. /\ pc' \in [Writer -> Labels] /\ pc'[u] = "read"
      /\ ins' \in [Writer -> SUBSET Profile] /\ ins'[u] = {}
      /\ batch' \in [Writer -> Seq(Nat)] /\ Len(batch'[u]) = 0
  BY <1>0, <1>1 DEF TypeOK, Labels
<1>3. sum' \in [Writer -> Summary] /\ \A v \in Writer \ {u} : sum'[v] = sum[v]
  <2>1. k - n \in Nat
    BY <1>0
  <2>2. [sum[u] EXCEPT !.inserted = @ + n, !.skipped = @ + (k - n),
                       !.reasons["duplicate_name"] = @ + (k - n)] \in Summary
    BY <1>0, <2>1, CountedType
  <2> QED
    BY <1>0, <1>1, <2>2 DEF TypeOK, Counted
<1>4. InBatch(u)' = {} /\ Flushed(u)' \subseteq Flushed(u) \cup InBatch(u)
  BY <1>1, <1>2 DEF InBatch, Flushed
<1>5. InsInv(u)'
  BY <1>0, <1>2, NoInserts
<1>6. ReaderInv(u)'
  BY <1>0, <1>1, <1>2, <1>4 DEF ReaderInv
<1>7. /\ at'[u] <= Len(file'[u]) /\ Len(batch'[u]) <= ChunkSize
      /\ InBatch(u)' \subseteq 1..at'[u]
  BY <1>0, <1>1, <1>2, <1>4 DEF TypeOK
<1>8. \A v \in Writer \ {u} :
          /\ pc'[v] = pc[v] /\ file'[v] = file[v] /\ at'[v] = at[v]
          /\ batch'[v] = batch[v] /\ sum'[v] = sum[v] /\ ins'[v] = ins[v]
  BY <1>0, <1>1, <1>3 DEF TypeOK
<1> QED
  BY <1>0, <1>1, <1>2, <1>3, <1>5, <1>6, <1>7, <1>8, OneWriter DEF TypeOK

LEMMA RemoveStep == ASSUME BaseInv, NEW p \in rows, Remove(p) PROVE BaseInv'
<1>0. /\ rows' \subseteq rows /\ calm' = {} /\ reruns' = {}
      /\ UNCHANGED <<ins, pc, file, at, batch, sum>>
  BY DEF Remove
<1>1. TypeOK'
  BY <1>0 DEF BaseInv, TypeOK, InBatch
<1>2. \A u \in Upload : ReaderInv(u)'
  BY <1>0 DEF BaseInv, ReaderInv, InBatch, Flushed
<1>3. \A w \in Writer : InsInv(w)'
  <2>1. \A w \in Writer : InBatch(w)' = InBatch(w)
    BY <1>0 DEF InBatch
  <2>2. \A w \in Writer : \A q : Made(w, q)' <=> Made(w, q)
    BY <1>0 DEF Made, Record
  <2> QED
    BY <1>0, <2>1, <2>2 DEF BaseInv, InsInv
<1>4. RowsInv'
  BY <1>0, FS_Subset DEF BaseInv, RowsInv, Made, Record
<1> QED
  BY <1>1, <1>2, <1>3, <1>4 DEF BaseInv

LEMMA DropStep == ASSUME BaseInv, NEW w \in Seeder, SeedDrop(w) PROVE BaseInv'
<1>0. /\ w \in Writer /\ w \notin Upload /\ TypeOK /\ InsInv(w)
      /\ pc[w] = "idle" /\ ins[w] = {} /\ SeedData \in Seq(Row)
  BY WriterAssumption, FileAssumption
     DEF BaseInv, InsInv, Writer, SeedDrop
<1>1. /\ pc' = [pc EXCEPT ![w] = "merge"]
      /\ file' = [file EXCEPT ![w] = SeedData]
      /\ rows' = {} /\ calm' = {w} /\ reruns' = {}
      /\ ins' = ins /\ at' = at /\ batch' = batch /\ sum' = sum
  BY DEF SeedDrop, Goto
<1>2. /\ pc' \in [Writer -> Labels] /\ file' \in [Writer -> Seq(Row)]
      /\ pc'[w] = "merge"
  BY <1>0, <1>1 DEF TypeOK, Labels
<1>3. InsInv(w)'
  BY <1>0, <1>1, NoInserts DEF TypeOK
<1>4. \A v \in Writer \ {w} :
          /\ pc'[v] = pc[v] /\ file'[v] = file[v] /\ at'[v] = at[v]
          /\ batch'[v] = batch[v] /\ sum'[v] = sum[v] /\ ins'[v] = ins[v]
  BY <1>0, <1>1 DEF TypeOK
<1> QED
  BY <1>0, <1>1, <1>2, <1>3, <1>4, OneWriter DEF TypeOK

LEMMA BaseNext == BaseInv /\ [Next]_vars => BaseInv'
<1> SUFFICES ASSUME BaseInv, [Next]_vars PROVE BaseInv'
  OBVIOUS
<1>1. ASSUME NEW u \in Upload, UploadStep(u) PROVE BaseInv'
  <2>0. u \in Writer
    BY DEF Writer
  <2>1. CASE \E f \in File : UploadStart(u, f)
    <3>1. PICK f \in File : UploadStart(u, f)
      BY <2>1
    <3>2. reruns' \subseteq Upload
      BY <3>1 DEF UploadStart, BaseInv, TypeOK
    <3> QED
      BY <3>1, <3>2, StartStep DEF UploadStart
  <2>2. CASE TakeRow(u) \/ SkipRow(u) \/ EndOfFile(u)
    BY <2>2, ReadStep
  <2>3. CASE CopyChunk(u)
    BY <2>0, <2>3, GotoStep DEF CopyChunk, Labels
  <2>4. CASE MergeChunk(u)
    <3>1. InBatch(u) \in SUBSET (1..Len(file[u]))
      BY <2>0 DEF BaseInv, TypeOK
    <3> QED
      BY <2>0, <2>4, <3>1, MergeStep DEF MergeChunk
  <2>5. CASE CommitChunk(u)
    BY <2>5, CommitStep
  <2> QED
    BY <1>1, <2>1, <2>2, <2>3, <2>4, <2>5 DEF UploadStep
<1>2. ASSUME NEW l \in Loader, NEW f \in File, LoadStart(l, f) PROVE BaseInv'
  BY <1>2, StartStep, WriterAssumption DEF LoadStart, BaseInv, TypeOK
<1>3. ASSUME NEW w \in Loader \cup Seeder, MergeAll(w) \/ CommitAll(w)
      PROVE  BaseInv'
  <2>0. w \in Writer /\ w \notin Upload
    BY WriterAssumption DEF Writer
  <2>1. CASE MergeAll(w)
    BY <2>0, <2>1, MergeStep DEF MergeAll
  <2>2. CASE CommitAll(w)
    BY <2>0, <2>2, EndStep DEF CommitAll
  <2> QED
    BY <1>3, <2>1, <2>2
<1>4. ASSUME NEW w \in Writer, Fail(w) PROVE BaseInv'
  BY <1>4, EndStep DEF Fail
<1>5. CASE UNCHANGED vars
  <2>1. \A w \in Writer : InBatch(w)' = InBatch(w)
    BY <1>5 DEF vars, InBatch
  <2>2. \A w \in Writer : \A q : Made(w, q)' <=> Made(w, q)
    BY <1>5 DEF vars, Made, Record
  <2>3. TypeOK' /\ \A u \in Upload : ReaderInv(u)'
    BY <1>5, <2>1 DEF vars, ghostVars, BaseInv, TypeOK, ReaderInv, Flushed,
                      Writer
  <2>4. \A w \in Writer : InsInv(w)'
    BY <1>5, <2>1, <2>2 DEF vars, BaseInv, InsInv
  <2>5. RowsInv'
    BY <1>5, <2>2 DEF vars, BaseInv, RowsInv, TypeOK, Profile
  <2> QED
    BY <2>3, <2>4, <2>5 DEF BaseInv
<1> QED
  BY <1>1, <1>2, <1>3, <1>4, <1>5, RemoveStep, DropStep DEF Next

LEMMA BaseInvariance == Spec => []BaseInv
  BY BaseInit, BaseNext, PTL DEF Spec

\* Every variable keeps its type: no batch outgrows its chunk, and every
\* counter of IngestSummary stays a natural number.
THEOREM TypeCorrect == Spec => []TypeOK
  BY BaseInvariance, PTL DEF BaseInv

\* csv_ingest.py and enrichment.py put every age into the same group: rows
\* that were uploaded have the age group POST would have given them.
THEOREM AgeGroupsAgree == Spec => []SameAgeGroups
<1>1. BaseInv => SameAgeGroups
  <2> SUFFICES ASSUME BaseInv, NEW p \in rows, p.id[1] \in Upload,
                      file[p.id[1]][p.id[2]].group = ""
               PROVE  p.group = EnrichedAgeGroup(p.age)
    BY DEF SameAgeGroups
  <2> DEFINE u == p.id[1]
             i == p.id[2]
  <2>1. p = Record(u, i) /\ i \in 1..Len(file[u]) /\ file[u] \in Seq(Row)
    BY DEF BaseInv, TypeOK, RowsInv, Made, Writer
  <2>0. u \in Upload /\ file[u][i].group = ""
    OBVIOUS
  <2> HIDE DEF u, i
  <2>2. p.age = file[u][i].age /\ p.group = ClassifyAgeGroup(file[u][i].age)
    BY <2>0, <2>1 DEF Record
  <2>3. file[u][i].age \in Int
    <3>1. file[u][i] \in Row
      BY <2>1, RowOfFile
    <3> QED
      BY <3>1 DEF Row
  <2> QED
    BY <2>2, <2>3, SameGroups
<1> QED
  BY <1>1, BaseInvariance, PTL
-----------------------------------------------------------------------------
(* The counters. *)

AllReasons(g) ==
    g["malformed_row"] + g["missing_fields"] + g["invalid_gender"]
        + g["invalid_age"] + g["duplicate_name"]

\* The summary m fits n rows read and k rows in the batch.
Balanced(m, n, k) ==
    /\ m.total = n
    /\ m.total = m.inserted + m.skipped + k
    /\ m.skipped = AllReasons(m.reasons)

CountInv == \A u \in Upload : Balanced(sum[u], at[u], Len(batch[u]))

LEMMA CountInvSays == CountInv <=> CountsAddUp
  BY DEF CountsAddUp, CountInv, Balanced, AllReasons

LEMMA MoreOfOne ==
  ASSUME NEW g \in [Reason -> Nat], NEW r \in Reason, NEW d \in Nat
  PROVE  AllReasons([g EXCEPT ![r] = @ + d]) = AllReasons(g) + d
<1> DEFINE h == [g EXCEPT ![r] = @ + d]
<1>1. \A x \in Reason : /\ g[x] \in Nat
                        /\ h[x] = IF x = r THEN g[x] + d ELSE g[x]
  OBVIOUS
<1> HIDE DEF h
<1>2. AllReasons(h) = AllReasons(g) + d
  BY <1>1 DEF AllReasons, Reason
<1> QED
  BY <1>2 DEF h

LEMMA BalancedTake ==
  ASSUME NEW m \in Summary, NEW n \in Nat, NEW k \in Nat, Balanced(m, n, k)
  PROVE  Balanced([m EXCEPT !.total = @ + 1], n + 1, k + 1)
  BY DEF Balanced, Summary

LEMMA BalancedSkip ==
  ASSUME NEW m \in Summary, NEW n \in Nat, NEW k \in Nat, Balanced(m, n, k),
         NEW r \in Reason
  PROVE  Balanced([m EXCEPT !.total = @ + 1, !.skipped = @ + 1,
                            !.reasons[r] = @ + 1], n + 1, k)
<1> DEFINE x == [m EXCEPT !.total = @ + 1, !.skipped = @ + 1,
                          !.reasons[r] = @ + 1]
<1>1. /\ x.total = m.total + 1 /\ x.skipped = m.skipped + 1
      /\ x.inserted = m.inserted
      /\ x.reasons = [m.reasons EXCEPT ![r] = @ + 1]
      /\ m.total \in Nat /\ m.skipped \in Nat /\ m.inserted \in Nat
      /\ m.reasons \in [Reason -> Nat]
  BY DEF Summary
<1>2. AllReasons(x.reasons) = AllReasons(m.reasons) + 1
  BY <1>1, MoreOfOne
<1> HIDE DEF x
<1>3. Balanced(x, n + 1, k)
  BY <1>1, <1>2 DEF Balanced
<1> QED
  BY <1>3 DEF x

LEMMA BalancedCommit ==
  ASSUME NEW m \in Summary, NEW n \in Nat, NEW i \in Nat, NEW d \in Nat,
         Balanced(m, n, i + d)
  PROVE  Balanced([m EXCEPT !.inserted = @ + i, !.skipped = @ + d,
                            !.reasons["duplicate_name"] = @ + d], n, 0)
<1> DEFINE x == [m EXCEPT !.inserted = @ + i, !.skipped = @ + d,
                          !.reasons["duplicate_name"] = @ + d]
<1>1. /\ x.total = m.total /\ x.skipped = m.skipped + d
      /\ x.inserted = m.inserted + i
      /\ x.reasons = [m.reasons EXCEPT !["duplicate_name"] = @ + d]
      /\ m.total \in Nat /\ m.skipped \in Nat /\ m.inserted \in Nat
      /\ m.reasons \in [Reason -> Nat]
  BY DEF Summary
<1>2. AllReasons(x.reasons) = AllReasons(m.reasons) + d
  BY <1>1, MoreOfOne DEF Reason
<1> HIDE DEF x
<1>3. Balanced(x, n, 0)
  BY <1>1, <1>2 DEF Balanced
<1> QED
  BY <1>3 DEF x

LEMMA CountInit == Init => CountInv
<1> SUFFICES ASSUME Init, NEW u \in Upload
             PROVE  Balanced(sum[u], at[u], Len(batch[u]))
  BY DEF CountInv
<1>1. at[u] = 0 /\ batch[u] = <<>> /\ sum[u] = NoRows
  BY DEF Init, Writer
<1> QED
  BY <1>1 DEF Balanced, NoRows, Reason, AllReasons

LEMMA CountNext ==
  ASSUME BaseInv, CountInv, [Next]_vars
  PROVE  CountInv'
<1>1. ASSUME NEW u \in Upload
      PROVE  /\ u \in Writer /\ sum[u] \in Summary /\ at[u] \in Nat
             /\ batch[u] \in Seq(Nat) /\ Len(batch[u]) \in Nat
             /\ Balanced(sum[u], at[u], Len(batch[u]))
  BY DEF BaseInv, TypeOK, Writer, CountInv
<1>2. sum \in [Writer -> Summary] /\ at \in [Writer -> Nat]
      /\ batch \in [Writer -> Seq(Nat)]
  BY DEF BaseInv, TypeOK
<1>3. ASSUME NEW u \in Upload, NEW v \in Upload, u # v,
             TakeRow(v) \/ SkipRow(v) \/ CommitChunk(v)
      PROVE  Balanced(sum'[u], at'[u], Len(batch'[u]))
  <2>1. at'[u] = at[u] /\ batch'[u] = batch[u] /\ sum'[u] = sum[u]
    BY <1>1, <1>2, <1>3 DEF TakeRow, SkipRow, CommitChunk, Counted
  <2> QED
    BY <1>1, <2>1
<1>4. ASSUME NEW u \in Upload, TakeRow(u)
      PROVE  Balanced(sum'[u], at'[u], Len(batch'[u]))
  <2>1. /\ at'[u] = at[u] + 1
        /\ batch'[u] = Append(batch[u], at[u] + 1)
        /\ sum'[u] = [sum[u] EXCEPT !.total = @ + 1]
    BY <1>1, <1>2, <1>4 DEF TakeRow
  <2>2. Len(batch'[u]) = Len(batch[u]) + 1
    BY <1>1, <2>1
  <2>3. Balanced([sum[u] EXCEPT !.total = @ + 1],
                 at[u] + 1, Len(batch[u]) + 1)
    BY <1>1, BalancedTake
  <2> QED
    BY <2>1, <2>2, <2>3
<1>5. ASSUME NEW u \in Upload, SkipRow(u)
      PROVE  Balanced(sum'[u], at'[u], Len(batch'[u]))
  <2> DEFINE r == Verdict(file[u][at[u] + 1])
  <2>1. /\ at'[u] = at[u] + 1 /\ batch'[u] = batch[u]
        /\ sum'[u] = [sum[u] EXCEPT !.total = @ + 1, !.skipped = @ + 1,
                                    !.reasons[r] = @ + 1]
    BY <1>1, <1>2, <1>5 DEF SkipRow
  <2>2. r \in Reason
    BY DEF Verdict, Reason
  <2> HIDE DEF r
  <2>3. Balanced([sum[u] EXCEPT !.total = @ + 1, !.skipped = @ + 1,
                                !.reasons[r] = @ + 1],
                 at[u] + 1, Len(batch[u]))
    BY <1>1, <2>2, BalancedSkip
  <2> QED
    BY <2>1, <2>3
<1>6. ASSUME NEW u \in Upload, CommitChunk(u)
      PROVE  Balanced(sum'[u], at'[u], Len(batch'[u]))
  <2> DEFINE n == Cardinality(ins[u])
             d == Len(batch[u]) - n
  <2>1. /\ at'[u] = at[u] /\ Len(batch'[u]) = 0
        /\ sum'[u] = [sum[u] EXCEPT
                        !.inserted = @ + n, !.skipped = @ + d,
                        !.reasons["duplicate_name"] = @ + d]
    BY <1>1, <1>2, <1>6 DEF CommitChunk, Counted
  <2>2. n \in Nat /\ n <= Len(batch[u])
    BY <1>1, FS_CardinalityType DEF BaseInv, InsInv
  <2>3. d \in Nat /\ Len(batch[u]) = n + d
    BY <1>1, <2>2
  <2> HIDE DEF n, d
  <2>4. Balanced(sum[u], at[u], n + d)
    BY <1>1, <2>3
  <2>5. Balanced([sum[u] EXCEPT
                    !.inserted = @ + n, !.skipped = @ + d,
                    !.reasons["duplicate_name"] = @ + d], at[u], 0)
    BY <1>1, <2>2, <2>3, <2>4, BalancedCommit
  <2> QED
    BY <2>1, <2>5
<1>7. ASSUME UNCHANGED <<at, batch, sum>> PROVE CountInv'
  BY <1>7 DEF CountInv
<1>8. ASSUME Next, ~\E u \in Upload :
                        TakeRow(u) \/ SkipRow(u) \/ CommitChunk(u)
      PROVE  UNCHANGED <<at, batch, sum>>
  BY <1>8 DEF Next, UploadStep, UploadStart, EndOfFile, CopyChunk, MergeChunk,
              LoadStart, SeedDrop, MergeAll, CommitAll, Fail, Remove
<1>9. CASE UNCHANGED vars
  BY <1>7, <1>9 DEF vars
<1>10. CASE \E v \in Upload : TakeRow(v) \/ SkipRow(v) \/ CommitChunk(v)
  BY <1>3, <1>4, <1>5, <1>6, <1>10 DEF CountInv
<1> QED
  BY <1>7, <1>8, <1>9, <1>10

LEMMA CountInvariance == Spec => []CountInv
  BY CountInit, CountNext, BaseInvariance, PTL DEF Spec

\* IngestSummary accounts for every row read exactly once, whenever the upload
\* ends or fails.
THEOREM CountsRight == Spec => []CountsAddUp
  BY CountInvSays, CountInvariance, PTL
-----------------------------------------------------------------------------
(* Names: what a transaction has merged is stored, or will be.  While a      *)
(* writer is calm no name leaves the table.                                  *)

Stored(w, i) == file[w][i].name \in NamesOf(rows)

\* Positions w's transaction merges.
Loading(w) == IF w \in Upload THEN InBatch(w) ELSE 1..Len(file[w])

PendingInv(w) ==
    w \in calm /\ pc[w] = "commit" =>
        \A i \in Loading(w) : \/ Stored(w, i)
                              \/ file[w][i].name \in NamesOf(ins[w])

StoredInv(u) == u \in calm => \A i \in Flushed(u) : Stored(u, i)

LoaderInv(l) ==
    /\ pc[l] \notin {"done", "lost"} => RowsOf(l) = {}
    /\ l \in calm /\ RowsOf(l) # {} => \A i \in Loading(l) : Stored(l, i)

\* An upload that repeats a loaded file finds every row of it stored.
RerunInv(u) ==
    u \in reruns =>
        /\ u \in calm /\ pc[u] \notin {"idle", "failed"}
        /\ sum[u].inserted = 0 /\ ins[u] = {}
        /\ \A i \in 1..Len(file[u]) :
              Valid(file[u][i]) => file[u][i].fits /\ Stored(u, i)

NamesOk(w) ==
    /\ PendingInv(w)
    /\ w \in Upload => StoredInv(w) /\ RerunInv(w)
    /\ w \in Loader => LoaderInv(w)

NamesInv == \A w \in Writer : NamesOk(w)

\* A step of another writer, or one that loses rows and calms nobody.
LEMMA Bystander ==
  ASSUME NEW v \in Writer, NamesOk(v),
         pc'[v] = pc[v], file'[v] = file[v], at'[v] = at[v],
         batch'[v] = batch[v], sum'[v] = sum[v], ins'[v] = ins[v],
         v \in calm' => v \in calm /\ rows \subseteq rows',
         v \in reruns' => v \in reruns /\ v \in calm',
         \A p \in rows' : p \in rows \/ p.id[1] # v
  PROVE  NamesOk(v)'
<1>1. /\ InBatch(v)' = InBatch(v) /\ Loading(v)' = Loading(v)
      /\ Flushed(v)' = Flushed(v)
  BY DEF InBatch, Loading, Flushed
<1>2. ASSUME v \in calm'
      PROVE  v \in calm /\ \A i : Stored(v, i) => Stored(v, i)'
  BY <1>2 DEF Stored, NamesOf
<1>3. RowsOf(v)' \subseteq RowsOf(v)
  BY DEF RowsOf
<1>4. PendingInv(v)'
  BY <1>1, <1>2 DEF NamesOk, PendingInv, NamesOf
<1>5. v \in Upload => StoredInv(v)' /\ RerunInv(v)'
  BY <1>1, <1>2 DEF NamesOk, StoredInv, RerunInv
<1>6. v \in Loader => LoaderInv(v)'
  BY <1>1, <1>2, <1>3 DEF NamesOk, LoaderInv
<1> QED
  BY <1>4, <1>5, <1>6 DEF NamesOk

\* The upload reads on or copies: nothing happens to the table.
LEMMA NamesQuiet ==
  ASSUME BaseInv, NamesInv, NEW u \in Upload,
         TakeRow(u) \/ SkipRow(u) \/ EndOfFile(u) \/ CopyChunk(u)
  PROVE  NamesOk(u)'
<1>1. /\ u \in Writer /\ u \notin Loader /\ NamesOk(u) /\ ReaderInv(u)
      /\ TypeOK /\ at[u] \in Nat /\ batch[u] \in Seq(Nat)
      /\ InBatch(u) \subseteq 1..at[u] /\ at[u] <= Len(file[u])
      /\ Len(file[u]) \in Nat
  BY WriterAssumption DEF Writer, NamesInv, BaseInv, TypeOK
<1>2. /\ rows' = rows /\ ins' = ins /\ file' = file /\ calm' = calm
      /\ reruns' = reruns /\ pc[u] \in {"read", "copy"}
  BY DEF TakeRow, SkipRow, EndOfFile, CopyChunk, ghostVars
<1>3. pc'[u] \in {"read", "copy", "merge", "done", "failed"}
  BY <1>1, <1>2 DEF TakeRow, SkipRow, EndOfFile, CopyChunk, Goto, TypeOK
<1>4. sum'[u].inserted = sum[u].inserted
  BY <1>1 DEF TakeRow, SkipRow, EndOfFile, CopyChunk, TypeOK, Summary
<1>5. Flushed(u)' \subseteq Flushed(u)
  <2>1. CASE TakeRow(u)
    <3>1. at'[u] = at[u] + 1 /\ batch'[u] = Append(batch[u], at[u] + 1)
      BY <1>1, <2>1 DEF TakeRow, TypeOK
    <3>2. /\ Len(batch'[u]) = Len(batch[u]) + 1
          /\ \A k \in 1..Len(batch[u]) : batch'[u][k] = batch[u][k]
          /\ batch'[u][Len(batch[u]) + 1] = at[u] + 1
          /\ 1..Len(batch'[u]) = 1..Len(batch[u]) \cup {Len(batch[u]) + 1}
      BY <1>1, <3>1
    <3>3. InBatch(u) \cup {at[u] + 1} \subseteq InBatch(u)'
      BY <1>1, <3>2 DEF InBatch
    <3> QED
      BY <1>1, <1>2, <3>1, <3>3 DEF Flushed
  <2>2. CASE SkipRow(u)
    <3>1. /\ at'[u] = at[u] + 1 /\ batch' = batch
          /\ ~Valid(file[u][at[u] + 1])
      BY <1>1, <2>2 DEF SkipRow, TypeOK
    <3> QED
      BY <1>1, <1>2, <3>1 DEF Flushed, InBatch
  <2>3. CASE EndOfFile(u) \/ CopyChunk(u)
    BY <1>2, <2>3 DEF EndOfFile, CopyChunk, Flushed, InBatch
  <2> QED
    BY <2>1, <2>2, <2>3
<1>6. ASSUME u \in reruns PROVE pc'[u] # "failed"
  <2>1. CASE CopyChunk(u)
    <3>1. \A i \in InBatch(u) : file[u][i].fits
      BY <1>1, <1>6 DEF NamesOk, RerunInv, ReaderInv
    <3> QED
      BY <1>1, <2>1, <3>1 DEF CopyChunk, Goto, TypeOK
  <2>2. CASE TakeRow(u) \/ SkipRow(u) \/ EndOfFile(u)
    BY <1>1, <2>2 DEF TakeRow, SkipRow, EndOfFile, Goto, TypeOK
  <2> QED
    BY <2>1, <2>2
<1>7. \A i : Stored(u, i)' <=> Stored(u, i)
  BY <1>2 DEF Stored
<1>8. PendingInv(u)' /\ StoredInv(u)'
  BY <1>1, <1>2, <1>3, <1>5, <1>7 DEF NamesOk, PendingInv, StoredInv
<1>9. RerunInv(u)'
  BY <1>1, <1>2, <1>3, <1>4, <1>6, <1>7 DEF NamesOk, RerunInv
<1> QED
  BY <1>1, <1>8, <1>9 DEF NamesOk

\* A file that was loaded to the end has all its names in the table.
LEMMA NamesUpload ==
  ASSUME BaseInv, NamesInv, NEW u \in Upload, NEW f \in File,
         UploadStart(u, f)
  PROVE  NamesOk(u)'
<1>1. /\ u \in Writer /\ u \notin Loader /\ NamesOk(u) /\ ReaderInv(u)
      /\ InsInv(u) /\ TypeOK /\ pc[u] = "idle"
  BY WriterAssumption
     DEF Writer, NamesInv, BaseInv, UploadStart, Starts
<1>2. /\ rows' = rows /\ ins' = ins /\ at' = at /\ batch' = batch
      /\ sum' = sum /\ pc'[u] = "read" /\ file'[u] = f
      /\ calm' = calm \cup {u}
      /\ u \in reruns' => u \in reruns \/ f \in Loaded
  BY <1>1 DEF UploadStart, Starts, Goto, TypeOK
<1>3. /\ at[u] = 0 /\ sum[u].inserted = 0 /\ ins[u] = {} /\ u \notin reruns
  BY <1>1 DEF ReaderInv, InsInv, NoRows, NamesOk, RerunInv
<1>4. Flushed(u)' = {}
  BY <1>2, <1>3 DEF Flushed
<1>5. ASSUME f \in Loaded, NEW i \in 1..Len(f), Valid(f[i])
      PROVE  f[i].fits /\ f[i].name \in NamesOf(rows)
  <2>1. PICK v \in Upload \cap calm : pc[v] = "done" /\ f = file[v]
    BY <1>5 DEF Loaded
  <2>2. /\ v \in Writer /\ ReaderInv(v) /\ NamesOk(v)
        /\ at[v] = Len(file[v]) /\ batch[v] = <<>>
    BY <2>1 DEF BaseInv, NamesInv, Writer, ReaderInv
  <2>3. InBatch(v) = {}
    BY <2>2 DEF InBatch
  <2>4. i \in Flushed(v)
    BY <1>5, <2>1, <2>2, <2>3 DEF Flushed
  <2> QED
    BY <2>1, <2>2, <2>4 DEF ReaderInv, NamesOk, StoredInv, Stored
<1>6. PendingInv(u)' /\ StoredInv(u)'
  BY <1>2, <1>4 DEF PendingInv, StoredInv
<1>7. RerunInv(u)'
  BY <1>2, <1>3, <1>5 DEF RerunInv, Stored
<1> QED
  BY <1>1, <1>6, <1>7 DEF NamesOk

LEMMA NamesLoad ==
  ASSUME BaseInv, NamesInv, NEW l \in Loader, NEW f \in File, LoadStart(l, f)
  PROVE  NamesOk(l)'
<1>1. /\ l \in Writer /\ l \notin Upload /\ NamesOk(l) /\ TypeOK
      /\ pc[l] = "idle" /\ rows' = rows
  BY WriterAssumption DEF Writer, NamesInv, BaseInv, LoadStart, Starts
<1>2. pc'[l] \in {"merge", "failed"}
  BY <1>1 DEF LoadStart, Starts, Goto, TypeOK
<1>3. RowsOf(l)' = {}
  BY <1>1 DEF NamesOk, LoaderInv, RowsOf
<1> QED
  BY <1>1, <1>2, <1>3 DEF NamesOk, PendingInv, LoaderInv

\* After a merge each name of the batch is in the table or among the new rows.
LEMMA NamesMerge ==
  ASSUME BaseInv, NamesInv, NEW w \in Writer,
         (w \in Upload /\ MergeChunk(w)) \/ (w \notin Upload /\ MergeAll(w))
  PROVE  NamesOk(w)'
<1>1. /\ NamesOk(w) /\ TypeOK /\ pc[w] = "merge"
      /\ w \in Upload => ReaderInv(w)
  BY DEF NamesInv, BaseInv, MergeChunk, MergeAll
<1>2. /\ rows' = rows /\ file' = file /\ at' = at /\ batch' = batch
      /\ sum' = sum /\ calm' = calm /\ reruns' = reruns
      /\ pc'[w] = "commit" /\ ins'[w] = Merged(w, Loading(w))
  BY <1>1 DEF MergeChunk, MergeAll, Goto, TypeOK, ghostVars, Loading
<1>3. /\ InBatch(w)' = InBatch(w) /\ Loading(w)' = Loading(w)
      /\ Flushed(w)' = Flushed(w)
  BY <1>2 DEF InBatch, Loading, Flushed
<1>4. Loading(w) \in SUBSET (1..Len(file[w]))
  BY <1>1 DEF Loading, TypeOK
<1>5. \A i : Stored(w, i)' <=> Stored(w, i)
  BY <1>2 DEF Stored
<1>6. PendingInv(w)'
  <2>1. \A i \in Loading(w) : \/ Stored(w, i)
                              \/ file[w][i].name \in NamesOf(ins'[w])
    BY <1>1, <1>2, <1>4, MergedRows DEF TypeOK, Stored
  <2> QED
    BY <1>2, <1>3, <1>5, <2>1 DEF PendingInv, NamesOf
<1>7. ASSUME w \in Upload, w \in reruns PROVE ins'[w] = {}
  <2>1. \A i \in Loading(w) : file[w][i].name \in NamesOf(rows)
    BY <1>1, <1>4, <1>7 DEF NamesOk, RerunInv, ReaderInv, Loading, Stored
  <2> QED
    BY <1>2, <2>1 DEF Merged
<1>8. w \in Upload => StoredInv(w)' /\ RerunInv(w)'
  BY <1>1, <1>2, <1>3, <1>5, <1>7 DEF NamesOk, StoredInv, RerunInv
<1>9. w \in Loader => LoaderInv(w)'
  <2>1. RowsOf(w)' = RowsOf(w)
    BY <1>2 DEF RowsOf
  <2> QED
    BY <1>1, <1>2, <1>3, <1>5, <2>1 DEF NamesOk, LoaderInv
<1> QED
  BY <1>6, <1>8, <1>9 DEF NamesOk

LEMMA NamesCommit ==
  ASSUME BaseInv, NamesInv, NEW u \in Upload, CommitChunk(u)
  PROVE  NamesOk(u)'
<1>1. /\ u \in Writer /\ u \notin Loader /\ NamesOk(u) /\ TypeOK
      /\ InsInv(u) /\ pc[u] = "commit" /\ sum[u] \in Summary
      /\ Len(batch[u]) \in Nat
  BY WriterAssumption DEF Writer, NamesInv, BaseInv, TypeOK, CommitChunk
<1>2. /\ rows' = rows \cup ins[u] /\ ins'[u] = {} /\ batch'[u] = <<>>
      /\ file' = file /\ at' = at /\ calm' = calm /\ reruns' = reruns
      /\ pc'[u] = "read"
  BY <1>1 DEF CommitChunk, Goto, TypeOK, ghostVars
<1>3. Flushed(u)' \subseteq Flushed(u) \cup InBatch(u)
  BY <1>2 DEF Flushed
<1>4. \A i : Stored(u, i) => Stored(u, i)'
  BY <1>2 DEF Stored, NamesOf
<1>5. \A i : file[u][i].name \in NamesOf(ins[u]) => Stored(u, i)'
  BY <1>2 DEF Stored, NamesOf
<1>6. PendingInv(u)' /\ StoredInv(u)'
  BY <1>1, <1>2, <1>3, <1>4, <1>5
     DEF NamesOk, PendingInv, StoredInv, Loading
<1>7. ASSUME u \in reruns PROVE sum'[u].inserted = 0
  <2>1. sum[u].inserted = 0 /\ Cardinality(ins[u]) = 0
    BY <1>1, <1>7, FS_EmptySet DEF NamesOk, RerunInv
  <2>2. sum'[u].inserted = sum[u].inserted + Cardinality(ins[u])
    BY <1>1 DEF CommitChunk, Counted, TypeOK, Summary
  <2> QED
    BY <2>1, <2>2
<1>8. RerunInv(u)'
  BY <1>1, <1>2, <1>4, <1>7 DEF NamesOk, RerunInv
<1> QED
  BY <1>1, <1>6, <1>8 DEF NamesOk

\* A transaction ends for good: all of its rows reach the table, or none.
LEMMA NamesEnd ==
  ASSUME BaseInv, NamesInv, NEW w \in Writer,
         (w \notin Upload /\ CommitAll(w)) \/ Fail(w)
  PROVE  NamesOk(w)'
<1>1. /\ NamesOk(w) /\ TypeOK /\ InsInv(w)
      /\ pc[w] \in {"copy", "merge", "commit"}
  BY DEF NamesInv, BaseInv, CommitAll, Fail
<1>2. /\ rows' = rows \/ rows' = rows \cup ins[w]
      /\ ins'[w] = {} /\ file' = file /\ at' = at /\ batch' = batch
      /\ sum' = sum /\ calm' = calm /\ reruns' = reruns
      /\ pc'[w] \in {"done", "lost"}
  BY <1>1 DEF CommitAll, Fail, Goto, TypeOK, ghostVars
<1>3. /\ InBatch(w)' = InBatch(w) /\ Loading(w)' = Loading(w)
      /\ Flushed(w)' = Flushed(w)
  BY <1>2 DEF InBatch, Loading, Flushed
<1>4. \A i : Stored(w, i) => Stored(w, i)'
  BY <1>2 DEF Stored, NamesOf
<1>5. PendingInv(w)'
  BY <1>2 DEF PendingInv
<1>6. w \in Upload => StoredInv(w)' /\ RerunInv(w)'
  BY <1>1, <1>2, <1>3, <1>4 DEF NamesOk, StoredInv, RerunInv
<1>7. ASSUME w \in Loader, w \in calm', RowsOf(w)' # {}, NEW i \in Loading(w)
      PROVE  Stored(w, i)'
  <2>1. RowsOf(w) = {}
    BY <1>1, <1>7 DEF NamesOk, LoaderInv
  <2>2. rows' = rows \cup ins[w] /\ ins[w] # {}
    BY <1>2, <1>7, <2>1 DEF RowsOf
  <2>3. pc[w] = "commit"
    BY <1>1, <2>2 DEF InsInv
  <2>4. Stored(w, i) \/ file[w][i].name \in NamesOf(ins[w])
    BY <1>1, <1>2, <1>7, <2>3 DEF NamesOk, PendingInv
  <2> QED
    BY <1>2, <2>2, <2>4 DEF Stored, NamesOf
<1>8. w \in Loader => LoaderInv(w)'
  BY <1>2, <1>3, <1>7 DEF LoaderInv
<1> QED
  BY <1>5, <1>6, <1>8 DEF NamesOk

LEMMA NamesInit == Init => NamesInv
<1> SUFFICES ASSUME Init, NEW w \in Writer PROVE NamesOk(w)
  BY DEF NamesInv
<1>1. RowsOf(w) = {} /\ w \notin calm /\ w \notin reruns
  BY DEF Init, RowsOf
<1> QED
  BY <1>1 DEF NamesOk, PendingInv, StoredInv, RerunInv, LoaderInv

\* Only an uploader's or a loader's own commit gives it rows.
LEMMA OthersRows ==
  ASSUME BaseInv, NEW w \in Writer, NEW v \in Writer \ {w},
         rows' \subseteq rows \cup ins[w]
  PROVE  \A p \in rows' : p \in rows \/ p.id[1] # v
  BY DEF BaseInv, InsInv, Made

LEMMA NamesNext ==
  ASSUME BaseInv, NamesInv, [Next]_vars
  PROVE  NamesInv'
<1> DEFINE Untouched(v) == /\ pc'[v] = pc[v] /\ file'[v] = file[v]
                           /\ at'[v] = at[v] /\ batch'[v] = batch[v]
                           /\ sum'[v] = sum[v] /\ ins'[v] = ins[v]
<1>0. TypeOK
  BY DEF BaseInv
<1>1. ASSUME NEW w \in Writer, NamesOk(w)',
             \A v \in Writer \ {w} : Untouched(v),
             rows \subseteq rows', rows' \subseteq rows \cup ins[w],
             calm' \subseteq calm \cup {w}, calm \subseteq calm',
             reruns' \subseteq reruns \cup {w}
      PROVE  NamesInv'
  <2>1. ASSUME NEW v \in Writer \ {w} PROVE NamesOk(v)'
    <3>1. \A p \in rows' : p \in rows \/ p.id[1] # v
      BY <1>1, OthersRows
    <3>2. v \in reruns' => v \in reruns /\ v \in calm'
      BY <1>0, <1>1 DEF NamesInv, NamesOk, RerunInv, TypeOK
    <3>3. NamesOk(v) /\ (v \in calm' => v \in calm /\ rows \subseteq rows')
      BY <1>1 DEF NamesInv
    <3> QED
      BY <1>1, <3>1, <3>2, <3>3, Bystander
  <2> QED
    BY <1>1, <2>1 DEF NamesInv
<1>2. ASSUME NEW u \in Upload, UploadStep(u) PROVE NamesInv'
  <2>0. u \in Writer
    BY DEF Writer
  <2>1. CASE \E f \in File : UploadStart(u, f)
    <3>1. PICK f \in File : UploadStart(u, f)
      BY <2>1
    <3>2. NamesOk(u)'
      BY <3>1, NamesUpload
    <3>3. \A v \in Writer \ {u} : Untouched(v)
      BY <1>0, <3>1 DEF UploadStart, Starts, Goto, TypeOK
    <3> QED
      BY <1>1, <2>0, <3>1, <3>2, <3>3 DEF UploadStart, Starts
  <2>2. CASE TakeRow(u) \/ SkipRow(u) \/ EndOfFile(u) \/ CopyChunk(u)
    <3>1. NamesOk(u)'
      BY <2>2, NamesQuiet
    <3>2. \A v \in Writer \ {u} : Untouched(v)
      BY <1>0, <2>2
         DEF TakeRow, SkipRow, EndOfFile, CopyChunk, Goto, TypeOK
    <3>3. rows' = rows /\ calm' = calm /\ reruns' = reruns
      BY <2>2 DEF TakeRow, SkipRow, EndOfFile, CopyChunk, ghostVars
    <3> QED
      BY <1>1, <2>0, <3>1, <3>2, <3>3
  <2>3. CASE MergeChunk(u)
    <3>1. NamesOk(u)'
      BY <2>0, <2>3, NamesMerge
    <3>2. \A v \in Writer \ {u} : Untouched(v)
      BY <1>0, <2>3 DEF MergeChunk, Goto, TypeOK
    <3> QED
      BY <1>1, <2>0, <2>3, <3>1, <3>2 DEF MergeChunk, ghostVars
  <2>4. CASE CommitChunk(u)
    <3>1. NamesOk(u)'
      BY <2>4, NamesCommit
    <3>2. \A v \in Writer \ {u} : Untouched(v)
      BY <1>0, <2>4 DEF CommitChunk, Counted, Goto, TypeOK
    <3> QED
      BY <1>1, <2>0, <2>4, <3>1, <3>2 DEF CommitChunk, ghostVars
  <2> QED
    BY <1>2, <2>1, <2>2, <2>3, <2>4 DEF UploadStep
<1>3. ASSUME NEW l \in Loader, NEW f \in File, LoadStart(l, f)
      PROVE  NamesInv'
  <2>1. l \in Writer /\ NamesOk(l)'
    BY <1>3, NamesLoad DEF Writer
  <2>2. \A v \in Writer \ {l} : Untouched(v)
    BY <1>0, <1>3 DEF LoadStart, Starts, Goto, TypeOK
  <2> QED
    BY <1>1, <1>3, <2>1, <2>2 DEF LoadStart, Starts
<1>4. ASSUME NEW s \in Seeder, SeedDrop(s) PROVE NamesInv'
  <2>0. /\ s \in Writer /\ s \notin Upload \cup Loader
        /\ rows' = {} /\ calm' = {s} /\ reruns' = {} /\ pc'[s] = "merge"
    BY <1>0, <1>4, WriterAssumption DEF Writer, SeedDrop, Goto, TypeOK
  <2>1. \A v \in Writer \ {s} : Untouched(v)
    BY <1>0, <1>4 DEF SeedDrop, Goto, TypeOK
  <2>2. NamesOk(s)'
    BY <2>0 DEF NamesOk, PendingInv
  <2>3. ASSUME NEW v \in Writer \ {s} PROVE NamesOk(v)'
    BY <2>0, <2>1, Bystander DEF NamesInv
  <2> QED
    BY <2>2, <2>3 DEF NamesInv
<1>5. ASSUME NEW w \in Loader \cup Seeder, MergeAll(w) \/ CommitAll(w)
      PROVE  NamesInv'
  <2>0. w \in Writer /\ w \notin Upload
    BY WriterAssumption DEF Writer
  <2>1. NamesOk(w)'
    BY <1>5, <2>0, NamesMerge, NamesEnd
  <2>2. \A v \in Writer \ {w} : Untouched(v)
    BY <1>0, <1>5 DEF MergeAll, CommitAll, Goto, TypeOK
  <2> QED
    BY <1>1, <1>5, <2>0, <2>1, <2>2 DEF MergeAll, CommitAll, ghostVars
<1>6. ASSUME NEW w \in Writer, Fail(w) PROVE NamesInv'
  <2>1. NamesOk(w)'
    BY <1>6, NamesEnd
  <2>2. \A v \in Writer \ {w} : Untouched(v)
    BY <1>0, <1>6 DEF Fail, Goto, TypeOK
  <2> QED
    BY <1>1, <1>6, <2>1, <2>2 DEF Fail, ghostVars
<1>7. ASSUME NEW p \in rows, Remove(p) PROVE NamesInv'
  <2>1. /\ calm' = {} /\ reruns' = {} /\ rows' \subseteq rows
        /\ \A v \in Writer : Untouched(v)
    BY <1>7 DEF Remove
  <2>2. ASSUME NEW v \in Writer PROVE NamesOk(v)'
    BY <2>1, Bystander DEF NamesInv
  <2> QED
    BY <2>2 DEF NamesInv
<1>8. CASE UNCHANGED vars
  <2>1. /\ rows' = rows /\ calm' = calm /\ reruns' = reruns
        /\ \A v \in Writer : Untouched(v)
    BY <1>8 DEF vars, ghostVars
  <2>2. ASSUME NEW v \in Writer PROVE NamesOk(v)'
    <3>1. v \in reruns' => v \in calm'
      BY <1>0, <2>1 DEF NamesInv, NamesOk, RerunInv, TypeOK
    <3> QED
      BY <2>1, <3>1, Bystander DEF NamesInv
  <2> QED
    BY <2>2 DEF NamesInv
<1> QED
  BY <1>2, <1>3, <1>4, <1>5, <1>6, <1>7, <1>8 DEF Next

LEMMA NamesInvariance == Spec => []NamesInv
  BY NamesInit, NamesNext, BaseInvariance, PTL DEF Spec

\* load_csv.py's transaction is all or nothing: while nothing is deleted, a
\* table with one row of a load has every name of its file.
THEOREM LoadsAllOrNothing == Spec => []LoaderAllOrNothing
<1>1. NamesInv => LoaderAllOrNothing
  BY WriterAssumption
     DEF NamesInv, NamesOk, LoaderInv, Loading, Stored, LoaderAllOrNothing,
         Writer
<1> QED
  BY <1>1, NamesInvariance, PTL

\* Uploading a file a second time inserts nothing and cannot fail on a row.
THEOREM RerunsAreSafe == Spec => []RerunAddsNothing
<1>1. BaseInv /\ NamesInv => RerunAddsNothing
  BY DEF BaseInv, TypeOK, NamesInv, NamesOk, RerunInv, RerunAddsNothing,
         Writer
<1> QED
  BY <1>1, BaseInvariance, NamesInvariance, PTL
-----------------------------------------------------------------------------
(* Rows: which of an upload's rows are in the table, and how many.           *)

\* Rows that are inserted and not committed have names nobody else has.
UniqueInv ==
    \A w \in Writer : \A p \in ins[w] :
        /\ p.name \notin NamesOf(rows)
        /\ \A v \in Writer \ {w} : p.name \notin NamesOf(ins[v])

\* The rows an upload stored come before those it has in its batch.
OrderInv(u) ==
    /\ \A p \in RowsOf(u) : p.id[2] <= at[u]
    /\ pc[u] # "lost" =>
          \A p \in RowsOf(u) : \A i \in InBatch(u) : p.id[2] < i

\* Of the rows of a batch that share a name the first was inserted.
FirstInv(u) ==
    pc[u] = "commit" =>
        \A p \in ins[u] : \A i \in InBatch(u) :
            file[u][i].name = p.name => p.id[2] <= i

FirstRow(u) ==
    u \in calm =>
        \A p \in RowsOf(u) : \A i \in Flushed(u) :
            file[u][i].name = p.name => p.id[2] <= i

InsertedInv(u) ==
    u \in calm =>
        /\ sum[u].inserted <= Cardinality(RowsOf(u))
        /\ pc[u] # "lost" => sum[u].inserted = Cardinality(RowsOf(u))

RowsOk(u) ==
    OrderInv(u) /\ FirstInv(u) /\ FirstRow(u) /\ InsertedInv(u)

UploadsInv == \A u \in Upload : RowsOk(u)

\* Rows are committed or lost.
LEMMA UniqueEnd ==
  ASSUME UniqueInv, NEW w \in Writer, rows' \subseteq rows \cup ins[w],
         ins' = [ins EXCEPT ![w] = {}], ins \in [Writer -> SUBSET Profile]
  PROVE  UniqueInv'
  BY DEF UniqueInv, NamesOf

\* Rows go, or nothing happens to them.
LEMMA UniqueKept ==
  ASSUME UniqueInv, rows' \subseteq rows, ins' = ins
  PROVE  UniqueInv'
  BY DEF UniqueInv, NamesOf

LEMMA UniqueMerge ==
  ASSUME BaseInv, UniqueInv, NEW w \in Writer,
         NEW S \in SUBSET (1..Len(file[w])), ~WaitsFor(w, S),
         ins' = [ins EXCEPT ![w] = Merged(w, S)], rows' = rows
  PROVE  UniqueInv'
<1>1. ASSUME NEW p \in Merged(w, S)
      PROVE  /\ p.name \notin NamesOf(rows)
             /\ \A v \in Writer \ {w} : p.name \notin NamesOf(ins[v])
  <2>1. Made(w, p) /\ p.id[2] \in S /\ p.name \notin NamesOf(rows)
    BY MergedRows DEF BaseInv, TypeOK
  <2>2. PICK i \in S : p = Record(w, i)
    BY <2>1 DEF Made
  <2>3. p.name = file[w][i].name
    BY <2>2 DEF Record
  <2> QED
    BY <2>1, <2>2, <2>3 DEF WaitsFor
<1>2. ins'[w] = Merged(w, S) /\ \A v \in Writer \ {w} : ins'[v] = ins[v]
  BY DEF BaseInv, TypeOK
<1>3. ASSUME NEW v \in Writer \ {w}, NEW p \in ins'[v]
      PROVE  /\ p.name \notin NamesOf(rows')
             /\ \A x \in Writer \ {v} : p.name \notin NamesOf(ins'[x])
  <2>1. p.name \notin NamesOf(Merged(w, S))
    BY <1>1, <1>2, <1>3 DEF NamesOf
  <2> QED
    BY <1>2, <1>3, <2>1 DEF UniqueInv
<1>4. ASSUME NEW p \in ins'[w]
      PROVE  /\ p.name \notin NamesOf(rows')
             /\ \A x \in Writer \ {w} : p.name \notin NamesOf(ins'[x])
  BY <1>1, <1>2, <1>4
<1> QED
  BY <1>3, <1>4 DEF UniqueInv

LEMMA UniqueNext ==
  ASSUME BaseInv, UniqueInv, [Next]_vars
  PROVE  UniqueInv'
<1>1. ASSUME NEW u \in Upload, UploadStep(u) PROVE UniqueInv'
  <2>0. u \in Writer /\ TypeOK
    BY DEF Writer, BaseInv
  <2>1. CASE MergeChunk(u)
    <3>1. InBatch(u) \in SUBSET (1..Len(file[u]))
      BY <2>0 DEF TypeOK
    <3> QED
      BY <2>0, <2>1, <3>1, UniqueMerge DEF MergeChunk
  <2>2. CASE CommitChunk(u)
    BY <2>0, <2>2, UniqueEnd DEF CommitChunk, TypeOK
  <2>3. CASE ~MergeChunk(u) /\ ~CommitChunk(u)
    <3>1. rows' = rows /\ ins' = ins
      BY <1>1, <2>3 DEF UploadStep, UploadStart, TakeRow, SkipRow, EndOfFile,
                        CopyChunk
    <3> QED
      BY <3>1, UniqueKept
  <2> QED
    BY <2>1, <2>2, <2>3
<1>2. ASSUME NEW w \in Loader \cup Seeder, MergeAll(w) \/ CommitAll(w)
      PROVE  UniqueInv'
  <2>0. w \in Writer /\ TypeOK
    BY DEF Writer, BaseInv
  <2>1. CASE MergeAll(w)
    BY <2>0, <2>1, UniqueMerge DEF MergeAll
  <2>2. CASE CommitAll(w)
    BY <2>0, <2>2, UniqueEnd DEF CommitAll, TypeOK
  <2> QED
    BY <1>2, <2>1, <2>2
<1>3. ASSUME NEW w \in Writer, Fail(w) PROVE UniqueInv'
  BY <1>3, UniqueEnd DEF Fail, BaseInv, TypeOK
<1>4. ASSUME \/ \E l \in Loader : \E f \in File : LoadStart(l, f)
             \/ \E s \in Seeder : SeedDrop(s)
             \/ \E p \in rows : Remove(p)
             \/ UNCHANGED vars
      PROVE  UniqueInv'
  BY <1>4, UniqueKept DEF LoadStart, SeedDrop, Remove, vars
<1> QED
  BY <1>1, <1>2, <1>3, <1>4 DEF Next

\* A step of another writer, or one that loses rows and calms nobody.
LEMMA RowsBystander ==
  ASSUME NEW v \in Upload, RowsOk(v),
         pc'[v] = pc[v], file'[v] = file[v], at'[v] = at[v],
         batch'[v] = batch[v], sum'[v] = sum[v], ins'[v] = ins[v],
         v \in calm' => v \in calm /\ rows \subseteq rows',
         \A p \in rows' : p \in rows \/ p.id[1] # v
  PROVE  RowsOk(v)'
<1>1. InBatch(v)' = InBatch(v) /\ Flushed(v)' = Flushed(v)
  BY DEF InBatch, Flushed
<1>2. RowsOf(v)' \subseteq RowsOf(v)
  BY DEF RowsOf
<1>3. v \in calm' => v \in calm /\ RowsOf(v)' = RowsOf(v)
  BY <1>2 DEF RowsOf
<1>4. OrderInv(v)' /\ FirstInv(v)'
  BY <1>1, <1>2 DEF RowsOk, OrderInv, FirstInv
<1>5. FirstRow(v)' /\ InsertedInv(v)'
  BY <1>1, <1>3 DEF RowsOk, FirstRow, InsertedInv
<1> QED
  BY <1>4, <1>5 DEF RowsOk

LEMMA RowsQuiet ==
  ASSUME BaseInv, UploadsInv, NEW u \in Upload,
         TakeRow(u) \/ SkipRow(u) \/ EndOfFile(u) \/ CopyChunk(u)
  PROVE  RowsOk(u)'
<1>1. /\ u \in Writer /\ RowsOk(u) /\ TypeOK /\ at[u] \in Nat
      /\ batch[u] \in Seq(Nat) /\ InBatch(u) \subseteq 1..at[u]
  BY DEF Writer, UploadsInv, BaseInv, TypeOK
<1>2. /\ rows' = rows /\ ins' = ins /\ file' = file /\ calm' = calm
      /\ pc[u] \in {"read", "copy"}
  BY DEF TakeRow, SkipRow, EndOfFile, CopyChunk, ghostVars
<1>3. pc'[u] \in {"read", "copy", "merge", "done", "failed"}
  BY <1>1, <1>2 DEF TakeRow, SkipRow, EndOfFile, CopyChunk, Goto, TypeOK
<1>4. sum'[u].inserted = sum[u].inserted
  BY <1>1 DEF TakeRow, SkipRow, EndOfFile, CopyChunk, TypeOK, Summary
<1>5. RowsOf(u)' = RowsOf(u)
  BY <1>2 DEF RowsOf
<1>6. \A p \in RowsOf(u) : p.id[2] \in Nat
  BY <1>1 DEF RowsOf, TypeOK, Profile
<1>7. CASE TakeRow(u)
  <2>1. at'[u] = at[u] + 1 /\ batch'[u] = Append(batch[u], at[u] + 1)
    BY <1>1, <1>7 DEF TakeRow, TypeOK
  <2>2. InBatch(u)' = InBatch(u) \cup {at[u] + 1}
    <3>1. /\ Len(batch'[u]) = Len(batch[u]) + 1
          /\ \A k \in 1..Len(batch[u]) : batch'[u][k] = batch[u][k]
          /\ batch'[u][Len(batch[u]) + 1] = at[u] + 1
          /\ 1..Len(batch'[u]) = 1..Len(batch[u]) \cup {Len(batch[u]) + 1}
      BY <1>1, <2>1
    <3> QED
      BY <1>1, <3>1 DEF InBatch
  <2>3. Flushed(u)' \subseteq Flushed(u)
    BY <1>1, <1>2, <2>1, <2>2 DEF Flushed
  <2>4. OrderInv(u)'
    BY <1>1, <1>2, <1>5, <1>6, <2>1, <2>2 DEF RowsOk, OrderInv
  <2> QED
    BY <1>1, <1>2, <1>3, <1>4, <1>5, <2>3, <2>4
       DEF RowsOk, FirstInv, FirstRow, InsertedInv
<1>8. CASE SkipRow(u) \/ EndOfFile(u) \/ CopyChunk(u)
  <2>1. /\ batch' = batch /\ at'[u] \in {at[u], at[u] + 1}
        /\ at'[u] = at[u] + 1 => ~Valid(file[u][at[u] + 1])
    BY <1>1, <1>8 DEF SkipRow, EndOfFile, CopyChunk, TypeOK
  <2>2. InBatch(u)' = InBatch(u)
    BY <2>1 DEF InBatch
  <2>3. Flushed(u)' \subseteq Flushed(u)
    BY <1>1, <1>2, <2>1, <2>2 DEF Flushed
  <2>4. OrderInv(u)'
    BY <1>1, <1>2, <1>5, <1>6, <2>1, <2>2 DEF RowsOk, OrderInv
  <2> QED
    BY <1>1, <1>2, <1>3, <1>4, <1>5, <2>3, <2>4
       DEF RowsOk, FirstInv, FirstRow, InsertedInv
<1> QED
  BY <1>7, <1>8

LEMMA RowsUpload ==
  ASSUME BaseInv, UploadsInv, NEW u \in Upload, NEW f \in File,
         UploadStart(u, f)
  PROVE  RowsOk(u)'
<1>1. /\ u \in Writer /\ TypeOK /\ ReaderInv(u) /\ RowsInv /\ pc[u] = "idle"
  BY DEF Writer, BaseInv, UploadStart, Starts
<1>2. /\ rows' = rows /\ at' = at /\ sum' = sum /\ pc'[u] = "read"
  BY <1>1 DEF UploadStart, Starts, Goto, TypeOK
<1>3. at[u] = 0 /\ sum[u].inserted = 0 /\ RowsOf(u)' = {}
  BY <1>1, <1>2 DEF ReaderInv, NoRows, RowsOf, RowsInv
<1>4. InsertedInv(u)'
  BY <1>2, <1>3, FS_EmptySet DEF InsertedInv
<1> QED
  BY <1>2, <1>3, <1>4 DEF RowsOk, OrderInv, FirstInv, FirstRow

LEMMA RowsMerge ==
  ASSUME BaseInv, UploadsInv, NEW u \in Upload, MergeChunk(u)
  PROVE  RowsOk(u)'
<1>1. /\ u \in Writer /\ TypeOK /\ RowsOk(u) /\ pc[u] = "merge"
  BY DEF Writer, BaseInv, UploadsInv, MergeChunk
<1>2. /\ rows' = rows /\ file' = file /\ at' = at /\ batch' = batch
      /\ sum' = sum /\ calm' = calm
      /\ pc'[u] = "commit" /\ ins'[u] = Merged(u, InBatch(u))
  BY <1>1 DEF MergeChunk, Goto, TypeOK, ghostVars
<1>3. /\ InBatch(u)' = InBatch(u) /\ Flushed(u)' = Flushed(u)
      /\ RowsOf(u)' = RowsOf(u)
  BY <1>2 DEF InBatch, Flushed, RowsOf
<1>4. InBatch(u) \in SUBSET (1..Len(file[u]))
  BY <1>1 DEF TypeOK
<1>5. FirstInv(u)'
  <2>1. \A p \in Merged(u, InBatch(u)) : \A i \in InBatch(u) :
            file[u][i].name = p.name => p.id[2] <= i
    BY <1>1, <1>4, MergedRows DEF TypeOK
  <2> QED
    BY <1>2, <1>3, <2>1 DEF FirstInv
<1> QED
  BY <1>1, <1>2, <1>3, <1>5 DEF RowsOk, OrderInv, FirstRow, InsertedInv

\* New rows have names no flushed row has.
LEMMA NewNames ==
  ASSUME BaseInv, NamesInv, UniqueInv, NEW u \in Upload, u \in calm,
         NEW p \in ins[u], NEW i \in Flushed(u)
  PROVE  file[u][i].name # p.name
  BY DEF NamesInv, NamesOk, StoredInv, Stored, UniqueInv, Writer

\* New rows add up with the old ones.
LEMMA NewRows ==
  ASSUME BaseInv, UniqueInv, NEW u \in Upload, rows' = rows \cup ins[u]
  PROVE  /\ RowsOf(u)' = RowsOf(u) \cup ins[u]
         /\ Cardinality(RowsOf(u)) \in Nat /\ Cardinality(ins[u]) \in Nat
         /\ Cardinality(RowsOf(u)') = Cardinality(RowsOf(u))
                                        + Cardinality(ins[u])
<1>1. u \in Writer /\ InsInv(u) /\ RowsInv
  BY DEF BaseInv, Writer
<1>2. RowsOf(u)' = RowsOf(u) \cup ins[u]
  BY <1>1 DEF RowsOf, InsInv, Made
<1>3. RowsOf(u) \cap ins[u] = {}
  BY <1>1 DEF RowsOf, UniqueInv, NamesOf
<1>4. IsFiniteSet(RowsOf(u)) /\ IsFiniteSet(ins[u])
  <2>1. RowsOf(u) \subseteq rows
    BY DEF RowsOf
  <2> QED
    BY <1>1, <2>1, FS_Subset DEF RowsInv, InsInv
<1>5. Cardinality(RowsOf(u)) \in Nat /\ Cardinality(ins[u]) \in Nat
  BY <1>4, FS_CardinalityType
<1>6. Cardinality(RowsOf(u) \cup ins[u])
        = Cardinality(RowsOf(u)) + Cardinality(ins[u]) - Cardinality({})
  BY <1>3, <1>4, FS_Union
<1> QED
  BY <1>2, <1>5, <1>6, FS_EmptySet

LEMMA RowsCommit ==
  ASSUME BaseInv, NamesInv, UniqueInv, UploadsInv, NEW u \in Upload,
         CommitChunk(u)
  PROVE  RowsOk(u)'
<1>1. /\ u \in Writer /\ TypeOK /\ RowsOk(u) /\ InsInv(u) /\ RowsInv
      /\ pc[u] = "commit" /\ sum[u] \in Summary
  BY DEF Writer, BaseInv, UploadsInv, CommitChunk, TypeOK
<1>2. /\ rows' = rows \cup ins[u] /\ ins'[u] = {} /\ batch'[u] = <<>>
      /\ file' = file /\ at' = at /\ calm' = calm /\ pc'[u] = "read"
  BY <1>1 DEF CommitChunk, Goto, TypeOK, ghostVars
<1>3. /\ Flushed(u)' \subseteq Flushed(u) \cup InBatch(u)
      /\ InBatch(u)' = {}
  BY <1>2 DEF Flushed, InBatch
<1>4. RowsOf(u)' = RowsOf(u) \cup ins[u]
  BY <1>2, NewRows
<1>5. \A p \in RowsOf(u)' : p.id[2] \in Nat /\ p.id[2] <= at[u]
  <2>1. \A p \in RowsOf(u) : p.id[2] \in Nat
    BY <1>1 DEF RowsOf, TypeOK, Profile
  <2>2. \A p \in ins[u] : p.id[2] \in 1..at[u]
    BY <1>1 DEF InsInv, TypeOK
  <2>3. at[u] \in Nat
    BY <1>1 DEF TypeOK
  <2> QED
    BY <1>1, <1>4, <2>1, <2>2, <2>3 DEF RowsOk, OrderInv
<1>6. OrderInv(u)' /\ FirstInv(u)'
  BY <1>2, <1>3, <1>5 DEF OrderInv, FirstInv
<1>7. ASSUME u \in calm, NEW p \in RowsOf(u)', NEW i \in Flushed(u)',
             file[u][i].name = p.name
      PROVE  p.id[2] <= i
  <2>1. i \in Nat
    BY <1>7 DEF Flushed
  <2>2. CASE p \in RowsOf(u) /\ i \in Flushed(u)
    BY <1>1, <1>7, <2>2 DEF RowsOk, FirstRow
  <2>3. CASE p \in RowsOf(u) /\ i \in InBatch(u)
    BY <1>1, <1>5, <1>7, <2>1, <2>3 DEF RowsOk, OrderInv
  <2>4. CASE p \in ins[u] /\ i \in Flushed(u)
    BY <1>7, <2>4, NewNames
  <2>5. CASE p \in ins[u] /\ i \in InBatch(u)
    BY <1>1, <1>7, <2>5 DEF RowsOk, FirstInv
  <2> QED
    BY <1>3, <1>4, <1>7, <2>2, <2>3, <2>4, <2>5
<1>8. FirstRow(u)'
  BY <1>2, <1>7 DEF FirstRow
<1>9. InsertedInv(u)'
  <2>1. sum'[u].inserted = sum[u].inserted + Cardinality(ins[u])
    BY <1>1 DEF CommitChunk, Counted, TypeOK, Summary
  <2>2. /\ Cardinality(RowsOf(u)) \in Nat
        /\ Cardinality(RowsOf(u)') = Cardinality(RowsOf(u))
                                       + Cardinality(ins[u])
    BY <1>2, NewRows
  <2>3. ASSUME u \in calm PROVE sum[u].inserted = Cardinality(RowsOf(u))
    BY <1>1, <2>3 DEF RowsOk, InsertedInv
  <2>4. Cardinality(ins[u]) \in Nat
    BY <1>2, NewRows
  <2> QED
    BY <1>2, <2>1, <2>2, <2>3, <2>4 DEF InsertedInv
<1> QED
  BY <1>6, <1>8, <1>9 DEF RowsOk

\* The connection is lost; the commit may have reached the database.
LEMMA RowsFail ==
  ASSUME BaseInv, NamesInv, UniqueInv, UploadsInv, NEW u \in Upload, Fail(u)
  PROVE  RowsOk(u)'
<1>1. /\ u \in Writer /\ TypeOK /\ RowsOk(u) /\ InsInv(u) /\ RowsInv
      /\ sum[u] \in Summary /\ pc[u] # "lost"
  BY DEF Writer, BaseInv, UploadsInv, Fail, TypeOK
<1>2. /\ rows' = rows \/ rows' = rows \cup ins[u]
      /\ file' = file /\ at' = at /\ batch' = batch /\ sum' = sum
      /\ calm' = calm /\ pc'[u] = "lost"
  BY <1>1 DEF Fail, Goto, TypeOK, ghostVars
<1>3. Flushed(u)' = Flushed(u) /\ InBatch(u)' = InBatch(u)
  BY <1>2 DEF Flushed, InBatch
<1>4. CASE rows' = rows
  <2>1. RowsOf(u)' = RowsOf(u)
    BY <1>4 DEF RowsOf
  <2> QED
    BY <1>1, <1>2, <1>3, <2>1
       DEF RowsOk, OrderInv, FirstInv, FirstRow, InsertedInv
<1>5. CASE rows' = rows \cup ins[u]
  <2>1. RowsOf(u)' = RowsOf(u) \cup ins[u]
    BY <1>5, NewRows
  <2>2. \A p \in ins[u] : p.id[2] <= at[u]
    BY <1>1 DEF InsInv, TypeOK
  <2>3. OrderInv(u)' /\ FirstInv(u)'
    BY <1>1, <1>2, <2>1, <2>2 DEF RowsOk, OrderInv, FirstInv
  <2>4. FirstRow(u)'
    BY <1>1, <1>2, <1>3, <2>1, NewNames DEF RowsOk, FirstRow
  <2>5. InsertedInv(u)'
    <3>1. /\ Cardinality(RowsOf(u)) \in Nat /\ Cardinality(ins[u]) \in Nat
          /\ Cardinality(RowsOf(u)') = Cardinality(RowsOf(u))
                                         + Cardinality(ins[u])
      BY <1>5, NewRows
    <3>2. sum[u].inserted \in Nat
      BY <1>1 DEF Summary
    <3> QED
      BY <1>1, <1>2, <3>1, <3>2 DEF RowsOk, InsertedInv
  <2> QED
    BY <2>3, <2>4, <2>5 DEF RowsOk
<1> QED
  BY <1>2, <1>4, <1>5

LEMMA UploadsNext ==
  ASSUME BaseInv, NamesInv, UniqueInv, UploadsInv, [Next]_vars
  PROVE  UploadsInv'
<1> DEFINE Untouched(v) == /\ pc'[v] = pc[v] /\ file'[v] = file[v]
                           /\ at'[v] = at[v] /\ batch'[v] = batch[v]
                           /\ sum'[v] = sum[v] /\ ins'[v] = ins[v]
<1>0. TypeOK
  BY DEF BaseInv
<1>1. ASSUME NEW w \in Writer, w \in Upload => RowsOk(w)',
             \A v \in Writer \ {w} : Untouched(v),
             rows \subseteq rows', rows' \subseteq rows \cup ins[w],
             calm' \subseteq calm \cup {w}
      PROVE  UploadsInv'
  <2>1. ASSUME NEW v \in Upload, v # w PROVE RowsOk(v)'
    <3>1. v \in Writer \ {w}
      BY <2>1 DEF Writer
    <3>2. \A p \in rows' : p \in rows \/ p.id[1] # v
      BY <1>1, <3>1, OthersRows
    <3>3. RowsOk(v) /\ (v \in calm' => v \in calm /\ rows \subseteq rows')
      BY <1>1, <2>1 DEF UploadsInv
    <3> QED
      BY <1>1, <3>1, <3>2, <3>3, RowsBystander
  <2> QED
    BY <1>1, <2>1 DEF UploadsInv
<1>2. ASSUME NEW u \in Upload, UploadStep(u) PROVE UploadsInv'
  <2>0. u \in Writer
    BY DEF Writer
  <2>1. CASE \E f \in File : UploadStart(u, f)
    <3>1. PICK f \in File : UploadStart(u, f)
      BY <2>1
    <3>2. RowsOk(u)'
      BY <3>1, RowsUpload
    <3>3. \A v \in Writer \ {u} : Untouched(v)
      BY <1>0, <3>1 DEF UploadStart, Starts, Goto, TypeOK
    <3> QED
      BY <1>1, <2>0, <3>1, <3>2, <3>3 DEF UploadStart, Starts
  <2>2. CASE TakeRow(u) \/ SkipRow(u) \/ EndOfFile(u) \/ CopyChunk(u)
    <3>1. RowsOk(u)'
      BY <2>2, RowsQuiet
    <3>2. \A v \in Writer \ {u} : Untouched(v)
      BY <1>0, <2>2
         DEF TakeRow, SkipRow, EndOfFile, CopyChunk, Goto, TypeOK
    <3>3. rows' = rows /\ calm' = calm
      BY <2>2 DEF TakeRow, SkipRow, EndOfFile, CopyChunk, ghostVars
    <3> QED
      BY <1>1, <2>0, <3>1, <3>2, <3>3
  <2>3. CASE MergeChunk(u)
    <3>1. RowsOk(u)'
      BY <2>3, RowsMerge
    <3>2. \A v \in Writer \ {u} : Untouched(v)
      BY <1>0, <2>3 DEF MergeChunk, Goto, TypeOK
    <3> QED
      BY <1>1, <2>0, <2>3, <3>1, <3>2 DEF MergeChunk, ghostVars
  <2>4. CASE CommitChunk(u)
    <3>1. RowsOk(u)'
      BY <2>4, RowsCommit
    <3>2. \A v \in Writer \ {u} : Untouched(v)
      BY <1>0, <2>4 DEF CommitChunk, Counted, Goto, TypeOK
    <3> QED
      BY <1>1, <2>0, <2>4, <3>1, <3>2 DEF CommitChunk, ghostVars
  <2> QED
    BY <1>2, <2>1, <2>2, <2>3, <2>4 DEF UploadStep
<1>3. ASSUME NEW l \in Loader, NEW f \in File, LoadStart(l, f)
      PROVE  UploadsInv'
  <2>1. l \in Writer /\ l \notin Upload
    BY WriterAssumption DEF Writer
  <2>2. \A v \in Writer \ {l} : Untouched(v)
    BY <1>0, <1>3 DEF LoadStart, Starts, Goto, TypeOK
  <2> QED
    BY <1>1, <1>3, <2>1, <2>2 DEF LoadStart, Starts
<1>4. ASSUME NEW s \in Seeder, SeedDrop(s) PROVE UploadsInv'
  <2>1. ASSUME NEW v \in Upload PROVE RowsOk(v)'
    <3>1. v \in Writer \ {s}
      BY WriterAssumption DEF Writer
    <3>2. Untouched(v) /\ v \notin calm' /\ rows' = {}
      BY <1>0, <1>4, <3>1 DEF SeedDrop, Goto, TypeOK
    <3>3. RowsOk(v)
      BY DEF UploadsInv
    <3> QED
      BY <3>2, <3>3, RowsBystander
  <2> QED
    BY <2>1 DEF UploadsInv
<1>5. ASSUME NEW w \in Loader \cup Seeder, MergeAll(w) \/ CommitAll(w)
      PROVE  UploadsInv'
  <2>1. w \in Writer /\ w \notin Upload
    BY WriterAssumption DEF Writer
  <2>2. \A v \in Writer \ {w} : Untouched(v)
    BY <1>0, <1>5 DEF MergeAll, CommitAll, Goto, TypeOK
  <2> QED
    BY <1>1, <1>5, <2>1, <2>2 DEF MergeAll, CommitAll, ghostVars
<1>6. ASSUME NEW w \in Writer, Fail(w) PROVE UploadsInv'
  <2>1. w \in Upload => RowsOk(w)'
    BY <1>6, RowsFail
  <2>2. \A v \in Writer \ {w} : Untouched(v)
    BY <1>0, <1>6 DEF Fail, Goto, TypeOK
  <2> QED
    BY <1>1, <1>6, <2>1, <2>2 DEF Fail, ghostVars
<1>7. ASSUME \/ \E p \in rows : Remove(p)
             \/ UNCHANGED vars
      PROVE  UploadsInv'
  <2>1. /\ \A v \in Writer : Untouched(v)
        /\ calm' = {} \/ (calm' = calm /\ rows' = rows)
        /\ rows' \subseteq rows
    BY <1>7 DEF Remove, vars, ghostVars
  <2>2. ASSUME NEW v \in Upload PROVE RowsOk(v)'
    BY <2>1, RowsBystander DEF UploadsInv, Writer
  <2> QED
    BY <2>2 DEF UploadsInv
<1> QED
  BY <1>2, <1>3, <1>4, <1>5, <1>6, <1>7 DEF Next

LEMMA RowsInit == Init => UniqueInv /\ UploadsInv
<1> SUFFICES ASSUME Init PROVE UniqueInv /\ UploadsInv
  OBVIOUS
<1>1. \A u \in Upload : RowsOf(u) = {} /\ u \notin calm /\ pc[u] = "idle"
  BY DEF Init, RowsOf, Writer
<1>2. UploadsInv
  BY <1>1 DEF UploadsInv, RowsOk, OrderInv, FirstInv, FirstRow, InsertedInv
<1>3. UniqueInv
  BY DEF Init, UniqueInv
<1> QED
  BY <1>2, <1>3

LEMMA RowsInvariance == Spec => [](UniqueInv /\ UploadsInv)
  BY RowsInit, UniqueNext, UploadsNext, BaseInvariance, NamesInvariance, PTL
     DEF Spec

\* IngestSummary.inserted is the number of rows the upload put into the table,
\* whatever is inserted beside it, unless the answer of a COMMIT was lost.
THEOREM InsertedRight == Spec => []InsertedIsStored
<1>1. UploadsInv => InsertedIsStored
  BY DEF UploadsInv, RowsOk, InsertedInv, InsertedIsStored
<1> QED
  BY <1>1, RowsInvariance, PTL

\* Wherever the chunks end and the upload stops: each valid row flushed has
\* its name in the table, and of rows with one name the first was stored.
THEOREM FlushedRowsStored == Spec => []HandledStored
<1>1. NamesInv /\ UploadsInv => HandledStored
  BY DEF NamesInv, NamesOk, StoredInv, Stored, UploadsInv, RowsOk, FirstRow,
         Flushed, HandledStored, Writer
<1> QED
  BY <1>1, NamesInvariance, RowsInvariance, PTL
=============================================================================
