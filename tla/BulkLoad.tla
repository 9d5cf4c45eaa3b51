------------------------------ MODULE BulkLoad ------------------------------
(***************************************************************************)
(* The three bulk writers of the profiles table, row by row: the CSV       *)
(* upload of csv_ingest.py, which validates, batches and commits chunk by  *)
(* chunk; scripts/load_csv.py, which merges a file in one transaction; and *)
(* seed.py, which drops the tables before it fills them.  An admin's       *)
(* DELETE, the only other way a row goes, is Remove.                       *)
(*                                                                         *)
(* ProfileCache has the same chunks with their row-by-row locks and the    *)
(* query cache; here an INSERT ... SELECT is one step.                     *)
(***************************************************************************)
EXTENDS Integers, Sequences, FiniteSets

CONSTANTS
    Upload, Loader, Seeder,   \* calls of the endpoint, runs of the scripts
    Name,
    File,                     \* files to load: sequences of rows
    SeedData,                 \* seed_profiles.json
    ChunkSize

Gender == {"male", "female"}
AgeGroups == {"child", "teenager", "adult", "senior"}

\* A row of a CSV file: "short" is cut off before the last column, "blank"
\* has an empty required cell, "numeric" an age that int() parses, "fits" a
\* country_id that fits its column.  An empty group is an absent age_group.
\* Names are taken without blanks around them (the upload strips them, the
\* script does not).
Row == [name : Name, short : BOOLEAN, blank : BOOLEAN,
        gender : Gender \cup {"other"}, numeric : BOOLEAN, age : Int,
        group : AgeGroups \cup {""}, fits : BOOLEAN]

Writer == Upload \cup Loader \cup Seeder

ASSUME ChunkAssumption == ChunkSize \in Nat \ {0}
ASSUME FileAssumption == File \subseteq Seq(Row) /\ SeedData \in Seq(Row)
ASSUME WriterAssumption == /\ Upload \cap Loader = {}
                           /\ Seeder \cap (Upload \cup Loader) = {}

VARIABLES
    rows,      \* committed profiles
    ins,       \* the rows each writer has inserted and not committed
    pc,        \* where each writer is
    file,      \* what it loads
    at,        \* rows read so far
    batch,     \* positions of the rows read and not flushed
    sum,       \* IngestSummary
    calm,      \* writers since whose start no row has gone (history)
    reruns     \* uploads of a file an earlier calm one had loaded (history)

vars == <<rows, ins, pc, file, at, batch, sum, calm, reruns>>
ghostVars == <<calm, reruns>>

Reason == {"malformed_row", "missing_fields", "invalid_gender",
           "invalid_age", "duplicate_name"}

\* uuid7: the writer and the position say where a row comes from.
Profile == [id : Writer \X Nat, name : Name, age : Int,
            group : AgeGroups \cup {""}]

NoRows == [total |-> 0, inserted |-> 0, skipped |-> 0,
           reasons |-> [r \in Reason |-> 0]]

Init ==
    /\ rows = {}
    /\ ins = [w \in Writer |-> {}]
    /\ pc = [w \in Writer |-> "idle"]
    /\ file = [w \in Writer |-> <<>>]
    /\ at = [w \in Writer |-> 0]
    /\ batch = [w \in Writer |-> <<>>]
    /\ sum = [w \in Writer |-> NoRows]
    /\ calm = {} /\ reruns = {}
-----------------------------------------------------------------------------
(* Rows: validation, age groups, records. *)

InRange(age) == 0 <= age /\ age <= 120

\* _validate_row: the reasons a row can be skipped for; it gives the first.
Faults(row) ==
    {r \in Reason :
        \/ r = "malformed_row" /\ row.short
        \/ r = "missing_fields" /\ row.blank
        \/ r = "invalid_gender" /\ row.gender \notin Gender
        \/ r = "invalid_age" /\ (row.numeric => ~InRange(row.age))}

Verdict(row) ==
    IF "malformed_row" \in Faults(row) THEN "malformed_row"
    ELSE IF "missing_fields" \in Faults(row) THEN "missing_fields"
    ELSE IF "invalid_gender" \in Faults(row) THEN "invalid_gender"
    ELSE "invalid_age"

Valid(row) == Faults(row) = {}

\* Mutant of ClassifyAgeGroup: a boundary off by one.
TeenAtTwelve(age) ==
    CASE age < 12 -> "child"
      [] age \in 12..19 -> "teenager"
      [] age \in 20..59 -> "adult"
      [] OTHER -> "senior"

\* _classify_age_group
ClassifyAgeGroup(age) ==
    CASE age <= 12 -> "child"
      [] 12 < age /\ age <= 19 -> "teenager"
      [] 19 < age /\ age <= 59 -> "adult"
      [] OTHER -> "senior"

\* classify_age_group of enrichment.py, which POST uses.
EnrichedAgeGroup(age) ==
    CASE age <= 12 -> "child"
      [] age \in 13..19 -> "teenager"
      [] age \in 20..59 -> "adult"
      [] OTHER -> "senior"

\* _build_record for the row at position i of w's file; the scripts take the
\* age group as it is.
Record(w, i) ==
    LET row == file[w][i] IN
    [id |-> <<w, i>>, name |-> row.name, age |-> row.age,
     group |-> IF w \in Upload /\ row.group = ""
               THEN ClassifyAgeGroup(row.age) ELSE row.group]

\* Rows the script's stream_rows can convert and the staging table can hold:
\* the script validates nothing else.
Loadable(row) == ~row.short /\ row.numeric /\ row.fits

NamesOf(S) == {p.name : p \in S}

\* Mutant of Merged: without the ON CONFLICT clause and the unique index.
MergedAnyway(w, S) == {Record(w, i) : i \in S}

\* INSERT INTO profiles SELECT * FROM staging_profiles ON CONFLICT (name) DO
\* NOTHING, for the staged positions S: the first row of every new name.
Merged(w, S) ==
    {Record(w, i) : i \in {i \in S :
        /\ file[w][i].name \notin NamesOf(rows)
        /\ \A j \in S : file[w][j].name = file[w][i].name => i <= j}}

\* An INSERT waits while another session has one of the names uncommitted.
WaitsFor(w, S) ==
    \E v \in Writer \ {w} : \E i \in S : file[w][i].name \in NamesOf(ins[v])

InBatch(w) == {batch[w][k] : k \in 1..Len(batch[w])}
-----------------------------------------------------------------------------
Goto(w, label) == pc' = [pc EXCEPT ![w] = label]

\* Files an upload since which nothing has gone has loaded to the end.
Loaded == {file[u] : u \in {v \in Upload \cap calm : pc[v] = "done"}}

Starts(w, label, f) ==
    /\ pc[w] = "idle"
    /\ Goto(w, label)
    /\ file' = [file EXCEPT ![w] = f]
    /\ calm' = calm \cup {w}

\* The header is complete; one that is not changes nothing.
UploadStart(u, f) ==
    /\ Starts(u, "read", f)
    /\ reruns' = IF f \in Loaded THEN reruns \cup {u} ELSE reruns
    /\ UNCHANGED <<rows, ins, at, batch, sum>>

\* Mutant of TakeRow: > instead of >=.
TakeRowLate(u) ==
    /\ pc[u] = "read" /\ at[u] < Len(file[u])
    /\ Valid(file[u][at[u] + 1])
    /\ at' = [at EXCEPT ![u] = @ + 1]
    /\ batch' = [batch EXCEPT ![u] = Append(@, at[u] + 1)]
    /\ sum' = [sum EXCEPT ![u].total = @ + 1]
    /\ IF Len(batch[u]) + 1 > ChunkSize THEN Goto(u, "copy")
                                        ELSE UNCHANGED pc
    /\ UNCHANGED <<rows, ins, file, ghostVars>>

\* The next row, if it is worth a place in the batch ...
TakeRow(u) ==
    /\ pc[u] = "read" /\ at[u] < Len(file[u])
    /\ Valid(file[u][at[u] + 1])
    /\ at' = [at EXCEPT ![u] = @ + 1]
    /\ batch' = [batch EXCEPT ![u] = Append(@, at[u] + 1)]
    /\ sum' = [sum EXCEPT ![u].total = @ + 1]
    /\ IF Len(batch[u]) + 1 >= ChunkSize THEN Goto(u, "copy")
                                         ELSE UNCHANGED pc
    /\ UNCHANGED <<rows, ins, file, ghostVars>>

\* ... and if it is not.
SkipRow(u) ==
    /\ pc[u] = "read" /\ at[u] < Len(file[u])
    /\ ~Valid(file[u][at[u] + 1])
    /\ at' = [at EXCEPT ![u] = @ + 1]
    /\ sum' = [sum EXCEPT ![u].total = @ + 1, ![u].skipped = @ + 1,
                  ![u].reasons[Verdict(file[u][at[u] + 1])] = @ + 1]
    /\ UNCHANGED <<rows, ins, pc, file, batch, ghostVars>>

\* Mutant of EndOfFile: the trailing partial batch is dropped.
NoTrailingBatch(u) ==
    /\ pc[u] = "read" /\ at[u] = Len(file[u])
    /\ Goto(u, "done")
    /\ batch' = [batch EXCEPT ![u] = <<>>]
    /\ UNCHANGED <<rows, ins, file, at, sum, ghostVars>>

\* The trailing partial batch, or the answer.
EndOfFile(u) ==
    /\ pc[u] = "read" /\ at[u] = Len(file[u])
    /\ Goto(u, IF batch[u] = <<>> THEN "done" ELSE "copy")
    /\ UNCHANGED <<rows, ins, file, at, batch, sum, ghostVars>>

\* COPY into the staging table: one row it refuses fails the chunk, and with
\* it the upload.
CopyChunk(u) ==
    /\ pc[u] = "copy"
    /\ Goto(u, IF \A i \in InBatch(u) : file[u][i].fits THEN "merge"
                                                        ELSE "failed")
    /\ UNCHANGED <<rows, ins, file, at, batch, sum, ghostVars>>

MergeChunk(u) ==
    /\ pc[u] = "merge"
    /\ ~WaitsFor(u, InBatch(u))
    /\ ins' = [ins EXCEPT ![u] = Merged(u, InBatch(u))]
    /\ Goto(u, "commit")
    /\ UNCHANGED <<rows, file, at, batch, sum, ghostVars>>

\* Counting what a chunk did: n rows of the batch inserted.
Counted(u, n) ==
    [sum EXCEPT
        ![u].inserted = @ + n,
        ![u].skipped = @ + (Len(batch[u]) - n),
        ![u].reasons["duplicate_name"] = @ + (Len(batch[u]) - n)]

\* Mutant of CommitChunk: batch.clear() is missing after the last chunk.
KeepBatch(u) ==
    /\ pc[u] = "commit"
    /\ rows' = rows \cup ins[u]
    /\ ins' = [ins EXCEPT ![u] = {}]
    /\ sum' = Counted(u, Cardinality(ins[u]))
    /\ Goto(u, IF at[u] = Len(file[u]) THEN "done" ELSE "read")
    /\ UNCHANGED <<file, at, batch, ghostVars>>

\* Mutant of CommitChunk: every row of the batch is taken for inserted.
CountWholeBatch(u) ==
    /\ pc[u] = "commit"
    /\ rows' = rows \cup ins[u]
    /\ ins' = [ins EXCEPT ![u] = {}]
    /\ sum' = Counted(u, Len(batch[u]))
    /\ batch' = [batch EXCEPT ![u] = <<>>]
    /\ Goto(u, "read")
    /\ UNCHANGED <<file, at, ghostVars>>

CommitChunk(u) ==
    /\ pc[u] = "commit"
    /\ rows' = rows \cup ins[u]
    /\ ins' = [ins EXCEPT ![u] = {}]
    /\ sum' = Counted(u, Cardinality(ins[u]))
    /\ batch' = [batch EXCEPT ![u] = <<>>]
    /\ Goto(u, "read")
    /\ UNCHANGED <<file, at, ghostVars>>
-----------------------------------------------------------------------------
\* load_csv.py: COPY of the whole file, from a generator that fails on a row
\* it cannot convert.
LoadStart(l, f) ==
    /\ Starts(l, IF \A i \in 1..Len(f) : Loadable(f[i]) THEN "merge"
                                                       ELSE "failed", f)
    /\ UNCHANGED <<rows, ins, at, batch, sum, reruns>>

\* The merge of a script: the file or the seed data in one statement.
MergeAll(w) ==
    /\ pc[w] = "merge"
    /\ ~WaitsFor(w, 1..Len(file[w]))
    /\ ins' = [ins EXCEPT ![w] = Merged(w, 1..Len(file[w]))]
    /\ Goto(w, "commit")
    /\ UNCHANGED <<rows, file, at, batch, sum, ghostVars>>

CommitAll(w) ==
    /\ pc[w] = "commit"
    /\ rows' = rows \cup ins[w]
    /\ ins' = [ins EXCEPT ![w] = {}]
    /\ Goto(w, "done")
    /\ UNCHANGED <<file, at, batch, sum, ghostVars>>

\* Transactions that have the table locked: an upload's and the loader's from
\* CREATE TABLE (LIKE profiles) on, the seeder's from its INSERT on.
InTransaction ==
    {w \in Writer : pc[w] = "commit" \/ (pc[w] = "merge" /\ w \notin Seeder)}

\* seed.py: drop_all waits for every transaction on the table to end; it and
\* create_all commit together, before the data file is opened.
SeedDrop(s) ==
    /\ pc[s] = "idle"
    /\ InTransaction = {}
    /\ Goto(s, "merge")
    /\ file' = [file EXCEPT ![s] = SeedData]
    /\ rows' = {}
    /\ calm' = {s} /\ reruns' = {}
    /\ UNCHANGED <<ins, at, batch, sum>>
-----------------------------------------------------------------------------
\* Mutant of Fail: the rows are inserted outside a transaction.
FailHalfway(w) ==
    /\ pc[w] \in {"copy", "merge", "commit"}
    /\ Goto(w, "lost")
    /\ rows' \in {rows \cup S : S \in SUBSET ins[w]}
    /\ ins' = [ins EXCEPT ![w] = {}]
    /\ UNCHANGED <<file, at, batch, sum, ghostVars>>

\* A connection is lost, or a process ends; a COMMIT on its way may have
\* reached the database.
Fail(w) ==
    /\ pc[w] \in {"copy", "merge", "commit"}
    /\ Goto(w, "lost")
    /\ rows' \in {rows} \cup {rows \cup ins[w]}
    /\ ins' = [ins EXCEPT ![w] = {}]
    /\ UNCHANGED <<file, at, batch, sum, ghostVars>>

\* An admin deletes a profile.
Remove(p) ==
    /\ rows' = rows \ {p}
    /\ calm' = {} /\ reruns' = {}
    /\ UNCHANGED <<ins, pc, file, at, batch, sum>>

UploadStep(u) ==
    \/ \E f \in File : UploadStart(u, f)
    \/ TakeRow(u) \/ SkipRow(u) \/ EndOfFile(u)
    \/ CopyChunk(u) \/ MergeChunk(u) \/ CommitChunk(u)

Next ==
    \/ \E u \in Upload : UploadStep(u)
    \/ \E l \in Loader : \E f \in File : LoadStart(l, f)
    \/ \E s \in Seeder : SeedDrop(s)
    \/ \E w \in Loader \cup Seeder : MergeAll(w) \/ CommitAll(w)
    \/ \E w \in Writer : Fail(w)
    \/ \E p \in rows : Remove(p)

Spec == Init /\ [][Next]_vars
-----------------------------------------------------------------------------
Labels == {"idle", "read", "copy", "merge", "commit", "done", "failed",
           "lost"}

Summary == [total : Nat, inserted : Nat, skipped : Nat,
            reasons : [Reason -> Nat]]

\* Types of the variables; a batch holds valid rows in the order they were
\* read, never more than a chunk.
TypeOK ==
    /\ rows \subseteq Profile
    /\ ins \in [Writer -> SUBSET Profile]
    /\ pc \in [Writer -> Labels]
    /\ file \in [Writer -> Seq(Row)]
    /\ at \in [Writer -> Nat]
    /\ batch \in [Writer -> Seq(Nat)]
    /\ sum \in [Writer -> Summary]
    /\ calm \subseteq Writer /\ reruns \subseteq Upload
    /\ \A u \in Upload :
        /\ at[u] <= Len(file[u])
        /\ Len(batch[u]) <= ChunkSize
        /\ InBatch(u) \subseteq 1..at[u]

\* Whenever an upload ends, fails or is looked at, every row it has read is
\* accounted for exactly once: inserted, skipped for one reason, or in the
\* batch.
CountsAddUp ==
    \A u \in Upload :
        LET s == sum[u] IN
        /\ s.total = at[u]
        /\ s.total = s.inserted + s.skipped + Len(batch[u])
        /\ s.skipped = s.reasons["malformed_row"]
                         + s.reasons["missing_fields"]
                         + s.reasons["invalid_gender"]
                         + s.reasons["invalid_age"]
                         + s.reasons["duplicate_name"]

RowsOf(w) == {p \in rows : p.id[1] = w}

\* What an upload has counted as inserted are the rows it put into the table,
\* whatever the other writers insert meanwhile; only a commit whose answer
\* was lost goes uncounted.
InsertedIsStored ==
    \A u \in Upload \cap calm :
        /\ sum[u].inserted <= Cardinality(RowsOf(u))
        /\ pc[u] # "lost" => sum[u].inserted = Cardinality(RowsOf(u))

\* Wherever the chunk boundaries fall and whenever an upload stops, each valid
\* row it has flushed has its name in the table, and if the upload itself
\* stored that name, it stored the first valid row that has it.
HandledStored ==
    \A u \in Upload \cap calm :
        LET f == file[u]
            flushed == {i \in 1..at[u] : Valid(f[i]) /\ i \notin InBatch(u)}
        IN  /\ \A i \in flushed : f[i].name \in NamesOf(rows)
            /\ \A p \in RowsOf(u) : \A i \in flushed :
                    f[i].name = p.name => p.id[2] <= i

\* SOLUTION.md, section 4c: re-running the upload is safe.  The second run of
\* a file that was loaded inserts nothing, and cannot fail half-way either.
RerunAddsNothing ==
    \A u \in reruns : sum[u].inserted = 0 /\ pc[u] # "failed"

\* The loader's transaction is all or nothing: if the table has any row of a
\* file, it has every name of the file.
LoaderAllOrNothing ==
    \A l \in Loader \cap calm :
        RowsOf(l) # {} =>
            \A i \in 1..Len(file[l]) : file[l][i].name \in NamesOf(rows)

\* A profile whose file gave no age group has the one POST would have given
\* it, at every boundary.
SameAgeGroups ==
    \A p \in rows :
        (p.id[1] \in Upload /\ file[p.id[1]][p.id[2]].group = "")
            => p.group = EnrichedAgeGroup(p.age)
=============================================================================
