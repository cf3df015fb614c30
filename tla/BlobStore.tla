----------------------------- MODULE BlobStore -----------------------------
(***************************************************************************)
(* Files of the system: base64 in a column of their row, or an object in   *)
(* the bucket whose key is in another column (StorageService and           *)
(* S3ObjectStore).  The services that create, replace and remove a file    *)
(* and the backfill that moves the legacy ones (blob-backfill.ts) write    *)
(* the bucket and the row in separate calls, and may die in between.       *)
(***************************************************************************)
EXTENDS Integers, Sequences, FiniteSets

CONSTANTS
  Rows,       \* rows with a file
  Workers,    \* requests that may run at the same time
  Runs,       \* runs of the backfill that may run at the same time
  MaxEdits,   \* bound: requests ever made, and so contents ever written
  MaxRuns     \* bound: runs ever started

None == << "ninguno" >>
(* buildObjectKey: a random key per upload; backfillObjectKey: one per row. *)
FreshKey(n)    == << "archivo", n >>
BackfillKey(r) == << "migrado", r >>
Keys == {FreshKey(n) : n \in 1..MaxEdits} \cup {BackfillKey(r) : r \in Rows}

(* Contents are numbered by the request that wrote them; 0 is the first.    *)
Contents == 0..MaxEdits
Absent == -1
NoJob  == [row |-> None, old |-> None, new |-> None, content |-> Absent]
Causes == {"dos_corridas", "regreso", "caida", "fallo", "choque"}

VARIABLES
  driver,   \* STORAGE_DRIVER: "db" or "s3"
  row,      \* by row: whether it exists, its data and its key
  object,   \* the bucket: content by key, or Absent
  latest,   \* history: the content each row should have
  pc, job,  \* the requests
  run,      \* the runs of the backfill: step, rows of the batch, and data read
  edits, runs, drift

bucket == object
db     == << row, latest >>
vars   == << driver, db, bucket, pc, job, run, edits, runs, drift >>

Legacy == [live |-> TRUE, data |-> 0, key |-> None]
Idle   == [at |-> "fuera", batch |-> << >>]

Init ==
  /\ driver \in {"db", "s3"}
  /\ row \in [Rows -> {Legacy, [live |-> FALSE, data |-> Absent, key |-> None]}
                      \cup {[live |-> TRUE, data |-> Absent, key |-> BackfillKey(r)] : r \in Rows}]
  /\ \A r \in Rows : row[r].key \in {None, BackfillKey(r)}
  /\ object = [k \in Keys |-> IF \E r \in Rows : row[r].key = k THEN 0 ELSE Absent]
  /\ latest = [r \in Rows |-> IF row[r].live THEN 0 ELSE Absent]
  /\ pc = [w \in Workers |-> "libre"] /\ job = [w \in Workers |-> NoJob]
  /\ run = [b \in Runs |-> Idle]
  /\ edits = 0 /\ runs = 0
  /\ drift = {}

-----------------------------------------------------------------------------
(* loadBase64: the object of the key, if there is one, else the data.       *)
Load(r) == IF row[r].key # None THEN object[row[r].key] ELSE row[r].data

Put(k, content) == object' = [object EXCEPT ![k] = content]

(* deleteQuietly: a delete that fails is only logged.                       *)
Drop(k) ==
  IF k = None THEN UNCHANGED << object, drift >>
  ELSE \/ Put(k, Absent) /\ UNCHANGED drift
       \/ UNCHANGED object /\ drift' = drift \cup {"fallo"}

Goto(w, where) == pc' = [pc EXCEPT ![w] = where]
End(w) == Goto(w, "libre") /\ job' = [job EXCEPT ![w] = NoJob]

-----------------------------------------------------------------------------
(* A request that writes a file: a new row (a mockup, a logo, a template, a *)
(* round, a message) or the replacement of the file of one (PATCH of an     *)
(* order, the logo of a branch).                                            *)

Read(w, r, where) ==
  /\ pc[w] = "libre"
  /\ edits < MaxEdits
  /\ edits' = edits + 1
  /\ Goto(w, where)
  /\ job' = [job EXCEPT ![w] = [row |-> << r >>, old |-> row[r].key, new |-> None,
                                content |-> edits + 1]]
  /\ UNCHANGED << driver, db, bucket, run, runs >>

Row(w) == job[w].row[1]

ReadToWrite(w, r) ==
  /\ row[r].live \/ latest[r] = Absent
  /\ Read(w, r, "guarda")
  /\ drift' = drift \cup (IF driver = "db" /\ row[r].key # None THEN {"regreso"} ELSE {})

Save(w) ==
  /\ pc[w] = "guarda"
  /\ Goto(w, "escribe")
  /\ IF driver = "s3"
     THEN /\ Put(FreshKey(job[w].content), job[w].content)
          /\ job' = [job EXCEPT ![w].new = FreshKey(job[w].content)]
     ELSE UNCHANGED << object, job >>
  /\ UNCHANGED << driver, db, run, edits, runs, drift >>

(* Mutant of DataColumn: the base64 is kept beside the key.                 *)
DataColumnAlways(w) == job[w].content
DataColumn(w) == IF driver = "s3" THEN Absent ELSE job[w].content

(* The row is still there to be written.                                    *)
Replaces(w) == row[Row(w)].live \/ latest[Row(w)] = Absent

Write(w) ==
  /\ pc[w] = "escribe"
  /\ IF Replaces(w)
     THEN /\ row' = [row EXCEPT ![Row(w)] =
                       [live |-> TRUE, data |-> DataColumn(w), key |-> job[w].new]]
          /\ latest' = [latest EXCEPT ![Row(w)] = job[w].content]
          /\ Goto(w, "borra")
          /\ drift' = drift \cup (IF row[Row(w)].key # job[w].old THEN {"choque"} ELSE {})
     ELSE Goto(w, "deshace") /\ UNCHANGED << row, latest, drift >>
  /\ UNCHANGED << driver, bucket, job, run, edits, runs >>

(* The write fails, and the file that was saved for it is deleted.          *)
WriteFails(w) ==
  /\ pc[w] = "escribe"
  /\ Goto(w, "deshace")
  /\ UNCHANGED << driver, db, bucket, job, run, edits, runs, drift >>

(* Mutant of Undone: the file saved for a write that failed is forgotten.   *)
UndoneForgotten(w) == None
Undone(w) == job[w].new

Undo(w) ==
  /\ pc[w] = "deshace"
  /\ Drop(Undone(w))
  /\ End(w)
  /\ UNCHANGED << driver, db, run, edits, runs >>

(* remove, removeLogo and the removal of an order with all its files: the   *)
(* keys are read first, the row goes, then the objects.                     *)
ReadToRemove(w, r) == row[r].live /\ Read(w, r, "quita") /\ UNCHANGED drift

Remove(w) ==
  /\ pc[w] = "quita"
  /\ IF row[Row(w)].live
     THEN /\ row' = [row EXCEPT ![Row(w)] = [live |-> FALSE, data |-> Absent, key |-> None]]
          /\ Goto(w, "borra")
          /\ UNCHANGED job
          /\ drift' = drift \cup (IF row[Row(w)].key # job[w].old THEN {"choque"} ELSE {})
     ELSE End(w) /\ UNCHANGED << row, drift >>
  /\ UNCHANGED << driver, latest, bucket, run, edits, runs >>

DropOld(w) ==
  /\ pc[w] = "borra"
  /\ Drop(job[w].old)
  /\ End(w)
  /\ UNCHANGED << driver, db, run, edits, runs >>

(* What a request that dies leaves in the bucket, with no row of its own.   *)
Leftover(w) ==
  \/ pc[w] \in {"escribe", "deshace"} /\ job[w].new # None
  \/ pc[w] = "borra" /\ job[w].old # None

Crash(w) ==
  /\ pc[w] # "libre"
  /\ End(w)
  /\ drift' = drift \cup (IF Leftover(w) THEN {"caida"} ELSE {})
  /\ UNCHANGED << driver, db, bucket, run, edits, runs >>

-----------------------------------------------------------------------------
(* backfillBlobs.  A run reads a batch of rows with data and no key, and    *)
(* takes them one by one.                                                   *)

Set(b, r) == run' = [run EXCEPT ![b] = r]
Batch(b)  == run[b].batch
Current(b) == Batch(b)[1]

RunRead(b) ==
  \E todo \in {{r \in Rows : row[r].live /\ row[r].key = None /\ row[r].data # Absent}} :
  /\ run[b] = Idle
  /\ runs < MaxRuns
  /\ todo # {}
  /\ runs' = runs + 1
  /\ \E order \in {s \in [1..Cardinality(todo) -> todo] : {s[k] : k \in DOMAIN s} = todo} :
       Set(b, [at |-> "sube", batch |-> [k \in DOMAIN order |->
                                           [row |-> order[k], data |-> row[order[k]].data]]])
  /\ drift' = drift \cup (IF \E c \in Runs \ {b} : run[c] # Idle THEN {"dos_corridas"} ELSE {})
  /\ UNCHANGED << driver, db, bucket, pc, job, edits >>

(* On to the next row of the batch.                                         *)
Following(b) ==
  IF Len(Batch(b)) = 1 THEN Idle ELSE [at |-> "sube", batch |-> Tail(Batch(b))]

RunPut(b) ==
  /\ run[b].at = "sube"
  /\ \/ Put(BackfillKey(Current(b).row), Current(b).data)
        /\ Set(b, [run[b] EXCEPT !.at = "verifica"])
     \/ UNCHANGED object /\ Set(b, Following(b))
  /\ UNCHANGED << driver, db, pc, job, edits, runs, drift >>

(* The object is there with the size of the data.                           *)
RunHead(b) ==
  /\ run[b].at = "verifica"
  /\ IF object[BackfillKey(Current(b).row)] # Absent
     THEN Set(b, [run[b] EXCEPT !.at = "apunta"])
     ELSE Set(b, Following(b))
  /\ UNCHANGED << driver, db, bucket, pc, job, edits, runs, drift >>

(* Mutant of Unchanged: the row is only asked to have no key.               *)
UnchangedKey(b) == row[Current(b).row].live /\ row[Current(b).row].key = None
Unchanged(b) ==
  /\ row[Current(b).row].live
  /\ row[Current(b).row].key = None
  /\ row[Current(b).row].data = Current(b).data

RunUpdate(b) ==
  /\ run[b].at = "apunta"
  /\ IF Unchanged(b)
     THEN /\ row' = [row EXCEPT ![Current(b).row] =
                       [live |-> TRUE, data |-> Absent, key |-> BackfillKey(Current(b).row)]]
          /\ Set(b, Following(b))
     ELSE Set(b, [run[b] EXCEPT !.at = "relee"]) /\ UNCHANGED row
  /\ UNCHANGED << driver, latest, bucket, pc, job, edits, runs, drift >>

(* The row changed meanwhile: its object goes, unless the row points to it. *)
RunReread(b) ==
  /\ run[b].at = "relee"
  /\ Set(b, IF row[Current(b).row].key = BackfillKey(Current(b).row)
            THEN Following(b) ELSE [run[b] EXCEPT !.at = "limpia"])
  /\ UNCHANGED << driver, db, bucket, pc, job, edits, runs, drift >>

RunClean(b) ==
  /\ run[b].at = "limpia"
  /\ Drop(BackfillKey(Current(b).row))
  /\ Set(b, Following(b))
  /\ UNCHANGED << driver, db, pc, job, edits, runs >>

RunCrash(b) ==
  /\ run[b] # Idle
  /\ Set(b, Idle)
  /\ drift' = drift \cup (IF run[b].at # "sube" THEN {"caida"} ELSE {})
  /\ UNCHANGED << driver, db, bucket, pc, job, edits, runs >>

-----------------------------------------------------------------------------
Next ==
  \/ \E w \in Workers, r \in Rows : ReadToWrite(w, r) \/ ReadToRemove(w, r)
  \/ \E w \in Workers :
       \/ Save(w) \/ Write(w) \/ WriteFails(w) \/ Undo(w)
       \/ Remove(w) \/ DropOld(w) \/ Crash(w)
  \/ \E b \in Runs :
       \/ RunRead(b) \/ RunPut(b) \/ RunHead(b) \/ RunUpdate(b)
       \/ RunReread(b) \/ RunClean(b) \/ RunCrash(b)

Spec == Init /\ [][Next]_vars

-----------------------------------------------------------------------------
(* Type invariant.                                                          *)
TypeOK ==
  /\ driver \in {"db", "s3"}
  /\ row \in [Rows -> [live : BOOLEAN, data : Contents \cup {Absent}, key : Keys \cup {None}]]
  /\ \A r \in Rows : row[r].live => (row[r].key = None) # (row[r].data = Absent)
  /\ object \in [Keys -> Contents \cup {Absent}]
  /\ latest \in [Rows -> Contents \cup {Absent}]
  /\ edits \in 0..MaxEdits /\ runs \in 0..MaxRuns
  /\ drift \subseteq Causes

(* "Nunca borra el base64 sin antes verificar el objeto": every row reads   *)
(* back the last content somebody wrote to it, whatever crashes, fails or   *)
(* is edited during the migration, as long as two runs of it do not overlap *)
(* and the driver is not "db" when a file already in the bucket is replaced.*)
FilesReadable ==
  drift \cap {"dos_corridas", "regreso"} = {} =>
    \A r \in Rows : row[r].live => Load(r) = latest[r]

(* At rest the bucket holds no object without a row, unless a request died  *)
(* with one on its hands, a delete failed, the file had changed between the *)
(* read and the write of another request, or two runs overlapped.           *)
OrphansExplained ==
  /\ drift = {}
  /\ \A w \in Workers : pc[w] = "libre"
  /\ \A b \in Runs : run[b] = Idle
  => \A k \in Keys : object[k] # Absent => \E r \in Rows : row[r].key = k
=============================================================================
