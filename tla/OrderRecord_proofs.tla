------------------------ MODULE OrderRecord_proofs ------------------------
(***************************************************************************)
(* What is kept of an order keeps what its run checks, whatever the number *)
(* of files, requests, runs of the backfill, areas, rounds, articles...    *)
(* For each machine: the inductive invariant (XInv), that it implies the   *)
(* machine's type invariant and properties (XInvSafe), that it holds at the*)
(* start (XInvInit), that each action keeps it (a lemma each, together     *)
(* XInvStep), and that a step of another machine does (XInvKept).  The     *)
(* theorems about the whole are at the end.                                *)
(***************************************************************************)
EXTENDS OrderRecord, FiniteSetTheorems, SequenceTheorems, TLAPS

(* The number of elements of a set, as the files name it.                   *)
LEMMA RecordCardinality == \A S : Files!Cardinality(S) = Cardinality(S)
BY DEF Files!Cardinality, Cardinality

-----------------------------------------------------------------------------
(* Files.                                                                   *)

FileRow == [live : BOOLEAN, data : Files!Contents \cup {Files!Absent},
  key : Files!Keys \cup {Files!None}]
FileJob == [row : {Files!None} \cup {<< r >> : r \in Rows}, old : Files!Keys \cup {Files!None},
            new : Files!Keys \cup {Files!None}, content : Files!Contents \cup {Files!Absent}]
FileItem == [row : Rows, data : Files!Contents]
FileRun == [at : {"fuera", "sube", "verifica", "apunta", "relee", "limpia"},
            batch : Seq(FileItem)]

FileTypes ==
  /\ driver \in {"db", "s3"}
  /\ row \in [Rows -> FileRow]
  /\ object \in [Files!Keys -> Files!Contents \cup {Files!Absent}]
  /\ latest \in [Rows -> Files!Contents \cup {Files!Absent}]
  /\ pc \in [Workers -> {"libre", "guarda", "escribe", "borra", "deshace", "quita"}]
  /\ job \in [Workers -> FileJob]
  /\ run \in [Runs -> FileRun]
  /\ edits \in 0..MaxEdits /\ runs \in 0..MaxRuns
  /\ drift \subseteq Files!Causes

(* The keys a row may have: that of the backfill, or one of an upload.      *)
FileKeysOf(r) == {Files!None, Files!BackfillKey(r)} \cup {Files!FreshKey(n) : n \in 1..edits}

(* A row there is has its file in one of the two places, and was written.   *)
FileRowOK(r) ==
  /\ row[r].key \in FileKeysOf(r)
  /\ row[r].live => (row[r].key = Files!None) # (row[r].data = Files!Absent)
       /\ latest[r] # Files!Absent
  /\ ~row[r].live => row[r].key = Files!None

(* A request knows the key its row had, and the key of what it has saved.   *)
FileJobOK(w) ==
  pc[w] # "libre" =>
    /\ \E r \in Rows : job[w].row = << r >>
    /\ job[w].content \in 1..edits
    /\ job[w].old \in FileKeysOf(Files!Row(w))
    /\ pc[w] = "guarda" => job[w].new = Files!None
    /\ pc[w] \in {"escribe", "deshace"} =>
         job[w].new = IF driver = "s3" THEN Files!FreshKey(job[w].content) ELSE Files!None

(* A run that is not idle has rows left to do, each once.                   *)
FileRunOK(b) ==
  /\ run[b].at = "fuera" <=> run[b] = Files!Idle
  /\ run[b] # Files!Idle => Len(Files!Batch(b)) >= 1
  /\ \A j, k \in DOMAIN Files!Batch(b) : j # k => Files!Batch(b)[j].row # Files!Batch(b)[k].row

(* A request that may still write its content in the row.                   *)
FileToWrite(w) == pc[w] \in {"guarda", "escribe", "deshace"}

(* Who has a key: a key of an upload is of one request until it writes it,  *)
(* then of one row, and never again of any once another file replaced it.   *)
FileOwners ==
  /\ \A v, w \in Workers :
       v # w /\ pc[v] # "libre" /\ pc[w] # "libre" => job[v].content # job[w].content
  /\ \A w \in Workers : FileToWrite(w) =>
       /\ \A r \in Rows : row[r].key # Files!FreshKey(job[w].content)
       /\ \A v \in Workers : pc[v] # "libre" => job[v].old # Files!FreshKey(job[w].content)
  /\ \A r, q \in Rows : r # q /\ row[r].key = row[q].key => row[r].key = Files!None
  /\ \A w \in Workers, r \in Rows :
       pc[w] # "libre" /\ r # Files!Row(w) /\ row[r].key = job[w].old => job[w].old = Files!None
  /\ \A w \in Workers :
       pc[w] = "borra" /\ job[w].old # Files!BackfillKey(Files!Row(w))
         /\ row[Files!Row(w)].key = job[w].old
       => job[w].old = Files!None

(* A row that will never be one for the backfill again.                     *)
FileSettled(r) ==
  \/ ~row[r].live /\ latest[r] # Files!Absent
  \/ driver = "s3" /\ row[r].live /\ row[r].key \notin {Files!None, Files!BackfillKey(r)}

(* A save is there for its write; a file in the bucket is never replaced by *)
(* one in the row; the old key that is being dropped is of a row that is    *)
(* done with it.                                                            *)
FileJobReads(w) ==
  /\ pc[w] = "escribe" /\ driver = "s3" =>
       object[Files!FreshKey(job[w].content)] = job[w].content
  /\ pc[w] \in {"guarda", "escribe"} /\ driver = "db" => job[w].old = Files!None
  /\ pc[w] = "borra" /\ job[w].old = Files!BackfillKey(Files!Row(w)) => FileSettled(Files!Row(w))

(* The rows left to a run have not been migrated, and what it has put in    *)
(* the bucket is there unless the row is done with it.                      *)
FileRunReads(b) ==
  /\ \A k \in DOMAIN Files!Batch(b) :
       row[Files!Batch(b)[k].row].key # Files!BackfillKey(Files!Batch(b)[k].row)
  /\ run[b].at \in {"verifica", "apunta"} =>
       FileSettled(Files!Current(b).row)
         \/ object[Files!BackfillKey(Files!Current(b).row)] = Files!Current(b).data

FileOneRun == \A b, c \in Runs : run[b] # Files!Idle /\ run[c] # Files!Idle => b = c

FileReads ==
  /\ \A r \in Rows : row[r].live => Files!Load(r) = latest[r]
  /\ \A w \in Workers : FileJobReads(w)
  /\ \A b \in Runs : FileRunReads(b)
  /\ FileOneRun

(* An object somebody has on its hands: with it, nothing is in the bucket   *)
(* that no row names.                                                       *)
FileHeld(k) ==
  \/ \E r \in Rows : row[r].key = k
  \/ \E w \in Workers : pc[w] \in {"escribe", "deshace"} /\ job[w].new = k
  \/ \E w \in Workers : pc[w] = "borra" /\ job[w].old = k
  \/ \E b \in Runs : run[b].at \in {"verifica", "apunta", "relee", "limpia"}
                       /\ Files!BackfillKey(Files!Current(b).row) = k

FileInv ==
  /\ FileTypes
  /\ \A r \in Rows : FileRowOK(r)
  /\ \A w \in Workers : FileJobOK(w)
  /\ \A b \in Runs : FileRunOK(b)
  /\ FileOwners
  /\ drift \cap {"dos_corridas", "regreso"} = {} => FileReads
  /\ drift = {} => \A k \in Files!Keys : object[k] # Files!Absent => FileHeld(k)

LEMMA FileKeyFacts ==
  /\ \A n : Files!FreshKey(n) # Files!None /\ \A r : Files!FreshKey(n) # Files!BackfillKey(r)
  /\ \A r : Files!BackfillKey(r) # Files!None
  /\ \A m, n : Files!FreshKey(m) = Files!FreshKey(n) => m = n
  /\ \A r, q : Files!BackfillKey(r) = Files!BackfillKey(q) => r = q
BY DEF Files!FreshKey, Files!BackfillKey, Files!None

LEMMA FileKeyTypes ==
  /\ \A n \in 1..MaxEdits : Files!FreshKey(n) \in Files!Keys
  /\ \A r \in Rows : Files!BackfillKey(r) \in Files!Keys
  /\ Files!None \notin Files!Keys
  /\ Files!Absent \notin Files!Contents /\ 0..MaxEdits = Files!Contents /\ Files!NoJob \in FileJob
BY FileKeyFacts, FilesAssumption DEF Files!Keys, Files!Absent, Files!Contents, Files!NoJob, FileJob

LEMMA FileIdle == Files!Idle \in FileRun /\ Files!Idle.at = "fuera" /\
  Files!Idle.batch = << >> /\ DOMAIN Files!Idle.batch = {}
<1>1. << >> \in Seq(FileItem) /\ DOMAIN << >> = {}
  BY EmptySeq
<1> QED  BY <1>1 DEF Files!Idle, FileRun

LEMMA FileInvSafe == FileInv => Files!TypeOK /\ Files!FilesReadable /\ Files!OrphansExplained
<1> SUFFICES ASSUME FileInv PROVE Files!TypeOK /\ Files!FilesReadable /\ Files!OrphansExplained
  OBVIOUS
<1>1. Files!TypeOK
  BY DEF FileInv, FileTypes, FileRowOK, Files!TypeOK, FileRow
<1>2. Files!FilesReadable
  BY DEF FileInv, FileReads, Files!FilesReadable
<1>3. Files!OrphansExplained
  BY FileIdle DEF FileInv, FileHeld, Files!OrphansExplained
<1> QED  BY <1>1, <1>2, <1>3

LEMMA FileInvInit == Files!Init => FileInv
<1> SUFFICES ASSUME Files!Init PROVE FileInv
  OBVIOUS
<1>1. ASSUME NEW r \in Rows
      PROVE  /\ row[r] \in FileRow /\ FileRowOK(r)
             /\ row[r].key \in {Files!None, Files!BackfillKey(r)}
             /\ row[r].live => latest[r] = 0 /\ (row[r].key = Files!None => row[r].data = 0)
  <2>1. /\ row[r].key \in {Files!None, Files!BackfillKey(r)}
        /\ \/ row[r] = Files!Legacy
           \/ row[r] = [live |-> FALSE, data |-> Files!Absent, key |-> Files!None]
           \/ \E q \in Rows : row[r] = [live |-> TRUE, data |-> Files!Absent,
                key |-> Files!BackfillKey(q)]
    BY DEF Files!Init
  <2>2. latest[r] = IF row[r].live THEN 0 ELSE Files!Absent
    BY DEF Files!Init
  <2>3. 0 \in Files!Contents
    BY FilesAssumption DEF Files!Contents
  <2>4. row[r].key \in Files!Keys \cup {Files!None} /\ row[r].key \in FileKeysOf(r)
    BY <2>1, FileKeyTypes DEF FileKeysOf
  <2>5. CASE row[r] = Files!Legacy
    <3>1. row[r].live = TRUE /\ row[r].data = 0 /\ row[r].key = Files!None /\ latest[r] = 0
      BY <2>2, <2>5 DEF Files!Legacy
    <3>2. row[r] \in FileRow
      BY <2>3, <2>5 DEF FileRow, Files!Legacy
    <3> QED  BY <2>1, <2>4, <3>1, <3>2 DEF FileRowOK, Files!Absent
  <2>6. CASE row[r] = [live |-> FALSE, data |-> Files!Absent, key |-> Files!None]
    <3>1. row[r].live = FALSE /\ row[r].key = Files!None
      BY <2>6
    <3>2. row[r] \in FileRow
      BY <2>6 DEF FileRow
    <3> QED  BY <2>1, <2>4, <3>1, <3>2 DEF FileRowOK
  <2>7. ASSUME NEW q \in Rows, row[r] = [live |-> TRUE, data |-> Files!Absent,
               key |-> Files!BackfillKey(q)]
        PROVE  /\ row[r] \in FileRow /\ FileRowOK(r)
               /\ row[r].live /\ row[r].key # Files!None /\ latest[r] = 0
    <3>1. /\ row[r].live = TRUE /\ row[r].data = Files!Absent
          /\ row[r].key = Files!BackfillKey(q) /\ latest[r] = 0
      BY <2>2, <2>7
    <3>2. row[r] \in FileRow
      BY <2>7, FileKeyTypes DEF FileRow
    <3> QED  BY <2>4, <3>1, <3>2, FileKeyFacts DEF FileRowOK, Files!Absent
  <2> QED  BY <2>1, <2>5, <2>6, <2>7
<1>2. FileTypes
  <2>1. /\ object \in [Files!Keys -> Files!Contents \cup {Files!Absent}]
        /\ latest \in [Rows -> Files!Contents \cup {Files!Absent}]
    BY FilesAssumption DEF Files!Init, Files!Contents
  <2>2. row \in [Rows -> FileRow]
    BY <1>1 DEF Files!Init
  <2> QED  BY <2>1, <2>2, FileKeyTypes, FileIdle, FilesAssumption DEF Files!Init, FileTypes
<1>3. \A w \in Workers : FileJobOK(w)
  BY DEF Files!Init, FileJobOK
<1>4. \A b \in Runs : FileRunOK(b)
  BY FileIdle DEF Files!Init, FileRunOK, Files!Batch
<1>5. FileOwners
  BY <1>1, FileKeyFacts DEF Files!Init, FileOwners, FileToWrite
<1>6. FileReads
  <2>1. ASSUME NEW r \in Rows, row[r].live PROVE Files!Load(r) = latest[r]
    <3>1. CASE row[r].key = Files!None
      BY <1>1, <2>1, <3>1 DEF Files!Load
    <3>2. CASE row[r].key = Files!BackfillKey(r)
      BY <1>1, <2>1, <3>2, FileKeyFacts, FileKeyTypes DEF Files!Load, Files!Init
    <3> QED  BY <1>1, <3>1, <3>2
  <2>2. \A b \in Runs : FileRunReads(b)
    BY FileIdle DEF Files!Init, FileRunReads, Files!Batch
  <2> QED  BY <2>1, <2>2 DEF Files!Init, FileReads, FileJobReads, FileOneRun
<1>7. \A k \in Files!Keys : object[k] # Files!Absent => FileHeld(k)
  BY DEF Files!Init, FileHeld, Files!Absent
<1> QED  BY <1>1, <1>2, <1>3, <1>4, <1>5, <1>6, <1>7 DEF FileInv

-----------------------------------------------------------------------------
(* What a step leaves as it was.                                            *)

LEMMA FileRowsKept ==
  ASSUME FileInv, UNCHANGED << row, latest >>, edits' \in Nat, edits <= edits'
  PROVE  \A r \in Rows : FileRowOK(r)'
<1>1. \A r : FileKeysOf(r) \subseteq FileKeysOf(r)'
  BY DEF FileInv, FileTypes, FileKeysOf
<1> QED  BY <1>1 DEF FileInv, FileRowOK

LEMMA FileJobKept ==
  ASSUME FileInv, NEW w \in Workers, pc'[w] = pc[w], job'[w] = job[w], driver' = driver,
         edits' \in Nat, edits <= edits'
  PROVE  FileJobOK(w)'
<1>1. \A r : FileKeysOf(r) \subseteq FileKeysOf(r)'
  BY DEF FileInv, FileTypes, FileKeysOf
<1>2. edits \in Nat
  BY DEF FileInv, FileTypes
<1> QED  BY <1>1, <1>2 DEF FileInv, FileJobOK, Files!Row

LEMMA FileRunKept ==
  ASSUME FileInv, NEW b \in Runs, run'[b] = run[b] PROVE FileRunOK(b)'
BY DEF FileInv, FileRunOK, Files!Batch

(* Requests that end, or go on to what was theirs.                          *)
LEMMA FileOwnersKept ==
  ASSUME FileOwners, row' = row,
         \A w \in Workers :
           pc'[w] = "libre" \/ /\ pc[w] # "libre" /\ job'[w].row = job[w].row
                               /\ job'[w].old = job[w].old /\ job'[w].content = job[w].content
                               /\ FileToWrite(w)' => FileToWrite(w)
                               /\ pc'[w] = "borra" => pc[w] = "borra"
  PROVE  FileOwners'
<1>1. \A w \in Workers : FileToWrite(w)' => pc'[w] # "libre"
  BY DEF FileToWrite
<1>2. \A w \in Workers : pc'[w] # "libre" => Files!Row(w)' = Files!Row(w)
  BY DEF Files!Row
<1> QED  BY <1>1, <1>2 DEF FileOwners

LEMMA FileCurrent ==
  ASSUME FileInv, NEW b \in Runs, run[b] # Files!Idle
  PROVE  /\ Files!Batch(b) \in Seq(FileItem) /\ Len(Files!Batch(b)) >= 1
         /\ Files!Current(b) \in FileItem
         /\ Files!Current(b).row \in Rows /\ Files!Current(b).data \in Files!Contents
         /\ Files!BackfillKey(Files!Current(b).row) \in Files!Keys /\ 1 \in DOMAIN Files!Batch(b)
<1>1. Files!Batch(b) \in Seq(FileItem) /\ Len(Files!Batch(b)) >= 1
  BY DEF FileInv, FileRunOK, FileTypes, FileRun, Files!Batch
<1>2. Files!Current(b) \in FileItem /\ 1 \in DOMAIN Files!Batch(b)
  BY <1>1, ElementOfSeq DEF Files!Current
<1> QED  BY <1>1, <1>2, FileKeyTypes DEF FileItem

LEMMA FileBatchRow ==
  ASSUME FileInv, NEW b \in Runs, NEW k \in DOMAIN Files!Batch(b)
  PROVE  /\ Files!Batch(b)[k] \in FileItem /\ Files!Batch(b)[k].row \in Rows
         /\ k \in 1..Len(Files!Batch(b))
<1>1. Files!Batch(b) \in Seq(FileItem)
  BY DEF FileInv, FileTypes, FileRun, Files!Batch
<1>2. k \in 1..Len(Files!Batch(b))
  BY <1>1, LenProperties
<1>3. Files!Batch(b)[k] \in FileItem
  BY <1>1, <1>2, ElementOfSeq
<1> QED  BY <1>2, <1>3 DEF FileItem

LEMMA FileReadsLess ==
  ASSUME FileInv, drift \subseteq drift', drift' \cap {"dos_corridas", "regreso"} = {}
  PROVE  FileReads
BY DEF FileInv

(* A request that ends having dropped at most an object nobody reads.       *)
LEMMA FileEnd ==
  ASSUME FileInv, NEW w \in Workers, Files!End(w), UNCHANGED << driver, row, latest, run,
         edits, runs >>,
         drift \subseteq drift', drift' \subseteq Files!Causes,
         object' \in [Files!Keys -> Files!Contents \cup {Files!Absent}],
         \A k \in Files!Keys : object'[k] = object[k] \/ (/\ object'[k] = Files!Absent
           /\ \/ pc[w] = "borra" /\ job[w].old = k
              \/ pc[w] = "deshace" /\ job[w].new = k)
  PROVE  /\ FileTypes' /\ (\A r \in Rows : FileRowOK(r)') /\ (\A v \in Workers : FileJobOK(v)')
         /\ \A b \in Runs : FileRunOK(b)'
         /\ FileOwners'
         /\ drift' \cap {"dos_corridas", "regreso"} = {} => FileReads'
<1>1. pc' = [pc EXCEPT ![w] = "libre"] /\ job' = [job EXCEPT ![w] = Files!NoJob]
  BY DEF Files!End, Files!Goto
<1>2. pc'[w] = "libre" /\ \A v \in Workers \ {w} : pc'[v] = pc[v] /\ job'[v] = job[v]
  BY <1>1 DEF FileInv, FileTypes
<1>3. FileTypes'
  BY <1>1, FileKeyTypes DEF FileInv, FileTypes
<1>4. edits' \in Nat /\ edits <= edits'
  BY FilesAssumption DEF FileInv, FileTypes
<1>5. \A r \in Rows : FileRowOK(r)'
  BY <1>4, FileRowsKept
<1>6. \A v \in Workers : FileJobOK(v)'
  BY <1>2, <1>4, FileJobKept DEF FileJobOK
<1>7. \A b \in Runs : FileRunOK(b)'
  BY FileRunKept
<1>8. FileOwners'
  <2>1. FileOwners
    BY DEF FileInv
  <2>2. \A v \in Workers : pc'[v] = "libre" \/ (v # w /\ pc[v] # "libre")
    BY <1>2
  <2> QED  BY <1>2, <2>1, <2>2, FileOwnersKept DEF FileToWrite
<1>9. ASSUME drift' \cap {"dos_corridas", "regreso"} = {} PROVE FileReads'
  <2>1. FileReads
    BY <1>9, FileReadsLess
  <2>2. pc[w] # "libre" => /\ \E r \in Rows : job[w].row = << r >> /\ Files!Row(w) = r
                           /\ job[w].content \in 1..edits /\ job[w].old \in FileKeysOf(Files!Row(w))
                           /\ pc[w] = "deshace" =>
                                job[w].new \in {Files!None, Files!FreshKey(job[w].content)}
    BY DEF FileInv, FileJobOK, Files!Row
  <2>3. ASSUME NEW r \in Rows, row[r].live PROVE Files!Load(r)' = latest'[r]
    <3>1. CASE row[r].key = Files!None
      BY <2>1, <2>3, <3>1 DEF FileReads, Files!Load
    <3>2. CASE row[r].key # Files!None
      <4>1. row[r].key \in Files!Keys
        BY <3>2 DEF FileInv, FileTypes, FileRow
      <4>2. ~(pc[w] = "deshace" /\ job[w].new = row[r].key)
        BY <2>2, <3>2 DEF FileInv, FileOwners, FileToWrite
      <4>3. ~(pc[w] = "borra" /\ job[w].old = row[r].key)
        <5>1. CASE r # Files!Row(w)
          BY <3>2, <5>1 DEF FileInv, FileOwners
        <5>2. CASE r = Files!Row(w) /\ job[w].old # Files!BackfillKey(Files!Row(w))
          BY <3>2, <5>2 DEF FileInv, FileOwners
        <5>3. CASE r = Files!Row(w) /\ job[w].old = Files!BackfillKey(Files!Row(w))
          BY <2>1, <2>3, <5>3 DEF FileReads, FileJobReads, FileSettled
        <5> QED  BY <5>1, <5>2, <5>3
      <4>4. object'[row[r].key] = object[row[r].key]
        BY <4>1, <4>2, <4>3
      <4> QED  BY <2>1, <2>3, <3>2, <4>4 DEF FileReads, Files!Load
    <3> QED  BY <3>1, <3>2
  <2>4. ASSUME NEW v \in Workers PROVE FileJobReads(v)'
    <3>1. CASE v = w
      BY <1>2, <3>1 DEF FileJobReads
    <3>2. CASE v # w
      <4>1. pc'[v] = pc[v] /\ job'[v] = job[v] /\ Files!Row(v)' = Files!Row(v)
        BY <1>2, <3>2 DEF Files!Row
      <4>2. FileSettled(Files!Row(v)) => FileSettled(Files!Row(v))'
        BY <4>1 DEF FileSettled
      <4>3. ASSUME pc[v] = "escribe" PROVE object'[Files!FreshKey(job[v].content)] =
                   object[Files!FreshKey(job[v].content)]
        <5>0. job[v].content \in 1..MaxEdits
          <6>1. job[v].content \in 1..edits /\ edits \in 0..MaxEdits
            BY <4>3 DEF FileInv, FileJobOK, FileTypes
          <6> QED  BY <6>1, FilesAssumption
        <5>1. Files!FreshKey(job[v].content) \in Files!Keys
          BY <5>0, FileKeyTypes
        <5>2. pc[w] # "libre" => job[w].content # job[v].content
                /\ job[w].old # Files!FreshKey(job[v].content)
          BY <3>2, <4>3 DEF FileInv, FileOwners, FileToWrite
        <5> QED  BY <2>2, <5>1, <5>2, FileKeyFacts
      <4> QED  BY <2>1, <4>1, <4>2, <4>3 DEF FileReads, FileJobReads
    <3> QED  BY <3>1, <3>2
  <2>5. ASSUME NEW b \in Runs PROVE FileRunReads(b)'
    <3>1. Files!Batch(b)' = Files!Batch(b) /\ Files!Current(b)' = Files!Current(b)
      BY DEF Files!Batch, Files!Current
    <3>2. FileSettled(Files!Current(b).row) => FileSettled(Files!Current(b).row)'
      BY <3>1 DEF FileSettled
    <3>3. ASSUME run[b].at \in {"verifica", "apunta"}
          PROVE  FileSettled(Files!Current(b).row)
                   \/ object'[Files!BackfillKey(Files!Current(b).row)] = Files!Current(b).data
      <4>1. Files!Current(b).row \in Rows /\ Files!BackfillKey(Files!Current(b).row) \in Files!Keys
        BY <3>3, FileIdle, FileCurrent
      <4>2. ~(pc[w] = "deshace" /\ job[w].new = Files!BackfillKey(Files!Current(b).row))
        BY <2>2, FileKeyFacts
      <4>3. pc[w] = "borra" /\ job[w].old = Files!BackfillKey(Files!Current(b).row) =>
              Files!Current(b).row = Files!Row(w)
        BY <2>2, FileKeyFacts DEF FileKeysOf
      <4>4. pc[w] = "borra" /\ job[w].old = Files!BackfillKey(Files!Current(b).row) =>
              FileSettled(Files!Current(b).row)
        BY <2>1, <4>3 DEF FileReads, FileJobReads
      <4> QED  BY <2>1, <3>3, <4>1, <4>2, <4>4 DEF FileReads, FileRunReads
    <3> QED  BY <2>1, <3>1, <3>2, <3>3 DEF FileReads, FileRunReads
  <2>6. FileOneRun'
    BY <2>1 DEF FileReads, FileOneRun
  <2> QED  BY <2>3, <2>4, <2>5, <2>6 DEF FileReads
<1> QED  BY <1>3, <1>5, <1>6, <1>7, <1>8, <1>9

LEMMA FileNewKey ==
  ASSUME FileInv, NEW w \in Workers, pc[w] # "libre"
  PROVE  /\ Files!FreshKey(job[w].content) \in Files!Keys /\ job[w].content \in Files!Contents
         /\ job[w].content # Files!Absent /\ Files!Row(w) \in Rows
         /\ job[w].row = << Files!Row(w) >>
         /\ job[w].content \in 1..edits /\ job[w].old \in FileKeysOf(Files!Row(w))
<1>1. job[w].content \in 1..edits /\ edits \in 0..MaxEdits
  BY DEF FileInv, FileJobOK, FileTypes
<1>2. job[w].content \in 1..MaxEdits
  BY <1>1, FilesAssumption
<1>3. /\ Files!Row(w) \in Rows /\ job[w].row = << Files!Row(w) >>
      /\ job[w].old \in FileKeysOf(Files!Row(w))
  BY DEF FileInv, FileJobOK, Files!Row
<1> QED  BY <1>1, <1>2, <1>3, FileKeyTypes, FilesAssumption DEF Files!Contents, Files!Absent

(* Nothing is on the hands of a request that ends but what it dropped.      *)
LEMMA FileEndHeld ==
  ASSUME FileInv, NEW w \in Workers, Files!End(w), UNCHANGED << row, run >>, drift' = {},
         drift = {},
         \A k \in Files!Keys : object'[k] # Files!Absent => object[k] # Files!Absent,
         pc[w] \in {"escribe", "deshace"} => job[w].new = Files!None
           \/ object'[job[w].new] = Files!Absent,
         pc[w] = "borra" => job[w].old = Files!None \/ object'[job[w].old] = Files!Absent
  PROVE  \A k \in Files!Keys : object'[k] # Files!Absent => FileHeld(k)'
<1> SUFFICES ASSUME NEW k \in Files!Keys, object'[k] # Files!Absent PROVE FileHeld(k)'
  OBVIOUS
<1>1. FileHeld(k)
  BY DEF FileInv
<1>2. k # Files!None
  BY FileKeyTypes
<1>3. \A v \in Workers \ {w} : pc'[v] = pc[v] /\ job'[v] = job[v]
  BY DEF FileInv, FileTypes, Files!End, Files!Goto
<1>4. CASE \E v \in Workers : pc[v] \in {"escribe", "deshace"} /\ job[v].new = k
  BY <1>2, <1>3, <1>4 DEF FileHeld, FileInv
<1>5. CASE \E v \in Workers : pc[v] = "borra" /\ job[v].old = k
  BY <1>2, <1>3, <1>5 DEF FileHeld
<1> QED  BY <1>1, <1>4, <1>5 DEF FileHeld, Files!Current, Files!Batch
LEMMA FileInvUndo ==
  ASSUME FileInv, NEW w \in Workers, Files!Undo(w) PROVE FileInv'
<1>1. pc[w] = "deshace" /\ Files!End(w) /\ Files!Drop(job[w].new) /\ UNCHANGED << driver, row,
        latest, run, edits, runs >>
  BY DEF Files!Undo, Files!Undone, Files!db
<1>2. job[w].new \in Files!Keys \cup {Files!None}
  BY DEF FileInv, FileTypes, FileJob
<1>3. /\ object' \in [Files!Keys -> Files!Contents \cup {Files!Absent}]
      /\ drift \subseteq drift' /\ drift' \subseteq Files!Causes
      /\ \A k \in Files!Keys : object'[k] = object[k]
           \/ (object'[k] = Files!Absent /\ job[w].new = k)
      /\ drift' = {} => drift = {} /\
           (job[w].new = Files!None \/ object'[job[w].new] = Files!Absent)
  <2>1. /\ object \in [Files!Keys -> Files!Contents \cup {Files!Absent}]
        /\ drift \subseteq Files!Causes
    BY DEF FileInv, FileTypes
  <2> QED  BY <1>1, <1>2, <2>1 DEF Files!Drop, Files!Put, Files!Causes
<1>4. drift' = {} => \A k \in Files!Keys : object'[k] # Files!Absent => FileHeld(k)'
  BY <1>1, <1>3, FileEndHeld
<1> QED  BY <1>1, <1>3, <1>4, FileEnd DEF FileInv

LEMMA FileInvDropOld ==
  ASSUME FileInv, NEW w \in Workers, Files!DropOld(w) PROVE FileInv'
<1>1. pc[w] = "borra" /\ Files!End(w) /\ Files!Drop(job[w].old) /\ UNCHANGED << driver, row,
        latest, run, edits, runs >>
  BY DEF Files!DropOld, Files!db
<1>2. job[w].old \in Files!Keys \cup {Files!None}
  BY DEF FileInv, FileTypes, FileJob
<1>3. /\ object' \in [Files!Keys -> Files!Contents \cup {Files!Absent}]
      /\ drift \subseteq drift' /\ drift' \subseteq Files!Causes
      /\ \A k \in Files!Keys : object'[k] = object[k]
           \/ (object'[k] = Files!Absent /\ job[w].old = k)
      /\ drift' = {} => drift = {} /\
           (job[w].old = Files!None \/ object'[job[w].old] = Files!Absent)
  <2>1. /\ object \in [Files!Keys -> Files!Contents \cup {Files!Absent}]
        /\ drift \subseteq Files!Causes
    BY DEF FileInv, FileTypes
  <2> QED  BY <1>1, <1>2, <2>1 DEF Files!Drop, Files!Put, Files!Causes
<1>4. drift' = {} => \A k \in Files!Keys : object'[k] # Files!Absent => FileHeld(k)'
  BY <1>1, <1>3, FileEndHeld
<1> QED  BY <1>1, <1>3, <1>4, FileEnd DEF FileInv

LEMMA FileInvCrash ==
  ASSUME FileInv, NEW w \in Workers, Files!Crash(w) PROVE FileInv'
<1>1. Files!End(w) /\ UNCHANGED << driver, row, latest, object, run, edits, runs >>
  BY DEF Files!Crash, Files!db, Files!bucket
<1>2. /\ object \in [Files!Keys -> Files!Contents \cup {Files!Absent}]
      /\ drift \subseteq drift' /\ drift' \subseteq Files!Causes
  BY DEF FileInv, FileTypes, Files!Crash, Files!Causes
<1>3. drift' = {} => drift = {} /\ ~Files!Leftover(w)
  BY DEF Files!Crash
<1>4. drift' = {} => \A k \in Files!Keys : object'[k] # Files!Absent => FileHeld(k)'
  BY <1>1, <1>3, FileEndHeld DEF Files!Leftover
<1> QED  BY <1>1, <1>2, <1>4, FileEnd DEF FileInv

-----------------------------------------------------------------------------
(* Requests.                                                                *)

LEMMA FileInvRead ==
  ASSUME FileInv, NEW w \in Workers, NEW r \in Rows, NEW where \in {"guarda", "quita"},
         Files!Read(w, r, where), drift \subseteq drift', drift' \subseteq Files!Causes,
         drift' \cap {"regreso"} = {} /\ where = "guarda" /\ driver = "db" =>
           row[r].key = Files!None
  PROVE  FileInv'
<1>1. /\ pc[w] = "libre" /\ edits < MaxEdits /\ edits' = edits + 1
      /\ UNCHANGED << driver, row, latest, object, run, runs >>
  BY DEF Files!Read, Files!db, Files!bucket
<1>2. edits \in 0..MaxEdits /\ MaxEdits \in Nat
  BY FilesAssumption DEF FileInv, FileTypes
<1>3. edits' \in Nat /\ edits <= edits' /\ edits + 1 \in 1..MaxEdits /\ edits + 1 \in 1..edits'
      /\ edits' \in 0..MaxEdits /\ edits + 1 \notin 1..edits
  BY <1>1, <1>2
<1>4. /\ pc'[w] = where /\ job'[w].row = << r >> /\ job'[w].old = row[r].key
      /\ job'[w].new = Files!None /\ job'[w].content = edits + 1
      /\ \A v \in Workers \ {w} : pc'[v] = pc[v] /\ job'[v] = job[v]
      /\ Files!Row(w)' = r
  BY DEF Files!Read, Files!Goto, FileInv, FileTypes, Files!Row
<1>5. FileTypes'
  <2>1. job'[w] \in FileJob
    <3>1. row[r].key \in Files!Keys \cup {Files!None}
      BY DEF FileInv, FileTypes, FileRow
    <3>2. edits + 1 \in 0..MaxEdits
      BY <1>2, <1>3
    <3>3. [row |-> << r >>, old |-> row[r].key, new |-> Files!None,
            content |-> edits + 1] \in FileJob
      BY <3>1, <3>2 DEF FileJob, Files!Contents
    <3> QED  BY <3>3 DEF Files!Read, FileInv, FileTypes
  <2>2. job' \in [Workers -> FileJob]
    BY <2>1 DEF Files!Read, FileInv, FileTypes
  <2>3. pc' \in [Workers -> {"libre", "guarda", "escribe", "borra", "deshace", "quita"}]
    BY DEF Files!Read, Files!Goto, FileInv, FileTypes
  <2> QED  BY <1>1, <1>3, <2>2, <2>3 DEF FileInv, FileTypes
<1>6. \A q \in Rows : FileRowOK(q)'
  BY <1>1, <1>3, FileRowsKept
<1>7. ASSUME NEW v \in Workers PROVE FileJobOK(v)'
  <2>1. CASE v = w
    <3>1. row[r].key \in FileKeysOf(r)'
      BY <1>1, <1>2 DEF FileInv, FileRowOK, FileKeysOf
    <3> QED  BY <1>3, <1>4, <2>1, <3>1 DEF FileJobOK
  <2>2. CASE v # w
    BY <1>1, <1>3, <1>4, <2>2, FileJobKept
  <2> QED  BY <2>1, <2>2
<1>8. \A b \in Runs : FileRunOK(b)'
  BY <1>1, FileRunKept
<1>9. \A v \in Workers \ {w} :
        pc[v] # "libre" => /\ job[v].content \in 1..edits /\ Files!Row(v)' = Files!Row(v)
                           /\ job[v].old \in FileKeysOf(Files!Row(v))
  BY <1>4 DEF FileInv, FileJobOK, Files!Row
<1>10. /\ \A q \in Rows : row[q].key # Files!FreshKey(edits + 1)
       /\ \A v \in Workers \ {w} : pc[v] # "libre" => job[v].old # Files!FreshKey(edits + 1)
  BY <1>3, <1>9, FileKeyFacts DEF FileInv, FileRowOK, FileKeysOf
<1>11. FileOwners'
  <2>1. FileOwners
    BY DEF FileInv
  <2>2. \A u, v \in Workers :
          u # v /\ pc'[u] # "libre" /\ pc'[v] # "libre" => job'[u].content # job'[v].content
    BY <1>3, <1>4, <1>9, <2>1 DEF FileOwners
  <2>3. \A v \in Workers : FileToWrite(v)' =>
          /\ \A q \in Rows : row[q].key # Files!FreshKey(job'[v].content)
          /\ \A u \in Workers : pc'[u] # "libre" => job'[u].old # Files!FreshKey(job'[v].content)
    BY <1>4, <1>10, <2>1 DEF FileOwners, FileToWrite
  <2>4. \A v \in Workers, q \in Rows :
          pc'[v] # "libre" /\ q # Files!Row(v)' /\ row[q].key = job'[v].old =>
            job'[v].old = Files!None
    BY <1>4, <1>9, <2>1 DEF FileOwners
  <2>5. \A v \in Workers :
          pc'[v] = "borra" /\ job'[v].old # Files!BackfillKey(Files!Row(v)')
            /\ row[Files!Row(v)'].key = job'[v].old
          => job'[v].old = Files!None
    BY <1>4, <1>9, <2>1 DEF FileOwners
  <2> QED  BY <1>1, <2>1, <2>2, <2>3, <2>4, <2>5 DEF FileOwners
<1>12. ASSUME drift' \cap {"dos_corridas", "regreso"} = {} PROVE FileReads'
  <2>1. FileReads
    BY <1>12, FileReadsLess
  <2>2. \A q : Files!Load(q)' = Files!Load(q) /\ FileSettled(q)' = FileSettled(q)
    BY <1>1 DEF Files!Load, FileSettled
  <2>3. \A v \in Workers : FileJobReads(v)'
    BY <1>1, <1>4, <1>9, <1>12, <2>1, <2>2 DEF FileReads, FileJobReads
  <2>4. \A b \in Runs : FileRunReads(b)'
    BY <1>1, <2>1, <2>2 DEF FileReads, FileRunReads, Files!Batch, Files!Current
  <2> QED  BY <1>1, <2>1, <2>2, <2>3, <2>4 DEF FileReads, FileOneRun
<1>13. drift' = {} => \A k \in Files!Keys : object'[k] # Files!Absent => FileHeld(k)'
  <2>1. ASSUME drift' = {}, NEW k \in Files!Keys, object'[k] # Files!Absent PROVE FileHeld(k)'
    <3>1. FileHeld(k)
      BY <1>1, <2>1 DEF FileInv
    <3> QED  BY <1>1, <1>4, <3>1 DEF FileHeld, Files!Current, Files!Batch
  <2> QED  BY <2>1
<1> QED  BY <1>5, <1>6, <1>7, <1>8, <1>11, <1>12, <1>13 DEF FileInv

LEMMA FileInvSave ==
  ASSUME FileInv, NEW w \in Workers, Files!Save(w) PROVE FileInv'
<1> DEFINE key == Files!FreshKey(job[w].content)
<1>1. /\ pc[w] = "guarda"
      /\ UNCHANGED << driver, row, latest, run, edits, runs, drift >>
  BY DEF Files!Save, Files!db
<1>2. /\ pc'[w] = "escribe" /\ \A v \in Workers \ {w} : pc'[v] = pc[v] /\ job'[v] = job[v]
      /\ job'[w].row = job[w].row /\ job'[w].old = job[w].old /\ job'[w].content = job[w].content
      /\ job'[w].new = IF driver = "s3" THEN key ELSE Files!None
      /\ Files!Row(w)' = Files!Row(w)
  <2>1. job[w].new = Files!None /\ job[w] \in FileJob
    BY <1>1 DEF FileInv, FileTypes, FileJobOK
  <2> QED  BY <1>1, <2>1 DEF Files!Save, Files!Goto, FileInv, FileTypes, Files!Row, FileJob
<1>3. key \in Files!Keys /\ job[w].content \in Files!Contents /\ Files!Row(w) \in Rows
  BY <1>1, FileNewKey
<1>4. /\ object' \in [Files!Keys -> Files!Contents \cup {Files!Absent}]
      /\ \A k \in Files!Keys : k # key => object'[k] = object[k]
      /\ driver = "s3" => object'[key] = job[w].content
      /\ driver = "db" => object' = object
  BY <1>3 DEF Files!Save, Files!Put, FileInv, FileTypes
<1>5. FileTypes'
  <2>1. job' \in [Workers -> FileJob]
    BY <1>3 DEF Files!Save, FileInv, FileTypes, FileJob
  <2> QED  BY <1>1, <1>4, <2>1 DEF Files!Save, Files!Goto, FileInv, FileTypes
<1>6. \A r \in Rows : FileRowOK(r)'
  BY <1>1, FileRowsKept, FilesAssumption DEF FileInv, FileTypes
<1>7. ASSUME NEW v \in Workers PROVE FileJobOK(v)'
  <2>1. CASE v = w
    BY <1>1, <1>2, <2>1 DEF FileInv, FileJobOK, FileKeysOf
  <2>2. CASE v # w
    BY <1>1, <1>2, <2>2, FileJobKept, FilesAssumption DEF FileInv, FileTypes
  <2> QED  BY <2>1, <2>2
<1>8. \A b \in Runs : FileRunOK(b)'
  BY <1>1, FileRunKept
<1>9. FileOwners'
  <2>1. FileOwners
    BY DEF FileInv
  <2>2. ASSUME NEW v \in Workers
        PROVE  \/ pc'[v] = "libre"
               \/ /\ pc[v] # "libre" /\ job'[v].row = job[v].row
                  /\ job'[v].old = job[v].old /\ job'[v].content = job[v].content
                  /\ FileToWrite(v)' => FileToWrite(v)
                  /\ pc'[v] = "borra" => pc[v] = "borra"
    BY <1>1, <1>2 DEF FileToWrite
  <2> QED  BY <1>1, <2>1, <2>2, FileOwnersKept
<1>10. ASSUME drift' \cap {"dos_corridas", "regreso"} = {} PROVE FileReads'
  <2>1. FileReads
    BY <1>1, <1>10 DEF FileInv
  <2>2. \A q : FileSettled(q)' = FileSettled(q)
    BY <1>1 DEF FileSettled
  <2>3. ASSUME NEW r \in Rows, row[r].live PROVE Files!Load(r)' = latest'[r]
    <3>1. row[r].key # key
      BY <1>1 DEF FileInv, FileOwners, FileToWrite
    <3>2. row[r].key \in Files!Keys \cup {Files!None}
      BY DEF FileInv, FileTypes, FileRow
    <3> QED  BY <1>1, <1>4, <2>1, <2>3, <3>1, <3>2 DEF FileReads, Files!Load
  <2>4. ASSUME NEW v \in Workers PROVE FileJobReads(v)'
    <3>1. CASE v = w
      BY <1>1, <1>2, <1>4, <2>1, <2>2, <3>1 DEF FileReads, FileJobReads
    <3>2. CASE v # w
      <4>1. pc[v] = "escribe" =>
              object'[Files!FreshKey(job[v].content)] = object[Files!FreshKey(job[v].content)]
        BY <1>1, <1>4, <3>2, FileNewKey, FileKeyFacts DEF FileInv, FileOwners
      <4> QED  BY <1>1, <1>2, <2>1, <2>2, <3>2, <4>1 DEF FileReads, FileJobReads, Files!Row
    <3> QED  BY <3>1, <3>2
  <2>5. ASSUME NEW b \in Runs PROVE FileRunReads(b)'
    <3>1. Files!Batch(b)' = Files!Batch(b) /\ Files!Current(b)' = Files!Current(b)
      BY <1>1 DEF Files!Batch, Files!Current
    <3>2. run[b].at \in {"verifica", "apunta"} =>
            object'[Files!BackfillKey(Files!Current(b).row)] =
              object[Files!BackfillKey(Files!Current(b).row)]
      BY <1>4, FileKeyFacts, FileCurrent, FileIdle
    <3> QED  BY <1>1, <2>1, <2>2, <3>1, <3>2 DEF FileReads, FileRunReads
  <2> QED  BY <1>1, <2>1, <2>3, <2>4, <2>5 DEF FileReads, FileOneRun
<1>11. drift' = {} => \A k \in Files!Keys : object'[k] # Files!Absent => FileHeld(k)'
  <2>1. ASSUME drift' = {}, NEW k \in Files!Keys, object'[k] # Files!Absent PROVE FileHeld(k)'
    <3>1. CASE k = key /\ driver = "s3"
      BY <1>2, <3>1 DEF FileHeld
    <3>2. CASE ~(k = key /\ driver = "s3")
      <4>0. driver \in {"db", "s3"}
        BY DEF FileInv, FileTypes
      <4>1. FileHeld(k)
        BY <1>1, <1>4, <2>1, <3>2, <4>0 DEF FileInv
      <4> QED  BY <1>1, <1>2, <4>1 DEF FileHeld, Files!Current, Files!Batch
    <3> QED  BY <3>1, <3>2
  <2> QED  BY <2>1
<1> QED  BY <1>5, <1>6, <1>7, <1>8, <1>9, <1>10, <1>11 DEF FileInv

(* The row of a request gets another key, which is nobody else's.           *)
LEMMA FileInvWrite ==
  ASSUME FileInv, NEW w \in Workers, Files!Write(w), Files!Replaces(w) PROVE FileInv'
<1> DEFINE key == Files!FreshKey(job[w].content)
<1>1. /\ pc[w] = "escribe" /\ job' = job
      /\ UNCHANGED << driver, object, run, edits, runs >>
  BY DEF Files!Write, Files!bucket
<1>2. /\ key \in Files!Keys /\ job[w].content \in Files!Contents
      /\ job[w].content # Files!Absent /\ Files!Row(w) \in Rows
      /\ job[w].content \in 1..edits /\ job[w].old \in FileKeysOf(Files!Row(w))
  BY <1>1, FileNewKey
<1>3. job[w].new = IF driver = "s3" THEN key ELSE Files!None
  BY <1>1 DEF FileInv, FileJobOK
<1>4. /\ pc'[w] = "borra" /\ \A v \in Workers \ {w} : pc'[v] = pc[v]
      /\ \A v : Files!Row(v)' = Files!Row(v)
  BY <1>1 DEF Files!Write, Files!Goto, FileInv, FileTypes, Files!Row
<1>5. /\ row'[Files!Row(w)] = [live |-> TRUE, data |-> Files!DataColumn(w), key |-> job[w].new]
      /\ row'[Files!Row(w)].live = TRUE /\ row'[Files!Row(w)].data = Files!DataColumn(w)
      /\ row'[Files!Row(w)].key = job[w].new
      /\ latest'[Files!Row(w)] = job[w].content
      /\ \A r \in Rows \ {Files!Row(w)} : row'[r] = row[r] /\ latest'[r] = latest[r]
  BY <1>2 DEF Files!Write, FileInv, FileTypes
<1>6. /\ drift \subseteq drift' /\ drift' \subseteq Files!Causes
      /\ drift' = {} => row[Files!Row(w)].key = job[w].old
  BY DEF Files!Write, FileInv, FileTypes, Files!Causes
<1>7. driver \in {"db", "s3"} /\ edits \in 0..MaxEdits /\ edits \in Nat
  BY FilesAssumption DEF FileInv, FileTypes
<1>8. FileTypes'
  <2>1. /\ Files!DataColumn(w) \in Files!Contents \cup {Files!Absent}
        /\ job[w].new \in Files!Keys \cup {Files!None}
    BY <1>2, <1>3 DEF Files!DataColumn
  <2>2. [live |-> TRUE, data |-> Files!DataColumn(w), key |-> job[w].new] \in FileRow
    BY <2>1 DEF FileRow
  <2>3. row' \in [Rows -> FileRow] /\ latest' \in [Rows -> Files!Contents \cup {Files!Absent}]
    BY <1>2, <2>2 DEF Files!Write, FileInv, FileTypes
  <2>4. pc' \in [Workers -> {"libre", "guarda", "escribe", "borra", "deshace", "quita"}]
    BY DEF Files!Write, Files!Goto, FileInv, FileTypes
  <2> QED  BY <1>1, <1>6, <2>3, <2>4 DEF FileInv, FileTypes
<1>9. \A r : FileKeysOf(r)' = FileKeysOf(r)
  BY <1>1 DEF FileKeysOf
<1>10. ASSUME NEW r \in Rows PROVE FileRowOK(r)'
  <2>1. CASE r = Files!Row(w)
    <3>1. job[w].new \in FileKeysOf(r)
      BY <1>2, <1>3 DEF FileKeysOf
    <3> QED  BY <1>2, <1>3, <1>5, <1>9, <2>1, <3>1, FileKeyFacts DEF FileRowOK, Files!DataColumn
  <2>2. CASE r # Files!Row(w)
    BY <1>5, <1>9, <2>2 DEF FileInv, FileRowOK
  <2> QED  BY <2>1, <2>2
<1>11. ASSUME NEW v \in Workers PROVE FileJobOK(v)'
  <2>1. CASE v = w
    BY <1>1, <1>2, <1>4, <1>9, <2>1 DEF FileInv, FileJobOK
  <2>2. CASE v # w
    BY <1>1, <1>4, <1>7, <2>2, FileJobKept
  <2> QED  BY <2>1, <2>2
<1>12. \A b \in Runs : FileRunOK(b)'
  BY <1>1, FileRunKept
<1>13. FileOwners'
  <2>1. FileOwners
    BY DEF FileInv
  <2>2. /\ \A v \in Workers : pc[v] # "libre" => job[v].old # key
        /\ \A r \in Rows : row[r].key # key
        /\ \A v \in Workers \ {w} : pc[v] # "libre" => Files!FreshKey(job[v].content) # key
    BY <1>1, <2>1, FileKeyFacts DEF FileOwners, FileToWrite
  <2>3. \A v \in Workers : /\ pc'[v] # "libre" <=> pc[v] # "libre"
                           /\ FileToWrite(v)' => FileToWrite(v) /\ v # w
    BY <1>1, <1>4 DEF FileToWrite
  <2>4. \A u, v \in Workers :
          u # v /\ pc'[u] # "libre" /\ pc'[v] # "libre" => job[u].content # job[v].content
    BY <2>1, <2>3 DEF FileOwners
  <2>5. \A v \in Workers : FileToWrite(v)' =>
          /\ \A r \in Rows : row'[r].key # Files!FreshKey(job[v].content)
          /\ \A u \in Workers : pc'[u] # "libre" => job[u].old # Files!FreshKey(job[v].content)
    BY <1>3, <1>5, <2>1, <2>2, <2>3, FileKeyFacts DEF FileOwners, FileToWrite
  <2>6. \A r, q \in Rows : r # q /\ row'[r].key = row'[q].key => row'[r].key = Files!None
    BY <1>3, <1>5, <2>1, <2>2 DEF FileOwners
  <2>7. \A v \in Workers, r \in Rows :
          pc'[v] # "libre" /\ r # Files!Row(v) /\ row'[r].key = job[v].old =>
            job[v].old = Files!None
    BY <1>3, <1>5, <2>1, <2>2, <2>3 DEF FileOwners
  <2>8. ASSUME NEW v \in Workers, pc'[v] = "borra", job[v].old # Files!BackfillKey(Files!Row(v)),
               row'[Files!Row(v)].key = job[v].old
        PROVE  job[v].old = Files!None
    <3>1. Files!Row(v) \in Rows /\ pc[v] # "libre"
      BY <2>3, <2>8, FileNewKey
    <3>2. CASE Files!Row(v) = Files!Row(w)
      BY <1>3, <1>5, <2>2, <2>8, <3>1, <3>2
    <3>3. CASE Files!Row(v) # Files!Row(w)
      BY <1>4, <1>5, <2>1, <2>8, <3>1, <3>3 DEF FileOwners
    <3> QED  BY <3>2, <3>3
  <2> QED  BY <1>1, <1>4, <2>4, <2>5, <2>6, <2>7, <2>8 DEF FileOwners
<1>14. ASSUME drift' \cap {"dos_corridas", "regreso"} = {} PROVE FileReads'
  <2>1. FileReads
    BY <1>6, <1>14, FileReadsLess
  <2>2. driver = "s3" => object[key] = job[w].content
    BY <1>1, <2>1 DEF FileReads, FileJobReads
  <2>3. ASSUME NEW r \in Rows, row'[r].live PROVE Files!Load(r)' = latest'[r]
    <3>1. CASE r = Files!Row(w)
      BY <1>1, <1>3, <1>5, <2>2, <3>1, FileKeyFacts DEF Files!Load, Files!DataColumn
    <3>2. CASE r # Files!Row(w)
      BY <1>1, <1>5, <2>1, <2>3, <3>2 DEF FileReads, Files!Load
    <3> QED  BY <3>1, <3>2
  <2>4. ASSUME NEW r \in Rows, FileSettled(r) PROVE FileSettled(r)'
    <3>1. CASE r = Files!Row(w)
      BY <1>1, <1>3, <1>5, <2>4, <3>1, FileKeyFacts DEF FileSettled, Files!Replaces
    <3>2. CASE r # Files!Row(w)
      BY <1>1, <1>5, <2>4, <3>2 DEF FileSettled
    <3> QED  BY <3>1, <3>2
  <2>5. driver = "s3" => FileSettled(Files!Row(w))'
    BY <1>1, <1>2, <1>3, <1>4, <1>5, FileKeyFacts DEF FileSettled
  <2>6. ASSUME NEW v \in Workers PROVE FileJobReads(v)'
    <3>1. CASE v = w
      <4>1. driver = "db" => job[w].old = Files!None
        BY <1>1, <2>1 DEF FileReads, FileJobReads
      <4> QED  BY <1>1, <1>4, <1>7, <2>5, <3>1, <4>1, FileKeyFacts DEF FileJobReads
    <3>2. CASE v # w
      <4>1. pc[v] # "libre" => Files!Row(v) \in Rows
        BY FileNewKey
      <4> QED  BY <1>1, <1>4, <2>1, <2>4, <3>2, <4>1 DEF FileReads, FileJobReads
    <3> QED  BY <3>1, <3>2
  <2>7. ASSUME NEW b \in Runs PROVE FileRunReads(b)'
    <3>1. Files!Batch(b)' = Files!Batch(b) /\ Files!Current(b)' = Files!Current(b)
      BY <1>1 DEF Files!Batch, Files!Current
    <3>2. run[b].at \in {"verifica", "apunta"} => Files!Current(b).row \in Rows
      BY FileIdle, FileCurrent
    <3>3. ASSUME NEW k \in DOMAIN Files!Batch(b)
          PROVE  row'[Files!Batch(b)[k].row].key # Files!BackfillKey(Files!Batch(b)[k].row)
      <4>1. Files!Batch(b)[k].row \in Rows
        BY <3>3, FileBatchRow
      <4> QED  BY <1>3, <1>5, <2>1, <3>3, <4>1, FileKeyFacts DEF FileReads, FileRunReads
    <3> QED  BY <1>1, <2>1, <2>4, <3>1, <3>2, <3>3 DEF FileReads, FileRunReads
  <2>8. FileOneRun'
    BY <1>1, <2>1 DEF FileReads, FileOneRun
  <2> QED  BY <2>3, <2>6, <2>7, <2>8 DEF FileReads
<1>15. drift' = {} => \A k \in Files!Keys : object'[k] # Files!Absent => FileHeld(k)'
  <2>1. ASSUME drift' = {}, NEW k \in Files!Keys, object'[k] # Files!Absent PROVE FileHeld(k)'
    <3>1. FileHeld(k) /\ row[Files!Row(w)].key = job[w].old
      BY <1>1, <1>6, <2>1 DEF FileInv
    <3>2. CASE \E r \in Rows : row[r].key = k
      BY <1>1, <1>4, <1>5, <3>1, <3>2 DEF FileHeld
    <3>3. CASE \E v \in Workers : pc[v] \in {"escribe", "deshace"} /\ job[v].new = k
      BY <1>1, <1>2, <1>4, <1>5, <3>3 DEF FileHeld
    <3>4. CASE \E v \in Workers : pc[v] = "borra" /\ job[v].old = k
      BY <1>1, <1>4, <3>4 DEF FileHeld
    <3> QED  BY <1>1, <3>1, <3>2, <3>3, <3>4 DEF FileHeld, Files!Current, Files!Batch
  <2> QED  BY <2>1
<1> QED  BY <1>8, <1>10, <1>11, <1>12, <1>13, <1>14, <1>15 DEF FileInv

(* A file saved for a write that is not made is to be deleted.              *)
LEMMA FileInvFails ==
  ASSUME FileInv, NEW w \in Workers, Files!WriteFails(w)
         \/ (Files!Write(w) /\ ~Files!Replaces(w)) PROVE FileInv'
<1>1. /\ pc[w] = "escribe" /\ job' = job /\ Files!Goto(w, "deshace")
      /\ UNCHANGED << driver, row, latest, object, run, edits, runs, drift >>
  BY DEF Files!Write, Files!WriteFails, Files!bucket, Files!db
<1>2. /\ pc'[w] = "deshace" /\ (\A v \in Workers \ {w} : pc'[v] = pc[v])
      /\ \A v : Files!Row(v)' = Files!Row(v)
  BY <1>1 DEF Files!Goto, FileInv, FileTypes, Files!Row
<1>3. edits \in Nat
  BY FilesAssumption DEF FileInv, FileTypes
<1>4. FileTypes'
  BY <1>1 DEF Files!Goto, FileInv, FileTypes
<1>5. \A r \in Rows : FileRowOK(r)'
  BY <1>1, <1>3, FileRowsKept
<1>6. ASSUME NEW v \in Workers PROVE FileJobOK(v)'
  <2>1. CASE v = w
    BY <1>1, <1>2, <2>1 DEF FileInv, FileJobOK, FileKeysOf
  <2>2. CASE v # w
    BY <1>1, <1>2, <1>3, <2>2, FileJobKept
  <2> QED  BY <2>1, <2>2
<1>7. \A b \in Runs : FileRunOK(b)'
  BY <1>1, FileRunKept
<1>8. FileOwners'
  <2>1. FileOwners
    BY DEF FileInv
  <2>2. ASSUME NEW v \in Workers
        PROVE  \/ pc'[v] = "libre"
               \/ /\ pc[v] # "libre" /\ job'[v].row = job[v].row
                  /\ job'[v].old = job[v].old /\ job'[v].content = job[v].content
                  /\ FileToWrite(v)' => FileToWrite(v)
                  /\ pc'[v] = "borra" => pc[v] = "borra"
    BY <1>1, <1>2 DEF FileToWrite
  <2> QED  BY <1>1, <2>1, <2>2, FileOwnersKept
<1>9. ASSUME drift' \cap {"dos_corridas", "regreso"} = {} PROVE FileReads'
  <2>1. FileReads
    BY <1>1, <1>9 DEF FileInv
  <2>2. \A r : Files!Load(r)' = Files!Load(r) /\ FileSettled(r)' = FileSettled(r)
    BY <1>1 DEF Files!Load, FileSettled
  <2>3. \A v \in Workers : FileJobReads(v)'
    BY <1>1, <1>2, <2>1, <2>2 DEF FileReads, FileJobReads
  <2>4. \A b \in Runs : FileRunReads(b)'
    BY <1>1, <2>1, <2>2 DEF FileReads, FileRunReads, Files!Batch, Files!Current
  <2> QED  BY <1>1, <2>1, <2>2, <2>3, <2>4 DEF FileReads, FileOneRun
<1>10. drift' = {} => \A k \in Files!Keys : object'[k] # Files!Absent => FileHeld(k)'
  BY <1>1, <1>2 DEF FileInv, FileHeld, Files!Current, Files!Batch
<1> QED  BY <1>4, <1>5, <1>6, <1>7, <1>8, <1>9, <1>10 DEF FileInv

LEMMA FileInvGone ==
  ASSUME FileInv, NEW w \in Workers, Files!Remove(w), ~row[Files!Row(w)].live PROVE FileInv'
<1>1. /\ pc[w] = "quita" /\ Files!End(w)
      /\ UNCHANGED << driver, row, latest, object, run, edits, runs, drift >>
  BY DEF Files!Remove, Files!bucket
<1>2. object \in [Files!Keys -> Files!Contents \cup {Files!Absent}] /\ drift \subseteq Files!Causes
  BY DEF FileInv, FileTypes
<1>3. drift' = {} => \A k \in Files!Keys : object'[k] # Files!Absent => FileHeld(k)'
  BY <1>1, FileEndHeld
<1> QED  BY <1>1, <1>2, <1>3, FileEnd DEF FileInv

LEMMA FileInvRemove ==
  ASSUME FileInv, NEW w \in Workers, Files!Remove(w), row[Files!Row(w)].live PROVE FileInv'
<1>1. /\ pc[w] = "quita" /\ job' = job /\ latest' = latest
      /\ UNCHANGED << driver, object, run, edits, runs >>
  BY DEF Files!Remove, Files!bucket
<1>2. /\ Files!Row(w) \in Rows /\ job[w].old \in FileKeysOf(Files!Row(w))
      /\ latest[Files!Row(w)] # Files!Absent
  BY <1>1, FileNewKey DEF FileInv, FileRowOK
<1>4. /\ pc'[w] = "borra" /\ \A v \in Workers \ {w} : pc'[v] = pc[v]
      /\ \A v : Files!Row(v)' = Files!Row(v)
  BY <1>1 DEF Files!Remove, Files!Goto, FileInv, FileTypes, Files!Row
<1>5. /\ row'[Files!Row(w)] = [live |-> FALSE, data |-> Files!Absent, key |-> Files!None]
      /\ row'[Files!Row(w)].live = FALSE /\ row'[Files!Row(w)].key = Files!None
      /\ \A r \in Rows \ {Files!Row(w)} : row'[r] = row[r]
  BY <1>2 DEF Files!Remove, FileInv, FileTypes
<1>6. /\ drift \subseteq drift' /\ drift' \subseteq Files!Causes
      /\ drift' = {} => row[Files!Row(w)].key = job[w].old
  BY DEF Files!Remove, FileInv, FileTypes, Files!Causes
<1>7. edits \in Nat
  BY FilesAssumption DEF FileInv, FileTypes
<1>8. FileTypes'
  <2>2. [live |-> FALSE, data |-> Files!Absent, key |-> Files!None] \in FileRow
    BY DEF FileRow
  <2>3. row' \in [Rows -> FileRow]
    BY <1>2, <2>2 DEF Files!Remove, FileInv, FileTypes
  <2>4. pc' \in [Workers -> {"libre", "guarda", "escribe", "borra", "deshace", "quita"}]
    BY DEF Files!Remove, Files!Goto, FileInv, FileTypes
  <2> QED  BY <1>1, <1>6, <2>3, <2>4 DEF FileInv, FileTypes
<1>9. \A r : FileKeysOf(r)' = FileKeysOf(r)
  BY <1>1 DEF FileKeysOf
<1>10. \A r \in Rows : FileRowOK(r)'
  BY <1>1, <1>5, <1>9 DEF FileInv, FileRowOK, FileKeysOf
<1>11. ASSUME NEW v \in Workers PROVE FileJobOK(v)'
  <2>1. CASE v = w
    BY <1>1, <1>4, <1>9, <2>1 DEF FileInv, FileJobOK
  <2>2. CASE v # w
    BY <1>1, <1>4, <1>7, <2>2, FileJobKept
  <2> QED  BY <2>1, <2>2
<1>12. \A b \in Runs : FileRunOK(b)'
  BY <1>1, FileRunKept
<1>13. FileOwners'
  <2>1. FileOwners
    BY DEF FileInv
  <2>3. \A v \in Workers : /\ pc'[v] # "libre" <=> pc[v] # "libre"
                           /\ FileToWrite(v)' => FileToWrite(v)
                           /\ pc'[v] = "borra" => pc[v] = "borra" \/ v = w
    BY <1>1, <1>4 DEF FileToWrite
  <2>5. \A v \in Workers : FileToWrite(v)' =>
          /\ \A r \in Rows : row'[r].key # Files!FreshKey(job[v].content)
          /\ \A u \in Workers : pc'[u] # "libre" => job[u].old # Files!FreshKey(job[v].content)
    BY <1>5, <2>1, <2>3, FileKeyFacts DEF FileOwners
  <2>6. \A r, q \in Rows : r # q /\ row'[r].key = row'[q].key => row'[r].key = Files!None
    BY <1>5, <2>1 DEF FileOwners
  <2>7. \A v \in Workers, r \in Rows :
          pc'[v] # "libre" /\ r # Files!Row(v) /\ row'[r].key = job[v].old =>
            job[v].old = Files!None
    BY <1>5, <2>1, <2>3 DEF FileOwners
  <2>8. ASSUME NEW v \in Workers, pc'[v] = "borra", job[v].old # Files!BackfillKey(Files!Row(v)),
               row'[Files!Row(v)].key = job[v].old
        PROVE  job[v].old = Files!None
    <3>1. Files!Row(v) \in Rows /\ pc[v] # "libre"
      BY <2>3, <2>8, FileNewKey
    <3>2. CASE Files!Row(v) = Files!Row(w)
      BY <1>5, <2>8, <3>2
    <3>3. CASE Files!Row(v) # Files!Row(w)
      BY <1>4, <1>5, <2>1, <2>3, <2>8, <3>1, <3>3 DEF FileOwners
    <3> QED  BY <3>2, <3>3
  <2> QED  BY <1>1, <1>4, <2>1, <2>3, <2>5, <2>6, <2>7, <2>8 DEF FileOwners
<1>14. ASSUME drift' \cap {"dos_corridas", "regreso"} = {} PROVE FileReads'
  <2>1. FileReads
    BY <1>6, <1>14, FileReadsLess
  <2>3. ASSUME NEW r \in Rows, row'[r].live PROVE Files!Load(r)' = latest'[r]
    BY <1>1, <1>5, <2>1, <2>3 DEF FileReads, Files!Load
  <2>4. ASSUME NEW r \in Rows, FileSettled(r) \/ r = Files!Row(w) PROVE FileSettled(r)'
    BY <1>1, <1>2, <1>5, <2>4 DEF FileSettled
  <2>6. ASSUME NEW v \in Workers PROVE FileJobReads(v)'
    <3>1. pc[v] # "libre" => Files!Row(v) \in Rows
      BY FileNewKey
    <3> QED  BY <1>1, <1>2, <1>4, <2>1, <2>4, <3>1 DEF FileReads, FileJobReads
  <2>7. ASSUME NEW b \in Runs PROVE FileRunReads(b)'
    <3>1. Files!Batch(b)' = Files!Batch(b) /\ Files!Current(b)' = Files!Current(b)
      BY <1>1 DEF Files!Batch, Files!Current
    <3>2. run[b].at \in {"verifica", "apunta"} => Files!Current(b).row \in Rows
      BY FileIdle, FileCurrent
    <3>3. ASSUME NEW k \in DOMAIN Files!Batch(b)
          PROVE  row'[Files!Batch(b)[k].row].key # Files!BackfillKey(Files!Batch(b)[k].row)
      <4>1. Files!Batch(b)[k].row \in Rows
        BY <3>3, FileBatchRow
      <4> QED  BY <1>5, <2>1, <3>3, <4>1, FileKeyFacts DEF FileReads, FileRunReads
    <3> QED  BY <1>1, <2>1, <2>4, <3>1, <3>2, <3>3 DEF FileReads, FileRunReads
  <2>8. FileOneRun'
    BY <1>1, <2>1 DEF FileReads, FileOneRun
  <2> QED  BY <2>3, <2>6, <2>7, <2>8 DEF FileReads
<1>15. drift' = {} => \A k \in Files!Keys : object'[k] # Files!Absent => FileHeld(k)'
  <2>1. ASSUME drift' = {}, NEW k \in Files!Keys, object'[k] # Files!Absent PROVE FileHeld(k)'
    <3>1. FileHeld(k) /\ row[Files!Row(w)].key = job[w].old
      BY <1>1, <1>6, <2>1 DEF FileInv
    <3>2. CASE \E r \in Rows : row[r].key = k
      BY <1>1, <1>4, <1>5, <3>1, <3>2 DEF FileHeld
    <3>3. CASE \E v \in Workers : pc[v] \in {"escribe", "deshace"} /\ job[v].new = k
      BY <1>1, <1>4, <3>3 DEF FileHeld
    <3>4. CASE \E v \in Workers : pc[v] = "borra" /\ job[v].old = k
      BY <1>1, <1>4, <3>4 DEF FileHeld
    <3> QED  BY <1>1, <3>1, <3>2, <3>3, <3>4 DEF FileHeld, Files!Current, Files!Batch
  <2> QED  BY <2>1
<1> QED  BY <1>8, <1>10, <1>11, <1>12, <1>13, <1>14, <1>15 DEF FileInv

-----------------------------------------------------------------------------
(* Runs of the backfill.                                                    *)

(* What a run may be at.                                                    *)
FileRunFits(u) ==
  /\ u \in FileRun
  /\ u.at = "fuera" <=> u = Files!Idle
  /\ u # Files!Idle => Len(u.batch) >= 1
  /\ \A j, k \in DOMAIN u.batch : j # k => u.batch[j].row # u.batch[k].row

FileBusyRun == {"verifica", "apunta", "relee", "limpia"}

LEMMA FileRunFitting == ASSUME FileInv, NEW b \in Runs PROVE FileRunFits(run[b])
BY DEF FileInv, FileTypes, FileRunOK, FileRunFits, Files!Batch

(* The next row of the batch.                                               *)
LEMMA FileFollowing ==
  ASSUME FileInv, NEW b \in Runs, run[b] # Files!Idle
  PROVE  /\ FileRunFits(Files!Following(b)) /\ Files!Following(b).at \in {"fuera", "sube"}
         /\ \A k \in DOMAIN Files!Following(b).batch :
              /\ k + 1 \in DOMAIN Files!Batch(b)
              /\ Files!Following(b).batch[k] = Files!Batch(b)[k + 1]
              /\ Files!Following(b).batch[k].row \in Rows \ {Files!Current(b).row}
<1>1. Files!Batch(b) \in Seq(FileItem) /\ Len(Files!Batch(b)) >= 1 /\ 1 \in DOMAIN Files!Batch(b)
  BY FileCurrent
<1>2. CASE Len(Files!Batch(b)) = 1
  BY <1>2, FileIdle DEF Files!Following, FileRunFits
<1>3. CASE Len(Files!Batch(b)) # 1
  <2> DEFINE tail == Tail(Files!Batch(b))
  <2>1. Files!Following(b) = [at |-> "sube", batch |-> tail]
    BY <1>3 DEF Files!Following
  <2>2. /\ tail \in Seq(FileItem) /\ Len(tail) = Len(Files!Batch(b)) - 1
        /\ \A k \in 1..Len(tail) : tail[k] = Files!Batch(b)[k + 1]
    BY <1>1, HeadTailProperties
  <2>3. Len(Files!Batch(b)) \in Nat /\ DOMAIN Files!Batch(b) = 1..Len(Files!Batch(b))
        /\ DOMAIN tail = 1..Len(tail) /\ Len(tail) \in Nat
    BY <1>1, <2>2, LenProperties
  <2>4. \A k \in DOMAIN tail : k + 1 \in DOMAIN Files!Batch(b) /\ k + 1 # 1
          /\ tail[k] = Files!Batch(b)[k + 1]
                               /\ k \in Nat
    BY <2>2, <2>3
  <2>5. ASSUME NEW k \in DOMAIN tail PROVE tail[k].row \in Rows \ {Files!Current(b).row}
    <3>1. tail[k] \in FileItem
      BY <2>2, <2>3, ElementOfSeq
    <3>2. Files!Batch(b)[k + 1].row # Files!Batch(b)[1].row
      BY <1>1, <2>4 DEF FileInv, FileRunOK
    <3> QED  BY <2>4, <3>1, <3>2 DEF FileItem, Files!Current
  <2>6. ASSUME NEW j \in DOMAIN tail, NEW k \in DOMAIN tail, j # k PROVE tail[j].row # tail[k].row
    <3>1. j + 1 # k + 1 /\ j + 1 \in DOMAIN Files!Batch(b) /\ k + 1 \in DOMAIN Files!Batch(b)
      BY <2>4, <2>6
    <3>2. Files!Batch(b)[j + 1].row # Files!Batch(b)[k + 1].row
      BY <3>1 DEF FileInv, FileRunOK
    <3> QED  BY <2>4, <3>2
  <2>7. /\ Files!Following(b) \in FileRun /\ Files!Following(b).at = "sube"
        /\ Files!Following(b).batch = tail
    BY <2>1, <2>2 DEF FileRun
  <2>8. Files!Following(b) # Files!Idle /\ Len(tail) >= 1
    BY <1>1, <1>3, <2>2, <2>3, <2>7, FileIdle
  <2> HIDE DEF tail
  <2> QED  BY <2>4, <2>5, <2>6, <2>7, <2>8 DEF FileRunFits
<1> QED  BY <1>2, <1>3

(* The next step with the same row.                                         *)
LEMMA FileGoesOn ==
  ASSUME FileInv, NEW b \in Runs, run[b] # Files!Idle, NEW at \in FileBusyRun
  PROVE  \E u : u = [run[b] EXCEPT !.at = at] /\ FileRunFits(u) /\ u.at = at
           /\ u.batch = Files!Batch(b)
<1> DEFINE u == [run[b] EXCEPT !.at = at]
<1>1. run[b] \in FileRun
  BY DEF FileInv, FileTypes
<1>2. u \in FileRun /\ u.at = at /\ u.batch = Files!Batch(b)
  BY <1>1 DEF FileRun, FileBusyRun, Files!Batch
<1>3. u # Files!Idle
  BY <1>2, FileIdle DEF FileBusyRun
<1> HIDE DEF u
<1>4. FileRunFits(u)
  BY <1>2, <1>3 DEF FileInv, FileRunOK, FileRunFits, FileBusyRun
<1>5. u = [run[b] EXCEPT !.at = at]
  BY DEF u
<1> QED  BY <1>2, <1>4, <1>5

(* A step of a run that writes no row.                                      *)
LEMMA FileRunStep ==
  ASSUME FileInv, NEW b \in Runs, NEW u, Files!Set(b, u), FileRunFits(u),
         UNCHANGED << driver, row, latest, pc, job, edits >>, runs' \in 0..MaxRuns,
         object' \in [Files!Keys -> Files!Contents \cup {Files!Absent}],
           drift' \subseteq Files!Causes
  PROVE  /\ FileTypes' /\ (\A r \in Rows : FileRowOK(r)') /\ (\A v \in Workers : FileJobOK(v)')
         /\ \A c \in Runs : FileRunOK(c)'
         /\ FileOwners'
         /\ run'[b] = u /\ \A c \in Runs \ {b} : run'[c] = run[c]
<1>1. run'[b] = u /\ \A c \in Runs \ {b} : run'[c] = run[c]
  BY DEF Files!Set, FileInv, FileTypes
<1>2. FileTypes'
  BY DEF Files!Set, FileInv, FileTypes, FileRunFits
<1>3. edits \in Nat
  BY FilesAssumption DEF FileInv, FileTypes
<1>4. \A r \in Rows : FileRowOK(r)'
  BY <1>3, FileRowsKept
<1>5. \A v \in Workers : FileJobOK(v)'
  BY <1>3, FileJobKept
<1>6. ASSUME NEW c \in Runs PROVE FileRunOK(c)'
  <2>1. CASE c = b
    BY <1>1, <2>1 DEF FileRunOK, FileRunFits, Files!Batch
  <2>2. CASE c # b
    BY <1>1, <2>2, FileRunKept
  <2> QED  BY <2>1, <2>2
<1>7. FileOwners'
  BY DEF FileInv, FileOwners, FileToWrite, Files!Row
<1> QED  BY <1>1, <1>2, <1>4, <1>5, <1>6, <1>7

(* Only the object of the row it is at may change, and that row does not    *)
(* have it.                                                                 *)
LEMMA FileRunReading ==
  ASSUME FileInv, FileReads, NEW b \in Runs, run[b] # Files!Idle,
         \A c \in Runs \ {b} : run'[c] = run[c],
         UNCHANGED << driver, row, latest, pc, job >>,
         \A k \in Files!Keys : object'[k] = object[k]
           \/ k = Files!BackfillKey(Files!Current(b).row),
         FileRunReads(b)'
  PROVE  FileReads'
<1>1. row[Files!Current(b).row].key # Files!BackfillKey(Files!Current(b).row)
  BY FileCurrent DEF FileReads, FileRunReads, Files!Current
<1>2. ASSUME NEW r \in Rows, row[r].live PROVE Files!Load(r)' = latest'[r]
  <2>1. row[r].key \in Files!Keys \cup {Files!None} /\ row[r].key \in FileKeysOf(r)
    BY DEF FileInv, FileTypes, FileRow, FileRowOK
  <2>2. row[r].key # Files!BackfillKey(Files!Current(b).row)
    BY <1>1, <2>1, FileKeyFacts DEF FileKeysOf
  <2> QED  BY <1>2, <2>1, <2>2 DEF FileReads, Files!Load
<1>3. ASSUME NEW v \in Workers PROVE FileJobReads(v)'
  <2>1. pc[v] = "escribe" =>
          object'[Files!FreshKey(job[v].content)] = object[Files!FreshKey(job[v].content)]
    BY FileNewKey, FileKeyFacts
  <2>2. \A r : FileSettled(r)' = FileSettled(r)
    BY DEF FileSettled
  <2> QED  BY <2>1, <2>2 DEF FileReads, FileJobReads, Files!Row
<1>4. ASSUME NEW c \in Runs, c # b PROVE run'[c] = Files!Idle /\ FileRunReads(c)'
  BY <1>4, FileIdle DEF FileReads, FileOneRun, FileRunReads, Files!Batch
<1> QED  BY <1>2, <1>3, <1>4 DEF FileReads, FileOneRun

(* The rows of a batch are each there once: as many places as rows.         *)
LEMMA FileOrder ==
  ASSUME NEW todo, todo \subseteq Rows, todo # {},
         NEW seq \in [1..Cardinality(todo) -> todo], {seq[k] : k \in DOMAIN seq} = todo
  PROVE  /\ Cardinality(todo) \in Nat /\ Cardinality(todo) >= 1
         /\ \A j, k \in 1..Cardinality(todo) : j # k => seq[j] # seq[k]
<1>1. IsFiniteSet(todo)
  BY FS_Subset, FilesAssumption
<1>2. Cardinality(todo) \in Nat /\ Cardinality(todo) # 0
  BY <1>1, FS_CardinalityType, FS_EmptySet
<1> DEFINE n == Cardinality(todo)
<1> HIDE DEF n
<1>3. n \in Nat /\ n # 0
  BY <1>2 DEF n
<1>6. IsFiniteSet(1..n) /\ Cardinality(1..n) = n
  BY <1>3, FS_Interval
<1>4. seq \in Surjection(1..n, todo)
  BY DEF Surjection, n
<1>5. seq \in Injection(1..n, todo)
  BY <1>6, <1>4, FS_SurjSameCardinalityImpliesInj DEF n
<1> QED  BY <1>2, <1>5 DEF Injection, IsInjective, n

LEMMA FileInvRunRead ==
  ASSUME FileInv, NEW b \in Runs, Files!RunRead(b) PROVE FileInv'
<1> DEFINE todo == {r \in Rows : row[r].live /\ row[r].key = Files!None
             /\ row[r].data # Files!Absent}
<1>1. /\ run[b] = Files!Idle /\ runs < MaxRuns /\ todo # {} /\ runs' = runs + 1
      /\ UNCHANGED << driver, row, latest, object, pc, job, edits >>
      /\ drift' = drift \cup
           (IF \E c \in Runs \ {b} : run[c] # Files!Idle THEN {"dos_corridas"} ELSE {})
  BY DEF Files!RunRead, Files!db, Files!bucket
<1>1a. Files!Cardinality(todo) = Cardinality(todo)
  BY RecordCardinality, Zenon
<1>1b. PICK seq \in [1..Files!Cardinality(todo) -> todo] :
        /\ {seq[k] : k \in DOMAIN seq} = todo
        /\ Files!Set(b, [at |-> "sube", batch |-> [k \in DOMAIN seq |->
                                              [row |-> seq[k], data |-> row[seq[k]].data]]])
  BY DEF Files!RunRead
<1>2. /\ seq \in [1..Cardinality(todo) -> todo]
      /\ {seq[k] : k \in DOMAIN seq} = todo
      /\ Files!Set(b, [at |-> "sube", batch |-> [k \in DOMAIN seq |->
                                            [row |-> seq[k], data |-> row[seq[k]].data]]])
  BY <1>1a, <1>1b, Zenon
<1>3. PICK batch : batch = [k \in DOMAIN seq |-> [row |-> seq[k], data |-> row[seq[k]].data]]
  OBVIOUS
<1>4. /\ Cardinality(todo) \in Nat /\ Cardinality(todo) >= 1
      /\ \A j, k \in 1..Cardinality(todo) : j # k => seq[j] # seq[k]
  BY <1>1, <1>2, FileOrder
<1>5. PICK n \in Nat : n = Cardinality(todo)
  BY <1>4
<1>6. /\ seq \in [1..n -> todo] /\ DOMAIN seq = 1..n /\ n >= 1
      /\ \A j, k \in 1..n : j # k => seq[j] # seq[k]
  BY <1>2, <1>4, <1>5
<1>7. \A k \in 1..n : /\ batch[k] \in FileItem /\ batch[k].row = seq[k] /\ seq[k] \in Rows
                      /\ row[seq[k]].key = Files!None
  <2>1. ASSUME NEW k \in 1..n PROVE row[seq[k]].data \in Files!Contents /\ seq[k] \in todo
    BY <1>5, <1>6 DEF FileInv, FileTypes, FileRow
  <2> QED  BY <1>3, <1>6, <2>1 DEF FileItem
<1>8. batch \in Seq(FileItem) /\ Len(batch) = n /\ DOMAIN batch = 1..n
  <2>1. batch = [k \in 1..n |-> [row |-> seq[k], data |-> row[seq[k]].data]]
    BY <1>3, <1>6
  <2>2. batch \in [1..n -> FileItem]
    BY <1>7, <2>1
  <2> QED  BY <2>1, <2>2, SeqDef, LenProperties
<1>9. PICK u : u = [at |-> "sube", batch |-> batch]
  OBVIOUS
<1>10. u \in FileRun /\ u.at = "sube" /\ u.batch = batch /\ u # Files!Idle
  BY <1>8, <1>9, FileIdle DEF FileRun
<1>11. FileRunFits(u)
  BY <1>6, <1>7, <1>8, <1>10 DEF FileRunFits
<1>12. runs' \in 0..MaxRuns
  BY <1>1, FilesAssumption DEF FileInv, FileTypes
<1>13. /\ object' \in [Files!Keys -> Files!Contents \cup {Files!Absent}]
       /\ drift \subseteq drift' /\ drift' \subseteq Files!Causes
  BY <1>1 DEF FileInv, FileTypes, Files!Causes
<1>14. /\ FileTypes' /\ (\A r \in Rows : FileRowOK(r)') /\ (\A v \in Workers : FileJobOK(v)')
       /\ \A c \in Runs : FileRunOK(c)'
       /\ FileOwners'
       /\ run'[b] = u /\ \A c \in Runs \ {b} : run'[c] = run[c]
  <2>1. Files!Set(b, u)
    BY <1>2, <1>3, <1>9
  <2> QED  BY <1>1, <1>11, <1>12, <1>13, <2>1, FileRunStep
<1>15. ASSUME drift' \cap {"dos_corridas", "regreso"} = {} PROVE FileReads'
  <2>1. FileReads
    BY <1>13, <1>15, FileReadsLess
  <2>2. \A c \in Runs \ {b} : run'[c] = Files!Idle
    BY <1>1, <1>14, <1>15
  <2>3. FileRunReads(b)'
    BY <1>1, <1>7, <1>8, <1>10, <1>14, FileKeyFacts DEF FileRunReads, Files!Batch
  <2>4. \A c \in Runs \ {b} : FileRunReads(c)'
    BY <2>2, FileIdle DEF FileRunReads, Files!Batch
  <2>5. \A r : Files!Load(r)' = Files!Load(r) /\ FileSettled(r)' = FileSettled(r)
    BY <1>1 DEF Files!Load, FileSettled
  <2>6. \A v \in Workers : FileJobReads(v)'
    BY <1>1, <2>1, <2>5 DEF FileReads, FileJobReads, Files!Row
  <2> QED  BY <1>1, <2>1, <2>2, <2>3, <2>4, <2>5, <2>6 DEF FileReads, FileOneRun
<1>16. drift' = {} => \A k \in Files!Keys : object'[k] # Files!Absent => FileHeld(k)'
  <2>1. ASSUME drift' = {}, NEW k \in Files!Keys, object'[k] # Files!Absent PROVE FileHeld(k)'
    <3>1. FileHeld(k)
      BY <1>1, <1>13, <2>1 DEF FileInv
    <3>2. ASSUME NEW c \in Runs, run[c].at \in FileBusyRun,
                 Files!BackfillKey(Files!Current(c).row) = k
          PROVE  run'[c].at \in FileBusyRun /\ Files!BackfillKey(Files!Current(c).row)' = k
      BY <1>1, <1>14, <3>2, FileIdle DEF FileBusyRun, Files!Current, Files!Batch
    <3> QED  BY <1>1, <3>1, <3>2 DEF FileHeld, FileBusyRun
  <2> QED  BY <2>1
<1> QED  BY <1>14, <1>15, <1>16 DEF FileInv

(* What is held stays so, but for the object of a run that is done with it. *)
LEMMA FileRunHeld ==
  ASSUME FileInv, NEW b \in Runs, run[b] # Files!Idle, drift = {}, UNCHANGED << pc, job >>,
         \A c \in Runs \ {b} : run'[c] = run[c],
         \A r \in Rows : row'[r].key = row[r].key \/ row[r].key = Files!None,
         \A k \in Files!Keys : object'[k] # Files!Absent => object[k] # Files!Absent
           \/ k = Files!BackfillKey(Files!Current(b).row),
         object'[Files!BackfillKey(Files!Current(b).row)] # Files!Absent =>
           \/ \E r \in Rows : row'[r].key = Files!BackfillKey(Files!Current(b).row)
           \/ run'[b].at \in FileBusyRun /\ run'[b].batch = Files!Batch(b)
           \/ run[b].at \notin FileBusyRun
                /\ object[Files!BackfillKey(Files!Current(b).row)] # Files!Absent
  PROVE  \A k \in Files!Keys : object'[k] # Files!Absent => FileHeld(k)'
<1> SUFFICES ASSUME NEW k \in Files!Keys, object'[k] # Files!Absent PROVE FileHeld(k)'
  OBVIOUS
<1>0. k # Files!None
  BY FileKeyTypes
<1>1. \A c \in Runs \ {b} : Files!Current(c)' = Files!Current(c)
  BY DEF Files!Current, Files!Batch
<1>2. run'[b].batch = Files!Batch(b) => Files!Current(b)' = Files!Current(b)
  BY DEF Files!Current, Files!Batch
<1>3. ASSUME k # Files!BackfillKey(Files!Current(b).row)
             \/ (run[b].at \notin FileBusyRun /\ object[k] # Files!Absent)
      PROVE  FileHeld(k)'
  <2>1. FileHeld(k)
    BY <1>3 DEF FileInv
  <2>2. CASE \E r \in Rows : row[r].key = k
    BY <1>0, <2>2 DEF FileHeld
  <2>3. CASE \E c \in Runs : run[c].at \in FileBusyRun
               /\ Files!BackfillKey(Files!Current(c).row) = k
    BY <1>1, <1>3, <2>3 DEF FileHeld, FileBusyRun
  <2> QED  BY <2>1, <2>2, <2>3 DEF FileHeld, FileBusyRun
<1>4. CASE k = Files!BackfillKey(Files!Current(b).row)
  BY <1>2, <1>3, <1>4 DEF FileHeld, FileBusyRun
<1> QED  BY <1>3, <1>4

LEMMA FileInvRunPut ==
  ASSUME FileInv, NEW b \in Runs, Files!RunPut(b) PROVE FileInv'
<1>1. /\ run[b].at = "sube" /\ run[b] # Files!Idle
      /\ UNCHANGED << driver, row, latest, pc, job, edits, runs, drift >>
  BY FileIdle DEF Files!RunPut, Files!db
<1>2. /\ Files!BackfillKey(Files!Current(b).row) \in Files!Keys
      /\ Files!Current(b).data \in Files!Contents
      /\ Files!Current(b).row \in Rows /\ 1 \in DOMAIN Files!Batch(b)
  BY <1>1, FileCurrent
<1>3. \E u : /\ Files!Set(b, u) /\ FileRunFits(u)
             /\ object' \in [Files!Keys -> Files!Contents \cup {Files!Absent}]
             /\ \/ /\ u.at = "verifica" /\ u.batch = Files!Batch(b)
                   /\ object'[Files!BackfillKey(Files!Current(b).row)] = Files!Current(b).data
                   /\ \A k \in Files!Keys : object'[k] = object[k]
                        \/ k = Files!BackfillKey(Files!Current(b).row)
                \/ u = Files!Following(b) /\ object' = object
  <2>1. CASE Files!Put(Files!BackfillKey(Files!Current(b).row), Files!Current(b).data)
               /\ Files!Set(b, [run[b] EXCEPT !.at = "verifica"])
    <3>1. /\ object' \in [Files!Keys -> Files!Contents \cup {Files!Absent}]
          /\ object'[Files!BackfillKey(Files!Current(b).row)] = Files!Current(b).data
          /\ \A k \in Files!Keys : object'[k] = object[k] \/
               k = Files!BackfillKey(Files!Current(b).row)
      BY <1>2, <2>1 DEF Files!Put, FileInv, FileTypes
    <3>2. "verifica" \in FileBusyRun
      BY DEF FileBusyRun
    <3>3. PICK u : /\ u = [run[b] EXCEPT !.at = "verifica"] /\ FileRunFits(u)
                   /\ u.at = "verifica" /\ u.batch = Files!Batch(b)
      BY <1>1, <3>2, FileGoesOn
    <3> QED  BY <2>1, <3>1, <3>3
  <2>2. CASE UNCHANGED object /\ Files!Set(b, Files!Following(b))
    BY <1>1, <2>2, FileFollowing DEF FileInv, FileTypes
  <2> QED  BY <2>1, <2>2 DEF Files!RunPut
<1>4. PICK u : /\ Files!Set(b, u) /\ FileRunFits(u)
               /\ object' \in [Files!Keys -> Files!Contents \cup {Files!Absent}]
               /\ \/ /\ u.at = "verifica" /\ u.batch = Files!Batch(b)
                     /\ object'[Files!BackfillKey(Files!Current(b).row)] = Files!Current(b).data
                     /\ \A k \in Files!Keys : object'[k] = object[k]
                          \/ k = Files!BackfillKey(Files!Current(b).row)
                  \/ u = Files!Following(b) /\ object' = object
  BY <1>3
<1>5. /\ FileTypes' /\ (\A r \in Rows : FileRowOK(r)') /\ (\A v \in Workers : FileJobOK(v)')
      /\ \A c \in Runs : FileRunOK(c)'
      /\ FileOwners'
      /\ run'[b] = u /\ \A c \in Runs \ {b} : run'[c] = run[c]
  BY <1>1, <1>4, FileRunStep DEF FileInv, FileTypes
<1>6. \A k \in Files!Keys : object'[k] = object[k] \/ k = Files!BackfillKey(Files!Current(b).row)
  BY <1>4
<1>7. ASSUME drift' \cap {"dos_corridas", "regreso"} = {} PROVE FileReads'
  <2>1. FileReads
    BY <1>1, <1>7 DEF FileInv
  <2>2. FileRunReads(b)'
    <3>1. CASE u = Files!Following(b)
      BY <1>1, <1>5, <2>1, <3>1, FileFollowing DEF FileReads, FileRunReads, Files!Batch
    <3>2. CASE u # Files!Following(b)
      <4>1. /\ Files!Batch(b)' = Files!Batch(b) /\ Files!Current(b)' = Files!Current(b)
            /\ run'[b].at = "verifica"
        BY <1>4, <1>5, <3>2 DEF Files!Batch, Files!Current
      <4>2. object'[Files!BackfillKey(Files!Current(b).row)] = Files!Current(b).data
        BY <1>4, <3>2
      <4> QED  BY <1>1, <2>1, <4>1, <4>2 DEF FileReads, FileRunReads
    <3> QED  BY <3>1, <3>2
  <2> QED  BY <1>1, <1>5, <1>6, <2>1, <2>2, FileRunReading
<1>8. drift' = {} => \A k \in Files!Keys : object'[k] # Files!Absent => FileHeld(k)'
  <2>1. run[b].at \notin FileBusyRun
    BY <1>1 DEF FileBusyRun
  <2>2. \/ object' = object
        \/ run'[b].at \in FileBusyRun /\ run'[b].batch = Files!Batch(b)
    BY <1>4, <1>5 DEF FileBusyRun
  <2> QED  BY <1>1, <1>5, <1>6, <2>1, <2>2, FileRunHeld
<1> QED  BY <1>5, <1>7, <1>8 DEF FileInv

LEMMA FileInvRunHead ==
  ASSUME FileInv, NEW b \in Runs, Files!RunHead(b) PROVE FileInv'
<1>1. /\ run[b].at = "verifica" /\ run[b] # Files!Idle
      /\ UNCHANGED << driver, row, latest, object, pc, job, edits, runs, drift >>
  BY FileIdle DEF Files!RunHead, Files!db, Files!bucket
<1>2. PICK u : /\ Files!Set(b, u) /\ FileRunFits(u)
               /\ \/ u.at = "apunta" /\ u.batch = Files!Batch(b)
                  \/ u = Files!Following(b)
                       /\ object[Files!BackfillKey(Files!Current(b).row)] = Files!Absent
  <2>1. CASE object[Files!BackfillKey(Files!Current(b).row)] # Files!Absent
    <3>1. PICK u : /\ u = [run[b] EXCEPT !.at = "apunta"] /\ FileRunFits(u)
                   /\ u.at = "apunta" /\ u.batch = Files!Batch(b)
      BY <1>1, FileGoesOn DEF FileBusyRun
    <3> QED  BY <2>1, <3>1 DEF Files!RunHead
  <2>2. CASE object[Files!BackfillKey(Files!Current(b).row)] = Files!Absent
    BY <1>1, <2>2, FileFollowing DEF Files!RunHead
  <2> QED  BY <2>1, <2>2
<1>3. /\ object' \in [Files!Keys -> Files!Contents \cup {Files!Absent}] /\ runs' \in 0..MaxRuns
      /\ drift' \subseteq Files!Causes
  BY <1>1 DEF FileInv, FileTypes
<1>4. /\ FileTypes' /\ (\A r \in Rows : FileRowOK(r)') /\ (\A v \in Workers : FileJobOK(v)')
      /\ \A c \in Runs : FileRunOK(c)'
      /\ FileOwners'
      /\ run'[b] = u /\ \A c \in Runs \ {b} : run'[c] = run[c]
  BY <1>1, <1>2, <1>3, FileRunStep
<1>5. ASSUME drift' \cap {"dos_corridas", "regreso"} = {} PROVE FileReads'
  <2>1. FileReads
    BY <1>1, <1>5 DEF FileInv
  <2>2. FileRunReads(b)'
    <3>1. CASE u = Files!Following(b)
      BY <1>1, <1>4, <2>1, <3>1, FileFollowing DEF FileReads, FileRunReads, Files!Batch
    <3>2. CASE u # Files!Following(b)
      <4>1. /\ Files!Batch(b)' = Files!Batch(b) /\ Files!Current(b)' = Files!Current(b)
            /\ run'[b].at = "apunta"
        BY <1>2, <1>4, <3>2 DEF Files!Batch, Files!Current
      <4>2. FileSettled(Files!Current(b).row)' = FileSettled(Files!Current(b).row)
        BY <1>1, <4>1 DEF FileSettled
      <4> QED  BY <1>1, <2>1, <4>1, <4>2 DEF FileReads, FileRunReads
    <3> QED  BY <3>1, <3>2
  <2> QED  BY <1>1, <1>4, <2>1, <2>2, FileRunReading
<1>6. drift' = {} => \A k \in Files!Keys : object'[k] # Files!Absent => FileHeld(k)'
  <2>1. \/ object'[Files!BackfillKey(Files!Current(b).row)] = Files!Absent
        \/ run'[b].at \in FileBusyRun /\ run'[b].batch = Files!Batch(b)
    BY <1>1, <1>2, <1>4 DEF FileBusyRun
  <2> QED  BY <1>1, <1>4, <2>1, FileRunHeld
<1> QED  BY <1>4, <1>5, <1>6 DEF FileInv

LEMMA FileInvRunReread ==
  ASSUME FileInv, NEW b \in Runs, Files!RunReread(b) PROVE FileInv'
<1>1. /\ run[b].at = "relee" /\ run[b] # Files!Idle
      /\ UNCHANGED << driver, row, latest, object, pc, job, edits, runs, drift >>
  BY FileIdle DEF Files!RunReread, Files!db, Files!bucket
<1>2. PICK u : /\ Files!Set(b, u) /\ FileRunFits(u)
               /\ \/ u.at = "limpia" /\ u.batch = Files!Batch(b)
                  \/ u = Files!Following(b)
                       /\ row[Files!Current(b).row].key = Files!BackfillKey(Files!Current(b).row)
  <2>1. CASE row[Files!Current(b).row].key # Files!BackfillKey(Files!Current(b).row)
    <3>1. PICK u : /\ u = [run[b] EXCEPT !.at = "limpia"] /\ FileRunFits(u)
                   /\ u.at = "limpia" /\ u.batch = Files!Batch(b)
      BY <1>1, FileGoesOn DEF FileBusyRun
    <3> QED  BY <2>1, <3>1 DEF Files!RunReread
  <2>2. CASE row[Files!Current(b).row].key = Files!BackfillKey(Files!Current(b).row)
    BY <1>1, <2>2, FileFollowing DEF Files!RunReread
  <2> QED  BY <2>1, <2>2
<1>3. /\ object' \in [Files!Keys -> Files!Contents \cup {Files!Absent}] /\ runs' \in 0..MaxRuns
      /\ drift' \subseteq Files!Causes
  BY <1>1 DEF FileInv, FileTypes
<1>4. /\ FileTypes' /\ (\A r \in Rows : FileRowOK(r)') /\ (\A v \in Workers : FileJobOK(v)')
      /\ \A c \in Runs : FileRunOK(c)'
      /\ FileOwners'
      /\ run'[b] = u /\ \A c \in Runs \ {b} : run'[c] = run[c]
  BY <1>1, <1>2, <1>3, FileRunStep
<1>5. ASSUME drift' \cap {"dos_corridas", "regreso"} = {} PROVE FileReads'
  <2>1. FileReads
    BY <1>1, <1>5 DEF FileInv
  <2>2. FileRunReads(b)'
    <3>1. CASE u = Files!Following(b)
      BY <1>1, <1>4, <2>1, <3>1, FileFollowing DEF FileReads, FileRunReads, Files!Batch
    <3>2. CASE u # Files!Following(b)
      BY <1>1, <1>2, <1>4, <2>1, <3>2 DEF FileReads, FileRunReads, Files!Batch
    <3> QED  BY <3>1, <3>2
  <2> QED  BY <1>1, <1>4, <2>1, <2>2, FileRunReading
<1>6. drift' = {} => \A k \in Files!Keys : object'[k] # Files!Absent => FileHeld(k)'
  <2>1. \/ \E r \in Rows : row'[r].key = Files!BackfillKey(Files!Current(b).row)
        \/ run'[b].at \in FileBusyRun /\ run'[b].batch = Files!Batch(b)
    BY <1>1, <1>2, <1>4, FileCurrent DEF FileBusyRun
  <2> QED  BY <1>1, <1>4, <2>1, FileRunHeld
<1> QED  BY <1>4, <1>5, <1>6 DEF FileInv

LEMMA FileInvRunClean ==
  ASSUME FileInv, NEW b \in Runs, Files!RunClean(b) PROVE FileInv'
<1>1. /\ run[b].at = "limpia" /\ run[b] # Files!Idle
      /\ UNCHANGED << driver, row, latest, pc, job, edits, runs >>
  BY FileIdle DEF Files!RunClean, Files!db
<1>2. /\ Files!BackfillKey(Files!Current(b).row) \in Files!Keys
      /\ Files!BackfillKey(Files!Current(b).row) # Files!None
  BY <1>1, FileCurrent, FileKeyFacts
<1>3. PICK u : Files!Set(b, u) /\ FileRunFits(u) /\ u = Files!Following(b)
  BY <1>1, FileFollowing DEF Files!RunClean
<1>4. /\ object' \in [Files!Keys -> Files!Contents \cup {Files!Absent}]
      /\ drift \subseteq drift' /\ drift' \subseteq Files!Causes
      /\ \A k \in Files!Keys : object'[k] = object[k] \/ k = Files!BackfillKey(Files!Current(b).row)
      /\ drift' = {} => drift = {}
           /\ object'[Files!BackfillKey(Files!Current(b).row)] = Files!Absent
  <2>1. /\ object \in [Files!Keys -> Files!Contents \cup {Files!Absent}]
        /\ drift \subseteq Files!Causes
    BY DEF FileInv, FileTypes
  <2> QED  BY <1>2, <2>1 DEF Files!RunClean, Files!Drop, Files!Put, Files!Causes
<1>5. /\ FileTypes' /\ (\A r \in Rows : FileRowOK(r)') /\ (\A v \in Workers : FileJobOK(v)')
      /\ \A c \in Runs : FileRunOK(c)'
      /\ FileOwners'
      /\ run'[b] = u /\ \A c \in Runs \ {b} : run'[c] = run[c]
  <2>1. runs' \in 0..MaxRuns
    BY <1>1 DEF FileInv, FileTypes
  <2> QED  BY <1>1, <1>3, <1>4, <2>1, FileRunStep
<1>6. ASSUME drift' \cap {"dos_corridas", "regreso"} = {} PROVE FileReads'
  <2>1. FileReads
    BY <1>4, <1>6, FileReadsLess
  <2>2. FileRunReads(b)'
    BY <1>1, <1>3, <1>5, <2>1, FileFollowing DEF FileReads, FileRunReads, Files!Batch
  <2> QED  BY <1>1, <1>4, <1>5, <2>1, <2>2, FileRunReading
<1>7. drift' = {} => \A k \in Files!Keys : object'[k] # Files!Absent => FileHeld(k)'
  BY <1>1, <1>4, <1>5, FileRunHeld
<1> QED  BY <1>5, <1>6, <1>7 DEF FileInv

LEMMA FileInvRunCrash ==
  ASSUME FileInv, NEW b \in Runs, Files!RunCrash(b) PROVE FileInv'
<1>1. /\ run[b] # Files!Idle /\ Files!Set(b, Files!Idle)
      /\ UNCHANGED << driver, row, latest, object, pc, job, edits, runs >>
  BY DEF Files!RunCrash, Files!db, Files!bucket
<1>2. /\ object' \in [Files!Keys -> Files!Contents \cup {Files!Absent}] /\ runs' \in 0..MaxRuns
      /\ drift \subseteq drift' /\ drift' \subseteq Files!Causes
      /\ drift' = {} => drift = {} /\ run[b].at = "sube"
  BY <1>1 DEF Files!RunCrash, FileInv, FileTypes, Files!Causes
<1>3. FileRunFits(Files!Idle)
  BY FileIdle DEF FileRunFits
<1>4. PICK u : u = Files!Idle
  OBVIOUS
<1>5. /\ FileTypes' /\ (\A r \in Rows : FileRowOK(r)') /\ (\A v \in Workers : FileJobOK(v)')
      /\ \A c \in Runs : FileRunOK(c)'
      /\ FileOwners'
      /\ run'[b] = u /\ \A c \in Runs \ {b} : run'[c] = run[c]
  BY <1>1, <1>2, <1>3, <1>4, FileRunStep
<1>6. ASSUME drift' \cap {"dos_corridas", "regreso"} = {} PROVE FileReads'
  <2>1. FileReads
    BY <1>2, <1>6, FileReadsLess
  <2>2. FileRunReads(b)'
    BY <1>4, <1>5, FileIdle DEF FileRunReads, Files!Batch
  <2> QED  BY <1>1, <1>5, <2>1, <2>2, FileRunReading
<1>7. drift' = {} => \A k \in Files!Keys : object'[k] # Files!Absent => FileHeld(k)'
  <2>1. drift' = {} => run[b].at \notin FileBusyRun
    BY <1>2 DEF FileBusyRun
  <2> QED  BY <1>1, <1>2, <1>5, <2>1, FileRunHeld
<1> QED  BY <1>5, <1>6, <1>7 DEF FileInv

LEMMA FileInvRunUpdate ==
  ASSUME FileInv, NEW b \in Runs, Files!RunUpdate(b) PROVE FileInv'
<1> DEFINE r == Files!Current(b).row
           key == Files!BackfillKey(r)
<1>1. /\ run[b].at = "apunta" /\ run[b] # Files!Idle
      /\ UNCHANGED << driver, latest, object, pc, job, edits, runs, drift >>
  BY FileIdle DEF Files!RunUpdate, Files!bucket
<1>2. key \in Files!Keys /\ r \in Rows
  BY <1>1, FileCurrent
<1>3. CASE ~Files!Unchanged(b)
  <2>1. PICK u : /\ u = [run[b] EXCEPT !.at = "relee"] /\ FileRunFits(u)
                 /\ u.at = "relee" /\ u.batch = Files!Batch(b)
    BY <1>1, FileGoesOn DEF FileBusyRun
  <2>2. Files!Set(b, u) /\ row' = row
    BY <1>3, <2>1 DEF Files!RunUpdate
  <2>3. /\ object' \in [Files!Keys -> Files!Contents \cup {Files!Absent}]
        /\ runs' \in 0..MaxRuns /\ drift' \subseteq Files!Causes
    BY <1>1 DEF FileInv, FileTypes
  <2>4. /\ FileTypes' /\ (\A q \in Rows : FileRowOK(q)') /\ (\A v \in Workers : FileJobOK(v)')
        /\ \A c \in Runs : FileRunOK(c)'
        /\ FileOwners'
        /\ run'[b] = u /\ \A c \in Runs \ {b} : run'[c] = run[c]
    BY <1>1, <2>1, <2>2, <2>3, FileRunStep
  <2>5. ASSUME drift' \cap {"dos_corridas", "regreso"} = {} PROVE FileReads'
    <3>1. FileReads
      BY <1>1, <2>5 DEF FileInv
    <3>2. FileRunReads(b)'
      BY <1>1, <2>1, <2>2, <2>4, <3>1 DEF FileReads, FileRunReads, Files!Batch
    <3> QED  BY <1>1, <2>2, <2>4, <3>1, <3>2, FileRunReading
  <2>6. drift' = {} => \A k \in Files!Keys : object'[k] # Files!Absent => FileHeld(k)'
    <3>1. run'[b].at \in FileBusyRun /\ run'[b].batch = Files!Batch(b)
      BY <2>1, <2>4 DEF FileBusyRun
    <3> QED  BY <1>1, <2>2, <2>4, <3>1, FileRunHeld
  <2> QED  BY <2>4, <2>5, <2>6 DEF FileInv
<1>4. CASE Files!Unchanged(b)
  <2>1. PICK u : Files!Set(b, u) /\ FileRunFits(u) /\ u = Files!Following(b)
    BY <1>1, <1>4, FileFollowing DEF Files!RunUpdate
  <2>2. row[r].live /\ row[r].key = Files!None /\ row[r].data = Files!Current(b).data
    BY <1>4 DEF Files!Unchanged
  <2>3. /\ row'[r] = [live |-> TRUE, data |-> Files!Absent, key |-> key]
        /\ row'[r].live = TRUE /\ row'[r].data = Files!Absent /\ row'[r].key = key
        /\ \A q \in Rows \ {r} : row'[q] = row[q]
    BY <1>2, <1>4 DEF Files!RunUpdate, FileInv, FileTypes
  <2>4. run'[b] = u /\ \A c \in Runs \ {b} : run'[c] = run[c]
    BY <2>1 DEF Files!Set, FileInv, FileTypes
  <2>5. key # Files!None /\ \A n : key # Files!FreshKey(n)
    BY FileKeyFacts
  <2>6. FileTypes'
    <3>1. [live |-> TRUE, data |-> Files!Absent, key |-> key] \in FileRow
      BY <1>2 DEF FileRow
    <3>2. row' \in [Rows -> FileRow]
      BY <1>2, <1>4, <3>1 DEF Files!RunUpdate, FileInv, FileTypes
    <3>3. run' \in [Runs -> FileRun]
      BY <2>1 DEF Files!Set, FileInv, FileTypes, FileRunFits
    <3> QED  BY <1>1, <3>2, <3>3 DEF FileInv, FileTypes
  <2>7. \A q \in Rows : FileRowOK(q)'
    BY <1>1, <2>2, <2>3, <2>5 DEF FileInv, FileRowOK, FileKeysOf
  <2>8. \A v \in Workers : FileJobOK(v)'
    BY <1>1, FileJobKept, FilesAssumption DEF FileInv, FileTypes
  <2>9. ASSUME NEW c \in Runs PROVE FileRunOK(c)'
    <3>1. CASE c = b
      BY <2>1, <2>4, <3>1 DEF FileRunOK, FileRunFits, Files!Batch
    <3>2. CASE c # b
      BY <2>4, <3>2, FileRunKept
    <3> QED  BY <3>1, <3>2
  <2>10. FileOwners'
    <3>1. FileOwners
      BY DEF FileInv
    <3>2. \A q \in Rows \ {r} : row[q].key # key
      BY FileKeyFacts DEF FileInv, FileRowOK, FileKeysOf
    <3>3. \A v \in Workers : /\ Files!Row(v)' = Files!Row(v) /\ pc'[v] = pc[v] /\ job'[v] = job[v]
                             /\ FileToWrite(v)' = FileToWrite(v)
      BY <1>1 DEF Files!Row, FileToWrite
    <3>4. \A v \in Workers : pc[v] # "libre" /\ job[v].old = key => r = Files!Row(v)
      BY FileNewKey, FileKeyFacts DEF FileKeysOf
    <3>5. \A v \in Workers : FileToWrite(v) =>
            /\ \A q \in Rows : row'[q].key # Files!FreshKey(job[v].content)
            /\ \A w \in Workers : pc[w] # "libre" => job[w].old # Files!FreshKey(job[v].content)
      BY <2>3, <2>5, <3>1 DEF FileOwners
    <3>6. \A q, p \in Rows : q # p /\ row'[q].key = row'[p].key => row'[q].key = Files!None
      BY <2>3, <3>1, <3>2 DEF FileOwners
    <3>7. \A v \in Workers, q \in Rows :
            pc[v] # "libre" /\ q # Files!Row(v) /\ row'[q].key = job[v].old =>
              job[v].old = Files!None
      BY <2>3, <3>1, <3>4 DEF FileOwners
    <3>8. \A v \in Workers :
            pc[v] = "borra" /\ job[v].old # Files!BackfillKey(Files!Row(v))
              /\ row'[Files!Row(v)].key = job[v].old
            => job[v].old = Files!None
      BY <2>3, <3>1, <3>4, FileNewKey DEF FileOwners
    <3> QED  BY <1>1, <3>1, <3>3, <3>5, <3>6, <3>7, <3>8 DEF FileOwners
  <2>11. ASSUME drift' \cap {"dos_corridas", "regreso"} = {} PROVE FileReads'
    <3>1. FileReads
      BY <1>1, <2>11 DEF FileInv
    <3>2. object[key] = row[r].data /\ Files!Load(r) = row[r].data /\ Files!Load(r) = latest[r]
      BY <1>1, <1>2, <2>2, <3>1 DEF FileReads, FileRunReads, FileSettled, Files!Load
    <3>3. ASSUME NEW q \in Rows, row'[q].live PROVE Files!Load(q)' = latest'[q]
      <4>1. CASE q = r
        BY <1>1, <2>3, <2>5, <3>2, <4>1 DEF Files!Load
      <4>2. CASE q # r
        BY <1>1, <2>3, <3>1, <3>3, <4>2 DEF FileReads, Files!Load
      <4> QED  BY <4>1, <4>2
    <3>4. \A q \in Rows : FileSettled(q) => FileSettled(q)'
      BY <1>1, <2>2, <2>3 DEF FileSettled
    <3>5. ASSUME NEW v \in Workers PROVE FileJobReads(v)'
      <4>1. pc[v] # "libre" => Files!Row(v) \in Rows
        BY FileNewKey
      <4> QED  BY <1>1, <3>1, <3>4, <4>1 DEF FileReads, FileJobReads, Files!Row
    <3>6. FileRunReads(b)'
      BY <2>1, <2>3, <2>4, <3>1, <1>1, FileFollowing DEF FileReads, FileRunReads, Files!Batch
    <3>7. \A c \in Runs \ {b} : run'[c] = Files!Idle /\ FileRunReads(c)'
      BY <1>1, <2>4, <3>1, FileIdle DEF FileReads, FileOneRun, FileRunReads, Files!Batch
    <3> QED  BY <3>3, <3>5, <3>6, <3>7 DEF FileReads, FileOneRun
  <2>12. drift' = {} => \A k \in Files!Keys : object'[k] # Files!Absent => FileHeld(k)'
    BY <1>1, <1>2, <2>2, <2>3, <2>4, FileRunHeld
  <2> QED  BY <2>6, <2>7, <2>8, <2>9, <2>10, <2>11, <2>12 DEF FileInv
<1> QED  BY <1>3, <1>4

-----------------------------------------------------------------------------
LEMMA FileInvStep == ASSUME FileInv, Files!Next PROVE FileInv'
<1>1. ASSUME NEW w \in Workers, NEW r \in Rows, Files!ReadToWrite(w, r) PROVE FileInv'
  <2>1. /\ Files!Read(w, r, "guarda") /\ drift \subseteq drift' /\ drift' \subseteq Files!Causes
        /\ drift' \cap {"regreso"} = {} /\ driver = "db" => row[r].key = Files!None
    BY <1>1 DEF Files!ReadToWrite, FileInv, FileTypes, Files!Causes
  <2> QED  BY <2>1, FileInvRead
<1>2. ASSUME NEW w \in Workers, NEW r \in Rows, Files!ReadToRemove(w, r) PROVE FileInv'
  <2>1. Files!Read(w, r, "quita") /\ drift' = drift /\ drift' \subseteq Files!Causes
    BY <1>2 DEF Files!ReadToRemove, FileInv, FileTypes
  <2> QED  BY <2>1, FileInvRead
<1>3. ASSUME NEW w \in Workers, Files!Save(w) PROVE FileInv'
  BY <1>3, FileInvSave
<1>4. ASSUME NEW w \in Workers, Files!Write(w) PROVE FileInv'
  BY <1>4, FileInvWrite, FileInvFails
<1>5. ASSUME NEW w \in Workers, Files!WriteFails(w) PROVE FileInv'
  BY <1>5, FileInvFails
<1>6. ASSUME NEW w \in Workers, Files!Undo(w) PROVE FileInv'
  BY <1>6, FileInvUndo
<1>7. ASSUME NEW w \in Workers, Files!Remove(w) PROVE FileInv'
  BY <1>7, FileInvRemove, FileInvGone
<1>8. ASSUME NEW w \in Workers, Files!DropOld(w) PROVE FileInv'
  BY <1>8, FileInvDropOld
<1>9. ASSUME NEW w \in Workers, Files!Crash(w) PROVE FileInv'
  BY <1>9, FileInvCrash
<1>10. ASSUME NEW b \in Runs, Files!RunRead(b) PROVE FileInv'
  BY <1>10, FileInvRunRead
<1>11. ASSUME NEW b \in Runs, Files!RunPut(b) PROVE FileInv'
  BY <1>11, FileInvRunPut
<1>12. ASSUME NEW b \in Runs, Files!RunHead(b) PROVE FileInv'
  BY <1>12, FileInvRunHead
<1>13. ASSUME NEW b \in Runs, Files!RunUpdate(b) PROVE FileInv'
  BY <1>13, FileInvRunUpdate
<1>14. ASSUME NEW b \in Runs, Files!RunReread(b) PROVE FileInv'
  BY <1>14, FileInvRunReread
<1>15. ASSUME NEW b \in Runs, Files!RunClean(b) PROVE FileInv'
  BY <1>15, FileInvRunClean
<1>16. ASSUME NEW b \in Runs, Files!RunCrash(b) PROVE FileInv'
  BY <1>16, FileInvRunCrash
<1> QED  BY <1>1, <1>2, <1>3, <1>4, <1>5, <1>6, <1>7, <1>8, <1>9, <1>10, <1>11, <1>12, <1>13,
          <1>14, <1>15, <1>16 DEF Files!Next

LEMMA FileInvKept == ASSUME FileInv, UNCHANGED Files!vars PROVE FileInv'
<1>1. UNCHANGED << driver, row, latest, object, pc, job, run, edits, runs, drift >>
  BY DEF Files!vars, Files!db, Files!bucket
<1> QED  BY <1>1 DEF FileInv, FileTypes, FileRowOK, FileKeysOf, FileJobOK, FileRunOK, FileOwners,
             FileToWrite, FileReads, FileSettled, FileJobReads, FileRunReads, FileOneRun, FileHeld,
             Files!Row, Files!Batch, Files!Current, Files!Load

-----------------------------------------------------------------------------
(* Boards.                                                                  *)

BoardOrder == [status : Boards!Statuses \cup {"ninguno"},
  area : Areas \cup {Boards!None, Boards!Design},
               design : BOOLEAN, started : BOOLEAN, who : Boards!Holders \cup {Boards!None},
                 branch : BOOLEAN,
               rounds : 0..MaxRounds, sender : {Boards!None, Boards!Person, Boards!Shared,
                 Boards!Manager}]
BoardTask == [status : {"ninguno", "pendiente", "en_proceso", "terminado"},
  who : {Boards!None, Boards!Person}]
BoardCauses == {"a_mano", "fuera", "adelantada", "ajena", "se_fue"}

BoardTypes ==
  /\ order \in BoardOrder
  /\ tasks \in [Areas -> BoardTask]
  /\ member \subseteq Areas \cup {Boards!Design} /\ token \subseteq Areas \cup {Boards!Design}
  /\ handEdits \in 0..MaxHandEdits /\ moves \in 0..MaxMoves
  /\ orderDrift \subseteq BoardCauses

(* An order whose status is one of design is in design.                     *)
BoardDesign ==
  orderDrift \cap {"a_mano", "fuera", "adelantada"} = {}
  /\ order.status \in Boards!DesignStatuses \cup {"esperando"} => order.design
       /\ order.area = Boards!Design

(* Whoever has an order that is in design is of design.                     *)
BoardOwner ==
  orderDrift \cap {"ajena", "se_fue", "a_mano"} = {} /\ order.area = Boards!Design =>
    order.who # Boards!Manager /\ (order.who = Boards!Person => Boards!Design \in member)

(* Whoever has a task is of its area, and a session has no area its person  *)
(* has left.                                                                *)
BoardHolders ==
  orderDrift \cap {"se_fue", "a_mano"} = {} =>
    /\ token \subseteq member
    /\ \A a \in Areas : tasks[a].who = Boards!Person => a \in member

(* An order that is in design has no status of after it.                    *)
BoardWay ==
  orderDrift = {} /\ order.area = Boards!Design =>
    order.status \in Boards!DesignStatuses \cup {"esperando"} \cup Boards!Closed

BoardInv == BoardTypes /\ BoardDesign /\ BoardOwner /\ BoardHolders /\ BoardWay

LEMMA BoardNames ==
  /\ \A a \in Areas : a # Boards!None /\ a # Boards!Design
  /\ Boards!None # Boards!Design /\ Boards!None # Boards!Person
  /\ Boards!None # Boards!Manager /\ Boards!None # Boards!Shared /\ Boards!Person # Boards!Manager
  /\ Boards!None # Boards!Branch /\ Boards!Person # Boards!Shared
       /\ Boards!Person # Boards!Branch /\ Boards!Shared # Boards!Manager /\
       Boards!Shared # Boards!Branch
  /\ Boards!Manager # Boards!Branch
BY BoardsAssumption DEF Boards!None, Boards!Design, Boards!Person, Boards!Manager,
   Boards!Shared, Boards!Branch

LEMMA BoardTokens ==
  /\ Boards!Token(Boards!Person) = token /\ Boards!Token(Boards!Shared) = Areas \cup {Boards!Design}
  /\ Boards!Token(Boards!Manager) = {} /\ Boards!Token(Boards!Branch) = {}
  /\ Boards!Member(Boards!Person) = member /\
       Boards!Member(Boards!Shared) = Areas \cup {Boards!Design} /\
       Boards!Member(Boards!Manager) = {}
  /\ Boards!Member(Boards!Branch) = {}
BY BoardNames DEF Boards!Token, Boards!Member

LEMMA BoardStatuses ==
  Boards!Statuses = {"en_diseno", "cambios", "entregado", "cancelado", "pendiente", "esperando",
              "autorizado", "terminado"}
BY DEF Boards!Statuses, Boards!DesignStatuses, Boards!Closed

LEMMA BoardDrift ==
  ASSUME BoardTypes, NEW cause \in BoardCauses
  PROVE  /\ Boards!Drifted(cause) \subseteq BoardCauses /\ Boards!Drifted(cause) # {}
         /\ \A X : "a_mano" \in X /\ Boards!Drifted(cause) \cap X = {} =>
              orderDrift \cap X = {} /\ cause \notin X
<1>1. CASE cause = "a_mano" \/ "a_mano" \in orderDrift
  BY <1>1 DEF Boards!Drifted, BoardCauses
<1>2. CASE ~(cause = "a_mano" \/ "a_mano" \in orderDrift)
  BY <1>2 DEF Boards!Drifted, BoardTypes
<1> QED  BY <1>1, <1>2

-----------------------------------------------------------------------------
(* What the boards show of such an order.                                   *)

LEMMA BoardType == BoardInv => Boards!TypeOK
BY BoardStatuses DEF BoardInv, BoardTypes, Boards!TypeOK, BoardOrder, BoardTask, BoardCauses

LEMMA BoardLists == BoardInv => Boards!ListsFollowAccess
<1> SUFFICES ASSUME BoardInv PROVE Boards!ListsFollowAccess
  OBVIOUS
<1>1. token \subseteq Areas \cup {Boards!Design} /\ order.area \in Areas \cup {Boards!None,
        Boards!Design}
  BY DEF BoardInv, BoardTypes, BoardOrder
<1>2. ASSUME NEW s \in Boards!Sessions
      PROVE  /\ Boards!House(s) <=> Boards!Full(s) \/ Boards!Token(s) # {}
             /\ Boards!BranchOnly(s) => ~Boards!House(s)
             /\ Boards!None \notin Boards!Token(s)
             /\ (Boards!House(s) \/ Boards!BranchOnly(s)) =>
                  (Boards!Listed(s) <=> Boards!Accessible(s))
  BY <1>1, BoardNames, BoardTokens DEF Boards!Sessions, Boards!House, Boards!Full,
     Boards!BranchOnly, Boards!Listed, Boards!Accessible, Boards!ByArea
<1>3. ASSUME NEW s \in Boards!Sessions
      PROVE  /\ {Boards!InList(s), Boards!Record(s), Boards!Rounds(s),
                 Boards!Mockups(s)} \subseteq {Boards!InList(s)}
             /\ Boards!RoundFiles(s) = (Boards!InList(s) /\ order.rounds > 0)
    BY <1>2 DEF Boards!InList, Boards!Record, Boards!Rounds, Boards!Mockups, Boards!RoundFiles
<1>4. ASSUME NEW s \in Boards!Sessions
      PROVE  Boards!Tasks(s) = {a \in Areas : Boards!InList(s) /\ tasks[a] # Boards!NoTask}
    BY <1>2 DEF Boards!InList, Boards!Tasks
<1>5. ASSUME NEW s \in Boards!Sessions, Boards!House(s)
      PROVE  {Boards!InList(s), Boards!InHistory(s), Boards!OfClient(s), Boards!Notes(s),
               Boards!Materials(s), Boards!Attached(s)}
                      \subseteq {Boards!InList(s)}
    BY <1>2, <1>5 DEF Boards!InList, Boards!InHistory, Boards!OfClient, Boards!Notes,
       Boards!Materials, Boards!Attached
<1>6. ASSUME NEW s \in Boards!Sessions, Boards!Full(s)
      PROVE  Boards!Exported(s) = Boards!AuditLog(s) /\ Boards!Exported(s) = Boards!InHistory(s)
    BY <1>2, <1>6 DEF Boards!Exported, Boards!AuditLog, Boards!InHistory
<1>7. ASSUME NEW s \in Boards!Sessions, ~Boards!House(s)
      PROVE  ~Boards!InHistory(s) /\ ~Boards!Notes(s) /\ Boards!SheetAreas(s) = {}
    BY <1>7 DEF Boards!InHistory, Boards!Notes, Boards!SheetAreas
<1>8. ASSUME NEW s \in Boards!Sessions, Boards!BranchOnly(s) PROVE Boards!Told(s) = Boards!Record(s)
    BY <1>2, <1>8 DEF Boards!Told, Boards!Record, Boards!Accessible
<1>9. ASSUME NEW s \in Boards!Sessions PROVE Boards!SheetAreas(s) =
             {a \in Areas : Boards!Works(s, a) /\ Boards!Record(s)}
    BY <1>2 DEF Boards!SheetAreas, Boards!Works, Boards!Record, Boards!Accessible
<1> QED  BY <1>3, <1>4, <1>5, <1>6, <1>7, <1>8, <1>9 DEF Boards!ListsFollowAccess

LEMMA BoardPhases ==
  ASSUME BoardInv
  PROVE  /\ Boards!Phase \in {"design_new", "design_working", "changes"} <=>
             order.status \in Boards!DesignStatuses
         /\ Boards!Phase = "waiting_client" <=> order.status = "esperando"
         /\ Boards!Phase = "ready" <=> order.status = "terminado"
         /\ Boards!Phase = "production" <=>
              order.status \notin Boards!DesignStatuses \cup {"esperando", "terminado"}
BY DEF Boards!Phase, Boards!DesignStatuses

LEMMA BoardInDesign == BoardInv => Boards!DesignHasIt
<1> SUFFICES ASSUME BoardInv, Boards!Active, orderDrift \cap {"a_mano", "fuera", "adelantada"} = {}
             PROVE  /\ Boards!Phase \in {"design_new", "design_working", "changes"} <=>
                        Boards!DesignTeam
                    /\ Boards!Phase = "waiting_client" <=> Boards!DesignWaiting
  BY DEF Boards!DesignHasIt
<1> QED  BY BoardPhases DEF BoardInv, BoardDesign, Boards!DesignTeam, Boards!DesignWaiting,
            Boards!InDesignList

LEMMA BoardSeen == BoardInv => Boards!SomebodySeesIt
<1> SUFFICES ASSUME BoardInv, token = member, orderDrift \cap {"ajena", "se_fue", "a_mano"} = {}
             PROVE  /\ Boards!DesignTeam => \E s \in Boards!Sessions : Boards!MyDesign(s)
                    /\ \A a \in Areas : Boards!Active /\ Boards!OutOfDesign /\ Boards!Open(a) =>
                         \E s \in Boards!Sessions : a \in Boards!MyTasks(s)
                    /\ Boards!Active /\ Boards!Phase = "production" /\ orderDrift = {} =>
                         order.area # Boards!Design
  BY DEF Boards!SomebodySeesIt
<1>1. ASSUME Boards!DesignTeam PROVE \E s \in Boards!Sessions : Boards!MyDesign(s)
  <2>1. /\ order.who \in {Boards!None, Boards!Person, Boards!Manager}
        /\ order.who # Boards!Manager /\ (order.who = Boards!Person => Boards!Design \in member)
    BY <1>1 DEF BoardInv, BoardTypes, BoardOrder, Boards!Holders, BoardOwner,
       Boards!DesignTeam, Boards!InDesignList
  <2>2. CASE order.who = Boards!None
    BY <1>1, <2>2, BoardTokens DEF Boards!MyDesign, Boards!DesignTeam, Boards!VisibleTo,
       Boards!Free, Boards!Sessions
  <2>3. CASE order.who = Boards!Person
    BY <1>1, <2>1, <2>3, BoardTokens DEF Boards!MyDesign, Boards!DesignTeam, Boards!VisibleTo,
       Boards!Sessions
  <2> QED  BY <2>1, <2>2, <2>3
<1>2. ASSUME NEW a \in Areas, Boards!Active, Boards!OutOfDesign,
             Boards!Open(a) PROVE \E s \in Boards!Sessions : a \in Boards!MyTasks(s)
  <2>1. tasks[a].who \in {Boards!None, Boards!Person}
    BY DEF BoardInv, BoardTypes, BoardTask
  <2>2. CASE tasks[a].who = Boards!None
    BY <1>2, <2>2, BoardTokens DEF Boards!MyTasks, Boards!VisibleTo, Boards!Free, Boards!Sessions
  <2>3. CASE tasks[a].who = Boards!Person
    BY <1>2, <2>3, BoardTokens DEF BoardInv, BoardHolders, Boards!MyTasks, Boards!VisibleTo,
       Boards!Sessions
  <2> QED  BY <2>1, <2>2, <2>3
<1>3. ASSUME Boards!Active, Boards!Phase = "production",
             orderDrift = {} PROVE order.area # Boards!Design
  BY <1>3, BoardPhases DEF BoardInv, BoardWay, Boards!Active
<1> QED  BY <1>1, <1>2, <1>3

LEMMA BoardPanels == BoardInv => Boards!PanelsAgree
<1> SUFFICES ASSUME BoardInv PROVE Boards!PanelsAgree
  OBVIOUS
<1>1. ASSUME NEW s \in Boards!Sessions,
             Boards!Token(s) # {} PROVE Boards!PanelAreas(s) = Areas \cap Boards!Token(s)
  BY <1>1, BoardTokens, BoardNames DEF Boards!PanelAreas, Boards!Full
<1>2. ASSUME NEW s \in Boards!Sessions, Boards!Token(s) # {},
             order.area # Boards!None PROVE Boards!PanelItems(s) = Boards!MyTasks(s)
  BY <1>1, <1>2 DEF Boards!PanelItems, Boards!PanelTasks, Boards!Upcoming, Boards!MyTasks,
     Boards!OutOfDesign
<1>3. ASSUME NEW s \in Boards!Sessions PROVE Boards!MyTasks(s) \subseteq Boards!AreaTasks(s)
  BY DEF Boards!MyTasks, Boards!AreaTasks
<1>4. ASSUME NEW s \in Boards!Sessions, Boards!Token(s) # {}, order.area # Boards!None,
             NEW a \in Boards!AreaTasks(s) \ Boards!MyTasks(s), tasks[a].status = "en_proceso"
      PROVE  a \in Boards!Team(s)
  <2>1. ~Boards!Full(s)
    BY <1>4, BoardTokens DEF Boards!Full
  <2> QED  BY <1>1, <1>4, <2>1 DEF Boards!AreaTasks, Boards!MyTasks, Boards!Team,
              Boards!PanelTasks, Boards!Upcoming, Boards!OutOfDesign, Boards!VisibleTo, Boards!Free
<1>5. ASSUME NEW s \in Boards!Sessions,
             Boards!Design \in Boards!Token(s) PROVE Boards!DesignItems(s) <=> Boards!MyDesign(s)
  BY <1>5 DEF Boards!DesignItems, Boards!DesignTeam, Boards!MyDesign
<1>6. ASSUME NEW a \in Areas
      PROVE  /\ (Boards!Active /\ Boards!Open(a)) <=>
                 (Boards!Load(a).pending \/ Boards!Load(a).inProgress \/ Boards!Load(a).upcoming)
             /\ order.area # Boards!None =>
                  /\ Boards!CoordLoad(a).pendiente = Boards!Load(a).pending
                  /\ Boards!CoordLoad(a).enProceso = Boards!Load(a).inProgress
                  /\ Boards!Load(a).people => Boards!CoordLoad(a).people
  BY DEF Boards!Load, Boards!CoordLoad, Boards!Open, Boards!OutOfDesign
<1> QED  BY <1>2, <1>3, <1>4, <1>5, <1>6 DEF Boards!PanelsAgree

LEMMA BoardDays ==
  ASSUME NEW now \in {2, 3}, NEW due \in 0..7
  PROVE  /\ Boards!Day(due) < Boards!Day(now) => due < now
         /\ due < now => Boards!Day(due) < Boards!Day(now) \/ Boards!Day(due) = Boards!Day(now)
BY DEF Boards!Day

LEMMA BoardLate == BoardInv => Boards!LateIsTold
<1> SUFFICES ASSUME BoardInv, Boards!Active, NEW now \in {2, 3}, NEW due \in 0..7
             PROVE  /\ Boards!DeadlineState(due, now) = "atrasado" =>
                         \A long \in BOOLEAN :
                           /\ Boards!Attention(Boards!DeadlineTone(due, now),
                                long) \in {"overdue", "ready_not_delivered"}
                           /\ \A a \in Areas : Boards!CoordLoad(a).pendiente
                                \/ Boards!CoordLoad(a).enProceso =>
                                Boards!AreaHealth(a, Boards!DeadlineTone(due, now),
                                  long) = "critical"
                           /\ Boards!DesignTeam =>
                                Boards!DesignHealth(Boards!DeadlineTone(due, now),
                                long) = "critical"
                    /\ Boards!DeadlineTone(due, now) = "overdue" =>
                         Boards!DeadlineState(due, now) # Boards!None
  BY DEF Boards!LateIsTold
<1>1. Boards!DeadlineState(due, now) = "atrasado" => Boards!Day(due) < Boards!Day(now)
  BY DEF Boards!DeadlineState, Boards!None
<1>2. Boards!Day(due) < Boards!Day(now) => Boards!DeadlineTone(due, now) = "overdue"
  BY BoardDays DEF Boards!DeadlineTone
<1>3. Boards!DeadlineTone(due, now) = "overdue" => due < now
  BY DEF Boards!DeadlineTone
<1>4. due < now => Boards!DeadlineState(due, now) # Boards!None
  BY BoardDays DEF Boards!DeadlineState, Boards!None
<1>5. ASSUME NEW long \in BOOLEAN
      PROVE  Boards!Attention("overdue", long) \in {"overdue", "ready_not_delivered"}
  BY DEF Boards!Attention
<1>6. ASSUME NEW long \in BOOLEAN, NEW a \in Areas, Boards!CoordLoad(a).pendiente
             \/ Boards!CoordLoad(a).enProceso
      PROVE  Boards!AreaHealth(a, "overdue", long) = "critical"
  BY <1>6 DEF Boards!CoordLoad, Boards!Load, Boards!AreaHealth, Boards!Health, Boards!OutOfDesign
<1>7. ASSUME NEW long \in BOOLEAN, Boards!DesignTeam PROVE Boards!DesignHealth("overdue",
             long) = "critical"
  BY <1>7, BoardPhases DEF Boards!DesignTeam, Boards!DesignHealth, Boards!Health
<1> QED  BY <1>1, <1>2, <1>3, <1>4, <1>5, <1>6, <1>7

LEMMA BoardInvSafe == BoardInv => Boards!TypeOK /\ Boards!BoardsTell
BY BoardType, BoardLists, BoardInDesign, BoardSeen, BoardPanels, BoardLate DEF Boards!BoardsTell

-----------------------------------------------------------------------------
(* Every step keeps it.                                                     *)

LEMMA BoardBelongs ==
  ASSUME BoardTypes, NEW who, NEW a, Boards!Belongs(who, a)
  PROVE  who # Boards!Manager /\ (who = Boards!Person => a \in member)
BY BoardTokens, BoardNames DEF Boards!Belongs

LEMMA BoardHolder ==
  ASSUME NEW s \in Boards!Sessions, s # Boards!Branch
  PROVE  /\ Boards!Holder(s) \in Boards!Holders \cup {Boards!None}
         /\ Boards!Holder(s) = Boards!Person => s = Boards!Person
         /\ Boards!Holder(s) = Boards!Manager => s = Boards!Manager
BY BoardNames DEF Boards!Holder, Boards!Holders, Boards!Sessions

LEMMA BoardPlan ==
  ASSUME BoardTypes, NEW A
  PROVE  /\ Boards!WithTasks(A) \in [Areas -> BoardTask]
         /\ \A a \in Areas : Boards!WithTasks(A)[a].who = Boards!Person =>
              tasks[a].who = Boards!Person
<1>1. Boards!Fresh \in BoardTask /\ Boards!Fresh.who # Boards!Person
  BY BoardNames DEF Boards!Fresh, BoardTask
<1> QED  BY <1>1 DEF Boards!WithTasks, BoardTypes

(* A change by hand excuses all but the types.                              *)
LEMMA BoardHand ==
  ASSUME BoardTypes', orderDrift' = Boards!Drifted("a_mano")
  PROVE  BoardInv'
<1>1. orderDrift' = {"a_mano"}
  BY DEF Boards!Drifted
<1> QED  BY <1>1 DEF BoardInv, BoardDesign, BoardOwner, BoardHolders, BoardWay

LEMMA BoardInvInit == Boards!Init => BoardInv
<1> SUFFICES ASSUME Boards!Init PROVE BoardInv
  OBVIOUS
<1>1. /\ Boards!NoOrder \in BoardOrder /\ Boards!NoTask \in BoardTask
      /\ Boards!NoTask.who # Boards!Person
  BY BoardsAssumption, BoardNames, BoardStatuses DEF Boards!NoOrder, Boards!NoTask, BoardOrder,
     BoardTask
<1>2. BoardTypes
  BY <1>1, BoardsAssumption DEF Boards!Init, BoardTypes, Boards!NoTasks
<1>3. Boards!NoOrder.status = "ninguno" /\ Boards!NoOrder.area = Boards!None
  BY DEF Boards!NoOrder
<1> QED
  BY <1>1, <1>2, <1>3, BoardNames, BoardStatuses
     DEF Boards!Init, BoardInv, BoardDesign, BoardOwner, BoardHolders, BoardWay,
       Boards!NoTasks, Boards!DesignStatuses

(* An order whose row is captured: in design with somebody of design, or    *)
(* in an area or none.                                                      *)
LEMMA BoardCaptured ==
  ASSUME BoardInv, UNCHANGED << Boards!Held, orderDrift >>, NEW A, tasks' = Boards!WithTasks(A),
         order' \in BoardOrder,
         \/ /\ order'.status = "en_diseno" /\ order'.design /\ order'.area = Boards!Design
            /\ order'.who # Boards!Manager
            /\ (order'.who = Boards!Person => Boards!Design \in member)
         \/ order'.status = "pendiente" /\ order'.area # Boards!Design
  PROVE  BoardInv'
<1>1. BoardTypes' /\ BoardHolders'
  BY BoardPlan DEF BoardInv, BoardTypes, BoardHolders, Boards!Held
<1>2. BoardDesign' /\ BoardOwner' /\ BoardWay'
  BY DEF BoardDesign, BoardOwner, BoardWay, Boards!DesignStatuses, Boards!Held
<1> QED  BY <1>1, <1>2 DEF BoardInv

LEMMA BoardCreate == ASSUME BoardInv, Boards!Create PROVE BoardInv'
<1>1. PICK design \in BOOLEAN, dest \in Areas \cup {Boards!None}, plan \in SUBSET Areas,
           area \in Areas \cup {Boards!None}, who \in Boards!Holders \cup {Boards!None} :
        /\ ~Boards!Exists
        /\ design => area = Boards!None /\ Boards!Belongs(who, Boards!Design)
        /\ ~design /\ area # Boards!None => Boards!Belongs(who, area)
        /\ order' = [Boards!NoOrder EXCEPT
             !.status = IF design THEN "en_diseno" ELSE "pendiente",
             !.area = IF design THEN Boards!Design ELSE area,
             !.design = design, !.who = who]
        /\ tasks' = Boards!WithTasks(CASE plan # {} -> plan
                                [] plan = {} /\ dest # Boards!None -> {dest}
                                [] plan = {} /\ dest = Boards!None /\ area # Boards!None -> {area}
                                [] OTHER -> {})
        /\ UNCHANGED << Boards!Held, orderDrift >>
  BY Zenon DEF Boards!Create
<1>2. Boards!NoOrder \in BoardOrder
  BY BoardsAssumption, BoardStatuses DEF Boards!NoOrder, BoardOrder
<1>3. /\ order' \in BoardOrder
      /\ order'.status = IF design THEN "en_diseno" ELSE "pendiente"
      /\ order'.area = IF design THEN Boards!Design ELSE area
      /\ order'.design = design /\ order'.who = who
  BY <1>1, <1>2, BoardStatuses DEF BoardOrder
<1>4. design => who # Boards!Manager /\ (who = Boards!Person => Boards!Design \in member)
  BY <1>1, BoardBelongs DEF BoardInv
<1>5. area # Boards!Design
  BY BoardNames
<1> QED  BY <1>1, <1>3, <1>4, <1>5, BoardCaptured

LEMMA BoardCreateBranch == ASSUME BoardInv, Boards!CreateBranch PROVE BoardInv'
<1>1. PICK plan \in SUBSET Areas :
        /\ order' = [Boards!NoOrder EXCEPT !.status = "en_diseno", !.area = Boards!Design,
                       !.design = TRUE, !.branch = TRUE]
        /\ tasks' = Boards!WithTasks(plan)
        /\ UNCHANGED << Boards!Held, orderDrift >>
  BY DEF Boards!CreateBranch
<1>2. Boards!NoOrder \in BoardOrder /\ Boards!NoOrder.who = Boards!None
  BY BoardsAssumption, BoardStatuses DEF Boards!NoOrder, BoardOrder
<1>3. /\ order' \in BoardOrder /\ order'.status = "en_diseno" /\ order'.area = Boards!Design
      /\ order'.design /\ order'.who = Boards!None
  BY <1>1, <1>2, BoardStatuses DEF BoardOrder
<1> QED  BY <1>1, <1>3, BoardNames, BoardCaptured

(* An edit that keeps the area: the status, to one of the closed; the       *)
(* person, to one of design when the order is there; or nothing.            *)
LEMMA BoardEdited ==
  ASSUME BoardInv, NEW o \in BoardOrder, Boards!ByHand(o), UNCHANGED orderDrift,
         o.area = order.area, o.design = order.design,
         o.status = order.status \/ o.status \in Boards!Closed,
         \/ o.who = order.who
         \/ order.area = Boards!Design => Boards!Belongs(o.who, Boards!Design)
  PROVE  BoardInv'
<1>1. BoardTypes'
  BY BoardsAssumption DEF BoardInv, BoardTypes, Boards!ByHand
<1>2. BoardHolders' /\ BoardDesign' /\ BoardWay'
  BY DEF BoardInv, BoardHolders, BoardDesign, BoardWay, Boards!ByHand, Boards!DesignStatuses,
     Boards!Closed
<1>3. BoardOwner'
  BY BoardBelongs DEF BoardInv, BoardOwner, Boards!ByHand
<1> QED  BY <1>1, <1>2, <1>3 DEF BoardInv

LEMMA BoardEditedHand ==
  ASSUME BoardInv, NEW o \in BoardOrder, Boards!ByHand(o), orderDrift' = Boards!Drifted("a_mano")
  PROVE  BoardInv'
<1>1. BoardTypes'
  BY BoardsAssumption, BoardDrift DEF BoardInv, BoardTypes, Boards!ByHand, BoardCauses
<1> QED  BY <1>1, BoardHand

LEMMA BoardEditStatus == ASSUME BoardInv, NEW s \in Boards!Sessions,
  Boards!EditStatus(s) PROVE BoardInv'
<1>1. PICK st \in Boards!Statuses :
        /\ Boards!ByHand([order EXCEPT !.status = st])
        /\ orderDrift' = IF st \in Boards!Closed THEN orderDrift ELSE Boards!Drifted("a_mano")
  BY DEF Boards!EditStatus
<1>2. PICK o : o = [order EXCEPT !.status = st]
  OBVIOUS
<1>3. /\ o \in BoardOrder /\ o.status = st /\ o.area = order.area /\ o.design = order.design
      /\ o.who = order.who
  BY <1>2 DEF BoardInv, BoardTypes, BoardOrder
<1>4. CASE st \in Boards!Closed
  BY <1>1, <1>2, <1>3, <1>4, BoardEdited
<1>5. CASE st \notin Boards!Closed
  BY <1>1, <1>2, <1>3, <1>5, BoardEditedHand
<1> QED  BY <1>4, <1>5

LEMMA BoardEditArea == ASSUME BoardInv, NEW s \in Boards!Sessions,
  Boards!EditArea(s) PROVE BoardInv'
<1>1. PICK area \in Areas \cup {Boards!Design} :
        Boards!ByHand([order EXCEPT !.area = area]) /\ orderDrift' = Boards!Drifted("a_mano")
  BY DEF Boards!EditArea
<1>2. PICK o : o = [order EXCEPT !.area = area]
  OBVIOUS
<1>3. o \in BoardOrder
  BY <1>2 DEF BoardInv, BoardTypes, BoardOrder
<1> QED  BY <1>1, <1>2, <1>3, BoardEditedHand

LEMMA BoardEditDesign == ASSUME BoardInv, NEW s \in Boards!Sessions,
  Boards!EditDesign(s) PROVE BoardInv'
<1>1. PICK design \in BOOLEAN :
        /\ Boards!ByHand([order EXCEPT !.design = design])
        /\ orderDrift' = IF design = order.design THEN orderDrift ELSE Boards!Drifted("a_mano")
  BY DEF Boards!EditDesign
<1>2. PICK o : o = [order EXCEPT !.design = design]
  OBVIOUS
<1>3. /\ o \in BoardOrder /\ o.status = order.status /\ o.area = order.area /\ o.design = design
      /\ o.who = order.who
  BY <1>2 DEF BoardInv, BoardTypes, BoardOrder
<1>4. CASE design = order.design
  BY <1>1, <1>2, <1>3, <1>4, BoardEdited
<1>5. CASE design # order.design
  BY <1>1, <1>2, <1>3, <1>5, BoardEditedHand
<1> QED  BY <1>4, <1>5

LEMMA BoardEditWho == ASSUME BoardInv, NEW s \in Boards!Sessions, Boards!EditWho(s) PROVE BoardInv'
<1>1. PICK who \in Boards!Holders \cup {Boards!None} :
        /\ order.area = Boards!Design => Boards!Belongs(who, Boards!Design)
        /\ Boards!ByHand([order EXCEPT !.who = who])
        /\ UNCHANGED orderDrift
  BY DEF Boards!EditWho
<1>2. PICK o : o = [order EXCEPT !.who = who]
  OBVIOUS
<1>3. /\ o \in BoardOrder /\ o.status = order.status /\ o.area = order.area
      /\ o.design = order.design /\ o.who = who
  BY <1>2 DEF BoardInv, BoardTypes, BoardOrder
<1> QED  BY <1>1, <1>2, <1>3, BoardEdited

LEMMA BoardBulk == ASSUME BoardInv, NEW s \in Boards!Sessions, Boards!Bulk(s) PROVE BoardInv'
<1>1. PICK st \in Boards!Statuses, area \in Areas \cup {Boards!Design} :
        /\ Boards!Hand(s) /\ Boards!Accessible(s)
        /\ area # order.area => Boards!Editor(s)
        /\ st = "entregado" => Boards!Full(s)
        /\ Boards!ByHand([order EXCEPT !.status = st, !.area = area])
        /\ orderDrift' = IF st \in Boards!Closed
             /\ area = order.area THEN orderDrift ELSE Boards!Drifted("a_mano")
  BY Zenon DEF Boards!Bulk
<1>2. PICK o : o = [order EXCEPT !.status = st, !.area = area]
  OBVIOUS
<1>3. /\ o \in BoardOrder /\ o.status = st /\ o.area = area /\ o.design = order.design
      /\ o.who = order.who
  BY <1>2 DEF BoardInv, BoardTypes, BoardOrder
<1>4. CASE st \in Boards!Closed /\ area = order.area
  BY <1>1, <1>2, <1>3, <1>4, BoardEdited
<1>5. CASE ~(st \in Boards!Closed /\ area = order.area)
  BY <1>1, <1>2, <1>3, <1>5, BoardEditedHand
<1> QED  BY <1>4, <1>5

LEMMA BoardRemove == ASSUME BoardInv, Boards!Remove PROVE BoardInv'
<1>1. /\ Boards!NoOrder \in BoardOrder /\ Boards!NoTask \in BoardTask
      /\ Boards!NoTask.who # Boards!Person
  BY BoardsAssumption, BoardNames, BoardStatuses DEF Boards!NoOrder, Boards!NoTask, BoardOrder,
     BoardTask
<1>2. /\ Boards!NoOrder.area # Boards!Design
      /\ Boards!NoOrder.status \notin Boards!DesignStatuses \cup {"esperando"}
  BY BoardNames DEF Boards!NoOrder, Boards!DesignStatuses
<1>3. BoardTypes'
  BY <1>1 DEF BoardInv, BoardTypes, Boards!Remove, Boards!NoTasks, Boards!Held
<1>4. BoardDesign' /\ BoardOwner' /\ BoardWay'
  BY <1>2 DEF BoardDesign, BoardOwner, BoardWay, Boards!Remove
<1>5. BoardHolders'
  BY <1>1 DEF BoardInv, BoardHolders, Boards!Remove, Boards!NoTasks, Boards!Held
<1> QED  BY <1>3, <1>4, <1>5 DEF BoardInv

LEMMA BoardDesigner ==
  ASSUME BoardTypes, NEW s \in Boards!Sessions, Boards!Designer(s)
  PROVE  s # Boards!Branch /\ s # Boards!Manager /\ (s = Boards!Person => Boards!Design \in member)
BY BoardTokens DEF Boards!Designer, Boards!Sessions

LEMMA BoardTake == ASSUME BoardInv, NEW s \in Boards!Sessions, Boards!Take(s) PROVE BoardInv'
<1>1. /\ Boards!Designer(s) /\ order' = [order EXCEPT !.who = Boards!Holder(s), !.started = TRUE]
      /\ UNCHANGED << Boards!Held, tasks, orderDrift >>
  BY DEF Boards!Take
<1>2. /\ Boards!Holder(s) \in Boards!Holders \cup {Boards!None} /\ Boards!Holder(s) # Boards!Manager
      /\ Boards!Holder(s) = Boards!Person => Boards!Design \in member
  BY <1>1, BoardDesigner, BoardHolder DEF BoardInv
<1>3. /\ order' \in BoardOrder /\ order'.status = order.status /\ order'.area = order.area
      /\ order'.design = order.design /\ order'.who = Boards!Holder(s)
  BY <1>1, <1>2 DEF BoardInv, BoardTypes, BoardOrder
<1> QED
  BY <1>1, <1>2, <1>3
     DEF BoardInv, BoardTypes, BoardDesign, BoardOwner, BoardHolders, BoardWay, Boards!Held

LEMMA BoardStart == ASSUME BoardInv, NEW s \in Boards!Sessions, Boards!Start(s) PROVE BoardInv'
<1>1. order' = [order EXCEPT !.started = TRUE] /\ UNCHANGED << Boards!Held, tasks, orderDrift >>
  BY DEF Boards!Start
<1>2. /\ order' \in BoardOrder /\ order'.status = order.status /\ order'.area = order.area
      /\ order'.design = order.design /\ order'.who = order.who
  BY <1>1 DEF BoardInv, BoardTypes, BoardOrder
<1> QED
  BY <1>1, <1>2
     DEF BoardInv, BoardTypes, BoardDesign, BoardOwner, BoardHolders, BoardWay, Boards!Held

LEMMA BoardSendRound == ASSUME BoardInv, NEW s \in Boards!Sessions,
  Boards!SendRound(s) PROVE BoardInv'
<1>1. /\ Boards!Editor(s) /\ order.rounds < MaxRounds
      /\ order' = [order EXCEPT !.status = "esperando", !.rounds = @ + 1, !.sender = s]
      /\ orderDrift' = IF order.area = Boards!Design
           /\ order.design THEN orderDrift ELSE Boards!Drifted("fuera")
      /\ UNCHANGED << Boards!Held, tasks >>
  BY DEF Boards!SendRound
<1>2. s \in {Boards!None, Boards!Person, Boards!Shared, Boards!Manager}
  BY <1>1, BoardTokens, BoardNames DEF Boards!Editor, Boards!Full, Boards!Sessions
<1>3. order.rounds + 1 \in 0..MaxRounds
  BY <1>1, BoardsAssumption DEF BoardInv, BoardTypes, BoardOrder
<1>4. order' \in BoardOrder
  BY <1>1, <1>2, <1>3, BoardStatuses DEF BoardInv, BoardTypes, BoardOrder
<1>5. /\ order'.status = "esperando" /\ order'.area = order.area
      /\ order'.design = order.design /\ order'.who = order.who
  BY <1>1 DEF BoardInv, BoardTypes, BoardOrder
<1>6. CASE order.area = Boards!Design /\ order.design
  BY <1>1, <1>4, <1>5, <1>6
     DEF BoardInv, BoardTypes, BoardDesign, BoardOwner, BoardHolders, BoardWay, Boards!Held
<1>7. CASE ~(order.area = Boards!Design /\ order.design)
  <2>1. orderDrift' = Boards!Drifted("fuera") /\ "fuera" \in BoardCauses
    BY <1>1, <1>7 DEF BoardCauses
  <2>2. /\ orderDrift' \subseteq BoardCauses /\ orderDrift' # {}
        /\ \A X : "a_mano" \in X /\ orderDrift' \cap X = {} => orderDrift \cap X = {}
             /\ "fuera" \notin X
    BY <2>1, BoardDrift DEF BoardInv
  <2>3. BoardTypes'
    BY <1>1, <1>4, <2>2 DEF BoardInv, BoardTypes, Boards!Held
  <2>4. BoardDesign' /\ BoardWay'
    BY <2>2 DEF BoardDesign, BoardWay
  <2>5. BoardOwner' /\ BoardHolders'
    BY <1>1, <1>5, <2>2 DEF BoardInv, BoardOwner, BoardHolders, Boards!Held
  <2> QED  BY <2>3, <2>4, <2>5 DEF BoardInv
<1> QED  BY <1>6, <1>7

LEMMA BoardFeedback == ASSUME BoardInv, Boards!Feedback PROVE BoardInv'
<1>1. /\ Boards!Awaiting
      /\ order' = [order EXCEPT !.status = "cambios", !.area = Boards!Design,
                      !.who = Boards!Holder(order.sender), !.sender = Boards!None]
      /\ orderDrift' = IF Boards!Design \in Boards!Member(order.sender)
                       THEN orderDrift ELSE Boards!Drifted("ajena")
      /\ UNCHANGED << Boards!Held, tasks >>
  BY DEF Boards!Feedback
<1>2. order.sender \in Boards!Sessions /\ order.sender # Boards!Branch
  BY <1>1, BoardNames DEF BoardInv, BoardTypes, BoardOrder, Boards!Awaiting, Boards!Sessions
<1>3. Boards!Holder(order.sender) \in Boards!Holders \cup {Boards!None}
  BY <1>2, BoardHolder
<1>4. order' \in BoardOrder
  BY <1>1, <1>3, BoardStatuses DEF BoardInv, BoardTypes, BoardOrder
<1>5. /\ order'.status = "cambios" /\ order'.area = Boards!Design
      /\ order'.design = order.design /\ order'.who = Boards!Holder(order.sender)
  BY <1>1 DEF BoardInv, BoardTypes, BoardOrder
<1>6. orderDrift \cap {"a_mano", "fuera", "adelantada"} = {} => order.design
  BY <1>1 DEF BoardInv, BoardDesign, Boards!Awaiting
<1>7. CASE Boards!Design \in Boards!Member(order.sender)
  <2>1. order.sender # Boards!Manager /\ (order.sender = Boards!Person => Boards!Design \in member)
    BY <1>7, BoardTokens
  <2>2. order'.who # Boards!Manager /\ (order'.who = Boards!Person => Boards!Design \in member)
    BY <1>2, <1>5, <2>1, BoardHolder
  <2>3. orderDrift' = orderDrift
    BY <1>1, <1>7
  <2> QED
    BY <1>1, <1>4, <1>5, <1>6, <2>2, <2>3
       DEF BoardInv, BoardTypes, BoardDesign, BoardOwner, BoardHolders, BoardWay, Boards!Held,
         Boards!DesignStatuses
<1>8. CASE Boards!Design \notin Boards!Member(order.sender)
  <2>1. orderDrift' = Boards!Drifted("ajena") /\ "ajena" \in BoardCauses
    BY <1>1, <1>8 DEF BoardCauses
  <2>2. /\ orderDrift' \subseteq BoardCauses /\ orderDrift' # {}
        /\ \A X : "a_mano" \in X /\ orderDrift' \cap X = {} => orderDrift \cap X = {}
             /\ "ajena" \notin X
    BY <2>1, BoardDrift DEF BoardInv
  <2>3. BoardTypes'
    BY <1>1, <1>4, <2>2 DEF BoardInv, BoardTypes, Boards!Held
  <2>4. BoardDesign' /\ BoardWay' /\ BoardOwner'
    BY <1>5, <1>6, <2>2 DEF BoardDesign, BoardWay, BoardOwner
  <2>5. BoardHolders'
    BY <1>1, <2>2 DEF BoardInv, BoardHolders, Boards!Held
  <2> QED  BY <2>3, <2>4, <2>5 DEF BoardInv
<1> QED  BY <1>7, <1>8

LEMMA BoardApprove == ASSUME BoardInv, Boards!Approve PROVE BoardInv'
<1>1. PICK given \in SUBSET Areas, dest \in Areas \cup {Boards!None},
             planned \in Areas \cup {Boards!None} :
        \E first \in Boards!Resolved(given, dest, planned) :
          /\ Boards!Awaiting
          /\ order' = [order EXCEPT !.status = "autorizado", !.area = Boards!ApprovedArea(dest,
               first),
                         !.who = Boards!None, !.sender = Boards!None]
          /\ tasks' = Boards!WithTasks(Boards!Resolved(given, dest, planned))
          /\ UNCHANGED << Boards!Held, orderDrift >>
  BY Zenon DEF Boards!Approve
<1>2. PICK first \in Boards!Resolved(given, dest, planned) :
        /\ Boards!Awaiting
        /\ order' = [order EXCEPT !.status = "autorizado", !.area = Boards!ApprovedArea(dest,
             first),
                       !.who = Boards!None, !.sender = Boards!None]
        /\ tasks' = Boards!WithTasks(Boards!Resolved(given, dest, planned))
        /\ UNCHANGED << Boards!Held, orderDrift >>
  BY <1>1, Zenon
<1>3. Boards!Resolved(given, dest, planned) \subseteq Areas
  BY DEF Boards!Resolved
<1>4. Boards!ApprovedArea(dest, first) \in Areas
  BY <1>2, <1>3 DEF Boards!ApprovedArea
<1>5. order' \in BoardOrder
  BY <1>2, <1>4, BoardStatuses DEF BoardInv, BoardTypes, BoardOrder
<1>6. order'.status = "autorizado" /\ order'.area # Boards!Design
  BY <1>2, <1>4, BoardNames DEF BoardInv, BoardTypes, BoardOrder
<1>7. BoardTypes' /\ BoardHolders'
  BY <1>2, <1>5, BoardPlan DEF BoardInv, BoardTypes, BoardHolders, Boards!Held
<1>8. BoardDesign' /\ BoardOwner' /\ BoardWay'
  BY <1>6 DEF BoardDesign, BoardOwner, BoardWay, Boards!DesignStatuses
<1> QED  BY <1>7, <1>8 DEF BoardInv

(* The row stays, and whoever has a task is of its area.                    *)
LEMMA BoardTasked ==
  ASSUME BoardInv, UNCHANGED << Boards!Held, order, orderDrift >>, tasks' \in [Areas -> BoardTask],
         orderDrift \cap {"se_fue", "a_mano"} = {} =>
           \A a \in Areas : tasks'[a].who = Boards!Person => a \in member
  PROVE  BoardInv'
BY DEF BoardInv, BoardTypes, BoardDesign, BoardOwner, BoardHolders, BoardWay, Boards!Held

LEMMA BoardAddTasks == ASSUME BoardInv, NEW s \in Boards!Sessions,
  Boards!AddTasks(s) PROVE BoardInv'
<1>1. PICK A \in SUBSET Areas : tasks' = Boards!WithTasks(A) /\ UNCHANGED << Boards!Held,
             order, orderDrift >>
  BY DEF Boards!AddTasks
<1> QED  BY <1>1, BoardPlan, BoardTasked DEF BoardInv, BoardHolders

LEMMA BoardAssign ==
  ASSUME BoardInv, NEW s \in Boards!Sessions, NEW a \in Areas, Boards!Assign(s, a) PROVE BoardInv'
<1>1. PICK who \in Boards!Holders \cup {Boards!None} :
        Boards!Belongs(who, a) /\ tasks' = [tasks EXCEPT ![a].who = who]
          /\ UNCHANGED << Boards!Held, order, orderDrift >>
  BY DEF Boards!Assign
<1>2. who \in {Boards!None, Boards!Person} /\ (who = Boards!Person => a \in member)
  BY <1>1, BoardBelongs DEF BoardInv, Boards!Holders
<1>3. tasks' \in [Areas -> BoardTask] /\ \A b \in Areas : b # a => tasks'[b] = tasks[b]
  BY <1>1, <1>2 DEF BoardInv, BoardTypes, BoardTask
<1>4. tasks'[a].who = who
  BY <1>1 DEF BoardInv, BoardTypes, BoardTask
<1> QED  BY <1>1, <1>2, <1>3, <1>4, BoardTasked DEF BoardInv, BoardHolders

(* The closing of the order by its tasks.                                   *)
LEMMA BoardSync ==
  ASSUME BoardInv, NEW ts \in [Areas -> BoardTask], Boards!Sync(ts), UNCHANGED Boards!Held,
         orderDrift \cap {"se_fue", "a_mano"} = {} =>
           \A a \in Areas : ts[a].who = Boards!Person => a \in member
  PROVE  BoardInv'
<1>1. /\ tasks' = ts /\ order' = [order EXCEPT !.status = Boards!Synced(ts)]
      /\ orderDrift' = IF Boards!Synced(ts) # order.status /\ order.area = Boards!Design
                  THEN Boards!Drifted("adelantada") ELSE orderDrift
  BY DEF Boards!Sync
<1>2. Boards!Synced(ts) \in {order.status, "terminado", "autorizado"}
  BY DEF Boards!Synced
<1>3. order' \in BoardOrder
  BY <1>1, <1>2, BoardStatuses DEF BoardInv, BoardTypes, BoardOrder
<1>4. /\ order'.status = Boards!Synced(ts) /\ order'.area = order.area
      /\ order'.design = order.design /\ order'.who = order.who
  BY <1>1 DEF BoardInv, BoardTypes, BoardOrder
<1>5. "adelantada" \in BoardCauses
  BY DEF BoardCauses
<1>6. /\ orderDrift' \subseteq BoardCauses
      /\ \A X : "a_mano" \in X /\ orderDrift' \cap X = {} => orderDrift \cap X = {}
      /\ orderDrift' = {} => orderDrift = {} /\ (Boards!Synced(ts) = order.status
           \/ order.area # Boards!Design)
  BY <1>1, <1>5, BoardDrift DEF BoardInv, BoardTypes
<1>7. BoardTypes'
  BY <1>1, <1>3, <1>6 DEF BoardInv, BoardTypes, Boards!Held
<1>8. BoardDesign'
  BY <1>2, <1>4, <1>6 DEF BoardInv, BoardDesign, Boards!DesignStatuses
<1>9. BoardOwner' /\ BoardHolders'
  BY <1>1, <1>4, <1>6 DEF BoardInv, BoardOwner, BoardHolders, Boards!Held
<1>10. BoardWay'
  BY <1>4, <1>6 DEF BoardInv, BoardWay
<1> QED  BY <1>7, <1>8, <1>9, <1>10 DEF BoardInv

LEMMA BoardTaskStatus ==
  ASSUME BoardInv, NEW s \in Boards!Sessions, NEW a \in Areas,
         Boards!TaskStatus(s, a) PROVE BoardInv'
<1>1. PICK to \in {"pendiente", "en_proceso", "terminado"} :
        /\ Boards!Sync([tasks EXCEPT ![a] =
             [status |-> to, who |-> IF Boards!Claims(s, a, to) THEN Boards!Holder(s) ELSE @.who]])
        /\ UNCHANGED Boards!Held
  BY DEF Boards!TaskStatus
<1>2. PICK t : t = [status |-> to,
             who |-> IF Boards!Claims(s, a, to) THEN Boards!Holder(s) ELSE tasks[a].who]
  OBVIOUS
<1>3. PICK ts : ts = [tasks EXCEPT ![a] = t]
  OBVIOUS
<1>4. Boards!Sync(ts)
  BY <1>1, <1>2, <1>3 DEF BoardInv, BoardTypes
<1>5. Boards!Claims(s, a, to) => Boards!Holder(s) \in {Boards!None, Boards!Person} /\
        (Boards!Holder(s) = Boards!Person => a \in token)
  <2> SUFFICES ASSUME Boards!Claims(s, a, to)
               PROVE  /\ Boards!Holder(s) \in {Boards!None, Boards!Person}
                      /\ (Boards!Holder(s) = Boards!Person => a \in token)
    OBVIOUS
  <2>1. s # Boards!Manager /\ s # Boards!Branch /\ a \in Boards!Token(s)
    BY BoardTokens DEF Boards!Claims
  <2> QED  BY <2>1, BoardTokens, BoardHolder DEF Boards!Holders
<1>6. t.status = to /\ t.who = IF Boards!Claims(s, a, to) THEN Boards!Holder(s) ELSE tasks[a].who
  BY <1>2
<1>7. tasks[a].who \in {Boards!None, Boards!Person}
  BY DEF BoardInv, BoardTypes, BoardTask
<1>8. t \in BoardTask /\ (t.who = Boards!Person => a \in token \/ tasks[a].who = Boards!Person)
  BY <1>2, <1>5, <1>6, <1>7 DEF BoardTask
<1>9. ts \in [Areas -> BoardTask] /\ ts[a] = t /\ \A b \in Areas : b # a => ts[b] = tasks[b]
  BY <1>3, <1>8 DEF BoardInv, BoardTypes
<1>10. orderDrift \cap {"se_fue", "a_mano"} = {} =>
         \A b \in Areas : ts[b].who = Boards!Person => b \in member
  BY <1>8, <1>9 DEF BoardInv, BoardHolders
<1> QED  BY <1>1, <1>4, <1>9, <1>10, BoardSync

LEMMA BoardRemoveTask == ASSUME BoardInv, NEW a \in Areas, Boards!RemoveTask(a) PROVE BoardInv'
<1>1. Boards!Sync([tasks EXCEPT ![a] = Boards!NoTask]) /\ UNCHANGED Boards!Held
  BY DEF Boards!RemoveTask
<1>2. PICK ts : ts = [tasks EXCEPT ![a] = Boards!NoTask]
  OBVIOUS
<1>3. Boards!NoTask \in BoardTask /\ Boards!NoTask.who # Boards!Person
  BY BoardNames DEF Boards!NoTask, BoardTask
<1>4. ts \in [Areas -> BoardTask] /\ ts[a] = Boards!NoTask /\ \A b \in Areas : b # a =>
        ts[b] = tasks[b]
  BY <1>2, <1>3 DEF BoardInv, BoardTypes
<1>5. orderDrift \cap {"se_fue", "a_mano"} = {} =>
        \A b \in Areas : ts[b].who = Boards!Person => b \in member
  BY <1>3, <1>4 DEF BoardInv, BoardHolders
<1> QED  BY <1>1, <1>2, <1>4, <1>5, BoardSync

LEMMA BoardChangeAreas == ASSUME BoardInv, Boards!ChangeAreas PROVE BoardInv'
<1>1. PICK A \in SUBSET (Areas \cup {Boards!Design}) :
        /\ moves < MaxMoves /\ moves' = moves + 1
        /\ member' = A
        /\ orderDrift' = IF member \ A = {} THEN orderDrift ELSE Boards!Drifted("se_fue")
        /\ UNCHANGED << order, tasks, token, handEdits >>
  BY DEF Boards!ChangeAreas
<1>2. moves' \in 0..MaxMoves
  BY <1>1, BoardsAssumption DEF BoardInv, BoardTypes
<1>3. CASE member \ A = {}
  BY <1>1, <1>2, <1>3
     DEF BoardInv, BoardTypes, BoardDesign, BoardOwner, BoardHolders, BoardWay
<1>4. CASE member \ A # {}
  <2>1. orderDrift' = Boards!Drifted("se_fue") /\ "se_fue" \in BoardCauses
    BY <1>1, <1>4 DEF BoardCauses
  <2>2. /\ orderDrift' \subseteq BoardCauses /\ orderDrift' # {}
        /\ \A X : "a_mano" \in X /\ orderDrift' \cap X = {} => orderDrift \cap X = {}
             /\ "se_fue" \notin X
    BY <2>1, BoardDrift DEF BoardInv
  <2>3. BoardTypes'
    BY <1>1, <1>2, <2>2 DEF BoardInv, BoardTypes
  <2>4. BoardDesign' /\ BoardWay' /\ BoardOwner' /\ BoardHolders'
    BY <1>1, <2>2 DEF BoardInv, BoardDesign, BoardWay, BoardOwner, BoardHolders
  <2> QED  BY <2>3, <2>4 DEF BoardInv
<1> QED  BY <1>3, <1>4

LEMMA BoardLogin == ASSUME BoardInv, Boards!Login PROVE BoardInv'
BY DEF Boards!Login, BoardInv, BoardTypes, BoardDesign, BoardOwner, BoardHolders, BoardWay

LEMMA BoardInvStep == ASSUME BoardInv, Boards!Next PROVE BoardInv'
<1>1. CASE Boards!Create \/ Boards!CreateBranch \/ Boards!Remove
  BY <1>1, BoardCreate, BoardCreateBranch, BoardRemove
<1>2. ASSUME NEW s \in Boards!Sessions,
             \/ Boards!EditStatus(s) \/ Boards!EditArea(s) \/ Boards!EditDesign(s)
                  \/ Boards!EditWho(s) \/ Boards!Bulk(s)
             \/ Boards!Take(s) \/ Boards!Start(s) \/ Boards!SendRound(s) \/ Boards!AddTasks(s)
      PROVE  BoardInv'
  BY <1>2, BoardEditStatus, BoardEditArea, BoardEditDesign, BoardEditWho, BoardBulk,
     BoardTake, BoardStart, BoardSendRound, BoardAddTasks
<1>3. ASSUME NEW s \in Boards!Sessions, NEW a \in Areas, Boards!TaskStatus(s, a) \/
             Boards!Assign(s, a) PROVE BoardInv'
  BY <1>3, BoardTaskStatus, BoardAssign
<1>4. CASE Boards!Feedback \/ Boards!Approve
  BY <1>4, BoardFeedback, BoardApprove
<1>5. ASSUME NEW a \in Areas, Boards!RemoveTask(a) PROVE BoardInv'
  BY <1>5, BoardRemoveTask
<1>6. CASE Boards!ChangeAreas \/ Boards!Login
  BY <1>6, BoardChangeAreas, BoardLogin
<1> QED  BY <1>1, <1>2, <1>3, <1>4, <1>5, <1>6 DEF Boards!Next

LEMMA BoardInvKept == ASSUME BoardInv, UNCHANGED Boards!vars PROVE BoardInv'
BY DEF Boards!vars, BoardInv, BoardTypes, BoardDesign, BoardOwner, BoardHolders, BoardWay

-----------------------------------------------------------------------------
(* Articles.                                                                *)

DeskItem == [live : BOOLEAN, quantity : 0..MaxStock, min : {0} \cup Levels,
             code : {0} \cup Custom \cup Desk!Ids]
DeskRestock == [status : {"no"} \cup RestockStatuses, item : {0} \cup Desk!Ids]
DeskJob == [at : {"libre", "mueve", "avisa", "crea", "edita", "pide", "atiende", "dice"},
            id : {0} \cup Desk!Ids, kind : {"no", "entrada", "salida", "ajuste"},
            amount : 0..MaxStock, min : {0, Desk!Keep} \cup Levels,
              code : {0} \cup Custom \cup Desk!Ids,
            seen : {"no"} \cup RestockStatuses, to : {"no"} \cup RestockStatuses, self : BOOLEAN]
DeskReasons == {"minimo", "alta", "caida"}

DeskTypes ==
  /\ item \in [Desk!Ids -> DeskItem]
  /\ last \in Desk!Ids
  /\ restock \in DeskRestock
  /\ deskJob \in [Workers -> DeskJob]
  /\ alarm \in [Desk!Ids -> BOOLEAN] /\ low \in [Desk!Ids -> SUBSET DeskReasons]
  /\ told \in {"no"} \cup RestockStatuses /\ untold \in BOOLEAN /\ refused \in BOOLEAN
  /\ requests \in 0..MaxDeskRequests

(* What a handler has checked of what it brings.                            *)
DeskFits(j) ==
  /\ j.at \in {"mueve", "avisa", "edita"} => j.id \in Desk!Ids
  /\ j.at \in {"mueve", "crea"} => j.min # Desk!Keep
  /\ j.at = "mueve" => j.kind # "no"
  /\ j.at = "crea" => j.code \in {0} \cup Custom
  /\ j.at = "edita" => j.code \in {0, j.id} \cup Custom
  /\ j.at \in {"atiende", "dice"} => j.to \in RestockStatuses

(* No article has an id that was not given, and a request has a status.     *)
DeskBorn ==
  /\ \A i \in Desk!Ids : item[i].live => i <= last
  /\ restock # Desk!NoRestock => restock.status \in RestockStatuses

(* While no two changes of the status overlapped, whoever is about to tell  *)
(* it tells the status the request has.                                     *)
DeskTelling ==
  \A w \in Workers : ~untold /\ deskJob[w].at = "dice" => deskJob[w].to = restock.status

DeskInv ==
  /\ DeskTypes
  /\ \A w \in Workers : DeskFits(deskJob[w])
  /\ DeskBorn
  /\ Desk!LowIsAnnounced
  /\ Desk!CodesAreOwn
  /\ DeskTelling
  /\ Desk!RestockTold

LEMMA DeskNumbers ==
  /\ Desk!Ids \subseteq Nat /\ 0 \notin Desk!Ids /\ 1 \in Desk!Ids
  /\ Desk!Keep \notin Levels /\ Desk!Keep # 0
  /\ \A i \in Desk!Ids : i \notin Custom /\ i <= MaxItems
  /\ 0 \notin Custom /\ 0 \in 0..MaxStock
BY DeskAssumption DEF Desk!Ids, Desk!Keep

LEMMA DeskNoJob ==
  /\ Desk!NoJob \in DeskJob /\ Desk!NoJob.at = "libre" /\ DeskFits(Desk!NoJob) /\ Desk!NoJob.id = 0
  /\ Desk!NoJob.kind = "no" /\ Desk!NoJob.amount = 0 /\ Desk!NoJob.min = 0 /\ Desk!NoJob.code = 0
  /\ Desk!NoJob.seen = "no" /\ Desk!NoJob.to = "no" /\ Desk!NoJob.self = FALSE
BY DeskNumbers DEF Desk!NoJob, DeskJob, DeskFits

LEMMA DeskInvSafe == DeskInv => Desk!TypeOK /\ Desk!LowIsAnnounced /\ Desk!CodesAreOwn /\
  Desk!RestockTold
<1> SUFFICES ASSUME DeskInv PROVE Desk!TypeOK
  BY DEF DeskInv
<1>1. last \in 0..MaxItems
  BY DeskAssumption DEF DeskInv, DeskTypes, Desk!Ids
<1> QED  BY <1>1 DEF DeskInv, DeskTypes, Desk!TypeOK, DeskItem, DeskRestock, DeskReasons

LEMMA DeskInvInit == Desk!Init => DeskInv
<1> SUFFICES ASSUME Desk!Init PROVE DeskInv
  OBVIOUS
<1>1. PICK min \in Levels :
        item = [i \in Desk!Ids |-> IF i = 1 THEN [live |-> TRUE, quantity |-> MaxStock,
                                          min |-> min, code |-> 1] ELSE Desk!NoItem]
  BY DEF Desk!Init
<1>2. /\ \A i \in Desk!Ids : item[i] \in DeskItem
      /\ \A i \in Desk!Ids : item[i].live => i = 1 /\ item[i].code = 1
  BY <1>1, DeskNumbers, DeskAssumption DEF Desk!NoItem, DeskItem
<1>3. item \in [Desk!Ids -> DeskItem]
  BY <1>1, <1>2
<1>4. restock \in DeskRestock /\ restock.status \in {"no"} \cup RestockStatuses
      /\ (restock # Desk!NoRestock => restock.status \in RestockStatuses)
  BY DeskNumbers, DeskAssumption DEF Desk!Init, DeskRestock, Desk!NoRestock
<1>5. DeskTypes
  <2>1. /\ deskJob \in [Workers -> DeskJob] /\ alarm \in [Desk!Ids -> BOOLEAN]
        /\ low \in [Desk!Ids -> SUBSET DeskReasons]
    BY DeskNoJob DEF Desk!Init
  <2>2. last \in Desk!Ids /\ requests \in 0..MaxDeskRequests
    BY DeskNumbers, DeskAssumption DEF Desk!Init
  <2> QED  BY <1>3, <1>4, <2>1, <2>2 DEF Desk!Init, DeskTypes
<1>6. \A w \in Workers : DeskFits(deskJob[w]) /\ deskJob[w].at = "libre"
  BY DeskNoJob DEF Desk!Init
<1>7. Desk!LowIsAnnounced
  <2>1. \A i \in Desk!Ids : item[i].live => item[i].quantity = MaxStock /\ item[i].min \in Levels
    BY <1>1 DEF Desk!NoItem
  <2> QED  BY <2>1, DeskAssumption DEF Desk!LowIsAnnounced, Desk!Enough
<1>8. Desk!CodesAreOwn
  BY <1>2 DEF Desk!Init, Desk!CodesAreOwn
<1> QED  BY <1>2, <1>4, <1>5, <1>6, <1>7, <1>8 DEF Desk!Init, DeskInv, DeskBorn, DeskTelling,
            Desk!RestockTold

-----------------------------------------------------------------------------
(* Handlers that write nothing yet, and those that are done.                *)

LEMMA DeskBegins ==
  ASSUME DeskInv, NEW w \in Workers, NEW j \in DeskJob, Desk!Begin(w, j), DeskFits(j),
         j.at # "dice",
         UNCHANGED << item, last, alarm, low, restock, told, untold, refused >>
  PROVE  DeskInv'
<1>1. /\ deskJob[w] = Desk!NoJob /\ deskJob'[w] = j
      /\ \A v \in Workers \ {w} : deskJob'[v] = deskJob[v]
      /\ deskJob' \in [Workers -> DeskJob]
  BY DEF Desk!Begin, Desk!Set, DeskInv, DeskTypes
<1>2. DeskTypes'
  <2>1. requests' \in 0..MaxDeskRequests
    BY DeskAssumption DEF Desk!Begin, DeskInv, DeskTypes
  <2> QED  BY <1>1, <2>1 DEF DeskInv, DeskTypes
<1>3. \A v \in Workers : DeskFits(deskJob[v])'
  BY <1>1 DEF DeskInv, DeskFits
<1>4. Desk!LowIsAnnounced'
  BY <1>1, DeskNoJob DEF DeskInv, Desk!LowIsAnnounced
<1>5. Desk!CodesAreOwn' /\ DeskBorn'
  BY DEF DeskInv, Desk!CodesAreOwn, DeskBorn
<1>6. DeskTelling' /\ Desk!RestockTold'
  BY <1>1, DeskNoJob DEF DeskInv, DeskTelling, Desk!RestockTold
<1> QED  BY <1>2, <1>3, <1>4, <1>5, <1>6 DEF DeskInv

LEMMA DeskMoveRead ==
  ASSUME DeskInv, NEW w \in Workers, NEW i \in Desk!Ids, NEW amount \in 0..MaxStock,
         NEW kind \in {"entrada", "salida", "ajuste"}, Desk!MoveRead(w, i, kind, amount)
  PROVE  DeskInv'
<1>1. item[i].min \in {0} \cup Levels
  BY DEF DeskInv, DeskTypes, DeskItem
<1>2. PICK j : j = [Desk!NoJob EXCEPT !.at = "mueve", !.id = i, !.kind = kind, !.amount = amount,
                              !.min = item[i].min]
  OBVIOUS
<1>3. j \in DeskJob /\ j.at = "mueve" /\ j.id = i /\ j.kind = kind /\ j.min = item[i].min
  BY <1>1, <1>2, DeskNoJob, DeskNumbers DEF DeskJob
<1>4. DeskFits(j)
  BY <1>1, <1>3, DeskNumbers DEF DeskFits
<1> QED  BY <1>2, <1>3, <1>4, DeskBegins DEF Desk!MoveRead, Desk!lowVars, Desk!restockVars

LEMMA DeskCreateRead ==
  ASSUME DeskInv, NEW w \in Workers, NEW code \in {0} \cup Custom \cup Desk!Ids,
         NEW quantity \in 0..MaxStock,
         NEW min \in Levels, Desk!CreateRead(w, code, quantity, min)
  PROVE  DeskInv'
<1>2. PICK j : j = [Desk!NoJob EXCEPT !.at = "crea", !.code = code, !.amount = quantity,
             !.min = min]
  OBVIOUS
<1>3. j \in DeskJob /\ j.at = "crea" /\ j.code = code /\ j.min = min
  BY <1>2, DeskNoJob DEF DeskJob
<1>4. code \in {0} \cup Custom
  BY DEF Desk!CreateRead, Desk!Acceptable
<1>5. DeskFits(j)
  BY <1>3, <1>4, DeskNumbers DEF DeskFits
<1> QED  BY <1>2, <1>3, <1>5, DeskBegins DEF Desk!CreateRead, Desk!lowVars, Desk!restockVars

LEMMA DeskUpdateRead ==
  ASSUME DeskInv, NEW w \in Workers, NEW code \in {0} \cup Custom \cup Desk!Ids, NEW i \in Desk!Ids,
         NEW min \in Levels \cup {Desk!Keep}, Desk!UpdateRead(w, i, code, min)
  PROVE  DeskInv'
<1>2. PICK j : j = [Desk!NoJob EXCEPT !.at = "edita", !.id = i, !.code = code, !.min = min]
  OBVIOUS
<1>3. j \in DeskJob /\ j.at = "edita" /\ j.id = i /\ j.code = code
  BY <1>2, DeskNoJob DEF DeskJob
<1>4. code \in {0, i} \cup Custom
  BY DEF Desk!UpdateRead, Desk!Acceptable
<1>5. DeskFits(j)
  BY <1>3, <1>4 DEF DeskFits
<1> QED  BY <1>2, <1>3, <1>5, DeskBegins DEF Desk!UpdateRead, Desk!lowVars, Desk!restockVars

LEMMA DeskRestockRead ==
  ASSUME DeskInv, NEW w \in Workers, NEW i \in {0} \cup Desk!Ids,
         Desk!RestockRead(w, i) PROVE DeskInv'
<1>2. PICK j : j = [Desk!NoJob EXCEPT !.at = "pide", !.id = i]
  OBVIOUS
<1>3. j \in DeskJob /\ j.at = "pide"
  BY <1>2, DeskNoJob DEF DeskJob
<1>5. DeskFits(j)
  BY <1>3 DEF DeskFits
<1> QED  BY <1>2, <1>3, <1>5, DeskBegins DEF Desk!RestockRead, Desk!lowVars, Desk!restockVars

LEMMA DeskStatusRead ==
  ASSUME DeskInv, NEW w \in Workers, NEW to \in RestockStatuses, NEW self \in BOOLEAN,
         Desk!StatusRead(w, to, self)
  PROVE  DeskInv'
<1>1. restock.status \in {"no"} \cup RestockStatuses
  BY DEF DeskInv, DeskTypes, DeskRestock
<1>2. PICK j : j = [Desk!NoJob EXCEPT !.at = "atiende", !.seen = restock.status, !.to = to,
             !.self = self]
  OBVIOUS
<1>3. j \in DeskJob /\ j.at = "atiende" /\ j.to = to
  BY <1>1, <1>2, DeskNoJob DEF DeskJob
<1>5. DeskFits(j)
  BY <1>3 DEF DeskFits
<1> QED  BY <1>2, <1>3, <1>5, DeskBegins DEF Desk!StatusRead, Desk!lowVars, Desk!restockVars

(* The handler's job from now on.                                           *)
LEMMA DeskSets ==
  ASSUME DeskInv, NEW w \in Workers, NEW j \in DeskJob, Desk!Set(w, j), DeskFits(j)
  PROVE  /\ deskJob' \in [Workers -> DeskJob] /\ (\A v \in Workers : DeskFits(deskJob[v])')
         /\ deskJob'[w] = j /\ \A v \in Workers \ {w} : deskJob'[v] = deskJob[v]
<1>1. /\ deskJob' \in [Workers -> DeskJob]
      /\ deskJob'[w] = j /\ \A v \in Workers \ {w} : deskJob'[v] = deskJob[v]
  BY DEF Desk!Set, DeskInv, DeskTypes
<1> QED  BY <1>1 DEF DeskInv, DeskFits

-----------------------------------------------------------------------------
(* Stock.                                                                   *)

(* The history of the notice when an article is written: whoever is low has *)
(* a notice, or a reason, or one that is being sent.                        *)
LEMMA DeskHistory ==
  ASSUME DeskInv, NEW i \in Desk!Ids, NEW quantity \in 0..MaxStock,
         NEW min \in {0} \cup Levels, NEW seen,
         Desk!History(i, quantity, min, seen)
  PROVE  /\ alarm' \in [Desk!Ids -> BOOLEAN] /\ low' \in [Desk!Ids -> SUBSET DeskReasons]
         /\ \A k \in Desk!Ids \ {i} : alarm'[k] = alarm[k] /\ low'[k] = low[k]
         /\ ~Desk!Enough(quantity, min) =>
              \/ /\ ~Desk!Enough(item[i].quantity, item[i].min)
                 /\ alarm'[i] = alarm[i] /\ low'[i] = low[i]
              \/ low'[i] # {}
              \/ Desk!Enough(item[i].quantity, item[i].min)
                   /\ (seen = min \/ Desk!Falls(item[i].quantity, quantity, seen, seen))
<1> DEFINE was == item[i]
           falls == Desk!Falls(was.quantity, quantity, was.min, min)
<1>1. /\ alarm' = IF Desk!Enough(quantity, min) \/ falls THEN [alarm EXCEPT ![i] = FALSE] ELSE alarm
      /\ low' = [low EXCEPT ![i] =
           IF Desk!Enough(quantity, min) THEN {}
           ELSE IF falls /\ seen # min /\ ~Desk!Falls(was.quantity, quantity, seen, seen)
             THEN @ \cup {"minimo"} ELSE @]
  BY DEF Desk!History
<1>2. alarm \in [Desk!Ids -> BOOLEAN] /\ low \in [Desk!Ids -> SUBSET DeskReasons]
  BY DEF DeskInv, DeskTypes
<1>3. alarm' \in [Desk!Ids -> BOOLEAN]
  BY <1>1, <1>2
<1>4. /\ low' \in [Desk!Ids -> SUBSET DeskReasons]
      /\ \A k \in Desk!Ids \ {i} : alarm'[k] = alarm[k] /\ low'[k] = low[k]
  BY <1>1, <1>2 DEF DeskReasons
<1>5. ASSUME ~Desk!Enough(quantity, min)
      PROVE  \/ /\ ~Desk!Enough(item[i].quantity, item[i].min)
                /\ alarm'[i] = alarm[i] /\ low'[i] = low[i]
             \/ low'[i] # {}
             \/ Desk!Enough(item[i].quantity, item[i].min)
                  /\ (seen = min \/ Desk!Falls(item[i].quantity, quantity, seen, seen))
  <2>1. CASE falls /\ seen # min /\ ~Desk!Falls(was.quantity, quantity, seen, seen)
    BY <1>1, <1>2, <1>5, <2>1
  <2>2. CASE falls /\ (seen = min \/ Desk!Falls(was.quantity, quantity, seen, seen))
    BY <2>2 DEF Desk!Falls
  <2>3. CASE ~falls
    BY <1>1, <1>2, <1>5, <2>3 DEF Desk!Falls
  <2> QED  BY <2>1, <2>2, <2>3
<1> QED  BY <1>3, <1>4, <1>5

(* An article is written with the codes there are.                          *)
LEMMA DeskCodes ==
  ASSUME DeskInv, NEW i \in Desk!Ids, last' = last, refused' = refused, restock' = restock,
         \A k \in Desk!Ids \ {i} : item'[k] = item[k],
         item'[i].live => item[i].live /\ item'[i].code = item[i].code
  PROVE  Desk!CodesAreOwn' /\ DeskBorn'
BY DEF DeskInv, Desk!CodesAreOwn, DeskBorn

(* The status of a request and who tells it.                                *)
LEMMA DeskUntouched ==
  ASSUME DeskInv, NEW w \in Workers, UNCHANGED << restock, told, untold >>,
         \A v \in Workers \ {w} : deskJob'[v] = deskJob[v], deskJob[w].at # "dice",
           deskJob'[w].at # "dice"
  PROVE  DeskTelling' /\ Desk!RestockTold'
BY DEF DeskInv, DeskTelling, Desk!RestockTold

LEMMA DeskWriteStock ==
  ASSUME DeskInv, NEW w \in Workers, NEW i \in Desk!Ids, NEW quantity, NEW seen,
         Desk!WriteStock(w, i, quantity, seen),
         item[i].live, deskJob[w].at \notin {"avisa", "dice"}, requests' \in 0..MaxDeskRequests,
         UNCHANGED << last, restock, told, untold, refused >>
  PROVE  DeskInv'
<1>1. /\ quantity \in 0..MaxStock
      /\ item' = [item EXCEPT ![i].quantity = quantity]
      /\ Desk!History(i, quantity, item[i].min, seen)
  BY DEF Desk!WriteStock
<1>2. PICK j : j = IF Desk!Crosses(item[i].quantity, quantity, seen)
                     THEN [Desk!NoJob EXCEPT !.at = "avisa", !.id = i] ELSE Desk!NoJob
  OBVIOUS
<1>3. /\ j \in DeskJob /\ DeskFits(j) /\ j.at # "dice" /\ Desk!Set(w, j)
      /\ Desk!Crosses(item[i].quantity, quantity, seen) => j.at = "avisa" /\ j.id = i
  <2>1. CASE Desk!Crosses(item[i].quantity, quantity, seen)
    <3>1. j \in DeskJob /\ j.at = "avisa" /\ j.id = i
      BY <1>2, <2>1, DeskNoJob DEF DeskJob
    <3> QED  BY <1>2, <2>1, <3>1 DEF DeskFits, Desk!WriteStock
  <2>2. CASE ~Desk!Crosses(item[i].quantity, quantity, seen)
    BY <1>2, <2>2, DeskNoJob DEF Desk!WriteStock
  <2> QED  BY <2>1, <2>2
<1>4. /\ deskJob' \in [Workers -> DeskJob] /\ (\A v \in Workers : DeskFits(deskJob[v])')
      /\ deskJob'[w] = j /\ \A v \in Workers \ {w} : deskJob'[v] = deskJob[v]
  BY <1>3, DeskSets
<1>5. item[i] \in DeskItem
  BY DEF DeskInv, DeskTypes
<1>6. /\ item'[i] \in DeskItem /\ item'[i].quantity = quantity /\ item'[i].min = item[i].min
      /\ item'[i].live = item[i].live /\ item'[i].code = item[i].code
      /\ \A k \in Desk!Ids \ {i} : item'[k] = item[k]
      /\ item' \in [Desk!Ids -> DeskItem]
  BY <1>1, <1>5 DEF DeskInv, DeskTypes, DeskItem
<1>7. item[i].min \in {0} \cup Levels
  BY <1>5 DEF DeskItem
<1>8. /\ alarm' \in [Desk!Ids -> BOOLEAN] /\ low' \in [Desk!Ids -> SUBSET DeskReasons]
      /\ \A k \in Desk!Ids \ {i} : alarm'[k] = alarm[k] /\ low'[k] = low[k]
      /\ ~Desk!Enough(quantity, item[i].min) =>
           \/ /\ ~Desk!Enough(item[i].quantity, item[i].min)
              /\ alarm'[i] = alarm[i] /\ low'[i] = low[i]
           \/ low'[i] # {}
           \/ Desk!Enough(item[i].quantity, item[i].min)
                /\ (seen = item[i].min \/ Desk!Falls(item[i].quantity, quantity, seen, seen))
  BY <1>1, <1>7, DeskHistory
<1>9. DeskTypes'
  BY <1>4, <1>6, <1>8 DEF DeskInv, DeskTypes
<1>10. ASSUME NEW k \in Desk!Ids, item'[k].live, ~Desk!Enough(item'[k].quantity, item'[k].min)
       PROVE  alarm'[k] \/ low'[k] # {} \/ \E v \in Workers : deskJob'[v].at = "avisa" /\
                deskJob'[v].id = k
  <2>1. CASE k # i
    BY <1>4, <1>6, <1>8, <1>10, <2>1 DEF DeskInv, Desk!LowIsAnnounced
  <2>2. CASE k = i
    <3>1. ~Desk!Enough(quantity, item[i].min)
      BY <1>6, <1>10, <2>2
    <3>2. CASE ~Desk!Enough(item[i].quantity, item[i].min) /\ alarm'[i] = alarm[i]
                 /\ low'[i] = low[i]
      BY <1>4, <2>2, <3>2 DEF DeskInv, Desk!LowIsAnnounced
    <3>3. CASE Desk!Enough(item[i].quantity, item[i].min)
                 /\ (seen = item[i].min \/ Desk!Falls(item[i].quantity, quantity, seen, seen))
      <4>1. Desk!Crosses(item[i].quantity, quantity, seen)
        BY <3>1, <3>3 DEF Desk!Falls, Desk!Crosses
      <4> QED  BY <1>3, <1>4, <2>2, <4>1
    <3> QED  BY <1>8, <2>2, <3>1, <3>2, <3>3
  <2> QED  BY <2>1, <2>2
<1>11. Desk!LowIsAnnounced'
  BY <1>10 DEF Desk!LowIsAnnounced
<1>12. Desk!CodesAreOwn' /\ DeskBorn'
  BY <1>6, DeskCodes
<1>13. DeskTelling' /\ Desk!RestockTold'
  BY <1>3, <1>4, DeskUntouched
<1> QED  BY <1>4, <1>9, <1>11, <1>12, <1>13 DEF DeskInv

(* A handler that writes nothing.                                           *)
LEMMA DeskGivesUp ==
  ASSUME DeskInv, NEW w \in Workers, Desk!Set(w, Desk!NoJob),
         deskJob[w].at \notin {"avisa", "dice"},
         UNCHANGED << item, last, alarm, low, restock, told, untold, refused, requests >>
  PROVE  DeskInv'
<1>1. /\ deskJob' \in [Workers -> DeskJob] /\ (\A v \in Workers : DeskFits(deskJob[v])')
      /\ deskJob'[w] = Desk!NoJob /\ \A v \in Workers \ {w} : deskJob'[v] = deskJob[v]
  BY DeskSets, DeskNoJob
<1>2. DeskTypes'
  BY <1>1 DEF DeskInv, DeskTypes
<1>3. Desk!LowIsAnnounced'
  BY <1>1 DEF DeskInv, Desk!LowIsAnnounced
<1>4. Desk!CodesAreOwn' /\ DeskBorn'
  BY DEF DeskInv, Desk!CodesAreOwn, DeskBorn
<1>5. DeskTelling' /\ Desk!RestockTold'
  BY <1>1, DeskNoJob, DeskUntouched
<1> QED  BY <1>1, <1>2, <1>3, <1>4, <1>5 DEF DeskInv

LEMMA DeskMoveTx ==
  ASSUME DeskInv, NEW w \in Workers, Desk!MoveTx(w) PROVE DeskInv'
<1>1. /\ deskJob[w].at = "mueve" /\ deskJob[w].id \in Desk!Ids
      /\ UNCHANGED << last, restock, told, untold, refused, requests >>
  BY DEF Desk!MoveTx, Desk!restockVars, DeskInv, DeskFits
<1>2. CASE ~item[deskJob[w].id].live
             \/ (deskJob[w].kind = "salida" /\ deskJob[w].amount > item[deskJob[w].id].quantity)
  BY <1>1, <1>2, DeskGivesUp DEF Desk!MoveTx, Desk!lowVars
<1>3. CASE ~(~item[deskJob[w].id].live \/
             (deskJob[w].kind = "salida" /\ deskJob[w].amount > item[deskJob[w].id].quantity))
  <2>1. Desk!WriteStock(w, deskJob[w].id,
          Desk!Balance(deskJob[w].kind, item[deskJob[w].id].quantity, deskJob[w].amount),
          deskJob[w].min)
    BY <1>1, <1>3 DEF Desk!MoveTx
  <2>2. requests' \in 0..MaxDeskRequests
    BY <1>1 DEF DeskInv, DeskTypes
  <2> QED  BY <1>1, <1>3, <2>1, <2>2, DeskWriteStock
<1> QED  BY <1>2, <1>3

LEMMA DeskSheetMoves ==
  ASSUME DeskInv, NEW w \in Workers, NEW i \in Desk!Ids, NEW amount \in 0..MaxStock,
         Desk!SheetMoves(w, i, amount)
  PROVE  DeskInv'
<1>1. /\ item[i].live /\ deskJob[w].at \notin {"avisa", "dice"} /\ requests' \in 0..MaxDeskRequests
      /\ UNCHANGED << last, restock, told, untold, refused >>
  BY DeskNoJob, DeskAssumption DEF Desk!SheetMoves, Desk!restockVars, DeskInv, DeskTypes
<1>2. PICK quantity : Desk!WriteStock(w, i, quantity, item[i].min)
  BY DEF Desk!SheetMoves
<1> QED  BY <1>1, <1>2, DeskWriteStock

LEMMA DeskNotify ==
  ASSUME DeskInv, NEW w \in Workers, Desk!NotifyLowStock(w) PROVE DeskInv'
<1>0. deskJob[w].at = "avisa" /\ deskJob[w].id \in Desk!Ids
  BY DEF Desk!NotifyLowStock, DeskInv, DeskFits
<1>1. /\ deskJob' \in [Workers -> DeskJob] /\ (\A v \in Workers : DeskFits(deskJob[v])')
      /\ deskJob'[w] = Desk!NoJob /\ \A v \in Workers \ {w} : deskJob'[v] = deskJob[v]
  BY DeskSets, DeskNoJob DEF Desk!NotifyLowStock
<1>2. /\ alarm' \in [Desk!Ids -> BOOLEAN] /\ alarm'[deskJob[w].id]
      /\ \A i \in Desk!Ids : alarm[i] => alarm'[i]
  BY <1>0 DEF Desk!NotifyLowStock, DeskInv, DeskTypes
<1>3. DeskTypes'
  BY <1>1, <1>2 DEF Desk!NotifyLowStock, Desk!restockVars, DeskInv, DeskTypes
<1>4. Desk!LowIsAnnounced'
  BY <1>1, <1>2 DEF Desk!NotifyLowStock, DeskInv, Desk!LowIsAnnounced
<1>5. Desk!CodesAreOwn' /\ DeskBorn'
  BY DEF Desk!NotifyLowStock, Desk!restockVars, DeskInv, Desk!CodesAreOwn, DeskBorn
<1>6. DeskTelling' /\ Desk!RestockTold'
  BY <1>0, <1>1, DeskNoJob, DeskUntouched DEF Desk!NotifyLowStock, Desk!restockVars
<1> QED  BY <1>1, <1>3, <1>4, <1>5, <1>6 DEF DeskInv

-----------------------------------------------------------------------------
(* Codes.                                                                   *)

(* The code EMD-i of an article to come is free, and so is any code nobody  *)
(* has.                                                                     *)
LEMMA DeskCreateTx ==
  ASSUME DeskInv, NEW w \in Workers, Desk!CreateTx(w) PROVE DeskInv'
<1> DEFINE i == last + 1
           code == IF deskJob[w].code = 0 THEN i ELSE deskJob[w].code
<1>1. /\ deskJob[w].at = "crea" /\ i \in Desk!Ids /\ last' = i /\ last \in Desk!Ids
      /\ i \in Nat /\ last < i
      /\ UNCHANGED << alarm, restock, told, untold, requests >>
  BY DeskNumbers DEF Desk!CreateTx, Desk!restockVars, DeskInv, DeskTypes
<1>2. /\ deskJob' \in [Workers -> DeskJob] /\ (\A v \in Workers : DeskFits(deskJob[v])')
      /\ deskJob'[w] = Desk!NoJob /\ \A v \in Workers \ {w} : deskJob'[v] = deskJob[v]
  BY DeskSets, DeskNoJob DEF Desk!CreateTx
<1>3. /\ deskJob[w].amount \in 0..MaxStock /\ deskJob[w].min \in {0} \cup Levels
      /\ code \in {i} \cup Custom
  BY <1>1 DEF DeskInv, DeskTypes, DeskJob, DeskFits
<1>4. \A k \in Desk!Ids : item[k].live => k <= last /\ k # i /\ item[k].code \in Custom \cup {k}
  BY <1>1, DeskNumbers DEF DeskInv, DeskBorn, Desk!CodesAreOwn
<1>5. deskJob[w].code = 0 => Desk!Free(code, 0)
  BY <1>1, <1>4, DeskNumbers DEF Desk!Free
<1>6. DeskTelling' /\ Desk!RestockTold'
  BY <1>1, <1>2, DeskNoJob, DeskUntouched
<1>7. CASE ~Desk!Free(code, 0)
  <2>1. item' = item /\ low' = low /\ refused' = refused
    BY <1>5, <1>7 DEF Desk!CreateTx, DeskInv, DeskTypes
  <2>2. DeskTypes'
    BY <1>1, <1>2, <2>1 DEF DeskInv, DeskTypes
  <2>3. Desk!LowIsAnnounced'
    BY <1>1, <1>2, <2>1 DEF DeskInv, Desk!LowIsAnnounced
  <2>4. Desk!CodesAreOwn' /\ DeskBorn'
    BY <1>1, <1>4, <2>1, DeskNumbers DEF DeskInv, Desk!CodesAreOwn, DeskBorn
  <2> QED  BY <1>2, <1>6, <2>2, <2>3, <2>4 DEF DeskInv
<1>8. CASE Desk!Free(code, 0)
  <2>1. PICK new : new = [live |-> TRUE, quantity |-> deskJob[w].amount,
               min |-> deskJob[w].min, code |-> code]
    OBVIOUS
  <2>2. /\ item' = [item EXCEPT ![i] = new]
        /\ low' = [low EXCEPT ![i] = IF Desk!Enough(deskJob[w].amount,
             deskJob[w].min) THEN {} ELSE {"alta"}]
        /\ refused' = refused
    BY <1>8, <2>1 DEF Desk!CreateTx
  <2>3. /\ new \in DeskItem /\ new.quantity = deskJob[w].amount /\ new.min = deskJob[w].min
        /\ new.code = code
    BY <1>1, <1>3, <2>1 DEF DeskItem
  <2>4. /\ item' \in [Desk!Ids -> DeskItem] /\ item'[i] = new
        /\ \A k \in Desk!Ids \ {i} : item'[k] = item[k]
    BY <1>1, <2>2, <2>3 DEF DeskInv, DeskTypes
  <2>5. /\ low' \in [Desk!Ids -> SUBSET DeskReasons] /\ \A k \in Desk!Ids \ {i} : low'[k] = low[k]
        /\ ~Desk!Enough(deskJob[w].amount, deskJob[w].min) => low'[i] # {}
    <3>1. low \in [Desk!Ids -> SUBSET DeskReasons]
      BY DEF DeskInv, DeskTypes
    <3> QED  BY <1>1, <2>2, <3>1 DEF DeskReasons
  <2>6. DeskTypes'
    BY <1>1, <1>2, <2>2, <2>4, <2>5 DEF DeskInv, DeskTypes
  <2>7. Desk!LowIsAnnounced'
    BY <1>1, <1>2, <2>3, <2>4, <2>5 DEF DeskInv, Desk!LowIsAnnounced
  <2>8. \A k \in Desk!Ids \ {i} : item[k].live => item[k].code # code
    BY <1>8, DeskNumbers DEF Desk!Free
  <2>9. Desk!CodesAreOwn'
    BY <1>1, <1>3, <2>2, <2>3, <2>4, <2>8 DEF DeskInv, Desk!CodesAreOwn
  <2>10. DeskBorn'
    BY <1>1, <1>4, <2>4, DeskNumbers DEF DeskInv, DeskBorn
  <2> QED  BY <1>2, <1>6, <2>6, <2>7, <2>9, <2>10 DEF DeskInv
<1> QED  BY <1>7, <1>8

LEMMA DeskUpdateWrite ==
  ASSUME DeskInv, NEW w \in Workers, Desk!UpdateWrite(w) PROVE DeskInv'
<1>1. PICK i \in Desk!Ids : i = deskJob[w].id
  BY DEF Desk!UpdateWrite, DeskInv, DeskFits
<1>2. PICK code : code = IF deskJob[w].code = 0 THEN item[i].code ELSE deskJob[w].code
  OBVIOUS
<1>3. PICK min : min = IF deskJob[w].min = Desk!Keep THEN item[i].min ELSE deskJob[w].min
  OBVIOUS
<1>4. /\ deskJob[w].at = "edita"
      /\ UNCHANGED << last, restock, told, untold, refused, requests >>
  BY DEF Desk!UpdateWrite, Desk!restockVars
<1>5. CASE ~(item[i].live /\ Desk!Free(code, i))
  BY <1>1, <1>2, <1>4, <1>5, DeskGivesUp DEF Desk!UpdateWrite, Desk!lowVars
<1>6. CASE item[i].live /\ Desk!Free(code, i)
  <2>1. /\ item' = [item EXCEPT ![i].code = code, ![i].min = min]
        /\ Desk!History(i, item[i].quantity, min, item[i].min)
        /\ Desk!Set(w, Desk!NoJob)
    BY <1>1, <1>2, <1>3, <1>6 DEF Desk!UpdateWrite
  <2>2. /\ item[i] \in DeskItem /\ deskJob[w] \in DeskJob
        /\ item[i].quantity \in 0..MaxStock /\ item[i].min \in {0} \cup Levels
        /\ min \in {0} \cup Levels
    BY <1>3 DEF DeskInv, DeskTypes, DeskItem, DeskJob
  <2>3. code \in Custom \cup {i}
    <3>1. deskJob[w].code \in {0, i} \cup Custom
      BY <1>1, <1>4 DEF DeskInv, DeskFits
    <3>2. item[i].code \in Custom \cup {i}
      BY <1>6 DEF DeskInv, Desk!CodesAreOwn
    <3> QED  BY <1>2, <3>1, <3>2
  <2>4. /\ item'[i] \in DeskItem /\ item'[i].quantity = item[i].quantity /\ item'[i].min = min
        /\ item'[i].live = item[i].live /\ item'[i].code = code
        /\ \A k \in Desk!Ids \ {i} : item'[k] = item[k]
        /\ item' \in [Desk!Ids -> DeskItem]
    BY <2>1, <2>2, <2>3 DEF DeskInv, DeskTypes, DeskItem
  <2>5. /\ deskJob' \in [Workers -> DeskJob] /\ (\A v \in Workers : DeskFits(deskJob[v])')
        /\ deskJob'[w] = Desk!NoJob /\ \A v \in Workers \ {w} : deskJob'[v] = deskJob[v]
    BY <2>1, DeskSets, DeskNoJob
  <2>6. /\ alarm' \in [Desk!Ids -> BOOLEAN] /\ low' \in [Desk!Ids -> SUBSET DeskReasons]
        /\ \A k \in Desk!Ids \ {i} : alarm'[k] = alarm[k] /\ low'[k] = low[k]
        /\ ~Desk!Enough(item[i].quantity, min) =>
             \/ /\ ~Desk!Enough(item[i].quantity, item[i].min)
                /\ alarm'[i] = alarm[i] /\ low'[i] = low[i]
             \/ low'[i] # {}
             \/ /\ Desk!Enough(item[i].quantity, item[i].min)
                /\ \/ item[i].min = min
                   \/ Desk!Falls(item[i].quantity, item[i].quantity, item[i].min, item[i].min)
    BY <2>1, <2>2, DeskHistory
  <2>7. DeskTypes'
    BY <1>4, <2>4, <2>5, <2>6 DEF DeskInv, DeskTypes
  <2>8. Desk!LowIsAnnounced'
    <3>1. ~Desk!Enough(item[i].quantity, min) =>
             \/ /\ ~Desk!Enough(item[i].quantity, item[i].min)
                /\ alarm'[i] = alarm[i] /\ low'[i] = low[i]
             \/ low'[i] # {}
      BY <2>6 DEF Desk!Falls
    <3> QED  BY <1>4, <2>4, <2>5, <2>6, <3>1 DEF DeskInv, Desk!LowIsAnnounced
  <2>9. Desk!CodesAreOwn'
    BY <1>4, <1>6, <2>3, <2>4 DEF DeskInv, Desk!CodesAreOwn, Desk!Free
  <2>10. DeskBorn'
    BY <1>4, <2>4 DEF DeskInv, DeskBorn
  <2>11. DeskTelling' /\ Desk!RestockTold'
    BY <1>4, <2>5, DeskNoJob, DeskUntouched
  <2> QED  BY <2>5, <2>7, <2>8, <2>9, <2>10, <2>11 DEF DeskInv
<1> QED  BY <1>5, <1>6

LEMMA DeskRemove ==
  ASSUME DeskInv, NEW i \in Desk!Ids, Desk!Remove(i) PROVE DeskInv'
<1>1. /\ UNCHANGED << last, deskJob, alarm, told, untold, refused >>
      /\ requests' \in 0..MaxDeskRequests
      /\ item' = [item EXCEPT ![i] = Desk!NoItem] /\ low' = [low EXCEPT ![i] = {}]
      /\ restock' = IF restock.item = i THEN [restock EXCEPT !.item = 0] ELSE restock
  BY DeskAssumption DEF Desk!Remove, DeskInv, DeskTypes
<1>2. Desk!NoItem \in DeskItem /\ Desk!NoItem.live = FALSE
  BY DeskNumbers DEF Desk!NoItem, DeskItem
<1>3. /\ item' \in [Desk!Ids -> DeskItem] /\ item'[i].live = FALSE
      /\ \A k \in Desk!Ids \ {i} : item'[k] = item[k]
  BY <1>1, <1>2 DEF DeskInv, DeskTypes
<1>4. low' \in [Desk!Ids -> SUBSET DeskReasons] /\ \A k \in Desk!Ids \ {i} : low'[k] = low[k]
  BY <1>1 DEF DeskInv, DeskTypes
<1>5. restock' \in DeskRestock /\ restock'.status = restock.status
      /\ (restock' # Desk!NoRestock => restock # Desk!NoRestock)
  BY <1>1, DeskNumbers DEF DeskInv, DeskTypes, DeskRestock, Desk!NoRestock
<1>6. DeskTypes'
  BY <1>1, <1>3, <1>4, <1>5 DEF DeskInv, DeskTypes
<1>7. \A w \in Workers : DeskFits(deskJob[w])'
  BY <1>1 DEF DeskInv, DeskFits
<1>8. Desk!LowIsAnnounced' /\ Desk!CodesAreOwn' /\ DeskBorn'
  BY <1>1, <1>3, <1>4, <1>5 DEF DeskInv, Desk!LowIsAnnounced, Desk!CodesAreOwn, DeskBorn
<1>9. DeskTelling' /\ Desk!RestockTold'
  BY <1>1, <1>5 DEF DeskInv, DeskTelling, Desk!RestockTold
<1> QED  BY <1>6, <1>7, <1>8, <1>9 DEF DeskInv

-----------------------------------------------------------------------------
(* Requests to restock.                                                     *)

(* A step that leaves the articles alone, by a handler that owes no notice. *)
LEMMA DeskArticles ==
  ASSUME DeskInv, NEW w \in Workers, \A v \in Workers \ {w} : deskJob'[v] = deskJob[v],
         UNCHANGED << item, last, alarm, low, refused >>, deskJob[w].at # "avisa",
         restock' # Desk!NoRestock => restock'.status \in RestockStatuses
  PROVE  Desk!LowIsAnnounced' /\ Desk!CodesAreOwn' /\ DeskBorn'
BY DEF DeskInv, Desk!LowIsAnnounced, Desk!CodesAreOwn, DeskBorn

LEMMA DeskRestockCreate ==
  ASSUME DeskInv, NEW w \in Workers, Desk!RestockCreate(w) PROVE DeskInv'
<1>1. /\ deskJob[w].at = "pide" /\ UNCHANGED << item, last, alarm, low, untold, refused, requests >>
  BY DEF Desk!RestockCreate, Desk!lowVars
<1>2. /\ deskJob' \in [Workers -> DeskJob] /\ (\A v \in Workers : DeskFits(deskJob[v])')
      /\ deskJob'[w] = Desk!NoJob /\ \A v \in Workers \ {w} : deskJob'[v] = deskJob[v]
  BY DeskSets, DeskNoJob DEF Desk!RestockCreate
<1>3. CASE restock = Desk!NoRestock /\ (deskJob[w].id # 0 => item[deskJob[w].id].live)
  <2>1. restock' = [status |-> Desk!New, item |-> deskJob[w].id] /\ told' = Desk!New
    BY <1>3 DEF Desk!RestockCreate
  <2>2. restock' \in DeskRestock /\ restock'.status = Desk!New /\ Desk!New \in RestockStatuses
    BY <2>1, DeskAssumption DEF DeskInv, DeskTypes, DeskJob, DeskRestock
  <2>3. DeskTypes'
    BY <1>1, <1>2, <2>1, <2>2 DEF DeskInv, DeskTypes
  <2>4. Desk!LowIsAnnounced' /\ Desk!CodesAreOwn' /\ DeskBorn'
    BY <1>1, <1>2, <2>2, DeskArticles
  <2>5. Desk!RestockTold'
    BY <2>1, <2>2 DEF Desk!RestockTold
  <2>6. DeskTelling'
    <3>1. restock.status \notin RestockStatuses
      BY <1>3, DeskAssumption DEF Desk!NoRestock
    <3>2. \A v \in Workers : ~untold /\ deskJob[v].at = "dice" =>
            deskJob[v].to = restock.status /\ deskJob[v].to \in RestockStatuses
      BY DEF DeskInv, DeskTelling, DeskFits
    <3> QED  BY <1>1, <1>2, <3>1, <3>2, DeskNoJob DEF DeskTelling
  <2> QED  BY <1>2, <2>3, <2>4, <2>5, <2>6 DEF DeskInv
<1>4. CASE ~(restock = Desk!NoRestock /\ (deskJob[w].id # 0 => item[deskJob[w].id].live))
  BY <1>1, <1>4, DeskGivesUp DEF Desk!RestockCreate
<1> QED  BY <1>3, <1>4

LEMMA DeskStatusWrite ==
  ASSUME DeskInv, NEW w \in Workers, Desk!StatusWrite(w) PROVE DeskInv'
<1>1. PICK old \in DeskJob : old = deskJob[w]
  BY DEF DeskInv, DeskTypes
<1>2. /\ old.at = "atiende" /\ old.to \in RestockStatuses
      /\ UNCHANGED << item, last, alarm, low, refused, requests >>
      /\ restock' = [restock EXCEPT !.status = old.to]
      /\ told' = IF old.self THEN old.to ELSE told
      /\ untold' = (Desk!Overlaps(w) \/ (~old.self /\ old.seen = old.to /\ restock.status # old.to)
                      \/ (untold /\ ~Desk!Telling(old) /\ ~old.self))
  BY <1>1 DEF Desk!StatusWrite, Desk!lowVars, DeskInv, DeskFits
<1>3. PICK j : j = IF Desk!Telling(old) THEN [Desk!NoJob EXCEPT !.at = "dice",
             !.to = old.to] ELSE Desk!NoJob
  OBVIOUS
<1>4. /\ j \in DeskJob /\ DeskFits(j) /\ Desk!Set(w, j) /\ j.at \in {"libre", "dice"}
      /\ Desk!Telling(old) <=> j.at = "dice"
      /\ j.at = "dice" => j.to = old.to
  <2>1. CASE Desk!Telling(old)
    <3>0. old.to \in RestockStatuses /\ j = [Desk!NoJob EXCEPT !.at = "dice", !.to = old.to]
      BY <1>2, <1>3, <2>1
    <3>1. j \in DeskJob /\ j.at = "dice" /\ j.to = old.to
      BY <3>0, DeskNoJob DEF DeskJob
    <3>2. DeskFits(j)
      BY <1>2, <3>1 DEF DeskFits
    <3> QED  BY <1>1, <1>3, <2>1, <3>1, <3>2 DEF Desk!StatusWrite
  <2>2. CASE ~Desk!Telling(old)
    BY <1>1, <1>3, <2>2, DeskNoJob DEF Desk!StatusWrite
  <2> QED  BY <2>1, <2>2
<1>5. /\ deskJob' \in [Workers -> DeskJob] /\ (\A v \in Workers : DeskFits(deskJob[v])')
      /\ deskJob'[w] = j /\ \A v \in Workers \ {w} : deskJob'[v] = deskJob[v]
  BY <1>4, DeskSets
<1>6. restock' \in DeskRestock /\ restock'.status = old.to
  BY <1>2 DEF DeskInv, DeskTypes, DeskRestock
<1>7. DeskTypes'
  <2>1. told' \in {"no"} \cup RestockStatuses /\ untold' \in BOOLEAN
    BY <1>2 DEF DeskInv, DeskTypes
  <2> QED  BY <1>2, <1>5, <1>6, <2>1 DEF DeskInv, DeskTypes
<1>8. Desk!LowIsAnnounced' /\ Desk!CodesAreOwn' /\ DeskBorn'
  BY <1>1, <1>2, <1>5, <1>6, DeskArticles
<1>9. ASSUME ~untold' PROVE \A v \in Workers \ {w} : deskJob'[v].at # "dice"
  BY <1>2, <1>5, <1>9 DEF Desk!Overlaps
<1>10. DeskTelling'
  BY <1>4, <1>5, <1>6, <1>9 DEF DeskTelling
<1>11. Desk!RestockTold'
  <2>1. ASSUME ~untold', \A v \in Workers : deskJob'[v].at # "dice" PROVE told' = old.to
    <3>1. CASE old.self
      BY <1>2, <3>1
    <3>2. CASE ~old.self
      <4>1. old.seen = old.to /\ restock.status = old.to /\ ~untold
        BY <1>2, <1>4, <1>5, <2>1, <3>2 DEF Desk!Telling
      <4>2. restock # Desk!NoRestock
        BY <1>2, <4>1, DeskAssumption DEF Desk!NoRestock
      <4>3. \A v \in Workers : deskJob[v].at # "dice"
        BY <1>1, <1>2, <1>5, <2>1
      <4> QED  BY <1>2, <3>2, <4>1, <4>2, <4>3 DEF DeskInv, Desk!RestockTold
    <3> QED  BY <3>1, <3>2
  <2> QED  BY <1>6, <2>1 DEF Desk!RestockTold
<1> QED  BY <1>5, <1>7, <1>8, <1>10, <1>11 DEF DeskInv

LEMMA DeskTellStatus ==
  ASSUME DeskInv, NEW w \in Workers, Desk!TellStatus(w) PROVE DeskInv'
<1>1. /\ deskJob[w].at = "dice" /\ told' = deskJob[w].to /\ deskJob[w].to \in RestockStatuses
      /\ UNCHANGED << item, last, alarm, low, restock, untold, refused, requests >>
  BY DEF Desk!TellStatus, Desk!lowVars, DeskInv, DeskFits
<1>2. /\ deskJob' \in [Workers -> DeskJob] /\ (\A v \in Workers : DeskFits(deskJob[v])')
      /\ deskJob'[w] = Desk!NoJob /\ \A v \in Workers \ {w} : deskJob'[v] = deskJob[v]
  BY DeskSets, DeskNoJob DEF Desk!TellStatus
<1>3. DeskTypes'
  BY <1>1, <1>2 DEF DeskInv, DeskTypes
<1>4. Desk!LowIsAnnounced' /\ Desk!CodesAreOwn' /\ DeskBorn'
  BY <1>1, <1>2, DeskArticles DEF DeskInv, DeskBorn
<1>5. DeskTelling' /\ Desk!RestockTold'
  BY <1>1, <1>2, DeskNoJob DEF DeskInv, DeskTelling, Desk!RestockTold
<1> QED  BY <1>2, <1>3, <1>4, <1>5 DEF DeskInv

LEMMA DeskGiveUp ==
  ASSUME DeskInv, NEW w \in Workers, Desk!GiveUp(w) PROVE DeskInv'
<1>1. /\ UNCHANGED << item, last, alarm, restock, told, refused, requests >>
      /\ low' = IF deskJob[w].at = "avisa" THEN [low EXCEPT ![deskJob[w].id] = @ \cup
           {"caida"}] ELSE low
      /\ untold' = (untold \/ deskJob[w].at = "dice")
  BY DEF Desk!GiveUp
<1>2. /\ deskJob' \in [Workers -> DeskJob] /\ (\A v \in Workers : DeskFits(deskJob[v])')
      /\ deskJob'[w] = Desk!NoJob /\ \A v \in Workers \ {w} : deskJob'[v] = deskJob[v]
  BY DeskSets, DeskNoJob DEF Desk!GiveUp
<1>3. /\ low' \in [Desk!Ids -> SUBSET DeskReasons] /\ \A i \in Desk!Ids : low[i] \subseteq low'[i]
      /\ deskJob[w].at = "avisa" => low'[deskJob[w].id] # {}
  <2>1. /\ low \in [Desk!Ids -> SUBSET DeskReasons]
        /\ (deskJob[w].at = "avisa" => deskJob[w].id \in Desk!Ids)
    BY DEF DeskInv, DeskTypes, DeskFits
  <2> QED  BY <1>1, <2>1 DEF DeskReasons
<1>4. DeskTypes'
  BY <1>1, <1>2, <1>3 DEF DeskInv, DeskTypes
<1>5. Desk!LowIsAnnounced' /\ Desk!CodesAreOwn' /\ DeskBorn'
  BY <1>1, <1>2, <1>3 DEF DeskInv, Desk!LowIsAnnounced, Desk!CodesAreOwn, DeskBorn
<1>6. DeskTelling' /\ Desk!RestockTold'
  BY <1>1, <1>2, DeskNoJob DEF DeskInv, DeskTelling, Desk!RestockTold
<1> QED  BY <1>2, <1>4, <1>5, <1>6 DEF DeskInv

-----------------------------------------------------------------------------
LEMMA DeskInvStep == ASSUME DeskInv, Desk!Next PROVE DeskInv'
<1>1. ASSUME NEW w \in Workers,
             Desk!MoveTx(w) \/ Desk!NotifyLowStock(w) \/ Desk!CreateTx(w) \/ Desk!UpdateWrite(w)
               \/ Desk!RestockCreate(w) \/ Desk!StatusWrite(w) \/ Desk!TellStatus(w)
                    \/ Desk!GiveUp(w)
      PROVE  DeskInv'
  BY <1>1, DeskMoveTx, DeskNotify, DeskCreateTx, DeskUpdateWrite, DeskRestockCreate,
     DeskStatusWrite, DeskTellStatus, DeskGiveUp
<1>2. ASSUME NEW w \in Workers, NEW i \in Desk!Ids, NEW amount \in 0..MaxStock,
             NEW kind \in {"entrada", "salida", "ajuste"}, Desk!MoveRead(w, i, kind, amount)
      PROVE  DeskInv'
  BY <1>2, DeskMoveRead
<1>3. ASSUME NEW w \in Workers, NEW i \in Desk!Ids, NEW amount \in 0..MaxStock,
             Desk!SheetMoves(w, i, amount)
      PROVE  DeskInv'
  BY <1>3, DeskSheetMoves
<1>4. ASSUME NEW w \in Workers, NEW code \in {0} \cup Custom \cup Desk!Ids,
             NEW min \in Levels \cup {Desk!Keep},
             NEW quantity \in 0..MaxStock, min # Desk!Keep, Desk!CreateRead(w, code, quantity, min)
      PROVE  DeskInv'
  BY <1>4, DeskCreateRead
<1>5. ASSUME NEW w \in Workers, NEW code \in {0} \cup Custom \cup Desk!Ids,
             NEW min \in Levels \cup {Desk!Keep},
             NEW i \in Desk!Ids, Desk!UpdateRead(w, i, code, min)
      PROVE  DeskInv'
  BY <1>5, DeskUpdateRead
<1>6. ASSUME NEW i \in Desk!Ids, Desk!Remove(i) PROVE DeskInv'
  BY <1>6, DeskRemove
<1>7. ASSUME NEW w \in Workers, NEW i \in {0} \cup Desk!Ids, Desk!RestockRead(w, i) PROVE DeskInv'
  BY <1>7, DeskRestockRead
<1>8. ASSUME NEW w \in Workers, NEW to \in RestockStatuses, NEW self \in BOOLEAN,
             Desk!StatusRead(w, to, self)
      PROVE  DeskInv'
  BY <1>8, DeskStatusRead
<1> QED  BY <1>1, <1>2, <1>3, <1>4, <1>5, <1>6, <1>7, <1>8 DEF Desk!Next

LEMMA DeskInvKept == ASSUME DeskInv, UNCHANGED Desk!vars PROVE DeskInv'
BY DEF Desk!vars, DeskInv, DeskTypes, DeskFits, DeskBorn, Desk!LowIsAnnounced,
   Desk!CodesAreOwn, DeskTelling,
       Desk!RestockTold

-----------------------------------------------------------------------------
(* The whole: the invariant of the machine that is the subject.             *)

OrderRecordInv ==
  /\ subject \in {"archivos", "tableros", "articulos"}
  /\ subject = "archivos"  => FileInv
  /\ subject = "tableros"  => BoardInv
  /\ subject = "articulos" => DeskInv

LEMMA OrderRecordInvInit == Init => OrderRecordInv
<1> SUFFICES ASSUME Init PROVE OrderRecordInv
  OBVIOUS
<1>1. \/ subject = "archivos" /\ Files!Init
      \/ subject = "tableros" /\ Boards!Init
      \/ subject = "articulos" /\ Desk!Init
  BY DEF Init
<1> QED  BY <1>1, FileInvInit, BoardInvInit, DeskInvInit DEF OrderRecordInv

LEMMA OrderRecordInvStep == OrderRecordInv /\ [Next]_vars => OrderRecordInv'
<1> SUFFICES ASSUME OrderRecordInv, [Next]_vars PROVE OrderRecordInv'
  OBVIOUS
<1>1. CASE FilesStep
  <2>1. subject = "archivos" /\ subject' = subject /\ Files!Next
    BY <1>1 DEF FilesStep
  <2> QED  BY <2>1, FileInvStep DEF OrderRecordInv
<1>2. CASE BoardsStep
  <2>1. subject = "tableros" /\ subject' = subject /\ Boards!Next
    BY <1>2 DEF BoardsStep
  <2> QED  BY <2>1, BoardInvStep DEF OrderRecordInv
<1>3. CASE DeskStep
  <2>1. subject = "articulos" /\ subject' = subject /\ Desk!Next
    BY <1>3 DEF DeskStep
  <2> QED  BY <2>1, DeskInvStep DEF OrderRecordInv
<1>4. CASE UNCHANGED vars
  <2>1. subject' = subject
    BY <1>4 DEF vars
  <2>2. UNCHANGED Files!vars
    BY <1>4 DEF vars, fileVars, Files!vars, Files!db, Files!bucket
  <2>3. UNCHANGED Boards!vars
    BY <1>4 DEF vars, boardVars, Boards!vars
  <2>4. UNCHANGED Desk!vars
    BY <1>4 DEF vars, deskVars, Desk!vars
  <2> QED  BY <2>1, <2>2, <2>3, <2>4, FileInvKept, BoardInvKept, DeskInvKept DEF OrderRecordInv
<1> QED  BY <1>1, <1>2, <1>3, <1>4 DEF Next

LEMMA OrderRecordInvSafe ==
  OrderRecordInv => TypeOK /\ FilesReadable /\ OrphansExplained /\ BoardsTell /\ DeskTells
<1> SUFFICES ASSUME OrderRecordInv
             PROVE  TypeOK /\ FilesReadable /\ OrphansExplained /\ BoardsTell /\ DeskTells
  OBVIOUS
<1>1. subject = "archivos" => Files!TypeOK /\ Files!FilesReadable /\ Files!OrphansExplained
  BY FileInvSafe DEF OrderRecordInv
<1>2. subject = "tableros" => Boards!TypeOK /\ Boards!BoardsTell
  BY BoardInvSafe DEF OrderRecordInv
<1>3. subject = "articulos" =>
        Desk!TypeOK /\ Desk!LowIsAnnounced /\ Desk!CodesAreOwn /\ Desk!RestockTold
  BY DeskInvSafe DEF OrderRecordInv
<1> QED  BY <1>1, <1>2, <1>3 DEF TypeOK, FilesReadable, OrphansExplained, BoardsTell, DeskTells

(* In every behaviour the machine that is the subject keeps its invariant.  *)
LEMMA OrderRecordKeepsInv == Spec => []OrderRecordInv
<1> QED  BY OrderRecordInvInit, OrderRecordInvStep, PTL DEF Spec

-----------------------------------------------------------------------------
(* Whatever the number of files, requests, areas, articles... the state of  *)
(* each machine is one its tables and requests can be in.                   *)
THEOREM Type_Correct == Spec => []TypeOK
BY OrderRecordKeepsInv, OrderRecordInvSafe, PTL

(* Every file reads back the last content written to it, whatever request   *)
(* or run of the backfill dies, fails or overlaps another request, unless   *)
(* two runs overlapped or a file in the bucket was replaced under the       *)
(* driver of the database (blob-backfill.ts).                               *)
THEOREM Files_Readable == Spec => []FilesReadable
BY OrderRecordKeepsInv, OrderRecordInvSafe, PTL

(* At rest every object of the bucket is of a row, unless a request died, a *)
(* delete failed, the file changed under a request or two runs overlapped   *)
(* (storage.service.ts and the services of the files).                      *)
THEOREM Orphans_Explained == Spec => []OrphansExplained
BY OrderRecordKeepsInv, OrderRecordInvSafe, PTL

(* An order is in the lists of exactly those who may open it, design's and  *)
(* the areas' work is on the list of somebody, reception and coordination   *)
(* tell what the panels tell, and what is late is told, up to the changes   *)
(* by hand and out of order that BoardsTell names (order.service.ts,        *)
(* dashboard.service.ts, coordination.service.ts).                          *)
THEOREM Boards_Tell == Spec => []BoardsTell
BY OrderRecordKeepsInv, OrderRecordInvSafe, PTL

(* An article that is low was announced, its code is its own and is never   *)
(* refused by one that has none, and whoever asked for more was told what   *)
(* became of it, up to the overlaps and lost notices that LowIsAnnounced    *)
(* and RestockTold name (inventory.service.ts).                             *)
THEOREM Desk_Tells == Spec => []DeskTells
BY OrderRecordKeepsInv, OrderRecordInvSafe, PTL
=============================================================================
