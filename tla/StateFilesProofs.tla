-------------------------- MODULE StateFilesProofs --------------------------
(***************************************************************************)
(* Theorems about StateFiles, for any number of processes, packages, marks *)
(* and operations, and through every fault, kill and power loss.           *)
(***************************************************************************)
EXTENDS StateFiles, FiniteSetTheorems, SequenceTheorems, TLAPS

USE DEF Step

-----------------------------------------------------------------------------
(* Opening the directory                                                   *)

\* StateStore::new never leaves a directory of the user's own in a state that
\* the checks before each later access refuse, whatever access it had.
THEOREM OwnDirectoryIsUsable ==
  ASSUME root \in Node
  PROVE  OwnDirectoryOpens
<1>1. CASE root.kind = "missing"
  BY <1>1 DEF OwnDirectoryOpens, Private, Created, Hardened, Trusted, Owners, Node
<1>2. CASE root.kind = "directory"
  BY <1>2 DEF OwnDirectoryOpens, Private, Created, Hardened, Trusted, Owners, Node
<1> QED
  BY <1>1, <1>2 DEF OwnDirectoryOpens

-----------------------------------------------------------------------------
(* Types and whole files                                                   *)

Appending == {"event", "newline", "sync journal"}
Writing   == {"write", "sync", "rename", "sync directory"}

AppendJob == [id : Event]
EditJob   == {e \in [file : File, marks : Content, change : Change \union {Missing}] :
                e.file = Preferences => e.change \in Change}
ListJob   == [left : SUBSET Package]

\* A process has the job that the call it is at belongs to, and a temporary
\* file between writing it and giving it its name.
JobsFit ==
  \A p \in Proc :
    /\ pc[p] \in Appending => job[p] \in AppendJob
    /\ pc[p] \in Writing => job[p] \in EditJob
    /\ pc[p] = "list" => job[p] \in ListJob
    /\ pc[p] \in {"sync", "rename"} => temp[p] \in Text

Solid == {t \in Text : t.synced} \union {Missing}

\* Every name stands for a text that was synced, now and after a power loss.
WholeInv ==
  /\ \A f \in File : files[f] \in Solid /\ disk[f] \in Solid
  /\ \A p \in Proc : pc[p] = "rename" => temp[p] \in Solid

BaseInv == StoreTyped /\ JobsFit /\ WholeInv
TypeInv == BaseInv /\ PastTyped

LEMMA SolidIsWhole == \A t \in Solid : t \in FileValue /\ t # Torn
  BY TextAssumption DEF Solid, FileValue


LEMMA InitBase == Init => BaseInv
<1> SUFFICES ASSUME Init PROVE BaseInv
  OBVIOUS
<1>1. root \in Node /\ JournalTyped
  <2>1. journal = <<>> /\ onDisk = 0 /\ root \in Place
    BY DEF Init
  <2>2. journal \in Seq(Event \union {Newline, Torn}) /\ Len(journal) = 0
    BY <2>1, EmptySeq
  <2>3. root \in Node
    BY <2>1, StateFilesAssumption
  <2> QED
    BY <2>1, <2>2, <2>3 DEF JournalTyped
<1>2. FilesTyped
  BY DEF Init, FilesTyped, FileValue
<1>3. CallsTyped
  <2>1. [left |-> {}] \in Job
    BY DEF Job
  <2> QED
    BY <2>1 DEF Init, CallsTyped
<1>4. CountsTyped
  <2>1. litter = 0 /\ ops = 0 /\ losses = 0 /\ answered = {} /\ failures = {} /\ cut = FALSE
    BY DEF Init
  <2>2. litter \in Nat /\ ops \in 0..MaxOps /\ losses \in 0..MaxLosses
    BY <2>1, StateFilesAssumption
  <2> QED
    BY <2>1, <2>2 DEF CountsTyped
<1>5. JobsFit
  BY DEF Init, JobsFit, Appending, Writing
<1>6. WholeInv
  BY DEF Init, WholeInv, Solid
<1> QED
  BY <1>1, <1>2, <1>3, <1>4, <1>5, <1>6 DEF TypeInv, BaseInv, StoreTyped

\* The first call of an operation: its job fits, and nothing else changes.
LEMMA BeginKeepsTypes ==
  ASSUME TypeInv, NEW p \in Proc, NEW call, NEW task, Begin(p, call, task),
         \/ call = "event" /\ task \in AppendJob
         \/ call = "write" /\ task \in EditJob
         \/ call = "list" /\ task \in ListJob,
         UNCHANGED <<root, fileVars, temp, litter, losses, answered, since, cut, failures>>
  PROVE  BaseInv'
<1>1. task \in Job
  BY DEF AppendJob, EditJob, ListJob, Job
<1>2. root' \in Node /\ JournalTyped' /\ FilesTyped'
  BY DEF TypeInv, BaseInv, StoreTyped, JournalTyped, FilesTyped, fileVars
<1>3. CallsTyped'
  BY <1>1 DEF TypeInv, BaseInv, StoreTyped, CallsTyped, Begin
<1>4. CountsTyped'
  BY StateFilesAssumption DEF TypeInv, BaseInv, StoreTyped, CountsTyped, Begin
<1>5. JobsFit'
  BY DEF TypeInv, BaseInv, StoreTyped, CallsTyped, JobsFit, Begin, Appending, Writing
<1>6. WholeInv'
  BY DEF TypeInv, BaseInv, StoreTyped, CallsTyped, WholeInv, Begin, fileVars
<1> QED
  BY <1>2, <1>3, <1>4, <1>5, <1>6 DEF TypeInv, BaseInv, StoreTyped

LEMMA BeginsKeepTypes ==
  ASSUME TypeInv, NEW p \in Proc,
         \/ BeginAppend(p) \/ BeginList(p)
         \/ \E m \in Mark : EditPreferences(p, m)
         \/ \E f \in Package, v \in Version : WriteReceipt(p, f, v)
  PROVE  BaseInv'
<1>1. CASE BeginAppend(p)
  <2>1. [id |-> ops + 1] \in AppendJob
    BY <1>1, StateFilesAssumption DEF BeginAppend, Begin, TypeInv, BaseInv, StoreTyped, CountsTyped, AppendJob, Event
  <2> QED
    BY <1>1, <2>1, BeginKeepsTypes DEF BeginAppend
<1>2. CASE BeginList(p)
  <2>1. [left |-> Listing] \in ListJob
    BY DEF ListJob, Listing
  <2> QED
    BY <1>2, <2>1, BeginKeepsTypes DEF BeginList
<1>3. ASSUME NEW m \in Mark, EditPreferences(p, m)
      PROVE  BaseInv'
  <2> DEFINE base == Marks(Preferences)
  <2>1. base \in Content
    BY DEF Marks, TypeInv, BaseInv, WholeInv, Solid, Text, File, Content
  <2>2. PICK set \in BOOLEAN :
          Begin(p, "write", Edit(Preferences, IF set THEN base \union {m} ELSE base \ {m}, ChangeOf(m, set)))
    BY <1>3 DEF EditPreferences
  <2>3. ChangeOf(m, set) \in Change
    <3>1. Len(edits) \in Nat
      BY LenProperties DEF TypeInv, PastTyped
    <3> QED
      BY <3>1 DEF ChangeOf, Change
  <2>4. (IF set THEN base \union {m} ELSE base \ {m}) \in Content
    BY <2>1 DEF Content
  <2> HIDE DEF base
  <2>5. Edit(Preferences, IF set THEN base \union {m} ELSE base \ {m}, ChangeOf(m, set)) \in EditJob
    BY <2>3, <2>4 DEF Edit, EditJob, File
  <2> QED
    BY <1>3, <2>2, <2>5, BeginKeepsTypes DEF EditPreferences
<1>4. ASSUME NEW f \in Package, NEW v \in Version, WriteReceipt(p, f, v)
      PROVE  BaseInv'
  <2>1. Edit(f, {v}, Missing) \in EditJob
    BY StateFilesAssumption DEF Edit, EditJob, File, Content
  <2> QED
    BY <1>4, <2>1, BeginKeepsTypes DEF WriteReceipt
<1> QED
  BY <1>1, <1>2, <1>3, <1>4

\* A call that moves on, or ends, without touching the named files.
LEMMA MoveKeepsTypes ==
  ASSUME TypeInv, NEW p \in Proc, NEW from, NEW to, Step(p, from, to),
         \/ to = "idle"
         \/ from \in Appending /\ to \in Appending
         \/ from \in Writing /\ to \in {"write", "sync directory"}
         \/ from = "list" /\ to = "list",
         UNCHANGED <<job, temp, files, disk>>
  PROVE  CallsTyped' /\ JobsFit' /\ WholeInv'
<1>1. CallsTyped'
  BY DEF TypeInv, BaseInv, StoreTyped, CallsTyped, Appending, Writing
<1>2. JobsFit'
  BY DEF TypeInv, BaseInv, StoreTyped, CallsTyped, JobsFit, Appending, Writing
<1>3. WholeInv'
  BY DEF TypeInv, BaseInv, StoreTyped, CallsTyped, WholeInv, Appending, Writing
<1> QED
  BY <1>1, <1>2, <1>3

LEMMA AppendKeepsTypes ==
  ASSUME TypeInv, NEW p \in Proc, WriteEvent(p) \/ WriteNewline(p) \/ SyncJournal(p)
  PROVE  BaseInv'
<1> DEFINE Write == Event \union {Newline, Torn}
<1>0. journal \in Seq(Write) /\ onDisk \in 0..Len(journal) /\ Len(journal) \in Nat
  BY DEF TypeInv, BaseInv, StoreTyped, JournalTyped
<1>1. pc[p] \in Appending /\ job[p].id \in Event
  BY DEF TypeInv, BaseInv, JobsFit, AppendJob, Appending, WriteEvent, WriteNewline, SyncJournal
<1>2. CallsTyped' /\ JobsFit' /\ WholeInv'
  BY MoveKeepsTypes DEF WriteEvent, WriteNewline, SyncJournal, Appending
<1>3. JournalTyped'
  <2>1. ASSUME NEW x \in Write, journal' = Append(journal, x), onDisk' = onDisk
        PROVE  JournalTyped'
    <3>1. journal' \in Seq(Write) /\ Len(journal') = Len(journal) + 1
      BY <1>0, <2>1, AppendProperties
    <3> HIDE DEF Write
    <3>2. onDisk' \in 0..Len(journal')
      BY <1>0, <2>1, <3>1
    <3> QED
      BY <3>1, <3>2 DEF JournalTyped, Write
  <2>2. CASE journal' = journal /\ onDisk' \in {onDisk, Len(journal)}
    BY <1>0, <2>2 DEF JournalTyped
  <2>3. \/ \E x \in Write : journal' = Append(journal, x) /\ onDisk' = onDisk
        \/ journal' = journal /\ onDisk' \in {onDisk, Len(journal)}
    BY <1>1 DEF WriteEvent, WriteNewline, SyncJournal
  <2> QED
    BY <2>1, <2>2, <2>3
<1>4. CountsTyped'
  BY <1>1 DEF TypeInv, BaseInv, StoreTyped, JournalTyped, CountsTyped, WriteEvent, WriteNewline, SyncJournal
<1>5. root' \in Node /\ FilesTyped'
  BY DEF TypeInv, BaseInv, StoreTyped, FilesTyped, WriteEvent, WriteNewline, SyncJournal
<1> QED
  BY <1>2, <1>3, <1>4, <1>5 DEF TypeInv, BaseInv, StoreTyped
\* The file in hand: its temporary is written, synced and renamed.
LEMMA WriteKeepsTypes ==
  ASSUME TypeInv, NEW p \in Proc,
         WriteTemp(p) \/ SyncTemp(p) \/ Rename(p) \/ SyncDirectory(p)
  PROVE  BaseInv'
<1>1. root' \in Node /\ JournalTyped' /\ job' = job
  BY DEF TypeInv, BaseInv, StoreTyped, JournalTyped, WriteTemp, SyncTemp, Rename, SyncDirectory, fileVars
<1>2. CountsTyped'
  <2>1. litter' \in {litter, litter + 1} /\ UNCHANGED <<ops, losses, answered, cut, failures>>
    BY DEF WriteTemp, SyncTemp, Rename, SyncDirectory
  <2> QED
    BY <2>1 DEF TypeInv, BaseInv, StoreTyped, CountsTyped
<1>3. job[p] \in EditJob /\ pc[p] \in Writing
  BY DEF TypeInv, BaseInv, JobsFit, Writing, WriteTemp, SyncTemp, Rename, SyncDirectory
<1>4. CASE WriteTemp(p)
  <2> DEFINE text == [marks |-> job[p].marks, synced |-> FALSE]
  <2>1. text \in Text
    BY <1>3 DEF EditJob, Text
  <2>2. \/ temp' = temp /\ Step(p, "write", "idle")
        \/ temp' = [temp EXCEPT ![p] = text] /\ pc' = [pc EXCEPT ![p] = "sync"]
    BY <1>4 DEF WriteTemp
  <2>3. files' = files /\ disk' = disk /\ since' = since
    BY <1>4 DEF WriteTemp, fileVars
  <2>4. FilesTyped'
    BY <2>3 DEF TypeInv, BaseInv, StoreTyped, FilesTyped
  <2> HIDE DEF text
  <2>5. CASE temp' = temp /\ Step(p, "write", "idle")
    BY <1>1, <1>2, <2>3, <2>4, <2>5, MoveKeepsTypes DEF TypeInv, BaseInv, StoreTyped
  <2>6. CASE temp' = [temp EXCEPT ![p] = text] /\ pc' = [pc EXCEPT ![p] = "sync"]
    <3>1. CallsTyped'
      BY <1>1, <2>1, <2>6 DEF TypeInv, BaseInv, StoreTyped, CallsTyped
    <3>2. JobsFit'
      BY <1>1, <1>3, <2>1, <2>6 DEF TypeInv, BaseInv, StoreTyped, CallsTyped, JobsFit, Appending, Writing
    <3>3. WholeInv'
      BY <2>3, <2>6 DEF TypeInv, BaseInv, StoreTyped, CallsTyped, WholeInv
    <3> QED
      BY <1>1, <1>2, <2>4, <3>1, <3>2, <3>3 DEF TypeInv, BaseInv, StoreTyped
  <2> QED
    BY <2>2, <2>5, <2>6
<1>5. CASE SyncTemp(p)
  <2> DEFINE text == [temp[p] EXCEPT !.synced = TRUE]
  <2>1. text \in Text /\ text.synced
    BY <1>5 DEF TypeInv, BaseInv, JobsFit, SyncTemp, Text
  <2>2. \/ temp' = [temp EXCEPT ![p] = text] /\ pc' = [pc EXCEPT ![p] = "rename"]
        \/ temp' = [temp EXCEPT ![p] = Missing] /\ pc' = [pc EXCEPT ![p] = "idle"]
    BY <1>5 DEF SyncTemp
  <2> HIDE DEF text
  <2>3. files' = files /\ disk' = disk /\ since' = since
    BY <1>5 DEF SyncTemp, fileVars
  <2>4. FilesTyped'
    BY <2>3 DEF TypeInv, BaseInv, StoreTyped, FilesTyped
  <2>5. CallsTyped'
    BY <1>1, <2>1, <2>2 DEF TypeInv, BaseInv, StoreTyped, CallsTyped
  <2>6. JobsFit'
    BY <1>1, <1>3, <2>1, <2>2 DEF TypeInv, BaseInv, StoreTyped, CallsTyped, JobsFit, Appending, Writing
  <2>7. WholeInv'
    BY <2>1, <2>2, <2>3 DEF TypeInv, BaseInv, StoreTyped, CallsTyped, WholeInv, Solid
  <2> QED
    BY <1>1, <1>2, <2>4, <2>5, <2>6, <2>7 DEF TypeInv, BaseInv, StoreTyped
<1>6. CASE Rename(p)
  <2> DEFINE f == job[p].file
  <2>1. f \in File /\ temp[p] \in Solid /\ temp[p] \in FileValue
    BY <1>3, <1>6, SolidIsWhole DEF EditJob, Rename, TypeInv, BaseInv, WholeInv
  <2>2. /\ temp' = [temp EXCEPT ![p] = Missing] /\ disk' = disk
        /\ \/ /\ files' = [files EXCEPT ![f] = temp[p]]
              /\ since' = [since EXCEPT ![f] = @ \union {temp[p]}]
              /\ pc' = [pc EXCEPT ![p] = "sync directory"]
           \/ UNCHANGED <<files, since>> /\ pc' = [pc EXCEPT ![p] = "idle"]
    BY <1>6 DEF Rename
  <2> HIDE DEF f
  <2>4. FilesTyped'
    <3>1. CASE UNCHANGED <<files, since>>
      BY <2>2, <3>1 DEF TypeInv, BaseInv, StoreTyped, FilesTyped
    <3>2. CASE files' = [files EXCEPT ![f] = temp[p]] /\ since' = [since EXCEPT ![f] = @ \union {temp[p]}]
      <4>1. since[f] \union {temp[p]} \in SUBSET FileValue
        BY <2>1 DEF TypeInv, BaseInv, StoreTyped, FilesTyped
      <4> QED
        BY <2>1, <2>2, <3>2, <4>1 DEF TypeInv, BaseInv, StoreTyped, FilesTyped
    <3> QED
      BY <2>2, <3>1, <3>2
  <2>5. CallsTyped'
    BY <1>1, <2>2 DEF TypeInv, BaseInv, StoreTyped, CallsTyped
  <2>6. JobsFit'
    BY <1>1, <1>3, <2>2 DEF TypeInv, BaseInv, StoreTyped, CallsTyped, JobsFit, Appending, Writing
  <2>7. WholeInv'
    BY <2>1, <2>2 DEF TypeInv, BaseInv, StoreTyped, CallsTyped, FilesTyped, WholeInv
  <2> QED
    BY <1>1, <1>2, <2>4, <2>5, <2>6, <2>7 DEF TypeInv, BaseInv, StoreTyped
<1>7. CASE SyncDirectory(p)
  <2> DEFINE synced == Siblings(job[p].file)
  <2>1. /\ temp' = temp /\ files' = files /\ pc' = [pc EXCEPT ![p] = "idle"]
        /\ \/ /\ disk' = [g \in File |-> IF g \in synced THEN files[g] ELSE disk[g]]
              /\ since' = [g \in File |-> IF g \in synced THEN {files[g]} ELSE since[g]]
           \/ UNCHANGED <<disk, since>>
    BY <1>7 DEF SyncDirectory
  <2> HIDE DEF synced
  <2>4. FilesTyped'
    BY <2>1 DEF TypeInv, BaseInv, StoreTyped, FilesTyped
  <2>5. CallsTyped'
    BY <1>1, <2>1 DEF TypeInv, BaseInv, StoreTyped, CallsTyped
  <2>6. JobsFit'
    BY <1>1, <2>1 DEF TypeInv, BaseInv, StoreTyped, CallsTyped, JobsFit, Appending, Writing
  <2>7. WholeInv'
    BY <2>1 DEF TypeInv, BaseInv, StoreTyped, CallsTyped, FilesTyped, WholeInv
  <2> QED
    BY <1>1, <1>2, <2>4, <2>5, <2>6, <2>7 DEF TypeInv, BaseInv, StoreTyped
<1> QED
  BY <1>4, <1>5, <1>6, <1>7

\* Removing a receipt, and reading them all.
LEMMA ReceiptsKeepTypes ==
  ASSUME TypeInv, NEW p \in Proc, ReadNext(p) \/ \E f \in Package : RemoveReceipt(p, f)
  PROVE  BaseInv'
<1>1. CASE ReadNext(p)
  <2>1. job[p] \in ListJob /\ pc[p] = "list"
    BY <1>1 DEF ReadNext, TypeInv, BaseInv, JobsFit
  <2>2. root' \in Node /\ JournalTyped' /\ FilesTyped' /\ files' = files /\ disk' = disk /\ temp' = temp
    BY <1>1 DEF ReadNext, TypeInv, BaseInv, StoreTyped, JournalTyped, FilesTyped, fileVars
  <2>3. CountsTyped'
    <3>1. failures' \subseteq FileValue
      BY <1>1 DEF ReadNext, TypeInv, BaseInv, StoreTyped, CountsTyped, FilesTyped, FileValue
    <3> QED
      BY <1>1, <3>1 DEF ReadNext, TypeInv, BaseInv, StoreTyped, CountsTyped
  <2>4. CASE job' = job
    BY <1>1, <2>2, <2>3, <2>4, MoveKeepsTypes DEF ReadNext, TypeInv, BaseInv, StoreTyped
  <2>5. ASSUME NEW g \in job[p].left, job' = [job EXCEPT ![p].left = @ \ {g}], pc' = [pc EXCEPT ![p] = "list"]
        PROVE  BaseInv'
    <3> DEFINE rest == [job[p] EXCEPT !.left = @ \ {g}]
    <3>1. rest \in ListJob /\ rest \in Job /\ job' = [job EXCEPT ![p] = rest]
      BY <2>1, <2>5 DEF ListJob, Job
    <3> HIDE DEF rest
    <3>2. CallsTyped'
      BY <2>2, <2>5, <3>1 DEF TypeInv, BaseInv, StoreTyped, CallsTyped
    <3>3. JobsFit'
      BY <2>2, <2>5, <3>1 DEF TypeInv, BaseInv, StoreTyped, CallsTyped, JobsFit, Appending, Writing
    <3>4. WholeInv'
      BY <2>2, <2>5 DEF TypeInv, BaseInv, StoreTyped, CallsTyped, WholeInv
    <3> QED
      BY <2>2, <2>3, <3>2, <3>3, <3>4 DEF TypeInv, BaseInv, StoreTyped
  <2>6. job' = job \/ \E g \in job[p].left : job' = [job EXCEPT ![p].left = @ \ {g}] /\ pc' = [pc EXCEPT ![p] = "list"]
    BY <1>1 DEF ReadNext
  <2> QED
    BY <2>4, <2>5, <2>6
<1>2. ASSUME NEW f \in Package, RemoveReceipt(p, f)
      PROVE  BaseInv'
  <2>1. f \in File
    BY DEF File
  <2>2. root' \in Node /\ JournalTyped' /\ CallsTyped' /\ JobsFit' /\ UNCHANGED <<pc, temp, disk>>
    BY <1>2 DEF RemoveReceipt, TypeInv, BaseInv, StoreTyped, JournalTyped, CallsTyped, JobsFit
  <2>3. FilesTyped'
    BY <1>2, <2>1 DEF RemoveReceipt, TypeInv, BaseInv, StoreTyped, FilesTyped, FileValue
  <2>4. CountsTyped'
    BY <1>2, StateFilesAssumption DEF RemoveReceipt, TypeInv, BaseInv, StoreTyped, CountsTyped
  <2>5. WholeInv'
    BY <1>2, <2>1, <2>2 DEF RemoveReceipt, TypeInv, BaseInv, StoreTyped, FilesTyped, WholeInv, Solid
  <2> QED
    BY <2>2, <2>3, <2>4, <2>5 DEF TypeInv, BaseInv, StoreTyped
<1> QED
  BY <1>1, <1>2
LEMMA CreatedIsNode ==
  ASSUME NEW node \in Node
  PROVE  Created(node) \in Node
<1>1. ASSUME NEW n \in Node
      PROVE  Hardened(n) \in Node
  BY <1>1 DEF Hardened, Trusted, Node
<1>2. node.kind = "missing" => [node EXCEPT !.kind = "directory", !.owner = "self"] \in Node
  BY DEF Node
<1> QED
  BY <1>1, <1>2 DEF Created

\* The kernel, other users and the end of processes.
LEMMA MachineKeepsTypes ==
  ASSUME TypeInv, OpenStore \/ Loosen \/ WriteBack \/ PowerLoss \/ \E p \in Proc : Kill(p)
  PROVE  BaseInv'
<1> DEFINE Write == Event \union {Newline, Torn}
<1>0. journal \in Seq(Write) /\ onDisk \in 0..Len(journal) /\ Len(journal) \in Nat
  BY DEF TypeInv, BaseInv, StoreTyped, JournalTyped
<1>1. CASE OpenStore \/ Loosen
  <2>1. root' \in Node
    <3>1. root \in Node
      BY DEF TypeInv, BaseInv, StoreTyped
    <3>2. [root EXCEPT !.access = @ \union {"others"}] \in Node
      BY <3>1 DEF Node
    <3>3. Created(root) \in Node
      BY <3>1, CreatedIsNode
    <3> QED
      BY <1>1, <3>2, <3>3 DEF OpenStore, Loosen
  <2>2. UNCHANGED <<fileVars, pc, job, temp, litter, ops, losses, answered, since, cut, failures>>
    BY <1>1 DEF OpenStore, Loosen
  <2> HIDE <1>1
  <2> QED
    BY <2>1, <2>2 DEF TypeInv, BaseInv, StoreTyped, JournalTyped, FilesTyped, CallsTyped, CountsTyped, JobsFit, WholeInv, fileVars
<1>2. CASE WriteBack
  <2>1. UNCHANGED <<root, journal, files, pc, job, temp, litter, ops, losses, answered, since, cut, failures>>
    BY <1>2 DEF WriteBack
  <2>2. onDisk' = Len(journal) /\ disk' = files
    BY <1>2 DEF WriteBack
  <2>3. JournalTyped'
    BY <1>0, <2>1, <2>2 DEF JournalTyped
  <2>4. FilesTyped' /\ WholeInv'
    BY <2>1, <2>2 DEF TypeInv, BaseInv, StoreTyped, FilesTyped, WholeInv
  <2> QED
    BY <2>1, <2>3, <2>4 DEF TypeInv, BaseInv, StoreTyped, CallsTyped, CountsTyped, JobsFit
<1>3. ASSUME NEW p \in Proc, Kill(p)
      PROVE  BaseInv'
  <2>1. /\ pc' = [pc EXCEPT ![p] = "idle"] /\ temp' = [temp EXCEPT ![p] = Missing]
        /\ litter' \in {litter, litter + 1} /\ cut' = (cut \/ pc[p] = "newline")
        /\ UNCHANGED <<root, journal, onDisk, files, disk, job, ops, losses, answered, since, failures>>
    BY <1>3 DEF Kill, fileVars, TypeInv, BaseInv, StoreTyped, CountsTyped
  <2>2. CallsTyped' /\ JobsFit' /\ WholeInv'
    BY <2>1 DEF TypeInv, BaseInv, StoreTyped, CallsTyped, JobsFit, WholeInv, Appending, Writing
  <2>3. CountsTyped'
    BY <2>1 DEF TypeInv, BaseInv, StoreTyped, CountsTyped
  <2> QED
    BY <2>1, <2>2, <2>3 DEF TypeInv, BaseInv, StoreTyped, JournalTyped, FilesTyped
<1>4. CASE PowerLoss
  <2>1. PICK lost \in Losses :
          LET gone == {f \in File : DirectoryOf(f) \in lost} IN
          /\ root' = IF "root" \in lost THEN [root EXCEPT !.kind = "missing"] ELSE root
          /\ CutBack(lost)
          /\ files' = [f \in File |-> IF f \in gone THEN Missing
                                     ELSE IF disk[f] = Missing \/ disk[f].synced THEN disk[f] ELSE Torn]
          /\ since' = [f \in File |-> IF f \in gone THEN since[f] \union {Missing} ELSE since[f]]
    BY <1>4 DEF PowerLoss
  <2>2. /\ disk' = files'
        /\ pc' = [p \in Proc |-> "idle"] /\ temp' = [p \in Proc |-> Missing]
        /\ litter' = litter + Cardinality({p \in Proc : temp[p] # Missing})
        /\ losses < MaxLosses /\ losses' = losses + 1
        /\ UNCHANGED <<job, ops, answered, failures>>
    BY <1>4 DEF PowerLoss
  <2>3. JournalTyped'
    <3>1. CASE journal' = <<>> /\ onDisk' = 0
      <4>1. journal' \in Seq(Write) /\ Len(journal') = 0
        BY <3>1, EmptySeq
      <4> QED
        BY <3>1, <4>1 DEF JournalTyped
    <3>2. ASSUME NEW tail \in {<<>>, <<Torn>>}, journal' = SubSeq(journal, 1, onDisk) \o tail,
                 onDisk' = Len(journal')
          PROVE  JournalTyped'
      <4>1. SubSeq(journal, 1, onDisk) \in Seq(Write)
        BY <1>0, SubSeqProperties
      <4>2. tail \in Seq(Write)
        <5>1. Torn \in Write
          OBVIOUS
        <5> HIDE DEF Write
        <5>2. <<Torn>> \in Seq(Write) /\ <<>> \in Seq(Write)
          BY <5>1
        <5> QED
          BY <3>2, <5>2
      <4>3. journal' \in Seq(Write) /\ Len(journal') \in Nat
        BY <3>2, <4>1, <4>2, ConcatProperties, LenProperties
      <4> QED
        BY <3>2, <4>3 DEF JournalTyped
    <3> QED
      BY <2>1, <3>1, <3>2 DEF CutBack
  <2>4. \A f \in File : files'[f] \in {disk[f], Missing}
    BY <2>1 DEF TypeInv, BaseInv, WholeInv, Solid
  <2>5. FilesTyped' /\ WholeInv'
    <3>1. Missing \in FileValue /\ Missing \in Solid
      BY DEF FileValue, Solid
    <3>2. files' \in [File -> FileValue] /\ disk' \in [File -> FileValue]
      BY <2>1, <2>2, <2>4, <3>1 DEF TypeInv, BaseInv, StoreTyped, FilesTyped
    <3>3. since' \in [File -> SUBSET FileValue]
      BY <2>1, <3>1 DEF TypeInv, BaseInv, StoreTyped, FilesTyped
    <3>4. WholeInv'
      BY <2>2, <2>4, <3>1 DEF TypeInv, BaseInv, WholeInv
    <3> QED
      BY <3>2, <3>3, <3>4 DEF FilesTyped
  <2>6. CountsTyped'
    <3>1. Cardinality({p \in Proc : temp[p] # Missing}) \in Nat
      BY StateFilesAssumption, FS_Subset, FS_CardinalityType
    <3>2. litter' \in Nat /\ losses' \in 0..MaxLosses
      BY <2>2, <3>1, StateFilesAssumption DEF TypeInv, BaseInv, StoreTyped, CountsTyped
    <3>3. cut' \in BOOLEAN
      BY <2>1 DEF CutBack, TypeInv, BaseInv, StoreTyped, CountsTyped
    <3> QED
      BY <2>2, <3>2, <3>3 DEF TypeInv, BaseInv, StoreTyped, CountsTyped
  <2>7. CallsTyped' /\ JobsFit'
    BY <2>2 DEF TypeInv, BaseInv, StoreTyped, CallsTyped, JobsFit, Appending, Writing
  <2>8. root' \in Node
    BY <2>1 DEF TypeInv, BaseInv, StoreTyped, Node
  <2> QED
    BY <2>3, <2>5, <2>6, <2>7, <2>8 DEF TypeInv, BaseInv, StoreTyped
<1> QED
  BY <1>1, <1>2, <1>3, <1>4

LEMMA NextKeepsBase ==
  ASSUME TypeInv, [Next]_vars
  PROVE  BaseInv'
<1>1. ASSUME NEW p \in Proc, Call(p)
      PROVE  BaseInv'
  BY <1>1, BeginsKeepTypes, AppendKeepsTypes, WriteKeepsTypes, ReceiptsKeepTypes DEF Call
<1>2. CASE UNCHANGED vars
  BY <1>2 DEF vars, fileVars, TypeInv, BaseInv, StoreTyped, JournalTyped, FilesTyped, CallsTyped, CountsTyped, JobsFit, WholeInv
<1> QED
  BY <1>1, <1>2, MachineKeepsTypes DEF Next

\* The names and the history, which few steps touch.
LEMMA NextKeepsPast ==
  ASSUME TypeInv, [Next]_vars
  PROVE  PastTyped'
<1>0. /\ made \subseteq Name /\ kept \subseteq made /\ taken \subseteq answered
      /\ edits \in Seq(Change) /\ written \in 0..Len(edits) /\ Len(edits) \in Nat
  BY LenProperties DEF TypeInv, PastTyped
<1>1. CASE UNCHANGED <<names, past, answered>>
  BY <1>0, <1>1 DEF PastTyped, names, past
<1>2. ASSUME NEW p \in Proc, BeginAppend(p)
      PROVE  PastTyped'
  BY <1>0, <1>2 DEF BeginAppend, PastTyped, past, Name
<1>3. ASSUME NEW p \in Proc, SyncJournal(p)
      PROVE  PastTyped'
  BY <1>0, <1>3 DEF SyncJournal, PastTyped, past, names
<1>4. ASSUME NEW p \in Proc, Rename(p)
      PROVE  PastTyped'
  <2>1. job[p] \in EditJob
    BY <1>4 DEF Rename, TypeInv, BaseInv, JobsFit, Writing
  <2>2. edits' = edits \/ (edits' = Append(edits, job[p].change) /\ job[p].change \in Change)
    BY <1>4, <2>1 DEF Rename, EditJob
  <2>3. edits' \in Seq(Change) /\ Len(edits') \in {Len(edits), Len(edits) + 1}
    BY <1>0, <2>2, AppendProperties
  <2>4. written \in 0..Len(edits')
    BY <1>0, <2>3
  <2> QED
    BY <1>0, <1>4, <2>3, <2>4 DEF Rename, PastTyped, names
<1>5. ASSUME NEW p \in Proc, SyncDirectory(p)
      PROVE  PastTyped'
  <2>1. kept' \subseteq made /\ written' \in {written, Len(edits)}
    BY <1>0, <1>5 DEF SyncDirectory, Within
  <2>2. UNCHANGED <<made, taken, edits, answered>>
    BY <1>5 DEF SyncDirectory
  <2>3. written' \in 0..Len(edits)
    BY <1>0, <2>1
  <2> QED
    BY <1>0, <2>1, <2>2, <2>3 DEF PastTyped
<1>6. CASE OpenStore
  BY <1>0, <1>6 DEF OpenStore, PastTyped, past, Name
<1>7. CASE WriteBack
  BY <1>0, <1>7 DEF WriteBack, PastTyped
<1>8. CASE PowerLoss
  <2>1. PICK lost \in Losses :
          LET gone == {f \in File : DirectoryOf(f) \in lost} IN
          /\ made' = made \ lost /\ kept' = made'
          /\ CutBack(lost)
          /\ edits' = IF Preferences \in gone THEN <<>> ELSE SubSeq(edits, 1, written)
    BY <1>8 DEF PowerLoss
  <2>2. written' = Len(edits') /\ answered' = answered
    BY <1>8 DEF PowerLoss
  <2>3. edits' \in Seq(Change) /\ Len(edits') \in Nat
    <3>1. SubSeq(edits, 1, written) \in Seq(Change) /\ <<>> \in Seq(Change)
      BY <1>0, SubSeqProperties
    <3> QED
      BY <2>1, <3>1, LenProperties
  <2>4. taken' \subseteq answered
    BY <1>0, <2>1 DEF CutBack
  <2> QED
    BY <1>0, <2>1, <2>2, <2>3, <2>4 DEF PastTyped
<1>9. ASSUME NEW p \in Proc, Call(p) \/ Kill(p)
      PROVE  PastTyped'
  <2>1. CASE \/ BeginList(p) \/ ReadNext(p) \/ (\E m \in Mark : EditPreferences(p, m))
             \/ (\E f \in Package, v \in Version : WriteReceipt(p, f, v))
             \/ (\E f \in Package : RemoveReceipt(p, f))
             \/ WriteEvent(p) \/ WriteNewline(p) \/ WriteTemp(p) \/ SyncTemp(p) \/ Kill(p)
    <3>1. UNCHANGED <<names, past, answered>>
      BY <2>1 DEF BeginList, ReadNext, EditPreferences, WriteReceipt, RemoveReceipt, WriteEvent,
                  WriteNewline, WriteTemp, SyncTemp, Kill
    <3> QED
      BY <1>1, <3>1
  <2> QED
    BY <1>2, <1>3, <1>4, <1>5, <1>9, <2>1 DEF Call
<1>10. CASE Loosen \/ UNCHANGED vars
  BY <1>1, <1>10 DEF Loosen, vars
<1> QED
  BY <1>6, <1>7, <1>8, <1>9, <1>10 DEF Next

LEMMA InitTyped == Init => TypeInv
<1> SUFFICES ASSUME Init PROVE TypeInv
  OBVIOUS
<1>1. edits = <<>> /\ written = 0 /\ made \subseteq Name /\ kept = made /\ taken = {}
  BY DEF Init, Name
<1>2. edits \in Seq(Change) /\ Len(edits) = 0
  BY <1>1, EmptySeq
<1> QED
  BY <1>1, <1>2, InitBase DEF TypeInv, PastTyped

LEMMA NextKeepsTypes == TypeInv /\ [Next]_vars => TypeInv'
  BY NextKeepsBase, NextKeepsPast DEF TypeInv

\* Type correctness.  Neither TypeOK nor the wholeness of files is inductive
\* alone: pin and hold edit the text that a reader of the preferences finds,
\* which is a text only because no file is ever torn.
THEOREM TypeCorrect == Spec => []TypeOK
<1>1. TypeInv => TypeOK
  BY DEF TypeInv, BaseInv, TypeOK
<1> QED
  BY <1>1, InitTyped, NextKeepsTypes, PTL DEF Spec

\* No reader ever finds half a file: atomic_json_write syncs a text before it
\* gives it its name.
THEOREM FilesStayWhole == Spec => []FilesAreWhole
<1>1. TypeInv => FilesAreWhole
  BY SolidIsWhole DEF TypeInv, BaseInv, WholeInv, FilesAreWhole
<1> QED
  BY <1>1, InitTyped, NextKeepsTypes, PTL DEF Spec

-----------------------------------------------------------------------------
(* What was answered stays                                                 *)

Appended == {"newline", "sync journal"}

\* An answered event is in the part of the journal that a power loss leaves when
\* it leaves the journal, unless one has taken the journal it was in; the event
\* of an append under way is somewhere in it.
EventsKept ==
  /\ \A e \in answered : (\E i \in 1..onDisk : journal[i] = e) \/ e \in taken
  /\ \A p \in Proc : pc[p] \in Appended => \E i \in 1..Len(journal) : journal[i] = job[p].id

\* A file holds, now and after a power loss, something no older than its last
\* answered write.
FilesKept == \A f \in File : files[f] \in since[f] /\ disk[f] \in since[f]

\* The calls that have nothing to do with appends.
Elsewhere(p) ==
  \/ BeginAppend(p) \/ BeginList(p) \/ ReadNext(p)
  \/ \E m \in Mark : EditPreferences(p, m)
  \/ \E f \in Package, v \in Version : WriteReceipt(p, f, v)
  \/ WriteTemp(p) \/ SyncTemp(p) \/ Rename(p) \/ SyncDirectory(p)
  \/ \E f \in Package : RemoveReceipt(p, f)

LEMMA ElsewhereLeavesJournal ==
  ASSUME TypeInv, NEW p \in Proc, Elsewhere(p)
  PROVE  /\ UNCHANGED <<journal, onDisk, answered, taken, cut>>
         /\ \A q \in Proc : pc'[q] \in Appended => pc'[q] = pc[q] /\ job'[q] = job[q]
<1>0. pc \in [Proc -> {"idle", "event", "newline", "sync journal", "write", "sync", "rename",
                       "sync directory", "list"}]
      /\ job \in [Proc -> Job]
  BY DEF TypeInv, BaseInv, StoreTyped, CallsTyped
<1>1. CASE BeginAppend(p) \/ BeginList(p) \/ (\E m \in Mark : EditPreferences(p, m))
           \/ \E f \in Package, v \in Version : WriteReceipt(p, f, v)
  <2>1. UNCHANGED <<fileVars, answered, past, cut>>
    BY <1>1 DEF BeginAppend, BeginList, EditPreferences, WriteReceipt, past
  <2>2. \E task : \E call \in {"event", "list", "write"} : Begin(p, call, task)
    BY <1>1 DEF BeginAppend, BeginList, EditPreferences, WriteReceipt
  <2> QED
    BY <1>0, <2>1, <2>2 DEF Begin, fileVars, past, Appended
<1>2. CASE WriteTemp(p) \/ SyncTemp(p) \/ Rename(p) \/ SyncDirectory(p)
  BY <1>0, <1>2 DEF WriteTemp, SyncTemp, Rename, SyncDirectory, fileVars, past, Appended
<1>3. CASE ReadNext(p) \/ \E f \in Package : RemoveReceipt(p, f)
  BY <1>0, <1>3 DEF ReadNext, RemoveReceipt, fileVars, past, Appended
<1> QED
  BY <1>1, <1>2, <1>3 DEF Elsewhere

\* Growing the journal loses nothing.
LEMMA AppendKeeps ==
  ASSUME NEW S, NEW log \in Seq(S), NEW x \in S, NEW i \in 1..Len(log)
  PROVE  /\ Append(log, x)[i] = log[i]
         /\ Append(log, x)[Len(log) + 1] = x
         /\ Len(Append(log, x)) = Len(log) + 1
         /\ i \in 1..Len(Append(log, x))
         /\ Len(log) + 1 \in 1..Len(Append(log, x))
  OBVIOUS

LEMMA AppendEnds ==
  ASSUME NEW S, NEW log \in Seq(S), NEW x \in S
  PROVE  /\ Append(log, x)[Len(log) + 1] = x
         /\ Len(Append(log, x)) = Len(log) + 1
         /\ Len(log) \in Nat
         /\ Append(log, x) \in Seq(S)
  OBVIOUS

\* A prefix and what may be torn after it.
LEMMA PrefixKeeps ==
  ASSUME NEW S, NEW log \in Seq(S), NEW n \in 0..Len(log), NEW tail \in Seq(S),
         NEW i \in 1..n
  PROVE  /\ (SubSeq(log, 1, n) \o tail)[i] = log[i]
         /\ Len(SubSeq(log, 1, n) \o tail) = n + Len(tail)
         /\ i \in 1..(n + Len(tail))
<1>1. SubSeq(log, 1, n) \in Seq(S) /\ Len(SubSeq(log, 1, n)) = n
  BY SubSeqProperties
<1>2. SubSeq(log, 1, n)[i] = log[i]
  BY SubSeqProperties
<1> QED
  BY <1>1, <1>2, ConcatProperties

LEMMA InRange ==
  ASSUME NEW n \in Nat, NEW m \in 0..n
  PROVE  \A i \in 1..m : i \in 1..n
  OBVIOUS

LEMMA JournalFacts ==
  ASSUME TypeInv
  PROVE  /\ journal \in Seq(Event \union {Newline, Torn})
         /\ onDisk \in 0..Len(journal) /\ Len(journal) \in Nat /\ onDisk \in Nat
         /\ DOMAIN journal = 1..Len(journal)
         /\ pc \in [Proc -> {"idle", "event", "newline", "sync journal", "write", "sync",
                             "rename", "sync directory", "list"}]
         /\ job \in [Proc -> Job]
         /\ \A p \in Proc : pc[p] \in Appending => job[p].id \in Event
<1>1. journal \in Seq(Event \union {Newline, Torn}) /\ onDisk \in 0..Len(journal)
  BY DEF TypeInv, BaseInv, StoreTyped, JournalTyped
<1>2. Len(journal) \in Nat /\ DOMAIN journal = 1..Len(journal)
  BY <1>1, LenProperties
<1>3. \A p \in Proc : pc[p] \in Appending => job[p].id \in Event
  BY DEF TypeInv, BaseInv, JobsFit, AppendJob
<1>4. onDisk \in Nat
  BY <1>1, <1>2
<1>5. pc \in [Proc -> {"idle", "event", "newline", "sync journal", "write", "sync", "rename",
                       "sync directory", "list"}] /\ job \in [Proc -> Job]
  BY DEF TypeInv, BaseInv, StoreTyped, CallsTyped
<1> QED
  BY <1>1, <1>2, <1>3, <1>4, <1>5

LEMMA InitKeeps == Init => EventsKept /\ FilesKept
  BY DEF Init, EventsKept, FilesKept, Appended

\* A call of append_event puts the event into the journal before it answers,
\* and answers when all of the journal is synced.
LEMMA AppendsKeepEvents ==
  ASSUME TypeInv, EventsKept, NEW p \in Proc,
         WriteEvent(p) \/ WriteNewline(p) \/ SyncJournal(p)
  PROVE  EventsKept'
<1>0. /\ journal \in Seq(Event \union {Newline, Torn}) /\ onDisk \in 0..Len(journal)
      /\ pc \in [Proc -> {"idle", "event", "newline", "sync journal", "write", "sync",
                          "rename", "sync directory", "list"}]
      /\ Len(journal) \in Nat /\ onDisk \in Nat
      /\ pc[p] \in Appending => job[p].id \in Event
  BY JournalFacts
<1> DEFINE Old == \A i \in 1..Len(journal) : i \in 1..Len(journal') /\ journal'[i] = journal[i]
<1>1. ASSUME NEW x \in Event \union {Newline, Torn}, journal' = Append(journal, x)
      PROVE  Old /\ journal'[Len(journal')] = x /\ Len(journal') \in 1..Len(journal')
  <2> DEFINE S == Event \union {Newline, Torn}
  <2> HIDE DEF S
  <2>1. journal \in Seq(S) /\ x \in S
    BY <1>0 DEF S
  <2>2. Old
    BY <1>1, <2>1, AppendKeeps
  <2>3. /\ journal'[Len(journal) + 1] = x /\ Len(journal') = Len(journal) + 1
        /\ Len(journal) \in Nat
    BY <1>1, <2>1, AppendEnds
  <2>4. Len(journal') \in 1..Len(journal')
    BY <2>3
  <2> QED
    BY <2>2, <2>3, <2>4
<1>2. ASSUME Old, onDisk' = onDisk, answered' = answered, taken' = taken, job' = job,
             \A q \in Proc : pc'[q] \in Appended => pc[q] \in Appended
                             \/ \E i \in 1..Len(journal') : journal'[i] = job[q].id
      PROVE  EventsKept'
  <2>1. \A e \in answered : (\E i \in 1..onDisk : journal'[i] = e) \/ e \in taken
    <3>1. \A i \in 1..onDisk : i \in 1..Len(journal)
      BY <1>0, InRange
    <3> QED
      BY <1>2, <3>1 DEF EventsKept
  <2>2. \A q \in Proc : pc'[q] \in Appended => \E i \in 1..Len(journal') : journal'[i] = job[q].id
    BY <1>2 DEF EventsKept
  <2> QED
    BY <1>2, <2>1, <2>2 DEF EventsKept
<1>3. CASE WriteEvent(p)
  <2>1. CASE Step(p, "event", "newline") /\ journal' = Append(journal, job[p].id)
    <3>1. job[p].id \in Event
      BY <1>0, <2>1 DEF Appending
    <3>2. Old /\ \E i \in 1..Len(journal') : journal'[i] = job[p].id
      BY <1>1, <2>1, <3>1
    <3>3. \A q \in Proc : pc'[q] \in Appended => q = p \/ pc[q] \in Appended
      BY <1>0, <2>1
    <3> HIDE DEF Old
    <3> QED
      BY <1>2, <1>3, <3>2, <3>3 DEF WriteEvent, past
  <2>2. CASE Step(p, "event", "idle") /\ journal' = Append(journal, Torn)
    <3>1. Old
      BY <1>1, <2>2
    <3>2. \A q \in Proc : pc'[q] \in Appended => pc[q] \in Appended
      BY <1>0, <2>2 DEF Appended
    <3> HIDE DEF Old
    <3> QED
      BY <1>2, <1>3, <3>1, <3>2 DEF WriteEvent, past
  <2> QED
    BY <1>3, <2>1, <2>2 DEF WriteEvent
<1>4. CASE WriteNewline(p)
  <2>1. journal' = Append(journal, Newline) \/ journal' = journal
    BY <1>4 DEF WriteNewline
  <2>2. Old
    BY <1>1, <2>1
  <2>3. \A q \in Proc : pc'[q] \in Appended => pc[q] \in Appended
    BY <1>0, <1>4 DEF WriteNewline, Appended
  <2> HIDE DEF Old
  <2> QED
    BY <1>2, <1>4, <2>2, <2>3 DEF WriteNewline, past
<1>5. CASE SyncJournal(p)
  <2>1. /\ UNCHANGED <<journal, job, taken>> /\ pc[p] \in Appended
        /\ \/ onDisk' = Len(journal) /\ answered' = answered \union {job[p].id}
           \/ UNCHANGED <<onDisk, answered>>
    BY <1>5 DEF SyncJournal, past, Appended
  <2>2. \A q \in Proc : pc'[q] \in Appended => pc[q] \in Appended
    BY <1>0, <1>5 DEF SyncJournal, Appended
  <2>3. \A i \in 1..onDisk : i \in 1..Len(journal)
    BY <1>0, InRange
  <2>4. \A e \in answered' : (\E i \in 1..onDisk' : journal[i] = e) \/ e \in taken
    BY <2>1, <2>3 DEF EventsKept
  <2> QED
    BY <2>1, <2>2, <2>4 DEF EventsKept
<1> QED
  BY <1>3, <1>4, <1>5

\* The kernel and the end of processes take no answered event away but with the
\* name of the journal.
LEMMA MachineKeepsEvents ==
  ASSUME TypeInv, EventsKept,
         OpenStore \/ Loosen \/ WriteBack \/ PowerLoss \/ \E p \in Proc : Kill(p)
  PROVE  EventsKept'
<1>0. /\ journal \in Seq(Event \union {Newline, Torn}) /\ onDisk \in 0..Len(journal)
      /\ pc \in [Proc -> {"idle", "event", "newline", "sync journal", "write", "sync",
                          "rename", "sync directory", "list"}]
      /\ Len(journal) \in Nat /\ onDisk \in Nat
  BY JournalFacts
<1>1. CASE OpenStore \/ Loosen
  BY <1>1 DEF OpenStore, Loosen, EventsKept, fileVars, past
<1>2. CASE WriteBack
  <2>1. onDisk' = Len(journal) /\ UNCHANGED <<journal, pc, job, answered, taken>>
    BY <1>2 DEF WriteBack
  <2>2. \A i \in 1..onDisk : i \in 1..Len(journal)
    BY <1>0, InRange
  <2> QED
    BY <2>1, <2>2 DEF EventsKept
<1>3. ASSUME NEW p \in Proc, Kill(p)
      PROVE  EventsKept'
  BY <1>0, <1>3 DEF Kill, EventsKept, fileVars, past, Appended
<1>4. ASSUME PowerLoss, taken' = taken \union answered
      PROVE  EventsKept'
  BY <1>4 DEF PowerLoss, EventsKept, Appended
<1>5. ASSUME PowerLoss, NEW tail \in {<<>>, <<Torn>>}, taken' = taken, onDisk' = Len(journal'),
             journal' = SubSeq(journal, 1, onDisk) \o tail
      PROVE  EventsKept'
  <2>2. answered' = answered /\ \A p \in Proc : pc'[p] = "idle"
    BY <1>5 DEF PowerLoss
  <2> DEFINE Write == Event \union {Newline, Torn}
  <2>3. tail \in Seq(Write) /\ Len(tail) \in Nat
    <3>1. Torn \in Write
      OBVIOUS
    <3> HIDE DEF Write
    <3>2. <<Torn>> \in Seq(Write) /\ <<>> \in Seq(Write)
      BY <3>1
    <3> QED
      BY <1>5, <3>2, LenProperties
  <2> HIDE DEF Write
  <2>4. \A i \in 1..onDisk : journal'[i] = journal[i] /\ i \in 1..onDisk'
    <3>1. journal \in Seq(Write)
      BY <1>0 DEF Write
    <3> SUFFICES ASSUME NEW i \in 1..onDisk PROVE journal'[i] = journal[i] /\ i \in 1..onDisk'
      OBVIOUS
    <3> QED
      <4>1. /\ (SubSeq(journal, 1, onDisk) \o tail)[i] = journal[i]
            /\ Len(SubSeq(journal, 1, onDisk) \o tail) = onDisk + Len(tail)
            /\ i \in 1..(onDisk + Len(tail))
        BY <1>0, <2>3, <3>1, PrefixKeeps
      <4> QED
        BY <1>5, <4>1
  <2> QED
    BY <1>5, <2>2, <2>4 DEF EventsKept, Appended
<1>6. PowerLoss => \E lost \in Losses : CutBack(lost)
  BY DEF PowerLoss
<1>7. CASE PowerLoss
  BY <1>4, <1>5, <1>6, <1>7 DEF CutBack
<1> QED
  BY <1>1, <1>2, <1>3, <1>7

\* Whoever replaces or removes a file leaves something new in it, and only a
\* sync makes its older contents forgotten.
LEMMA NextKeepsFiles ==
  ASSUME TypeInv, FilesKept, [Next]_vars
  PROVE  FilesKept'
<1>0. /\ files \in [File -> FileValue] /\ disk \in [File -> FileValue]
      /\ since \in [File -> SUBSET FileValue]
  BY DEF TypeInv, BaseInv, StoreTyped, FilesTyped
<1>1. ASSUME NEW p \in Proc, Rename(p)
      PROVE  FilesKept'
  BY <1>0, <1>1 DEF Rename, FilesKept
<1>2. ASSUME NEW p \in Proc, SyncDirectory(p)
      PROVE  FilesKept'
  BY <1>0, <1>2 DEF SyncDirectory, FilesKept
<1>3. ASSUME NEW p \in Proc, NEW f \in Package, RemoveReceipt(p, f)
      PROVE  FilesKept'
  BY <1>0, <1>3 DEF RemoveReceipt, FilesKept
<1>4. CASE WriteBack
  BY <1>4 DEF WriteBack, FilesKept
<1>5. CASE PowerLoss
  <2>1. PICK lost \in Losses :
          LET gone == {f \in File : DirectoryOf(f) \in lost} IN
          /\ files' = [f \in File |-> IF f \in gone THEN Missing
                                     ELSE IF disk[f] = Missing \/ disk[f].synced THEN disk[f] ELSE Torn]
          /\ since' = [f \in File |-> IF f \in gone THEN since[f] \union {Missing} ELSE since[f]]
    BY <1>5 DEF PowerLoss
  <2>2. disk' = files'
    BY <1>5 DEF PowerLoss
  <2>3. \A f \in File : disk[f] = Missing \/ disk[f].synced
    BY DEF TypeInv, BaseInv, WholeInv, Solid
  <2> QED
    BY <2>1, <2>2, <2>3 DEF FilesKept
<1>6. CASE UNCHANGED <<files, disk, since>>
  BY <1>6 DEF FilesKept
<1>7. ASSUME NEW p \in Proc, Kill(p) \/ WriteEvent(p) \/ WriteNewline(p) \/ SyncJournal(p)
                             \/ WriteTemp(p) \/ SyncTemp(p) \/ BeginList(p) \/ ReadNext(p)
                             \/ BeginAppend(p) \/ (\E m \in Mark : EditPreferences(p, m))
                             \/ \E f \in Package, v \in Version : WriteReceipt(p, f, v)
      PROVE  UNCHANGED <<files, disk, since>>
  BY <1>7 DEF Kill, WriteEvent, WriteNewline, SyncJournal, WriteTemp, SyncTemp, BeginList,
              ReadNext, BeginAppend, EditPreferences, WriteReceipt, fileVars
<1>8. ASSUME NEW p \in Proc, Call(p) \/ Kill(p)
      PROVE  FilesKept'
  BY <1>1, <1>2, <1>3, <1>6, <1>7, <1>8 DEF Call
<1>9. CASE OpenStore \/ Loosen \/ UNCHANGED vars
  BY <1>6, <1>9 DEF OpenStore, Loosen, vars, fileVars
<1> QED
  BY <1>4, <1>5, <1>8, <1>9 DEF Next

LEMMA NextKeepsEvents ==
  ASSUME TypeInv, EventsKept, [Next]_vars
  PROVE  EventsKept'
<1>1. ASSUME NEW p \in Proc, Elsewhere(p)
      PROVE  EventsKept'
  <2>1. /\ UNCHANGED <<journal, onDisk, answered, taken>>
        /\ \A q \in Proc : pc'[q] \in Appended => pc'[q] = pc[q] /\ job'[q] = job[q]
    BY <1>1, ElsewhereLeavesJournal
  <2> QED
    BY <2>1 DEF EventsKept
<1>2. ASSUME NEW p \in Proc, Call(p)
      PROVE  EventsKept'
  BY <1>1, <1>2, AppendsKeepEvents DEF Call, Elsewhere
<1>3. CASE UNCHANGED vars
  BY <1>3 DEF vars, fileVars, past, EventsKept
<1> QED
  BY <1>2, <1>3, MachineKeepsEvents DEF Next

\* An event that append_event answered stays in the journal, and a file is never
\* older than its last answered write: through kills, full disks and the work of
\* other processes always, and through a power loss unless that takes the name of
\* the journal or of a directory, which append_event and ensure_layout do not sync.
THEOREM AnsweredIsKept == Spec => []AnsweredStays
<1>1. Init => TypeInv /\ EventsKept /\ FilesKept
  BY InitTyped, InitKeeps
<1>2. TypeInv /\ EventsKept /\ FilesKept /\ [Next]_vars => (TypeInv /\ EventsKept /\ FilesKept)'
  BY NextKeepsTypes, NextKeepsEvents, NextKeepsFiles
<1>3. TypeInv /\ EventsKept /\ FilesKept => AnsweredStays
  <2> SUFFICES ASSUME TypeInv, EventsKept, FilesKept PROVE AnsweredStays
    OBVIOUS
  <2>1. DOMAIN journal = 1..Len(journal) /\ onDisk \in 0..Len(journal) /\ Len(journal) \in Nat
    BY JournalFacts
  <2>2. \A i \in 1..onDisk : i \in DOMAIN journal
    BY <2>1
  <2> QED
    BY <2>2 DEF EventsKept, FilesKept, AnsweredStays
<1> QED
  BY <1>1, <1>2, <1>3, PTL DEF Spec

-----------------------------------------------------------------------------
(* Readers                                                                 *)

\* Between the two writes of an append the journal ends with its event, and
\* nobody else is there.
HalfLines ==
  /\ Readable(journal)
  /\ \A p \in Proc : pc[p] = "newline" =>
       /\ journal # <<>> /\ journal[Len(journal)] # Newline
       /\ \A q \in Proc : pc[q] = "newline" => q = p

Listings == failures \subseteq {Missing}

LEMMA ReadableGrows ==
  ASSUME NEW S, NEW log \in Seq(S), NEW x \in S, Readable(log), x # Torn,
         IF x = Newline THEN log # <<>> /\ log[Len(log)] # Newline
         ELSE log = <<>> \/ log[Len(log)] = Newline
  PROVE  Readable(Append(log, x))
<1> DEFINE n == Len(log)
           new == Append(log, x)
<1>1. n \in Nat /\ new[n + 1] = x /\ DOMAIN new = 1..(n + 1) /\ DOMAIN log = 1..n
  OBVIOUS
<1>2. \A i \in 1..n : new[i] = log[i]
  OBVIOUS
<1>3. log # <<>> => n > 0
  OBVIOUS
<1>4. log = <<>> => n = 0
  OBVIOUS
<1> HIDE DEF n, new
<1>5. \A i \in 1..(n + 1) : (i = n + 1 \/ i \in 1..n) /\ (i > 1 => i - 1 \in 1..n) /\ (i > 1 \/ i = 1)
  BY <1>1
<1>6. log[n] = log[Len(log)]
  BY DEF n
<1> SUFFICES ASSUME NEW i \in 1..(n + 1)
             PROVE  IF new[i] = Newline THEN i > 1 /\ new[i - 1] # Newline
                    ELSE new[i] # Torn /\ (i = 1 \/ new[i - 1] = Newline)
  BY <1>1 DEF Readable, new
<1>7. CASE i \in 1..n
  <2>1. i > 1 => new[i - 1] = log[i - 1]
    BY <1>2, <1>5
  <2>2. i \in DOMAIN log /\ new[i] = log[i]
    BY <1>1, <1>2, <1>7
  <2> QED
    BY <1>5, <2>1, <2>2 DEF Readable
<1>8. CASE i = n + 1
  <2>1. new[i] = x /\ i - 1 = n /\ (n > 0 => n \in 1..n)
    BY <1>1, <1>8
  <2>2. n > 0 => new[n] = log[Len(log)]
    BY <1>2, <1>6, <2>1
  <2>3. n = 0 \/ n > 0
    BY <1>1
  <2>4. n > 0 => i > 1
    BY <1>1, <1>8
  <2>5. n = 0 => i = 1
    BY <1>8
  <2> QED
    BY <1>3, <1>4, <2>1, <2>2, <2>3, <2>4, <2>5
<1> QED
  BY <1>5, <1>7, <1>8

LEMMA ReadablePrefix ==
  ASSUME NEW S, NEW log \in Seq(S), NEW n \in 0..Len(log), Readable(log)
  PROVE  Readable(SubSeq(log, 1, n) \o <<>>)
<1> DEFINE new == SubSeq(log, 1, n) \o <<>>
<1>1. /\ \A i \in 1..n : new[i] = log[i]
      /\ Len(new) = n /\ n \in Nat /\ DOMAIN log = 1..Len(log) /\ Len(log) \in Nat
  BY PrefixKeeps, SubSeqProperties, EmptySeq
<1>2. DOMAIN new = 1..n
  <2>1. SubSeq(log, 1, n) \in Seq(S) /\ <<>> \in Seq(S)
    BY SubSeqProperties
  <2>2. new \in Seq(S)
    BY <2>1, ConcatProperties
  <2> QED
    BY <1>1, <2>2, LenProperties
<1> HIDE DEF new
<1>3. \A i \in 1..n : i \in DOMAIN log /\ (i = 1 \/ (i > 1 /\ i - 1 \in 1..n))
  BY <1>1
<1> QED
  BY <1>1, <1>2, <1>3 DEF Readable, new

LEMMA AppendsKeepLines ==
  ASSUME TypeInv, ~cut => HalfLines, NEW p \in Proc,
         WriteEvent(p) \/ WriteNewline(p) \/ SyncJournal(p)
  PROVE  ~cut' => HalfLines'
<1>0. /\ journal \in Seq(Event \union {Newline, Torn})
      /\ pc \in [Proc -> {"idle", "event", "newline", "sync journal", "write", "sync",
                          "rename", "sync directory", "list"}]
      /\ Len(journal) \in Nat
      /\ pc[p] \in Appending => job[p].id \in Event
  BY JournalFacts
<1> DEFINE S == Event \union {Newline, Torn}
<1>s. Newline \in S /\ Torn \in S /\ Newline # Torn /\ \A e \in Event : e \in S /\ e # Newline /\ e # Torn
  BY StateFilesAssumption DEF Event
<1>t. journal \in Seq(S)
  BY <1>0
<1> HIDE DEF S
<1> SUFFICES ASSUME ~cut' PROVE HalfLines'
  OBVIOUS
<1>1. CASE WriteEvent(p)
  <2>1. /\ Step(p, "event", "newline") /\ journal' = Append(journal, job[p].id)
        /\ ~cut /\ (journal = <<>> \/ journal[Len(journal)] = Newline)
    BY <1>1 DEF WriteEvent
  <2>2. job[p].id \in Event
    BY <1>0, <2>1 DEF Appending
  <2>3. Readable(journal')
    BY <1>s, <1>t, <2>1, <2>2, ReadableGrows DEF HalfLines
  <2>4. \A q \in Proc : pc'[q] = "newline" => q = p
    BY <1>0, <2>1 DEF HalfLines
  <2>5. journal'[Len(journal')] # Newline /\ journal' # <<>>
    <3>1. /\ journal'[Len(journal) + 1] = job[p].id /\ Len(journal') = Len(journal) + 1
          /\ Len(journal) \in Nat
      BY <1>s, <1>t, <2>1, <2>2, AppendEnds
    <3>2. Len(journal') # 0
      BY <3>1
    <3>3. journal' # <<>>
      BY <3>2
    <3> QED
      BY <1>s, <2>2, <3>1, <3>3
  <2> QED
    BY <2>3, <2>4, <2>5 DEF HalfLines
<1>2. CASE WriteNewline(p)
  <2>1. Step(p, "newline", "sync journal") /\ journal' = Append(journal, Newline) /\ ~cut
    <3>1. cut' # TRUE
      OBVIOUS
    <3>2. Step(p, "newline", "sync journal") /\ journal' = Append(journal, Newline) /\ cut' = cut
      BY <1>2, <3>1 DEF WriteNewline
    <3> QED
      BY <3>2
  <2>2. Readable(journal')
    BY <1>s, <1>t, <2>1, ReadableGrows DEF HalfLines
  <2>3. \A q \in Proc : pc'[q] # "newline"
    BY <1>0, <2>1 DEF HalfLines
  <2> QED
    BY <2>2, <2>3 DEF HalfLines
<1>3. CASE SyncJournal(p)
  BY <1>0, <1>3 DEF SyncJournal, HalfLines
<1> QED
  BY <1>1, <1>2, <1>3

LEMMA MachineKeepsLines ==
  ASSUME TypeInv, ~cut => HalfLines,
         OpenStore \/ Loosen \/ WriteBack \/ PowerLoss \/ \E p \in Proc : Kill(p)
  PROVE  ~cut' => HalfLines'
<1>0. /\ journal \in Seq(Event \union {Newline, Torn}) /\ onDisk \in 0..Len(journal)
      /\ pc \in [Proc -> {"idle", "event", "newline", "sync journal", "write", "sync",
                          "rename", "sync directory", "list"}]
  BY JournalFacts
<1>1. CASE OpenStore \/ Loosen \/ WriteBack
  BY <1>1 DEF OpenStore, Loosen, WriteBack, HalfLines, fileVars
<1>2. ASSUME NEW p \in Proc, Kill(p), ~cut'
      PROVE  HalfLines'
  <2>1. ~cut /\ journal' = journal /\ \A q \in Proc : pc'[q] = "newline" => pc[q] = "newline"
    BY <1>0, <1>2 DEF Kill, fileVars
  <2> QED
    BY <2>1 DEF HalfLines
<1>3. ASSUME PowerLoss, ~cut'
      PROVE  HalfLines'
  <2>1. \/ journal' = <<>>
        \/ journal' = SubSeq(journal, 1, onDisk) \o <<>> /\ ~cut
    BY <1>3 DEF PowerLoss, CutBack
  <2>2. \A p \in Proc : pc'[p] = "idle"
    BY <1>3 DEF PowerLoss
  <2>3. Readable(journal')
    <3>1. Readable(<<>>)
      BY DEF Readable
    <3> QED
      BY <1>0, <2>1, <3>1, ReadablePrefix DEF HalfLines
  <2> QED
    BY <2>2, <2>3 DEF HalfLines
<1> QED
  BY <1>1, <1>2, <1>3

LEMMA NextKeepsLines ==
  ASSUME TypeInv, ~cut => HalfLines, [Next]_vars
  PROVE  ~cut' => HalfLines'
<1>1. ASSUME NEW p \in Proc, Elsewhere(p)
      PROVE  ~cut' => HalfLines'
  <2>1. /\ UNCHANGED <<journal, cut>>
        /\ \A q \in Proc : pc'[q] \in Appended => pc'[q] = pc[q]
    BY <1>1, ElsewhereLeavesJournal
  <2> QED
    BY <2>1 DEF HalfLines, Appended
<1>2. ASSUME NEW p \in Proc, Call(p)
      PROVE  ~cut' => HalfLines'
  BY <1>1, <1>2, AppendsKeepLines DEF Call, Elsewhere
<1>3. CASE UNCHANGED vars
  BY <1>3 DEF vars, fileVars, HalfLines
<1> QED
  BY <1>2, <1>3, MachineKeepsLines DEF Next

\* A listing fails only where a receipt is gone: every other name it read from
\* the directory still stands for a whole receipt.
LEMMA NextKeepsListings ==
  ASSUME TypeInv, Listings, [Next]_vars
  PROVE  Listings'
<1>1. ASSUME NEW p \in Proc, ReadNext(p)
      PROVE  Listings'
  <2>1. \A f \in job[p].left : f \in File /\ (files[f] \in Text \/ files[f] = Missing)
    BY <1>1 DEF ReadNext, TypeInv, BaseInv, JobsFit, ListJob, WholeInv, Solid, File
  <2> QED
    BY <1>1, <2>1 DEF ReadNext, Listings
<1>2. ASSUME NEW p \in Proc, Call(p) \/ Kill(p), ~ReadNext(p)
      PROVE  failures' = failures
  BY <1>2 DEF Call, Kill, BeginAppend, WriteEvent, WriteNewline, SyncJournal, EditPreferences,
              WriteReceipt, WriteTemp, SyncTemp, Rename, SyncDirectory, RemoveReceipt, BeginList
<1>3. OpenStore \/ Loosen \/ WriteBack \/ PowerLoss \/ UNCHANGED vars => failures' = failures
  BY DEF OpenStore, Loosen, WriteBack, PowerLoss, vars
<1> QED
  BY <1>1, <1>2, <1>3 DEF Next, Listings

\* The journal can be read unless an append was cut short or two of them ran
\* into each other, and a listing fails only on a receipt that was removed
\* under it.
THEOREM ReadersAreNeverRefused == Spec => []ReadersAreServed
<1>1. Init => TypeInv /\ (~cut => HalfLines) /\ Listings
  BY InitTyped DEF Init, HalfLines, Listings, Readable
<1>2. TypeInv /\ (~cut => HalfLines) /\ Listings /\ [Next]_vars
      => (TypeInv /\ (~cut => HalfLines) /\ Listings)'
  BY NextKeepsTypes, NextKeepsLines, NextKeepsListings
<1>3. (~cut => HalfLines) /\ Listings => ReadersAreServed
  BY DEF HalfLines, Listings, ReadersAreServed
<1> QED
  BY <1>1, <1>2, <1>3, PTL DEF Spec

-----------------------------------------------------------------------------
(* Pins and holds                                                          *)

\* Among the first n edits of s, one after edit i undid it, or had begun before
\* it was in the preferences.
Lost(s, i, n) == \E j \in (i + 1)..n : s[j].mark = s[i].mark \/ s[j].began < i

\* The marks show each of the first n edits that was not lost.
Agrees(s, marks, n) == \A i \in 1..n : ~Lost(s, i, n) => (s[i].mark \in marks) = s[i].set

\* The marks that an edit is about to write: its own, and for each other mark
\* what the edits before it left.
EditFits(s, marks, change) ==
  /\ change \in Change /\ change.began \in 0..Len(s)
  /\ (change.mark \in marks) = change.set
  /\ \A i \in 1..change.began :
       ~Lost(s, i, change.began) /\ s[i].mark # change.mark => (s[i].mark \in marks) = s[i].set

DiskMarks == IF disk[Preferences] = Missing THEN {} ELSE disk[Preferences].marks
Pending   == {"write", "sync", "rename"}

\* The preferences, now and after a power loss, show the edits that are in them,
\* and those under way fit them.
EditsFit ==
  /\ Agrees(edits, Marks(Preferences), Len(edits))
  /\ Agrees(edits, DiskMarks, written)
  /\ \A p \in Proc : pc[p] \in Pending =>
       /\ job[p].file = Preferences => EditFits(edits, job[p].marks, job[p].change)
       /\ pc[p] \in {"sync", "rename"} => temp[p].marks = job[p].marks

\* A read of the preferences and a change to one mark.
LEMMA EditBegins ==
  ASSUME NEW s \in Seq(Change), NEW base, Agrees(s, base, Len(s)), NEW m \in Mark, NEW set \in BOOLEAN,
         NEW marks, marks = (IF set THEN base \union {m} ELSE base \ {m}), Len(s) \in Nat
  PROVE  EditFits(s, marks, [mark |-> m, set |-> set, began |-> Len(s)])
<1> DEFINE change == [mark |-> m, set |-> set, began |-> Len(s)]
<1>1. change \in Change /\ change.began = Len(s) /\ change.mark = m /\ change.set = set
  BY DEF Change
<1>2. (m \in marks) = set
  <2>1. CASE set = TRUE
    BY <2>1
  <2>2. CASE set = FALSE
    BY <2>2
  <2> QED
    BY <2>1, <2>2
<1>3. \A x : x # m => (x \in marks) = (x \in base)
  OBVIOUS
<1> HIDE DEF change
<1>4. change.began \in 0..Len(s)
  BY <1>1
<1>5. \A i \in 1..change.began :
        ~Lost(s, i, change.began) /\ s[i].mark # change.mark => (s[i].mark \in marks) = s[i].set
  BY <1>1, <1>3 DEF Agrees
<1>6. EditFits(s, marks, change)
  BY <1>1, <1>2, <1>4, <1>5 DEF EditFits
<1> QED
  BY <1>6 DEF change

\* The rename that puts an edit into the preferences.
LEMMA EditLands ==
  ASSUME NEW s \in Seq(Change), NEW marks, NEW change, EditFits(s, marks, change)
  PROVE  Agrees(Append(s, change), marks, Len(Append(s, change)))
<1> DEFINE n == Len(s)
           t == Append(s, change)
<1>1. /\ n \in Nat /\ Len(t) = n + 1 /\ t[n + 1] = change
      /\ \A i \in 1..n : t[i] = s[i]
  OBVIOUS
<1>2. change.began \in 0..n /\ change.began \in Nat
  BY <1>1 DEF EditFits, Change
<1> HIDE DEF n, t
<1> SUFFICES ASSUME NEW i \in 1..(n + 1), ~Lost(t, i, n + 1)
             PROVE  (t[i].mark \in marks) = t[i].set
  BY <1>1 DEF Agrees, t
<1>3. CASE i = n + 1
  BY <1>1, <1>3 DEF EditFits
<1>4. CASE i # n + 1
  <2>1. i \in 1..n /\ n + 1 \in (i + 1)..(n + 1) /\ t[i] = s[i]
    BY <1>1, <1>4
  <2>2. change.mark # s[i].mark /\ ~(change.began < i)
    BY <1>1, <2>1 DEF Lost
  <2>3. i \in 1..change.began
    BY <1>2, <2>1, <2>2
  <2>4. ~Lost(s, i, change.began)
    <3> SUFFICES ASSUME NEW j \in (i + 1)..change.began, s[j].mark = s[i].mark \/ s[j].began < i
                 PROVE  FALSE
      BY DEF Lost
    <3>1. j \in 1..n /\ j \in (i + 1)..(n + 1)
      BY <1>1, <1>2, <2>1
    <3>2. t[j] = s[j]
      BY <1>1, <3>1
    <3> QED
      BY <2>1, <3>1, <3>2 DEF Lost
  <2> QED
    BY <2>1, <2>2, <2>3, <2>4 DEF EditFits
<1> QED
  BY <1>3, <1>4

\* What agrees with the first n edits does so whatever comes after them.
LEMMA SamePrefix ==
  ASSUME NEW s, NEW t, NEW marks, NEW n \in Nat, \A i \in 1..n : t[i] = s[i], Agrees(s, marks, n)
  PROVE  Agrees(t, marks, n)
<1> SUFFICES ASSUME NEW i \in 1..n, ~Lost(t, i, n) PROVE (t[i].mark \in marks) = t[i].set
  BY DEF Agrees
<1>1. \A j \in (i + 1)..n : j \in 1..n
  OBVIOUS
<1>2. ~Lost(s, i, n)
  BY <1>1 DEF Lost
<1> QED
  BY <1>2 DEF Agrees

LEMMA AppendAfter ==
  ASSUME NEW S, NEW s \in Seq(S), NEW x \in S, NEW n \in 0..Len(s)
  PROVE  \A i \in 1..n : Append(s, x)[i] = s[i]
  OBVIOUS

LEMMA StillFits ==
  ASSUME NEW s \in Seq(Change), NEW x \in Change, NEW marks, NEW change, EditFits(s, marks, change)
  PROVE  EditFits(Append(s, x), marks, change)
<1> DEFINE n == change.began
           t == Append(s, x)
<1>1. n \in 0..Len(s) /\ Len(s) \in Nat /\ Len(t) = Len(s) + 1 /\ \A i \in 1..Len(s) : t[i] = s[i]
  BY DEF EditFits
<1> HIDE DEF n, t
<1>2. n \in Nat /\ n \in 0..Len(t) /\ \A i \in 1..n : i \in 1..Len(s) /\ t[i] = s[i]
  BY <1>1
<1>3. ASSUME NEW i \in 1..n, ~Lost(t, i, n) PROVE ~Lost(s, i, n)
  <2>1. \A j \in (i + 1)..n : j \in 1..n
    BY <1>2
  <2> QED
    BY <1>2, <1>3, <2>1 DEF Lost
<1> QED
  BY <1>2, <1>3 DEF EditFits, n, t

\* What the lemmas below use of the types.
LEMMA EditFacts ==
  ASSUME TypeInv
  PROVE  /\ edits \in Seq(Change) /\ Len(edits) \in Nat /\ written \in 0..Len(edits) /\ written \in Nat
         /\ pc \in [Proc -> {"idle", "event", "newline", "sync journal", "write", "sync",
                             "rename", "sync directory", "list"}]
         /\ job \in [Proc -> Job] /\ temp \in [Proc -> Text \union {Missing}]
         /\ files \in [File -> FileValue] /\ disk \in [File -> FileValue]
         /\ Preferences \in File /\ Preferences \notin Package
<1>1. edits \in Seq(Change) /\ Len(edits) \in Nat /\ written \in 0..Len(edits)
  BY LenProperties DEF TypeInv, PastTyped
<1>2. written \in Nat
  BY <1>1
<1> QED
  BY <1>1, <1>2, StateFilesAssumption DEF TypeInv, BaseInv, StoreTyped, CallsTyped, FilesTyped, File

LEMMA InitEdits == Init => EditsFit
<1> SUFFICES ASSUME Init PROVE EditsFit
  OBVIOUS
<1>1. edits = <<>> /\ written = 0 /\ Len(edits) = 0 /\ \A p \in Proc : pc[p] = "idle"
  BY EmptySeq DEF Init
<1>2. Agrees(edits, Marks(Preferences), Len(edits)) /\ Agrees(edits, DiskMarks, written)
  BY <1>1 DEF Agrees
<1> QED
  BY <1>1, <1>2 DEF EditsFit, Pending

\* The preferences are as they were, and the calls of others.
LEMMA OthersKeepEdits ==
  ASSUME TypeInv, EditsFit, NEW p \in Proc,
         UNCHANGED <<edits, written>>, files'[Preferences] = files[Preferences],
         disk'[Preferences] = disk[Preferences],
         \A q \in Proc : q # p => pc'[q] = pc[q] /\ job'[q] = job[q] /\ temp'[q] = temp[q],
         pc'[p] \in Pending =>
           /\ job'[p].file = Preferences => EditFits(edits, job'[p].marks, job'[p].change)
           /\ pc'[p] \in {"sync", "rename"} => temp'[p].marks = job'[p].marks
  PROVE  EditsFit'
<1>1. Agrees(edits, Marks(Preferences), Len(edits))' /\ Agrees(edits, DiskMarks, written)'
  BY DEF EditsFit, Agrees, Lost, Marks, DiskMarks
<1>2. ASSUME NEW q \in Proc, pc'[q] \in Pending
      PROVE  /\ job'[q].file = Preferences => EditFits(edits, job'[q].marks, job'[q].change)
             /\ pc'[q] \in {"sync", "rename"} => temp'[q].marks = job'[q].marks
  <2>1. CASE q = p
    BY <1>2, <2>1
  <2>2. CASE q # p
    BY <1>2, <2>2 DEF EditsFit
  <2> QED
    BY <2>1, <2>2
<1> QED
  BY <1>1, <1>2 DEF EditsFit

LEMMA BeginsKeepEdits ==
  ASSUME TypeInv, EditsFit, NEW p \in Proc,
         \/ BeginAppend(p) \/ BeginList(p)
         \/ \E m \in Mark : EditPreferences(p, m)
         \/ \E f \in Package, v \in Version : WriteReceipt(p, f, v)
  PROVE  EditsFit'
<1>0. /\ edits \in Seq(Change) /\ Len(edits) \in Nat
      /\ pc \in [Proc -> {"idle", "event", "newline", "sync journal", "write", "sync",
                          "rename", "sync directory", "list"}]
      /\ job \in [Proc -> Job] /\ Preferences \notin Package
  BY EditFacts
<1>1. UNCHANGED <<temp, files, disk, edits, written>>
  BY DEF BeginAppend, BeginList, EditPreferences, WriteReceipt, fileVars, past
<1>2. ASSUME NEW call, NEW task, Begin(p, call, task), call \notin {"sync", "rename"},
             call \in Pending /\ task.file = Preferences => EditFits(edits, task.marks, task.change)
      PROVE  EditsFit'
  <2>1. \A q \in Proc : q # p => pc'[q] = pc[q] /\ job'[q] = job[q]
    BY <1>0, <1>2 DEF Begin
  <2>2. pc'[p] = call /\ job'[p] = task
    BY <1>0, <1>2 DEF Begin
  <2> QED
    BY <1>1, <1>2, <2>1, <2>2, OthersKeepEdits
<1>3. CASE BeginAppend(p) \/ BeginList(p)
  <2>1. \E task : \E call \in {"event", "list"} : Begin(p, call, task)
    BY <1>3 DEF BeginAppend, BeginList
  <2>2. \A call \in {"event", "list"} : call \notin Pending /\ call \notin {"sync", "rename"}
    BY DEF Pending
  <2> QED
    BY <1>2, <2>1, <2>2
<1>4. ASSUME NEW m \in Mark, EditPreferences(p, m)
      PROVE  EditsFit'
  <2> DEFINE base == Marks(Preferences)
             marks(set) == IF set THEN base \union {m} ELSE base \ {m}
  <2>1. PICK set \in BOOLEAN : Begin(p, "write", Edit(Preferences, marks(set), ChangeOf(m, set)))
    BY <1>4 DEF EditPreferences
  <2>2. Agrees(edits, base, Len(edits))
    BY DEF EditsFit
  <2> HIDE DEF base
  <2>3. EditFits(edits, marks(set), ChangeOf(m, set))
    BY <1>0, <2>2, EditBegins DEF ChangeOf
  <2> HIDE DEF marks
  <2> QED
    BY <1>2, <2>1, <2>3 DEF Edit
<1>5. ASSUME NEW f \in Package, NEW v \in Version, WriteReceipt(p, f, v)
      PROVE  EditsFit'
  <2>1. Edit(f, {v}, Missing).file # Preferences
    BY <1>0 DEF Edit
  <2> QED
    BY <1>2, <1>5, <2>1 DEF WriteReceipt
<1> QED
  BY <1>3, <1>4, <1>5

\* The calls of an edit up to the rename, and those that have nothing to do
\* with the preferences.
LEMMA CallsKeepEdits ==
  ASSUME TypeInv, EditsFit, NEW p \in Proc,
         \/ WriteTemp(p) \/ SyncTemp(p) \/ ReadNext(p) \/ Kill(p)
         \/ WriteEvent(p) \/ WriteNewline(p) \/ SyncJournal(p)
         \/ \E f \in Package : RemoveReceipt(p, f)
  PROVE  EditsFit'
<1>0. /\ pc \in [Proc -> {"idle", "event", "newline", "sync journal", "write", "sync",
                          "rename", "sync directory", "list"}]
      /\ job \in [Proc -> Job] /\ temp \in [Proc -> Text \union {Missing}]
      /\ files \in [File -> FileValue] /\ Preferences \notin Package
  BY EditFacts
<1>1. CASE WriteTemp(p)
  <2>1. /\ UNCHANGED <<job, files, disk, edits, written>>
        /\ \A q \in Proc : q # p => pc'[q] = pc[q] /\ temp'[q] = temp[q]
    BY <1>0, <1>1 DEF WriteTemp, fileVars, past
  <2>2. pc[p] \in Pending /\ (pc'[p] \in Pending => pc'[p] = "sync" /\ temp'[p].marks = job[p].marks)
    <3>1. CASE pc' = [pc EXCEPT ![p] = "idle"]
      BY <1>0, <1>1, <3>1 DEF WriteTemp, Pending
    <3>2. CASE temp' = [temp EXCEPT ![p] = [marks |-> job[p].marks, synced |-> FALSE]]
               /\ Step(p, "write", "sync")
      BY <1>0, <3>2 DEF Pending
    <3> QED
      BY <1>1, <3>1, <3>2 DEF WriteTemp
  <2> QED
    BY <2>1, <2>2, OthersKeepEdits DEF EditsFit
<1>2. CASE SyncTemp(p)
  <2>0. temp[p] \in Text
    BY <1>2 DEF SyncTemp, TypeInv, BaseInv, JobsFit
  <2>1. /\ UNCHANGED <<job, files, disk, edits, written>>
        /\ \A q \in Proc : q # p => pc'[q] = pc[q] /\ temp'[q] = temp[q]
    BY <1>0, <1>2 DEF SyncTemp, fileVars, past
  <2>2. pc[p] = "sync" /\ (pc'[p] \in Pending => temp'[p].marks = temp[p].marks)
    <3>1. CASE pc' = [pc EXCEPT ![p] = "idle"]
      BY <1>0, <1>2, <3>1 DEF SyncTemp, Pending
    <3>2. CASE temp' = [temp EXCEPT ![p].synced = TRUE] /\ Step(p, "sync", "rename")
      <4>1. temp'[p] = [temp[p] EXCEPT !.synced = TRUE]
        BY <1>0, <3>2
      <4>2. temp'[p].marks = temp[p].marks
        BY <2>0, <4>1 DEF Text
      <4> QED
        BY <1>0, <3>2, <4>2
    <3> QED
      BY <1>2, <3>1, <3>2 DEF SyncTemp
  <2>3. pc[p] \in Pending
    BY <2>2 DEF Pending
  <2> QED
    BY <2>1, <2>2, <2>3, OthersKeepEdits DEF EditsFit
<1>3. CASE ReadNext(p)
  <2>1. /\ UNCHANGED <<temp, files, disk, edits, written>> /\ pc'[p] \notin Pending
        /\ \A q \in Proc : q # p => pc'[q] = pc[q] /\ job'[q] = job[q]
    BY <1>0, <1>3 DEF ReadNext, fileVars, past, Pending
  <2> QED
    BY <2>1, OthersKeepEdits
<1>4. CASE Kill(p)
  <2>1. /\ UNCHANGED <<job, files, disk, edits, written>> /\ pc'[p] \notin Pending
        /\ \A q \in Proc : q # p => pc'[q] = pc[q] /\ temp'[q] = temp[q]
    BY <1>0, <1>4 DEF Kill, fileVars, past, Pending
  <2> QED
    BY <2>1, OthersKeepEdits
<1>5. CASE WriteEvent(p) \/ WriteNewline(p) \/ SyncJournal(p)
  <2>1. /\ UNCHANGED <<job, temp, files, disk, edits, written>> /\ pc'[p] \notin Pending
        /\ \A q \in Proc : q # p => pc'[q] = pc[q]
    BY <1>0, <1>5 DEF WriteEvent, WriteNewline, SyncJournal, fileVars, past, Pending
  <2> QED
    BY <2>1, OthersKeepEdits
<1>6. ASSUME NEW f \in Package, RemoveReceipt(p, f)
      PROVE  EditsFit'
  <2>1. UNCHANGED <<pc, job, temp, disk, edits, written>> /\ pc[p] = "idle"
    BY <1>6 DEF RemoveReceipt, past
  <2>2. files'[Preferences] = files[Preferences]
    BY <1>0, <1>6 DEF RemoveReceipt, File
  <2> QED
    BY <2>1, <2>2, OthersKeepEdits DEF Pending
<1> QED
  BY <1>1, <1>2, <1>3, <1>4, <1>5, <1>6

\* The rename: the edit is in the preferences, or a receipt has its name, or
\* nothing happened.
LEMMA RenameKeepsEdits ==
  ASSUME TypeInv, EditsFit, NEW p \in Proc, Rename(p)
  PROVE  EditsFit'
<1>0. /\ edits \in Seq(Change) /\ Len(edits) \in Nat /\ written \in 0..Len(edits) /\ written \in Nat
      /\ pc \in [Proc -> {"idle", "event", "newline", "sync journal", "write", "sync",
                          "rename", "sync directory", "list"}]
      /\ temp \in [Proc -> Text \union {Missing}]
      /\ files \in [File -> FileValue] /\ Preferences \in File
  BY EditFacts
<1> DEFINE f == job[p].file
<1>1. /\ pc[p] = "rename" /\ pc[p] \in Pending /\ pc'[p] \notin Pending
      /\ UNCHANGED <<job, disk, written>>
      /\ \A q \in Proc : q # p => pc'[q] = pc[q] /\ temp'[q] = temp[q]
  BY <1>0 DEF Rename, Pending
<1>2. f \in File /\ job[p] \in EditJob /\ temp[p] \in Text
  BY <1>1 DEF TypeInv, BaseInv, JobsFit, Writing, EditJob
<1>3. CASE UNCHANGED <<files, edits>>
  BY <1>1, <1>3, OthersKeepEdits
<1>4. CASE f # Preferences
  <2>1. edits' = edits /\ files'[Preferences] = files[Preferences]
    BY <1>0, <1>4 DEF Rename
  <2> QED
    BY <1>1, <2>1, OthersKeepEdits
<1>5. CASE f = Preferences /\ files' = [files EXCEPT ![f] = temp[p]] /\ edits' = Append(edits, job[p].change)
  <2> DEFINE change == job[p].change
  <2>1. EditFits(edits, job[p].marks, change) /\ temp[p].marks = job[p].marks
    BY <1>1, <1>5 DEF EditsFit
  <2>2. change \in Change
    BY <1>2, <1>5 DEF EditJob
  <2>3. Marks(Preferences)' = job[p].marks
    <3>1. files'[Preferences] = temp[p] /\ temp[p] # Missing
      BY <1>0, <1>2, <1>5, TextAssumption
    <3> QED
      BY <2>1, <3>1 DEF Marks
  <2>4. Agrees(edits, Marks(Preferences), Len(edits))'
    <3>1. Agrees(edits', job[p].marks, Len(edits'))
      BY <1>0, <1>5, <2>1, EditLands
    <3> QED
      BY <2>3, <3>1 DEF Agrees, Lost
  <2>5. Agrees(edits, DiskMarks, written)'
    <3>1. \A i \in 1..written : edits'[i] = edits[i]
      <4> HIDE DEF change
      <4>1. \A i \in 1..written : Append(edits, change)[i] = edits[i]
        BY <1>0, <2>2, AppendAfter
      <4> QED
        BY <1>5, <4>1 DEF change
    <3>2. Agrees(edits', DiskMarks, written)
      BY <1>0, <3>1, SamePrefix DEF EditsFit
    <3> QED
      BY <1>1, <3>2 DEF Agrees, Lost, DiskMarks
  <2>6. ASSUME NEW q \in Proc, pc'[q] \in Pending
        PROVE  /\ job'[q].file = Preferences => EditFits(edits', job'[q].marks, job'[q].change)
               /\ pc'[q] \in {"sync", "rename"} => temp'[q].marks = job'[q].marks
    <3>1. q # p /\ pc[q] \in Pending /\ pc'[q] = pc[q] /\ job'[q] = job[q] /\ temp'[q] = temp[q]
      BY <1>1, <2>6
    <3>2. job[q].file = Preferences => EditFits(edits, job[q].marks, job[q].change)
      BY <3>1 DEF EditsFit
    <3>3. pc[q] \in {"sync", "rename"} => temp[q].marks = job[q].marks
      BY <3>1 DEF EditsFit
    <3>4. job[q].file = Preferences => EditFits(edits', job[q].marks, job[q].change)
      BY <1>0, <1>5, <2>2, <3>2, StillFits
    <3> QED
      BY <3>1, <3>3, <3>4
  <2> QED
    BY <2>4, <2>5, <2>6 DEF EditsFit
<1> QED
  BY <1>3, <1>4, <1>5 DEF Rename

LEMMA SyncKeepsEdits ==
  ASSUME TypeInv, EditsFit, NEW p \in Proc, SyncDirectory(p)
  PROVE  EditsFit'
<1>0. /\ pc \in [Proc -> {"idle", "event", "newline", "sync journal", "write", "sync",
                          "rename", "sync directory", "list"}]
      /\ Preferences \in File
  BY EditFacts
<1>1. /\ UNCHANGED <<job, temp, files, edits>> /\ pc'[p] \notin Pending
      /\ \A q \in Proc : q # p => pc'[q] = pc[q]
  BY <1>0 DEF SyncDirectory, Pending
<1>2. \/ disk'[Preferences] = disk[Preferences] /\ written' = written
      \/ disk'[Preferences] = files[Preferences] /\ written' = Len(edits)
  BY <1>0 DEF SyncDirectory, Siblings, DirectoryOf
<1>3. CASE disk'[Preferences] = disk[Preferences] /\ written' = written
  BY <1>1, <1>3, OthersKeepEdits
<1>4. CASE disk'[Preferences] = files[Preferences] /\ written' = Len(edits)
  <2>1. Agrees(edits, Marks(Preferences), Len(edits))' /\ Agrees(edits, DiskMarks, written)'
    BY <1>1, <1>4 DEF EditsFit, Agrees, Lost, Marks, DiskMarks
  <2>2. \A q \in Proc : pc'[q] \in Pending => q # p /\ pc'[q] = pc[q]
    BY <1>1
  <2> QED
    BY <1>1, <2>1, <2>2 DEF EditsFit
<1> QED
  BY <1>2, <1>3, <1>4

\* A power loss leaves the preferences with the edits that were written.
LEMMA LossKeepsEdits ==
  ASSUME TypeInv, EditsFit, PowerLoss
  PROVE  EditsFit'
<1>0. edits \in Seq(Change) /\ Len(edits) \in Nat /\ written \in 0..Len(edits) /\ written \in Nat
      /\ Preferences \in File
  BY EditFacts
<1>1. PICK lost \in Losses :
        LET gone == {f \in File : DirectoryOf(f) \in lost} IN
        /\ files' = [f \in File |-> IF f \in gone THEN Missing
                                   ELSE IF disk[f] = Missing \/ disk[f].synced THEN disk[f] ELSE Torn]
        /\ edits' = IF Preferences \in gone THEN <<>> ELSE SubSeq(edits, 1, written)
  BY DEF PowerLoss
<1>2. disk' = files' /\ written' = Len(edits') /\ \A p \in Proc : pc'[p] = "idle"
  BY DEF PowerLoss
<1>3. disk[Preferences] = Missing \/ disk[Preferences].synced
  BY <1>0 DEF TypeInv, BaseInv, WholeInv, Solid
<1>4. \/ edits' = <<>>
      \/ files'[Preferences] = disk[Preferences] /\ edits' = SubSeq(edits, 1, written)
  BY <1>0, <1>1, <1>3
<1>5. CASE edits' = <<>>
  <2>1. Len(edits') = 0
    BY <1>5, EmptySeq
  <2> QED
    BY <1>2, <2>1 DEF EditsFit, Agrees, Pending
<1>6. CASE files'[Preferences] = disk[Preferences] /\ edits' = SubSeq(edits, 1, written)
  <2>1. Len(edits') = written /\ \A i \in 1..written : edits'[i] = edits[i]
    BY <1>0, <1>6, SubSeqProperties
  <2>2. Agrees(edits', DiskMarks, written)
    BY <1>0, <2>1, SamePrefix DEF EditsFit
  <2>3. Marks(Preferences)' = DiskMarks /\ DiskMarks' = DiskMarks
    BY <1>2, <1>6 DEF Marks, DiskMarks
  <2>4. Agrees(edits, Marks(Preferences), Len(edits))' /\ Agrees(edits, DiskMarks, written)'
    BY <1>2, <2>1, <2>2, <2>3 DEF Agrees, Lost
  <2> QED
    BY <1>2, <2>4 DEF EditsFit, Pending
<1> QED
  BY <1>4, <1>5, <1>6

LEMMA NextKeepsEdits ==
  ASSUME TypeInv, EditsFit, [Next]_vars
  PROVE  EditsFit'
<1>1. ASSUME NEW p \in Proc, Call(p) \/ Kill(p)
      PROVE  EditsFit'
  BY <1>1, BeginsKeepEdits, CallsKeepEdits, RenameKeepsEdits, SyncKeepsEdits DEF Call
<1>2. CASE OpenStore \/ Loosen \/ UNCHANGED vars
  <2>1. UNCHANGED <<pc, job, temp, files, disk, edits, written>>
    BY <1>2 DEF OpenStore, Loosen, vars, fileVars, past
  <2> QED
    BY <2>1 DEF EditsFit, Agrees, Lost, EditFits, Marks, DiskMarks
<1>3. CASE WriteBack
  <2>1. UNCHANGED <<pc, job, temp, files, edits>> /\ disk' = files /\ written' = Len(edits)
    BY <1>3 DEF WriteBack
  <2> QED
    BY <2>1 DEF EditsFit, Agrees, Lost, EditFits, Marks, DiskMarks
<1> QED
  BY <1>1, <1>2, <1>3, LossKeepsEdits DEF Next

\* No pin or hold is undone but by a later edit of the same mark or by one that
\* was under way at the same time; a power loss takes at most the edits whose
\* rename was not synced, the last ones.  The preferences alone do not show
\* this: an edit writes what it read, which is why the invariant relates each
\* edit under way to the edits that were in the preferences when it began.
THEOREM EditsSurvive == Spec => []EditsAreKept
<1>1. Init => TypeInv /\ EditsFit
  BY InitTyped, InitEdits
<1>2. TypeInv /\ EditsFit /\ [Next]_vars => (TypeInv /\ EditsFit)'
  BY NextKeepsTypes, NextKeepsEdits
<1>3. TypeInv /\ EditsFit => EditsAreKept
  <2> SUFFICES ASSUME TypeInv, EditsFit PROVE EditsAreKept
    OBVIOUS
  <2>1. DOMAIN edits = 1..Len(edits)
    BY EditFacts, LenProperties
  <2> QED
    BY <2>1 DEF EditsFit, Agrees, Lost, Overridden, EditsAreKept
<1> QED
  BY <1>1, <1>2, <1>3, PTL DEF Spec
=============================================================================
