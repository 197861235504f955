----------------------------- MODULE StateFiles -----------------------------
(***************************************************************************)
(* The files of the state store (siorb-state) under the kernel they live   *)
(* in: the journal that appends grow, and the files that atomic_json_write *)
(* replaces (the preferences with pins and holds, and a receipt for each   *)
(* package).  Processes share the directory without a lock.  A process may *)
(* be killed and the machine may lose power between any two system calls;  *)
(* what was not synced may then be lost, names of files included.          *)
(***************************************************************************)
EXTENDS Naturals, Sequences, FiniteSets

CONSTANTS
  Proc,        \* the siorb processes
  Package,     \* packages with a receipt
  Mark,        \* pins and holds, each with its package
  Version,     \* what a receipt may record
  Place,       \* what may stand where the state directory belongs
  Preferences, Newline, Torn, Missing,   \* model values
  MaxOps, MaxLosses                      \* bounds: operations, power losses

Node == [kind : {"missing", "directory", "link", "file"}, owner : {"self", "administrators", "another"},
         access : SUBSET {"self", "system", "administrators", "others"}, acl : BOOLEAN]

ASSUME StateFilesAssumption ==
  /\ IsFiniteSet(Proc)
  /\ MaxOps \in Nat /\ MaxLosses \in Nat
  /\ Preferences \notin Package /\ Torn \notin Package
  /\ Newline \notin Nat /\ Torn \notin Nat /\ Newline # Torn
  /\ Place \subseteq Node

File    == Package \union {Preferences}
Content == SUBSET (Mark \union Version)
Event   == 1..MaxOps

\* A file's text, and whether its bytes were synced before it got its name.
Text == [marks : Content, synced : BOOLEAN]

ASSUME TextAssumption == Missing # Torn /\ Missing \notin Text /\ Torn \notin Text

\* The directory, receipts/ in it, and the journal.
Name == {"root", "receipts", "journal"}

\* A pin, unpin, hold or unhold: its mark, whether it sets it, and how many such
\* edits the preferences had had when it read them.
Change == [mark : Mark, set : BOOLEAN, began : Nat]

VARIABLES
  root,      \* the state directory
  journal,   \* journal.ndjson as the writes that made it
  onDisk,    \* how many of these writes a power loss cannot take back
  files,     \* the named files, as a process reads them
  disk,      \* the named files, as they are after a power loss
  made,      \* which of Name exist
  kept,      \* which of them are names that a power loss cannot take back
  pc,        \* the next system call of each process
  job,       \* the operation it is for
  temp,      \* the text of its temporary file
  litter,    \* temporary files that nobody owns any more
  ops, losses,
  answered,  \* history: events whose append returned Ok
  since,     \* history: what a file held since its last answered write
  cut,       \* history: an append was cut short or ran into another one
  failures,  \* history: what listings failed on
  taken,     \* history: answered events that went with the name of their journal
  edits,     \* history: the edits that made the preferences, in order
  written    \* history: how many of them are in the preferences on disk

fileVars == <<journal, onDisk, files, disk>>
names == <<made, kept>>
past  == <<taken, edits, written>>
vars == <<root, fileVars, names, pc, job, temp, litter, ops, losses, answered, since, cut, failures, past>>

-----------------------------------------------------------------------------
(* The state directory. *)

\* A place has an access list on Windows (acl), an owner and a mode on Unix.
Trusted(node) == IF node.acl THEN {"self", "system", "administrators"} ELSE {"self"}
Owners(node) == IF node.acl THEN {"self", "administrators"} ELSE {"self"}

\* validate_private_directory: no link, the right owner, nobody else's access,
\* and (Windows) the process's own.
Private(node) ==
  /\ node.kind = "directory"
  /\ node.owner \in Owners(node)
  /\ node.access \subseteq Trusted(node)
  /\ node.acl => "self" \in node.access

\* set_permissions(0o700), or a protected DACL on Windows: the owner stays.
Hardened(node) == [node EXCEPT !.access = Trusted(node)]

\* create_private_dir: what is missing is made, a link or a file is refused,
\* and on Unix a directory of another user, before anything changes it.
Created(node) ==
  IF node.kind = "missing" THEN Hardened([node EXCEPT !.kind = "directory", !.owner = "self"])
  ELSE IF node.kind = "directory" /\ (node.acl \/ node.owner \in Owners(node))
  THEN Hardened(node) ELSE node

-----------------------------------------------------------------------------
\* An operation of a command, which has opened the store.
Begin(p, call, task) ==
  /\ pc[p] = "idle" /\ ops < MaxOps
  /\ Private(root) /\ "receipts" \in made
  /\ pc' = [pc EXCEPT ![p] = call]
  /\ job' = [job EXCEPT ![p] = task]
  /\ ops' = ops + 1

Step(p, from, to) == pc[p] = from /\ pc' = [pc EXCEPT ![p] = to]

\* StateStore::new, which every command runs first: it repairs the access of
\* a directory that is ours and leaves anything else alone.  Of the directories
\* that it makes no name is synced.
OpenStore ==
  /\ root' = Created(root)
  /\ made' = IF Private(root') THEN made \union {"root", "receipts"} ELSE made
  /\ UNCHANGED <<kept, past, fileVars, pc, job, temp, litter, ops, losses, answered, since, cut, failures>>

-----------------------------------------------------------------------------
(* append_event *)

\* Mutant: events are numbered from zero.
BeginAppendFromZero(p) ==
  /\ Begin(p, "event", [id |-> ops])
  /\ made' = made \union {"journal"}
  /\ UNCHANGED <<root, kept, past, fileVars, temp, litter, losses, answered, since, cut, failures>>
\* The journal is opened, and made when it is missing.
BeginAppend(p) ==
  /\ Begin(p, "event", [id |-> ops + 1])
  /\ made' = made \union {"journal"}
  /\ UNCHANGED <<root, kept, past, fileVars, temp, litter, losses, answered, since, cut, failures>>

\* The first write_all: a full disk leaves part of the line.  The line runs
\* into another when one is still waiting for its newline.
WriteEvent(p) ==
  /\ \/ /\ Step(p, "event", "newline")
        /\ journal' = Append(journal, job[p].id)
        /\ cut' = (cut \/ (journal # <<>> /\ journal[Len(journal)] # Newline))
     \/ /\ Step(p, "event", "idle")
        /\ journal' = Append(journal, Torn)
        /\ cut' = TRUE
  /\ UNCHANGED <<root, names, past, onDisk, files, disk, job, temp, litter, ops, losses, answered, since, failures>>

\* The second write_all.
WriteNewline(p) ==
  /\ \/ /\ Step(p, "newline", "sync journal")
        /\ journal' = Append(journal, Newline)
        /\ UNCHANGED cut
     \/ /\ Step(p, "newline", "idle")
        /\ cut' = TRUE
        /\ UNCHANGED journal
  /\ UNCHANGED <<root, names, past, onDisk, files, disk, job, temp, litter, ops, losses, answered, since, failures>>

\* Mutant: Ok without sync_data.
AnswerUnsynced(p) ==
  /\ Step(p, "sync journal", "idle")
  /\ answered' = answered \union {job[p].id}
  /\ UNCHANGED <<root, names, past, fileVars, job, temp, litter, ops, losses, since, cut, failures>>

\* The bytes of the journal are synced, not its name in the directory.
SyncJournal(p) ==
  /\ Step(p, "sync journal", "idle")
  /\ \/ onDisk' = Len(journal) /\ answered' = answered \union {job[p].id}
     \/ UNCHANGED <<onDisk, answered>>
  /\ UNCHANGED <<root, names, past, journal, files, disk, job, temp, litter, ops, losses, since, cut, failures>>

\* Mutant: a reader that wants each event's newline.
ReadableToNewline(log) ==
  \A i \in DOMAIN log :
    IF log[i] = Newline THEN i > 1 /\ log[i - 1] # Newline
    ELSE log[i] # Torn /\ i < Len(log) /\ log[i + 1] = Newline
\* StateStore::journal: every line must be one whole event; the last one may
\* lack its newline.
Readable(log) ==
  \A i \in DOMAIN log :
    IF log[i] = Newline THEN i > 1 /\ log[i - 1] # Newline
    ELSE log[i] # Torn /\ (i = 1 \/ log[i - 1] = Newline)

-----------------------------------------------------------------------------
(* atomic_json_write and its callers *)

Marks(f) == IF files[f] = Missing THEN {} ELSE files[f].marks

\* What is to be written to a file, and for which change of the preferences.
Edit(f, marks, change) == [file |-> f, marks |-> marks, change |-> change]

\* A change to mark m of the preferences as they are read now.
ChangeOf(m, set) == [mark |-> m, set |-> set, began |-> Len(edits)]

\* Mutant: the other marks are not carried over.
ForgetOthers(p, m) ==
  /\ \E set \in BOOLEAN :
       Begin(p, "write", Edit(Preferences, IF set THEN {m} ELSE {}, ChangeOf(m, set)))
  /\ UNCHANGED <<root, names, past, fileVars, temp, litter, losses, answered, since, cut, failures>>
\* pin, unpin, hold, unhold: read everything, change one mark, write it all.
EditPreferences(p, m) ==
  LET base == Marks(Preferences) IN
  /\ \E set \in BOOLEAN :
       Begin(p, "write", Edit(Preferences, IF set THEN base \union {m} ELSE base \ {m}, ChangeOf(m, set)))
  /\ UNCHANGED <<root, names, past, fileVars, temp, litter, losses, answered, since, cut, failures>>

WriteReceipt(p, f, v) ==
  /\ Begin(p, "write", Edit(f, {v}, Missing))
  /\ UNCHANGED <<root, names, past, fileVars, temp, litter, losses, answered, since, cut, failures>>

\* The temporary is created and written; it stays behind when a write fails.
\* A directory that others can reach by now is refused.
WriteTemp(p) ==
  /\ \/ Step(p, "write", "idle") /\ ~Private(root) /\ UNCHANGED <<temp, litter>>
     \/ /\ Private(root) /\ Step(p, "write", "sync")
        /\ temp' = [temp EXCEPT ![p] = [marks |-> job[p].marks, synced |-> FALSE]]
        /\ UNCHANGED litter
     \/ /\ Private(root) /\ Step(p, "write", "idle")
        /\ litter' = litter + 1 /\ UNCHANGED temp
  /\ UNCHANGED <<root, names, past, fileVars, job, ops, losses, answered, since, cut, failures>>

\* Mutant: the bytes are not synced before the rename.
NoSync(p) ==
  /\ Step(p, "sync", "rename")
  /\ UNCHANGED <<root, names, past, fileVars, job, temp, litter, ops, losses, answered, since, cut, failures>>

SyncTemp(p) ==
  /\ \/ /\ Step(p, "sync", "rename")
        /\ temp' = [temp EXCEPT ![p].synced = TRUE]
        /\ UNCHANGED litter
     \/ /\ Step(p, "sync", "idle")
        /\ temp' = [temp EXCEPT ![p] = Missing]
        /\ litter' = litter + 1
  /\ UNCHANGED <<root, names, past, fileVars, job, ops, losses, answered, since, cut, failures>>

\* A rename that fails takes the temporary away with it.
Rename(p) ==
  LET f == job[p].file IN
  /\ temp' = [temp EXCEPT ![p] = Missing]
  /\ \/ /\ Step(p, "rename", "sync directory")
        /\ files' = [files EXCEPT ![f] = temp[p]]
        /\ since' = [since EXCEPT ![f] = @ \union {temp[p]}]
        /\ edits' = IF f = Preferences THEN Append(edits, job[p].change) ELSE edits
     \/ Step(p, "rename", "idle") /\ UNCHANGED <<files, since, edits>>
  /\ UNCHANGED <<root, names, taken, written, journal, onDisk, disk, job, litter, ops, losses, answered, cut, failures>>

\* The directory of a receipt, and that of the preferences, which has the names
\* of receipts/ and of the journal in it.
DirectoryOf(f) == IF f = Preferences THEN "root" ELSE "receipts"
Siblings(f) == {g \in File : DirectoryOf(g) = DirectoryOf(f)}
Within(f)   == IF f = Preferences THEN made \ {"root"} ELSE {}

SyncDirectory(p) ==
  LET f == job[p].file
      synced == Siblings(f) IN
  /\ Step(p, "sync directory", "idle")
  /\ \/ /\ disk' = [g \in File |-> IF g \in synced THEN files[g] ELSE disk[g]]
        /\ since' = [g \in File |-> IF g \in synced THEN {files[g]} ELSE since[g]]
        /\ kept' = kept \union Within(f)
        /\ written' = IF f = Preferences THEN Len(edits) ELSE written
     \/ UNCHANGED <<disk, since, kept, written>>
  /\ UNCHANGED <<root, made, taken, edits, journal, onDisk, files, job, temp, litter, ops, losses, answered, cut, failures>>

\* remove_receipt does not sync: a power loss may bring the receipt back.
RemoveReceipt(p, f) ==
  /\ pc[p] = "idle" /\ ops < MaxOps
  /\ Private(root)
  /\ files[f] # Missing
  /\ files' = [files EXCEPT ![f] = Missing]
  /\ since' = [since EXCEPT ![f] = @ \union {Missing}]
  /\ ops' = ops + 1
  /\ UNCHANGED <<root, names, past, journal, onDisk, disk, pc, job, temp, litter, losses, answered, cut, failures>>

-----------------------------------------------------------------------------
(* receipts: the names first, then the files one by one *)

\* The names that end in .json; temporaries end in .tmp-*.
Listing == {f \in Package : files[f] # Missing}

BeginList(p) ==
  /\ Begin(p, "list", [left |-> Listing])
  /\ UNCHANGED <<root, names, past, fileVars, temp, litter, losses, answered, since, cut, failures>>

\* read_json of the next name: an error ends the listing.
ReadNext(p) ==
  /\ pc[p] = "list"
  /\ \/ job[p].left = {} /\ Step(p, "list", "idle") /\ UNCHANGED <<job, failures>>
     \/ \E f \in job[p].left :
          IF f \in File /\ files[f] \in Text
          THEN /\ Step(p, "list", "list")
               /\ job' = [job EXCEPT ![p].left = @ \ {f}]
               /\ UNCHANGED failures
          ELSE /\ Step(p, "list", "idle")
               /\ failures' = failures \union {IF f \in File THEN files[f] ELSE Torn}
               /\ UNCHANGED job
  /\ UNCHANGED <<root, names, past, fileVars, temp, litter, ops, losses, answered, since, cut>>

-----------------------------------------------------------------------------
(* The machine *)

\* A process dies and leaves its temporary.
Kill(p) ==
  /\ pc[p] # "idle"
  /\ pc' = [pc EXCEPT ![p] = "idle"]
  /\ temp' = [temp EXCEPT ![p] = Missing]
  /\ litter' = litter + (IF temp[p] = Missing THEN 0 ELSE 1)
  /\ cut' = (cut \/ pc[p] = "newline")
  /\ UNCHANGED <<root, names, past, fileVars, job, ops, losses, answered, since, failures>>

\* The kernel writes back on its own.
WriteBack ==
  /\ onDisk' = Len(journal) /\ disk' = files /\ kept' = made /\ written' = Len(edits)
  /\ UNCHANGED <<root, made, taken, edits, journal, files, pc, job, temp, litter, ops, losses, answered, since, cut, failures>>

\* The names a power loss may take: any that was not synced, and with that of
\* the directory all that is in it.
Losses == {lost \in SUBSET (made \ kept) : "root" \notin lost} \union {lost \in {made} : "root" \notin kept}

\* The journal after the loss of power: unsynced writes are gone, the first of
\* them perhaps only in part, or all of it, with its name.
CutBack(lost) ==
  \/ /\ "journal" \in lost
     /\ journal' = <<>> /\ onDisk' = 0
     /\ taken' = taken \union answered
     /\ UNCHANGED cut
  \/ /\ "journal" \notin lost
     /\ \E tail \in {<<>>, <<Torn>>} :
          /\ tail # <<>> => onDisk < Len(journal) /\ journal[onDisk + 1] # Newline
          /\ journal' = SubSeq(journal, 1, onDisk) \o tail
          /\ onDisk' = Len(journal')
          /\ cut' = (cut \/ tail # <<>> \/ (onDisk > 0 /\ journal[onDisk] # Newline))
     /\ UNCHANGED taken

\* A file that got its name before its bytes were synced is torn.
PowerLoss ==
  /\ losses < MaxLosses /\ losses' = losses + 1
  /\ \E lost \in Losses :
       LET gone == {f \in File : DirectoryOf(f) \in lost} IN
       /\ made' = made \ lost /\ kept' = made'
       /\ root' = IF "root" \in lost THEN [root EXCEPT !.kind = "missing"] ELSE root
       /\ CutBack(lost)
       /\ files' = [f \in File |-> IF f \in gone THEN Missing
                                  ELSE IF disk[f] = Missing \/ disk[f].synced THEN disk[f] ELSE Torn]
       /\ since' = [f \in File |-> IF f \in gone THEN since[f] \union {Missing} ELSE since[f]]
       /\ edits' = IF Preferences \in gone THEN <<>> ELSE SubSeq(edits, 1, written)
  /\ disk' = files' /\ written' = Len(edits')
  /\ pc' = [p \in Proc |-> "idle"]
  /\ temp' = [p \in Proc |-> Missing]
  /\ litter' = litter + Cardinality({p \in Proc : temp[p] # Missing})
  /\ UNCHANGED <<job, ops, answered, failures>>

\* Somebody opens the directory to others.
Loosen ==
  /\ root' = [root EXCEPT !.access = @ \union {"others"}]
  /\ UNCHANGED <<names, past, fileVars, pc, job, temp, litter, ops, losses, answered, since, cut, failures>>

-----------------------------------------------------------------------------
Init ==
  /\ root \in Place
  /\ made = IF root.kind = "missing" THEN {} ELSE {"root"}
  /\ kept = made
  /\ journal = <<>> /\ onDisk = 0
  /\ files = [f \in File |-> Missing] /\ disk = files
  /\ pc = [p \in Proc |-> "idle"]
  /\ job = [p \in Proc |-> [left |-> {}]]
  /\ temp = [p \in Proc |-> Missing]
  /\ litter = 0 /\ ops = 0 /\ losses = 0
  /\ answered = {} /\ cut = FALSE /\ failures = {}
  /\ since = [f \in File |-> {Missing}]
  /\ taken = {} /\ edits = <<>> /\ written = 0

Call(p) ==
  \/ BeginAppend(p) \/ WriteEvent(p) \/ WriteNewline(p) \/ SyncJournal(p)
  \/ \E m \in Mark : EditPreferences(p, m)
  \/ \E f \in Package, v \in Version : WriteReceipt(p, f, v)
  \/ WriteTemp(p) \/ SyncTemp(p) \/ Rename(p) \/ SyncDirectory(p)
  \/ \E f \in Package : RemoveReceipt(p, f)
  \/ BeginList(p) \/ ReadNext(p)

Next ==
  \/ \E p \in Proc : Call(p) \/ Kill(p)
  \/ OpenStore \/ Loosen \/ WriteBack \/ PowerLoss

Spec == Init /\ [][Next]_vars

-----------------------------------------------------------------------------
(* Properties *)

FileValue == Text \union {Missing, Torn}
Job == [id : Event] \union [file : File, marks : Content, change : Change \union {Missing}] \union [left : SUBSET (Package \union {Torn})]

JournalTyped == journal \in Seq(Event \union {Newline, Torn}) /\ onDisk \in 0..Len(journal)
FilesTyped ==
  /\ files \in [File -> FileValue] /\ disk \in [File -> FileValue]
  /\ since \in [File -> SUBSET FileValue]
CallsTyped ==
  /\ pc \in [Proc -> {"idle", "event", "newline", "sync journal", "write", "sync", "rename",
                      "sync directory", "list"}]
  /\ job \in [Proc -> Job] /\ temp \in [Proc -> Text \union {Missing}]
CountsTyped ==
  /\ litter \in Nat /\ ops \in 0..MaxOps /\ losses \in 0..MaxLosses
  /\ answered \subseteq Event /\ cut \in BOOLEAN /\ failures \subseteq FileValue

PastTyped ==
  /\ made \subseteq Name /\ kept \subseteq made
  /\ taken \subseteq answered /\ edits \in Seq(Change) /\ written \in 0..Len(edits)

StoreTyped == root \in Node /\ JournalTyped /\ FilesTyped /\ CallsTyped /\ CountsTyped

\* Every variable has its type; a process that appends, writes or lists has
\* the operation it does that for.
TypeOK == StoreTyped /\ PastTyped

\* What was answered Ok stays, through kills, power losses, full disks and the
\* work of other processes: an event stays whole in the journal (append_event
\* syncs before it answers), and a file holds, now and after a power loss, what
\* its last answered write wrote, or something newer.  Only the name of the
\* journal, of receipts/ or of the directory is not safe: a power loss may take
\* one that no sync of the directory, that is no answered write of the
\* preferences, and no write-back of the kernel has covered, with all it names.
AnsweredStays ==
  /\ \A e \in answered : (\E i \in DOMAIN journal : journal[i] = e) \/ e \in taken
  /\ \A f \in File : files[f] \in since[f]

\* No process ever reads a half-written file: a name always stands for a text
\* that was synced before it got the name (atomic_json_write).
FilesAreWhole == \A f \in File : files[f] \notin {Torn}

\* The journal can be read whenever no append was cut short by a fault or ran
\* into the append of another process: then StateStore::journal, which refuses
\* the whole journal for one bad line, refuses nothing.  A listing of receipts
\* fails only on a receipt that another process removed after the listing had
\* seen its name; a temporary file never disturbs it.
ReadersAreServed ==
  /\ cut \/ Readable(journal)
  /\ failures \subseteq {Missing}

\* A directory that is the user's own, or is not there, is in order once the
\* store was opened, whatever access it had: StateStore::new never leaves it
\* in a state that its own checks refuse.
OwnDirectoryOpens ==
  root.kind \in {"missing", "directory"} /\ root.owner = "self" => Private(Created(root))

\* A later edit of the same mark, or one that had read the preferences before
\* edit i was in them.
Overridden(i) ==
  \E j \in (i + 1)..Len(edits) : edits[j].mark = edits[i].mark \/ edits[j].began < i

\* No pin, unpin, hold or unhold is undone but by a later one of the same mark,
\* or by one that was under way at the same time: that one writes back what it
\* read, and the edit in between is lost (nothing locks the preferences).  Other
\* edits, failing writes, kills, and power losses after it was written, keep it.
EditsAreKept ==
  \A i \in DOMAIN edits :
    ~Overridden(i) => (edits[i].mark \in Marks(Preferences)) = edits[i].set

=============================================================================
