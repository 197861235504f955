----------------------------- MODULE SelfUpdate -----------------------------
(***************************************************************************)
(* `siorb self update` (siorb-cli, siorb-update): verified release         *)
(* metadata, the newest compatible release, its archive, and the           *)
(* replacement of the running executable: by one rename on Unix, by a      *)
(* helper that waits for the process to exit on Windows.  Nothing locks:   *)
(* several updates may run.  Any call may fail, processes may be killed    *)
(* and the machine may lose power.                                         *)
(*                                                                         *)
(* The verification of metadata is TrustedUpdate's; here it compares one   *)
(* version with the one stored.                                            *)
(***************************************************************************)
EXTENDS ArchiveEntries

CONSTANTS
  Proc,
  Systems,        \* operating systems to consider: subset of {"linux", "windows"}
  Architecture,   \* the machine's
  Repository,     \* a sequence: the targets that each release of the metadata signs
  FirstVersion,   \* of the executable installed at first
  Limits,         \* MAX_RELEASE_ENTRIES and the like: entries, total, single
  None,
  MaxRuns, MaxFaults, MaxKills

TargetType == [name : STRING, version : Nat, os : STRING, arch : STRING, format : STRING,
               entries : Seq(Entry)]

ASSUME SelfUpdateAssumption ==
  /\ Systems \subseteq {"linux", "windows"} /\ FirstVersion \in Nat
  /\ Repository \in Seq(SUBSET TargetType)
  /\ None \notin [version : Nat, whole : BOOLEAN]
  /\ MaxRuns \in Nat /\ MaxFaults \in Nat /\ MaxKills \in Nat

VARIABLES
  os,
  exe, backup,    \* the executable's file and, on Windows, the old one beside it
  past,           \* what a power loss may bring back in the executable's place
  pc, helper,     \* steps of the updates and of their Windows helpers
  running,        \* CARGO_PKG_VERSION of each process
  trusted,        \* the stored version each update loaded
  seen,           \* the release of the metadata that it verified
  target,         \* the release target that it chose
  staged,         \* the file it wrote beside the executable
  stored,         \* release-rollback.json
  best,           \* history: the newest version that was ever in place
  overlap,        \* history: two updates were under way at once
  runs, faults, kills

files  == <<exe, backup, past, staged>>
facts  == <<os, running, trusted, seen, target>>
bounds == <<runs, faults, kills>>
vars   == <<pc, helper, files, facts, bounds, stored, best, overlap>>

-----------------------------------------------------------------------------
File(v) == [version |-> v, whole |-> TRUE]
Torn == [version |-> 0, whole |-> FALSE]

Later(a, b) == IF a >= b THEN a ELSE b
To(p, step) == pc' = [pc EXCEPT ![p] = step]
Helper(p, step) == helper' = [helper EXCEPT ![p] = step]
Fault == faults < MaxFaults /\ faults' = faults + 1
NoFault == UNCHANGED faults
Busy(p) == pc[p] # "idle" \/ helper[p] # "none"

Published == UNION {Repository[r] : r \in DOMAIN Repository}

\* The running version is compiled in; the rollback state is read once.
Start(p) ==
  /\ ~Busy(p) /\ exe # None /\ exe.whole /\ runs < MaxRuns
  /\ runs' = runs + 1
  /\ running' = [running EXCEPT ![p] = exe.version]
  /\ trusted' = [trusted EXCEPT ![p] = stored]
  /\ overlap' = (overlap \/ \E q \in Proc : Busy(q))
  /\ To(p, "verify")
  /\ UNCHANGED <<os, seen, target, helper, files, faults, kills, stored, best>>

\* The mirror serves release r of the metadata, the newest or a stale one.
Verify(p, r) ==
  /\ pc[p] = "verify"
  /\ IF r >= trusted[p] THEN seen' = [seen EXCEPT ![p] = r] /\ To(p, "select")
                        ELSE To(p, "idle") /\ UNCHANGED seen
  /\ UNCHANGED <<os, running, trusted, target, helper, files, bounds, stored, best, overlap>>

\* select_release_target: one malformed target refuses them all.
WellFormed(t) ==
  /\ t.os \in {"windows", "macos", "linux"} /\ t.arch # "unknown"
  /\ t.format \in {"zip", "tar.gz"}
\* Mutant: the running version is a candidate, and so are older ones.
CandidatesOfAnyVersion(p) == {t \in Repository[seen[p]] : t.os = os /\ t.arch = Architecture}
Candidates(p) == {t \in Repository[seen[p]] :
                   t.os = os /\ t.arch = Architecture /\ t.version > running[p]}

\* No candidate, a dry run and a missing consent all end here.
Select(p) ==
  /\ pc[p] = "select"
  /\ \/ To(p, "idle") /\ UNCHANGED target
     \/ /\ \A t \in Repository[seen[p]] : WellFormed(t)
        /\ \E t \in Candidates(p) :
             /\ \A u \in Candidates(p) : u.version <= t.version
             /\ target' = [target EXCEPT ![p] = t]
        /\ To(p, "fetch")
  /\ UNCHANGED <<os, running, trusted, seen, helper, files, bounds, stored, best, overlap>>

\* The mirror serves the archive of t, or nothing in time.
Fetch(p, t) ==
  /\ pc[p] = "fetch"
  /\ To(p, IF t = target[p] THEN "extract" ELSE "idle")
  /\ UNCHANGED <<facts, helper, files, bounds, stored, best, overlap>>

Extract(p) ==
  /\ pc[p] = "extract"
  /\ To(p, IF ReleaseAccepted(target[p].format, target[p].entries, os, Limits) THEN "stage" ELSE "idle")
  /\ UNCHANGED <<facts, helper, files, bounds, stored, best, overlap>>

-----------------------------------------------------------------------------
(* install_executable_at *)

\* The file is created, and is torn until it is synced.
Stage(p) ==
  /\ pc[p] = "stage"
  /\ \/ staged' = [staged EXCEPT ![p] = Torn] /\ To(p, "sync") /\ NoFault
     \/ Fault /\ To(p, "idle") /\ UNCHANGED staged
  /\ UNCHANGED <<exe, backup, past, facts, helper, runs, kills, stored, best, overlap>>

\* Mutant: the file is renamed over the executable on Windows too.
SyncThenReplace(p) ==
  /\ pc[p] = "sync" /\ To(p, "replace")
  /\ staged' = [staged EXCEPT ![p] = File(target[p].version)]
  /\ UNCHANGED <<exe, backup, past, facts, helper, bounds, stored, best, overlap>>
SyncStaged(p) ==
  /\ pc[p] = "sync"
  /\ \/ /\ staged' = [staged EXCEPT ![p] = File(target[p].version)] /\ NoFault
        /\ To(p, IF os = "windows" THEN "spawn" ELSE "replace")
     \/ Fault /\ To(p, "idle") /\ staged' = [staged EXCEPT ![p] = None]
  /\ UNCHANGED <<exe, backup, past, facts, helper, runs, kills, stored, best, overlap>>

\* Unix: one rename over the executable, which a power loss may undo until the
\* directory is synced.
Replace(p) ==
  /\ pc[p] = "replace"
  /\ \/ /\ exe' = staged[p] /\ past' = past \union {exe}
        /\ best' = Later(best, exe'.version)
        /\ To(p, "settle") /\ NoFault
     \/ Fault /\ To(p, "idle") /\ UNCHANGED <<exe, past, best>>
  /\ staged' = [staged EXCEPT ![p] = None]
  /\ UNCHANGED <<backup, facts, helper, runs, kills, stored, overlap>>

\* The sync of the directory, whose failure is ignored.
Settle(p) ==
  /\ pc[p] = "settle" /\ To(p, "store")
  /\ \/ past' = {} /\ NoFault
     \/ Fault /\ UNCHANGED past
  /\ UNCHANGED <<exe, backup, staged, facts, helper, runs, kills, stored, best, overlap>>

\* Windows: a failure to write or to start the helper; that of finding the
\* system's shell leaves the staged file behind.
Spawn(p) ==
  /\ pc[p] = "spawn"
  /\ \/ Helper(p, "wait") /\ To(p, "store") /\ NoFault /\ UNCHANGED staged
     \/ /\ Fault /\ To(p, "idle") /\ UNCHANGED helper
        /\ \/ staged' = [staged EXCEPT ![p] = None]
           \/ UNCHANGED staged
  /\ UNCHANGED <<exe, backup, past, facts, runs, kills, stored, best, overlap>>

\* store_rollback_state, whatever is stored by now.
Store(p) ==
  /\ pc[p] = "store" /\ To(p, "idle")
  /\ \/ stored' = seen[p] /\ NoFault
     \/ Fault /\ UNCHANGED stored
  /\ UNCHANGED <<files, facts, helper, runs, kills, best, overlap>>

-----------------------------------------------------------------------------
(* The replacement helper on Windows *)

helperFrame == <<past, facts, pc, runs, kills, stored, overlap>>

\* Wait-Process, and the backup of an earlier update is removed, silently.
HelperClear(p) ==
  /\ helper[p] = "wait" /\ pc[p] = "idle" /\ Helper(p, "away")
  /\ \/ backup' = None /\ NoFault
     \/ backup # None /\ Fault /\ UNCHANGED backup
  /\ UNCHANGED <<exe, staged, best, helperFrame>>

HelperAway(p) ==
  /\ helper[p] = "away"
  /\ \/ /\ exe # None /\ backup' = exe /\ exe' = None
        /\ Helper(p, "in") /\ NoFault
     \/ exe = None /\ Helper(p, "catch") /\ NoFault /\ UNCHANGED <<exe, backup>>
     \/ Fault /\ Helper(p, "catch") /\ UNCHANGED <<exe, backup>>
  /\ UNCHANGED <<staged, best, helperFrame>>

HelperIn(p) ==
  /\ helper[p] = "in"
  /\ \/ /\ exe' = staged[p] /\ staged' = [staged EXCEPT ![p] = None]
        /\ best' = Later(best, exe'.version)
        /\ Helper(p, "tidy") /\ NoFault
     \/ Fault /\ Helper(p, "catch") /\ UNCHANGED <<exe, staged, best>>
  /\ UNCHANGED <<backup, helperFrame>>

HelperTidy(p) ==
  /\ helper[p] = "tidy" /\ Helper(p, "none")
  /\ \/ backup' = None /\ NoFault
     \/ Fault /\ UNCHANGED backup
  /\ UNCHANGED <<exe, staged, best, helperFrame>>

\* Mutant: a failure leaves everything as it is.
HelperGivesUp(p) ==
  /\ helper[p] = "catch" /\ Helper(p, "none")
  /\ backup' = None
  /\ UNCHANGED <<exe, faults, staged, best, helperFrame>>
HelperCatch(p) ==
  /\ helper[p] = "catch" /\ Helper(p, "none")
  /\ \/ backup # None /\ exe' = backup /\ backup' = None /\ NoFault
     \/ backup = None /\ NoFault /\ UNCHANGED <<exe, backup>>
     \/ backup # None /\ Fault /\ UNCHANGED <<exe, backup>>
  /\ UNCHANGED <<staged, best, helperFrame>>

-----------------------------------------------------------------------------
Kill(p) ==
  /\ pc[p] # "idle" /\ kills < MaxKills /\ kills' = kills + 1
  /\ To(p, "idle")
  /\ UNCHANGED <<helper, files, facts, runs, faults, stored, best, overlap>>

\* A staged file that was not synced is torn anyway.
PowerLoss ==
  /\ kills < MaxKills /\ kills' = kills + 1
  /\ exe' \in {exe} \union past /\ past' = {}
  /\ best' = IF exe' = exe THEN best ELSE exe'.version
  /\ pc' = [p \in Proc |-> "idle"] /\ helper' = [p \in Proc |-> "none"]
  /\ UNCHANGED <<backup, staged, facts, runs, faults, stored, overlap>>

Init ==
  /\ os \in Systems
  /\ exe = File(FirstVersion) /\ backup = None /\ past = {} /\ best = FirstVersion
  /\ pc = [p \in Proc |-> "idle"] /\ helper = [p \in Proc |-> "none"]
  /\ running = [p \in Proc |-> 0] /\ trusted = [p \in Proc |-> 0] /\ seen = [p \in Proc |-> 0]
  /\ target = [p \in Proc |-> None] /\ staged = [p \in Proc |-> None]
  /\ stored = 0 /\ overlap = FALSE
  /\ runs = 0 /\ faults = 0 /\ kills = 0

Update(p) ==
  \/ \E r \in DOMAIN Repository : Verify(p, r)
  \/ \E t \in Published \union {None} : Fetch(p, t)
  \/ Select(p) \/ Extract(p) \/ Stage(p) \/ SyncStaged(p)
  \/ Replace(p) \/ Settle(p) \/ Spawn(p) \/ Store(p)
Help(p) == HelperClear(p) \/ HelperAway(p) \/ HelperIn(p) \/ HelperTidy(p) \/ HelperCatch(p)

Next ==
  \/ PowerLoss
  \/ \E p \in Proc : Start(p) \/ Update(p) \/ Help(p) \/ Kill(p)

Spec == Init /\ [][Next]_vars

-----------------------------------------------------------------------------
(* Properties *)

FileType == [version : Nat, whole : BOOLEAN] \union {None}

ControlTyped ==
  /\ pc \in [Proc -> {"idle", "verify", "select", "fetch", "extract", "stage", "sync", "replace", "settle",
                      "spawn", "store"}]
  /\ helper \in [Proc -> {"none", "wait", "away", "in", "tidy", "catch"}]
  /\ \A p \in Proc : pc[p] \in {"replace", "settle"} => os # "windows"
  /\ \A p \in Proc : helper[p] # "none" \/ pc[p] = "spawn" => os = "windows"
FactsTyped ==
  /\ os \in Systems
  /\ running \in [Proc -> Nat] /\ trusted \in [Proc -> Nat] /\ seen \in [Proc -> Nat]
  /\ target \in [Proc -> Published \union {None}]
  /\ stored \in {0} \union DOMAIN Repository /\ best \in Nat /\ overlap \in BOOLEAN
FilesTyped ==
  /\ exe \in FileType /\ backup \in FileType /\ past \subseteq FileType
  /\ staged \in [Proc -> FileType]

\* Every variable has its type, and each platform its own way of replacing.
TypeOK == ControlTyped /\ FactsTyped /\ FilesTyped

Whole(f) == f # None /\ f.whole

\* On Unix a whole executable is in its place at every moment, whatever fails,
\* dies or loses power, and however many updates run.  On Windows it is in its
\* place or beside it; one refused call leaves it in its place once the helper
\* is done.  When two helpers run, all that remains may be a staged file.
ExecutableSurvives ==
  IF os # "windows" THEN Whole(exe)
  ELSE /\ \E f \in {exe, backup} \union {staged[p] : p \in Proc} : Whole(f)
       /\ ~overlap => Whole(exe) \/ Whole(backup)
       /\ ~overlap /\ kills = 0 /\ faults <= 1 /\ (\A p \in Proc : helper[p] = "none") => Whole(exe)

\* What is in place is the first executable or one that signed metadata
\* describes for this system and architecture, from an archive in which it is
\* the only executable, of this system's format, and no path climbs out.
OnlySignedReleases ==
  exe # None => \/ exe.version = FirstVersion
                \/ \E t \in Published :
                     /\ t.version = exe.version /\ t.os = os /\ t.arch = Architecture
                     /\ \A i \in DOMAIN t.entries : ".." \notin Range(t.entries[i].path)
                     /\ \E i \in DOMAIN t.entries : /\ Executables(t.format, t.entries, os) = {i}
                                                   /\ t.entries[i].body = os

\* Updates one after another never leave an older executable in place, through
\* stale mirrors, crashes between the replacement and the storing of the
\* versions, and undone moves; only an unsynced rename can come undone.  On
\* Windows it takes two refused calls of helpers: one that cannot remove the
\* backup of an earlier update and cannot make its own restores that one.
SequentialNeverBack ==
  ~overlap /\ exe # None /\ (os = "windows" => faults <= 1) => exe.version >= best
=============================================================================
