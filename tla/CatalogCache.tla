---------------------------- MODULE CatalogCache ----------------------------
(***************************************************************************)
(* The verified catalog repositories a user keeps under `cache/`: the      *)
(* directories `repository-*`, the pointer files `active-repository` and   *)
(* `previous-repository`, `rollback.json` and `catalog-update.lock`.       *)
(* Every command loads its catalog from there (AppContext::load) without   *)
(* the lock; `catalog update` then takes the lock, verifies a mirror and   *)
(* activates what it verified.                                             *)
(*                                                                         *)
(* A repository is the number of its release: its four metadata versions   *)
(* grow and its expiry moves on together from one release to the next      *)
(* (module TrustedUpdate is about the four files).  0 is a directory that  *)
(* is missing or that does not verify.                                     *)
(***************************************************************************)
EXTENDS Integers, FiniteSets

CONSTANTS Proc,         \* siorb processes
          Command,      \* commands they run, "update" and others
          MaxVersion,   \* bound: releases published
          MaxDirs,      \* bound: directories created
          WriteFaults,  \* may a write or a removal fail?
          Crashes,      \* may a process die?
          Selections    \* may a command be given --catalog?

ASSUME BoundsAssumption == MaxVersion \in Nat \ {0} /\ MaxDirs \in Nat
ASSUME FaultAssumption == {WriteFaults, Crashes, Selections} \subseteq BOOLEAN

Version == 0..MaxVersion
Dir == 0..MaxDirs       \* 0: the pointer file does not exist

VARIABLES
    published, expired,   \* newest release, and the newest that has expired
    dir, made,            \* repository in each directory; directories created
    active, previous,     \* the pointer files
    rollback,             \* rollback.json
    locked,               \* does catalog-update.lock exist?
    pc, cmd,              \* per process: control point and command
    trying,               \* per process: the pointer load_catalog is at
    name,                 \* per process: the directory it read or created
    got,                  \* per process: the repository it verified
    \* History, read by properties only:
    served,               \* newest release a command was given from the cache
    floor,                \* per process: `served` when its command began
    lowered,              \* was rollback.json ever replaced by an older one?
    left                  \* is the lock file there because a process died, or
                          \* because writing or removing that very file failed?

env   == <<published, expired>>
disk  == <<dir, made, active, previous, rollback, locked>>
local == <<cmd, trying, name, got>>
ghost == <<served, floor, lowered, left>>
vars  == <<env, disk, pc, local, ghost>>

\* Control points that hold the update lock.
Updating == {"mirror", "stage", "fill", "recheck", "keep", "activate", "persist",
             "discard", "unlock"}
PC == {"idle", "pointer", "verify", "store", "loaded", "refused"} \cup Updating

Goto(p, there) == pc' = [pc EXCEPT ![p] = there]

\* The command ends: its locals are gone.
Leave(p) == /\ Goto(p, "idle")
            /\ trying' = [trying EXCEPT ![p] = "active"]
            /\ name' = [name EXCEPT ![p] = 0]
            /\ got' = [got EXCEPT ![p] = 0]
            /\ floor' = [floor EXCEPT ![p] = 0]
            /\ UNCHANGED <<cmd, served, lowered>>

\* verify_from_transport, of repository v against rollback.json at this moment.
Accepts(v) == v > expired /\ v >= rollback /\ v # 0

\* store_rollback_state: the file is replaced, whatever it holds by now.
Store(v) == rollback' = v /\ lowered' = (lowered \/ v < rollback)

-----------------------------------------------------------------------------
(* The mirror, the clock and the user                                      *)

Publish == /\ published < MaxVersion
           /\ published' = published + 1
           /\ UNCHANGED <<expired, disk, pc, local, ghost>>

Expire == /\ expired < published
          /\ expired' = expired + 1
          /\ UNCHANGED <<published, disk, pc, local, ghost>>

\* "after a confirmed crash, remove cache/catalog-update.lock and retry"
RemoveStaleLock == /\ locked
                   /\ \A p \in Proc : pc[p] \notin Updating
                   /\ locked' = FALSE /\ left' = FALSE
                   /\ UNCHANGED <<env, dir, made, active, previous, rollback, pc, local,
                                  served, floor, lowered>>

-----------------------------------------------------------------------------
(* load_catalog, before every command                                      *)

Begin(p, c) == /\ pc[p] = "idle"
               /\ cmd' = [cmd EXCEPT ![p] = c]
               /\ floor' = [floor EXCEPT ![p] = served]
               /\ UNCHANGED <<env, disk, name, served, lowered, left>>

Start(p) == /\ \E c \in Command : Begin(p, c)
            /\ Goto(p, "pointer")
            /\ UNCHANGED <<trying, got>>

\* With --catalog: a signed directory the user selects, verified in place.
StartWithCatalog(p) ==
    /\ Selections
    /\ \E c \in Command : Begin(p, c)
    /\ trying' = [trying EXCEPT ![p] = "selection"]
    /\ \E v \in 1..published :
         /\ Goto(p, IF Accepts(v) THEN "loaded" ELSE "refused")
         /\ got' = [got EXCEPT ![p] = v]

\* Mutant of LoadFails: an error is a reason to use the bundled catalog.
LoadsBundled(p) == /\ Goto(p, "loaded")
                   /\ trying' = [trying EXCEPT ![p] = "bundled"]
                   /\ got' = [got EXCEPT ![p] = 0]
                   /\ UNCHANGED <<cmd, name, served, floor, left>>

\* An error at the active repository is an attempt at the previous one, whose
\* own error, or absence, then does not count.
LoadFails(p) ==
    /\ IF trying[p] = "active"
       THEN Goto(p, "pointer") /\ trying' = [trying EXCEPT ![p] = "fallback"]
       ELSE Goto(p, "refused") /\ UNCHANGED trying
    /\ UNCHANGED <<cmd, name, got, served, floor, left>>

PointerOf(p) == IF trying[p] = "active" THEN active ELSE previous

\* read_cache_pointer; with neither pointer the catalog is the bundled one.
ReadPointer(p) ==
    /\ pc[p] = "pointer"
    /\ \/ /\ PointerOf(p) # 0
          /\ Goto(p, "verify")
          /\ name' = [name EXCEPT ![p] = PointerOf(p)]
          /\ UNCHANGED <<cmd, trying, got, ghost>>
       \/ /\ PointerOf(p) = 0 /\ trying[p] = "active"
          /\ trying' = [trying EXCEPT ![p] = "previous"]
          /\ UNCHANGED <<pc, cmd, name, got, ghost>>
       \/ /\ PointerOf(p) = 0 /\ trying[p] = "previous"
          /\ Goto(p, "loaded")
          /\ UNCHANGED <<local, ghost>>
       \/ /\ PointerOf(p) = 0 /\ trying[p] = "fallback"
          /\ LoadFails(p)
          /\ UNCHANGED lowered
    /\ UNCHANGED <<env, disk>>

\* load_cached_catalog_pointer: the directory, against rollback.json.
VerifyCached(p) ==
    /\ pc[p] = "verify"
    /\ \/ /\ Accepts(dir[name[p]])
          /\ Goto(p, "store")
          /\ got' = [got EXCEPT ![p] = dir[name[p]]]
          /\ UNCHANGED <<cmd, trying, name, ghost>>
       \/ ~Accepts(dir[name[p]]) /\ LoadFails(p) /\ UNCHANGED lowered
    /\ UNCHANGED <<env, disk>>

\* Mutant of StoreLoaded: the catalog is used and its versions are not stored.
StoreNothing(p) ==
    /\ pc[p] = "store"
    /\ Goto(p, "loaded")
    /\ served' = IF got[p] > served THEN got[p] ELSE served
    /\ UNCHANGED <<env, disk, local, floor, lowered, left>>

\* It stores the versions it verified, without the lock, before the catalog is
\* used.  A write that fails may have replaced the file (the directory sync).
StoreLoaded(p) ==
    /\ pc[p] = "store"
    /\ \/ /\ Store(got[p])
          /\ Goto(p, "loaded")
          /\ served' = IF got[p] > served THEN got[p] ELSE served
          /\ UNCHANGED <<local, floor, left>>
       \/ /\ WriteFaults
          /\ \E v \in {rollback, got[p]} : Store(v)
          /\ LoadFails(p)
    /\ UNCHANGED <<env, dir, made, active, previous, locked>>

Finish(p) == /\ \/ pc[p] = "loaded" /\ cmd[p] # "update"
                \/ pc[p] = "refused"
             /\ Leave(p)
             /\ UNCHANGED <<env, disk, left>>

-----------------------------------------------------------------------------
(* update_catalog                                                          *)

\* CatalogUpdateLock::acquire.  The file is created, then written and synced: a
\* failure in between leaves it behind.
Acquire(p) ==
    /\ pc[p] = "loaded" /\ cmd[p] = "update"
    /\ \/ /\ ~locked /\ locked' = TRUE
          /\ Goto(p, "mirror")
          /\ UNCHANGED <<local, ghost>>
       \/ /\ locked /\ UNCHANGED <<locked, left>>
          /\ Leave(p)
       \/ /\ WriteFaults /\ ~locked /\ locked' \in BOOLEAN
          /\ left' = locked'
          /\ Leave(p)
    /\ UNCHANGED <<env, dir, made, active, previous, rollback>>

\* Mutant of FetchMirror: an early return that keeps the lock.
FetchKeepsLock(p) ==
    /\ pc[p] = "mirror"
    /\ \/ /\ \E v \in 1..published : Accepts(v) /\ got' = [got EXCEPT ![p] = v]
          /\ Goto(p, "stage")
          /\ UNCHANGED <<cmd, trying, name, ghost>>
       \/ Leave(p) /\ UNCHANGED left
    /\ UNCHANGED <<env, disk>>

\* verify_repository_transport on the mirror, which may serve any past release,
\* and the target.
FetchMirror(p) ==
    /\ pc[p] = "mirror"
    /\ \/ \E v \in 1..published :
             /\ Accepts(v)
             /\ got' = [got EXCEPT ![p] = v]
             /\ Goto(p, "stage")
       \/ UNCHANGED got /\ Goto(p, "unlock")
    /\ UNCHANGED <<env, disk, cmd, trying, name, ghost>>

\* fs::create_dir of a new directory.
Stage(p) ==
    /\ pc[p] = "stage"
    /\ \/ /\ made < MaxDirs
          /\ made' = made + 1
          /\ name' = [name EXCEPT ![p] = made']
          /\ Goto(p, "fill")
       \/ /\ WriteFaults \/ made = MaxDirs
          /\ UNCHANGED <<made, name>>
          /\ Goto(p, "unlock")
    /\ UNCHANGED <<env, dir, active, previous, rollback, locked, cmd, trying, got, ghost>>

\* The files are fetched a second time, and whatever the mirror serves by then:
\* what they add up to is another release, or nothing that verifies.
Fill(p) ==
    /\ pc[p] = "fill"
    /\ \/ /\ \E v \in 0..published : dir' = [dir EXCEPT ![name[p]] = v]
          /\ Goto(p, "recheck")
       \/ WriteFaults /\ UNCHANGED dir /\ Goto(p, "discard")
    /\ UNCHANGED <<env, made, active, previous, rollback, locked, local, ghost>>

\* Mutant of ReVerify: the copy is not verified again.
TrustTheCopy(p) ==
    /\ pc[p] = "recheck"
    /\ Goto(p, "keep")
    /\ UNCHANGED <<env, disk, local, ghost>>

\* The cached copy verifies, and is what was verified before.
ReVerify(p) ==
    /\ pc[p] = "recheck"
    /\ IF Accepts(dir[name[p]]) /\ dir[name[p]] = got[p]
       THEN Goto(p, "keep") ELSE Goto(p, "discard")
    /\ UNCHANGED <<env, disk, local, ghost>>

\* Mutant of KeepPrevious: the versions are stored before the pointer.
KeepPreviousAndVersions(p) ==
    /\ pc[p] = "keep"
    /\ previous' = IF active # 0 THEN active ELSE previous
    /\ Store(got[p])
    /\ Goto(p, "activate")
    /\ UNCHANGED <<env, dir, made, active, locked, local, served, floor, left>>

KeepPrevious(p) ==
    /\ pc[p] = "keep"
    /\ \/ /\ previous' = IF active # 0 THEN active ELSE previous
          /\ Goto(p, "activate")
       \/ /\ WriteFaults
          /\ previous' \in {previous, IF active # 0 THEN active ELSE previous}
          /\ Goto(p, "discard")
    /\ UNCHANGED <<env, dir, made, active, rollback, locked, local, ghost>>

\* "The pointer is the atomic commit boundary."
Activate(p) ==
    /\ pc[p] = "activate"
    /\ \/ active' = name[p] /\ Goto(p, "persist")
       \/ WriteFaults /\ active' \in {active, name[p]} /\ Goto(p, "discard")
    /\ UNCHANGED <<env, dir, made, previous, rollback, locked, local, ghost>>

Persist(p) ==
    /\ pc[p] = "persist"
    /\ \/ Store(got[p]) /\ Goto(p, "unlock")
       \/ WriteFaults /\ (\E v \in {rollback, got[p]} : Store(v)) /\ Goto(p, "discard")
    /\ UNCHANGED <<env, dir, made, active, previous, locked, local, served, floor, left>>

\* remove_dir_all of the staging directory, whatever the step that failed.
Discard(p) ==
    /\ pc[p] = "discard"
    /\ \/ dir' = [dir EXCEPT ![name[p]] = 0]
       \/ WriteFaults /\ UNCHANGED dir
    /\ Goto(p, "unlock")
    /\ UNCHANGED <<env, made, active, previous, rollback, locked, local, ghost>>

\* CatalogUpdateLock::drop
Unlock(p) ==
    /\ pc[p] = "unlock"
    /\ \/ locked' = FALSE
       \/ WriteFaults /\ UNCHANGED locked
    /\ left' = locked'
    /\ Leave(p)
    /\ UNCHANGED <<env, dir, made, active, previous, rollback>>

-----------------------------------------------------------------------------
Crash(p) == /\ Crashes
            /\ pc[p] # "idle"
            /\ left' = (left \/ pc[p] \in Updating)
            /\ Leave(p)
            /\ UNCHANGED <<env, disk>>

Load(p)   == ReadPointer(p) \/ VerifyCached(p) \/ StoreLoaded(p) \/ Finish(p)
Update(p) == \/ Acquire(p) \/ FetchMirror(p) \/ Stage(p) \/ Fill(p) \/ ReVerify(p)
             \/ KeepPrevious(p) \/ Activate(p) \/ Persist(p) \/ Discard(p) \/ Unlock(p)
Run(p)    == Load(p) \/ Update(p)

Init == /\ published = 1 /\ expired = 0
        /\ dir = [d \in Dir |-> 0] /\ made = 0
        /\ active = 0 /\ previous = 0 /\ rollback = 0 /\ locked = FALSE
        /\ pc = [p \in Proc |-> "idle"]
        /\ cmd \in [Proc -> Command]
        /\ trying = [p \in Proc |-> "active"]
        /\ name = [p \in Proc |-> 0]
        /\ got = [p \in Proc |-> 0]
        /\ served = 0
        /\ floor = [p \in Proc |-> 0] /\ lowered = FALSE /\ left = FALSE

Next == \/ Publish \/ Expire \/ RemoveStaleLock
        \/ \E p \in Proc : Start(p) \/ StartWithCatalog(p) \/ Run(p) \/ Crash(p)

Spec == Init /\ [][Next]_vars
\* A running process goes on: it waits for nothing but its own system calls.
FairSpec == Spec /\ \A p \in Proc : WF_vars(Run(p))

-----------------------------------------------------------------------------
(* Correctness                                                             *)

TypeOK ==
    /\ published \in Version /\ expired \in Version
    /\ dir \in [Dir -> Version] /\ made \in Dir
    /\ active \in Dir /\ previous \in Dir
    /\ rollback \in Version /\ locked \in BOOLEAN
    /\ pc \in [Proc -> PC] /\ cmd \in [Proc -> Command]
    /\ trying \in [Proc -> {"active", "previous", "fallback", "selection"}]
    /\ name \in [Proc -> Dir] /\ got \in [Proc -> Version]
    /\ served \in Version /\ floor \in [Proc -> Version] /\ lowered \in BOOLEAN
    /\ left \in BOOLEAN

\* No command runs with a catalog older than one that an earlier command, ended or
\* not when this one began, was given from the cache: neither a stale mirror nor
\* the fallback to the previous repository takes a user back (load_catalog,
\* update_catalog).
NeverRolledBack == \A p \in Proc : pc[p] = "loaded" => got[p] >= floor[p]

\* The stored versions never decrease, through failing writes, crashes and stale
\* mirrors (store_rollback_state at its two places).
RollbackGrows == [][rollback' >= rollback]_rollback

\* Both pointers name complete, verified directories (the commit boundary in
\* cache_verified_catalog_repository, and its clean-up of what failed).
PointersAreWhole == \A d \in {active, previous} \ {0} : dir[d] # 0

\* What the active pointer names is one that a command can still load, as long as
\* it has not expired.
Loadable == active # 0 => \E d \in {active, previous} : dir[d] # 0 /\ dir[d] >= rollback

\* Until a process has stored older versions than the file held (finding 4 of the
\* README), one of the two pointers names a repository that a command can still
\* load as long as it has not expired: the order in which an update replaces its
\* files never lets the stored versions overtake both.
AlwaysLoadable == ~lowered => Loadable

\* The lock file keeps a second update out, also one that starts after a crash and
\* the removal of the stale lock (CatalogUpdateLock).
OneUpdater == \A p, q \in Proc : pc[p] \in Updating /\ pc[q] \in Updating => p = q

\* An update gives its lock back whichever of its steps succeeds or fails, from
\* the fetch to the clean-up (CatalogUpdateLock's Drop).  What may leave the lock
\* file behind is the death of its process, or a failure of the calls on that very
\* file: `acquire` after creating it, or the removal in `drop`.
LockFreed == locked ~> ~locked \/ left

=============================================================================
