# Verification of siorb

TLA+ models of [siorb](../src/README.md), instances of them for TLC, and proofs for TLAPS.

siorb resolves logical package names to sources through a signed catalog and layered policies,
plans an operation, executes the plan through package managers or direct artifacts, and records what
it did in a journal and in receipts. `siorb reconcile` compares them with the machine later. Bundles
apply many packages at once, and may be locked. Source paths below are relative to `src/crates/`.

## 1. Inventory

| component | state it keeps | operations | talks to |
|---|---|---|---|
| planner (`siorb-planner`) | none; a plan holds the fingerprints it was built from | build, revalidate | resolver, receipts |
| executor (`siorb-executor`) | downloads, staging and owned directories, the machine through backends | execute a plan step by step, commit receipts | state store, backends, servers |
| state store (`siorb-state`) | `journal.ndjson`, receipt files, pins and holds | append, read, judge and close transactions, mark | everybody |
| commands (`siorb-cli`) | none between runs | install, remove, upgrade, repair, adopt, verify, reconcile, pin, hold, bundle, catalog, self ... | all |
| catalog cache (`siorb-cli`, `siorb-update`) | `cache/`: directories, two pointers, `rollback.json`, lock | load with fallback, update, clean up | update client |
| update client (`siorb-update`) | one verifier per verification; `rollback.json` | rotate roots, fetch, verify | mirrors |
| self-update (`siorb-update`, `siorb-cli`) | executable, backup, staged executable, `release-rollback.json` | choose, fetch, extract, stage, swap | update client |
| bundle and lock (`siorb-bundle`, `siorb-cli`) | bundle and lock files | validate, resolve, lock, refresh, diff, apply | resolver, planner, executor |
| resolver (`siorb-resolver`) | none | candidates, ambiguity, selection | catalog, policy |
| policy (`siorb-policy`) | layers of policy files | load, evaluate | resolver, bundle, self-update |
| catalog documents (`siorb-catalog`) | indexes of names | validate, look up | resolver |
| platform, backends, core | none | probes, command lines, parsing | host |

**No process is alone.** A siorb process is short-lived and single-threaded but for the readers of
`run_bounded`; two of them share the state directory, and only `catalog update` takes a lock.
Reading the journal and appending to it, planning and executing, reading the marks and writing them,
loading a catalog and storing its versions are never atomic together.

**What is hard.** Death or power loss between two steps; a write that fails after the machine was
changed; a rename that fails and whose undoing fails; a second process between reading and writing; a
prompt that stays open while the catalog, the policy, the marks or the machine change; the same plan
executed twice within a second; a mirror that is stale, mixed, or redirects for ever; a publisher that
rotates keys or releases while a client fetches; expiry; versions that are compared in two orders.
PROJECT.json lists these hazards, each at its line.

**What makes each component correct.**
- *Executor and receipts*: write-ahead; a change is open until it is recorded; what is
  reconciled is recorded; exit codes do not hide a change; executions end.
- *State files*: what was answered stays; no reader sees half a file; the journal stays readable; no pin or hold is lost but to an overlapping one.
- *Artifacts*: only what was verified is used; what was installed survives; nothing is left behind.
- *Catalog cache*: a user is never taken back; pointers name whole repositories, one of which loads;
  updates give the lock back.
- *Update client*: only published roots are trusted; what is accepted is one release; stored versions
  grow; an honest mirror is not refused.
- *Self-update*: something executable is always in place, and it comes from signed metadata.
- *Bundle, resolver, policy*: what runs is what marks and policy allow when it was confirmed; more layers
  only tighten; a lock binds what runs and reports what changed; an apply leaves what the bundle says.

## 2. Modules and the code

```
 Recovery <--implements-- Executor --> Plan          StateFiles
 Artifacts --> ArtifactFormats, ArchiveEntries <-- SelfUpdate
 CatalogCache      TrustedUpdate
 BundleApply --> Bundle --> Resolver --> Policy --> Versions, CatalogDocument --> ArtifactFormats
```
Arrows are EXTENDS. `MC<module>` gives the instance of a module for TLC where a `.cfg` alone cannot,
`<module>Proofs` holds its theorems, and `RecoveryProofs` those of Executor about recovery.

**Plan** — what the planner gives a package: the sequence of steps by operation and kind of source
(`native`, `portable` for artifacts that siorb unpacks and owns, `installer` for artifacts that run an
installer), the no-change rules, and the executor's predicates on steps. It has no variables.

**Executor** — processes and what they share. `journal` is the set of events in `journal.ndjson` and
`last` the last state of each transaction, which is all that `reconciliation_statuses` reads;
`receipt` the receipt files; `machine` what is really installed; `key` the plan that a transaction id
stands for as long as its second lasts. A process has a control point `pc`, its plan, its position
`k` (package) and `j` (step), and the locals of `Executor::execute` and `handle_reconcile`. One action
stands for what happens between two places where the process can die or another can act: build and
revalidate (`BuildPlan`, `Revalidate`, `Begin`), journal and act and journal again (`StartStep`, `Run...`,
`RecordStep`, `FailStep`), receipts one by one (`CommitReceipt` ...), and the reads, queries and appends
of `reconcile`. `Crash` and `CrashInStep` end a process anywhere, also while a backend works. `Waits` says where a step waits for a command in `run_bounded`.

**Recovery** — the abstract promise: a transaction stays open while the receipts owe an entry for
something it changed. `Executor` implements it (`KeepsPromise`) with `status` computed from the journal
and `owed` from the history of effects.

**StateFiles** — the files below Executor's sets. `journal` is the sequence of `write_all` calls that made the
file (events, newlines, torn pieces), `files` and `disk` the named files as readers see them and as a
power loss leaves them. An append is two writes and a sync, a replaced file is temporary, sync, rename,
sync of the directory, each an action that may fail. Listing reads the names first. The state directory is
a node with owner, access and kind, which `OpenStore` repairs or leaves alone. Names are lost like bytes: `made` has those of the directory, of
`receipts/` and of the journal, `kept` those that a sync of their directory covers. Only a write of the preferences syncs the directory that
the journal and `receipts/` are in, and nothing syncs the directory of the state directory itself; what else gets there is `WriteBack`, the
kernel's own doing. `PowerLoss` takes any other name, with what is under it. `edits` has the pins and holds in the order of their renames,
each with how many it had seen when it read.

**Artifacts** — one execution after another of an artifact step: `Redirect`, `Respond`, `Stream` (download), `Verify`
(recipe, digest, structure, signer), `Stage`, `Backup`, `Commit`, `DropBackup` (the rename protocol of
`commit_owned_staging`), `RemoveOwned`, `Launch`, `Attach`, `RunPackage`, `Detach` (installers and disk images), `Finish`
(`cleanup_artifacts`). None of the renames is followed by a sync of its directory: `saved` is what the disk has of the names, which `WriteBack`
brings up to date whenever the kernel likes, and a power loss goes back to it, after a finished installation too; `unwritten` are the runs whose trees it may
then find in part. An installer is a child of `run_bounded`: `Spawn`, `Deadline`, which kills it, and `Join`, which waits for the readers of its
output; `InstallerExits` and `ClosePipes` are the child's and its children's, and `held` says that one of them still has the output open. **ArtifactFormats** is the table of formats; **ArchiveEntries** says which archives the
executor's inspection and extraction, and self-update's extraction, accept: paths are sequences of components.

**SelfUpdate** — `handle_self_update` and `install_executable_at` in any number of processes: on Unix one rename over
the executable, on Windows a helper that waits for the process, moves the old file away and the new one in, and undoes that.

**CatalogCache** — `active` and `previous` are the pointer files, `dir` the repository in each
directory, `rollback` the stored versions, `locked` the lock file. A repository is the number of its
release. Loading (`ReadPointer`, `VerifyCached`, `StoreLoaded`, with the previous repository as
fallback) takes no lock; updating (`Acquire` ... `Unlock`) does. Each write is an action of its own; the files are fetched a second time to be
kept (`Fill`), when the mirror may serve another release, or parts of two.

**TrustedUpdate** — `verify_from_transport` against a publisher. `roots`, `timestamps`, `snapshots`,
`targets` are the published files of each role; a mirror serves any of them under any name, and roots
that too few keys have signed. A verification is `Begin`, rotations, three fetches, `Accept` or `Reject`;
`stored` is the RollbackState. A root's policy is its keys, its threshold and the generation of keys of
the online roles. Assumed of the publisher: the keys of a threshold sign one root per version, it
releases from the newest root, versions of later files are greater and do not expire earlier. Every verification reads
the clock once, so that the clock moves between verifications only.

**Versions** — version texts as sequences of tokens, `compare_versions` (semantic where both are, else native) and
the constraints of the resolver. **CatalogDocument** — `validate_document` and `lookup`. **Policy** — loading of the
files, each rule of `evaluate_with_context`, the reasons of all layers. **Resolver** — `evaluate` for each source, the rank,
ambiguity, pins, holds and requested versions, in the order of the code's early returns. **Bundle** —
`validate`, `resolve_bundle_with_context` as a recursive function over the intents (`Gather`), lock creation, `verify_context`, `compare_locks`,
`diff`. These five have no variables: they are functions of what a process has loaded (`Now`).

**BundleApply** — their composition: a command resolves and asks (`Apply`, `Operate`), the user declines or `Confirm`s,
everything is loaded again and compared (`ExecutionPlan::revalidate`, `verify_context`), and the plans run one after
another (`Step`, `Commit`, `Finish`, `Fail`); `Lock` and `Refresh` write lock files, perhaps torn. Between any two of
these the catalog, the policy files, the bundle, the day, the marks or the installed packages may change. How a plan is executed is
Executor's matter, and a step here succeeds with a version or fails.

Models are smaller than the code because formats of text, wording and the content of files are abstracted (section 5); control,
that is guards, early returns and the order of writes, is kept.

## 3. What the runs check

| run | instance | shows |
|---|---|---|
| `executor_recovery` | 1 process, a native, a portable and an installer package, 2 versions, 2 transactions, all operations, journal and receipt faults, crashes | types; what is reconciled is recorded; what reconcile reports is so; drift of a native receipt is explained by an open transaction; refinement of Recovery |
| `executor_pair` | plans of two packages, repeated names included, receipt faults, crashes | no change is hidden: open until recorded, and no clean failure covers one; every execution ends unless a command does not return |
| `executor_concurrent` | 2 processes, no lock, backends that fail halfway | write-ahead; interruptions are detected |
| `state_files` | 2 processes, 3 operations on 2 kinds of file, full disks, kills, a power loss, five places for the directory | types; answered writes stay; files are whole; readers are served; pins and holds are kept |
| `artifacts` | 3 executions over 11 recipes of 4 formats, 10 payloads, 3 servers, 2 failing calls, a kill or power loss | only what was verified is used; what was installed survives; nothing is left behind; every execution ends |
| `cache_sequential` | 1 process, failing writes, crashes, stale mirrors, `--catalog`, fairness | types; a user is never taken back; the lock is given back |
| `cache_pair` | 2 processes, a mirror that changes | whole pointers; something loads |
| `trusted_update` | 3 roots, 2 releases, 2 rotations, two root keys, two generations of online keys | types; published roots only; one release; versions grow; an up-to-date mirror is refused for cause only |
| `self_update` | 2 processes, Linux and Windows, 4 releases of the metadata, 3 updates, two failing calls, a kill or power loss | types; an executable survives; it is a signed release; updates one after another never go back |
| `bundle_apply` | 2 commands, 3 catalogs, 3 policies, 3 bundles, 5 requests, marks, one change, one fault | types; marks, policy and locks bind what runs; layers only tighten; a lock tells the truth; an apply meets a bundle whose intents can be met; no downgrade |
| `finding_root_rollback` | as `trusted_update` | see section 6 |
| `finding_hold` | as `bundle_apply` | see section 6 |

**Bounds.** Two transactions are what any of the executor's properties relates: one that changes a
package and one that overwrites or closes it; two versions tell a right from a wrong receipt; two
packages in a plan make a commit that is half done; two processes make every race of the unlocked
state directory. Three file operations let one process write what another reads or removes, and a third be answered
before. Three artifact executions are an installation, a second over it, and a removal or a third format; two failing
calls fail a rename and its undoing. Three self-updates are two in a row and one beside. `MaxDirs` and `MaxVersion` let the cache go through an update,
a stale mirror and another update. Three roots let a client be one behind after a rotation; two releases let files be mixed.
Two commands with one change and one fault let a lock be written, the world change, and the lock be applied, or a
change happen under an open prompt after a first command. The bundles, catalogs and policies differ in what the properties tell
apart: an alias, a conflict, its declaration withdrawn, a source gone or with other evidence, a stale review, a denied
backend, an unreadable policy file, a pre-release beside its release. Each
bound is a guard on the action that would exceed it; `MaxRotations` is the code's `MAX_ROOT_ROTATIONS`, 64 there, and
`MaxRedirects` its 5. `state_files` uses the symmetry of its processes and of its marks, which no definition tells apart, and checks no liveness. Runs with `CHECK_DEADLOCK FALSE` stop where the
bound on commands is used up and nothing is under way.
`ApplyMeetsIntent` speaks of an apply that nothing disturbs and of intents that can all be met (`Meetable`): no two of them name
one package, none removes what another or it itself installs, and what is installed goes by its own id. The code refuses other bundles
only in part (section 6), and the bundles of the run include some of both kinds.
Every property has a mutant in PROJECT.json: an edit of one definition, such as a bug would be, that breaks it.

**Fairness.** `Executor!FairSpec` is weak fairness of `~Waits(p) /\ Execute(p)`: a process past its prompt goes on, but owes nothing while it waits
for a command (`Waits`), for `run_bounded` kills the child at its deadline and then joins its readers, which have none. `ExecutionEnds` is about
the executions that do not wait for ever in one step. `Artifacts!FairSpec` is weak fairness of the process's own steps
and of an answer or a time-out of the server, which every request has; a server may redirect for ever, an installer need not exit and
what it started need not close its output.
`CatalogCache!FairSpec` is weak fairness of a running process: it waits for nothing but its own calls. Prompts, users, mirrors, publishers, crashes
and recovery commands owe nothing. `LockFreed` is checked with crashes and with every step of an update failing; what it leaves out is `left`: a lock whose process died,
which is removed by hand by design (`RemoveStaleLock`), and one whose own creation or removal failed (section 6, item 18).

## 4. What is proved

For any number of processes, packages, versions, keys and any bounds, by TLAPS:

- *ExecutorProofs*: `TypeCorrect`, by an invariant that ties the step and the package a process is at to its plan (`InPlan`).
  `WriteAheadHolds`: a step between its start and its end has its announcement in the journal (`RunIsAnnounced`), and the journal
  only grows, so no change of the machine is without one. `PlannedMutationIsQueried`: every plan passes `validate_native_receipt_verification`.
- *RecoveryProofs*, the executor's other safety properties and its refinement, for any number of processes where nothing else is said, with crashes and receipt
  faults, and with failing appends to the journal. The base, without `SameSecond`, is `OwnInv`: a transaction is
  executed by one process, and one whose process died has an unfinished last event; from it `InterruptedIsFound`. `NothingIsHidden` also supposes
  backends that do not fail halfway and a journal that does not fail, `ExitIsHonest` the latter alone (findings 3, 6, 7 and 8 are what happens without these assumptions): `SightInv` says, for a
  change of a running transaction, what its process still has that will bring it to light (`Accounted`: the completed step in the journal, or about to be; the receipt
  it will write; and that it was written once the loop is past it), and `HonestInv` the same of what `state_changed` remembers. With plans of one package (finding 6)
  `ReconciledHasReceipts`, by `RecordInv`: receipts, also those read earlier, name transactions that recorded them. The two
  together are `PromiseInv`, under which each action is a step of Recovery or a stutter (`ExecutorImplementsRecovery`). For one command at a time, `ReportIsTrue`
  (`ReadingInv`: what a reconciliation has read is still so) and `DriftIsExplained` (`DriftInv`: an observed version is
  still the installed one when its receipt is written, and a wrong receipt has a change without a receipt after it).
- *StateFilesProofs*, every property of its run: `FilesStayWhole` (a name only ever gets a temporary that was written
  and synced), `AnsweredIsKept` (what was answered is before the durable end of the journal, or on disk, or `taken`: gone with a journal
  whose name no sync had covered), `ReadersAreNeverRefused`, `EditsSurvive` (the preferences on disk, those that readers see and those that each
  process is about to write all have every edit that was not overridden, of the edits they are from), `OwnDirectoryIsUsable`.
- *ArtifactsProofs*, every safety property of its run: `UsedIsVerified` (the payload is what verification saw until it is used, and what
  a failure puts back was genuine), `InstalledIsKept` (at most one failed call since an installation leaves it in place or, between
  the two renames, as the backup to be put back; the same holds of what the disk has, `SavedInv`, so that a power loss comes back to a moment
  of which it is true), `NothingIsLeftBehind`. Of the file system it is supposed that it keeps the renames of one directory in order,
  as journalled ones do.
- *CatalogCacheProofs*: `UpdatesAreSerialized` (`LockInv`); `PointersNameWholeRepositories` if no write fails (`StagingInv`);
  `SequentialCommandsNeverRollBack` and `SequentialVersionsGrow` for one process (`RollbackInv`). `OrderlyProcessesKeepARepository`, for
  any number of processes that neither die nor fail to write: as long as no slow process lowers the stored versions (finding 4), a
  pointer names a repository that they allow (`Apart`: the directory an update fills is not one a pointer names; `Settled`: where the
  update is, and which of the two pointers carries). `SequentialCommandsKeepARepository`, for one command at a time with crashes (`SteadyInv`).
- *TrustedUpdateProofs*: `RootsArePublished` (the trusted root is the next of a chain whose link each was signed by the one
  before, `Chain`); `OneReleaseIsStored` and `MetadataVersionsGrow` (`Session`, `Coherent`); `HonestMirrorIsAccepted` with consistent snapshots.
- *SelfUpdateProofs*, every property of its run: `OnlySignedIsInstalled`, `ExecutableIsKept` and
  `SequentialUpdatesGrow`, by what each name holds while a process or a helper is between two renames (`Placed`, `Ahead`, `Alone`).
- *BundleApplyProofs*, every property of its run, for any catalogs, policy files, bundles, requests and marks. `DenyWins` is about the
  operators alone: a denial of one layer is a reason of all, and a confirmation a maximum. The others rest on what `Resolve` and
  `ResolveBundle` return for any loaded state `w` (`Loaded`, `Good`): that a selected source is one of its package and allowed, that
  a removal is for an installed conflict, that every intent that counts has its operation (`ServesAll`), and that a dry run
  decides the same but for the dry-run rule of policies. `Gather` and `Kept` are recursive functions; that they are what their
  equations say is proved by induction over the number of intents or packages, as a least number that fails.
  `IInv` is the base: `Ready` (what is loaded is of the constants), `Decided` (each operation was allowed when it was decided), `Confirmed`
  (it is still, in the state seen after the prompt), `Going` (the steps before the present one have an observed version). From it follow `CommandsAreTyped`,
  `HeldAndPinnedStay`, `WhatRunsIsAllowed`, `LockedIsWhatRuns` and `ExactIsNeverOlder`. `LocksAreTruthful` adds `LockIs` (a whole lock file is what
  its bundle resolved to in the state it was written in). `IntentIsMetByApply` adds `Meeting`: the operations are those of the bundle
  (`Heeds`), the finished steps of the plan under way left an outcome of theirs (`Left`), and as long as nothing disturbs the command every package is as the
  last operation on it left it, or as it was (`Undisturbed`, `Recorded`). Of `VersionBefore` itself, for any texts, `DowngradesAreAnOrder`
  (irreflexive, asymmetric, and transitive within either kind) and the circle across the kinds, `MixedVersionsGoRound`.

An invariant is seldom inductive alone: it says what holds between two steps of one operation, and the strengthenings named
above say where the operation is.

The assumptions on constants are the named ASSUMEs of the modules, and those in the statements.

**Only model-checked**: `ExecutionEnds` (unless a command never returns), `RunEnds` and `LockFreed`, liveness under fairness, which the prover does not reach. What they rest
on is proved: `ExecutionsComeToAnEnd` (in ExecutorProofs and in ArtifactsProofs) and `CommandsComeToAnEnd` say that each step of an
execution, or of a loading or updating process, lowers a measure in a bounded range, and that no step of anybody else raises it;
`LocksHaveHolders` that a lock belongs to a process that is updating, or is `left`. That such a process is never without a step (ENABLED) is TLC's part.
`HonestMirrorIsAccepted` needs consistent snapshots: without them TLC finds a release between two fetches that makes an honest mirror refused.

## 5. What is not modelled, and why

- Text: command lines, parsing of backend output, wording, fingerprints (equality), digests (identity
  of files), TOML and JSON. Backends answer with an installed version, installed, absent or unknown,
  as they like.
- Probes of the platform, command lines of the fifteen backends and the parsers of their output (`siorb-platform`,
  `siorb-backends`): conversions without state, two and a half thousand lines that tests cover with samples.
- `run_bounded` is modelled for native installers. For the commands of backends Executor has only that they may never return
  (`Waits`); those of `hdiutil` return in Artifacts. Its output limit and the environment that it passes on are left out.
- The transports' HTTP; the Windows access-list calls (their verdict is modelled); signature algorithms (a signature is
  who made it).
- Commands that change nothing (search, info, list, doctor, schema, policy explain), the diagnostics bundle, shell completion.
- `siorb-xtask`, which is repository tooling.

## 6. Where the code and its documents disagree

Two are runs, whose counterexample TLC finds:

1. *A root can be given up for an older one* (`finding_root_rollback`, `RootNeverBack`). `rotate_root` overwrites the
   stored root version that `verify` compares with.
2. *A hold by an alias holds nothing* (`finding_hold`, `HoldsAreKept`). `hold`, `unhold` and `unpin` use the name as it was typed,
   `pin` and the lookup of marks the package's id (docs/reference/commands.md:36).

Others appear in the same modules when a property is checked with other constants than those of its run:

3. *A partial failure is not shown*: `NoChangeIsHidden`, `PartialBackend = TRUE`. A backend that changes the
   machine and then reports an error leaves `transaction_failed` without a completed step;
   `reconciliation_statuses` takes it for a failure without mutation (docs/reference/state-and-receipts.md:17-19).
4. *A slow command stores old versions*: `NeverRolledBack`, two processes. `load_cached_catalog_pointer` stores
   the versions it verified without the update lock and so over newer ones (docs/adr/0003:29-31). An update that then takes an older
   release from a stale mirror, with newer versions stored by a third command, leaves no repository that a command may load; this is why
   `AlwaysLoadable` speaks of processes that have not `lowered` the versions.
5. *A torn line hides the journal*: `journal()` refuses the whole file for one bad line, so that after a kill or a full disk inside
   an append no later command "detects the unfinished transaction" (docs/reference/state-and-receipts.md:17). `ReadersAreServed`
   says exactly when: without its disjunct `cut` it does not hold.
6. `ReconciledIsRecorded`, `MaxPackages = 2`, `ReceiptFaults = TRUE`: a transaction that recorded one of
   its two packages is reconciled, and the change to the other is in no receipt and no open transaction.
7. `NoChangeIsHidden`, `JournalFaults = TRUE`: an append that fails after the machine was changed is returned as a
   plain state error, with `state_changed` false and not exit code 50.
8. `InterruptedIsOpen`, two processes, `SameSecond = TRUE`: the transaction id is the second and the plan, so
   the execution that completes closes the one that died.
9. `ChangedOnFreshPlan`, two processes: a plan is revalidated before `Executor::execute` and not before each
   step (docs/reference/commands.md:40 says immediately before a step).
10. `PointersAreWhole`, `WriteFaults = TRUE`: when storing the versions fails, the clean-up removes the directory that
   `active-repository` already names. `AlwaysLoadable` fails with write faults, with selections, and with two processes that crash.
11. `AppContext::load` verifies the cached repository before dispatch, so an expired
    one refuses `catalog status`, which would report it (docs/offline-use.md:17), and `catalog update`, which would replace it.
    With two processes a command that read the old pointer before an update is refused after it.
12. An expired root in the middle of the chain stops every client, since each verification starts from the
    compiled root and `rotate_root` checks the expiry of each (the first disjunct of `RefusedForCause`).
13. Self-update takes no lock. With overlapping updates `SequentialNeverBack` fails without its guard, `release-rollback.json` can be
    lowered, and on Windows two helpers may leave only a staged file. On Windows two refused calls leave the executable under its backup name.
    docs/security/trusted-updates.md:32 puts policy after target verification, `handle_self_update` before it.
14. A removed receipt may come back after a power loss, since `remove_receipt` does not sync; temporaries left by a crash are not
    cleaned (`litter`). No rename in `artifacts/` is synced, nor is an extracted archive: a power loss after a finished installation may undo both renames and bring the old
    version back, or nothing for a first installation, while the synced receipt names the new one, and trees may be found in part. `InstalledSurvives`
    is about what was installed at the moment the power loss goes back to: it does not hold when `due` stays as it was. A disk image that cannot be detached makes a successful installation a failed step.
15. The deadline of a command is not one of its readers: `run_bounded` kills the child and then joins them, so that a process the child
    left behind, or a privileged child that could not be killed, keeps the command waiting. `RunEnds` does not hold without its disjunct `held`, nor `ExecutionEnds` without its
    premise.
16. `append_event` makes `journal.ndjson` and syncs its bytes, not its name; `create_private_dir` syncs no name either. Until the preferences are written, or the
    kernel gets to it, a power loss may take the journal with answered events, a first receipt with the `receipts/` that was made for it, or the whole state
    directory: `AnsweredStays` does not hold without `taken`, nor when `since` leaves out that a file is gone with its directory.
17. Two `pin`, `unpin`, `hold` or `unhold` at once: both answer, and the one that read first and writes last takes the other back. `EditsAreKept`
    does not hold without the second half of `Overridden`.
18. `open_catalog_lock` creates the lock file, then writes and syncs it. When one of these fails, `acquire` returns an error and the file stays; `drop` ignores a
    removal that fails. Either refuses every later update until the file is removed by hand, without a crash: `LockFreed` does not hold without `left`.

Observed while translating, without a property of their own: an installation with a version proceeds for a held package; a pin on a package
that is not installed is ignored at its first installation; an upgrade of a package that is not installed is planned. An intent to be absent removes
what its package conflicts with as one to be present does, also a package that another intent just installed, and two names of one package may say
opposite things: such bundles resolve, and are what `Meetable` leaves out of `ApplyMeetsIntent`. Versions that differ in build
metadata only are one version to a constraint and two to the order, so that a build may replace a later one. Removals that a bundle's
conflicts cause are not in its lock, an optional intent without a source still removes its conflicts, and a package can be
removed twice; conflicts with what is installed are looked for in one direction only. Two aliases of one package are no duplicate for `Bundle::validate` and make a lock
that is always refused. `bundle diff` compares raw ids and ignores profile and platforms. Messages about stale reviews
carry their age in days, so that locks made while a review is stale are refused on the next day. The order of versions is not transitive when semantic and
native texts mix (`MixedVersionsGoRound`: 1.0, 1.0a, 1.0-1 and 1.0 again, each step no downgrade), and a target with a range or an `x` is not compared at all. `validate_document` accepts two packages of one id.
Policy files that are not regular are passed over in silence.

## 7. Plan

Done: all modules of section 2. What is left: `run_bounded` with its readers under the executor's backend commands, the decision tables of consent and offline
use; Artifacts' rename protocol as the implementation of the atomic outcome that Executor assumes.
