---------------------------- MODULE BundleApply ----------------------------
(***************************************************************************)
(* Commands that decide and then change the machine: `siorb install`,      *)
(* `remove` and the like for one package (handle_operation), `bundle lock` *)
(* and `bundle refresh`, and `bundle apply` with or without a lock.  A     *)
(* command decides, waits for consent, loads everything again, compares    *)
(* and then runs its plans one after another.  While it waits or runs, the *)
(* catalog, the policy files, the marks and the receipts may change, the   *)
(* day may end, and any step may fail.                                     *)
(*                                                                         *)
(* Executing a plan is the module Executor's; here a step acts on the      *)
(* machine or fails, and the receipts are written when the plan is done.   *)
(***************************************************************************)
EXTENDS Bundle

CONSTANTS
  Catalogs,         \* documents that may become active
  PolicyFiles,      \* sequences of policy files that may be in place
  Bundles,          \* bundle files
  Requests,         \* what single commands ask for: op, name, version
  Spellings,        \* names that pin and hold are given
  Host,             \* the platform
  OtherBackends,    \* backends another process may install from
  VersionTexts,     \* versions a backend may install
  FirstPins, FirstHolds,  \* marks there are at first
  LastDay, MaxChanges, MaxFaults, MaxCommands,
  None, Torn

ASSUME BundleApplyAssumption ==
  /\ None # Torn /\ NoVersion \notin VersionTexts
  /\ {LastDay, MaxChanges, MaxFaults, MaxCommands} \subseteq Nat
  /\ FirstHolds \subseteq Spellings

\* Lists are sequences, priorities integers (i32) and what conflicts is finite.
Listed(s) == s \in Seq(Range(s))
ASSUME CatalogsAssumption ==
  \A doc \in Catalogs : Listed(doc.packages) /\ \A p \in Range(doc.packages) :
    Listed(p.sources) /\ IsFiniteSet(p.conflicts) /\ \A s \in Range(p.sources) : s.priority \in Int
ASSUME PoliciesAssumption ==
  \A list \in PolicyFiles : Listed(list) /\ \A f \in Range(list) : Listed(f.layer.preferred)
\* What is asked for is a version or none; of the operations, adopt and verify
\* change nothing on the machine and are not modelled.
ASSUME IntentsAssumption ==
  /\ VersionTexts \subseteq Seq(Int)
  /\ \A x \in DOMAIN FirstPins : FirstPins[x].text \in Seq(Int)
  /\ \A r \in Requests : r.op \in {"install", "upgrade", "repair", "remove"}
                          /\ (r.version # NoVersion => r.version.text \in Seq(Int))
  /\ \A b \in Bundles : Listed(b.packages) /\ \A i \in Range(b.packages) :
       i.version # NoVersion => i.version.text \in Seq(Int)

VARIABLES
  catalog, files, day, bundle,
  lockfile, lockedAt,    \* the lock file and, as history, what it was made from
  machine,               \* what is installed
  receipts,              \* by id: version, backend, scope
  pins, holds,           \* preferences.json: constraints by name, and names
  pc, cmd, at,           \* the command under way, and its next operation
  done,                  \* history: the apply that succeeded last, until something changes
  changes, faults, commands

things == <<catalog, files, day, bundle>>
records == <<receipts, pins, holds>>
bounds == <<changes, faults, commands>>
vars   == <<things, lockfile, lockedAt, machine, records, pc, cmd, at, done, bounds>>

\* The map f, with v for x.
Put(f, x, v) == [y \in DOMAIN f \union {x} |-> IF y = x THEN v ELSE f[y]]

\* installed_snapshot: the marks are those under the package's own id.
Installed ==
  [id \in DOMAIN receipts |-> [version |-> receipts[id].version, backend |-> receipts[id].backend,
     scope |-> receipts[id].scope, pinned |-> IF id \in DOMAIN pins THEN pins[id] ELSE NoVersion,
     held |-> id \in holds]]

\* What a process finds when it starts (AppContext::load).
Now == [catalog |-> catalog, layers |-> LayersOf(files), platform |-> Host, day |-> day,
        installed |-> Installed]

Command(kind, ops, supplied, fresh, profile) ==
  [kind |-> kind, ops |-> ops, supplied |-> supplied, lock |-> fresh, base |-> Now, seen |-> None,
   bundle |-> bundle, profile |-> profile, holds |-> holds, got |-> << >>, calm |-> TRUE]

Profiles == {NoProfile} \union DOMAIN bundle.profiles
Whole == lockfile \notin {None, Torn}

-----------------------------------------------------------------------------
(* Deciding *)

CanStart == pc = "idle" /\ commands < MaxCommands /\ PolicyLoads(files)

Ask(command) ==
  /\ cmd' = command
  /\ pc' = "asked" /\ at' = 1 /\ done' = None
  /\ commands' = commands + 1
  /\ UNCHANGED <<things, lockfile, lockedAt, machine, records, changes, faults>>

\* Mutant of Supplied: the lock is not compared with the resolution.
SuppliedForBundle(lock, profile, fresh) == lock.intent = bundle /\ lock.profile = profile
\* verify_supplied_lock
Supplied(lock, profile, fresh) ==
  /\ lock.intent = bundle /\ lock.profile = profile
  /\ ContextStands(Now, lock)
  /\ VersionsStand(Now, lock)
  /\ lock = fresh

\* apply_bundle, up to the prompt, with no lock or with the one there is.
Apply(profile) ==
  /\ CanStart
  /\ \E supplied \in {None} \union ({lockfile} \ {Torn}),
        resolved \in {ResolveBundle(Now, bundle, profile, FALSE)} :
       /\ resolved.error = ""
       /\ supplied # None => Supplied(supplied, profile, resolved.lock)
       /\ Ask(Command("apply", resolved.ops, supplied, resolved.lock, profile))

\* handle_operation, up to the prompt, for one package.
Operate(r) ==
  /\ CanStart
  /\ \E resolution \in {Resolve(Now, r.name, r.op, Request(Anything, "auto", "stable", r.version), FALSE)} :
       /\ resolution.error = "" /\ resolution.selected # 0
       /\ Ask(Command("operation", <<[op |-> r.op, own |-> TRUE, for |-> r.name, resolution |-> resolution]>>,
                      None, None, NoProfile))

\* Consent is refused, or required and not given at a terminal.
Decline ==
  /\ pc = "asked"
  /\ pc' = "idle" /\ cmd' = None
  /\ UNCHANGED <<things, lockfile, lockedAt, machine, records, at, done, bounds>>

\* Mutant of Current: the receipts are not compared.
CurrentContext == Now.catalog = cmd.base.catalog /\ Now.layers = cmd.base.layers
\* ExecutionPlan::revalidate, for every plan before the first runs.
Current ==
  /\ Now.catalog = cmd.base.catalog /\ Now.layers = cmd.base.layers /\ Now.platform = cmd.base.platform
  /\ Now.installed = cmd.base.installed

\* After the prompt everything is loaded again; "seen" is history: what was so then.
Confirm ==
  /\ pc = "asked"
  /\ IF /\ PolicyLoads(files)
        /\ cmd.supplied # None => ContextStands(Now, cmd.lock) /\ VersionsStand(Now, cmd.lock)
        /\ cmd.ops # <<>> => Current
     THEN pc' = (IF cmd.ops = <<>> THEN "finish" ELSE "run") /\ cmd' = [cmd EXCEPT !.seen = Now]
     ELSE pc' = "idle" /\ cmd' = None
  /\ UNCHANGED <<things, lockfile, lockedAt, machine, records, at, done, bounds>>

-----------------------------------------------------------------------------
(* Running *)

O == cmd.ops[at]
Id(o) == o.resolution.id
\* NoChange steps of Planner::build, decided from what was installed then.
Idle(o) ==
  \/ o.op = "install" /\ IsInstalled(cmd.base, Id(o)) /\ o.resolution.version = NoVersion
  \/ o.op = "remove" /\ ~IsInstalled(cmd.base, Id(o))

\* build_bundle_plans: consecutive operations of one kind are one plan.
PlanOf(i) ==
  {j \in DOMAIN cmd.ops : \A k \in DOMAIN cmd.ops :
     (IF i < j THEN i ELSE j) <= k /\ k <= (IF i < j THEN j ELSE i) => cmd.ops[k].op = cmd.ops[i].op}

\* Mutant of Outcomes: that the package is there is not verified.
OutcomesUnverified(o) == {None} \union (IF o.op = "remove" THEN {} ELSE VersionTexts)
\* What a step of the backend that succeeds, and is then verified, leaves.
Outcomes(o) ==
  IF o.op = "remove" THEN {None}
  ELSE {v \in VersionTexts : o.resolution.version # NoVersion => Satisfies(v, o.resolution.version)}

Step ==
  /\ pc = "run"
  /\ IF Idle(O) THEN UNCHANGED <<machine, cmd>>
     ELSE \E v \in Outcomes(O) : /\ machine' = [machine EXCEPT ![Id(O)] = v]
                                 /\ cmd' = [cmd EXCEPT !.got = Put(@, Id(O), v)]
  /\ IF at + 1 \in PlanOf(at) THEN at' = at + 1 /\ UNCHANGED pc
                              ELSE pc' = "receipts" /\ UNCHANGED at
  /\ UNCHANGED <<things, lockfile, lockedAt, records, done, bounds>>

\* What the verification of the step observed, not what is there by now.
Receipt(o) ==
  [version |-> cmd.got[Id(o)], backend |-> Selected(o.resolution).backend, scope |-> Selected(o.resolution).scope]

\* commit_receipts of one plan; then the next plan, if there is one.
Commit ==
  LET acted == {j \in PlanOf(at) : ~Idle(cmd.ops[j])}
      removed == {Id(cmd.ops[j]) : j \in {k \in acted : cmd.ops[k].op = "remove"}}
      written == {j \in acted : cmd.ops[j].op # "remove"}
      last(id) == Max({j \in written : Id(cmd.ops[j]) = id})
      ids == {Id(cmd.ops[j]) : j \in written}
  IN /\ pc = "receipts"
     /\ receipts' = [id \in (DOMAIN receipts \ removed) \union ids |->
                       IF id \in ids THEN Receipt(cmd.ops[last(id)]) ELSE receipts[id]]
     /\ IF at < Len(cmd.ops) THEN at' = at + 1 /\ pc' = "run" ELSE pc' = "finish" /\ UNCHANGED at
     /\ UNCHANGED <<things, lockfile, lockedAt, machine, pins, holds, cmd, done, bounds>>

Finish ==
  /\ pc = "finish"
  /\ done' = (IF cmd.kind = "apply" /\ cmd.calm THEN [base |-> cmd.base, bundle |-> cmd.bundle, profile |-> cmd.profile]
              ELSE None)
  /\ pc' = "idle" /\ cmd' = None
  /\ UNCHANGED <<things, lockfile, lockedAt, machine, records, at, bounds>>

\* A step or a receipt fails: the plans that are done stay done, the rest is
\* not begun, and what this plan did has no receipt.
Fail ==
  /\ pc \in {"run", "receipts"} /\ faults < MaxFaults
  /\ faults' = faults + 1
  /\ IF pc = "run" /\ ~Idle(O) THEN \E v \in {machine[Id(O)]} \union Outcomes(O) : machine' = [machine EXCEPT ![Id(O)] = v]
     ELSE UNCHANGED machine
  /\ pc' = "idle" /\ cmd' = None
  /\ UNCHANGED <<things, lockfile, lockedAt, records, at, done, changes, commands>>

-----------------------------------------------------------------------------
(* Locks *)

\* A lock is written in place, and a crash may cut it short.
WriteLock(lock) ==
  /\ \/ lockfile' = lock /\ UNCHANGED faults
     \/ lockfile' = Torn /\ faults < MaxFaults /\ faults' = faults + 1
  /\ lockedAt' = [installed |-> Installed, day |-> day]
  /\ commands' = commands + 1
  /\ UNCHANGED <<things, machine, records, pc, cmd, at, done, changes>>

\* bundle lock
Lock(profile) ==
  /\ CanStart
  /\ \E resolved \in {ResolveBundle(Now, bundle, profile, TRUE)} : resolved.error = "" /\ WriteLock(resolved.lock)

\* bundle refresh: only a lock of this bundle and this profile.
Refresh(profile) ==
  /\ Whole /\ lockfile.intent = bundle /\ lockfile.profile = profile
  /\ Lock(profile)

-----------------------------------------------------------------------------
(* Everything else *)

\* Another process, or the operator, does something meanwhile.
Change ==
  /\ changes < MaxChanges /\ changes' = changes + 1
  /\ done' = None
  /\ cmd' = IF pc = "idle" THEN None ELSE [cmd EXCEPT !.calm = FALSE]
  /\ UNCHANGED <<lockfile, lockedAt, pc, at, faults, commands>>

\* `catalog update`: only a valid document becomes active (Catalog::from_document).
UpdateCatalog ==
  /\ Change
  /\ catalog' \in {doc \in Catalogs \ {catalog} : ValidDocument(doc)}
  /\ UNCHANGED <<files, day, bundle, machine, records>>

ChangePolicy ==
  /\ Change
  /\ files' \in PolicyFiles \ {files}
  /\ UNCHANGED <<catalog, day, bundle, machine, records>>

EditBundle ==
  /\ Change
  /\ bundle' \in Bundles \ {bundle}
  /\ UNCHANGED <<catalog, files, day, machine, records>>

NextDay ==
  /\ Change
  /\ day < LastDay /\ day' = day + 1
  /\ UNCHANGED <<catalog, files, bundle, machine, records>>

\* pin: under the canonical id, at the version given or the one recorded.
Pin(name) ==
  LET id == Manifest(catalog, name).id IN
  /\ Change
  /\ Known(catalog, name)
  /\ \E v \in {c \in {r.version : r \in Requests} \ {NoVersion} : ValidConstraint(c)}
             \union {[mark |-> "", text |-> receipts[x].version] : x \in DOMAIN receipts \intersect {id}} :
       pins' = Put(pins, id, v)
  /\ UNCHANGED <<things, machine, receipts, holds>>

\* hold: under the name as it was given.
Hold(name) ==
  /\ Change
  /\ Known(catalog, name) /\ name \notin holds
  /\ holds' = holds \union {name}
  /\ UNCHANGED <<things, machine, receipts, pins>>

\* unpin, unhold: what has this very name.
Release(name) ==
  /\ Change
  /\ \/ /\ name \in DOMAIN pins /\ UNCHANGED holds
        /\ pins' = [x \in DOMAIN pins \ {name} |-> pins[x]]
     \/ name \in holds /\ holds' = holds \ {name} /\ UNCHANGED pins
  /\ UNCHANGED <<things, machine, receipts>>

\* Another siorb process installs or removes a package.
Elsewhere(id) ==
  /\ Change
  /\ \/ /\ id \in DOMAIN receipts
        /\ receipts' = [x \in DOMAIN receipts \ {id} |-> receipts[x]]
        /\ machine' = [machine EXCEPT ![id] = None]
     \/ \E v \in VersionTexts, b \in OtherBackends :
          /\ id \notin DOMAIN receipts
          /\ receipts' = Put(receipts, id, [version |-> v, backend |-> b, scope |-> "auto"])
          /\ machine' = [machine EXCEPT ![id] = v]
  /\ UNCHANGED <<things, pins, holds>>

-----------------------------------------------------------------------------
Init ==
  /\ catalog \in {doc \in Catalogs : ValidDocument(doc)}
  /\ files \in PolicyFiles /\ bundle \in Bundles
  /\ day = 0
  /\ lockfile = None /\ lockedAt = None
  /\ machine = [id \in {p.id : p \in UNION {Range(doc.packages) : doc \in Catalogs}} |-> None]
  /\ receipts = << >> /\ pins = FirstPins /\ holds = FirstHolds
  /\ pc = "idle" /\ cmd = None /\ at = 1 /\ done = None
  /\ changes = 0 /\ faults = 0 /\ commands = 0

Next ==
  \/ \E profile \in Profiles : Apply(profile) \/ Lock(profile) \/ Refresh(profile)
  \/ \E r \in Requests : Operate(r)
  \/ Decline \/ Confirm \/ Step \/ Commit \/ Finish \/ Fail
  \/ UpdateCatalog \/ ChangePolicy \/ EditBundle \/ NextDay
  \/ \E name \in Spellings : Pin(name) \/ Hold(name) \/ Release(name)
  \/ \E id \in DOMAIN machine : Elsewhere(id)

Spec == Init /\ [][Next]_vars

-----------------------------------------------------------------------------
(* Properties *)

\* Types, and what the control points promise: a command under way has been
\* decided, what runs has a next operation, and every operation has a source.
TypeOK ==
  /\ ValidDocument(catalog) /\ files \in PolicyFiles /\ bundle \in Bundles /\ day \in 0..LastDay
  /\ \A id \in DOMAIN receipts : receipts[id].version \in VersionTexts
  /\ \A id \in DOMAIN machine : machine[id] \in VersionTexts \union {None}
  /\ holds \subseteq Spellings
  /\ pc \in {"idle", "asked", "run", "receipts", "finish"}
  /\ pc = "idle" => cmd = None
  /\ pc \in {"run", "receipts"} => at \in DOMAIN cmd.ops
  /\ pc # "idle" => \A k \in DOMAIN cmd.ops :
       cmd.ops[k].resolution.error = "" /\ cmd.ops[k].resolution.selected # 0
  /\ changes \in 0..MaxChanges /\ faults \in 0..MaxFaults /\ commands \in 0..MaxCommands

Running == pc \in {"run", "receipts"}

\* Whoever asks by any name, and whatever changed while the prompt was open,
\* what runs is not the removal or upgrade of a package whose id was held when
\* the run was confirmed, and what it installs has the version of the pin.
MarksAreRespected ==
  Running => \A k \in DOMAIN cmd.ops :
    LET o == cmd.ops[k]  now == cmd.seen.installed IN
    IsInstalled(cmd.seen, Id(o)) =>
      /\ o.op \in {"remove", "upgrade"} => ~now[Id(o)].held
      /\ o.op # "remove" /\ now[Id(o)].pinned # NoVersion => o.resolution.version = now[Id(o)].pinned

\* Deny wins: putting a policy file in place never lets through a source that
\* was not let through without it, nor drops a confirmation that was required.
LayersOnlyTighten ==
  \A more \in PolicyFiles, i \in DOMAIN catalog.packages, op \in {"install", "remove"} :
    LET p == catalog.packages[i]
        opts == Request(Anything, "auto", "stable", NoVersion)
        verdict(list, s) == Decision(LayersOf(list), p, s, op, PolicyContext(Now, p.id, s, opts, FALSE))
    IN \A s \in Range(p.sources) : \A before \in {verdict(files, s)}, after \in {verdict(files \o more, s)} :
         (Allowed(after) => Allowed(before)) /\ (before.confirm => after.confirm)

\* The denials of the policy in force when a command was confirmed apply to
\* every operation that runs, conflict removals included.  (Only the age of a
\* review is that of the day of the decision.)
PolicyAllowsWhatRuns ==
  Running => \A k \in DOMAIN cmd.ops :
    LET r == cmd.ops[k].resolution  s == Selected(r)
        w == [cmd.seen EXCEPT !.day = cmd.base.day]
        ctx == PolicyContext(w, r.id, s, [version |-> r.version], FALSE)
    IN \E p \in Range(w.catalog.packages) :
         p.id = r.id /\ s \in Range(p.sources) /\ Allowed(Decision(w.layers, p, s, cmd.ops[k].op, ctx))

\* Intents that can all be met: no two name one package, none removes what
\* another or it itself installs (a package to be absent may yet claim to
\* conflict with one), and what is installed goes by its own id.
Meetable(w, intents) ==
  LET known == {i \in Range(intents) : Known(w.catalog, i.id)}
      names(i) == Manifest(w.catalog, i.id).id
  IN /\ \A i, j \in known : names(i) = names(j) => i = j
     /\ \A i, j \in known : j.state = "present" /\ (i = j \/ i.state = "absent")
                             => names(j) \notin Manifest(w.catalog, i.id).conflicts
     /\ \A id \in DOMAIN w.installed : Known(w.catalog, id) => Manifest(w.catalog, id).id = id

\* The intents that an apply must have met: not optional ones, those for other
\* platforms and those that yield.
Counted(w, intents) ==
  {i \in Range(intents) : /\ ~i.optional /\ i.id \notin Skipped(w, intents)
                          /\ i.platforms = {} \/ w.platform.os \in i.platforms
                          /\ i.conflict # "prefer-installed"}

\* An apply that succeeds while nothing else changes leaves what the bundle
\* says: its packages recorded, those to be absent not, and no package recorded
\* beside one that it was told to prefer to it; and `bundle diff` says so too,
\* where the bundle spells the ids as the catalog does.
ApplyMeetsIntent ==
  done # None /\ Meetable(done.base, Intents(done.bundle, done.profile)) =>
    \A i \in Counted(done.base, Intents(done.bundle, done.profile)) :
         LET p == Manifest(catalog, i.id) IN
         /\ i.state = "present" <=> p.id \in DOMAIN receipts
         /\ i.state = "present" => p.conflicts \intersect DOMAIN receipts = {}
         /\ i.id = p.id => LET report == Diff([done.base EXCEPT !.installed = Installed], done.bundle)
                           IN i.id \notin report.install \union report.remove \union report.mismatched

ReportsNothing(report) ==
  /\ ~report.catalog /\ ~report.policy /\ ~report.platform
  /\ report.added \union report.removed \union report.changed = {}

UntouchedIsAccepted ==
  (/\ Distinct(lockfile) /\ IsInjective([i \in DOMAIN catalog.packages |-> catalog.packages[i].id])
   /\ lockfile.catalog = catalog /\ lockfile.layers = LayersOf(files)
   /\ lockedAt = [installed |-> Installed, day |-> day]
   /\ \A k \in DOMAIN files : ~files[k].layer.dryRun)
  => \E fresh \in {ResolveBundle(Now, bundle, lockfile.profile, FALSE)} :
       fresh.error = "" /\ Supplied(lockfile, lockfile.profile, fresh.lock)

EveryChangeIsReported ==
  \A fresh \in {ResolveBundle(Now, bundle, lockfile.profile, TRUE)} :
    /\ fresh.error = "" /\ Distinct(lockfile) /\ Distinct(fresh.lock)
    /\ ReportsNothing(ReportedChanges(lockfile, fresh.lock))
    => fresh.lock = lockfile

\* A lock says what it should: as long as nothing it depends on changed since it
\* was written, an apply accepts it (where policy does not demand dry runs);
\* and when the report of a refresh finds nothing, nothing changed.  Locks that
\* name a package twice are left out: an apply refuses them, always.
LockTellsTheTruth ==
  Whole /\ PolicyLoads(files) /\ lockfile.intent = bundle => UntouchedIsAccepted /\ EveryChangeIsReported

\* What runs under a lock is what was locked: same catalog, policy and observed
\* versions as when it was written, each locked package from its locked source.
LockedRunsAsLocked ==
  Running /\ cmd.supplied # None =>
    LET lock == cmd.supplied IN
    /\ lock.catalog = cmd.seen.catalog /\ lock.layers = cmd.seen.layers /\ lock.intent = cmd.bundle
    /\ VersionsStand(cmd.seen, lock)
    /\ \A k \in DOMAIN cmd.ops : cmd.ops[k].own =>
         \E e \in Entries(lock) : e.id = Id(cmd.ops[k]) /\ e.source = Selected(cmd.ops[k].resolution).id

\* v is older than w, build metadata apart.
Older(v, w) ==
  IF Semantic(v) /\ Semantic(w) THEN Before(SubSeq(SemanticKey(v), 1, 4), SubSeq(SemanticKey(w), 1, 4), 0)
  ELSE NativeBefore(v, w)

\* An exact version never replaces a later one: the built-in layer prevents
\* downgrades between the versions that the receipts record truly.  (Of a version
\* that is another spelling of the exact one nothing is said where it replaces
\* one that is not semantic.)
NeverDowngraded ==
  [][\A id \in DOMAIN machine :
       /\ pc = "run" /\ changes' = changes /\ Id(O) = id /\ ~Idle(O) /\ O.op # "remove"
       /\ O.resolution.version # NoVersion /\ Exact(O.resolution.version)
       /\ id \in DOMAIN cmd.base.installed /\ machine[id] = cmd.base.installed[id].version
       /\ machine'[id] \notin {machine[id], None}
       /\ Semantic(machine[id]) \/ machine'[id] = O.resolution.version.text
       => ~Older(machine'[id], machine[id])]_vars

\* `hold` prevents the changes that siorb plans until it is released: a package
\* that was installed and held when a command was decided, by whatever name, is neither
\* upgraded nor removed by it.
HoldsAreKept ==
  [][pc = "run" /\ changes' = changes /\ machine' # machine /\ O.op \in {"upgrade", "remove"} =>
       LET w == cmd.base IN
       IsInstalled(w, Id(O)) => Id(O) \notin {Manifest(w.catalog, n).id : n \in {x \in cmd.holds : Known(w.catalog, x)}}]_vars
=============================================================================
