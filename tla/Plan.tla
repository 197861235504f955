-------------------------------- MODULE Plan --------------------------------
(***************************************************************************)
(* The immutable plan (crates/siorb-planner) and the pure predicates the   *)
(* executor asks of it.  A plan names one operation and a list of          *)
(* packages; the steps of a package follow from the operation, the kind of *)
(* its backend and whether the planner found nothing to do for it.         *)
(***************************************************************************)
EXTENDS Naturals, Sequences

CONSTANTS Package,      \* logical package identities of the catalog
          BackendOf,    \* the kind of source each package resolved to
          Version,      \* native versions a query can report
          Absent,       \* "not installed", and no receipt in a snapshot
          Unversioned,  \* installed, but no version is known
          AnyVersion,   \* no version constraint was requested
          MaxPackages   \* bound: packages named by one plan

\* "native": a package manager; "portable" and "installer": direct artifacts
\* (archives and AppImages that siorb owns, and native installers it runs).
BackendKind == {"native", "portable", "installer"}

ASSUME BackendAssumption == BackendOf \in [Package -> BackendKind]
ASSUME VersionAssumption ==
    /\ Absent \notin Version \cup {Unversioned}
    /\ Unversioned \notin Version
    /\ AnyVersion \notin Version
ASSUME MaxPackagesAssumption == MaxPackages \in Nat \ {0}

\* Operation::Reconcile is only ever planned (`siorb plan reconcile`), never
\* executed, so it is not an operation of the executor's plans.
Operation == {"install", "remove", "upgrade", "repair", "adopt", "verify"}

StepKind == {"backend", "verify", "download", "extract", "installer", "no_change"}

\* The packages one command names, in order; a name may be repeated.
PackageList == UNION {[1..n -> Package] : n \in 1..MaxPackages}

\* What StateStore::installed_snapshot shows the planner of each package: the
\* version of its receipt, Unversioned for an artifact receipt, Absent if none.
Snapshot == [Package -> Version \cup {Absent, Unversioned}]

PlanType == [op: Operation, pkgs: PackageList, want: Version \cup {AnyVersion}, snap: Snapshot]

-----------------------------------------------------------------------------
(* Planner::build                                                          *)

\* Installing what has a receipt, with no version asked for, and removing what
\* has none, are plans with nothing to do.
NothingToDo(pl, q) ==
    \/ pl.op = "install" /\ pl.snap[q] # Absent /\ pl.want = AnyVersion
    \/ pl.op = "remove" /\ pl.snap[q] = Absent

\* artifact_steps rejects the whole plan when a direct artifact is to be adopted
\* or an artifact installer is to be removed.
Plannable(pl, q) ==
    \/ NothingToDo(pl, q)
    \/ /\ BackendOf[q] # "native" => pl.op # "adopt"
       /\ BackendOf[q] = "installer" => pl.op # "remove"

NativeSteps(op) ==
    CASE op = "verify" -> <<"verify">>
      [] op = "adopt"  -> <<"backend">>
      [] OTHER         -> <<"backend", "verify">>

ArtifactSteps(op, b) ==
    CASE op = "remove" -> <<"extract">>
      [] op = "verify" -> <<"download", "verify">>
      [] OTHER -> <<"download", "verify", IF b = "portable" THEN "extract" ELSE "installer">>

PlannedSteps(op, b) == IF b = "native" THEN NativeSteps(op) ELSE ArtifactSteps(op, b)

\* The steps a plan has for its package q, in execution order.
StepsFor(pl, q) ==
    IF NothingToDo(pl, q) THEN <<"no_change">> ELSE PlannedSteps(pl.op, BackendOf[q])

-----------------------------------------------------------------------------
(* Predicates of the executor over plan steps                              *)

\* step_commits_machine_state: does completing the step change the machine?
CommitsMachineState(op, kind) ==
    \/ kind = "backend" /\ op \in {"install", "remove", "upgrade", "repair"}
    \/ kind \in {"extract", "installer"} /\ op # "verify"

\* Mutant of CompletionState: backend mutations are journaled as verifications.
CompletionStateArtifactsOnly(op, kind) ==
    IF kind \in {"extract", "installer"} THEN "step_completed" ELSE "verification_completed"

\* step_completion_state: the journal state a completed step is recorded with.
CompletionState(op, kind) ==
    IF CommitsMachineState(op, kind) \/ (op = "adopt" /\ kind = "backend")
    THEN "step_completed" ELSE "verification_completed"

\* package_requires_receipt_commit
RequiresReceiptCommit(pl, q) ==
    CASE pl.op = "verify" -> FALSE
      [] pl.op = "adopt"  -> TRUE
      [] OTHER -> LET steps == StepsFor(pl, q)
                  IN  \E i \in DOMAIN steps : CommitsMachineState(pl.op, steps[i])

\* validate_native_receipt_verification: after the last native mutation of a
\* package there is a query of it, or the plan does not run.
MutationIsQueried(pl, q) ==
    LET steps == StepsFor(pl, q)
        mutates(i) == CommitsMachineState(pl.op, steps[i])
    IN  (/\ pl.op \in {"install", "remove", "upgrade", "repair"}
         /\ BackendOf[q] = "native"
         /\ RequiresReceiptCommit(pl, q))
        => \E i \in DOMAIN steps :
              /\ steps[i] = "verify"
              /\ \A m \in DOMAIN steps : mutates(m) => m < i

\* execute_step: a step that only asks the backend what is installed.
IsQuery(op, kind) == kind = "verify" \/ op \in {"verify", "adopt"}
=============================================================================
