------------------------------ MODULE Executor ------------------------------
(***************************************************************************)
(* Commands of siorb processes that share one state directory and one      *)
(* machine: `install`, `remove`, `upgrade`, `repair`, `adopt`, `verify`    *)
(* (handle_operation, Executor::execute) and `reconcile`                   *)
(* (handle_reconcile).  A command plans from the receipts, revalidates,    *)
(* then for each step journals, acts and journals again, writes receipts   *)
(* and closes its transaction.  Nothing locks the state directory, a       *)
(* process may die between any two steps, and every write may fail.        *)
(*                                                                         *)
(* The journal keeps, of the append-only file, what                        *)
(* reconciliation_statuses reads from it: the set of events and the last   *)
(* state of each transaction.                                              *)
(***************************************************************************)
EXTENDS Plan, FiniteSets

CONSTANTS Proc,            \* siorb processes
          Operations,      \* the operations commands are issued with
          NoReceipt, NoPlan, NotSeen, Unused, Spent,   \* "none" values
          MaxTx,           \* bound: transactions begun
          SameSecond,      \* may two transactions begin within one second?
          JournalFaults,   \* may an append to the journal fail?
          ReceiptFaults,   \* may a receipt write or removal fail?
          PartialBackend   \* may a failing mutation have changed the machine?

Receipt == [tx: 1..MaxTx, version: Version \cup {Unversioned}]

ASSUME OperationsAssumption == Operations \subseteq Operation
ASSUME BoundsAssumption == MaxTx \in Nat \ {0}
ASSUME NoneAssumption ==
    /\ NoReceipt \notin Receipt
    /\ NoPlan \notin PlanType
    /\ NotSeen \notin Version \cup {Absent, Unversioned}
    /\ {Unused, Spent} \cap PlanType = {}
    /\ Unused # Spent
ASSUME FaultAssumption ==
    {SameSecond, JournalFaults, ReceiptFaults, PartialBackend} \subseteq BOOLEAN

TxId == 1..MaxTx
\* A step of a plan: the position of its package and its position for that one.
StepId == (1..MaxPackages) \X (1..3)
NoStep == <<0, 0>>

JournalState == {"transaction_started", "step_started", "step_completed", "step_failed",
                 "verification_completed", "receipt_committed", "transaction_completed",
                 "transaction_failed", "reconciled"}
Event == [tx: TxId, state: JournalState, step: StepId \cup {NoStep}]
Effect == [tx: TxId, step: StepId, pkg: Package]

VARIABLES
    key,       \* per transaction: the plan its id names, until the second is over
    journal,   \* set of events of journal.ndjson
    last,      \* per transaction: state of its last event
    machine,   \* per package: what is really installed
    receipt,   \* per package: the receipt file
    pc,        \* per process: control point
    plan, tx,  \* per process: its plan and its transaction
    k, j,      \* per process: package and step position in the plan
    changed,   \* per process: the local state_changed
    seen,      \* per process: observations, by package
    artifact,  \* per process: downloaded artifacts, by package
    wrote,     \* per process: did commit_receipts change a receipt?
    exit,      \* per process: how its last command ended
    due,       \* per process: the transactions a reconciliation is about
    view,      \* per process: the receipts it loaded
    todo, good, \* per process: receipts still to query, and those verified
    \* History, read by properties only:
    effects,   \* machine changes, with the step that made them
    recorded,  \* <<t, q>>: transaction t wrote or removed the receipt of q
    crashed,   \* per transaction: did a process die while executing it?
    touched    \* per process: did its command change the machine?

store  == <<journal, last>>
local  == <<plan, tx, k, j, changed, seen, artifact, wrote>>
recon  == <<due, view, todo, good>>
ghost  == <<effects, recorded, crashed, touched>>
vars   == <<key, store, machine, receipt, pc, local, exit, recon, ghost>>

-----------------------------------------------------------------------------
(* StateStore                                                              *)

\* append_event
AppendEvent(t, state, step) ==
    /\ journal' = journal \cup {[tx |-> t, state |-> state, step |-> step]}
    /\ last' = [last EXCEPT ![t] = state]

\* Mutant of PartialMutation: a failed transaction counts only if it got to the
\* receipts.
PartialMutationByReceipt(t) ==
    \E e \in journal : e.tx = t /\ e.state = "receipt_committed"

PartialMutation(t) ==
    \E e \in journal : e.tx = t /\ e.state \in {"step_completed", "receipt_committed"}

\* Mutants of Required: an interrupted transaction is not detected; a step that
\* was only started, or only verified, is taken for the end.
RequiredIfFailed(t) == last[t] = "transaction_failed" /\ PartialMutation(t)
RequiredUnlessVerified(t) ==
    /\ last[t] \notin {"none", "verification_completed", "transaction_completed", "reconciled"}
    /\ last[t] = "transaction_failed" => PartialMutation(t)

\* reconciliation_statuses: the verdict `required` of a transaction.
Required(t) ==
    /\ last[t] \notin {"none", "transaction_completed", "reconciled"}
    /\ last[t] = "transaction_failed" => PartialMutation(t)

\* installed_snapshot, as the plan's installed fingerprint sees it.
Installed == [q \in Package |-> IF receipt[q] = NoReceipt THEN Absent ELSE receipt[q].version]

-----------------------------------------------------------------------------
(* What a process is doing                                                 *)

Pkg(p)    == plan[p].pkgs[k[p]]
Op(p)     == plan[p].op
Steps(p)  == StepsFor(plan[p], Pkg(p))
Kind(p)   == Steps(p)[j[p]]
StepOf(p) == <<k[p], j[p]>>

\* Control points inside Executor::execute, after transaction_started.
Executing == {"step", "run", "ran", "failed", "failing", "receipts", "unwritten",
              "commit", "closing"}
Reconciling == {"statuses", "query", "mark"}
PC == {"idle", "planned", "ready", "begin"} \cup Executing \cup Reconciling

Live(t) == \E p \in Proc : pc[p] \in Executing /\ tx[p] = t

Goto(p, there) == pc' = [pc EXCEPT ![p] = there]

\* The command ends: its locals are gone.
Leave(p, how) ==
    /\ Goto(p, "idle")
    /\ exit' = [exit EXCEPT ![p] = how]
    /\ plan' = [plan EXCEPT ![p] = NoPlan]
    /\ tx' = [tx EXCEPT ![p] = 1]
    /\ k' = [k EXCEPT ![p] = 1]
    /\ j' = [j EXCEPT ![p] = 1]
    /\ changed' = [changed EXCEPT ![p] = FALSE]
    /\ seen' = [seen EXCEPT ![p] = [q \in Package |-> NotSeen]]
    /\ artifact' = [artifact EXCEPT ![p] = [q \in Package |-> "none"]]
    /\ wrote' = [wrote EXCEPT ![p] = FALSE]
    /\ due' = [due EXCEPT ![p] = {}]
    /\ view' = [view EXCEPT ![p] = [q \in Package |-> NoReceipt]]
    /\ todo' = [todo EXCEPT ![p] = {}]
    /\ good' = [good EXCEPT ![p] = {}]

StoreTyped ==
    /\ key \in [TxId -> PlanType \cup {Unused, Spent}]
    /\ journal \subseteq Event
    /\ last \in [TxId -> JournalState \cup {"none"}]
    /\ machine \in [Package -> Version \cup {Absent}]
    /\ receipt \in [Package -> Receipt \cup {NoReceipt}]

CommandTyped ==
    /\ pc \in [Proc -> PC]
    /\ plan \in [Proc -> PlanType \cup {NoPlan}]
    /\ tx \in [Proc -> TxId]
    /\ k \in [Proc -> 1..MaxPackages]
    /\ j \in [Proc -> 1..3]
    /\ changed \in [Proc -> BOOLEAN]
    /\ seen \in [Proc -> [Package -> Version \cup {Absent, Unversioned, NotSeen}]]
    /\ artifact \in [Proc -> [Package -> {"none", "downloaded", "verified"}]]
    /\ wrote \in [Proc -> BOOLEAN]
    /\ exit \in [Proc -> {"none", "success", "no_change", "planned", "failed", "partial", "died"}]

ReconTyped ==
    /\ due \in [Proc -> SUBSET TxId]
    /\ view \in [Proc -> [Package -> Receipt \cup {NoReceipt}]]
    /\ todo \in [Proc -> SUBSET Package]
    /\ good \in [Proc -> SUBSET Package]

HistoryTyped ==
    /\ effects \subseteq Effect
    /\ recorded \subseteq TxId \X Package
    /\ crashed \in [TxId -> BOOLEAN]
    /\ touched \in [Proc -> BOOLEAN]

TypeOK == StoreTyped /\ CommandTyped /\ ReconTyped /\ HistoryTyped

Init ==
    /\ key = [t \in TxId |-> Unused]
    /\ journal = {}
    /\ last = [t \in TxId |-> "none"]
    \* Software may be there before siorb first runs; directories it owns are not.
    /\ machine \in [Package -> Version \cup {Absent}]
    /\ \A q \in Package : BackendOf[q] = "portable" => machine[q] = Absent
    /\ receipt = [q \in Package |-> NoReceipt]
    /\ pc = [p \in Proc |-> "idle"]
    /\ plan = [p \in Proc |-> NoPlan]
    /\ tx = [p \in Proc |-> 1]
    /\ k = [p \in Proc |-> 1]
    /\ j = [p \in Proc |-> 1]
    /\ changed = [p \in Proc |-> FALSE]
    /\ seen = [p \in Proc |-> [q \in Package |-> NotSeen]]
    /\ artifact = [p \in Proc |-> [q \in Package |-> "none"]]
    /\ wrote = [p \in Proc |-> FALSE]
    /\ exit = [p \in Proc |-> "none"]
    /\ due = [p \in Proc |-> {}]
    /\ view = [p \in Proc |-> [q \in Package |-> NoReceipt]]
    /\ todo = [p \in Proc |-> {}]
    /\ good = [p \in Proc |-> {}]
    /\ effects = {}
    /\ recorded = {}
    /\ crashed = [t \in TxId |-> FALSE]
    /\ touched = [p \in Proc |-> FALSE]

-----------------------------------------------------------------------------
(* handle_operation: plan, ask, revalidate                                 *)

\* Bound: a command is only issued while a transaction id is left for it.
TxLeft ==
    Cardinality({t \in TxId : key[t] = Unused})
        > Cardinality({p \in Proc : pc[p] \in {"planned", "ready"}})

BuildPlan(p) ==
    /\ pc[p] = "idle"
    /\ TxLeft
    /\ \E op \in Operations, pkgs \in PackageList, want \in Version \cup {AnyVersion} :
          LET pl == [op |-> op, pkgs |-> pkgs, want |-> want, snap |-> Installed]
          IN  /\ \A i \in DOMAIN pkgs : Plannable(pl, pkgs[i])
              /\ plan' = [plan EXCEPT ![p] = pl]
    /\ Goto(p, "planned")
    /\ exit' = [exit EXCEPT ![p] = "none"]
    /\ touched' = [touched EXCEPT ![p] = FALSE]
    /\ UNCHANGED <<key, store, machine, receipt, tx, k, j, changed, seen, artifact, wrote,
                   recon, effects, recorded, crashed>>

\* ExecutionPlan::revalidate, after the prompt: the receipts are as planned.
Revalidate(p) ==
    /\ pc[p] = "planned"
    /\ Installed = plan[p].snap
    /\ Goto(p, "ready")
    /\ UNCHANGED <<key, store, machine, receipt, local, exit, recon, ghost>>

\* The plan is stale, consent, connectivity or privilege is missing, or a
\* mutation would not be verified: nothing has been journaled yet.
Refuse(p) ==
    /\ pc[p] \in {"planned", "ready"}
    /\ Leave(p, "failed")
    /\ UNCHANGED <<key, store, machine, receipt, ghost>>

\* unix_timestamp: a transaction begins in the second of the one before it, or
\* in a later one, when no id of an earlier second is given again.
LaterSecond == [t \in TxId |-> IF key[t] = Unused THEN Unused ELSE Spent]
KeysNow     == {LaterSecond} \cup {same \in {key} : SameSecond}

\* Executor::execute names the transaction tx-<unix second>-<prefix of plan_id>.
Begin(p) ==
    /\ pc[p] = "ready"
    /\ \A i \in DOMAIN plan[p].pkgs : MutationIsQueried(plan[p], plan[p].pkgs[i])
    /\ \E ids \in KeysNow :
          LET same == {t \in TxId : ids[t] = plan[p]}
              next == {t \in TxId : ids[t] = Unused /\ \A u \in 1..(t - 1) : ids[u] # Unused}
          IN  \E t \in IF same = {} THEN next ELSE same :
                 /\ tx' = [tx EXCEPT ![p] = t]
                 /\ key' = [ids EXCEPT ![t] = IF SameSecond THEN plan[p] ELSE Spent]
    /\ Goto(p, "begin")
    /\ UNCHANGED <<store, machine, receipt, plan, k, j, changed, seen, artifact, wrote,
                   exit, recon, ghost>>

-----------------------------------------------------------------------------
(* Executor::execute: the journal                                          *)

\* The event a process is about to append.
Pending(p) ==
    CASE pc[p] = "begin"   -> <<"transaction_started", NoStep>>
      [] pc[p] = "step"    -> <<"step_started", StepOf(p)>>
      [] pc[p] = "ran"     -> <<CompletionState(Op(p), Kind(p)), StepOf(p)>>
      [] pc[p] = "failed"  -> <<"step_failed", StepOf(p)>>
      [] pc[p] = "commit"  -> <<"receipt_committed", NoStep>>
      [] pc[p] = "closing" -> <<"transaction_completed", NoStep>>
      [] OTHER             -> <<"transaction_failed", NoStep>>
Journaling == {"begin", "step", "ran", "failed", "failing", "unwritten", "commit", "closing"}
Write(p) == AppendEvent(tx[p], Pending(p)[1], Pending(p)[2])

StartTransaction(p) ==
    /\ pc[p] = "begin"
    /\ Write(p)
    /\ Goto(p, "step")
    /\ UNCHANGED <<key, machine, receipt, local, exit, recon, ghost>>

\* Mutant of StartStep: the step runs without its start in the journal.
StartStepUnwritten(p) ==
    /\ pc[p] = "step"
    /\ Goto(p, "run")
    /\ UNCHANGED <<key, store, machine, receipt, local, exit, recon, ghost>>

StartStep(p) ==
    /\ pc[p] = "step"
    /\ Write(p)
    /\ Goto(p, "run")
    /\ UNCHANGED <<key, machine, receipt, local, exit, recon, ghost>>

Advance(p) ==
    \/ /\ j[p] < Len(Steps(p))
       /\ j' = [j EXCEPT ![p] = @ + 1]
       /\ Goto(p, "step")
       /\ UNCHANGED k
    \/ /\ j[p] = Len(Steps(p))
       /\ j' = [j EXCEPT ![p] = 1]
       /\ IF k[p] < Len(plan[p].pkgs)
          THEN k' = [k EXCEPT ![p] = @ + 1] /\ Goto(p, "step")
          ELSE k' = [k EXCEPT ![p] = 1] /\ Goto(p, "receipts")

\* Mutant of RecordStep: the loop never gets to the next step.
RecordStepStays(p) ==
    /\ pc[p] = "ran"
    /\ Write(p)
    /\ Goto(p, "step")
    /\ UNCHANGED <<key, machine, receipt, local, exit, recon, ghost>>

\* The step succeeded: remember whether it changed the machine, journal it and
\* go to the next step, the next package, or the receipts.
RecordStep(p) ==
    /\ pc[p] = "ran"
    /\ Write(p)
    /\ changed' = [changed EXCEPT ![p] = @ \/ CommitsMachineState(Op(p), Kind(p))]
    /\ Advance(p)
    /\ UNCHANGED <<key, machine, receipt, plan, tx, seen, artifact, wrote, exit, recon, ghost>>

FailStep(p) ==
    /\ pc[p] = "failed"
    /\ Write(p)
    /\ Goto(p, "failing")
    /\ UNCHANGED <<key, machine, receipt, local, exit, recon, ghost>>

\* The error becomes a partial completion only if an earlier step, or here an
\* earlier receipt, is known to have changed something.
FailTransaction(p) ==
    /\ pc[p] = "failing"
    /\ Write(p)
    /\ Leave(p, IF changed[p] THEN "partial" ELSE "failed")
    /\ UNCHANGED <<key, machine, receipt, ghost>>

FailReceipts(p) ==
    /\ pc[p] = "unwritten"
    /\ Write(p)
    /\ Leave(p, IF changed[p] \/ Op(p) = "adopt" THEN "partial" ELSE "failed")
    /\ UNCHANGED <<key, machine, receipt, ghost>>

RecordReceipts(p) ==
    /\ pc[p] = "commit"
    /\ Write(p)
    /\ Goto(p, "closing")
    /\ UNCHANGED <<key, machine, receipt, local, exit, recon, ghost>>

Close(p) ==
    /\ pc[p] = "closing"
    /\ Write(p)
    /\ Leave(p, IF changed[p] \/ wrote[p] THEN "success" ELSE "no_change")
    /\ UNCHANGED <<key, machine, receipt, ghost>>

\* append_event fails before the event is in the file, or (sync_data) after:
\* `?` returns its error as it is, whatever the step had changed.
JournalFails(p) ==
    /\ JournalFaults
    /\ pc[p] \in Journaling
    /\ Write(p) \/ UNCHANGED store
    /\ Leave(p, "failed")
    /\ UNCHANGED <<key, machine, receipt, ghost>>

-----------------------------------------------------------------------------
(* Executor::execute_step and execute_artifact_step                        *)

Native(q) == BackendOf[q] = "native"

Mutates(p) == CommitsMachineState(Op(p), Kind(p))
\* verified_artifact: only verified bytes are extracted or installed.
MayApply(p) ==
    \/ Native(Pkg(p)) \/ Op(p) = "remove"
    \/ artifact[p][Pkg(p)] = "verified"

\* What a mutation that reports success leaves behind.  A package manager or an
\* installer may succeed without changing anything; siorb's own directories change.
Outcomes(p) ==
    (IF Op(p) = "remove" THEN {Absent} ELSE Version)
        \cup (IF BackendOf[Pkg(p)] = "portable" THEN {} ELSE {machine[Pkg(p)]})

\* What one that reports failure, or that a crash cuts short, may leave behind:
\* for owned directories, nothing between the backup and the commit rename.
PartialOutcomes(p) ==
    IF BackendOf[Pkg(p)] = "portable" THEN {Absent} ELSE Outcomes(p)

Mutate(p, v) ==
    LET q == Pkg(p)
        did == v # machine[q]
    IN  /\ machine' = [machine EXCEPT ![q] = v]
        /\ effects' = IF did THEN effects \cup {[tx |-> tx[p], step |-> StepOf(p), pkg |-> q]}
                             ELSE effects
        /\ touched' = [touched EXCEPT ![p] = @ \/ did]

RunMutation(p) ==
    /\ pc[p] = "run"
    /\ Mutates(p)
    /\ MayApply(p)
    /\ \/ \E v \in Outcomes(p) : Mutate(p, v) /\ Goto(p, "ran")
       \/ PartialBackend /\ \E v \in PartialOutcomes(p) : Mutate(p, v) /\ Goto(p, "failed")
    /\ UNCHANGED <<key, store, receipt, local, exit, recon, recorded, crashed>>

\* A step fails and leaves the machine alone.
StepFails(p) ==
    /\ pc[p] = "run"
    /\ Kind(p) # "no_change"
    /\ Goto(p, "failed")
    /\ UNCHANGED <<key, store, machine, receipt, local, exit, recon, ghost>>

\* verified_query_result and verified_absence_query_result: what the query must
\* show for the step to succeed.  With no constraint a version may be unknown.
Observations(p) ==
    LET v == machine[Pkg(p)]
    IN  CASE Op(p) = "remove" -> {v} \cap {Absent}
          [] v = Absent -> {}
          [] plan[p].want = AnyVersion -> {v, Unversioned}
          [] OTHER -> {v} \cap {plan[p].want}

RunQuery(p) ==
    /\ pc[p] = "run"
    /\ Native(Pkg(p))
    /\ IsQuery(Op(p), Kind(p))
    /\ Kind(p) # "no_change"
    /\ \E v \in Observations(p) : seen' = [seen EXCEPT ![p][Pkg(p)] = v]
    /\ Goto(p, "ran")
    /\ UNCHANGED <<key, store, machine, receipt, plan, tx, k, j, changed, artifact, wrote,
                   exit, recon, ghost>>

\* A second download of one package in a plan is refused.
RunDownload(p) ==
    /\ pc[p] = "run"
    /\ Kind(p) = "download"
    /\ artifact[p][Pkg(p)] = "none"
    /\ artifact' = [artifact EXCEPT ![p][Pkg(p)] = "downloaded"]
    /\ Goto(p, "ran")
    /\ UNCHANGED <<key, store, machine, receipt, plan, tx, k, j, changed, seen, wrote,
                   exit, recon, ghost>>

RunVerifyArtifact(p) ==
    /\ pc[p] = "run"
    /\ ~Native(Pkg(p))
    /\ Kind(p) = "verify"
    /\ artifact[p][Pkg(p)] # "none"
    /\ artifact' = [artifact EXCEPT ![p][Pkg(p)] = "verified"]
    /\ Goto(p, "ran")
    /\ UNCHANGED <<key, store, machine, receipt, plan, tx, k, j, changed, seen, wrote,
                   exit, recon, ghost>>

RunNoChange(p) ==
    /\ pc[p] = "run"
    /\ Kind(p) = "no_change"
    /\ Goto(p, "ran")
    /\ UNCHANGED <<key, store, machine, receipt, local, exit, recon, ghost>>

-----------------------------------------------------------------------------
(* Executor::commit_receipts: package by package, in plan order            *)

\* Mutant of NextReceipt: one package too many.
NextReceiptOffByOne(p, w) ==
    /\ wrote' = [wrote EXCEPT ![p] = w]
    /\ IF k[p] <= Len(plan[p].pkgs)
       THEN k' = [k EXCEPT ![p] = @ + 1] /\ UNCHANGED pc
       ELSE k' = [k EXCEPT ![p] = 1] /\ Goto(p, IF w THEN "commit" ELSE "closing")

NextReceipt(p, w) ==
    /\ wrote' = [wrote EXCEPT ![p] = w]
    /\ IF k[p] < Len(plan[p].pkgs)
       THEN k' = [k EXCEPT ![p] = @ + 1] /\ UNCHANGED pc
       ELSE k' = [k EXCEPT ![p] = 1] /\ Goto(p, IF w THEN "commit" ELSE "closing")

SkipReceipt(p) ==
    /\ pc[p] = "receipts"
    /\ ~RequiresReceiptCommit(plan[p], Pkg(p))
    /\ NextReceipt(p, wrote[p])
    /\ UNCHANGED <<key, store, machine, receipt, plan, tx, j, changed, seen, artifact, exit,
                   recon, ghost>>

\* The observation a native package's receipt is written or removed on.
Confirmed(p) ==
    LET q == Pkg(p)
    IN  Native(q) => IF Op(p) = "remove" THEN seen[p][q] = Absent ELSE seen[p][q] \in Version

ReceiptFor(p) ==
    IF Op(p) = "remove" THEN NoReceipt
    ELSE [tx |-> tx[p], version |-> IF Native(Pkg(p)) THEN seen[p][Pkg(p)] ELSE Unversioned]

SaveReceipt(p) ==
    /\ receipt' = [receipt EXCEPT ![Pkg(p)] = ReceiptFor(p)]
    /\ recorded' = recorded \cup {<<tx[p], Pkg(p)>>}

\* write_receipt or remove_receipt
CommitReceipt(p) ==
    /\ pc[p] = "receipts"
    /\ RequiresReceiptCommit(plan[p], Pkg(p))
    /\ Confirmed(p)
    /\ SaveReceipt(p)
    /\ NextReceipt(p, TRUE)
    /\ UNCHANGED <<key, store, machine, plan, tx, j, changed, seen, artifact, exit, recon,
                   effects, crashed, touched>>

\* The receipt is refused, or its write fails: before the rename, or (directory
\* sync) with the new receipt in place.
ReceiptFails(p) ==
    /\ pc[p] = "receipts"
    /\ RequiresReceiptCommit(plan[p], Pkg(p))
    /\ \/ ~Confirmed(p) /\ UNCHANGED <<receipt, recorded>>
       \/ ReceiptFaults /\ UNCHANGED <<receipt, recorded>>
       \/ ReceiptFaults /\ Confirmed(p) /\ Op(p) # "remove" /\ SaveReceipt(p)
    /\ Goto(p, "unwritten")
    /\ UNCHANGED <<key, store, machine, local, exit, recon, effects, crashed, touched>>

-----------------------------------------------------------------------------
(* handle_reconcile                                                        *)

\* transactions_requiring_reconciliation
ReadStatuses(p) ==
    /\ pc[p] = "idle"
    /\ due' = [due EXCEPT ![p] = {t \in TxId : Required(t)}]
    /\ exit' = [exit EXCEPT ![p] = "none"]
    /\ touched' = [touched EXCEPT ![p] = FALSE]
    /\ Goto(p, "statuses")
    /\ UNCHANGED <<key, store, machine, receipt, local, view, todo, good, effects, recorded, crashed>>

\* StateStore::receipts
ReadReceipts(p) ==
    /\ pc[p] = "statuses"
    /\ view' = [view EXCEPT ![p] = receipt]
    /\ todo' = [todo EXCEPT ![p] = {q \in Package : receipt[q] # NoReceipt}]
    /\ Goto(p, "query")
    /\ UNCHANGED <<key, store, machine, receipt, local, exit, due, good, ghost>>

\* Mutant of ReceiptHolds: a receipt that owns no files has none that is missing.
ReceiptHoldsVacuously(q, r) ==
    BackendOf[q] # "installer" => machine[q] # Absent

\* verify_declared_receipt, were everything readable: a package manager shows the
\* recorded version, an owned directory is there; an installer's receipt, which
\* owns no files, is never verified.
ReceiptHolds(q, r) ==
    CASE BackendOf[q] = "native"   -> machine[q] = r.version
      [] BackendOf[q] = "portable" -> machine[q] # Absent
      [] OTHER                     -> FALSE

QueryReceipt(p) ==
    /\ pc[p] = "query"
    /\ \E q \in todo[p] :
          /\ todo' = [todo EXCEPT ![p] = @ \ {q}]
          /\ \/ ReceiptHolds(q, view[p][q]) /\ good' = [good EXCEPT ![p] = @ \cup {q}]
             \/ UNCHANGED good
    /\ UNCHANGED <<key, store, machine, receipt, pc, local, exit, due, view, ghost>>

\* The receipts that name transaction t, among those it loaded.
Naming(p, t) == {q \in Package : view[p][q] # NoReceipt /\ view[p][q].tx = t}
\* Mutant of Verified: without a receipt there is nothing that fails to verify.
VerifiedVacuously(p) == {t \in due[p] : Naming(p, t) \subseteq good[p]}

Verified(p) == {t \in due[p] : Naming(p, t) # {} /\ Naming(p, t) \subseteq good[p]}
Drifted(p) == {q \in Package : view[p][q] # NoReceipt /\ q \notin good[p]}

\* Some transactions are verified and the user consents to record that.
Judge(p) ==
    /\ pc[p] = "query"
    /\ todo[p] = {}
    /\ Verified(p) # {}
    /\ due' = [due EXCEPT ![p] = Verified(p)]
    /\ Goto(p, "mark")
    /\ UNCHANGED <<key, store, machine, receipt, local, exit, view, todo, good, ghost>>

\* Nothing to record, a dry run, or a user who declines.
Report(p) ==
    /\ pc[p] = "query"
    /\ todo[p] = {}
    /\ \/ due[p] = {} /\ Drifted(p) = {} /\ Leave(p, "no_change")
       \/ due[p] \cup Drifted(p) # {} /\ Leave(p, "planned")
       \/ Verified(p) # {} /\ Leave(p, "failed")
    /\ UNCHANGED <<key, store, machine, receipt, ghost>>

\* mark_reconciled, for each verified transaction: it looks at the journal again.
Mark(p) ==
    /\ pc[p] = "mark"
    /\ \E t \in due[p] :
          /\ Required(t)
          /\ AppendEvent(t, "reconciled", NoStep)
          /\ \/ /\ due[p] # {t}
                /\ due' = [due EXCEPT ![p] = @ \ {t}]
                /\ UNCHANGED <<pc, exit, local, view, todo, good>>
             \/ due[p] = {t} /\ Leave(p, "success")
    /\ UNCHANGED <<key, machine, receipt, ghost>>

\* Some other process closed the transaction, or the journal cannot be written.
MarkFails(p) ==
    /\ pc[p] = "mark"
    /\ \E t \in due[p] :
          \/ ~Required(t) /\ UNCHANGED store
          \/ JournalFaults /\ UNCHANGED store
          \/ JournalFaults /\ Required(t) /\ AppendEvent(t, "reconciled", NoStep)
    /\ Leave(p, "failed")
    /\ UNCHANGED <<key, machine, receipt, ghost>>

-----------------------------------------------------------------------------
(* Processes die                                                           *)

Dies(p) ==
    /\ Leave(p, "died")
    /\ crashed' = [t \in TxId |-> crashed[t] \/ (pc[p] \in Executing /\ tx[p] = t)]

Crash(p) ==
    /\ pc[p] # "idle"
    /\ Dies(p)
    /\ UNCHANGED <<key, store, machine, receipt, effects, recorded, touched>>

\* The process dies while a mutation is under way.
CrashInStep(p) ==
    /\ pc[p] = "run"
    /\ Mutates(p)
    /\ MayApply(p)
    /\ \E v \in Outcomes(p) \cup PartialOutcomes(p) : Mutate(p, v)
    /\ Dies(p)
    /\ UNCHANGED <<key, store, receipt, recorded>>

-----------------------------------------------------------------------------

\* Steps the program takes by itself, once it is past its prompts.
Run(p) ==
    \/ RunMutation(p) \/ RunQuery(p) \/ RunDownload(p) \/ RunVerifyArtifact(p)
    \/ RunNoChange(p) \/ StepFails(p)
Execute(p) ==
    \/ StartTransaction(p) \/ StartStep(p) \/ Run(p) \/ RecordStep(p)
    \/ FailStep(p) \/ FailTransaction(p)
    \/ SkipReceipt(p) \/ CommitReceipt(p) \/ ReceiptFails(p) \/ FailReceipts(p)
    \/ RecordReceipts(p) \/ Close(p)
Reconcile(p) ==
    \/ ReadStatuses(p) \/ ReadReceipts(p) \/ QueryReceipt(p) \/ Judge(p) \/ Report(p)
    \/ Mark(p) \/ MarkFails(p)
Prepare(p) == BuildPlan(p) \/ Revalidate(p) \/ Refuse(p) \/ Begin(p)
Fault(p) == JournalFails(p) \/ Crash(p) \/ CrashInStep(p)

Next ==
    \/ \E p \in Proc : Prepare(p) \/ Execute(p) \/ Reconcile(p) \/ Fault(p)

Spec == Init /\ [][Next]_vars

\* The step under way runs commands, of a package manager, of a signature check
\* or of an installer: it waits in run_bounded, which kills its child at the
\* deadline, but then joins the readers of its output, for as long as something
\* the child left behind keeps that open.
Waits(p) ==
    /\ pc[p] = "run"
    /\ \/ Native(Pkg(p)) /\ Kind(p) # "no_change"
       \/ BackendOf[Pkg(p)] = "installer" /\ Kind(p) \in {"verify", "installer"}

\* A process that executes a plan goes on by itself, but while it waits for a
\* command: that one may return or not.  Prompts, users and faults owe nothing.
FairSpec == Spec /\ \A p \in Proc : WF_vars(~Waits(p) /\ Execute(p))

-----------------------------------------------------------------------------
(* Properties                                                              *)

\* Write-ahead: nothing changes the machine before the start of the very step
\* that changes it is in the journal, so that no change is ever unannounced.
WriteAhead ==
    \A e \in effects : [tx |-> e.tx, state |-> "step_started", step |-> e.step] \in journal

OpenUntilRecorded ==
    \A e \in effects :
        \/ Live(e.tx)
        \/ Required(e.tx)
        \/ last[e.tx] = "reconciled"
        \/ <<e.tx, e.pkg>> \in recorded

ExitHonest == \A p \in Proc : exit[p] \in {"failed", "no_change"} => ~touched[p]

\* A machine change is never hidden: its transaction is running, or `siorb
\* reconcile` will show it, or the receipt of the package has been brought up to
\* date, or it was reconciled; and a command that ends as a clean failure, or
\* reports that it changed nothing, has left the machine alone.
NoChangeIsHidden == OpenUntilRecorded /\ ExitHonest

\* A transaction marked reconciled has a receipt for all that it changed.
ReconciledIsRecorded ==
    \A e \in effects : last[e.tx] = "reconciled" => <<e.tx, e.pkg>> \in recorded

\* A process that died inside a transaction left one that is detected later.
InterruptedIsOpen ==
    \A t \in TxId : crashed[t] /\ ~Live(t) => Required(t) \/ last[t] = "reconciled"

\* A native receipt that no longer agrees with the machine is explained by an
\* unfinished transaction that changed the package.
DriftIsOpen ==
    \A q \in Package :
        (/\ BackendOf[q] = "native"
         /\ receipt[q] # NoReceipt
         /\ machine[q] # receipt[q].version)
        => \E e \in effects : e.pkg = q /\ (Live(e.tx) \/ Required(e.tx))

\* `siorb reconcile` reports no change only when no transaction is open and
\* every receipt agrees with the machine.
ReconcileReportIsTrue ==
    [][\A p \in Proc :
          pc[p] = "query" /\ exit'[p] = "no_change" =>
             /\ \A t \in TxId : ~Required(t)
             /\ \A q \in Package : receipt[q] # NoReceipt =>
                   /\ BackendOf[q] # "installer"
                   /\ machine[q] # Absent
                   /\ BackendOf[q] = "native" => machine[q] = receipt[q].version]_vars

\* Invalidating drift aborts: the machine is changed only by a step of a plan
\* whose picture of the receipts is still right.
ChangedOnFreshPlan ==
    [][machine' # machine => \E p \in Proc : pc[p] = "run" /\ plan[p].snap = Installed]_vars

\* Executing a plan ends: each step is started once, and the transaction closed;
\* unless a command never comes back to the process (its output kept open after
\* the kill), when it waits for ever in one and the same step.
ExecutionEnds ==
    \A p \in Proc :
        []<>~Waits(p) => (pc[p] \in Executing ~> pc[p] = "idle")

-----------------------------------------------------------------------------
(* Refinement: what Recovery promises                                      *)

\* Open: running, or to be found by `siorb reconcile`.
Status == [t \in TxId |-> IF last[t] = "none" THEN "none"
                         ELSE IF Live(t) \/ Required(t) THEN "open" ELSE "closed"]
\* Changes of a transaction for which it has touched no receipt.
Owed == [t \in TxId |-> {e.pkg : e \in {f \in effects : f.tx = t /\ <<t, f.pkg>> \notin recorded}}]

Promise == INSTANCE Recovery WITH status <- Status, owed <- Owed
\* With one package in a plan and no partial backend failure, commands, crashes
\* and reconciliations are steps of Recovery.
KeepsPromise == Promise!Spec
=============================================================================
