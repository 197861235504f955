--------------------------- MODULE ExecutorProofs ---------------------------
(***************************************************************************)
(* Theorems about Executor, for any number of processes, packages,         *)
(* transactions and versions.                                              *)
(***************************************************************************)
EXTENDS Executor, SequenceTheorems, TLAPS

USE DEF TxId

-----------------------------------------------------------------------------
(* Plans                                                                   *)

LEMMA PackageListIsSeq ==
    ASSUME NEW s \in PackageList
    PROVE  /\ Len(s) \in 1..MaxPackages
           /\ 1 \in 1..Len(s)
           /\ DOMAIN s = 1..Len(s)
           /\ \A i \in 1..Len(s) : s[i] \in Package
<1>1. PICK n \in 1..MaxPackages : s \in [1..n -> Package]
  BY DEF PackageList
<1>2. n \in Nat /\ MaxPackages \in Nat
  BY <1>1, MaxPackagesAssumption
<1>3. s \in Seq(Package)
  BY <1>1, <1>2, SeqDef
<1>4. DOMAIN s = 1..n
  BY <1>1
<1>5. Len(s) \in Nat /\ DOMAIN s = 1..Len(s)
  BY <1>3, LenProperties
<1>6. Len(s) = n /\ 1 \in 1..n
  BY <1>1, <1>2, <1>4, <1>5
<1> QED
  BY <1>1, <1>5, <1>6

\* Every package of a plan has one, two or three steps, each of a known kind.
LEMMA StepsAreTyped ==
    ASSUME NEW pl \in PlanType, NEW q \in Package
    PROVE  /\ Len(StepsFor(pl, q)) \in 1..3
           /\ 1 \in 1..Len(StepsFor(pl, q))
           /\ DOMAIN StepsFor(pl, q) = 1..Len(StepsFor(pl, q))
           /\ \A i \in 1..Len(StepsFor(pl, q)) : StepsFor(pl, q)[i] \in StepKind
<1> DEFINE steps == StepsFor(pl, q)
<1>1. \/ \E x \in StepKind : steps = <<x>>
      \/ \E x, y \in StepKind : steps = <<x, y>>
      \/ \E x, y, z \in StepKind : steps = <<x, y, z>>
  <2>1. CASE NothingToDo(pl, q)
    BY <2>1 DEF StepsFor, StepKind
  <2>2. CASE ~NothingToDo(pl, q) /\ BackendOf[q] = "native"
    BY <2>2 DEF StepsFor, PlannedSteps, NativeSteps, StepKind
  <2>3. CASE ~NothingToDo(pl, q) /\ BackendOf[q] # "native"
    BY <2>3 DEF StepsFor, PlannedSteps, ArtifactSteps, StepKind
  <2> QED
    BY <2>1, <2>2, <2>3
<1>2. ASSUME NEW x \in StepKind, steps = <<x>>
      PROVE  Len(steps) = 1 /\ DOMAIN steps = 1..1 /\ steps[1] \in StepKind
  BY <1>2
<1>3. ASSUME NEW x \in StepKind, NEW y \in StepKind, steps = <<x, y>>
      PROVE  Len(steps) = 2 /\ DOMAIN steps = 1..2 /\ \A i \in 1..2 : steps[i] \in StepKind
  BY <1>3
<1>4. ASSUME NEW x \in StepKind, NEW y \in StepKind, NEW z \in StepKind, steps = <<x, y, z>>
      PROVE  Len(steps) = 3 /\ DOMAIN steps = 1..3 /\ \A i \in 1..3 : steps[i] \in StepKind
  BY <1>4
<1> HIDE DEF steps
<1>5. Len(steps) \in 1..3 /\ 1 \in 1..Len(steps) /\ DOMAIN steps = 1..Len(steps)
       /\ \A i \in 1..Len(steps) : steps[i] \in StepKind
  BY <1>1, <1>2, <1>3, <1>4
<1> QED
  BY <1>5 DEF steps

\* The executor refuses no plan of the planner for lack of verification: after
\* the last native mutation of a package there always is a query.
THEOREM PlannedMutationIsQueried ==
    ASSUME NEW pl \in PlanType, NEW q \in Package
    PROVE  MutationIsQueried(pl, q)
<1>1. CASE NothingToDo(pl, q)
  BY <1>1 DEF MutationIsQueried, RequiresReceiptCommit, CommitsMachineState, StepsFor
<1>2. CASE ~NothingToDo(pl, q) /\ BackendOf[q] = "native"
  BY <1>2 DEF MutationIsQueried, RequiresReceiptCommit, CommitsMachineState, StepsFor,
              PlannedSteps, NativeSteps
<1>3. CASE BackendOf[q] # "native"
  BY <1>3 DEF MutationIsQueried
<1> QED
  BY <1>1, <1>2, <1>3

-----------------------------------------------------------------------------
(* Type correctness                                                        *)

Planning == {"planned", "ready", "begin"} \cup Executing
Stepping == {"step", "run", "ran", "failed"}

\* A process that executes is at a step, or a package, that its plan has.
InPlan(p) ==
    /\ pc[p] \in Planning => plan[p] \in PlanType
    /\ pc[p] \in Executing => k[p] \in 1..Len(plan[p].pkgs)
    /\ pc[p] \in Stepping => j[p] \in 1..Len(Steps(p))
    /\ pc[p] \notin Executing => k[p] = 1
    /\ pc[p] \notin Stepping \cup {"failing"} => j[p] = 1

TypeInv == TypeOK /\ \A p \in Proc : InPlan(p)

LEMMA MaxPackagesIsPositive == MaxPackages \in Nat /\ 1 \in 1..MaxPackages
BY MaxPackagesAssumption

LEMMA NextPosition ==
    \A m \in Nat : \A n \in 1..m : \A i \in 1..n : i < n => i + 1 \in 1..n /\ i + 1 \in 1..m
OBVIOUS

LEMMA UpdatedSet ==
    ASSUME NEW D, NEW S, NEW f \in [D -> SUBSET S], NEW d \in D, NEW X \in SUBSET S
    PROVE  [f EXCEPT ![d] = X] \in [D -> SUBSET S]
OBVIOUS

LEMMA MaxTxIsPositive == MaxTx \in Nat /\ 1 \in 1..MaxTx
BY BoundsAssumption

\* What a process at work may rely on.
LEMMA PlanFacts ==
    ASSUME TypeInv, NEW p \in Proc, pc[p] \in Executing
    PROVE  /\ plan[p] \in PlanType
           /\ Op(p) \in Operation
           /\ Pkg(p) \in Package
           /\ Len(plan[p].pkgs) \in 1..MaxPackages
           /\ Len(Steps(p)) \in 1..3
           /\ StepOf(p) \in StepId
           /\ pc[p] \in Stepping => Kind(p) \in StepKind
<1>1. plan[p] \in PlanType /\ k[p] \in 1..Len(plan[p].pkgs)
  BY DEF TypeInv, InPlan, Planning
<1>2. plan[p].pkgs \in PackageList /\ plan[p].op \in Operation
  BY <1>1 DEF PlanType
<1>3. Pkg(p) \in Package /\ Len(plan[p].pkgs) \in 1..MaxPackages
  BY <1>1, <1>2, PackageListIsSeq DEF Pkg
<1>4. Len(Steps(p)) \in 1..3 /\ \A i \in 1..Len(Steps(p)) : Steps(p)[i] \in StepKind
  BY <1>1, <1>3, StepsAreTyped DEF Steps
<1>5. StepOf(p) \in StepId
  BY DEF TypeInv, TypeOK, CommandTyped, StepOf, StepId
<1>6. pc[p] \in Stepping => Kind(p) \in StepKind
  BY <1>4 DEF TypeInv, InPlan, Kind
<1> QED
  BY <1>1, <1>2, <1>3, <1>4, <1>5, <1>6 DEF Op

\* A process that another one's step leaves alone stays in its plan.
LEMMA InPlanFrame ==
    ASSUME NEW r \in Proc, InPlan(r),
           pc'[r] = pc[r], plan'[r] = plan[r], k'[r] = k[r], j'[r] = j[r]
    PROVE  InPlan(r)'
BY DEF InPlan, Steps, Pkg

LEMMA LeaveTyped ==
    ASSUME CommandTyped, ReconTyped, NEW p \in Proc,
           NEW how \in {"success", "no_change", "planned", "failed", "partial", "died"},
           Leave(p, how)
    PROVE  CommandTyped' /\ ReconTyped'
<1>1. CommandTyped'
  BY MaxPackagesIsPositive, MaxTxIsPositive DEF CommandTyped, Leave, Goto, PC
<1>2. ReconTyped'
  BY DEF ReconTyped, Leave
<1> QED
  BY <1>1, <1>2

LEMMA LeaveInPlan ==
    ASSUME TypeInv, NEW p \in Proc, NEW how, Leave(p, how)
    PROVE  \A r \in Proc : InPlan(r)'
<1> SUFFICES ASSUME NEW r \in Proc
             PROVE  InPlan(r)'
  OBVIOUS
<1> USE DEF TypeInv, TypeOK, CommandTyped
<1>1. CASE r = p
  <2>1. pc'[p] = "idle" /\ k'[p] = 1 /\ j'[p] = 1
    BY DEF Leave, Goto
  <2> QED
    BY <1>1, <2>1 DEF InPlan, Planning, Executing, Stepping
<1>2. CASE r # p
  <2>1. pc'[r] = pc[r] /\ plan'[r] = plan[r] /\ k'[r] = k[r] /\ j'[r] = j[r]
    BY <1>2 DEF Leave, Goto
  <2> QED
    BY <2>1, InPlanFrame
<1> QED
  BY <1>1, <1>2

LEMMA EventTyped ==
    ASSUME StoreTyped, NEW t \in TxId, NEW state \in JournalState,
           NEW step \in StepId \cup {NoStep}, AppendEvent(t, state, step)
    PROVE  /\ journal' \subseteq Event
           /\ last' \in [TxId -> JournalState \cup {"none"}]
BY DEF StoreTyped, AppendEvent, Event

LEMMA WriteTyped ==
    ASSUME TypeInv, NEW p \in Proc, pc[p] \in Journaling, Write(p)
    PROVE  /\ journal' \subseteq Event
           /\ last' \in [TxId -> JournalState \cup {"none"}]
<1>1. CASE pc[p] = "begin"
  BY <1>1, EventTyped DEF TypeInv, TypeOK, CommandTyped, Write, Pending, JournalState
<1>2. CASE pc[p] # "begin"
  <2>1. StepOf(p) \in StepId
    BY <1>2, PlanFacts DEF Journaling, Executing
  <2>2. Pending(p)[1] \in JournalState /\ Pending(p)[2] \in StepId \cup {NoStep}
    BY <1>2, <2>1 DEF Journaling, Pending, CompletionState, JournalState
  <2> QED
    BY <2>2, EventTyped DEF TypeInv, TypeOK, CommandTyped, Write
<1> QED
  BY <1>1, <1>2

-----------------------------------------------------------------------------
(* Every step keeps the types                                              *)

LEMMA InitTyped == Init => TypeInv
<1> SUFFICES ASSUME Init
             PROVE  TypeInv
  OBVIOUS
<1> USE DEF Init
<1>1. StoreTyped
  BY DEF StoreTyped
<1>2. CommandTyped
  BY MaxPackagesIsPositive, MaxTxIsPositive DEF CommandTyped, PC
<1>3. ReconTyped
  BY DEF ReconTyped
<1>4. HistoryTyped
  BY DEF HistoryTyped
<1>5. \A p \in Proc : InPlan(p)
  BY DEF InPlan, Planning, Executing, Stepping
<1> QED
  BY <1>1, <1>2, <1>3, <1>4, <1>5 DEF TypeInv, TypeOK

\* A command that ends without an event, or with one.
LEMMA LeaveKeepsTypes ==
    ASSUME TypeInv, NEW p \in Proc,
           NEW how \in {"success", "no_change", "planned", "failed", "partial", "died"},
           Leave(p, how), StoreTyped', HistoryTyped'
    PROVE  TypeInv'
<1>1. CommandTyped' /\ ReconTyped'
  BY LeaveTyped DEF TypeInv, TypeOK
<1>2. \A r \in Proc : InPlan(r)'
  BY LeaveInPlan
<1> QED
  BY <1>1, <1>2 DEF TypeInv, TypeOK

\* A process that writes an event and stays inside Executor::execute.
LEMMA WriteKeepsStore ==
    ASSUME TypeInv, NEW p \in Proc, pc[p] \in Journaling, Write(p),
           UNCHANGED <<key, machine, receipt>>
    PROVE  StoreTyped'
BY WriteTyped DEF TypeInv, TypeOK, StoreTyped

\* A process that moves inside Executor::execute, with nothing else of it changing.
LEMMA GotoKeepsTypes ==
    ASSUME TypeInv, NEW p \in Proc, NEW there, Goto(p, there),
           \/ pc[p] \in Stepping /\ there \in Stepping \cup {"failing"}
           \/ pc[p] = "begin" /\ there \in Stepping
           \/ pc[p] = "planned" /\ there = "ready"
           \/ pc[p] = "receipts" /\ there = "unwritten"
           \/ pc[p] = "commit" /\ there = "closing",
           UNCHANGED <<plan, k, j>>
    PROVE  /\ pc' \in [Proc -> PC]
           /\ \A r \in Proc : InPlan(r)'
<1>1. pc' = [pc EXCEPT ![p] = there] /\ pc \in [Proc -> PC] /\ there \in PC
  BY DEF Goto, TypeInv, TypeOK, CommandTyped, PC, Executing, Stepping
<1>2. \A r \in Proc : r # p => InPlan(r)'
  BY <1>1, InPlanFrame DEF TypeInv
<1>3. pc'[p] = there /\ plan'[p] = plan[p] /\ k'[p] = k[p] /\ j'[p] = j[p]
  BY <1>1
<1>4. Steps(p)' = Steps(p)
  BY <1>3 DEF Steps, Pkg
<1>5. InPlan(p)
  BY DEF TypeInv
<1>6. InPlan(p)'
  <2>1. CASE pc[p] = "begin"
    <3>1. plan[p] \in PlanType /\ k[p] = 1 /\ j[p] = 1
      BY <1>5, <2>1 DEF InPlan, Planning, Executing, Stepping
    <3>2. plan[p].pkgs[1] \in Package /\ 1 \in 1..Len(plan[p].pkgs)
      BY <3>1, PackageListIsSeq DEF PlanType
    <3>3. 1 \in 1..Len(Steps(p))
      BY <3>1, <3>2, StepsAreTyped DEF Steps, Pkg
    <3> QED
      BY <1>3, <1>4, <2>1, <3>1, <3>2, <3>3 DEF InPlan, Planning, Executing, Stepping
  <2>2. CASE pc[p] # "begin"
    BY <1>3, <1>4, <1>5, <2>2 DEF InPlan, Planning, Executing, Stepping
  <2> QED
    BY <2>1, <2>2
<1> QED
  BY <1>1, <1>2, <1>6

LEMMA PrepareKeepsTypes ==
    ASSUME TypeInv, NEW p \in Proc, Prepare(p)
    PROVE  TypeInv'
<1> USE DEF TypeInv, TypeOK
<1>1. CASE BuildPlan(p)
  <2> USE <1>1 DEF BuildPlan, Goto
  <2>1. Installed \in Snapshot
    BY DEF Installed, Snapshot, StoreTyped, Receipt
  <2>2. PICK pl \in PlanType : plan' = [plan EXCEPT ![p] = pl]
    BY <2>1, OperationsAssumption DEF PlanType
  <2>3. StoreTyped' /\ ReconTyped' /\ HistoryTyped'
    BY DEF StoreTyped, ReconTyped, recon, store, HistoryTyped
  <2>4. CommandTyped'
    BY <2>2 DEF CommandTyped, PC
  <2>5. InPlan(p)'
    BY <2>2 DEF InPlan, Planning, Executing, Stepping, CommandTyped
  <2>6. \A r \in Proc : r # p => InPlan(r)'
    BY InPlanFrame DEF CommandTyped
  <2> QED
    BY <2>3, <2>4, <2>5, <2>6
<1>2. CASE Revalidate(p)
  <2>1. pc' \in [Proc -> PC] /\ \A r \in Proc : InPlan(r)'
    BY <1>2, GotoKeepsTypes DEF Revalidate, local
  <2> QED
    BY <1>2, <2>1 DEF Revalidate, store, local, recon, ghost,
                      StoreTyped, CommandTyped, ReconTyped, HistoryTyped
<1>3. CASE Refuse(p)
  <2>1. StoreTyped' /\ HistoryTyped'
    BY <1>3 DEF Refuse, store, ghost, StoreTyped, HistoryTyped
  <2> QED
    BY <1>3, <2>1, LeaveKeepsTypes DEF Refuse
<1>4. CASE Begin(p)
  <2> USE <1>4 DEF Begin, Goto
  <2>1. plan[p] \in PlanType
    BY DEF InPlan, Planning
  <2>2. PICK ids \in KeysNow, t \in TxId :
            /\ tx' = [tx EXCEPT ![p] = t]
            /\ key' = [ids EXCEPT ![t] = IF SameSecond THEN plan[p] ELSE Spent]
    OBVIOUS
  <2>3. StoreTyped'
    <3>1. ids \in [TxId -> PlanType \cup {Unused, Spent}]
      BY <2>2 DEF KeysNow, LaterSecond, StoreTyped
    <3> QED
      BY <2>1, <2>2, <3>1 DEF StoreTyped, store
  <2>4. CommandTyped'
    BY <2>2 DEF CommandTyped, PC
  <2>5. ReconTyped' /\ HistoryTyped'
    BY DEF ReconTyped, recon, HistoryTyped, ghost
  <2>6. InPlan(p)'
    BY DEF InPlan, Planning, Executing, Stepping, CommandTyped
  <2>7. \A r \in Proc : r # p => InPlan(r)'
    BY InPlanFrame DEF CommandTyped
  <2> QED
    BY <2>3, <2>4, <2>5, <2>6, <2>7
<1> QED
  BY <1>1, <1>2, <1>3, <1>4 DEF Prepare

LEMMA JournalKeepsTypes ==
    ASSUME TypeInv, NEW p \in Proc,
           \/ StartTransaction(p) \/ StartStep(p) \/ RecordStep(p) \/ FailStep(p)
           \/ FailTransaction(p) \/ FailReceipts(p) \/ RecordReceipts(p) \/ Close(p)
           \/ JournalFails(p)
    PROVE  TypeInv'
<1> USE DEF TypeInv, TypeOK
<1>1. CASE StartTransaction(p)
  <2>1. StoreTyped'
    BY <1>1, WriteKeepsStore DEF StartTransaction, Journaling
  <2>2. pc' \in [Proc -> PC] /\ \A r \in Proc : InPlan(r)'
    BY <1>1, GotoKeepsTypes DEF StartTransaction, local, Stepping
  <2> QED
    BY <1>1, <2>1, <2>2 DEF StartTransaction, local, recon, ghost, CommandTyped, ReconTyped, HistoryTyped
<1>2. CASE StartStep(p)
  <2>1. StoreTyped'
    BY <1>2, WriteKeepsStore DEF StartStep, Journaling
  <2>2. pc' \in [Proc -> PC] /\ \A r \in Proc : InPlan(r)'
    BY <1>2, GotoKeepsTypes DEF StartStep, local, Stepping
  <2> QED
    BY <1>2, <2>1, <2>2 DEF StartStep, local, recon, ghost, CommandTyped, ReconTyped, HistoryTyped
<1>3. CASE FailStep(p)
  <2>1. StoreTyped'
    BY <1>3, WriteKeepsStore DEF FailStep, Journaling
  <2>2. pc' \in [Proc -> PC] /\ \A r \in Proc : InPlan(r)'
    BY <1>3, GotoKeepsTypes DEF FailStep, local, Stepping
  <2> QED
    BY <1>3, <2>1, <2>2 DEF FailStep, local, recon, ghost, CommandTyped, ReconTyped, HistoryTyped
<1>4. CASE RecordReceipts(p)
  <2>1. StoreTyped'
    BY <1>4, WriteKeepsStore DEF RecordReceipts, Journaling
  <2>2. pc' \in [Proc -> PC] /\ \A r \in Proc : InPlan(r)'
    BY <1>4, GotoKeepsTypes DEF RecordReceipts, local, Stepping
  <2> QED
    BY <1>4, <2>1, <2>2 DEF RecordReceipts, local, recon, ghost, CommandTyped, ReconTyped, HistoryTyped
<1>5. CASE FailTransaction(p)
  <2>1. StoreTyped' /\ HistoryTyped'
    BY <1>5, WriteKeepsStore DEF FailTransaction, Journaling, ghost, HistoryTyped
  <2> QED
    BY <1>5, <2>1, LeaveKeepsTypes DEF FailTransaction
<1>6. CASE FailReceipts(p)
  <2>1. StoreTyped' /\ HistoryTyped'
    BY <1>6, WriteKeepsStore DEF FailReceipts, Journaling, ghost, HistoryTyped
  <2> QED
    BY <1>6, <2>1, LeaveKeepsTypes DEF FailReceipts
<1>7. CASE Close(p)
  <2>1. StoreTyped' /\ HistoryTyped'
    BY <1>7, WriteKeepsStore DEF Close, Journaling, ghost, HistoryTyped
  <2> QED
    BY <1>7, <2>1, LeaveKeepsTypes DEF Close
<1>8. CASE JournalFails(p)
  <2>1. StoreTyped' /\ HistoryTyped'
    BY <1>8, WriteKeepsStore DEF JournalFails, store, ghost, StoreTyped, HistoryTyped
  <2> QED
    BY <1>8, <2>1, LeaveKeepsTypes DEF JournalFails
<1>9. CASE RecordStep(p)
  <2> USE <1>9 DEF RecordStep, Goto
  <2>1. StoreTyped'
    BY WriteKeepsStore DEF Journaling
  <2>2. ReconTyped' /\ HistoryTyped'
    BY DEF recon, ghost, ReconTyped, HistoryTyped
  <2>3. /\ plan[p] \in PlanType
        /\ Len(plan[p].pkgs) \in 1..MaxPackages
        /\ Len(Steps(p)) \in 1..3
        /\ k[p] \in 1..Len(plan[p].pkgs)
        /\ j[p] \in 1..Len(Steps(p))
    BY PlanFacts DEF InPlan, Executing, Stepping
  <2>4. MaxPackages \in Nat
    BY MaxPackagesIsPositive
  <2>5. CASE j[p] < Len(Steps(p))
    <3>1. /\ j' = [j EXCEPT ![p] = j[p] + 1] /\ k' = k
          /\ pc' = [pc EXCEPT ![p] = "step"]
      BY <2>5 DEF Advance
    <3>2. j[p] + 1 \in 1..Len(Steps(p)) /\ j[p] + 1 \in 1..3
      BY <2>3, <2>5, NextPosition
    <3>3. CommandTyped'
      BY <3>1, <3>2 DEF CommandTyped, PC, Executing
    <3>4. Steps(p)' = Steps(p)
      BY <3>1 DEF Steps, Pkg
    <3>5. InPlan(p)'
      BY <2>3, <3>1, <3>2, <3>4 DEF InPlan, Planning, Executing, Stepping, CommandTyped
    <3>6. \A r \in Proc : r # p => InPlan(r)'
      BY <3>1, InPlanFrame DEF CommandTyped
    <3> QED
      BY <2>1, <2>2, <3>3, <3>5, <3>6
  <2>6. CASE j[p] = Len(Steps(p)) /\ k[p] < Len(plan[p].pkgs)
    <3>1. /\ j' = [j EXCEPT ![p] = 1] /\ k' = [k EXCEPT ![p] = k[p] + 1]
          /\ pc' = [pc EXCEPT ![p] = "step"]
      BY <2>6 DEF Advance
    <3>2. k[p] + 1 \in 1..Len(plan[p].pkgs) /\ k[p] + 1 \in 1..MaxPackages
      BY <2>3, <2>4, <2>6, NextPosition
    <3>3. CommandTyped'
      BY <3>1, <3>2 DEF CommandTyped, PC, Executing
    <3>4. plan[p].pkgs[k[p] + 1] \in Package
      BY <2>3, <3>2, PackageListIsSeq DEF PlanType
    <3>5. 1 \in 1..Len(Steps(p)')
      <4>1. plan'[p] = plan[p] /\ k'[p] = k[p] + 1
        BY <3>1 DEF CommandTyped
      <4>2. Steps(p)' = StepsFor(plan[p], plan[p].pkgs[k[p] + 1])
        BY <4>1 DEF Steps, Pkg
      <4> QED
        BY <2>3, <3>4, <4>2, StepsAreTyped
    <3>6. InPlan(p)'
      BY <2>3, <3>1, <3>2, <3>5 DEF InPlan, Planning, Executing, Stepping, CommandTyped
    <3>7. \A r \in Proc : r # p => InPlan(r)'
      BY <3>1, InPlanFrame DEF CommandTyped
    <3> QED
      BY <2>1, <2>2, <3>3, <3>6, <3>7
  <2>7. CASE j[p] = Len(Steps(p)) /\ ~(k[p] < Len(plan[p].pkgs))
    <3>1. /\ j' = [j EXCEPT ![p] = 1] /\ k' = [k EXCEPT ![p] = 1]
          /\ pc' = [pc EXCEPT ![p] = "receipts"]
      BY <2>7 DEF Advance
    <3>2. 1 \in 1..Len(plan[p].pkgs)
      BY <2>3, PackageListIsSeq DEF PlanType
    <3>3. CommandTyped'
      BY <3>1, MaxPackagesIsPositive DEF CommandTyped, PC, Executing
    <3>4. InPlan(p)'
      BY <2>3, <3>1, <3>2 DEF InPlan, Planning, Executing, Stepping, CommandTyped
    <3>5. \A r \in Proc : r # p => InPlan(r)'
      BY <3>1, InPlanFrame DEF CommandTyped
    <3> QED
      BY <2>1, <2>2, <3>3, <3>4, <3>5
  <2> QED
    BY <2>5, <2>6, <2>7 DEF Advance
<1> QED
  BY <1>1, <1>2, <1>3, <1>4, <1>5, <1>6, <1>7, <1>8, <1>9

\* A mutation leaves a version or nothing, and is credited to a step of the plan.
LEMMA MutateTyped ==
    ASSUME TypeInv, NEW p \in Proc, pc[p] \in Executing, UNCHANGED <<key, store, receipt, recorded>>,
           NEW v \in Outcomes(p) \cup PartialOutcomes(p), Mutate(p, v),
           crashed' \in [TxId -> BOOLEAN]
    PROVE  StoreTyped' /\ HistoryTyped'
<1> USE DEF TypeInv, TypeOK
<1>1. Pkg(p) \in Package /\ StepOf(p) \in StepId /\ tx[p] \in TxId
  BY PlanFacts DEF CommandTyped
<1>2. v \in Version \cup {Absent}
  BY <1>1 DEF Outcomes, PartialOutcomes, StoreTyped
<1>3. StoreTyped'
  BY <1>1, <1>2 DEF Mutate, StoreTyped, store
<1>4. effects' \subseteq Effect
  BY <1>1 DEF Mutate, HistoryTyped, Effect
<1>5. touched' \in [Proc -> BOOLEAN]
  BY DEF Mutate, HistoryTyped
<1> QED
  BY <1>3, <1>4, <1>5 DEF HistoryTyped

LEMMA RunKeepsTypes ==
    ASSUME TypeInv, NEW p \in Proc, Run(p)
    PROVE  TypeInv'
<1> USE DEF TypeInv, TypeOK
<1>1. CASE RunMutation(p)
  <2>1. PICK v \in Outcomes(p) \cup PartialOutcomes(p), there \in {"ran", "failed"} :
           Mutate(p, v) /\ Goto(p, there)
    BY <1>1 DEF RunMutation
  <2>2. StoreTyped' /\ HistoryTyped'
    BY <1>1, <2>1, MutateTyped DEF RunMutation, Executing, HistoryTyped
  <2>3. pc' \in [Proc -> PC] /\ \A r \in Proc : InPlan(r)'
    BY <1>1, <2>1, GotoKeepsTypes DEF RunMutation, local, Stepping
  <2> QED
    BY <1>1, <2>2, <2>3 DEF RunMutation, local, recon, CommandTyped, ReconTyped
<1>2. CASE RunQuery(p)
  <2>1. pc' \in [Proc -> PC] /\ \A r \in Proc : InPlan(r)'
    BY <1>2, GotoKeepsTypes DEF RunQuery, local, Stepping
  <2>2. Pkg(p) \in Package
    BY <1>2, PlanFacts DEF RunQuery, Executing
  <2>3. Observations(p) \subseteq Version \cup {Absent, Unversioned}
    <3> DEFINE v == machine[Pkg(p)]
    <3>1. v \in Version \cup {Absent}
      BY <2>2 DEF StoreTyped
    <3>2. Observations(p) \subseteq {v, Unversioned}
      BY DEF Observations
    <3> QED
      BY <3>1, <3>2
  <2>4. seen' \in [Proc -> [Package -> Version \cup {Absent, Unversioned, NotSeen}]]
    BY <1>2, <2>2, <2>3 DEF RunQuery, CommandTyped
  <2> QED
    BY <1>2, <2>1, <2>4 DEF RunQuery, store, local, recon, ghost,
       StoreTyped, CommandTyped, ReconTyped, HistoryTyped
<1>3. CASE RunDownload(p)
  <2>1. pc' \in [Proc -> PC] /\ \A r \in Proc : InPlan(r)'
    BY <1>3, GotoKeepsTypes DEF RunDownload, local, Stepping
  <2>2. Pkg(p) \in Package
    BY <1>3, PlanFacts DEF RunDownload, Executing
  <2> QED
    BY <1>3, <2>1, <2>2 DEF RunDownload, store, local, recon, ghost,
       StoreTyped, CommandTyped, ReconTyped, HistoryTyped
<1>4. CASE RunVerifyArtifact(p)
  <2>1. pc' \in [Proc -> PC] /\ \A r \in Proc : InPlan(r)'
    BY <1>4, GotoKeepsTypes DEF RunVerifyArtifact, local, Stepping
  <2>2. Pkg(p) \in Package
    BY <1>4, PlanFacts DEF RunVerifyArtifact, Executing
  <2> QED
    BY <1>4, <2>1, <2>2 DEF RunVerifyArtifact, store, local, recon, ghost,
       StoreTyped, CommandTyped, ReconTyped, HistoryTyped
<1>5. CASE RunNoChange(p)
  <2>1. pc' \in [Proc -> PC] /\ \A r \in Proc : InPlan(r)'
    BY <1>5, GotoKeepsTypes DEF RunNoChange, local, Stepping
  <2>2. Pkg(p) \in Package
    BY <1>5, PlanFacts DEF RunNoChange, Executing
  <2> QED
    BY <1>5, <2>1, <2>2 DEF RunNoChange, store, local, recon, ghost,
       StoreTyped, CommandTyped, ReconTyped, HistoryTyped
<1>6. CASE StepFails(p)
  <2>1. pc' \in [Proc -> PC] /\ \A r \in Proc : InPlan(r)'
    BY <1>6, GotoKeepsTypes DEF StepFails, local, Stepping
  <2>2. Pkg(p) \in Package
    BY <1>6, PlanFacts DEF StepFails, Executing
  <2> QED
    BY <1>6, <2>1, <2>2 DEF StepFails, store, local, recon, ghost,
       StoreTyped, CommandTyped, ReconTyped, HistoryTyped
<1> QED
  BY <1>1, <1>2, <1>3, <1>4, <1>5, <1>6 DEF Run

\* Going on to the next receipt.
LEMMA NextReceiptTyped ==
    ASSUME TypeInv, NEW p \in Proc, pc[p] = "receipts", NEW w \in BOOLEAN, NextReceipt(p, w),
           UNCHANGED <<plan, j>>
    PROVE  /\ pc' \in [Proc -> PC]
           /\ k' \in [Proc -> 1..MaxPackages]
           /\ wrote' \in [Proc -> BOOLEAN]
           /\ \A r \in Proc : InPlan(r)'
<1> USE DEF TypeInv, TypeOK, CommandTyped, NextReceipt, Goto
<1>1. /\ plan[p] \in PlanType
      /\ Len(plan[p].pkgs) \in 1..MaxPackages
      /\ k[p] \in 1..Len(plan[p].pkgs)
      /\ j[p] = 1
  BY PlanFacts DEF InPlan, Executing, Stepping
<1>2. MaxPackages \in Nat /\ 1 \in 1..MaxPackages
  BY MaxPackagesIsPositive
<1>3. wrote' \in [Proc -> BOOLEAN]
  OBVIOUS
<1>4. CASE k[p] < Len(plan[p].pkgs)
  <2>1. k' = [k EXCEPT ![p] = k[p] + 1] /\ pc' = pc
    BY <1>4
  <2>2. k[p] + 1 \in 1..Len(plan[p].pkgs) /\ k[p] + 1 \in 1..MaxPackages
    BY <1>1, <1>2, <1>4, NextPosition
  <2>3. k' \in [Proc -> 1..MaxPackages]
    BY <2>1, <2>2
  <2>4. InPlan(p)'
    BY <1>1, <2>1, <2>2 DEF InPlan, Planning, Executing, Stepping
  <2>5. \A r \in Proc : r # p => InPlan(r)'
    BY <2>1, InPlanFrame
  <2> QED
    BY <1>3, <2>1, <2>3, <2>4, <2>5
<1>5. CASE ~(k[p] < Len(plan[p].pkgs))
  <2>1. PICK there \in {"commit", "closing"} :
           k' = [k EXCEPT ![p] = 1] /\ pc' = [pc EXCEPT ![p] = there]
    BY <1>5
  <2>2. 1 \in 1..Len(plan[p].pkgs)
    BY <1>1, PackageListIsSeq DEF PlanType
  <2>3. k' \in [Proc -> 1..MaxPackages] /\ pc' \in [Proc -> PC]
    BY <1>2, <2>1 DEF PC, Executing
  <2>4. InPlan(p)'
    BY <1>1, <2>1, <2>2 DEF InPlan, Planning, Executing, Stepping
  <2>5. \A r \in Proc : r # p => InPlan(r)'
    BY <2>1, InPlanFrame
  <2> QED
    BY <1>3, <2>3, <2>4, <2>5
<1> QED
  BY <1>4, <1>5

LEMMA SaveReceiptTyped ==
    ASSUME TypeInv, NEW p \in Proc, pc[p] = "receipts", Confirmed(p), SaveReceipt(p)
    PROVE  /\ receipt' \in [Package -> Receipt \cup {NoReceipt}]
           /\ recorded' \subseteq TxId \X Package
<1> USE DEF TypeInv, TypeOK
<1>1. Pkg(p) \in Package /\ tx[p] \in TxId
  BY PlanFacts DEF Executing, CommandTyped
<1>2. ReceiptFor(p) \in Receipt \cup {NoReceipt}
  <2>1. CASE Op(p) = "remove"
    BY <2>1 DEF ReceiptFor
  <2>2. CASE Op(p) # "remove" /\ Native(Pkg(p))
    <3>1. seen[p][Pkg(p)] \in Version
      BY <2>2 DEF Confirmed
    <3> QED
      BY <1>1, <2>2, <3>1 DEF ReceiptFor, Receipt
  <2>3. CASE Op(p) # "remove" /\ ~Native(Pkg(p))
    BY <1>1, <2>3 DEF ReceiptFor, Receipt
  <2> QED
    BY <2>1, <2>2, <2>3
<1> QED
  BY <1>1, <1>2 DEF SaveReceipt, StoreTyped, HistoryTyped

LEMMA ReceiptsKeepTypes ==
    ASSUME TypeInv, NEW p \in Proc, SkipReceipt(p) \/ CommitReceipt(p) \/ ReceiptFails(p)
    PROVE  TypeInv'
<1> USE DEF TypeInv, TypeOK
<1>1. CASE SkipReceipt(p)
  <2>1. wrote[p] \in BOOLEAN
    BY DEF CommandTyped
  <2>2. /\ pc' \in [Proc -> PC] /\ k' \in [Proc -> 1..MaxPackages]
        /\ wrote' \in [Proc -> BOOLEAN] /\ \A r \in Proc : InPlan(r)'
    BY <1>1, <2>1, NextReceiptTyped DEF SkipReceipt
  <2> QED
    BY <1>1, <2>2 DEF SkipReceipt, store, recon, ghost,
                      StoreTyped, CommandTyped, ReconTyped, HistoryTyped
<1>2. CASE CommitReceipt(p)
  <2>1. /\ pc' \in [Proc -> PC] /\ k' \in [Proc -> 1..MaxPackages]
        /\ wrote' \in [Proc -> BOOLEAN] /\ \A r \in Proc : InPlan(r)'
    BY <1>2, NextReceiptTyped DEF CommitReceipt
  <2>2. /\ receipt' \in [Package -> Receipt \cup {NoReceipt}]
        /\ recorded' \subseteq TxId \X Package
    BY <1>2, SaveReceiptTyped DEF CommitReceipt
  <2> QED
    BY <1>2, <2>1, <2>2 DEF CommitReceipt, store, recon,
                            StoreTyped, CommandTyped, ReconTyped, HistoryTyped
<1>3. CASE ReceiptFails(p)
  <2>1. pc' \in [Proc -> PC] /\ \A r \in Proc : InPlan(r)'
    BY <1>3, GotoKeepsTypes DEF ReceiptFails, local
  <2>2. /\ receipt' \in [Package -> Receipt \cup {NoReceipt}]
        /\ recorded' \subseteq TxId \X Package
    BY <1>3, SaveReceiptTyped DEF ReceiptFails, StoreTyped, HistoryTyped
  <2> QED
    BY <1>3, <2>1, <2>2 DEF ReceiptFails, store, local, recon,
                            StoreTyped, CommandTyped, ReconTyped, HistoryTyped
<1> QED
  BY <1>1, <1>2, <1>3

\* A process that moves between control points of handle_reconcile.
LEMMA ReconcilingInPlan ==
    ASSUME TypeInv, NEW p \in Proc, NEW there \in Reconciling, Goto(p, there),
           pc[p] \in Reconciling \cup {"idle"}, UNCHANGED <<plan, k, j>>
    PROVE  pc' \in [Proc -> PC] /\ \A r \in Proc : InPlan(r)'
<1> USE DEF TypeInv, TypeOK, CommandTyped, Goto
<1>1. pc' \in [Proc -> PC]
  BY DEF PC
<1>2. InPlan(p)'
  BY DEF InPlan, Planning, Executing, Stepping, Reconciling
<1>3. \A r \in Proc : r # p => InPlan(r)'
  BY InPlanFrame
<1> QED
  BY <1>1, <1>2, <1>3

LEMMA ReconcileKeepsTypes ==
    ASSUME TypeInv, NEW p \in Proc, Reconcile(p)
    PROVE  TypeInv'
<1> USE DEF TypeInv, TypeOK
<1>1. CASE ReadStatuses(p)
  <2>1. pc' \in [Proc -> PC] /\ \A r \in Proc : InPlan(r)'
    BY <1>1, ReconcilingInPlan DEF ReadStatuses, local, Reconciling
  <2> QED
    BY <1>1, <2>1 DEF ReadStatuses, store, local, StoreTyped, CommandTyped, ReconTyped, HistoryTyped
<1>2. CASE ReadReceipts(p)
  <2>1. pc' \in [Proc -> PC] /\ \A r \in Proc : InPlan(r)'
    BY <1>2, ReconcilingInPlan DEF ReadReceipts, local, Reconciling
  <2> QED
    BY <1>2, <2>1 DEF ReadReceipts, store, local, ghost, StoreTyped, CommandTyped, ReconTyped,
                      HistoryTyped
<1>3. CASE QueryReceipt(p)
  <2>1. \A r \in Proc : InPlan(r)'
    BY <1>3, InPlanFrame DEF QueryReceipt, local
  <2>2. PICK q \in todo[p] :
           /\ todo' = [todo EXCEPT ![p] = todo[p] \ {q}]
           /\ (good' = [good EXCEPT ![p] = good[p] \cup {q}] \/ good' = good)
    BY <1>3 DEF QueryReceipt
  <2>3. todo' \in [Proc -> SUBSET Package] /\ good' \in [Proc -> SUBSET Package]
    <3>1. /\ todo \in [Proc -> SUBSET Package] /\ todo[p] \ {q} \in SUBSET Package
          /\ good \in [Proc -> SUBSET Package] /\ good[p] \cup {q} \in SUBSET Package
      BY DEF ReconTyped
    <3>2. todo' \in [Proc -> SUBSET Package]
      BY ONLY <2>2, <3>1, UpdatedSet
    <3>3. good' \in [Proc -> SUBSET Package]
      <4>1. CASE good' = good
        BY ONLY <3>1, <4>1
      <4>2. CASE good' = [good EXCEPT ![p] = good[p] \cup {q}]
        BY ONLY <3>1, <4>2, UpdatedSet
      <4> QED
        BY ONLY <2>2, <4>1, <4>2
    <3> QED
      BY <3>2, <3>3
  <2> QED
    BY <1>3, <2>1, <2>3 DEF QueryReceipt, store, local, ghost, StoreTyped, CommandTyped, ReconTyped,
                      HistoryTyped
<1>4. CASE Judge(p)
  <2>1. pc' \in [Proc -> PC] /\ \A r \in Proc : InPlan(r)'
    BY <1>4, ReconcilingInPlan DEF Judge, local, Reconciling
  <2>2. Verified(p) \subseteq TxId
    BY DEF Verified, ReconTyped
  <2>3. due' \in [Proc -> SUBSET TxId]
    BY <1>4, <2>2 DEF Judge, ReconTyped
  <2> QED
    BY <1>4, <2>1, <2>3 DEF Judge, store, local, ghost, StoreTyped, CommandTyped, ReconTyped,
                      HistoryTyped
<1>5. CASE Report(p)
  <2>1. StoreTyped' /\ HistoryTyped'
    BY <1>5 DEF Report, store, ghost, StoreTyped, HistoryTyped
  <2> QED
    BY <1>5, <2>1, LeaveKeepsTypes DEF Report
<1>6. CASE Mark(p)
  <2>1. PICK t \in due[p] :
           /\ AppendEvent(t, "reconciled", NoStep)
           /\ \/ /\ due' = [due EXCEPT ![p] = @ \ {t}]
                 /\ UNCHANGED <<pc, exit, local, view, todo, good>>
              \/ Leave(p, "success")
    BY <1>6 DEF Mark
  <2>2. StoreTyped' /\ HistoryTyped'
    <3>1. t \in TxId
      BY DEF ReconTyped
    <3>2. journal' \subseteq Event /\ last' \in [TxId -> JournalState \cup {"none"}]
      BY <2>1, <3>1, EventTyped DEF JournalState
    <3> QED
      BY <1>6, <3>2 DEF Mark, ghost, StoreTyped, HistoryTyped
  <2>3. CASE Leave(p, "success")
    BY <2>2, <2>3, LeaveKeepsTypes
  <2>4. CASE /\ due' = [due EXCEPT ![p] = @ \ {t}]
             /\ UNCHANGED <<pc, exit, local, view, todo, good>>
    <3>1. \A r \in Proc : InPlan(r)'
      BY <2>4, InPlanFrame DEF local
    <3>2. CommandTyped' /\ ReconTyped'
      BY <2>4 DEF local, CommandTyped, ReconTyped
    <3> QED
      BY <2>2, <3>1, <3>2
  <2> QED
    BY <2>1, <2>3, <2>4
<1>7. CASE MarkFails(p)
  <2>1. StoreTyped' /\ HistoryTyped'
    <3>1. PICK t \in TxId : UNCHANGED store \/ AppendEvent(t, "reconciled", NoStep)
      BY <1>7 DEF MarkFails, ReconTyped
    <3>2. journal' \subseteq Event /\ last' \in [TxId -> JournalState \cup {"none"}]
      BY <3>1, EventTyped DEF JournalState, store, StoreTyped
    <3> QED
      BY <1>7, <3>2 DEF MarkFails, ghost, StoreTyped, HistoryTyped
  <2> QED
    BY <1>7, <2>1, LeaveKeepsTypes DEF MarkFails
<1> QED
  BY <1>1, <1>2, <1>3, <1>4, <1>5, <1>6, <1>7 DEF Reconcile

LEMMA FaultKeepsTypes ==
    ASSUME TypeInv, NEW p \in Proc, Crash(p) \/ CrashInStep(p)
    PROVE  TypeInv'
<1> USE DEF TypeInv, TypeOK
<1>1. CASE Crash(p)
  <2>1. StoreTyped' /\ HistoryTyped'
    BY <1>1 DEF Crash, Dies, store, StoreTyped, HistoryTyped
  <2> QED
    BY <1>1, <2>1, LeaveKeepsTypes DEF Crash, Dies
<1>2. CASE CrashInStep(p)
  <2>1. PICK v \in Outcomes(p) \cup PartialOutcomes(p) : Mutate(p, v)
    BY <1>2 DEF CrashInStep
  <2>2. crashed' \in [TxId -> BOOLEAN]
    BY <1>2 DEF CrashInStep, Dies, HistoryTyped
  <2>3. StoreTyped' /\ HistoryTyped'
    BY <1>2, <2>1, <2>2, MutateTyped DEF CrashInStep, Executing
  <2> QED
    BY <1>2, <2>3, LeaveKeepsTypes DEF CrashInStep, Dies
<1> QED
  BY <1>1, <1>2

LEMMA NextKeepsTypes == TypeInv /\ [Next]_vars => TypeInv'
<1> SUFFICES ASSUME TypeInv, [Next]_vars
             PROVE  TypeInv'
  OBVIOUS
<1>1. ASSUME NEW p \in Proc, Prepare(p) \/ Execute(p) \/ Reconcile(p) \/ Fault(p)
      PROVE  TypeInv'
  BY <1>1, PrepareKeepsTypes, JournalKeepsTypes, RunKeepsTypes, ReceiptsKeepTypes,
     ReconcileKeepsTypes, FaultKeepsTypes DEF Execute, Fault
<1>2. ASSUME UNCHANGED vars
      PROVE  TypeInv'
  <2>1. UNCHANGED <<store, machine, receipt, pc, local, exit, recon, ghost>>
    BY <1>2 DEF vars
  <2>2. key' \in [TxId -> PlanType \cup {Unused, Spent}]
    BY <1>2 DEF vars, TypeInv, TypeOK, StoreTyped
  <2>3. \A r \in Proc : InPlan(r)'
    BY <2>1, InPlanFrame DEF TypeInv, local
  <2> QED
    BY <2>1, <2>2, <2>3 DEF TypeInv, TypeOK, store, local, recon, ghost,
                            StoreTyped, CommandTyped, ReconTyped, HistoryTyped
<1> QED
  BY <1>1, <1>2 DEF Next

THEOREM TypeInvariant == Spec => []TypeInv
<1>1. Init => TypeInv
  BY InitTyped
<1>2. TypeInv /\ [Next]_vars => TypeInv'
  BY NextKeepsTypes
<1> QED
  BY <1>1, <1>2, PTL DEF Spec

\* Every variable always has its type, and a process at work is inside its plan.
THEOREM TypeCorrect == Spec => []TypeOK
<1>1. TypeInv => TypeOK
  BY DEF TypeInv
<1> QED
  BY <1>1, TypeInvariant, PTL

-----------------------------------------------------------------------------
(* Write-ahead                                                             *)

Started(p) == [tx |-> tx[p], state |-> "step_started", step |-> StepOf(p)]

\* A step that runs is one whose start is in the journal.
RunIsAnnounced == \A p \in Proc : pc[p] = "run" => Started(p) \in journal

WriteAheadInv == TypeInv /\ WriteAhead /\ RunIsAnnounced

\* Nothing is ever taken out of the journal.
LEMMA JournalOnlyGrows ==
    ASSUME [Next]_vars
    PROVE  journal \subseteq journal'
<1>1. ASSUME NEW p \in Proc, Prepare(p)
      PROVE  journal \subseteq journal'
  BY <1>1 DEF Prepare, BuildPlan, Revalidate, Refuse, Begin, store
<1>2. ASSUME NEW p \in Proc, Execute(p)
      PROVE  journal \subseteq journal'
  <2>1. CASE Run(p)
    BY <2>1 DEF Run, RunMutation, RunQuery, RunDownload, RunVerifyArtifact, RunNoChange,
                StepFails, store
  <2>2. CASE SkipReceipt(p) \/ CommitReceipt(p) \/ ReceiptFails(p)
    BY <2>2 DEF SkipReceipt, CommitReceipt, ReceiptFails, store
  <2>3. CASE Write(p)
    BY <2>3 DEF Write, AppendEvent
  <2> QED
    BY <1>2, <2>1, <2>2, <2>3 DEF Execute, StartTransaction, StartStep, RecordStep, FailStep,
       FailTransaction, FailReceipts, RecordReceipts, Close
<1>3. ASSUME NEW p \in Proc, Reconcile(p)
      PROVE  journal \subseteq journal'
  BY <1>3 DEF Reconcile, ReadStatuses, ReadReceipts, QueryReceipt, Judge, Report, Mark,
              MarkFails, AppendEvent, store
<1>4. ASSUME NEW p \in Proc, Fault(p)
      PROVE  journal \subseteq journal'
  BY <1>4 DEF Fault, JournalFails, Crash, CrashInStep, Write, AppendEvent, store
<1>5. ASSUME UNCHANGED vars
      PROVE  journal \subseteq journal'
  BY <1>5 DEF vars, store
<1> QED
  BY <1>1, <1>2, <1>3, <1>4, <1>5 DEF Next

\* The one way to run a step is to have announced it.
LEMMA RunStaysAnnounced ==
    ASSUME TypeInv, RunIsAnnounced, [Next]_vars
    PROVE  RunIsAnnounced'
<1> SUFFICES ASSUME NEW r \in Proc, pc'[r] = "run"
             PROVE  Started(r)' \in journal'
  BY DEF RunIsAnnounced
<1> USE DEF TypeInv, TypeOK, CommandTyped
<1>1. CASE StartStep(r)
  <2>1. Pending(r) = <<"step_started", StepOf(r)>>
    BY <1>1 DEF StartStep, Pending
  <2>2. Started(r) \in journal'
    BY <1>1, <2>1 DEF StartStep, Write, AppendEvent, Started
  <2>3. Started(r)' = Started(r)
    BY <1>1 DEF StartStep, local, Started, StepOf
  <2> QED
    BY <2>2, <2>3
<1>2. CASE ~StartStep(r)
  <2>1. pc[r] = "run" /\ tx'[r] = tx[r] /\ k'[r] = k[r] /\ j'[r] = j[r]
    <3>1. ASSUME NEW p \in Proc, Prepare(p)
          PROVE  pc[r] = "run" /\ tx'[r] = tx[r] /\ k'[r] = k[r] /\ j'[r] = j[r]
      BY <3>1 DEF Prepare, BuildPlan, Revalidate, Refuse, Begin, Goto, Leave, local
    <3>2. ASSUME NEW p \in Proc, Run(p)
          PROVE  pc[r] = "run" /\ tx'[r] = tx[r] /\ k'[r] = k[r] /\ j'[r] = j[r]
      BY <3>2 DEF Run, RunMutation, RunQuery, RunDownload, RunVerifyArtifact, RunNoChange,
                  StepFails, Goto, local
    <3>3. ASSUME NEW p \in Proc, SkipReceipt(p) \/ CommitReceipt(p) \/ ReceiptFails(p)
          PROVE  pc[r] = "run" /\ tx'[r] = tx[r] /\ k'[r] = k[r] /\ j'[r] = j[r]
      BY <3>3 DEF SkipReceipt, CommitReceipt, ReceiptFails, NextReceipt, Goto, local
    <3>4. ASSUME NEW p \in Proc, RecordStep(p)
          PROVE  pc[r] = "run" /\ tx'[r] = tx[r] /\ k'[r] = k[r] /\ j'[r] = j[r]
      BY <3>4 DEF RecordStep, Advance, Goto
    <3>5. ASSUME NEW p \in Proc, StartTransaction(p) \/ StartStep(p) \/ FailStep(p)
                                 \/ RecordReceipts(p)
          PROVE  pc[r] = "run" /\ tx'[r] = tx[r] /\ k'[r] = k[r] /\ j'[r] = j[r]
      BY <1>2, <3>5 DEF StartTransaction, StartStep, FailStep, RecordReceipts, Goto, local
    <3>6. ASSUME NEW p \in Proc, FailTransaction(p) \/ FailReceipts(p) \/ Close(p) \/ Fault(p)
          PROVE  pc[r] = "run" /\ tx'[r] = tx[r] /\ k'[r] = k[r] /\ j'[r] = j[r]
      BY <3>6 DEF FailTransaction, FailReceipts, Close, Fault, JournalFails, Crash, CrashInStep,
                  Dies, Leave, Goto
    <3>7. ASSUME NEW p \in Proc, Reconcile(p)
          PROVE  pc[r] = "run" /\ tx'[r] = tx[r] /\ k'[r] = k[r] /\ j'[r] = j[r]
      BY <3>7 DEF Reconcile, ReadStatuses, ReadReceipts, QueryReceipt, Judge, Report, Mark,
                  MarkFails, Leave, Goto, local
    <3>8. ASSUME UNCHANGED vars
          PROVE  pc[r] = "run" /\ tx'[r] = tx[r] /\ k'[r] = k[r] /\ j'[r] = j[r]
      BY <3>8 DEF vars, local
    <3> QED
      BY <3>1, <3>2, <3>3, <3>4, <3>5, <3>6, <3>7, <3>8 DEF Next, Execute
  <2>2. Started(r)' = Started(r) /\ Started(r) \in journal
    BY <2>1 DEF Started, StepOf, RunIsAnnounced
  <2> QED
    BY <2>2, JournalOnlyGrows
<1> QED
  BY <1>1, <1>2

\* What a step adds to the machine's history is the doing of a step that runs.
LEMMA EffectsAreOfRunningSteps ==
    ASSUME [Next]_vars, NEW e \in effects', e \notin effects
    PROVE  \E p \in Proc : pc[p] = "run" /\ e.tx = tx[p] /\ e.step = StepOf(p)
<1>1. PICK p \in Proc : RunMutation(p) \/ CrashInStep(p)
  <2>1. ASSUME NEW p \in Proc, Prepare(p)
        PROVE  effects' = effects
    BY <2>1 DEF Prepare, BuildPlan, Revalidate, Refuse, Begin, ghost
  <2>2. ASSUME NEW p \in Proc, Execute(p), ~RunMutation(p)
        PROVE  effects' = effects
    BY <2>2 DEF Execute, Run, RunQuery, RunDownload, RunVerifyArtifact, RunNoChange, StepFails,
       StartTransaction, StartStep, RecordStep, FailStep, FailTransaction, SkipReceipt,
       CommitReceipt, ReceiptFails, FailReceipts, RecordReceipts, Close, ghost
  <2>3. ASSUME NEW p \in Proc, Reconcile(p)
        PROVE  effects' = effects
    BY <2>3 DEF Reconcile, ReadStatuses, ReadReceipts, QueryReceipt, Judge, Report, Mark,
                MarkFails, ghost
  <2>4. ASSUME NEW p \in Proc, Fault(p), ~CrashInStep(p)
        PROVE  effects' = effects
    BY <2>4 DEF Fault, JournalFails, Crash, ghost
  <2>5. ASSUME UNCHANGED vars
        PROVE  effects' = effects
    BY <2>5 DEF vars, ghost
  <2> QED
    BY <2>1, <2>2, <2>3, <2>4, <2>5 DEF Next
<1>2. PICK v : Mutate(p, v)
  BY <1>1 DEF RunMutation, CrashInStep
<1>3. e = [tx |-> tx[p], step |-> StepOf(p), pkg |-> Pkg(p)]
  BY <1>2 DEF Mutate
<1> QED
  BY <1>1, <1>3 DEF RunMutation, CrashInStep

LEMMA NextKeepsWriteAhead == WriteAheadInv /\ [Next]_vars => WriteAheadInv'
<1> SUFFICES ASSUME WriteAheadInv, [Next]_vars
             PROVE  WriteAheadInv'
  OBVIOUS
<1>1. TypeInv'
  BY NextKeepsTypes DEF WriteAheadInv
<1>2. RunIsAnnounced'
  BY RunStaysAnnounced DEF WriteAheadInv
<1>3. ASSUME NEW e \in effects'
      PROVE  [tx |-> e.tx, state |-> "step_started", step |-> e.step] \in journal'
  <2>1. CASE e \in effects
    BY <2>1, JournalOnlyGrows DEF WriteAheadInv, WriteAhead
  <2>2. CASE e \notin effects
    BY <2>2, EffectsAreOfRunningSteps, JournalOnlyGrows DEF WriteAheadInv, RunIsAnnounced, Started
  <2> QED
    BY <2>1, <2>2
<1> QED
  BY <1>1, <1>2, <1>3 DEF WriteAheadInv, WriteAhead

\* Whatever crashes, fails or runs concurrently, and even when two transactions
\* share an id: the machine is changed only by a step whose start was journaled
\* before.
THEOREM WriteAheadHolds == Spec => []WriteAhead
<1>1. Init => WriteAheadInv
  <2>1. Init => WriteAhead /\ RunIsAnnounced
    BY DEF Init, WriteAhead, RunIsAnnounced
  <2> QED
    BY <2>1, InitTyped DEF WriteAheadInv
<1>2. WriteAheadInv /\ [Next]_vars => WriteAheadInv'
  BY NextKeepsWriteAhead
<1>3. WriteAheadInv => WriteAhead
  BY DEF WriteAheadInv
<1> QED
  BY <1>1, <1>2, <1>3, PTL DEF Spec

-----------------------------------------------------------------------------
(* Why executions end: what TLC checks as ExecutionEnds rests on this and   *)
(* on fairness.                                                             *)

\* The most steps that a process has left: three for each step of each package
\* (start, run, record), one for each receipt, and those that close the transaction.
InStep(there) == IF there = "step" THEN 3 ELSE IF there = "run" THEN 2 ELSE 1
Remaining(p) ==
    LET n == Len(plan[p].pkgs)
    IN  CASE pc[p] = "begin" -> 10 * n + 3
          [] pc[p] \in Stepping -> n + 2 + 9 * (n - k[p]) + 3 * (3 - j[p]) + InStep(pc[p])
          [] pc[p] = "receipts" -> 3 + n - k[p]
          [] pc[p] = "commit" -> 2
          [] pc[p] \in {"failing", "unwritten", "closing"} -> 1
          [] OTHER -> 0

Advances == \A p \in Proc : /\ pc[p] \in Executing \cup {"begin"} => Remaining(p)' <= Remaining(p)
                            /\ Execute(p) => Remaining(p)' < Remaining(p)

LEMMA RemainingIsBounded ==
    ASSUME TypeInv, NEW p \in Proc
    PROVE  Remaining(p) \in 0..(10 * MaxPackages + 3)
<1> DEFINE n == Len(plan[p].pkgs)
<1>0. MaxPackages \in Nat
  BY MaxPackagesIsPositive
<1>1. CASE pc[p] \in Executing
  <2>1. n \in 1..MaxPackages /\ k[p] \in 1..n
    BY <1>1, PlanFacts DEF TypeInv, InPlan
  <2>2. j[p] \in 1..3 /\ InStep(pc[p]) \in 1..3
    BY DEF TypeInv, TypeOK, CommandTyped, InStep
  <2> HIDE DEF n
  <2>3. n + 2 + 9 * (n - k[p]) + 3 * (3 - j[p]) + InStep(pc[p]) \in 0..(10 * MaxPackages + 3)
    BY <1>0, <2>1, <2>2
  <2>4. 3 + n - k[p] \in 0..(10 * MaxPackages + 3)
    BY <1>0, <2>1
  <2>5. /\ pc[p] \in Stepping => Remaining(p) = n + 2 + 9 * (n - k[p]) + 3 * (3 - j[p]) + InStep(pc[p])
        /\ pc[p] = "receipts" => Remaining(p) = 3 + n - k[p]
        /\ ~(pc[p] \in Stepping) /\ pc[p] # "receipts" => Remaining(p) = 1 \/ Remaining(p) = 2
    BY <1>1 DEF Remaining, Executing, Stepping, n
  <2>6. 1 \in 0..(10 * MaxPackages + 3) /\ 2 \in 0..(10 * MaxPackages + 3)
    BY <1>0
  <2> HIDE DEF Remaining
  <2>7. CASE pc[p] \in Stepping
    BY <2>3, <2>5, <2>7
  <2>8. CASE pc[p] = "receipts"
    BY <2>4, <2>5, <2>8
  <2>9. CASE ~(pc[p] \in Stepping) /\ pc[p] # "receipts"
    BY <2>5, <2>6, <2>9
  <2> QED
    BY <2>7, <2>8, <2>9
<1>2. CASE pc[p] = "begin"
  <2>1. n \in 1..MaxPackages
    BY <1>2, PackageListIsSeq DEF TypeInv, InPlan, Planning, PlanType
  <2> HIDE DEF n
  <2>2. 10 * n + 3 \in 0..(10 * MaxPackages + 3)
    BY <1>0, <2>1
  <2> QED
    BY <1>2, <2>2 DEF Remaining, Stepping, n
<1>3. CASE pc[p] \notin Executing \cup {"begin"}
  BY <1>0, <1>3 DEF Remaining, Executing, Stepping
<1> QED
  BY <1>1, <1>2, <1>3

LEMMA LeavingEnds ==
    ASSUME TypeInv, NEW p \in Proc, NEW how, Leave(p, how)
    PROVE  Remaining(p)' = 0
BY DEF TypeInv, TypeOK, CommandTyped, Leave, Goto, Remaining, Stepping

LEMMA AdvanceAdvances ==
    ASSUME TypeInv, NEW p \in Proc, pc[p] = "ran", Advance(p), plan' = plan
    PROVE  Remaining(p)' < Remaining(p)
<1> DEFINE n == Len(plan[p].pkgs)
<1>1. n \in 1..MaxPackages /\ k[p] \in 1..n /\ j[p] \in 1..3 /\ MaxPackages \in Nat
  BY PlanFacts, MaxPackagesIsPositive DEF TypeInv, InPlan, Executing, TypeOK, CommandTyped
<1>2. pc \in [Proc -> PC] /\ k \in [Proc -> 1..MaxPackages] /\ j \in [Proc -> 1..3]
  BY DEF TypeInv, TypeOK, CommandTyped
<1>3. Remaining(p) = n + 2 + 9 * (n - k[p]) + 3 * (3 - j[p]) + 1
  BY DEF Remaining, Stepping, InStep
<1>4. \/ pc'[p] = "step" /\ k'[p] = k[p] /\ j'[p] = j[p] + 1
      \/ pc'[p] = "step" /\ k'[p] = k[p] + 1 /\ j'[p] = 1
      \/ pc'[p] = "receipts" /\ k'[p] = 1
  BY <1>2 DEF Advance, Goto
<1>5. pc'[p] = "step" => Remaining(p)' = n + 2 + 9 * (n - k'[p]) + 3 * (3 - j'[p]) + 3
  BY DEF Remaining, Stepping, InStep
<1>6. pc'[p] = "receipts" => Remaining(p)' = 3 + n - k'[p]
  BY DEF Remaining, Stepping
<1> HIDE DEF n
<1>7. CASE pc'[p] = "step" /\ k'[p] = k[p] /\ j'[p] = j[p] + 1
  BY <1>1, <1>3, <1>5, <1>7
<1>8. CASE pc'[p] = "step" /\ k'[p] = k[p] + 1 /\ j'[p] = 1
  BY <1>1, <1>3, <1>5, <1>8
<1>9. CASE pc'[p] = "receipts" /\ k'[p] = 1
  BY <1>1, <1>3, <1>6, <1>9
<1> QED
  BY <1>4, <1>7, <1>8, <1>9

LEMMA ReceiptAdvances ==
    ASSUME TypeInv, NEW p \in Proc, NEW w, pc[p] = "receipts", NextReceipt(p, w), plan' = plan
    PROVE  Remaining(p)' < Remaining(p)
<1> DEFINE n == Len(plan[p].pkgs)
<1>1. n \in 1..MaxPackages /\ k[p] \in 1..n /\ MaxPackages \in Nat
  BY PlanFacts, MaxPackagesIsPositive DEF TypeInv, InPlan, Executing
<1>2. pc \in [Proc -> PC] /\ k \in [Proc -> 1..MaxPackages]
  BY DEF TypeInv, TypeOK, CommandTyped
<1>3. Remaining(p) = 3 + n - k[p]
  BY DEF Remaining, Stepping
<1>4. \/ pc'[p] = "receipts" /\ k'[p] = k[p] + 1
      \/ pc'[p] \in {"commit", "closing"}
  BY <1>2 DEF NextReceipt, Goto
<1>5. pc'[p] = "receipts" => Remaining(p)' = 3 + n - k'[p]
  BY DEF Remaining, Stepping
<1>6. pc'[p] \in {"commit", "closing"} => Remaining(p)' \in {1, 2}
  BY DEF Remaining, Stepping
<1> HIDE DEF n
<1> QED
  BY <1>1, <1>3, <1>4, <1>5, <1>6

LEMMA ExecuteAdvances ==
    ASSUME TypeInv, NEW p \in Proc, Execute(p)
    PROVE  Remaining(p)' < Remaining(p)
<1> DEFINE n == Len(plan[p].pkgs)
<1>1. pc \in [Proc -> PC]
  BY DEF TypeInv, TypeOK, CommandTyped
<1>2. Remaining(p) \in Nat
  BY RemainingIsBounded, MaxPackagesIsPositive
<1>3. CASE StartTransaction(p)
  <2>1. pc[p] = "begin" /\ pc'[p] = "step" /\ UNCHANGED <<plan, k, j>>
    BY <1>1, <1>3 DEF StartTransaction, Goto, local
  <2>2. k[p] = 1 /\ j[p] = 1 /\ n \in Nat
    BY <2>1, PackageListIsSeq DEF TypeInv, InPlan, Planning, Executing, Stepping, PlanType
  <2>3. Remaining(p) = 10 * n + 3 /\ Remaining(p)' = n + 2 + 9 * (n - 1) + 3 * (3 - 1) + 3
    BY <2>1, <2>2 DEF Remaining, Stepping, InStep
  <2> HIDE DEF n
  <2> QED
    BY <2>2, <2>3
<1>4. ASSUME pc[p] \in Stepping, pc'[p] \in Stepping, InStep(pc'[p]) < InStep(pc[p]), UNCHANGED <<plan, k, j>>
      PROVE  Remaining(p)' < Remaining(p)
  <2>0. pc[p] \in Executing
    BY <1>4 DEF Executing, Stepping
  <2>1. n \in 1..MaxPackages /\ k[p] \in 1..MaxPackages /\ j[p] \in 1..3 /\ MaxPackages \in Nat
    BY <2>0, PlanFacts, MaxPackagesIsPositive DEF TypeInv, TypeOK, CommandTyped
  <2> DEFINE m == n + 2 + 9 * (n - k[p]) + 3 * (3 - j[p])
  <2>2. Remaining(p) = m + InStep(pc[p]) /\ Remaining(p)' = m + InStep(pc'[p])
    BY <1>4 DEF Remaining, Stepping
  <2> HIDE DEF n
  <2>3. m \in Int /\ InStep(pc[p]) \in Int /\ InStep(pc'[p]) \in Int
    BY <2>1 DEF InStep
  <2> HIDE DEF m
  <2> QED
    BY <1>4, <2>2, <2>3
<1>5. CASE StartStep(p)
  <2>1. pc[p] = "step" /\ pc'[p] = "run" /\ UNCHANGED <<plan, k, j>>
    BY <1>1, <1>5 DEF StartStep, Goto, local
  <2> QED
    BY <1>4, <2>1 DEF Stepping, InStep
<1>6. CASE Run(p)
  <2>1. pc[p] = "run" /\ pc'[p] \in {"ran", "failed"} /\ UNCHANGED <<plan, k, j>>
    BY <1>1, <1>6 DEF Run, RunMutation, RunQuery, RunDownload, RunVerifyArtifact, RunNoChange, StepFails, Goto, local
  <2> QED
    BY <1>4, <2>1 DEF Stepping, InStep
<1>7. CASE RecordStep(p)
  BY <1>7, AdvanceAdvances DEF RecordStep
<1>8. CASE SkipReceipt(p) \/ CommitReceipt(p)
  BY <1>8, ReceiptAdvances DEF SkipReceipt, CommitReceipt
<1>9. CASE FailStep(p)
  <2>1. pc[p] = "failed" /\ pc'[p] = "failing"
    BY <1>1, <1>9 DEF FailStep, Goto
  <2>2. n \in Nat /\ k[p] \in 1..n /\ j[p] \in 1..3 /\ MaxPackages \in Nat
    BY <2>1, PlanFacts, MaxPackagesIsPositive DEF TypeInv, InPlan, TypeOK, CommandTyped, Executing
  <2>3. Remaining(p) = n + 2 + 9 * (n - k[p]) + 3 * (3 - j[p]) + 1 /\ Remaining(p)' = 1
    BY <2>1 DEF Remaining, Stepping, InStep
  <2> HIDE DEF n
  <2> QED
    BY <2>2, <2>3
<1>10. CASE ReceiptFails(p)
  <2>1. pc[p] = "receipts" /\ pc'[p] = "unwritten"
    BY <1>1, <1>10 DEF ReceiptFails, Goto
  <2>2. n \in Nat /\ k[p] \in 1..n /\ MaxPackages \in Nat
    BY <2>1, PlanFacts, MaxPackagesIsPositive DEF TypeInv, InPlan, Executing
  <2>3. Remaining(p) = 3 + n - k[p] /\ Remaining(p)' = 1
    BY <2>1 DEF Remaining, Stepping
  <2> HIDE DEF n
  <2> QED
    BY <2>2, <2>3
<1>11. CASE RecordReceipts(p)
  <2>1. pc[p] = "commit" /\ pc'[p] = "closing"
    BY <1>1, <1>11 DEF RecordReceipts, Goto
  <2> QED
    BY <2>1 DEF Remaining, Stepping
<1>12. CASE FailTransaction(p) \/ FailReceipts(p) \/ Close(p)
  <2>1. pc[p] \in {"failing", "unwritten", "closing"} /\ \E how : Leave(p, how)
    BY <1>12 DEF FailTransaction, FailReceipts, Close
  <2>2. Remaining(p)' = 0
    BY <2>1, LeavingEnds
  <2> QED
    BY <2>1, <2>2 DEF Remaining, Stepping
<1> QED
  BY <1>3, <1>5, <1>6, <1>7, <1>8, <1>9, <1>10, <1>11, <1>12 DEF Execute

\* A step is one process's, and another one's step leaves its plan and place alone.
LEMMA OthersStandStill ==
    ASSUME TypeInv, NEW p \in Proc, NEW q \in Proc, q # p, Prepare(q) \/ Execute(q) \/ Reconcile(q) \/ Fault(q)
    PROVE  Remaining(p)' = Remaining(p)
<1> USE DEF TypeInv, TypeOK, CommandTyped, Leave, Goto, local
<1>1. ASSUME pc'[p] = pc[p], plan'[p] = plan[p], k'[p] = k[p], j'[p] = j[p]
      PROVE  Remaining(p)' = Remaining(p)
  BY <1>1 DEF Remaining
<1>2. ASSUME NEW how, Leave(q, how) PROVE Remaining(p)' = Remaining(p)
  BY <1>1, <1>2
<1>3. CASE Prepare(q)
  BY <1>1, <1>2, <1>3 DEF Prepare, BuildPlan, Revalidate, Refuse, Begin
<1>4. CASE Execute(q)
  <2>1. CASE Run(q)
    BY <1>1, <2>1 DEF Run, RunMutation, RunQuery, RunDownload, RunVerifyArtifact, RunNoChange, StepFails
  <2>2. CASE RecordStep(q)
    BY <1>1, <2>2 DEF RecordStep, Advance
  <2>3. CASE SkipReceipt(q) \/ CommitReceipt(q)
    BY <1>1, <2>3 DEF SkipReceipt, CommitReceipt, NextReceipt
  <2>4. CASE StartTransaction(q) \/ StartStep(q) \/ FailStep(q) \/ ReceiptFails(q) \/ RecordReceipts(q)
    BY <1>1, <2>4 DEF StartTransaction, StartStep, FailStep, ReceiptFails, RecordReceipts
  <2>5. CASE FailTransaction(q) \/ FailReceipts(q) \/ Close(q)
    BY <1>2, <2>5 DEF FailTransaction, FailReceipts, Close
  <2> QED
    BY <1>4, <2>1, <2>2, <2>3, <2>4, <2>5 DEF Execute
<1>5. CASE Reconcile(q)
  <2>1. CASE ReadStatuses(q) \/ ReadReceipts(q) \/ QueryReceipt(q) \/ Judge(q)
    BY <1>1, <2>1 DEF ReadStatuses, ReadReceipts, QueryReceipt, Judge
  <2>2. CASE Report(q) \/ MarkFails(q)
    BY <1>2, <2>2 DEF Report, MarkFails
  <2>3. CASE Mark(q)
    BY <1>1, <1>2, <2>3 DEF Mark
  <2> QED
    BY <1>5, <2>1, <2>2, <2>3 DEF Reconcile
<1>6. CASE Fault(q)
  BY <1>2, <1>6 DEF Fault, JournalFails, Crash, CrashInStep, Dies
<1> QED
  BY <1>3, <1>4, <1>5, <1>6

LEMMA RemainingStaysBounded ==
    TypeInv /\ [Next]_vars => (\A p \in Proc : Remaining(p) \in 0..(10 * MaxPackages + 3))'
<1>1. TypeInv => \A p \in Proc : Remaining(p) \in 0..(10 * MaxPackages + 3)
  BY RemainingIsBounded
<1> QED
  BY <1>1, NextKeepsTypes, PTL

LEMMA StepsAdvance ==
    ASSUME TypeInv, [Next]_vars
    PROVE  Advances
<1> SUFFICES ASSUME NEW p \in Proc, pc[p] \in Executing \cup {"begin"}
             PROVE  Remaining(p)' <= Remaining(p)
  BY ExecuteAdvances DEF Advances
<1>0. Remaining(p) \in Nat
  BY RemainingIsBounded, MaxPackagesIsPositive
<1>1. CASE UNCHANGED vars
  <2>1. pc' = pc /\ plan' = plan /\ k' = k /\ j' = j
    BY <1>1 DEF vars, local
  <2> QED
    BY <1>0, <2>1 DEF Remaining
<1>2. ASSUME NEW q \in Proc, q # p, Prepare(q) \/ Execute(q) \/ Reconcile(q) \/ Fault(q)
      PROVE  Remaining(p)' <= Remaining(p)
  BY <1>0, <1>2, OthersStandStill
<1>3. CASE Execute(p)
  <2>1. Remaining(p)' < Remaining(p)
    BY <1>3, ExecuteAdvances
  <2>2. Remaining(p)' \in Nat
    BY RemainingStaysBounded, MaxPackagesIsPositive
  <2> QED
    BY <1>0, <2>1, <2>2
<1>4. CASE Fault(p)
  <2>1. \E how : Leave(p, how)
    BY <1>4 DEF Fault, JournalFails, Crash, CrashInStep, Dies
  <2>2. Remaining(p)' = 0
    BY <2>1, LeavingEnds
  <2> QED
    BY <1>0, <2>2
<1>5. ~Prepare(p) /\ ~Reconcile(p)
  BY DEF Prepare, BuildPlan, Revalidate, Refuse, Begin, Reconcile, ReadStatuses, ReadReceipts, QueryReceipt,
         Judge, Report, Mark, MarkFails, Executing
<1> QED
  BY <1>1, <1>2, <1>3, <1>4, <1>5 DEF Next

\* Executing a plan never comes back to where it was: whatever backends and files do, each
\* step brings the process nearer to its end, of which it is at most ten steps a package
\* and three away, and no step of another process takes it back.
THEOREM ExecutionsComeToAnEnd ==
    Spec => [](\A p \in Proc : Remaining(p) \in 0..(10 * MaxPackages + 3)) /\ [][Advances]_vars
<1>1. TypeInv => \A p \in Proc : Remaining(p) \in 0..(10 * MaxPackages + 3)
  BY RemainingIsBounded
<1>2. TypeInv /\ [Next]_vars => [Advances]_vars
  BY StepsAdvance
<1> QED
  BY <1>1, <1>2, TypeInvariant, PTL DEF Spec

=============================================================================
