--------------------------- MODULE RecoveryProofs ---------------------------
(***************************************************************************)
(* Theorems about what Executor promises of recovery: interrupted          *)
(* transactions are found, changes are not hidden, and what is marked      *)
(* reconciled is in the receipts; for any number of processes, but for the *)
(* last two theorems, which are for one.                                   *)
(***************************************************************************)
EXTENDS ExecutorProofs

-----------------------------------------------------------------------------
(* The shapes of a step                                                    *)

Acts(p) == Prepare(p) \/ Execute(p) \/ Reconcile(p) \/ Fault(p)

\* A process that has given itself a transaction.
Begun == {"begin"} \cup Executing

\* Last states of a transaction that is under way or was interrupted, and of
\* one that was reconciled.
Unfinished == JournalState \ {"transaction_completed", "transaction_failed"}

Same(r) ==
    /\ pc'[r] = pc[r] /\ plan'[r] = plan[r] /\ tx'[r] = tx[r] /\ k'[r] = k[r] /\ j'[r] = j[r]
    /\ changed'[r] = changed[r] /\ exit'[r] = exit[r] /\ touched'[r] = touched[r]
    /\ due'[r] = due[r] /\ view'[r] = view[r]

LEMMA LeaveLeavesOthers ==
    ASSUME TypeInv, NEW p \in Proc, NEW how, Leave(p, how), NEW r \in Proc, r # p,
           touched'[r] = touched[r]
    PROVE  Same(r)
BY DEF TypeInv, TypeOK, CommandTyped, ReconTyped, Leave, Goto, Same

\* A process changes no other one's state.
LEMMA OthersStay ==
    ASSUME TypeInv, NEW p \in Proc, Acts(p), NEW r \in Proc, r # p
    PROVE  Same(r)
<1> USE DEF TypeInv, TypeOK
<1>1. CASE Prepare(p)
  <2>1. CASE Refuse(p)
    BY <2>1, LeaveLeavesOthers DEF Refuse, ghost
  <2>2. CASE ~Refuse(p)
    BY <1>1, <2>2 DEF Prepare, BuildPlan, Revalidate, Begin, Goto, local, recon, ghost,
                      CommandTyped, HistoryTyped, Same
  <2> QED
    BY <2>1, <2>2
<1>2. CASE Run(p)
  <2>1. CASE RunMutation(p)
    BY <2>1 DEF RunMutation, Mutate, Goto, local, recon, CommandTyped, HistoryTyped, Same
  <2>2. CASE ~RunMutation(p)
    BY <1>2, <2>2 DEF Run, RunQuery, RunDownload, RunVerifyArtifact, RunNoChange, StepFails, Goto,
                      local, recon, ghost, CommandTyped, Same
  <2> QED
    BY <2>1, <2>2
<1>3. CASE SkipReceipt(p) \/ CommitReceipt(p) \/ ReceiptFails(p)
  BY <1>3 DEF SkipReceipt, CommitReceipt, ReceiptFails, NextReceipt, Goto, local, recon, ghost,
              CommandTyped, Same
<1>4. CASE StartTransaction(p) \/ StartStep(p) \/ FailStep(p) \/ RecordReceipts(p)
  BY <1>4 DEF StartTransaction, StartStep, FailStep, RecordReceipts, Goto, local, recon, ghost,
              CommandTyped, Same
<1>5. CASE RecordStep(p)
  BY <1>5 DEF RecordStep, Advance, Goto, recon, ghost, CommandTyped, Same
<1>6. CASE FailTransaction(p) \/ FailReceipts(p) \/ Close(p) \/ JournalFails(p)
  BY <1>6, LeaveLeavesOthers DEF FailTransaction, FailReceipts, Close, JournalFails, ghost
<1>7. CASE Reconcile(p)
  <2>1. CASE ReadStatuses(p) \/ ReadReceipts(p) \/ QueryReceipt(p) \/ Judge(p)
    BY <2>1 DEF ReadStatuses, ReadReceipts, QueryReceipt, Judge, Goto, local, ghost,
                CommandTyped, ReconTyped, HistoryTyped, Same
  <2>2. CASE Report(p) \/ MarkFails(p)
    BY <2>2, LeaveLeavesOthers DEF Report, MarkFails, ghost
  <2>3. CASE Mark(p)
    <3>1. \/ \E t \in due[p] : due' = [due EXCEPT ![p] = @ \ {t}] /\ UNCHANGED <<pc, exit, local, view>>
          \/ Leave(p, "success")
      BY <2>3 DEF Mark
    <3>2. touched' = touched
      BY <2>3 DEF Mark, ghost
    <3> QED
      BY <3>1, <3>2, LeaveLeavesOthers DEF local, ReconTyped, Same
  <2> QED
    BY <1>7, <2>1, <2>2, <2>3 DEF Reconcile
<1>8. CASE Crash(p)
  BY <1>8, LeaveLeavesOthers DEF Crash, Dies
<1>9. CASE CrashInStep(p)
  <2>1. touched'[r] = touched[r]
    BY <1>9 DEF CrashInStep, Mutate, HistoryTyped
  <2> QED
    BY <1>9, <2>1, LeaveLeavesOthers DEF CrashInStep, Dies
<1> QED
  BY <1>1, <1>2, <1>3, <1>4, <1>5, <1>6, <1>7, <1>8, <1>9 DEF Acts, Execute, Fault

\* What a process appends to the journal, by where it is.
LEMMA Appended ==
    ASSUME TypeInv, NEW p \in Proc, pc[p] \in Journaling, Write(p)
    PROVE  \E s \in JournalState :
              /\ last' = [last EXCEPT ![tx[p]] = s]
              /\ s # "reconciled"
              /\ pc[p] \notin {"failing", "unwritten", "closing"} => s \in Unfinished
              /\ pc[p] \in {"failing", "unwritten"} => s = "transaction_failed"
              /\ pc[p] = "closing" => s = "transaction_completed"
BY DEF Write, AppendEvent, Pending, CompletionState, Journaling, JournalState, Unfinished

\* The shapes, as far as transactions go: what happens outside of them,
Idles(p) ==
    /\ pc[p] \notin Begun /\ pc'[p] \notin Begun
    /\ UNCHANGED <<key, last, crashed>>
\* what happens inside one that leaves its last state alone or appends to it,
Works(p) ==
    /\ pc[p] \in Executing /\ pc'[p] \in Executing
    /\ tx'[p] = tx[p]
    /\ UNCHANGED <<key, last, crashed>>
Logs(p) ==
    /\ pc[p] \in Begun /\ pc'[p] \in Executing
    /\ tx'[p] = tx[p]
    /\ \E s \in Unfinished \ {"reconciled"} : last' = [last EXCEPT ![tx[p]] = s]
    /\ UNCHANGED <<key, crashed>>
\* its end, by itself or by a crash,
Ends(p) ==
    /\ pc[p] \in Begun \ {"run"} /\ pc'[p] = "idle"
    /\ \/ last' = last
       \/ \E s \in JournalState :
             /\ last' = [last EXCEPT ![tx[p]] = s]
             /\ s # "reconciled"
             /\ s = "transaction_failed" => pc[p] \in {"failing", "unwritten"}
             /\ s = "transaction_completed" => pc[p] = "closing"
    /\ UNCHANGED <<key, crashed>>
Perishes(p) ==
    /\ pc[p] \in Begun /\ pc'[p] = "idle"
    /\ crashed' = [t \in TxId |-> crashed[t] \/ (pc[p] \in Executing /\ tx[p] = t)]
    /\ UNCHANGED <<key, last>>
\* and reconciliation.
Marks(p) ==
    /\ pc[p] = "mark" /\ pc'[p] \notin Begun
    /\ \E t \in due[p] : t \in TxId /\ Required(t) /\ last' = [last EXCEPT ![t] = "reconciled"]
    /\ UNCHANGED <<key, crashed>>

LEMMA Left ==
    ASSUME TypeInv, NEW p \in Proc, NEW how, Leave(p, how)
    PROVE  pc'[p] = "idle" /\ pc'[p] \notin Begun
BY DEF TypeInv, TypeOK, CommandTyped, Leave, Goto, Begun, Executing

\* Every step of a process has one of these shapes, or begins a transaction.
LEMMA StepShapes ==
    ASSUME TypeInv, NEW p \in Proc, Acts(p)
    PROVE  \/ Begin(p) \/ Idles(p) \/ Works(p) \/ Logs(p) \/ Ends(p) \/ Perishes(p) \/ Marks(p)
<1> USE DEF TypeInv, TypeOK
<1>1. CASE BuildPlan(p) \/ Revalidate(p)
  BY <1>1 DEF BuildPlan, Revalidate, Goto, store, ghost, CommandTyped, Idles, Begun, Executing
<1>2. CASE Refuse(p)
  BY <1>2, Left DEF Refuse, store, ghost, Idles, Begun, Executing
<1>3. CASE Run(p)
  BY <1>3 DEF Run, RunMutation, RunQuery, RunDownload, RunVerifyArtifact, RunNoChange, StepFails,
              Mutate, Goto, store, local, ghost, CommandTyped, Works, Executing
<1>4. CASE SkipReceipt(p) \/ CommitReceipt(p) \/ ReceiptFails(p)
  BY <1>4 DEF SkipReceipt, CommitReceipt, ReceiptFails, NextReceipt, Goto, store, local, ghost,
              CommandTyped, Works, Executing
<1>5. CASE StartTransaction(p) \/ StartStep(p) \/ FailStep(p) \/ RecordReceipts(p) \/ RecordStep(p)
  <2>1. pc[p] \in {"begin", "step", "failed", "commit", "ran"} /\ Write(p) /\ UNCHANGED <<key, tx, crashed>>
    BY <1>5 DEF StartTransaction, StartStep, FailStep, RecordReceipts, RecordStep, local, ghost
  <2>2. pc'[p] \in Executing
    BY <1>5 DEF StartTransaction, StartStep, FailStep, RecordReceipts, RecordStep, Advance, Goto,
                CommandTyped, Executing
  <2>3. \E s \in Unfinished \ {"reconciled"} : last' = [last EXCEPT ![tx[p]] = s]
    BY <2>1, Appended DEF Journaling
  <2> QED
    BY <2>1, <2>2, <2>3 DEF Logs, Begun, Executing
<1>6. CASE FailTransaction(p) \/ FailReceipts(p) \/ Close(p) \/ JournalFails(p)
  <2>1. /\ pc[p] \in Journaling
        /\ Write(p) \/ last' = last
        /\ UNCHANGED <<key, crashed>>
    BY <1>6 DEF FailTransaction, FailReceipts, Close, JournalFails, Journaling, store, ghost
  <2>2. pc'[p] = "idle"
    BY <1>6, Left DEF FailTransaction, FailReceipts, Close, JournalFails
  <2>3. pc[p] \in Begun \ {"run"}
    BY <2>1 DEF Journaling, Begun, Executing
  <2>4. Write(p) =>
           \E s \in JournalState :
              /\ last' = [last EXCEPT ![tx[p]] = s]
              /\ s # "reconciled"
              /\ s = "transaction_failed" => pc[p] \in {"failing", "unwritten"}
              /\ s = "transaction_completed" => pc[p] = "closing"
    BY <2>1, Appended DEF Unfinished
  <2> QED
    BY <2>1, <2>2, <2>3, <2>4 DEF Ends
<1>7. CASE ReadStatuses(p) \/ ReadReceipts(p) \/ QueryReceipt(p) \/ Judge(p)
  BY <1>7 DEF ReadStatuses, ReadReceipts, QueryReceipt, Judge, Goto, store, ghost, CommandTyped,
              Idles, Begun, Executing
<1>8. CASE Report(p)
  BY <1>8, Left DEF Report, store, ghost, Idles, Begun, Executing
<1>9. CASE Mark(p) \/ MarkFails(p)
  <2>1. pc[p] = "mark" /\ UNCHANGED <<key, crashed>>
    BY <1>9 DEF Mark, MarkFails, ghost
  <2>2. pc'[p] \notin Begun
    BY <1>9, <2>1, Left DEF Mark, MarkFails, Begun, Executing
  <2>3. \/ last' = last
        \/ \E t \in due[p] : t \in TxId /\ Required(t) /\ last' = [last EXCEPT ![t] = "reconciled"]
    BY <1>9 DEF Mark, MarkFails, AppendEvent, store, ReconTyped
  <2> QED
    BY <2>1, <2>2, <2>3 DEF Idles, Marks, Begun, Executing
<1>10. CASE Crash(p) \/ CrashInStep(p)
  <2>1. /\ UNCHANGED <<key, last>>
        /\ crashed' = [t \in TxId |-> crashed[t] \/ (pc[p] \in Executing /\ tx[p] = t)]
    BY <1>10 DEF Crash, CrashInStep, Dies, store
  <2>2. pc'[p] = "idle" /\ pc'[p] \notin Begun
    BY <1>10, Left DEF Crash, CrashInStep, Dies
  <2>3. CASE pc[p] \in Begun
    BY <2>1, <2>2, <2>3 DEF Perishes
  <2>4. CASE pc[p] \notin Begun
    <3>1. crashed' = crashed
      BY <2>1, <2>4 DEF Begun, HistoryTyped
    <3> QED
      BY <2>1, <2>2, <2>4, <3>1 DEF Idles
  <2> QED
    BY <2>3, <2>4
<1> QED
  BY <1>1, <1>2, <1>3, <1>4, <1>5, <1>6, <1>7, <1>8, <1>9, <1>10
     DEF Acts, Prepare, Execute, Reconcile, Fault

-----------------------------------------------------------------------------
(* Interrupted transactions are found                                      *)

\* Nobody else has a process's transaction, no process has died in it, and while
\* it is under way its last state is not final.
OwnTx(p) ==
    pc[p] \in Begun =>
        /\ key[tx[p]] # Unused
        /\ crashed[tx[p]] = FALSE
        /\ pc[p] \in Executing => last[tx[p]] \in Unfinished
        /\ \A r \in Proc : r # p /\ pc[r] \in Begun => tx[r] # tx[p]

DeadTx(t) == crashed[t] = TRUE => key[t] # Unused /\ last[t] \in Unfinished

OwnInv ==
    /\ TypeInv
    /\ \A p \in Proc : OwnTx(p)
    /\ \A t \in TxId : DeadTx(t)

\* A transaction never gets an id again that another one had, and nothing else
\* gives one up.
LEMMA BeginsUnused ==
    ASSUME TypeInv, ~SameSecond, NEW p \in Proc, Begin(p)
    PROVE  \E t \in TxId :
              /\ key[t] = Unused
              /\ tx' = [tx EXCEPT ![p] = t]
              /\ key'[t] # Unused
              /\ \A u \in TxId : key[u] # Unused => key'[u] # Unused
<1>1. pc[p] = "ready" /\ plan[p] \in PlanType
  BY DEF Begin, TypeInv, InPlan, Planning
<1>2. KeysNow = {LaterSecond}
  BY DEF KeysNow
<1>3. \A t \in TxId : LaterSecond[t] \in {Unused, Spent} /\ (LaterSecond[t] = Unused <=> key[t] = Unused)
  BY NoneAssumption DEF LaterSecond
<1>4. {t \in TxId : LaterSecond[t] = plan[p]} = {}
  BY <1>1, <1>3, NoneAssumption
<1>5. PICK t \in TxId :
         /\ LaterSecond[t] = Unused
         /\ tx' = [tx EXCEPT ![p] = t]
         /\ key' = [LaterSecond EXCEPT ![t] = Spent]
  BY <1>2, <1>4 DEF Begin
<1>6. key' = [u \in TxId |-> IF u = t THEN Spent ELSE LaterSecond[u]]
  BY <1>5 DEF LaterSecond
<1>7. \A u \in TxId : key'[u] = IF u = t THEN Spent ELSE LaterSecond[u]
  BY <1>6
<1>8. key[t] = Unused /\ key'[t] # Unused
  BY <1>3, <1>5, <1>7, NoneAssumption
<1>9. \A u \in TxId : key[u] # Unused => key'[u] # Unused
  BY <1>3, <1>7, NoneAssumption
<1> QED
  BY <1>5, <1>8, <1>9

LEMMA ActKeepsOwn ==
    ASSUME OwnInv, ~SameSecond, NEW p \in Proc, Acts(p), TypeInv'
    PROVE  OwnInv'
<1>1. \A r \in Proc : r # p => pc'[r] = pc[r] /\ tx'[r] = tx[r]
  BY OthersStay DEF OwnInv, Same
<1>2. /\ tx \in [Proc -> TxId] /\ last \in [TxId -> JournalState \cup {"none"}]
      /\ crashed \in [TxId -> BOOLEAN] /\ tx' \in [Proc -> TxId]
  BY DEF OwnInv, TypeInv, TypeOK, StoreTyped, CommandTyped, HistoryTyped
<1>3. CASE Begin(p)
  <2>1. /\ pc[p] = "ready" /\ pc'[p] = "begin" /\ UNCHANGED <<last, crashed>>
    BY <1>3 DEF Begin, Goto, store, ghost, OwnInv, TypeInv, TypeOK, CommandTyped
  <2>2. PICK t \in TxId :
           /\ key[t] = Unused
           /\ tx' = [tx EXCEPT ![p] = t]
           /\ key'[t] # Unused
           /\ \A u \in TxId : key[u] # Unused => key'[u] # Unused
    BY <1>3, BeginsUnused DEF OwnInv
  <2>3. crashed[t] = FALSE
    BY <1>2, <2>2 DEF OwnInv, DeadTx
  <2>4. \A r \in Proc : OwnTx(r)'
    BY <1>1, <1>2, <2>1, <2>2, <2>3 DEF OwnInv, OwnTx, Begun, Executing
  <2>5. \A u \in TxId : DeadTx(u)'
    BY <2>1, <2>2 DEF OwnInv, DeadTx
  <2> QED
    BY <2>4, <2>5 DEF OwnInv
<1>4. CASE Idles(p)
  BY <1>1, <1>4 DEF Idles, OwnInv, OwnTx, DeadTx, Begun
<1>5. CASE Works(p)
  BY <1>1, <1>5 DEF Works, OwnInv, OwnTx, DeadTx, Begun
<1>6. CASE Logs(p)
  <2>1. PICK s \in Unfinished : last' = [last EXCEPT ![tx[p]] = s]
    BY <1>6 DEF Logs
  <2>2. \A t \in TxId : last'[t] = last[t] \/ (t = tx[p] /\ last'[t] \in Unfinished)
    BY <1>2, <2>1
  <2> QED
    BY <1>1, <1>2, <1>6, <2>1, <2>2 DEF Logs, OwnInv, OwnTx, DeadTx, Begun
<1>7. CASE Ends(p)
  <2>1. \A t \in TxId : t # tx[p] => last'[t] = last[t]
    BY <1>2, <1>7 DEF Ends
  <2> QED
    BY <1>1, <1>2, <1>7, <2>1 DEF Ends, OwnInv, OwnTx, DeadTx, Begun, Executing
<1>8. CASE Perishes(p)
  <2>1. \A t \in TxId : t # tx[p] => crashed'[t] = crashed[t]
    BY <1>2, <1>8 DEF Perishes
  <2>2. pc[p] \notin Executing => crashed' = crashed
    BY <1>2, <1>8 DEF Perishes
  <2>3. \A r \in Proc : OwnTx(r)'
    BY <1>1, <1>2, <1>8, <2>1 DEF Perishes, OwnInv, OwnTx, Begun, Executing
  <2>4. \A t \in TxId : DeadTx(t)'
    BY <1>2, <1>8, <2>1, <2>2 DEF Perishes, OwnInv, OwnTx, DeadTx
  <2> QED
    BY <2>3, <2>4 DEF OwnInv
<1>9. CASE Marks(p)
  <2>1. \A t \in TxId : last'[t] = last[t] \/ last'[t] = "reconciled"
    BY <1>2, <1>9 DEF Marks
  <2>2. "reconciled" \in Unfinished
    BY DEF Unfinished, JournalState
  <2> QED
    BY <1>1, <1>2, <1>9, <2>1, <2>2 DEF Marks, OwnInv, OwnTx, DeadTx, Begun
<1> QED
  BY <1>3, <1>4, <1>5, <1>6, <1>7, <1>8, <1>9, StepShapes DEF OwnInv

LEMMA NextKeepsOwn == ~SameSecond /\ OwnInv /\ [Next]_vars => OwnInv'
<1> SUFFICES ASSUME ~SameSecond, OwnInv, [Next]_vars
             PROVE  OwnInv'
  OBVIOUS
<1>1. TypeInv'
  BY NextKeepsTypes DEF OwnInv
<1>2. ASSUME UNCHANGED vars
      PROVE  OwnInv'
  BY <1>1, <1>2 DEF vars, store, local, ghost, OwnInv, OwnTx, DeadTx
<1> QED
  BY <1>1, <1>2, ActKeepsOwn DEF Next, Acts

LEMMA InitOwn == Init => OwnInv
<1> SUFFICES ASSUME Init
             PROVE  OwnInv
  OBVIOUS
<1>1. TypeInv
  BY InitTyped
<1> QED
  BY <1>1 DEF Init, OwnInv, OwnTx, DeadTx, Begun, Executing

\* When no two transactions begin within one second: whatever fails and whoever
\* else runs, a process that died inside a transaction left one that a later
\* `siorb reconcile` finds, until it has been reconciled.
THEOREM InterruptedIsFound == ASSUME ~SameSecond PROVE Spec => []InterruptedIsOpen
<1>1. Init => OwnInv
  BY InitOwn
<1>2. OwnInv /\ [Next]_vars => OwnInv'
  BY NextKeepsOwn
<1>3. OwnInv => InterruptedIsOpen
  <2> SUFFICES ASSUME OwnInv, NEW t \in TxId, crashed[t]
               PROVE  Required(t) \/ last[t] = "reconciled"
    BY DEF InterruptedIsOpen
  <2>1. crashed[t] = TRUE
    BY DEF OwnInv, TypeInv, TypeOK, HistoryTyped
  <2> QED
    BY <2>1 DEF OwnInv, DeadTx, Unfinished, JournalState, Required
<1> QED
  BY <1>1, <1>2, <1>3, PTL DEF Spec

-----------------------------------------------------------------------------
(* How a command ends                                                      *)

\* While a command runs it has no ending yet; it has changed the machine only if
\* it remembers so, or is about to.
HonestCommand(p) ==
    /\ pc[p] # "idle" => exit[p] = "none"
    /\ pc[p] \in {"planned", "ready", "begin"} \cup Reconciling => touched[p] = FALSE
    /\ pc[p] \in Executing /\ touched[p] = TRUE => changed[p] = TRUE \/ (pc[p] = "ran" /\ Mutates(p))
    /\ exit[p] \in {"failed", "no_change"} => touched[p] = FALSE

HonestInv == TypeInv /\ \A p \in Proc : HonestCommand(p)

LEMMA SameIsHonest ==
    ASSUME NEW r \in Proc, HonestCommand(r), Same(r)
    PROVE  HonestCommand(r)'
BY DEF HonestCommand, Same, Mutates, Op, Kind, Steps, Pkg

LEMMA LeaveIsHonest ==
    ASSUME TypeInv, NEW p \in Proc,
           NEW how \in {"success", "no_change", "planned", "failed", "partial", "died"},
           Leave(p, how),
           how \in {"failed", "no_change"} => touched'[p] = FALSE
    PROVE  HonestCommand(p)'
<1>1. pc'[p] = "idle" /\ exit'[p] = how
  BY DEF TypeInv, TypeOK, CommandTyped, Leave, Goto
<1> QED
  BY <1>1 DEF HonestCommand, Reconciling, Executing

LEMMA ActIsHonest ==
    ASSUME HonestInv, ~PartialBackend, ~JournalFaults, NEW p \in Proc, Acts(p)
    PROVE  HonestCommand(p)'
<1>1. /\ pc \in [Proc -> PC] /\ touched \in [Proc -> BOOLEAN] /\ changed \in [Proc -> BOOLEAN]
      /\ exit \in [Proc -> {"none", "success", "no_change", "planned", "failed", "partial", "died"}]
      /\ TypeInv /\ HonestCommand(p)
  BY DEF HonestInv, TypeInv, TypeOK, CommandTyped, HistoryTyped
<1>2. CASE BuildPlan(p) \/ ReadStatuses(p)
  BY <1>1, <1>2 DEF BuildPlan, ReadStatuses, Goto, HonestCommand, Executing, Reconciling
<1>3. CASE Revalidate(p) \/ Begin(p) \/ ReadReceipts(p) \/ QueryReceipt(p) \/ Judge(p)
  BY <1>1, <1>3 DEF Revalidate, Begin, ReadReceipts, QueryReceipt, Judge, Goto, local, ghost,
                    HonestCommand, Executing, Reconciling
<1>4. CASE Refuse(p) \/ Report(p) \/ MarkFails(p)
  <2>1. touched' = touched /\ touched[p] = FALSE
    BY <1>1, <1>4 DEF Refuse, Report, MarkFails, ghost, HonestCommand, Reconciling
  <2> QED
    BY <1>1, <1>4, <2>1, LeaveIsHonest DEF Refuse, Report, MarkFails
<1>5. CASE Mark(p)
  <2>1. touched' = touched /\ touched[p] = FALSE /\ pc[p] = "mark"
    BY <1>1, <1>5 DEF Mark, ghost, HonestCommand, Reconciling
  <2>2. CASE Leave(p, "success")
    BY <1>1, <2>2, LeaveIsHonest
  <2>3. CASE UNCHANGED <<pc, exit>>
    BY <1>1, <2>1, <2>3 DEF HonestCommand, Executing, Reconciling
  <2> QED
    BY <1>5, <2>2, <2>3 DEF Mark
<1>6. CASE RunMutation(p)
  <2>1. pc[p] = "run" /\ Mutates(p) /\ UNCHANGED <<plan, k, j, exit, changed>> /\ pc'[p] = "ran"
    BY <1>1, <1>6 DEF RunMutation, Goto, local
  <2>2. Mutates(p)'
    BY <2>1 DEF Mutates, Op, Kind, Steps, Pkg
  <2> QED
    BY <1>1, <2>1, <2>2 DEF HonestCommand, Executing, Reconciling
<1>7. CASE RunQuery(p) \/ RunDownload(p) \/ RunVerifyArtifact(p) \/ RunNoChange(p) \/ StepFails(p)
  BY <1>1, <1>7 DEF RunQuery, RunDownload, RunVerifyArtifact, RunNoChange, StepFails, Goto, local,
                    ghost, HonestCommand, Executing, Reconciling
<1>8. CASE StartTransaction(p) \/ StartStep(p) \/ FailStep(p) \/ RecordReceipts(p)
  BY <1>1, <1>8 DEF StartTransaction, StartStep, FailStep, RecordReceipts, Goto, local, ghost,
                    HonestCommand, Executing, Reconciling
<1>9. CASE RecordStep(p)
  <2>1. /\ pc[p] = "ran" /\ pc'[p] \in {"step", "receipts"} /\ touched' = touched /\ exit' = exit
        /\ changed' = [changed EXCEPT ![p] = @ \/ Mutates(p)]
    BY <1>1, <1>9 DEF RecordStep, Advance, Goto, ghost, Mutates
  <2>2. touched'[p] = TRUE => changed'[p] = TRUE
    BY <1>1, <2>1 DEF HonestCommand, Executing
  <2> QED
    BY <1>1, <2>1, <2>2 DEF HonestCommand, Executing, Reconciling
<1>10. CASE SkipReceipt(p) \/ CommitReceipt(p) \/ ReceiptFails(p)
  <2>1. /\ pc[p] = "receipts" /\ pc'[p] \in {"receipts", "unwritten", "commit", "closing"}
        /\ UNCHANGED <<touched, exit, changed>>
    BY <1>1, <1>10 DEF SkipReceipt, CommitReceipt, ReceiptFails, NextReceipt, Goto, local, ghost
  <2> QED
    BY <1>1, <2>1 DEF HonestCommand, Executing, Reconciling
<1>11. CASE FailTransaction(p) \/ FailReceipts(p) \/ Close(p)
  <2>1. pc[p] \in {"failing", "unwritten", "closing"} /\ touched' = touched
    BY <1>11 DEF FailTransaction, FailReceipts, Close, ghost
  <2>2. touched'[p] = FALSE \/ changed[p] = TRUE
    BY <1>1, <2>1 DEF HonestCommand, Executing
  <2>3. PICK how \in {"success", "no_change", "failed", "partial"} :
           Leave(p, how) /\ (changed[p] = TRUE => how \in {"partial", "success"})
    BY <1>11 DEF FailTransaction, FailReceipts, Close
  <2> QED
    BY <1>1, <2>2, <2>3, LeaveIsHonest
<1>12. CASE Crash(p) \/ CrashInStep(p)
  BY <1>1, <1>12, LeaveIsHonest DEF Crash, CrashInStep, Dies
<1>13. ~JournalFails(p)
  BY DEF JournalFails
<1> QED
  BY <1>2, <1>3, <1>4, <1>5, <1>6, <1>7, <1>8, <1>9, <1>10, <1>11, <1>12, <1>13
     DEF Acts, Prepare, Execute, Run, Reconcile, Fault

\* Unless an append to the journal fails, or a mutation that fails has changed
\* the machine all the same: a command that ends as a clean failure, or reports
\* that it changed nothing, has left the machine alone, whoever else runs.
THEOREM ExitIsHonest == ASSUME ~PartialBackend, ~JournalFaults PROVE Spec => []ExitHonest
<1>1. Init => HonestInv
  <2> SUFFICES ASSUME Init
               PROVE  HonestInv
    OBVIOUS
  <2>1. TypeInv
    BY InitTyped
  <2> QED
    BY <2>1 DEF Init, HonestInv, HonestCommand, Executing, Reconciling
<1>2. HonestInv /\ [Next]_vars => HonestInv'
  <2> SUFFICES ASSUME HonestInv, [Next]_vars
               PROVE  HonestInv'
    OBVIOUS
  <2>1. TypeInv'
    BY NextKeepsTypes DEF HonestInv
  <2>2. ASSUME UNCHANGED vars, NEW r \in Proc
        PROVE  HonestCommand(r)'
    <3>1. Same(r)
      BY <2>2 DEF vars, local, recon, ghost, Same
    <3> QED
      BY <3>1, SameIsHonest DEF HonestInv
  <2>3. ASSUME NEW p \in Proc, Acts(p), NEW r \in Proc
        PROVE  HonestCommand(r)'
    <3>1. CASE r = p
      BY <2>3, <3>1, ActIsHonest
    <3>2. CASE r # p
      BY <2>3, <3>2, OthersStay, SameIsHonest DEF HonestInv
    <3> QED
      BY <3>1, <3>2
  <2> QED
    BY <2>1, <2>2, <2>3 DEF HonestInv, Next, Acts
<1>3. HonestInv => ExitHonest
  BY DEF HonestInv, HonestCommand, ExitHonest
<1> QED
  BY <1>1, <1>2, <1>3, PTL DEF Spec

-----------------------------------------------------------------------------
(* Changes stay in sight                                                   *)

Done(e) == <<e.tx, e.pkg>> \in recorded

\* What process p, in the transaction of change e, still knows of it: the journal
\* has a completed step, or is about to; the receipt of its package is one it
\* will write; and where it is in doing so.
Accounted(p, e) ==
    /\ pc[p] # "begin"
    /\ PartialMutation(tx[p]) \/ (pc[p] = "ran" /\ Mutates(p))
    /\ RequiresReceiptCommit(plan[p], e.pkg)
    /\ \E i \in 1..Len(plan[p].pkgs) : plan[p].pkgs[i] = e.pkg
    /\ pc[p] \in {"receipts", "unwritten"} =>
          \A i \in 1..Len(plan[p].pkgs) : i < k[p] /\ plan[p].pkgs[i] = e.pkg => Done(e)
    /\ pc[p] \in {"commit", "closing"} => Done(e)

AccountedFor(p) == pc[p] \in Begun => \A e \in effects : e.tx = tx[p] => Accounted(p, e)

SightInv ==
    /\ OwnInv
    /\ OpenUntilRecorded
    /\ \A e \in effects : key[e.tx] # Unused
    /\ \A p \in Proc : AccountedFor(p)

\* The change process p makes by running its step.
Change(p) == [tx |-> tx[p], step |-> StepOf(p), pkg |-> Pkg(p)]

LEMMA HistoryGrows ==
    ASSUME NEW p \in Proc, Acts(p)
    PROVE  /\ recorded \subseteq recorded'
           /\ journal \subseteq journal'
           /\ \A e \in effects' \ effects : pc[p] = "run" /\ Mutates(p) /\ e = Change(p)
           /\ effects' # effects => RunMutation(p) \/ CrashInStep(p)
<1>1. journal \subseteq journal'
  BY JournalOnlyGrows DEF Acts, Next
<1>2. CASE RunMutation(p) \/ CrashInStep(p)
  <2>1. pc[p] = "run" /\ Mutates(p) /\ recorded' = recorded /\ \E v : Mutate(p, v)
    BY <1>2 DEF RunMutation, CrashInStep
  <2>2. effects' = effects \/ effects' = effects \cup {Change(p)}
    BY <2>1 DEF Mutate, Change
  <2> QED
    BY <1>1, <1>2, <2>1, <2>2
<1>3. CASE ~RunMutation(p) /\ ~CrashInStep(p)
  <2>1. CASE Prepare(p)
    BY <1>1, <2>1 DEF Prepare, BuildPlan, Revalidate, Refuse, Begin, ghost
  <2>2. CASE Run(p)
    BY <1>1, <1>3, <2>2 DEF Run, RunQuery, RunDownload, RunVerifyArtifact, RunNoChange, StepFails, ghost
  <2>3. CASE SkipReceipt(p) \/ CommitReceipt(p) \/ ReceiptFails(p)
    BY <1>1, <2>3 DEF SkipReceipt, CommitReceipt, ReceiptFails, SaveReceipt, ghost
  <2>4. CASE StartTransaction(p) \/ StartStep(p) \/ RecordStep(p) \/ FailStep(p)
             \/ FailTransaction(p) \/ FailReceipts(p) \/ RecordReceipts(p) \/ Close(p)
             \/ JournalFails(p) \/ Crash(p)
    BY <1>1, <2>4 DEF StartTransaction, StartStep, RecordStep, FailStep, FailTransaction,
       FailReceipts, RecordReceipts, Close, JournalFails, Crash, ghost
  <2>5. CASE Reconcile(p)
    BY <1>1, <2>5 DEF Reconcile, ReadStatuses, ReadReceipts, QueryReceipt, Judge, Report, Mark,
                      MarkFails, ghost
  <2> QED
    BY <1>3, <2>1, <2>2, <2>3, <2>4, <2>5 DEF Acts, Execute, Fault
<1> QED
  BY <1>2, <1>3

\* A step that changes the machine obliges its plan to write the receipt.
LEMMA MutatingIsRecordable ==
    ASSUME TypeInv, NEW p \in Proc, pc[p] \in Stepping, Mutates(p)
    PROVE  RequiresReceiptCommit(plan[p], Pkg(p))
<1>1. /\ j[p] \in 1..Len(Steps(p)) /\ plan[p] \in PlanType /\ Pkg(p) \in Package
      /\ Op(p) \in Operation
  BY PlanFacts DEF TypeInv, InPlan, Executing, Stepping, Planning
<1>2. DOMAIN Steps(p) = 1..Len(Steps(p))
  BY <1>1, StepsAreTyped DEF Steps
<1> QED
  BY <1>1, <1>2 DEF Mutates, CommitsMachineState, RequiresReceiptCommit, Op, Kind, Steps

\* The change of a running process is accounted for from the start.
LEMMA ChangeIsAccounted ==
    ASSUME TypeInv, NEW p \in Proc, RunMutation(p), pc'[p] = "ran"
    PROVE  Accounted(p, Change(p))'
<1>1. pc[p] = "run" /\ Mutates(p) /\ UNCHANGED <<plan, tx, k, j>>
  BY DEF RunMutation, local
<1>2. Mutates(p)' /\ Pkg(p)' = Pkg(p) /\ Change(p)' = Change(p)
  BY <1>1 DEF Mutates, Op, Kind, Steps, Pkg, Change, StepOf
<1>3. RequiresReceiptCommit(plan[p], Pkg(p))
  BY <1>1, MutatingIsRecordable DEF Stepping
<1>4. k[p] \in 1..Len(plan[p].pkgs) /\ plan[p].pkgs[k[p]] = Pkg(p)
  BY <1>1 DEF TypeInv, InPlan, Executing, Pkg
<1>5. Change(p).pkg = Pkg(p)
  BY DEF Change
<1> QED
  BY <1>1, <1>2, <1>3, <1>4, <1>5 DEF Accounted

\* After the receipts of the first packages, those of one more.
LEMMA NextIsAccounted ==
    ASSUME TypeInv, NEW p \in Proc, pc[p] = "receipts", NEW w, NextReceipt(p, w),
           UNCHANGED <<plan, tx>>, journal \subseteq journal', recorded \subseteq recorded',
           NEW e, Accounted(p, e), e.pkg = Pkg(p) => Done(e)'
    PROVE  Accounted(p, e)'
<1>1. /\ k[p] \in 1..Len(plan[p].pkgs) /\ Len(plan[p].pkgs) \in Nat /\ k[p] \in Nat
      /\ pc \in [Proc -> PC] /\ k \in [Proc -> 1..MaxPackages]
  BY PlanFacts, MaxPackagesIsPositive DEF TypeInv, TypeOK, CommandTyped, InPlan, Executing
<1>2. Done(e) => Done(e)'
  BY DEF Done
<1>3. \A i \in 1..Len(plan[p].pkgs) : i < k[p] + 1 /\ plan[p].pkgs[i] = e.pkg => Done(e)'
  <2> SUFFICES ASSUME NEW i \in 1..Len(plan[p].pkgs), i < k[p] + 1, plan[p].pkgs[i] = e.pkg
               PROVE  Done(e)'
    OBVIOUS
  <2>1. CASE i = k[p]
    BY <2>1 DEF Pkg
  <2>2. CASE i < k[p]
    BY <1>2, <2>2 DEF Accounted
  <2> QED
    BY <1>1, <2>1, <2>2
<1>4. plan'[p] = plan[p] /\ tx'[p] = tx[p]
  OBVIOUS
<1>5. PartialMutation(tx[p])
  BY DEF Accounted
<1>6. PartialMutation(tx[p])'
  BY <1>4, <1>5 DEF PartialMutation
<1>7. CASE k[p] < Len(plan[p].pkgs)
  <2>1. k'[p] = k[p] + 1 /\ pc'[p] = "receipts"
    BY <1>1, <1>7 DEF NextReceipt
  <2> QED
    BY <1>3, <1>4, <1>6, <2>1 DEF Accounted
<1>8. CASE ~(k[p] < Len(plan[p].pkgs))
  <2>1. pc'[p] \in {"commit", "closing"}
    BY <1>1, <1>8 DEF NextReceipt, Goto
  <2>2. \A i \in 1..Len(plan[p].pkgs) : i < k[p] + 1
    BY <1>1, <1>8
  <2>3. Done(e)'
    BY <1>3, <2>2 DEF Accounted
  <2> QED
    BY <1>4, <1>6, <2>1, <2>3 DEF Accounted
<1> QED
  BY <1>7, <1>8

\* A process that stays where nothing is recorded and nothing completed.
LEMMA MoveKeepsAccount ==
    ASSUME NEW p \in Proc, pc[p] \in Executing, UNCHANGED <<plan, tx>>,
           journal \subseteq journal', recorded \subseteq recorded', NEW e, Accounted(p, e),
           \/ pc'[p] \in {"step", "run", "ran", "failed", "failing"} /\ pc[p] # "ran"
           \/ pc[p] = "receipts" /\ pc'[p] = "unwritten" /\ k'[p] = k[p]
           \/ pc[p] = "commit" /\ pc'[p] = "closing"
    PROVE  Accounted(p, e)'
<1>1. plan'[p] = plan[p] /\ tx'[p] = tx[p]
  OBVIOUS
<1>2. PartialMutation(tx[p]) => PartialMutation(tx[p])'
  BY <1>1 DEF PartialMutation
<1>3. Done(e) => Done(e)'
  BY DEF Done
<1> QED
  BY <1>1, <1>2, <1>3 DEF Accounted

LEMMA RecordKeepsAccount ==
    ASSUME TypeInv, NEW p \in Proc, RecordStep(p), journal \subseteq journal', NEW e, Accounted(p, e)
    PROVE  Accounted(p, e)'
<1>1. /\ pc[p] = "ran" /\ plan'[p] = plan[p] /\ tx'[p] = tx[p] /\ Write(p)
      /\ recorded' = recorded
  BY DEF RecordStep, ghost
<1>2. pc'[p] = "step" \/ (pc'[p] = "receipts" /\ k'[p] = 1)
  BY DEF RecordStep, Advance, Goto, TypeInv, TypeOK, CommandTyped
<1>3. PartialMutation(tx[p])'
  <2>1. CASE PartialMutation(tx[p])
    BY <1>1, <2>1 DEF PartialMutation
  <2>2. CASE Mutates(p)
    <3>1. Pending(p) = <<"step_completed", StepOf(p)>>
      BY <1>1, <2>2 DEF Pending, CompletionState, Mutates
    <3>2. [tx |-> tx[p], state |-> "step_completed", step |-> StepOf(p)] \in journal'
      BY <1>1, <3>1 DEF Write, AppendEvent
    <3> QED
      BY <1>1, <3>2 DEF PartialMutation
  <2> QED
    BY <2>1, <2>2 DEF Accounted
<1>4. \A i \in 1..Len(plan[p].pkgs) : ~(i < 1)
  BY PlanFacts, <1>1 DEF Executing
<1> QED
  BY <1>1, <1>2, <1>3, <1>4 DEF Accounted

LEMMA ActKeepsAccount ==
    ASSUME SightInv, ~SameSecond, ~PartialBackend, NEW p \in Proc, Acts(p)
    PROVE  AccountedFor(p)'
<1>1. TypeInv /\ pc \in [Proc -> PC] /\ tx \in [Proc -> TxId] /\ AccountedFor(p)
  BY DEF SightInv, OwnInv, TypeInv, TypeOK, CommandTyped
<1>2. /\ recorded \subseteq recorded' /\ journal \subseteq journal'
      /\ \A e \in effects' \ effects : pc[p] = "run" /\ Mutates(p) /\ e = Change(p)
      /\ effects' # effects => RunMutation(p) \/ CrashInStep(p)
  BY HistoryGrows
<1>3. CASE Begin(p)
  <2>1. effects' = effects
    BY <1>3 DEF Begin, ghost
  <2>2. PICK t \in TxId : key[t] = Unused /\ tx' = [tx EXCEPT ![p] = t]
    BY <1>1, <1>3, BeginsUnused
  <2>3. \A e \in effects' : e.tx # tx'[p]
    BY <1>1, <2>1, <2>2 DEF SightInv
  <2> QED
    BY <2>3 DEF AccountedFor
<1>4. CASE pc'[p] \notin Begun
  BY <1>4 DEF AccountedFor
<1>5. ASSUME pc[p] \in Begun, UNCHANGED <<effects, tx>>,
             \A e \in effects : e.tx = tx[p] /\ Accounted(p, e) => Accounted(p, e)'
      PROVE  AccountedFor(p)'
  BY <1>1, <1>5 DEF AccountedFor
<1>6. CASE RunMutation(p)
  <2>1. /\ pc[p] = "run" /\ pc'[p] = "ran" /\ UNCHANGED <<plan, tx>>
    BY <1>1, <1>6 DEF RunMutation, Goto, local
  <2>2. \A e \in effects : e.tx = tx[p] => Accounted(p, e)
    BY <1>1, <2>1 DEF AccountedFor, Begun, Executing
  <2>3. \A e \in effects : e.tx = tx[p] => Accounted(p, e)'
    BY <1>2, <2>1, <2>2, MoveKeepsAccount DEF Executing
  <2>4. Accounted(p, Change(p))'
    BY <1>1, <1>6, <2>1, ChangeIsAccounted
  <2>5. Change(p)' = Change(p)
    BY <1>6 DEF RunMutation, local, Change, StepOf, Pkg
  <2>6. ASSUME NEW e \in effects', e.tx = tx'[p]
        PROVE  Accounted(p, e)'
    BY <1>2, <2>1, <2>3, <2>4, <2>5, <2>6
  <2> QED
    BY <2>6 DEF AccountedFor
<1>7. CASE RunQuery(p) \/ RunDownload(p) \/ RunVerifyArtifact(p) \/ RunNoChange(p) \/ StepFails(p)
           \/ StartStep(p) \/ FailStep(p) \/ RecordReceipts(p)
  <2>1. /\ UNCHANGED <<plan, tx>>
        /\ \/ pc[p] \in {"run", "step", "failed"} /\ pc'[p] \in {"step", "run", "ran", "failed", "failing"}
           \/ pc[p] = "commit" /\ pc'[p] = "closing"
    BY <1>1, <1>7 DEF RunQuery, RunDownload, RunVerifyArtifact, RunNoChange, StepFails,
       StartStep, FailStep, RecordReceipts, Goto, local
  <2>2. effects' = effects
    BY <1>7 DEF RunQuery, RunDownload, RunVerifyArtifact, RunNoChange, StepFails,
       StartStep, FailStep, RecordReceipts, ghost
  <2> QED
    BY <1>2, <1>5, <2>1, <2>2, MoveKeepsAccount DEF Begun, Executing
<1>8. CASE StartTransaction(p)
  <2>1. pc[p] = "begin" /\ UNCHANGED <<tx, effects>>
    BY <1>8 DEF StartTransaction, local, ghost
  <2>2. \A e \in effects : e.tx # tx[p]
    BY <1>1, <2>1 DEF AccountedFor, Accounted, Begun
  <2> QED
    BY <2>1, <2>2 DEF AccountedFor
<1>9. CASE RecordStep(p)
  <2>1. pc[p] = "ran" /\ UNCHANGED <<tx, effects>>
    BY <1>9 DEF RecordStep, ghost
  <2> QED
    BY <1>1, <1>2, <1>5, <1>9, <2>1, RecordKeepsAccount DEF Begun, Executing
<1>10. CASE ReceiptFails(p)
  <2>1. pc[p] = "receipts" /\ pc'[p] = "unwritten" /\ UNCHANGED <<plan, tx, k, effects>>
    BY <1>1, <1>10 DEF ReceiptFails, Goto, local
  <2> QED
    BY <1>2, <1>5, <2>1, MoveKeepsAccount DEF Begun, Executing
<1>11. CASE SkipReceipt(p)
  <2>1. /\ pc[p] = "receipts" /\ UNCHANGED <<plan, tx, effects>> /\ NextReceipt(p, wrote[p])
        /\ ~RequiresReceiptCommit(plan[p], Pkg(p))
    BY <1>11 DEF SkipReceipt, ghost
  <2>2. ASSUME NEW e \in effects, Accounted(p, e)
        PROVE  Accounted(p, e)'
    <3>1. e.pkg # Pkg(p)
      BY <2>1, <2>2 DEF Accounted
    <3> QED
      BY <1>1, <1>2, <2>1, <2>2, <3>1, NextIsAccounted
  <2> QED
    BY <1>5, <2>1, <2>2 DEF Begun, Executing
<1>12. CASE CommitReceipt(p)
  <2>1. /\ pc[p] = "receipts" /\ UNCHANGED <<plan, tx, effects>> /\ NextReceipt(p, TRUE)
        /\ recorded' = recorded \cup {<<tx[p], Pkg(p)>>}
    BY <1>12 DEF CommitReceipt, SaveReceipt
  <2>2. ASSUME NEW e \in effects, e.tx = tx[p], Accounted(p, e)
        PROVE  Accounted(p, e)'
    <3>1. e.pkg = Pkg(p) => Done(e)'
      BY <2>1, <2>2 DEF Done
    <3> QED
      BY <1>1, <1>2, <2>1, <2>2, <3>1, NextIsAccounted
  <2> QED
    BY <1>5, <2>1, <2>2 DEF Begun, Executing
<1>13. ASSUME Refuse(p) \/ Crash(p) \/ CrashInStep(p) \/ JournalFails(p) \/ FailTransaction(p)
              \/ FailReceipts(p) \/ Close(p) \/ Report(p) \/ MarkFails(p)
       PROVE  pc'[p] \notin Begun
  BY <1>1, <1>13, Left DEF Refuse, Crash, CrashInStep, Dies, JournalFails, FailTransaction,
     FailReceipts, Close, Report, MarkFails
<1>14. ASSUME BuildPlan(p) \/ Revalidate(p) \/ ReadStatuses(p) \/ ReadReceipts(p) \/ QueryReceipt(p)
              \/ Judge(p) \/ Mark(p)
       PROVE  pc'[p] \notin Begun
  BY <1>1, <1>14, Left DEF BuildPlan, Revalidate, ReadStatuses, ReadReceipts, QueryReceipt, Judge,
     Mark, Goto, Begun, Executing
<1> QED
  BY <1>3, <1>4, <1>6, <1>7, <1>8, <1>9, <1>10, <1>11, <1>12, <1>13, <1>14
     DEF Acts, Prepare, Execute, Run, Reconcile, Fault

\* Another process's account of its changes does not depend on what p does.
LEMMA OthersKeepAccount ==
    ASSUME SightInv, ~SameSecond, NEW p \in Proc, Acts(p), NEW r \in Proc, r # p
    PROVE  AccountedFor(r)'
<1> SUFFICES ASSUME pc'[r] \in Begun, NEW e \in effects', e.tx = tx'[r]
             PROVE  Accounted(r, e)'
  BY DEF AccountedFor
<1>1. Same(r)
  BY OthersStay DEF SightInv, OwnInv
<1>2. pc[r] \in Begun /\ tx'[r] = tx[r] /\ plan'[r] = plan[r] /\ pc'[r] = pc[r] /\ k'[r] = k[r]
  BY <1>1 DEF Same
<1>3. /\ recorded \subseteq recorded' /\ journal \subseteq journal'
      /\ \A f \in effects' \ effects : pc[p] = "run" /\ f = Change(p)
  BY HistoryGrows
<1>4. e \in effects
  <2>1. SUFFICES ASSUME pc[p] = "run", e = Change(p)
                 PROVE  FALSE
    BY <1>3
  <2>2. tx[p] = tx[r]
    BY <1>2, <2>1 DEF Change
  <2>3. pc[p] \in Begun
    BY <2>1 DEF Begun, Executing
  <2> QED
    BY <1>2, <2>2, <2>3 DEF SightInv, OwnInv, OwnTx
<1>5. Accounted(r, e)
  BY <1>2, <1>4 DEF SightInv, AccountedFor
<1>6. PartialMutation(tx[r]) => PartialMutation(tx[r])'
  BY <1>2, <1>3 DEF PartialMutation
<1>7. Mutates(r) => Mutates(r)'
  BY <1>1 DEF Same, Mutates, Op, Kind, Steps, Pkg
<1>8. Done(e) => Done(e)'
  BY <1>3 DEF Done
<1> QED
  BY <1>2, <1>5, <1>6, <1>7, <1>8 DEF Accounted

\* What is not Live or has been left stays in sight.
InSight(e) == Required(e.tx) \/ last[e.tx] = "reconciled" \/ Done(e)

LEMMA UnfinishedIsInSight ==
    ASSUME NEW e, last[e.tx] \in Unfinished
    PROVE  InSight(e)
BY DEF InSight, Required, Unfinished, JournalState

LEMMA ActKeepsSight ==
    ASSUME SightInv, ~SameSecond, ~PartialBackend, NEW p \in Proc, Acts(p), TypeInv',
           NEW e \in effects'
    PROVE  Live(e.tx)' \/ InSight(e)'
<1>1. /\ TypeInv /\ OwnInv /\ tx \in [Proc -> TxId] /\ last \in [TxId -> JournalState \cup {"none"}]
      /\ AccountedFor(p) /\ OwnTx(p) /\ pc \in [Proc -> PC]
  BY DEF SightInv, OwnInv, TypeInv, TypeOK, StoreTyped, CommandTyped
<1>2. /\ recorded \subseteq recorded' /\ journal \subseteq journal'
      /\ \A f \in effects' \ effects : pc[p] = "run" /\ Mutates(p) /\ f = Change(p)
      /\ effects' # effects => RunMutation(p) \/ CrashInStep(p)
  BY HistoryGrows
<1>3. Done(e) => Done(e)'
  BY <1>2 DEF Done
<1>4. PartialMutation(e.tx) => PartialMutation(e.tx)'
  BY <1>2 DEF PartialMutation
<1>5. e.tx \in TxId
  BY DEF TypeInv, TypeOK, HistoryTyped, Effect
<1>6. e \notin effects => pc[p] = "run" /\ e.tx = tx[p]
  BY <1>2 DEF Change
\* Whatever the transaction's state becomes, the change stays in sight if it was.
<1>7. ASSUME InSight(e), last'[e.tx] = last[e.tx] \/ last'[e.tx] = "reconciled"
      PROVE  InSight(e)'
  BY <1>3, <1>4, <1>7 DEF InSight, Required
<1>8. ASSUME last'[e.tx] \in Unfinished
      PROVE  InSight(e)'
  BY <1>8 DEF InSight, Required, Unfinished, JournalState
<1>9. CASE \E r \in Proc : r # p /\ pc[r] \in Executing /\ tx[r] = e.tx
  BY <1>9, OthersStay, <1>1 DEF Same, Live
<1>10. CASE pc[p] \in Executing /\ tx[p] = e.tx
  <2>1. CASE pc'[p] \in Executing /\ tx'[p] = tx[p]
    BY <1>10, <2>1 DEF Live
  <2>2. CASE last' = last
    BY <1>1, <1>8, <1>10, <2>2 DEF OwnTx, Begun
  <2>3. CASE Ends(p)
    <3>1. SUFFICES ASSUME NEW s \in JournalState,
                          last' = [last EXCEPT ![tx[p]] = s],
                          s = "transaction_failed" => pc[p] \in {"failing", "unwritten"},
                          s = "transaction_completed" => pc[p] = "closing"
                   PROVE  InSight(e)'
      BY <2>2, <2>3 DEF Ends
    <3>2. last'[e.tx] = s
      BY <1>1, <1>10, <3>1
    <3>3. Accounted(p, e)
      BY <1>1, <1>6, <1>10, <2>3 DEF Ends, AccountedFor, Begun
    <3>4. CASE s \in Unfinished
      BY <1>8, <3>2, <3>4
    <3>5. CASE s = "transaction_failed"
      <4>1. PartialMutation(e.tx)
        BY <1>10, <3>1, <3>3, <3>5 DEF Accounted
      <4> QED
        BY <1>4, <3>2, <3>5, <4>1 DEF InSight, Required
    <3>6. CASE s = "transaction_completed"
      BY <1>3, <3>1, <3>3, <3>6 DEF Accounted, InSight
    <3> QED
      BY <3>1, <3>4, <3>5, <3>6 DEF Unfinished
  <2> QED
    BY <1>1, <1>10, <2>1, <2>2, <2>3, StepShapes DEF Begin, Idles, Works, Logs, Perishes, Marks, Begun, Executing
<1>11. CASE ~Live(e.tx)
  <2>1. e \in effects
    BY <1>6, <1>11 DEF Live, Executing
  <2>2. InSight(e)
    BY <1>11, <2>1 DEF SightInv, OpenUntilRecorded, InSight, Done
  <2>3. pc[p] \in Begun => tx[p] # e.tx
    <3>1. CASE pc[p] = "begin"
      BY <1>1, <2>1, <3>1 DEF AccountedFor, Accounted, Begun
    <3>2. CASE pc[p] \in Executing
      BY <1>11, <3>2 DEF Live
    <3> QED
      BY <3>1, <3>2 DEF Begun
  <2>4. last'[e.tx] = last[e.tx] \/ last'[e.tx] = "reconciled"
    <3>1. CASE Begin(p) \/ Idles(p) \/ Works(p) \/ Perishes(p)
      BY <3>1 DEF Begin, store, Idles, Works, Perishes
    <3>2. CASE Logs(p) \/ Ends(p)
      BY <1>1, <1>5, <2>3, <3>2 DEF Logs, Ends
    <3>3. CASE Marks(p)
      BY <1>1, <1>5, <3>3 DEF Marks
    <3> QED
      BY <1>1, <3>1, <3>2, <3>3, StepShapes
  <2> QED
    BY <1>7, <2>2, <2>4
<1> QED
  BY <1>9, <1>10, <1>11 DEF Live

LEMMA NextKeepsSight == ~SameSecond /\ ~PartialBackend /\ SightInv /\ [Next]_vars => SightInv'
<1> SUFFICES ASSUME ~SameSecond, ~PartialBackend, SightInv, [Next]_vars
             PROVE  SightInv'
  OBVIOUS
<1>1. OwnInv'
  BY NextKeepsOwn DEF SightInv
<1>2. CASE UNCHANGED vars
  BY <1>1, <1>2 DEF vars, store, local, ghost, SightInv, OpenUntilRecorded, Live, Required,
     PartialMutation, AccountedFor, Accounted, Done, Mutates, Op, Kind, Steps, Pkg
<1>3. ASSUME NEW p \in Proc, Acts(p)
      PROVE  SightInv'
  <2>1. \A e \in effects' : Live(e.tx)' \/ InSight(e)'
    BY <1>1, <1>3, ActKeepsSight DEF OwnInv
  <2>2. OpenUntilRecorded'
    BY <2>1 DEF OpenUntilRecorded, InSight, Done
  <2>3. \A r \in Proc : AccountedFor(r)'
    BY <1>3, ActKeepsAccount, OthersKeepAccount
  <2>4. \A t \in TxId : key[t] # Unused => key'[t] # Unused
    <3>1. CASE Begin(p)
      BY <3>1, BeginsUnused DEF SightInv, OwnInv
    <3>2. CASE ~Begin(p)
      BY <1>3, <3>2, StepShapes DEF SightInv, OwnInv, Idles, Works, Logs, Ends, Perishes, Marks
    <3> QED
      BY <3>1, <3>2
  <2>5. ASSUME NEW e \in effects'
        PROVE  key'[e.tx] # Unused
    <3>1. e.tx \in TxId
      BY <1>1 DEF OwnInv, TypeInv, TypeOK, HistoryTyped, Effect
    <3>2. key[e.tx] # Unused
      <4>1. CASE e \in effects
        BY <4>1 DEF SightInv
      <4>2. CASE e \notin effects
        <5>1. pc[p] = "run" /\ e.tx = tx[p]
          BY <1>3, <4>2, HistoryGrows DEF Change
        <5> QED
          BY <5>1 DEF SightInv, OwnInv, OwnTx, Begun, Executing
      <4> QED
        BY <4>1, <4>2
    <3> QED
      BY <2>4, <3>1, <3>2
  <2> QED
    BY <1>1, <2>2, <2>3, <2>5 DEF SightInv
<1> QED
  BY <1>2, <1>3 DEF Next, Acts

LEMMA InitSight == Init => SightInv
<1> SUFFICES ASSUME Init
             PROVE  SightInv
  OBVIOUS
<1>1. OwnInv
  BY InitOwn
<1> QED
  BY <1>1 DEF Init, SightInv, OpenUntilRecorded, AccountedFor

\* When no two transactions begin within one second and a failed mutation has
\* changed nothing: whatever else fails, whoever crashes and whoever runs besides,
\* a change of the machine is one of a transaction that runs or is found by
\* `siorb reconcile`, or is reconciled, or is in the receipts.
THEOREM ChangesStayInSight ==
    ASSUME ~SameSecond, ~PartialBackend
    PROVE  Spec => []OpenUntilRecorded
<1>1. Init => SightInv
  BY InitSight
<1>2. SightInv /\ [Next]_vars => SightInv'
  BY NextKeepsSight
<1>3. SightInv => OpenUntilRecorded
  BY DEF SightInv
<1> QED
  BY <1>1, <1>2, <1>3, PTL DEF Spec

\* If besides no append to the journal fails, the command also says so when it ends.
THEOREM NothingIsHidden ==
    ASSUME ~SameSecond, ~PartialBackend, ~JournalFaults
    PROVE  Spec => []NoChangeIsHidden
<1>1. Spec => []OpenUntilRecorded
  BY ChangesStayInSight
<1>2. Spec => []ExitHonest
  BY ExitIsHonest
<1>3. OpenUntilRecorded /\ ExitHonest => NoChangeIsHidden
  BY DEF NoChangeIsHidden
<1> QED
  BY <1>1, <1>2, <1>3, PTL

-----------------------------------------------------------------------------
(* What is reconciled is recorded: plans of one package                    *)

Untouched(t) ==
    /\ last[t] = "none"
    /\ \A e \in effects : e.tx # t
    /\ \A q \in Package : <<t, q>> \notin recorded

Recorded(t) == \E q \in Package : <<t, q>> \in recorded

\* A transaction is about the one package of its plan, and writes receipts last.
OnePackageTx(p) ==
    pc[p] \in Begun =>
        /\ pc[p] = "begin" => Untouched(tx[p])
        /\ \A e \in effects : e.tx = tx[p] => e.pkg = Pkg(p)
        /\ \A q \in Package : <<tx[p], q>> \in recorded =>
              pc[p] \in {"unwritten", "commit", "closing"} /\ q = Pkg(p)

\* Receipts, wherever they were read, name transactions that recorded them, and
\* only such ones are marked.
NamesRecorded(f) == \A q \in Package : f[q] # NoReceipt => <<f[q].tx, q>> \in recorded
JudgesRecorded(p) ==
    /\ NamesRecorded(view[p])
    /\ pc[p] = "mark" => \A t \in due[p] : Recorded(t)

TxRecord(t) ==
    /\ key[t] = Unused => Untouched(t)
    /\ last[t] = "reconciled" => Recorded(t)

RecordInv ==
    /\ OwnInv
    /\ \A t \in TxId : TxRecord(t)
    /\ \A e \in effects : \A q \in Package : <<e.tx, q>> \in recorded => q = e.pkg
    /\ NamesRecorded(receipt)
    /\ \A p \in Proc : OnePackageTx(p) /\ JudgesRecorded(p)

LEMMA OnePackage ==
    ASSUME TypeInv, MaxPackages = 1, NEW p \in Proc, pc[p] \in Begun
    PROVE  /\ k[p] = 1
           /\ plan[p] \in PlanType
           /\ Len(plan[p].pkgs) = 1
           /\ Pkg(p) = plan[p].pkgs[1]
           /\ Pkg(p) \in Package
<1>1. plan[p] \in PlanType /\ k[p] \in 1..1
  BY DEF TypeInv, TypeOK, CommandTyped, InPlan, Planning, Begun
<1>2. Len(plan[p].pkgs) \in 1..1 /\ plan[p].pkgs[1] \in Package
  BY <1>1, PackageListIsSeq DEF PlanType
<1> QED
  BY <1>1, <1>2 DEF Pkg

\* Where a transaction goes on, it is the same one, and it does not go back.
LEMMA GoesOn ==
    ASSUME TypeInv, NEW p \in Proc, Acts(p), pc'[p] \in Begun, ~Begin(p)
    PROVE  /\ pc[p] \in Begun /\ pc'[p] \in Executing
           /\ plan'[p] = plan[p] /\ tx'[p] = tx[p]
           /\ pc[p] # "unwritten"
           /\ pc[p] = "commit" => pc'[p] = "closing"
           /\ pc[p] # "closing"
           /\ MaxPackages = 1 /\ pc[p] = "receipts" => pc'[p] \in {"unwritten", "commit", "closing"}
<1>0. MaxPackages = 1 /\ pc[p] = "receipts" => k[p] = 1 /\ Len(plan[p].pkgs) = 1
  BY OnePackage DEF Begun, Executing
<1> USE DEF TypeInv, TypeOK, CommandTyped
<1>1. ASSUME Refuse(p) \/ Crash(p) \/ CrashInStep(p) \/ JournalFails(p) \/ FailTransaction(p)
             \/ FailReceipts(p) \/ Close(p) \/ Report(p) \/ MarkFails(p)
      PROVE  pc'[p] \notin Begun
  BY <1>1, Left DEF Refuse, Crash, CrashInStep, Dies, JournalFails, FailTransaction,
     FailReceipts, Close, Report, MarkFails
<1>2. ASSUME BuildPlan(p) \/ Revalidate(p) \/ ReadStatuses(p) \/ ReadReceipts(p) \/ QueryReceipt(p)
             \/ Judge(p) \/ Mark(p)
      PROVE  pc'[p] \notin Begun
  BY <1>2, Left DEF BuildPlan, Revalidate, ReadStatuses, ReadReceipts, QueryReceipt, Judge,
     Mark, Goto, Begun, Executing
<1>3. CASE Run(p)
  BY <1>3 DEF Run, RunMutation, RunQuery, RunDownload, RunVerifyArtifact, RunNoChange, StepFails,
              Goto, local, Begun, Executing
<1>4. CASE StartTransaction(p) \/ StartStep(p) \/ FailStep(p) \/ RecordReceipts(p)
  BY <1>4 DEF StartTransaction, StartStep, FailStep, RecordReceipts, Goto, local, Begun, Executing
<1>5. CASE RecordStep(p)
  BY <1>5 DEF RecordStep, Advance, Goto, Begun, Executing
<1>6. CASE SkipReceipt(p) \/ CommitReceipt(p)
  <2>1. pc[p] = "receipts" /\ plan'[p] = plan[p] /\ tx'[p] = tx[p] /\ \E w : NextReceipt(p, w)
    BY <1>6 DEF SkipReceipt, CommitReceipt
  <2>2. MaxPackages = 1 => k[p] = 1 /\ Len(plan[p].pkgs) = 1
    BY <1>0, <2>1
  <2>3. MaxPackages = 1 => pc'[p] \in {"commit", "closing"}
    <3>1. PICK w : NextReceipt(p, w)
      BY <2>1
    <3>2. ASSUME MaxPackages = 1
          PROVE  ~(k[p] < Len(plan[p].pkgs))
      <4>1. k[p] = 1 /\ Len(plan[p].pkgs) = 1
        BY <2>2, <3>2
      <4>2. ~(1 < 1)
        OBVIOUS
      <4> QED
        BY ONLY <4>1, <4>2
    <3>3. ~(k[p] < Len(plan[p].pkgs)) => pc' = [pc EXCEPT ![p] = IF w THEN "commit" ELSE "closing"]
      BY <3>1 DEF NextReceipt, Goto
    <3> QED
      BY <3>2, <3>3
  <2>4. pc'[p] \in {"receipts", "commit", "closing"}
    BY <2>1 DEF NextReceipt, Goto
  <2> QED
    BY <2>1, <2>3, <2>4 DEF Begun, Executing
<1>7. CASE ReceiptFails(p)
  BY <1>7 DEF ReceiptFails, Goto, local, Begun, Executing
<1> QED
  BY <1>1, <1>2, <1>3, <1>4, <1>5, <1>6, <1>7 DEF Acts, Prepare, Execute, Reconcile, Fault

\* Receipts are written by a process at its receipts, for the package it is at.
LEMMA RecordsGrow ==
    ASSUME TypeInv, NEW p \in Proc, Acts(p)
    PROVE  \/ UNCHANGED <<receipt, recorded>>
           \/ /\ pc[p] = "receipts" /\ pc'[p] \in Executing /\ tx'[p] = tx[p]
              /\ recorded' = recorded \cup {<<tx[p], Pkg(p)>>}
              /\ receipt' = [receipt EXCEPT ![Pkg(p)] = ReceiptFor(p)]
<1>1. CASE CommitReceipt(p) \/ ReceiptFails(p)
  BY <1>1 DEF CommitReceipt, ReceiptFails, SaveReceipt, NextReceipt, Goto, local, TypeInv, TypeOK,
              CommandTyped, Executing
<1>2. CASE ~CommitReceipt(p) /\ ~ReceiptFails(p)
  <2>1. CASE Prepare(p)
    BY <2>1 DEF Prepare, BuildPlan, Revalidate, Refuse, Begin, ghost
  <2>2. CASE Run(p)
    BY <2>2 DEF Run, RunMutation, RunQuery, RunDownload, RunVerifyArtifact, RunNoChange, StepFails, ghost
  <2>3. CASE StartTransaction(p) \/ StartStep(p) \/ RecordStep(p) \/ FailStep(p) \/ SkipReceipt(p)
             \/ FailTransaction(p) \/ FailReceipts(p) \/ RecordReceipts(p) \/ Close(p)
             \/ Fault(p)
    BY <2>3 DEF StartTransaction, StartStep, RecordStep, FailStep, SkipReceipt, FailTransaction,
       FailReceipts, RecordReceipts, Close, Fault, JournalFails, Crash, CrashInStep, ghost
  <2>4. CASE Reconcile(p)
    BY <2>4 DEF Reconcile, ReadStatuses, ReadReceipts, QueryReceipt, Judge, Report, Mark,
                MarkFails, ghost
  <2> QED
    BY <1>2, <2>1, <2>2, <2>3, <2>4 DEF Acts, Execute
<1> QED
  BY <1>1, <1>2

LEMMA NamesStay ==
    ASSUME NEW f, NamesRecorded(f), recorded \subseteq recorded'
    PROVE  \A q \in Package : f[q] # NoReceipt => <<f[q].tx, q>> \in recorded'
BY DEF NamesRecorded

LEMMA ActKeepsNames ==
    ASSUME RecordInv, NEW p \in Proc, Acts(p)
    PROVE  NamesRecorded(receipt)'
<1>1. TypeInv /\ recorded \subseteq recorded' /\ receipt \in [Package -> Receipt \cup {NoReceipt}]
  BY HistoryGrows DEF RecordInv, OwnInv, TypeInv, TypeOK, StoreTyped
<1>2. CASE UNCHANGED receipt
  BY <1>1, <1>2 DEF RecordInv, NamesRecorded
<1>3. CASE /\ recorded' = recorded \cup {<<tx[p], Pkg(p)>>}
           /\ receipt' = [receipt EXCEPT ![Pkg(p)] = ReceiptFor(p)]
  <2>1. ReceiptFor(p) = NoReceipt \/ ReceiptFor(p).tx = tx[p]
    BY DEF ReceiptFor
  <2>2. \A q \in Package : q # Pkg(p) => receipt'[q] = receipt[q]
    BY <1>1, <1>3
  <2>3. Pkg(p) \in Package => receipt'[Pkg(p)] = ReceiptFor(p)
    BY <1>1, <1>3
  <2> QED
    BY <1>3, <2>1, <2>2, <2>3 DEF RecordInv, NamesRecorded
<1> QED
  BY <1>1, <1>2, <1>3, RecordsGrow

LEMMA ActKeepsJudgement ==
    ASSUME RecordInv, NEW p \in Proc, Acts(p)
    PROVE  JudgesRecorded(p)'
<1>1. /\ TypeInv /\ recorded \subseteq recorded' /\ JudgesRecorded(p)
      /\ view \in [Proc -> [Package -> Receipt \cup {NoReceipt}]]
      /\ due \in [Proc -> SUBSET TxId] /\ pc \in [Proc -> PC]
  BY HistoryGrows DEF RecordInv, OwnInv, TypeInv, TypeOK, CommandTyped, ReconTyped
<1>2. ASSUME view'[p] = view[p], pc'[p] = "mark" => pc[p] = "mark" /\ due'[p] \subseteq due[p]
      PROVE  JudgesRecorded(p)'
  BY <1>1, <1>2 DEF JudgesRecorded, NamesRecorded, Recorded
<1>3. ASSUME NEW how, Leave(p, how)
      PROVE  JudgesRecorded(p)'
  <2>1. pc'[p] = "idle" /\ \A q \in Package : view'[p][q] = NoReceipt
    BY <1>1, <1>3 DEF Leave, Goto
  <2> QED
    BY <2>1 DEF JudgesRecorded, NamesRecorded
<1>4. CASE ReadReceipts(p)
  <2>1. view'[p] = receipt /\ pc'[p] = "query"
    BY <1>1, <1>4 DEF ReadReceipts, Goto
  <2> QED
    BY <1>1, <2>1 DEF RecordInv, JudgesRecorded, NamesRecorded
<1>5. CASE Judge(p)
  <2>1. view'[p] = view[p] /\ due'[p] = Verified(p)
    BY <1>1, <1>5 DEF Judge
  <2>2. \A t \in Verified(p) : Recorded(t)
    BY <1>1 DEF Verified, Naming, JudgesRecorded, NamesRecorded, Recorded
  <2> QED
    BY <1>1, <2>1, <2>2 DEF JudgesRecorded, NamesRecorded, Recorded
<1>6. CASE Mark(p)
  <2>1. \/ Leave(p, "success")
        \/ pc[p] = "mark" /\ view' = view /\ due'[p] \subseteq due[p]
    BY <1>1, <1>6 DEF Mark
  <2> QED
    BY <1>2, <1>3, <2>1
<1>7. CASE BuildPlan(p) \/ Revalidate(p) \/ Begin(p) \/ ReadStatuses(p) \/ QueryReceipt(p)
  <2>1. view' = view /\ pc'[p] # "mark"
    BY <1>1, <1>7 DEF BuildPlan, Revalidate, Begin, ReadStatuses, QueryReceipt, Goto, recon
  <2> QED
    BY <1>2, <2>1
<1>8. CASE Run(p)
  <2>1. view' = view /\ pc'[p] # "mark"
    BY <1>1, <1>8 DEF Run, RunMutation, RunQuery, RunDownload, RunVerifyArtifact, RunNoChange,
                      StepFails, Goto, recon
  <2> QED
    BY <1>2, <2>1
<1>9. CASE StartTransaction(p) \/ StartStep(p) \/ FailStep(p) \/ RecordReceipts(p) \/ RecordStep(p)
  <2>1. view' = view /\ pc'[p] # "mark"
    BY <1>1, <1>9 DEF StartTransaction, StartStep, FailStep, RecordReceipts, RecordStep, Advance,
                      Goto, recon
  <2> QED
    BY <1>2, <2>1
<1>10. CASE SkipReceipt(p) \/ CommitReceipt(p) \/ ReceiptFails(p)
  <2>1. view' = view /\ pc'[p] # "mark"
    BY <1>1, <1>10 DEF SkipReceipt, CommitReceipt, ReceiptFails, NextReceipt, Goto, recon
  <2> QED
    BY <1>2, <2>1
<1>11. ASSUME Refuse(p) \/ Crash(p) \/ CrashInStep(p) \/ JournalFails(p) \/ FailTransaction(p)
              \/ FailReceipts(p) \/ Close(p) \/ Report(p) \/ MarkFails(p)
       PROVE  \E how : Leave(p, how)
  BY <1>11 DEF Refuse, Crash, CrashInStep, Dies, JournalFails, FailTransaction, FailReceipts, Close,
     Report, MarkFails
<1> QED
  BY <1>3, <1>4, <1>5, <1>6, <1>7, <1>8, <1>9, <1>10, <1>11
     DEF Acts, Prepare, Execute, Reconcile, Fault

LEMMA ActKeepsOnePackage ==
    ASSUME RecordInv, ~SameSecond, MaxPackages = 1, NEW p \in Proc, Acts(p), TypeInv'
    PROVE  OnePackageTx(p)'
<1>1. /\ TypeInv /\ recorded \subseteq recorded' /\ OnePackageTx(p)
      /\ \A e \in effects' \ effects : pc[p] = "run" /\ e = Change(p)
      /\ tx \in [Proc -> TxId]
  BY HistoryGrows DEF RecordInv, OwnInv, TypeInv, TypeOK, CommandTyped
<1>2. CASE pc'[p] \notin Begun
  BY <1>2 DEF OnePackageTx
<1>3. CASE Begin(p)
  <2>1. UNCHANGED <<last, effects, recorded>>
    BY <1>3 DEF Begin, store, ghost
  <2>2. PICK t \in TxId : key[t] = Unused /\ tx' = [tx EXCEPT ![p] = t]
    BY <1>1, <1>3, BeginsUnused
  <2>3. Untouched(t) /\ tx'[p] = t
    BY <1>1, <2>2 DEF RecordInv, TxRecord
  <2> QED
    BY <2>1, <2>3 DEF OnePackageTx, Untouched
<1>4. CASE pc'[p] \in Begun /\ ~Begin(p)
  <2>1. /\ pc[p] \in Begun \ {"unwritten", "closing"} /\ pc'[p] \in Executing
        /\ plan'[p] = plan[p] /\ tx'[p] = tx[p]
        /\ pc[p] = "commit" => pc'[p] = "closing"
        /\ pc[p] = "receipts" => pc'[p] \in {"unwritten", "commit", "closing"}
    BY <1>1, <1>4, GoesOn
  <2>2. Pkg(p) = plan[p].pkgs[1]
    BY <1>1, <2>1, OnePackage
  <2>3. k'[p] = 1
    BY <1>4 DEF TypeInv, TypeOK, CommandTyped
  <2>4. Pkg(p)' = Pkg(p)
    BY <2>1, <2>2, <2>3 DEF Pkg
  <2>5. ASSUME NEW e \in effects', e.tx = tx[p]
        PROVE  e.pkg = Pkg(p)
    BY <1>1, <2>1, <2>5 DEF OnePackageTx, Change
  <2>6. ASSUME NEW q \in Package, <<tx[p], q>> \in recorded'
        PROVE  pc'[p] \in {"unwritten", "commit", "closing"} /\ q = Pkg(p)
    <3>1. CASE <<tx[p], q>> \in recorded
      BY <1>1, <2>1, <3>1 DEF OnePackageTx
    <3>2. CASE <<tx[p], q>> \notin recorded
      <4>1. pc[p] = "receipts" /\ recorded' = recorded \cup {<<tx[p], Pkg(p)>>}
        BY <1>1, <2>6, <3>2, RecordsGrow
      <4> QED
        BY <2>1, <2>6, <3>2, <4>1
    <3> QED
      BY <3>1, <3>2
  <2>7. pc'[p] # "begin"
    BY <2>1 DEF Executing
  <2> QED
    BY <2>1, <2>4, <2>5, <2>6, <2>7 DEF OnePackageTx
<1> QED
  BY <1>2, <1>3, <1>4

\* A transaction nothing has happened in is touched by its own process only.
LEMMA UntouchedStays ==
    ASSUME RecordInv, NEW p \in Proc, Acts(p), NEW t \in TxId, Untouched(t),
           pc[p] \in Begun => tx[p] # t
    PROVE  Untouched(t)'
<1>1. /\ TypeInv /\ last \in [TxId -> JournalState \cup {"none"}]
      /\ \A e \in effects' \ effects : pc[p] = "run" /\ e = Change(p)
      /\ JudgesRecorded(p)
  BY HistoryGrows DEF RecordInv, OwnInv, TypeInv, TypeOK, StoreTyped
<1>2. last'[t] = last[t]
  <2>1. CASE Begin(p) \/ Idles(p) \/ Works(p) \/ Perishes(p)
    BY <2>1 DEF Begin, store, Idles, Works, Perishes
  <2>2. CASE Logs(p) \/ Ends(p)
    BY <1>1, <2>2 DEF Logs, Ends
  <2>3. CASE Marks(p)
    <3>1. PICK u \in due[p] : last' = [last EXCEPT ![u] = "reconciled"]
      BY <2>3 DEF Marks
    <3>2. Recorded(u)
      BY <1>1, <2>3 DEF Marks, JudgesRecorded
    <3>3. u # t
      BY <3>2 DEF Recorded, Untouched
    <3> QED
      BY <1>1, <3>1, <3>3
  <2> QED
    BY <1>1, <2>1, <2>2, <2>3, StepShapes
<1>3. \A e \in effects' : e.tx # t
  BY <1>1 DEF Untouched, Change, Begun, Executing
<1>4. \A q \in Package : <<t, q>> \notin recorded'
  <2>1. CASE recorded' = recorded
    BY <2>1 DEF Untouched
  <2>2. CASE pc[p] = "receipts" /\ recorded' = recorded \cup {<<tx[p], Pkg(p)>>}
    BY <2>2 DEF Untouched, Begun, Executing
  <2> QED
    BY <1>1, <2>1, <2>2, RecordsGrow
<1> QED
  BY <1>2, <1>3, <1>4 DEF Untouched

LEMMA ActKeepsTxRecord ==
    ASSUME RecordInv, ~SameSecond, NEW p \in Proc, Acts(p), NEW t \in TxId
    PROVE  TxRecord(t)'
<1>1. /\ TypeInv /\ last \in [TxId -> JournalState \cup {"none"}] /\ recorded \subseteq recorded'
      /\ JudgesRecorded(p) /\ TxRecord(t) /\ OwnTx(p)
  BY HistoryGrows DEF RecordInv, OwnInv, TypeInv, TypeOK, StoreTyped
<1>2. ASSUME key'[t] = Unused
      PROVE  Untouched(t)'
  <2>1. key[t] = Unused
    <3>1. CASE Begin(p)
      BY <1>1, <1>2, <3>1, BeginsUnused
    <3>2. CASE ~Begin(p)
      BY <1>1, <1>2, <3>2, StepShapes DEF Idles, Works, Logs, Ends, Perishes, Marks
    <3> QED
      BY <3>1, <3>2
  <2>2. pc[p] \in Begun => tx[p] # t
    BY <1>1, <2>1 DEF OwnTx
  <2> QED
    BY <1>1, <2>1, <2>2, UntouchedStays DEF TxRecord
<1>3. ASSUME last'[t] = "reconciled"
      PROVE  Recorded(t)'
  <2>1. Recorded(t) => Recorded(t)'
    BY <1>1 DEF Recorded
  <2>2. CASE last[t] = "reconciled"
    BY <1>1, <2>1, <2>2 DEF TxRecord
  <2>3. CASE Begin(p) \/ Idles(p) \/ Works(p) \/ Perishes(p)
    BY <1>3, <2>2, <2>3 DEF Begin, store, Idles, Works, Perishes
  <2>4. CASE Logs(p) \/ Ends(p)
    BY <1>1, <1>3, <2>2, <2>4 DEF Logs, Ends
  <2>5. CASE Marks(p)
    BY <1>1, <1>3, <2>1, <2>2, <2>5 DEF Marks, JudgesRecorded
  <2> QED
    BY <1>1, <2>3, <2>4, <2>5, StepShapes
<1> QED
  BY <1>2, <1>3 DEF TxRecord

LEMMA OthersKeepOnePackage ==
    ASSUME RecordInv, NEW p \in Proc, Acts(p), NEW r \in Proc, r # p
    PROVE  OnePackageTx(r)' /\ JudgesRecorded(r)'
<1>1. /\ Same(r) /\ recorded \subseteq recorded' /\ OnePackageTx(r) /\ JudgesRecorded(r) /\ OwnTx(r)
      /\ TypeInv /\ tx[r] \in TxId
      /\ \A e \in effects' \ effects : pc[p] = "run" /\ e = Change(p)
  BY OthersStay, HistoryGrows DEF RecordInv, OwnInv, TypeInv, TypeOK, CommandTyped
<1>2. JudgesRecorded(r)'
  <2>1. view'[r] = view[r] /\ due'[r] = due[r] /\ pc'[r] = pc[r]
    BY <1>1 DEF Same
  <2> QED
    BY <1>1, <2>1 DEF JudgesRecorded, NamesRecorded, Recorded
<1>3. ASSUME pc[r] \in Begun
      PROVE  OnePackageTx(r)'
  <2>1. pc'[r] = pc[r] /\ tx'[r] = tx[r] /\ Pkg(r)' = Pkg(r)
    BY <1>1 DEF Same, Pkg
  <2>2. pc[p] \in Begun => tx[p] # tx[r]
    BY <1>1, <1>3 DEF OwnTx
  <2>3. ASSUME pc[r] = "begin"
        PROVE  Untouched(tx[r])'
    <3>1. \A t \in TxId : Untouched(t) /\ t = tx[r] => Untouched(t)'
      BY <2>2, UntouchedStays
    <3>2. Untouched(tx[r])
      BY <1>1, <1>3, <2>3 DEF OnePackageTx
    <3> QED
      BY <1>1, <2>1, <3>1, <3>2 DEF Untouched
  <2>4. \A e \in effects' : e.tx = tx[r] => e.pkg = Pkg(r)
    BY <1>1, <1>3, <2>2 DEF OnePackageTx, Change, Begun, Executing
  <2>5. \A q \in Package : <<tx[r], q>> \in recorded' => <<tx[r], q>> \in recorded
    <3>1. CASE recorded' = recorded
      BY <3>1
    <3>2. CASE pc[p] = "receipts" /\ recorded' = recorded \cup {<<tx[p], Pkg(p)>>}
      BY <2>2, <3>2 DEF Begun, Executing
    <3> QED
      BY <1>1, <3>1, <3>2, RecordsGrow
  <2> QED
    BY <1>1, <1>3, <2>1, <2>3, <2>4, <2>5 DEF OnePackageTx
<1>4. ASSUME pc[r] \notin Begun
      PROVE  OnePackageTx(r)'
  BY <1>1, <1>4 DEF Same, OnePackageTx
<1> QED
  BY <1>2, <1>3, <1>4

LEMMA NextKeepsRecord == ~SameSecond /\ MaxPackages = 1 /\ RecordInv /\ [Next]_vars => RecordInv'
<1> SUFFICES ASSUME ~SameSecond, MaxPackages = 1, RecordInv, [Next]_vars
             PROVE  RecordInv'
  OBVIOUS
<1>1. OwnInv'
  BY NextKeepsOwn DEF RecordInv
<1>2. CASE UNCHANGED vars
  <2>1. UNCHANGED <<key, last, receipt, recorded, effects, pc, plan, tx, k, due, view>>
    BY <1>2 DEF vars, store, local, recon, ghost
  <2> QED
    BY <1>1, <2>1 DEF RecordInv, TxRecord, Untouched, Recorded, NamesRecorded, OnePackageTx,
                      JudgesRecorded, Pkg
<1>3. ASSUME NEW p \in Proc, Acts(p)
      PROVE  RecordInv'
  <2>1. \A t \in TxId : TxRecord(t)'
    BY <1>3, ActKeepsTxRecord
  <2>2. NamesRecorded(receipt)'
    BY <1>3, ActKeepsNames
  <2>3. \A r \in Proc : OnePackageTx(r)' /\ JudgesRecorded(r)'
    BY <1>1, <1>3, ActKeepsOnePackage, ActKeepsJudgement, OthersKeepOnePackage DEF OwnInv
  <2>4. ASSUME NEW e \in effects', NEW q \in Package, <<e.tx, q>> \in recorded'
        PROVE  q = e.pkg
    <3>1. /\ OnePackageTx(p)
          /\ \A f \in effects' \ effects : pc[p] = "run" /\ f = Change(p)
          /\ \/ recorded' = recorded
             \/ pc[p] = "receipts" /\ recorded' = recorded \cup {<<tx[p], Pkg(p)>>}
      BY <1>3, HistoryGrows, RecordsGrow DEF RecordInv, OwnInv
    <3>2. CASE e \in effects /\ <<e.tx, q>> \in recorded
      BY <3>2 DEF RecordInv
    <3>3. CASE e \in effects /\ <<e.tx, q>> \notin recorded
      <4>1. pc[p] = "receipts" /\ e.tx = tx[p] /\ q = Pkg(p)
        BY <2>4, <3>1, <3>3
      <4> QED
        BY <3>1, <3>3, <4>1 DEF OnePackageTx, Begun, Executing
    <3>4. CASE e \notin effects
      <4>1. pc[p] = "run" /\ e.tx = tx[p] /\ recorded' = recorded
        BY <3>1, <3>4 DEF Change
      <4> QED
        BY <2>4, <3>1, <4>1 DEF OnePackageTx, Begun, Executing
    <3> QED
      BY <3>2, <3>3, <3>4
  <2> QED
    BY <1>1, <2>1, <2>2, <2>3, <2>4 DEF RecordInv
<1> QED
  BY <1>2, <1>3 DEF Next, Acts

LEMMA InitRecord == Init => RecordInv
<1> SUFFICES ASSUME Init
             PROVE  RecordInv
  OBVIOUS
<1>1. OwnInv
  BY InitOwn
<1> QED
  BY <1>1 DEF Init, RecordInv, TxRecord, Untouched, Recorded, NamesRecorded, OnePackageTx,
              JudgesRecorded, Begun, Executing

\* A transaction marked reconciled has a receipt for all that it changed, when no
\* two transactions begin within one second and a plan names one package: two
\* packages, and the receipt of the first vouches for the second.
THEOREM ReconciledHasReceipts ==
    ASSUME ~SameSecond, MaxPackages = 1
    PROVE  Spec => []ReconciledIsRecorded
<1>1. Init => RecordInv
  BY InitRecord
<1>2. RecordInv /\ [Next]_vars => RecordInv'
  BY NextKeepsRecord
<1>3. RecordInv => ReconciledIsRecorded
  BY DEF RecordInv, OwnInv, TypeInv, TypeOK, HistoryTyped, Effect, TxRecord, Recorded,
         ReconciledIsRecorded
<1> QED
  BY <1>1, <1>2, <1>3, PTL DEF Spec

-----------------------------------------------------------------------------
(* Executor implements Recovery                                            *)

PromiseInv == SightInv /\ RecordInv

\* What one transaction may do in Recovery.
Stays(t) == Status'[t] = Status[t] /\ Owed'[t] = Owed[t]
Evolves(t) ==
    \/ Stays(t)
    \/ Status[t] = "none" /\ Status'[t] = "open" /\ Owed'[t] = Owed[t]
    \/ Status[t] = "open" /\ Status'[t] = "closed" /\ Owed[t] = {} /\ Owed'[t] = Owed[t]
    \/ /\ Status[t] = "open" /\ Status'[t] = "open"
       /\ \E q \in Package : Owed'[t] = Owed[t] \cup {q} \/ Owed'[t] = Owed[t] \ {q}

LEMMA PointUpdate ==
    ASSUME NEW D, NEW f, NEW g, NEW t \in D, f = [x \in D |-> f[x]], g = [x \in D |-> g[x]],
           \A x \in D : x # t => g[x] = f[x]
    PROVE  g = [f EXCEPT ![t] = g[t]]
OBVIOUS

LEMMA SameFunction ==
    ASSUME NEW D, NEW f, NEW g, f = [x \in D |-> f[x]], g = [x \in D |-> g[x]],
           \A x \in D : g[x] = f[x]
    PROVE  g = f
OBVIOUS

LEMMA EvolutionIsPromised ==
    ASSUME NEW t \in TxId, Evolves(t), \A u \in TxId : u # t => Stays(u)
    PROVE  [Promise!Next]_(Promise!vars)
<1>1. /\ Status = [x \in TxId |-> Status[x]] /\ Status' = [x \in TxId |-> Status'[x]]
      /\ Owed = [x \in TxId |-> Owed[x]] /\ Owed' = [x \in TxId |-> Owed'[x]]
  BY DEF Status, Owed
<1>2. Status' = [Status EXCEPT ![t] = Status'[t]]
  BY <1>1, PointUpdate DEF Stays
<1>3. Owed' = [Owed EXCEPT ![t] = Owed'[t]]
  BY <1>1, PointUpdate DEF Stays
<1>4. CASE Stays(t)
  <2>1. Status' = Status /\ Owed' = Owed
    BY <1>1, <1>4, SameFunction DEF Stays
  <2> QED
    BY <2>1 DEF Promise!vars
<1>5. CASE Status[t] = "none" /\ Status'[t] = "open" /\ Owed'[t] = Owed[t]
  <2>1. Owed' = Owed
    BY <1>1, <1>5, SameFunction DEF Stays
  <2>2. Promise!Begin(t)
    BY <1>2, <1>5, <2>1 DEF Promise!Begin
  <2> QED
    BY <2>2 DEF Promise!Next
<1>6. CASE Status[t] = "open" /\ Status'[t] = "closed" /\ Owed[t] = {} /\ Owed'[t] = Owed[t]
  <2>1. Owed' = Owed
    BY <1>1, <1>6, SameFunction DEF Stays
  <2>2. Promise!Close(t)
    BY <1>2, <1>6, <2>1 DEF Promise!Close
  <2> QED
    BY <2>2 DEF Promise!Next
<1>7. ASSUME Status[t] = "open", Status'[t] = "open", NEW q \in Package,
             Owed'[t] = Owed[t] \cup {q} \/ Owed'[t] = Owed[t] \ {q}
      PROVE  [Promise!Next]_(Promise!vars)
  <2>1. Status' = Status
    BY <1>1, <1>7, SameFunction DEF Stays
  <2>2. Promise!Change(t, q) \/ Promise!Record(t, q)
    BY <1>3, <1>7, <2>1 DEF Promise!Change, Promise!Record
  <2> QED
    BY <2>2 DEF Promise!Next
<1> QED
  BY <1>4, <1>5, <1>6, <1>7 DEF Evolves

LEMMA OwedMembers ==
    /\ \A t \in TxId : \A q : q \in Owed[t] <=>
          \E e \in effects : e.tx = t /\ e.pkg = q /\ <<t, q>> \notin recorded
    /\ \A t \in TxId : \A q : q \in Owed'[t] <=>
          \E e \in effects' : e.tx = t /\ e.pkg = q /\ <<t, q>> \notin recorded'
BY DEF Owed

LEMMA StatusValues ==
    /\ \A t \in TxId : Status[t] =
          IF last[t] = "none" THEN "none" ELSE IF Live(t) \/ Required(t) THEN "open" ELSE "closed"
    /\ \A t \in TxId : Status'[t] =
          IF last'[t] = "none" THEN "none" ELSE IF Live(t)' \/ Required(t)' THEN "open" ELSE "closed"
BY DEF Status, Live, Required, PartialMutation

\* Events are appended to a process's own transaction, but for reconciliation.
LEMMA EventsAreOwn ==
    ASSUME NEW p \in Proc, Acts(p), NEW ev \in journal' \ journal
    PROVE  \/ pc[p] \in Begun /\ ev.tx = tx[p]
           \/ ev.state = "reconciled"
<1>1. CASE Prepare(p)
  BY <1>1 DEF Prepare, BuildPlan, Revalidate, Refuse, Begin, store
<1>2. CASE Run(p) \/ SkipReceipt(p) \/ CommitReceipt(p) \/ ReceiptFails(p) \/ Crash(p) \/ CrashInStep(p)
  BY <1>2 DEF Run, RunMutation, RunQuery, RunDownload, RunVerifyArtifact, RunNoChange, StepFails,
     SkipReceipt, CommitReceipt, ReceiptFails, Crash, CrashInStep, store
<1>3. CASE StartTransaction(p) \/ StartStep(p) \/ RecordStep(p) \/ FailStep(p) \/ FailTransaction(p)
           \/ FailReceipts(p) \/ RecordReceipts(p) \/ Close(p) \/ JournalFails(p)
  <2>1. pc[p] \in Begun /\ (Write(p) \/ UNCHANGED store)
    BY <1>3 DEF StartTransaction, StartStep, RecordStep, FailStep, FailTransaction, FailReceipts,
       RecordReceipts, Close, JournalFails, Journaling, Begun, Executing
  <2> QED
    BY <2>1 DEF Write, AppendEvent, store
<1>4. CASE Reconcile(p)
  BY <1>4 DEF Reconcile, ReadStatuses, ReadReceipts, QueryReceipt, Judge, Report, Mark, MarkFails,
              AppendEvent, store
<1> QED
  BY <1>1, <1>2, <1>3, <1>4 DEF Acts, Execute, Fault

\* A process makes live, or ends, its own transaction only.
LEMMA LiveStays ==
    ASSUME TypeInv, NEW p \in Proc, Acts(p), NEW t \in TxId, pc[p] \in Begun => tx[p] # t
    PROVE  Live(t)' <=> Live(t)
<1>1. \A r \in Proc : r # p => pc'[r] = pc[r] /\ tx'[r] = tx[r]
  BY OthersStay DEF Same
<1>2. ~(pc[p] \in Executing /\ tx[p] = t)
  BY DEF Begun
<1>3. ~(pc'[p] \in Executing /\ tx'[p] = t)
  <2>1. CASE Begin(p)
    BY <2>1 DEF Begin, Goto, TypeInv, TypeOK, CommandTyped, Executing
  <2>2. CASE ~Begin(p)
    BY <2>2, GoesOn DEF Begun
  <2> QED
    BY <2>1, <2>2
<1> QED
  BY <1>1, <1>2, <1>3 DEF Live

LEMMA OwedStays ==
    ASSUME TypeInv, NEW p \in Proc, Acts(p), NEW t \in TxId, pc[p] \in Begun => tx[p] # t
    PROVE  Owed'[t] = Owed[t]
<1>1. \A e : e.tx = t => (e \in effects' <=> e \in effects)
  <2>1. \A e \in effects' \ effects : pc[p] = "run" /\ e = Change(p)
    BY HistoryGrows
  <2>2. effects \subseteq effects'
    <3>1. CASE effects' = effects
      BY <3>1
    <3>2. CASE RunMutation(p) \/ CrashInStep(p)
      BY <3>2 DEF RunMutation, CrashInStep, Mutate
    <3> QED
      BY <3>1, <3>2, HistoryGrows
  <2> QED
    BY <2>1, <2>2 DEF Change, Begun, Executing
<1>2. \A q : <<t, q>> \in recorded' <=> <<t, q>> \in recorded
  <2>1. CASE recorded' = recorded
    BY <2>1
  <2>2. CASE pc[p] = "receipts" /\ recorded' = recorded \cup {<<tx[p], Pkg(p)>>}
    BY <2>2 DEF Begun, Executing
  <2> QED
    BY <2>1, <2>2, RecordsGrow
<1>3. ASSUME NEW q
      PROVE  q \in Owed'[t] <=> q \in Owed[t]
  <2>1. q \in Owed'[t] <=> \E e \in effects' : e.tx = t /\ e.pkg = q /\ <<t, q>> \notin recorded'
    BY OwedMembers
  <2>2. q \in Owed[t] <=> \E e \in effects : e.tx = t /\ e.pkg = q /\ <<t, q>> \notin recorded
    BY OwedMembers
  <2> QED
    BY <1>1, <1>2, <2>1, <2>2
<1>4. Owed'[t] = {e.pkg : e \in {f \in effects' : f.tx = t /\ <<t, f.pkg>> \notin recorded'}}
      /\ Owed[t] = {e.pkg : e \in {f \in effects : f.tx = t /\ <<t, f.pkg>> \notin recorded}}
  BY DEF Owed
<1> HIDE DEF Owed
<1> QED
  BY <1>3, <1>4

LEMMA OthersAreKept ==
    ASSUME TypeInv, NEW p \in Proc, Acts(p), NEW t \in TxId, pc[p] \in Begun => tx[p] # t,
           last'[t] = last[t]
    PROVE  Stays(t)
<1>1. PartialMutation(t)' <=> PartialMutation(t)
  <2>1. \A ev \in journal' \ journal : ev.tx # t \/ ev.state = "reconciled"
    BY EventsAreOwn
  <2>2. journal \subseteq journal'
    BY HistoryGrows
  <2> QED
    BY <2>1, <2>2 DEF PartialMutation
<1>2. Required(t)' <=> Required(t)
  BY <1>1 DEF Required
<1>3. Live(t)' <=> Live(t)
  BY LiveStays
<1>4. Status'[t] = Status[t]
  BY <1>2, <1>3, StatusValues
<1> QED
  BY <1>4, OwedStays DEF Stays

\* A transaction that is not open any more owes nothing.
LEMMA ClosedOwesNothingMore ==
    ASSUME PromiseInv', NEW t \in TxId, ~Live(t)', ~Required(t)'
    PROVE  Owed'[t] = {}
<1>1. ASSUME NEW q, q \in Owed'[t]
      PROVE  FALSE
  <2>1. PICK e \in effects' : e.tx = t /\ e.pkg = q /\ <<t, q>> \notin recorded'
    BY <1>1, OwedMembers
  <2>2. last'[t] = "reconciled"
    BY <2>1 DEF PromiseInv, SightInv, OpenUntilRecorded
  <2>3. PICK r \in Package : <<t, r>> \in recorded'
    BY <2>2 DEF PromiseInv, RecordInv, TxRecord, Recorded
  <2>4. r = q
    BY <2>1, <2>3 DEF PromiseInv, RecordInv
  <2> QED
    BY <2>1, <2>3, <2>4
<1>2. \A q : q \notin Owed'[t]
  BY <1>1
<1> HIDE DEF Owed
<1> QED
  BY <1>2

\* Going on in one's own transaction.
LEMMA WorkEvolves ==
    ASSUME PromiseInv, PromiseInv', MaxPackages = 1, NEW p \in Proc, Acts(p),
           Works(p) \/ Logs(p)
    PROVE  Evolves(tx[p])
<1>1. /\ TypeInv /\ TypeInv' /\ pc[p] \in Begun /\ pc'[p] \in Executing /\ tx'[p] = tx[p]
      /\ tx[p] \in TxId /\ OnePackageTx(p) /\ OwnTx(p) /\ OwnTx(p)'
  BY DEF Works, Logs, PromiseInv, RecordInv, OwnInv, Begun, TypeInv, TypeOK, CommandTyped
<1>2. Status'[tx[p]] = "open"
  <2>1. Live(tx[p])'
    BY <1>1 DEF Live
  <2>2. last'[tx[p]] # "none"
    BY <1>1 DEF OwnTx, Begun, Unfinished, JournalState
  <2> QED
    BY <1>1, <2>1, <2>2, StatusValues
<1>3. pc[p] \in Executing => Status[tx[p]] = "open"
  <2>1. SUFFICES ASSUME pc[p] \in Executing
                 PROVE  Status[tx[p]] = "open"
    OBVIOUS
  <2>2. Live(tx[p]) /\ last[tx[p]] # "none"
    BY <1>1, <2>1 DEF Live, OwnTx, Begun, Unfinished, JournalState
  <2> QED
    BY <1>1, <2>2, StatusValues
<1>4. pc[p] = "begin" => Status[tx[p]] = "none"
  BY <1>1, StatusValues DEF OnePackageTx, Untouched, Begun
<1>5. CASE effects' = effects /\ recorded' = recorded
  <2>1. Owed' = Owed
    BY <1>5 DEF Owed
  <2> QED
    BY <1>1, <1>2, <1>3, <1>4, <2>1 DEF Evolves, Stays, Begun
<1>6. CASE effects' # effects
  <2>1. pc[p] = "run" /\ RunMutation(p)
    <3>1. RunMutation(p) \/ CrashInStep(p)
      BY <1>6, HistoryGrows
    <3>2. ~CrashInStep(p)
      BY <1>1, Left DEF CrashInStep, Dies, Begun
    <3> QED
      BY <3>1, <3>2 DEF RunMutation
  <2>2. effects' = effects \cup {Change(p)} /\ recorded' = recorded
    BY <1>6, <2>1 DEF RunMutation, Mutate, Change
  <2>3. \A q \in Package : <<tx[p], q>> \notin recorded
    BY <1>1, <2>1 DEF OnePackageTx
  <2>4. Change(p).tx = tx[p] /\ Change(p).pkg = Pkg(p) /\ Pkg(p) \in Package
    BY <1>1, <2>1, PlanFacts DEF Change, Executing
  <2>5. ASSUME NEW q
        PROVE  q \in Owed'[tx[p]] <=> q \in Owed[tx[p]] \cup {Pkg(p)}
    <3>1. q \in Owed'[tx[p]] <=> \E e \in effects' : e.tx = tx[p] /\ e.pkg = q /\ <<tx[p], q>> \notin recorded'
      BY <1>1, OwedMembers
    <3>2. q \in Owed[tx[p]] <=> \E e \in effects : e.tx = tx[p] /\ e.pkg = q /\ <<tx[p], q>> \notin recorded
      BY <1>1, OwedMembers
    <3>3. <<tx[p], Pkg(p)>> \notin recorded
      BY <2>3, <2>4
    <3> QED
      BY <2>2, <2>4, <3>1, <3>2, <3>3
  <2>6. Owed'[tx[p]] = Owed[tx[p]] \cup {Pkg(p)}
    <3>1. Owed'[tx[p]] = {e.pkg : e \in {f \in effects' : f.tx = tx[p] /\ <<tx[p], f.pkg>> \notin recorded'}}
      BY <1>1 DEF Owed
    <3> HIDE DEF Owed
    <3> QED
      BY <2>5, <3>1
  <2> QED
    BY <1>2, <1>3, <2>1, <2>4, <2>6 DEF Evolves, Executing
<1>7. CASE recorded' # recorded /\ effects' = effects
  <2>1. /\ pc[p] = "receipts"
        /\ recorded' = recorded \cup {<<tx[p], Pkg(p)>>}
    BY <1>1, <1>7, RecordsGrow
  <2>2. Pkg(p) \in Package
    BY <1>1, <2>1, PlanFacts DEF Executing
  <2>3. ASSUME NEW q
        PROVE  q \in Owed'[tx[p]] <=> q \in Owed[tx[p]] \ {Pkg(p)}
    <3>1. q \in Owed'[tx[p]] <=> \E e \in effects' : e.tx = tx[p] /\ e.pkg = q /\ <<tx[p], q>> \notin recorded'
      BY <1>1, OwedMembers
    <3>2. q \in Owed[tx[p]] <=> \E e \in effects : e.tx = tx[p] /\ e.pkg = q /\ <<tx[p], q>> \notin recorded
      BY <1>1, OwedMembers
    <3>3. <<tx[p], q>> \in recorded' <=> <<tx[p], q>> \in recorded \/ q = Pkg(p)
      BY <2>1
    <3> QED
      BY <1>7, <3>1, <3>2, <3>3
  <2>4. Owed'[tx[p]] = Owed[tx[p]] \ {Pkg(p)}
    <3>1. Owed'[tx[p]] = {e.pkg : e \in {f \in effects' : f.tx = tx[p] /\ <<tx[p], f.pkg>> \notin recorded'}}
      BY <1>1 DEF Owed
    <3> HIDE DEF Owed
    <3> QED
      BY <2>3, <3>1
  <2> QED
    BY <1>2, <1>3, <2>1, <2>2, <2>4 DEF Evolves, Executing
<1> QED
  BY <1>5, <1>6, <1>7

\* Ending one's own transaction: it is open until then, and a later command finds
\* it, or it owes nothing.
LEMMA EndEvolves ==
    ASSUME PromiseInv, PromiseInv', ~SameSecond, NEW p \in Proc, Acts(p), Ends(p) \/ Perishes(p),
           NEW t \in TxId, t = tx[p]
    PROVE  Evolves(t)
<1>1. /\ TypeInv /\ pc[p] \in Begun /\ pc'[p] = "idle" /\ t = tx[p]
      /\ last \in [TxId -> JournalState \cup {"none"}]
      /\ OnePackageTx(p) /\ OwnTx(p) /\ TxRecord(t)
  BY DEF Ends, Perishes, PromiseInv, RecordInv, OwnInv, TypeInv, TypeOK, StoreTyped, CommandTyped
<1>2. recorded' = recorded
  BY <1>1, RecordsGrow DEF Executing
<1>3. ~Live(t)'
  <2>1. \A r \in Proc : r # p => pc'[r] = pc[r] /\ tx'[r] = tx[r]
    BY <1>1, OthersStay DEF Same
  <2>2. pc'[p] \notin Executing
    BY <1>1 DEF Executing
  <2> QED
    BY <1>1, <2>1, <2>2 DEF Live, OwnTx, Begun
<1>4. CASE pc[p] = "begin"
  <2>1. Untouched(t) /\ effects' = effects
    BY <1>1, <1>4, HistoryGrows DEF OnePackageTx, RunMutation, CrashInStep
  <2>2. Owed' = Owed
    BY <1>2, <2>1 DEF Owed
  <2>3. Status[t] = "none"
    BY <1>1, <2>1, StatusValues DEF Untouched
  <2>4. CASE last' = last
    BY <1>1, <2>1, <2>2, <2>3, <2>4, StatusValues DEF Untouched, Evolves, Stays
  <2>5. CASE \E s \in Unfinished \ {"reconciled"} : last' = [last EXCEPT ![t] = s]
    <3>1. last'[t] \in Unfinished \ {"reconciled"}
      BY <1>1, <2>5
    <3>2. Required(t)' /\ last'[t] # "none"
      BY <3>1 DEF Required, Unfinished, JournalState
    <3>3. Status'[t] = "open"
      BY <1>1, <3>2, StatusValues
    <3> QED
      BY <2>2, <2>3, <3>3 DEF Evolves
  <2> QED
    BY <1>4, <2>4, <2>5 DEF Ends, Perishes, Unfinished
<1>5. CASE pc[p] \in Executing
  <2>1. last[t] \in Unfinished /\ Live(t)
    BY <1>1, <1>5 DEF OwnTx, Begun, Live
  <2>2. Status[t] = "open"
    BY <1>1, <2>1, StatusValues DEF Unfinished, JournalState
  <2>3. last'[t] # "none"
    BY <1>1, <2>1 DEF Ends, Perishes, Unfinished, JournalState
  <2>4. CASE effects' = effects
    <3>1. Owed' = Owed
      BY <1>2, <2>4 DEF Owed
    <3>2. CASE Required(t)'
      <4>1. Status'[t] = "open"
        BY <1>1, <2>3, <3>2, StatusValues
      <4> QED
        BY <2>2, <3>1, <4>1 DEF Evolves, Stays
    <3>3. CASE ~Required(t)'
      <4>1. Status'[t] = "closed"
        BY <1>1, <1>3, <2>3, <3>3, StatusValues
      <4>2. Owed'[t] = {}
        BY <1>1, <1>3, <3>3, ClosedOwesNothingMore
      <4> QED
        BY <2>2, <3>1, <4>1, <4>2 DEF Evolves
    <3> QED
      BY <3>2, <3>3
  <2>5. CASE effects' # effects
    <3>1. CrashInStep(p)
      BY <1>1, <2>5, HistoryGrows DEF Ends, Perishes, RunMutation, Goto, TypeInv, TypeOK, CommandTyped
    <3>2. /\ pc[p] = "run" /\ last' = last /\ effects' = effects \cup {Change(p)}
      BY <2>5, <3>1 DEF CrashInStep, Mutate, Change, store
    <3>3. \A q \in Package : <<t, q>> \notin recorded
      BY <1>1, <3>2 DEF OnePackageTx
    <3>4. last[t] # "reconciled"
      BY <1>1, <3>3 DEF TxRecord, Recorded
    <3>5. Required(t)' /\ last'[t] # "none"
      BY <2>1, <2>3, <3>2, <3>4, <1>1 DEF Required, Unfinished, JournalState, CrashInStep
    <3>6. Status'[t] = "open"
      BY <1>1, <3>5, StatusValues
    <3>7. Change(p).tx = t /\ Change(p).pkg = Pkg(p) /\ Pkg(p) \in Package
      BY <1>1, <3>2, PlanFacts DEF Change, Executing
    <3>8. ASSUME NEW q
          PROVE  q \in Owed'[t] <=> q \in Owed[t] \cup {Pkg(p)}
      <4>1. q \in Owed'[t] <=> \E e \in effects' : e.tx = t /\ e.pkg = q /\ <<t, q>> \notin recorded'
        BY <1>1, OwedMembers
      <4>2. q \in Owed[t] <=> \E e \in effects : e.tx = t /\ e.pkg = q /\ <<t, q>> \notin recorded
        BY <1>1, OwedMembers
      <4>3. <<t, Pkg(p)>> \notin recorded
        BY <3>3, <3>7
      <4> QED
        BY <1>2, <3>2, <3>7, <4>1, <4>2, <4>3
    <3>9. Owed'[t] = Owed[t] \cup {Pkg(p)}
      <4>1. Owed'[t] = {e.pkg : e \in {f \in effects' : f.tx = t /\ <<t, f.pkg>> \notin recorded'}}
        BY <1>1 DEF Owed
      <4> HIDE DEF Owed
      <4> QED
        BY <3>8, <4>1
    <3> QED
      BY <2>2, <3>6, <3>7, <3>9 DEF Evolves
  <2> QED
    BY <2>4, <2>5
<1> QED
  BY <1>1, <1>4, <1>5 DEF Begun

\* Marking a transaction that owes nothing closes it, unless it still runs.
LEMMA MarkEvolves ==
    ASSUME PromiseInv, PromiseInv', NEW p \in Proc, Acts(p), Marks(p)
    PROVE  \E t \in TxId : Evolves(t) /\ \A u \in TxId : u # t => Stays(u)
<1>1. TypeInv /\ last \in [TxId -> JournalState \cup {"none"}] /\ pc[p] = "mark"
  BY DEF Marks, PromiseInv, RecordInv, OwnInv, TypeInv, TypeOK, StoreTyped
<1>2. PICK t \in TxId : Required(t) /\ last' = [last EXCEPT ![t] = "reconciled"]
  BY DEF Marks
<1>3. pc[p] \notin Begun
  BY <1>1 DEF Begun, Executing
<1>4. \A u \in TxId : u # t => Stays(u)
  BY <1>1, <1>2, <1>3, OthersAreKept
<1>5. Status[t] = "open"
  BY <1>2, StatusValues DEF Required
<1>6. Owed'[t] = Owed[t]
  BY <1>1, <1>3, OwedStays
<1>7. last'[t] = "reconciled" /\ ~Required(t)'
  BY <1>1, <1>2 DEF Required
<1>8. CASE Live(t)'
  <2>1. Status'[t] = "open"
    BY <1>7, <1>8, StatusValues
  <2> QED
    BY <1>4, <1>5, <1>6, <2>1 DEF Evolves, Stays
<1>9. CASE ~Live(t)'
  <2>1. Status'[t] = "closed"
    BY <1>7, <1>9, StatusValues
  <2>2. Owed'[t] = {}
    BY <1>7, <1>9, ClosedOwesNothingMore
  <2> QED
    BY <1>4, <1>5, <1>6, <2>1, <2>2 DEF Evolves
<1> QED
  BY <1>8, <1>9

LEMMA ActIsPromised ==
    ASSUME PromiseInv, PromiseInv', ~SameSecond, MaxPackages = 1, NEW p \in Proc, Acts(p)
    PROVE  [Promise!Next]_(Promise!vars)
<1>1. /\ TypeInv /\ tx[p] \in TxId /\ last \in [TxId -> JournalState \cup {"none"}]
  BY DEF PromiseInv, RecordInv, OwnInv, TypeInv, TypeOK, StoreTyped, CommandTyped
<1>2. CASE Marks(p)
  BY <1>2, MarkEvolves, EvolutionIsPromised
<1>3. CASE Works(p) \/ Logs(p) \/ Ends(p) \/ Perishes(p)
  <2>1. Evolves(tx[p])
    <3>1. CASE Works(p) \/ Logs(p)
      BY <3>1, WorkEvolves
    <3>2. CASE Ends(p) \/ Perishes(p)
      <4>1. \A t \in TxId : t = tx[p] => Evolves(t)
        BY <3>2, EndEvolves
      <4> HIDE DEF Status, Owed
      <4> QED
        BY <1>1, <4>1
    <3> QED
      BY <1>3, <3>1, <3>2
  <2>2. \A u \in TxId : u # tx[p] => last'[u] = last[u]
    BY <1>1, <1>3 DEF Works, Logs, Ends, Perishes
  <2>3. \A u \in TxId : u # tx[p] => Stays(u)
    BY <1>1, <2>2, OthersAreKept
  <2> QED
    BY <1>1, <2>1, <2>3, EvolutionIsPromised
<1>4. CASE Begin(p) \/ Idles(p)
  <2>1. pc[p] \notin Begun /\ last' = last
    BY <1>4 DEF Begin, Idles, store, Begun, Executing
  <2>2. \A u \in TxId : Stays(u)
    BY <1>1, <2>1, OthersAreKept
  <2> QED
    BY <1>1, <2>2, EvolutionIsPromised DEF Evolves
<1> QED
  BY <1>1, <1>2, <1>3, <1>4, StepShapes

\* When no two transactions begin within one second, a failed mutation has changed
\* nothing and a plan names one package: commands, faults and reconciliations of
\* any number of processes are steps of Recovery.
THEOREM ExecutorImplementsRecovery ==
    ASSUME ~SameSecond, ~PartialBackend, MaxPackages = 1
    PROVE  Spec => KeepsPromise
<1>1. Init => PromiseInv
  BY InitSight, InitRecord DEF PromiseInv
<1>2. PromiseInv /\ [Next]_vars => PromiseInv'
  BY NextKeepsSight, NextKeepsRecord DEF PromiseInv
<1>3. Init => Promise!Init
  BY DEF Init, Promise!Init, Status, Owed
<1>4. PromiseInv /\ PromiseInv' /\ [Next]_vars => [Promise!Next]_(Promise!vars)
  <2>1. ASSUME UNCHANGED vars
        PROVE  UNCHANGED (Promise!vars)
    BY <2>1 DEF vars, store, local, ghost, Promise!vars, Status, Owed, Live, Required, PartialMutation
  <2> QED
    BY <2>1, ActIsPromised DEF Next, Acts
<1> QED
  BY <1>1, <1>2, <1>3, <1>4, PTL DEF Spec, KeepsPromise, Promise!Spec

-----------------------------------------------------------------------------
(* One command at a time                                                   *)

OneProcess == \A p, r \in Proc : p = r

\* What a reconciliation has read is still so.
Reading(p) ==
    /\ pc[p] \in {"statuses", "query"} => exit[p] = "none" /\ due[p] = {t \in TxId : Required(t)}
    /\ pc[p] = "query" => view[p] = receipt /\ \A q \in good[p] : ReceiptHolds(q, receipt[q])
    /\ pc[p] \notin {"query", "mark"} => good[p] = {}

ReadingInv == TypeInv /\ \A p \in Proc : Reading(p)

LEMMA ActKeepsReading ==
    ASSUME ReadingInv, NEW p \in Proc, Acts(p)
    PROVE  Reading(p)'
<1>1. /\ TypeInv /\ Reading(p) /\ pc \in [Proc -> PC]
      /\ exit \in [Proc -> {"none", "success", "no_change", "planned", "failed", "partial", "died"}]
      /\ due \in [Proc -> SUBSET TxId] /\ good \in [Proc -> SUBSET Package]
      /\ view \in [Proc -> [Package -> Receipt \cup {NoReceipt}]]
  BY DEF ReadingInv, TypeInv, TypeOK, CommandTyped, ReconTyped
<1>2. ASSUME NEW how, Leave(p, how)
      PROVE  Reading(p)'
  <2>1. pc'[p] = "idle" /\ good'[p] = {}
    BY <1>1, <1>2 DEF Leave, Goto
  <2> QED
    BY <2>1 DEF Reading
<1>3. ASSUME good' = good, pc[p] \notin {"query", "mark"}, pc'[p] \notin {"statuses", "query", "mark"}
      PROVE  Reading(p)'
  BY <1>1, <1>3 DEF Reading
<1>4. CASE ReadStatuses(p)
  <2>1. /\ pc[p] = "idle" /\ pc'[p] = "statuses" /\ good' = good /\ exit'[p] = "none"
        /\ due'[p] = {t \in TxId : Required(t)} /\ UNCHANGED <<journal, last>>
    BY <1>1, <1>4 DEF ReadStatuses, Goto, store
  <2>2. \A t \in TxId : Required(t)' <=> Required(t)
    BY <2>1 DEF Required, PartialMutation
  <2> QED
    BY <1>1, <2>1, <2>2 DEF Reading
<1>5. CASE ReadReceipts(p)
  <2>1. /\ pc[p] = "statuses" /\ pc'[p] = "query" /\ UNCHANGED <<journal, last, receipt, exit, due, good>>
        /\ view'[p] = receipt
    BY <1>1, <1>5 DEF ReadReceipts, Goto, store
  <2>2. \A t \in TxId : Required(t)' <=> Required(t)
    BY <2>1 DEF Required, PartialMutation
  <2> QED
    BY <1>1, <2>1, <2>2 DEF Reading
<1>6. CASE QueryReceipt(p)
  <2>1. /\ pc[p] = "query" /\ UNCHANGED <<pc, journal, last, receipt, machine, exit, due, view>>
    BY <1>6 DEF QueryReceipt, store
  <2>2. \A q \in good'[p] : q \in good[p] \/ ReceiptHolds(q, view[p][q])
    BY <1>1, <1>6 DEF QueryReceipt
  <2>3. \A t \in TxId : Required(t)' <=> Required(t)
    BY <2>1 DEF Required, PartialMutation
  <2>4. \A q \in good'[p] : ReceiptHolds(q, receipt[q])
    BY <1>1, <2>1, <2>2 DEF Reading
  <2>5. \A q \in good'[p] : ReceiptHolds(q, receipt[q])'
    BY <2>1, <2>4 DEF ReceiptHolds
  <2> QED
    BY <1>1, <2>1, <2>3, <2>5 DEF Reading
<1>7. CASE Judge(p)
  <2>1. pc'[p] = "mark"
    BY <1>1, <1>7 DEF Judge, Goto
  <2> QED
    BY <2>1 DEF Reading
<1>8. CASE Mark(p)
  <2>1. Leave(p, "success") \/ (pc[p] = "mark" /\ pc' = pc /\ good' = good)
    BY <1>8 DEF Mark
  <2> QED
    BY <1>2, <2>1 DEF Reading
<1>9. CASE BuildPlan(p) \/ Revalidate(p) \/ Begin(p)
  BY <1>1, <1>3, <1>9 DEF BuildPlan, Revalidate, Begin, Goto, recon
<1>10. CASE Run(p)
  BY <1>1, <1>3, <1>10 DEF Run, RunMutation, RunQuery, RunDownload, RunVerifyArtifact, RunNoChange,
                           StepFails, Goto, recon
<1>11. CASE StartTransaction(p) \/ StartStep(p) \/ FailStep(p) \/ RecordReceipts(p) \/ RecordStep(p)
  BY <1>1, <1>3, <1>11 DEF StartTransaction, StartStep, FailStep, RecordReceipts, RecordStep, Advance,
                           Goto, recon
<1>12. CASE SkipReceipt(p) \/ CommitReceipt(p) \/ ReceiptFails(p)
  BY <1>1, <1>3, <1>12 DEF SkipReceipt, CommitReceipt, ReceiptFails, NextReceipt, Goto, recon
<1>13. ASSUME Refuse(p) \/ Crash(p) \/ CrashInStep(p) \/ JournalFails(p) \/ FailTransaction(p)
              \/ FailReceipts(p) \/ Close(p) \/ Report(p) \/ MarkFails(p)
       PROVE  \E how : Leave(p, how)
  BY <1>13 DEF Refuse, Crash, CrashInStep, Dies, JournalFails, FailTransaction, FailReceipts, Close,
     Report, MarkFails
<1> QED
  BY <1>2, <1>4, <1>5, <1>6, <1>7, <1>8, <1>9, <1>10, <1>11, <1>12, <1>13
     DEF Acts, Prepare, Execute, Reconcile, Fault

LEMMA NextKeepsReading == OneProcess /\ ReadingInv /\ [Next]_vars => ReadingInv'
<1> SUFFICES ASSUME OneProcess, ReadingInv, [Next]_vars
             PROVE  ReadingInv'
  OBVIOUS
<1>1. TypeInv'
  BY NextKeepsTypes DEF ReadingInv
<1>2. ASSUME NEW p \in Proc, Acts(p)
      PROVE  \A r \in Proc : Reading(r)'
  BY <1>2, ActKeepsReading DEF OneProcess
<1>3. ASSUME UNCHANGED vars
      PROVE  \A r \in Proc : Reading(r)'
  <2>1. UNCHANGED <<pc, exit, due, good, view, receipt, machine, journal, last>>
    BY <1>3 DEF vars, store, recon
  <2>2. \A r \in Proc : Reading(r)
    BY DEF ReadingInv
  <2> QED
    BY <2>1, <2>2 DEF Reading, Required, PartialMutation, ReceiptHolds
<1> QED
  BY <1>1, <1>2, <1>3 DEF ReadingInv, Next, Acts

\* One command at a time, with whatever faults: a reconciliation that reports no
\* change has found no open transaction and every receipt right.
THEOREM ReportIsTrue == ASSUME OneProcess PROVE Spec => ReconcileReportIsTrue
<1> DEFINE Truth ==
      \A p \in Proc :
          pc[p] = "query" /\ exit'[p] = "no_change" =>
             /\ \A t \in TxId : ~Required(t)
             /\ \A q \in Package : receipt[q] # NoReceipt =>
                   /\ BackendOf[q] # "installer"
                   /\ machine[q] # Absent
                   /\ BackendOf[q] = "native" => machine[q] = receipt[q].version
<1>1. Init => ReadingInv
  <2> SUFFICES ASSUME Init
               PROVE  ReadingInv
    OBVIOUS
  <2>1. TypeInv
    BY InitTyped
  <2> QED
    BY <2>1 DEF Init, ReadingInv, Reading
<1>2. ReadingInv /\ [Next]_vars => ReadingInv'
  BY NextKeepsReading
<1>3. ReadingInv /\ [Next]_vars => [Truth]_vars
  <2> SUFFICES ASSUME ReadingInv, Next, NEW p \in Proc, pc[p] = "query", exit'[p] = "no_change"
               PROVE  /\ \A t \in TxId : ~Required(t)
                      /\ \A q \in Package : receipt[q] # NoReceipt =>
                            /\ BackendOf[q] # "installer"
                            /\ machine[q] # Absent
                            /\ BackendOf[q] = "native" => machine[q] = receipt[q].version
    OBVIOUS
  <2>1. Acts(p)
    BY DEF Next, Acts, OneProcess
  <2>2. exit \in [Proc -> {"none", "success", "no_change", "planned", "failed", "partial", "died"}]
        /\ exit[p] = "none"
    BY DEF ReadingInv, Reading, TypeInv, TypeOK, CommandTyped
  <2>3. due[p] = {} /\ Drifted(p) = {}
    <3>1. QueryReceipt(p) \/ Judge(p) \/ Report(p) \/ Crash(p)
      <4>1. ~Prepare(p)
        BY DEF Prepare, BuildPlan, Revalidate, Refuse, Begin
      <4>2. ~Execute(p)
        BY DEF Execute, StartTransaction, StartStep, Run, RunMutation, RunQuery, RunDownload,
           RunVerifyArtifact, RunNoChange, StepFails, RecordStep, FailStep, FailTransaction,
           SkipReceipt, CommitReceipt, ReceiptFails, FailReceipts, RecordReceipts, Close
      <4>3. ~ReadStatuses(p) /\ ~ReadReceipts(p) /\ ~Mark(p) /\ ~MarkFails(p)
        BY DEF ReadStatuses, ReadReceipts, Mark, MarkFails
      <4>4. ~JournalFails(p) /\ ~CrashInStep(p)
        BY DEF JournalFails, CrashInStep, Journaling
      <4> QED
        BY <2>1, <4>1, <4>2, <4>3, <4>4 DEF Acts, Reconcile, Fault
    <3>2. ~QueryReceipt(p) /\ ~Judge(p)
      BY <2>2 DEF QueryReceipt, Judge
    <3>3. ASSUME NEW how, Leave(p, how)
          PROVE  how = "no_change"
      BY <2>2, <3>3 DEF Leave
    <3> QED
      BY <3>1, <3>2, <3>3 DEF Report, Crash, Dies
  <2>4. /\ due[p] = {t \in TxId : Required(t)} /\ view[p] = receipt
        /\ \A q \in good[p] : ReceiptHolds(q, receipt[q])
    BY DEF ReadingInv, Reading
  <2>5. ASSUME NEW q \in Package, receipt[q] # NoReceipt
        PROVE  /\ BackendOf[q] # "installer"
               /\ machine[q] # Absent
               /\ BackendOf[q] = "native" => machine[q] = receipt[q].version
    <3>1. ReceiptHolds(q, receipt[q])
      BY <2>3, <2>4, <2>5 DEF Drifted
    <3>2. receipt[q].version \in Version \cup {Unversioned} /\ BackendOf[q] \in BackendKind
      BY <2>5, BackendAssumption DEF ReadingInv, TypeInv, TypeOK, StoreTyped, Receipt
    <3>3. receipt[q].version # Absent
      BY <3>2, VersionAssumption
    <3> QED
      BY <3>1, <3>2, <3>3 DEF ReceiptHolds, BackendKind
  <2> QED
    BY <2>3, <2>4, <2>5
<1> QED
  BY <1>1, <1>2, <1>3, PTL DEF Spec, ReconcileReportIsTrue

\* What a process has observed of its package is the last thing it does there.
Observed(p) ==
    /\ pc[p] \notin Executing => \A q \in Package : seen[p][q] = NotSeen
    /\ pc[p] \in Executing /\ Native(Pkg(p)) /\ seen[p][Pkg(p)] # NotSeen =>
          /\ pc[p] \notin {"step", "run"}
          /\ pc[p] = "ran" => j[p] = Len(Steps(p))
          /\ seen[p][Pkg(p)] \in Version => seen[p][Pkg(p)] = machine[Pkg(p)]

Drifts(q) == BackendOf[q] = "native" /\ receipt[q] # NoReceipt /\ machine[q] # receipt[q].version

\* A receipt that is wrong is so by a change that no receipt was written for.
Explained(q) == Drifts(q) => \E e \in effects : e.pkg = q /\ ~Done(e)

DriftInv ==
    /\ PromiseInv
    /\ \A p \in Proc : Observed(p)
    /\ \A q \in Package : Explained(q)

\* The query of a native package is the last step for it.
LEMMA QueryIsLast ==
    ASSUME TypeInv, NEW p \in Proc, RunQuery(p)
    PROVE  j[p] = Len(Steps(p))
<1>1. /\ pc[p] = "run" /\ Native(Pkg(p)) /\ IsQuery(Op(p), Kind(p)) /\ Kind(p) # "no_change"
  BY DEF RunQuery
<1>2. j[p] \in 1..Len(Steps(p)) /\ Op(p) \in Operation
  BY <1>1, PlanFacts DEF TypeInv, InPlan, Stepping, Executing
<1>3. CASE NothingToDo(plan[p], Pkg(p))
  <2>1. Steps(p) = <<"no_change">>
    BY <1>3 DEF Steps, StepsFor
  <2>2. j[p] = 1
    BY <1>2, <2>1
  <2> QED
    BY <1>1, <2>1, <2>2 DEF Kind
<1>4. CASE ~NothingToDo(plan[p], Pkg(p))
  <2>1. Steps(p) = NativeSteps(Op(p))
    BY <1>1, <1>4 DEF Steps, StepsFor, PlannedSteps, Native, Op
  <2>2. CASE Op(p) = "verify" \/ Op(p) = "adopt"
    <3>1. Len(Steps(p)) = 1
      BY <2>1, <2>2 DEF NativeSteps
    <3> QED
      BY <1>2, <3>1
  <2>3. CASE Op(p) # "verify" /\ Op(p) # "adopt"
    <3>1. Steps(p) = <<"backend", "verify">> /\ Kind(p) = "verify"
      BY <1>1, <2>1, <2>3 DEF NativeSteps, IsQuery
    <3>2. Len(Steps(p)) = 2 /\ Steps(p)[1] = "backend"
      BY <3>1
    <3> QED
      BY <1>2, <3>1, <3>2 DEF Kind
  <2> QED
    BY <2>2, <2>3
<1> QED
  BY <1>3, <1>4

LEMMA ActKeepsObserved ==
    ASSUME DriftInv, MaxPackages = 1, NEW p \in Proc, Acts(p), TypeInv'
    PROVE  Observed(p)'
<1>1. /\ TypeInv /\ Observed(p) /\ pc \in [Proc -> PC] /\ j \in [Proc -> 1..3]
      /\ seen \in [Proc -> [Package -> Version \cup {Absent, Unversioned, NotSeen}]]
  BY DEF DriftInv, PromiseInv, SightInv, OwnInv, TypeInv, TypeOK, CommandTyped
<1>2. ASSUME NEW how, Leave(p, how)
      PROVE  Observed(p)'
  <2>1. pc'[p] = "idle" /\ \A q \in Package : seen'[p][q] = NotSeen
    BY <1>1, <1>2 DEF Leave, Goto
  <2> QED
    BY <2>1 DEF Observed, Executing
<1>3. ASSUME UNCHANGED seen, pc[p] \notin Executing, pc'[p] \notin Executing
      PROVE  Observed(p)'
  BY <1>1, <1>3 DEF Observed
\* A process that goes on without looking or changing.
<1>4. ASSUME UNCHANGED <<seen, machine, plan>>, pc[p] \in Executing, k'[p] = k[p],
             \/ pc[p] \in {"step", "run"} /\ pc'[p] \in Executing
             \/ pc'[p] \in Executing \ {"step", "run", "ran"}
      PROVE  Observed(p)'
  <2>1. Pkg(p)' = Pkg(p)
    BY <1>4 DEF Pkg
  <2> QED
    BY <1>1, <1>4, <2>1 DEF Observed, Native
<1>5. CASE StartTransaction(p)
  <2>1. pc[p] = "begin" /\ UNCHANGED <<seen, plan>> /\ pc'[p] = "step" /\ k' = k
    BY <1>1, <1>5 DEF StartTransaction, Goto, local
  <2>2. Pkg(p) \in Package
    BY <1>1, <2>1, OnePackage DEF Begun
  <2>3. Pkg(p)' = Pkg(p)
    BY <2>1 DEF Pkg
  <2> QED
    BY <1>1, <2>1, <2>2, <2>3 DEF Observed, Executing
<1>6. CASE StartStep(p) \/ FailStep(p) \/ RecordReceipts(p) \/ ReceiptFails(p)
  <2>1. /\ UNCHANGED <<seen, machine, plan, k>>
        /\ pc[p] \in {"step", "failed", "commit", "receipts"}
        /\ pc[p] = "step" => pc'[p] = "run"
        /\ pc[p] # "step" => pc'[p] \in {"failing", "closing", "unwritten"}
    BY <1>1, <1>6 DEF StartStep, FailStep, RecordReceipts, ReceiptFails, Goto, local
  <2> QED
    BY <1>4, <2>1 DEF Executing
<1>7. CASE RunDownload(p) \/ RunVerifyArtifact(p) \/ RunNoChange(p) \/ StepFails(p)
  <2>1. /\ UNCHANGED <<seen, machine, plan, k>>
        /\ pc[p] = "run" /\ pc'[p] \in {"ran", "failed"}
    BY <1>1, <1>7 DEF RunDownload, RunVerifyArtifact, RunNoChange, StepFails, Goto, local
  <2> QED
    BY <1>4, <2>1 DEF Executing
<1>8. CASE RunMutation(p)
  <2>1. /\ UNCHANGED <<seen, plan, k>> /\ pc[p] = "run" /\ pc'[p] \in {"ran", "failed"}
    BY <1>1, <1>8 DEF RunMutation, Goto, local
  <2>2. Pkg(p)' = Pkg(p)
    BY <2>1 DEF Pkg
  <2> QED
    BY <1>1, <2>1, <2>2 DEF Observed, Executing, Native
<1>9. CASE RunQuery(p)
  <2>1. /\ UNCHANGED <<machine, plan, k, j>> /\ pc[p] = "run" /\ pc'[p] = "ran"
        /\ \E v \in Observations(p) : seen' = [seen EXCEPT ![p][Pkg(p)] = v]
    BY <1>1, <1>9 DEF RunQuery, Goto
  <2>2. Pkg(p)' = Pkg(p) /\ Steps(p)' = Steps(p) /\ Pkg(p) \in Package
    BY <1>1, <2>1, PlanFacts DEF Pkg, Steps, Executing
  <2>3. seen'[p][Pkg(p)] \in Observations(p)
    BY <1>1, <2>1, <2>2
  <2>4. \A v \in Observations(p) : v \in Version => v = machine[Pkg(p)]
    BY VersionAssumption DEF Observations
  <2>5. j[p] = Len(Steps(p))
    BY <1>1, <1>9, QueryIsLast
  <2> QED
    BY <2>1, <2>2, <2>3, <2>4, <2>5 DEF Observed, Executing
<1>10. CASE RecordStep(p)
  <2>1. /\ UNCHANGED <<seen, machine, plan>> /\ pc[p] = "ran"
    BY <1>10 DEF RecordStep
  <2>2. k[p] = 1 /\ k'[p] = 1 /\ Len(plan[p].pkgs) = 1
    <3>1. k[p] = 1 /\ Len(plan[p].pkgs) = 1
      BY <1>1, <2>1, OnePackage DEF Begun, Executing
    <3>2. k'[p] \in 1..1
      BY DEF TypeInv, TypeOK, CommandTyped
    <3> QED
      BY <3>1, <3>2
  <2>3. pc'[p] \in {"step", "receipts"} /\ (j[p] = Len(Steps(p)) => pc'[p] = "receipts")
    <3>1. ~(k[p] < Len(plan[p].pkgs))
      <4>1. ~(1 < 1)
        OBVIOUS
      <4> QED
        BY ONLY <2>2, <4>1
    <3>2. j[p] < Len(Steps(p)) => j[p] # Len(Steps(p))
      <4>1. j[p] \in Nat /\ Len(Steps(p)) \in Nat
        BY <1>1, <2>1, PlanFacts DEF Executing
      <4> QED
        BY <4>1
    <3> QED
      BY <1>1, <1>10, <3>1, <3>2 DEF RecordStep, Advance, Goto
  <2>4. Pkg(p)' = Pkg(p)
    BY <2>1, <2>2 DEF Pkg
  <2> QED
    BY <1>1, <2>1, <2>3, <2>4 DEF Observed, Native, Executing
<1>11. CASE SkipReceipt(p) \/ CommitReceipt(p)
  <2>1. UNCHANGED <<seen, machine, plan>> /\ pc[p] = "receipts"
    BY <1>11 DEF SkipReceipt, CommitReceipt
  <2>2. pc'[p] \in {"receipts", "commit", "closing"}
    BY <1>1, <1>11 DEF SkipReceipt, CommitReceipt, NextReceipt, Goto
  <2>3. k[p] = 1
    BY <1>1, <2>1, OnePackage DEF Begun, Executing
  <2>4. k'[p] \in 1..1
    BY DEF TypeInv, TypeOK, CommandTyped
  <2>5. k'[p] = k[p]
    BY <2>3, <2>4
  <2> QED
    BY <1>4, <2>1, <2>2, <2>5 DEF Executing
<1>12. ASSUME Refuse(p) \/ Crash(p) \/ CrashInStep(p) \/ JournalFails(p) \/ FailTransaction(p)
              \/ FailReceipts(p) \/ Close(p) \/ Report(p) \/ MarkFails(p)
       PROVE  \E how : Leave(p, how)
  BY <1>12 DEF Refuse, Crash, CrashInStep, Dies, JournalFails, FailTransaction, FailReceipts, Close,
     Report, MarkFails
<1>13. CASE BuildPlan(p) \/ Revalidate(p) \/ Begin(p) \/ ReadStatuses(p) \/ ReadReceipts(p)
           \/ QueryReceipt(p) \/ Judge(p)
  BY <1>1, <1>3, <1>13 DEF BuildPlan, Revalidate, Begin, ReadStatuses, ReadReceipts, QueryReceipt,
     Judge, Goto, local, Executing
<1>14. CASE Mark(p)
  <2>1. Leave(p, "success") \/ (pc[p] = "mark" /\ UNCHANGED <<pc, seen>>)
    BY <1>14 DEF Mark, local
  <2> QED
    BY <1>2, <1>3, <2>1 DEF Executing
<1> QED
  BY <1>2, <1>5, <1>6, <1>7, <1>8, <1>9, <1>10, <1>11, <1>12, <1>13, <1>14
     DEF Acts, Prepare, Execute, Run, Reconcile, Fault

\* A change is explained by itself until its receipt is written, and that
\* receipt is right.
LEMMA ActKeepsExplained ==
    ASSUME DriftInv, MaxPackages = 1, NEW p \in Proc, Acts(p), NEW q \in Package
    PROVE  Explained(q)'
<1>1. /\ TypeInv /\ Explained(q) /\ Observed(p) /\ OnePackageTx(p)
      /\ effects \subseteq Effect
      /\ machine \in [Package -> Version \cup {Absent}]
      /\ receipt \in [Package -> Receipt \cup {NoReceipt}]
  BY DEF DriftInv, PromiseInv, SightInv, RecordInv, OwnInv, TypeInv, TypeOK, StoreTyped, HistoryTyped
<1>2. ASSUME effects \subseteq effects', machine'[q] = machine[q], receipt'[q] = receipt[q],
             \A e \in effects : e.pkg = q /\ ~Done(e) => ~Done(e)'
      PROVE  Explained(q)'
  BY <1>1, <1>2 DEF Explained, Drifts
<1>3. CASE UNCHANGED <<machine, effects, receipt, recorded>>
  <2>1. \A e \in effects : Done(e)' = Done(e)
    BY <1>3 DEF Done
  <2> QED
    BY <1>2, <1>3, <2>1
<1>4. CASE RunMutation(p) \/ CrashInStep(p)
  <2>1. /\ pc[p] = "run" /\ UNCHANGED <<receipt, recorded>> /\ \E v : Mutate(p, v)
    BY <1>4 DEF RunMutation, CrashInStep
  <2>2. PICK v : Mutate(p, v)
    BY <2>1
  <2>3. /\ machine' = [machine EXCEPT ![Pkg(p)] = v]
        /\ v # machine[Pkg(p)] => effects' = effects \cup {Change(p)}
        /\ v = machine[Pkg(p)] => effects' = effects
    BY <2>2 DEF Mutate, Change
  <2>4. Pkg(p) \in Package
    BY <1>1, <2>1, OnePackage DEF Begun, Executing
  <2>5. \A e : Done(e)' = Done(e)
    BY <2>1 DEF Done
  <2>6. CASE q # Pkg(p) \/ v = machine[Pkg(p)]
    BY <1>1, <1>2, <2>1, <2>3, <2>4, <2>5, <2>6
  <2>7. CASE q = Pkg(p) /\ v # machine[Pkg(p)]
    <3>1. ~Done(Change(p)) /\ Change(p).pkg = q
      BY <1>1, <2>1, <2>4, <2>7 DEF OnePackageTx, Done, Change, Begun, Executing
    <3> QED
      BY <2>3, <2>5, <2>7, <3>1 DEF Explained
  <2> QED
    BY <2>6, <2>7
<1>5. CASE (CommitReceipt(p) \/ ReceiptFails(p)) /\ ~UNCHANGED <<receipt, recorded>>
  <2>1. /\ pc[p] = "receipts" /\ UNCHANGED <<machine, effects, seen>> /\ Confirmed(p)
        /\ receipt' = [receipt EXCEPT ![Pkg(p)] = ReceiptFor(p)]
        /\ recorded' = recorded \cup {<<tx[p], Pkg(p)>>}
    BY <1>5 DEF CommitReceipt, ReceiptFails, SaveReceipt, local
  <2>2. Pkg(p) \in Package
    BY <1>1, <2>1, OnePackage DEF Begun, Executing
  <2>3. CASE q # Pkg(p)
    BY <1>1, <1>2, <2>1, <2>2, <2>3 DEF Done
  <2>4. CASE q = Pkg(p)
    <3>1. receipt'[q] = ReceiptFor(p) /\ machine'[q] = machine[q]
      BY <1>1, <2>1, <2>2, <2>4
    <3>2. CASE Op(p) = "remove" \/ BackendOf[q] # "native"
      BY <3>1, <3>2 DEF Explained, Drifts, ReceiptFor
    <3>3. CASE Op(p) # "remove" /\ BackendOf[q] = "native"
      <4>1. seen[p][q] \in Version
        BY <2>1, <2>4, <3>3 DEF Confirmed, Native
      <4>2. seen[p][q] = machine[q]
        BY <1>1, <2>1, <2>4, <3>3, <4>1, NoneAssumption DEF Observed, Native, Executing
      <4>3. receipt'[q].version = seen[p][q]
        BY <2>4, <3>1, <3>3 DEF ReceiptFor, Native
      <4> QED
        BY <3>1, <4>2, <4>3 DEF Explained, Drifts
    <3> QED
      BY <3>2, <3>3
  <2> QED
    BY <2>3, <2>4
<1>6. CASE (CommitReceipt(p) \/ ReceiptFails(p)) /\ UNCHANGED <<receipt, recorded>>
  BY <1>3, <1>6 DEF CommitReceipt, ReceiptFails
<1>7. CASE /\ ~RunMutation(p) /\ ~CrashInStep(p) /\ ~CommitReceipt(p) /\ ~ReceiptFails(p)
  <2>1. CASE Prepare(p)
    BY <1>3, <2>1 DEF Prepare, BuildPlan, Revalidate, Refuse, Begin, ghost
  <2>2. CASE Run(p)
    BY <1>3, <1>7, <2>2 DEF Run, RunQuery, RunDownload, RunVerifyArtifact, RunNoChange, StepFails, ghost
  <2>3. CASE StartTransaction(p) \/ StartStep(p) \/ RecordStep(p) \/ FailStep(p) \/ SkipReceipt(p)
             \/ FailTransaction(p) \/ FailReceipts(p) \/ RecordReceipts(p) \/ Close(p)
             \/ JournalFails(p) \/ Crash(p)
    BY <1>3, <2>3 DEF StartTransaction, StartStep, RecordStep, FailStep, SkipReceipt, FailTransaction,
       FailReceipts, RecordReceipts, Close, JournalFails, Crash, ghost
  <2>4. CASE Reconcile(p)
    BY <1>3, <2>4 DEF Reconcile, ReadStatuses, ReadReceipts, QueryReceipt, Judge, Report, Mark,
                      MarkFails, ghost
  <2> QED
    BY <1>7, <2>1, <2>2, <2>3, <2>4 DEF Acts, Execute, Fault
<1> QED
  BY <1>4, <1>5, <1>6, <1>7

LEMMA NextKeepsDrift ==
    ASSUME OneProcess, ~SameSecond, ~PartialBackend, MaxPackages = 1, DriftInv, [Next]_vars
    PROVE  DriftInv'
<1>1. PromiseInv'
  BY NextKeepsSight, NextKeepsRecord DEF DriftInv, PromiseInv
<1>2. TypeInv'
  BY <1>1 DEF PromiseInv, SightInv, OwnInv
<1>3. ASSUME NEW p \in Proc, Acts(p)
      PROVE  DriftInv'
  <2>1. \A r \in Proc : Observed(r)'
    BY <1>2, <1>3, ActKeepsObserved DEF OneProcess
  <2>2. \A q \in Package : Explained(q)'
    BY <1>3, ActKeepsExplained
  <2> QED
    BY <1>1, <2>1, <2>2 DEF DriftInv
<1>4. CASE UNCHANGED vars
  <2>1. UNCHANGED <<pc, plan, k, j, seen, machine, receipt, effects, recorded>>
    BY <1>4 DEF vars, store, local, recon, ghost
  <2>2. ASSUME NEW p \in Proc
        PROVE  Observed(p)'
    BY <2>1 DEF DriftInv, Observed, Native, Pkg, Steps
  <2>3. ASSUME NEW q \in Package
        PROVE  Explained(q)'
    BY <2>1 DEF DriftInv, Explained, Drifts, Done
  <2> QED
    BY <1>1, <2>2, <2>3 DEF DriftInv
<1> QED
  BY <1>3, <1>4 DEF Next, Acts

\* One command at a time, one package in a plan and no failing backend that has
\* changed the machine: a native receipt that is wrong is explained by a change
\* of a transaction that is running or that `siorb reconcile` will show.
THEOREM DriftIsExplained ==
    ASSUME OneProcess, ~SameSecond, ~PartialBackend, MaxPackages = 1
    PROVE  Spec => []DriftIsOpen
<1>1. Init => DriftInv
  <2> SUFFICES ASSUME Init
               PROVE  DriftInv
    OBVIOUS
  <2>1. PromiseInv
    BY InitSight, InitRecord DEF PromiseInv
  <2> QED
    BY <2>1 DEF Init, DriftInv, Observed, Explained, Drifts, Executing
<1>2. DriftInv /\ [Next]_vars => DriftInv'
  BY NextKeepsDrift
<1>3. DriftInv => DriftIsOpen
  <2> SUFFICES ASSUME DriftInv, NEW q \in Package, Drifts(q)
               PROVE  \E e \in effects : e.pkg = q /\ (Live(e.tx) \/ Required(e.tx))
    BY DEF DriftIsOpen, Drifts
  <2>1. PICK e \in effects : e.pkg = q /\ ~Done(e)
    BY DEF DriftInv, Explained
  <2>2. e.tx \in TxId
    BY DEF DriftInv, PromiseInv, SightInv, OwnInv, TypeInv, TypeOK, HistoryTyped, Effect
  <2>3. last[e.tx] # "reconciled"
    <3>1. Recorded(e.tx) => Done(e)
      BY DEF DriftInv, PromiseInv, RecordInv, Recorded, Done
    <3> QED
      BY <2>1, <2>2, <3>1 DEF DriftInv, PromiseInv, RecordInv, TxRecord
  <2>4. Live(e.tx) \/ Required(e.tx)
    BY <2>1, <2>3 DEF DriftInv, PromiseInv, SightInv, OpenUntilRecorded, Done
  <2> QED
    BY <2>1, <2>4
<1> QED
  BY <1>1, <1>2, <1>3, PTL DEF Spec
=============================================================================
