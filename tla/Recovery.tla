------------------------------ MODULE Recovery ------------------------------
(***************************************************************************)
(* What the journal, the receipts and `siorb reconcile` promise together:  *)
(* a transaction stays open, so that a later command finds it, as long as  *)
(* the receipts owe an entry for something it changed on the machine.      *)
(* Nothing is said of journals, steps, processes or crashes.               *)
(***************************************************************************)
CONSTANTS TxId, Package

VARIABLES status,   \* per transaction: "none", "open" or "closed"
          owed      \* per transaction: packages it changed, still unrecorded

vars == <<status, owed>>

TypeOK ==
    /\ status \in [TxId -> {"none", "open", "closed"}]
    /\ owed \in [TxId -> SUBSET Package]

Init ==
    /\ status = [t \in TxId |-> "none"]
    /\ owed = [t \in TxId |-> {}]

Begin(t) ==
    /\ status[t] = "none"
    /\ status' = [status EXCEPT ![t] = "open"]
    /\ UNCHANGED owed

Change(t, q) ==
    /\ status[t] = "open"
    /\ owed' = [owed EXCEPT ![t] = @ \cup {q}]
    /\ UNCHANGED status

Record(t, q) ==
    /\ status[t] = "open"
    /\ owed' = [owed EXCEPT ![t] = @ \ {q}]
    /\ UNCHANGED status

Close(t) ==
    /\ status[t] = "open"
    /\ owed[t] = {}
    /\ status' = [status EXCEPT ![t] = "closed"]
    /\ UNCHANGED owed

Next ==
    \E t \in TxId :
        \/ Begin(t) \/ Close(t)
        \/ \E q \in Package : Change(t, q) \/ Record(t, q)

Spec == Init /\ [][Next]_vars

\* A transaction that is not open has every change it made in the receipts.
ClosedOwesNothing == \A t \in TxId : status[t] # "open" => owed[t] = {}
=============================================================================
