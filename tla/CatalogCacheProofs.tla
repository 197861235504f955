------------------------- MODULE CatalogCacheProofs -------------------------
(***************************************************************************)
(* Theorems about CatalogCache, for any number of processes, releases and  *)
(* directories.                                                            *)
(***************************************************************************)
EXTENDS CatalogCache, TLAPS

USE DEF Version, Dir

LEMMA Bounds == MaxVersion \in Nat /\ MaxDirs \in Nat /\ 0 \in Version /\ 1 \in Version
                /\ 0 \in Dir
BY BoundsAssumption

\* A step is one of the environment or one of a process.
LEMMA NextCases ==
    ASSUME Next
    PROVE  \/ Publish \/ Expire \/ RemoveStaleLock
           \/ \E p \in Proc :
                 \/ Start(p) \/ StartWithCatalog(p) \/ ReadPointer(p) \/ VerifyCached(p)
                 \/ StoreLoaded(p) \/ Finish(p) \/ Acquire(p) \/ FetchMirror(p) \/ Stage(p)
                 \/ Fill(p) \/ ReVerify(p) \/ KeepPrevious(p) \/ Activate(p) \/ Persist(p)
                 \/ Discard(p) \/ Unlock(p) \/ Crash(p)
BY DEF Next, Run, Load, Update

-----------------------------------------------------------------------------
(* Type correctness                                                        *)

LEMMA LeaveIsTyped ==
    ASSUME TypeOK, NEW p \in Proc, Leave(p)
    PROVE  /\ pc' \in [Proc -> PC] /\ cmd' \in [Proc -> Command]
           /\ trying' \in [Proc -> {"active", "previous", "fallback", "selection"}]
           /\ name' \in [Proc -> Dir] /\ got' \in [Proc -> Version]
           /\ served' \in Version /\ floor' \in [Proc -> Version] /\ lowered' \in BOOLEAN
BY BoundsAssumption DEF Leave, Goto, TypeOK, PC, Updating

LEMMA GotoIsTyped ==
    ASSUME TypeOK, NEW p \in Proc, NEW there \in PC, Goto(p, there)
    PROVE  pc' \in [Proc -> PC]
BY DEF Goto, TypeOK

LEMMA StoreIsTyped ==
    ASSUME TypeOK, NEW v \in Version, Store(v)
    PROVE  rollback' \in Version /\ lowered' \in BOOLEAN
BY DEF Store, TypeOK

LEMMA ControlPoints ==
    /\ "idle" \in PC /\ "pointer" \in PC /\ "verify" \in PC /\ "store" \in PC
    /\ "loaded" \in PC /\ "refused" \in PC /\ "mirror" \in PC /\ "stage" \in PC
    /\ "fill" \in PC /\ "recheck" \in PC /\ "keep" \in PC /\ "activate" \in PC
    /\ "persist" \in PC /\ "discard" \in PC /\ "unlock" \in PC
BY DEF PC, Updating

LEMMA TypeStep ==
    ASSUME TypeOK, [Next]_vars
    PROVE  TypeOK'
<1> USE Bounds, GotoIsTyped, ControlPoints
<1>1. CASE UNCHANGED vars
  BY <1>1 DEF TypeOK, vars, env, disk, local, ghost
<1>2. CASE Publish
  BY <1>2 DEF TypeOK, Publish, disk, local, ghost
<1>3. CASE Expire
  BY <1>3 DEF TypeOK, Expire, disk, local, ghost
<1>4. CASE RemoveStaleLock
  BY <1>4 DEF TypeOK, RemoveStaleLock, env, local, ghost
<1>5. ASSUME NEW p \in Proc, Start(p)
      PROVE  TypeOK'
  BY <1>5, SMTT(30) DEF TypeOK, Start, Begin, env, disk
<1>6. ASSUME NEW p \in Proc, StartWithCatalog(p)
      PROVE  TypeOK'
  <2>1. PICK v \in 1..published :
          (Goto(p, "loaded") \/ Goto(p, "refused")) /\ got' = [got EXCEPT ![p] = v]
    BY <1>6 DEF StartWithCatalog
  <2>0. got \in [Proc -> Version] /\ 1..published \subseteq Version
    BY DEF TypeOK
  <2>2. got' \in [Proc -> Version]
    BY <2>0, <2>1
  <2>3. PICK c \in Command : Begin(p, c)
    BY <1>6 DEF StartWithCatalog
  <2>4. pc' \in [Proc -> PC] /\ trying' = [trying EXCEPT ![p] = "selection"]
    BY <1>6, <2>1 DEF StartWithCatalog
  <2> QED
    BY <2>2, <2>3, <2>4 DEF TypeOK, Begin, env, disk
<1>7. ASSUME NEW p \in Proc, ReadPointer(p)
      PROVE  TypeOK'
  BY <1>7 DEF TypeOK, ReadPointer, LoadFails, PointerOf, env, disk, local, ghost
<1>8. ASSUME NEW p \in Proc, VerifyCached(p)
      PROVE  TypeOK'
  BY <1>8 DEF TypeOK, VerifyCached, LoadFails, env, disk, local, ghost
<1>9. ASSUME NEW p \in Proc, StoreLoaded(p)
      PROVE  TypeOK'
  <2>1. rollback \in Version /\ got[p] \in Version
    BY DEF TypeOK
  <2>2. PICK v \in {rollback, got[p]} : Store(v)
    BY <1>9 DEF StoreLoaded
  <2>3. rollback' \in Version /\ lowered' \in BOOLEAN
    BY <2>1, <2>2, StoreIsTyped
  <2> QED
    BY <1>9, <2>3 DEF TypeOK, StoreLoaded, LoadFails, env, local
<1>10. ASSUME NEW p \in Proc, Finish(p) \/ Crash(p)
       PROVE  TypeOK'
  BY <1>10, LeaveIsTyped DEF TypeOK, Finish, Crash, env, disk
<1>11. ASSUME NEW p \in Proc, Acquire(p)
       PROVE  TypeOK'
  <2>1. locked' \in BOOLEAN /\ left' \in BOOLEAN
    BY <1>11 DEF Acquire, TypeOK, ghost
  <2>2. CASE Leave(p)
    BY <1>11, <2>1, <2>2, LeaveIsTyped DEF TypeOK, Acquire, env
  <2>3. CASE Goto(p, "mirror") /\ UNCHANGED <<local, ghost>>
    BY <1>11, <2>1, <2>3 DEF TypeOK, Acquire, env, local, ghost
  <2> QED
    BY <1>11, <2>2, <2>3 DEF Acquire
<1>12. ASSUME NEW p \in Proc, FetchMirror(p)
       PROVE  TypeOK'
  <2>1. pc' \in [Proc -> PC]
    BY <1>12 DEF FetchMirror
  <2>2. 1..published \subseteq Version
    BY DEF TypeOK
  <2>3. got' \in [Proc -> Version]
    BY <1>12, <2>2 DEF TypeOK, FetchMirror
  <2>4. UNCHANGED <<env, disk, cmd, trying, name, ghost>>
    BY <1>12 DEF FetchMirror
  <2> QED
    BY <2>1, <2>3, <2>4 DEF TypeOK, env, disk, ghost
<1>13. ASSUME NEW p \in Proc, Stage(p)
       PROVE  TypeOK'
  <2>1. pc' \in [Proc -> PC]
    BY <1>13 DEF Stage
  <2>2. made' \in Dir /\ name' \in [Proc -> Dir]
    <3>1. CASE made < MaxDirs /\ made' = made + 1 /\ name' = [name EXCEPT ![p] = made']
      <4>1. made' \in Dir
        BY <3>1 DEF TypeOK
      <4> QED
        BY <3>1, <4>1 DEF TypeOK
    <3>2. CASE UNCHANGED <<made, name>>
      BY <3>2 DEF TypeOK
    <3> QED
      BY <1>13, <3>1, <3>2 DEF Stage
  <2>3. UNCHANGED <<env, dir, active, previous, rollback, locked, cmd, trying, got, ghost>>
    BY <1>13 DEF Stage
  <2> QED
    BY <2>1, <2>2, <2>3 DEF TypeOK, env, ghost
<1>14. ASSUME NEW p \in Proc, Fill(p)
       PROVE  TypeOK'
  <2>1. 0..published \subseteq Version
    BY DEF TypeOK
  <2>2. dir' = dir \/ \E v \in Version : dir' = [dir EXCEPT ![name[p]] = v]
    BY <1>14, <2>1 DEF Fill
  <2>3. dir' \in [Dir -> Version] /\ pc' \in [Proc -> PC]
    BY <1>14, <2>2 DEF TypeOK, Fill
  <2> QED
    BY <1>14, <2>3 DEF TypeOK, Fill, env, local, ghost
<1>15. ASSUME NEW p \in Proc, ReVerify(p)
       PROVE  TypeOK'
  BY <1>15 DEF TypeOK, ReVerify, env, disk, local, ghost
<1>16. ASSUME NEW p \in Proc, KeepPrevious(p)
       PROVE  TypeOK'
  <2>1. pc' \in [Proc -> PC]
    BY <1>16 DEF KeepPrevious
  <2>2. previous' \in Dir
    BY <1>16 DEF TypeOK, KeepPrevious
  <2>3. UNCHANGED <<env, dir, made, active, rollback, locked, local, ghost>>
    BY <1>16 DEF KeepPrevious
  <2> QED
    BY <2>1, <2>2, <2>3 DEF TypeOK, env, local, ghost
<1>17. ASSUME NEW p \in Proc, Activate(p)
       PROVE  TypeOK'
  <2>1. pc' \in [Proc -> PC]
    BY <1>17 DEF Activate
  <2>2. active' \in Dir
    BY <1>17 DEF TypeOK, Activate
  <2>3. UNCHANGED <<env, dir, made, previous, rollback, locked, local, ghost>>
    BY <1>17 DEF Activate
  <2> QED
    BY <2>1, <2>2, <2>3 DEF TypeOK, env, local, ghost
<1>20. ASSUME NEW p \in Proc, Persist(p)
       PROVE  TypeOK'
  <2>1. rollback \in Version /\ got[p] \in Version
    BY DEF TypeOK
  <2>2. PICK v \in {rollback, got[p]} : Store(v)
    BY <1>20 DEF Persist
  <2>3. rollback' \in Version /\ lowered' \in BOOLEAN
    BY <2>1, <2>2, StoreIsTyped
  <2> QED
    BY <1>20, <2>3 DEF TypeOK, Persist, env, local
<1>18. ASSUME NEW p \in Proc, Discard(p)
       PROVE  TypeOK'
  <2>1. dir' \in [Dir -> Version]
    <3>1. 0 \in Version
      OBVIOUS
    <3>2. dir' = dir \/ dir' = [dir EXCEPT ![name[p]] = 0]
      BY <1>18 DEF Discard
    <3> QED
      BY <3>1, <3>2 DEF TypeOK
  <2>2. pc' \in [Proc -> PC]
    BY <1>18 DEF Discard
  <2> QED
    BY <1>18, <2>1, <2>2 DEF TypeOK, Discard, env, local, ghost
<1>19. ASSUME NEW p \in Proc, Unlock(p)
       PROVE  TypeOK'
  BY <1>19, LeaveIsTyped DEF TypeOK, Unlock, env
<1> QED
  BY <1>1, <1>2, <1>3, <1>4, <1>5, <1>6, <1>7, <1>8, <1>9, <1>10, <1>11, <1>12, <1>13,
     <1>14, <1>15, <1>16, <1>17, <1>18, <1>19, <1>20, NextCases

\* Every variable of the cache model keeps its type.
THEOREM TypeCorrect == Spec => []TypeOK
<1>1. Init => TypeOK
  <2>1. ASSUME Init
        PROVE  /\ published \in Version /\ expired \in Version
               /\ dir \in [Dir -> Version] /\ made \in Dir
               /\ active \in Dir /\ previous \in Dir
               /\ rollback \in Version /\ locked \in BOOLEAN /\ served \in Version
               /\ lowered \in BOOLEAN /\ left \in BOOLEAN
    BY <2>1, Bounds DEF Init
  <2>2. ASSUME Init
        PROVE  /\ pc \in [Proc -> PC] /\ cmd \in [Proc -> Command]
               /\ trying \in [Proc -> {"active", "previous", "fallback", "selection"}]
               /\ name \in [Proc -> Dir] /\ got \in [Proc -> Version]
               /\ floor \in [Proc -> Version]
    BY <2>2, Bounds, ControlPoints DEF Init
  <2> QED
    BY <2>1, <2>2 DEF TypeOK
<1> QED
  BY <1>1, TypeStep, PTL DEF Spec

-----------------------------------------------------------------------------
(* The lock                                                                *)

LockInv == OneUpdater /\ \A p \in Proc : pc[p] \in Updating => locked

LEMMA LockStep ==
    ASSUME TypeOK, LockInv, [Next]_vars
    PROVE  LockInv'
<1>1. ASSUME UNCHANGED <<pc, locked>>
      PROVE  LockInv'
  BY <1>1 DEF LockInv, OneUpdater
\* A process gets there only when nobody is, or goes on, or leaves.
<1>2. ASSUME NEW p \in Proc, pc[p] \in Updating, locked' = locked,
             NEW there, pc' = [pc EXCEPT ![p] = there]
      PROVE  LockInv'
  BY <1>2 DEF LockInv, OneUpdater, TypeOK
<1>3. ASSUME NEW p \in Proc, locked' = locked,
             NEW there, there \notin Updating, pc' = [pc EXCEPT ![p] = there]
      PROVE  LockInv'
  BY <1>3 DEF LockInv, OneUpdater, TypeOK
<1>4. ASSUME NEW p \in Proc, Unlock(p)
      PROVE  LockInv'
  <2>1. pc[p] \in Updating /\ pc' = [pc EXCEPT ![p] = "idle"]
    BY <1>4 DEF Unlock, Leave, Goto, Updating
  <2>2. \A q \in Proc : pc'[q] \notin Updating
    BY <2>1 DEF LockInv, OneUpdater, TypeOK, Updating
  <2> QED
    BY <2>2 DEF LockInv, OneUpdater
<1>5. ASSUME NEW p \in Proc, Acquire(p)
      PROVE  LockInv'
  <2>1. CASE ~locked /\ locked' = TRUE /\ pc' = [pc EXCEPT ![p] = "mirror"]
    <3>1. \A q \in Proc : pc'[q] \in Updating => q = p
      BY <2>1 DEF LockInv, TypeOK
    <3> QED
      BY <2>1, <3>1 DEF LockInv, OneUpdater
  <2>2. CASE pc' = [pc EXCEPT ![p] = "idle"]
    <3>1. "idle" \notin Updating
      BY DEF Updating
    <3>2. \A q \in Proc : pc'[q] \in Updating => pc[q] \in Updating
      BY <2>2, <3>1 DEF TypeOK
    <3>3. locked => locked'
      BY <1>5 DEF Acquire
    <3> QED
      BY <3>2, <3>3 DEF LockInv, OneUpdater
  <2> QED
    BY <1>5, <2>1, <2>2 DEF Acquire, Leave, Goto
<1>6. CASE RemoveStaleLock
  BY <1>6 DEF LockInv, OneUpdater, RemoveStaleLock
<1>7. CASE Publish \/ Expire \/ UNCHANGED vars
  BY <1>1, <1>7 DEF Publish, Expire, disk, vars
<1>8. ASSUME NEW p \in Proc,
             \/ Start(p) \/ StartWithCatalog(p) \/ ReadPointer(p) \/ VerifyCached(p)
             \/ StoreLoaded(p) \/ Finish(p) \/ Crash(p)
      PROVE  LockInv'
  <2>1. locked' = locked
    BY <1>8 DEF Start, StartWithCatalog, Begin, ReadPointer, VerifyCached, StoreLoaded,
                Finish, Crash, disk
  <2>2. pc' = pc \/ \E there \in PC \ Updating : pc' = [pc EXCEPT ![p] = there]
    BY <1>8 DEF Start, StartWithCatalog, ReadPointer, VerifyCached, StoreLoaded, Finish,
                Crash, Leave, LoadFails, Goto, PC, Updating
  <2> QED
    BY <1>1, <1>3, <2>1, <2>2
<1>9. ASSUME NEW p \in Proc,
             \/ FetchMirror(p) \/ Stage(p) \/ Fill(p) \/ ReVerify(p) \/ KeepPrevious(p)
             \/ Activate(p) \/ Persist(p) \/ Discard(p)
      PROVE  LockInv'
  <2>1. locked' = locked /\ pc[p] \in Updating
    BY <1>9 DEF FetchMirror, Stage, Fill, ReVerify, KeepPrevious, Activate, Persist,
                Discard, disk, Updating
  <2>2. \E there : pc' = [pc EXCEPT ![p] = there]
    BY <1>9 DEF FetchMirror, Stage, Fill, ReVerify, KeepPrevious, Activate, Persist,
                Discard, Goto
  <2> QED
    BY <1>2, <2>1, <2>2
<1> QED
  BY <1>4, <1>5, <1>6, <1>7, <1>8, <1>9, NextCases

\* The lock file excludes a second update, whatever fails and whoever dies.
THEOREM UpdatesAreSerialized == Spec => []OneUpdater
<1>1. Init => LockInv
  BY DEF Init, LockInv, OneUpdater, Updating
<1>2. LockInv => OneUpdater
  BY DEF LockInv
<1> QED
  BY <1>1, <1>2, TypeCorrect, LockStep, PTL DEF Spec

-----------------------------------------------------------------------------
(* The pointers, when no write fails                                       *)

Staging == {"fill", "recheck", "keep", "activate", "discard"}

\* The directory of an update is its own, and no pointer names it, until it is
\* verified and activated.
StagingInv ==
    /\ active <= made /\ previous <= made
    /\ PointersAreWhole
    /\ \A p \in Proc : pc[p] \in Staging => name[p] \in 1..made /\ name[p] \notin {active, previous}
    /\ \A p \in Proc : pc[p] \in {"keep", "activate"} => dir[name[p]] # 0

\* Only an update touches its directory and the pointers.
LEMMA OutsideStaging ==
    ASSUME TypeOK, StagingInv, NEW p \in Proc,
           UNCHANGED <<dir, made, active, previous>>, pc'[p] \notin Staging,
           \A q \in Proc \ {p} : pc'[q] = pc[q] /\ name'[q] = name[q]
    PROVE  StagingInv'
<1>1. \A q \in Proc : pc'[q] \in Staging => pc[q] \in Staging /\ name'[q] = name[q] /\ pc'[q] = pc[q]
  OBVIOUS
<1>2. \A q \in Proc : pc'[q] \in {"keep", "activate"} => pc'[q] \in Staging
  BY DEF Staging
<1> QED
  BY <1>1, <1>2 DEF StagingInv, PointersAreWhole

LEMMA StagingStep ==
    ASSUME ~WriteFaults, TypeOK, LockInv, StagingInv, [Next]_vars
    PROVE  StagingInv'
<1>1. ASSUME UNCHANGED <<dir, made, active, previous, pc, name>>
      PROVE  StagingInv'
  BY <1>1 DEF StagingInv, PointersAreWhole
<1>2. CASE Publish \/ Expire \/ RemoveStaleLock \/ UNCHANGED vars
  BY <1>1, <1>2 DEF Publish, Expire, RemoveStaleLock, disk, local, vars
<1>3. ASSUME NEW p \in Proc,
             \/ Start(p) \/ StartWithCatalog(p) \/ ReadPointer(p) \/ VerifyCached(p)
             \/ StoreLoaded(p) \/ Finish(p) \/ Acquire(p) \/ FetchMirror(p) \/ Unlock(p)
             \/ Crash(p) \/ Persist(p)
      PROVE  StagingInv'
  <2>1. UNCHANGED <<dir, made, active, previous>>
    BY <1>3 DEF Start, StartWithCatalog, Begin, ReadPointer, VerifyCached, StoreLoaded,
                Finish, Acquire, FetchMirror, Unlock, Crash, Persist, disk
  <2>2. \A q \in Proc \ {p} : name'[q] = name[q]
    BY <1>3 DEF TypeOK, Start, StartWithCatalog, Begin, ReadPointer, VerifyCached, StoreLoaded,
                Finish, Acquire, FetchMirror, Unlock, Crash, Persist, Leave, LoadFails, local
  <2>3. \/ pc' = pc /\ pc[p] = "pointer"
        \/ \E there \in PC \ Staging : pc' = [pc EXCEPT ![p] = there]
    BY <1>3, ControlPoints
       DEF Start, StartWithCatalog, ReadPointer, VerifyCached, StoreLoaded, Finish, Acquire,
           FetchMirror, Unlock, Crash, Persist, Leave, LoadFails, Goto, Staging
  <2>4. pc'[p] \notin Staging /\ \A q \in Proc \ {p} : pc'[q] = pc[q]
    BY <2>3 DEF TypeOK, Staging
  <2> QED
    BY <2>1, <2>2, <2>4, OutsideStaging
<1>4. ASSUME NEW p \in Proc, pc[p] \in Updating, NEW q \in Proc, q # p
      PROVE  pc[q] \notin Staging
  BY <1>4 DEF LockInv, OneUpdater, Updating, Staging
<1>5. ASSUME NEW p \in Proc, Stage(p)
      PROVE  StagingInv'
  <2>1. CASE pc' = [pc EXCEPT ![p] = "unlock"] /\ UNCHANGED <<dir, made, active, previous, name>>
    <3>1. pc'[p] \notin Staging /\ \A q \in Proc \ {p} : pc'[q] = pc[q] /\ name'[q] = name[q]
      BY <2>1 DEF TypeOK, Staging
    <3> QED
      BY <2>1, <3>1, OutsideStaging
  <2>2. CASE /\ pc' = [pc EXCEPT ![p] = "fill"] /\ made' = made + 1
             /\ name' = [name EXCEPT ![p] = made'] /\ UNCHANGED <<dir, active, previous>>
    <3>1. \A q \in Proc : pc'[q] \in Staging => q = p
      BY <1>4, <1>5, <2>2 DEF Stage, TypeOK, Updating
    <3>2. pc'[p] = "fill" /\ name'[p] = made + 1
      BY <2>2 DEF TypeOK
    <3>3. made \in Nat /\ active <= made /\ previous <= made
      BY Bounds DEF TypeOK, StagingInv
    <3>4. active' <= made' /\ previous' <= made' /\ name'[p] \in 1..made' /\ name'[p] \notin {active', previous'}
      BY <2>2, <3>2, <3>3, Bounds DEF TypeOK
    <3>5. \A q \in Proc : pc'[q] \in {"keep", "activate"} => pc'[q] \in Staging
      BY DEF Staging
    <3> QED
      BY <2>2, <3>1, <3>2, <3>4, <3>5 DEF StagingInv, PointersAreWhole
  <2> QED
    BY <1>5, <2>1, <2>2 DEF Stage, Goto
<1>6. ASSUME NEW p \in Proc, Fill(p)
      PROVE  StagingInv'
  <2>1. \A q \in Proc : pc'[q] \in Staging => q = p
    BY <1>4, <1>6 DEF Fill, Goto, TypeOK, Updating
  <2>2. name[p] \in 1..made /\ name[p] \notin {active, previous}
    BY <1>6 DEF Fill, StagingInv, Staging
  <2>3. \A d \in {active, previous} : dir'[d] = dir[d]
    BY <1>6, <2>2 DEF Fill, TypeOK
  <2>4. pc'[p] = "recheck"
    BY <1>6 DEF Fill, Goto, TypeOK
  <2>5. \A q \in Proc : pc'[q] \notin {"keep", "activate"}
    BY <2>1, <2>4 DEF Staging
  <2>6. UNCHANGED <<made, active, previous, name>>
    BY <1>6 DEF Fill, local
  <2> QED
    BY <2>1, <2>2, <2>3, <2>5, <2>6 DEF StagingInv, PointersAreWhole
<1>7. ASSUME NEW p \in Proc, ReVerify(p)
      PROVE  StagingInv'
  <2>1. \A q \in Proc : pc'[q] \in Staging => q = p
    BY <1>4, <1>7 DEF ReVerify, Goto, TypeOK, Updating
  <2>2. name[p] \in 1..made /\ name[p] \notin {active, previous}
    BY <1>7 DEF ReVerify, StagingInv, Staging
  <2>3. pc'[p] \in {"keep", "activate"} => dir[name[p]] # 0
    BY <1>7 DEF ReVerify, Goto, TypeOK, Accepts
  <2>4. UNCHANGED <<dir, made, active, previous, name>>
    BY <1>7 DEF ReVerify, disk, local
  <2>5. \A q \in Proc : pc'[q] \in {"keep", "activate"} => q = p
    BY <2>1 DEF Staging
  <2> QED
    BY <2>1, <2>2, <2>3, <2>4, <2>5 DEF StagingInv, PointersAreWhole
<1>8. ASSUME NEW p \in Proc, KeepPrevious(p)
      PROVE  StagingInv'
  <2>1. \A q \in Proc : pc'[q] \in Staging => q = p
    BY <1>4, <1>8 DEF KeepPrevious, Goto, TypeOK, Updating
  <2>2. name[p] \in 1..made /\ name[p] \notin {active, previous} /\ dir[name[p]] # 0
    BY <1>8 DEF KeepPrevious, StagingInv, Staging
  <2>3. previous' = IF active # 0 THEN active ELSE previous
    BY <1>8 DEF KeepPrevious
  <2>4. UNCHANGED <<dir, made, active, name>>
    BY <1>8 DEF KeepPrevious, local
  <2>5. \A q \in Proc : pc'[q] \in {"keep", "activate"} => q = p
    BY <2>1 DEF Staging
  <2> QED
    BY <2>1, <2>2, <2>3, <2>4, <2>5 DEF StagingInv, PointersAreWhole
<1>9. ASSUME NEW p \in Proc, Activate(p)
      PROVE  StagingInv'
  <2>1. \A q \in Proc : pc'[q] \notin Staging
    BY <1>4, <1>9 DEF Activate, Goto, TypeOK, Updating, Staging
  <2>2. name[p] \in 1..made /\ dir[name[p]] # 0
    BY <1>9 DEF Activate, StagingInv, Staging
  <2>3. active' = name[p] /\ UNCHANGED <<dir, made, previous>>
    BY <1>9 DEF Activate
  <2>4. active' <= made'
    BY <2>2, <2>3, Bounds DEF TypeOK
  <2>5. \A q \in Proc : pc'[q] \notin {"keep", "activate"}
    BY <2>1 DEF Staging
  <2> QED
    BY <2>1, <2>2, <2>3, <2>4, <2>5 DEF StagingInv, PointersAreWhole
<1>10. ASSUME NEW p \in Proc, Discard(p)
       PROVE  StagingInv'
  <2>1. \A q \in Proc : pc'[q] \notin Staging
    BY <1>4, <1>10 DEF Discard, Goto, TypeOK, Updating, Staging
  <2>2. name[p] \notin {active, previous}
    BY <1>10 DEF Discard, StagingInv, Staging
  <2>3. \A d \in {active, previous} : dir'[d] = dir[d]
    BY <1>10, <2>2 DEF Discard, TypeOK
  <2>4. UNCHANGED <<made, active, previous>>
    BY <1>10 DEF Discard
  <2>5. \A q \in Proc : pc'[q] \notin {"keep", "activate"}
    BY <2>1 DEF Staging
  <2> QED
    BY <2>1, <2>3, <2>4, <2>5 DEF StagingInv, PointersAreWhole
<1> QED
  BY <1>2, <1>3, <1>5, <1>6, <1>7, <1>8, <1>9, <1>10, NextCases

\* When no write fails, a command that reads a pointer finds a complete and
\* verified repository under it, whatever crashes: a directory is named only after
\* it was verified, and is removed only while nothing names it.
THEOREM PointersNameWholeRepositories ==
    ASSUME ~WriteFaults
    PROVE  Spec => []PointersAreWhole
<1>1. Init => LockInv
  BY DEF Init, LockInv, OneUpdater, Updating
<1>2. Init => StagingInv
  BY Bounds DEF Init, StagingInv, PointersAreWhole, Staging
<1>3. TypeOK /\ LockInv /\ StagingInv /\ [Next]_vars => StagingInv'
  BY StagingStep
<1>4. StagingInv => PointersAreWhole
  BY DEF StagingInv
<1> QED
  BY <1>1, <1>2, <1>3, <1>4, TypeCorrect, LockStep, PTL DEF Spec

-----------------------------------------------------------------------------
(* The stored versions, when commands run one at a time                    *)

Fetched == {"store", "stage", "fill", "recheck", "keep", "activate", "persist"}

\* What process p verified is not below the stored versions, and what it runs with
\* is not below what commands were given before it began.
Sound(p) ==
    /\ floor[p] <= served
    /\ pc[p] \in Fetched => got[p] >= rollback
    /\ pc[p] \in Staging \cup {"persist"} => name[p] # 0
    /\ pc[p] \in {"verify", "store"} => active # 0
    /\ pc[p] = "pointer" /\ trying[p] = "previous" => active = 0
    /\ pc[p] = "pointer" /\ trying[p] # "fallback" => got[p] = 0
    /\ pc[p] = "loaded" => got[p] >= floor[p]
    /\ pc[p] = "idle" => trying[p] = "active" /\ got[p] = 0

\* The stored versions cover what commands were given from the cache, and the active
\* pointer exists once one was.
RollbackInv ==
    /\ served <= rollback
    /\ active = 0 => previous = 0 /\ served = 0
    /\ \A p \in Proc : Sound(p)

LEMMA NumbersAreNaturals ==
    ASSUME TypeOK, NEW p \in Proc
    PROVE  /\ rollback \in Nat /\ served \in Nat /\ active \in Nat /\ previous \in Nat
           /\ made \in Nat /\ got[p] \in Nat /\ floor[p] \in Nat /\ name[p] \in Nat
           /\ dir[name[p]] \in Nat
BY Bounds DEF TypeOK

LEMMA RollbackStep ==
    ASSUME TypeOK, RollbackInv, NEW p \in Proc, \A q \in Proc : q = p, Run(p)
    PROVE  RollbackInv' /\ rollback' >= rollback
<1> USE NumbersAreNaturals, Bounds
<1>0. Sound(p)
  BY DEF RollbackInv
<1>1. SUFFICES ASSUME TRUE
               PROVE  /\ served' <= rollback' /\ (active' = 0 => previous' = 0 /\ served' = 0)
                      /\ Sound(p)' /\ rollback' >= rollback
  BY DEF RollbackInv
<1>2. CASE ReadPointer(p)
  BY <1>0, <1>2 DEF ReadPointer, LoadFails, PointerOf, Goto, disk, local, ghost, Sound,
                    Fetched, Staging, TypeOK, RollbackInv
<1>3. CASE VerifyCached(p)
  <2>1. CASE Accepts(dir[name[p]])
    <3>1. pc'[p] = "store" /\ got'[p] = dir[name[p]] /\ got'[p] >= rollback /\ pc[p] = "verify"
      BY <1>3, <2>1 DEF VerifyCached, Accepts, Goto, TypeOK
    <3>2. UNCHANGED <<disk, ghost>>
      BY <1>3, <2>1 DEF VerifyCached
    <3> QED
      BY <1>0, <3>1, <3>2 DEF disk, ghost, Sound, Staging, RollbackInv
  <2>2. CASE ~Accepts(dir[name[p]])
    BY <1>0, <1>3, <2>2, SMTT(30) DEF VerifyCached, LoadFails, Goto, disk, ghost, Sound, Fetched, Staging, TypeOK,
                            RollbackInv
  <2> QED
    BY <2>1, <2>2
<1>4. CASE StoreLoaded(p)
  BY <1>0, <1>4 DEF StoreLoaded, Store, LoadFails, Goto, local, ghost, Sound,
                    Fetched, Staging, TypeOK, RollbackInv
<1>5. CASE Finish(p)
  BY <1>0, <1>5 DEF Finish, Leave, Goto, disk, Sound, Fetched, Staging, TypeOK, RollbackInv
<1>6. CASE Acquire(p)
  BY <1>0, <1>6 DEF Acquire, Leave, Goto, local, ghost, Sound, Fetched, Staging, TypeOK,
                    RollbackInv
<1>7. CASE FetchMirror(p)
  <2>1. /\ \/ pc'[p] = "stage" /\ got'[p] >= rollback
           \/ pc'[p] = "unlock"
        /\ pc[p] = "mirror"
    BY <1>7 DEF FetchMirror, Accepts, Goto, TypeOK
  <2>2. UNCHANGED <<disk, ghost>>
    BY <1>7 DEF FetchMirror
  <2> QED
    BY <1>0, <2>1, <2>2 DEF disk, ghost, Sound, Fetched, Staging, RollbackInv
<1>8. CASE Stage(p)
  BY <1>0, <1>8 DEF Stage, Goto, ghost, Sound, Fetched, Staging, TypeOK, RollbackInv
<1>9. CASE Fill(p)
  BY <1>0, <1>9 DEF Fill, Goto, local, ghost, Sound, Fetched, Staging, TypeOK, RollbackInv
<1>10. CASE ReVerify(p)
  BY <1>0, <1>10 DEF ReVerify, Goto, disk, local, ghost, Sound, Fetched, Staging, TypeOK,
                     RollbackInv
<1>11. CASE KeepPrevious(p)
  BY <1>0, <1>11 DEF KeepPrevious, Goto, local, ghost, Sound, Fetched, Staging, TypeOK,
                     RollbackInv
<1>12. CASE Activate(p)
  BY <1>0, <1>12 DEF Activate, Goto, local, ghost, Sound, Fetched, Staging, TypeOK, RollbackInv
<1>13. CASE Persist(p)
  BY <1>0, <1>13 DEF Persist, Store, Goto, local, ghost, Sound, Fetched, Staging, TypeOK, RollbackInv
<1>14. CASE Discard(p)
  BY <1>0, <1>14 DEF Discard, Goto, local, ghost, Sound, Fetched, Staging, TypeOK, RollbackInv
<1>15. CASE Unlock(p)
  BY <1>0, <1>15 DEF Unlock, Leave, Goto, Sound, Fetched, Staging, TypeOK, RollbackInv
<1> QED
  BY <1>2, <1>3, <1>4, <1>5, <1>6, <1>7, <1>8, <1>9, <1>10, <1>11, <1>12, <1>13, <1>14,
     <1>15 DEF Run, Load, Update

LEMMA RollbackNext ==
    ASSUME TypeOK, RollbackInv, \A p, q \in Proc : p = q, [Next]_vars
    PROVE  RollbackInv' /\ rollback' >= rollback
<1> USE NumbersAreNaturals, Bounds
<1>1. CASE Publish \/ Expire \/ RemoveStaleLock \/ UNCHANGED vars
  <2>1. UNCHANGED <<active, previous, rollback, served, floor, got, pc, name, trying>>
    BY <1>1 DEF Publish, Expire, RemoveStaleLock, vars, disk, local, ghost
  <2>2. RollbackInv'
    BY <2>1 DEF RollbackInv, Sound
  <2>3. rollback \in Nat
    BY DEF TypeOK
  <2> QED
    BY <2>1, <2>2, <2>3
<1>2. ASSUME NEW p \in Proc, Run(p)
      PROVE  RollbackInv' /\ rollback' >= rollback
  BY <1>2, RollbackStep
<1>3. ASSUME NEW p \in Proc, Start(p) \/ StartWithCatalog(p) \/ Crash(p)
      PROVE  RollbackInv' /\ rollback' >= rollback
  <2>1. \A q \in Proc : q = p
    OBVIOUS
  <2>2. Sound(p)
    BY DEF RollbackInv
  <2>3. CASE Start(p)
    <3>1. UNCHANGED <<active, previous, rollback, served>>
      BY <2>3 DEF Start, Begin, disk
    <3>2. /\ pc'[p] = "pointer" /\ trying' = trying /\ got' = got /\ floor'[p] = served
      BY <2>3 DEF Start, Begin, Goto, TypeOK
    <3>3. trying[p] = "active" /\ got[p] = 0
      BY <2>2, <2>3 DEF Start, Begin, Sound
    <3>4. Sound(p)'
      BY <3>1, <3>2, <3>3 DEF Sound, Fetched, Staging
    <3> QED
      BY <2>1, <3>1, <3>4 DEF RollbackInv
  <2>4. CASE StartWithCatalog(p)
    <3>1. PICK v \in 1..published :
            /\ Goto(p, IF Accepts(v) THEN "loaded" ELSE "refused")
            /\ got' = [got EXCEPT ![p] = v]
      BY <2>4 DEF StartWithCatalog
    <3>2. UNCHANGED <<disk, served>> /\ floor' = [floor EXCEPT ![p] = served]
      BY <2>4 DEF StartWithCatalog, Begin
    <3>3. pc'[p] = "loaded" => v >= rollback
      BY <3>1 DEF Goto, Accepts, TypeOK
    <3>4. pc'[p] \in {"loaded", "refused"} /\ got'[p] = v /\ floor'[p] = served /\ v \in Nat
      BY <3>1, <3>2 DEF Goto, TypeOK
    <3>5. Sound(p)'
      BY <3>2, <3>3, <3>4 DEF Sound, Fetched, Staging, RollbackInv
    <3>6. UNCHANGED <<active, previous, rollback, served>>
      BY <3>2 DEF disk
    <3>7. \A q \in Proc : Sound(q)'
      BY <2>1, <3>5
    <3> QED
      BY <3>6, <3>7 DEF RollbackInv
  <2>5. CASE Crash(p)
    BY <2>1, <2>2, <2>5 DEF Crash, Leave, Goto, disk, Sound, Fetched, Staging, TypeOK, RollbackInv
  <2> QED
    BY <1>3, <2>3, <2>4, <2>5
<1> QED
  BY <1>1, <1>2, <1>3 DEF Next

LEMMA RollbackInit == Init => RollbackInv
BY DEF Init, RollbackInv, Sound, Fetched, Staging

\* Commands that run one at a time never take a user back: through failing writes,
\* crashes, stale mirrors and selected catalogs, what a command runs with is not
\* older than what earlier commands were given from the cache.
THEOREM SequentialCommandsNeverRollBack ==
    ASSUME \A p, q \in Proc : p = q
    PROVE  Spec => []NeverRolledBack
<1>1. TypeOK /\ RollbackInv /\ [Next]_vars => RollbackInv'
  BY RollbackNext
<1>2. RollbackInv => NeverRolledBack
  BY DEF RollbackInv, Sound, NeverRolledBack
<1> QED
  BY <1>1, <1>2, RollbackInit, TypeCorrect, PTL DEF Spec

\* Nor do the versions they store ever decrease.
THEOREM SequentialVersionsGrow ==
    ASSUME \A p, q \in Proc : p = q
    PROVE  Spec => RollbackGrows
<1>1. TypeOK /\ RollbackInv /\ [Next]_vars => RollbackInv'
  BY RollbackNext
<1>2. TypeOK /\ RollbackInv /\ [Next]_vars => [rollback' >= rollback]_rollback
  BY RollbackNext
<1> QED
  BY <1>1, <1>2, RollbackInit, TypeCorrect, PTL DEF Spec, RollbackGrows

-----------------------------------------------------------------------------
(* What can be loaded, while the stored versions are not lowered           *)

\* A process that is about to read a directory does not read one that an update
\* still fills: that was made later, and no pointer named it yet.
Apart ==
    /\ dir[0] = 0
    /\ \A p, q \in Proc : pc[p] = "verify" =>
         name[p] <= made /\ (pc[q] \in Staging => name[p] # name[q])

\* What an update holds is not below the active repository, and what a command is
\* loading is not above it.
Ordered(p) ==
    /\ pc[p] \in {"stage", "fill", "recheck", "keep", "activate"} => got[p] >= dir[active]
    /\ pc[p] \in {"keep", "activate"} => dir[name[p]] = got[p]
    /\ pc[p] = "persist" => got[p] = dir[active]
    /\ pc[p] = "verify" => dir[name[p]] <= dir[active]
    /\ pc[p] = "store" => got[p] <= dir[active]

\* The stored versions are those of the active repository, save between the
\* activation of a newer one and the store that follows.
Settled ==
    /\ dir[active] >= rollback
    /\ dir[previous] <= dir[active]
    /\ (\A p \in Proc : pc[p] # "persist") => rollback = dir[active]
    /\ \A p \in Proc : Ordered(p)

LEMMA ApartStep ==
    ASSUME ~WriteFaults, TypeOK, LockInv, StagingInv, Apart, [Next]_vars
    PROVE  Apart'
<1> USE Bounds, NumbersAreNaturals
\* Nothing is filled or made, and who goes on to verify reads a pointer.
<1>1. ASSUME dir' = dir, made' = made, UNCHANGED <<active, previous>>, NEW p \in Proc,
             \A q \in Proc \ {p} : pc'[q] = pc[q] /\ name'[q] = name[q],
             pc'[p] = "verify" => name'[p] \in {active, previous},
             pc'[p] \in Staging => pc[p] \in Staging /\ name'[p] = name[p]
      PROVE  Apart'
  <2>1. ASSUME NEW a \in Proc, pc'[a] = "verify"
        PROVE  name'[a] <= made
    BY <1>1, <2>1 DEF Apart, StagingInv
  <2>2. ASSUME NEW a \in Proc, NEW b \in Proc, pc'[a] = "verify", pc'[b] \in Staging
        PROVE  name'[a] # name'[b]
    <3>1. pc[b] \in Staging /\ name'[b] = name[b]
      BY <1>1, <2>2
    <3>2. CASE a = p
      BY <1>1, <2>2, <3>1, <3>2 DEF StagingInv
    <3>3. CASE a # p
      BY <1>1, <2>2, <3>1, <3>3 DEF Apart
    <3> QED
      BY <3>2, <3>3
  <2> QED
    BY <1>1, <2>1, <2>2 DEF Apart
<1>2. CASE Publish \/ Expire \/ RemoveStaleLock \/ UNCHANGED vars
  <2>1. UNCHANGED <<dir, made, pc, name>>
    BY <1>2 DEF Publish, Expire, RemoveStaleLock, vars, disk, local
  <2> QED
    BY <2>1 DEF Apart
<1>3. ASSUME NEW p \in Proc,
             \/ Start(p) \/ StartWithCatalog(p) \/ VerifyCached(p) \/ StoreLoaded(p)
             \/ Finish(p) \/ Acquire(p) \/ FetchMirror(p) \/ Unlock(p) \/ Crash(p)
      PROVE  Apart'
  <2>1. UNCHANGED <<dir, made, active, previous>>
    BY <1>3 DEF Start, StartWithCatalog, Begin, VerifyCached, StoreLoaded, Finish, Acquire,
                FetchMirror, Unlock, Crash, disk
  <2>2. \A q \in Proc \ {p} : pc'[q] = pc[q] /\ name'[q] = name[q]
    BY <1>3 DEF TypeOK, Start, StartWithCatalog, Begin, VerifyCached, StoreLoaded, Finish,
                Acquire, FetchMirror, Unlock, Crash, Leave, LoadFails, Goto, local
  <2>3. pc'[p] # "verify" /\ pc'[p] \notin Staging
    BY <1>3 DEF TypeOK, Start, StartWithCatalog, Begin, VerifyCached, StoreLoaded, Finish,
                Acquire, FetchMirror, Unlock, Crash, Leave, LoadFails, Goto, Staging
  <2> QED
    BY <1>1, <2>1, <2>2, <2>3
<1>4. ASSUME NEW p \in Proc, ReadPointer(p)
      PROVE  Apart'
  <2>1. UNCHANGED <<dir, made, active, previous>>
    BY <1>4 DEF ReadPointer, disk
  <2>2. \A q \in Proc \ {p} : pc'[q] = pc[q] /\ name'[q] = name[q]
    BY <1>4 DEF TypeOK, ReadPointer, LoadFails, Goto, local
  <2>3. pc'[p] \notin Staging
    BY <1>4 DEF TypeOK, ReadPointer, LoadFails, Goto, local, Staging
  <2>4. pc'[p] = "verify" => name'[p] \in {active, previous}
    BY <1>4 DEF TypeOK, ReadPointer, PointerOf, LoadFails, Goto, local
  <2> QED
    BY <1>1, <2>1, <2>2, <2>3, <2>4
<1>5. ASSUME NEW p \in Proc, ReVerify(p) \/ KeepPrevious(p) \/ Activate(p) \/ Persist(p)
      PROVE  Apart'
  <2>1. UNCHANGED <<dir, made, name>>
    BY <1>5 DEF ReVerify, KeepPrevious, Activate, Persist, disk, local
  <2>2. \A q \in Proc : pc'[q] = "verify" => pc[q] = "verify"
    BY <1>5 DEF TypeOK, ReVerify, KeepPrevious, Activate, Persist, Goto
  <2>3. \A q \in Proc : pc'[q] \in Staging => pc[q] \in Staging
    BY <1>5 DEF TypeOK, ReVerify, KeepPrevious, Activate, Persist, Goto, Staging
  <2> QED
    BY <2>1, <2>2, <2>3 DEF Apart
<1>6. ASSUME NEW p \in Proc, Fill(p) \/ Discard(p)
      PROVE  Apart'
  <2>1. UNCHANGED <<made, name>>
    BY <1>6 DEF Fill, Discard, local
  <2>2. \A q \in Proc : pc'[q] = "verify" => pc[q] = "verify"
    BY <1>6 DEF TypeOK, Fill, Discard, Goto
  <2>3. \A q \in Proc : pc'[q] \in Staging => pc[q] \in Staging
    BY <1>6 DEF TypeOK, Fill, Discard, Goto, Staging
  <2>4. name[p] # 0
    BY <1>6 DEF Fill, Discard, Staging, StagingInv
  <2>5. dir'[0] = dir[0]
    BY <1>6, <2>4 DEF Fill, Discard, TypeOK
  <2> QED
    BY <2>1, <2>2, <2>3, <2>5 DEF Apart
<1>7. ASSUME NEW p \in Proc, Stage(p)
      PROVE  Apart'
  <2>1. dir' = dir
    BY <1>7 DEF Stage
  <2>2. \A q \in Proc : pc'[q] = "verify" => pc[q] = "verify" /\ q # p
    BY <1>7 DEF TypeOK, Stage, Goto
  <2>3. \A q \in Proc \ {p} : pc'[q] = pc[q] /\ name'[q] = name[q]
    BY <1>7 DEF TypeOK, Stage, Goto
  <2>4. made' >= made /\ (pc'[p] \in Staging => name'[p] = made + 1)
    BY <1>7 DEF TypeOK, Stage, Goto, Staging
  <2>5. ASSUME NEW a \in Proc, NEW b \in Proc, pc'[a] = "verify"
        PROVE  name'[a] <= made' /\ (pc'[b] \in Staging => name'[a] # name'[b])
    <3>1. pc[a] = "verify" /\ name'[a] = name[a] /\ name[a] <= made /\ name[a] \in Nat
      BY <2>2, <2>3, <2>5 DEF Apart
    <3>2. made \in Nat /\ (made' = made \/ made' = made + 1)
      BY <1>7 DEF Stage
    <3>3. name'[a] <= made'
      BY <2>4, <3>1, <3>2
    <3>4. CASE b = p
      BY <2>4, <3>1, <3>2, <3>4
    <3>5. CASE b # p
      BY <2>3, <3>1, <3>3, <3>5 DEF Apart
    <3> QED
      BY <3>3, <3>4, <3>5
  <2> QED
    BY <2>1, <2>5 DEF Apart
<1> QED
  BY <1>2, <1>3, <1>4, <1>5, <1>6, <1>7, NextCases

\* A step that leaves the repositories and the stored versions as they are.
LEMMA SettledElsewhere ==
    ASSUME TypeOK, Settled, NEW p \in Proc,
           UNCHANGED <<dir, active, previous, rollback>>,
           \A q \in Proc \ {p} : pc'[q] = pc[q] /\ name'[q] = name[q] /\ got'[q] = got[q],
           pc[p] # "persist", pc'[p] # "persist", Ordered(p)'
    PROVE  Settled'
<1>1. \A q \in Proc : Ordered(q)'
  BY DEF Settled, Ordered
<1>2. (\A q \in Proc : pc'[q] # "persist") => \A q \in Proc : pc[q] # "persist"
  OBVIOUS
<1> QED
  BY <1>1, <1>2 DEF Settled

LEMMA StoreKeepsVersions ==
    ASSUME TypeOK, NEW v \in Version, Store(v), ~lowered'
    PROVE  rollback' = v /\ v >= rollback
<1>1. rollback' = v /\ ~(v < rollback)
  BY Zenon DEF Store
<1>2. v \in Nat /\ rollback \in Nat
  BY DEF TypeOK
<1> QED
  BY <1>1, <1>2

LEMMA LoweredStays ==
    ASSUME TypeOK, [Next]_vars, ~lowered'
    PROVE  ~lowered
<1>1. ASSUME UNCHANGED ghost
      PROVE  ~lowered
  BY <1>1 DEF ghost
<1>2. CASE Publish \/ Expire \/ RemoveStaleLock \/ UNCHANGED vars
  BY <1>1, <1>2 DEF Publish, Expire, RemoveStaleLock, vars
<1>3. ASSUME NEW p \in Proc,
             \/ Start(p) \/ StartWithCatalog(p) \/ ReadPointer(p) \/ VerifyCached(p)
             \/ Finish(p) \/ Acquire(p) \/ FetchMirror(p) \/ Stage(p) \/ Fill(p)
             \/ ReVerify(p) \/ KeepPrevious(p) \/ Activate(p) \/ Discard(p) \/ Unlock(p)
             \/ Crash(p)
      PROVE  ~lowered
  <2>1. lowered' = lowered
    BY <1>3 DEF Start, StartWithCatalog, Begin, ReadPointer, VerifyCached, LoadFails, Finish,
                Leave, Acquire, FetchMirror, Stage, Fill, ReVerify, KeepPrevious, Activate,
                Discard, Unlock, Crash, ghost
  <2> QED
    BY <2>1
<1>4. ASSUME NEW p \in Proc, StoreLoaded(p) \/ Persist(p)
      PROVE  ~lowered
  BY <1>4 DEF StoreLoaded, Persist, Store
<1> QED
  BY <1>2, <1>3, <1>4, NextCases

LEMMA SettledStep ==
    ASSUME ~WriteFaults, ~Crashes, TypeOK, LockInv, StagingInv, Apart, Settled,
           [Next]_vars, ~lowered'
    PROVE  Settled'
<1> USE Bounds, NumbersAreNaturals
<1>1. CASE Publish \/ Expire \/ RemoveStaleLock \/ UNCHANGED vars
  <2>1. UNCHANGED <<dir, active, previous, rollback, pc, name, got>>
    BY <1>1 DEF Publish, Expire, RemoveStaleLock, vars, disk, local
  <2> QED
    BY <2>1 DEF Settled, Ordered
<1>2. ASSUME NEW p \in Proc,
             \/ Start(p) \/ StartWithCatalog(p) \/ Finish(p) \/ Acquire(p) \/ Unlock(p)
      PROVE  Settled'
  <2>1. UNCHANGED <<dir, active, previous, rollback>>
    BY <1>2 DEF Start, StartWithCatalog, Begin, Finish, Acquire, Unlock, disk
  <2>2. \A q \in Proc \ {p} : pc'[q] = pc[q] /\ name'[q] = name[q] /\ got'[q] = got[q]
    BY <1>2 DEF TypeOK, Start, StartWithCatalog, Begin, Finish, Acquire, Unlock, Leave, Goto, local
  <2>3. pc[p] # "persist" /\ pc'[p] \in {"idle", "pointer", "loaded", "refused", "mirror"}
    BY <1>2 DEF TypeOK, Start, StartWithCatalog, Begin, Finish, Acquire, Unlock, Leave, Goto
  <2>4. Ordered(p)'
    BY <2>3 DEF Ordered
  <2> QED
    BY <2>1, <2>2, <2>3, <2>4, SettledElsewhere
<1>3. ASSUME NEW p \in Proc, ReadPointer(p)
      PROVE  Settled'
  <2>1. UNCHANGED <<dir, active, previous, rollback>>
    BY <1>3 DEF ReadPointer, disk
  <2>2. \A q \in Proc \ {p} : pc'[q] = pc[q] /\ name'[q] = name[q] /\ got'[q] = got[q]
    BY <1>3 DEF TypeOK, ReadPointer, LoadFails, Goto, local
  <2>3. pc[p] = "pointer" /\ pc'[p] \in {"pointer", "verify", "loaded", "refused"}
    BY <1>3 DEF TypeOK, ReadPointer, LoadFails, Goto, local
  <2>4. pc'[p] = "verify" => name'[p] \in {active, previous}
    BY <1>3 DEF TypeOK, ReadPointer, PointerOf, LoadFails, Goto, local
  <2>5. dir[active] <= dir[active] /\ dir[previous] <= dir[active]
    BY DEF Settled, TypeOK
  <2>6. Ordered(p)'
    BY <2>1, <2>3, <2>4, <2>5 DEF Ordered
  <2> QED
    BY <2>1, <2>2, <2>3, <2>6, SettledElsewhere
<1>4. ASSUME NEW p \in Proc, VerifyCached(p)
      PROVE  Settled'
  <2>1. UNCHANGED <<dir, active, previous, rollback>>
    BY <1>4 DEF VerifyCached, disk
  <2>2. \A q \in Proc \ {p} : pc'[q] = pc[q] /\ name'[q] = name[q] /\ got'[q] = got[q]
    BY <1>4 DEF TypeOK, VerifyCached, LoadFails, Goto, local
  <2>3. pc[p] = "verify" /\ pc'[p] \in {"pointer", "store", "refused"}
    BY <1>4 DEF TypeOK, VerifyCached, LoadFails, Goto, local
  <2>4. pc'[p] = "store" => got'[p] = dir[name[p]]
    BY <1>4 DEF TypeOK, VerifyCached, LoadFails, Goto, local
  <2>5. dir[name[p]] <= dir[active]
    BY <2>3 DEF Settled, Ordered
  <2>6. Ordered(p)'
    BY <2>1, <2>3, <2>4, <2>5 DEF Ordered
  <2> QED
    BY <2>1, <2>2, <2>3, <2>6, SettledElsewhere
<1>5. ASSUME NEW p \in Proc, StoreLoaded(p)
      PROVE  Settled'
  <2>1. /\ Store(got[p]) /\ pc' = [pc EXCEPT ![p] = "loaded"] /\ pc[p] = "store"
        /\ UNCHANGED <<dir, active, previous, name, got>>
    BY <1>5 DEF StoreLoaded, Goto, local
  <2>2. rollback' = got[p] /\ got[p] >= rollback
    BY <2>1, StoreKeepsVersions DEF TypeOK
  <2>3. got[p] <= dir[active] /\ dir[active] >= rollback
    BY <2>1 DEF Settled, Ordered
  <2>4. dir[active] \in Nat
    BY DEF TypeOK
  <2>5. (\A q \in Proc : pc'[q] # "persist") => \A q \in Proc : pc[q] # "persist"
    BY <2>1 DEF TypeOK
  <2>6. (\A q \in Proc : pc'[q] # "persist") => rollback' = dir[active]
    BY <2>2, <2>3, <2>4, <2>5 DEF Settled
  <2>7. \A q \in Proc : Ordered(q)'
    BY <2>1 DEF Settled, Ordered, TypeOK
  <2> QED
    BY <2>1, <2>2, <2>3, <2>6, <2>7 DEF Settled
<1>6. ASSUME NEW p \in Proc, pc[p] \in Updating, NEW q \in Proc, q # p
      PROVE  pc[q] \notin Updating
  BY <1>6 DEF LockInv, OneUpdater
<1>7. ASSUME NEW p \in Proc, pc[p] \in Updating, pc[p] # "persist"
      PROVE  rollback = dir[active]
  <2>1. \A q \in Proc : pc[q] # "persist"
    BY <1>6, <1>7 DEF Updating
  <2> QED
    BY <2>1 DEF Settled
<1>8. ASSUME NEW p \in Proc, FetchMirror(p)
      PROVE  Settled'
  <2>1. UNCHANGED <<dir, active, previous, rollback>>
    BY <1>8 DEF FetchMirror, disk
  <2>2. \A q \in Proc \ {p} : pc'[q] = pc[q] /\ name'[q] = name[q] /\ got'[q] = got[q]
    BY <1>8 DEF TypeOK, FetchMirror, Goto
  <2>3. pc[p] = "mirror" /\ pc'[p] \in {"stage", "unlock"} /\ (pc'[p] = "stage" => got'[p] >= rollback)
    BY <1>8 DEF TypeOK, FetchMirror, Accepts, Goto
  <2>4. rollback = dir[active]
    BY <1>7, <2>3 DEF Updating
  <2>5. Ordered(p)'
    BY <2>1, <2>3, <2>4 DEF Ordered
  <2> QED
    BY <2>1, <2>2, <2>3, <2>5, SettledElsewhere
<1>9. ASSUME NEW p \in Proc, Stage(p)
      PROVE  Settled'
  <2>1. UNCHANGED <<dir, active, previous, rollback, got>>
    BY <1>9 DEF Stage
  <2>2. \A q \in Proc \ {p} : pc'[q] = pc[q] /\ name'[q] = name[q] /\ got'[q] = got[q]
    BY <1>9 DEF TypeOK, Stage, Goto
  <2>3. pc[p] = "stage" /\ pc'[p] \in {"fill", "unlock"}
    BY <1>9 DEF TypeOK, Stage, Goto
  <2>4. got[p] >= dir[active]
    BY <2>3 DEF Settled, Ordered
  <2>5. Ordered(p)'
    BY <2>1, <2>3, <2>4 DEF Ordered
  <2> QED
    BY <2>1, <2>2, <2>3, <2>5, SettledElsewhere
\* The directory of an update is no one else's.
<1>10. ASSUME NEW p \in Proc, Fill(p) \/ Discard(p)
       PROVE  Settled'
  <2>1. /\ pc[p] \in Staging /\ pc'[p] \in {"recheck", "unlock"} /\ pc[p] \in {"fill", "discard"}
        /\ pc[p] \in Updating /\ pc'[p] # "persist" /\ (pc'[p] = "recheck" => pc[p] = "fill")
    BY <1>10 DEF Fill, Discard, Goto, TypeOK, Staging, Updating
  <2>2. UNCHANGED <<active, previous, rollback, name, got>> /\ \A q \in Proc \ {p} : pc'[q] = pc[q]
    BY <1>10 DEF Fill, Discard, Goto, TypeOK, local
  <2>3. \A d \in Dir : d # name[p] => dir'[d] = dir[d]
    BY <1>10 DEF Fill, Discard, TypeOK
  <2>4. name[p] \notin {active, previous}
    BY <2>1 DEF StagingInv
  <2>5. dir'[active] = dir[active] /\ dir'[previous] = dir[previous]
    BY <2>3, <2>4 DEF TypeOK
  <2>6. ASSUME NEW q \in Proc, q # p
        PROVE  Ordered(q)'
    <3>1. pc[q] \notin Updating
      BY <1>6, <2>1, <2>6
    <3>2. pc[q] = "verify" => name[q] # name[p]
      BY <2>1 DEF Apart
    <3>3. pc[q] = "verify" => dir'[name[q]] = dir[name[q]]
      BY <2>3, <3>2 DEF TypeOK
    <3> QED
      BY <2>2, <2>5, <2>6, <3>1, <3>3 DEF Settled, Ordered, Updating
  <2>7. Ordered(p)'
    BY <2>1, <2>2, <2>5 DEF Settled, Ordered
  <2>8. rollback = dir[active]
    BY <1>7, <2>1
  <2>9. \A q \in Proc : Ordered(q)'
    BY <2>6, <2>7
  <2> QED
    BY <2>2, <2>5, <2>8, <2>9 DEF Settled
<1>11. ASSUME NEW p \in Proc, ReVerify(p)
       PROVE  Settled'
  <2>1. UNCHANGED <<dir, active, previous, rollback, name, got>>
    BY <1>11 DEF ReVerify, disk, local
  <2>2. \A q \in Proc \ {p} : pc'[q] = pc[q] /\ name'[q] = name[q] /\ got'[q] = got[q]
    BY <1>11, <2>1 DEF TypeOK, ReVerify, Goto
  <2>3. pc[p] = "recheck" /\ pc'[p] \in {"keep", "discard"} /\ (pc'[p] = "keep" => dir[name[p]] = got[p])
    BY <1>11 DEF TypeOK, ReVerify, Goto
  <2>4. got[p] >= dir[active]
    BY <2>3 DEF Settled, Ordered
  <2>5. Ordered(p)'
    BY <2>1, <2>3, <2>4 DEF Ordered
  <2> QED
    BY <2>1, <2>2, <2>3, <2>5, SettledElsewhere
<1>12. ASSUME NEW p \in Proc, KeepPrevious(p)
       PROVE  Settled'
  <2>1. /\ UNCHANGED <<dir, active, rollback, name, got>> /\ pc[p] = "keep" /\ pc' = [pc EXCEPT ![p] = "activate"]
        /\ previous' = IF active # 0 THEN active ELSE previous
    BY <1>12 DEF KeepPrevious, Goto, local
  <2>2. \A q \in Proc : Ordered(q)'
    BY <2>1 DEF Settled, Ordered, TypeOK
  <2>3. dir[previous'] <= dir[active]
    BY <2>1 DEF Settled, TypeOK
  <2>4. rollback = dir[active]
    BY <1>7, <2>1 DEF Updating
  <2> QED
    BY <2>1, <2>2, <2>3, <2>4 DEF Settled
<1>13. ASSUME NEW p \in Proc, Activate(p)
       PROVE  Settled'
  <2>1. /\ UNCHANGED <<dir, previous, rollback, name, got>> /\ pc[p] = "activate" /\ pc' = [pc EXCEPT ![p] = "persist"]
        /\ active' = name[p]
    BY <1>13 DEF Activate, Goto, local
  <2>2. got[p] >= dir[active] /\ dir[name[p]] = got[p] /\ got[p] \in Nat /\ dir[active] \in Nat
    BY <2>1 DEF Settled, Ordered, TypeOK
  <2>3. dir'[active'] >= rollback' /\ dir'[previous'] <= dir'[active']
    BY <2>1, <2>2, SMTT(30) DEF Settled, TypeOK
  <2>4. Ordered(p)'
    BY <2>1, <2>2 DEF Ordered, TypeOK
  <2>5. ASSUME NEW q \in Proc, q # p
        PROVE  Ordered(q)'
    <3>1. pc[q] \notin Updating
      BY <1>6, <2>1, <2>5 DEF Updating
    <3>2. Ordered(q) /\ pc'[q] = pc[q]
      BY <2>1, <2>5 DEF Settled, TypeOK
    <3>3. dir[name[q]] \in Nat /\ got[q] \in Nat
      BY <2>5 DEF TypeOK
    <3> QED
      BY <2>1, <2>2, <3>1, <3>2, <3>3 DEF Ordered, Updating
  <2>6. pc'[p] = "persist"
    BY <2>1 DEF TypeOK
  <2>7. \A q \in Proc : Ordered(q)'
    BY <2>4, <2>5
  <2> QED
    BY <2>3, <2>6, <2>7 DEF Settled
<1>14. ASSUME NEW p \in Proc, Persist(p)
       PROVE  Settled'
  <2>1. /\ UNCHANGED <<dir, active, previous, name, got>> /\ pc[p] = "persist" /\ pc' = [pc EXCEPT ![p] = "unlock"]
        /\ Store(got[p])
    BY <1>14 DEF Persist, Goto, local
  <2>2. rollback' = got[p]
    BY <2>1, StoreKeepsVersions DEF TypeOK
  <2>3. got[p] = dir[active]
    BY <2>1 DEF Settled, Ordered
  <2>4. \A q \in Proc : Ordered(q)'
    BY <2>1 DEF Settled, Ordered, TypeOK
  <2>5. dir[active] \in Nat
    BY DEF TypeOK
  <2> QED
    BY <2>1, <2>2, <2>3, <2>4, <2>5 DEF Settled
<1> QED
  BY <1>1, <1>2, <1>3, <1>4, <1>5, <1>8, <1>9, <1>10, <1>11, <1>12, <1>13, <1>14, NextCases DEF Crash

\* Without failing writes and without crashes, and as long as no process stores
\* older versions than another one stored before it, the active repository can be
\* loaded until it expires: for any number of processes, in any order of their steps.
THEOREM OrderlyProcessesKeepARepository ==
    ASSUME ~WriteFaults, ~Crashes
    PROVE  Spec => []AlwaysLoadable
<1> DEFINE Inv == LockInv /\ StagingInv /\ Apart /\ (~lowered => Settled)
<1>1. Init => Inv
  BY Bounds DEF Init, LockInv, OneUpdater, Updating, StagingInv, PointersAreWhole, Staging, Apart,
                Settled, Ordered
<1>2. TypeOK /\ Inv /\ [Next]_vars => Inv'
  BY LockStep, StagingStep, ApartStep, SettledStep, LoweredStays
<1>3. TypeOK /\ Inv => AlwaysLoadable
  BY DEF AlwaysLoadable, Loadable, Settled, StagingInv, PointersAreWhole
<1> HIDE DEF Inv
<1> QED
  BY <1>1, <1>2, <1>3, TypeCorrect, PTL DEF Spec

-----------------------------------------------------------------------------
(* The same for commands one at a time, which may die at any point         *)

\* The command under way holds nothing older than the active repository, and it falls
\* back to the previous one only once the active one has expired.
Steady(p) ==
    /\ pc[p] \in {"pointer", "verify"} /\ trying[p] = "fallback" => dir[active] <= expired
    /\ pc[p] \in {"pointer", "verify"} => trying[p] # "selection"
    /\ pc[p] = "verify" => name[p] = IF trying[p] = "active" THEN active ELSE previous
    /\ pc[p] = "verify" => trying[p] # "previous"
    /\ pc[p] = "store" => got[p] = dir[active]
    /\ pc[p] \in {"loaded", "mirror"} => rollback = dir[active]
    /\ pc[p] \in {"stage", "fill", "recheck", "keep", "activate"} => got[p] >= dir[active]
    /\ pc[p] \in {"keep", "activate"} => dir[name[p]] = got[p]
    /\ pc[p] = "persist" => got[p] = dir[active]

SteadyInv ==
    /\ dir[0] = 0
    /\ dir[active] >= rollback
    /\ dir[previous] <= dir[active]
    /\ \A p \in Proc : Steady(p)

LEMMA SteadyElsewhere ==
    ASSUME SteadyInv, NEW p \in Proc, \A q \in Proc : q = p,
           UNCHANGED <<dir, active, previous, rollback>>, Steady(p)'
    PROVE  SteadyInv'
BY DEF SteadyInv

LEMMA SteadyLoad ==
    ASSUME ~WriteFaults, TypeOK, RollbackInv, StagingInv, SteadyInv,
           NEW p \in Proc, \A q \in Proc : q = p, Load(p)
    PROVE  SteadyInv'
<1> USE Bounds, NumbersAreNaturals
<1>0. Steady(p) /\ Sound(p)
  BY DEF SteadyInv, RollbackInv
<1>1. CASE ReadPointer(p)
  <2>1. UNCHANGED <<dir, active, previous, rollback, expired>> /\ pc[p] = "pointer"
    BY <1>1 DEF ReadPointer, disk, env
  <2>2. CASE PointerOf(p) # 0
    <3>1. pc'[p] = "verify" /\ name'[p] = PointerOf(p) /\ trying' = trying
      BY <1>1, <2>2 DEF ReadPointer, Goto, TypeOK
    <3>2. trying[p] # "previous"
      BY <1>0, <2>1, <2>2 DEF Sound, RollbackInv, PointerOf
    <3>3. Steady(p)'
      BY <1>0, <2>1, <3>1, <3>2 DEF Steady, PointerOf
    <3> QED
      BY <2>1, <3>3, SteadyElsewhere
  <2>3. CASE PointerOf(p) = 0
    <3>1. \/ pc'[p] = "pointer" /\ trying[p] = "active" /\ trying'[p] = "previous"
          \/ pc'[p] = "loaded" /\ trying[p] = "previous"
          \/ pc'[p] = "refused"
      BY <1>1, <2>3 DEF ReadPointer, LoadFails, Goto, TypeOK
    <3>2. trying[p] = "previous" => active = 0
      BY <1>0, <2>1 DEF Sound
    <3>3. active = 0 => rollback = dir[active]
      BY DEF SteadyInv, TypeOK
    <3>4. Steady(p)'
      BY <2>1, <3>1, <3>2, <3>3 DEF Steady
    <3> QED
      BY <2>1, <3>4, SteadyElsewhere
  <2> QED
    BY <2>2, <2>3
<1>2. CASE VerifyCached(p)
  <2>1. UNCHANGED <<dir, active, previous, rollback, expired>> /\ pc[p] = "verify"
    BY <1>2 DEF VerifyCached, disk, env
  <2>2. dir[active] \in Nat /\ dir[previous] \in Nat /\ expired \in Nat
    BY DEF TypeOK
  \* What is older than the active repository has expired when that one has.
  <2>3. CASE Accepts(dir[name[p]])
    <3>1. pc'[p] = "store" /\ got'[p] = dir[name[p]]
      BY <1>2, <2>3 DEF VerifyCached, Goto, TypeOK
    <3>2. trying[p] # "fallback"
      BY <1>0, <2>1, <2>2, <2>3 DEF Steady, SteadyInv, Accepts
    <3>3. CASE trying[p] = "active"
      <4>1. Steady(p)'
        BY <1>0, <2>1, <3>1, <3>3 DEF Steady
      <4> QED
        BY <2>1, <4>1, SteadyElsewhere
    <3> QED
      BY <1>0, <2>1, <3>2, <3>3 DEF Steady, TypeOK
  <2>4. CASE ~Accepts(dir[name[p]])
    <3>1. \/ pc'[p] = "pointer" /\ trying[p] = "active" /\ trying'[p] = "fallback"
          \/ pc'[p] = "refused"
      BY <1>2, <2>4 DEF VerifyCached, LoadFails, Goto, TypeOK
    <3>2. trying[p] = "active" => dir[active] <= expired
      <4>1. active # 0
        BY <1>0, <2>1 DEF Sound
      <4>2. dir[active] # 0
        BY <4>1 DEF StagingInv, PointersAreWhole
      <4> QED
        BY <1>0, <2>1, <2>2, <2>4, <4>2 DEF Steady, SteadyInv, Accepts
    <3>3. Steady(p)'
      BY <2>1, <3>1, <3>2 DEF Steady
    <3> QED
      BY <2>1, <3>3, SteadyElsewhere
  <2> QED
    BY <2>3, <2>4
<1>3. CASE StoreLoaded(p)
  <2>1. /\ rollback' = got[p] /\ pc'[p] = "loaded" /\ pc[p] = "store"
        /\ UNCHANGED <<dir, active, previous>>
    BY <1>3 DEF StoreLoaded, Store, Goto, TypeOK
  <2>2. got[p] = dir[active] /\ dir[active] \in Nat
    BY <1>0, <2>1 DEF Steady, TypeOK
  <2>3. Steady(p)'
    BY <2>1, <2>2 DEF Steady
  <2>4. \A q \in Proc : Steady(q)'
    BY <2>3
  <2> QED
    BY <2>1, <2>2, <2>4 DEF SteadyInv
<1>4. CASE Finish(p)
  <2>1. pc'[p] = "idle" /\ UNCHANGED <<dir, active, previous, rollback>>
    BY <1>4 DEF Finish, Leave, Goto, disk, TypeOK
  <2>2. Steady(p)'
    BY <2>1 DEF Steady
  <2> QED
    BY <2>1, <2>2, SteadyElsewhere
<1> QED
  BY <1>1, <1>2, <1>3, <1>4 DEF Load

LEMMA SteadyUpdate ==
    ASSUME ~WriteFaults, TypeOK, StagingInv, SteadyInv,
           NEW p \in Proc, \A q \in Proc : q = p, Update(p)
    PROVE  SteadyInv'
<1> USE Bounds, NumbersAreNaturals
<1>0. Steady(p)
  BY DEF SteadyInv
<1>1. CASE Acquire(p) \/ Unlock(p)
  <2>1. /\ UNCHANGED <<dir, active, previous, rollback>>
        /\ pc'[p] \in {"idle", "mirror"} /\ (pc'[p] = "mirror" => pc[p] = "loaded")
    BY <1>1 DEF Acquire, Unlock, Leave, Goto, TypeOK
  <2>2. Steady(p)'
    BY <1>0, <2>1 DEF Steady
  <2> QED
    BY <2>1, <2>2, SteadyElsewhere
<1>2. CASE FetchMirror(p)
  <2>1. UNCHANGED <<dir, active, previous, rollback>>
    BY <1>2 DEF FetchMirror, disk
  <2>2. pc[p] = "mirror" /\ pc'[p] \in {"stage", "unlock"} /\ (pc'[p] = "stage" => got'[p] >= rollback)
    BY <1>2 DEF FetchMirror, Accepts, Goto, TypeOK
  <2>3. Steady(p)'
    BY <1>0, <2>1, <2>2 DEF Steady
  <2> QED
    BY <2>1, <2>3, SteadyElsewhere
<1>3. CASE Stage(p) \/ ReVerify(p)
  <2>1. UNCHANGED <<dir, active, previous, rollback, got>>
    BY <1>3 DEF Stage, ReVerify, disk, local
  <2>2. \/ pc[p] = "stage" /\ pc'[p] \in {"fill", "unlock"}
        \/ pc[p] = "recheck" /\ pc'[p] = "keep" /\ dir[name[p]] = got[p] /\ name' = name
        \/ pc[p] = "recheck" /\ pc'[p] = "discard"
    BY <1>3 DEF Stage, ReVerify, Goto, local, TypeOK
  <2>3. Steady(p)'
    BY <1>0, <2>1, <2>2 DEF Steady
  <2> QED
    BY <2>1, <2>3, SteadyElsewhere
<1>4. CASE Fill(p) \/ Discard(p)
  <2>1. /\ UNCHANGED <<active, previous, rollback, got>>
        /\ (pc[p] = "fill" /\ pc'[p] = "recheck") \/ pc'[p] = "unlock"
    BY <1>4 DEF Fill, Discard, Goto, local, TypeOK
  <2>2. name[p] \notin {0, active, previous}
    BY <1>4 DEF Fill, Discard, Staging, StagingInv
  <2>3. \A d \in Dir : d # name[p] => dir'[d] = dir[d]
    BY <1>4 DEF Fill, Discard, TypeOK
  <2>4. dir'[active] = dir[active] /\ dir'[previous] = dir[previous] /\ dir'[0] = dir[0]
    BY <2>2, <2>3 DEF TypeOK
  <2>5. Steady(p)'
    BY <1>0, <2>1, <2>4 DEF Steady
  <2>6. \A q \in Proc : Steady(q)'
    BY <2>5
  <2> QED
    BY <2>1, <2>4, <2>6 DEF SteadyInv
<1>5. CASE KeepPrevious(p)
  <2>1. /\ UNCHANGED <<dir, active, rollback, name, got>> /\ pc[p] = "keep" /\ pc'[p] = "activate"
        /\ previous' = IF active # 0 THEN active ELSE previous
    BY <1>5 DEF KeepPrevious, Goto, local, TypeOK
  <2>2. Steady(p)'
    BY <1>0, <2>1 DEF Steady
  <2>3. dir[previous'] <= dir[active]
    BY <2>1 DEF SteadyInv, TypeOK
  <2>4. \A q \in Proc : Steady(q)'
    BY <2>2
  <2> QED
    BY <2>1, <2>3, <2>4 DEF SteadyInv
<1>6. CASE Activate(p)
  <2>1. /\ UNCHANGED <<dir, previous, rollback, name, got>> /\ pc[p] = "activate" /\ pc'[p] = "persist"
        /\ active' = name[p]
    BY <1>6 DEF Activate, Goto, local, TypeOK
  <2>2. got[p] >= dir[active] /\ dir[name[p]] = got[p] /\ dir[active] \in Nat /\ dir[previous] \in Nat
    BY <1>0, <2>1 DEF Steady, TypeOK
  <2>3. dir'[active'] >= rollback' /\ dir'[previous'] <= dir'[active']
    BY <2>1, <2>2 DEF SteadyInv, TypeOK
  <2>4. Steady(p)'
    BY <2>1, <2>2 DEF Steady
  <2>5. \A q \in Proc : Steady(q)'
    BY <2>4
  <2> QED
    BY <2>1, <2>3, <2>5 DEF SteadyInv
<1>7. CASE Persist(p)
  <2>1. /\ UNCHANGED <<dir, active, previous>> /\ pc[p] = "persist" /\ pc'[p] = "unlock"
        /\ rollback' = got[p]
    BY <1>7 DEF Persist, Store, Goto, TypeOK
  <2>2. got[p] = dir[active] /\ dir[active] \in Nat
    BY <1>0, <2>1 DEF Steady, TypeOK
  <2>3. Steady(p)'
    BY <2>1 DEF Steady
  <2>4. \A q \in Proc : Steady(q)'
    BY <2>3
  <2> QED
    BY <2>1, <2>2, <2>4 DEF SteadyInv
<1> QED
  BY <1>1, <1>2, <1>3, <1>4, <1>5, <1>6, <1>7 DEF Update

LEMMA SteadyNext ==
    ASSUME ~WriteFaults, ~Selections, \A p, q \in Proc : p = q,
           TypeOK, RollbackInv, StagingInv, SteadyInv, [Next]_vars
    PROVE  SteadyInv'
<1>1. CASE Publish \/ RemoveStaleLock \/ UNCHANGED vars
  <2>1. UNCHANGED <<dir, active, previous, rollback, expired, pc, name, got, trying>>
    BY <1>1 DEF Publish, RemoveStaleLock, vars, env, disk, local
  <2> QED
    BY <2>1 DEF SteadyInv, Steady
<1>2. CASE Expire
  <2>1. UNCHANGED <<dir, active, previous, rollback, pc, name, got, trying>> /\ expired' = expired + 1
    BY <1>2 DEF Expire, disk, local
  <2>2. expired \in Nat /\ dir[active] \in Nat
    BY Bounds DEF TypeOK
  <2>3. dir[active] <= expired => dir'[active'] <= expired'
    BY <2>1, <2>2
  <2> QED
    BY <2>1, <2>3 DEF SteadyInv, Steady
<1>3. ASSUME NEW p \in Proc, Run(p)
      PROVE  SteadyInv'
  BY <1>3, SteadyLoad, SteadyUpdate DEF Run
<1>4. ASSUME NEW p \in Proc, Start(p)
      PROVE  SteadyInv'
  <2>1. UNCHANGED <<dir, active, previous, rollback>> /\ pc'[p] = "pointer" /\ trying'[p] = "active"
    BY <1>4 DEF Start, Begin, Goto, disk, TypeOK, RollbackInv, Sound
  <2>2. Steady(p)'
    BY <2>1 DEF Steady
  <2> QED
    BY <2>1, <2>2, SteadyElsewhere
<1>5. ASSUME NEW p \in Proc, Crash(p)
      PROVE  SteadyInv'
  <2>1. UNCHANGED <<dir, active, previous, rollback>> /\ pc'[p] = "idle"
    BY <1>5 DEF Crash, Leave, Goto, disk, TypeOK
  <2>2. Steady(p)'
    BY <2>1 DEF Steady
  <2> QED
    BY <2>1, <2>2, SteadyElsewhere
<1> QED
  BY <1>1, <1>2, <1>3, <1>4, <1>5 DEF Next, StartWithCatalog

\* Commands that run one at a time, without failing writes, and load their catalog from
\* the cache can load the active repository until it expires, wherever any of them died.
THEOREM SequentialCommandsKeepARepository ==
    ASSUME ~WriteFaults, ~Selections, \A p, q \in Proc : p = q
    PROVE  Spec => [](Loadable /\ AlwaysLoadable)
<1> DEFINE Inv == LockInv /\ StagingInv /\ RollbackInv /\ SteadyInv
<1>1. Init => Inv
  BY Bounds, RollbackInit
     DEF Init, LockInv, OneUpdater, Updating, StagingInv, PointersAreWhole, Staging, SteadyInv, Steady
<1>2. TypeOK /\ Inv /\ [Next]_vars => Inv'
  BY LockStep, StagingStep, RollbackNext, SteadyNext
<1>3. TypeOK /\ Inv => Loadable /\ AlwaysLoadable
  BY DEF AlwaysLoadable, Loadable, SteadyInv, StagingInv, PointersAreWhole
<1> HIDE DEF Inv
<1> QED
  BY <1>1, <1>2, <1>3, TypeCorrect, PTL DEF Spec

-----------------------------------------------------------------------------
(* Why commands end and locks are given back: what TLC checks as LockFreed  *)
(* rests on these two facts and on fairness.                                *)

\* The most steps that a process has left from one of its places, and with them
\* those of a second attempt to load.
StepsFrom(there) ==
    CASE there \in {"unlock", "refused"} -> 1
      [] there = "discard" -> 2
      [] there = "persist" -> 3
      [] there = "activate" -> 4
      [] there = "keep" -> 5
      [] there = "recheck" -> 6
      [] there = "fill" -> 7
      [] there = "stage" -> 8
      [] there = "mirror" -> 9
      [] there = "loaded" -> 10
      [] there = "store" -> 11
      [] there = "verify" -> 12
      [] there = "pointer" -> 13
      [] OTHER -> 0
Remaining(p) ==
    StepsFrom(pc[p]) + (IF pc[p] \in {"pointer", "verify", "store"} /\ trying[p] = "active" THEN 3 ELSE 0)

Advances == \A p \in Proc : /\ pc[p] # "idle" => Remaining(p)' <= Remaining(p)
                            /\ Run(p) => Remaining(p)' < Remaining(p)

LEMMA RemainingIsBounded == \A p : Remaining(p) \in 0..16 /\ Remaining(p)' \in 0..16
BY DEF Remaining, StepsFrom

LEMMA LeavingEnds ==
    ASSUME TypeOK, NEW p \in Proc, Leave(p)
    PROVE  Remaining(p)' = 0
BY DEF Leave, Goto, TypeOK, Remaining, StepsFrom

LEMMA FailingToLoadAdvances ==
    ASSUME TypeOK, NEW p \in Proc, pc[p] \in {"pointer", "verify", "store"}, LoadFails(p)
    PROVE  Remaining(p)' < Remaining(p)
<1>1. CASE trying[p] = "active"
  <2>1. pc'[p] = "pointer" /\ trying'[p] = "fallback"
    BY <1>1 DEF LoadFails, Goto, TypeOK
  <2> QED
    BY <1>1, <2>1 DEF Remaining, StepsFrom
<1>2. CASE trying[p] # "active"
  <2>1. pc'[p] = "refused"
    BY <1>2 DEF LoadFails, Goto, TypeOK
  <2> QED
    BY <1>2, <2>1 DEF Remaining, StepsFrom
<1> QED
  BY <1>1, <1>2

LEMMA RunAdvances ==
    ASSUME TypeOK, NEW p \in Proc, Run(p)
    PROVE  Remaining(p)' < Remaining(p)
<1> USE DEF Goto, TypeOK, Remaining, StepsFrom
<1>1. CASE ReadPointer(p)
  <2>1. CASE pc'[p] \in {"verify", "loaded"} /\ trying' = trying
    BY <1>1, <2>1 DEF ReadPointer
  <2>2. CASE trying[p] = "active" /\ trying'[p] = "previous" /\ pc' = pc
    BY <1>1, <2>2 DEF ReadPointer
  <2>3. CASE LoadFails(p)
    BY <1>1, <2>3, FailingToLoadAdvances DEF ReadPointer
  <2> QED
    BY <1>1, <2>1, <2>2, <2>3 DEF ReadPointer, local
<1>2. CASE VerifyCached(p)
  <2>1. CASE pc'[p] = "store" /\ trying' = trying
    BY <1>2, <2>1 DEF VerifyCached
  <2>2. CASE LoadFails(p)
    BY <1>2, <2>2, FailingToLoadAdvances DEF VerifyCached
  <2> QED
    BY <1>2, <2>1, <2>2 DEF VerifyCached
<1>3. CASE StoreLoaded(p)
  <2>1. CASE pc'[p] = "loaded" /\ trying' = trying
    BY <1>3, <2>1 DEF StoreLoaded
  <2>2. CASE LoadFails(p)
    BY <1>3, <2>2, FailingToLoadAdvances DEF StoreLoaded
  <2> QED
    BY <1>3, <2>1, <2>2 DEF StoreLoaded, local
<1>4. CASE Finish(p) \/ Unlock(p)
  BY <1>4, LeavingEnds, SMTT(30) DEF Finish, Unlock
<1>5. CASE Acquire(p)
  <2>1. CASE pc'[p] = "mirror"
    BY <1>5, <2>1 DEF Acquire
  <2>2. CASE Leave(p)
    BY <1>5, <2>2, LeavingEnds, SMTT(30) DEF Acquire
  <2> QED
    BY <1>5, <2>1, <2>2 DEF Acquire
<1>6. CASE FetchMirror(p)
  BY <1>6 DEF FetchMirror
<1>7. CASE Stage(p)
  BY <1>7 DEF Stage
<1>8. CASE Fill(p)
  BY <1>8 DEF Fill
<1>9. CASE ReVerify(p)
  BY <1>9 DEF ReVerify
<1>10. CASE KeepPrevious(p)
  BY <1>10 DEF KeepPrevious
<1>11. CASE Activate(p)
  BY <1>11 DEF Activate
<1>12. CASE Persist(p)
  BY <1>12 DEF Persist
<1>13. CASE Discard(p)
  BY <1>13 DEF Discard
<1> QED
  BY <1>1, <1>2, <1>3, <1>4, <1>5, <1>6, <1>7, <1>8, <1>9, <1>10, <1>11, <1>12, <1>13 DEF Run, Load, Update

\* A process's step moves no other one.
LEMMA StepsAdvance ==
    ASSUME TypeOK, [Next]_vars
    PROVE  Advances
<1> SUFFICES ASSUME NEW p \in Proc, pc[p] # "idle"
             PROVE  Remaining(p)' <= Remaining(p)
  BY RunAdvances DEF Advances
<1>1. ASSUME pc'[p] = pc[p], trying'[p] = trying[p]
      PROVE  Remaining(p)' <= Remaining(p)
  BY <1>1, RemainingIsBounded DEF Remaining
<1>2. CASE Publish \/ Expire \/ RemoveStaleLock \/ UNCHANGED vars
  BY <1>1, <1>2 DEF Publish, Expire, RemoveStaleLock, vars, local
<1>3. ASSUME NEW q \in Proc, q # p, Start(q) \/ StartWithCatalog(q) \/ Run(q) \/ Crash(q)
      PROVE  Remaining(p)' <= Remaining(p)
  <2>1. pc'[p] = pc[p]
    BY <1>3, NextCases DEF Start, StartWithCatalog, Crash, Run, Load, Update, ReadPointer, VerifyCached,
       StoreLoaded, LoadFails, Finish, Acquire, FetchMirror, Stage, Fill, ReVerify, KeepPrevious, Activate,
       Persist, Discard, Unlock, Leave, Goto, TypeOK
  <2>2. trying'[p] = trying[p]
    BY <1>3 DEF Start, StartWithCatalog, Crash, Run, Load, Update, ReadPointer, VerifyCached,
       StoreLoaded, LoadFails, Finish, Acquire, FetchMirror, Stage, Fill, ReVerify, KeepPrevious, Activate,
       Persist, Discard, Unlock, Leave, TypeOK, local
  <2> QED
    BY <1>1, <2>1, <2>2
<1>4. CASE Run(p)
  BY <1>4, RunAdvances, RemainingIsBounded
<1>5. CASE Crash(p)
  <2>1. Remaining(p)' = 0
    BY <1>5, LeavingEnds DEF Crash
  <2> QED
    BY <2>1, RemainingIsBounded
<1>6. ~(Start(p) \/ StartWithCatalog(p))
  BY DEF Start, StartWithCatalog, Begin
<1> QED
  BY <1>2, <1>3, <1>4, <1>5, <1>6 DEF Next

\* A process that loads a catalog or updates never comes back to where it was: each of
\* its steps brings it nearer to its end, of which it is at most sixteen steps away, and
\* no step of another process, of the mirror or of the clock takes it back.
THEOREM CommandsComeToAnEnd ==
    Spec => [](\A p \in Proc : Remaining(p) \in 0..16) /\ [][Advances]_vars
<1>1. \A p \in Proc : Remaining(p) \in 0..16
  BY RemainingIsBounded
<1>2. TypeOK /\ [Next]_vars => [Advances]_vars
  BY StepsAdvance
<1> QED
  BY <1>1, <1>2, TypeCorrect, PTL DEF Spec

\* A lock that exists is that of a process that is updating, and is therefore given back
\* when its update ends, or it was left behind by a death or by a failure of the calls on
\* the lock file itself: no other failing step of an update leaves it there.
LockHasHolder == locked => left \/ \E p \in Proc : pc[p] \in Updating

THEOREM LocksHaveHolders == Spec => []LockHasHolder
<1> DEFINE Inv == LockHasHolder
<1>1. Init => Inv
  BY DEF Init, LockHasHolder
<1>2. ASSUME TypeOK, Inv, [Next]_vars
      PROVE  Inv'
  <2>1. ASSUME pc' = pc, locked' = locked, left' = left
        PROVE  Inv'
    BY <1>2, <2>1 DEF LockHasHolder
  \* Somebody goes on updating, or somebody else, who was not updating, does anything.
  <2>2. ASSUME NEW q \in Proc, NEW there, pc' = [pc EXCEPT ![q] = there], locked' = locked,
               left' = left, pc[q] \notin Updating \/ there \in Updating
        PROVE  Inv'
    BY <1>2, <2>2 DEF TypeOK, LockHasHolder
  <2>3. CASE Publish \/ Expire \/ UNCHANGED vars
    BY <2>1, <2>3 DEF Publish, Expire, vars, disk, ghost
  <2>4. CASE RemoveStaleLock
    BY <2>4 DEF RemoveStaleLock, LockHasHolder
  <2>5. ASSUME NEW q \in Proc, Start(q) \/ StartWithCatalog(q)
        PROVE  Inv'
    BY <2>2, <2>5 DEF Start, StartWithCatalog, Begin, Goto, disk, Updating
  <2>6. ASSUME NEW q \in Proc, Load(q)
        PROVE  Inv'
    BY <2>1, <2>2, <2>6 DEF Load, ReadPointer, VerifyCached, StoreLoaded, LoadFails, Finish, Leave, Goto, disk, ghost, Updating
  <2>7. ASSUME NEW q \in Proc, Acquire(q)
        PROVE  Inv'
    <3>1. CASE Goto(q, "mirror")
      BY <1>2, <3>1 DEF Goto, Updating, TypeOK, LockHasHolder
    <3>2. CASE Leave(q) /\ UNCHANGED <<locked, left>>
      BY <2>2, <2>7, <3>2 DEF Acquire, Leave, Goto, Updating
    <3>3. CASE left' = locked'
      BY <3>3 DEF LockHasHolder
    <3> QED
      BY <2>7, <3>1, <3>2, <3>3 DEF Acquire
  <2>8. ASSUME NEW q \in Proc, Unlock(q)
        PROVE  Inv'
    BY <2>8 DEF Unlock, LockHasHolder
  <2>9. ASSUME NEW q \in Proc,
               FetchMirror(q) \/ Stage(q) \/ Fill(q) \/ ReVerify(q) \/ KeepPrevious(q) \/ Activate(q) \/ Persist(q) \/ Discard(q)
        PROVE  Inv'
    BY <2>2, <2>9 DEF FetchMirror, Stage, Fill, ReVerify, KeepPrevious, Activate, Persist, Discard, Goto, disk, ghost, Updating
  <2>10. ASSUME NEW q \in Proc, Crash(q)
         PROVE  Inv'
    <3>1. CASE pc[q] \in Updating
      BY <2>10, <3>1 DEF Crash, LockHasHolder
    <3>2. CASE pc[q] \notin Updating
      <4>1. left' = left
        BY <1>2, <2>10, <3>2 DEF Crash, TypeOK
      <4> QED
        BY <2>2, <2>10, <3>2, <4>1 DEF Crash, Leave, Goto, disk
    <3> QED
      BY <3>1, <3>2
  <2> QED
    BY <1>2, <2>3, <2>4, <2>5, <2>6, <2>7, <2>8, <2>9, <2>10 DEF Next, Run, Update
<1> HIDE DEF Inv
<1> QED
  BY <1>1, <1>2, TypeCorrect, PTL DEF Spec, Inv

=============================================================================
