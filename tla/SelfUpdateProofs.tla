-------------------------- MODULE SelfUpdateProofs --------------------------
(***************************************************************************)
(* Theorems about SelfUpdate, for any number of updates, releases, faults, *)
(* kills and power losses, on Unix and on Windows.                         *)
(***************************************************************************)
EXTENDS SelfUpdate, TLAPS

USE DEF To, Helper, NoFault

-----------------------------------------------------------------------------
(* The inductive invariant                                                 *)

Record == [version : Nat, whole : BOOLEAN]

\* What the archive of a target must be.
Sound(t) ==
  /\ \A i \in DOMAIN t.entries : ".." \notin Range(t.entries[i].path)
  /\ \E i \in DOMAIN t.entries : /\ Executables(t.format, t.entries, os) = {i}
                                /\ t.entries[i].body = os

Chosen(t) == t \in Published /\ t.os = os /\ t.arch = Architecture

Good(v) == v = FirstVersion \/ \E t \in Published : t.version = v /\ Chosen(t) /\ Sound(t)

\* A whole executable that was installed at first or comes from signed metadata.
Genuine(f) == f \in Record /\ f.whole = TRUE /\ Good(f.version)

Choosing == {"fetch", "extract", "stage", "sync", "replace", "spawn"}
Staging  == {"stage", "sync", "replace", "spawn"}
Waiting  == {"wait", "away", "in", "catch"}

\* What a process has in hand fits the step it is at; its helper runs when its
\* own part is over, with a genuine file.
Fit(p) ==
  /\ pc[p] \in Choosing \union {"select", "settle", "store"} => seen[p] \in DOMAIN Repository
  /\ pc[p] \in Choosing => Chosen(target[p])
  /\ pc[p] \in Staging => Sound(target[p])
  /\ pc[p] \in {"replace", "spawn"} => staged[p] = File(target[p].version)
  /\ helper[p] # "none" => pc[p] \in {"idle", "store"}
  /\ helper[p] \in Waiting => Genuine(staged[p])

\* A staged file that nobody is working on.
Spare(p) == Genuine(staged[p]) /\ pc[p] \in {"idle", "store"}

\* Every file is genuine; when none is in place, a genuine one is beside it.
FilesGenuine ==
  /\ exe = None \/ Genuine(exe)
  /\ backup = None \/ Genuine(backup)
  /\ \A f \in past : Genuine(f)
  /\ exe = None => os = "windows" /\ \E q \in Proc : Spare(q)

StagedTyped == staged \in [Proc -> FileType]

TypeInv == ControlTyped /\ FactsTyped /\ StagedTyped /\ FilesGenuine /\ \A p \in Proc : Fit(p)

-----------------------------------------------------------------------------
LEMMA Constants == FirstVersion \in Nat /\ None \notin Record
  BY SelfUpdateAssumption DEF Record

LEMMA AcceptedIsSound ==
  ASSUME NEW t, ReleaseAccepted(t.format, t.entries, os, Limits)
  PROVE  Sound(t)
<1>1. \A i \in DOMAIN t.entries : ValidReleasePath(t.entries[i].path)
  BY DEF ReleaseAccepted
<1>2. \A i \in DOMAIN t.entries : ".." \notin Range(t.entries[i].path)
  BY <1>1 DEF ValidReleasePath, Range
<1>3. \E i \in DOMAIN t.entries : /\ Executables(t.format, t.entries, os) = {i}
                                  /\ t.entries[i].body = os
  BY DEF ReleaseAccepted
<1> QED
  BY <1>2, <1>3 DEF Sound

LEMMA PublishedTyped == \A t \in Published : t.version \in Nat
<1>1. \A r \in DOMAIN Repository : Repository[r] \in SUBSET TargetType
  BY SelfUpdateAssumption
<1> QED
  BY <1>1 DEF Published, TargetType

LEMMA GenuineIsWhole == \A f : Genuine(f) => f \in FileType /\ f # None /\ f # Torn /\ f.whole
  BY Constants DEF Genuine, Record, FileType, Torn

LEMMA TornTyped == Torn \in FileType /\ None \in FileType
  BY DEF Torn, FileType

\* The file of a sound choice is genuine.
LEMMA ChosenIsGenuine ==
  ASSUME NEW t, Chosen(t), Sound(t)
  PROVE  Genuine(File(t.version)) /\ File(t.version) \in FileType
  BY PublishedTyped DEF Genuine, Record, Good, Chosen, File, FileType

\* What a process does not touch stays fit.
LEMMA FitFrame ==
  ASSUME NEW p \in Proc, Fit(p), os' = os,
         pc'[p] = pc[p], helper'[p] = helper[p], staged'[p] = staged[p],
         target'[p] = target[p], seen'[p] = seen[p]
  PROVE  Fit(p)'
<1>1. Chosen(target[p]) => Chosen(target[p])'
  BY DEF Chosen
<1>2. Sound(target[p]) => Sound(target[p])'
  BY DEF Sound
<1>3. Genuine(staged[p]) => Genuine(staged[p])'
  BY DEF Genuine, Good, Chosen, Sound
<1> QED
  BY <1>1, <1>2, <1>3 DEF Fit

LEMMA SpareFrame ==
  ASSUME NEW p \in Proc, Spare(p), os' = os, pc'[p] \in {"idle", "store"}, staged'[p] = staged[p]
  PROVE  Spare(p)'
  BY DEF Spare, Genuine, Good, Chosen, Sound

LEMMA GenuineFrame ==
  ASSUME NEW f, Genuine(f), os' = os
  PROVE  Genuine(f)'
  BY DEF Genuine, Good, Chosen, Sound

LEMMA InitTyped == Init => TypeInv
<1> SUFFICES ASSUME Init PROVE TypeInv
  OBVIOUS
<1>1. ControlTyped
  BY DEF Init, ControlTyped
<1>2. FactsTyped
  <2>1. FirstVersion \in Nat
    BY SelfUpdateAssumption
  <2> QED
    BY <2>1 DEF Init, FactsTyped
<1>3. StagedTyped
  BY DEF Init, StagedTyped, FileType
<1>4. Genuine(File(FirstVersion)) /\ File(FirstVersion) # None
  <2>1. File(FirstVersion) \in Record /\ File(FirstVersion).whole = TRUE
        /\ File(FirstVersion).version = FirstVersion
    BY Constants DEF File, Record
  <2> QED
    BY <2>1, Constants DEF Genuine, Good
<1>5. FilesGenuine
  BY <1>4 DEF Init, FilesGenuine
<1>6. \A p \in Proc : Fit(p)
  BY DEF Init, Fit, Choosing, Staging, Waiting
<1> QED
  BY <1>1, <1>2, <1>3, <1>5, <1>6 DEF TypeInv

\* A step of p that leaves the files in place alone, and the files that others
\* staged: what is left to show is that p still fits.
LEMMA QuietStep ==
  ASSUME TypeInv, NEW p \in Proc, Fit(p)', os' = os, UNCHANGED <<exe, backup, past>>,
         \A q \in Proc : q # p => /\ pc'[q] = pc[q] /\ helper'[q] = helper[q] /\ staged'[q] = staged[q]
                                 /\ target'[q] = target[q] /\ seen'[q] = seen[q],
         exe = None /\ Spare(p) => staged'[p] = staged[p] /\ pc'[p] \in {"idle", "store"}
  PROVE  FilesGenuine' /\ \A q \in Proc : Fit(q)'
<1>1. \A q \in Proc : Fit(q)'
  BY FitFrame DEF TypeInv
<1>2. \A q \in Proc : exe = None /\ Spare(q) => Spare(q)'
  BY SpareFrame DEF Spare
<1>3. FilesGenuine'
  BY <1>2, GenuineFrame DEF TypeInv, FilesGenuine
<1> QED
  BY <1>1, <1>3

LEMMA Types ==
  ASSUME TypeInv
  PROVE  /\ pc \in [Proc -> {"idle", "verify", "select", "fetch", "extract", "stage", "sync", "replace",
                             "settle", "spawn", "store"}]
         /\ helper \in [Proc -> {"none", "wait", "away", "in", "tidy", "catch"}]
         /\ running \in [Proc -> Nat] /\ trusted \in [Proc -> Nat] /\ seen \in [Proc -> Nat]
         /\ target \in [Proc -> Published \union {None}]
         /\ staged \in [Proc -> FileType]
         /\ \A p \in Proc : Fit(p)
  BY DEF TypeInv, ControlTyped, FactsTyped, StagedTyped

\* Up to the archive: nothing is written.
LEMMA ChoosingKeepsTypes ==
  ASSUME TypeInv, NEW p \in Proc,
         \/ Start(p) \/ (\E r \in DOMAIN Repository : Verify(p, r)) \/ Select(p)
         \/ (\E t \in Published \union {None} : Fetch(p, t)) \/ Extract(p)
  PROVE  TypeInv'
<1>0. TypeInv /\ Fit(p)
  BY DEF TypeInv
<1>1. CASE Start(p)
  <2>1. /\ UNCHANGED <<os, exe, backup, past, staged, seen, target, helper, stored, best>>
        /\ pc[p] = "idle" /\ helper[p] = "none" /\ pc' = [pc EXCEPT ![p] = "verify"]
        /\ running' = [running EXCEPT ![p] = exe.version]
        /\ trusted' = [trusted EXCEPT ![p] = stored]
        /\ exe # None
        /\ overlap' = (overlap \/ \E q \in Proc : Busy(q))
    BY <1>1 DEF Start, Busy, files
  <2>2. exe.version \in Nat /\ stored \in Nat
    <3>1. exe.version \in Nat
      BY <1>0, <2>1 DEF TypeInv, FilesGenuine, Genuine, Record
    <3>2. DOMAIN Repository \subseteq Nat
      BY SelfUpdateAssumption
    <3> QED
      BY <1>0, <3>1, <3>2 DEF TypeInv, FactsTyped
  <2>3. ControlTyped' /\ StagedTyped'
    BY <1>0, <2>1 DEF TypeInv, ControlTyped, StagedTyped
  <2>4. FactsTyped'
    BY <1>0, <2>1, <2>2 DEF TypeInv, FactsTyped
  <2>5. Fit(p)'
    BY <2>1, Types DEF Fit, Choosing, Staging, Waiting
  <2>6. \A q \in Proc : q # p => pc'[q] = pc[q]
    BY <2>1, Types
  <2>7. FilesGenuine' /\ \A q \in Proc : Fit(q)'
    BY <1>0, <2>1, <2>5, <2>6, QuietStep
  <2> QED
    BY <2>3, <2>4, <2>7 DEF TypeInv
<1>2. ASSUME NEW r \in DOMAIN Repository, Verify(p, r)
      PROVE  TypeInv'
  <2>1. /\ UNCHANGED <<os, exe, backup, past, staged, target, helper, running, trusted, stored, best, overlap>>
        /\ pc[p] = "verify"
        /\ \/ seen' = [seen EXCEPT ![p] = r] /\ pc' = [pc EXCEPT ![p] = "select"]
           \/ seen' = seen /\ pc' = [pc EXCEPT ![p] = "idle"]
    BY <1>2 DEF Verify, files
  <2>2. r \in Nat
    BY SelfUpdateAssumption
  <2>3. ControlTyped' /\ StagedTyped'
    BY <1>0, <2>1 DEF TypeInv, ControlTyped, StagedTyped
  <2>4. FactsTyped'
    BY <1>0, <2>1, <2>2 DEF TypeInv, FactsTyped
  <2>5. pc'[p] \in {"select", "idle"} /\ (pc'[p] = "select" => seen'[p] = r)
    BY <2>1, Types
  <2>6. helper[p] = "none"
    BY <1>0, <2>1, Types DEF Fit
  <2>7. Fit(p)'
    BY <2>1, <2>5, <2>6 DEF Fit, Choosing, Staging, Waiting
  <2>8. \A q \in Proc : q # p => pc'[q] = pc[q] /\ seen'[q] = seen[q]
    BY <2>1, Types
  <2>9. ~Spare(p)
    BY <2>1 DEF Spare
  <2> QED
    BY <1>0, <2>1, <2>3, <2>4, <2>7, <2>8, <2>9, QuietStep DEF TypeInv
<1>3. CASE Select(p)
  <2>1. /\ UNCHANGED <<os, exe, backup, past, staged, seen, helper, running, trusted, stored, best, overlap>>
        /\ pc[p] = "select"
        /\ \/ pc' = [pc EXCEPT ![p] = "idle"] /\ target' = target
           \/ /\ pc' = [pc EXCEPT ![p] = "fetch"]
              /\ \E t \in Candidates(p) : target' = [target EXCEPT ![p] = t]
    BY <1>3 DEF Select, files
  <2>2. seen[p] \in DOMAIN Repository /\ helper[p] = "none"
    BY <1>0, <2>1, Types DEF Fit
  <2>3. \A t \in Candidates(p) : Chosen(t)
    BY <2>2 DEF Candidates, Chosen, Published
  <2>4. ControlTyped' /\ StagedTyped'
    BY <1>0, <2>1 DEF TypeInv, ControlTyped, StagedTyped
  <2>5. FactsTyped'
    BY <1>0, <2>1, <2>3 DEF TypeInv, FactsTyped, Chosen
  <2>6. pc'[p] = "idle" \/ (pc'[p] = "fetch" /\ Chosen(target'[p]))
    BY <2>1, <2>3, Types
  <2>7. Fit(p)'
    BY <2>1, <2>2, <2>6 DEF Fit, Chosen, Choosing, Staging, Waiting
  <2>8. \A q \in Proc : q # p => pc'[q] = pc[q] /\ target'[q] = target[q]
    BY <2>1, Types
  <2>9. ~Spare(p)
    BY <2>1 DEF Spare
  <2> QED
    BY <1>0, <2>1, <2>4, <2>5, <2>7, <2>8, <2>9, QuietStep DEF TypeInv
<1>4. CASE (\E t \in Published \union {None} : Fetch(p, t)) \/ Extract(p)
  <2>1. /\ UNCHANGED <<os, exe, backup, past, staged, seen, target, helper, running, trusted, stored, best, overlap>>
        /\ \/ pc[p] \in {"fetch", "extract"} /\ pc' = [pc EXCEPT ![p] = "idle"]
           \/ pc[p] = "fetch" /\ pc' = [pc EXCEPT ![p] = "extract"]
           \/ /\ pc[p] = "extract" /\ pc' = [pc EXCEPT ![p] = "stage"]
              /\ ReleaseAccepted(target[p].format, target[p].entries, os, Limits)
    BY <1>4 DEF Fetch, Extract, facts, files
  <2>2. pc'[p] = "stage" => Sound(target[p])
    BY <2>1, Types, AcceptedIsSound
  <2>3. Chosen(target[p]) /\ seen[p] \in DOMAIN Repository /\ helper[p] = "none"
    BY <1>0, <2>1, Types DEF Fit, Choosing
  <2>4. Fit(p)'
    <3>1. pc'[p] \in {"idle", "extract", "stage"}
      BY <2>1, Types
    <3>2. Chosen(target[p])' /\ (pc'[p] = "stage" => Sound(target[p])')
      BY <2>1, <2>2, <2>3 DEF Chosen, Sound
    <3> QED
      BY <2>1, <2>3, <3>1, <3>2 DEF Fit, Choosing, Staging, Waiting
  <2>5. ControlTyped' /\ FactsTyped' /\ StagedTyped'
    BY <1>0, <2>1 DEF TypeInv, ControlTyped, FactsTyped, StagedTyped
  <2>6. \A q \in Proc : q # p => pc'[q] = pc[q]
    BY <2>1, Types
  <2>7. ~Spare(p)
    BY <2>1 DEF Spare
  <2> QED
    BY <1>0, <2>1, <2>4, <2>5, <2>6, <2>7, QuietStep DEF TypeInv
<1> QED
  BY <1>1, <1>2, <1>3, <1>4

\* From the staged file to the stored versions.
LEMMA InstallingKeepsTypes ==
  ASSUME TypeInv, NEW p \in Proc,
         Stage(p) \/ SyncStaged(p) \/ Replace(p) \/ Settle(p) \/ Spawn(p) \/ Store(p)
  PROVE  TypeInv'
<1>0. TypeInv /\ Fit(p)
  BY DEF TypeInv
<1>1. CASE Stage(p) \/ SyncStaged(p)
  <2>1. /\ UNCHANGED <<facts, exe, backup, past, helper, stored, best, overlap>>
        /\ pc[p] \in {"stage", "sync"}
    BY <1>1 DEF Stage, SyncStaged
  <2>2. Chosen(target[p]) /\ Sound(target[p]) /\ seen[p] \in DOMAIN Repository /\ helper[p] = "none"
    BY <1>0, <2>1, Types DEF Fit, Choosing, Staging
  <2> DEFINE v == File(target[p].version)
  <2>3. Genuine(v) /\ v \in FileType
    BY <2>2, ChosenIsGenuine
  <2> HIDE DEF v
  <2>4. \/ pc' = [pc EXCEPT ![p] = "idle"] /\ \E f \in FileType : staged' = [staged EXCEPT ![p] = f]
        \/ pc' = [pc EXCEPT ![p] = "sync"] /\ staged' = [staged EXCEPT ![p] = Torn]
        \/ /\ pc' = [pc EXCEPT ![p] = IF os = "windows" THEN "spawn" ELSE "replace"]
           /\ staged' = [staged EXCEPT ![p] = v]
    <3>1. staged = [staged EXCEPT ![p] = staged[p]] /\ staged[p] \in FileType
      BY Types
    <3> QED
      BY <1>1, <3>1, TornTyped DEF Stage, SyncStaged, v
  <2>5. /\ pc'[p] \in {"idle", "sync", "spawn", "replace"}
        /\ pc'[p] \in {"spawn", "replace"} => staged'[p] = v
        /\ pc'[p] = "spawn" => os = "windows"
        /\ pc'[p] = "replace" => os # "windows"
    BY <2>4, Types
  <2>6. StagedTyped'
    BY <2>3, <2>4, TornTyped, Types DEF StagedTyped
  <2>7. \A q \in Proc : q # p => pc'[q] = pc[q] /\ staged'[q] = staged[q]
    BY <2>4, Types
  <2>8. ControlTyped'
    <3>1. pc' \in [Proc -> {"idle", "verify", "select", "fetch", "extract", "stage", "sync", "replace",
                            "settle", "spawn", "store"}]
      BY <2>4, Types
    <3> QED
      BY <1>0, <2>1, <2>2, <2>5, <2>7, <3>1 DEF TypeInv, ControlTyped, facts
  <2>9. Fit(p)'
    <3>1. Chosen(target[p])' /\ Sound(target[p])'
      BY <2>1, <2>2 DEF Chosen, Sound, facts
    <3>2. pc'[p] \in {"spawn", "replace"} => staged'[p] = File(target'[p].version)
      BY <2>1, <2>5 DEF facts, v
    <3> QED
      BY <2>1, <2>2, <2>5, <3>1, <3>2 DEF Fit, facts, Waiting, Choosing, Staging
  <2>10. FactsTyped'
    BY <1>0, <2>1 DEF TypeInv, FactsTyped, facts
  <2>11. ~Spare(p)
    BY <2>1 DEF Spare
  <2>12. FilesGenuine' /\ \A q \in Proc : Fit(q)'
    BY <1>0, <2>1, <2>7, <2>9, <2>11, QuietStep DEF facts
  <2> QED
    BY <2>6, <2>8, <2>10, <2>12 DEF TypeInv
<1>2. CASE Replace(p)
  <2>1. /\ UNCHANGED <<backup, facts, helper, stored, overlap>>
        /\ pc[p] = "replace" /\ staged' = [staged EXCEPT ![p] = None]
        /\ \/ /\ exe' = staged[p] /\ past' = past \union {exe} /\ best' = Later(best, exe'.version)
              /\ pc' = [pc EXCEPT ![p] = "settle"]
           \/ UNCHANGED <<exe, past, best>> /\ pc' = [pc EXCEPT ![p] = "idle"]
    BY <1>2 DEF Replace
  <2>2. Genuine(staged[p]) /\ seen[p] \in DOMAIN Repository /\ helper[p] = "none"
    BY <1>0, <2>1, Types, ChosenIsGenuine DEF Fit, Choosing, Staging
  <2>3. os # "windows"
    BY <1>0, <2>1 DEF TypeInv, ControlTyped
  <2>4. exe # None /\ Genuine(exe)
    BY <1>0, <2>3 DEF TypeInv, FilesGenuine
  <2>5. /\ \A q \in Proc : q # p => pc'[q] = pc[q] /\ staged'[q] = staged[q]
        /\ pc'[p] \in {"settle", "idle"}
    BY <2>1, Types
  <2>6. ControlTyped'
    BY <1>0, <2>1, <2>3 DEF TypeInv, ControlTyped, facts
  <2>7. FactsTyped'
    <3>1. best' \in Nat
      BY <1>0, <2>1, <2>2 DEF TypeInv, FactsTyped, Later, Genuine, Record
    <3> QED
      BY <1>0, <2>1, <3>1 DEF TypeInv, FactsTyped, facts
  <2>8. StagedTyped'
    BY <2>1, TornTyped, Types DEF StagedTyped
  <2>9. Fit(p)'
    BY <2>1, <2>2, <2>5 DEF Fit, facts, Choosing, Staging, Waiting
  <2>10. \A q \in Proc : Fit(q)'
    BY <2>1, <2>5, <2>9, Types, FitFrame DEF facts
  <2>11. FilesGenuine'
    <3>1. \A f : Genuine(f) => Genuine(f)'
      BY <2>1, GenuineFrame DEF facts
    <3>2. exe' # None /\ Genuine(exe') /\ \A f \in past' : Genuine(f)
      BY <1>0, <2>1, <2>2, <2>4, GenuineIsWhole DEF TypeInv, FilesGenuine
    <3>3. backup = None \/ Genuine(backup)
      BY <1>0 DEF TypeInv, FilesGenuine
    <3>4. Genuine(exe)'
      BY <2>1, <3>2 DEF facts, Genuine, Good, Chosen, Sound
    <3>5. \A f \in past' : Genuine(f)'
      BY <3>1, <3>2
    <3> QED
      BY <2>1, <3>1, <3>2, <3>3, <3>4, <3>5 DEF FilesGenuine
  <2> QED
    BY <2>6, <2>7, <2>8, <2>10, <2>11 DEF TypeInv
<1>3. CASE Settle(p)
  <2>1. /\ UNCHANGED <<exe, backup, staged, facts, helper, stored, best, overlap>>
        /\ pc[p] = "settle" /\ pc' = [pc EXCEPT ![p] = "store"] /\ past' \subseteq past
    BY <1>3 DEF Settle
  <2>2. /\ \A q \in Proc : q # p => pc'[q] = pc[q]
        /\ pc'[p] = "store"
    BY <2>1, Types
  <2>3. ControlTyped' /\ FactsTyped' /\ StagedTyped'
    BY <1>0, <2>1 DEF TypeInv, ControlTyped, FactsTyped, StagedTyped, facts
  <2>4. Fit(p)'
    BY <1>0, <2>1, <2>2 DEF Fit, facts, Choosing, Staging, Waiting
  <2>5. \A q \in Proc : Fit(q)'
    BY <2>1, <2>2, <2>4, Types, FitFrame DEF facts
  <2>6. os # "windows"
    BY <1>0, <2>1 DEF TypeInv, ControlTyped
  <2>7. FilesGenuine'
    BY <1>0, <2>1, <2>6, GenuineFrame DEF TypeInv, FilesGenuine, facts
  <2> QED
    BY <2>3, <2>5, <2>7 DEF TypeInv
<1>4. CASE Spawn(p)
  <2>1. /\ UNCHANGED <<exe, backup, past, facts, stored, best, overlap>>
        /\ pc[p] = "spawn"
        /\ \/ /\ helper' = [helper EXCEPT ![p] = "wait"] /\ pc' = [pc EXCEPT ![p] = "store"]
              /\ staged' = staged
           \/ /\ helper' = helper /\ pc' = [pc EXCEPT ![p] = "idle"]
              /\ staged' = staged \/ staged' = [staged EXCEPT ![p] = None]
    BY <1>4 DEF Spawn
  <2>2. Genuine(staged[p]) /\ seen[p] \in DOMAIN Repository /\ helper[p] = "none"
    BY <1>0, <2>1, Types, ChosenIsGenuine DEF Fit, Choosing, Staging
  <2>3. os = "windows"
    BY <1>0, <2>1 DEF TypeInv, ControlTyped
  <2>4. /\ \A q \in Proc : q # p => pc'[q] = pc[q] /\ staged'[q] = staged[q] /\ helper'[q] = helper[q]
        /\ pc'[p] \in {"idle", "store"}
        /\ helper'[p] # "none" => staged'[p] = staged[p] /\ helper'[p] = "wait"
    BY <2>1, <2>2, Types
  <2>5. ControlTyped'
    BY <1>0, <2>1, <2>3 DEF TypeInv, ControlTyped, facts
  <2>6. FactsTyped' /\ StagedTyped'
    BY <1>0, <2>1, TornTyped DEF TypeInv, FactsTyped, StagedTyped, facts
  <2>7. Fit(p)'
    <3>1. helper'[p] # "none" => Genuine(staged[p])'
      BY <2>1, <2>2, <2>4 DEF Genuine, Good, Chosen, Sound, facts
    <3> QED
      BY <2>1, <2>2, <2>4, <3>1 DEF Fit, facts, Choosing, Staging, Waiting
  <2>8. ~Spare(p)
    BY <2>1 DEF Spare
  <2> QED
    BY <1>0, <2>1, <2>4, <2>5, <2>6, <2>7, <2>8, QuietStep DEF TypeInv, facts
<1>5. CASE Store(p)
  <2>1. /\ UNCHANGED <<exe, backup, past, staged, facts, helper, best, overlap>>
        /\ pc[p] = "store" /\ pc' = [pc EXCEPT ![p] = "idle"] /\ stored' \in {stored, seen[p]}
    BY <1>5 DEF Store, files
  <2>2. seen[p] \in DOMAIN Repository
    BY <1>0, <2>1 DEF Fit
  <2>3. ControlTyped' /\ StagedTyped'
    BY <1>0, <2>1 DEF TypeInv, ControlTyped, StagedTyped, facts
  <2>4. FactsTyped'
    BY <1>0, <2>1, <2>2 DEF TypeInv, FactsTyped, facts
  <2>5. pc'[p] = "idle" /\ \A q \in Proc : q # p => pc'[q] = pc[q]
    BY <2>1, Types
  <2>6. Fit(p)'
    <3>1. Genuine(staged[p]) => Genuine(staged[p])'
      BY <2>1 DEF Genuine, Good, Chosen, Sound, facts
    <3> QED
      BY <1>0, <2>1, <2>5, <3>1 DEF Fit, facts, Choosing, Staging, Waiting
  <2> QED
    BY <1>0, <2>1, <2>3, <2>4, <2>5, <2>6, QuietStep DEF TypeInv, facts
<1> QED
  BY <1>1, <1>2, <1>3, <1>4, <1>5

\* The helper on Windows.
LEMMA HelpKeepsTypes ==
  ASSUME TypeInv, NEW p \in Proc, Help(p)
  PROVE  TypeInv'
<1>0. TypeInv /\ Fit(p)
  BY DEF TypeInv
<1>1. /\ UNCHANGED <<past, facts, pc, stored, overlap>> /\ helper[p] # "none"
      /\ helper' \in [Proc -> {"none", "wait", "away", "in", "tidy", "catch"}]
      /\ \A q \in Proc : q # p => helper'[q] = helper[q]
      /\ helper'[p] \in Waiting => helper[p] \in Waiting
  BY Types DEF Help, HelperClear, HelperAway, HelperIn, HelperTidy, HelperCatch, helperFrame, Waiting
<1>2. os = "windows" /\ os' = os
  BY <1>0, <1>1 DEF TypeInv, ControlTyped, facts
<1>3. ControlTyped'
  BY <1>0, <1>1, <1>2 DEF TypeInv, ControlTyped
<1>4. \A f : Genuine(f) => Genuine(f)'
  BY <1>2, GenuineFrame
<1>5. \A q \in Proc : UNCHANGED <<pc[q], target[q], seen[q]>>
  BY <1>1 DEF facts
<1>6. ASSUME staged' = staged, best' = best,
             exe' = None \/ Genuine(exe'), backup' = None \/ Genuine(backup'),
             exe' = None => \E q \in Proc : Spare(q)
      PROVE  TypeInv'
  <2>1. Fit(p)'
    BY <1>0, <1>1, <1>4, <1>5, <1>6 DEF Fit, facts, Chosen, Sound
  <2>2. \A q \in Proc : Fit(q)'
    BY <1>1, <1>2, <1>5, <1>6, <2>1, Types, FitFrame
  <2>3. \A q \in Proc : Spare(q) => Spare(q)'
    BY <1>2, <1>5, <1>6, SpareFrame DEF Spare
  <2>4. (exe' # None => Genuine(exe)') /\ (backup' # None => Genuine(backup)')
    BY <1>2, <1>6 DEF Genuine, Good, Chosen, Sound
  <2>5. FilesGenuine'
    BY <1>0, <1>1, <1>2, <1>4, <1>6, <2>3, <2>4 DEF TypeInv, FilesGenuine
  <2>6. FactsTyped' /\ StagedTyped'
    BY <1>0, <1>1, <1>6 DEF TypeInv, FactsTyped, StagedTyped, facts
  <2> QED
    BY <1>3, <2>2, <2>5, <2>6 DEF TypeInv
<1>7. (exe = None \/ Genuine(exe)) /\ (backup = None \/ Genuine(backup))
      /\ (exe = None => \E q \in Proc : Spare(q))
  BY <1>0 DEF TypeInv, FilesGenuine
<1>8. CASE HelperClear(p) \/ HelperTidy(p)
  <2>1. UNCHANGED <<exe, staged, best>> /\ backup' \in {None, backup}
    BY <1>8 DEF HelperClear, HelperTidy
  <2> QED
    BY <1>6, <1>7, <2>1
<1>9. CASE HelperAway(p)
  <2>1. Spare(p)
    BY <1>0, <1>9, Types DEF HelperAway, Fit, Spare, Waiting
  <2>2. /\ UNCHANGED <<staged, best>>
        /\ \/ exe # None /\ backup' = exe /\ exe' = None
           \/ UNCHANGED <<exe, backup>>
    BY <1>9 DEF HelperAway
  <2> QED
    BY <1>6, <1>7, <2>1, <2>2
<1>10. CASE HelperCatch(p)
  <2>1. /\ UNCHANGED <<staged, best>>
        /\ \/ backup # None /\ exe' = backup /\ backup' = None
           \/ UNCHANGED <<exe, backup>>
    BY <1>10 DEF HelperCatch
  <2> QED
    BY <1>6, <1>7, <2>1
<1>11. CASE HelperIn(p)
  <2>1. /\ backup' = backup /\ helper[p] = "in"
        /\ \/ /\ exe' = staged[p] /\ staged' = [staged EXCEPT ![p] = None]
              /\ best' = Later(best, exe'.version) /\ helper' = [helper EXCEPT ![p] = "tidy"]
           \/ UNCHANGED <<exe, staged, best>>
    BY <1>11 DEF HelperIn
  <2>3. CASE UNCHANGED <<exe, staged, best>>
    BY <1>6, <1>7, <2>1, <2>3
  <2>4. CASE /\ exe' = staged[p] /\ staged' = [staged EXCEPT ![p] = None]
             /\ best' = Later(best, exe'.version) /\ helper' = [helper EXCEPT ![p] = "tidy"]
    <3>0. Genuine(staged[p]) /\ exe' # None
      BY <1>0, <2>1, <2>4, GenuineIsWhole DEF Fit, Waiting
    <3>1. FactsTyped'
      <4>1. best' \in Nat
        BY <1>0, <2>4, <3>0 DEF TypeInv, FactsTyped, Later, Genuine, Record
      <4> QED
        BY <1>0, <1>1, <4>1 DEF TypeInv, FactsTyped, facts
    <3>2. StagedTyped'
      BY <2>4, TornTyped, Types DEF StagedTyped
    <3>3. helper'[p] = "tidy" /\ \A q \in Proc : q # p => staged'[q] = staged[q]
      BY <2>4, Types
    <3>4. Fit(p)'
      <4>1. pc[p] \in {"idle", "store"} /\ pc'[p] = pc[p]
        BY <1>0, <1>1, <1>5 DEF Fit
      <4> QED
        BY <1>0, <1>1, <1>5, <3>3, <4>1 DEF Fit, facts, Choosing, Staging, Waiting
    <3>5. \A q \in Proc : Fit(q)'
      BY <1>1, <1>2, <1>5, <3>3, <3>4, Types, FitFrame
    <3>6. Genuine(exe)' /\ (backup' # None => Genuine(backup)')
      BY <1>2, <1>7, <2>1, <2>4, <3>0 DEF Genuine, Good, Chosen, Sound
    <3>7. FilesGenuine'
      BY <1>0, <1>1, <1>4, <3>0, <3>6 DEF TypeInv, FilesGenuine
    <3> QED
      BY <1>3, <3>1, <3>2, <3>5, <3>7 DEF TypeInv
  <2> QED
    BY <2>1, <2>3, <2>4
<1> QED
  BY <1>8, <1>9, <1>10, <1>11 DEF Help

LEMMA EndsKeepTypes ==
  ASSUME TypeInv, PowerLoss \/ \E p \in Proc : Kill(p)
  PROVE  TypeInv'
<1>0. TypeInv
  OBVIOUS
<1>1. ASSUME NEW p \in Proc, Kill(p)
      PROVE  TypeInv'
  <2>1. /\ UNCHANGED <<helper, exe, backup, past, staged, facts, stored, best, overlap>>
        /\ pc' = [pc EXCEPT ![p] = "idle"]
    BY <1>1 DEF Kill, files
  <2>2. pc'[p] = "idle" /\ \A q \in Proc : q # p => pc'[q] = pc[q]
    BY <2>1, Types
  <2>3. ControlTyped' /\ FactsTyped' /\ StagedTyped'
    BY <1>0, <2>1 DEF TypeInv, ControlTyped, FactsTyped, StagedTyped, facts
  <2>4. Fit(p)'
    <3>1. Genuine(staged[p]) => Genuine(staged[p])'
      BY <2>1 DEF Genuine, Good, Chosen, Sound, facts
    <3> QED
      BY <2>1, <2>2, <3>1, Types DEF Fit, facts, Choosing, Staging, Waiting
  <2> QED
    BY <1>0, <2>1, <2>2, <2>3, <2>4, QuietStep DEF TypeInv, facts
<1>2. CASE PowerLoss
  <2>1. /\ UNCHANGED <<backup, staged, facts, stored, overlap>>
        /\ exe' \in {exe} \union past /\ past' = {}
        /\ best' = (IF exe' = exe THEN best ELSE exe'.version)
        /\ pc' = [p \in Proc |-> "idle"] /\ helper' = [p \in Proc |-> "none"]
    BY <1>2 DEF PowerLoss
  <2>2. \A f \in past : Genuine(f)
    BY <1>0 DEF TypeInv, FilesGenuine
  <2>3. exe' = exe \/ Genuine(exe')
    BY <2>1, <2>2
  <2>4. ControlTyped' /\ StagedTyped'
    BY <1>0, <2>1 DEF TypeInv, ControlTyped, StagedTyped
  <2>5. FactsTyped'
    <3>1. best' \in Nat
      BY <1>0, <2>1, <2>3 DEF TypeInv, FactsTyped, Genuine, Record
    <3> QED
      BY <1>0, <2>1, <3>1 DEF TypeInv, FactsTyped, facts
  <2>6. \A p \in Proc : Fit(p)'
    BY <2>1 DEF Fit, Choosing, Staging, Waiting
  <2>7. \A q \in Proc : Spare(q) => Spare(q)'
    BY <2>1, SpareFrame DEF facts
  <2>8. (exe = None \/ Genuine(exe)) /\ (backup = None \/ Genuine(backup))
        /\ (exe = None => os = "windows" /\ \E q \in Proc : Spare(q))
    BY <1>0 DEF TypeInv, FilesGenuine
  <2>9. (exe' # None => Genuine(exe)') /\ (backup' # None => Genuine(backup)')
    BY <2>1, <2>3, <2>8 DEF Genuine, Good, Chosen, Sound, facts
  <2>10. exe' = None => exe = None
    BY <2>3, GenuineIsWhole
  <2>11. FilesGenuine'
    BY <2>1, <2>7, <2>8, <2>9, <2>10 DEF FilesGenuine, facts
  <2> QED
    BY <2>4, <2>5, <2>6, <2>11 DEF TypeInv
<1> QED
  BY <1>1, <1>2

LEMMA NextKeepsTypes == TypeInv /\ [Next]_vars => TypeInv'
<1> SUFFICES ASSUME TypeInv, [Next]_vars PROVE TypeInv'
  OBVIOUS
<1>1. ASSUME NEW p \in Proc, Start(p) \/ Update(p) \/ Help(p)
      PROVE  TypeInv'
  BY <1>1, ChoosingKeepsTypes, InstallingKeepsTypes, HelpKeepsTypes DEF Update
<1>2. CASE UNCHANGED vars
  <2>1. UNCHANGED <<os, exe, backup, past, staged, pc, helper, running, trusted, seen, target, stored,
                    best, overlap>>
    BY <1>2 DEF vars, files, facts
  <2>2. ControlTyped' /\ FactsTyped' /\ StagedTyped'
    BY <2>1 DEF TypeInv, ControlTyped, FactsTyped, StagedTyped
  <2>3. \A p \in Proc : Fit(p)'
    BY <2>1, FitFrame DEF TypeInv
  <2>4. \A q \in Proc : Spare(q) => Spare(q)'
    BY <2>1, SpareFrame DEF Spare
  <2>5. FilesGenuine'
    BY <2>1, <2>4, GenuineFrame DEF TypeInv, FilesGenuine
  <2> QED
    BY <2>2, <2>3, <2>5 DEF TypeInv
<1> QED
  BY <1>1, <1>2, EndsKeepTypes DEF Next

\* Type correctness.
THEOREM TypeCorrect == Spec => []TypeOK
<1>1. TypeInv => TypeOK
  <2> SUFFICES ASSUME TypeInv PROVE TypeOK
    OBVIOUS
  <2>1. exe \in FileType /\ backup \in FileType /\ past \subseteq FileType
    BY GenuineIsWhole, TornTyped DEF TypeInv, FilesGenuine
  <2> QED
    BY <2>1 DEF TypeInv, TypeOK, FilesTyped, StagedTyped
<1> QED
  BY <1>1, InitTyped, NextKeepsTypes, PTL DEF Spec

\* Whatever mirrors serve and whatever archives hold, what is in place is the
\* first executable or one that signed metadata describes for this machine,
\* from an archive with one executable and no path that climbs out.
THEOREM OnlySignedIsInstalled == Spec => []OnlySignedReleases
<1>1. TypeInv => OnlySignedReleases
  BY DEF TypeInv, FilesGenuine, Genuine, Good, Chosen, Sound, OnlySignedReleases
<1> QED
  BY <1>1, InitTyped, NextKeepsTypes, PTL DEF Spec

-----------------------------------------------------------------------------
(* One update at a time                                                    *)

CountsTyped == faults \in Nat /\ kills \in Nat

Alone == \A p, q \in Proc : Busy(p) /\ Busy(q) => p = q

\* At most one call of a helper was refused.
Calm == os = "windows" => faults <= 1

\* Only the helper takes the executable away, and it keeps the backup.
Placed(p) ==
  /\ Busy(p) /\ exe = None => helper[p] \in {"in", "catch"}
  /\ helper[p] = "in" => backup # None
  /\ helper[p] = "catch" => faults >= 1
  /\ helper[p] \notin {"none", "wait"} => pc[p] = "idle"

Updating == {"verify", "select"} \union Choosing

\* What an update is about to put in place is not older than what was there.
Ahead(p) ==
  /\ pc[p] \in Updating => running[p] >= best
  /\ pc[p] \in Choosing => target[p].version > running[p]
  /\ helper[p] \in {"wait", "away", "in"} => staged[p].version >= best
  /\ helper[p] = "in" => backup.version >= best
  /\ helper[p] = "away" => backup = None \/ faults >= 1
  /\ helper[p] = "catch" /\ backup # None => backup.version >= best

\* The machine between updates.
Settled ==
  /\ exe # None \/ backup # None
  /\ faults <= 1 /\ kills = 0 /\ exe = None => \E p \in Proc : helper[p] \in {"in", "catch"}
  /\ Calm /\ exe # None => exe.version >= best

Sequential == Alone /\ Settled /\ \A p \in Proc : Placed(p) /\ (Calm => Ahead(p))

SeqInv == CountsTyped /\ (~overlap => Sequential)

LEMMA InitSequential == Init => SeqInv
<1> SUFFICES ASSUME Init PROVE SeqInv
  OBVIOUS
<1>1. File(FirstVersion) # None /\ File(FirstVersion).version = FirstVersion
  <2>1. File(FirstVersion) \in Record
    BY Constants DEF File, Record
  <2> QED
    BY <2>1, Constants DEF File
<1>2. exe = File(FirstVersion) /\ best = FirstVersion /\ faults = 0 /\ kills = 0
      /\ \A p \in Proc : pc[p] = "idle" /\ helper[p] = "none"
  BY DEF Init
<1>3. \A p \in Proc : ~Busy(p) /\ Placed(p) /\ Ahead(p)
  BY <1>2 DEF Busy, Placed, Ahead, Updating, Choosing
<1>4. Settled
  BY <1>1, <1>2, Constants DEF Settled
<1>5. CountsTyped
  BY <1>2 DEF CountsTyped
<1>6. Alone
  BY <1>3 DEF Alone
<1> QED
  BY <1>3, <1>4, <1>5, <1>6 DEF SeqInv, Sequential

\* When one update is under way it is enough to look at it.
LEMMA OneStep ==
  ASSUME NEW p \in Proc, CountsTyped',
         ~overlap' => /\ \A q \in Proc : q # p => pc'[q] = "idle" /\ helper'[q] = "none"
                      /\ Settled' /\ Placed(p)' /\ (Calm' => Ahead(p)')
  PROVE  SeqInv'
<1> SUFFICES ASSUME ~overlap' PROVE Sequential'
  BY DEF SeqInv
<1>1. \A q \in Proc : q # p => ~Busy(q)' /\ Placed(q)' /\ Ahead(q)'
  BY DEF Busy, Placed, Ahead, Updating, Choosing
<1>2. Alone'
  BY <1>1 DEF Alone
<1> QED
  BY <1>1, <1>2 DEF Sequential

\* Everybody else is idle.
LEMMA OthersIdle ==
  ASSUME TypeInv, SeqInv, NEW p \in Proc, Busy(p), ~overlap
  PROVE  Settled /\ Placed(p) /\ (Calm => Ahead(p))
         /\ \A q \in Proc : q # p => pc[q] = "idle" /\ helper[q] = "none"
  BY DEF SeqInv, Sequential, Alone, Busy

LEMMA ChoosingStaysAhead ==
  ASSUME TypeInv, SeqInv, NEW p \in Proc,
         \/ Start(p) \/ (\E r \in DOMAIN Repository : Verify(p, r)) \/ Select(p)
         \/ (\E t \in Published \union {None} : Fetch(p, t)) \/ Extract(p)
  PROVE  SeqInv'
<1>0. CountsTyped /\ Fit(p)
  BY DEF SeqInv, TypeInv
<1>1. CASE Start(p)
  <2>1. /\ UNCHANGED <<os, exe, backup, staged, target, helper, best, faults, kills>>
        /\ ~Busy(p) /\ pc' = [pc EXCEPT ![p] = "verify"] /\ exe # None
        /\ running' = [running EXCEPT ![p] = exe.version]
        /\ overlap' = (overlap \/ \E q \in Proc : Busy(q))
    BY <1>1 DEF Start, files
  <2>2. CountsTyped'
    BY <1>0, <2>1 DEF CountsTyped
  <2>3. SUFFICES ASSUME ~overlap'
                 PROVE  /\ \A q \in Proc : q # p => pc'[q] = "idle" /\ helper'[q] = "none"
                        /\ Settled' /\ Placed(p)' /\ (Calm' => Ahead(p)')
    BY <2>2, OneStep
  <2>4. ~overlap /\ \A q \in Proc : ~Busy(q)
    BY <2>1, <2>3
  <2>5. \A q \in Proc : q # p => pc'[q] = "idle" /\ helper'[q] = "none"
    BY <2>1, <2>4, Types DEF Busy
  <2>6. Settled'
    BY <2>1, <2>4 DEF SeqInv, Sequential, Settled, Calm
  <2>7. helper'[p] = "none" /\ pc'[p] = "verify" /\ running'[p] = exe.version
    BY <2>1, Types DEF Busy
  <2>8. Placed(p)'
    BY <2>1, <2>7 DEF Placed
  <2>9. Calm' => Ahead(p)'
    BY <2>1, <2>4, <2>7 DEF SeqInv, Sequential, Settled, Calm, Ahead, Updating, Choosing
  <2> QED
    BY <2>5, <2>6, <2>8, <2>9
<1>2. ASSUME ~Start(p)
      PROVE  SeqInv'
  <2>1. /\ UNCHANGED <<os, exe, backup, staged, running, helper, best, faults, kills, overlap>>
        /\ pc[p] \in Updating
        /\ \A q \in Proc : q # p => pc'[q] = pc[q]
        /\ pc'[p] \in {"idle", "select", "fetch", "extract", "stage"}
        /\ pc'[p] \in Choosing => \/ pc[p] \in Choosing /\ target' = target
                                  \/ \E t \in Candidates(p) : target'[p] = t
    BY <1>2, Types DEF Verify, Select, Fetch, Extract, facts, files, bounds, Updating, Choosing
  <2>2. CountsTyped'
    BY <1>0, <2>1 DEF CountsTyped
  <2>3. SUFFICES ASSUME ~overlap'
                 PROVE  /\ \A q \in Proc : q # p => pc'[q] = "idle" /\ helper'[q] = "none"
                        /\ Settled' /\ Placed(p)' /\ (Calm' => Ahead(p)')
    BY <2>2, OneStep
  <2>4. Busy(p) /\ helper[p] = "none" /\ ~overlap
    BY <1>0, <2>1, <2>3, Types DEF Busy, Fit, Updating, Choosing
  <2>5. /\ Settled /\ Placed(p) /\ (Calm => Ahead(p))
        /\ \A q \in Proc : q # p => pc[q] = "idle" /\ helper[q] = "none"
    BY <2>4, OthersIdle
  <2>6. Settled' /\ (Calm' <=> Calm)
    BY <2>1, <2>5 DEF Settled, Calm
  <2>7. Placed(p)'
    BY <2>1, <2>4, <2>5 DEF Placed, Busy
  <2>8. Calm' => Ahead(p)'
    <3>1. \A t \in Candidates(p) : t.version > running[p]
      BY DEF Candidates
    <3>2. ASSUME Calm PROVE Ahead(p)'
      BY <2>1, <2>4, <2>5, <3>1, <3>2 DEF Ahead, Updating, Choosing
    <3> QED
      BY <2>6, <3>2
  <2> QED
    BY <2>1, <2>5, <2>6, <2>7, <2>8
<1> QED
  BY <1>1, <1>2

LEMMA InstallingStaysAhead ==
  ASSUME TypeInv, SeqInv, NEW p \in Proc,
         Stage(p) \/ SyncStaged(p) \/ Replace(p) \/ Settle(p) \/ Spawn(p) \/ Store(p)
  PROVE  SeqInv'
<1>0. CountsTyped /\ Fit(p) /\ best \in Nat /\ running[p] \in Nat
  BY Types DEF SeqInv, TypeInv, FactsTyped
<1>1. /\ UNCHANGED <<os, backup, running, target, kills, overlap>>
      /\ faults' \in {faults, faults + 1} /\ faults' \in Nat /\ faults' >= faults
      /\ pc[p] # "idle"
      /\ \A q \in Proc : q # p => pc'[q] = pc[q] /\ helper'[q] = helper[q]
  BY <1>0, Types DEF Stage, SyncStaged, Replace, Settle, Spawn, Store, facts, files, Fault, CountsTyped
<1>2. CountsTyped'
  BY <1>0, <1>1 DEF CountsTyped
<1>3. SUFFICES ASSUME ~overlap'
               PROVE  /\ \A q \in Proc : q # p => pc'[q] = "idle" /\ helper'[q] = "none"
                      /\ Settled' /\ Placed(p)' /\ (Calm' => Ahead(p)')
  BY <1>2, OneStep
<1>4. /\ Settled /\ Placed(p) /\ (Calm => Ahead(p)) /\ Busy(p)
      /\ \A q \in Proc : q # p => pc[q] = "idle" /\ helper[q] = "none"
  BY <1>1, <1>3, OthersIdle DEF Busy
<1>5. Calm' => Calm
  BY <1>0, <1>1 DEF Calm, CountsTyped
<1>6. \A q \in Proc : q # p => pc'[q] = "idle" /\ helper'[q] = "none"
  BY <1>1, <1>4
<1>7. CASE Stage(p) \/ SyncStaged(p) \/ Spawn(p)
  <2>1. /\ UNCHANGED <<exe, best>> /\ pc[p] \in {"stage", "sync", "spawn"}
        /\ pc'[p] \in {"idle", "sync", "spawn", "replace", "store"}
        /\ helper'[p] = helper[p] \/ (helper'[p] = "wait" /\ staged' = staged /\ pc[p] = "spawn")
    BY <1>7, Types DEF Stage, SyncStaged, Spawn
  <2>2. helper[p] = "none" /\ exe # None
    BY <1>0, <1>4, <2>1 DEF Fit, Placed
  <2>3. Settled'
    BY <1>0, <1>1, <1>4, <1>5, <2>1, <2>2 DEF Settled, CountsTyped
  <2>4. Placed(p)'
    BY <2>1, <2>2 DEF Placed
  <2>5. ASSUME Calm PROVE Ahead(p)'
    <3>1. running[p] >= best /\ target[p].version > running[p]
      BY <1>4, <2>1, <2>5 DEF Ahead, Updating, Choosing
    <3>2. pc[p] = "spawn" => staged[p].version = target[p].version /\ target[p].version \in Nat
      <4>1. pc[p] = "spawn" => staged[p] = File(target[p].version) /\ target[p] \in Published
        BY <1>0 DEF Fit, Chosen, Choosing
      <4> QED
        BY <4>1, PublishedTyped DEF File
    <3>3. helper'[p] = "wait" => staged'[p].version >= best'
      BY <1>0, <2>1, <2>2, <3>1, <3>2
    <3> QED
      BY <1>1, <2>1, <2>2, <3>1, <3>3 DEF Ahead
  <2> QED
    BY <1>5, <1>6, <2>3, <2>4, <2>5
<1>8. CASE Replace(p)
  <2>1. /\ helper' = helper /\ pc[p] = "replace" /\ pc'[p] \in {"settle", "idle"}
        /\ \/ exe' = staged[p] /\ best' = Later(best, exe'.version)
           \/ UNCHANGED <<exe, best>>
    BY <1>8, Types DEF Replace
  <2>2. helper[p] = "none" /\ exe # None
    BY <1>0, <1>4, <2>1 DEF Fit, Placed
  <2>3. exe' # None
    <3>1. Genuine(staged[p])
      BY <1>0, <2>1, ChosenIsGenuine DEF Fit, Choosing, Staging
    <3> QED
      BY <2>1, <2>2, <3>1, GenuineIsWhole
  <2>4. ASSUME Calm PROVE exe'.version >= best'
    <3>1. running[p] >= best /\ target[p].version > running[p]
      BY <1>4, <2>1, <2>4 DEF Ahead, Updating, Choosing
    <3>2. staged[p].version = target[p].version /\ target[p].version \in Nat
      <4>1. staged[p] = File(target[p].version) /\ target[p] \in Published
        BY <1>0, <2>1 DEF Fit, Chosen, Choosing
      <4> QED
        BY <4>1, PublishedTyped DEF File
    <3>3. CASE UNCHANGED <<exe, best>>
      BY <1>4, <2>2, <2>4, <3>3 DEF Settled
    <3>4. CASE exe' = staged[p] /\ best' = Later(best, exe'.version)
      BY <1>0, <3>1, <3>2, <3>4 DEF Later
    <3> QED
      BY <2>1, <3>3, <3>4
  <2>5. Settled'
    BY <1>5, <2>3, <2>4 DEF Settled
  <2>6. Placed(p)' /\ Ahead(p)'
    BY <2>1, <2>2, <2>3 DEF Placed, Ahead, Updating, Choosing
  <2> QED
    BY <1>6, <2>5, <2>6
<1>9. CASE Settle(p) \/ Store(p)
  <2>1. /\ UNCHANGED <<exe, best, staged, helper>> /\ pc[p] \in {"settle", "store"}
        /\ pc'[p] \in {"store", "idle"}
    BY <1>9, Types DEF Settle, Store, files
  <2>2. Settled'
    BY <1>0, <1>1, <1>4, <1>5, <2>1 DEF Settled, CountsTyped
  <2>3. Placed(p)'
    BY <1>0, <1>1, <1>4, <2>1 DEF Placed, CountsTyped
  <2>4. ASSUME Calm PROVE Ahead(p)'
    BY <1>0, <1>1, <1>4, <2>1, <2>4 DEF Ahead, Updating, Choosing, CountsTyped
  <2> QED
    BY <1>5, <1>6, <2>2, <2>3, <2>4
<1> QED
  BY <1>7, <1>8, <1>9

LEMMA HelpStaysAhead ==
  ASSUME TypeInv, SeqInv, NEW p \in Proc, Help(p)
  PROVE  SeqInv'
<1>0. CountsTyped /\ Fit(p) /\ best \in Nat
  BY DEF SeqInv, TypeInv, FactsTyped
<1>1. /\ UNCHANGED <<os, pc, running, target, kills, overlap>>
      /\ faults' \in {faults, faults + 1} /\ faults' \in Nat /\ faults' >= faults
      /\ helper[p] # "none"
      /\ \A q \in Proc : q # p => pc'[q] = pc[q] /\ helper'[q] = helper[q]
  BY <1>0, Types DEF Help, HelperClear, HelperAway, HelperIn, HelperTidy, HelperCatch, helperFrame, facts,
                     Fault, CountsTyped
<1>2. CountsTyped'
  BY <1>0, <1>1 DEF CountsTyped
<1>3. SUFFICES ASSUME ~overlap'
               PROVE  /\ \A q \in Proc : q # p => pc'[q] = "idle" /\ helper'[q] = "none"
                      /\ Settled' /\ Placed(p)' /\ (Calm' => Ahead(p)')
  BY <1>2, OneStep
<1>4. /\ Settled /\ Placed(p) /\ (Calm => Ahead(p)) /\ Busy(p)
      /\ \A q \in Proc : q # p => pc[q] = "idle" /\ helper[q] = "none"
  BY <1>1, <1>3, OthersIdle DEF Busy
<1>5. Calm' => Calm
  BY <1>0, <1>1 DEF Calm, CountsTyped
<1>6. \A q \in Proc : q # p => pc'[q] = "idle" /\ helper'[q] = "none"
  BY <1>1, <1>4
<1>7. pc'[p] \in {"idle", "store"} /\ pc'[p] \notin Updating /\ pc'[p] \notin Choosing /\ os = "windows"
  BY <1>0, <1>1 DEF Fit, TypeInv, ControlTyped, Updating, Choosing
<1>8. exe # None => Genuine(exe)
  BY DEF TypeInv, FilesGenuine
<1>idle. pc'[p] = "idle"
  BY <1>1, <1>4 DEF Placed, Help, HelperClear, HelperAway, HelperIn, HelperTidy, HelperCatch
<1>9. CASE HelperClear(p) \/ HelperTidy(p)
  <2>1. /\ UNCHANGED <<exe, staged, best>> /\ helper[p] \in {"wait", "tidy"}
        /\ helper'[p] = "none" \/ (helper'[p] = "away" /\ helper[p] = "wait")
        /\ backup' = None \/ (backup' = backup /\ faults' = faults + 1)
    BY <1>9, Types DEF HelperClear, HelperTidy, Fault
  <2>2. exe # None
    BY <1>4, <2>1 DEF Placed
  <2>3. Settled'
    BY <1>4, <1>5, <2>1, <2>2 DEF Settled
  <2>4. Placed(p)'
    BY <1>idle, <2>1, <2>2 DEF Placed
  <2>5. ASSUME Calm PROVE Ahead(p)'
    BY <1>0, <1>1, <1>4, <1>7, <2>1, <2>5 DEF Ahead, CountsTyped
  <2> QED
    BY <1>5, <1>6, <2>3, <2>4, <2>5
<1>10. CASE HelperAway(p)
  <2>1. helper[p] = "away" /\ exe # None
    BY <1>4, <1>10 DEF HelperAway, Placed
  <2>2. /\ UNCHANGED <<staged, best>>
        /\ \/ backup' = exe /\ exe' = None /\ helper'[p] = "in" /\ faults' = faults
           \/ UNCHANGED <<exe, backup>> /\ helper'[p] = "catch" /\ faults' = faults + 1
    BY <1>10, <2>1, Types DEF HelperAway, Fault
  <2>3. CASE backup' = exe /\ exe' = None /\ helper'[p] = "in" /\ faults' = faults
    <3>1. Settled'
      BY <2>1, <2>3 DEF Settled
    <3>2. Placed(p)'
      BY <1>idle, <2>1, <2>3 DEF Placed
    <3>3. ASSUME Calm PROVE Ahead(p)'
      BY <1>4, <1>7, <2>1, <2>2, <2>3, <3>3 DEF Ahead, Settled
    <3> QED
      BY <1>5, <1>6, <3>1, <3>2, <3>3
  <2>4. CASE UNCHANGED <<exe, backup>> /\ helper'[p] = "catch" /\ faults' = faults + 1
    <3>1. Settled'
      BY <1>4, <1>5, <2>1, <2>2, <2>4 DEF Settled
    <3>2. Placed(p)'
      BY <1>idle, <1>0, <2>1, <2>4 DEF Placed, CountsTyped
    <3>3. ASSUME Calm' PROVE Ahead(p)'
      <4>1. faults' <= 1 /\ ~(faults >= 1)
        BY <1>0, <1>1, <1>7, <2>4, <3>3 DEF Calm, CountsTyped
      <4>2. backup = None
        BY <1>4, <1>5, <2>1, <3>3, <4>1 DEF Ahead
      <4> QED
        BY <1>7, <2>4, <4>2 DEF Ahead
    <3> QED
      BY <1>6, <3>1, <3>2, <3>3
  <2> QED
    BY <2>2, <2>3, <2>4
<1>11. CASE HelperIn(p)
  <2>1. /\ helper[p] = "in" /\ backup' = backup
        /\ \/ /\ exe' = staged[p] /\ best' = Later(best, exe'.version) /\ helper'[p] = "tidy"
              /\ faults' = faults
           \/ UNCHANGED <<exe, staged, best>> /\ helper'[p] = "catch" /\ faults' = faults + 1
    BY <1>11, Types DEF HelperIn, Fault
  <2>2. backup # None /\ Genuine(staged[p])
    BY <1>0, <1>4, <2>1 DEF Placed, Fit, Waiting
  <2>3. CASE /\ exe' = staged[p] /\ best' = Later(best, exe'.version) /\ helper'[p] = "tidy"
             /\ faults' = faults
    <3>1. exe' # None
      BY <2>2, <2>3, GenuineIsWhole
    <3>2. ASSUME Calm PROVE exe'.version >= best'
      <4>1. staged[p].version >= best /\ staged[p].version \in Nat
        BY <1>4, <2>1, <2>2, <3>2 DEF Ahead, Genuine, Record
      <4> QED
        BY <1>0, <2>3, <4>1 DEF Later
    <3>3. Settled'
      BY <1>5, <3>1, <3>2 DEF Settled
    <3>4. Placed(p)' /\ Ahead(p)'
      BY <1>idle, <1>7, <2>3, <3>1 DEF Placed, Ahead
    <3> QED
      BY <1>6, <3>3, <3>4
  <2>4. CASE UNCHANGED <<exe, staged, best>> /\ helper'[p] = "catch" /\ faults' = faults + 1
    <3>1. Settled'
      BY <1>4, <1>5, <2>1, <2>2, <2>4 DEF Settled
    <3>2. Placed(p)'
      BY <1>idle, <1>0, <2>4 DEF Placed, CountsTyped
    <3>3. ASSUME Calm PROVE Ahead(p)'
      BY <1>4, <1>7, <2>1, <2>4, <3>3 DEF Ahead
    <3> QED
      BY <1>5, <1>6, <3>1, <3>2, <3>3
  <2> QED
    BY <2>1, <2>3, <2>4
<1>12. CASE HelperCatch(p)
  <2>1. /\ helper[p] = "catch" /\ helper'[p] = "none" /\ UNCHANGED <<staged, best>>
        /\ \/ backup # None /\ exe' = backup /\ faults' = faults
           \/ backup = None /\ UNCHANGED <<exe, backup>> /\ faults' = faults
           \/ backup # None /\ UNCHANGED <<exe, backup>> /\ faults' = faults + 1
    BY <1>12, Types DEF HelperCatch, Fault
  <2>2. faults >= 1
    BY <1>4, <2>1 DEF Placed
  <2>3. pc'[p] = "idle"
    BY <1>1, <1>4, <2>1 DEF Placed
  <2>4. CASE backup # None /\ exe' = backup /\ faults' = faults
    <3>1. Calm => exe'.version >= best
      BY <1>4, <2>1, <2>4 DEF Ahead
    <3>2. Settled'
      BY <1>5, <2>1, <2>4, <3>1 DEF Settled
    <3>3. Placed(p)' /\ Ahead(p)'
      BY <1>idle, <1>7, <2>1, <2>4 DEF Placed, Ahead
    <3> QED
      BY <1>6, <3>2, <3>3
  <2>5. CASE backup = None /\ UNCHANGED <<exe, backup>> /\ faults' = faults
    <3>1. exe # None
      BY <1>4, <2>5 DEF Settled
    <3>2. Settled'
      BY <1>4, <1>5, <2>1, <2>5, <3>1 DEF Settled
    <3>3. Placed(p)' /\ Ahead(p)'
      BY <1>idle, <1>7, <2>1, <2>5, <3>1 DEF Placed, Ahead
    <3> QED
      BY <1>6, <3>2, <3>3
  <2>6. CASE backup # None /\ UNCHANGED <<exe, backup>> /\ faults' = faults + 1
    <3>1. ~(faults' <= 1)
      BY <1>0, <2>2, <2>6 DEF CountsTyped
    <3>2. Settled'
      BY <1>7, <1>1, <2>6, <3>1 DEF Settled, Calm
    <3>3. Ahead(p)'
      BY <1>7, <2>1 DEF Ahead
    <3>4. Placed(p)'
      BY <1>idle, <2>1, <2>3 DEF Placed, Busy
    <3> QED
      BY <1>6, <3>2, <3>3, <3>4
  <2> QED
    BY <2>1, <2>4, <2>5, <2>6
<1> QED
  BY <1>9, <1>10, <1>11, <1>12 DEF Help

LEMMA EndsStayAhead ==
  ASSUME TypeInv, SeqInv, PowerLoss \/ \E p \in Proc : Kill(p)
  PROVE  SeqInv'
<1>0. CountsTyped
  BY DEF SeqInv
<1>1. ASSUME NEW p \in Proc, Kill(p)
      PROVE  SeqInv'
  <2>1. /\ UNCHANGED <<os, exe, backup, staged, running, target, helper, best, faults, overlap>>
        /\ kills' = kills + 1 /\ pc[p] # "idle" /\ pc'[p] = "idle"
        /\ \A q \in Proc : q # p => pc'[q] = pc[q]
    BY <1>1, Types DEF Kill, files, facts
  <2>2. CountsTyped'
    BY <1>0, <2>1 DEF CountsTyped
  <2>3. SUFFICES ASSUME ~overlap'
                 PROVE  /\ \A q \in Proc : q # p => pc'[q] = "idle" /\ helper'[q] = "none"
                        /\ Settled' /\ Placed(p)' /\ (Calm' => Ahead(p)')
    BY <2>2, OneStep
  <2>4. /\ Settled /\ Placed(p) /\ (Calm => Ahead(p)) /\ Busy(p)
        /\ \A q \in Proc : q # p => pc[q] = "idle" /\ helper[q] = "none"
    BY <2>1, <2>3, OthersIdle DEF Busy
  <2>5. Settled'
    BY <1>0, <2>1, <2>4 DEF Settled, Calm, CountsTyped
  <2>6. Placed(p)'
    BY <2>1, <2>4 DEF Placed
  <2>7. Calm' => Ahead(p)'
    BY <2>1, <2>4 DEF Ahead, Calm, Updating, Choosing
  <2> QED
    BY <2>1, <2>4, <2>5, <2>6, <2>7
<1>2. CASE PowerLoss
  <2>1. /\ UNCHANGED <<os, backup, faults, overlap>>
        /\ exe' \in {exe} \union past /\ kills' = kills + 1
        /\ best' = (IF exe' = exe THEN best ELSE exe'.version)
        /\ \A q \in Proc : pc'[q] = "idle" /\ helper'[q] = "none"
    BY <1>2 DEF PowerLoss, facts
  <2>2. exe' = exe \/ (Genuine(exe') /\ exe' # None /\ exe'.version \in Nat)
    BY <2>1, GenuineIsWhole DEF TypeInv, FilesGenuine, Genuine, Record
  <2>3. ~overlap' => Settled'
    <3>1. SUFFICES ASSUME ~overlap' PROVE Settled'
      OBVIOUS
    <3>2. Settled
      BY <2>1, <3>1 DEF SeqInv, Sequential
    <3>3. kills' # 0
      BY <1>0, <2>1 DEF CountsTyped
    <3>4. exe' # None \/ backup' # None
      BY <2>1, <2>2, <3>2 DEF Settled
    <3>5. Calm' /\ exe' # None => exe'.version >= best'
      <4>1. Calm' <=> Calm
        BY <2>1 DEF Calm
      <4>2. CASE exe' = exe
        BY <2>1, <3>2, <4>1, <4>2 DEF Settled
      <4>3. CASE exe' # exe
        BY <2>1, <2>2, <4>3
      <4> QED
        BY <4>2, <4>3
    <3> QED
      BY <3>3, <3>4, <3>5 DEF Settled
  <2>4. Alone' /\ \A q \in Proc : Placed(q)' /\ Ahead(q)'
    BY <2>1 DEF Alone, Busy, Placed, Ahead, Updating, Choosing
  <2>5. CountsTyped'
    BY <1>0, <2>1 DEF CountsTyped
  <2> QED
    BY <2>3, <2>4, <2>5 DEF SeqInv, Sequential
<1> QED
  BY <1>1, <1>2

LEMMA NextStaysAhead ==
  ASSUME TypeInv, SeqInv, [Next]_vars
  PROVE  SeqInv'
<1>1. ASSUME NEW p \in Proc, Start(p) \/ Update(p) \/ Help(p)
      PROVE  SeqInv'
  BY <1>1, ChoosingStaysAhead, InstallingStaysAhead, HelpStaysAhead DEF Update
<1>2. CASE UNCHANGED vars
  <2>1. UNCHANGED <<os, exe, backup, staged, pc, helper, running, target, best, overlap, faults, kills>>
    BY <1>2 DEF vars, files, facts, bounds
  <2>2. CountsTyped' /\ Alone' = Alone /\ Settled' = Settled /\ Calm' = Calm
    BY <2>1 DEF SeqInv, CountsTyped, Alone, Busy, Settled, Calm
  <2>3. \A p \in Proc : (Placed(p) => Placed(p)') /\ (Ahead(p) => Ahead(p)')
    BY <2>1 DEF Placed, Busy, Ahead
  <2> QED
    BY <2>1, <2>2, <2>3 DEF SeqInv, Sequential
<1> QED
  BY <1>1, <1>2, EndsStayAhead DEF Next

LEMMA Inductive == Spec => [](TypeInv /\ SeqInv)
  BY InitTyped, InitSequential, NextKeepsTypes, NextStaysAhead, PTL DEF Spec

\* On Unix a whole executable is in place at every moment; on Windows it is in
\* place or beside it, and in place again after a helper with one refused call.
THEOREM ExecutableIsKept == Spec => []ExecutableSurvives
<1>1. TypeInv /\ SeqInv => ExecutableSurvives
  <2> SUFFICES ASSUME TypeInv, SeqInv PROVE ExecutableSurvives
    OBVIOUS
  <2>1. /\ exe = None \/ Genuine(exe)
        /\ backup = None \/ Genuine(backup)
        /\ exe = None => os = "windows" /\ \E q \in Proc : Spare(q)
    BY DEF TypeInv, FilesGenuine
  <2>2. (exe # None => Whole(exe)) /\ (backup # None => Whole(backup))
        /\ \A q \in Proc : Spare(q) => Whole(staged[q])
    BY <2>1, GenuineIsWhole DEF Whole, Spare
  <2>3. ~overlap => Settled
    BY DEF SeqInv, Sequential
  <2>4. \E f \in {exe, backup} \union {staged[p] : p \in Proc} : Whole(f)
    BY <2>1, <2>2
  <2>5. ~overlap => Whole(exe) \/ Whole(backup)
    BY <2>2, <2>3 DEF Settled
  <2>6. ~overlap /\ kills = 0 /\ faults <= 1 /\ (\A p \in Proc : helper[p] = "none") => Whole(exe)
    BY <2>2, <2>3 DEF Settled
  <2>7. os # "windows" => Whole(exe)
    BY <2>1, <2>2
  <2> QED
    BY <2>4, <2>5, <2>6, <2>7 DEF ExecutableSurvives
<1> QED
  BY <1>1, Inductive, PTL

\* Updates one after another never leave an older executable in place.
THEOREM SequentialUpdatesGrow == Spec => []SequentialNeverBack
<1>1. SeqInv => SequentialNeverBack
  BY DEF SeqInv, Sequential, Settled, Calm, SequentialNeverBack
<1> QED
  BY <1>1, Inductive, PTL
=============================================================================
