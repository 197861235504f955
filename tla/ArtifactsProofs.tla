-------------------------- MODULE ArtifactsProofs --------------------------
(***************************************************************************)
(* Theorems about Artifacts, for any packages, recipes, payloads, servers  *)
(* and limits, and through every failing call, kill and power loss.        *)
(***************************************************************************)
EXTENDS Artifacts, SequenceTheorems, TLAPS

USE DEF To, NoFault, Spawn, disk, named, Ended

-----------------------------------------------------------------------------
(* Types                                                                   *)

LEMMA Bounds ==
  /\ MaxRuns \in Nat /\ MaxKills \in Nat
  /\ None \notin Bytes /\ None \notin Tree
  BY ArtifactsAssumption

LEMMA RecipeFields ==
  ASSUME NEW r \in Recipe
  PROVE  r.package \in Package /\ r.host \in HostName
<1>1. r \in RecipeType
  BY ArtifactsAssumption
<1> QED
  BY <1>1 DEF RecipeType

\* A directory that loses a part of its files is still made from the same
\* bytes, in the same run.
LEMMA TornTree ==
  ASSUME NEW t \in Tree
  PROVE  LET torn == [t EXCEPT !.whole = FALSE] IN
         /\ torn \in Tree /\ torn # None
         /\ torn.bytes = t.bytes /\ torn.run = t.run
  BY Bounds DEF Tree

\* What is found after a power loss is the tree that was there, perhaps torn.
LEMMA FoundTree ==
  ASSUME NEW t \in Trees, NEW torn
  PROVE  /\ Found(t, torn) \in Trees
         /\ t = None => Found(t, torn) = None
         /\ t # None => /\ t \in Tree /\ Found(t, torn) \in Tree /\ Found(t, torn) # None
                       /\ Found(t, torn).bytes = t.bytes /\ Found(t, torn).run = t.run
  BY TornTree, Bounds DEF Found, Trees

LEMMA WholeTree ==
  ASSUME NEW b \in Bytes, NEW n \in 1..MaxRuns
  PROVE  LET t == [bytes |-> b, run |-> n, whole |-> TRUE] IN t \in Tree /\ t # None
<1>1. [bytes |-> b, run |-> n, whole |-> TRUE] \in Tree
  BY DEF Tree
<1> QED
  BY <1>1, Bounds

LEMMA Working ==
  ASSUME ControlTyped, pc # "idle"
  PROVE  recipe \in Recipe /\ pkg \in Package /\ runs \in 1..MaxRuns
<1>1. recipe \in Recipe /\ runs \in 0..MaxRuns /\ runs # 0
  BY DEF ControlTyped
<1>2. MaxRuns \in Nat
  BY Bounds
<1> QED
  BY <1>1, <1>2, RecipeFields DEF pkg

LEMMA StagedIsTree ==
  ASSUME ControlTyped, RunTyped, pc # "idle", got # None
  PROVE  Staged \in Tree /\ Staged # None
<1>1. runs \in 1..MaxRuns
  BY Working
<1>2. got \in Bytes
  BY DEF RunTyped
<1> QED
  BY <1>1, <1>2, WholeTree DEF Staged

LEMMA StepsKeepControl ==
  ASSUME ControlTyped, [Next]_vars
  PROVE  ControlTyped'
<1> USE DEF ControlTyped
<1>1. ASSUME NEW r \in Recipe, Start(r) \/ StartRemove(r)
      PROVE  ControlTyped'
  <2>1. /\ runs < MaxRuns /\ runs' = runs + 1 /\ kills' = kills /\ recipe' = r
        /\ pc' \in {"fetch", "remove"}
    BY <1>1 DEF Start, StartRemove
  <2>2. runs' \in 1..MaxRuns /\ runs' \in 0..MaxRuns
    BY <2>1, Bounds
  <2> QED
    BY <2>1, <2>2
<1>2. CASE Answer
  BY <1>2 DEF Answer, Redirect, Respond, FetchFails, Fault, Refuse
<1>3. CASE Stream \/ Verify \/ Stage \/ Backup
  BY <1>3 DEF Stream, Verify, Stage, Backup, Fault, Refuse
<1>4. CASE Commit \/ DropBackup \/ RemoveOwned
  BY <1>4 DEF Commit, DropBackup, RemoveOwned, Fault, run
<1>5. CASE \/ Launch \/ InstallerExits \/ Deadline \/ Join \/ ClosePipes
           \/ Attach \/ RunPackage \/ Detach \/ Finish
  BY <1>5 DEF Launch, InstallerExits, Deadline, Join, ClosePipes, Outcome,
         Attach, RunPackage, Detach, Finish, Fault, Refuse, run
<1>6. CASE Kill \/ PowerLoss \/ WriteBack
  <2>0. CASE WriteBack
    BY <2>0 DEF WriteBack, run
  <2> SUFFICES ASSUME Kill \/ PowerLoss PROVE ControlTyped'
    BY <1>6, <2>0
  <2>1. runs' = runs /\ kills < MaxKills /\ kills' = kills + 1 /\ pc' = "idle"
    BY DEF Kill, PowerLoss
  <2>2. kills \in 0..MaxKills /\ MaxKills \in Nat /\ runs \in 0..MaxRuns
    BY Bounds
  <2>3. kills' \in 0..MaxKills
    BY <2>1, <2>2
  <2> QED
    BY <2>1, <2>2, <2>3
<1>7. CASE UNCHANGED vars
  BY <1>7 DEF vars, run
<1> QED
  BY <1>1, <1>2, <1>3, <1>4, <1>5, <1>6, <1>7 DEF Next, Act

LEMMA NoHops == <<>> \in Seq(HostName)
  OBVIOUS

LEMMA StepsKeepRun ==
  ASSUME ControlTyped, RunTyped, DiskTyped, [Next]_vars
  PROVE  RunTyped'
<1> USE DEF RunTyped
<1>1. ASSUME NEW r \in Recipe, Start(r) \/ StartRemove(r)
      PROVE  RunTyped'
  <2>1. <<r.host>> \in Seq(HostName) /\ <<>> \in Seq(HostName)
    BY RecipeFields
  <2> QED
    BY <1>1, <2>1 DEF Start, StartRemove, Trees
<1>2. ASSUME NEW h \in HostName, Redirect(h)
      PROVE  RunTyped'
  <2>1. Append(hops, h) \in Seq(HostName)
    OBVIOUS
  <2> QED
    BY <1>2, <2>1, NoHops DEF Redirect, Refuse
<1>3. ASSUME NEW b \in Bytes, Respond(b)
      PROVE  RunTyped'
  BY <1>3, Bounds, NoHops DEF Respond, Refuse
<1>4. CASE FetchFails \/ Stream \/ Verify
  BY <1>4, NoHops DEF FetchFails, Stream, Verify, Fault, Refuse
<1>5. CASE Stage
  <2>1. Staged \in Tree
    BY <1>5, StagedIsTree DEF Stage
  <2> QED
    BY <1>5, <2>1 DEF Stage, Fault, Refuse, Trees
<1>6. CASE Backup
  <2>1. place[pkg] \in Trees
    BY <1>6, Working DEF Backup, DiskTyped
  <2> QED
    BY <1>6, <2>1 DEF Backup, Fault, Refuse
<1>7. CASE Commit \/ DropBackup \/ RemoveOwned
  BY <1>7 DEF Commit, DropBackup, RemoveOwned, Fault, run
<1>8. CASE \/ Launch \/ InstallerExits \/ Deadline \/ Join \/ ClosePipes
           \/ Attach \/ RunPackage \/ Detach \/ Finish
  BY <1>8, NoHops DEF Trees, Launch, InstallerExits, Deadline, Join, ClosePipes, Outcome,
         Attach, RunPackage, Detach, Finish, Fault, Refuse, run
<1>9. CASE Kill \/ PowerLoss \/ WriteBack
  BY <1>9, NoHops DEF Kill, PowerLoss, WriteBack, run, Trees
<1>10. CASE UNCHANGED vars
  BY <1>10 DEF vars, run
<1> QED
  BY <1>1, <1>2, <1>3, <1>4, <1>5, <1>6, <1>7, <1>8, <1>9, <1>10 DEF Next, Act, Answer

\* The directories; what the disk has of them; and the trees that it may not
\* have in full.
NamedTyped ==
  /\ place \in [Package -> Trees] /\ due \in [Package -> Trees]
  /\ backups \in [Package -> SUBSET Tree]
SavedTyped == saved \in [Package -> Moment] /\ unwritten \subseteq 1..MaxRuns

LEMMA DiskParts == DiskTyped <=> NamedTyped /\ SavedTyped
  BY DEF DiskTyped, NamedTyped, SavedTyped

LEMMA StepsKeepNamed ==
  ASSUME ControlTyped, RunTyped, DiskTyped, [Next]_vars
  PROVE  NamedTyped'
<1> USE DEF DiskTyped, NamedTyped
<1>0. pc # "idle" => pkg \in Package
  BY Working
<1>1. CASE Backup
  BY <1>0, <1>1 DEF Backup, Trees
<1>2. CASE Commit
  <2>1. staging \in Trees /\ kept \in Trees
    BY DEF RunTyped
  <2> QED
    BY <1>0, <1>2, <2>1 DEF Commit, Trees
<1>3. CASE DropBackup
  <2>1. kept # None => [kept EXCEPT !.whole = FALSE] \in Tree
    BY TornTree DEF RunTyped, Trees
  <2> QED
    BY <1>0, <1>3, <2>1 DEF DropBackup
<1>4. CASE RemoveOwned
  <2>1. place[pkg] # None => [place[pkg] EXCEPT !.whole = FALSE] \in Trees
    BY <1>0, <1>4, TornTree DEF RemoveOwned, Trees
  <2> QED
    BY <1>0, <1>4, <2>1 DEF RemoveOwned, Trees
<1>5. CASE PowerLoss
  <2>1. PICK torn \in SUBSET unwritten :
          /\ place' = [p \in Package |-> Found(saved[p].place, torn)]
          /\ backups' = [p \in Package |-> {Found(t, torn) : t \in saved[p].backups}]
    BY <1>5 DEF PowerLoss
  <2>2. due' = [p \in Package |-> saved[p].due]
    BY <1>5 DEF PowerLoss
  <2>3. \A p \in Package : saved[p].place \in Trees /\ saved[p].backups \in SUBSET Tree /\ saved[p].due \in Trees
    BY DEF Moment
  <2>4. \A p \in Package : Found(saved[p].place, torn) \in Trees
    BY <2>3, FoundTree
  <2>5. \A t \in Tree : t \in Trees /\ t # None
    BY Bounds DEF Trees
  <2>6. \A p \in Package : {Found(t, torn) : t \in saved[p].backups} \in SUBSET Tree
    BY <2>3, <2>5, FoundTree
  <2> QED
    BY <2>1, <2>2, <2>3, <2>4, <2>6
<1>6. CASE UNCHANGED named
  BY <1>6
<1>7. Backup \/ Commit \/ DropBackup \/ RemoveOwned \/ PowerLoss \/ UNCHANGED named
  BY DEF Next, Act, Answer, Start, StartRemove, Redirect, Respond, FetchFails, Stream, Verify, Stage,
         Launch, InstallerExits, Deadline, Join, ClosePipes, Outcome,
         Attach, RunPackage, Detach, Finish, Kill, WriteBack, vars
<1> QED
  BY <1>1, <1>2, <1>3, <1>4, <1>5, <1>6, <1>7

LEMMA MomentTyped == NamedTyped => \A p \in Package : Now(p) \in Moment
  BY DEF NamedTyped, Now, Moment

LEMMA StepsKeepDisk ==
  ASSUME ControlTyped, RunTyped, DiskTyped, [Next]_vars
  PROVE  DiskTyped'
<1>0. NamedTyped /\ SavedTyped /\ NamedTyped'
  BY DiskParts, StepsKeepNamed
<1>1. CASE Stage
  <2>1. unwritten' \subseteq 1..MaxRuns /\ saved' = saved
    BY <1>0, <1>1, Working DEF Stage, SavedTyped
  <2> QED
    BY <1>0, <2>1 DEF SavedTyped, DiskTyped, NamedTyped
<1>2. CASE WriteBack
  <2>1. unwritten' \subseteq 1..MaxRuns /\ saved' \in [Package -> Moment]
    BY <1>0, <1>2, MomentTyped DEF WriteBack, SavedTyped
  <2> QED
    BY <1>0, <2>1 DEF SavedTyped, DiskTyped, NamedTyped
<1>3. CASE PowerLoss
  <2>1. saved' = [p \in Package |-> Now(p)'] /\ unwritten' = {}
    BY <1>3 DEF PowerLoss
  <2>2. \A p \in Package : Now(p)' \in Moment
    BY <1>0 DEF NamedTyped, Now, Moment
  <2> QED
    BY <1>0, <2>1, <2>2, DiskParts DEF SavedTyped, DiskTyped, NamedTyped
<1>4. CASE UNCHANGED <<saved, unwritten>>
  BY <1>0, <1>4 DEF SavedTyped, DiskTyped, NamedTyped
<1>5. Stage \/ WriteBack \/ PowerLoss \/ UNCHANGED <<saved, unwritten>>
  BY DEF Next, Act, Answer, Start, StartRemove, Redirect, Respond, FetchFails, Stream, Verify, Backup, Commit,
         DropBackup, RemoveOwned, Launch, InstallerExits, Deadline, Join, ClosePipes, Outcome,
         Attach, RunPackage, Detach, Finish, Kill, vars
<1> QED
  BY <1>0, <1>1, <1>2, <1>3, <1>4, <1>5 DEF SavedTyped, DiskTyped, NamedTyped

LEMMA StepsKeepHistory ==
  ASSUME ControlTyped, RunTyped, HistoryTyped, [Next]_vars
  PROVE  HistoryTyped'
<1>0. /\ pc # "idle" => pkg \in Package /\ recipe \in Recipe
      /\ litter \in Nat /\ fails \in [Package -> Nat] /\ trouble \in BOOLEAN
      /\ launched \subseteq Recipe \X Bytes
  BY Working DEF HistoryTyped
<1>1. litter' \in Nat
  <2>1. CASE litter' = litter \/ litter' = litter + 1
    BY <1>0, <2>1
  <2>2. CASE Kill \/ PowerLoss
    BY <1>0, <2>2 DEF Kill, PowerLoss
  <2>3. litter' = litter \/ litter' = litter + 1 \/ Kill \/ PowerLoss
    BY DEF Next, Answer, Act, Start, StartRemove, Redirect, Respond, FetchFails, Stream, Verify, Stage,
           Backup, Commit, DropBackup, RemoveOwned, Launch, InstallerExits, Deadline, Join, ClosePipes, Outcome,
         Attach, RunPackage, Detach, Finish, WriteBack, vars
  <2> QED
    BY <2>1, <2>2, <2>3
<1>2. fails' \in [Package -> Nat]
  <2>1. \A n \in 0..2 : pc # "idle" => [fails EXCEPT ![pkg] = @ + n] \in [Package -> Nat]
    BY <1>0
  <2>2. pc # "idle" => [fails EXCEPT ![pkg] = 0] \in [Package -> Nat]
    BY <1>0
  <2>3. [p \in Package |-> fails[p] + 2] \in [Package -> Nat]
    BY <1>0
  <2>4. \/ fails' = fails
        \/ fails' = [p \in Package |-> fails[p] + 2]
        \/ pc # "idle" /\ \/ fails' = [fails EXCEPT ![pkg] = 0]
                          \/ fails' = [fails EXCEPT ![pkg] = @ + 1]
                          \/ fails' = [fails EXCEPT ![pkg] = @ + 2]
    <3>1. CASE Answer \/ Stream \/ Verify \/ Stage \/ Backup \/ Attach
      BY <3>1 DEF Answer, Redirect, Respond, FetchFails, Stream, Verify, Stage, Backup, Attach, Fault, Refuse
    <3>2. CASE \/ Commit \/ DropBackup \/ RemoveOwned \/ Launch \/ RunPackage \/ Detach \/ Finish
              \/ InstallerExits \/ Deadline \/ Join \/ ClosePipes
      BY <3>2 DEF Commit, DropBackup, RemoveOwned, Launch, InstallerExits, Deadline, Join, ClosePipes, Outcome,
         RunPackage, Detach, Finish, Fault, Refuse
    <3>3. CASE Kill \/ PowerLoss \/ WriteBack \/ UNCHANGED vars \/ \E r \in Recipe : Start(r) \/ StartRemove(r)
      BY <3>3 DEF Kill, PowerLoss, WriteBack, Start, StartRemove, vars
    <3> QED
      BY <3>1, <3>2, <3>3 DEF Next, Act
  <2> QED
    BY <1>0, <2>1, <2>2, <2>3, <2>4
<1>3. trouble' \in BOOLEAN
  BY <1>0 DEF Next, Answer, Act, Start, StartRemove, Redirect, Respond, FetchFails, Stream, Verify, Stage,
      Backup, Commit, DropBackup, RemoveOwned, Launch, InstallerExits, Deadline, Join, ClosePipes, Outcome,
         Attach, RunPackage, Detach, Finish, Kill, PowerLoss, WriteBack,
      Fault, Refuse, vars
<1>5. held' \in BOOLEAN
  <2>1. held \in BOOLEAN
    BY DEF HistoryTyped
  <2>2. \/ held' = held \/ held' \in BOOLEAN
    BY DEF Next, Answer, Act, Start, StartRemove, Redirect, Respond, FetchFails, Stream, Verify, Stage, Backup,
      Commit, DropBackup, RemoveOwned, Launch, InstallerExits, Deadline, Join, ClosePipes,
      Attach, RunPackage, Detach, Finish, Kill, PowerLoss, WriteBack, vars
  <2> QED
    BY <2>1, <2>2
<1>4. launched' \subseteq Recipe \X Bytes
  <2>1. Launch \/ RunPackage => got \in Bytes /\ recipe \in Recipe
    BY <1>0 DEF RunTyped, Launch, InstallerExits, Deadline, Join, ClosePipes, Outcome,
         RunPackage
  <2>2. \/ launched' = launched
        \/ (Launch \/ RunPackage) /\ launched' = launched \union {<<recipe, got>>}
    BY DEF Next, Answer, Act, Start, StartRemove, Redirect, Respond, FetchFails, Stream, Verify, Stage,
           Backup, Commit, DropBackup, RemoveOwned, Launch, InstallerExits, Deadline, Join, ClosePipes, Outcome,
         Attach, RunPackage, Detach, Finish, Kill, PowerLoss, WriteBack, vars
  <2> QED
    BY <1>0, <2>1, <2>2
<1> QED
  BY <1>1, <1>2, <1>3, <1>4, <1>5 DEF HistoryTyped

LEMMA TypesHold == Spec => []TypeOK
<1>1. Init => TypeOK
  <2>1. Init => ControlTyped
    <3>1. 0 \in 0..MaxRuns /\ 0 \in 0..MaxKills
      BY Bounds
    <3> QED
      BY <3>1 DEF Init, ControlTyped
  <2>2. Init => RunTyped
    <3>1. <<>> \in Seq(HostName)
      OBVIOUS
    <3>2. Init => hops \in Seq(HostName) /\ got = None /\ recipe = None /\ staging = None /\ kept = None
                   /\ pc = "idle"
      BY <3>1 DEF Init
    <3>3. Init => checked \in BOOLEAN /\ mounted \in BOOLEAN
      BY DEF Init
    <3> QED
      BY <3>2, <3>3 DEF RunTyped, Trees
  <2>3. Init => DiskTyped
    <3>1. Init => NamedTyped /\ unwritten = {}
      BY DEF Init, NamedTyped, Trees
    <3>2. Init => saved = [p \in Package |-> Now(p)]
      BY DEF Init
    <3> QED
      BY <3>1, <3>2, MomentTyped, DiskParts DEF SavedTyped
  <2>4. Init => HistoryTyped
    <3>1. Init => trouble \in BOOLEAN /\ held \in BOOLEAN /\ launched \subseteq Recipe \X Bytes
      BY DEF Init
    <3>2. Init => litter \in Nat /\ fails \in [Package -> Nat]
      BY DEF Init
    <3> QED
      BY <3>1, <3>2 DEF HistoryTyped
  <2> QED
    BY <2>1, <2>2, <2>3, <2>4 DEF TypeOK
<1>2. TypeOK /\ [Next]_vars => TypeOK'
  BY StepsKeepControl, StepsKeepRun, StepsKeepDisk, StepsKeepHistory DEF TypeOK
<1> QED
  BY <1>1, <1>2, PTL DEF Spec

\* The type invariant: a step that uses the recipe, the payload or the staging
\* directory has one.
THEOREM TypeCorrect == Spec => []TypeOK
  BY TypesHold

-----------------------------------------------------------------------------
(* What is used was verified                                               *)

\* A directory made from what a recipe of the package pins, of the right
\* structure.
Genuine(p, t) ==
  \E r \in Recipe : /\ r.package = p /\ r.digest = t.bytes
                    /\ Inspected(t.bytes, r.format) /\ Opens(t.bytes, r)

\* The flag of DownloadedArtifact says what verification saw, and the payload
\* does not change between verification and use.
PayloadVerified ==
  pc \in {"stage", "backup", "commit", "launch", "attach", "package"} =>
    /\ got = recipe.digest /\ Inspected(got, recipe.format)
    /\ pc \in {"launch", "attach", "package"} => SignerOK(recipe, got)
    /\ pc \in {"backup", "commit"} =>
         staging = Staged /\ staging # None /\ Genuine(pkg, staging)

\* What is in place, what the disk has there, and what is kept to be put back,
\* is genuine.
TreesGenuine ==
  /\ \A p \in Package : place[p] # None => Genuine(p, place[p])
  /\ \A p \in Package : saved[p].place # None => Genuine(p, saved[p].place)
  /\ pc = "commit" /\ kept # None => Genuine(pkg, kept)

LaunchedVerified ==
  \A use \in launched :
    LET r == use[1]  b == use[2] IN
    /\ r.digest = b /\ Inspected(b, r.format) /\ InstallableOn(r.format, Build)
    /\ r.signer \notin {None} => b.signer = r.signer

LEMMA TornIsGenuine ==
  ASSUME NEW p \in Package, NEW t \in Tree, Genuine(p, t)
  PROVE  Genuine(p, [t EXCEPT !.whole = FALSE])
  BY TornTree DEF Genuine

LEMMA StagedIsGenuine ==
  ASSUME ControlTyped, RunTyped, pc = "stage", got = recipe.digest,
         Inspected(got, recipe.format), Opens(got, recipe)
  PROVE  Staged # None /\ Genuine(pkg, Staged)
<1>1. recipe \in Recipe /\ Staged # None
  BY Working, StagedIsTree DEF RunTyped
<1>2. Staged.bytes = got
  BY DEF Staged
<1> QED
  BY <1>1, <1>2 DEF Genuine, pkg

LEMMA PayloadStaysVerified ==
  ASSUME ControlTyped, RunTyped, PayloadVerified, [Next]_vars
  PROVE  PayloadVerified'
<1>1. CASE Verify
  BY <1>1 DEF Verify, Refuse, PayloadVerified
<1>2. CASE Stage
  <2>1. Opens(got, recipe) => Staged # None /\ Genuine(pkg, Staged)
    BY <1>2, StagedIsGenuine DEF Stage, PayloadVerified
  <2> QED
    BY <1>2, <2>1 DEF Stage, Refuse, Fault, PayloadVerified, Staged, Genuine, pkg
<1>3. CASE Backup \/ Attach
  BY <1>3 DEF Backup, Attach, Fault, PayloadVerified, Staged, Genuine, pkg
<1>4. CASE ClosePipes \/ WriteBack \/ UNCHANGED vars
  BY <1>4 DEF ClosePipes, WriteBack, vars, run, PayloadVerified, Staged, Genuine, pkg
<1>5. pc' \notin {"stage", "backup", "commit", "launch", "attach", "package"}
        \/ Verify \/ Stage \/ Backup \/ Attach \/ ClosePipes \/ WriteBack \/ UNCHANGED vars
  BY DEF Next, Answer, Act, Start, StartRemove, Redirect, Respond, FetchFails, Stream,
         Commit, DropBackup, RemoveOwned, Launch, InstallerExits, Deadline, Join, ClosePipes, Outcome,
         RunPackage, Detach, Finish, Kill, PowerLoss, Fault, Refuse
<1> QED
  BY <1>1, <1>2, <1>3, <1>4, <1>5 DEF PayloadVerified

\* Nothing is kept before the backup.
NothingKept == pc \in {"idle", "fetch", "stream", "verify", "stage", "backup"} => kept = None

LEMMA NothingIsKept ==
  ASSUME NothingKept, [Next]_vars
  PROVE  NothingKept'
<1>1. CASE pc' \notin {"idle", "fetch", "stream", "verify", "stage", "backup"}
  BY <1>1 DEF NothingKept
<1>2. CASE UNCHANGED kept /\ pc \in {"idle", "fetch", "stream", "verify", "stage", "backup"}
  BY <1>2 DEF NothingKept
<1>3. CASE kept' = None
  BY <1>3 DEF NothingKept
<1>4. CASE ClosePipes \/ WriteBack \/ UNCHANGED vars
  BY <1>4 DEF ClosePipes, WriteBack, vars, run, NothingKept
<1>5. \/ pc' \notin {"idle", "fetch", "stream", "verify", "stage", "backup"}
      \/ UNCHANGED kept /\ pc \in {"idle", "fetch", "stream", "verify", "stage", "backup"}
      \/ kept' = None
      \/ ClosePipes \/ WriteBack \/ UNCHANGED vars
  BY DEF Next, Act, Answer, Start, StartRemove, Redirect, Respond, FetchFails, Stream, Verify, Stage, Backup,
      Commit, DropBackup, RemoveOwned, Launch, InstallerExits, Deadline, Join, ClosePipes, Outcome,
         Attach, RunPackage, Detach, Finish, Kill, PowerLoss, WriteBack, Fault, Refuse
<1> QED
  BY <1>1, <1>2, <1>3, <1>4, <1>5

LEMMA TreesStayGenuine ==
  ASSUME ControlTyped, RunTyped, DiskTyped, PayloadVerified, NothingKept, TreesGenuine, [Next]_vars
  PROVE  TreesGenuine'
<1>0. /\ pc # "idle" => pkg \in Package
      /\ \A p \in Package : place[p] # None => place[p] \in Tree
      /\ place \in [Package -> Trees]
  BY Working DEF DiskTyped, Trees
<1> DEFINE Old == \A p \in Package : place[p] # None => Genuine(p, place[p])
           Disk == \A p \in Package : saved[p].place # None => Genuine(p, saved[p].place)
<1>01. Old /\ Disk
  BY DEF TreesGenuine, Disk
<1>02. Disk'
  <2>1. CASE UNCHANGED saved
    BY <1>01, <2>1
  <2>2. CASE WriteBack
    BY <1>01, <2>2 DEF WriteBack, Now
  <2>3. CASE PowerLoss
    <3>1. PICK torn \in SUBSET unwritten : place' = [p \in Package |-> Found(saved[p].place, torn)]
      BY <2>3 DEF PowerLoss
    <3>2. \A p \in Package : saved[p].place \in Trees
      BY DEF DiskTyped, Moment
    <3>3. \A p \in Package : saved'[p].place = place'[p]
      BY <2>3 DEF PowerLoss, Now
    <3> QED
      BY <1>01, <3>1, <3>2, <3>3, FoundTree DEF Genuine
  <2>4. UNCHANGED saved \/ WriteBack \/ PowerLoss
    BY DEF Next, Act, Answer, Start, StartRemove, Redirect, Respond, FetchFails, Stream, Verify, Stage, Backup,
           Commit, DropBackup, RemoveOwned, Launch, InstallerExits, Deadline, Join, ClosePipes, Outcome,
           Attach, RunPackage, Detach, Finish, Kill, vars
  <2> QED
    BY <2>1, <2>2, <2>3, <2>4
<1> HIDE DEF Disk
<1>1. CASE Backup
  <2>1. UNCHANGED pkg
    BY <1>1 DEF Backup, pkg
  <2>2. \A p \in Package : place'[p] # None => place'[p] = place[p]
    BY <1>0, <1>1 DEF Backup
  <2>3. pc' = "commit" => kept' = None \/ kept' = place[pkg]
    BY <1>1 DEF Backup, Fault, NothingKept
  <2>4. place[pkg] # None => Genuine(pkg, place[pkg])
    BY <1>0, <1>01, <1>1 DEF Backup
  <2> QED
    BY <1>01, <1>02, <2>1, <2>2, <2>3, <2>4 DEF TreesGenuine, Disk
<1>2. CASE Commit
  <2>1. staging # None => Genuine(pkg, staging)
    BY <1>2 DEF Commit, PayloadVerified
  <2>2. kept # None => Genuine(pkg, kept)
    BY <1>2 DEF Commit, TreesGenuine
  <2>3. pc' # "commit"
    BY <1>2 DEF Commit, Fault
  <2>4. place' \in {place, [place EXCEPT ![pkg] = staging], [place EXCEPT ![pkg] = kept]}
    BY <1>2 DEF Commit
  <2>5. \A p \in Package : place'[p] # None => Genuine(p, place'[p])
    BY <1>0, <1>01, <2>1, <2>2, <2>4
  <2> QED
    BY <1>02, <2>3, <2>5 DEF TreesGenuine, Disk
<1>3. CASE RemoveOwned
  <2>1. \A p \in Package : place'[p] # None => place'[p] = place[p] \/ place'[p] = [place[p] EXCEPT !.whole = FALSE]
    BY <1>0, <1>3 DEF RemoveOwned
  <2>2. \A p \in Package : place'[p] # None => Genuine(p, place'[p])
    BY <1>0, <1>01, <1>3, <2>1, TornIsGenuine DEF RemoveOwned
  <2>3. pc' # "commit"
    BY <1>3 DEF RemoveOwned, Fault
  <2> QED
    BY <1>02, <2>2, <2>3 DEF TreesGenuine, Disk
<1>4. CASE PowerLoss
  <2>1. \A p \in Package : saved'[p].place = place'[p]
    BY <1>4 DEF PowerLoss, Now
  <2>2. \A p \in Package : place'[p] # None => Genuine(p, place'[p])
    BY <1>02, <2>1 DEF Disk
  <2>3. pc' # "commit"
    BY <1>4 DEF PowerLoss
  <2> QED
    BY <1>02, <2>2, <2>3 DEF TreesGenuine, Disk
<1>5. CASE UNCHANGED place /\ pc' # "commit"
  BY <1>01, <1>02, <1>5 DEF TreesGenuine, Disk
<1>6. CASE ClosePipes \/ WriteBack \/ UNCHANGED vars
  BY <1>01, <1>02, <1>6 DEF ClosePipes, WriteBack, vars, run, TreesGenuine, Disk, Genuine, pkg
<1>7. Backup \/ Commit \/ RemoveOwned \/ PowerLoss \/ (UNCHANGED place /\ pc' # "commit")
        \/ ClosePipes \/ WriteBack \/ UNCHANGED vars
  BY DEF Next, Act, Answer, Start, StartRemove, Redirect, Respond, FetchFails, Stream, Verify, Stage,
         DropBackup, Launch, InstallerExits, Deadline, Join, ClosePipes, Outcome,
         Attach, RunPackage, Detach, Finish, Kill, disk, Fault, Refuse
<1> QED
  BY <1>1, <1>2, <1>3, <1>4, <1>5, <1>6, <1>7

LEMMA LaunchesStayVerified ==
  ASSUME PayloadVerified, LaunchedVerified, [Next]_vars
  PROVE  LaunchedVerified'
<1>1. CASE Launch \/ RunPackage
  <2>1. /\ recipe.digest = got /\ Inspected(got, recipe.format) /\ InstallableOn(recipe.format, Build)
        /\ recipe.signer \notin {None} => got.signer = recipe.signer
    BY <1>1 DEF Launch, InstallerExits, Deadline, Join, ClosePipes, Outcome,
         RunPackage, PayloadVerified, SignerOK
  <2>2. launched' \subseteq launched \union {<<recipe, got>>}
    BY <1>1 DEF Launch, InstallerExits, Deadline, Join, ClosePipes, Outcome,
         RunPackage
  <2> QED
    BY <2>1, <2>2 DEF LaunchedVerified
<1>2. CASE UNCHANGED launched
  BY <1>2 DEF LaunchedVerified
<1>3. Launch \/ RunPackage \/ UNCHANGED launched
  BY DEF Next, Act, Answer, Start, StartRemove, Redirect, Respond, FetchFails, Stream, Verify, Stage, Backup,
         Commit, DropBackup, RemoveOwned, InstallerExits, Deadline, Join, ClosePipes, Attach, Detach, Finish,
         Kill, PowerLoss, WriteBack, vars
<1> QED
  BY <1>1, <1>2, <1>3

Verified == PayloadVerified /\ NothingKept /\ TreesGenuine /\ LaunchedVerified

LEMMA VerifiedHolds == Spec => [](TypeOK /\ Verified)
<1>1. Init => Verified
  BY DEF Init, Verified, PayloadVerified, NothingKept, TreesGenuine, LaunchedVerified, Now
<1>2. TypeOK /\ Verified /\ [Next]_vars => Verified'
  BY PayloadStaysVerified, NothingIsKept, TreesStayGenuine, LaunchesStayVerified DEF TypeOK, Verified
<1> QED
  BY <1>1, <1>2, TypesHold, PTL DEF Spec

\* Nothing is put in place and no installer is run but on the bytes that a
\* recipe pins, of the structure of its format and signed by whom it names:
\* DownloadedArtifact.verified means it at every use.
THEOREM UsedIsVerified == Spec => []OnlyVerifiedIsUsed
<1>1. Verified => OnlyVerifiedIsUsed
  BY DEF Verified, TreesGenuine, LaunchedVerified, Genuine, OnlyVerifiedIsUsed
<1> QED
  BY <1>1, VerifiedHolds, PTL

-----------------------------------------------------------------------------
(* What is left behind                                                     *)

\* The image is attached, and will be detached.
Attached ==
  \/ pc \in {"package", "detach", "giveup"}
  \/ pc \in {"installing", "installed", "stopped"} /\ recipe.format = "dmg"

\* Every directory and image that stays is from a failing call or a crash,
\* but for an image that is about to be detached.
Explained ==
  /\ litter > 0 => trouble = TRUE
  /\ mounted = TRUE => trouble = TRUE \/ Attached
  /\ pc \in {"attach", "package"} => recipe.format = "dmg"

LEMMA StaysExplained ==
  ASSUME HistoryTyped, Explained, [Next]_vars
  PROVE  Explained'
<1>1. litter' > 0 => trouble' = TRUE
  <2>1. (litter' = litter /\ trouble' = trouble) \/ trouble' = TRUE
    BY DEF Next, Act, Answer, Start, StartRemove, Redirect, Respond, FetchFails, Stream, Verify, Stage, Backup,
      Commit, DropBackup, RemoveOwned, Launch, InstallerExits, Deadline, Join, ClosePipes,
      Attach, RunPackage, Detach, Finish, Kill, PowerLoss, WriteBack, Fault, Refuse, vars
  <2> QED
    BY <2>1 DEF Explained
<1>2. /\ mounted' = TRUE => trouble' = TRUE \/ Attached'
      /\ pc' \in {"attach", "package"} => recipe'.format = "dmg"
  <2>1. CASE Verify \/ Attach
    BY <2>1 DEF Verify, Attach, Fault, Refuse, Explained, Attached
  <2>2. CASE RunPackage \/ Detach
    BY <2>2 DEF RunPackage, Detach, Outcome, Refuse, run, Explained, Attached
  <2>3. CASE InstallerExits \/ Deadline \/ Join \/ ClosePipes \/ WriteBack \/ UNCHANGED vars
    BY <2>3 DEF WriteBack, InstallerExits, Deadline, Join, ClosePipes, Outcome, vars, run, Explained, Attached
  <2>4. CASE trouble' = TRUE /\ pc' \notin {"attach", "package"}
    BY <2>4
  <2>5. CASE UNCHANGED <<mounted, trouble>> /\ ~Attached /\ pc' \notin {"attach", "package"}
    BY <2>5 DEF Explained
  <2>6. \/ Verify \/ Attach \/ RunPackage \/ Detach
        \/ InstallerExits \/ Deadline \/ Join \/ ClosePipes \/ WriteBack \/ UNCHANGED vars
        \/ trouble' = TRUE /\ pc' \notin {"attach", "package"}
        \/ UNCHANGED <<mounted, trouble>> /\ ~Attached /\ pc' \notin {"attach", "package"}
    BY DEF Next, Act, Answer, Start, StartRemove, Redirect, Respond, FetchFails, Stream, Stage, Backup,
      Commit, DropBackup, RemoveOwned, Launch, Finish, Kill, PowerLoss, Outcome, Fault, Refuse, run, Attached
  <2> QED
    BY <2>1, <2>2, <2>3, <2>4, <2>5, <2>6
<1> QED
  BY <1>1, <1>2 DEF Explained

\* Refused downloads, failed installers and repeated runs leave nothing
\* behind: only a failing call or a crash does.
THEOREM NothingIsLeftBehind == Spec => []NothingLeftBehind
<1>1. Init => Explained
  BY DEF Init, Explained
<1>2. TypeOK /\ Explained /\ [Next]_vars => Explained'
  BY StaysExplained DEF TypeOK
<1>3. TypeOK /\ Explained => NothingLeftBehind
  BY DEF TypeOK, RunTyped, HistoryTyped, Explained, Attached, NothingLeftBehind
<1> QED
  BY <1>1, <1>2, <1>3, TypesHold, PTL DEF Spec

-----------------------------------------------------------------------------
(* What was installed survives                                             *)

\* The tree that was put in place last is there or kept; with at most one
\* failed call since it is where it was put, but between the two renames of a
\* later installation; and once it is in place nothing needs the backup.
Present(p) ==
  due[p] # None =>
    /\ \E t \in backups[p] \union {place[p]} : t # None /\ t.run = due[p].run
    /\ fails[p] <= 1 => IF pc = "commit" /\ p = pkg THEN kept = due[p] ELSE place[p] = due[p]
    /\ pc = "drop" /\ p = pkg => place[p] = due[p]

\* Between the two renames the name is free, and the backup is recorded.
BetweenRenames ==
  pc = "commit" => place[pkg] = None /\ (kept # None => kept \in backups[pkg])

\* The disk has it too, as of the moment the names were written back.
SavedPresent(p) ==
  saved[p].due # None =>
    \E t \in saved[p].backups \union {saved[p].place} : t # None /\ t.run = saved[p].due.run

SurvivalInv ==
  /\ BetweenRenames
  /\ \A p \in Package : Present(p)

SavedInv == \A p \in Package : SavedPresent(p)

LEMMA Numbers ==
  ASSUME TypeOK, [Next]_vars, NEW p \in Package
  PROVE  fails[p] \in Nat /\ fails'[p] \in Nat
<1>1. HistoryTyped /\ HistoryTyped'
  BY StepsKeepHistory DEF TypeOK
<1> QED
  BY <1>1 DEF HistoryTyped

LEMMA QuietSteps ==
  ASSUME SurvivalInv, TypeOK, [Next]_vars, UNCHANGED named, pc' \notin {"commit", "drop"},
         pc \notin {"commit", "drop"} \/ Kill,
         \A p \in Package : fails'[p] >= fails[p] \/ fails'[p] > 1
  PROVE  SurvivalInv'
<1> SUFFICES ASSUME NEW p \in Package
             PROVE  Present(p)'
  BY DEF SurvivalInv, BetweenRenames
<1>0. Present(p)
  BY DEF SurvivalInv
<1>1. UNCHANGED <<place, backups, due>>
  BY DEF disk
<1>2. fails'[p] <= 1 => fails[p] <= 1
  BY Numbers
<1>3. fails'[p] <= 1 => ~(pc = "commit" /\ p = pkg)
  <2>1. CASE Kill /\ p = pkg
    <3>1. fails'[p] = fails[p] + 2
      BY <2>1, Working DEF Kill, TypeOK, HistoryTyped
    <3> QED
      BY <3>1, Numbers
  <2> QED
    BY <2>1
<1> QED
  BY <1>0, <1>1, <1>2, <1>3 DEF Present

LEMMA OtherPackages ==
  ASSUME SurvivalInv, NEW p \in Package, p # pkg, UNCHANGED recipe,
         place'[p] = place[p], backups'[p] = backups[p], due'[p] = due[p], fails'[p] = fails[p]
  PROVE  Present(p)'
<1>1. Present(p) /\ UNCHANGED pkg
  BY DEF SurvivalInv, pkg
<1> QED
  BY <1>1 DEF Present

LEMMA BackupKeeps ==
  ASSUME TypeOK, [Next]_vars, NothingKept, SurvivalInv, Backup, pc' = "commit"
  PROVE  SurvivalInv'
<1>0. /\ pkg \in Package /\ UNCHANGED <<pkg, due, fails>> /\ kept = None /\ pc = "backup"
      /\ place \in [Package -> Trees] /\ backups \in [Package -> SUBSET Tree]
  BY Working DEF Backup, TypeOK, DiskTyped, NothingKept, pkg, Fault
<1>1. Present(pkg)
  BY <1>0 DEF SurvivalInv
<1>2. /\ kept' = place[pkg] /\ place'[pkg] = None
      /\ backups'[pkg] = IF place[pkg] = None THEN backups[pkg] ELSE backups[pkg] \union {place[pkg]}
      /\ \A p \in Package : p # pkg => place'[p] = place[p] /\ backups'[p] = backups[p]
  BY <1>0 DEF Backup, Fault
<1>3. Present(pkg)'
  <2> SUFFICES ASSUME due[pkg] # None
               PROVE  /\ \E t \in backups'[pkg] \union {place'[pkg]} : t # None /\ t.run = due[pkg].run
                      /\ fails[pkg] <= 1 => kept' = due[pkg]
    BY <1>0 DEF Present
  <2>1. PICK t \in backups[pkg] \union {place[pkg]} : t # None /\ t.run = due[pkg].run
    BY <1>1 DEF Present
  <2>2. t \in backups'[pkg] \union {place'[pkg]}
    BY <1>2, <2>1
  <2> QED
    BY <1>0, <1>1, <1>2, <2>1, <2>2 DEF Present
<1>5. BetweenRenames'
  BY <1>0, <1>2 DEF BetweenRenames
<1>6. \A p \in Package : p # pkg => Present(p)'
  BY <1>0, <1>2, OtherPackages DEF Backup
<1> QED
  BY <1>0, <1>3, <1>5, <1>6 DEF SurvivalInv

LEMMA CommitKeeps ==
  ASSUME TypeOK, [Next]_vars, PayloadVerified, SurvivalInv, Commit
  PROVE  SurvivalInv'
<1>0. /\ pkg \in Package /\ UNCHANGED pkg /\ pc = "commit"
      /\ place \in [Package -> Trees] /\ backups \in [Package -> SUBSET Tree] /\ due \in [Package -> Trees]
      /\ fails \in [Package -> Nat]
  BY Working DEF Commit, TypeOK, DiskTyped, HistoryTyped, pkg, run
<1>1. Present(pkg) /\ place[pkg] = None /\ (kept # None => kept \in backups[pkg])
  BY <1>0 DEF SurvivalInv, BetweenRenames
<1>2. \A p \in Package : p # pkg =>
        place'[p] = place[p] /\ backups'[p] = backups[p] /\ due'[p] = due[p] /\ fails'[p] = fails[p]
  BY <1>0 DEF Commit, Fault
<1>3. \A p \in Package : p # pkg => Present(p)'
  BY <1>2, OtherPackages DEF Commit, run
<1>4. pc' # "commit"
  BY DEF Commit, Fault
<1>5. CASE pc' = "drop"
  <2>1. place'[pkg] = staging /\ due'[pkg] = staging
    BY <1>0, <1>5 DEF Commit, Fault
  <2>2. staging # None
    BY <1>0 DEF PayloadVerified, Staged
  <2>3. Present(pkg)'
    BY <1>0, <1>4, <2>1, <2>2 DEF Present
  <2> QED
    BY <1>0, <1>3, <1>4, <2>3 DEF SurvivalInv, BetweenRenames
<1>6. CASE /\ pc' = "failed" /\ place'[pkg] = kept /\ UNCHANGED due
           /\ backups'[pkg] = backups[pkg] \ {kept} /\ fails'[pkg] = fails[pkg] + 1
  <2>1. fails'[pkg] <= 1 => fails[pkg] <= 1
    BY <1>0, <1>6
  <2>2. Present(pkg)'
    <3> SUFFICES ASSUME due[pkg] # None
                 PROVE  /\ \E t \in backups'[pkg] \union {place'[pkg]} : t # None /\ t.run = due[pkg].run
                        /\ fails'[pkg] <= 1 => place'[pkg] = due[pkg]
      BY <1>0, <1>6 DEF Present
    <3>1. PICK t \in backups[pkg] \union {place[pkg]} : t # None /\ t.run = due[pkg].run
      BY <1>1 DEF Present
    <3>2. t \in backups'[pkg] \union {place'[pkg]}
      BY <1>1, <1>6, <3>1
    <3>3. fails'[pkg] <= 1 => kept = due[pkg]
      BY <1>0, <1>1, <2>1 DEF Present
    <3> QED
      BY <1>6, <3>1, <3>2, <3>3
  <2> QED
    BY <1>0, <1>3, <1>4, <2>2 DEF SurvivalInv, BetweenRenames
<1>7. CASE pc' = "failed" /\ UNCHANGED <<place, backups, due>> /\ fails'[pkg] = fails[pkg] + 2
  <2>1. fails'[pkg] > 1
    BY <1>0, <1>7
  <2>2. Present(pkg)'
    BY <1>0, <1>1, <1>7, <2>1 DEF Present
  <2> QED
    BY <1>0, <1>3, <1>4, <2>2 DEF SurvivalInv, BetweenRenames
<1>8. \/ pc' = "drop"
      \/ /\ pc' = "failed" /\ place'[pkg] = kept /\ UNCHANGED due
         /\ backups'[pkg] = backups[pkg] \ {kept} /\ fails'[pkg] = fails[pkg] + 1
      \/ pc' = "failed" /\ UNCHANGED <<place, backups, due>> /\ fails'[pkg] = fails[pkg] + 2
  BY <1>0 DEF Commit, Fault
<1> QED
  BY <1>5, <1>6, <1>7, <1>8

LEMMA DropKeeps ==
  ASSUME TypeOK, [Next]_vars, SurvivalInv, DropBackup
  PROVE  SurvivalInv'
<1>0. /\ pkg \in Package /\ UNCHANGED <<pkg, recipe, place, due, fails>> /\ pc = "drop" /\ pc' = "done"
      /\ backups \in [Package -> SUBSET Tree]
  BY Working DEF DropBackup, TypeOK, DiskTyped, pkg, run
<1>1. \A p \in Package : p # pkg => backups'[p] = backups[p]
  BY <1>0 DEF DropBackup
<1>2. Present(pkg)'
  <2>1. Present(pkg)
    BY <1>0 DEF SurvivalInv
  <2> QED
    BY <1>0, <2>1 DEF Present
<1>3. \A p \in Package : p # pkg => Present(p)'
  BY <1>0, <1>1, OtherPackages
<1> QED
  BY <1>0, <1>2, <1>3 DEF SurvivalInv, BetweenRenames

LEMMA RemovalKeeps ==
  ASSUME TypeOK, [Next]_vars, SurvivalInv, RemoveOwned
  PROVE  SurvivalInv'
<1>0. /\ pkg \in Package /\ UNCHANGED <<pkg, recipe, backups>> /\ pc = "remove" /\ pc' \in {"done", "failed"}
      /\ place \in [Package -> Trees] /\ due \in [Package -> Trees] /\ fails \in [Package -> Nat]
  BY Working DEF RemoveOwned, Fault, TypeOK, DiskTyped, HistoryTyped, pkg, run
<1>1. due'[pkg] = None
  BY <1>0 DEF RemoveOwned
<1>2. \A p \in Package : p # pkg => place'[p] = place[p] /\ due'[p] = due[p] /\ fails'[p] = fails[p]
  BY <1>0 DEF RemoveOwned, Fault
<1>3. \A p \in Package : p # pkg => Present(p)'
  BY <1>0, <1>2, OtherPackages
<1>4. Present(pkg)'
  BY <1>0, <1>1 DEF Present
<1> QED
  BY <1>0, <1>3, <1>4 DEF SurvivalInv, BetweenRenames

\* What a power loss brings back is what the disk has, torn or not.
LEMMA PowerLossKeeps ==
  ASSUME TypeOK, [Next]_vars, SavedInv, PowerLoss
  PROVE  SurvivalInv' /\ SavedInv'
<1>1. PICK torn \in SUBSET unwritten :
        /\ place' = [p \in Package |-> Found(saved[p].place, torn)]
        /\ backups' = [p \in Package |-> {Found(t, torn) : t \in saved[p].backups}]
  BY DEF PowerLoss
<1>2. /\ due' = [p \in Package |-> saved[p].due] /\ pc' = "idle"
      /\ saved' = [p \in Package |-> Now(p)']
  BY DEF PowerLoss
<1>3. ASSUME NEW p \in Package, due'[p] # None
      PROVE  \E t \in backups'[p] \union {place'[p]} : t # None /\ t.run = due'[p].run
  <2>1. PICK t \in saved[p].backups \union {saved[p].place} : t # None /\ t.run = saved[p].due.run
    BY <1>2, <1>3 DEF SavedInv, SavedPresent
  <2>2. t \in Trees
    BY <2>1 DEF TypeOK, DiskTyped, Moment, Trees
  <2>3. Found(t, torn) \in backups'[p] \union {place'[p]}
    BY <1>1, <2>1
  <2>4. Found(t, torn) # None /\ Found(t, torn).run = due'[p].run
    BY <1>2, <2>1, <2>2, FoundTree
  <2> QED
    BY <2>3, <2>4
<1>4. \A p \in Package : ~(fails'[p] <= 1)
  <2> SUFFICES ASSUME NEW p \in Package PROVE ~(fails'[p] <= 1)
    OBVIOUS
  <2>1. fails'[p] = fails[p] + 2
    BY DEF PowerLoss
  <2> QED
    BY <2>1, Numbers
<1>5. SurvivalInv'
  BY <1>2, <1>3, <1>4 DEF SurvivalInv, BetweenRenames, Present
<1>6. SavedInv'
  BY <1>2, <1>3 DEF SavedInv, SavedPresent, Now
<1> QED
  BY <1>5, <1>6

LEMMA MomentFields ==
  ASSUME NEW a, NEW b, NEW c, NEW m, m = [place |-> a, backups |-> b, due |-> c]
  PROVE  m.place = a /\ m.backups = b /\ m.due = c
OBVIOUS

LEMMA StepsKeepSaved ==
  ASSUME TypeOK, [Next]_vars, SurvivalInv, SavedInv
  PROVE  SavedInv'
<1>1. CASE UNCHANGED saved
  BY <1>1 DEF SavedInv, SavedPresent
<1>2. CASE WriteBack
  <2>1. \A p \in Package : saved'[p] = [place |-> place[p], backups |-> backups[p], due |-> due[p]]
    BY <1>2 DEF WriteBack, Now
  <2>2. \A p \in Package : due[p] # None =>
          \E t \in backups[p] \union {place[p]} : t # None /\ t.run = due[p].run
    BY DEF SurvivalInv, Present
  <2>3. ASSUME NEW p \in Package, saved'[p].due # None
        PROVE  \E t \in saved'[p].backups \union {saved'[p].place} : t # None /\ t.run = saved'[p].due.run
    <3>0. saved'[p] = [place |-> place[p], backups |-> backups[p], due |-> due[p]]
      BY <2>1
    <3>1. /\ saved'[p].place = place[p] /\ saved'[p].backups = backups[p]
          /\ saved'[p].due = due[p]
      BY <3>0, MomentFields
    <3> QED
      BY <2>2, <2>3, <3>1
  <2> QED
    BY <2>3 DEF SavedInv, SavedPresent
<1>3. UNCHANGED saved \/ WriteBack \/ PowerLoss
  BY DEF Next, Act, Answer, Start, StartRemove, Redirect, Respond, FetchFails, Stream, Verify, Stage, Backup,
         Commit, DropBackup, RemoveOwned, Launch, InstallerExits, Deadline, Join, ClosePipes, Outcome,
         Attach, RunPackage, Detach, Finish, Kill, vars
<1> QED
  BY <1>1, <1>2, <1>3, PowerLossKeeps

LEMMA StepsKeepInstalled ==
  ASSUME TypeOK, [Next]_vars, Verified, SurvivalInv, SavedInv
  PROVE  SurvivalInv'
<1>1. CASE Backup /\ pc' = "commit"
  BY <1>1, BackupKeeps DEF Verified
<1>2. CASE Commit \/ DropBackup \/ RemoveOwned
  BY <1>2, CommitKeeps, DropKeeps, RemovalKeeps DEF Verified
<1>3. CASE PowerLoss
  BY <1>3, PowerLossKeeps
<1>4. CASE ClosePipes \/ WriteBack \/ UNCHANGED vars
  BY <1>4 DEF ClosePipes, WriteBack, vars, run, SurvivalInv, BetweenRenames, Present, pkg
<1>5. CASE /\ UNCHANGED named /\ pc' \notin {"commit", "drop"} /\ (pc \notin {"commit", "drop"} \/ Kill)
           /\ \/ UNCHANGED fails
              \/ pc # "idle" /\ fails' = [fails EXCEPT ![pkg] = @ + 1]
              \/ pc # "idle" /\ fails' = [fails EXCEPT ![pkg] = @ + 2]
  <2>1. \A p \in Package : fails'[p] >= fails[p]
    BY <1>5, Working DEF TypeOK, HistoryTyped
  <2> QED
    BY <1>5, <2>1, QuietSteps
<1>6. \/ Backup /\ pc' = "commit"
      \/ Commit \/ DropBackup \/ RemoveOwned \/ PowerLoss \/ ClosePipes \/ WriteBack \/ UNCHANGED vars
      \/ /\ UNCHANGED named /\ pc' \notin {"commit", "drop"} /\ (pc \notin {"commit", "drop"} \/ Kill)
         /\ \/ UNCHANGED fails
            \/ pc # "idle" /\ fails' = [fails EXCEPT ![pkg] = @ + 1]
            \/ pc # "idle" /\ fails' = [fails EXCEPT ![pkg] = @ + 2]
  <2>1. CASE Answer \/ Stream \/ Verify \/ Stage
    BY <2>1 DEF Answer, Redirect, Respond, FetchFails, Stream, Verify, Stage, Fault, Refuse
  <2>2. CASE \/ Launch \/ InstallerExits \/ Deadline \/ Join
             \/ Attach \/ RunPackage \/ Detach \/ Finish
    BY <2>2 DEF Launch, InstallerExits, Deadline, Join, Outcome,
         Attach, RunPackage, Detach, Finish, Fault, Refuse
  <2>3. CASE Kill \/ (\E r \in Recipe : Start(r) \/ StartRemove(r))
    BY <2>3 DEF Kill, Start, StartRemove
  <2>4. CASE Backup
    BY <2>4 DEF Backup, Fault, disk
  <2> QED
    BY <2>1, <2>2, <2>3, <2>4 DEF Next, Act
<1> QED
  BY <1>1, <1>2, <1>3, <1>4, <1>5, <1>6

\* What was installed and not removed is in place or kept at every moment and
\* after the death of the process at any of them, and in place again after one
\* failing call: commit_owned_staging's renames and its undoing.  After a power
\* loss the same holds of what the kernel had written back: no rename is synced,
\* and those since then are undone.
THEOREM InstalledIsKept == Spec => []InstalledSurvives
<1>1. Init => SurvivalInv /\ SavedInv
  BY DEF Init, SurvivalInv, SavedInv, SavedPresent, BetweenRenames, Present, Now
<1>2. TypeOK /\ Verified /\ SurvivalInv /\ SavedInv /\ [Next]_vars => (SurvivalInv /\ SavedInv)'
  BY StepsKeepInstalled, StepsKeepSaved
<1>3. SurvivalInv => InstalledSurvives
  BY DEF SurvivalInv, Present, InstalledSurvives
<1> QED
  BY <1>1, <1>2, <1>3, VerifiedHolds, PTL DEF Spec

-----------------------------------------------------------------------------
(* Why executions end: what TLC checks as RunEnds rests on this and on      *)
(* fairness.                                                                *)

\* The most steps that an execution has left, when its server redirects no more.
StepsFrom(there) ==
  CASE there \in {"done", "failed"} -> 1
    [] there \in {"drop", "remove", "detach", "giveup"} -> 2
    [] there \in {"commit", "installed", "stopped"} -> 3
    [] there \in {"backup", "installing"} -> 4
    [] there \in {"stage", "launch", "package"} -> 5
    [] there = "attach" -> 6
    [] there = "verify" -> 7
    [] there = "stream" -> 8
    [] there = "fetch" -> 9
    [] OTHER -> 0
Remaining == StepsFrom(pc) + (IF pc = "fetch" THEN MaxRedirects + 1 - Len(hops) ELSE 0)

\* A download that is under way has asked one server, and one for each redirect.
HopsAreCounted == pc = "fetch" => Len(hops) \in 1..(MaxRedirects + 1)

Advances == /\ pc # "idle" => Remaining' <= Remaining
            /\ Answer \/ Act \/ InstallerExits => Remaining' < Remaining

LEMMA AnswersAdvance ==
  ASSUME RunTyped, HopsAreCounted, Answer
  PROVE  HopsAreCounted' /\ Remaining' < Remaining
<1>0. MaxRedirects \in Nat
  BY ArtifactsAssumption
<1> USE <1>0 DEF HopsAreCounted, Remaining, StepsFrom, To, Refuse
<1>1. ASSUME NEW h \in HostName, Redirect(h)
      PROVE  HopsAreCounted' /\ Remaining' < Remaining
  <2>1. CASE Refuse
    BY <1>1, <2>1 DEF Redirect
  <2>2. CASE ~(Len(hops) > MaxRedirects) /\ hops' = Append(hops, h) /\ pc' = "fetch"
    <3>1. pc = "fetch" /\ Len(hops) \in Nat /\ Len(hops') = Len(hops) + 1
      BY <1>1, <2>2 DEF Redirect, RunTyped
    <3> QED
      BY <2>2, <3>1
  <2> QED
    BY <1>1, <2>1, <2>2 DEF Redirect
<1>2. ASSUME NEW b \in Bytes, Respond(b)
      PROVE  HopsAreCounted' /\ Remaining' < Remaining
  BY <1>2 DEF Respond
<1>3. CASE FetchFails
  BY <1>3 DEF FetchFails, Fault
<1> QED
  BY <1>1, <1>2, <1>3 DEF Answer

LEMMA ActsAdvance ==
  ASSUME Act \/ InstallerExits
  PROVE  HopsAreCounted' /\ Remaining' < Remaining
<1> USE DEF HopsAreCounted, Remaining, StepsFrom, To, Refuse, Fault
<1>1. CASE Stream \/ Verify
  BY <1>1 DEF Stream, Verify
<1>2. CASE Stage \/ Backup
  BY <1>2 DEF Stage, Backup
<1>3. CASE Commit \/ DropBackup \/ RemoveOwned
  BY <1>3 DEF Commit, DropBackup, RemoveOwned
<1>4. CASE Launch \/ RunPackage
  BY <1>4 DEF Launch, RunPackage, Spawn, Outcome
<1>5. CASE InstallerExits \/ Deadline \/ Join
  BY <1>5 DEF InstallerExits, Deadline, Join, Outcome
<1>6. CASE Attach \/ Finish
  <2>1. Attach => pc = "attach" /\ pc' \in {"package", "failed"}
    BY Zenon DEF Attach
  <2>2. Finish => pc \in {"done", "failed"} /\ pc' = "idle"
    BY Zenon DEF Finish
  <2> QED
    BY <1>6, <2>1, <2>2
<1>7. CASE Detach
  <2>1. pc \in {"detach", "giveup"} /\ pc' \in {"done", "failed"}
    BY <1>7 DEF Detach
  <2> QED
    BY <2>1
<1> QED
  BY <1>1, <1>2, <1>3, <1>4, <1>5, <1>6, <1>7 DEF Act

LEMMA StepsAdvance ==
  ASSUME RunTyped, HopsAreCounted, [Next]_vars
  PROVE  HopsAreCounted' /\ Advances
<1>0. MaxRedirects \in Nat
  BY ArtifactsAssumption
<1>1. Remaining \in Nat
  BY <1>0 DEF Remaining, StepsFrom, HopsAreCounted
<1>2. CASE Answer \/ Act \/ InstallerExits
  <2>1. HopsAreCounted' /\ Remaining' < Remaining
    BY <1>2, AnswersAdvance, ActsAdvance
  <2>2. Remaining' \in Nat
    BY <1>0, <2>1 DEF Remaining, StepsFrom, HopsAreCounted
  <2> QED
    BY <1>1, <2>1, <2>2 DEF Advances
<1>3. CASE ~(Answer \/ Act \/ InstallerExits)
  <2>1. ASSUME NEW r \in Recipe, Start(r) \/ StartRemove(r)
        PROVE  HopsAreCounted' /\ Advances
    <3>1. pc = "idle" /\ (pc' = "remove" \/ Len(hops') = 1)
      BY <2>1 DEF Start, StartRemove, To
    <3>2. 1 \in 1..(MaxRedirects + 1)
      BY <1>0
    <3>3. HopsAreCounted'
      BY <3>1, <3>2, Zenon DEF HopsAreCounted
    <3> QED
      BY <1>3, <3>1, <3>3, Zenon DEF Advances
  <2>2. CASE ClosePipes \/ WriteBack \/ UNCHANGED vars
    <3>1. pc' = pc /\ hops' = hops
      BY <2>2 DEF ClosePipes, WriteBack, vars, run
    <3> QED
      BY <1>1, <1>3, <3>1 DEF HopsAreCounted, Advances, Remaining
  <2>3. CASE Kill \/ PowerLoss
    <3>1. pc' = "idle"
      BY <2>3 DEF Kill, PowerLoss, To
    <3>2. HopsAreCounted' /\ Remaining' = 0
      BY <3>1 DEF HopsAreCounted, Remaining, StepsFrom
    <3> QED
      BY <1>1, <1>3, <3>2 DEF Advances
  <2> QED
    BY <1>3, <2>1, <2>2, <2>3 DEF Next
<1> QED
  BY <1>2, <1>3

\* An execution of an artifact step never comes back to where it was: a server is asked
\* at most MaxRedirects + 1 times, and every answer, call or end of an installer brings
\* the execution nearer to its end, which nothing else takes further away.
THEOREM ExecutionsComeToAnEnd == Spec => []HopsAreCounted /\ [][Advances]_vars
<1>1. Init => HopsAreCounted
  BY DEF Init, HopsAreCounted
<1>2. TypeOK /\ HopsAreCounted /\ [Next]_vars => HopsAreCounted' /\ [Advances]_vars
  BY StepsAdvance DEF TypeOK
<1> QED
  BY <1>1, <1>2, TypesHold, PTL DEF Spec

=============================================================================
