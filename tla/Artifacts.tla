----------------------------- MODULE Artifacts -----------------------------
(***************************************************************************)
(* The artifact steps of the executor (siorb-executor): download over      *)
(* redirects, verification, the extraction or copy into a staging          *)
(* directory, the renames that put it in place, native installers, disk    *)
(* images, removal and clean-up.  The server may send anything, every      *)
(* system call may fail, the process may be killed and the machine lose    *)
(* power.                                                                  *)
(***************************************************************************)
EXTENDS ArtifactFormats, ArchiveEntries

CONSTANTS
  Package,
  Recipe,        \* the catalog's recipes, see RecipeType
  Bytes,         \* what servers may send, see BytesType
  HostName,      \* servers
  Build,         \* "windows", "macos" or "linux"
  None,          \* model value
  Limits,        \* ArchiveLimits: entries, total, single, ratio
  MaxSize,       \* the largest download a recipe may allow
  MaxRedirects,  \* redirects that are followed, five in the code
  MaxRuns, MaxFails, MaxKills   \* bounds

\* size: its length; entries: of an archive; sound: whether another format has
\* the structure that its inspection looks for.
BytesType == [format : Format, size : Nat, type : STRING, signer : STRING,
              sound : BOOLEAN, entries : Seq(Entry)]
\* typed: whether the kind, archive format, payload path, install arguments and
\* redirect hosts are such as the format wants.
RecipeType == [package : Package, format : Format, type : STRING, digest : Bytes, max : Nat, strip : Nat,
               typed : BOOLEAN, signer : STRING \union {None}, host : HostName, redirects : SUBSET HostName]

\* A directory of owned files: what it was made from, in which run, and whether
\* all of it is there.
Tree  == [bytes : Bytes, run : 1..MaxRuns, whole : BOOLEAN]
Trees == Tree \union {None}

ASSUME ArtifactsAssumption ==
  /\ Bytes \subseteq BytesType /\ Recipe \subseteq RecipeType
  /\ Build \in {"windows", "macos", "linux"}
  /\ MaxRedirects \in Nat /\ MaxRuns \in Nat /\ MaxFails \in Nat /\ MaxKills \in Nat
  /\ None \notin Bytes /\ None \notin Tree

VARIABLES
  pc,        \* the next step of the execution
  recipe,    \* the recipe it carries out
  hops,      \* the servers asked so far by a download, in order
  got,       \* the payload in the download directory
  checked,   \* DownloadedArtifact.verified
  staging,   \* the staging directory
  kept,      \* the backup this run made
  mounted,   \* a disk image is attached
  held,      \* what the installer started, or it after its kill, has its output open
  place,     \* the owned directory of each package
  backups,   \* backup directories of each package
  litter,    \* directories that nobody will ever remove
  saved,     \* what the disk has of place and backups, and due as of then
  unwritten, \* the runs whose trees the disk may not have in full
  runs, kills,
  due,       \* history: the tree last put in place and not removed since
  fails,     \* history: calls that failed since then, a crash counts twice
  trouble,   \* history: a call failed or the process died
  launched   \* history: what native installers were run on

run  == <<recipe, hops, got, checked, staging, kept, mounted>>
named == <<place, backups, due>>
disk == <<named, saved, unwritten>>
vars == <<pc, run, disk, litter, runs, kills, fails, trouble, launched, held>>

-----------------------------------------------------------------------------
pkg == recipe.package
To(step) == pc' = step

\* A failing call: the step ends the execution (execute's error path).
Fault ==
  /\ fails[pkg] < MaxFails
  /\ fails' = [fails EXCEPT ![pkg] = @ + 1] /\ trouble' = TRUE
  /\ To("failed")
NoFault == UNCHANGED <<fails, trouble>>
Refuse == To("failed") /\ NoFault

Start(r) ==
  /\ pc = "idle" /\ runs < MaxRuns
  /\ runs' = runs + 1 /\ recipe' = r
  /\ hops' = <<r.host>>
  /\ To("fetch")
  /\ UNCHANGED <<got, checked, staging, kept, mounted, disk, litter, kills, fails, trouble, launched, held>>

StartRemove(r) ==
  /\ pc = "idle" /\ runs < MaxRuns
  /\ KindOf(r.format) # "installer"
  /\ runs' = runs + 1 /\ recipe' = r
  /\ To("remove")
  /\ UNCHANGED <<hops, got, checked, staging, kept, mounted, disk, litter, kills, fails, trouble, launched, held>>

-----------------------------------------------------------------------------
(* download_artifact: a failure removes the download directory *)

Approved == {recipe.host} \union recipe.redirects

\* Mutant: redirects are not counted.
RedirectForever(h) ==
  /\ pc = "fetch"
  /\ IF h \notin Approved THEN Refuse /\ hops' = <<>>
     ELSE hops' = <<h>> /\ To("fetch") /\ NoFault
  /\ UNCHANGED <<recipe, got, checked, staging, kept, mounted, disk, litter, runs, kills, launched, held>>
\* The server answers with a redirect to h.
Redirect(h) ==
  /\ pc = "fetch"
  /\ IF Len(hops) > MaxRedirects \/ h \notin Approved
     THEN Refuse /\ hops' = <<>>
     ELSE hops' = Append(hops, h) /\ To("fetch") /\ NoFault
  /\ UNCHANGED <<recipe, got, checked, staging, kept, mounted, disk, litter, runs, kills, launched, held>>

\* The server answers with b; it may announce its length or not.
Respond(b) ==
  /\ pc = "fetch"
  /\ \/ /\ b.type # recipe.type \/ b.size > recipe.max
        /\ Refuse /\ UNCHANGED got
     \/ /\ b.type = recipe.type
        /\ got' = b /\ To("stream") /\ NoFault
  /\ hops' = <<>>
  /\ UNCHANGED <<recipe, checked, staging, kept, mounted, disk, litter, runs, kills, launched, held>>

FetchFails ==
  /\ pc \in {"fetch", "stream"}
  /\ Fault /\ got' = None /\ hops' = <<>>
  /\ UNCHANGED <<recipe, checked, staging, kept, mounted, disk, litter, runs, kills, launched, held>>

\* The body is counted and hashed while it is written.
Stream ==
  /\ pc = "stream"
  /\ IF got.size > recipe.max \/ got # recipe.digest
     THEN Refuse /\ got' = None
     ELSE To("verify") /\ NoFault /\ UNCHANGED got
  /\ UNCHANGED <<recipe, hops, checked, staging, kept, mounted, disk, litter, runs, kills, launched, held>>

-----------------------------------------------------------------------------
(* Verification *)

\* validate_artifact_recipe
RecipeOK(r) ==
  /\ AcceptsContentType(r.format, r.type)
  /\ r.typed
  /\ r.max \in 1..MaxSize
  /\ r.strip \in 0..(IF KindOf(r.format) = "archive" THEN 16 ELSE 0)
  /\ RequiresSigner(r.format) => r.signer \notin {None, ""}

\* inspect_artifact_format: the structure that the format promises.
Inspected(b, f) ==
  /\ b.format = f
  /\ IF KindOf(f) = "archive" THEN Inspect(f, b.entries, Limits) ELSE b.sound

\* Only an archive that passed the inspection can be refused once more.
Opens(b, r) == KindOf(r.format) = "archive" => Extracts(r.format, b.entries, r.strip, Limits)

SignerIgnored(r, b) == InstallableOn(r.format, Build)
\* verify_native_signer, with the signer of a package inside an image left to
\* the installation.
SignerOK(r, b) ==
  /\ InstallableOn(r.format, Build)
  /\ IF r.format = "deb" THEN r.signer = None ELSE r.signer \in {None, b.signer}

Verify ==
  /\ pc = "verify"
  /\ IF /\ RecipeOK(recipe) /\ got = recipe.digest /\ Inspected(got, recipe.format)
        /\ KindOf(recipe.format) = "installer" => SignerOK(recipe, got)
     THEN /\ checked' = TRUE /\ NoFault
          /\ To(IF KindOf(recipe.format) # "installer" THEN "stage"
                ELSE IF recipe.format = "dmg" THEN "attach" ELSE "launch")
     ELSE Refuse /\ UNCHANGED checked
  /\ UNCHANGED <<recipe, hops, got, staging, kept, mounted, disk, litter, runs, kills, launched, held>>

-----------------------------------------------------------------------------
(* install_archive, install_appimage, commit_owned_staging *)

Staged == [bytes |-> got, run |-> runs, whole |-> TRUE]

\* The bytes of the executable are synced, and compared with its digest once
\* more, but not its name in the staging directory; of an extracted archive
\* nothing is synced.  What extraction refuses removes the staging directory, a
\* payload that cannot be opened does not.
Stage ==
  /\ pc = "stage" /\ checked
  /\ \/ /\ Opens(got, recipe) /\ To("backup") /\ NoFault
        /\ staging' = Staged /\ unwritten' = unwritten \union {runs} /\ UNCHANGED litter
     \/ ~Opens(got, recipe) /\ Refuse /\ UNCHANGED <<staging, unwritten, litter>>
     \/ Fault /\ UNCHANGED <<staging, unwritten>>
        /\ litter' \in {litter} \union (IF KindOf(recipe.format) = "archive" THEN {litter + 1} ELSE {})
  /\ UNCHANGED <<recipe, hops, got, checked, kept, mounted, named, saved, runs, kills, launched, held>>

\* The directory that is in place gets a name of its own.
Backup ==
  /\ pc = "backup"
  /\ \/ /\ place[pkg] # None
        /\ kept' = place[pkg]
        /\ backups' = [backups EXCEPT ![pkg] = @ \union {place[pkg]}]
        /\ place' = [place EXCEPT ![pkg] = None]
        /\ To("commit") /\ NoFault /\ UNCHANGED litter
     \/ place[pkg] = None /\ To("commit") /\ NoFault /\ UNCHANGED <<kept, backups, place, litter>>
     \/ place[pkg] # None /\ Fault /\ litter' = litter + 1 /\ UNCHANGED <<kept, backups, place>>
  /\ UNCHANGED <<recipe, hops, got, checked, staging, mounted, due, saved, unwritten, runs, kills, launched, held>>

\* Mutant: the backup is not put back.
CommitOrLose ==
  /\ pc = "commit"
  /\ \/ /\ place' = [place EXCEPT ![pkg] = staging] /\ due' = [due EXCEPT ![pkg] = staging]
        /\ fails' = [fails EXCEPT ![pkg] = 0] /\ To("drop") /\ UNCHANGED <<litter, trouble>>
     \/ Fault /\ litter' = litter + 1 /\ UNCHANGED <<place, due>>
  /\ UNCHANGED <<run, backups, saved, unwritten, runs, kills, launched, held>>
\* The staging directory gets the package's name; when that fails the backup
\* is put back, if that does not fail too.
Commit ==
  /\ pc = "commit"
  /\ \/ /\ place' = [place EXCEPT ![pkg] = staging]
        /\ due' = [due EXCEPT ![pkg] = staging]
        /\ fails' = [fails EXCEPT ![pkg] = 0]
        /\ To("drop") /\ UNCHANGED <<backups, litter, trouble>>
     \/ /\ Fault /\ litter' = litter + 1
        /\ place' = [place EXCEPT ![pkg] = kept]
        /\ backups' = [backups EXCEPT ![pkg] = @ \ {kept}]
        /\ UNCHANGED due
     \/ /\ kept # None /\ To("failed")
        /\ fails' = [fails EXCEPT ![pkg] = @ + 2] /\ trouble' = TRUE
        /\ litter' = litter + 1
        /\ UNCHANGED <<place, backups, due>>
  /\ UNCHANGED <<run, saved, unwritten, runs, kills, launched, held>>

\* The backup is removed, or what is left of it stays for good.
DropBackup ==
  /\ pc = "drop" /\ To("done")
  /\ \/ backups' = [backups EXCEPT ![pkg] = @ \ {kept}] /\ UNCHANGED <<litter, trouble>>
     \/ /\ kept # None /\ trouble' = TRUE /\ litter' = litter + 1
        /\ backups' = [backups EXCEPT ![pkg] = (@ \ {kept}) \union {[kept EXCEPT !.whole = FALSE]}]
  /\ UNCHANGED <<run, place, due, saved, unwritten, runs, kills, fails, launched, held>>

\* The extract step of a removal: remove_dir_all of the owned directory.
RemoveOwned ==
  /\ pc = "remove"
  /\ due' = [due EXCEPT ![pkg] = None]
  /\ \/ place' = [place EXCEPT ![pkg] = None] /\ To("done")
        /\ fails' = [fails EXCEPT ![pkg] = 0] /\ UNCHANGED trouble
     \/ place[pkg] # None /\ Fault
        /\ place' = [place EXCEPT ![pkg] = [@ EXCEPT !.whole = FALSE]]
  /\ UNCHANGED <<run, backups, saved, unwritten, litter, runs, kills, launched, held>>

-----------------------------------------------------------------------------
(* Native installers and disk images *)

\* What an installer leads to; that of an image, to detaching it.
Outcome(ok) ==
  IF recipe.format = "dmg" THEN (IF ok THEN "detach" ELSE "giveup")
                           ELSE (IF ok THEN "done" ELSE "failed")

\* run_bounded: the child is started, with a reader on either pipe of its
\* output, or it cannot be.
Spawn ==
  /\ \/ launched' = launched \union {<<recipe, got>>} /\ To("installing")
     \/ To(Outcome(FALSE)) /\ UNCHANGED launched
  /\ NoFault
  /\ UNCHANGED <<run, disk, litter, runs, kills, held>>

Launch == pc = "launch" /\ checked /\ Spawn

\* The installer exits.  What it started may go on and keep the pipes.
InstallerExits ==
  /\ pc = "installing" /\ pc' \in {"installed", "stopped"}
  /\ held' \in BOOLEAN
  /\ UNCHANGED <<run, disk, litter, runs, kills, fails, trouble, launched>>

\* The installer is killed, not what it started; nor the installer itself, when
\* it is privileged and the signal denied.
Deadline ==
  /\ pc = "installing" /\ To("stopped")
  /\ held' \in BOOLEAN
  /\ UNCHANGED <<run, disk, litter, runs, kills, fails, trouble, launched>>

\* The child is waited for and the readers are joined, with no deadline: each
\* reads until its pipe is closed by everyone who has it open.
Join ==
  /\ pc \in {"installed", "stopped"} /\ ~held
  /\ To(Outcome(pc = "installed"))
  /\ UNCHANGED <<run, disk, litter, runs, kills, fails, trouble, launched, held>>

ClosePipes ==
  /\ held /\ held' = FALSE
  /\ UNCHANGED <<pc, run, disk, litter, runs, kills, fails, trouble, launched>>

\* hdiutil attach: when it fails, or is stopped by its timeout, the image may
\* be attached all the same.
Attach ==
  /\ pc = "attach" /\ checked
  /\ \/ mounted' = TRUE /\ To("package") /\ NoFault
     \/ Fault /\ mounted' \in {mounted, TRUE}
  /\ UNCHANGED <<recipe, hops, got, checked, staging, kept, disk, litter, runs, kills, launched, held>>

\* The package in the image: its signer is checked before it is installed.
\* Whatever comes of it, the image is detached.
RunPackage ==
  /\ pc = "package"
  /\ \/ got.signer = recipe.signer /\ Spawn
     \/ To("giveup") /\ NoFault
        /\ UNCHANGED <<run, disk, litter, runs, kills, launched, held>>

\* Mutant: the image is detached when the package was installed, only then.
DetachOnSuccess ==
  /\ \/ pc = "detach" /\ To("done") /\ mounted' = FALSE /\ NoFault
     \/ pc = "giveup" /\ Refuse /\ UNCHANGED mounted
  /\ UNCHANGED <<recipe, hops, got, checked, staging, kept, disk, litter, runs, kills, launched, held>>
\* detach, and detach -force when that fails; two failures are an error even
\* when the package was installed.
Detach ==
  /\ \/ /\ pc \in {"detach", "giveup"}
        /\ mounted' = FALSE /\ NoFault
        /\ To(IF pc = "detach" THEN "done" ELSE "failed")
     \/ /\ pc \in {"detach", "giveup"} /\ To("failed")
        /\ fails' = [fails EXCEPT ![pkg] = @ + 2] /\ trouble' = TRUE
        /\ UNCHANGED mounted
  /\ UNCHANGED <<recipe, hops, got, checked, staging, kept, disk, litter, runs, kills, launched, held>>

-----------------------------------------------------------------------------
\* What the execution knew is gone with it.
Ended == /\ To("idle") /\ recipe' = None /\ hops' = <<>> /\ got' = None /\ checked' = FALSE
         /\ staging' = None /\ kept' = None

\* cleanup_artifacts: not reached when a journal event cannot be written.
Finish ==
  /\ pc \in {"done", "failed"} /\ Ended
  /\ \/ UNCHANGED <<litter, trouble>>
     \/ got # None /\ litter' = litter + 1 /\ trouble' = TRUE
  /\ UNCHANGED <<mounted, disk, runs, kills, fails, launched, held>>

Kill ==
  /\ pc # "idle" /\ kills < MaxKills /\ kills' = kills + 1 /\ Ended
  /\ litter' = litter + (IF got # None THEN 1 ELSE 0)
                      + (IF pc \in {"stage", "backup", "commit"} THEN 1 ELSE 0)
  /\ held' = FALSE /\ trouble' = TRUE
  /\ fails' = [fails EXCEPT ![pkg] = @ + 2]
  /\ UNCHANGED <<mounted, disk, runs, launched>>

\* No rename in artifacts/ is followed by a sync of the directory.  The kernel
\* writes its names back when it likes, and what the trees hold with them or
\* later.
Now(p) == [place |-> place[p], backups |-> backups[p], due |-> due[p]]

WriteBack ==
  /\ saved' = [p \in Package |-> Now(p)]
  /\ unwritten' \in {unwritten, {}}
  /\ UNCHANGED <<pc, run, named, litter, runs, kills, fails, trouble, launched, held>>

\* A tree as it is found after a power loss, with the trees of some runs torn.
Found(t, torn) == IF t # None /\ t.run \in torn THEN [t EXCEPT !.whole = FALSE] ELSE t

\* The names are what they were when the kernel last wrote them back: the
\* renames since then, of finished installations too, are undone.  (A journalled
\* file system keeps the renames of a directory in order: it loses the last ones.)
PowerLoss ==
  /\ kills < MaxKills /\ kills' = kills + 1 /\ Ended
  /\ \E torn \in SUBSET unwritten :
       /\ place' = [p \in Package |-> Found(saved[p].place, torn)]
       /\ backups' = [p \in Package |-> {Found(t, torn) : t \in saved[p].backups}]
  /\ due' = [p \in Package |-> saved[p].due]
  /\ saved' = [p \in Package |-> Now(p)'] /\ unwritten' = {}
  /\ litter' = litter + (IF got # None THEN 1 ELSE 0)
                      + (IF pc \in {"stage", "backup", "commit"} THEN 1 ELSE 0)
  /\ mounted' = FALSE /\ held' = FALSE /\ trouble' = TRUE
  /\ fails' = [p \in Package |-> fails[p] + 2]
  /\ UNCHANGED <<runs, launched>>

-----------------------------------------------------------------------------
Init ==
  /\ pc = "idle" /\ recipe = None /\ hops = <<>> /\ got = None /\ checked = FALSE
  /\ staging = None /\ kept = None /\ mounted = FALSE
  /\ place = [p \in Package |-> None] /\ backups = [p \in Package |-> {}]
  /\ litter = 0 /\ runs = 0 /\ kills = 0 /\ unwritten = {}
  /\ due = [p \in Package |-> None] /\ saved = [p \in Package |-> Now(p)]
  /\ fails = [p \in Package |-> 0]
  /\ trouble = FALSE /\ launched = {} /\ held = FALSE

Answer == (\E h \in HostName : Redirect(h)) \/ (\E b \in Bytes : Respond(b)) \/ FetchFails
Act == Stream \/ Verify \/ Stage \/ Backup \/ Commit \/ DropBackup \/ RemoveOwned
       \/ Launch \/ Deadline \/ Join \/ Attach \/ RunPackage \/ Detach \/ Finish

Next ==
  \/ \E r \in Recipe : Start(r) \/ StartRemove(r)
  \/ Answer \/ Act \/ InstallerExits \/ ClosePipes \/ Kill \/ WriteBack \/ PowerLoss

Spec == Init /\ [][Next]_vars

\* Requests have timeouts, so that a server answers or the fetch fails; the
\* process itself goes on, and kills an installer at its deadline.  An installer
\* need not exit, nor what it started close its pipes.
FairSpec == Spec /\ WF_vars(Answer) /\ WF_vars(Act)

-----------------------------------------------------------------------------
(* Properties *)

Moment == [place : Trees, backups : SUBSET Tree, due : Trees]

ControlTyped ==
  /\ pc \in {"idle", "fetch", "stream", "verify", "stage", "backup", "commit", "drop", "remove", "launch",
            "installing", "installed", "stopped", "attach", "package", "detach", "giveup", "done", "failed"}
  /\ runs \in 0..MaxRuns /\ kills \in 0..MaxKills
  /\ pc # "idle" => recipe \in Recipe /\ runs # 0
RunTyped ==
  /\ recipe \in Recipe \union {None} /\ hops \in Seq(HostName)
  /\ got \in Bytes \union {None} /\ checked \in BOOLEAN /\ mounted \in BOOLEAN
  /\ staging \in Trees /\ kept \in Trees
  /\ pc \in {"stream", "verify", "stage", "backup", "commit", "launch", "attach", "package"} => got # None
DiskTyped ==
  /\ place \in [Package -> Trees] /\ due \in [Package -> Trees]
  /\ backups \in [Package -> SUBSET Tree]
  /\ saved \in [Package -> Moment] /\ unwritten \subseteq 1..MaxRuns
HistoryTyped ==
  /\ litter \in Nat /\ fails \in [Package -> Nat] /\ trouble \in BOOLEAN /\ held \in BOOLEAN
  /\ launched \subseteq Recipe \X Bytes
\* Every variable has its type; a run has its recipe, and a step that uses the
\* payload has one.
TypeOK == ControlTyped /\ RunTyped /\ DiskTyped /\ HistoryTyped

\* What is in place, and what an installer was run on, is what a recipe for
\* that package pins, has the structure its format promises, and for an
\* installer the signer that the recipe names (DownloadedArtifact.verified).
OnlyVerifiedIsUsed ==
  /\ \A p \in Package : place[p] # None =>
       \E r \in Recipe : /\ r.package = p /\ r.digest = place[p].bytes
                        /\ Inspected(place[p].bytes, r.format) /\ Opens(place[p].bytes, r)
  /\ \A use \in launched :
       LET r == use[1]  b == use[2] IN
       /\ r.digest = b /\ Inspected(b, r.format) /\ InstallableOn(r.format, Build)
       /\ r.signer \notin {None} => b.signer = r.signer

\* What was installed and not removed since is there, in place or as a backup,
\* at every moment of a later installation, whatever fails in it and wherever
\* the process dies; one failing call leaves it in its place.  A power loss may
\* undo the installations and removals since the kernel last wrote the names
\* back, the last ones first, for no rename is synced: then what was installed
\* before them is there, in place or as a backup, in part if it was not written.
InstalledSurvives ==
  \A p \in Package : due[p] # None =>
    /\ \E t \in backups[p] \union {place[p]} : t # None /\ t.run = due[p].run
    /\ pc = "idle" /\ fails[p] <= 1 => place[p] = due[p]

\* Refused downloads, failed installers and repeated runs leave no directory
\* and no attached image behind: only a failing call or a crash does.
NothingLeftBehind == pc = "idle" /\ (litter > 0 \/ mounted) => trouble

\* Every execution comes to an answer, whatever redirects the servers send and
\* whether or not an installer ever exits.  Only what goes on after the
\* installer's deadline, with its output open, keeps the command waiting
\* (run_bounded's readers, which have no deadline of their own).
RunEnds == (pc # "idle") ~> (pc = "idle" \/ held)
=============================================================================
