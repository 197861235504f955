---------------------------- MODULE TrustedUpdate ----------------------------
(***************************************************************************)
(* The verification of a static catalog repository (verify_from_transport  *)
(* and RepositoryVerifier of the update crate), against a publisher that   *)
(* rotates its root and releases metadata, and a mirror that may be stale, *)
(* incomplete or mixed: it serves any file that was ever published, or a   *)
(* root that too few keys have signed, under any name.                     *)
(*                                                                         *)
(* A file is identified by its role and version: a digest names one file.  *)
(* The keys of the three online roles are one generation of keys, which a  *)
(* root names.  Of two files of a role the older one expires first.        *)
(***************************************************************************)
EXTENDS Integers, Sequences, FiniteSets

CONSTANTS Key,            \* root keys
          Generation,     \* generations of online keys
          Policy,         \* what a root may authorize
          MaxRoots, MaxReleases,   \* bounds: versions published of each role
          MaxRotations,   \* MAX_ROOT_ROTATIONS
          Consistent      \* consistent_snapshot

ASSUME PolicyAssumption ==
    /\ Policy \subseteq [keys: SUBSET Key, threshold: Nat \ {0}, online: Generation]
    /\ \A a \in Policy : IsFiniteSet(a.keys) /\ a.threshold <= Cardinality(a.keys)
ASSUME BoundsAssumption == /\ MaxRoots \in Nat \ {0} /\ MaxReleases \in Nat \ {0}
                           /\ MaxRotations \in Nat /\ Consistent \in BOOLEAN

Metadata == {"timestamp", "snapshot", "targets"}
Role == {"root"} \cup Metadata
RootFile == [version: 1..MaxRoots, policy: Policy, signers: SUBSET Key]

VARIABLES
    roots,       \* the published chain, signed by old and new keys
    timestamps,  \* [snapshot, online]: what each version refers to, and who signed it
    snapshots,   \* [targets, online]
    targets,     \* [online]
    expired,     \* per role: newest version that has expired
    stored,      \* per role: the RollbackState kept by the client
    pc,          \* the client
    trusted,     \* the root of its verifier
    floor,       \* the versions its verifier will not go below
    rotations,   \* root rotations so far
    got,         \* versions fetched of the three other roles
    \* History, read by properties only:
    fresh        \* has the mirror served the newest of every file so far?

repo   == <<roots, timestamps, snapshots, targets>>
client == <<pc, trusted, floor, rotations, got>>
vars   == <<repo, expired, stored, client, fresh>>

Newest == [r \in Role |-> CASE r = "root" -> Len(roots)
                            [] r = "timestamp" -> Len(timestamps)
                            [] r = "snapshot" -> Len(snapshots)
                            [] r = "targets" -> Len(targets)]

-----------------------------------------------------------------------------
(* Signatures                                                              *)

\* verify_role: signatures of distinct authorized keys reach the threshold.
VerifyRole(signers, policy) == Cardinality(signers \cap policy.keys) >= policy.threshold

\* Mutant: the new root vouches for itself.
AuthorizedByItself(next, prev) ==
    next.version = prev.version + 1 /\ VerifyRole(next.signers, next.policy)
\* rotate_root: both the trusted root and the new one authorize the new one.
Authorized(next, prev) ==
    /\ next.version = prev.version + 1
    /\ VerifyRole(next.signers, prev.policy)
    /\ VerifyRole(next.signers, next.policy)

Published == {roots[v] : v \in 1..Len(roots)}
\* What the publisher signs is enough for both; a draft is a root that is not.
Signed(v, policy, prev) == [version |-> v, policy |-> policy, signers |-> prev.policy.keys \cup policy.keys]
Drafts == {f \in RootFile : f.version > 1 /\ f.version <= Len(roots) + 1
             /\ ~(/\ VerifyRole(f.signers, roots[f.version - 1].policy)
                  /\ VerifyRole(f.signers, f.policy))}

-----------------------------------------------------------------------------
(* The publisher and the clock                                             *)

Online == roots[Len(roots)].policy.online

PublishRoot ==
    /\ Len(roots) < MaxRoots
    /\ \E policy \in Policy :
         roots' = Append(roots, Signed(Len(roots) + 1, policy, roots[Len(roots)]))
    /\ UNCHANGED <<timestamps, snapshots, targets, expired, stored, client, fresh>>

\* A release renews the timestamp, and what it refers to if that has changed or
\* was signed by keys that the root no longer names.
Release ==
    /\ Len(timestamps) < MaxReleases
    /\ \E renew \in {{}, {"snapshot"}, {"snapshot", "targets"}} :
         /\ "snapshot" \notin renew => snapshots[Len(snapshots)].online = Online
         /\ "targets" \notin renew => targets[Len(targets)].online = Online
         /\ targets' = IF "targets" \in renew
                       THEN Append(targets, [online |-> Online]) ELSE targets
         /\ snapshots' = IF "snapshot" \in renew
                         THEN Append(snapshots, [targets |-> Len(targets'), online |-> Online])
                         ELSE snapshots
         /\ timestamps' = Append(timestamps, [snapshot |-> Len(snapshots'), online |-> Online])
    /\ UNCHANGED <<roots, expired, stored, client, fresh>>

\* now_unix is read once, before the first fetch: what expires later makes no
\* difference to a verification, so that the clock may as well stand still in one.
Expire ==
    /\ pc = "idle"
    /\ \E r \in Role : /\ expired[r] < Newest[r]
                       /\ expired' = [expired EXCEPT ![r] = @ + 1]
    /\ UNCHANGED <<repo, stored, client, fresh>>

-----------------------------------------------------------------------------
(* verify_from_transport                                                   *)

Goto(there) == pc' = there

NoVersion == [r \in Metadata |-> 0]

\* A new verifier, and none: a verification that is over has dropped its own.
Verifier(there, versions) ==
    /\ Goto(there)
    /\ trusted' = roots[1]
    /\ floor' = versions
    /\ rotations' = 0 /\ got' = NoVersion /\ fresh' = TRUE
Nothing == [r \in Role |-> 0]
Drop == Verifier("idle", Nothing)

\* Each verification starts from the compiled root, not from the last one trusted.
Begin ==
    /\ pc = "idle"
    /\ Verifier("rotate", stored)
    /\ UNCHANGED <<repo, expired, stored>>

Serve(file, newest) == fresh' = (fresh /\ file = newest)

\* rotate_root, on whatever is under the name <version + 1>.root.json.
RotateRoot ==
    /\ pc = "rotate" /\ rotations < MaxRotations
    /\ \E f \in Published \cup Drafts :
         /\ fresh' = (fresh /\ f \in Published /\ f.version = trusted.version + 1)
         /\ IF Authorized(f, trusted) /\ f.version > expired["root"]
            THEN /\ trusted' = f
                 /\ floor' = [floor EXCEPT !["root"] = f.version]
                 /\ rotations' = rotations + 1
                 /\ UNCHANGED pc
            ELSE /\ Goto("failed")
                 /\ UNCHANGED <<trusted, floor, rotations>>
    /\ UNCHANGED <<repo, expired, stored, got>>

\* The mirror has no next root, or not yet.
NoNextRoot ==
    /\ pc = "rotate"
    /\ Goto("timestamp")
    /\ Serve(trusted.version, Len(roots))
    /\ UNCHANGED <<repo, expired, stored, trusted, floor, rotations, got>>

RotationLimit ==
    /\ pc = "rotate" /\ rotations = MaxRotations
    /\ Goto("failed")
    /\ fresh' = (fresh /\ trusted.version < Len(roots))
    /\ UNCHANGED <<repo, expired, stored, trusted, floor, rotations, got>>

\* The names of the next two files come from the file before, not yet verified.
Fetch(role, files, named, next) ==
    /\ pc = role
    /\ \E v \in 1..Len(files) :
         /\ got' = [got EXCEPT ![role] = v]
         /\ Serve(v, IF Consistent THEN named ELSE Len(files))
    /\ Goto(next)
    /\ UNCHANGED <<repo, expired, stored, trusted, floor, rotations>>
FetchTimestamp == Fetch("timestamp", timestamps, Len(timestamps), "snapshot")
\* Mutant: the file without a version in its name, whatever the root says.
FetchSnapshotByPlainName == Fetch("snapshot", snapshots, Len(snapshots), "targets")
FetchSnapshot == Fetch("snapshot", snapshots, timestamps[got["timestamp"]].snapshot, "targets")
FetchTargets == Fetch("targets", targets, snapshots[got["snapshot"]].targets, "verify")

FetchFails ==
    /\ pc \in {"rotate", "timestamp", "snapshot", "targets"}
    /\ Drop
    /\ UNCHANGED <<repo, expired, stored>>

File(role) == CASE role = "timestamp" -> timestamps[got[role]]
                [] role = "snapshot" -> snapshots[got[role]]
                [] role = "targets" -> targets[got[role]]

\* Mutant: targets are not bound to the snapshot.
BoundToTimestamp == timestamps[got["timestamp"]].snapshot = got["snapshot"]
\* verify_description and the two mix_match checks.
Bound == /\ timestamps[got["timestamp"]].snapshot = got["snapshot"]
         /\ snapshots[got["snapshot"]].targets = got["targets"]

Valid(r) == File(r).online = trusted.policy.online /\ got[r] > expired[r]

\* Mutant: the version of the timestamp is not compared with the stored one.
AcceptableByContent ==
    /\ trusted.version > expired["root"] /\ trusted.version >= floor["root"]
    /\ \A r \in Metadata : Valid(r) /\ (r # "timestamp" => got[r] >= floor[r])
    /\ Bound
\* RepositoryVerifier::verify
Acceptable ==
    /\ trusted.version > expired["root"] /\ trusted.version >= floor["root"]
    /\ \A r \in Metadata : Valid(r) /\ got[r] >= floor[r]
    /\ Bound

Accept ==
    /\ pc = "verify" /\ Acceptable
    /\ Drop
    /\ stored' = [r \in Role |-> IF r = "root" THEN trusted.version ELSE got[r]]
    /\ UNCHANGED <<repo, expired>>

Reject ==
    /\ pc = "verify" /\ ~Acceptable
    /\ Goto("failed")
    /\ UNCHANGED <<repo, expired, stored, trusted, floor, rotations, got, fresh>>

GiveUp ==
    /\ pc = "failed"
    /\ Drop
    /\ UNCHANGED <<repo, expired, stored>>

-----------------------------------------------------------------------------
(* The specification                                                       *)

Init ==
    /\ \E policy \in Policy :
         /\ roots = <<[version |-> 1, policy |-> policy, signers |-> policy.keys]>>
         /\ targets = <<[online |-> policy.online]>>
         /\ snapshots = <<[targets |-> 1, online |-> policy.online]>>
         /\ timestamps = <<[snapshot |-> 1, online |-> policy.online]>>
    /\ expired = Nothing /\ stored = Nothing
    /\ pc = "idle" /\ trusted = roots[1] /\ floor = Nothing
    /\ rotations = 0 /\ got = NoVersion /\ fresh = TRUE

Next ==
    \/ PublishRoot \/ Release \/ Expire
    \/ Begin \/ RotateRoot \/ NoNextRoot \/ RotationLimit
    \/ FetchTimestamp \/ FetchSnapshot \/ FetchTargets \/ FetchFails
    \/ Accept \/ Reject \/ GiveUp

Spec == Init /\ [][Next]_vars

-----------------------------------------------------------------------------
(* Properties                                                              *)

RepositoryOK ==
    /\ roots \in Seq(RootFile) /\ Len(roots) \in 1..MaxRoots
    /\ targets \in Seq([online: Generation]) /\ Len(targets) > 0
    /\ snapshots \in Seq([targets: 1..Len(targets), online: Generation]) /\ Len(snapshots) > 0
    /\ timestamps \in Seq([snapshot: 1..Len(snapshots), online: Generation])
    /\ Len(timestamps) \in 1..MaxReleases
\* No version is held that the publisher has not published.
Held(versions) == versions \in [Role -> Nat] /\ \A r \in Role : versions[r] <= Newest[r]

\* Type correctness of the variables above.
TypeOK ==
    /\ RepositoryOK
    /\ Held(expired) /\ Held(stored) /\ Held(floor)
    /\ pc \in {"idle", "rotate", "timestamp", "snapshot", "targets", "verify", "failed"}
    /\ trusted \in RootFile
    /\ rotations \in 0..MaxRotations
    /\ got \in [Metadata -> Nat] /\ \A r \in Metadata : got[r] <= Newest[r]
    /\ fresh \in BOOLEAN

\* The root that a client trusts, after any number of rotations over any mirror,
\* is the one the publisher gave that version: each root vouches only for the
\* next one (verify_role, twice, in rotate_root).
TrustedRootIsPublished == trusted \in Published /\ trusted = roots[trusted.version]

\* What a client has accepted is one repository: the timestamp, snapshot and
\* targets it stored refer to one another, though it fetched them one by one
\* while the publisher went on releasing.
AcceptedTogether ==
    stored["timestamp"] > 0 =>
        /\ timestamps[stored["timestamp"]].snapshot = stored["snapshot"]
        /\ snapshots[stored["snapshot"]].targets = stored["targets"]

\* Metadata never goes back: a mirror that is behind, in one file or in all,
\* leaves the client with what it had (reject_rollback in verify).
MetadataNeverBack == [][\A r \in Metadata : stored'[r] >= stored[r]]_stored

\* A mirror that serves the newest of every file is refused only for a reason in
\* the files: a root on the way, or metadata, has expired; the root's keys did
\* not sign it; or there are more rotations than the limit.  In particular a
\* release between two fetches is no reason when snapshots are consistent, and
\* the versions the client has stored never are.
RefusedForCause ==
    pc = "failed" /\ fresh =>
        \/ expired["root"] >= trusted.version
        \/ rotations = MaxRotations /\ trusted.version < Len(roots)
        \/ \E r \in Metadata : got[r] > 0 /\ ~Valid(r)

\* No root is given up for an older one (violated: rotate_root overwrites the
\* stored version that verify compares with).
RootNeverBack == [][stored'["root"] >= stored["root"]]_stored

=============================================================================
