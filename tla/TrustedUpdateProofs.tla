------------------------ MODULE TrustedUpdateProofs ------------------------
(***************************************************************************)
(* Theorems about TrustedUpdate, for any keys, policies and bounds.        *)
(***************************************************************************)
EXTENDS TrustedUpdate, FiniteSetTheorems, TLAPS

LEMMA NewestOf ==
    /\ Newest["root"] = Len(roots) /\ Newest["timestamp"] = Len(timestamps)
    /\ Newest["snapshot"] = Len(snapshots) /\ Newest["targets"] = Len(targets)
BY DEF Newest, Role, Metadata

LEMMA FileOf ==
    /\ File("timestamp") = timestamps[got["timestamp"]]
    /\ File("snapshot") = snapshots[got["snapshot"]]
    /\ File("targets") = targets[got["targets"]]
BY DEF File

-----------------------------------------------------------------------------
(* The publisher only adds                                                 *)

Grow(files, after) ==
    Len(files) <= Len(after) /\ \A v \in 1..Len(files) : after[v] = files[v]

RepositoryGrows ==
    /\ Grow(roots, roots') /\ Grow(timestamps, timestamps')
    /\ Grow(snapshots, snapshots') /\ Grow(targets, targets')

LEMMA AppendGrows ==
    ASSUME NEW S, NEW s \in Seq(S), NEW x
    PROVE  Grow(s, Append(s, x)) /\ Grow(s, s)
BY DEF Grow

LEMMA ElementOf ==
    ASSUME NEW S, NEW s \in Seq(S), NEW v \in 1..Len(s)
    PROVE  s[v] \in S
OBVIOUS

\* References stay within a target that grows.
LEMMA SeqWidens ==
    ASSUME NEW S, NEW T, S \subseteq T, NEW s \in Seq(S)
    PROVE  s \in Seq(T)
OBVIOUS

LEMMA SignedIsTyped ==
    ASSUME NEW v \in 1..MaxRoots, NEW policy \in Policy, NEW prev \in RootFile
    PROVE  Signed(v, policy, prev) \in RootFile
BY PolicyAssumption DEF Signed, RootFile

LEMMA PublishRootGrows ==
    ASSUME RepositoryOK, PublishRoot
    PROVE  RepositoryOK' /\ RepositoryGrows
<1>1. PICK policy \in Policy :
        roots' = Append(roots, Signed(Len(roots) + 1, policy, roots[Len(roots)]))
  BY DEF PublishRoot
<1>2. roots[Len(roots)] \in RootFile /\ Len(roots) + 1 \in 1..MaxRoots
  BY BoundsAssumption DEF RepositoryOK, PublishRoot
<1>3. roots' \in Seq(RootFile) /\ Len(roots') = Len(roots) + 1
  BY <1>1, <1>2, SignedIsTyped DEF RepositoryOK
<1>4. Grow(roots, roots') /\ Grow(timestamps, timestamps) /\ Grow(snapshots, snapshots)
      /\ Grow(targets, targets)
  BY <1>1, AppendGrows DEF RepositoryOK
<1> QED
  BY <1>2, <1>3, <1>4 DEF RepositoryOK, RepositoryGrows, PublishRoot

LEMMA AppendIsTyped ==
    ASSUME NEW S, NEW s \in Seq(S), NEW x \in S
    PROVE  /\ Append(s, x) \in Seq(S) /\ Len(Append(s, x)) = Len(s) + 1
           /\ Append(s, x)[Len(s) + 1] = x
OBVIOUS

\* A sequence to which one element may have been added.
LEMMA Extended ==
    ASSUME NEW S, NEW s \in Seq(S), Len(s) > 0, NEW x \in S, NEW after,
           after = s \/ after = Append(s, x)
    PROVE  after \in Seq(S) /\ Len(after) > 0 /\ Grow(s, after)
<1>1. CASE after = s
  BY <1>1, AppendGrows
<1>2. CASE after = Append(s, x)
  BY <1>2, AppendGrows, AppendIsTyped
<1> QED
  BY <1>1, <1>2

\* What a release writes.
ReleaseOf(t, s) ==
    /\ t \in {targets, Append(targets, [online |-> Online])}
    /\ s \in {snapshots, Append(snapshots, [targets |-> Len(t), online |-> Online])}

LEMMA ReleaseWrites ==
    ASSUME Release
    PROVE  /\ ReleaseOf(targets', snapshots')
           /\ timestamps' = Append(timestamps, [snapshot |-> Len(snapshots'), online |-> Online])
           /\ Len(timestamps) < MaxReleases
           /\ roots' = roots
BY Zenon DEF Release, ReleaseOf

LEMMA ReleaseGrows ==
    ASSUME RepositoryOK, Release
    PROVE  RepositoryOK' /\ RepositoryGrows
<1> DEFINE T == [online: Generation]
<1> DEFINE S == [targets: 1..Len(targets'), online: Generation]
<1> DEFINE M == [snapshot: 1..Len(snapshots'), online: Generation]
<1> DEFINE t == [online |-> Online]
<1> DEFINE s == [targets |-> Len(targets'), online |-> Online]
<1> DEFINE m == [snapshot |-> Len(snapshots'), online |-> Online]
<1>1. /\ targets' = targets \/ targets' = Append(targets, t)
      /\ snapshots' = snapshots \/ snapshots' = Append(snapshots, s)
      /\ timestamps' = Append(timestamps, m)
  BY ReleaseWrites DEF ReleaseOf
<1>2. Online \in Generation
  <2>1. roots[Len(roots)] \in RootFile
    BY DEF RepositoryOK
  <2>2. roots[Len(roots)].policy \in Policy
    BY <2>1 DEF RootFile
  <2> QED
    BY <2>2, PolicyAssumption DEF Online
<1>3. targets' \in Seq(T) /\ Len(targets') > 0 /\ Grow(targets, targets')
  <2>1. t \in T
    BY <1>2
  <2>2. targets \in Seq(T) /\ Len(targets) > 0
    BY DEF RepositoryOK
  <2> HIDE DEF T, t
  <2> QED
    BY <1>1, <2>1, <2>2, Extended
<1>4. snapshots \in Seq(S)
  <2>1. [targets: 1..Len(targets), online: Generation] \subseteq S
    BY <1>3 DEF Grow, RepositoryOK
  <2> QED
    BY <2>1, SeqWidens DEF RepositoryOK
<1>5. snapshots' \in Seq(S) /\ Len(snapshots') > 0 /\ Grow(snapshots, snapshots')
  <2>1. s \in S
    BY <1>2, <1>3
  <2>2. Len(snapshots) > 0
    BY DEF RepositoryOK
  <2> HIDE DEF S, s
  <2> QED
    BY <1>1, <1>4, <2>1, <2>2, Extended
<1>6. timestamps \in Seq(M)
  <2>1. [snapshot: 1..Len(snapshots), online: Generation] \subseteq M
    BY <1>5 DEF Grow, RepositoryOK
  <2> QED
    BY <2>1, SeqWidens DEF RepositoryOK
<1>7. timestamps' \in Seq(M) /\ Len(timestamps') = Len(timestamps) + 1 /\ Grow(timestamps, timestamps')
  <2>1. m \in M
    BY <1>2, <1>5
  <2> HIDE DEF M, m
  <2> QED
    BY <1>1, <1>6, <2>1, AppendIsTyped, AppendGrows
<1>8. Len(timestamps') \in 1..MaxReleases
  BY <1>7, ReleaseWrites, BoundsAssumption DEF RepositoryOK
<1>9. roots' = roots /\ Grow(roots, roots)
  BY ReleaseWrites, AppendGrows DEF RepositoryOK
<1> QED
  BY <1>3, <1>5, <1>7, <1>8, <1>9 DEF RepositoryOK, RepositoryGrows

LEMMA UnchangedGrows ==
    ASSUME RepositoryOK, UNCHANGED repo
    PROVE  RepositoryOK' /\ RepositoryGrows
<1>1. Grow(roots, roots) /\ Grow(timestamps, timestamps) /\ Grow(snapshots, snapshots)
      /\ Grow(targets, targets)
  BY AppendGrows DEF RepositoryOK
<1> QED
  BY <1>1 DEF RepositoryOK, RepositoryGrows, repo

-----------------------------------------------------------------------------
(* Type correctness                                                        *)

LEMMA NewestNext ==
    /\ (Newest["root"] = Len(roots))' /\ (Newest["timestamp"] = Len(timestamps))'
    /\ (Newest["snapshot"] = Len(snapshots))' /\ (Newest["targets"] = Len(targets))'
BY NewestOf, PTL

LEMMA LengthsAreNat ==
    ASSUME RepositoryOK
    PROVE  Len(roots) \in Nat /\ Len(timestamps) \in Nat /\ Len(snapshots) \in Nat /\ Len(targets) \in Nat
BY DEF RepositoryOK

LEMMA NewestNat ==
    ASSUME RepositoryOK
    PROVE  \A r \in Role : Newest[r] \in Nat
BY LengthsAreNat, NewestOf DEF Role, Metadata

\* A newest version is never lowered.
LEMMA NewestGrows ==
    ASSUME RepositoryOK, RepositoryGrows
    PROVE  \A r \in Role : Newest[r] \in Nat /\ Newest'[r] \in Nat /\ Newest[r] <= Newest'[r]
<1>1. /\ Len(roots) \in Nat /\ Len(timestamps) \in Nat /\ Len(snapshots) \in Nat /\ Len(targets) \in Nat
  BY LengthsAreNat
<1>2. Len(roots) <= Len(roots') /\ Len(timestamps) <= Len(timestamps')
      /\ Len(snapshots) <= Len(snapshots') /\ Len(targets) <= Len(targets')
  BY DEF RepositoryGrows, Grow
<1> QED
  BY <1>1, <1>2, NewestOf, NewestNext DEF Role, Metadata

LEMMA NoVersionHeld ==
    ASSUME RepositoryOK
    PROVE  /\ Nothing \in [Role -> Nat] /\ \A r \in Role : Nothing[r] <= Newest[r]
           /\ NoVersion \in [Metadata -> Nat] /\ \A r \in Metadata : NoVersion[r] <= Newest[r]
BY NewestOf DEF RepositoryOK, Nothing, NoVersion, Role, Metadata

LEMMA IdleClient ==
    ASSUME TypeOK, RepositoryOK', RepositoryGrows, UNCHANGED client, UNCHANGED <<stored, fresh>>,
           Held(expired)'
    PROVE  TypeOK'
<1>1. \A r \in Role : Newest[r] \in Nat /\ Newest'[r] \in Nat /\ Newest[r] <= Newest'[r]
  BY NewestGrows DEF TypeOK
<1>2. /\ pc' = pc /\ trusted' = trusted /\ floor' = floor /\ rotations' = rotations /\ got' = got
      /\ stored' = stored /\ fresh' = fresh
  BY DEF client
<1>3. Held(stored)' /\ Held(floor)'
  BY <1>1, <1>2 DEF TypeOK, Held
<1>4. ASSUME NEW r \in Metadata
      PROVE  got'[r] <= Newest'[r]
  <2>1. Newest[r] \in Nat /\ Newest'[r] \in Nat /\ Newest[r] <= Newest'[r]
    BY <1>1 DEF Role
  <2>2. got[r] \in Nat /\ got[r] <= Newest[r]
    BY DEF TypeOK
  <2> QED
    BY <1>2, <2>1, <2>2
<1> QED
  BY <1>2, <1>3, <1>4 DEF TypeOK

\* A client step reads the repository and leaves it alone.
LEMMA SameNewest ==
    ASSUME UNCHANGED repo
    PROVE  \A r \in Role : Newest'[r] = Newest[r]
BY NewestOf, NewestNext DEF repo, Role, Metadata

LEMMA SameRepository ==
    ASSUME RepositoryOK, UNCHANGED repo
    PROVE  RepositoryOK'
BY UnchangedGrows

\* Fetching puts a published version into got.
LEMMA FetchIsTyped ==
    ASSUME TypeOK, NEW role \in Metadata, NEW STATE files, NEW STATE named, NEW next,
           Fetch(role, files, named, next), Len(files) = Newest[role],
           next \in {"snapshot", "targets", "verify"}
    PROVE  TypeOK'
<1>1. PICK v \in 1..Len(files) :
        got' = [got EXCEPT ![role] = v] /\ Serve(v, IF Consistent THEN named ELSE Len(files))
  BY DEF Fetch
<1>2. UNCHANGED <<repo, expired, stored, trusted, floor, rotations>> /\ pc' = next
  BY DEF Fetch, Goto
<1>3. \A r \in Role : Newest'[r] = Newest[r]
  BY <1>2, SameNewest
<1>4. Len(files) \in Nat
  BY NewestNat DEF TypeOK, Role
<1>5. got' \in [Metadata -> Nat] /\ \A r \in Metadata : got'[r] <= Newest'[r]
  <2>1. v \in Nat /\ v <= Newest[role]
    BY <1>4
  <2>2. got' \in [Metadata -> Nat]
    BY <1>1, <2>1 DEF TypeOK
  <2>3. ASSUME NEW r \in Metadata
        PROVE  got'[r] <= Newest'[r]
    <3>1. Newest'[r] = Newest[r] /\ got[r] <= Newest[r]
      BY <1>3 DEF TypeOK, Role
    <3>2. got'[r] = IF r = role THEN v ELSE got[r]
      BY <1>1 DEF TypeOK
    <3> QED
      BY <2>1, <3>1, <3>2
  <2> QED
    BY <2>2, <2>3
<1>6. RepositoryOK' /\ Held(expired)' /\ Held(stored)' /\ Held(floor)'
  BY <1>2, <1>3, SameRepository DEF TypeOK, Held
<1>7. fresh' \in BOOLEAN
  BY <1>1 DEF Serve, TypeOK
<1> QED
  BY <1>2, <1>5, <1>6, <1>7 DEF TypeOK

LEMMA VerifierIsTyped ==
    ASSUME TypeOK, NEW there \in {"idle", "rotate"}, NEW STATE versions, Held(versions),
           Verifier(there, versions), UNCHANGED <<repo, expired>>, Held(stored)'
    PROVE  TypeOK'
<1>1. \A r \in Role : Newest'[r] = Newest[r]
  BY SameNewest
<1>2. RepositoryOK' /\ Held(expired)' /\ Held(floor)'
  BY <1>1, SameRepository DEF TypeOK, Held, Verifier
<1>3. got' \in [Metadata -> Nat] /\ \A r \in Metadata : got'[r] <= Newest'[r]
  BY <1>1, NoVersionHeld DEF TypeOK, Verifier, Role
<1>4. trusted' \in RootFile
  BY DEF Verifier, TypeOK, RepositoryOK
<1> QED
  BY <1>2, <1>3, <1>4, BoundsAssumption DEF TypeOK, Verifier, Goto

-----------------------------------------------------------------------------
(* The chain of roots                                                      *)

\* The published roots are numbered, each is authorized by the one before, and
\* the root of a verifier is one of them.
Chain ==
    /\ \A v \in 1..Len(roots) : roots[v].version = v
    /\ \A v \in 2..Len(roots) : Authorized(roots[v], roots[v - 1])
    /\ trusted.version \in 1..Len(roots) /\ trusted = roots[trusted.version]

\* The keys of a policy reach its threshold, whatever else signs with them.
LEMMA KeysReachThreshold ==
    ASSUME NEW a \in Policy, NEW S, a.keys \subseteq S
    PROVE  VerifyRole(S, a)
<1>1. S \cap a.keys = a.keys
  OBVIOUS
<1>2. a.threshold \in Nat /\ IsFiniteSet(a.keys) /\ a.threshold <= Cardinality(a.keys)
  BY PolicyAssumption
<1>3. Cardinality(a.keys) \in Nat
  BY <1>2, FS_CardinalityType
<1> QED
  BY <1>1, <1>2, <1>3 DEF VerifyRole

LEMMA SignedIsAuthorized ==
    ASSUME NEW v, NEW policy \in Policy, NEW prev \in RootFile, v = prev.version + 1
    PROVE  Authorized(Signed(v, policy, prev), prev)
<1> DEFINE f == Signed(v, policy, prev)
<1>1. f.version = v /\ f.policy = policy /\ f.signers = prev.policy.keys \cup policy.keys
  BY DEF Signed
<1>2. prev.policy \in Policy
  BY DEF RootFile
<1>3. VerifyRole(f.signers, prev.policy) /\ VerifyRole(f.signers, policy)
  BY <1>1, <1>2, KeysReachThreshold
<1> QED
  BY <1>1, <1>3 DEF Authorized

\* What rotate_root accepts is the published root of that version.
LEMMA CandidateIsPublished ==
    ASSUME RepositoryOK, Chain, NEW f \in Published \cup Drafts, Authorized(f, trusted)
    PROVE  f \in RootFile /\ f.version \in 1..Len(roots) /\ f = roots[f.version]
<1>1. CASE f \in Published
  <2>1. PICK v \in 1..Len(roots) : f = roots[v]
    BY <1>1 DEF Published
  <2> QED
    BY <2>1 DEF Chain, RepositoryOK
<1>2. CASE f \in Drafts
  <2>1. f.version = trusted.version + 1 /\ trusted.version \in 1..Len(roots)
    BY DEF Authorized, Chain
  <2>2. f.version - 1 = trusted.version
    BY <2>1
  <2>3. ~(VerifyRole(f.signers, roots[trusted.version].policy) /\ VerifyRole(f.signers, f.policy))
    BY <1>2, <2>2 DEF Drafts
  <2> QED
    BY <2>3 DEF Chain, Authorized
<1> QED
  BY <1>1, <1>2

LEMMA ChainOnPublish ==
    ASSUME RepositoryOK, Chain, PublishRoot
    PROVE  Chain'
<1>1. PICK policy \in Policy :
        roots' = Append(roots, Signed(Len(roots) + 1, policy, roots[Len(roots)]))
  BY DEF PublishRoot
<1> DEFINE n == Len(roots)
           f == Signed(n + 1, policy, roots[n])
<1>2. roots \in Seq(RootFile) /\ n \in Nat /\ n > 0 /\ roots[n] \in RootFile /\ roots[n].version = n
  <2>1. roots \in Seq(RootFile) /\ n \in Nat /\ n > 0
    BY DEF RepositoryOK
  <2> QED
    BY <2>1 DEF Chain
<1>3. /\ Len(roots') = n + 1 /\ roots'[n + 1] = f
      /\ \A v \in 1..n : roots'[v] = roots[v]
  BY <1>1, <1>2
<1>4. f.version = n + 1 /\ Authorized(f, roots[n])
  BY <1>2, SignedIsAuthorized DEF Signed
<1> HIDE DEF n, f
<1>5. \A v \in 1..(n + 1) : roots'[v].version = v
  BY <1>2, <1>3, <1>4 DEF Chain, n
<1>6. ASSUME NEW v \in 2..(n + 1)
      PROVE  Authorized(roots'[v], roots'[v - 1])
  <2>1. CASE v = n + 1
    BY <1>2, <1>3, <1>4, <2>1
  <2>2. CASE v # n + 1
    <3>1. v \in 2..n /\ v \in 1..n /\ v - 1 \in 1..n
      BY <1>2, <2>2
    <3> QED
      BY <1>3, <3>1 DEF Chain, n
  <2> QED
    BY <2>1, <2>2
<1>7. trusted' = trusted
  BY DEF PublishRoot, client
<1>8. trusted.version \in 1..n /\ trusted = roots[trusted.version]
  BY DEF Chain, n
<1>9. trusted.version \in 1..(n + 1) /\ trusted = roots'[trusted.version]
  BY <1>2, <1>3, <1>8
<1>10. /\ \A v \in 1..Len(roots') : roots'[v].version = v
       /\ \A v \in 2..Len(roots') : Authorized(roots'[v], roots'[v - 1])
  BY <1>3, <1>5, <1>6
<1> QED
  BY <1>3, <1>7, <1>9, <1>10 DEF Chain

LEMMA ChainStep ==
    ASSUME TypeOK, Chain, [Next]_vars
    PROVE  Chain'
<1>1. CASE PublishRoot
  BY <1>1, ChainOnPublish DEF TypeOK
<1>2. ASSUME roots' = roots,
             \/ trusted' = trusted
             \/ trusted' = roots[1]
             \/ \E f \in Published \cup Drafts : Authorized(f, trusted) /\ trusted' = f
      PROVE  Chain'
  <2>1. trusted'.version \in 1..Len(roots) /\ trusted' = roots[trusted'.version]
    <3>1. CASE trusted' = trusted
      BY <3>1 DEF Chain
    <3>2. CASE trusted' = roots[1]
      <4>1. 1 \in 1..Len(roots)
        BY DEF TypeOK, RepositoryOK
      <4> QED
        BY <3>2, <4>1 DEF Chain
    <3>3. CASE \E f \in Published \cup Drafts : Authorized(f, trusted) /\ trusted' = f
      BY <3>3, CandidateIsPublished DEF TypeOK
    <3> QED
      BY <1>2, <3>1, <3>2, <3>3
  <2> QED
    BY <1>2, <2>1 DEF Chain, Authorized, VerifyRole
<1>3. CASE Release \/ Expire \/ NoNextRoot \/ RotationLimit \/ Reject \/ UNCHANGED vars
           \/ FetchTimestamp \/ FetchSnapshot \/ FetchTargets
  BY <1>2, <1>3 DEF Release, Expire, NoNextRoot, RotationLimit, Reject, vars, client, repo,
     FetchTimestamp, FetchSnapshot, FetchTargets, Fetch
<1>4. CASE Begin \/ FetchFails \/ Accept \/ GiveUp
  BY <1>2, <1>4 DEF Begin, FetchFails, Accept, GiveUp, Drop, Verifier, repo
<1>5. CASE RotateRoot
  BY <1>2, <1>5 DEF RotateRoot, repo
<1> QED
  BY <1>1, <1>3, <1>4, <1>5 DEF Next

LEMMA TypeStep ==
    ASSUME TypeOK, Chain, [Next]_vars
    PROVE  TypeOK'
<1>1. CASE UNCHANGED vars
  <2>1. UNCHANGED <<repo, client, expired, stored, fresh>>
    BY <1>1 DEF vars
  <2>2. RepositoryOK' /\ RepositoryGrows /\ Held(expired)'
    BY <2>1, UnchangedGrows, SameNewest DEF TypeOK, Held
  <2> QED
    BY <2>1, <2>2, IdleClient
<1>2. CASE PublishRoot \/ Release
  <2>1. RepositoryOK' /\ RepositoryGrows
    BY <1>2, PublishRootGrows, ReleaseGrows DEF TypeOK
  <2>2. UNCHANGED <<client, expired, stored, fresh>>
    BY <1>2 DEF PublishRoot, Release
  <2>3. Held(expired)'
    BY <2>1, <2>2, NewestGrows DEF TypeOK, Held
  <2> QED
    BY <2>1, <2>2, <2>3, IdleClient
<1>3. CASE Expire
  <2>1. UNCHANGED <<repo, client, stored, fresh>>
    BY <1>3 DEF Expire
  <2>2. RepositoryOK' /\ RepositoryGrows /\ \A r \in Role : Newest'[r] = Newest[r] /\ Newest[r] \in Nat
    BY <2>1, UnchangedGrows, SameNewest, NewestNat DEF TypeOK
  <2>3. Held(expired)'
    BY <1>3, <2>2 DEF Expire, TypeOK, Held
  <2> QED
    BY <2>1, <2>2, <2>3, IdleClient
<1>4. CASE Begin
  <2>1. UNCHANGED <<repo, expired, stored>> /\ Verifier("rotate", stored)
    BY <1>4 DEF Begin
  <2> QED
    BY <2>1, SameNewest, VerifierIsTyped DEF TypeOK, Held
<1>5. CASE RotateRoot
  <2>1. UNCHANGED <<repo, expired, stored, got>>
    BY <1>5 DEF RotateRoot
  <2>2. /\ RepositoryOK' /\ Held(expired)' /\ Held(stored)'
        /\ \A r \in Metadata : got'[r] <= Newest'[r]
        /\ \A r \in Role : Newest'[r] = Newest[r]
    BY <2>1, SameRepository, SameNewest DEF TypeOK, Held, Role
  <2>3. PICK f \in Published \cup Drafts :
          /\ fresh' = (fresh /\ f \in Published /\ f.version = trusted.version + 1)
          /\ IF Authorized(f, trusted) /\ f.version > expired["root"]
             THEN /\ trusted' = f
                  /\ floor' = [floor EXCEPT !["root"] = f.version]
                  /\ rotations' = rotations + 1
                  /\ UNCHANGED pc
             ELSE /\ Goto("failed")
                  /\ UNCHANGED <<trusted, floor, rotations>>
    BY <1>5 DEF RotateRoot
  <2>4. CASE Authorized(f, trusted) /\ f.version > expired["root"]
    <3>1. f \in RootFile /\ f.version \in Nat /\ f.version <= Newest["root"]
      BY <2>4, CandidateIsPublished, NewestOf DEF TypeOK, RepositoryOK
    <3>2. floor' = [floor EXCEPT !["root"] = f.version] /\ rotations' = rotations + 1
          /\ trusted' = f /\ pc' = pc
      BY <2>3, <2>4
    <3>3. Held(floor)'
      BY <2>2, <3>1, <3>2 DEF TypeOK, Held
    <3>4. rotations' \in 0..MaxRotations
      BY <1>5, <3>2, BoundsAssumption DEF TypeOK, RotateRoot
    <3> QED
      BY <2>1, <2>2, <2>3, <3>1, <3>2, <3>3, <3>4 DEF TypeOK
  <2>5. CASE ~(Authorized(f, trusted) /\ f.version > expired["root"])
    BY <2>1, <2>2, <2>3, <2>5 DEF TypeOK, Goto, Held
  <2> QED
    BY <2>4, <2>5
<1>6. CASE NoNextRoot \/ RotationLimit
  <2>1. UNCHANGED <<repo, expired, stored, trusted, floor, rotations, got>>
    BY <1>6 DEF NoNextRoot, RotationLimit
  <2>2. RepositoryOK' /\ \A r \in Role : Newest'[r] = Newest[r]
    BY <2>1, SameRepository, SameNewest DEF TypeOK
  <2>3. pc' \in {"timestamp", "failed"} /\ fresh' \in BOOLEAN
    BY <1>6 DEF NoNextRoot, RotationLimit, Goto, Serve
  <2> QED
    BY <2>1, <2>2, <2>3 DEF TypeOK, Held, Role
<1>7. CASE FetchTimestamp
  BY <1>7, FetchIsTyped, NewestOf DEF FetchTimestamp, Metadata
<1>8. CASE FetchSnapshot
  BY <1>8, FetchIsTyped, NewestOf DEF FetchSnapshot, Metadata
<1>9. CASE FetchTargets
  BY <1>9, FetchIsTyped, NewestOf DEF FetchTargets, Metadata
<1>10. CASE FetchFails \/ GiveUp
  <2>1. UNCHANGED <<repo, expired, stored>> /\ Verifier("idle", Nothing)
    BY <1>10 DEF FetchFails, GiveUp, Drop
  <2> QED
    BY <2>1, SameNewest, NoVersionHeld, VerifierIsTyped DEF TypeOK, Held
<1>11. CASE Accept
  <2>1. /\ UNCHANGED <<repo, expired>> /\ Verifier("idle", Nothing)
        /\ stored' = [r \in Role |-> IF r = "root" THEN trusted.version ELSE got[r]]
    BY <1>11 DEF Accept, Drop
  <2>2. \A r \in Role : Newest'[r] = Newest[r]
    BY <2>1, SameNewest
  <2>3. trusted.version \in Nat /\ trusted.version <= Newest["root"]
    BY NewestOf DEF Chain, TypeOK, RepositoryOK
  <2>4. \A r \in Metadata : got[r] \in Nat /\ got[r] <= Newest[r]
    BY DEF TypeOK
  <2>5. Held(stored)'
    BY <2>1, <2>2, <2>3, <2>4 DEF Held, Role
  <2> QED
    BY <2>1, <2>5, NoVersionHeld, VerifierIsTyped DEF TypeOK, Held
<1>12. CASE Reject
  <2>1. UNCHANGED <<repo, expired, stored, trusted, floor, rotations, got, fresh>> /\ pc' = "failed"
    BY <1>12 DEF Reject, Goto
  <2>2. RepositoryOK' /\ \A r \in Role : Newest'[r] = Newest[r]
    BY <2>1, SameRepository, SameNewest DEF TypeOK
  <2> QED
    BY <2>1, <2>2 DEF TypeOK, Held, Role
<1> QED
  BY <1>1, <1>2, <1>3, <1>4, <1>5, <1>6, <1>7, <1>8, <1>9, <1>10, <1>11, <1>12 DEF Next

LEMMA InitTyped ==
    ASSUME Init
    PROVE  TypeOK /\ Chain
<1>1. PICK policy \in Policy :
        /\ roots = <<[version |-> 1, policy |-> policy, signers |-> policy.keys]>>
        /\ targets = <<[online |-> policy.online]>>
        /\ snapshots = <<[targets |-> 1, online |-> policy.online]>>
        /\ timestamps = <<[snapshot |-> 1, online |-> policy.online]>>
  BY DEF Init
<1>2. policy.keys \in SUBSET Key /\ policy.online \in Generation
  BY PolicyAssumption
<1>3. RepositoryOK
  BY <1>1, <1>2, BoundsAssumption DEF RepositoryOK, RootFile
<1>4. TypeOK
  BY <1>3, NoVersionHeld, BoundsAssumption DEF Init, TypeOK, Held, RepositoryOK
<1>5. Chain
  BY <1>1 DEF Init, Chain
<1> QED
  BY <1>4, <1>5

THEOREM Invariance == Spec => [](TypeOK /\ Chain)
<1>1. Init => TypeOK /\ Chain
  BY InitTyped
<1>2. TypeOK /\ Chain /\ [Next]_vars => (TypeOK /\ Chain)'
  BY TypeStep, ChainStep
<1> QED
  BY <1>1, <1>2, PTL DEF Spec

\* Every reachable state is well typed, and no version is held that was not
\* published.
THEOREM TypeCorrect == Spec => []TypeOK
BY Invariance, PTL

\* The root that rotate_root trusts is the published one of that version,
\* whatever a mirror serves under the names of roots.
THEOREM RootsArePublished == Spec => []TrustedRootIsPublished
<1>1. TypeOK /\ Chain => TrustedRootIsPublished
  BY DEF Chain, TrustedRootIsPublished, Published
<1> QED
  BY <1>1, Invariance, PTL

-----------------------------------------------------------------------------
(* A verification, and what it stores                                      *)

\* A verifier goes by the versions that are stored, and has what it has fetched.
Session ==
    /\ pc # "idle" => \A r \in Metadata : floor[r] = stored[r]
    /\ pc \in {"snapshot", "targets", "verify"} => got["timestamp"] > 0
    /\ pc \in {"targets", "verify"} => got["snapshot"] > 0
    /\ pc = "verify" => got["targets"] > 0

\* The publisher and the clock.
Environment == PublishRoot \/ Release \/ Expire

LEMMA EnvironmentGrows ==
    ASSUME RepositoryOK, Environment
    PROVE  /\ RepositoryGrows /\ RepositoryOK' /\ UNCHANGED <<client, stored, fresh>>
           /\ pc # "idle" => UNCHANGED expired
<1>1. CASE PublishRoot
  BY <1>1, PublishRootGrows DEF PublishRoot
<1>2. CASE Release
  BY <1>2, ReleaseGrows DEF Release
<1>3. CASE Expire
  BY <1>3, UnchangedGrows DEF Expire
<1> QED
  BY <1>1, <1>2, <1>3 DEF Environment

LEMMA SessionStep ==
    ASSUME TypeOK, Session, [Next]_vars
    PROVE  Session'
<1>1. CASE Environment \/ UNCHANGED vars
  BY <1>1, EnvironmentGrows DEF TypeOK, vars, client, Session
<1>2. CASE Begin
  BY <1>2 DEF Begin, Verifier, Goto, Session
<1>3. CASE RotateRoot
  <2>1. PICK f \in Published \cup Drafts :
          IF Authorized(f, trusted) /\ f.version > expired["root"]
          THEN floor' = [floor EXCEPT !["root"] = f.version] /\ UNCHANGED pc
          ELSE pc' = "failed" /\ UNCHANGED floor
    BY <1>3 DEF RotateRoot, Goto
  <2>2. \A r \in Metadata : floor'[r] = floor[r]
    BY <2>1 DEF TypeOK, Held, Role, Metadata
  <2>3. pc = "rotate" /\ pc' \in {"rotate", "failed"} /\ stored' = stored
    BY <1>3, <2>1 DEF RotateRoot
  <2> QED
    BY <2>2, <2>3 DEF Session
<1>4. CASE NoNextRoot \/ RotationLimit \/ Reject
  BY <1>4 DEF NoNextRoot, RotationLimit, Reject, Goto, Session
<1>5. CASE FetchTimestamp \/ FetchSnapshot \/ FetchTargets
  <2>1. ASSUME NEW role \in Metadata, NEW STATE files, NEW STATE named, NEW next,
               Fetch(role, files, named, next)
        PROVE  /\ pc = role /\ pc' = next /\ floor' = floor /\ stored' = stored
               /\ got'[role] > 0 /\ \A r \in Metadata : r # role => got'[r] = got[r]
    BY <2>1 DEF Fetch, Goto, TypeOK
  <2>2. CASE FetchTimestamp
    BY <2>1, <2>2 DEF FetchTimestamp, Session, Metadata
  <2>3. CASE FetchSnapshot
    BY <2>1, <2>3 DEF FetchSnapshot, Session, Metadata
  <2>4. CASE FetchTargets
    BY <2>1, <2>4 DEF FetchTargets, Session, Metadata
  <2> QED
    BY <1>5, <2>2, <2>3, <2>4
<1>6. CASE FetchFails \/ Accept \/ GiveUp
  BY <1>6 DEF FetchFails, Accept, GiveUp, Drop, Verifier, Goto, Session
<1> QED
  BY <1>1, <1>2, <1>3, <1>4, <1>5, <1>6 DEF Next, Environment

\* Stored versions change only when a verification accepts, and then none of
\* the metadata goes back.
LEMMA OnlyAcceptStores ==
    ASSUME TypeOK, Session, [Next]_vars, stored' # stored
    PROVE  /\ Accept /\ \A r \in Metadata : stored'[r] = got[r] /\ got[r] >= stored[r]
           /\ got["timestamp"] > 0 /\ Bound
<1>1. Accept
  BY DEF Next, vars, PublishRoot, Release, Expire, Begin, RotateRoot, NoNextRoot, RotationLimit,
     FetchTimestamp, FetchSnapshot, FetchTargets, Fetch, FetchFails, Reject, GiveUp
<1>2. pc = "verify" /\ Bound /\ \A r \in Metadata : got[r] >= floor[r]
  BY <1>1 DEF Accept, Acceptable
<1>3. \A r \in Metadata : floor[r] = stored[r]
  BY <1>2 DEF Session
<1>4. \A r \in Metadata : stored'[r] = got[r]
  BY <1>1 DEF Accept, Role, Metadata
<1> QED
  BY <1>1, <1>2, <1>3, <1>4 DEF Session

LEMMA References ==
    ASSUME RepositoryOK
    PROVE  /\ \A v \in 1..Len(timestamps) : timestamps[v].snapshot \in 1..Len(snapshots)
           /\ \A v \in 1..Len(snapshots) : snapshots[v].targets \in 1..Len(targets)
<1>1. ASSUME NEW v \in 1..Len(timestamps)
      PROVE  timestamps[v].snapshot \in 1..Len(snapshots)
  <2>1. timestamps[v] \in [snapshot: 1..Len(snapshots), online: Generation]
    BY ElementOf DEF RepositoryOK
  <2> QED
    BY <2>1
<1>2. ASSUME NEW v \in 1..Len(snapshots)
      PROVE  snapshots[v].targets \in 1..Len(targets)
  <2>1. snapshots[v] \in [targets: 1..Len(targets), online: Generation]
    BY ElementOf DEF RepositoryOK
  <2> QED
    BY <2>1
<1> QED
  BY <1>1, <1>2

LEMMA StoredIsPublished ==
    ASSUME TypeOK
    PROVE  /\ \A r \in Metadata : stored[r] \in Nat /\ got[r] \in Nat
           /\ stored["timestamp"] <= Len(timestamps) /\ got["timestamp"] <= Len(timestamps)
           /\ stored["snapshot"] <= Len(snapshots) /\ got["snapshot"] <= Len(snapshots)
           /\ stored["targets"] <= Len(targets) /\ got["targets"] <= Len(targets)
<1>1. \A r \in Metadata : /\ stored[r] \in Nat /\ stored[r] <= Newest[r]
                          /\ got[r] \in Nat /\ got[r] <= Newest[r]
  BY DEF TypeOK, Held, Role
<1> QED
  BY <1>1, NewestOf DEF Metadata

LEMMA FetchedIsPublished ==
    ASSUME TypeOK
    PROVE  /\ got["timestamp"] > 0 => got["timestamp"] \in 1..Len(timestamps)
           /\ got["snapshot"] > 0 => got["snapshot"] \in 1..Len(snapshots)
           /\ got["targets"] > 0 => got["targets"] \in 1..Len(targets)
BY StoredIsPublished, LengthsAreNat DEF TypeOK, Metadata

\* What is stored is nothing, or one release.
Coherent ==
    /\ stored["timestamp"] = 0 => \A r \in Metadata : stored[r] = 0
    /\ AcceptedTogether

LEMMA CoherentStep ==
    ASSUME TypeOK, Session, Coherent, [Next]_vars
    PROVE  Coherent'
<1> DEFINE t == stored["timestamp"]
           s == stored["snapshot"]
<1>1. CASE stored' = stored
  <2>1. RepositoryGrows
    BY EnvironmentGrows, UnchangedGrows DEF Next, Environment, TypeOK, vars, Begin, RotateRoot,
       NoNextRoot, RotationLimit, FetchTimestamp, FetchSnapshot, FetchTargets, Fetch, FetchFails,
       Accept, Reject, GiveUp
  <2>2. CASE t > 0
    <3>1. t \in 1..Len(timestamps) /\ timestamps[t].snapshot = s /\ snapshots[s].targets = stored["targets"]
      BY <2>2, StoredIsPublished DEF TypeOK, RepositoryOK, Metadata, Coherent, AcceptedTogether
    <3>2. s \in 1..Len(snapshots)
      BY <3>1, References DEF TypeOK
    <3>3. timestamps'[t] = timestamps[t] /\ snapshots'[s] = snapshots[s]
      BY <2>1, <3>1, <3>2 DEF RepositoryGrows, Grow
    <3> QED
      BY <1>1, <2>2, <3>1, <3>3 DEF Coherent, AcceptedTogether
  <2>3. CASE ~(t > 0)
    BY <1>1, <2>3 DEF Coherent, AcceptedTogether
  <2> QED
    BY <2>2, <2>3
<1>2. CASE stored' # stored
  <2>1. /\ UNCHANGED repo /\ \A r \in Metadata : stored'[r] = got[r]
        /\ got["timestamp"] > 0 /\ Bound
    BY <1>2, OnlyAcceptStores DEF Accept
  <2> QED
    BY <2>1 DEF Coherent, AcceptedTogether, Bound, repo, Metadata
<1> QED
  BY <1>1, <1>2

LEMMA InitCoherent ==
    ASSUME Init
    PROVE  Session /\ Coherent
BY DEF Init, Session, Coherent, AcceptedTogether, Nothing, Role, Metadata

THEOREM SessionInvariance == Spec => [](TypeOK /\ Chain /\ Session /\ Coherent)
<1>1. Init => Session /\ Coherent
  BY InitCoherent
<1>2. TypeOK /\ Session /\ Coherent /\ [Next]_vars => (Session /\ Coherent)'
  BY SessionStep, CoherentStep
<1> QED
  BY <1>1, <1>2, Invariance, PTL DEF Spec

\* The stored timestamp, snapshot and targets are one release: they refer to one
\* another, whatever a mirror mixes and whenever the publisher releases.
THEOREM OneReleaseIsStored == Spec => []AcceptedTogether
BY SessionInvariance, PTL DEF Coherent

\* No version of the metadata that a client has stored is given up for an older
\* one (the root is: see RootNeverBack).
THEOREM MetadataVersionsGrow == Spec => MetadataNeverBack
<1>1. TypeOK /\ Session /\ [Next]_vars => [\A r \in Metadata : stored'[r] >= stored[r]]_stored
  BY OnlyAcceptStores
<1> QED
  BY <1>1, SessionInvariance, PTL DEF Spec, MetadataNeverBack

-----------------------------------------------------------------------------
(* A mirror that is up to date                                             *)

\* Later metadata refers to later metadata.
Ordered ==
    /\ \A v, w \in 1..Len(timestamps) : v <= w => timestamps[v].snapshot <= timestamps[w].snapshot
    /\ \A v, w \in 1..Len(snapshots) : v <= w => snapshots[v].targets <= snapshots[w].targets

LEMMA OrderedOnRelease ==
    ASSUME RepositoryOK, Ordered, Release
    PROVE  Ordered'
<1>1. RepositoryGrows /\ RepositoryOK'
  BY ReleaseGrows
<1>2. /\ Len(timestamps) \in Nat /\ Len(snapshots) \in Nat /\ Len(targets) \in Nat
      /\ Len(snapshots') \in Nat /\ Len(targets') \in Nat
      /\ Len(snapshots) <= Len(snapshots') /\ Len(targets) <= Len(targets')
  <2>1. Len(timestamps) \in Nat /\ Len(snapshots) \in Nat /\ Len(targets) \in Nat
    BY DEF RepositoryOK
  <2>2. Len(snapshots') \in Nat /\ Len(targets') \in Nat
    BY <1>1 DEF RepositoryOK
  <2>3. Len(snapshots) <= Len(snapshots') /\ Len(targets) <= Len(targets')
    BY <1>1 DEF RepositoryGrows, Grow
  <2> QED
    BY <2>1, <2>2, <2>3
<1>3. ASSUME NEW v \in 1..Len(timestamps'), NEW w \in 1..Len(timestamps'), v <= w
      PROVE  timestamps'[v].snapshot <= timestamps'[w].snapshot
  <2> DEFINE m == [snapshot |-> Len(snapshots'), online |-> Online]
  <2>1. timestamps' = Append(timestamps, m)
    BY ReleaseWrites
  <2>2. timestamps \in Seq([snapshot: 1..Len(snapshots), online: Generation])
    BY DEF RepositoryOK
  <2>3. /\ Len(timestamps') = Len(timestamps) + 1
        /\ timestamps'[Len(timestamps) + 1].snapshot = Len(snapshots')
        /\ \A x \in 1..Len(timestamps) : timestamps'[x] = timestamps[x]
    BY <2>1, <2>2
  <2>4. \A x \in 1..Len(timestamps) : timestamps[x].snapshot \in 1..Len(snapshots)
    BY References
  <2>5. CASE w \in 1..Len(timestamps)
    <3>1. v \in 1..Len(timestamps)
      BY <1>2, <1>3, <2>5
    <3> QED
      BY <1>3, <2>3, <2>5, <3>1 DEF Ordered
  <2>6. CASE w = Len(timestamps) + 1 /\ v \in 1..Len(timestamps)
    BY <1>2, <2>3, <2>4, <2>6
  <2>7. CASE w = Len(timestamps) + 1 /\ v = Len(timestamps) + 1
    BY <1>2, <2>3, <2>7
  <2> QED
    BY <1>2, <1>3, <2>3, <2>5, <2>6, <2>7
<1>4. ASSUME NEW v \in 1..Len(snapshots'), NEW w \in 1..Len(snapshots'), v <= w
      PROVE  snapshots'[v].targets <= snapshots'[w].targets
  <2> DEFINE n == [targets |-> Len(targets'), online |-> Online]
  <2>1. snapshots' = snapshots \/ snapshots' = Append(snapshots, n)
    BY ReleaseWrites DEF ReleaseOf
  <2>2. snapshots \in Seq([targets: 1..Len(targets), online: Generation])
    BY DEF RepositoryOK
  <2>3. CASE snapshots' = snapshots
    BY <1>4, <2>3 DEF Ordered
  <2>4. CASE snapshots' = Append(snapshots, n)
    <3>3. /\ Len(snapshots') = Len(snapshots) + 1
          /\ snapshots'[Len(snapshots) + 1].targets = Len(targets')
          /\ \A x \in 1..Len(snapshots) : snapshots'[x] = snapshots[x]
      BY <2>2, <2>4
    <3>4. \A x \in 1..Len(snapshots) : snapshots[x].targets \in 1..Len(targets)
      BY References
    <3>5. CASE w \in 1..Len(snapshots)
      <4>1. v \in 1..Len(snapshots)
        BY <1>2, <1>4, <3>5
      <4> QED
        BY <1>4, <3>3, <3>5, <4>1 DEF Ordered
    <3>6. CASE w = Len(snapshots) + 1 /\ v \in 1..Len(snapshots)
      BY <1>2, <3>3, <3>4, <3>6
    <3>7. CASE w = Len(snapshots) + 1 /\ v = Len(snapshots) + 1
      BY <1>2, <3>3, <3>7
    <3> QED
      BY <1>2, <1>4, <3>3, <3>5, <3>6, <3>7
  <2> QED
    BY <2>1, <2>3, <2>4
<1> QED
  BY <1>3, <1>4 DEF Ordered

LEMMA OrderedStep ==
    ASSUME RepositoryOK, Ordered, [Next]_vars
    PROVE  Ordered'
<1>1. CASE Release
  BY <1>1, OrderedOnRelease
<1>2. CASE UNCHANGED <<timestamps, snapshots>>
  BY <1>2 DEF Ordered
<1> QED
  BY <1>1, <1>2 DEF Next, vars, repo, PublishRoot, Expire, Begin, RotateRoot, NoNextRoot,
     RotationLimit, FetchTimestamp, FetchSnapshot, FetchTargets, Fetch, FetchFails, Accept,
     Reject, GiveUp

\* While the mirror has served the newest of everything, a verification has what
\* it needs to accept, or a reason not to.
Honest ==
    fresh =>
        /\ pc \in {"timestamp", "snapshot", "targets", "verify"} => trusted.version >= floor["root"]
        /\ pc \in {"snapshot", "targets", "verify"} => got["timestamp"] >= stored["timestamp"]
        /\ pc \in {"targets", "verify"} => got["snapshot"] = timestamps[got["timestamp"]].snapshot
        /\ pc = "verify" => got["targets"] = snapshots[got["snapshot"]].targets
        /\ RefusedForCause

LEMMA FileNext ==
    /\ (File("timestamp") = timestamps[got["timestamp"]])'
    /\ (File("snapshot") = snapshots[got["snapshot"]])'
    /\ (File("targets") = targets[got["targets"]])'
BY FileOf, PTL

\* A fetched file stays what it is.
LEMMA ValidKept ==
    ASSUME TypeOK, RepositoryGrows, UNCHANGED <<got, trusted, expired>>,
           NEW r \in Metadata, got[r] > 0
    PROVE  Valid(r)' <=> Valid(r)
<1> USE FetchedIsPublished DEF RepositoryGrows, Grow
<1>1. CASE r = "timestamp"
  <2>1. timestamps'[got["timestamp"]] = timestamps[got["timestamp"]]
    BY <1>1
  <2> QED
    BY <1>1, <2>1, FileOf, FileNext DEF Valid
<1>2. CASE r = "snapshot"
  <2>1. snapshots'[got["snapshot"]] = snapshots[got["snapshot"]]
    BY <1>2
  <2> QED
    BY <1>2, <2>1, FileOf, FileNext DEF Valid
<1>3. CASE r = "targets"
  <2>1. targets'[got["targets"]] = targets[got["targets"]]
    BY <1>3
  <2> QED
    BY <1>3, <2>1, FileOf, FileNext DEF Valid
<1> QED
  BY <1>1, <1>2, <1>3 DEF Metadata

\* The root of a verifier has a number.
LEMMA VersionsAreNat ==
    ASSUME TypeOK
    PROVE  trusted.version \in Nat /\ Len(roots) \in Nat
BY LengthsAreNat, BoundsAssumption DEF TypeOK, RootFile

LEMMA HonestWhilePublishing ==
    ASSUME TypeOK, Session, Honest, Environment \/ UNCHANGED vars
    PROVE  Honest'
<1>0. Len(roots') \in Nat
  <2>1. RepositoryOK'
    BY EnvironmentGrows, UnchangedGrows DEF TypeOK, vars
  <2> QED
    BY <2>1 DEF RepositoryOK
<1>1. RepositoryGrows /\ UNCHANGED <<client, stored, fresh>> /\ (pc # "idle" => UNCHANGED expired)
  BY EnvironmentGrows, UnchangedGrows DEF TypeOK, vars
<1>2. UNCHANGED <<pc, trusted, floor, rotations, got>>
  BY <1>1 DEF client
<1>3. CASE pc = "idle"
  BY <1>2, <1>3 DEF Honest, RefusedForCause
<1>4. CASE pc # "idle" /\ fresh
  <2>1. Len(roots) <= Len(roots')
    BY <1>1 DEF RepositoryGrows, Grow
  <2>2. RefusedForCause'
    <3>1. CASE pc = "failed"
      <4>1. expired' = expired /\ (\A r \in Metadata : got[r] > 0 => (Valid(r)' <=> Valid(r)))
        BY <1>1, <1>2, <3>1, ValidKept
      <4>2. \/ expired["root"] >= trusted.version
            \/ rotations = MaxRotations /\ trusted.version < Len(roots)
            \/ \E r \in Metadata : got[r] > 0 /\ ~Valid(r)
        BY <1>4, <3>1 DEF Honest, RefusedForCause
      <4>3. trusted.version \in Nat /\ Len(roots) \in Nat /\ Len(roots') \in Nat
        BY <1>0, VersionsAreNat
      <4> QED
        BY <1>2, <2>1, <4>1, <4>2, <4>3 DEF RefusedForCause
    <3>2. CASE pc # "failed"
      BY <1>2, <3>2 DEF RefusedForCause
    <3> QED
      BY <3>1, <3>2
  <2>3. pc \in {"targets", "verify"} => got'["snapshot"] = timestamps'[got'["timestamp"]].snapshot
    BY <1>1, <1>2, <1>4, FetchedIsPublished DEF Honest, Session, RepositoryGrows, Grow
  <2>4. pc = "verify" => got'["targets"] = snapshots'[got'["snapshot"]].targets
    BY <1>1, <1>2, <1>4, FetchedIsPublished DEF Honest, Session, RepositoryGrows, Grow
  <2> QED
    BY <1>1, <1>2, <1>4, <2>2, <2>3, <2>4 DEF Honest
<1>5. CASE ~fresh
  BY <1>1, <1>5 DEF Honest
<1> QED
  BY <1>3, <1>4, <1>5

\* The newest of the chain is refused only when it has expired.
LEMMA HonestRotation ==
    ASSUME TypeOK, Chain, Honest, RotateRoot
    PROVE  Honest'
<1>1. PICK f \in Published \cup Drafts :
        /\ fresh' = (fresh /\ f \in Published /\ f.version = trusted.version + 1)
        /\ \/ Authorized(f, trusted) /\ f.version > expired["root"] /\ pc' = pc
           \/ /\ ~(Authorized(f, trusted) /\ f.version > expired["root"])
              /\ pc' = "failed" /\ trusted' = trusted
  BY DEF RotateRoot, Goto
<1>2. pc = "rotate" /\ expired' = expired
  BY DEF RotateRoot
<1>3. CASE pc' = pc
  BY <1>2, <1>3 DEF Honest, RefusedForCause
<1>4. CASE pc' = "failed" /\ fresh'
  <2>1. /\ f \in Published /\ f.version = trusted.version + 1 /\ trusted' = trusted
        /\ ~(Authorized(f, trusted) /\ f.version > expired["root"])
    BY <1>1, <1>2, <1>4
  <2>2. PICK v \in 1..Len(roots) : f = roots[v]
    BY <2>1 DEF Published
  <2>3. v = trusted.version + 1 /\ v \in 2..Len(roots) /\ v - 1 = trusted.version
    BY <2>1, <2>2, VersionsAreNat DEF Chain
  <2>4. Authorized(roots[v], roots[v - 1]) /\ trusted = roots[v - 1]
    BY <2>3 DEF Chain
  <2>5. Authorized(f, trusted)
    BY <2>2, <2>4
  <2>6. expired["root"] \in Nat
    BY DEF TypeOK, Held, Role
  <2>7. expired["root"] >= trusted.version
    BY <2>1, <2>5, <2>6, VersionsAreNat
  <2> QED
    BY <1>2, <1>4, <2>1, <2>7 DEF Honest, RefusedForCause
<1>5. CASE ~fresh'
  BY <1>5 DEF Honest
<1> QED
  BY <1>1, <1>3, <1>4, <1>5 DEF TypeOK

\* What a mirror that is up to date has served is as new as what is stored.
LEMMA HonestIsNew ==
    ASSUME TypeOK, Session, Coherent, Ordered, Honest, fresh, pc = "verify"
    PROVE  (\A r \in Metadata : got[r] >= stored[r]) /\ Bound
<1> DEFINE t == stored["timestamp"]
           g == got["timestamp"]
           s == got["snapshot"]
<1>1. g \in 1..Len(timestamps) /\ s \in 1..Len(snapshots) /\ g >= t
      /\ s = timestamps[g].snapshot /\ got["targets"] = snapshots[s].targets
  BY FetchedIsPublished DEF Honest, Session
<1>2. \A r \in Metadata : stored[r] \in Nat /\ got[r] \in Nat
  BY StoredIsPublished
<1>3. CASE t = 0
  BY <1>1, <1>2, <1>3 DEF Coherent, Bound, Metadata
<1>4. CASE t # 0
  <2>1. t \in 1..Len(timestamps)
    BY <1>2, <1>4, StoredIsPublished, LengthsAreNat DEF TypeOK, Metadata
  <2>2. timestamps[t].snapshot = stored["snapshot"] /\ snapshots[stored["snapshot"]].targets = stored["targets"]
    BY <2>1 DEF Coherent, AcceptedTogether
  <2>3. stored["snapshot"] \in 1..Len(snapshots)
    BY <2>1, <2>2, References DEF TypeOK
  <2>4. s >= stored["snapshot"]
    BY <1>1, <2>1, <2>2, <2>3 DEF Ordered
  <2>5. got["targets"] >= stored["targets"]
    BY <1>1, <2>2, <2>3, <2>4 DEF Ordered
  <2> QED
    BY <1>1, <2>4, <2>5 DEF Bound, Metadata
<1> QED
  BY <1>3, <1>4

LEMMA HonestStep ==
    ASSUME Consistent, TypeOK, Chain, Session, Coherent, Ordered, Honest, [Next]_vars
    PROVE  Honest'
<1>1. CASE Environment \/ UNCHANGED vars
  BY <1>1, HonestWhilePublishing
<1>2. CASE Begin \/ FetchFails \/ Accept \/ GiveUp
  BY <1>2 DEF Begin, FetchFails, Accept, GiveUp, Drop, Verifier, Goto, Honest, RefusedForCause
<1>3. CASE RotateRoot
  BY <1>3, HonestRotation
<1>4. CASE NoNextRoot
  <2>1. pc' = "timestamp" /\ trusted' = trusted /\ floor' = floor /\ (fresh' => trusted.version = Len(roots))
    BY <1>4 DEF NoNextRoot, Goto, Serve
  <2>2. floor["root"] <= Len(roots)
    BY NewestOf DEF TypeOK, Held, Role
  <2>3. fresh' => trusted.version >= floor["root"]
    BY <2>1, <2>2
  <2> QED
    BY <2>1, <2>3 DEF Honest, RefusedForCause
<1>5. CASE RotationLimit
  BY <1>5 DEF RotationLimit, Goto, Honest, RefusedForCause, repo
<1>6. CASE FetchTimestamp
  <2>1. PICK v \in 1..Len(timestamps) :
          got' = [got EXCEPT !["timestamp"] = v] /\ fresh' = (fresh /\ v = Len(timestamps))
    BY <1>6 DEF FetchTimestamp, Fetch, Serve
  <2>2. pc = "timestamp" /\ pc' = "snapshot" /\ UNCHANGED <<stored, trusted, floor>>
    BY <1>6 DEF FetchTimestamp, Fetch, Goto
  <2>3. stored["timestamp"] \in Nat /\ stored["timestamp"] <= Len(timestamps) /\ got'["timestamp"] = v
    BY <2>1, StoredIsPublished DEF TypeOK, Metadata
  <2> QED
    BY <2>1, <2>2, <2>3, LengthsAreNat DEF Honest, RefusedForCause, TypeOK
<1>7. CASE FetchSnapshot
  <2>1. PICK v \in 1..Len(snapshots) :
          /\ got' = [got EXCEPT !["snapshot"] = v]
          /\ fresh' = (fresh /\ v = timestamps[got["timestamp"]].snapshot)
    BY <1>7 DEF FetchSnapshot, Fetch, Serve
  <2>2. pc = "snapshot" /\ pc' = "targets" /\ UNCHANGED <<stored, trusted, floor, repo>>
    BY <1>7 DEF FetchSnapshot, Fetch, Goto
  <2>3. got'["snapshot"] = v /\ got'["timestamp"] = got["timestamp"]
    BY <2>1 DEF TypeOK, Metadata
  <2> QED
    BY <2>1, <2>2, <2>3 DEF Honest, RefusedForCause, repo
<1>8. CASE FetchTargets
  <2>1. PICK v \in 1..Len(targets) :
          /\ got' = [got EXCEPT !["targets"] = v]
          /\ fresh' = (fresh /\ v = snapshots[got["snapshot"]].targets)
    BY <1>8 DEF FetchTargets, Fetch, Serve
  <2>2. pc = "targets" /\ pc' = "verify" /\ UNCHANGED <<stored, trusted, floor, repo>>
    BY <1>8 DEF FetchTargets, Fetch, Goto
  <2>3. got'["targets"] = v /\ got'["snapshot"] = got["snapshot"] /\ got'["timestamp"] = got["timestamp"]
    BY <2>1 DEF TypeOK, Metadata
  <2> QED
    BY <2>1, <2>2, <2>3 DEF Honest, RefusedForCause, repo
<1>9. CASE Reject
  <2>1. /\ pc = "verify" /\ pc' = "failed" /\ ~Acceptable
        /\ UNCHANGED <<repo, expired, trusted, rotations, got, fresh>>
    BY <1>9 DEF Reject, Goto
  <2>2. CASE fresh
    <3>1. (\A r \in Metadata : got[r] >= floor[r]) /\ Bound
      BY <2>1, <2>2, HonestIsNew DEF Session
    <3>2. trusted.version >= floor["root"]
      BY <2>1, <2>2 DEF Honest
    <3>3. ~(trusted.version > expired["root"]) \/ \E r \in Metadata : ~Valid(r)
      BY <2>1, <3>1, <3>2 DEF Acceptable
    <3>4. \A r \in Metadata : got[r] > 0
      BY <2>1 DEF Session, Metadata
    <3>5. expired["root"] \in Nat
      BY DEF TypeOK, Held, Role
    <3>6. \/ expired["root"] >= trusted.version
          \/ \E r \in Metadata : got[r] > 0 /\ ~Valid(r)
      BY <3>3, <3>4, <3>5, VersionsAreNat
    <3>7. RepositoryGrows /\ UNCHANGED <<got, trusted, expired>>
      BY <2>1, UnchangedGrows DEF TypeOK
    <3>8. \A r \in Metadata : got[r] > 0 => (Valid(r)' <=> Valid(r))
      BY <3>7, ValidKept
    <3> QED
      BY <2>1, <3>6, <3>7, <3>8 DEF Honest, RefusedForCause
  <2>3. CASE ~fresh
    BY <2>1, <2>3 DEF Honest
  <2> QED
    BY <2>2, <2>3
<1> QED
  BY <1>1, <1>2, <1>3, <1>4, <1>5, <1>6, <1>7, <1>8, <1>9 DEF Next, Environment

\* With consistent snapshots a client that finds the newest of everything, even
\* while the publisher releases between its fetches, is refused only because
\* something has expired, is not signed by the keys of the root it has reached,
\* or is further than the rotation limit.
THEOREM HonestMirrorIsAccepted ==
    ASSUME Consistent
    PROVE  Spec => []RefusedForCause
<1>1. Init => Ordered /\ Honest
  <2>1. ASSUME Init
        PROVE  Ordered /\ Honest
    <3>1. Len(timestamps) = 1 /\ Len(snapshots) = 1
      BY <2>1 DEF Init
    <3>2. Ordered
      <4>1. \A v, w \in 1..1 : v = w
        OBVIOUS
      <4>2. /\ timestamps[1].snapshot <= timestamps[1].snapshot
            /\ snapshots[1].targets <= snapshots[1].targets
        BY <2>1 DEF Init
      <4> QED
        BY <3>1, <4>1, <4>2 DEF Ordered
    <3>3. Honest
      BY <2>1 DEF Init, Honest, RefusedForCause
    <3> QED
      BY <3>2, <3>3
  <2> QED
    BY <2>1
<1>2. TypeOK /\ Chain /\ Session /\ Coherent /\ Ordered /\ Honest /\ [Next]_vars => (Ordered /\ Honest)'
  BY OrderedStep, HonestStep DEF TypeOK
<1>3. TypeOK /\ Honest => RefusedForCause
  BY DEF Honest, RefusedForCause
<1> QED
  BY <1>1, <1>2, <1>3, SessionInvariance, PTL DEF Spec

=============================================================================
