------------------------------- MODULE Bundle -------------------------------
(***************************************************************************)
(* Bundles and their locks (siorb-bundle): portable intent, its resolution *)
(* against one state of things w, and the lock that records it.            *)
(*                                                                         *)
(* A fingerprint is modelled by the thing it is taken of.  The packages of *)
(* a lock, which are sorted by id, are a function from the ids to their    *)
(* entries in the order of the bundle.                                     *)
(***************************************************************************)
EXTENDS Resolver

CONSTANTS NoProfile

\* A member of a profile is a package or, written "@name", a feature group.
Members(bundle, profile) ==
  UNION {IF m.group THEN Range(bundle.groups[m.name]) ELSE {m.name} : m \in Range(bundle.profiles[profile])}

ValidIntent(i) ==
  /\ SafeName(i.id)
  /\ i.state \in {"present", "absent"}
  /\ i.channel \in {"stable", "beta", "nightly"} /\ i.scope \in {"auto", "user", "system"}
  /\ i.allow \intersect i.deny = {}
  /\ "bad" \notin Range(i.features) /\ IsInjective(i.features)
  /\ i.version # NoVersion => ValidConstraint(i.version)
  /\ i.conflict \in {"error", "prefer-installed", "prefer-bundle"}

\* Bundle::validate: ids are told apart by spelling, not by the package they name.
ValidBundle(bundle) ==
  LET ids == {bundle.packages[k].id : k \in DOMAIN bundle.packages} IN
  /\ bundle.schema \in {"1.0", "1"}
  /\ bundle.packages # <<>>
  /\ \A k \in DOMAIN bundle.packages : ValidIntent(bundle.packages[k])
  /\ IsInjective([k \in DOMAIN bundle.packages |-> Normal(bundle.packages[k].id)])
  /\ IsInjective(bundle.references) /\ "bad" \notin Range(bundle.references)
  /\ "bad" \notin DOMAIN bundle.groups \union DOMAIN bundle.profiles
  /\ \A g \in DOMAIN bundle.groups :
       bundle.groups[g] # <<>> /\ IsInjective(bundle.groups[g]) /\ Range(bundle.groups[g]) \subseteq ids
  /\ \A f \in DOMAIN bundle.profiles : \A m \in Range(bundle.profiles[f]) :
       IF m.group THEN m.name \in DOMAIN bundle.groups ELSE m.name \in ids

\* for_profile
Intents(bundle, profile) ==
  IF profile = NoProfile THEN bundle.packages
  ELSE Kept(bundle.packages, {k \in DOMAIN bundle.packages : bundle.packages[k].id \in Members(bundle, profile)})

-----------------------------------------------------------------------------
(* Conflicts *)

Conflicting(w, a, b) ==
  LET p == Manifest(w.catalog, a.id)  q == Manifest(w.catalog, b.id)
  IN q.id \in p.conflicts \/ p.id \in q.conflicts

\* Of two intents that conflict one may yield to the other; else the bundle is refused.
Yields(a, b) == a.conflict = "prefer-installed" /\ b.conflict = "prefer-bundle"

Rivals(w, intents) ==
  {r \in Range(intents) \X Range(intents) :
     r[1] # r[2] /\ r[1].state = "present" /\ r[2].state = "present" /\ Conflicting(w, r[1], r[2])}
\* bundle_conflict_skips
Ambiguous(w, intents) == \E r \in Rivals(w, intents) : ~Yields(r[1], r[2]) /\ ~Yields(r[2], r[1])
Skipped(w, intents) == {r[1].id : r \in {x \in Rivals(w, intents) : Yields(x[1], x[2])}}

\* Mutant: conflicts with what is installed are not looked for.
InstalledConflictsNone(w, i) == {}
\* Conflicts are only those that the intent's own manifest declares.
InstalledConflicts(w, i) == Manifest(w.catalog, i.id).conflicts \intersect DOMAIN w.installed

-----------------------------------------------------------------------------
(* resolve_bundle_with_context *)

\* What becomes of an intent: the operations it adds, its entry in the lock, or
\* the error that refuses the bundle.
Outcome(error, ops, entries) == [error |-> error, ops |-> ops, entries |-> entries]
Nothing == Outcome("", <<>>, <<>>)

Request(via, scope, channel, version) ==
  [via |-> via, source |-> Anything, scope |-> scope, channel |-> channel, version |-> version, arch |-> Anything]

\* The removal of an installed package that conflicts with an intent.
RemovalOf(w, id, dryRun) ==
  LET mine == w.installed[id]
  IN Resolve(w, id, "remove", Request(mine.backend, mine.scope, "stable", NoVersion), dryRun)

\* Mutant of Permitted: the bundle's own constraints choose among all sources.
PermittedAny(i, resolution) ==
  {k \in DOMAIN resolution.evaluations : resolution.evaluations[k].source.backend \notin i.deny}
\* The bundle's own constraints choose among the accepted sources.
Permitted(i, resolution) ==
  {k \in DOMAIN resolution.evaluations : resolution.evaluations[k].accepted
     /\ resolution.evaluations[k].source.backend \notin i.deny
     /\ (i.allow = {} \/ resolution.evaluations[k].source.backend \in i.allow)}

\* verification_material
Material(s) ==
  [provenance |-> s.provenance, evidence |-> s.evidence,
   artifact |-> IF s.verification = NoVerification THEN <<>>
                ELSE <<s.verification.digest, s.verification.signer, s.verification.type, s.verification.limit>>]

Locked(w, i, resolution, s) ==
  [id |-> resolution.id, state |-> i.state, source |-> s.id, backend |-> s.backend, native |-> s.native,
   version |-> i.version, scope |-> i.scope, channel |-> i.channel, features |-> Range(i.features),
   conflict |-> i.conflict, material |-> Material(s), explanation |-> resolution.evaluations,
   observed |-> IF IsInstalled(w, resolution.id) THEN w.installed[resolution.id].version ELSE NoVersion]

Operation(state) == IF state = "absent" THEN "remove" ELSE "install"

\* The intent itself, after the removals that make room for it.
Chosen(w, i, removals, resolution) ==
  Outcome("", Append(removals, [op |-> Operation(i.state), own |-> TRUE, for |-> i.id, resolution |-> resolution]),
          <<Locked(w, i, resolution, Selected(resolution))>>)
Selecting(resolution, k) == [resolution EXCEPT !.selected = k]
Settle(w, i, removals, resolution, at) ==
  IF resolution.error # "" THEN Outcome(resolution.error, <<>>, <<>>)
  ELSE IF at = {} /\ i.optional THEN Outcome("", removals, <<>>)
  ELSE IF at = {} THEN Outcome("no_candidate", <<>>, <<>>)
  ELSE Chosen(w, i, removals, Selecting(resolution, Best(resolution.evaluations, at)))
SettleAmong(w, i, removals, resolution) == Settle(w, i, removals, resolution, Permitted(i, resolution))
OwnOutcome(w, i, removals, dryRun) ==
  SettleAmong(w, i, removals,
              Resolve(w, i.id, Operation(i.state), Request(Anything, i.scope, i.channel, i.version), dryRun))

\* An intent of the bundle, when some removals are scheduled already.
MakingRoom(w, i, removals, dryRun) ==
  IF \E k \in DOMAIN removals : removals[k].resolution.error # "" \/ removals[k].resolution.selected = 0
  THEN Outcome("no_candidate", <<>>, <<>>)
  ELSE OwnOutcome(w, i, removals, dryRun)
Removals(w, going, dryRun) ==
  [k \in DOMAIN going |->
     [op |-> "remove", own |-> FALSE, for |-> going[k], resolution |-> RemovalOf(w, going[k], dryRun)]]
IntentOutcome(w, i, skipped, scheduled, dryRun) ==
  IF i.id \in skipped \/ (i.platforms # {} /\ w.platform.os \notin i.platforms) THEN Nothing
  ELSE IF ~Known(w.catalog, i.id) THEN Outcome(Lookup(w.catalog, i.id).found, <<>>, <<>>)
  ELSE IF InstalledConflicts(w, i) # {} /\ i.conflict = "prefer-installed" THEN Nothing
  ELSE IF InstalledConflicts(w, i) # {} /\ i.conflict = "error" THEN Outcome("conflict.detected", <<>>, <<>>)
  ELSE MakingRoom(w, i, Removals(w, SetToSeq(InstalledConflicts(w, i) \ scheduled), dryRun), dryRun)

Following(before, outcome) ==
  Outcome(outcome.error, before.ops \o outcome.ops, before.entries \o outcome.entries)
Scheduled(before) == {o.for : o \in {x \in Range(before.ops) : ~x.own}}
\* One intent after the others, to the first that is refused.
Further(w, i, skipped, before, dryRun) ==
  IF before.error # "" THEN before
  ELSE Following(before, IntentOutcome(w, i, skipped, Scheduled(before), dryRun))
Gather(w, intents, skipped, dryRun) ==
  LET after[n \in 0..Len(intents)] ==
        IF n = 0 THEN Nothing ELSE Further(w, intents[n], skipped, after[n - 1], dryRun)
  IN after[Len(intents)]

LayerIds(layers) == {layers[k].id : k \in DOMAIN layers}

Sorted(entries) ==
  [id \in {entries[k].id : k \in DOMAIN entries} |-> Kept(entries, {k \in DOMAIN entries : entries[k].id = id})]

LockOf(w, bundle, profile, entries) ==
  [schema |-> "1.0", intent |-> bundle, profile |-> profile, references |-> Range(bundle.references),
   catalog |-> w.catalog, layers |-> w.layers, platform |-> w.platform, packages |-> Sorted(entries)]

Refused(error) == [error |-> error, lock |-> NoVersion, ops |-> <<>>]
Resolution(w, bundle, profile, all) ==
  IF all.error # "" THEN Refused(all.error)
  ELSE [error |-> "", lock |-> LockOf(w, bundle, profile, all.entries), ops |-> all.ops]
\* The lock and the operations, or the error.
ResolveBundle(w, bundle, profile, dryRun) ==
  LET intents == Intents(bundle, profile)
      present == {i \in Range(intents) : i.state = "present"}
  IN IF ~ValidBundle(bundle) THEN Refused("invalid")
     ELSE IF ~(Range(bundle.references) \subseteq LayerIds(w.layers)) THEN Refused("policy_reference.missing")
     ELSE IF profile # NoProfile /\ profile \notin DOMAIN bundle.profiles THEN Refused("profile.missing")
     ELSE IF \E i \in present : ~Known(w.catalog, i.id) THEN Refused("package.missing")
     ELSE IF Ambiguous(w, intents) THEN Refused("conflict.ambiguous")
     ELSE Resolution(w, bundle, profile, Gather(w, intents, Skipped(w, intents), dryRun))

-----------------------------------------------------------------------------
(* Locks *)

Entries(lock) == UNION {Range(lock.packages[id]) : id \in DOMAIN lock.packages}

\* An entry's source is still in the catalog, and is what it was.
SourceStands(w, e) ==
  /\ Known(w.catalog, e.id)
  /\ LET sources == Manifest(w.catalog, e.id).sources
     IN \E k \in DOMAIN sources : /\ sources[k].id = e.source
                                  /\ sources[k].backend = e.backend /\ sources[k].native = e.native
                                  /\ Material(sources[k]) = e.material

\* No package is locked twice.
Distinct(lock) == \A id \in DOMAIN lock.packages : Len(lock.packages[id]) = 1

\* verify_context
ContextStands(w, lock) ==
  /\ lock.catalog = w.catalog
  /\ lock.layers = w.layers
  /\ lock.references \subseteq LayerIds(w.layers)
  /\ lock.platform = w.platform
  /\ Distinct(lock)
  /\ \A e \in Entries(lock) : SourceStands(w, e)

\* verify_observed_versions: an entry without a version binds nothing.
VersionsStand(w, lock) ==
  \A e \in Entries(lock) : e.observed # NoVersion =>
    IsInstalled(w, e.id) /\ w.installed[e.id].version = e.observed

\* Mutant of ReportedChanges: what was observed is left out.
ReportedChangesIntended(old, new) ==
  LET both == DOMAIN old.packages \intersect DOMAIN new.packages
      intent(e) == [e EXCEPT !.observed = NoVersion]
  IN [catalog |-> old.catalog # new.catalog, policy |-> old.layers # new.layers, platform |-> old.platform # new.platform,
      added |-> DOMAIN new.packages \ both, removed |-> DOMAIN old.packages \ both,
      changed |-> {id \in both : intent(Last(old.packages[id])) # intent(Last(new.packages[id]))}]
\* compare_locks, as what it reports: the packages added, removed and changed.
ReportedChanges(old, new) ==
  LET both == DOMAIN old.packages \intersect DOMAIN new.packages
      differ(a, b) == \/ <<a.source, a.backend, a.native>> # <<b.source, b.backend, b.native>>
                      \/ <<a.version, a.observed>> # <<b.version, b.observed>>
                      \/ <<a.state, a.scope, a.channel>> # <<b.state, b.scope, b.channel>>
                      \/ <<a.features, a.conflict>> # <<b.features, b.conflict>>
                      \/ a.material # b.material
                      \/ a.explanation # b.explanation
  IN [catalog |-> old.catalog # new.catalog,
      policy |-> old.layers # new.layers \/ old.references # new.references,
      platform |-> old.platform # new.platform,
      added |-> DOMAIN new.packages \ both, removed |-> DOMAIN old.packages \ both,
      changed |-> {id \in both : differ(Last(old.packages[id]), Last(new.packages[id]))}]

-----------------------------------------------------------------------------
(* Reports *)

\* version_mismatch
Mismatch(i, mine) ==
  i.version # NoVersion /\ (mine.version = NoVersion \/ ~Satisfies(mine.version, i.version))

\* diff: intents are looked up by the text of their id, in the whole bundle.
Diff(w, bundle) ==
  LET here(i) == IsInstalled(w, i.id)
      which(P(_)) == {i.id : i \in {x \in Range(bundle.packages) : P(x)}}
  IN [install |-> which(LAMBDA i : i.state = "present" /\ ~here(i) /\ ~i.optional),
      ignored |-> which(LAMBDA i : i.state = "present" /\ ~here(i) /\ i.optional),
      remove |-> which(LAMBDA i : i.state = "absent" /\ here(i)),
      mismatched |-> which(LAMBDA i : i.state = "present" /\ here(i) /\ Mismatch(i, w.installed[i.id]))]

=============================================================================
