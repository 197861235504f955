------------------------------- MODULE Policy -------------------------------
(***************************************************************************)
(* Layered policy (siorb-policy): what each layer holds against installing *)
(* a package from a source.  A reason names the layer, its code and, for a *)
(* source reviewed too long ago, the age that the message quotes.          *)
(***************************************************************************)
EXTENDS CatalogDocument, Versions

CONSTANTS NoVersion,      \* no version is installed, or asked for
          Dates           \* reviewed_at that is a date |-> its day

Kinds == {"package", "source", "backend", "channel", "scope", "license"}
Levels == <<"unverified", "community", "verified-upstream", "backend-repository", "signed-release", "reproducible">>

\* PolicyFile::default: a layer that adds nothing.
Neutral ==
  [schema |-> "1.0", id |-> "", allow |-> [k \in Kinds |-> {}], deny |-> [k \in Kinds |-> {}],
   allowCategories |-> {}, denyCategories |-> {}, preferred |-> <<>>, publishers |-> {}, domains |-> {},
   signatures |-> FALSE, digests |-> FALSE, provenance |-> "", noArtifacts |-> FALSE,
   noPrerelease |-> FALSE, confirm |-> FALSE, dryRun |-> FALSE, noDowngrade |-> FALSE,
   noUninstall |-> FALSE, freshness |-> -1, selfUpdate |-> "inherit"]

SecureDefaults ==
  [Neutral EXCEPT !.id = "builtin-secure-defaults",
     !.allow["backend"] = Backends,
     !.allow["channel"] = {"stable"}, !.deny["channel"] = {"nightly", "custom"},
     !.signatures = TRUE, !.digests = TRUE, !.provenance = "backend-repository",
     !.noPrerelease = TRUE, !.noDowngrade = TRUE, !.freshness = 45, !.selfUpdate = "allow"]

\* PolicyFile::validate; "bad" stands for what valid_exact_domain rejects.
ValidLayer(l) ==
  /\ l.schema \in {"1.0", "1"} /\ l.id # ""
  /\ "bad" \notin l.domains
  /\ l.freshness # 0
  /\ l.provenance \in {""} \union Range(Levels)

-----------------------------------------------------------------------------
(* Reading the files *)

\* The elements of s at some places, in their order: SelectSeq in a form that
\* the provers can unfold.
Kept(s, at) ==
  LET upto[n \in 0..Len(s)] ==
        IF n = 0 THEN <<>> ELSE IF n \in at THEN Append(upto[n - 1], s[n]) ELSE upto[n - 1]
  IN upto[Len(s)]

\* read_secure_policy: a regular file, and none of the other facts (a link, a
\* directory open to others, too big, shared, foreign, replaced while read).
Trustworthy(f) == \A fact \in DOMAIN f : IF fact = "regular" THEN f[fact] ELSE ~f[fact]
Loads(file) == Trustworthy(file.facts) /\ ValidLayer(file.layer)

\* load_policy, LayeredPolicy::new: the built-in layer comes first, then the
\* machine's and the user's where they are files, the organisation's and the
\* one of the command line where they are named; one that cannot be read
\* refuses the command.
Files(files) == Kept(files, {i \in DOMAIN files : files[i].named \/ files[i].facts.regular})
PolicyLoads(files) == \A i \in DOMAIN Files(files) : Loads(Files(files)[i])
LayersOf(files) == <<SecureDefaults>> \o [i \in DOMAIN Files(files) |-> Files(files)[i].layer]

-----------------------------------------------------------------------------
(* Evaluation *)

Level(name) == CHOOSE i \in DOMAIN Levels : Levels[i] = name

\* check_membership: "*" stands for every value, and no allow list for no rule.
Membership(l, kind, value) ==
  IF {value, "*"} \intersect l.deny[kind] # {} THEN {"denied." \o kind}
  ELSE IF l.allow[kind] # {} /\ {value, "*"} \intersect l.allow[kind] = {} THEN {"not_allowed." \o kind}
  ELSE {}

If(condition, code) == IF condition THEN {code} ELSE {}

Signer(s) == IF s.verification = NoVerification THEN "" ELSE s.verification.signer

NeedsSigner(s) == s.backend # "artifact" \/ (s.verification # NoVerification /\ RequiresSigner(s.verification.format))

Freshness(l, s, day) ==
  IF l.freshness = -1 THEN {}
  ELSE IF s.reviewed \notin DOMAIN Dates THEN {"freshness.unknown"}
  ELSE IF Dates[s.reviewed] > day THEN {"freshness.future"}
  ELSE If(day - Dates[s.reviewed] > l.freshness, "freshness.exceeded")

Endpoints(s, ctx) == ctx.hosts \union (IF s.backend = "artifact" THEN {s.native} ELSE {})
Network(l, s, op, ctx) ==
  IF l.domains = {} THEN {}
  ELSE IF Endpoints(s, ctx) = {} THEN If(op \notin {"verify", "adopt"}, "network.unverifiable")
  ELSE If(~(Endpoints(s, ctx) \subseteq l.domains), "network.denied")

Provenance(l, s) ==
  IF l.provenance = "" THEN {}
  ELSE IF s.provenance \notin Range(Levels) THEN {"provenance.missing"}
  ELSE If(Level(s.provenance) < Level(l.provenance), "provenance.insufficient")

Publisher(l, s) ==
  IF l.publishers = {} THEN {}
  ELSE IF Signer(s) = "" THEN {"publisher.missing"}
  ELSE If(Signer(s) \notin l.publishers, "publisher.untrusted")

\* enforce_no_downgrade: only an exact target is compared with what is there.
Downgrade(l, op, ctx) ==
  IF ~l.noDowngrade \/ op \notin {"install", "upgrade", "repair"}
     \/ NoVersion \in {ctx.installed, ctx.target} THEN {}
  ELSE If(Exact(ctx.target) /\ VersionBefore(ctx.target.text, ctx.installed), "downgrade")

LayerCodes(l, p, s, op, ctx) ==
  LET value == [package |-> p.id, source |-> s.id, backend |-> s.backend, channel |-> s.channel,
                scope |-> s.scope, license |-> p.license] IN
  (UNION {Membership(l, kind, value[kind]) : kind \in Kinds})
  \union If(l.allowCategories # {} /\ l.allowCategories \intersect p.categories = {}, "category.not_allowed")
  \union If(l.denyCategories \intersect p.categories # {}, "category.denied")
  \union If(l.noArtifacts /\ s.backend = "artifact", "artifact.forbidden")
  \union If(l.noPrerelease /\ s.channel # "stable", "prerelease.forbidden")
  \union If(l.signatures /\ s.trust = "verified-upstream" /\ NeedsSigner(s) /\ Signer(s) = "", "signature.required")
  \union If(l.digests /\ s.backend = "artifact"
            /\ (s.verification = NoVerification \/ s.verification.digest = ""), "digest.required")
  \union Publisher(l, s) \union Provenance(l, s) \union Network(l, s, op, ctx) \union Freshness(l, s, ctx.day)
  \union If(l.dryRun /\ op # "verify" /\ ~ctx.dryRun, "dry_run.required")
  \union Downgrade(l, op, ctx)
  \union If(l.noUninstall /\ op = "remove", "uninstall.prevented")

Age(code, s, ctx) == IF code = "freshness.exceeded" THEN ctx.day - Dates[s.reviewed] ELSE 0

\* Mutant: the most specific layer decides.
ReasonsOfTheLast(layers, p, s, op, ctx) ==
  LET l == layers[Len(layers)] IN {<<l.id, code, Age(code, s, ctx)>> : code \in LayerCodes(l, p, s, op, ctx)}
\* evaluate_with_context: what any layer objects to stands.
Reasons(layers, p, s, op, ctx) ==
  UNION {{<<layers[i].id, code, Age(code, s, ctx)>> : code \in LayerCodes(layers[i], p, s, op, ctx)}
         : i \in DOMAIN layers}

Decision(layers, p, s, op, ctx) ==
  [reasons |-> Reasons(layers, p, s, op, ctx), confirm |-> \E i \in DOMAIN layers : layers[i].confirm,
   dryRun |-> \E i \in DOMAIN layers : layers[i].dryRun]
Allowed(decision) == decision.reasons = {}

\* evaluate_self_update_with_context
SelfUpdateAllowed(layers, dryRun) ==
  \A i \in DOMAIN layers : layers[i].selfUpdate # "deny" /\ (layers[i].dryRun => dryRun)

\* backend_preference: the position in the list of the most specific layer that
\* names the backend; a large number stands for usize::MAX.
Preference(layers, backend) ==
  LET naming == {i \in DOMAIN layers : backend \in Range(layers[i].preferred)}
      list == layers[Max(naming)].preferred
  IN IF naming = {} THEN 99 ELSE Min({k \in DOMAIN list : list[k] = backend}) - 1
=============================================================================
