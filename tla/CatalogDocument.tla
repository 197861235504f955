-------------------------- MODULE CatalogDocument --------------------------
(***************************************************************************)
(* The catalog (siorb-catalog): what a document must be to become active,  *)
(* exact lookup, and search.  Names are spellings: Folded gives those that *)
(* normalisation changes their canonical form, and UnsafeNames are refused.*)
(* A catalog keeps the order of its packages: a later one replaces an      *)
(* earlier one in the index.                                               *)
(***************************************************************************)
EXTENDS ArtifactFormats, Integers, Sequences, FiniteSets, FiniteSetsExt, SequencesExt

CONSTANTS Folded, UnsafeNames, ReservedNames,
          PublicHosts,      \* hosts an artifact may come from
          Begins(_, _),     \* text begins with the query
          Holds(_, _),      \* text has the query within
          NoVerification

Backends == {"winget", "scoop", "chocolatey", "homebrew-formula", "homebrew-cask", "macports", "apt",
             "dnf", "yum", "pacman", "zypper", "apk", "flatpak", "snap", "artifact"}
Platforms == LinuxFamilies \union {"windows", "macos"}

\* tool_backend: the executable that serves a backend.
Tool(backend) == IF backend \in {"homebrew-formula", "homebrew-cask"} THEN "brew" ELSE backend

Normal(name) == IF name \in DOMAIN Folded THEN Folded[name] ELSE name
SafeName(name) == Normal(name) \notin UnsafeNames

-----------------------------------------------------------------------------
(* validate_document *)

SafePayload(path) == path \notin {"", "/p.pkg", "../p.pkg", "a\\p.pkg"}
SilentFlags == {"/S", "/silent", "/verysilent", "/quiet", "/norestart", "--silent", "--quiet"}

ArgumentsAllowed(format, arguments) ==
  /\ Len(arguments) <= 4
  /\ arguments # <<>> => format = "exe" /\ Range(arguments) \subseteq SilentFlags
  /\ IsInjective(arguments)

\* What the recipe of an artifact of each kind may say.
ValidRecipe(v) ==
  CASE v.kind = "archive" ->
         v.archive = v.format /\ v.arguments = <<>> /\ v.strip <= 16 /\ v.payload = ""
    [] v.kind = "executable" ->
         v.archive = "" /\ v.payload = "" /\ v.strip = 0 /\ v.arguments = <<>>
    [] v.kind = "installer" ->
         /\ RequiresSigner(v.format) => v.signer # ""
         /\ v.archive = "" /\ v.strip = 0
         /\ IF v.format = "dmg" THEN SafePayload(v.payload) ELSE v.payload = ""
         /\ ArgumentsAllowed(v.format, v.arguments)

\* The URL of an artifact is abstracted to its host.
ValidArtifact(s) ==
  LET v == s.verification IN
  /\ s.native \in PublicHosts
  /\ v # NoVerification
  /\ v.digest # "" /\ v.limit > 0
  /\ v.kind = KindOf(v.format)
  /\ SupportsPlatform(v.format, s.platform)
  /\ AcceptsContentType(v.format, v.type)
  /\ ValidRecipe(v)
  /\ v.redirects \subseteq PublicHosts

ValidSource(s) ==
  /\ s.id # "" /\ s.native \notin {"", "-option"}
  /\ s.platform \in Platforms /\ s.backend \in Backends
  /\ s.trust \in {"native", "sandboxed", "verified-upstream"}
  /\ s.scope \in {"user", "system", "auto"}
  /\ s.channel \in {"stable", "beta", "nightly"}
  /\ s.backend = "artifact" => ValidArtifact(s)
  /\ s.evidence # "" /\ s.reviewed # ""

Names(p) == {p.id} \union p.aliases \union p.deprecatedAliases

\* register_identity: one name for packages of different ids is a collision;
\* two packages of one id are not.
IdentitiesApart(ps) ==
  \A i, j \in DOMAIN ps : ps[i].id # ps[j].id =>
    {Normal(n) : n \in Names(ps[i])} \intersect {Normal(n) : n \in Names(ps[j])} = {}

ValidDocument(doc) ==
  LET ps == doc.packages IN
  /\ doc.schema \in {"1", "1.0"}
  /\ \A i \in DOMAIN ps :
       /\ Normal(ps[i].id) = ps[i].id
       /\ \A n \in Names(ps[i]) : SafeName(n) /\ Normal(n) \notin ReservedNames
       /\ "" \notin {ps[i].name, ps[i].description, ps[i].homepage, ps[i].license}
       /\ ps[i].sources # <<>>
       /\ \A k \in DOMAIN ps[i].sources : ValidSource(ps[i].sources[k])
  /\ IdentitiesApart(ps)
  /\ IsInjective(FlattenSeq([i \in DOMAIN ps |-> [k \in DOMAIN ps[i].sources |-> ps[i].sources[k].id]]))

-----------------------------------------------------------------------------
(* search and lookup *)

\* The score of package p for a query and its words.
Score(p, query, words) ==
  LET text(t, equal, begin, within) ==
        IF t = query THEN equal ELSE IF Begins(t, query) THEN begin ELSE IF Holds(t, query) THEN within ELSE 0
      word(w) == IF w \in p.words THEN 100 ELSE IF \E t \in p.words : Holds(t, w) THEN 30 ELSE 0
      sum(S, f(_)) == MapThenSumSet(f, S)
  IN text(p.id, 1000, 750, 500) + text(p.name, 900, 450, 450)
     + sum(p.aliases, LAMBDA a : text(Normal(a), 850, 350, 350)) + sum(words, word)

\* The packages that lookup finds plausible: of the five best (documents list
\* packages by id, which breaks ties), those that score 700 or more.
Plausible(doc, query) ==
  LET score == [i \in DOMAIN doc.packages |-> Score(doc.packages[i], query, {query})]
      better(i) == {j \in DOMAIN score : score[j] > score[i] \/ (score[j] = score[i] /\ j < i)}
  IN {i \in DOMAIN score : score[i] >= 700 /\ Cardinality(better(i)) < 5}

\* The indexes of from_document: the last package that has the name.
Indexed(places) == IF places = {} THEN 0 ELSE Max(places)
ExactIndex(doc, n) ==
  Indexed({i \in DOMAIN doc.packages : n \in {doc.packages[i].id} \union {Normal(a) : a \in doc.packages[i].aliases}})
DeprecatedIndex(doc, n) ==
  Indexed({i \in DOMAIN doc.packages : n \in {Normal(a) : a \in doc.packages[i].deprecatedAliases}})

\* Search only tells an ambiguous name from a missing one.
Found(exact, deprecated, plausible) ==
  IF exact # 0 THEN [found |-> "exact", at |-> exact]
  ELSE IF deprecated # 0 THEN [found |-> "deprecated", at |-> deprecated]
  ELSE [found |-> IF Cardinality(plausible) > 1 THEN "ambiguous" ELSE "missing", at |-> 0]
LookupNormal(doc, n) == Found(ExactIndex(doc, n), DeprecatedIndex(doc, n), Plausible(doc, n))
Lookup(doc, request) ==
  IF SafeName(request) THEN LookupNormal(doc, Normal(request)) ELSE [found |-> "refused", at |-> 0]

\* exact_package
Known(doc, request) == Lookup(doc, request).found \in {"exact", "deprecated"}
Manifest(doc, request) == doc.packages[Lookup(doc, request).at]
=============================================================================
