--------------------------- MODULE MCBundleApply ---------------------------
(***************************************************************************)
(* BundleApply for TLC: an editor (alias "ed") that conflicts with a       *)
(* viewer, each from a distribution and elsewhere, catalogs that differ in *)
(* their evidence, and policies of several layers.                         *)
(***************************************************************************)
EXTENDS BundleApply

MCFolded == [x \in {"Editor"} |-> "editor"]
MCBegins(t, query) == query = "edi" /\ t = "editor"
MCHolds(t, query) == FALSE
MCDates == [x \in {"old", "new"} |-> IF x = "old" THEN -45 ELSE 0]
MCHost == [os |-> "linux", distributions |-> {"debian"}, arch |-> "x86_64", tools |-> {"apt", "flatpak"}, offline |-> FALSE]

Source(id, backend, trust, reviewed, evidence) ==
  [id |-> id, backend |-> backend, native |-> id, platform |-> "linux", distributions |-> {}, architectures |-> {},
   scope |-> "system", channel |-> "stable", trust |-> trust, priority |-> 10, provenance |-> "backend-repository",
   evidence |-> evidence, reviewed |-> reviewed, verification |-> NoVerification]

Manifested(id, aliases, conflicts, sources) ==
  [id |-> id, aliases |-> aliases, deprecatedAliases |-> {}, name |-> id, description |-> "d", homepage |-> "h",
   license |-> "l", words |-> {}, categories |-> {}, conflicts |-> conflicts, sources |-> sources]
Document(packages) == [schema |-> "1.0", packages |-> packages]

EditorApt == Source("editor-apt", "apt", "native", "old", "e1")
EditorFlat == Source("editor-flat", "flatpak", "sandboxed", "new", "e1")
Viewer == Manifested("viewer", {}, {}, <<Source("viewer-apt", "apt", "native", "new", "e1")>>)

MCCatalogs ==
  {Document(<<Manifested("editor", {"ed"}, {"viewer"}, <<EditorApt, EditorFlat>>), Viewer>>),
   Document(<<Manifested("editor", {"ed"}, {}, <<[EditorFlat EXCEPT !.evidence = "e2"]>>), Viewer>>),
   Document(<<Manifested("editor", {"ed"}, {}, <<EditorApt>>), [Viewer EXCEPT !.aliases = {"ed"}]>>)}

File(layer) ==
  [named |-> FALSE, layer |-> layer,
   facts |-> [link |-> FALSE, openDirectory |-> FALSE, regular |-> TRUE, big |-> FALSE,
              shared |-> FALSE, foreign |-> FALSE, replaced |-> FALSE]]
User == File([Neutral EXCEPT !.id = "user"])
Open == [User EXCEPT !.facts.openDirectory = TRUE]
Strict == File([Neutral EXCEPT !.id = "machine", !.deny["backend"] = {"apt"}, !.noUninstall = TRUE, !.confirm = TRUE])
MCPolicyFiles == {<<>>, <<Strict, User>>, <<Open>>}

Intent(id, state, conflict, version) ==
  [id |-> id, state |-> state, channel |-> "stable", scope |-> "auto", allow |-> {}, deny |-> {}, features |-> <<>>,
   version |-> version, conflict |-> conflict, optional |-> FALSE, platforms |-> {}]
Pack(intents) ==
  [schema |-> "1.0", packages |-> intents, references |-> <<>>, groups |-> << >>,
   profiles |-> [x \in {"small"} |-> <<[group |-> FALSE, name |-> intents[1].id]>>]]

V1 == Dotted(<<1, 0>>)
Pre == V1 \o <<Dash, 1>>
MCVersionTexts == {V1, Pre}
Is(text) == [mark |-> "", text |-> text]
MCFirstPins == [x \in {"editor"} |-> Is(V1)]

MCBundles ==
  {Pack(<<Intent("ed", "present", "prefer-bundle", NoVersion), Intent("viewer", "present", "prefer-installed", NoVersion)>>),
   Pack(<<Intent("viewer", "present", "error", Is(V1)), Intent("editor", "absent", "error", NoVersion)>>),
   Pack(<<Intent("editor", "present", "error", NoVersion)>>)}

Asked(op, name, version) == [op |-> op, name |-> name, version |-> version]
MCRequests == {Asked("install", "edi", NoVersion), Asked("install", "Editor", NoVersion), Asked("upgrade", "ed", NoVersion),
               Asked("install", "viewer", Is(Pre)), Asked("remove", "viewer", NoVersion)}
=============================================================================
