------------------------------ MODULE Resolver ------------------------------
(***************************************************************************)
(* Resolution (siorb-resolver): the sources of one package are judged      *)
(* against the platform, the options of the request, the policy and what   *)
(* siorb knows of the installed package; the best of those left is taken.  *)
(*                                                                         *)
(* A resolution is judged for one state of things, the record w: catalog,  *)
(* layers, platform, day, and installed, a function from the installed     *)
(* ids to what installed_snapshot says of them.                            *)
(***************************************************************************)
EXTENDS Policy

CONSTANTS Anything     \* no particular source, backend or architecture is asked for

Family(name) ==
  CASE name = "debian" -> {"debian", "ubuntu", "linuxmint", "pop"}
    [] name = "fedora" -> {"fedora", "rhel", "centos", "rocky", "almalinux"}
    [] name = "arch" -> {"arch", "manjaro", "endeavouros"}
    [] name = "opensuse" -> {"opensuse", "suse", "sles"}
    [] name = "alpine" -> {"alpine"}
    [] OTHER -> {}

\* platform_matches; distributions are the host's own and those it is like.
PlatformMatches(host, s) ==
  /\ IF s.platform \in {"windows", "macos", "linux"} THEN host.os = s.platform
     ELSE host.os = "linux" /\ host.distributions \intersect Family(s.platform) # {}
  /\ s.distributions # {} => s.distributions \intersect host.distributions # {}

IsInstalled(w, id) == id \in DOMAIN w.installed

\* candidate_policy_context
PolicyContext(w, id, s, opts, dryRun) ==
  [dryRun |-> dryRun, day |-> w.day, target |-> opts.version,
   installed |-> IF IsInstalled(w, id) THEN w.installed[id].version ELSE NoVersion,
   hosts |-> IF s.backend # "artifact" THEN {}
             ELSE {s.native} \union (IF s.verification = NoVerification THEN {} ELSE s.verification.redirects)]

Unfit(w, s, opts) ==
  If(~PlatformMatches(w.platform, s), "platform.mismatch")
  \union If(s.architectures # {}
            /\ (IF opts.arch = Anything THEN w.platform.arch ELSE opts.arch) \notin s.architectures,
            "architecture.mismatch")
  \union If(s.channel # opts.channel, "channel.mismatch")
  \union If(opts.scope # "auto" /\ s.scope \notin {"auto", opts.scope}, "scope.mismatch")
  \union If(opts.source \notin {Anything, s.id}, "source.not_requested")
  \union If(opts.via \notin {Anything, s.backend, Tool(s.backend)}, "backend.not_requested")
  \union If(s.backend = "artifact" /\ w.platform.offline, "artifact.offline")
  \union If(s.backend # "artifact" /\ Tool(s.backend) \notin w.platform.tools, "backend.absent")

\* A held package is neither removed nor upgraded; a pin is compared as text.
Marked(w, id, op, opts) ==
  IF ~IsInstalled(w, id) THEN {}
  ELSE LET mine == w.installed[id] IN
    If(mine.held /\ op \in {"remove", "upgrade"}, "package.held")
    \union If(NoVersion \notin {mine.pinned, opts.version} /\ mine.pinned # opts.version, "package.pinned")

Trust(s) == CASE s.trust = "native" -> 3 [] s.trust = "sandboxed" -> 2
              [] s.trust = "verified-upstream" -> 1 [] OTHER -> 0

\* Rank: the first of these that differs decides, and the greater wins.
Rank(w, s, opts) ==
  <<IF opts.source = s.id THEN 1 ELSE 0, IF opts.via \in {s.backend, Tool(s.backend)} THEN 1 ELSE 0,
    -Preference(w.layers, s.backend), Trust(s), -s.priority>>

Judged(s, decision, rejections, rank) ==
  [source |-> s, decision |-> decision, rejections |-> rejections,
   accepted |-> rejections = {} /\ Allowed(decision), rank |-> rank]
\* Resolver::evaluate
Evaluate(w, p, s, op, opts, dryRun) ==
  Judged(s, Decision(w.layers, p, s, op, PolicyContext(w, p.id, s, opts, dryRun)),
         Unfit(w, s, opts) \union Marked(w, p.id, op, opts), Rank(w, s, opts))

Better(a, b) == Before(b.rank, a.rank, 0)
\* The best of some evaluations; of equals, the source whose id sorts first
\* (manifests list sources in the order of their ids).
Best(evaluations, at) == CHOOSE i \in at : \A j \in at \ {i} :
  ~Better(evaluations[j], evaluations[i]) /\ (~Better(evaluations[i], evaluations[j]) => i < j)

\* An installed package's pin is the version asked for, if none is.
EffectiveVersion(w, id, op, opts) ==
  IF opts.version = NoVersion /\ op \in {"install", "upgrade", "repair"} /\ IsInstalled(w, id)
  THEN w.installed[id].pinned ELSE opts.version

Failed(reason) == [error |-> reason, id |-> "", version |-> NoVersion, evaluations |-> <<>>, selected |-> 0]

\* Of the sources accepted, the best.
Choice(evaluations, accepted) == IF accepted = {} THEN 0 ELSE Best(evaluations, accepted)
Accepted(evaluations) == {i \in DOMAIN evaluations : evaluations[i].accepted}
Resolved(id, version, evaluations) ==
  [error |-> "", id |-> id, version |-> version, evaluations |-> evaluations,
   selected |-> Choice(evaluations, Accepted(evaluations))]

Evaluations(w, p, op, opts, dryRun) == [i \in DOMAIN p.sources |-> Evaluate(w, p, p.sources[i], op, opts, dryRun)]
ResolveAs(w, p, op, opts, dryRun) ==
  IF opts.version # NoVersion /\ ~ValidConstraint(opts.version) THEN Failed("version.constraint.invalid")
  ELSE Resolved(p.id, opts.version, Evaluations(w, p, op, opts, dryRun))
AtVersion(opts, version) == [opts EXCEPT !.version = version]
ResolvePackage(w, p, op, opts, dryRun) ==
  ResolveAs(w, p, op, AtVersion(opts, EffectiveVersion(w, p.id, op, opts)), dryRun)
\* resolve_with_context
Resolve(w, request, op, opts, dryRun) ==
  IF opts.version # NoVersion /\ ~ValidConstraint(opts.version) THEN Failed("version.constraint.invalid")
  ELSE IF ~Known(w.catalog, request) THEN Failed(Lookup(w.catalog, request).found)
  ELSE ResolvePackage(w, Manifest(w.catalog, request), op, opts, dryRun)

Selected(resolution) == resolution.evaluations[resolution.selected].source
=============================================================================
