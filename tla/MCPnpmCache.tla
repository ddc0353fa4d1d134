----------------------------- MODULE MCPnpmCache -----------------------------
EXTENDS PnpmCache

CONSTANTS x64, arm64, root, nested

MCReleases == {"10.13", "10.14", "12.0"}
MCWithFlags == {"10.14", "12.0"}
MCScopeOf == [p \in {"plain", "scoped", "bad"} |-> IF p = "scoped" THEN "own" ELSE "default"]

Job(op, manifest, metadata, upstream) ==
  [op |-> op, manifest |-> manifest, metadata |-> metadata, upstream |-> upstream,
   platforms |-> {x64, arm64}]

Pin(v) == [packageManager |-> v, devEngines |-> "none", onPath |-> "none"]

(* Every manifest; every list of metadata packages, for every release; and *)
(* every combination of node_modules directories upstream may ship.        *)
MCJobs ==
  {Job("offline", m, {"plain"}, {root}) : m \in Manifests}
    \cup {Job("offline", Pin(v), ps, {root}) :
            v \in MCReleases, ps \in SUBSET {"plain", "scoped", "bad"}}
    \cup {Job("fetch", Pin("12.0"), {}, ds) : ds \in SUBSET {root, nested}}
    \cup {[Job("fetch", Pin("12.0"), {}, {root}) EXCEPT !.platforms = {x64}]}
=============================================================================
