------------------------------- MODULE Vendoring -------------------------------
(***************************************************************************)
(* What vendor steps hand to the policy stage, and what its checks conclude *)
(* (transform/vendor/__init__.py, pipeline/stages/policy.py, policy/).     *)
(*                                                                         *)
(* One dependency is followed: the versions of it ("copies") that a module *)
(* locks, those that an archive ships, and those that are on disk where a  *)
(* check looks for them.  Between vendor steps, other steps of the stage   *)
(* change the source tree.                                                 *)
(***************************************************************************)
EXTENDS Versions, FiniteSets

CONSTANTS
  Ecosystems,
  Modules,     (* directories of the source tree                           *)
  Copies,      (* versions of the dependency                               *)
  Disallowed,  (* those whose declared license the policy disallows        *)
  Policies,    (* [entries: vendor-constraints, audit, licenses]           *)
  MaxSteps

Known == {"go", "npm", "pnpm", "yarn", "cargo", "composer", "maven", "gradle"}

IsEntry(entry) ==
  entry.ecosystem \in Ecosystems /\ entry.tilde \in BOOLEAN /\ entry.floor \in Seq(Nat)

IsPolicy(p) ==
  (\A entry \in p.entries : IsEntry(entry)) /\ p.audit \in BOOLEAN /\ p.licenses \in BOOLEAN

ASSUME EcosystemsAssumption == Ecosystems \subseteq Known
ASSUME CopiesAssumption == Copies \subseteq Seq(Nat) /\ Disallowed \subseteq Copies
ASSUME PoliciesAssumption == \A p \in Policies : IsPolicy(p)
ASSUME BoundAssumption == MaxSteps \in Nat

VARIABLES
  stage,     (* "transform", "policy", a check of it, "done" or "failed"   *)
  policy,
  tree,      (* module -> the copies it locks in the source tree           *)
  steps,     (* vendor steps begun                                         *)
  todo,      (* modules the running vendor step has yet to vendor          *)
  vendored,  (* those it has vendored, as VendoredModule                   *)
  modules,   (* StageState.vendored_modules                                *)
  privates,  (* vendor steps whose private copy of the tree exists         *)
  results,   (* check results of the policy stage                          *)
  error

vars == <<stage, policy, tree, steps, todo, vendored, modules, privates, results, error>>

Nothing == {}

Idle == todo = Nothing /\ vendored = Nothing

Init ==
  /\ stage = "transform"
  /\ policy \in Policies
  /\ tree \in [Modules -> SUBSET Copies]
  /\ steps = 0
  /\ todo = Nothing /\ vendored = Nothing
  /\ modules = {} /\ privates = {} /\ results = {}
  /\ error = "none"

(* The work directory goes with the run.                                   *)
Fail(reason) ==
  /\ stage' = "failed"
  /\ error' = reason
  /\ privates' = {}
  /\ UNCHANGED <<policy, tree, steps, todo, vendored, modules, results>>

(***************************************************************************)
(* Transform.                                                              *)
(***************************************************************************)

(* A vendored module: its archive ships `shipped'; its workspace is the    *)
(* private copy of a step, whose lockfile has `locked' and in which        *)
(* `installed' lie unpacked, or the source tree itself.                    *)
VendoredModule(ecosystem, module, shipped, installed) ==
  [ecosystem |-> ecosystem, module |-> module, step |-> steps, live |-> FALSE,
   shipped |-> shipped, locked |-> shipped, installed |-> installed]

(* npm's node_modules are removed after every install; cargo vendor        *)
(* unpacks all crates into vendor/.  No other ecosystem is asked.          *)
LeftInstalled(ecosystem, copies) == IF ecosystem = "cargo" THEN copies ELSE {}

(* What a package manager may resolve: pnpm fetch reads the lockfile only, *)
(* go selects one version.                                                 *)
Resolvable(ecosystem, module) ==
  CASE ecosystem = "pnpm" -> {tree[module]}
    [] ecosystem = "go" -> {copies \in SUBSET Copies : Cardinality(copies) <= 1}
    [] OTHER -> SUBSET Copies

(* A private copy of the tree, for the modules of one step.                *)
BeginVendor(ms) ==
  /\ stage = "transform" /\ Idle
  /\ steps < MaxSteps
  /\ ms # {}
  /\ steps' = steps + 1
  /\ todo' = ms
  /\ privates' = privates \cup {steps + 1}
  /\ UNCHANGED <<stage, policy, tree, vendored, modules, results, error>>

OfStep(ecosystem) == \A v \in vendored : v.ecosystem = ecosystem

VendorModule(ecosystem, module, copies) ==
  /\ stage = "transform" /\ module \in todo
  /\ OfStep(ecosystem)
  /\ copies \in Resolvable(ecosystem, module)
  /\ vendored' = vendored \cup
       {VendoredModule(ecosystem, module, copies, LeftInstalled(ecosystem, copies))}
  /\ todo' = todo \ {module}
  /\ UNCHANGED <<stage, policy, tree, steps, modules, privates, results, error>>

(* A package manager fails, or nothing can be archived.                    *)
VendorFails ==
  /\ stage = "transform" /\ ~Idle
  /\ Fail("tool")

Retained == privates

(* Faulty variant: a step's modules are not forgotten.                     *)
Reset_Never == vendored

Reset == Nothing

(* The archive is built; policy gets the modules.                          *)
FinishVendor ==
  /\ stage = "transform" /\ todo = {} /\ vendored # {}
  /\ modules' = modules \cup vendored
  /\ vendored' = Reset
  /\ privates' = Retained
  /\ UNCHANGED <<stage, policy, tree, steps, todo, results, error>>

(* A pnpm offline cache holds what the tree locks now; no private copy of  *)
(* the tree is kept, and the module's path is in the tree.                 *)
OfflineCache(module) ==
  /\ stage = "transform" /\ Idle
  /\ steps < MaxSteps
  /\ steps' = steps + 1
  /\ modules' = modules \cup
       {[ecosystem |-> "pnpm", module |-> module, step |-> steps + 1, live |-> TRUE,
         shipped |-> tree[module], locked |-> {}, installed |-> {}]}
  /\ UNCHANGED <<stage, policy, tree, todo, vendored, privates, results, error>>

(* Options that do not go together, or a pnpm job that fails.              *)
OfflineCacheFails ==
  /\ stage = "transform" /\ Idle
  /\ steps < MaxSteps
  /\ \E reason \in {"config", "tool"} : Fail(reason)

(* vendor-bump, run and strip-tarball steps change the tree.               *)
ChangeSource(module, copies) ==
  /\ stage = "transform" /\ Idle
  /\ tree' = [tree EXCEPT ![module] = copies]
  /\ UNCHANGED <<stage, policy, steps, todo, vendored, modules, privates, results, error>>

EndTransform ==
  /\ stage = "transform" /\ Idle
  /\ stage' = "policy"
  /\ UNCHANGED <<policy, tree, steps, todo, vendored, modules, privates, results, error>>

(***************************************************************************)
(* Policy.                                                                 *)
(***************************************************************************)

Configured == policy.entries # {} \/ policy.audit \/ policy.licenses

SkipPolicy ==
  /\ stage = "policy"
  /\ ~Configured
  /\ stage' = "done"
  /\ UNCHANGED <<policy, tree, steps, todo, vendored, modules, privates, results, error>>

(* Faulty variant: every workspace is in the source tree.                  *)
Inspected_Tree(v) == tree[v.module]

(* The copies in the lockfile at a module's path.                          *)
Inspected(v) == IF v.live THEN tree[v.module] ELSE v.locked

(* Faulty variant: an entry concerns the modules of every ecosystem.       *)
Matching_All(entry) == modules

Matching(entry) == {v \in modules : v.ecosystem = entry.ecosystem}

(* Faulty variant: a newer copy hides an older one.                        *)
Meets_Some(copies, entry) == \E version \in copies : SatisfiesConstraint(version, entry)

(* Every copy has to satisfy an entry, and there has to be one.            *)
Meets(copies, entry) ==
  /\ copies # {}
  /\ \A version \in copies : SatisfiesConstraint(version, entry)

Verdict(passed) == IF passed THEN "passed" ELSE "failed"

Result(check, v, status) == [check |-> check, of |-> v, status |-> status]

ConstraintResults ==
  UNION {{Result("vendor-constraints", v, Verdict(Meets(Inspected(v), entry))) :
            v \in Matching(entry)} : entry \in policy.entries}

Unmatched == \E entry \in policy.entries : Matching(entry) = {}

CheckConstraints ==
  /\ stage = "policy"
  /\ Configured
  /\ ~Unmatched
  /\ results' = ConstraintResults
  /\ stage' = "audit"
  /\ UNCHANGED <<policy, tree, steps, todo, vendored, modules, privates, error>>

RefuseUnmatched ==
  /\ stage = "policy"
  /\ Unmatched
  /\ Fail("config")

(* `go mod verify' fails closed; findings of the others are warnings.      *)
AuditStatus(v, finds) ==
  IF v \notin finds THEN "passed" ELSE IF v.ecosystem = "go" THEN "failed" ELSE "warning"

Audited == {"go", "npm", "cargo", "maven"}

(* _AUDITORS has no entry for the ecosystem: a KeyError.                   *)
Unaudited == policy.audit /\ \E v \in modules : v.ecosystem \notin Audited

Audit(finds) ==
  /\ stage = "audit"
  /\ ~Unaudited
  /\ results' = IF policy.audit
                  THEN results \cup {Result("audit", v, AuditStatus(v, finds)) : v \in modules}
                  ELSE results
  /\ stage' = "licenses"
  /\ UNCHANGED <<policy, tree, steps, todo, vendored, modules, privates, error>>

(* An ecosystem without auditor, or no cargo-audit on PATH.                *)
AuditRaises(reason) ==
  /\ stage = "audit" /\ policy.audit
  /\ CASE reason = "crash" -> Unaudited
       [] reason = "config" -> \E v \in modules : v.ecosystem = "cargo"
  /\ Fail(reason)

(* Faulty variant: nothing is looked at.                                   *)
LicenseResults_None == {}

LicenseResults ==
  {Result("license-compliance", v, "failed") :
     v \in {u \in modules : u.ecosystem \in {"npm", "cargo"} /\ u.installed \cap Disallowed # {}}}

CheckLicenses ==
  /\ stage = "licenses"
  /\ results' = IF policy.licenses THEN results \cup LicenseResults ELSE results
  /\ stage' = "conclude"
  /\ UNCHANGED <<policy, tree, steps, todo, vendored, modules, privates, error>>

Failures == {r \in results : r.status = "failed"}

(* Failures of all three checks are raised at once, as one violation.      *)
Conclude ==
  /\ stage = "conclude"
  /\ IF Failures # {}
       THEN Fail("policy")
       ELSE /\ stage' = "done"
            /\ UNCHANGED <<policy, tree, steps, todo, vendored, modules, privates, results, error>>

Next ==
  \/ \E ms \in SUBSET Modules : BeginVendor(ms)
  \/ \E ecosystem \in Ecosystems, module \in todo, copies \in SUBSET Copies :
        VendorModule(ecosystem, module, copies)
  \/ VendorFails
  \/ FinishVendor
  \/ \E module \in Modules : OfflineCache(module)
  \/ OfflineCacheFails
  \/ \E module \in Modules, copies \in SUBSET Copies : ChangeSource(module, copies)
  \/ EndTransform
  \/ SkipPolicy
  \/ CheckConstraints
  \/ RefuseUnmatched
  \/ \E finds \in SUBSET modules : Audit(finds)
  \/ \E reason \in {"crash", "config"} : AuditRaises(reason)
  \/ CheckLicenses
  \/ Conclude

Spec == Init /\ [][Next]_vars
-----------------------------------------------------------------------------

IsVendoredModule(v) ==
  /\ v.ecosystem \in Ecosystems \cup {"pnpm"} /\ v.module \in Modules
  /\ v.step \in 1..steps /\ v.live \in BOOLEAN
  /\ v.shipped \subseteq Copies /\ v.locked \subseteq Copies /\ v.installed \subseteq Copies

(***************************************************************************)
(* The type invariant; what policy gets belongs to a step that is over.    *)
(***************************************************************************)
TypeOK ==
  /\ stage \in {"transform", "policy", "audit", "licenses", "conclude", "done", "failed"}
  /\ policy \in Policies
  /\ tree \in [Modules -> SUBSET Copies]
  /\ steps \in 0..MaxSteps
  /\ todo \subseteq Modules
  /\ \A v \in modules \cup vendored : IsVendoredModule(v)
  /\ privates \subseteq 1..steps
  /\ \A v \in modules : Idle \/ v.step < steps
  /\ \A r \in results : r.of \in modules /\ r.status \in {"passed", "warning", "failed"}

(* The module's workspace still is what its archive was made from.         *)
Faithful(v) == v.live => tree[v.module] = v.shipped

(***************************************************************************)
(* When the policy passes, every copy in every archive satisfies every     *)
(* entry for its ecosystem, whatever other steps did to the source tree in *)
(* the meantime and however a package manager resolved again; except for   *)
(* an offline cache whose source was changed after it was built.           *)
(***************************************************************************)
ShippedMeetsConstraints ==
  stage = "done" =>
    \A entry \in policy.entries :
      /\ Matching(entry) # {}
      /\ \A v \in modules :
           v.ecosystem = entry.ecosystem /\ Faithful(v) =>
             v.shipped # {} /\ \A version \in v.shipped : SatisfiesConstraint(version, entry)

(***************************************************************************)
(* A crate with a disallowed license is not shipped by a run that passes.  *)
(***************************************************************************)
DisallowedCratesAreCaught ==
  stage = "done" /\ policy.licenses =>
    \A v \in modules : v.ecosystem = "cargo" => v.shipped \cap Disallowed = {}

(***************************************************************************)
(* README.md:447: a vendored dependency whose declared license is          *)
(* disallowed is flagged, for npm and Cargo.                               *)
(***************************************************************************)
DisallowedIsFlagged ==
  stage = "done" /\ policy.licenses =>
    \A v \in modules : v.ecosystem \in {"npm", "cargo"} => v.shipped \cap Disallowed = {}

(***************************************************************************)
(* A policy violation names a real one: an archive (of an offline cache,   *)
(* also its source as it is now) with a copy below its floor or without    *)
(* any, a disallowed license, or a go module that does not verify.  An     *)
(* audit finding of another ecosystem never is one.                        *)
(***************************************************************************)
Broken(v) ==
  \/ \E entry \in policy.entries :
       /\ v.ecosystem = entry.ecosystem
       /\ \E copies \in {v.shipped} \cup (IF v.live THEN {tree[v.module]} ELSE {}) :
            copies = {} \/ \E version \in copies : ~SatisfiesConstraint(version, entry)
  \/ policy.licenses /\ v.shipped \cap Disallowed # {}
  \/ policy.audit /\ v.ecosystem = "go"

ViolationsAreReal == error = "policy" => \E v \in modules : Broken(v)

(***************************************************************************)
(* The private copy that a module's path leads to exists for as long as    *)
(* checks read it, after its step and through later steps.                 *)
(***************************************************************************)
WorkspacesOutliveSteps ==
  stage # "failed" => \A v \in modules : v.live \/ v.step \in privates
=============================================================================
