---------------------------- MODULE VendoringProofs ----------------------------
(***************************************************************************)
(* What a policy that passes, or fails, says about the archives, for any   *)
(* modules, versions, policies and interleaving of steps.                  *)
(*                                                                         *)
(* A module's record is true: its workspace exists and, unless it is the   *)
(* live tree, locks what was shipped.  Results then carry the verdicts of  *)
(* all modules from one check to the next, and every failed one is         *)
(* justified.  Last, what it means for a version to meet a constraint.     *)
(***************************************************************************)
EXTENDS VersionConstraints, TLAPS

Checking == {"audit", "licenses", "conclude", "done"}

Typed ==
  /\ stage \in {"transform", "policy", "failed"} \cup Checking
  /\ policy \in Policies
  /\ tree \in [Modules -> SUBSET Copies]
  /\ steps \in 0..MaxSteps
  /\ todo \subseteq Modules
  /\ \A v \in modules \cup vendored : IsVendoredModule(v)
  /\ privates \subseteq 1..steps
  /\ \A v \in modules : Idle \/ v.step < steps
  /\ stage \in {"transform", "failed"} \/ Idle
  /\ todo # {} => steps \in 1..MaxSteps

(* What a record says of its module.                                       *)
True(v) ==
  /\ v.live \/ v.locked = v.shipped
  /\ v.installed \subseteq v.shipped
  /\ v.ecosystem = "cargo" => ~v.live /\ v.installed = v.shipped

Workspaces ==
  /\ \A v \in modules \cup vendored : True(v)
  /\ stage # "failed" =>
       /\ \A v \in modules \cup vendored : v.live \/ v.step \in privates
       /\ todo # {} => steps \in privates

Verdicts ==
  /\ stage \in {"transform", "policy"} => results = {}
  /\ stage \in Checking => ~Unmatched /\ ConstraintResults \subseteq results
  /\ stage \in {"conclude", "done"} /\ policy.licenses => LicenseResults \subseteq results
  /\ stage = "done" => Failures = {}

Justified ==
  /\ \A r \in results : /\ r.of \in modules /\ r.status \in {"passed", "warning", "failed"}
                        /\ r.status = "failed" => Broken(r.of)
  /\ error = "policy" => stage = "failed" /\ \E v \in modules : Broken(v)

IInv == Typed /\ Workspaces /\ Verdicts /\ Justified
-----------------------------------------------------------------------------

LEMMA RecordsStayTyped ==
  ASSUME Typed, steps' \in Nat, steps <= steps', NEW v \in modules \cup vendored
  PROVE  IsVendoredModule(v)'
BY BoundAssumption DEF Typed, IsVendoredModule

LEMMA TypedStep == ASSUME Typed, [Next]_vars PROVE Typed'
<1> USE DEF Checking, Nothing
<1>1. CASE UNCHANGED vars
  BY <1>1 DEF vars, Typed, IsVendoredModule, Idle
<1>2. steps \in Nat
  BY BoundAssumption DEF Typed
<1>a. ASSUME NEW ms \in SUBSET Modules, BeginVendor(ms) PROVE Typed'
  <2>1. /\ stage' = stage /\ policy' = policy /\ tree' = tree /\ modules' = modules
        /\ vendored' = vendored /\ todo' = ms /\ steps' = steps + 1 /\ stage = "transform"
        /\ privates' = privates \cup {steps + 1} /\ vendored = {} /\ steps < MaxSteps
    BY <1>a DEF BeginVendor, Idle
  <2>2. \A v \in modules' \cup vendored' : IsVendoredModule(v)'
    BY <1>2, <2>1, RecordsStayTyped
  <2>3. steps' \in 1..MaxSteps /\ privates' \subseteq 1..steps'
    BY <1>2, <2>1, BoundAssumption DEF Typed
  <2>4. \A v \in modules' : v.step < steps'
    BY <1>2, <2>1 DEF Typed, IsVendoredModule
  <2> QED
    BY <2>1, <2>2, <2>3, <2>4 DEF Typed
<1>b. ASSUME NEW ecosystem \in Ecosystems, NEW module \in todo, NEW copies \in SUBSET Copies,
             VendorModule(ecosystem, module, copies)
      PROVE  Typed'
  <2>0. PICK w : w = VendoredModule(ecosystem, module, copies, LeftInstalled(ecosystem, copies))
    OBVIOUS
  <2>1. /\ stage' = stage /\ policy' = policy /\ tree' = tree /\ modules' = modules /\ steps' = steps
        /\ privates' = privates /\ todo' = todo \ {module} /\ vendored' = vendored \cup {w}
    BY <1>b, <2>0 DEF VendorModule
  <2>2. /\ w.ecosystem = ecosystem /\ w.module = module /\ w.step = steps /\ w.live = FALSE
        /\ w.shipped = copies /\ w.locked = copies /\ w.installed \subseteq copies
    BY <2>0 DEF VendoredModule, LeftInstalled
  <2>3. steps \in 1..MaxSteps
    BY DEF Typed
  <2>4. steps \in 1..steps
    BY <2>3, BoundAssumption
  <2>5. IsVendoredModule(w)'
    BY <2>1, <2>2, <2>4 DEF IsVendoredModule, Typed
  <2>6. \A v \in modules \cup vendored : IsVendoredModule(v)'
    BY <1>2, <2>1, RecordsStayTyped
  <2>7. \A v \in modules' : v.step < steps'
    BY <2>1 DEF Typed, Idle
  <2>8. stage' \in {"transform", "failed"}
    BY <2>1 DEF Typed, Idle
  <2> QED
    BY <2>1, <2>3, <2>5, <2>6, <2>7, <2>8 DEF Typed
<1>c. CASE VendorFails \/ OfflineCacheFails \/ RefuseUnmatched \/ Conclude
             \/ \E reason \in {"crash", "config"} : AuditRaises(reason)
  <2>1. /\ UNCHANGED <<policy, tree, steps, todo, vendored, modules>>
        /\ \/ stage' = "failed" /\ privates' = {}
           \/ stage = "conclude" /\ stage' = "done" /\ privates' = privates
    BY <1>c DEF VendorFails, OfflineCacheFails, RefuseUnmatched, Conclude, AuditRaises, Fail
  <2>2. Idle' <=> Idle
    BY <2>1 DEF Idle
  <2>3. \A v \in modules' \cup vendored' : IsVendoredModule(v)'
    BY <1>2, <2>1, RecordsStayTyped
  <2> QED
    BY <2>1, <2>2, <2>3 DEF Typed
<1>d. CASE FinishVendor
  <2>1. /\ stage' = stage /\ policy' = policy /\ tree' = tree /\ steps' = steps /\ todo' = todo
        /\ modules' = modules \cup vendored /\ vendored' = {} /\ privates' = privates
        /\ todo = {} /\ stage = "transform"
    BY <1>d DEF FinishVendor, Reset, Retained
  <2>2. \A v \in modules' \cup vendored' : IsVendoredModule(v)'
    BY <1>2, <2>1, RecordsStayTyped
  <2>3. Idle'
    BY <2>1 DEF Idle
  <2> QED
    BY <2>1, <2>2, <2>3 DEF Typed
<1>e. ASSUME NEW module \in Modules, OfflineCache(module) PROVE Typed'
  <2>0. PICK w : w = [ecosystem |-> "pnpm", module |-> module, step |-> steps + 1, live |-> TRUE,
                      shipped |-> tree[module], locked |-> {}, installed |-> {}]
    OBVIOUS
  <2>1. /\ stage' = stage /\ policy' = policy /\ tree' = tree /\ todo' = todo /\ vendored' = vendored
        /\ modules' = modules \cup {w} /\ privates' = privates /\ steps' = steps + 1
        /\ steps < MaxSteps /\ todo = {} /\ vendored = {} /\ stage = "transform"
    BY <1>e, <2>0 DEF OfflineCache, Idle
  <2>2. steps' \in 1..MaxSteps /\ privates' \subseteq 1..steps' /\ steps + 1 \in 1..steps'
    BY <1>2, <2>1, BoundAssumption DEF Typed
  <2>3. IsVendoredModule(w)'
    BY <2>0, <2>1, <2>2 DEF IsVendoredModule, Typed
  <2>4. \A v \in modules \cup vendored : IsVendoredModule(v)'
    BY <1>2, <2>1, RecordsStayTyped
  <2>5. Idle'
    BY <2>1 DEF Idle
  <2> QED
    BY <2>1, <2>2, <2>3, <2>4, <2>5 DEF Typed
<1>f. ASSUME NEW module \in Modules, NEW copies \in SUBSET Copies, ChangeSource(module, copies)
      PROVE  Typed'
  <2>1. UNCHANGED <<stage, policy, steps, todo, vendored, modules, privates>>
    BY <1>f DEF ChangeSource
  <2>2. tree' \in [Modules -> SUBSET Copies]
    BY <1>f DEF ChangeSource, Typed
  <2>3. \A v \in modules' \cup vendored' : IsVendoredModule(v)'
    BY <1>2, <2>1, RecordsStayTyped
  <2>4. Idle' <=> Idle
    BY <2>1 DEF Idle
  <2> QED
    BY <2>1, <2>2, <2>3, <2>4 DEF Typed
<1>g. CASE EndTransform \/ SkipPolicy \/ CheckConstraints \/ CheckLicenses
             \/ \E finds \in SUBSET modules : Audit(finds)
  <2>1. /\ UNCHANGED <<policy, tree, steps, todo, vendored, modules, privates>> /\ Idle
        /\ stage' \in {"policy"} \cup Checking
    BY <1>g DEF EndTransform, SkipPolicy, CheckConstraints, CheckLicenses, Audit, Typed
  <2>2. \A v \in modules' \cup vendored' : IsVendoredModule(v)'
    BY <1>2, <2>1, RecordsStayTyped
  <2>3. Idle'
    BY <2>1 DEF Idle
  <2> QED
    BY <2>1, <2>2, <2>3 DEF Typed
<1> QED
  BY <1>1, <1>a, <1>b, <1>c, <1>d, <1>e, <1>f, <1>g DEF Next

LEMMA WorkspacesStep == ASSUME Typed, Workspaces, [Next]_vars PROVE Workspaces'
<1> USE DEF Checking, Nothing
<1>1. CASE UNCHANGED vars
  BY <1>1 DEF vars, Workspaces
<1>a. ASSUME NEW ms \in SUBSET Modules, BeginVendor(ms) PROVE Workspaces'
  BY <1>a DEF BeginVendor, Workspaces
<1>b. ASSUME NEW ecosystem \in Ecosystems, NEW module \in todo, NEW copies \in SUBSET Copies,
             VendorModule(ecosystem, module, copies)
      PROVE  Workspaces'
  <2> DEFINE w == VendoredModule(ecosystem, module, copies, LeftInstalled(ecosystem, copies))
  <2>1. /\ stage' = stage /\ modules' = modules /\ steps' = steps /\ privates' = privates
        /\ vendored' = vendored \cup {w} /\ todo' = todo \ {module}
    BY <1>b DEF VendorModule
  <2>2. True(w) /\ w.step = steps
    BY DEF VendoredModule, LeftInstalled, True
  <2> QED
    BY <2>1, <2>2 DEF Workspaces
<1>c. CASE VendorFails \/ OfflineCacheFails \/ RefuseUnmatched \/ Conclude
             \/ \E reason \in {"crash", "config"} : AuditRaises(reason)
  BY <1>c DEF VendorFails, OfflineCacheFails, RefuseUnmatched, Conclude, AuditRaises, Fail, Workspaces
<1>d. CASE FinishVendor
  BY <1>d DEF FinishVendor, Reset, Retained, Workspaces
<1>e. ASSUME NEW module \in Modules, OfflineCache(module) PROVE Workspaces'
  <2> DEFINE w == [ecosystem |-> "pnpm", module |-> module, step |-> steps + 1, live |-> TRUE,
                   shipped |-> tree[module], locked |-> {}, installed |-> {}]
  <2>1. True(w) /\ w.live
    BY DEF True
  <2>2. stage' = stage /\ privates' = privates /\ modules' = modules \cup {w} /\ vendored' = vendored
        /\ todo' = {}
    BY <1>e DEF OfflineCache, Idle
  <2> QED
    BY <2>1, <2>2 DEF Workspaces
<1>f. ASSUME NEW module \in Modules, NEW copies \in SUBSET Copies, ChangeSource(module, copies)
      PROVE  Workspaces'
  BY <1>f DEF ChangeSource, Workspaces
<1>g. CASE EndTransform \/ SkipPolicy \/ CheckConstraints \/ CheckLicenses
             \/ \E finds \in SUBSET modules : Audit(finds)
  BY <1>g DEF EndTransform, SkipPolicy, CheckConstraints, CheckLicenses, Audit, Typed, Workspaces
<1> QED
  BY <1>1, <1>a, <1>b, <1>c, <1>d, <1>e, <1>f, <1>g DEF Next

(* Once the stage is over, nothing a check depends on changes.             *)
LEMMA ChecksFrame ==
  ASSUME UNCHANGED <<policy, tree, modules>>
  PROVE  /\ ConstraintResults' = ConstraintResults
         /\ LicenseResults' = LicenseResults
         /\ Unmatched' <=> Unmatched
         /\ \A v : Broken(v)' <=> Broken(v)
BY DEF ConstraintResults, LicenseResults, Unmatched, Broken, Matching, Inspected

LEMMA VerdictsStep == ASSUME Typed, Verdicts, [Next]_vars PROVE Verdicts'
<1> USE DEF Checking
<1>1. CASE UNCHANGED vars
  BY <1>1, ChecksFrame DEF vars, Verdicts, Failures
<1>a. CASE stage = "transform"
  <2>1. results' = results /\ stage' \in {"transform", "policy", "failed"}
    BY <1>a DEF Next, BeginVendor, VendorModule, VendorFails, FinishVendor, OfflineCache,
         OfflineCacheFails, ChangeSource, EndTransform, SkipPolicy, CheckConstraints,
         RefuseUnmatched, Audit, AuditRaises, CheckLicenses, Conclude, Fail, vars
  <2> QED
    BY <1>a, <2>1 DEF Verdicts
<1>b. CASE stage # "transform" /\ stage' = "failed"
  BY <1>b DEF Verdicts
<1>c. CASE SkipPolicy
  <2>1. ConstraintResults = {} /\ ~Unmatched /\ ~policy.licenses
    BY <1>c DEF SkipPolicy, Configured, ConstraintResults, Unmatched
  <2>2. results' = {} /\ stage' = "done" /\ UNCHANGED <<policy, tree, modules>>
    BY <1>c DEF SkipPolicy, Verdicts
  <2>3. Failures' = {}
    BY <2>2 DEF Failures
  <2> QED
    BY <2>1, <2>2, <2>3, ChecksFrame DEF Verdicts
<1>d. CASE CheckConstraints
  BY <1>d, ChecksFrame DEF CheckConstraints, Verdicts
<1>e. ASSUME NEW finds \in SUBSET modules, Audit(finds) PROVE Verdicts'
  BY <1>e, ChecksFrame DEF Audit, Verdicts
<1>f. CASE CheckLicenses
  <2>1. /\ stage = "licenses" /\ stage' = "conclude" /\ UNCHANGED <<policy, tree, modules>>
        /\ results \subseteq results'
        /\ (policy.licenses => LicenseResults \subseteq results')
    BY <1>f DEF CheckLicenses
  <2> QED
    BY <2>1, ChecksFrame DEF Verdicts
<1>g. CASE Conclude /\ stage' = "done"
  <2>1. UNCHANGED <<policy, tree, modules, results>> /\ Failures = {} /\ stage = "conclude"
    BY <1>g DEF Conclude, Fail
  <2>2. Failures' = {}
    BY <2>1 DEF Failures
  <2> QED
    BY <1>g, <2>1, <2>2, ChecksFrame DEF Verdicts
<1> QED
  BY <1>1, <1>a, <1>b, <1>c, <1>d, <1>e, <1>f, <1>g DEF Next, BeginVendor, VendorModule, VendorFails,
     FinishVendor, OfflineCache, OfflineCacheFails, ChangeSource, EndTransform, RefuseUnmatched,
     AuditRaises, Conclude, Fail, Idle

LEMMA JustifiedStep ==
  ASSUME Typed, Workspaces, Verdicts, Justified, [Next]_vars PROVE Justified'
<1> USE DEF Checking
<1>1. CASE UNCHANGED vars
  BY <1>1, ChecksFrame DEF vars, Justified
<1>2. ASSUME stage # "failed" PROVE error # "policy"
  BY <1>2 DEF Justified
<1>a. CASE stage = "transform"
  <2>1. results' = {} /\ error' # "policy"
    BY <1>1, <1>2, <1>a DEF Next, BeginVendor, VendorModule, VendorFails, FinishVendor, OfflineCache,
         OfflineCacheFails, ChangeSource, EndTransform, SkipPolicy, CheckConstraints,
         RefuseUnmatched, Audit, AuditRaises, CheckLicenses, Conclude, Fail, Verdicts, vars
  <2> QED
    BY <2>1 DEF Justified
<1>b. CASE SkipPolicy \/ RefuseUnmatched \/ \E reason \in {"crash", "config"} : AuditRaises(reason)
  <2>1. UNCHANGED <<policy, tree, modules, results>> /\ error' # "policy"
    BY <1>2, <1>b DEF SkipPolicy, RefuseUnmatched, AuditRaises, Fail
  <2> QED
    BY <2>1, ChecksFrame DEF Justified
<1>c. CASE CheckConstraints
  <2>1. UNCHANGED <<policy, tree, modules>> /\ error' # "policy" /\ results' = ConstraintResults
    BY <1>2, <1>c DEF CheckConstraints
  <2>2. ASSUME NEW r \in ConstraintResults
        PROVE  /\ r.of \in modules /\ r.status \in {"passed", "warning", "failed"}
               /\ r.status = "failed" => Broken(r.of)
    <3>0. PICK entry \in policy.entries : \E v \in Matching(entry) :
            r = Result("vendor-constraints", v, Verdict(Meets(Inspected(v), entry)))
      BY <2>2 DEF ConstraintResults
    <3>1. PICK v \in Matching(entry) :
            r = Result("vendor-constraints", v, Verdict(Meets(Inspected(v), entry)))
      BY <3>0
    <3>2. /\ r.of = v /\ v \in modules /\ v.ecosystem = entry.ecosystem
          /\ r.status = IF Meets(Inspected(v), entry) THEN "passed" ELSE "failed"
      BY <3>1 DEF Result, Verdict, Matching
    <3>3. Inspected(v) \in {v.shipped} \cup (IF v.live THEN {tree[v.module]} ELSE {})
      BY <3>2 DEF Inspected, Workspaces, True
    <3> QED
      BY <3>2, <3>3 DEF Broken, Meets
  <2> QED
    BY <2>1, <2>2, ChecksFrame DEF Justified
<1>d. ASSUME NEW finds \in SUBSET modules, Audit(finds) PROVE Justified'
  <2>1. UNCHANGED <<policy, tree, modules>> /\ error' # "policy"
    BY <1>2, <1>d DEF Audit
  <2>2. ASSUME NEW r \in results', r \notin results
        PROVE  /\ r.of \in modules /\ r.status \in {"passed", "warning", "failed"}
               /\ r.status = "failed" => Broken(r.of)
    <3>1. policy.audit
      BY <1>d, <2>2 DEF Audit
    <3>2. PICK v \in modules : r = Result("audit", v, AuditStatus(v, finds))
      BY <1>d, <2>2, <3>1 DEF Audit
    <3>3. r.of = v /\ r.status = AuditStatus(v, finds)
      BY <3>2 DEF Result
    <3> QED
      BY <3>1, <3>3 DEF AuditStatus, Broken
  <2> QED
    BY <2>1, <2>2, ChecksFrame DEF Justified
<1>e. CASE CheckLicenses
  <2>1. UNCHANGED <<policy, tree, modules>> /\ error' # "policy"
    BY <1>2, <1>e DEF CheckLicenses
  <2>2. ASSUME NEW r \in results', r \notin results
        PROVE  /\ r.of \in modules /\ r.status = "failed" /\ Broken(r.of)
    <3>1. policy.licenses /\ r \in LicenseResults
      BY <1>e, <2>2 DEF CheckLicenses
    <3>2. PICK v \in modules : /\ r = Result("license-compliance", v, "failed")
                               /\ v.installed \cap Disallowed # {}
      BY <3>1 DEF LicenseResults
    <3>3. v.shipped \cap Disallowed # {}
      BY <3>2 DEF Workspaces, True
    <3> QED
      BY <3>1, <3>2, <3>3 DEF Result, Broken
  <2> QED
    BY <2>1, <2>2, ChecksFrame DEF Justified
<1>f. CASE Conclude
  <2>2. CASE Failures = {}
    BY <1>2, <1>f, <2>2, ChecksFrame DEF Conclude, Justified
  <2>3. CASE Failures # {}
    <3>1. UNCHANGED <<policy, tree, modules, results>> /\ stage' = "failed"
      BY <1>f, <2>3 DEF Conclude, Fail
    <3>2. PICK r \in results : r.status = "failed"
      BY <2>3 DEF Failures
    <3>3. r.of \in modules /\ Broken(r.of)
      BY <3>2 DEF Justified
    <3> QED
      BY <3>1, <3>3, ChecksFrame DEF Justified
  <2> QED
    BY <2>2, <2>3
<1> QED
  BY <1>1, <1>a, <1>b, <1>c, <1>d, <1>e, <1>f DEF Next, BeginVendor, VendorModule, VendorFails,
     FinishVendor, OfflineCache, OfflineCacheFails, ChangeSource, EndTransform, Typed, Idle

(***************************************************************************)
(* The inductive invariant: private copies of finished steps are kept, and *)
(* every verdict recorded so far is justified by its module.               *)
(***************************************************************************)
THEOREM Invariance == Spec => []IInv
<1>1. Init => IInv
  <2> SUFFICES ASSUME Init PROVE IInv
    OBVIOUS
  <2>1. Typed
    BY BoundAssumption DEF Init, Typed, Idle, Nothing
  <2> QED
    BY <2>1 DEF Init, IInv, Workspaces, Verdicts, Justified, Checking, Nothing
<1>2. IInv /\ [Next]_vars => IInv'
  BY TypedStep, WorkspacesStep, VerdictsStep, JustifiedStep DEF IInv
<1> QED
  BY <1>1, <1>2, PTL DEF Spec
-----------------------------------------------------------------------------

(***************************************************************************)
(* Types, and: policy gets the modules of steps that are over.             *)
(***************************************************************************)
THEOREM Types == Spec => []TypeOK
<1>1. IInv => TypeOK
  BY DEF IInv, Typed, Justified, TypeOK, Checking
<1> QED
  BY <1>1, Invariance, PTL

(***************************************************************************)
(* The private copy behind every module's path is there while checks run.  *)
(***************************************************************************)
THEOREM WorkspacesStay == Spec => []WorkspacesOutliveSteps
<1>1. IInv => WorkspacesOutliveSteps
  BY DEF IInv, Workspaces, WorkspacesOutliveSteps
<1> QED
  BY <1>1, Invariance, PTL

(***************************************************************************)
(* A policy that passes holds for everything that is shipped, but for      *)
(* offline caches whose source changed afterwards.                         *)
(***************************************************************************)
THEOREM PassedPoliciesHold == Spec => []ShippedMeetsConstraints
<1>1. IInv => ShippedMeetsConstraints
  <2> SUFFICES ASSUME IInv, stage = "done", NEW entry \in policy.entries
               PROVE  /\ Matching(entry) # {}
                      /\ \A v \in modules :
                           v.ecosystem = entry.ecosystem /\ Faithful(v) =>
                             v.shipped # {} /\ \A version \in v.shipped : SatisfiesConstraint(version, entry)
    BY DEF ShippedMeetsConstraints
  <2> USE DEF IInv
  <2>1. ~Unmatched /\ ConstraintResults \subseteq results /\ Failures = {}
    BY DEF Verdicts, Checking
  <2>2. Matching(entry) # {}
    BY <2>1 DEF Unmatched
  <2>3. ASSUME NEW v \in modules, v.ecosystem = entry.ecosystem, Faithful(v)
        PROVE  v.shipped # {} /\ \A version \in v.shipped : SatisfiesConstraint(version, entry)
    <3> DEFINE r == Result("vendor-constraints", v, Verdict(Meets(Inspected(v), entry)))
    <3>1. r \in results
      BY <2>1, <2>3 DEF ConstraintResults, Matching
    <3>2. r.status # "failed"
      BY <2>1, <3>1 DEF Failures
    <3>3. Meets(Inspected(v), entry)
      BY <3>2 DEF Result, Verdict
    <3>4. Inspected(v) = v.shipped
      BY <2>3 DEF Inspected, Faithful, Workspaces, True
    <3> QED
      BY <3>3, <3>4 DEF Meets
  <2> QED
    BY <2>2, <2>3
<1> QED
  BY <1>1, Invariance, PTL

(***************************************************************************)
(* A crate with a disallowed license does not pass the policy.             *)
(***************************************************************************)
THEOREM CratesAreChecked == Spec => []DisallowedCratesAreCaught
<1>1. IInv => DisallowedCratesAreCaught
  <2> SUFFICES ASSUME IInv, stage = "done", policy.licenses, NEW v \in modules,
                      v.ecosystem = "cargo", v.shipped \cap Disallowed # {}
               PROVE  FALSE
    BY DEF DisallowedCratesAreCaught
  <2> USE DEF IInv
  <2>1. v.installed \cap Disallowed # {}
    BY DEF Workspaces, True
  <2>2. Result("license-compliance", v, "failed") \in LicenseResults
    BY <2>1 DEF LicenseResults
  <2>3. Result("license-compliance", v, "failed") \in Failures
    BY <2>2 DEF Verdicts, Failures, Result
  <2> QED
    BY <2>3 DEF Verdicts
<1> QED
  BY <1>1, Invariance, PTL

(***************************************************************************)
(* A policy violation has a cause in some archive.                         *)
(***************************************************************************)
THEOREM ViolationsHaveCauses == Spec => []ViolationsAreReal
<1>1. IInv => ViolationsAreReal
  BY DEF IInv, Justified, ViolationsAreReal
<1> QED
  BY <1>1, Invariance, PTL
-----------------------------------------------------------------------------

(***************************************************************************)
(* The comparison of versions of up to three parts of any size.            *)
(***************************************************************************)

(* Part k of a version, 0 if it has less.                                  *)
Padding(v, k) == IF k <= Len(v) THEN v[k] ELSE 0

(* The order of the first three parts, the first part first.               *)
NotBelow(v, w) ==
  \/ Padding(v, 1) > Padding(w, 1)
  \/ /\ Padding(v, 1) = Padding(w, 1)
     /\ \/ Padding(v, 2) > Padding(w, 2)
        \/ Padding(v, 2) = Padding(w, 2) /\ Padding(v, 3) >= Padding(w, 3)

(* A part is a number that the version has, or 0.                          *)
LEMMA PaddingType ==
  ASSUME NEW S \in SUBSET Nat, NEW v \in Seq(S), NEW k \in 1..3
  PROVE  Padding(v, k) \in S \cup {0}
BY DEF Padding

(* Digits compare like the number they stand for.                          *)
LEMMA DigitOrder ==
  ASSUME NEW b \in Nat, NEW x \in Nat, NEW y \in Nat, NEW r \in Nat, NEW s \in Nat,
         r < b, s < b
  PROVE  x * b + r >= y * b + s <=> x > y \/ (x = y /\ r >= s)
<1>1. x * b \in Nat /\ y * b \in Nat
  OBVIOUS
<1>2. ASSUME NEW u \in Nat, NEW v \in Nat, u > v PROVE u * b >= v * b + b
  <2>1. PICK d \in Nat : u = v + 1 + d
    <3>1. u - v - 1 \in Nat /\ u = v + 1 + (u - v - 1)
      BY <1>2
    <3> QED BY <3>1
  <2>2. u * b = v * b + b + d * b
    BY <2>1
  <2>3. d * b \in Nat /\ v * b \in Nat
    OBVIOUS
  <2> QED BY <2>2, <2>3
<1>3. CASE x > y
  <2>1. x * b >= y * b + b
    BY <1>2, <1>3
  <2>2. x * b + r >= y * b + s
    BY <1>1, <2>1
  <2> QED BY <1>3, <2>2, Zenon
<1>4. CASE x = y
  BY <1>1, <1>4
<1>5. CASE y > x
  <2>1. y * b >= x * b + b
    BY <1>2, <1>5
  <2>2. ~(x * b + r >= y * b + s)
    BY <1>1, <2>1
  <2> QED BY <1>5, <2>2
<1> QED BY <1>3, <1>4, <1>5

(* And so do three of them.                                                *)
LEMMA TripleOrder ==
  ASSUME NEW b \in Nat,
         NEW x1 \in Nat, NEW x2 \in Nat, NEW x3 \in Nat, x2 < b, x3 < b,
         NEW y1 \in Nat, NEW y2 \in Nat, NEW y3 \in Nat, y2 < b, y3 < b
  PROVE  (x1 * b + x2) * b + x3 >= (y1 * b + y2) * b + y3
           <=> x1 > y1 \/ (x1 = y1 /\ (x2 > y2 \/ (x2 = y2 /\ x3 >= y3)))
<1>1. PICK p \in Nat, q \in Nat : p = x1 * b + x2 /\ q = y1 * b + y2
  <2>1. x1 * b \in Nat /\ y1 * b \in Nat
    OBVIOUS
  <2> QED BY <2>1
<1>2. p * b + x3 >= q * b + y3 <=> p > q \/ (p = q /\ x3 >= y3)
  BY DigitOrder
<1>3. p >= q <=> x1 > y1 \/ (x1 = y1 /\ x2 >= y2)
  BY <1>1, DigitOrder
<1>4. q >= p <=> y1 > x1 \/ (y1 = x1 /\ y2 >= x2)
  BY <1>1, DigitOrder
<1>5. p > q \/ (p = q /\ x3 >= y3)
        <=> x1 > y1 \/ (x1 = y1 /\ (x2 > y2 \/ (x2 = y2 /\ x3 >= y3)))
  BY <1>3, <1>4
<1> QED BY <1>1, <1>2, <1>5

(* Versions whose parts are digits compare like their numbers.             *)
LEMMA NumberOrder ==
  ASSUME NEW v \in Seq(0..MaxPart + 1), NEW w \in Seq(0..MaxPart + 1)
  PROVE  Number(v) >= Number(w) <=> NotBelow(v, w)
<1>1. MaxPart \in Nat /\ Base \in Nat
  BY SizeAssumption DEF Base
<1>2. ASSUME NEW u \in Seq(0..MaxPart + 1), NEW k \in 1..3
      PROVE  Padding(u, k) \in Nat /\ Padding(u, k) < Base
  <2>1. 0..MaxPart + 1 \in SUBSET Nat
    BY <1>1
  <2>2. Padding(u, k) \in (0..MaxPart + 1) \cup {0}
    BY <2>1, PaddingType
  <2> QED BY <1>1, <2>2 DEF Base
<1>3. ASSUME NEW u
      PROVE  Number(u) = (Padding(u, 1) * Base + Padding(u, 2)) * Base + Padding(u, 3)
  BY DEF Number, Padded, Padding
<1>4. /\ Padding(v, 1) \in Nat /\ Padding(v, 2) \in Nat /\ Padding(v, 3) \in Nat
      /\ Padding(v, 2) < Base /\ Padding(v, 3) < Base
      /\ Padding(w, 1) \in Nat /\ Padding(w, 2) \in Nat /\ Padding(w, 3) \in Nat
      /\ Padding(w, 2) < Base /\ Padding(w, 3) < Base
  BY <1>2
<1> DEFINE x1 == Padding(v, 1)  x2 == Padding(v, 2)  x3 == Padding(v, 3)
           y1 == Padding(w, 1)  y2 == Padding(w, 2)  y3 == Padding(w, 3)
<1>5. /\ Number(v) = (x1 * Base + x2) * Base + x3
      /\ Number(w) = (y1 * Base + y2) * Base + y3
  BY <1>3
<1>6. NotBelow(v, w) <=> x1 > y1 \/ (x1 = y1 /\ (x2 > y2 \/ (x2 = y2 /\ x3 >= y3)))
  BY DEF NotBelow
<1>7. /\ x1 \in Nat /\ x2 \in Nat /\ x3 \in Nat /\ y1 \in Nat /\ y2 \in Nat /\ y3 \in Nat
      /\ x2 < Base /\ x3 < Base /\ y2 < Base /\ y3 < Base
  BY <1>4
<1> HIDE DEF x1, x2, x3, y1, y2, y3
<1>8. (x1 * Base + x2) * Base + x3 >= (y1 * Base + y2) * Base + y3
        <=> x1 > y1 \/ (x1 = y1 /\ (x2 > y2 \/ (x2 = y2 /\ x3 >= y3)))
  BY <1>1, <1>7, TripleOrder
<1> QED BY <1>5, <1>6, <1>8, Zenon

(* The number of a version is one.                                         *)
LEMMA NumberType ==
  ASSUME NEW v \in Seq(0..MaxPart + 1)
  PROVE  Number(v) \in Nat
<1>1. MaxPart \in Nat /\ Base \in Nat
  BY SizeAssumption DEF Base
<1>2. Padding(v, 1) \in Nat /\ Padding(v, 2) \in Nat /\ Padding(v, 3) \in Nat
  BY <1>1, PaddingType
<1>3. Number(v) = (Padding(v, 1) * Base + Padding(v, 2)) * Base + Padding(v, 3)
  BY DEF Number, Padded, Padding
<1>4. PICK m \in Nat : m = Padding(v, 1) * Base + Padding(v, 2)
  <2>1. \A a, b, c \in Nat : a * b + c \in Nat
    <3>1. \A a, b \in Nat : a * b \in Nat
      OBVIOUS
    <3> QED BY <3>1
  <2> QED BY <1>1, <1>2, <2>1, Zenon
<1>5. m * Base \in Nat
  BY <1>1
<1> QED BY <1>2, <1>3, <1>4, <1>5

(* AtLeast on versions padded to one length.                               *)
LEMMA PaddedOrder ==
  ASSUME NEW v \in Seq(Nat), NEW w \in Seq(Nat), NEW n \in 1..3, Len(v) <= n, Len(w) <= n
  PROVE  AtLeast(Padded(v, n), Padded(w, n)) <=> NotBelow(v, w)
<1> DEFINE s == Padded(v, n)
           t == Padded(w, n)
           x(k) == Padding(v, k)
           y(k) == Padding(w, k)
<1>1. \A k \in 1..3 : x(k) \in Nat /\ y(k) \in Nat
  BY PaddingType, Nat \in SUBSET Nat
<1>2. /\ DOMAIN s = 1..n
      /\ \A k \in 1..n : s[k] = x(k) /\ t[k] = y(k)
      /\ s = t <=> \A k \in 1..n : s[k] = t[k]
  BY DEF Padded, Padding
<1>3. \A k \in 1..3 : k > n => x(k) = 0 /\ y(k) = 0
  BY DEF Padding
<1> HIDE DEF s, t, x, y
<1>4. AtLeast(s, t) <=>
        \/ \A k \in 1..n : x(k) = y(k)
        \/ \E i \in 1..n : x(i) > y(i) /\ \A j \in 1..i - 1 : x(j) = y(j)
  <2>1. \A i \in 1..n : \A j \in 1..i - 1 : j \in 1..n
    OBVIOUS
  <2> QED BY <1>2, <2>1 DEF AtLeast
<1>5. CASE n = 1
  <2>1. 1..n = {1} /\ 1..1 - 1 = {}
    BY <1>5
  <2> QED BY <1>1, <1>3, <1>4, <1>5, <2>1 DEF NotBelow, x, y, s, t
<1>6. CASE n = 2
  <2>1. 1..n = {1, 2} /\ 1..1 - 1 = {} /\ 1..2 - 1 = {1}
    BY <1>6
  <2> QED BY <1>1, <1>3, <1>4, <1>6, <2>1 DEF NotBelow, x, y, s, t
<1>7. CASE n = 3
  <2>1. 1..n = {1, 2, 3} /\ 1..1 - 1 = {} /\ 1..2 - 1 = {1} /\ 1..3 - 1 = {1, 2}
    BY <1>7
  <2> QED BY <1>1, <1>3, <1>4, <1>7, <2>1 DEF NotBelow, x, y, s, t
<1> QED BY <1>5, <1>6, <1>7

(* The parts that a `~' constraint holds fixed are the same.               *)
SameSeries(v, floor) ==
  /\ Padding(v, 1) = Padding(floor, 1)
  /\ Len(floor) > 1 => Padding(v, 2) = Padding(floor, 2)

(* Slices are the same if those parts are there and the same.              *)
LEMMA SlicesAgree ==
  ASSUME NEW v \in Seq(Nat), NEW floor \in Seq(Nat), Len(floor) \in 1..3,
         NEW n, n = IF Len(floor) = 1 THEN 1 ELSE 2
  PROVE  /\ Series(v, n) = Series(floor, n) => SameSeries(v, floor)
         /\ Len(v) >= n /\ SameSeries(v, floor) => Series(v, n) = Series(floor, n)
<1>1. /\ Len(v) \in Nat /\ Len(floor) \in 1..3 /\ n \in {1, 2} /\ n <= Len(floor)
      /\ Len(floor) > 1 => n = 2
  <2>1. Len(v) \in Nat /\ (Len(floor) = 1 \/ Len(floor) = 2 \/ Len(floor) = 3)
    OBVIOUS
  <2>2. CASE Len(floor) = 1
    BY <2>1, <2>2
  <2>3. CASE Len(floor) # 1
    <3>1. n = 2
      BY <2>3
    <3>2. Len(floor) > 1 /\ 2 <= Len(floor)
      <4>1. 2 > 1 /\ 3 > 1 /\ 2 <= 2 /\ 2 <= 3
        OBVIOUS
      <4> QED BY <2>1, <2>3, <4>1, Zenon
    <3> QED BY <2>1, <3>1, <3>2, Zenon
  <2> QED BY <2>2, <2>3
<1>2. ASSUME NEW u \in Seq(Nat), n <= Len(u)
      PROVE  /\ Series(u, n) \in Seq(Nat) /\ Len(Series(u, n)) = n
             /\ \A k \in 1..n : Series(u, n)[k] = Padding(u, k)
  BY <1>1, <1>2 DEF Series, Padding
<1>3. ASSUME Series(v, n) = Series(floor, n) PROVE SameSeries(v, floor)
  <2>1. n <= Len(v)
    <3>1. Len(Series(v, n)) = n
      BY <1>1, <1>2, <1>3
    <3> QED BY <1>1, <3>1 DEF Series
  <2>2. \A k \in 1..n : Padding(v, k) = Padding(floor, k)
    <3>1. \A k \in 1..n : Series(v, n)[k] = Padding(v, k)
      BY <1>2, <2>1, Zenon
    <3>2. \A k \in 1..n : Series(floor, n)[k] = Padding(floor, k)
      BY <1>1, <1>2, Zenon
    <3> QED BY <1>3, <3>1, <3>2, Zenon
  <2>3. 1 \in 1..n /\ (n = 2 => 2 \in 1..n)
    BY <1>1
  <2> QED BY <1>1, <2>2, <2>3 DEF SameSeries
<1>4. ASSUME Len(v) >= n, SameSeries(v, floor) PROVE Series(v, n) = Series(floor, n)
  <2>1. \A k \in 1..n : Padding(v, k) = Padding(floor, k)
    BY <1>1, <1>4 DEF SameSeries
  <2>2. /\ Series(v, n) \in Seq(Nat) /\ Len(Series(v, n)) = n
        /\ \A k \in 1..n : Series(v, n)[k] = Padding(v, k)
    BY <1>1, <1>2, <1>4
  <2>3. /\ Series(floor, n) \in Seq(Nat) /\ Len(Series(floor, n)) = n
        /\ \A k \in 1..n : Series(floor, n)[k] = Padding(floor, k)
    BY <1>1, <1>2
  <2> HIDE <1>2
  <2> QED BY <1>1, <2>1, <2>2, <2>3
<1> QED BY <1>3, <1>4

(* Not below the floor, a version is in the series if it is below its end. *)
LEMMA SeriesEnd ==
  ASSUME NEW v \in Seq(Nat), NEW floor \in Seq(Nat), Len(floor) \in 1..3, NotBelow(v, floor)
  PROVE  SameSeries(v, floor) <=> ~NotBelow(v, Limit(floor))
<1>1. \A k \in 1..3 : Padding(v, k) \in Nat /\ Padding(floor, k) \in Nat
  BY PaddingType, Nat \in SUBSET Nat
<1>2. CASE Len(floor) = 1
  <2>1. Limit(floor) = <<floor[1] + 1>>
    BY <1>2 DEF Limit
  <2>2. /\ Padding(Limit(floor), 1) = Padding(floor, 1) + 1
        /\ Padding(Limit(floor), 2) = 0 /\ Padding(Limit(floor), 3) = 0
    BY <1>2, <2>1 DEF Padding
  <2> QED BY <1>1, <1>2, <2>2 DEF NotBelow, SameSeries
<1>3. CASE Len(floor) # 1
  <2>1. Limit(floor) = <<floor[1], floor[2] + 1>> /\ Len(floor) > 1 /\ 1 <= Len(floor)
    BY <1>3 DEF Limit
  <2>2. /\ Padding(Limit(floor), 1) = Padding(floor, 1)
        /\ Padding(Limit(floor), 2) = Padding(floor, 2) + 1
        /\ Padding(Limit(floor), 3) = 0
    BY <1>3, <2>1 DEF Padding
  <2>3. /\ Padding(v, 1) \in Nat /\ Padding(v, 2) \in Nat /\ Padding(v, 3) \in Nat
        /\ Padding(floor, 1) \in Nat /\ Padding(floor, 2) \in Nat
    BY <1>1
  <2>4. NotBelow(v, Limit(floor)) <=>
          \/ Padding(v, 1) > Padding(floor, 1)
          \/ Padding(v, 1) = Padding(floor, 1) /\ Padding(v, 2) > Padding(floor, 2)
    BY <2>2, <2>3 DEF NotBelow
  <2>5. Padding(v, 1) >= Padding(floor, 1)
    BY <2>3 DEF NotBelow
  <2>6. Padding(v, 1) = Padding(floor, 1) => Padding(v, 2) >= Padding(floor, 2)
    BY <2>3 DEF NotBelow
  <2> QED BY <2>1, <2>3, <2>4, <2>5, <2>6 DEF SameSeries
<1> QED BY <1>2, <1>3

(***************************************************************************)
(* satisfies_constraint is the range that the constraint names, for parts  *)
(* of any size.  (What Parse does is a hypothesis: SelectSeq is recursive, *)
(* which no prover expands.)                                               *)
(***************************************************************************)
THEOREM ComparisonsAreExact ==
  ASSUME ParseKeepsNumbers
  PROVE  Spec => []ComparisonIsExact
<1>1. ASSUME NEW actual \in Actuals, NEW constraint \in Constraints
      PROVE  NeverTooLenient(actual, constraint) /\ NeverTooStrict(actual, constraint)
  <2> DEFINE v == Parse(actual)
             floor == constraint.floor
             n == IF Len(floor) = 1 THEN 1 ELSE 2
             width == IF Len(v) > Len(floor) THEN Len(v) ELSE Len(floor)
  <2>1. MaxPart \in Nat /\ MaxParts \in 1..3
    BY SizeAssumption
  <2>2. v \in Seq(Parts) /\ Len(v) \in 0..3
    <3>1. v \in Seq(Parts) /\ Len(v) <= MaxParts
      BY DEF ParseKeepsNumbers
    <3> HIDE DEF v
    <3>2. Len(v) \in Nat
      BY <3>1
    <3>3. \A l \in Nat : l <= MaxParts => l \in 0..3
      BY <2>1
    <3> QED BY <3>1, <3>2, <3>3, Zenon
  <2>3. floor \in Seq(Parts) /\ Len(floor) \in 1..3 /\ constraint.tilde \in BOOLEAN
    <3>1. PICK m \in 1..MaxParts : floor \in [1..m -> Parts]
      BY DEF Constraints
    <3>2. constraint.tilde \in BOOLEAN
      BY DEF Constraints
    <3> HIDE DEF floor
    <3>3. floor \in Seq(Parts) /\ Len(floor) = m
      BY <2>1, <3>1
    <3> QED BY <2>1, <3>2, <3>3
  <2>4. Parse(floor) = floor
    BY DEF ParseKeepsNumbers
  <2>5. /\ v \in Seq(Nat) /\ floor \in Seq(Nat)
        /\ v \in Seq(0..MaxPart + 1) /\ floor \in Seq(0..MaxPart + 1)
    BY <2>1, <2>2, <2>3 DEF Parts
  <2>6. Limit(floor) \in Seq(0..MaxPart + 1)
    <3> HIDE DEF floor
    <3>1. \A k \in 1..Len(floor) : floor[k] \in 0..MaxPart /\ floor[k] + 1 \in 0..MaxPart + 1
      BY <2>1, <2>3 DEF Parts
    <3>2. CASE Len(floor) = 1
      BY <2>3, <3>1, <3>2 DEF Limit
    <3>3. CASE Len(floor) # 1
      <4>1. 1 \in 1..Len(floor) /\ 2 \in 1..Len(floor)
        <5>1. \A l \in 1..3 : l # 1 => 1 \in 1..l /\ 2 \in 1..l
          OBVIOUS
        <5> QED BY <2>3, <3>3, <5>1, Zenon
      <4>2. floor[1] \in 0..MaxPart + 1 /\ floor[2] + 1 \in 0..MaxPart + 1
        BY <2>1, <3>1, <4>1
      <4> QED BY <3>3, <4>2 DEF Limit
    <3> QED BY <3>2, <3>3
  <2> HIDE DEF v, floor
  <2>7. MeetsMinimum(actual, floor) <=> NotBelow(v, floor)
    <3>1. MeetsMinimum(actual, floor) <=> AtLeast(Padded(v, width), Padded(floor, width))
      BY <2>4 DEF MeetsMinimum, v
    <3>2. width \in 1..3 /\ Len(v) <= width /\ Len(floor) <= width
      BY <2>2, <2>3
    <3> HIDE DEF width
    <3> QED BY <2>5, <3>1, <3>2, PaddedOrder
  <2>8. Number(v) >= Number(floor) <=> NotBelow(v, floor)
    BY <2>5, NumberOrder
  <2>9. Number(v) < Number(Limit(floor)) <=> ~NotBelow(v, Limit(floor))
    <3>1. Number(v) >= Number(Limit(floor)) <=> NotBelow(v, Limit(floor))
      BY <2>5, <2>6, NumberOrder
    <3>2. Number(v) \in Nat /\ Number(Limit(floor)) \in Nat
      BY <2>5, <2>6, NumberType
    <3> QED BY <3>1, <3>2
  <2>10. InSeries(actual, floor) <=> Series(v, n) = Series(floor, n)
    BY <2>4 DEF InSeries, SeriesLength, v
  <2>11. SeriesLength(floor) = n
    BY <2>4 DEF SeriesLength
  <2>12. /\ Series(v, n) = Series(floor, n) => SameSeries(v, floor)
         /\ Len(v) >= n /\ SameSeries(v, floor) => Series(v, n) = Series(floor, n)
    BY <2>3, <2>5, SlicesAgree
  <2>13. NotBelow(v, floor) => (SameSeries(v, floor) <=> ~NotBelow(v, Limit(floor)))
    BY <2>3, <2>5, SeriesEnd
  <2> HIDE DEF n
  <2>14. /\ SatisfiesConstraint(actual, constraint)
              <=> NotBelow(v, floor) /\ (constraint.tilde => Series(v, n) = Series(floor, n))
         /\ Allowed(actual, constraint)
              <=> NotBelow(v, floor) /\ (constraint.tilde => ~NotBelow(v, Limit(floor)))
    BY <2>7, <2>8, <2>9, <2>10 DEF SatisfiesConstraint, Allowed, v, floor
  <2> QED BY <2>11, <2>12, <2>13, <2>14 DEF NeverTooLenient, NeverTooStrict, v, floor
<1>2. ComparisonIsExact
  BY <1>1 DEF ComparisonIsExact
<1> QED BY <1>2, PTL
=============================================================================
