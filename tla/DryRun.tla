--------------------------------- MODULE DryRun ---------------------------------
(***************************************************************************)
(* The artifact names of a dry run, next to those of the real runs that    *)
(* the same pipeline may have.  In a dry run, a step that will make an     *)
(* artifact leaves a plan, and every change of the names runs the search   *)
(* of PlanSearch; in a real run it adds an artifact with one of the plan's *)
(* names, depending on what a command makes (StageState, emit).            *)
(*                                                                         *)
(* fixed and plans are state.artifacts and state.artifact_plans, together  *)
(* with what the running call is about to add: if its search fails, the    *)
(* run is over.                                                            *)
(***************************************************************************)
EXTENDS PlanSearch

CONSTANTS
  ArchiveOf,  (* name -> the name of its archive, if it is a directory     *)
  MaxSteps,
  None

ASSUME ArchiveAssumption == DOMAIN ArchiveOf \cup Range(ArchiveOf) \subseteq Names
ASSUME StepsAssumption == MaxSteps \in Nat
ASSUME NoneAssumption == None \notin Names

VARIABLES
  publish,  (* the declared names, or None                                 *)
  phase,    (* "fetch", "transform", "emit", "select"; "refused" by a step *)
            (* outside the search, or "blind": refused for an artifact     *)
            (* that a command may still make                               *)
  steps,    (* steps so far, an output of a run step counting as one       *)
  attached, (* a real run that came this far has an active source tree     *)
  dynamic,  (* an output of a run step is known to the command only        *)
  open,     (* published names that such outputs still have to explain     *)
  real,     (* the sets of names that a real run may have at this point    *)
  unseen    (* a step needs what the dry run does not look for, and which  *)
            (* is not certain to be there                                  *)

dryVars == <<vars, publish, phase, steps, attached, dynamic, open, real, unseen>>

NoName == [i \in {} |-> {}]

DryInit ==
  /\ publish \in {None} \cup SUBSET Names
  /\ phase = "fetch" /\ steps = 0 /\ attached = FALSE
  /\ dynamic = FALSE /\ open = {} /\ unseen = FALSE
  /\ real = {{}}
  /\ fixed = {} /\ required = {} /\ plans = <<>> /\ order = <<>>
  /\ depth = 1 /\ mode = "done" /\ untried = <<>> /\ assignment = NoName
  /\ outcome = "found"

(* The last search succeeded, or there was none.                           *)
Idle == mode = "done" /\ outcome = "found"

(* Faulty variant: only the new plan is looked at.                         *)
Searched_Last(ps) == IF ps = <<>> THEN ps ELSE <<ps[Len(ps)]>>

Searched(ps) == ps

(* assign_artifact_plans is called.                                        *)
Search(names, ps, demanded) ==
  /\ fixed' = names /\ plans' = Searched(ps) /\ required' = demanded
  /\ order' \in [DOMAIN plans' -> DOMAIN plans']
  /\ Range(order') = DOMAIN plans'
  /\ Sorted(order)'
  /\ depth' = 1 /\ mode' = "start"
  /\ untried' = [p \in DOMAIN plans' |-> {}]
  /\ assignment' = NoName
  /\ outcome' = "none"

NextStep ==
  /\ phase \in {"fetch", "transform"} /\ Idle
  /\ steps < MaxSteps
  /\ steps' = steps + 1

TransformStep == NextStep /\ phase' = "transform"

(***************************************************************************)
(* What a step works in.  A step without a target works in the active      *)
(* source tree, which the first such step without a checkout extracts from *)
(* the only artifact; with a target, in that artifact.  Only real runs     *)
(* look for either.  (A vendor step also refuses to leave a tree that      *)
(* earlier steps changed: that depends on what they wrote, not on names.)  *)
(***************************************************************************)
Workable(target, names) ==
  IF target = None THEN attached \/ Cardinality(names) = 1 ELSE target \in names

(* There, whatever the commands make.                                      *)
Certain(target) ==
  IF target = None
    THEN attached \/ (Cardinality(fixed) = 1 /\ plans = <<>> /\ ~dynamic)
    ELSE target \in fixed

(* The real runs in which the step finds its tree.                         *)
Working(target) == {r \in real : Workable(target, r)}

Notes(target) == unseen' = (unseen \/ ~Certain(target))

(* _check_new_output_names; a name that is taken ends the run.             *)
NewNames(ns, stage) ==
  \/ /\ ns \cap fixed = {}
     /\ Search(fixed \cup ns, plans, {})
     /\ phase' = stage
  \/ /\ ns \cap fixed # {}
     /\ phase' = "refused"
     /\ UNCHANGED vars

WithNew(runs, ns) == {r \cup ns : r \in {q \in runs : q \cap ns = {}}}

(***************************************************************************)
(* Fetch and transform.                                                    *)
(***************************************************************************)

(* The inputs of one step; a git step attaches its checkout.               *)
Fetch(ns, git) ==
  /\ phase = "fetch" /\ NextStep
  /\ git => Cardinality(ns) = 1
  /\ NewNames(ns, "fetch")
  /\ real' = WithNew(real, ns)
  /\ attached' = (attached \/ git)
  /\ UNCHANGED <<publish, dynamic, open, unseen>>

(* The archive and the outputs of a vendor step: their names are known.    *)
Vendor(ns, target) ==
  /\ NextStep
  /\ NewNames(ns, "transform")
  /\ real' = WithNew(Working(target), ns)
  /\ attached' = TRUE
  /\ Notes(target)
  /\ UNCHANGED <<publish, dynamic, open>>

(* Faulty variant: only the name of a file is planned.                     *)
Alternatives_File(n) == {n}

(* An output of a run step is a file, or a directory and archived.         *)
Alternatives(n) == {n} \cup {ArchiveOf[m] : m \in {n} \cap DOMAIN ArchiveOf}

Produced(runs, names) == {p[1] \cup {p[2]} : p \in {q \in runs \X names : q[2] \notin q[1]}}

Plan(names) == Search(fixed, Append(plans, names), {})

(* A pack step reads the package directory and needs no source.            *)
Pack(n) ==
  /\ TransformStep
  /\ Plan({n})
  /\ real' = Produced(real, {n})
  /\ UNCHANGED <<publish, attached, dynamic, open, unseen>>

(* An output of a run step, which works in a tree of its own if it has a   *)
(* target.                                                                 *)
RunOutput(n, target) ==
  /\ TransformStep
  /\ n \in DOMAIN ArchiveOf
  /\ Plan(Alternatives(n))
  /\ real' = Produced(Working(target), {n, ArchiveOf[n]})
  /\ attached' = (attached \/ target = None)
  /\ Notes(target)
  /\ UNCHANGED <<publish, dynamic, open>>

(* discovered-outputs of a run step: a real run may add any names.         *)
Discover(target) ==
  /\ TransformStep
  /\ dynamic' = TRUE
  /\ real' = {ns \in SUBSET Names : \E r \in Working(target) : r \subseteq ns}
  /\ attached' = (attached \/ target = None)
  /\ Notes(target)
  /\ UNCHANGED <<vars, publish, open>>

(* A run or vendor-bump step that makes no artifact, or an artifact that a *)
(* run step copies into its tree.                                          *)
Use(target) ==
  /\ TransformStep
  /\ real' = Working(target)
  /\ attached' = (attached \/ target = None)
  /\ Notes(target)
  /\ UNCHANGED <<vars, publish, dynamic, open>>

(* strip-tarball; a target of None stands for the only artifact.           *)
Strippable(target, names) ==
  IF target = None THEN Cardinality(names) = 1 ELSE target \in names

(* Commands of earlier steps make artifacts that a dry run does not have.  *)
Hidden == dynamic \/ plans # <<>>

Strip(target) ==
  /\ NextStep
  /\ real' = {r \in real : Strippable(target, r)}
  /\ unseen' = (unseen \/ (target \notin fixed /\ Hidden))
  /\ phase' = IF Strippable(target, fixed) THEN "transform"
               ELSE IF Hidden THEN "blind" ELSE "refused"
  /\ UNCHANGED <<vars, publish, attached, dynamic, open>>

(***************************************************************************)
(* Emit.                                                                   *)
(***************************************************************************)

(* Faulty variant: dynamic outputs explain planned names, too.             *)
Unexplained_Planned == publish \ fixed

Unexplained == publish \ (fixed \cup Possible)

Emit ==
  /\ phase \in {"fetch", "transform"} /\ Idle
  /\ phase' = IF publish = None THEN "select" ELSE "emit"
  /\ open' = IF publish # None /\ dynamic THEN Unexplained ELSE {}
  /\ UNCHANGED <<vars, publish, steps, attached, dynamic, real, unseen>>

(* resolve_dynamic_artifacts, for one name.                                *)
Resolve(n) ==
  /\ phase = "emit" /\ Idle
  /\ n \in open
  /\ open' = open \ {n}
  /\ Plan({n})
  /\ UNCHANGED <<publish, phase, steps, attached, dynamic, real, unseen>>

(* Faulty variant: a name that exists has to be produced again.            *)
Demanded_All == publish

Demanded == publish \ fixed

(* select_publications.                                                    *)
Select ==
  /\ phase = "emit" /\ Idle
  /\ open = {}
  /\ phase' = "select"
  /\ Search(fixed, plans, Demanded)
  /\ UNCHANGED <<publish, steps, attached, dynamic, open, real, unseen>>

SearchNext ==
  Next /\ UNCHANGED <<publish, phase, steps, attached, dynamic, open, real, unseen>>

DryNext ==
  \/ \E ns \in SUBSET Names \ {{}}, git \in BOOLEAN : Fetch(ns, git)
  \/ \E ns \in SUBSET Names \ {{}}, target \in Names \cup {None} : Vendor(ns, target)
  \/ \E n \in Names : Pack(n)
  \/ \E n \in Names, target \in Names \cup {None} : RunOutput(n, target)
  \/ \E target \in Names \cup {None} : Discover(target) \/ Use(target) \/ Strip(target)
  \/ Emit
  \/ \E n \in open : Resolve(n)
  \/ Select
  \/ SearchNext

(* A pipeline is finite, and nothing of a dry run waits.                   *)
DrySpec == DryInit /\ [][DryNext]_dryVars /\ WF_dryVars(DryNext)
-----------------------------------------------------------------------------

(***************************************************************************)
(* The type invariant, with that of the search; an artifact the dry run    *)
(* has is in every real run that came this far.                            *)
(***************************************************************************)
DryTypeOK ==
  /\ TypeOK
  /\ publish \in {None} \cup SUBSET Names
  /\ phase \in {"fetch", "transform", "emit", "select", "refused", "blind"}
  /\ steps \in 0..MaxSteps
  /\ attached \in BOOLEAN /\ dynamic \in BOOLEAN /\ unseen \in BOOLEAN
  /\ open # {} => phase = "emit" /\ dynamic
  /\ real \subseteq SUBSET Names
  /\ \A r \in real : fixed \subseteq r

Accepted == phase = "select" /\ Idle

Rejected == phase \in {"refused", "blind"} \/ (mode = "done" /\ outcome # "found")

Publishable == {r \in real : publish = None \/ publish \subseteq r}

(* A published name may come from a plan with other names or from a        *)
(* command that names its outputs itself.                                  *)
Ambiguous ==
  /\ dynamic /\ publish # None
  /\ \E p \in DOMAIN plans : plans[p] \cap publish # {} /\ Cardinality(plans[p]) > 1

(***************************************************************************)
(* A dry run that accepts a pipeline promises nothing impossible: some     *)
(* choice of what the commands make lets every step find what it works in, *)
(* gives every artifact a name of its own and everything that is to be     *)
(* published a file.  A dry run does not look for the source tree or the   *)
(* artifact that a step works in; the promise is one for pipelines in      *)
(* which each of these is certain to be there (StageState and emit         *)
(* together, over the whole run).                                          *)
(***************************************************************************)
AcceptedCanPublish == Accepted /\ ~unseen => Publishable # {}

(***************************************************************************)
(* A dry run rejects only pipelines whose real runs must fail, however     *)
(* early it rejects, whatever the commands make and whatever it did not    *)
(* look for; but for the two cases in which it looks at less than it       *)
(* knows.                                                                  *)
(***************************************************************************)
RejectionIsJustified == Rejected /\ phase # "blind" /\ ~Ambiguous => Publishable = {}

(***************************************************************************)
(* Every dry run ends, through all its searches.                           *)
(***************************************************************************)
DryRunEnds == <>(Accepted \/ Rejected)
=============================================================================
