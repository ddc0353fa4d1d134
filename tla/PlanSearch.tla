------------------------------ MODULE PlanSearch ------------------------------
(***************************************************************************)
(* assign_artifact_plans: in a dry run, a step that will make an artifact  *)
(* leaves a plan, the set of names the artifact may get.  The search gives *)
(* every plan a name of its own, so that all required names are produced.  *)
(*                                                                         *)
(* The recursive `search' is unrolled: `depth' is its position, mode says  *)
(* whether a call begins, runs its loop, or returns False to its caller.   *)
(***************************************************************************)
EXTENDS Naturals, Sequences, FiniteSets, Functions

CONSTANTS Names, MaxPlans

ASSUME NamesAssumption == IsFiniteSet(Names)
ASSUME BoundAssumption == MaxPlans \in Nat

VARIABLES
  fixed,       (* names of the artifacts that exist                        *)
  required,    (* the names to be produced that do not exist yet           *)
  plans,       (* index -> the names a plan's artifact may get             *)
  order,       (* the plans' indices in the order of the search            *)
  depth,
  mode,        (* "start", "call", "loop", "return" or "done"              *)
  untried,     (* position -> names its loop has not come to               *)
  assignment,  (* plan index -> name                                       *)
  outcome      (* "none", "found", "not produced" or "impossible"          *)

problem == <<fixed, required, plans, order>>

vars == <<problem, depth, mode, untried, assignment, outcome>>

Plans == UNION {[1..k -> SUBSET Names \ {{}}] : k \in 0..MaxPlans}

(* Plans that can give a required name go first, then those with the fewest *)
(* alternatives; sorted() is stable.                                       *)
Before(i, j) ==
  LET late(p) == plans[p] \cap required = {} IN
  \/ ~late(i) /\ late(j)
  \/ /\ late(i) = late(j)
     /\ \/ Cardinality(plans[i]) < Cardinality(plans[j])
        \/ Cardinality(plans[i]) = Cardinality(plans[j]) /\ i < j

Sorted(s) == \A p, q \in DOMAIN s : p < q => Before(s[p], s[q])

Init ==
  /\ fixed \in SUBSET Names
  /\ required \in SUBSET (Names \ fixed)
  /\ plans \in Plans
  /\ order \in [DOMAIN plans -> DOMAIN plans]
  /\ Range(order) = DOMAIN plans
  /\ Sorted(order)
  /\ depth = 1
  /\ mode = "start"
  /\ untried = [p \in DOMAIN plans |-> {}]
  /\ assignment = [i \in {} |-> {}]
  /\ outcome = "none"

Possible == UNION Range(plans)

Finish(result) == mode' = "done" /\ outcome' = result

(* Names that no plan can give are reported without a search.              *)
Start ==
  /\ mode = "start"
  /\ IF required \subseteq Possible
       THEN mode' = "call" /\ UNCHANGED outcome
       ELSE Finish("not produced")
  /\ UNCHANGED <<problem, depth, untried, assignment>>

Used == fixed \cup Range(assignment)

(* Faulty variant: the plan at this position is not counted.               *)
Remaining_After == UNION {plans[order[p]] : p \in depth + 1..Len(order)}

Remaining == UNION {plans[order[p]] : p \in depth..Len(order)}

Call ==
  /\ mode = "call"
  /\ \/ /\ depth > Len(order)
        /\ IF required \subseteq Used
             THEN Finish("found")
             ELSE mode' = "return" /\ UNCHANGED outcome
        /\ UNCHANGED untried
     \/ /\ depth <= Len(order)
        /\ IF required \subseteq Used \cup Remaining
             THEN /\ mode' = "loop"
                  /\ untried' = [untried EXCEPT ![depth] = plans[order[depth]]]
             ELSE mode' = "return" /\ UNCHANGED untried
        /\ UNCHANGED outcome
  /\ UNCHANGED <<problem, depth, assignment>>

(* Faulty variant: names other plans were given are not skipped.           *)
Free_Unchecked == untried[depth] \ fixed

(* The loop at this position overwrites the name it tried before.          *)
Others == Range(Restrict(assignment, DOMAIN assignment \ {order[depth]}))

Free == untried[depth] \ (fixed \cup Others)

(* Faulty variant: the loop starts over after every attempt.               *)
Rest_Again(n) == untried[depth]

Rest(n) == untried[depth] \ {n}

(* Required names are tried first.                                         *)
Try(n) ==
  /\ mode = "loop"
  /\ n \in Free
  /\ Free \cap required # {} => n \in required
  /\ assignment' = [i \in DOMAIN assignment \cup {order[depth]} |->
                      IF i = order[depth] THEN n ELSE assignment[i]]
  /\ untried' = [untried EXCEPT ![depth] = Rest(n)]
  /\ depth' = depth + 1
  /\ mode' = "call"
  /\ UNCHANGED <<problem, outcome>>

(* Faulty variant: the last name tried stays.                              *)
Popped_Kept == assignment

Popped == Restrict(assignment, DOMAIN assignment \ {order[depth]})

GiveUp ==
  /\ mode = "loop"
  /\ Free = {}
  /\ assignment' = Popped
  /\ mode' = "return"
  /\ UNCHANGED <<problem, depth, untried, outcome>>

Return ==
  /\ mode = "return"
  /\ IF depth = 1
       THEN Finish("impossible") /\ UNCHANGED depth
       ELSE depth' = depth - 1 /\ mode' = "loop" /\ UNCHANGED outcome
  /\ UNCHANGED <<problem, untried, assignment>>

Next == Start \/ Call \/ (\E n \in Names : Try(n)) \/ GiveUp \/ Return

(* The search is a plain function call: it is run to its end.              *)
Spec == Init /\ [][Next]_vars /\ WF_vars(Next)

-----------------------------------------------------------------------------

(* The reference: a name for every plan, all different, all new, and every *)
(* required name among them.                                               *)
Solves(f) ==
  /\ \A i \in DOMAIN plans : f[i] \in plans[i] \ fixed
  /\ \A i, j \in DOMAIN plans : f[i] = f[j] => i = j
  /\ required \subseteq Range(f)

(***************************************************************************)
(* The type invariant; `assignment' covers exactly the positions the       *)
(* search stands on.                                                       *)
(***************************************************************************)
TypeOK ==
  /\ depth \in 1..Len(plans) + 1
  /\ mode \in {"start", "call", "loop", "return", "done"}
  /\ \A p \in DOMAIN plans : untried[p] \subseteq plans[order[p]]
  /\ outcome \in {"none", "found", "not produced", "impossible"}
  /\ (mode = "done") = (outcome # "none")
  /\ LET standing == IF mode = "loop" THEN {order[depth]} ELSE {} IN
     DOMAIN assignment \ standing = {order[p] : p \in 1..depth - 1}

(***************************************************************************)
(* What the search finds is a solution, although assignment is one         *)
(* dictionary shared by all levels of the recursion and every dead end     *)
(* writes to it.                                                           *)
(***************************************************************************)
FoundIsSolution ==
  outcome = "found" => DOMAIN assignment = DOMAIN plans /\ Solves(assignment)

(***************************************************************************)
(* The search gives up only when there is no solution: neither the pruning *)
(* by required names nor the order in which plans and names are tried      *)
(* loses one, so a dry run never rejects a pipeline that can publish.      *)
(***************************************************************************)
GivesUpRightly ==
  outcome \in {"not produced", "impossible"} =>
    ~\E f \in [DOMAIN plans -> Names] : Solves(f)

(***************************************************************************)
(* The search ends, whatever it backtracks over.                           *)
(***************************************************************************)
Termination == <>(mode = "done")
=============================================================================
