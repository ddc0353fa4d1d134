--------------------------- MODULE PlanSearchProofs ---------------------------
(***************************************************************************)
(* The search of assign_artifact_plans is correct for every set of plans,  *)
(* and so is the verdict of a dry run that asks it after every step.       *)
(*                                                                         *)
(* Found: the positions below `depth' have names that fit, and no others   *)
(* are left in the shared dictionary.  Completeness: a solution that       *)
(* agrees with the dictionary up to a position either continues with the   *)
(* name that stands there, or with one its loop has yet to try.            *)
(*                                                                         *)
(* Dry run: the names of the real runs are exactly the namings of the      *)
(* plans of the steps; those that emit appends have a single name each,    *)
(* which no plan before them can get.                                      *)
(***************************************************************************)
EXTENDS DryRun, FiniteSetTheorems, TLAPS

(* What the search is given, and never changes.                            *)
ProblemOK ==
  /\ fixed \subseteq Names
  /\ required \subseteq Names \ fixed
  /\ Len(plans) \in Nat
  /\ DOMAIN plans = 1..Len(plans)
  /\ \A i \in DOMAIN plans : plans[i] \subseteq Names
  /\ Len(order) = Len(plans)
  /\ order \in [DOMAIN plans -> DOMAIN plans]
  /\ \A p, q \in DOMAIN plans : order[p] = order[q] => p = q
  /\ \A i \in DOMAIN plans : \E p \in DOMAIN plans : order[p] = i

Standing(d) == {order[p] : p \in 1..d - 1}

Current == IF mode = "loop" THEN {order[depth]} ELSE {}

Typed ==
  /\ depth \in 1..Len(plans) + 1
  /\ mode \in {"start", "call", "loop", "return", "done"}
  /\ outcome \in {"none", "found", "not produced", "impossible"}
  /\ mode = "done" <=> outcome # "none"
  /\ mode = "loop" => depth <= Len(plans)
  /\ mode = "start" => depth = 1
  /\ DOMAIN untried = DOMAIN plans
  /\ \A p \in DOMAIN plans : untried[p] \subseteq plans[order[p]]
  /\ Standing(depth) \subseteq DOMAIN assignment
  /\ DOMAIN assignment \subseteq Standing(depth) \cup Current

(* The names of the positions below fit.                                   *)
Fits ==
  /\ \A p \in 1..depth - 1 : assignment[order[p]] \in plans[order[p]] \ fixed
  /\ \A p, q \in 1..depth - 1 : assignment[order[p]] = assignment[order[q]] => p = q
  /\ outcome = "found" => depth = Len(plans) + 1 /\ required \subseteq Used

Candidates == {f \in [DOMAIN plans -> Names] : Solves(f)}

(* f agrees with the dictionary on the positions before d.                 *)
Agrees(f, d) == \A p \in 1..d - 1 : f[order[p]] = assignment[order[p]]

Reachable(f) ==
  /\ \A p \in 1..depth - 1 :
       Agrees(f, p) => f[order[p]] \in untried[p] \cup {assignment[order[p]]}
  /\ mode = "loop" /\ Agrees(f, depth) => f[order[depth]] \in untried[depth]
  /\ mode = "return" => ~Agrees(f, depth)
  /\ outcome \notin {"not produced", "impossible"}

NoneLost == \A f \in Candidates : Reachable(f)

IInv == ProblemOK /\ Typed /\ Fits /\ NoneLost
-----------------------------------------------------------------------------

LEMMA ProblemFrame == ASSUME ProblemOK, UNCHANGED problem PROVE ProblemOK'
BY DEF ProblemOK, problem

LEMMA CandidatesFrame == ASSUME UNCHANGED problem PROVE Candidates' = Candidates
BY DEF Candidates, Solves, problem

LEMMA AgreesFrame ==
  ASSUME UNCHANGED problem, UNCHANGED assignment, NEW f, NEW p
  PROVE  Agrees(f, p)' <=> Agrees(f, p)
BY DEF Agrees, problem

LEMMA StandingNext ==
  ASSUME ProblemOK, NEW d \in 1..Len(plans)
  PROVE  /\ Standing(d + 1) = Standing(d) \cup {order[d]}
         /\ order[d] \notin Standing(d)
         /\ order[d] \in DOMAIN plans
<1>1. d \in DOMAIN plans /\ d \in Nat
  BY DEF ProblemOK
<1>2. 1..(d + 1) - 1 = (1..d - 1) \cup {d}
  BY <1>1
<1>3. \A p \in 1..d - 1 : p \in DOMAIN plans /\ p # d
  BY <1>1 DEF ProblemOK
<1>4. Standing(d + 1) = {order[p] : p \in (1..d - 1) \cup {d}}
  BY <1>2 DEF Standing
<1>5. Standing(d + 1) = Standing(d) \cup {order[d]}
  BY <1>4 DEF Standing
<1>6. order[d] \notin Standing(d)
  BY <1>1, <1>3 DEF ProblemOK, Standing
<1> QED
  BY <1>1, <1>5, <1>6 DEF ProblemOK

(* The state in which a search begins.                                     *)
Started ==
  /\ fixed \subseteq Names /\ required \subseteq Names \ fixed
  /\ plans \in Seq(SUBSET Names)
  /\ order \in [DOMAIN plans -> DOMAIN plans]
  /\ Range(order) = DOMAIN plans
  /\ Sorted(order)
  /\ depth = 1 /\ mode = "start"
  /\ untried = [p \in DOMAIN plans |-> {}]
  /\ assignment = [i \in {} |-> {}]
  /\ outcome = "none"

LEMMA StartedProblem == Started => ProblemOK
<1> SUFFICES ASSUME Started PROVE ProblemOK
  OBVIOUS
<1> DEFINE k == Len(plans)
<1>1. plans \in [1..k -> SUBSET Names] /\ k \in Nat /\ DOMAIN plans = 1..k
  BY DEF Started
<1> HIDE DEF k
<1>2. order \in [1..k -> 1..k]
  BY <1>1 DEF Started
<1>3. order \in Seq(1..k) /\ Len(order) = k
  BY <1>1, <1>2
<1>4. \A p, q \in DOMAIN plans : order[p] = order[q] => p = q
  <2> SUFFICES ASSUME NEW p \in 1..k, NEW q \in 1..k, order[p] = order[q], p # q PROVE FALSE
    BY <1>1
  <2>1. ~Before(order[p], order[p])
    <3>1. order[p] \in Nat /\ order[p] \in DOMAIN plans
      BY <1>1, <1>2
    <3>2. Cardinality(plans[order[p]]) \in Nat
      <4>1. plans[order[p]] \subseteq Names
        BY <1>1, <3>1
      <4> QED
        BY <4>1, NamesAssumption, FS_Subset, FS_CardinalityType
    <3> QED
      BY <3>1, <3>2 DEF Before
  <2>2. ~Before(order[p], order[q]) /\ ~Before(order[q], order[p])
    BY <2>1
  <2> QED
    BY <1>1, <1>2, <2>2 DEF Started, Sorted
<1>5. \A i \in DOMAIN plans : \E p \in DOMAIN plans : order[p] = i
  BY <1>1, <1>2 DEF Started, Range
<1> QED
  BY <1>1, <1>2, <1>3, <1>4, <1>5 DEF ProblemOK, Started, k

LEMMA StartedInv == Started => IInv
<1> SUFFICES ASSUME Started PROVE IInv
  OBVIOUS
<1>1. ProblemOK
  BY StartedProblem
<1>2. Standing(1) = {}
  BY DEF Standing
<1>3. Typed
  BY <1>1, <1>2 DEF Typed, Started, ProblemOK, Current
<1>4. 1..depth - 1 = {} /\ mode = "start" /\ outcome = "none"
  BY DEF Started
<1>5. Fits
  BY <1>4 DEF Fits
<1>6. NoneLost
  BY <1>4 DEF NoneLost, Reachable
<1> QED
  BY <1>1, <1>3, <1>5, <1>6 DEF IInv

LEMMA InitStarted == Init => Started
<1> SUFFICES ASSUME Init PROVE Started
  OBVIOUS
<1>1. PICK k \in 0..MaxPlans : plans \in [1..k -> SUBSET Names \ {{}}]
  BY DEF Init, Plans
<1>2. k \in Nat
  BY BoundAssumption
<1>3. plans \in Seq(SUBSET Names)
  BY <1>1, <1>2
<1> QED
  BY <1>3 DEF Init, Started

LEMMA StepInv == IInv /\ [Next]_vars => IInv'
<1> SUFFICES ASSUME IInv, [Next]_vars PROVE IInv'
  OBVIOUS
<1> USE DEF IInv
<1>s. CASE UNCHANGED vars
  <2>1. UNCHANGED problem /\ UNCHANGED <<depth, mode, untried, assignment, outcome>>
    BY <1>s DEF vars
  <2>2. ProblemOK' /\ Candidates' = Candidates
    BY <2>1, ProblemFrame, CandidatesFrame
  <2>3. Typed'
    BY <2>1 DEF problem, Typed, Standing, Current
  <2>4. Fits'
    BY <2>1 DEF problem, Fits, Used
  <2>5. NoneLost'
    <3> SUFFICES ASSUME NEW f \in Candidates PROVE Reachable(f)'
      BY <2>2 DEF NoneLost
    <3>1. Reachable(f)
      BY DEF NoneLost
    <3>2. \A p : Agrees(f, p)' <=> Agrees(f, p)
      BY <2>1, AgreesFrame
    <3> QED
      BY <2>1, <3>1, <3>2 DEF problem, Reachable
  <2> QED
    BY <2>2, <2>3, <2>4, <2>5
<1>p. UNCHANGED problem
  BY <1>s DEF Next, Start, Call, Try, GiveUp, Return, vars
<1>P. ProblemOK' /\ Candidates' = Candidates
  BY <1>p, ProblemFrame, CandidatesFrame
<1>v. /\ plans' = plans /\ order' = order /\ fixed' = fixed /\ required' = required
  BY <1>p DEF problem
<1>S. \A d : Standing(d)' = Standing(d)
  BY <1>v DEF Standing
<1>1. CASE Start
  <2>1. depth' = depth /\ untried' = untried /\ assignment' = assignment /\ depth = 1
    BY <1>1 DEF Start, Typed
  <2>2. Typed'
    BY <1>1, <1>v, <1>S, <2>1 DEF Typed, Start, Finish, Current
  <2>3. Fits'
    BY <1>1, <1>v, <2>1 DEF Fits, Start, Finish, Used, Typed
  <2>4. NoneLost'
    <3> SUFFICES ASSUME NEW f \in Candidates PROVE Reachable(f)'
      BY <1>P DEF NoneLost
    <3>1. required \subseteq Possible
      BY DEF Candidates, Solves, Possible, Range
    <3> QED
      <4>1. mode' = "call" /\ outcome' = outcome
        BY <1>1, <3>1 DEF Start
      <4>2. 1..depth' - 1 = {}
        BY <2>1
      <4>3. outcome \notin {"not produced", "impossible"}
        BY DEF NoneLost, Reachable
      <4> QED
        BY <4>1, <4>2, <4>3 DEF Reachable
  <2> QED
    BY <1>P, <2>2, <2>3, <2>4
<1>2. CASE Call
  <2>1. depth' = depth /\ assignment' = assignment /\ mode = "call"
    BY <1>2 DEF Call
  <2>2. DOMAIN assignment = Standing(depth)
    BY <2>1 DEF Typed, Current
  <2>3. Len(order) = Len(plans) /\ Len(plans) \in Nat /\ depth \in 1..Len(plans) + 1
    BY DEF ProblemOK, Typed
  <2>4. Typed'
    <3>1. /\ mode' \in {"return", "loop", "done"}
          /\ mode' = "loop" => depth <= Len(plans)
          /\ outcome' \in {"none", "found"}
          /\ mode' = "done" <=> outcome' # "none"
      BY <1>2, <2>1, <2>3 DEF Typed, Call, Finish
    <3>2. DOMAIN untried' = DOMAIN plans /\ \A p \in DOMAIN plans : untried'[p] \subseteq plans[order[p]]
      BY <1>2, <1>v, <2>1 DEF Typed, Call, Finish
    <3>3. Standing(depth)' \subseteq DOMAIN assignment' /\ DOMAIN assignment' \subseteq Standing(depth)'
      BY <1>v, <2>1, <2>2 DEF Standing
    <3> QED
      BY <1>v, <2>1, <2>3, <3>1, <3>2, <3>3 DEF Typed, Current
  <2>5. Fits'
    BY <1>2, <1>v, <2>1, <2>3 DEF Fits, Call, Finish, Used, Typed
  <2>6. NoneLost'
    <3> SUFFICES ASSUME NEW f \in Candidates
                 PROVE  /\ \A p \in 1..depth - 1 :
                             Agrees(f, p) => f[order[p]] \in untried'[p] \cup {assignment[order[p]]}
                        /\ mode' = "loop" /\ Agrees(f, depth) => f[order[depth]] \in untried'[depth]
                        /\ mode' = "return" => ~Agrees(f, depth)
                        /\ outcome' \notin {"not produced", "impossible"}
      <4> SUFFICES ASSUME NEW f \in Candidates PROVE Reachable(f)'
        BY <1>P DEF NoneLost
      <4>1. \A p : Agrees(f, p)' <=> Agrees(f, p)
        BY <1>p, <2>1, AgreesFrame
      <4> QED
        BY <1>v, <2>1, <4>1 DEF Reachable
    <3>1. /\ f \in [DOMAIN plans -> Names]
          /\ \A i \in DOMAIN plans : f[i] \in plans[i]
          /\ required \subseteq Range(f)
      BY DEF Candidates, Solves
    <3>2. \A p \in 1..depth - 1 : untried'[p] = untried[p]
      BY <1>2, <2>3 DEF Call, Typed, ProblemOK
    <3>3. mode' = "loop" => untried'[depth] = plans[order[depth]] /\ order[depth] \in DOMAIN plans
      BY <1>2, <2>1, <2>3 DEF Call, Typed, ProblemOK, Finish
    <3>4. ASSUME mode' = "return", Agrees(f, depth) PROVE FALSE
      <4>1. \A p \in DOMAIN plans : f[order[p]] \in Used \cup (IF p < depth THEN {} ELSE Remaining)
        <5> SUFFICES ASSUME NEW p \in DOMAIN plans
                     PROVE  f[order[p]] \in Used \cup (IF p < depth THEN {} ELSE Remaining)
          OBVIOUS
        <5>1. CASE p < depth
          <6>1. p \in 1..depth - 1 /\ order[p] \in DOMAIN assignment
            BY <5>1, <2>2, <2>3 DEF ProblemOK, Standing
          <6> QED
            BY <3>4, <5>1, <6>1 DEF Agrees, Used, Range
        <5>2. CASE ~(p < depth)
          <6>1. p \in depth..Len(order) /\ order[p] \in DOMAIN plans
            BY <5>2, <2>3 DEF ProblemOK
          <6> QED
            BY <3>1, <5>2, <6>1 DEF Remaining
        <5> QED
          BY <5>1, <5>2
      <4>2. Range(f) \subseteq Used \cup (IF depth > Len(order) THEN {} ELSE Remaining)
        <5> SUFFICES ASSUME NEW i \in DOMAIN plans
                     PROVE  f[i] \in Used \cup (IF depth > Len(order) THEN {} ELSE Remaining)
          BY <3>1 DEF Range
        <5>1. PICK p \in DOMAIN plans : order[p] = i
          BY DEF ProblemOK
        <5>2. p \in 1..Len(order)
          BY <2>3 DEF ProblemOK
        <5> QED
          BY <4>1, <5>1, <5>2, <2>3
      <4> QED
        BY <1>2, <2>1, <2>3, <3>1, <3>4, <4>2 DEF Call, Finish
    <3>5. outcome' \notin {"not produced", "impossible"}
      BY <1>2, <2>1 DEF Call, Finish, NoneLost, Reachable
    <3> QED
      BY <2>3, <3>1, <3>2, <3>3, <3>4, <3>5 DEF NoneLost, Reachable
  <2> QED
    BY <1>P, <2>4, <2>5, <2>6
<1>3. ASSUME NEW n \in Names, Try(n) PROVE IInv'
  <2>1. /\ mode = "loop" /\ mode' = "call" /\ depth' = depth + 1 /\ outcome' = outcome
        /\ depth \in 1..Len(plans) /\ depth \in DOMAIN plans /\ Len(plans) \in Nat
        /\ n \in untried[depth] \ (fixed \cup Others)
    BY <1>3 DEF Try, Typed, ProblemOK, Free
  <2> DEFINE o == order[depth]
  <2>2. /\ Standing(depth + 1) = Standing(depth) \cup {o}
        /\ o \notin Standing(depth)
        /\ o \in DOMAIN plans
    BY <2>1, StandingNext
  <2>3. /\ DOMAIN assignment' = Standing(depth + 1)
        /\ assignment'[o] = n
        /\ \A i \in Standing(depth) : assignment'[i] = assignment[i]
    BY <1>3, <2>1, <2>2 DEF Try, Typed, Current
  <2>4. /\ DOMAIN untried' = DOMAIN plans
        /\ untried'[depth] = untried[depth] \ {n}
        /\ \A p \in DOMAIN plans : p # depth => untried'[p] = untried[p]
    BY <1>3, <2>1 DEF Try, Rest, Typed
  <2>5. \A p \in 1..depth - 1 : p \in DOMAIN plans /\ p # depth /\ order[p] \in Standing(depth)
    BY <2>1 DEF ProblemOK, Standing
  <2>6. \A p \in 1..(depth + 1) - 1 : p \in 1..depth - 1 \/ p = depth
    BY <2>1
  <2>7. Typed'
    <3>1. Standing(depth)' = Standing(depth + 1)
      BY <1>v, <2>1 DEF Standing
    <3>2. \A p \in DOMAIN plans : untried'[p] \subseteq plans[order[p]]
      BY <2>4 DEF Typed
    <3> QED
      BY <1>v, <2>1, <2>3, <2>4, <3>1, <3>2 DEF Typed, Current
  <2>8. \A p \in 1..depth - 1 : assignment[order[p]] \in Others
    BY <2>2, <2>5 DEF Others, Range, Restrict, Typed
  <2>9. Fits'
    <3>1. \A p \in 1..depth' - 1 : assignment'[order[p]] \in plans[order[p]] \ fixed
      BY <2>1, <2>3, <2>5, <2>6 DEF Fits, Typed
    <3>2. \A p, q \in 1..depth' - 1 : assignment'[order[p]] = assignment'[order[q]] => p = q
      <4> SUFFICES ASSUME NEW p \in 1..depth' - 1, NEW q \in 1..depth' - 1,
                          assignment'[order[p]] = assignment'[order[q]], p # q
                   PROVE  FALSE
        OBVIOUS
      <4>1. \A i \in 1..depth - 1 : assignment'[order[i]] \in Others
        BY <2>3, <2>5, <2>8
      <4>2. p # depth /\ q # depth
        BY <2>1, <2>3, <2>6, <4>1
      <4> QED
        BY <2>1, <2>3, <2>5, <2>6, <4>2 DEF Fits
    <3>3. outcome' # "found"
      BY <2>1 DEF Typed
    <3> QED
      BY <1>v, <3>1, <3>2, <3>3 DEF Fits
  <2>10. NoneLost'
    <3> SUFFICES ASSUME NEW f \in Candidates, NEW p \in 1..depth, Agrees(f, p)'
                 PROVE  f[order[p]] \in untried'[p] \cup {assignment'[order[p]]}
      <4> SUFFICES ASSUME NEW f \in Candidates PROVE Reachable(f)'
        BY <1>P DEF NoneLost
      <4>1. outcome' \notin {"not produced", "impossible"}
        BY <2>1 DEF Typed
      <4>2. 1..depth' - 1 = 1..depth
        BY <2>1
      <4> QED
        BY <1>v, <2>1, <4>1, <4>2 DEF Reachable
    <3>1. p \in 1..depth - 1 \/ p = depth
      BY <2>1
    <3>2. Agrees(f, p)
      <4> SUFFICES ASSUME NEW q \in 1..p - 1
                   PROVE  f[order[q]] = assignment[order[q]]
        BY DEF Agrees
      <4>1. q \in 1..depth - 1
        BY <2>1
      <4> QED
        BY <1>v, <2>3, <2>5, <4>1 DEF Agrees
    <3>3. CASE p \in 1..depth - 1
      BY <2>3, <2>4, <2>5, <3>2, <3>3 DEF NoneLost, Reachable
    <3>4. CASE p = depth
      BY <2>1, <2>3, <2>4, <3>2, <3>4 DEF NoneLost, Reachable
    <3> QED
      BY <3>1, <3>3, <3>4
  <2> QED
    BY <1>P, <2>7, <2>9, <2>10
<1>4. CASE GiveUp
  <2>1. /\ mode = "loop" /\ mode' = "return" /\ depth' = depth /\ outcome' = outcome
        /\ untried' = untried /\ Free = {}
        /\ depth \in 1..Len(plans) /\ depth \in DOMAIN plans /\ Len(plans) \in Nat
    BY <1>4 DEF GiveUp, Typed, ProblemOK
  <2> DEFINE o == order[depth]
  <2>2. o \notin Standing(depth) /\ o \in DOMAIN plans
    BY <2>1, StandingNext
  <2>3. /\ DOMAIN assignment' = Standing(depth)
        /\ \A i \in Standing(depth) : assignment'[i] = assignment[i]
    BY <1>4, <2>1, <2>2 DEF GiveUp, Popped, Restrict, Typed, Current
  <2>4. \A p \in 1..depth - 1 : p \in DOMAIN plans /\ order[p] \in Standing(depth)
    BY <2>1 DEF ProblemOK, Standing
  <2>5. Typed'
    <3>1. Standing(depth)' = Standing(depth)
      BY <1>v, <2>1 DEF Standing
    <3> QED
      BY <1>v, <2>1, <2>3, <3>1 DEF Typed, Current
  <2>6. Fits'
    <3>1. outcome' # "found"
      BY <2>1 DEF Typed
    <3> QED
      BY <1>v, <2>1, <2>3, <2>4, <3>1 DEF Fits
  <2>7. NoneLost'
    <3> SUFFICES ASSUME NEW f \in Candidates
                 PROVE  /\ \A p \in 1..depth - 1 :
                             Agrees(f, p)' => f[order[p]] \in untried[p] \cup {assignment'[order[p]]}
                        /\ Agrees(f, depth)' => FALSE
      <4> SUFFICES ASSUME NEW f \in Candidates PROVE Reachable(f)'
        BY <1>P DEF NoneLost
      <4>1. outcome' \notin {"not produced", "impossible"}
        BY <2>1 DEF Typed
      <4> QED
        BY <1>v, <2>1, <4>1 DEF Reachable
    <3>1. \A p \in 1..depth : Agrees(f, p)' => Agrees(f, p)
      BY <1>v, <2>1, <2>3, <2>4 DEF Agrees
    <3>2. ASSUME Agrees(f, depth)' PROVE FALSE
      <4>1. Agrees(f, depth)
        BY <2>1, <3>1, <3>2 DEF Agrees
      <4>2. f[o] \in untried[depth]
        BY <2>1, <4>1 DEF NoneLost, Reachable
      <4>3. f[o] \notin fixed
        BY <2>2 DEF Candidates, Solves
      <4>4. f[o] \notin Others
        <5> SUFFICES ASSUME NEW i \in Standing(depth), f[o] = assignment[i] PROVE FALSE
          BY <2>2, <2>1 DEF Others, Range, Restrict, Typed, Current
        <5>1. PICK p \in 1..depth - 1 : i = order[p]
          BY DEF Standing
        <5>2. f[i] = f[o] /\ i \in DOMAIN plans
          BY <4>1, <5>1, <2>4 DEF Agrees, ProblemOK
        <5> QED
          BY <2>2, <5>2 DEF Candidates, Solves
      <4> QED
        BY <2>1, <4>2, <4>3, <4>4 DEF Free
    <3>3. ASSUME NEW p \in 1..depth - 1, Agrees(f, p)'
          PROVE  f[order[p]] \in untried[p] \cup {assignment'[order[p]]}
      <4>1. Agrees(f, p)
        BY <2>1, <3>1, <3>3
      <4> QED
        BY <2>3, <2>4, <4>1 DEF NoneLost, Reachable
    <3> QED
      BY <3>2, <3>3
  <2> QED
    BY <1>P, <2>5, <2>6, <2>7
<1>5. CASE Return
  <2>1. /\ mode = "return" /\ untried' = untried /\ assignment' = assignment
        /\ DOMAIN assignment = Standing(depth)
        /\ Len(plans) \in Nat /\ depth \in 1..Len(plans) + 1 /\ outcome = "none"
    BY <1>5 DEF Return, Typed, ProblemOK, Current
  <2>2. CASE depth = 1
    <3>1. mode' = "done" /\ outcome' = "impossible" /\ depth' = 1
      BY <1>5, <2>2 DEF Return, Finish
    <3>2. Candidates = {}
      BY <2>1, <2>2 DEF NoneLost, Reachable, Agrees
    <3>3. Typed'
      BY <1>v, <1>S, <2>1, <2>2, <3>1 DEF Typed, Current
    <3>4. Fits' /\ NoneLost'
      BY <1>P, <1>v, <2>2, <3>1, <3>2 DEF Fits, NoneLost
    <3> QED
      BY <1>P, <3>3, <3>4
  <2>3. CASE depth # 1
    <3> DEFINE d == depth - 1
    <3>1. mode' = "loop" /\ outcome' = outcome /\ depth' = d
      BY <1>5, <2>3 DEF Return
    <3>2. d \in 1..Len(plans) /\ d + 1 = depth
      BY <2>1, <2>3
    <3>3. /\ Standing(depth) = Standing(d) \cup {order[d]}
          /\ order[d] \notin Standing(d)
      BY <3>2, StandingNext
    <3>4. Typed'
      <4>1. Standing(depth)' = Standing(d)
        BY <1>v, <3>1 DEF Standing
      <4> QED
        BY <1>v, <2>1, <3>1, <3>2, <3>3, <4>1 DEF Typed, Current
    <3>5. Fits'
      BY <1>v, <2>1, <3>1, <3>2 DEF Fits
    <3>6. NoneLost'
      <4> SUFFICES ASSUME NEW f \in Candidates
                   PROVE  /\ \A p \in 1..d - 1 :
                               Agrees(f, p) => f[order[p]] \in untried[p] \cup {assignment[order[p]]}
                          /\ Agrees(f, d) => f[order[d]] \in untried[d]
        <5> SUFFICES ASSUME NEW f \in Candidates PROVE Reachable(f)'
          BY <1>P DEF NoneLost
        <5>1. \A p : Agrees(f, p)' <=> Agrees(f, p)
          BY <1>p, <2>1, AgreesFrame
        <5> QED
          BY <1>v, <2>1, <3>1, <5>1 DEF Reachable
      <4>1. \A p \in 1..d : Agrees(f, p) => f[order[p]] \in untried[p] \cup {assignment[order[p]]}
        BY <3>2 DEF NoneLost, Reachable
      <4>2. ~Agrees(f, depth)
        BY <2>1 DEF NoneLost, Reachable
      <4>3. Agrees(f, d) => f[order[d]] # assignment[order[d]]
        BY <3>2, <4>2 DEF Agrees
      <4> QED
        BY <3>2, <4>1, <4>3
    <3> QED
      BY <1>P, <3>4, <3>5, <3>6
  <2> QED
    BY <2>2, <2>3
<1> QED
  BY <1>s, <1>1, <1>2, <1>3, <1>4, <1>5 DEF Next
-----------------------------------------------------------------------------

(***************************************************************************)
(* The inductive invariant: the dictionary is the partial assignment the   *)
(* search stands on, and every solution extends it or lies ahead.          *)
(***************************************************************************)
THEOREM SearchInvariance == Spec => []IInv
<1>1. Init => IInv
  BY InitStarted, StartedInv
<1>2. IInv /\ [Next]_vars => IInv'
  BY StepInv
<1> QED
  BY <1>1, <1>2, PTL DEF Spec

LEMMA InvTypes == IInv => TypeOK
<1> SUFFICES ASSUME IInv PROVE TypeOK
  OBVIOUS
<1> USE DEF IInv
<1>1. \A p \in DOMAIN plans : untried[p] \subseteq plans[order[p]]
  BY DEF Typed
<1>2. CASE mode = "loop"
  <2>1. depth \in 1..Len(plans)
    BY <1>2 DEF Typed, ProblemOK
  <2>2. order[depth] \notin Standing(depth)
    BY <2>1, StandingNext
  <2>3. DOMAIN assignment \ {order[depth]} = Standing(depth)
    BY <1>2, <2>2 DEF Typed, Current
  <2> QED
    BY <1>1, <1>2, <2>3 DEF Typed, TypeOK, Standing
<1>3. CASE mode # "loop"
  <2>1. DOMAIN assignment = Standing(depth)
    BY <1>3 DEF Typed, Current
  <2> QED
    BY <1>1, <1>3, <2>1 DEF Typed, TypeOK, Standing
<1> QED
  BY <1>2, <1>3

(***************************************************************************)
(* The dictionary covers exactly the positions the search stands on.       *)
(***************************************************************************)
THEOREM SearchTypes == Spec => []TypeOK
BY InvTypes, SearchInvariance, PTL

LEMMA InvSound == IInv => FoundIsSolution
<1> SUFFICES ASSUME IInv, outcome = "found"
             PROVE  DOMAIN assignment = DOMAIN plans /\ Solves(assignment)
  BY DEF FoundIsSolution
<1> USE DEF IInv
<1>1. /\ depth = Len(plans) + 1 /\ required \subseteq Used /\ mode = "done"
      /\ Len(plans) \in Nat /\ DOMAIN plans = 1..depth - 1
  BY DEF Fits, Typed, ProblemOK
<1>2. DOMAIN assignment = DOMAIN plans
  <2>1. DOMAIN assignment = Standing(depth)
    BY <1>1 DEF Typed, Current
  <2>2. Standing(depth) = {order[p] : p \in DOMAIN plans}
    BY <1>1 DEF Standing
  <2> QED
    BY <2>1, <2>2 DEF ProblemOK
<1>3. \A i \in DOMAIN plans : assignment[i] \in plans[i] \ fixed
  BY <1>1 DEF Fits, ProblemOK
<1>4. \A i, j \in DOMAIN plans : assignment[i] = assignment[j] => i = j
  <2> SUFFICES ASSUME NEW i \in DOMAIN plans, NEW j \in DOMAIN plans,
                      assignment[i] = assignment[j]
               PROVE  i = j
    OBVIOUS
  <2>1. PICK p \in DOMAIN plans, q \in DOMAIN plans : order[p] = i /\ order[q] = j
    BY DEF ProblemOK
  <2> QED
    BY <1>1, <2>1 DEF Fits
<1>5. required \subseteq Range(assignment)
  BY <1>1 DEF Used, ProblemOK
<1> QED
  BY <1>2, <1>3, <1>4, <1>5 DEF Solves

(***************************************************************************)
(* What the search finds gives every plan a new name of its own, and every *)
(* required name to some plan.                                             *)
(***************************************************************************)
THEOREM SolutionsAreSound == Spec => []FoundIsSolution
BY InvSound, SearchInvariance, PTL

LEMMA InvComplete == IInv => GivesUpRightly
BY DEF IInv, NoneLost, Reachable, Candidates, GivesUpRightly

(***************************************************************************)
(* The search gives up only on plans that have no solution: pruning and    *)
(* backtracking lose none.                                                 *)
(***************************************************************************)
THEOREM SearchIsComplete == Spec => []GivesUpRightly
BY InvComplete, SearchInvariance, PTL
-----------------------------------------------------------------------------

(* The namings of the first m plans ps that leave the names fx alone.      *)
Namings(ps, fx, m) ==
  {f \in [1..m -> Names] :
     /\ \A i \in 1..m : f[i] \in ps[i] \ fx
     /\ \A i, j \in 1..m : f[i] = f[j] => i = j}

(* The names of the real runs in closed form: those that exist, a naming   *)
(* of the plans, and anything else if a command names its outputs.         *)
RealSets(ps, fx, dyn, m) ==
  {r \in SUBSET Names :
     \E f \in Namings(ps, fx, m) :
       /\ fx \cup Range(f) \subseteq r
       /\ dyn \/ r = fx \cup Range(f)}

(* The same after a step with names of the command's choice.               *)
WithAny(S) == {ns \in SUBSET Names : \E r \in S : r \subseteq ns}

LEMMA NamesAdded ==
  ASSUME NEW ps, NEW fx \in SUBSET Names, NEW dyn \in BOOLEAN, NEW m \in Nat,
         NEW ns \in SUBSET (Names \ fx)
  PROVE  WithNew(RealSets(ps, fx, dyn, m), ns) = RealSets(ps, fx \cup ns, dyn, m)
<1>1. ASSUME NEW r \in RealSets(ps, fx, dyn, m), r \cap ns = {}
      PROVE  r \cup ns \in RealSets(ps, fx \cup ns, dyn, m)
  <2>1. PICK f \in Namings(ps, fx, m) : fx \cup Range(f) \subseteq r /\ (dyn \/ r = fx \cup Range(f))
    BY DEF RealSets
  <2>2. \A i \in 1..m : f[i] \in Range(f)
    BY DEF Namings, Range
  <2>3. f \in Namings(ps, fx \cup ns, m)
    BY <1>1, <2>1, <2>2 DEF Namings
  <2> QED
    BY <2>1, <2>3 DEF RealSets
<1>2. ASSUME NEW r \in RealSets(ps, fx \cup ns, dyn, m)
      PROVE  \E q \in RealSets(ps, fx, dyn, m) : q \cap ns = {} /\ r = q \cup ns
  <2>1. PICK f \in Namings(ps, fx \cup ns, m) :
               fx \cup ns \cup Range(f) \subseteq r /\ (dyn \/ r = fx \cup ns \cup Range(f))
    BY DEF RealSets
  <2>2. f \in Namings(ps, fx, m) /\ Range(f) \cap ns = {}
    BY DEF Namings, Range
  <2>3. r \ ns \in RealSets(ps, fx, dyn, m)
    BY <2>1, <2>2 DEF RealSets
  <2> QED
    BY <2>1, <2>3
<1> DEFINE A == WithNew(RealSets(ps, fx, dyn, m), ns)
           B == RealSets(ps, fx \cup ns, dyn, m)
<1>3. \A x \in A : x \in B
  BY <1>1 DEF WithNew
<1>4. \A x \in B : x \in A
  BY <1>2 DEF WithNew
<1> HIDE DEF A, B
<1>5. A = B
  BY <1>3, <1>4
<1> QED
  BY <1>5 DEF A, B

LEMMA NamesPlanned ==
  ASSUME NEW ps \in Seq(SUBSET Names), NEW fx \in SUBSET Names, NEW dyn \in BOOLEAN,
         NEW ns \in SUBSET Names
  PROVE  Produced(RealSets(ps, fx, dyn, Len(ps)), ns)
           = RealSets(Append(ps, ns), fx, dyn, Len(ps) + 1)
<1> DEFINE m == Len(ps)
           qs == Append(ps, ns)
<1>0. /\ m \in Nat /\ qs[m + 1] = ns
      /\ \A i \in 1..m : qs[i] = ps[i] /\ i \in 1..m + 1 /\ i # m + 1
      /\ \A i \in 1..m + 1 : i \in 1..m \/ i = m + 1
      /\ m + 1 \in 1..m + 1
  OBVIOUS
<1> HIDE DEF m, qs
<1>1. ASSUME NEW r \in RealSets(ps, fx, dyn, m), NEW n \in ns, n \notin r
      PROVE  r \cup {n} \in RealSets(qs, fx, dyn, m + 1)
  <2>1. PICK f \in Namings(ps, fx, m) : fx \cup Range(f) \subseteq r /\ (dyn \/ r = fx \cup Range(f))
    BY DEF RealSets
  <2> DEFINE g == [i \in 1..m + 1 |-> IF i = m + 1 THEN n ELSE f[i]]
  <2>2. \A i \in 1..m : f[i] \in Range(f) /\ g[i] = f[i] /\ f[i] # n
    BY <1>0, <1>1, <2>1 DEF Namings, Range
  <2>3. g[m + 1] = n
    BY <1>0
  <2>4. Range(g) = Range(f) \cup {n}
    <3>1. Range(f) = {f[i] : i \in 1..m}
      BY DEF Namings, Range
    <3>2. Range(g) = {g[i] : i \in 1..m + 1}
      BY DEF Range
    <3> HIDE DEF g
    <3> QED
      BY <1>0, <2>2, <2>3, <3>1, <3>2
  <2>5. g \in [1..m + 1 -> Names]
    BY <1>0, <2>1 DEF Namings
  <2> HIDE DEF g
  <2>6. \A i \in 1..m + 1 : g[i] \in qs[i] \ fx
    BY <1>0, <1>1, <2>1, <2>2, <2>3 DEF Namings
  <2>7. \A i, j \in 1..m + 1 : g[i] = g[j] => i = j
    BY <1>0, <2>1, <2>2, <2>3 DEF Namings
  <2>8. g \in Namings(qs, fx, m + 1)
    BY <2>5, <2>6, <2>7 DEF Namings
  <2>9. r \cup {n} \in SUBSET Names
    BY DEF RealSets
  <2> QED
    BY <2>1, <2>4, <2>8, <2>9 DEF RealSets
<1>2. ASSUME NEW r \in RealSets(qs, fx, dyn, m + 1)
      PROVE  \E q \in RealSets(ps, fx, dyn, m), n \in ns : n \notin q /\ r = q \cup {n}
  <2>1. PICK g \in Namings(qs, fx, m + 1) :
               fx \cup Range(g) \subseteq r /\ (dyn \/ r = fx \cup Range(g))
    BY DEF RealSets
  <2> DEFINE n == g[m + 1]
             f == [i \in 1..m |-> g[i]]
  <2>2. n \in ns \ fx
    BY <1>0, <2>1 DEF Namings
  <2>3. \A i \in 1..m : f[i] = g[i] /\ g[i] # n /\ g[i] \in ps[i] \ fx /\ g[i] \in Names
    BY <1>0, <2>1 DEF Namings
  <2>4. Range(g) = Range(f) \cup {n} /\ n \notin Range(f)
    <3>1. Range(f) = {f[i] : i \in 1..m}
      BY DEF Range
    <3>2. Range(g) = {g[i] : i \in 1..m + 1}
      BY DEF Namings, Range
    <3> QED
      BY <1>0, <2>3, <3>1, <3>2
  <2>5. f \in Namings(ps, fx, m)
    <3>1. f \in [1..m -> Names]
      BY <2>3
    <3>2. \A i, j \in 1..m : f[i] = f[j] => i = j
      BY <1>0, <2>1, <2>3 DEF Namings
    <3> QED
      BY <2>3, <3>1, <3>2 DEF Namings
  <2> HIDE DEF n, f
  <2>6. r \ {n} \in RealSets(ps, fx, dyn, m)
    BY <2>1, <2>2, <2>4, <2>5 DEF RealSets
  <2>7. n \in r
    BY <2>1, <2>4
  <2> QED
    BY <2>2, <2>6, <2>7
<1> DEFINE R == RealSets(ps, fx, dyn, m)
           A == Produced(R, ns)
           B == RealSets(qs, fx, dyn, m + 1)
<1>3. \A x \in A : x \in B
  <2> SUFFICES ASSUME NEW p \in R \X ns, p[2] \notin p[1] PROVE p[1] \cup {p[2]} \in B
    BY DEF Produced
  <2>1. p[1] \in R /\ p[2] \in ns
    OBVIOUS
  <2> QED
    BY <1>1, <2>1
<1>4. \A x \in B : x \in A
  <2> SUFFICES ASSUME NEW r \in B PROVE r \in A
    OBVIOUS
  <2>1. PICK q \in R, n \in ns : n \notin q /\ r = q \cup {n}
    BY <1>2
  <2>2. <<q, n>> \in R \X ns /\ <<q, n>>[1] = q /\ <<q, n>>[2] = n
    OBVIOUS
  <2> QED
    BY <2>1, <2>2 DEF Produced
<1> HIDE DEF A, B
<1>5. A = B
  BY <1>3, <1>4
<1> QED
  BY <1>5 DEF A, B, R, m, qs

LEMMA NamesDiscovered ==
  ASSUME NEW ps, NEW fx \in SUBSET Names, NEW dyn \in BOOLEAN, NEW m \in Nat
  PROVE  WithAny(RealSets(ps, fx, dyn, m)) = RealSets(ps, fx, TRUE, m)
<1>1. ASSUME NEW f \in Namings(ps, fx, m)
      PROVE  fx \cup Range(f) \in RealSets(ps, fx, dyn, m)
  <2>1. Range(f) \subseteq Names
    BY DEF Namings, Range
  <2> QED
    BY <2>1 DEF RealSets
<1> DEFINE A == WithAny(RealSets(ps, fx, dyn, m))
           B == RealSets(ps, fx, TRUE, m)
<1>2. \A x \in A : x \in B
  BY DEF RealSets, WithAny
<1>3. \A x \in B : x \in A
  <2> SUFFICES ASSUME NEW x \in B PROVE \E r \in RealSets(ps, fx, dyn, m) : r \subseteq x
    BY DEF RealSets, WithAny
  <2>1. PICK f \in Namings(ps, fx, m) : fx \cup Range(f) \subseteq x
    BY DEF RealSets
  <2> QED
    BY <1>1, <2>1
<1> HIDE DEF A, B
<1>4. A = B
  BY <1>2, <1>3
<1> QED
  BY <1>4 DEF A, B

LEMMA NamesOfThePrefix ==
  ASSUME NEW ps \in Seq(SUBSET Names), NEW ns \in SUBSET Names, NEW fx, NEW dyn,
         NEW m \in 0..Len(ps)
  PROVE  RealSets(Append(ps, ns), fx, dyn, m) = RealSets(ps, fx, dyn, m)
<1>1. \A i \in 1..m : Append(ps, ns)[i] = ps[i]
  OBVIOUS
<1>2. Namings(Append(ps, ns), fx, m) = Namings(ps, fx, m)
  BY <1>1 DEF Namings
<1> QED
  BY <1>2 DEF RealSets

LEMMA NamesWithoutPlans ==
  ASSUME NEW ps, NEW fx \in SUBSET Names
  PROVE  RealSets(ps, fx, FALSE, 0) = {fx}
<1> DEFINE e == [i \in 1..0 |-> {}]
<1>1. 1..0 = {}
  OBVIOUS
<1>2. e \in Namings(ps, fx, 0) /\ Range(e) = {}
  BY <1>1 DEF Namings, Range
<1>3. \A f \in Namings(ps, fx, 0) : Range(f) = {}
  BY <1>1 DEF Namings, Range
<1> QED
  BY <1>2, <1>3 DEF RealSets
-----------------------------------------------------------------------------

(* What holds of the dry run whatever the real runs are.                   *)
DryTyped ==
  /\ plans \in Seq(SUBSET Names)
  /\ publish \in {None} \cup SUBSET Names
  /\ phase \in {"fetch", "transform", "emit", "select", "refused", "blind"}
  /\ steps \in 0..MaxSteps
  /\ attached \in BOOLEAN /\ dynamic \in BOOLEAN /\ unseen \in BOOLEAN
  /\ open \subseteq Names
  /\ open # {} => phase = "emit" /\ dynamic
  /\ phase = "emit" => publish # None
  /\ real \subseteq SUBSET Names
  /\ \A r \in real : fixed \subseteq r
  /\ required = IF phase = "select" /\ publish # None THEN publish \ fixed ELSE {}

(* After the first m plans, those of emit: each is one published name that *)
(* no plan before it can get.                                              *)
Explained(m) ==
  /\ m < Len(plans) => dynamic
  /\ \A i \in m + 1..Len(plans) :
       \E n \in Names \ (fixed \cup open) :
         plans[i] = {n} /\ \A j \in 1..i - 1 : n \notin plans[j]

(* A published name exists, is planned, or is open; not two of them if it  *)
(* is open.                                                                *)
Accounted ==
  /\ publish # None /\ dynamic =>
       \A n \in publish \ (fixed \cup open) : \E i \in DOMAIN plans : n \in plans[i]
  /\ \A n \in open : n \notin fixed /\ \A i \in DOMAIN plans : n \notin plans[i]

(* The real runs name the first m plans, and each naming is a real run's   *)
(* if every step is certain to find what it works in.                      *)
Within(runs, exactly, m) ==
  /\ runs \subseteq RealSets(plans, fixed, dynamic, m)
  /\ exactly => RealSets(plans, fixed, dynamic, m) \subseteq runs

Named ==
  /\ phase = "refused" => real = {}
  /\ phase \in {"fetch", "transform"} => Within(real, ~unseen, Len(plans))
  /\ phase \in {"emit", "select"} =>
       /\ Accounted
       /\ \E m \in 0..Len(plans) : Within(real, ~unseen, m) /\ Explained(m)

DryInv == IInv /\ DryTyped /\ Named
-----------------------------------------------------------------------------

LEMMA SearchStarts ==
  ASSUME NEW names \in SUBSET Names, NEW ps \in Seq(SUBSET Names),
         NEW demanded \in SUBSET (Names \ names),
         Search(names, ps, demanded)
  PROVE  /\ IInv'
         /\ fixed' = names /\ plans' = ps /\ required' = demanded
<1>1. /\ fixed' = names /\ plans' = ps /\ required' = demanded
      /\ order' \in [DOMAIN plans' -> DOMAIN plans']
      /\ Range(order') = DOMAIN plans' /\ Sorted(order)'
      /\ depth' = 1 /\ mode' = "start"
      /\ untried' = [p \in DOMAIN plans' |-> {}]
      /\ assignment' = [i \in {} |-> {}]
      /\ outcome' = "none"
  BY DEF Search, Searched, NoName
<1>2. Started'
  BY <1>1 DEF Started
<1>3. Started' => IInv'
  BY StartedInv, PTL
<1> QED
  BY <1>1, <1>2, <1>3

LEMMA DryInitInv == DryInit => DryInv
<1> SUFFICES ASSUME DryInit PROVE DryInv
  OBVIOUS
<1>1. /\ fixed = {} /\ required = {} /\ plans = <<>> /\ order = <<>> /\ Len(plans) = 0
      /\ DOMAIN plans = {} /\ DOMAIN order = {} /\ Len(order) = 0
      /\ depth = 1 /\ mode = "done" /\ untried = <<>> /\ DOMAIN untried = {}
      /\ DOMAIN assignment = {} /\ outcome = "found"
  BY DEF DryInit, NoName
<1>2. ProblemOK
  BY <1>1 DEF ProblemOK
<1>3. Typed
  BY <1>1 DEF Typed, Standing, Current
<1>4. Fits
  BY <1>1 DEF Fits
<1>5. NoneLost
  BY <1>1 DEF NoneLost, Reachable
<1>6. DryTyped
  <2>1. plans \in Seq(SUBSET Names) /\ steps \in 0..MaxSteps
    BY <1>1, StepsAssumption DEF DryInit
  <2>2. real \subseteq SUBSET Names /\ \A r \in real : fixed \subseteq r
    BY <1>1 DEF DryInit
  <2> QED
    BY <1>1, <2>1, <2>2 DEF DryInit, DryTyped
<1>7. Named
  BY <1>1, NamesWithoutPlans DEF DryInit, Named, Within
<1> QED
  BY <1>2, <1>3, <1>4, <1>5, <1>6, <1>7 DEF IInv, DryInv

(* The real runs in which a step finds its tree are all of them if it is   *)
(* certain to be there.                                                    *)
LEMMA WorkingRuns ==
  ASSUME DryInv, phase \in {"fetch", "transform"}, NEW target \in Names \cup {None},
         Notes(target)
  PROVE  /\ Working(target) \subseteq real /\ unseen' \in BOOLEAN
         /\ Within(Working(target), ~unseen', Len(plans))
<1>1. Working(target) \subseteq real /\ unseen' = (unseen \/ ~Certain(target))
  BY DEF Working, Notes
<1>2. Within(real, ~unseen, Len(plans))
  BY DEF DryInv, Named
<1>3. ASSUME Certain(target), ~unseen PROVE real \subseteq Working(target)
  <2>1. CASE target = None /\ attached
    BY <2>1 DEF Working, Workable
  <2>2. CASE target = None /\ ~attached
    <3>1. Cardinality(fixed) = 1 /\ dynamic = FALSE /\ plans = <<>> /\ Len(plans) = 0
      BY <1>3, <2>2 DEF Certain, DryInv, DryTyped
    <3>2. RealSets(plans, fixed, FALSE, 0) = {fixed}
      BY NamesWithoutPlans DEF DryInv, IInv, ProblemOK
    <3>3. real \subseteq {fixed}
      BY <1>2, <3>1, <3>2 DEF Within
    <3> QED
      BY <2>2, <3>1, <3>3 DEF Working, Workable
  <2>3. CASE target # None
    BY <1>3, <2>3 DEF Certain, Working, Workable, DryInv, DryTyped
  <2> QED
    BY <2>1, <2>2, <2>3
<1>4. unseen' \in BOOLEAN
  BY <1>1
<1> QED
  BY <1>1, <1>2, <1>3, <1>4 DEF Within

(* A step with new names, of which none or some are taken.                 *)
LEMMA NewNamesInv ==
  ASSUME DryInv, phase \in {"fetch", "transform"}, NEW ns \in SUBSET Names,
         NEW runs \in SUBSET real, Within(runs, ~unseen', Len(plans)),
         NEW stage \in {"fetch", "transform"}, NewNames(ns, stage),
         real' = WithNew(runs, ns), steps' \in 0..MaxSteps,
         attached' \in BOOLEAN, unseen' \in BOOLEAN, UNCHANGED <<publish, dynamic, open>>
  PROVE  DryInv'
<1>1. /\ fixed \subseteq Names /\ plans \in Seq(SUBSET Names)
      /\ Len(plans) \in Nat /\ dynamic \in BOOLEAN
      /\ \A q \in runs : q \subseteq Names /\ fixed \subseteq q
  BY DEF DryInv, IInv, ProblemOK, DryTyped
<1>2. CASE ns \cap fixed = {}
  <2>1. Search(fixed \cup ns, plans, {}) /\ phase' = stage
    BY <1>2 DEF NewNames
  <2>2. IInv' /\ fixed' = fixed \cup ns /\ plans' = plans /\ required' = {}
    BY <1>1, <2>1, SearchStarts
  <2>3. \A r \in real' : r \subseteq Names /\ fixed' \subseteq r
    BY <1>1, <2>2 DEF WithNew
  <2>4. DryTyped'
    BY <2>1, <2>2, <2>3 DEF DryInv, DryTyped
  <2>5. Within(real, ~unseen, Len(plans))'
    <3>1. WithNew(RealSets(plans, fixed, dynamic, Len(plans)), ns)
            = RealSets(plans, fixed \cup ns, dynamic, Len(plans))
      BY <1>1, <1>2, NamesAdded
    <3> DEFINE R == RealSets(plans, fixed, dynamic, Len(plans))
    <3>2. /\ runs \subseteq R => WithNew(runs, ns) \subseteq WithNew(R, ns)
          /\ R \subseteq runs => WithNew(R, ns) \subseteq WithNew(runs, ns)
      BY DEF WithNew
    <3>3. runs \subseteq R /\ (~unseen' => R \subseteq runs)
      BY DEF Within
    <3> HIDE DEF R
    <3>4. /\ real' \subseteq WithNew(R, ns)
          /\ ~unseen' => WithNew(R, ns) \subseteq real'
      BY <3>2, <3>3
    <3> QED
      BY <2>2, <3>1, <3>4 DEF Within, R
  <2> QED
    BY <2>1, <2>2, <2>4, <2>5 DEF DryInv, Named
<1>3. CASE ns \cap fixed # {}
  <2>1. phase' = "refused" /\ UNCHANGED vars
    BY <1>3 DEF NewNames
  <2>2. real' = {}
    BY <1>1, <1>3 DEF WithNew
  <2>3. IInv' /\ UNCHANGED <<fixed, required, plans>>
    <3>1. IInv'
      BY <2>1, StepInv DEF DryInv
    <3> QED
      BY <2>1, <3>1 DEF vars, problem
  <2>4. required = {}
    BY DEF DryInv, DryTyped
  <2>5. open = {} /\ open' = {}
    BY DEF DryInv, DryTyped
  <2>6. DryTyped'
    BY <2>1, <2>2, <2>3, <2>4, <2>5 DEF DryInv, DryTyped
  <2>7. Named'
    BY <2>1, <2>2 DEF Named
  <2> QED
    BY <2>3, <2>6, <2>7 DEF DryInv
<1> QED
  BY <1>2, <1>3

LEMMA FetchInv ==
  ASSUME DryInv, NEW ns \in SUBSET Names, NEW git \in BOOLEAN, Fetch(ns, git)
  PROVE  DryInv'
<1>1. /\ phase = "fetch" /\ steps' \in 0..MaxSteps /\ NewNames(ns, "fetch")
      /\ real' = WithNew(real, ns) /\ attached' \in BOOLEAN /\ unseen' = unseen
      /\ unseen \in BOOLEAN /\ UNCHANGED <<publish, dynamic, open>>
  BY StepsAssumption DEF Fetch, NextStep, DryInv, DryTyped
<1>2. Within(real, ~unseen', Len(plans)) /\ real \in SUBSET real
  BY <1>1 DEF DryInv, Named
<1> QED
  BY <1>1, <1>2, NewNamesInv

LEMMA VendorInv ==
  ASSUME DryInv, NEW ns \in SUBSET Names, NEW target \in Names \cup {None},
         Vendor(ns, target)
  PROVE  DryInv'
<1>1. /\ phase \in {"fetch", "transform"} /\ steps' \in 0..MaxSteps
      /\ NewNames(ns, "transform") /\ real' = WithNew(Working(target), ns)
      /\ attached' \in BOOLEAN /\ Notes(target) /\ UNCHANGED <<publish, dynamic, open>>
  BY StepsAssumption DEF Vendor, NextStep, DryInv, DryTyped
<1>2. /\ Working(target) \in SUBSET real /\ unseen' \in BOOLEAN
      /\ Within(Working(target), ~unseen', Len(plans))
  BY <1>1, WorkingRuns
<1> QED
  BY <1>1, <1>2, NewNamesInv

(* A step with a plan for an artifact.                                     *)
LEMMA PlanInv ==
  ASSUME DryInv, phase \in {"fetch", "transform"}, NEW ns \in SUBSET Names,
         NEW runs \in SUBSET real, Within(runs, ~unseen', Len(plans)),
         steps' \in 0..MaxSteps, phase' = "transform",
         Plan(ns), real' = Produced(runs, ns),
         attached' \in BOOLEAN, unseen' \in BOOLEAN, UNCHANGED <<publish, dynamic, open>>
  PROVE  DryInv'
<1>1. /\ fixed \subseteq Names /\ plans \in Seq(SUBSET Names)
      /\ Append(plans, ns) \in Seq(SUBSET Names)
      /\ Len(plans) \in Nat /\ Len(Append(plans, ns)) = Len(plans) + 1
      /\ dynamic \in BOOLEAN
  BY DEF DryInv, IInv, ProblemOK, DryTyped
<1>2. \A q \in runs : q \subseteq Names /\ fixed \subseteq q
  BY DEF DryInv, DryTyped
<1>3. IInv' /\ fixed' = fixed /\ plans' = Append(plans, ns) /\ required' = {}
  <2>1. Search(fixed, Append(plans, ns), {})
    BY DEF Plan
  <2> QED
    BY <1>1, <2>1, SearchStarts
<1>4. DryTyped'
  <2>1. \A r \in real' : r \subseteq Names /\ fixed \subseteq r
    BY <1>2 DEF Produced
  <2> QED
    BY <1>1, <1>3, <2>1 DEF DryInv, DryTyped
<1>5. Within(real, ~unseen, Len(plans))'
  <2> DEFINE R == RealSets(plans, fixed, dynamic, Len(plans))
  <2>1. Produced(R, ns) = RealSets(Append(plans, ns), fixed, dynamic, Len(plans) + 1)
    BY <1>1, NamesPlanned
  <2>2. /\ runs \subseteq R => Produced(runs, ns) \subseteq Produced(R, ns)
        /\ R \subseteq runs => Produced(R, ns) \subseteq Produced(runs, ns)
    BY DEF Produced
  <2>3. runs \subseteq R /\ (~unseen' => R \subseteq runs)
    BY DEF Within
  <2> HIDE DEF R
  <2>4. real' \subseteq Produced(R, ns) /\ (~unseen' => Produced(R, ns) \subseteq real')
    BY <2>2, <2>3
  <2> QED
    BY <1>1, <1>3, <2>1, <2>4 DEF Within
<1> QED
  BY <1>3, <1>4, <1>5 DEF DryInv, Named

LEMMA PackInv == ASSUME DryInv, NEW n \in Names, Pack(n) PROVE DryInv'
<1>1. /\ phase \in {"fetch", "transform"} /\ phase' = "transform"
      /\ steps' \in 0..MaxSteps /\ Plan({n}) /\ real' = Produced(real, {n})
      /\ attached' \in BOOLEAN /\ unseen' = unseen /\ unseen' \in BOOLEAN
      /\ UNCHANGED <<publish, dynamic, open>>
  BY StepsAssumption DEF Pack, TransformStep, NextStep, DryInv, DryTyped
<1>2. Within(real, ~unseen', Len(plans)) /\ real \in SUBSET real
  BY <1>1 DEF DryInv, Named
<1> QED
  BY <1>1, <1>2, PlanInv

LEMMA RunOutputInv ==
  ASSUME DryInv, NEW n \in Names, NEW target \in Names \cup {None}, RunOutput(n, target)
  PROVE  DryInv'
<1>1. Alternatives(n) = {n, ArchiveOf[n]}
  BY DEF RunOutput, Alternatives
<1>2. Alternatives(n) \subseteq Names
  BY <1>1, ArchiveAssumption DEF RunOutput, Range
<1>3. /\ phase \in {"fetch", "transform"} /\ phase' = "transform"
      /\ steps' \in 0..MaxSteps /\ Plan(Alternatives(n))
      /\ real' = Produced(Working(target), Alternatives(n))
      /\ attached' \in BOOLEAN /\ Notes(target) /\ UNCHANGED <<publish, dynamic, open>>
  BY <1>1, StepsAssumption DEF RunOutput, TransformStep, NextStep, DryInv, DryTyped
<1>4. /\ Working(target) \in SUBSET real /\ unseen' \in BOOLEAN
      /\ Within(Working(target), ~unseen', Len(plans))
  BY <1>3, WorkingRuns
<1> QED
  BY <1>2, <1>3, <1>4, PlanInv

(* A step that leaves the dry run's names alone.                           *)
LEMMA QuietFrame ==
  ASSUME DryInv, UNCHANGED vars
  PROVE  IInv' /\ UNCHANGED <<fixed, required, plans>>
<1>1. IInv'
  BY StepInv DEF DryInv
<1> QED
  BY <1>1 DEF vars, problem

LEMMA DiscoverInv ==
  ASSUME DryInv, NEW target \in Names \cup {None}, Discover(target) PROVE DryInv'
<1>1. /\ phase \in {"fetch", "transform"} /\ phase' = "transform"
      /\ steps' \in 0..MaxSteps /\ dynamic' = TRUE
      /\ real' = WithAny(Working(target))
      /\ attached' \in BOOLEAN /\ Notes(target) /\ UNCHANGED <<vars, publish, open>>
  BY StepsAssumption
     DEF Discover, TransformStep, NextStep, WithAny, DryInv, DryTyped
<1>2. IInv' /\ UNCHANGED <<fixed, required, plans>>
  BY <1>1, QuietFrame
<1>3. /\ Working(target) \subseteq real /\ unseen' \in BOOLEAN
      /\ Within(Working(target), ~unseen', Len(plans))
  BY <1>1, WorkingRuns
<1>4. DryTyped'
  <2>1. \A r \in real' : r \subseteq Names /\ fixed \subseteq r
    BY <1>1, <1>3 DEF WithAny, DryInv, DryTyped
  <2> QED
    BY <1>1, <1>2, <1>3, <2>1 DEF DryInv, DryTyped
<1>5. Within(real, ~unseen, Len(plans))'
  <2> DEFINE R == RealSets(plans, fixed, dynamic, Len(plans))
             runs == Working(target)
  <2>1. Len(plans) \in Nat /\ dynamic \in BOOLEAN /\ fixed \in SUBSET Names
    BY DEF DryInv, IInv, ProblemOK, DryTyped
  <2>2. WithAny(R) = RealSets(plans, fixed, TRUE, Len(plans))
    BY <2>1, NamesDiscovered
  <2>3. runs \subseteq R /\ (~unseen' => R \subseteq runs)
    BY <1>3 DEF Within
  <2> HIDE DEF R, runs
  <2>4. /\ runs \subseteq R => WithAny(runs) \subseteq WithAny(R)
        /\ R \subseteq runs => WithAny(R) \subseteq WithAny(runs)
    BY DEF WithAny
  <2>5. WithAny(runs) \subseteq WithAny(R) /\ (~unseen' => WithAny(R) \subseteq WithAny(runs))
    BY <2>3, <2>4
  <2> QED
    BY <1>1, <1>2, <2>2, <2>5 DEF Within, runs
<1> QED
  BY <1>1, <1>2, <1>4, <1>5 DEF DryInv, Named

LEMMA UseInv ==
  ASSUME DryInv, NEW target \in Names \cup {None}, Use(target) PROVE DryInv'
<1>1. /\ phase \in {"fetch", "transform"} /\ phase' = "transform"
      /\ steps' \in 0..MaxSteps /\ real' = Working(target)
      /\ attached' \in BOOLEAN /\ Notes(target) /\ UNCHANGED <<vars, publish, dynamic, open>>
  BY StepsAssumption DEF Use, TransformStep, NextStep, DryInv, DryTyped
<1>2. IInv' /\ UNCHANGED <<fixed, required, plans>>
  BY <1>1, QuietFrame
<1>3. /\ Working(target) \subseteq real /\ unseen' \in BOOLEAN
      /\ Within(Working(target), ~unseen', Len(plans))
  BY <1>1, WorkingRuns
<1>4. DryTyped'
  BY <1>1, <1>2, <1>3 DEF DryInv, DryTyped
<1>5. Within(real, ~unseen, Len(plans))'
  BY <1>1, <1>2, <1>3 DEF Within
<1> QED
  BY <1>1, <1>2, <1>4, <1>5 DEF DryInv, Named

LEMMA StripInv == ASSUME DryInv, NEW target \in Names \cup {None}, Strip(target) PROVE DryInv'
<1>1. /\ phase \in {"fetch", "transform"} /\ steps' \in 0..MaxSteps
      /\ real' = {r \in real : Strippable(target, r)}
      /\ unseen' = (unseen \/ (target \notin fixed /\ Hidden))
      /\ phase' = IF Strippable(target, fixed) THEN "transform"
                  ELSE IF Hidden THEN "blind" ELSE "refused"
      /\ UNCHANGED <<vars, publish, attached, dynamic, open>>
  BY StepsAssumption DEF Strip, NextStep, DryInv, DryTyped
<1>2. IInv' /\ UNCHANGED <<fixed, required, plans>> /\ fixed \in SUBSET Names
  BY <1>1, QuietFrame DEF DryInv, IInv, ProblemOK
<1>3. real' \subseteq real /\ phase' \in {"transform", "blind", "refused"}
  BY <1>1
<1>4. DryTyped'
  <2>1. unseen' \in BOOLEAN
    BY <1>1
  <2> QED
    BY <1>1, <1>2, <1>3, <2>1 DEF DryInv, DryTyped
<1>5. Within(real, ~unseen, Len(plans))
  BY <1>1 DEF DryInv, Named
<1>6. ASSUME ~Hidden PROVE real \subseteq {fixed}
  <2>1. dynamic = FALSE /\ Len(plans) = 0
    BY <1>6 DEF Hidden, DryInv, DryTyped
  <2>2. RealSets(plans, fixed, FALSE, 0) = {fixed}
    BY <1>2, NamesWithoutPlans
  <2> QED
    BY <1>5, <2>1, <2>2 DEF Within
<1>7. phase' = "refused" => real' = {}
  BY <1>1, <1>6
<1>8. ASSUME phase' = "transform", ~unseen' PROVE real \subseteq real'
  <2>1. Strippable(target, fixed) /\ (target \in fixed \/ ~Hidden)
    BY <1>1, <1>8
  <2>2. CASE target \in fixed
    <3>1. target # None
      BY <1>2, <2>2, NoneAssumption
    <3> QED
      BY <1>1, <2>2, <3>1 DEF DryInv, DryTyped, Strippable
  <2>3. CASE ~Hidden
    BY <1>1, <1>6, <2>1, <2>3
  <2> QED
    BY <2>1, <2>2, <2>3
<1>9. phase' = "transform" => Within(real, ~unseen, Len(plans))'
  BY <1>1, <1>2, <1>3, <1>5, <1>8 DEF Within
<1> QED
  BY <1>2, <1>3, <1>4, <1>7, <1>9 DEF DryInv, Named

LEMMA EmitInv == ASSUME DryInv, Emit PROVE DryInv'
<1>1. /\ phase \in {"fetch", "transform"} /\ phase' = IF publish = None THEN "select" ELSE "emit"
      /\ open' = IF publish # None /\ dynamic THEN Unexplained ELSE {}
      /\ UNCHANGED <<vars, publish, steps, attached, dynamic, real, unseen>>
  BY DEF Emit
<1>2. IInv' /\ UNCHANGED <<fixed, required, plans>>
  BY <1>1, QuietFrame
<1>3. /\ Possible = UNION {plans[i] : i \in DOMAIN plans}
      /\ Unexplained = publish \ (fixed \cup Possible)
  BY DEF Possible, Unexplained, Range
<1>4. DryTyped'
  <2>1. open' \subseteq Names /\ (open' # {} => phase' = "emit" /\ dynamic)
    BY <1>1, <1>3 DEF DryInv, DryTyped
  <2> QED
    BY <1>1, <1>2, <2>1 DEF DryInv, DryTyped
<1>5. Named'
  <2> SUFFICES /\ Accounted'
               /\ \E m \in 0..Len(plans)' : Within(real, ~unseen, m)' /\ Explained(m)'
    BY <1>1 DEF Named
  <2>1. Within(real, ~unseen, Len(plans))
    BY <1>1 DEF DryInv, Named
  <2>2. Accounted'
    <3>1. \A n \in open' : n \notin fixed /\ \A i \in DOMAIN plans : n \notin plans[i]
      BY <1>1, <1>3
    <3>2. publish # None /\ dynamic =>
            \A n \in publish \ (fixed \cup open') : \E i \in DOMAIN plans : n \in plans[i]
      BY <1>1, <1>3
    <3> QED
      BY <1>1, <1>2, <3>1, <3>2 DEF Accounted
  <2>3. Len(plans) \in Nat /\ Len(plans) \in 0..Len(plans)
    BY DEF DryInv, DryTyped
  <2>4. Explained(Len(plans))'
    BY <1>2, <2>3 DEF Explained
  <2>5. Within(real, ~unseen, Len(plans))' /\ Len(plans)' = Len(plans)
    BY <1>1, <1>2, <2>1 DEF Within
  <2> QED
    BY <1>2, <2>2, <2>3, <2>4, <2>5
<1> QED
  BY <1>2, <1>4, <1>5 DEF DryInv

LEMMA ResolveInv == ASSUME DryInv, NEW n \in open, Resolve(n) PROVE DryInv'
<1>1. /\ phase = "emit" /\ open' = open \ {n} /\ Search(fixed, Append(plans, {n}), {})
      /\ UNCHANGED <<publish, phase, steps, attached, dynamic, real, unseen>>
  BY DEF Resolve, Plan
<1>2. /\ fixed \in SUBSET Names /\ plans \in Seq(SUBSET Names) /\ {n} \in SUBSET Names
      /\ n \in Names /\ dynamic /\ publish # None
      /\ Append(plans, {n}) \in Seq(SUBSET Names)
  BY <1>1 DEF DryInv, IInv, ProblemOK, DryTyped
<1>3. IInv' /\ fixed' = fixed /\ plans' = Append(plans, {n}) /\ required' = {}
  <2>1. Search(fixed, Append(plans, {n}), {}) /\ {} \in SUBSET (Names \ fixed)
    BY <1>1
  <2> QED
    BY <1>2, <2>1, SearchStarts
<1>4. DryTyped'
  BY <1>1, <1>2, <1>3 DEF DryInv, DryTyped
<1>5. Named'
  <2> SUFFICES /\ Accounted'
               /\ \E m \in 0..Len(plans)' : Within(real, ~unseen, m)' /\ Explained(m)'
    BY <1>1 DEF Named
  <2> DEFINE k == Len(plans)
  <2>1. /\ k \in Nat /\ Len(plans)' = k + 1 /\ DOMAIN plans = 1..k /\ DOMAIN plans' = 1..k + 1
        /\ plans'[k + 1] = {n} /\ k + 1 \in 1..k + 1
        /\ \A i \in 1..k : plans'[i] = plans[i] /\ i \in 1..k + 1
        /\ \A i \in 1..k + 1 : i \in 1..k \/ i = k + 1
    BY <1>2, <1>3
  <2>2. Accounted
    BY <1>1 DEF DryInv, Named
  <2>3. PICK m \in 0..k : Within(real, ~unseen, m) /\ Explained(m)
    BY <1>1 DEF DryInv, Named
  <2> HIDE DEF k
  <2>4. Accounted'
    <3>1. \A x \in publish \ (fixed \cup open') : \E i \in DOMAIN plans' : x \in plans'[i]
      BY <1>1, <1>2, <2>1, <2>2 DEF Accounted
    <3>2. \A x \in open' : x \notin fixed /\ \A i \in DOMAIN plans' : x \notin plans'[i]
      BY <1>1, <2>1, <2>2 DEF Accounted
    <3> QED
      BY <1>1, <1>3, <3>1, <3>2 DEF Accounted
  <2>5. Within(real, ~unseen, m)'
    <3>0. m \in 0..Len(plans)
      BY DEF k
    <3>1. plans \in Seq(SUBSET Names) /\ {n} \in SUBSET Names
      BY <1>2
    <3>2. RealSets(Append(plans, {n}), fixed, dynamic, m) = RealSets(plans, fixed, dynamic, m)
      BY <3>0, <3>1, NamesOfThePrefix
    <3> QED
      BY <1>1, <1>3, <2>3, <3>2 DEF Within
  <2>6. Explained(m)'
    <3> SUFFICES ASSUME NEW i \in m + 1..k + 1
                 PROVE  \E x \in Names \ (fixed \cup open') :
                          plans'[i] = {x} /\ \A j \in 1..i - 1 : x \notin plans'[j]
      BY <1>1, <1>2, <1>3, <2>1 DEF Explained
    <3>1. CASE i = k + 1
      <4>1. n \notin fixed \cup open' /\ \A j \in 1..k : n \notin plans'[j]
        BY <1>1, <2>1, <2>2 DEF Accounted
      <4> QED
        BY <1>2, <2>1, <3>1, <4>1
    <3>2. CASE i # k + 1
      <4>1. i \in m + 1..k /\ i \in 1..k /\ \A j \in 1..i - 1 : j \in 1..k
        BY <2>1, <3>2
      <4>2. PICK x \in Names \ (fixed \cup open) :
                   plans[i] = {x} /\ \A j \in 1..i - 1 : x \notin plans[j]
        BY <2>3, <4>1 DEF Explained, k
      <4> QED
        BY <1>1, <2>1, <4>1, <4>2
    <3> QED
      BY <3>1, <3>2
  <2>7. m \in 0..k + 1
    BY <2>1
  <2> QED
    BY <2>1, <2>4, <2>5, <2>6, <2>7
<1> QED
  BY <1>3, <1>4, <1>5 DEF DryInv

LEMMA SelectInv == ASSUME DryInv, Select PROVE DryInv'
<1>1. /\ phase = "emit" /\ phase' = "select" /\ open = {} /\ open' = {}
      /\ Search(fixed, plans, publish \ fixed)
      /\ UNCHANGED <<publish, steps, attached, dynamic, real, unseen>>
  BY DEF Select, Demanded
<1>2. /\ fixed \in SUBSET Names /\ plans \in Seq(SUBSET Names)
      /\ publish # None /\ publish \ fixed \in SUBSET (Names \ fixed)
  BY <1>1 DEF DryInv, IInv, ProblemOK, DryTyped
<1>3. IInv' /\ fixed' = fixed /\ plans' = plans /\ required' = publish \ fixed
  BY <1>1, <1>2, SearchStarts
<1>4. DryTyped'
  BY <1>1, <1>2, <1>3 DEF DryInv, DryTyped
<1>5. Named'
  <2>1. Accounted /\ \E m \in 0..Len(plans) : Within(real, ~unseen, m) /\ Explained(m)
    BY <1>1 DEF DryInv, Named
  <2> QED
    BY <1>1, <1>3, <2>1 DEF Named, Within, Accounted, Explained
<1> QED
  BY <1>3, <1>4, <1>5 DEF DryInv

(* The names change only when a search begins.                             *)
LEMMA SearchFrame ==
  ASSUME DryInv, [Next]_vars,
         UNCHANGED <<publish, phase, steps, attached, dynamic, open, real, unseen>>
  PROVE  DryInv'
<1>1. IInv'
  BY StepInv DEF DryInv
<1>2. UNCHANGED <<fixed, required, plans>>
  BY DEF Next, Start, Call, Try, GiveUp, Return, vars, problem
<1>3. DryTyped'
  BY <1>2 DEF DryInv, DryTyped
<1>4. Named'
  BY <1>2 DEF DryInv, Named, Within, Accounted, Explained
<1> QED
  BY <1>1, <1>3, <1>4 DEF DryInv
-----------------------------------------------------------------------------

(***************************************************************************)
(* The inductive invariant of a dry run: its searches are right, and the   *)
(* real runs are the namings of its plans.                                 *)
(***************************************************************************)
THEOREM DryInvariance == DrySpec => []DryInv
<1>1. DryInit => DryInv
  BY DryInitInv
<1>2. DryInv /\ [DryNext]_dryVars => DryInv'
  <2> SUFFICES ASSUME DryInv, [DryNext]_dryVars PROVE DryInv'
    OBVIOUS
  <2>1. CASE UNCHANGED dryVars
    BY <2>1, SearchFrame DEF dryVars
  <2>2. ASSUME NEW ns \in SUBSET Names \ {{}}, NEW git \in BOOLEAN, Fetch(ns, git)
        PROVE  DryInv'
    BY <2>2, FetchInv
  <2>3. ASSUME NEW ns \in SUBSET Names \ {{}}, NEW target \in Names \cup {None},
               Vendor(ns, target)
        PROVE  DryInv'
    BY <2>3, VendorInv
  <2>4. ASSUME NEW n \in Names,
               Pack(n) \/ \E target \in Names \cup {None} : RunOutput(n, target)
        PROVE  DryInv'
    BY <2>4, PackInv, RunOutputInv
  <2>5. ASSUME NEW target \in Names \cup {None},
               Discover(target) \/ Use(target) \/ Strip(target)
        PROVE  DryInv'
    BY <2>5, DiscoverInv, UseInv, StripInv
  <2>6. CASE Emit
    BY <2>6, EmitInv
  <2>7. ASSUME NEW n \in open, Resolve(n) PROVE DryInv'
    BY <2>7, ResolveInv
  <2>8. CASE Select
    BY <2>8, SelectInv
  <2>9. CASE SearchNext
    BY <2>9, SearchFrame DEF SearchNext
  <2> QED
    BY <2>1, <2>2, <2>3, <2>4, <2>5, <2>6, <2>7, <2>8, <2>9 DEF DryNext
<1> QED
  BY <1>1, <1>2, PTL DEF DrySpec

(***************************************************************************)
(* The types of a dry run; an artifact it has is in every real run that    *)
(* came this far.                                                          *)
(***************************************************************************)
THEOREM DryTypes == DrySpec => []DryTypeOK
<1>1. DryInv => DryTypeOK
  BY InvTypes DEF DryInv, DryTyped, DryTypeOK
<1> QED
  BY <1>1, DryInvariance, PTL

(***************************************************************************)
(* Each search of a dry run, whatever came before it, finds only solutions *)
(* of its plans.                                                           *)
(***************************************************************************)
THEOREM DrySearchesAreSound == DrySpec => []FoundIsSolution
<1>1. DryInv => FoundIsSolution
  BY InvSound DEF DryInv
<1> QED
  BY <1>1, DryInvariance, PTL

(***************************************************************************)
(* Each search of a dry run gives up only on plans without a solution.     *)
(***************************************************************************)
THEOREM DrySearchesAreComplete == DrySpec => []GivesUpRightly
<1>1. DryInv => GivesUpRightly
  BY InvComplete DEF DryInv
<1> QED
  BY <1>1, DryInvariance, PTL

(* A naming of a prefix goes on to all plans with the names of emit.       *)
LEMMA NamingsGoOn ==
  ASSUME DryInv, NEW m \in 0..Len(plans), Explained(m), NEW g \in Namings(plans, fixed, m)
  PROVE  \E f \in [DOMAIN plans -> Names] :
           /\ \A i \in DOMAIN plans : f[i] \in plans[i] \ fixed
           /\ \A i, j \in DOMAIN plans : f[i] = f[j] => i = j
           /\ \A i \in 1..m : f[i] = g[i]
<1> DEFINE k == Len(plans)
           f == [i \in 1..k |-> IF i \in 1..m THEN g[i] ELSE CHOOSE x \in plans[i] : TRUE]
<1>1. k \in Nat /\ m \in 0..k /\ DOMAIN plans = 1..k
  BY DEF DryInv, IInv, ProblemOK
<1>2. \A i \in m + 1..k :
        \E n \in Names \ fixed : plans[i] = {n} /\ \A j \in 1..i - 1 : n \notin plans[j]
  BY DEF Explained
<1> HIDE DEF k
<1>3. \A i \in 1..m : /\ i \in 1..k /\ f[i] = g[i]
                      /\ g[i] \in plans[i] \ fixed /\ g[i] \in Names
  BY <1>1 DEF Namings
<1>4. \A i \in 1..k : i \in 1..m \/ i \in m + 1..k
  BY <1>1
<1>5. \A i \in m + 1..k : /\ i \in 1..k /\ f[i] \in Names \ fixed /\ f[i] \in plans[i]
                          /\ \A j \in 1..i - 1 : f[i] \notin plans[j]
  <2> SUFFICES ASSUME NEW i \in m + 1..k
               PROVE  /\ i \in 1..k /\ f[i] \in Names \ fixed /\ f[i] \in plans[i]
                      /\ \A j \in 1..i - 1 : f[i] \notin plans[j]
    OBVIOUS
  <2>1. PICK n \in Names \ fixed : plans[i] = {n} /\ \A j \in 1..i - 1 : n \notin plans[j]
    BY <1>2
  <2>2. i \in 1..k /\ i \notin 1..m
    BY <1>1
  <2>3. f[i] = CHOOSE x \in plans[i] : TRUE
    BY <2>2
  <2>4. f[i] = n
    BY <2>1, <2>3
  <2> QED
    BY <2>1, <2>2, <2>4
<1> HIDE DEF f
<1>6. \A i \in 1..k : f[i] \in plans[i] \ fixed /\ f[i] \in Names
  BY <1>3, <1>4, <1>5
<1>7. \A i, j \in 1..k : f[i] = f[j] => i = j
  <2> SUFFICES ASSUME NEW i \in 1..k, NEW j \in 1..k, f[i] = f[j], i < j PROVE FALSE
    BY <1>1
  <2>1. CASE j \in 1..m
    <3>1. i \in 1..m
      BY <1>1, <2>1
    <3> QED
      BY <1>3, <2>1, <3>1 DEF Namings
  <2>2. CASE j \in m + 1..k
    <3>1. i \in 1..j - 1
      BY <1>1, <2>2
    <3> QED
      BY <1>5, <1>6, <2>2, <3>1
  <2> QED
    BY <1>4, <2>1, <2>2
<1>8. f \in [1..k -> Names]
  BY <1>6 DEF f
<1> QED
  BY <1>1, <1>3, <1>6, <1>7, <1>8

(***************************************************************************)
(* A dry run that accepts a pipeline promises nothing impossible: the      *)
(* names its last search found are those of a real run that publishes.     *)
(***************************************************************************)
THEOREM AcceptanceIsHonest == DrySpec => []AcceptedCanPublish
<1>1. DryInv => AcceptedCanPublish
  <2> SUFFICES ASSUME DryInv, Accepted, ~unseen PROVE Publishable # {}
    BY DEF AcceptedCanPublish
  <2>1. /\ phase = "select" /\ outcome = "found" /\ plans \in Seq(SUBSET Names)
        /\ dynamic \in BOOLEAN /\ fixed \subseteq Names
        /\ required = IF publish # None THEN publish \ fixed ELSE {}
    BY DEF Accepted, Idle, DryInv, IInv, ProblemOK, DryTyped
  <2>2. /\ DOMAIN assignment = DOMAIN plans
        /\ \A i \in DOMAIN plans : assignment[i] \in plans[i] \ fixed
        /\ \A i, j \in DOMAIN plans : assignment[i] = assignment[j] => i = j
        /\ required \subseteq Range(assignment)
    BY <2>1, InvSound DEF DryInv, FoundIsSolution, Solves
  <2>3. PICK m \in 0..Len(plans) :
               RealSets(plans, fixed, dynamic, m) \subseteq real /\ Explained(m)
    BY <2>1 DEF DryInv, Named, Within
  <2> DEFINE g == [i \in 1..m |-> assignment[i]]
             r == fixed \cup Range(assignment)
  <2>4. \A i \in 1..m : i \in DOMAIN plans /\ g[i] = assignment[i] /\ assignment[i] \in Names
    BY <2>1, <2>2, <2>3
  <2>5. r \subseteq Names
    BY <2>1, <2>2 DEF Range
  <2>6. g \in Namings(plans, fixed, m)
    BY <2>2, <2>4 DEF Namings
  <2>7. Range(g) \subseteq Range(assignment)
    BY <2>2, <2>4 DEF Range
  <2>8. dynamic \/ Range(g) = Range(assignment)
    <3> SUFFICES ASSUME ~dynamic PROVE Range(assignment) \subseteq Range(g)
      BY <2>7
    <3>1. 1..m = DOMAIN plans
      BY <2>1, <2>3 DEF Explained
    <3> QED
      BY <2>2, <2>4, <3>1 DEF Range
  <2> HIDE DEF g
  <2>9. r \in real
    BY <2>3, <2>5, <2>6, <2>7, <2>8 DEF RealSets
  <2>10. publish = None \/ publish \subseteq r
    BY <2>1, <2>2
  <2> QED
    BY <2>9, <2>10 DEF Publishable
<1> QED
  BY <1>1, DryInvariance, PTL

(***************************************************************************)
(* A dry run rejects only pipelines whose real runs must fail: a real run  *)
(* that publishes would be a solution of the search that gave up.          *)
(***************************************************************************)
THEOREM RejectionIsHonest == DrySpec => []RejectionIsJustified
<1>1. DryInv => RejectionIsJustified
  <2> SUFFICES ASSUME DryInv, Rejected, phase # "blind", ~Ambiguous,
                      NEW r \in real, publish = None \/ publish \subseteq r
               PROVE  FALSE
    BY DEF RejectionIsJustified, Publishable
  <2>1. phase \in {"fetch", "transform", "emit", "select"}
    BY DEF DryInv, DryTyped, Named
  <2>2. \A f \in [DOMAIN plans -> Names] : ~Solves(f)
    <3>1. outcome \in {"not produced", "impossible"}
      BY <2>1 DEF Rejected, DryInv, IInv, Typed
    <3> QED
      BY <3>1, InvComplete DEF DryInv, GivesUpRightly
  <2>3. /\ plans \in Seq(SUBSET Names) /\ dynamic \in BOOLEAN /\ Len(plans) \in Nat
        /\ DOMAIN plans = 1..Len(plans)
        /\ required = IF phase = "select" /\ publish # None THEN publish \ fixed ELSE {}
    BY DEF DryInv, DryTyped
  <2>4. PICK m \in 0..Len(plans) :
               real \subseteq RealSets(plans, fixed, dynamic, m) /\ Explained(m)
    <3>1. CASE phase \in {"fetch", "transform"}
      BY <2>3, <3>1 DEF DryInv, Named, Within, Explained
    <3>2. CASE phase \in {"emit", "select"}
      BY <2>1, <3>2 DEF DryInv, Named, Within
    <3> QED
      BY <2>1, <3>1, <3>2
  <2>5. PICK g \in Namings(plans, fixed, m) :
               fixed \cup Range(g) \subseteq r /\ (dynamic \/ r = fixed \cup Range(g))
    BY <2>4 DEF RealSets
  <2>6. PICK f \in [DOMAIN plans -> Names] :
               /\ \A i \in DOMAIN plans : f[i] \in plans[i] \ fixed
               /\ \A i, j \in DOMAIN plans : f[i] = f[j] => i = j
               /\ \A i \in 1..m : f[i] = g[i]
    BY <2>4, <2>5, NamingsGoOn
  <2>7. required \subseteq Range(f)
    <3> SUFFICES ASSUME phase = "select", publish # None, NEW n \in publish \ fixed
                 PROVE  \E i \in DOMAIN plans : f[i] = n
      BY <2>3 DEF Range
    <3>1. CASE ~dynamic
      <4>1. n \in Range(g) /\ m = Len(plans)
        <5>1. ~(m < Len(plans))
          BY <2>4, <3>1 DEF Explained
        <5>2. r = fixed \cup Range(g)
          BY <2>5, <3>1
        <5>3. m = Len(plans)
          <6>1. m \in Nat /\ m <= Len(plans) /\ Len(plans) \in Nat
            BY <2>3, <2>4
          <6> QED
            BY <5>1, <6>1
        <5>4. n \in publish /\ n \notin fixed /\ publish \subseteq r
          OBVIOUS
        <5> QED
          BY <5>2, <5>3, <5>4
      <4>2. PICK i \in 1..m : g[i] = n
        BY <4>1 DEF Namings, Range
      <4> QED
        BY <2>3, <2>6, <4>1, <4>2
    <3>2. CASE dynamic
      <4>1. PICK i \in DOMAIN plans : n \in plans[i]
        BY <3>2 DEF DryInv, DryTyped, Named, Accounted
      <4>2. ~(Cardinality(plans[i]) > 1)
        BY <3>2, <4>1 DEF Ambiguous
      <4>3. plans[i] \subseteq Names
        BY <2>3, <4>1
      <4>4. IsFiniteSet(plans[i]) /\ Cardinality(plans[i]) \in Nat
        BY <4>3, NamesAssumption, FS_Subset, FS_CardinalityType
      <4>5. Cardinality(plans[i]) # 0
        BY <4>1, <4>4, FS_EmptySet
      <4>6. Cardinality(plans[i]) = 1
        BY <4>2, <4>4, <4>5
      <4>7. \E x : plans[i] = {x}
        BY <4>4, <4>6, FS_Singleton
      <4> QED
        BY <2>6, <4>1, <4>7
    <3> QED
      BY <3>1, <3>2
  <2>8. Solves(f)
    BY <2>6, <2>7 DEF Solves
  <2> QED
    BY <2>2, <2>8
<1> QED
  BY <1>1, DryInvariance, PTL
=============================================================================
