-------------------------- MODULE VersionConstraints --------------------------
(***************************************************************************)
(* satisfies_constraint against a reference, the order of the numbers that *)
(* versions stand for, on every version and constraint of bounded size.    *)
(***************************************************************************)
EXTENDS Vendoring

CONSTANTS MaxPart, MaxParts

ASSUME WordAssumption == Word \notin Nat
ASSUME SizeAssumption == MaxPart \in Nat /\ MaxParts \in 1..3

Parts == 0..MaxPart

Constraints ==
  [tilde : BOOLEAN, floor : UNION {[1..n -> Parts] : n \in 1..MaxParts}]

Actuals == UNION {[1..n -> Parts \cup {Word}] : n \in 0..MaxParts}

-----------------------------------------------------------------------------

(* The number a version stands for, in a base no part reaches.             *)
Base == MaxPart + 2

Number(parts) ==
  LET p == Padded(parts, 3) IN (p[1] * Base + p[2]) * Base + p[3]

(* Where the series of a `~' constraint ends.                              *)
Limit(floor) ==
  IF Len(floor) = 1 THEN <<floor[1] + 1>> ELSE <<floor[1], floor[2] + 1>>

Allowed(actual, constraint) ==
  LET number == Number(Parse(actual)) IN
  /\ number >= Number(constraint.floor)
  /\ constraint.tilde => number < Number(Limit(constraint.floor))

(* What Parse does to the versions compared here: their numbers stay.      *)
ParseKeepsNumbers ==
  /\ \A actual \in Actuals :
       Parse(actual) \in Seq(Parts) /\ Len(Parse(actual)) <= MaxParts
  /\ \A constraint \in Constraints : Parse(constraint.floor) = constraint.floor

(* The comparison does not depend on the state: it is looked at once, in   *)
(* the states in which no step has run.                                    *)
AtFirst == stage = "transform" /\ steps = 0

NeverTooLenient(actual, constraint) ==
  SatisfiesConstraint(actual, constraint) => Allowed(actual, constraint)

(* For versions that have the parts that name a constraint's series.       *)
NeverTooStrict(actual, constraint) ==
  Allowed(actual, constraint)
    /\ (constraint.tilde => Len(Parse(actual)) >= SeriesLength(constraint.floor))
  => SatisfiesConstraint(actual, constraint)

(***************************************************************************)
(* A version that satisfies a constraint is not below its floor, and with  *)
(* `~' not past its series, however many parts either has; and one that    *)
(* does not is outside of the range (meets_minimum, satisfies_constraint). *)
(***************************************************************************)
ComparisonIsExact ==
  AtFirst =>
    \A actual \in Actuals, constraint \in Constraints :
      NeverTooLenient(actual, constraint) /\ NeverTooStrict(actual, constraint)
=============================================================================
