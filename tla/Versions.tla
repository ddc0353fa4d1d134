------------------------------- MODULE Versions -------------------------------
(***************************************************************************)
(* Version numbers and constraints, as util/version.py compares them.  A   *)
(* version is the sequence of the parts between its dots, without build    *)
(* metadata and pre-release suffix, which _parse cuts off.                 *)
(***************************************************************************)
EXTENDS Naturals, Sequences

CONSTANT Word   \* a part that is no number

(* Parts that are no numbers are skipped.                                  *)
Parse(version) == SelectSeq(version, LAMBDA part : part # Word)

Padded(parts, length) ==
  [i \in 1..length |-> IF i <= Len(parts) THEN parts[i] ELSE 0]

(* Python's order on tuples of one length.                                 *)
AtLeast(s, t) ==
  \/ s = t
  \/ \E i \in DOMAIN s : s[i] > t[i] /\ \A j \in 1..i - 1 : s[j] = t[j]

(* Faulty variant: only the parts both have are compared.                  *)
MeetsMinimum_Short(actual, minimum) ==
  LET a == Parse(actual)
      m == Parse(minimum)
      n == IF Len(a) < Len(m) THEN Len(a) ELSE Len(m)
  IN AtLeast(Padded(a, n), Padded(m, n))

MeetsMinimum(actual, minimum) ==
  LET a == Parse(actual)
      m == Parse(minimum)
      n == IF Len(a) > Len(m) THEN Len(a) ELSE Len(m)
  IN AtLeast(Padded(a, n), Padded(m, n))

(* The parts a slice [:n] keeps.                                           *)
Series(parts, n) == SubSeq(parts, 1, IF n < Len(parts) THEN n ELSE Len(parts))

(* How many parts a `~' constraint holds fixed.                            *)
SeriesLength(floor) == IF Len(Parse(floor)) = 1 THEN 1 ELSE 2

InSeries(actual, floor) ==
  LET n == SeriesLength(floor) IN Series(Parse(actual), n) = Series(Parse(floor), n)

(* `~floor' (tilde) or `floor'.                                            *)
SatisfiesConstraint(actual, constraint) ==
  /\ MeetsMinimum(actual, constraint.floor)
  /\ constraint.tilde => InSeries(actual, constraint.floor)
=============================================================================
