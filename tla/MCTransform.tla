----------------------------- MODULE MCTransform -----------------------------
(* Small instances of the fetch and transform stages.                      *)
EXTENDS TransformLedger, TLC

CONSTANTS f, g, v, w

NoSubdir == [x \in {} |-> f]
GIsF == f :> g

MCUpstream == {(f :> v @@ g :> v), (f :> w @@ g :> Absent)}
OneUpstream == {(f :> v @@ g :> v)}

WholeCheckout == [subdir : {FALSE}, exported : BOOLEAN]
SubdirCheckout == {[subdir |-> TRUE, exported |-> FALSE]}

FullSymmetry == Permutations(Names) \cup Permutations(Files)
=============================================================================
