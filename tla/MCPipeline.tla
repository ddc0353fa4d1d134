------------------------------ MODULE MCPipeline ------------------------------
(* Small instances of gorget's invocations.                                *)
EXTENDS Pipeline, TLC

(* At most one accepted checksum.                                          *)
SmallAccepted == {{}} \cup {{p} : p \in Names \X Bytes}

RealJobs == [dryRun : {FALSE}, newVersion : BOOLEAN, accepted : SmallAccepted,
             publish : {None}]

(* Declarations select_publications refuses, and dry runs.                 *)
OddJobs == [dryRun : BOOLEAN, newVersion : {FALSE}, accepted : {{}},
            publish : {None, <<>>} \cup {<<n, m>> : n, m \in Names}]

AllJobs == RealJobs \cup OddJobs

AnySymmetry == Permutations(Names) \cup Permutations(Bytes)
=============================================================================
