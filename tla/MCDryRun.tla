------------------------------- MODULE MCDryRun -------------------------------
(* Pipelines over three names, of which b and c may be archives.           *)
EXTENDS DryRun, TLC

CONSTANTS a, b, c

MCArchiveOf == a :> b @@ b :> c
=============================================================================
