----------------------------- MODULE MCVendoring -----------------------------
EXTENDS VersionConstraints, TLC

(* What the theorem about the comparison presumes of Parse.                *)
ASSUME ParseAssumption == ParseKeepsNumbers

CONSTANTS app, lib

MCSymmetry == Permutations({app, lib})

Old == <<1, 9>>
New == <<2>>
MCCopies == {Old, New}
MCDisallowed == {Old}

Entry(ecosystem, floor, tilde) == [ecosystem |-> ecosystem, floor |-> floor, tilde |-> tilde]

Policy(entries, audit, licenses) ==
  [entries |-> entries, audit |-> audit, licenses |-> licenses]

MCPolicies ==
  {Policy({}, FALSE, FALSE),
   Policy({Entry("npm", <<1, 2>>, FALSE)}, TRUE, TRUE),
   Policy({Entry("pnpm", <<2>>, FALSE), Entry("cargo", <<1>>, TRUE)}, FALSE, TRUE),
   Policy({Entry("pnpm", <<2>>, FALSE)}, TRUE, FALSE),
   Policy({Entry("npm", <<2, 0>>, FALSE)}, FALSE, FALSE)}
=============================================================================
