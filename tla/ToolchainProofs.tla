--------------------------- MODULE ToolchainProofs ---------------------------
(***************************************************************************)
(* Theorems about Toolchain, for any declaration and any machine.          *)
(***************************************************************************)
EXTENDS Toolchain, WellFoundedInduction, TLAPS

(* An entry whose aliases are among the targets.                           *)
Served(k) ==
  /\ WellFormed(entries[k])
  /\ \A c \in DOMAIN Aliases(entries[k]) :
       c \in DOMAIN targets /\ targets[c] = Aliases(entries[k])[c]

CollectInv ==
  /\ pc = "collect" => \A k \in 1..i - 1 : Served(k)
  /\ pc \in {"link", "verify", "stages"} => \A k \in DOMAIN entries : Served(k)

PathInv ==
  /\ pc = "collect" => shims = None
  /\ pc = "link" => targets # Empty
  /\ pc \in {"collect", "link", "cleanup", "done"} => path = original
  /\ pc \in {"verify", "stages", "leave"} =>
       \/ targets = Empty /\ path = original
       \/ targets # Empty /\ Ready /\ path = <<"shims">> \o SearchPath

VerifyInv ==
  /\ pc = "link" => i = 1
  /\ pc = "verify" => \A k \in 1..i - 1 : Verified(entries[k])
  /\ pc = "stages" => \A k \in DOMAIN entries : Verified(entries[k])

IInv == TypeOK /\ CollectInv /\ PathInv /\ VerifyInv

(* Every alias is one of the commands.                                     *)
LEMMA AliasDomain ==
  ASSUME NEW entry
  PROVE  DOMAIN Aliases(entry) \subseteq Commands
BY DEF Aliases, Empty, Commands, VersionChecks

(* A declaration is a finite sequence.                                     *)
LEMMA EntriesAreSequences ==
  ASSUME entries \in Declarations
  PROVE  /\ entries \in Seq(Entry) /\ Len(entries) \in Nat
         /\ DOMAIN entries = 1..Len(entries)
BY DeclarationsAssumption

(* What an entry asks for stays the same for the whole run.                *)
LEMMA FrameEntry ==
  ASSUME UNCHANGED given, NEW k
  PROVE  /\ WellFormed(entries[k])' <=> WellFormed(entries[k])
         /\ Aliases(entries[k])' = Aliases(entries[k])
<1>1. entries' = entries /\ machine' = machine
  BY DEF given
<1>2. WellFormed(entries[k])' <=> WellFormed(entries[k])
  BY <1>1 DEF WellFormed
<1>3. Aliases(entries[k])' = Aliases(entries[k])
  BY <1>1 DEF Aliases, Versioned, Major, Empty
<1> QED BY <1>2, <1>3

-----------------------------------------------------------------------------

(* The initial states satisfy the invariant.                               *)
LEMMA InitInv == Init => IInv
<1> SUFFICES ASSUME Init PROVE IInv
  OBVIOUS
<1>1. entries \in Seq(Entry) /\ Len(entries) \in Nat
  BY EntriesAreSequences DEF Init
<1>2. TypeOK
  BY <1>1 DEF Init, TypeOK, Empty
<1> QED BY <1>1, <1>2 DEF Init, IInv, CollectInv, PathInv, VerifyInv

(* A step keeps the type invariant.                                        *)
LEMMA TypeStep == IInv /\ Next => TypeOK'
<1> SUFFICES ASSUME IInv, Next PROVE TypeOK'
  OBVIOUS
<1> USE DEF IInv, TypeOK, given
<1>0. Len(entries) \in Nat /\ DOMAIN entries = 1..Len(entries)
  BY EntriesAreSequences
<1>1. CASE Collect
  <2>1. DOMAIN targets' \subseteq Commands
    BY <1>1, AliasDomain DEF Collect, Joined
  <2> QED BY <1>0, <1>1, <2>1 DEF Collect, PathInv, SearchPath
<1>2. CASE Refuse
  BY <1>0, <1>2 DEF Refuse, SearchPath
<1>3. CASE Collected
  BY <1>0, <1>3 DEF Collected, SearchPath
<1>4. CASE MakeDirectory
  BY <1>0, <1>4 DEF MakeDirectory, Empty, SearchPath
<1>5. ASSUME NEW alias \in DOMAIN targets, Link(alias) PROVE TypeOK'
  BY <1>0, <1>5 DEF Link, SearchPath
<1>6. CASE LinkFails
  BY <1>0, <1>6 DEF LinkFails, SearchPath
<1>7. CASE ChangePath
  BY <1>0, <1>7 DEF ChangePath, SearchPath
<1>8. CASE Verify
  BY <1>0, <1>8 DEF Verify, SearchPath
<1>9. CASE VerifyFails
  BY <1>0, <1>9 DEF VerifyFails, SearchPath
<1>10. CASE StagesBegin
  BY <1>0, <1>10 DEF StagesBegin, SearchPath
<1>11. CASE StagesEnd
  BY <1>0, <1>11 DEF StagesEnd, SearchPath
<1>12. CASE Leave
  BY <1>0, <1>12 DEF Leave, Restored, SearchPath
<1>13. CASE Cleanup
  BY <1>0, <1>13 DEF Cleanup, SearchPath
<1> QED
  BY <1>1, <1>2, <1>3, <1>4, <1>5, <1>6, <1>7, <1>8, <1>9, <1>10, <1>11, <1>12, <1>13 DEF Next

(* A step keeps the entries served that were, and Collect serves one more. *)
LEMMA CollectStep == IInv /\ Next => CollectInv'
<1> SUFFICES ASSUME IInv, Next PROVE CollectInv'
  OBVIOUS
<1> USE DEF IInv, CollectInv, given
<1>0. /\ Len(entries) \in Nat /\ DOMAIN entries = 1..Len(entries)
      /\ i \in 1..Len(entries) + 1
  BY EntriesAreSequences DEF TypeOK
<1>1. CASE Collect
  <2>1. ASSUME NEW k \in 1..i - 1 PROVE Served(k)'
    <3>1. Served(k)
      BY <1>1, <2>1 DEF Collect
    <3>2. ASSUME NEW c \in DOMAIN Aliases(entries[k])
          PROVE  c \in DOMAIN targets' /\ targets'[c] = Aliases(entries[k])[c]
      BY <1>1, <3>1, <3>2 DEF Collect, Acceptable, Clash, Joined, Served
    <3> QED BY <1>1, <3>1, <3>2, FrameEntry DEF Collect, Served
  <2>2. ASSUME NEW c \in DOMAIN Aliases(entries[i])
        PROVE  c \in DOMAIN targets' /\ targets'[c] = Aliases(entries[i])[c]
    BY <1>1, <2>2 DEF Collect, Joined
  <2>3. ASSUME NEW j, j = i PROVE Served(j)'
    BY <1>1, <2>2, <2>3, FrameEntry DEF Collect, Acceptable, Served
  <2> QED BY <1>0, <1>1, <2>1, <2>3 DEF Collect
<1>2. CASE Collected
  BY <1>0, <1>2, FrameEntry DEF Collected, Served
<1>3. CASE Refuse \/ LinkFails \/ VerifyFails \/ StagesEnd \/ Leave \/ Cleanup
  BY <1>3 DEF Refuse, LinkFails, VerifyFails, StagesEnd, Leave, Cleanup
<1>4. CASE MakeDirectory
  BY <1>4, FrameEntry DEF MakeDirectory, Served
<1>6. ASSUME NEW alias \in DOMAIN targets, Link(alias) PROVE CollectInv'
  BY <1>6, FrameEntry DEF Link, Served
<1>5. CASE ChangePath \/ Verify \/ StagesBegin
  BY <1>5, FrameEntry DEF ChangePath, Verify, StagesBegin, Served
<1> QED BY <1>1, <1>2, <1>3, <1>4, <1>5, <1>6 DEF Next

(* A step keeps PATH and the directory of aliases together.                *)
LEMMA PathStep == IInv /\ Next => PathInv'
<1> SUFFICES ASSUME IInv, Next PROVE PathInv'
  OBVIOUS
<1> USE DEF IInv, PathInv, given
<1>1. CASE Collect \/ Refuse
  BY <1>1 DEF Collect, Refuse
<1>6. CASE Collected
  BY <1>6 DEF Collected, Empty
<1>2. CASE MakeDirectory \/ LinkFails \/ \E alias \in DOMAIN targets : Link(alias)
  BY <1>2 DEF MakeDirectory, LinkFails, Link, Empty
<1>3. CASE ChangePath
  BY <1>3 DEF ChangePath, Ready, SearchPath, Empty
<1>4. CASE Verify \/ VerifyFails \/ StagesBegin \/ StagesEnd
  BY <1>4 DEF Verify, VerifyFails, StagesBegin, StagesEnd, Ready, SearchPath, Empty
<1>5. CASE Leave \/ Cleanup
  BY <1>5 DEF Leave, Cleanup, Restored
<1> QED BY <1>1, <1>2, <1>3, <1>4, <1>5, <1>6 DEF Next

(* A step keeps the verified entries verified.                             *)
LEMMA VerifyStep == IInv /\ Next => VerifyInv'
<1> SUFFICES ASSUME IInv, Next PROVE VerifyInv'
  OBVIOUS
<1> USE DEF IInv, VerifyInv, given
<1>0. /\ Len(entries) \in Nat /\ DOMAIN entries = 1..Len(entries)
      /\ i \in 1..Len(entries) + 1
  BY EntriesAreSequences DEF TypeOK
<1>1. ASSUME UNCHANGED <<given, targets, shims, path>>, NEW k
      PROVE  Verified(entries[k])' = Verified(entries[k])
  <2>1. /\ entries' = entries /\ machine' = machine
        /\ targets' = targets /\ shims' = shims /\ path' = path
    BY <1>1
  <2>2. Aliased' <=> Aliased
    BY <2>1 DEF Aliased
  <2>3. ASSUME NEW c PROVE Resolved(c)' = Resolved(c)
    BY <2>1, <2>2 DEF Resolved, Versioned
  <2>4. ASSUME NEW p PROVE Answered(p)' = Answered(p)
    BY <2>1 DEF Answered, NoAnswer
  <2>5. Answered(Resolved(VersionChecks[entries[k].name]))'
          = Answered(Resolved(VersionChecks[entries[k].name]))
    BY <2>1, <2>3, <2>4 DEF VersionChecks
  <2> QED BY <2>1, <2>5 DEF Verified, VersionChecks
<1>2. CASE Verify
  BY <1>0, <1>1, <1>2 DEF Verify
<1>3. CASE StagesBegin
  BY <1>0, <1>1, <1>3 DEF StagesBegin
<1>4. CASE Collected \/ ChangePath
  BY <1>0, <1>4 DEF Collected, ChangePath
<1>5. CASE Collect \/ Refuse \/ VerifyFails \/ StagesEnd \/ Leave \/ Cleanup
  BY <1>5 DEF Collect, Refuse, VerifyFails, StagesEnd, Leave, Cleanup
<1>6. CASE MakeDirectory \/ LinkFails \/ \E alias \in DOMAIN targets : Link(alias)
  BY <1>6 DEF MakeDirectory, LinkFails, Link
<1> QED BY <1>2, <1>3, <1>4, <1>5, <1>6 DEF Next

(* The invariant speaks of the variables only.                             *)
LEMMA StutterInv == IInv /\ UNCHANGED vars => IInv'
<1> SUFFICES ASSUME IInv, UNCHANGED vars PROVE IInv'
  OBVIOUS
<1>1. /\ UNCHANGED given /\ pc' = pc /\ i' = i /\ targets' = targets
      /\ shims' = shims /\ path' = path /\ outcome' = outcome
  BY DEF vars
<1>2. entries' = entries /\ machine' = machine /\ original' = original
  BY <1>1 DEF given
<1>3. TypeOK'
  BY <1>1, <1>2 DEF IInv, TypeOK, SearchPath
<1>4. CollectInv'
  BY <1>1, <1>2, FrameEntry DEF IInv, CollectInv, Served
<1>5. PathInv'
  BY <1>1, <1>2 DEF IInv, PathInv, Ready, SearchPath, Empty
<1>6. VerifyInv'
  <2>1. ASSUME NEW c PROVE Resolved(c)' = Resolved(c)
    BY <1>1 DEF Resolved, Aliased, Versioned
  <2>2. ASSUME NEW p PROVE Answered(p)' = Answered(p)
    BY <1>2 DEF Answered, NoAnswer
  <2>3. ASSUME NEW k
        PROVE  Answered(Resolved(VersionChecks[entries[k].name]))'
                 = Answered(Resolved(VersionChecks[entries[k].name]))
    BY <1>2, <2>1, <2>2 DEF VersionChecks
  <2>4. ASSUME NEW k PROVE Verified(entries[k])' <=> Verified(entries[k])
    BY <1>2, <2>3 DEF Verified, VersionChecks
  <2> QED BY <1>1, <1>2, <2>4 DEF IInv, VerifyInv
<1> QED BY <1>3, <1>4, <1>5, <1>6 DEF IInv

(***************************************************************************)
(* The inductive invariant: what the loop over the entries has collected,  *)
(* that PATH changes only for a complete directory, and which entries were *)
(* verified under the PATH that the stages run with.                       *)
(***************************************************************************)
THEOREM ToolchainInvariance == Spec => []IInv
<1>1. IInv /\ [Next]_vars => IInv'
  BY TypeStep, CollectStep, PathStep, VerifyStep, StutterInv DEF IInv
<1> QED BY InitInv, <1>1, PTL DEF Spec

(* The type invariant of toolchain activation (activate(), toolchain.py).  *)
THEOREM ToolchainTypes == Spec => []TypeOK
<1>1. IInv => TypeOK
  BY DEF IInv
<1> QED BY ToolchainInvariance, <1>1, PTL

(***************************************************************************)
(* PATH begins with the aliases only while their directory is complete, and *)
(* is the original one on every way out (the finally of activate()).       *)
(***************************************************************************)
THEOREM PathIsRestored == Spec => []PathIsSafe
<1>1. IInv => PathIsSafe
  BY DEF IInv, TypeOK, PathInv, PathIsSafe, Ready
<1> QED BY ToolchainInvariance, <1>1, PTL

(* A version that passes _version_at_least has no part below the minimum's *)
(* after equal ones.                                                       *)
LEMMA NoPartBelow ==
  ASSUME NEW minimum \in Version, NEW active \in Version, VersionAtLeast(minimum, active),
         NEW n \in DOMAIN minimum
  PROVE  \/ Part(active, n) >= minimum[n]
         \/ \E m \in 1..n - 1 : Part(active, m) # minimum[m]
<1> DEFINE width == IF Len(minimum) > Len(active) THEN Len(minimum) ELSE Len(active)
           a == Padded(active, width)
           b == Padded(minimum, width)
<1>1. /\ Len(minimum) \in Nat /\ Len(active) \in Nat /\ n \in 1..width
      /\ width \in Nat /\ n \in 1..Len(minimum)
  BY DEF Version
<1>2. ASSUME NEW m \in 1..width
      PROVE  a[m] = Part(active, m) /\ a[m] \in Nat /\ b[m] \in Nat
             /\ (m <= Len(minimum) => b[m] = minimum[m])
  <2>1. active \in Seq(Nat) /\ minimum \in Seq(Nat)
    BY DEF Version
  <2>2. /\ a[m] = IF m <= Len(active) THEN active[m] ELSE 0
        /\ b[m] = IF m <= Len(minimum) THEN minimum[m] ELSE 0
    BY <1>2 DEF Padded
  <2>3. a[m] = Part(active, m)
    BY <2>2 DEF Part
  <2>4. /\ m <= Len(active) => active[m] \in Nat
        /\ m <= Len(minimum) => minimum[m] \in Nat
    <3> HIDE DEF a, b, width
    <3>1. m \in Nat /\ 1 <= m
      BY <1>1, <1>2
    <3> QED BY <2>1, <3>1
  <2> HIDE DEF a, b
  <2> QED BY <2>2, <2>3, <2>4
<1>3. AtLeast(a, b) /\ DOMAIN a = 1..width
  BY DEF VersionAtLeast, Padded
<1> HIDE DEF a, b, width
<1>4. CASE a = b
  BY <1>1, <1>2, <1>4
<1>5. CASE \E i1 \in DOMAIN a : a[i1] > b[i1] /\ \A j \in 1..i1 - 1 : a[j] = b[j]
  <2>1. PICK i1 \in 1..width : a[i1] > b[i1] /\ \A j \in 1..i1 - 1 : a[j] = b[j]
    BY <1>3, <1>5
  <2>2. CASE n < i1
    BY <1>1, <1>2, <2>1, <2>2
  <2>3. CASE n = i1
    BY <1>1, <1>2, <2>1, <2>3
  <2>4. CASE n > i1
    <3>1. i1 \in 1..n - 1 /\ i1 <= Len(minimum)
      BY <1>1, <2>1, <2>4
    <3> QED BY <1>1, <1>2, <2>1, <3>1
  <2> QED BY <1>1, <2>1, <2>2, <2>3, <2>4
<1> QED BY <1>3, <1>4, <1>5 DEF AtLeast

(* What verify_installed accepts is what the entry promises.               *)
LEMMA MetIsPromised ==
  ASSUME NEW entry \in Entry, WellFormed(entry), NEW answer \in Version \cup {NoAnswer},
         Meets(entry, answer)
  PROVE  Promised(entry, answer)
<1>1. answer \in Version /\ entry.version \in Version
  BY DEF Meets, WellFormed, Entry
<1>2. /\ Len(answer) \in Nat /\ Len(entry.version) \in Nat
      /\ answer \in Seq(Nat) /\ entry.version \in Seq(Nat)
  BY <1>1 DEF Version
<1>3. ASSUME NEW n \in DOMAIN entry.version
      PROVE  n <= Len(answer) /\ answer[n] = entry.version[n]
  <2>1. Series(answer, Len(entry.version)) = entry.version
    BY DEF Meets, VersionMatches
  <2>2. n \in 1..Len(entry.version)
    BY <1>2
  <2>3. CASE Len(entry.version) < Len(answer)
    BY <1>2, <2>1, <2>2, <2>3 DEF Series
  <2>4. CASE ~(Len(entry.version) < Len(answer))
    BY <1>2, <2>1, <2>2, <2>4 DEF Series
  <2> QED BY <2>3, <2>4
<1>4. ASSUME entry.minimum # None, NEW n \in DOMAIN entry.minimum
      PROVE  \/ Part(answer, n) >= entry.minimum[n]
             \/ \E m \in 1..n - 1 : Part(answer, m) # entry.minimum[m]
  <2>1. entry.minimum \in Version
    BY <1>4 DEF Entry, WellFormed
  <2>2. VersionAtLeast(entry.minimum, answer)
    BY <1>4 DEF Meets
  <2> QED BY <1>1, <1>4, <2>1, <2>2, NoPartBelow
<1> QED BY <1>3, <1>4 DEF Promised, Meets

(* While versions are verified and the stages run, a target answers for    *)
(* its command.                                                            *)
LEMMA TargetsAreResolved ==
  ASSUME IInv, pc \in {"verify", "stages"}, NEW c \in DOMAIN targets
  PROVE  Resolved(c) = targets[c]
<1>1. targets # Empty /\ Ready /\ path = <<"shims">> \o SearchPath
  BY DEF IInv, PathInv, Empty
<1>2. path # None /\ path[1] = "shims"
  <2> USE DEF Places
  <2>1. SearchPath \in Seq(Places)
    <3>1. original = None \/ original = <<"bin">>
      BY DEF IInv, TypeOK
    <3>2. <<"bin">> \in Seq(Places) /\ <<"default">> \in Seq(Places)
      OBVIOUS
    <3> QED BY <3>1, <3>2 DEF SearchPath
  <2>2. <<"shims">> \in Seq(Places) /\ Len(<<"shims">>) = 1 /\ <<"shims">>[1] = "shims"
    OBVIOUS
  <2>3. path \in Seq(Places) /\ path[1] = "shims"
    BY <1>1, <2>1, <2>2
  <2> QED BY <2>3, MarksAssumption
<1> QED BY <1>1, <1>2 DEF Resolved, Aliased, Ready, IInv, TypeOK

(***************************************************************************)
(* While the stages run, every entry's tool answers as declared and its    *)
(* commands resolve to the executables installed for it.                   *)
(***************************************************************************)
THEOREM DeclaredToolsRun == Spec => []StagesSeeDeclared
<1>1. IInv => StagesSeeDeclared
  <2> SUFFICES ASSUME IInv, pc = "stages", NEW k \in DOMAIN entries
               PROVE  /\ entries[k].name \in DOMAIN VersionChecks
                      /\ Promised(entries[k], Answered(Resolved(VersionChecks[entries[k].name])))
                      /\ \A c \in DOMAIN Aliases(entries[k]) : Resolved(c) = Aliases(entries[k])[c]
    BY DEF StagesSeeDeclared
  <2>1. Served(k) /\ Verified(entries[k])
    BY DEF IInv, CollectInv, VerifyInv
  <2>2. entries[k] \in Entry
    BY EntriesAreSequences DEF IInv, TypeOK
  <2>3. ASSUME NEW p PROVE Answered(p) \in Version \cup {NoAnswer}
    BY MachinesAssumption DEF IInv, TypeOK, Answered
  <2>4. Promised(entries[k], Answered(Resolved(VersionChecks[entries[k].name])))
    BY <2>1, <2>2, <2>3, MetIsPromised DEF Served, Verified
  <2>5. ASSUME NEW c \in DOMAIN Aliases(entries[k])
        PROVE  Resolved(c) = Aliases(entries[k])[c]
    <3>1. c \in DOMAIN targets /\ targets[c] = Aliases(entries[k])[c]
      BY <2>1 DEF Served
    <3> QED BY <3>1, TargetsAreResolved
  <2> QED BY <2>1, <2>4, <2>5 DEF Verified
<1> QED BY ToolchainInvariance, <1>1, PTL

-----------------------------------------------------------------------------

(***************************************************************************)
(* What verify_installed refuses is not what was promised.                 *)
(***************************************************************************)

(* A non-empty set of naturals has a least element.                        *)
LEMMA LeastNumber ==
  ASSUME NEW S \in SUBSET Nat, S # {}
  PROVE  \E n \in S : \A m \in S : n <= m
<1> DEFINE R == {ss \in Nat \X Nat : ss[1] < ss[2]}
<1>1. IsWellFoundedOn(R, Nat)
  BY NatLessThanWellFounded DEF OpToRel
<1>2. \A m, n \in S : <<m, n>> \in R <=> m < n
  BY SMT
<1> HIDE DEF R
<1>3. PICK n \in S : \A m \in S : <<m, n>> \notin R
  BY <1>1, WFMin
<1>4. ASSUME NEW m \in S PROVE n <= m
  <2>1. ~(m < n)
    BY <1>2, <1>3
  <2> QED BY <2>1
<1> QED BY <1>4

(* A version without a part below the minimum's after equal ones passes    *)
(* _version_at_least: at the first part in which they differ it is above.  *)
LEMMA NoPartBelowSuffices ==
  ASSUME NEW minimum \in Version, NEW active \in Version,
         \A n \in DOMAIN minimum :
           \/ Part(active, n) >= minimum[n]
           \/ \E m \in 1..n - 1 : Part(active, m) # minimum[m]
  PROVE  VersionAtLeast(minimum, active)
<1> DEFINE width == IF Len(minimum) > Len(active) THEN Len(minimum) ELSE Len(active)
           a == Padded(active, width)
           b == Padded(minimum, width)
           D == {n \in 1..width : a[n] # b[n]}
<1>1. /\ Len(minimum) \in Nat /\ Len(active) \in Nat /\ width \in Nat
      /\ Len(minimum) <= width /\ DOMAIN minimum = 1..Len(minimum)
  BY DEF Version
<1>2. ASSUME NEW m \in 1..width
      PROVE  a[m] = Part(active, m) /\ a[m] \in Nat /\ b[m] \in Nat
             /\ b[m] = IF m <= Len(minimum) THEN minimum[m] ELSE 0
  BY <1>1 DEF Padded, Part, Version
<1>3. /\ DOMAIN a = 1..width /\ DOMAIN b = 1..width
      /\ a = [n \in 1..width |-> a[n]] /\ b = [n \in 1..width |-> b[n]]
  BY DEF Padded
<1> SUFFICES AtLeast(a, b)
  BY DEF VersionAtLeast
<1> HIDE DEF a, b, width
<1>4. CASE D = {}
  <2>1. a = b
    BY <1>3, <1>4
  <2> QED BY <2>1 DEF AtLeast
<1>5. CASE D # {}
  <2>1. PICK n \in D : \A m \in D : n <= m
    <3>1. D \in SUBSET Nat
      BY <1>1
    <3> HIDE DEF D
    <3> QED BY <1>5, <3>1, LeastNumber
  <2>2. ASSUME NEW m \in 1..n - 1 PROVE a[m] = b[m]
    <3>1. m \in 1..width /\ ~(n <= m)
      BY <1>1, <2>1
    <3> QED BY <2>1, <3>1
  <2>3. a[n] > b[n]
    <3>1. n \in 1..width /\ a[n] # b[n]
      BY <2>1
    <3>2. CASE n <= Len(minimum)
      <4>1. \A m \in 1..n - 1 : m \in 1..width /\ m <= Len(minimum)
        BY <1>1, <3>1, <3>2
      <4>2. \A m \in 1..n - 1 : Part(active, m) = minimum[m]
        BY <1>2, <2>2, <4>1
      <4>3. Part(active, n) >= minimum[n]
        BY <1>1, <3>1, <3>2, <4>2
      <4> QED BY <1>2, <3>1, <3>2, <4>3
    <3>3. CASE ~(n <= Len(minimum))
      BY <1>2, <3>1, <3>3
    <3> QED BY <3>2, <3>3
  <2> QED BY <1>3, <2>1, <2>2, <2>3 DEF AtLeast
<1> QED BY <1>4, <1>5

(* verify_installed accepts every answer that keeps the entry's promise.   *)
LEMMA PromisedIsMet ==
  ASSUME NEW entry \in Entry, WellFormed(entry), NEW answer \in Version \cup {NoAnswer},
         Promised(entry, answer)
  PROVE  Meets(entry, answer)
<1>1. answer \in Version /\ entry.version \in Version
  BY DEF Promised, WellFormed, Entry
<1>2. /\ Len(answer) \in Nat /\ Len(entry.version) \in Nat \ {0}
      /\ answer \in Seq(Nat) /\ entry.version \in Seq(Nat)
      /\ DOMAIN entry.version = 1..Len(entry.version)
  BY <1>1 DEF Version
<1>3. VersionMatches(entry.version, answer)
  <2> DEFINE n == Len(entry.version)
  <2>1. n <= Len(answer) /\ \A m \in 1..n : answer[m] = entry.version[m]
    <3>1. n \in DOMAIN entry.version /\ DOMAIN entry.version = 1..n
      BY <1>2
    <3> HIDE DEF n
    <3> QED BY <3>1 DEF Promised
  <2>2. Series(answer, n) = SubSeq(answer, 1, n)
    BY <1>2, <2>1 DEF Series
  <2>3. SubSeq(answer, 1, n) = entry.version
    BY <1>2, <2>1
  <2> QED BY <2>2, <2>3 DEF VersionMatches
<1>4. ASSUME entry.minimum # None PROVE VersionAtLeast(entry.minimum, answer)
  <2>1. entry.minimum \in Version
    BY <1>4 DEF Entry, WellFormed
  <2> QED BY <1>1, <1>4, <2>1, NoPartBelowSuffices DEF Promised
<1> QED BY <1>3, <1>4 DEF Promised, Meets

(***************************************************************************)
(* A target is what some entry asks for.                                   *)
(***************************************************************************)
Chosen == \A c \in DOMAIN targets : targets[c] \in Selected(c)

(* What a declaration asks of a machine does not change during a run.      *)
LEMMA FrameDeclaration ==
  ASSUME UNCHANGED given
  PROVE  /\ \A c : Selected(c)' = Selected(c)
         /\ CanBeMet' <=> CanBeMet
<1>1. entries' = entries /\ machine' = machine
  BY DEF given
<1>2. ASSUME NEW c PROVE Selected(c)' = Selected(c)
  BY <1>1 DEF Selected, Aliases, Versioned, Major, Empty
<1>3. ASSUME NEW c PROVE Candidates(c)' = Candidates(c)
  BY <1>2 DEF Candidates, Versioned
<1>4. ASSUME NEW k PROVE WellFormed(entries[k])' <=> WellFormed(entries[k])
  BY FrameEntry
<1>5. ASSUME NEW k PROVE Incomplete(entries[k])' <=> Incomplete(entries[k])
  BY <1>1 DEF Incomplete, Versioned, Major
<1>6. ASSUME NEW k, NEW p
      PROVE  Promised(entries[k], Answered(p))' <=> Promised(entries[k], Answered(p))
  BY <1>1 DEF Promised, Part, Answered, NoAnswer
<1>7. CanBeMet' <=> CanBeMet
  BY <1>1, <1>2, <1>3, <1>4, <1>5, <1>6 DEF CanBeMet, VersionChecks, Commands
<1> QED BY <1>2, <1>7

(* While versions are verified, a command resolves to a candidate for it.  *)
LEMMA ResolvedIsCandidate ==
  ASSUME IInv, Chosen, pc = "verify", NEW c
  PROVE  Resolved(c) \in Candidates(c)
<1>1. CASE Selected(c) = {}
  <2>1. c \notin DOMAIN targets
    BY <1>1 DEF Chosen
  <2>2. ~(Aliased /\ c \in DOMAIN shims)
    BY <2>1 DEF Aliased, IInv, TypeOK
  <2> QED BY <1>1, <2>2 DEF Resolved, Candidates
<1>2. CASE Selected(c) # {}
  <2>1. PICK k \in DOMAIN entries : c \in DOMAIN Aliases(entries[k])
    BY <1>2 DEF Selected
  <2>2. c \in DOMAIN targets
    BY <2>1 DEF IInv, CollectInv, Served
  <2>3. Resolved(c) = targets[c]
    BY <2>2, TargetsAreResolved
  <2> QED BY <1>2, <2>2, <2>3 DEF Chosen, Candidates
<1> QED BY <1>1, <1>2

(* A target of the entries so far, and of one more.                        *)
LEMMA ChosenStep == IInv /\ Chosen /\ [Next]_vars => Chosen'
<1> SUFFICES ASSUME IInv, Chosen, [Next]_vars PROVE Chosen'
  OBVIOUS
<1>1. CASE Collect
  <2>1. UNCHANGED given /\ i \in DOMAIN entries
    BY <1>1, EntriesAreSequences DEF Collect, IInv, TypeOK
  <2>2. ASSUME NEW c \in DOMAIN targets' PROVE targets'[c] \in Selected(c)
    BY <1>1, <2>1, <2>2 DEF Collect, Joined, Chosen, Selected
  <2> QED BY <2>1, <2>2, FrameDeclaration DEF Chosen
<1>2. CASE UNCHANGED <<given, targets>>
  BY <1>2, FrameDeclaration DEF Chosen
<1> QED
  BY <1>1, <1>2
  DEF Next, Refuse, Collected, MakeDirectory, Link, LinkFails, ChangePath, Verify,
      VerifyFails, StagesBegin, StagesEnd, Leave, Cleanup, vars

(* An entry that is not acceptable cannot be met with the others.          *)
LEMMA RefuseIsJustified == IInv /\ Chosen /\ Refuse => ~CanBeMet
<1> SUFFICES ASSUME IInv, Chosen, Refuse, CanBeMet PROVE FALSE
  OBVIOUS
<1>1. i \in DOMAIN entries
  BY EntriesAreSequences DEF Refuse, IInv, TypeOK
<1>2. Clash(entries[i])
  BY <1>1 DEF Refuse, Acceptable, CanBeMet
<1>3. PICK c \in DOMAIN Aliases(entries[i]) \cap DOMAIN targets :
        targets[c] # Aliases(entries[i])[c]
  BY <1>2 DEF Clash
<1>4. targets[c] \in Selected(c) /\ Aliases(entries[i])[c] \in Selected(c) /\ c \in Commands
  BY <1>1, <1>3 DEF Chosen, Selected, IInv, TypeOK
<1> QED BY <1>3, <1>4 DEF CanBeMet

(* Nor can one that is not verified.                                       *)
LEMMA VerifyFailsJustified == IInv /\ Chosen /\ VerifyFails => ~CanBeMet
<1> SUFFICES ASSUME IInv, Chosen, VerifyFails, CanBeMet PROVE FALSE
  OBVIOUS
<1> DEFINE entry == entries[i]
           program == Resolved(VersionChecks[entry.name])
<1>1. i \in DOMAIN entries /\ entry \in Entry
  BY EntriesAreSequences DEF VerifyFails, IInv, TypeOK
<1>2. WellFormed(entry) /\ entry.name \in DOMAIN VersionChecks /\ ~Verified(entry)
  BY <1>1 DEF VerifyFails, CanBeMet
<1>3. program \in Candidates(VersionChecks[entry.name])
  BY ResolvedIsCandidate DEF VerifyFails
<1>4. Promised(entry, Answered(program))
  BY <1>1, <1>3 DEF CanBeMet
<1>5. Answered(program) \in Version \cup {NoAnswer}
  BY MachinesAssumption DEF IInv, TypeOK, Answered
<1>6. Meets(entry, Answered(program))
  BY <1>1, <1>2, <1>4, <1>5, PromisedIsMet
<1> QED BY <1>2, <1>6 DEF Verified

(***************************************************************************)
(* Only a declaration that no assignment of programs can meet is refused   *)
(* (activate() and verify_installed(), for any declaration and machine).   *)
(***************************************************************************)
THEOREM RefusalsAreJustified == Spec => []RefusalIsJustified
<1>1. Init => Chosen /\ RefusalIsJustified
  BY DEF Init, Chosen, Empty, RefusalIsJustified
<1>2. IInv /\ Chosen /\ RefusalIsJustified /\ [Next]_vars => RefusalIsJustified'
  <2> SUFFICES ASSUME IInv, Chosen, RefusalIsJustified, [Next]_vars
               PROVE  RefusalIsJustified'
    OBVIOUS
  <2>1. CanBeMet' <=> CanBeMet
    <3>1. UNCHANGED given
      BY DEF Next, Collect, Refuse, Collected, MakeDirectory, Link, LinkFails, ChangePath,
             Verify, VerifyFails, StagesBegin, StagesEnd, Leave, Cleanup, vars
    <3> QED BY <3>1, FrameDeclaration
  <2>2. CASE Refuse \/ VerifyFails
    BY <2>1, <2>2, RefuseIsJustified, VerifyFailsJustified DEF RefusalIsJustified
  <2>3. CASE outcome' \in {outcome, "ok", "error", "traceback"}
    BY <2>1, <2>3 DEF RefusalIsJustified
  <2> QED
    BY <2>2, <2>3
    DEF Next, Collect, Collected, MakeDirectory, Link, LinkFails, ChangePath, Verify,
        StagesBegin, StagesEnd, Leave, Cleanup, vars
<1> QED BY <1>1, <1>2, ChosenStep, ToolchainInvariance, PTL DEF Spec
=============================================================================
