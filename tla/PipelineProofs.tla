---------------------------- MODULE PipelineProofs ----------------------------
(***************************************************************************)
(* The promises of an invocation, for any artifacts, checks, declarations  *)
(* and number of invocations.                                              *)
(*                                                                         *)
(* The steps of a run are sorted into those of the stages ahead of emit    *)
(* (Staged), which leave the output directory alone, and the others.  The  *)
(* invariant then has one part per promise: the stage results, what a      *)
(* violation stops, what verify compared, what emit has written.           *)
(***************************************************************************)
EXTENDS Pipeline, TLAPS

Early == {"toolchain", "fetch", "transform", "verify", "policy", "post"}

Emitting == {"emit", "copy", "manifest"}

(* How many results there are when a stage begins.                         *)
Rank(p) ==
  CASE p = "toolchain" -> 0
    [] p = "fetch"     -> 0
    [] p = "transform" -> 1
    [] p = "verify"    -> 2
    [] p = "policy"    -> 3
    [] p = "post"      -> 4
    [] OTHER           -> 5

Results == [name : StageNames, status : {"success", "skipped", "failed"}]

(* A step of a stage ahead of emit, as far as control goes.                *)
Staged ==
  /\ pc \in Early
  /\ \/ \E status \in {"success", "skipped"} : Complete(pc, status)
     \/ \E kind \in Raised : Raise(pc, kind)
     \/ Escape
     \/ UNCHANGED <<pc, job, run, stages, exit, unreported>>
  /\ UNCHANGED <<pending, selected, output>>

Control ==
  /\ pc \in Early \cup Emitting \cup Raised \cup {"idle"}
  /\ job \in Jobs
  /\ run \in 0..MaxRuns
  /\ stages \in Seq(Results)
  /\ exit \in {"none", "ok", "error", "violation", "traceback", "killed"}
  /\ pc # "idle" => exit = "none"
  /\ unreported \in BOOLEAN
  /\ DOMAIN output \subseteq Names \cup {"sources", "report.json"}

Data ==
  /\ inputs \in Partial(Names, [bytes : Bytes \cup {None}, allowed : BOOLEAN])
  /\ artifacts \in Partial(Names, Bytes \cup {None})
  /\ posts \in 0..MaxPosts
  /\ failing \in BOOLEAN
  /\ pending \subseteq selected /\ selected \subseteq DOMAIN artifacts
  /\ pc \in Early \cup {"emit"} => selected = {}
  /\ "sources" \in DOMAIN package

(* The stages that returned, in their order.                               *)
Prefix(k) ==
  /\ Len(stages) = k
  /\ \A i \in 1..k : stages[i].name = StageOrder[i + 1] /\ stages[i].status # "failed"

(* They, and the one that raised.                                          *)
Aborted ==
  /\ Len(stages) \in 1..6
  /\ \A i \in 1..Len(stages) : stages[i].status = "failed" <=> i = Len(stages)
  /\ \/ Len(stages) = 1 /\ stages[1].name = "toolchain"
     \/ \A i \in 1..Len(stages) : stages[i].name = StageOrder[i + 1]

Log ==
  /\ pc \in Early \cup Emitting => Prefix(Rank(pc))
  /\ exit = "ok" => Prefix(6)
  /\ pc \in Raised \/ exit \in Raised => Aborted

Stopped == failing => pc \in Raised \/ (pc = "idle" /\ exit # "ok")

Clear == package.sources = None \/ Republished = {}

Examined ==
  pc \in {"policy", "post"} \cup Emitting \/ exit = "ok" => job.dryRun \/ Clear

Copied(names) == \A n \in names : n \in DOMAIN output /\ output[n] = Payload(artifacts[n])

Listed == "sources" \in DOMAIN output /\ output["sources"] = Manifest(Entries)

Published ==
  /\ pc \in {"copy", "manifest"} => ~job.dryRun
  /\ pc \in {"copy", "manifest"} \/ (exit = "ok" /\ ~job.dryRun) =>
       selected = Wanted /\ Copied(selected \ pending)
  /\ pc = "manifest" \/ (exit = "ok" /\ ~job.dryRun) => pending = {} /\ Listed
  /\ exit \in {"ok"} \cup Raised /\ ~job.dryRun /\ ~unreported =>
       output["report.json"] = Report(stages)

IInv == Control /\ Data /\ Log /\ Stopped /\ Examined /\ Published
-----------------------------------------------------------------------------

LEMMA Successors ==
  /\ After("toolchain") = "fetch"
  /\ After("fetch") = "transform"
  /\ After("transform") = "verify"
  /\ After("verify") = "policy"
  /\ After("policy") = "post"
  /\ After("post") = "emit"
<1> DEFINE at(s) == CHOOSE i \in DOMAIN StageOrder : StageOrder[i] = s
<1>1. DOMAIN StageOrder = 1..7
  BY DEF StageOrder
<1>2. /\ StageOrder[1] = "toolchain"
      /\ StageOrder[2] = "fetch"
      /\ StageOrder[3] = "transform"
      /\ StageOrder[4] = "verify"
      /\ StageOrder[5] = "policy"
      /\ StageOrder[6] = "post"
      /\ StageOrder[7] = "emit"
  BY DEF StageOrder
<1>3. \A i, j \in DOMAIN StageOrder : StageOrder[i] = StageOrder[j] => i = j
  BY <1>1, <1>2
<1>4. ASSUME NEW i \in DOMAIN StageOrder PROVE at(StageOrder[i]) = i
  <2>1. /\ at(StageOrder[i]) \in DOMAIN StageOrder
        /\ StageOrder[at(StageOrder[i])] = StageOrder[i]
    OBVIOUS
  <2> QED
    BY <1>3, <2>1
<1>5. \A i \in DOMAIN StageOrder : After(StageOrder[i]) = StageOrder[1 + i]
  BY <1>4 DEF After
<1> QED
  BY <1>1, <1>2, <1>5

LEMMA Steps ==
  ASSUME Next
  PROVE  \/ \E j \in Jobs : Start(j)
         \/ ReportFailure
         \/ Staged
         \/ Select
         \/ \E n \in Names : Copy(n)
         \/ WriteManifest
         \/ WriteReport
         \/ WriteFails
         \/ Kill
         \/ Adopt
<1> USE DEF Staged, Early, Raised
<1>1. ASSUME Toolchain \/ Fetch \/ Transform \/ StageFails \/ CannotCompare PROVE Staged
  BY <1>1 DEF Toolchain, Fetch, Transform, StageFails, CannotCompare
<1>2. ASSUME NEW stage \in Early, pc = stage, NEW v, NEW verdicts,
             NEW status \in {"success", "skipped"}, Conclude(stage, v, verdicts, status)
      PROVE  Staged
  BY <1>2 DEF Conclude
<1>3. ASSUME NEW verdicts, Verify(verdicts) PROVE Staged
  BY <1>2, <1>3 DEF Verify
<1>4. ASSUME NEW verdicts, Policy(verdicts) PROVE Staged
  BY <1>2, <1>4 DEF Policy
<1>5. ASSUME SkipUnderDryRun \/ PostStep \/ PostDone PROVE Staged
  BY <1>5 DEF SkipUnderDryRun, PostStep, PostDone
<1> QED
  BY <1>1, <1>3, <1>4, <1>5 DEF Next

LEMMA ArtifactNames == ASSUME Data PROVE DOMAIN artifacts \subseteq Names
BY DEF Data, Partial

LEMMA ControlStep == ASSUME Control, Data, [Next]_vars PROVE Control'
<1> USE DEF Early, Emitting, Raised
<1>1. CASE UNCHANGED vars
  BY <1>1 DEF vars, local, Control
<1>2. ASSUME NEW f, NEW c, f \in Names \cup {"sources", "report.json"}
      PROVE  DOMAIN WriteFile(f, c) \subseteq Names \cup {"sources", "report.json"}
  BY <1>2 DEF WriteFile, Control
<1>3. \A p \in StageNames, s \in {"success", "skipped", "failed"} :
        Append(stages, Result(p, s)) \in Seq(Results)
  BY DEF Control, Result, Results
<1>4. Target \subseteq Names \cup {"sources", "report.json"}
  BY ArtifactNames DEF Target, Data
<1>5. \A o \in Interrupted : DOMAIN o \subseteq Names \cup {"sources", "report.json"}
  BY <1>2, <1>4 DEF Interrupted, Control
<1>a. ASSUME NEW j \in Jobs, Start(j) PROVE Control'
  <2>1. run' \in 0..MaxRuns
    BY <1>a, BoundAssumption DEF Start, Control
  <2>2. stages' \in Seq(Results)
    BY <1>a DEF Start
  <2> QED
    BY <1>a, <2>1, <2>2 DEF Start, Control
<1>b. CASE ReportFailure
  BY <1>b, <1>2 DEF ReportFailure, Control, local
<1>c. CASE Staged
  <2>1. pc \in StageNames
    BY <1>c DEF Staged, StageNames
  <2>2. ASSUME NEW status \in {"success", "skipped"}, Complete(pc, status) PROVE Control'
    BY <1>c, <1>3, <2>1, <2>2, Successors DEF Staged, Complete, Control
  <2>3. ASSUME NEW kind \in Raised, Raise(pc, kind) PROVE Control'
    BY <1>c, <1>3, <2>1, <2>3 DEF Staged, Raise, Control
  <2> QED
    BY <1>c, <2>2, <2>3 DEF Staged, Escape, Control
<1>d. CASE Select
  BY <1>d, <1>3 DEF Select, Raise, Control, StageNames
<1>e. ASSUME NEW n \in Names, Copy(n) PROVE Control'
  BY <1>e, <1>2 DEF Copy, Control
<1>f. CASE WriteManifest
  BY <1>f, <1>2 DEF WriteManifest, Control, local
<1>g. CASE WriteReport
  BY <1>g, <1>2, <1>3 DEF WriteReport, Control, StageNames
<1>h. CASE Adopt
  BY <1>h DEF Adopt, Control, local
<1>i. CASE WriteFails
  BY <1>i, <1>3, <1>5 DEF WriteFails, Raise, Control, StageNames
<1>j. CASE Kill
  BY <1>j, <1>5 DEF Kill, Control, local
<1> QED
  BY <1>1, <1>a, <1>b, <1>c, <1>d, <1>e, <1>f, <1>g, <1>h, <1>i, <1>j, Steps

LEMMA DataStep == ASSUME Control, Data, [Next]_vars PROVE Data'
<1> USE DEF Early, Emitting, Raised
<1>1. CASE UNCHANGED vars
  BY <1>1 DEF vars, local, Data
<1>2. Nothing \in Partial(Names, Bytes \cup {None}) /\ DOMAIN Nothing = {}
      /\ Nothing \in Partial(Names, [bytes : Bytes \cup {None}, allowed : BOOLEAN])
  <2>1. \A T : Nothing \in [{} -> T] /\ {} \in SUBSET Names
    BY DEF Nothing
  <2>2. DOMAIN Nothing = {}
    BY DEF Nothing
  <2> QED
    BY <2>1, <2>2 DEF Partial
<1>a. ASSUME NEW j \in Jobs, Start(j) PROVE Data'
  <2>1. inputs' = Nothing /\ artifacts' = Nothing /\ posts' = 0
        /\ pending' = {} /\ selected' = {} /\ failing' = FALSE /\ package' = package
    BY <1>a DEF Start
  <2>2. posts' \in 0..MaxPosts
    BY <2>1, BoundAssumption
  <2> QED
    BY <1>2, <2>1, <2>2 DEF Data
<1>b. CASE ReportFailure
  BY <1>b DEF ReportFailure, Data, local
<1>c. CASE Toolchain \/ StageFails \/ CannotCompare \/ SkipUnderDryRun
  BY <1>c, Successors DEF Toolchain, StageFails, CannotCompare, SkipUnderDryRun, Complete,
       Raise, Escape, Data
<1>d. CASE Fetch
  <2>1. selected = {} /\ selected' = {} /\ pending' = pending /\ posts' = posts
        /\ failing' = failing /\ package' = package /\ pc' = "transform"
    BY <1>d, Successors DEF Fetch, Complete, Data
  <2>2. PICK D \in SUBSET Names : inputs' \in [D -> [bytes : Holds, allowed : BOOLEAN]]
    BY <1>d DEF Fetch, Partial
  <2>3. Holds \subseteq Bytes \cup {None}
    BY DEF Holds
  <2>4. inputs' \in [D -> [bytes : Bytes \cup {None}, allowed : BOOLEAN]]
    BY <2>2, <2>3
  <2>5. artifacts' \in [D -> Bytes \cup {None}]
    BY <1>d, <2>4 DEF Fetch
  <2> QED
    BY <2>1, <2>4, <2>5 DEF Data, Partial
<1>e. CASE Transform
  <2>1. Holds \subseteq Bytes \cup {None}
    BY DEF Holds
  <2>2. artifacts' \in Partial(Names, Bytes \cup {None})
    BY <1>e, <2>1 DEF Transform, Data, Partial
  <2> QED
    BY <1>e, <2>2, Successors DEF Transform, Complete, Data
<1>f. ASSUME NEW stage \in {"verify", "policy"}, pc = stage, NEW v \in BOOLEAN, NEW verdicts,
             NEW status \in {"success", "skipped"}, Conclude(stage, v, verdicts, status)
      PROVE  Data'
  BY <1>f, Successors DEF Conclude, Complete, Raise, Escape, Data
<1>g. ASSUME NEW verdicts, Verify(verdicts) PROVE Data'
  BY <1>f, <1>g DEF Verify
<1>h. ASSUME NEW verdicts, Policy(verdicts) PROVE Data'
  BY <1>f, <1>h DEF Policy
<1>i. CASE PostStep
  BY <1>i, BoundAssumption DEF PostStep, Raise, Escape, Data
<1>j. CASE PostDone
  BY <1>j, Successors DEF PostDone, Complete, Data
<1>k. CASE Select
  BY <1>k DEF Select, CanPublish, Raise, Data
<1>l. ASSUME NEW n \in Names, Copy(n) PROVE Data'
  BY <1>l DEF Copy, Data
<1>m. CASE WriteManifest \/ WriteReport \/ WriteFails \/ Kill
  BY <1>m DEF WriteManifest, WriteReport, WriteFails, Kill, Raise, Data, local
<1>n. CASE Adopt
  BY <1>n DEF Adopt, Data, local
<1> QED
  BY <1>1, <1>a, <1>b, <1>c, <1>d, <1>e, <1>g, <1>h, <1>i, <1>j, <1>k, <1>l, <1>m, <1>n DEF Next

LEMMA LogStep == ASSUME Control, Log, [Next]_vars PROVE Log'
<1> USE DEF Early, Emitting, Raised
<1>2. ASSUME UNCHANGED stages
      PROVE  (\A k : Prefix(k)' <=> Prefix(k)) /\ (Aborted' <=> Aborted)
  BY <1>2 DEF Prefix, Aborted
<1>1. CASE UNCHANGED vars
  <2>1. UNCHANGED <<pc, exit, stages>>
    BY <1>1 DEF vars, local
  <2> QED
    BY <1>2, <2>1 DEF Log, Rank
<1>a. ASSUME NEW j \in Jobs, Start(j) PROVE Log'
  BY <1>a DEF Start, Log, Prefix, Rank
<1>b. CASE ReportFailure \/ Adopt \/ Kill \/ WriteManifest \/ \E n \in Names : Copy(n)
  <2>1. UNCHANGED stages
    BY <1>b DEF ReportFailure, Adopt, Kill, WriteManifest, Copy, local
  <2> QED
    BY <1>b, <1>2, <2>1 DEF Log, Rank, ReportFailure, Adopt, Kill, WriteManifest, Copy, Control
<1>3. ASSUME NEW p \in Early \cup {"emit"}, p # "toolchain"
      PROVE  Rank(p) \in 0..5 /\ p = StageOrder[Rank(p) + 2]
  BY <1>3 DEF Rank, StageOrder
<1>4. ASSUME NEW p \in StageNames, NEW s \in {"success", "skipped", "failed"},
             pc \in Early \cup Emitting, Rank(pc) = Rank(p), (p = "toolchain") = (pc = "toolchain"),
             stages' = Append(stages, Result(p, s))
      PROVE  /\ s # "failed" /\ p # "toolchain" => Prefix(Rank(p) + 1)'
             /\ s = "failed" => Aborted'
  <2> DEFINE k == Len(stages)
  <2>0. p \in Early \cup {"emit"} /\ pc \in Early \cup Emitting
    BY <1>4 DEF StageNames
  <2>1. k = Rank(pc) /\ \A i \in 1..k : stages[i].name = StageOrder[i + 1] /\ stages[i].status # "failed"
    BY <2>0 DEF Log, Prefix
  <2>2. /\ k \in Nat /\ Len(stages') = k + 1
        /\ \A i \in 1..k : stages'[i] = stages[i]
        /\ stages'[k + 1] = Result(p, s)
    <3>1. Result(p, s) \in Results
      BY DEF Result, Results
    <3> QED
      BY <1>4, <3>1 DEF Control
  <2>3. Result(p, s).name = p /\ Result(p, s).status = s
    BY DEF Result
  <2>4. Rank(pc) = Rank(p) /\ Rank(p) \in 0..5
    BY <1>4, <2>0 DEF Rank
  <2>5. p # "toolchain" => p = StageOrder[k + 2]
    BY <1>3, <2>0, <2>1, <2>4
  <2>6. \A i \in 1..k + 1 : i \in 1..k \/ i = k + 1
    BY <2>2
  <2>7. p = "toolchain" => k = 0
    BY <2>1, <2>4 DEF Rank
  <2>8. ASSUME s # "failed", p # "toolchain" PROVE Prefix(Rank(p) + 1)'
    BY <2>1, <2>2, <2>3, <2>4, <2>5, <2>6, <2>8 DEF Prefix
  <2>9. ASSUME s = "failed" PROVE Aborted'
    BY <2>1, <2>2, <2>3, <2>4, <2>5, <2>6, <2>7, <2>9 DEF Aborted
  <2> QED
    BY <2>8, <2>9
<1>c. CASE Staged
  <2>0. pc \in Early /\ pc \in StageNames /\ exit = "none"
    BY <1>c DEF Staged, StageNames, Control
  <2>1. ASSUME NEW status \in {"success", "skipped"}, Complete(pc, status) PROVE Log'
    <3>1. CASE pc = "toolchain"
      BY <1>2, <2>0, <2>1, <3>1, Successors DEF Complete, Log, Rank
    <3>2. CASE pc # "toolchain"
      <4>1. pc' = After(pc) /\ stages' = Append(stages, Result(pc, status)) /\ exit' = exit
        BY <2>1, <3>2 DEF Complete
      <4>2. PICK p \in Early : p = pc
        BY <2>0
      <4>0. p \in StageNames /\ p # "toolchain" /\ stages' = Append(stages, Result(p, status))
        BY <3>2, <4>1, <4>2 DEF StageNames
      <4>3. Prefix(Rank(p) + 1)'
        BY <1>4, <2>0, <4>0, <4>2
      <4>4. Rank(After(p)) = Rank(p) + 1 /\ After(p) \in Early \cup {"emit"}
        BY <3>2, <4>2, Successors DEF Rank
      <4>5. Rank(pc') = Rank(p) + 1
        BY <4>1, <4>2, <4>4
      <4>6. Prefix(Rank(pc))'
        BY <4>3, <4>5 DEF Prefix
      <4> QED
        BY <2>0, <4>1, <4>2, <4>4, <4>6 DEF Log
    <3> QED
      BY <3>1, <3>2
  <2>2. ASSUME NEW kind \in Raised, Raise(pc, kind) PROVE Log'
    <3>1. stages' = Append(stages, Result(pc, "failed")) /\ pc' = kind /\ exit' = exit
      BY <2>2 DEF Raise
    <3>2. PICK p \in StageNames : p = pc
      BY <2>0
    <3>3. stages' = Append(stages, Result(p, "failed"))
      BY <3>1, <3>2
    <3>4. Aborted'
      BY <1>4, <2>0, <3>2, <3>3
    <3> QED
      BY <2>0, <3>1, <3>4 DEF Log
  <2>3. CASE Escape \/ UNCHANGED <<pc, job, run, stages, exit, unreported>>
    BY <1>2, <2>0, <2>3 DEF Escape, Log
  <2> QED
    BY <1>c, <2>1, <2>2, <2>3 DEF Staged
<1>d. CASE Select
  <2>1. pc = "emit" /\ "emit" \in StageNames /\ exit = "none"
    BY <1>d DEF Select, StageNames, Control
  <2>2. Rank("emit") = 5 /\ Rank("copy") = 5
    BY DEF Rank
  <2> QED
    BY <1>2, <1>4, <1>d, <2>1, <2>2 DEF Select, Raise, Log
<1>e. CASE WriteReport \/ WriteFails
  <2>1. "emit" \in StageNames /\ exit = "none" /\ Rank("emit") = 5
    BY <1>e DEF WriteReport, WriteFails, StageNames, Control, Rank
  <2>2. pc \in {"copy", "manifest"} /\ Rank(pc) = 5 /\ pc # "toolchain"
    BY <1>e DEF WriteReport, WriteFails, Rank
  <2>3. CASE WriteReport
    <3>1. Prefix(Rank("emit") + 1)'
      BY <1>4, <2>1, <2>2, <2>3 DEF WriteReport
    <3>2. Prefix(6)'
      BY <2>1, <3>1 DEF Prefix
    <3> QED
      BY <2>3, <3>2 DEF WriteReport, Log
  <2>4. CASE WriteFails
    <3>1. Aborted'
      BY <1>4, <2>1, <2>2, <2>4 DEF WriteFails, Raise
    <3> QED
      BY <2>1, <2>4, <3>1 DEF WriteFails, Raise, Log
  <2> QED
    BY <1>e, <2>3, <2>4
<1> QED
  BY <1>1, <1>a, <1>b, <1>c, <1>d, <1>e, Steps

LEMMA StoppedStep == ASSUME Control, Stopped, [Next]_vars PROVE Stopped'
<1> USE DEF Early, Emitting, Raised
<1>1. CASE UNCHANGED vars
  BY <1>1 DEF vars, local, Stopped
<1>2. ASSUME NEW stage, pc = stage, stage \in {"verify", "policy"}, NEW v \in BOOLEAN, NEW verdicts,
             NEW status, Conclude(stage, v, verdicts, status)
      PROVE  Stopped'
  <2>1. ~failing /\ exit = "none"
    BY <1>2 DEF Stopped, Control
  <2>2. "failed" \in Range(verdicts) \/ v => Found(v, verdicts)
    BY DEF Found
  <2>3. CASE "raises" \in Range(verdicts) /\ Raise(stage, "error")
    BY <2>3 DEF Raise, Stopped
  <2>4. CASE "escapes" \in Range(verdicts) /\ Escape
    BY <2>4 DEF Escape, Stopped
  <2>5. CASE Found(v, verdicts) /\ Raise(stage, "violation")
    BY <2>5 DEF Raise, Stopped
  <2>6. CASE ~Found(v, verdicts)
    BY <1>2, <2>1, <2>2, <2>6 DEF Conclude, Stopped
  <2> QED
    BY <1>2, <2>3, <2>4, <2>5, <2>6 DEF Conclude
<1>a. CASE failing' # failing
  <2>1. (\E j \in Jobs : Start(j)) \/ (\E verdicts : Verify(verdicts)) \/ \E verdicts : Policy(verdicts)
    BY <1>a DEF Next, vars, local, ReportFailure, Toolchain, Fetch, Transform, StageFails, CannotCompare,
         SkipUnderDryRun, PostStep, PostDone, Select, Copy, WriteManifest, WriteReport, WriteFails,
         Kill, Adopt
  <2> QED
    BY <1>2, <2>1 DEF Start, Verify, Policy, Stopped
<1>b. CASE failing' = failing /\ failing
  <2>1. pc \in Raised \/ (pc = "idle" /\ exit # "ok")
    BY <1>b DEF Stopped
  <2>2. ~Staged /\ ~Select /\ ~WriteManifest /\ ~WriteReport /\ ~WriteFails /\ ~Adopt
        /\ (\A n \in Names : ~Copy(n)) /\ (\A j \in Jobs : ~Start(j))
    BY <1>b, <2>1 DEF Staged, Select, WriteManifest, WriteReport, WriteFails, Adopt, Copy, Start
  <2>3. ReportFailure \/ Kill \/ UNCHANGED vars
    BY <2>2, Steps
  <2> QED
    BY <1>1, <1>b, <2>1, <2>3 DEF ReportFailure, Kill, Stopped
<1>c. CASE ~failing /\ failing' = failing
  BY <1>c DEF Stopped
<1> QED
  BY <1>a, <1>b, <1>c

LEMMA ClearFrame ==
  ASSUME UNCHANGED <<artifacts, inputs, job>>, package'.sources = package.sources
  PROVE  Clear' <=> Clear
BY DEF Clear, Republished, Compared, VersionChange

LEMMA ExaminedStep == ASSUME Control, Data, Examined, Published, [Next]_vars PROVE Examined'
<1> USE DEF Early, Emitting, Raised
<1>1. ASSUME UNCHANGED <<artifacts, inputs, job>>, package'.sources = package.sources,
             pc' \in {"policy", "post"} \cup Emitting \/ exit' = "ok" =>
               pc \in {"policy", "post"} \cup Emitting \/ exit = "ok"
      PROVE  Examined'
  BY <1>1, ClearFrame DEF Examined
<1>2. CASE UNCHANGED vars
  BY <1>1, <1>2 DEF vars, local
<1>a. ASSUME NEW j \in Jobs, Start(j) PROVE Examined'
  BY <1>a DEF Start, Examined
<1>b. CASE Toolchain \/ Fetch \/ Transform \/ StageFails \/ CannotCompare
  BY <1>b, Successors DEF Toolchain, Fetch, Transform, StageFails, CannotCompare, Complete, Raise,
       Escape, Examined, Control
<1>c. ASSUME NEW verdicts, Verify(verdicts) PROVE Examined'
  <2>1. UNCHANGED <<artifacts, inputs, job, package>> /\ exit = "none"
    BY <1>c DEF Verify, Conclude, Complete, Raise, Escape, Control
  <2>2. CASE ~Found(Republished # {}, verdicts)
    <3>1. Clear
      BY <2>2 DEF Found, Clear
    <3> QED
      BY <2>1, <3>1, ClearFrame DEF Examined
  <2>3. CASE pc' \notin {"policy", "post"} \cup Emitting /\ exit' # "ok"
    BY <2>3 DEF Examined
  <2> QED
    BY <1>c, <2>1, <2>2, <2>3 DEF Verify, Conclude, Raise, Escape
<1>d. ASSUME NEW verdicts, Policy(verdicts) PROVE Examined'
  <2>1. UNCHANGED <<artifacts, inputs, job, package>> /\ pc = "policy" /\ exit' # "ok"
    BY <1>d DEF Policy, Conclude, Complete, Raise, Escape, Control
  <2> QED
    BY <1>1, <2>1
<1>e. CASE SkipUnderDryRun
  BY <1>e, Successors DEF SkipUnderDryRun, Complete, Examined
<1>f. CASE PostStep \/ PostDone
  <2>1. UNCHANGED <<artifacts, inputs, job>> /\ pc = "post" /\ exit' # "ok"
        /\ package'.sources = package.sources
    BY <1>f DEF PostStep, PostDone, Complete, Raise, Escape, Control
  <2> QED
    BY <1>1, <2>1
<1>g. CASE ReportFailure \/ Kill
  BY <1>g DEF ReportFailure, Kill, Examined, Control
<1>h. CASE Select \/ WriteManifest \/ WriteReport \/ WriteFails \/ \E n \in Names : Copy(n)
  <2>1. UNCHANGED <<artifacts, inputs, job, package>> /\ pc \in Emitting
    BY <1>h DEF Select, WriteManifest, WriteReport, WriteFails, Copy, Raise, local
  <2> QED
    BY <1>1, <2>1
<1>i. CASE Adopt
  <2>1. /\ package'.sources = output["sources"][2] /\ exit = "ok" /\ ~job.dryRun
        /\ artifacts' = artifacts
    BY <1>i DEF Adopt, Data, local
  <2>2. package'.sources = Entries
    BY <2>1 DEF Published, Listed, Manifest
  <2>3. \A n \in DOMAIN artifacts' \cap DOMAIN package'.sources : artifacts'[n] = package'.sources[n]
    BY <2>1, <2>2 DEF Entries, Restrict
  <2>4. Clear'
    BY <2>3 DEF Clear, Republished, Compared
  <2> QED
    BY <2>4 DEF Examined
<1> QED
  BY <1>2, <1>a, <1>b, <1>c, <1>d, <1>e, <1>f, <1>g, <1>h, <1>i DEF Next

LEMMA Writing ==
  ASSUME NEW f, NEW c, output' = WriteFile(f, c)
  PROVE  /\ f \in DOMAIN output' /\ output'[f] = c
         /\ \A g \in DOMAIN output : g # f => g \in DOMAIN output' /\ output'[g] = output[g]
         /\ \A g \in DOMAIN output' : g # f => g \in DOMAIN output /\ output'[g] = output[g]
BY DEF WriteFile

LEMMA PublishedStep == ASSUME Control, Data, Published, [Next]_vars PROVE Published'
<1> USE DEF Early, Emitting, Raised
<1>1. CASE UNCHANGED vars
  BY <1>1 DEF vars, local, Published, Copied, Listed, Entries, Wanted, Report
<1>2. \A n \in selected : n \in Names /\ n # "sources" /\ n # "report.json"
  BY ArtifactNames, NamesAssumption DEF Data
<1>a. ASSUME NEW j \in Jobs, Start(j) PROVE Published'
  BY <1>a DEF Start, Published
<1>b. CASE ReportFailure
  <2>1. pc' = "idle" /\ exit' = pc /\ pc # "ok" /\ job' = job /\ stages' = stages /\ run' = run
    BY <1>b DEF ReportFailure, local
  <2>2. CASE job.dryRun
    BY <2>1, <2>2 DEF Published
  <2>3. CASE ~job.dryRun /\ ~unreported'
    <3>1. output' = WriteFile("report.json", Report(stages))
      BY <1>b, <2>3 DEF ReportFailure, KeepsOutput
    <3>2. Report(stages)' = Report(stages)
      BY <2>1 DEF Report
    <3> QED
      BY <2>1, <3>1, <3>2, Writing DEF Published
  <2>4. CASE unreported'
    BY <2>1, <2>4 DEF Published
  <2> QED
    BY <2>2, <2>3, <2>4
<1>c. CASE Staged
  BY <1>c, Successors DEF Staged, Complete, Raise, Escape, Published, Control
<1>d. CASE Select
  <2>1. exit = "none" /\ job' = job /\ artifacts' = artifacts
    BY <1>d DEF Select, Raise, Control
  <2>2. Wanted' = Wanted
    BY <2>1 DEF Wanted
  <2> QED
    BY <1>d, <2>1, <2>2 DEF Select, Raise, Published, Copied
<1>e. ASSUME NEW n \in Names, Copy(n) PROVE Published'
  <2>1. /\ pc = "copy" /\ pc' = "copy" /\ exit = "none" /\ exit' = "none" /\ ~job.dryRun
        /\ job' = job /\ artifacts' = artifacts /\ selected' = selected
        /\ pending' = pending \ {n} /\ output' = WriteFile(n, Payload(artifacts[n]))
        /\ selected = Wanted /\ Copied(selected \ pending)
    BY <1>e DEF Copy, Control, Published
  <2>2. Wanted' = Wanted
    BY <2>1 DEF Wanted
  <2>3. \A m \in (selected \ pending) \cup {n} : m \in DOMAIN output' /\ output'[m] = Payload(artifacts[m])
    BY <2>1, Writing DEF Copied
  <2>4. Copied(selected \ pending)'
    BY <2>1, <2>3 DEF Copied
  <2> QED
    BY <2>1, <2>2, <2>4 DEF Published
<1>f. CASE WriteManifest
  <2>1. /\ pc = "copy" /\ pending = {} /\ pc' = "manifest" /\ exit = "none" /\ exit' = "none"
        /\ ~job.dryRun /\ job' = job /\ artifacts' = artifacts /\ selected' = selected
        /\ pending' = {} /\ output' = WriteFile("sources", Manifest(Entries))
        /\ selected = Wanted /\ Copied(selected \ pending)
    BY <1>f DEF WriteManifest, Control, Published, local
  <2>2. Wanted' = Wanted /\ Entries' = Entries
    BY <2>1 DEF Wanted, Entries
  <2>3. Copied(selected \ pending)'
    BY <1>2, <2>1, Writing DEF Copied
  <2>4. Listed'
    BY <2>1, <2>2, Writing DEF Listed, Manifest
  <2> QED
    BY <2>1, <2>2, <2>3, <2>4 DEF Published
<1>g. CASE WriteReport
  <2>1. /\ pc = "manifest" /\ pc' = "idle" /\ exit' = "ok" /\ ~job.dryRun
        /\ job' = job /\ artifacts' = artifacts /\ selected' = selected /\ run' = run
        /\ pending' = pending /\ output' = WriteFile("report.json", Report(stages'))
        /\ selected = Wanted /\ Copied(selected \ pending) /\ pending = {} /\ Listed
    BY <1>g DEF WriteReport, Published, WithOwnResult
  <2>2. Wanted' = Wanted /\ Entries' = Entries /\ Report(stages)' = Report(stages')
    BY <2>1 DEF Wanted, Entries, Report
  <2>3. Copied(selected \ pending)'
    BY <1>2, <2>1, Writing DEF Copied
  <2>4. Listed'
    BY <2>1, <2>2, Writing DEF Listed, Manifest
  <2>5. output'["report.json"] = Report(stages)'
    BY <2>1, <2>2, Writing
  <2> QED
    BY <2>1, <2>2, <2>3, <2>4, <2>5 DEF Published
<1>h. CASE WriteFails \/ Kill
  BY <1>h DEF WriteFails, Kill, Raise, Published, Control
<1>i. CASE Adopt
  BY <1>i DEF Adopt, local, Published, Copied, Listed, Entries, Wanted, Report
<1> QED
  BY <1>1, <1>a, <1>b, <1>c, <1>d, <1>e, <1>f, <1>g, <1>h, <1>i, Steps

LEMMA InitInv == Init => IInv
<1> SUFFICES ASSUME Init PROVE IInv
  OBVIOUS
<1>1. job \in Jobs
  BY JobsAssumption DEF Init
<1>2. DOMAIN output \subseteq Names \cup {"sources", "report.json"}
  BY DEF Init, Nothing, Leftovers
<1>3. run \in 0..MaxRuns /\ posts \in 0..MaxPosts
  BY BoundAssumption DEF Init
<1>4. stages \in Seq(Results)
  BY DEF Init
<1>5. Control
  BY <1>1, <1>2, <1>3, <1>4 DEF Init, Control
<1>6. \A T : Nothing \in Partial(Names, T)
  <2>1. \A T : Nothing \in [{} -> T] /\ {} \in SUBSET Names
    BY DEF Nothing
  <2> QED
    BY <2>1 DEF Partial
<1>7. Data
  BY <1>3, <1>6 DEF Init, Data
<1>8. Log /\ Stopped /\ Examined /\ Published
  BY DEF Init, Log, Stopped, Examined, Published, Early, Emitting, Raised
<1> QED
  BY <1>5, <1>7, <1>8 DEF IInv

(***************************************************************************)
(* The inductive invariant: what the stage says of the stages before it,   *)
(* the bytes behind every listed file, the stages in the log, and what a   *)
(* violation, verify and a finished emit leave behind.                     *)
(***************************************************************************)
THEOREM Invariance == Spec => []IInv
<1>1. Init => IInv
  BY InitInv
<1>2. IInv /\ [Next]_vars => IInv'
  BY ControlStep, DataStep, LogStep, StoppedStep, ExaminedStep, PublishedStep DEF IInv
<1> QED
  BY <1>1, <1>2, PTL DEF Spec
-----------------------------------------------------------------------------

(***************************************************************************)
(* Types, and: what emit is copying are artifacts of this invocation.      *)
(***************************************************************************)
THEOREM Types == Spec => []TypeOK
<1>1. IInv => TypeOK
  <2> SUFFICES ASSUME Control, Data PROVE TypeOK
    BY DEF IInv
  <2>1. DOMAIN stages = 1..Len(stages) /\ Range(stages) \subseteq Results
    BY DEF Control, Range
  <2>2. pc \in StageNames \cup Raised \cup {"idle", "copy", "manifest"}
    BY DEF Control, StageNames, Early, Emitting
  <2> QED
    BY <2>1, <2>2 DEF TypeOK, Control, Data, Results
<1> QED
  BY <1>1, Invariance, PTL

(***************************************************************************)
(* A successful invocation's manifest lists exactly what was to be         *)
(* published, each file present with the bytes listed.                     *)
(***************************************************************************)
THEOREM ManifestIsTrue == Spec => []ManifestMatchesBytes
<1>1. IInv => ManifestMatchesBytes
  <2> SUFFICES ASSUME IInv, exit = "ok", ~job.dryRun
               PROVE  LET entries == output["sources"][2] IN
                      /\ output["sources"] = Manifest(entries)
                      /\ DOMAIN entries = Wanted
                      /\ \A n \in Wanted : entries[n] = artifacts[n] /\ output[n] = Payload(entries[n])
    BY DEF ManifestMatchesBytes
  <2>1. selected = Wanted /\ Copied(Wanted) /\ output["sources"] = Manifest(Entries)
    BY DEF IInv, Published, Listed
  <2>2. output["sources"][2] = Entries
    BY <2>1 DEF Manifest
  <2>3. DOMAIN Entries = Wanted /\ \A n \in Wanted : Entries[n] = artifacts[n]
    BY <2>1 DEF Entries, Restrict
  <2> QED
    BY <2>1, <2>2, <2>3 DEF Copied
<1> QED
  BY <1>1, Invariance, PTL

(***************************************************************************)
(* Published bytes are replaced only by declaration: verify compared what  *)
(* the adopted manifest lists with what was published before.              *)
(***************************************************************************)
THEOREM RepublicationIsDeclared == Spec => NoSilentRepublication
<1>1. ASSUME IInv, [Next]_vars, package'.sources # package.sources, package.sources # None,
             NEW n \in DOMAIN package.sources \cap DOMAIN package'.sources
      PROVE  \/ package'.sources[n] = package.sources[n]
             \/ job.newVersion /\ n \in DOMAIN inputs /\ inputs[n].allowed
             \/ <<n, package'.sources[n]>> \in job.accepted
  <2>1. Adopt
    BY <1>1 DEF Next, vars, local, Start, ReportFailure, Toolchain, Fetch, Transform, StageFails,
         Verify, Policy, Conclude, CannotCompare, SkipUnderDryRun, PostStep, PostDone, Select, Copy,
         WriteManifest, WriteReport, WriteFails, Kill
  <2>2. package'.sources = output["sources"][2] /\ exit = "ok" /\ ~job.dryRun
    BY <1>1, <2>1 DEF Adopt, IInv, Data
  <2>3. package'.sources = Entries /\ selected = Wanted /\ Republished = {}
    BY <1>1, <2>2 DEF IInv, Published, Listed, Manifest, Examined, Clear
  <2>4. n \in DOMAIN artifacts /\ package'.sources[n] = artifacts[n]
    BY <1>1, <2>3 DEF IInv, Data, Entries, Restrict
  <2>5. \/ artifacts[n] = package.sources[n]
        \/ VersionChange(n)
        \/ <<n, artifacts[n]>> \in job.accepted
    BY <1>1, <2>3, <2>4 DEF Republished, Compared
  <2> QED
    BY <2>4, <2>5 DEF VersionChange
<1>2. IInv /\ [Next]_vars =>
        (package'.sources # package.sources /\ package.sources # None =>
           \A n \in DOMAIN package.sources \cap DOMAIN package'.sources :
             \/ package'.sources[n] = package.sources[n]
             \/ job.newVersion /\ n \in DOMAIN inputs /\ inputs[n].allowed
             \/ <<n, package'.sources[n]>> \in job.accepted)
  BY <1>1
<1> QED
  BY <1>2, Invariance, PTL DEF NoSilentRepublication, Spec

(***************************************************************************)
(* A violation stops everything but the report.                            *)
(***************************************************************************)
THEOREM ViolationsStop == Spec => FailClosed
<1>1. ASSUME IInv, [Next]_vars, failing, failing'
      PROVE  /\ UNCHANGED package
             /\ \A f \in DOMAIN output' \ {"report.json"} :
                  f \in DOMAIN output /\ output'[f] = output[f]
  <2> USE DEF Raised
  <2>1. pc \in Raised \/ (pc = "idle" /\ exit # "ok")
    BY <1>1 DEF IInv, Stopped
  <2>2. ~Staged /\ ~Select /\ ~WriteManifest /\ ~WriteReport /\ ~WriteFails /\ ~Adopt
        /\ (\A n \in Names : ~Copy(n)) /\ (\A j \in Jobs : ~Start(j))
    BY <1>1, <2>1 DEF Staged, Early, Select, WriteManifest, WriteReport, WriteFails, Adopt, Copy, Start
  <2>3. ReportFailure \/ Kill \/ UNCHANGED vars
    BY <1>1, <2>2, Steps
  <2>4. UNCHANGED package
    BY <2>3 DEF ReportFailure, Kill, vars
  <2>5. output' = output \/ \E c : output' = WriteFile("report.json", c)
    BY <2>1, <2>3 DEF ReportFailure, Kill, Interrupted, Target, vars
  <2> QED
    BY <2>4, <2>5, Writing
<1> QED
  BY <1>1, Invariance, PTL DEF FailClosed, Spec

(***************************************************************************)
(* The report of an invocation that ends by way of main() has the stages   *)
(* that ran, each once and in order, and how the last one ended.           *)
(***************************************************************************)
THEOREM ReportIsTrue == Spec => []ReportTellsTheTruth
<1>1. IInv => ReportTellsTheTruth
  <2> SUFFICES ASSUME IInv, exit \in {"ok"} \cup Raised, ~job.dryRun, ~unreported
               PROVE  /\ output["report.json"] = Report(stages)
                      /\ \A i \in DOMAIN stages :
                           stages[i].status = "failed" <=> exit # "ok" /\ i = Len(stages)
                      /\ Ran = IF Ran[1] = "toolchain" THEN <<"toolchain">>
                               ELSE SubSeq(StageOrder, 2, 1 + Len(stages))
                      /\ exit = "ok" => After(Ran[Len(Ran) - 1]) = "emit"
    BY DEF ReportTellsTheTruth
  <2>1. output["report.json"] = Report(stages)
    BY DEF IInv, Published
  <2>2. DOMAIN stages = 1..Len(stages) /\ Len(stages) \in Nat /\ stages \in Seq(Results)
    BY DEF IInv, Control
  <2>3. IF exit = "ok" THEN Prefix(6) ELSE Aborted
    BY DEF IInv, Log, Raised
  <2>4. Len(stages) \in 1..6
    BY <2>3 DEF Prefix, Aborted
  <2>5. \A i \in DOMAIN stages : stages[i].status = "failed" <=> exit # "ok" /\ i = Len(stages)
    BY <2>2, <2>3 DEF Prefix, Aborted
  <2>6. Ran \in Seq(StageNames) /\ Len(Ran) = Len(stages) /\ \A i \in 1..Len(stages) : Ran[i] = stages[i].name
    <3>1. \A i \in 1..Len(stages) : stages[i].name \in StageNames
      <4> SUFFICES ASSUME NEW i \in 1..Len(stages) PROVE stages[i].name \in StageNames
        OBVIOUS
      <4>1. stages[i] \in Results
        BY <2>2
      <4> QED
        BY <4>1 DEF Results
    <3>2. Ran = [i \in 1..Len(stages) |-> stages[i].name]
      BY <2>2 DEF Ran
    <3> QED
      BY <2>2, <3>1, <3>2
  <2>7. CASE stages[1].name = "toolchain"
    <3>1. Len(stages) = 1 /\ exit # "ok"
      BY <2>3, <2>4, <2>7 DEF Prefix, Aborted, StageOrder
    <3>2. Ran = <<"toolchain">> /\ Ran[1] = "toolchain"
      BY <2>6, <2>7, <3>1
    <3> QED
      BY <2>1, <2>5, <3>1, <3>2
  <2>8. CASE stages[1].name # "toolchain"
    <3>1. \A i \in 1..Len(stages) : stages[i].name = StageOrder[i + 1]
      BY <2>3, <2>8 DEF Prefix, Aborted
    <3>2. Ran[1] # "toolchain"
      BY <2>4, <2>6, <2>8
    <3>3. StageOrder \in Seq(StageNames) /\ Len(StageOrder) = 7
      BY DEF StageOrder, StageNames
    <3>4. Ran = SubSeq(StageOrder, 2, 1 + Len(stages))
      BY <2>4, <2>6, <3>1, <3>3
    <3>5. exit = "ok" => After(Ran[Len(Ran) - 1]) = "emit"
      <4> SUFFICES ASSUME exit = "ok" PROVE After(Ran[Len(Ran) - 1]) = "emit"
        OBVIOUS
      <4>1. Len(stages) = 6
        BY <2>3 DEF Prefix
      <4>2. Ran[5] = "post" /\ Len(Ran) - 1 = 5
        BY <2>6, <3>1, <4>1 DEF StageOrder
      <4> QED
        BY <4>2, Successors
    <3> QED
      BY <2>1, <2>5, <3>2, <3>4, <3>5
  <2> QED
    BY <2>7, <2>8
<1> QED
  BY <1>1, Invariance, PTL

(***************************************************************************)
(* The package directory changes only after verify and policy passed or    *)
(* were skipped.                                                           *)
(***************************************************************************)
THEOREM ChecksComeFirst == Spec => PackageChangesAfterChecks
<1>1. ASSUME IInv, [Next]_vars, package' # package, pc # "idle", NEW check \in {"verify", "policy"}
      PROVE  \E i \in DOMAIN stages : stages[i].name = check /\ stages[i].status # "failed"
  <2>1. PostStep
    BY <1>1 DEF Next, vars, local, Start, ReportFailure, Toolchain, Fetch, Transform, StageFails,
         Verify, Policy, Conclude, CannotCompare, SkipUnderDryRun, PostDone, Select, Copy,
         WriteManifest, WriteReport, WriteFails, Kill, Adopt
  <2>2. Prefix(4)
    BY <1>1, <2>1 DEF PostStep, IInv, Log, Early, Rank
  <2>3. 3 \in DOMAIN stages /\ 4 \in DOMAIN stages
    BY <1>1, <2>2 DEF Prefix, IInv, Control
  <2>4. stages[3].name = "verify" /\ stages[4].name = "policy"
        /\ stages[3].status # "failed" /\ stages[4].status # "failed"
    BY <2>2 DEF Prefix, StageOrder
  <2> QED
    BY <2>3, <2>4
<1>2. IInv /\ [Next]_vars =>
        (package' # package /\ pc # "idle" =>
           \A check \in {"verify", "policy"} : \E i \in DOMAIN stages :
             stages[i].name = check /\ stages[i].status # "failed")
  BY <1>1
<1> QED
  BY <1>2, Invariance, PTL DEF PackageChangesAfterChecks, Spec

(***************************************************************************)
(* A dry run changes neither directory.                                    *)
(***************************************************************************)
THEOREM DryRunsAreDry == Spec => DryRunTouchesNothing
<1>1. ASSUME IInv, [Next]_vars, pc # "idle", job.dryRun
      PROVE  UNCHANGED <<package, output>>
  <2> USE DEF Raised
  <2>1. pc \notin {"copy", "manifest"}
    BY <1>1 DEF IInv, Published
  <2>2. Interrupted = {output}
    BY <1>1, <2>1 DEF Interrupted, Target
  <2>3. UNCHANGED output
    <3>1. CASE ReportFailure
      BY <1>1, <3>1 DEF ReportFailure, KeepsOutput
    <3>2. CASE Kill
      BY <2>2, <3>2 DEF Kill
    <3>3. CASE Staged \/ Select \/ UNCHANGED vars
      BY <3>3 DEF Staged, Select, vars
    <3> QED
      BY <1>1, <2>1, <3>1, <3>2, <3>3, Steps DEF Copy, WriteManifest, WriteReport, WriteFails, Start, Adopt
  <2>4. UNCHANGED package
    BY <1>1, <2>1 DEF Next, vars, local, Start, ReportFailure, Toolchain, Fetch, Transform, StageFails,
         Verify, Policy, Conclude, CannotCompare, SkipUnderDryRun, PostStep, PostDone, Select, Copy,
         WriteManifest, WriteReport, WriteFails, Kill, Adopt
  <2> QED
    BY <2>3, <2>4
<1> QED
  BY <1>1, Invariance, PTL DEF DryRunTouchesNothing, Spec
=============================================================================
