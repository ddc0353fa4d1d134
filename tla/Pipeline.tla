------------------------------- MODULE Pipeline -------------------------------
(***************************************************************************)
(* Invocations of gorget over one package directory and one output         *)
(* directory: the runner and its six stages, the report, the exit code.    *)
(*                                                                         *)
(* Fetch and transform (module Transform) are taken here by their results. *)
(* Verify and policy are their checks' verdicts, emit its single writes.   *)
(* Between invocations the packager may adopt an emitted manifest as the   *)
(* package's `sources' file.  A digest stands for the bytes it is of.      *)
(***************************************************************************)
EXTENDS Naturals, Sequences, Functions

CONSTANTS
  Names,      (* artifact output names                                     *)
  Bytes,      (* what an artifact can hold                                 *)
  None,
  Jobs,       (* the invocations: [dryRun, newVersion, accepted, publish]  *)
  MaxRuns, MaxChecks, MaxPosts

Job == [dryRun : BOOLEAN, newVersion : BOOLEAN, accepted : SUBSET (Names \X Bytes),
        publish : {None} \cup Seq(Names)]

(* An artifact called like one of emit's own files would be overwritten by  *)
(* it; nothing in the code prevents that, packages do not do it.           *)
ASSUME NamesAssumption == {"sources", "report.json"} \cap Names = {}
ASSUME NoneAssumption == None \notin Bytes \cup Seq(Names)
ASSUME JobsAssumption == Jobs \subseteq Job /\ Jobs # {}
ASSUME BoundAssumption == {MaxRuns, MaxChecks, MaxPosts} \subseteq Nat

VARIABLES
  pc,         (* where the process is; "idle" when none runs               *)
  job,        (* the invocation                                            *)
  run,        (* how many there were                                       *)
  inputs,     (* name -> [bytes, allowed]: what fetch acquired; allowed is *)
              (* the step's allow-version-change                           *)
  artifacts,  (* name -> bytes: the publication set                        *)
  stages,     (* PipelineReport.stages                                     *)
  posts,      (* post steps run                                            *)
  pending,    (* publications emit has still to copy                       *)
  selected,   (* those it publishes                                        *)
  failing,    (* history: a check of this invocation found a violation     *)
  exit,       (* the exit status: "ok" 0, "error" 1, "violation" 2,        *)
              (* "traceback" for an exception that is not a GorgetError,   *)
              (* "killed"; "none" while running                            *)
  unreported, (* report.json could not be written, stderr says so          *)
  package,    (* the package directory: `sources', or None; other files    *)
  output      (* the output directory: file name -> content                *)

local == <<inputs, artifacts, stages, posts, pending, selected, failing>>

vars == <<pc, job, run, local, exit, unreported, package, output>>

Partial(S, T) == UNION {[D -> T] : D \in SUBSET S}

Nothing == [n \in {} |-> None]

(* What a file of the output directory holds.                              *)
Payload(bytes) == <<"bytes", bytes>>
Manifest(entries) == <<"manifest", entries>>
Report(results) == <<"report", run, results>>
Torn == <<"torn">>

StageNames == {"toolchain", "fetch", "transform", "verify", "policy", "post", "emit"}

(* Faulty variant: post steps run ahead of the checks.                     *)
StageOrder_PostEarly == <<"toolchain", "fetch", "transform", "post", "verify", "policy", "emit">>

StageOrder == <<"toolchain", "fetch", "transform", "verify", "policy", "post", "emit">>

After(stage) ==
  StageOrder[1 + CHOOSE i \in DOMAIN StageOrder : StageOrder[i] = stage]

(* A GorgetError on its way to main(): exit status 1, or 2 for a violation. *)
Raised == {"error", "violation"}

(* What interrupted invocations can have left in the output directory.      *)
Leftovers == [f \in Names \cup {"sources", "report.json"} |-> Torn]

Result(stage, status) == [name |-> stage, status |-> status]

Init ==
  /\ pc = "idle"
  /\ job = CHOOSE j \in Jobs : TRUE
  /\ run = 0
  /\ inputs = Nothing /\ artifacts = Nothing
  /\ stages = <<>>
  /\ posts = 0
  /\ pending = {} /\ selected = {}
  /\ failing = FALSE
  /\ exit = "none"
  /\ unreported = FALSE
  /\ package \in [sources : {None} \cup Partial(Names, Bytes), files : {None}]
  /\ output \in {Nothing, Leftovers}

(***************************************************************************)
(* The runner and main().                                                  *)
(***************************************************************************)

Start(j) ==
  /\ pc = "idle" /\ run < MaxRuns
  /\ pc' = "toolchain" /\ job' = j /\ run' = run + 1
  /\ inputs' = Nothing /\ artifacts' = Nothing
  /\ stages' = <<>>
  /\ posts' = 0
  /\ pending' = {} /\ selected' = {}
  /\ failing' = FALSE /\ exit' = "none" /\ unreported' = FALSE
  /\ UNCHANGED <<package, output>>

(* A stage returns; only real stages have a result of their own.           *)
Complete(stage, status) ==
  /\ pc' = After(stage)
  /\ stages' = IF stage = "toolchain" THEN stages ELSE Append(stages, Result(stage, status))
  /\ UNCHANGED <<job, run, exit, unreported>>

(* A GorgetError: the runner appends a failed result, main() will report.  *)
Raise(stage, kind) ==
  /\ pc' = kind
  /\ stages' = Append(stages, Result(stage, "failed"))
  /\ UNCHANGED <<job, run, exit, unreported>>

(* Any other exception leaves main() with a traceback and no report.       *)
Escape ==
  /\ pc' = "idle" /\ exit' = "traceback"
  /\ UNCHANGED <<job, run, stages, unreported>>

(* A dry run prints its report.                                            *)
KeepsOutput == job.dryRun

WriteFile(f, content) ==
  [g \in DOMAIN output \cup {f} |-> IF g = f THEN content ELSE output[g]]

ReportFailure ==
  /\ pc \in Raised
  /\ pc' = "idle" /\ exit' = pc
  /\ \/ /\ output' = IF KeepsOutput THEN output
                     ELSE WriteFile("report.json", Report(stages))
        /\ UNCHANGED unreported
     \/ /\ ~job.dryRun
        /\ output' \in {output, WriteFile("report.json", Torn)}
        /\ unreported' = TRUE
  /\ UNCHANGED <<job, run, local, package>>

(* A missing tool is a GorgetError, an alias that cannot be linked is not.  *)
Toolchain ==
  /\ pc = "toolchain"
  /\ Complete("toolchain", "success") \/ Raise("toolchain", "error") \/ Escape
  /\ UNCHANGED <<inputs, artifacts, posts, pending, selected, failing, package, output>>

(***************************************************************************)
(* Fetch and transform, by what they leave in the pipeline state.  In a    *)
(* dry run artifacts have names, and None for a checksum.                  *)
(***************************************************************************)

Holds == IF job.dryRun THEN {None} ELSE Bytes

Fetch ==
  /\ pc = "fetch"
  /\ inputs' \in Partial(Names, [bytes : Holds, allowed : BOOLEAN])
  /\ artifacts' = [n \in DOMAIN inputs' |-> inputs'[n].bytes]
  /\ Complete("fetch", "success")
  /\ UNCHANGED <<posts, pending, selected, failing, package, output>>

Transform ==
  /\ pc = "transform"
  /\ \/ Complete("transform", "skipped") /\ UNCHANGED artifacts
     \/ /\ Complete("transform", "success")
        /\ artifacts' \in Partial(Names, Holds)
        /\ DOMAIN inputs \subseteq DOMAIN artifacts'
  /\ UNCHANGED <<inputs, posts, pending, selected, failing, package, output>>

(* A download, clone, command or configuration error, or one of the        *)
(* OSErrors that nothing converts.                                         *)
StageFails ==
  /\ pc \in {"fetch", "transform"}
  /\ Raise(pc, "error") \/ Escape
  /\ UNCHANGED <<inputs, artifacts, posts, pending, selected, failing, package, output>>

(***************************************************************************)
(* Verify.                                                                 *)
(***************************************************************************)

(* Faulty variant: what fetch acquired is compared, not what is published. *)
Compared_Inputs == [n \in DOMAIN inputs |-> inputs[n].bytes]

Compared == artifacts

VersionChange(n) == n \in DOMAIN inputs /\ inputs[n].allowed /\ job.newVersion

(* check_republication: same name as in `sources', other bytes, no excuse. *)
Republished ==
  IF package.sources = None THEN {}
  ELSE {n \in DOMAIN Compared \cap DOMAIN package.sources :
          /\ Compared[n] # package.sources[n]
          /\ ~VersionChange(n)
          /\ <<n, artifacts[n]>> \notin job.accepted}

(* The declared checks run in order until one raises; "raises" is a        *)
(* GorgetError that is not a violation, "escapes" any other exception.     *)
Verdicts ==
  {s \in UNION {[1..k -> {"passed", "failed", "raises", "escapes"}] : k \in 0..MaxChecks} :
     \A i \in DOMAIN s : s[i] \in {"raises", "escapes"} => i = Len(s)}

(* Faulty variant: each verdict overrides the ones before it.              *)
Found_LastOnly(violated, verdicts) ==
  IF verdicts = <<>> THEN violated ELSE verdicts[Len(verdicts)] = "failed"

Found(violated, verdicts) == violated \/ "failed" \in Range(verdicts)

(* What a stage does with its verdicts, given whether it found a violation *)
(* before them: raised errors come before the aggregated violation.        *)
Conclude(stage, violated, verdicts, status) ==
  /\ failing' = (failing \/ violated \/ "failed" \in Range(verdicts))
  /\ \/ "raises" \in Range(verdicts) /\ Raise(stage, "error")
     \/ "escapes" \in Range(verdicts) /\ Escape
     \/ /\ Range(verdicts) \subseteq {"passed", "failed"}
        /\ IF Found(violated, verdicts) THEN Raise(stage, "violation") ELSE Complete(stage, status)
  /\ UNCHANGED <<inputs, artifacts, posts, pending, selected, package, output>>

Verify(verdicts) ==
  /\ pc = "verify" /\ ~job.dryRun
  /\ Conclude("verify", Republished # {}, verdicts,
              IF verdicts = <<>> /\ package.sources = None THEN "skipped" ELSE "success")

(* `sources' names a digest algorithm hashlib does not have.               *)
CannotCompare ==
  /\ pc = "verify" /\ ~job.dryRun
  /\ package.sources # None /\ DOMAIN artifacts \cap DOMAIN package.sources # {}
  /\ Raise("verify", "error")
  /\ UNCHANGED <<inputs, artifacts, posts, pending, selected, failing, package, output>>

(***************************************************************************)
(* Policy: constraints raise for a missing ecosystem, run_audits has no    *)
(* auditor for some ecosystems and a KeyError escapes.                     *)
(***************************************************************************)
Policy(verdicts) ==
  /\ pc = "policy" /\ ~job.dryRun
  /\ \E status \in {"success", "skipped"} :
       /\ status = "skipped" => verdicts = <<>>
       /\ Conclude("policy", FALSE, verdicts, status)

SkipUnderDryRun ==
  /\ pc \in {"verify", "policy", "post"} /\ job.dryRun
  /\ Complete(pc, "skipped")
  /\ UNCHANGED <<inputs, artifacts, posts, pending, selected, failing, package, output>>

(***************************************************************************)
(* Post: commands that change files of the package directory.              *)
(***************************************************************************)
PostStep ==
  /\ pc = "post" /\ ~job.dryRun /\ posts < MaxPosts
  /\ package' \in [sources : {package.sources}, files : Bytes]
  /\ \/ posts' = posts + 1 /\ UNCHANGED <<pc, job, run, stages, exit, unreported>>
     \/ (Raise("post", "error") \/ Escape) /\ UNCHANGED posts
  /\ UNCHANGED <<inputs, artifacts, pending, selected, failing, output>>

PostDone ==
  /\ pc = "post" /\ ~job.dryRun
  /\ Complete("post", IF posts = 0 THEN "skipped" ELSE "success")
  /\ UNCHANGED <<inputs, artifacts, posts, pending, selected, failing, package, output>>

(***************************************************************************)
(* Emit.  Files are copied in the order of `publish.files'; the model      *)
(* allows any order.                                                       *)
(***************************************************************************)

Wanted == IF job.publish = None THEN DOMAIN artifacts ELSE Range(job.publish)

(* Faulty variant: unknown names are passed over.                          *)
CanPublish_Unknown == job.publish # None => IsInjective(job.publish)

(* select_publications accepts the declaration.                            *)
CanPublish ==
  /\ Wanted \subseteq DOMAIN artifacts
  /\ job.publish # None => IsInjective(job.publish)

Select ==
  /\ pc = "emit"
  /\ \/ /\ CanPublish /\ ~job.dryRun
        /\ pc' = "copy"
        /\ selected' = Wanted /\ pending' = Wanted
        /\ UNCHANGED <<job, run, stages, exit, unreported>>
     \/ /\ CanPublish /\ job.dryRun
        /\ pc' = "idle" /\ exit' = "ok"
        /\ stages' = Append(stages, Result("emit", "skipped"))
        /\ UNCHANGED <<job, run, pending, selected, unreported>>
     \/ ~CanPublish /\ Raise("emit", "error") /\ UNCHANGED <<pending, selected>>
  /\ UNCHANGED <<inputs, artifacts, posts, failing, package, output>>

Copy(n) ==
  /\ pc = "copy" /\ n \in pending
  /\ output' = WriteFile(n, Payload(artifacts[n]))
  /\ pending' = pending \ {n}
  /\ UNCHANGED <<pc, job, run, inputs, artifacts, stages, posts, selected, failing,
                 exit, unreported, package>>

(* Faulty variant: the manifest lists unpublished artifacts too.           *)
Entries_All == artifacts

Entries == Restrict(artifacts, selected)

WriteManifest ==
  /\ pc = "copy" /\ pending = {}
  /\ output' = WriteFile("sources", Manifest(Entries))
  /\ pc' = "manifest"
  /\ UNCHANGED <<job, run, local, exit, unreported, package>>

(* Faulty variant: the report goes to disk without emit's own result.      *)
WithOwnResult_Forgotten == stages

WithOwnResult == Append(stages, Result("emit", "success"))

WriteReport ==
  /\ pc = "manifest"
  /\ output' = WriteFile("report.json", Report(WithOwnResult))
  /\ stages' = Append(stages, Result("emit", "success"))
  /\ pc' = "idle" /\ exit' = "ok"
  /\ UNCHANGED <<job, run, inputs, artifacts, posts, pending, selected, failing,
                 unreported, package>>

(* The file that is being written.                                         *)
Target ==
  IF pc = "copy" THEN IF pending = {} THEN {"sources"} ELSE pending
  ELSE IF pc = "manifest" \/ (pc \in Raised /\ ~job.dryRun)
    THEN {"report.json"} ELSE {}

Interrupted == {output} \cup {WriteFile(f, Torn) : f \in Target}

WriteFails ==
  /\ pc \in {"copy", "manifest"}
  /\ output' \in Interrupted
  /\ Raise("emit", "error")
  /\ UNCHANGED <<inputs, artifacts, posts, pending, selected, failing, package>>

(***************************************************************************)
(* What happens around gorget.                                             *)
(***************************************************************************)

Kill ==
  /\ pc # "idle"
  /\ pc' = "idle" /\ exit' = "killed"
  /\ output' \in Interrupted
  /\ UNCHANGED <<job, run, local, unreported, package>>

(* The packager takes over the manifest of an invocation that succeeded.   *)
Adopt ==
  /\ pc = "idle" /\ exit = "ok" /\ ~job.dryRun
  /\ package' = [package EXCEPT !.sources = output["sources"][2]]
  /\ UNCHANGED <<pc, job, run, local, exit, unreported, output>>

Next ==
  \/ \E j \in Jobs : Start(j)
  \/ ReportFailure
  \/ Toolchain
  \/ Fetch
  \/ Transform
  \/ StageFails
  \/ \E verdicts \in Verdicts : Verify(verdicts) \/ Policy(verdicts)
  \/ CannotCompare
  \/ SkipUnderDryRun
  \/ PostStep
  \/ PostDone
  \/ Select
  \/ \E n \in Names : Copy(n)
  \/ WriteManifest
  \/ WriteReport
  \/ WriteFails
  \/ Kill
  \/ Adopt

Spec == Init /\ [][Next]_vars
-----------------------------------------------------------------------------

(***************************************************************************)
(* The type invariant; what emit is copying are artifacts of this run.     *)
(***************************************************************************)
TypeOK ==
  /\ pc \in StageNames \cup Raised \cup {"idle", "copy", "manifest"}
  /\ job \in Jobs /\ run \in 0..MaxRuns
  /\ inputs \in Partial(Names, [bytes : Bytes \cup {None}, allowed : BOOLEAN])
  /\ artifacts \in Partial(Names, Bytes \cup {None})
  /\ DOMAIN stages = 1..Len(stages)
  /\ Range(stages) \subseteq [name : StageNames, status : {"success", "skipped", "failed"}]
  /\ posts \in 0..MaxPosts
  /\ pending \subseteq selected /\ selected \subseteq DOMAIN artifacts
  /\ failing \in BOOLEAN /\ unreported \in BOOLEAN
  /\ exit \in {"none", "ok", "error", "violation", "traceback", "killed"}
  /\ pc # "idle" => exit = "none"
  /\ DOMAIN output \subseteq Names \cup {"sources", "report.json"}

(***************************************************************************)
(* When an invocation succeeds, the manifest lists exactly what was to be  *)
(* published, and every file it lists is in the output directory with the  *)
(* bytes it names, whatever interrupted runs left there (emit.py).         *)
(***************************************************************************)
ManifestMatchesBytes ==
  exit = "ok" /\ ~job.dryRun =>
    LET entries == output["sources"][2] IN
    /\ output["sources"] = Manifest(entries)
    /\ DOMAIN entries = Wanted
    /\ \A n \in Wanted : entries[n] = artifacts[n] /\ output[n] = Payload(entries[n])

(***************************************************************************)
(* Bytes published once under a name are never replaced in silence: a new  *)
(* digest for a name reaches the package's `sources' only by a declared    *)
(* version change or an accepted checksum (verify, then emit, then the     *)
(* packager, over any number of invocations).                              *)
(***************************************************************************)
NoSilentRepublication ==
  [][package'.sources # package.sources /\ package.sources # None =>
       \A n \in DOMAIN package.sources \cap DOMAIN package'.sources :
         \/ package'.sources[n] = package.sources[n]
         \/ job.newVersion /\ n \in DOMAIN inputs /\ inputs[n].allowed
         \/ <<n, package'.sources[n]>> \in job.accepted]_vars

(***************************************************************************)
(* After a check found a violation nothing is published: the package       *)
(* directory stays as it is, and in the output directory only the report   *)
(* changes (test_cli.py:131, "Fail-closed").                               *)
(***************************************************************************)
FailClosed ==
  [][failing /\ failing' =>
       /\ UNCHANGED package
       /\ \A f \in DOMAIN output' \ {"report.json"} :
            f \in DOMAIN output /\ output'[f] = output[f]]_vars

(***************************************************************************)
(* An exit by way of main() leaves the report of this invocation, unless   *)
(* writing it failed and stderr said so: the stages in order, each once,   *)
(* all six after a success, the last and only the last failed otherwise.   *)
(***************************************************************************)
Ran == [i \in DOMAIN stages |-> stages[i].name]

ReportTellsTheTruth ==
  exit \in {"ok"} \cup Raised /\ ~job.dryRun /\ ~unreported =>
    /\ output["report.json"] = Report(stages)
    /\ \A i \in DOMAIN stages :
         stages[i].status = "failed" <=> exit # "ok" /\ i = Len(stages)
    /\ Ran = IF Ran[1] = "toolchain" THEN <<"toolchain">>
             ELSE SubSeq(StageOrder, 2, 1 + Len(stages))
    /\ exit = "ok" => After(Ran[Len(Ran) - 1]) = "emit"

(***************************************************************************)
(* gorget changes the package directory only once every check has passed   *)
(* or been skipped (runner.py:86, "after everything else has run").        *)
(***************************************************************************)
PackageChangesAfterChecks ==
  [][package' # package /\ pc # "idle" =>
       \A check \in {"verify", "policy"} : \E i \in DOMAIN stages :
         stages[i].name = check /\ stages[i].status # "failed"]_vars

(***************************************************************************)
(* A dry run changes neither directory, however it ends (runner.py:3).     *)
(***************************************************************************)
DryRunTouchesNothing ==
  [][pc # "idle" /\ job.dryRun => UNCHANGED <<package, output>>]_vars

-----------------------------------------------------------------------------

(***************************************************************************)
(* docs/how-to/debug-a-failing-pipeline.md:24: report.json is written even *)
(* on failure.                                                             *)
(***************************************************************************)
ReportIsWrittenOnFailure ==
  exit \in {"error", "violation", "traceback"} /\ ~job.dryRun /\ ~unreported =>
    "report.json" \in DOMAIN output /\ output["report.json"] = Report(stages)
=============================================================================
