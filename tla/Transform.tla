------------------------------ MODULE Transform ------------------------------
(***************************************************************************)
(* The fetch and transform stages: the steps of any pipeline file, in any  *)
(* order, over the publication set (pipeline/state.py) and the one mutable *)
(* source workspace (pipeline/source.py), outside --dry-run.               *)
(*                                                                         *)
(* A pipeline file declares its steps; the model runs every sequence of at *)
(* most MaxFetch fetch steps and MaxSteps transform steps.  What the       *)
(* network, package managers and commands do is chosen freely.             *)
(***************************************************************************)
EXTENDS Artifacts, Functions

CONSTANTS
  SubdirOf,    (* member -> the checkout file it is archived from, under   *)
               (* git's `subdir' option                                    *)
  Upstream,    (* the trees and archives that servers deliver              *)
  GitOptions,  (* [subdir, exported]: archive a subdirectory only; the ref *)
               (* is a bare tree, so the clone has no commit               *)
  MaxFetch,
  MaxSources,  (* Sources one spec file declares                            *)
  MaxSteps

ASSUME NoneAssumption == None \notin Names \cup Contents \cup Artifact
ASSUME SubdirAssumption ==
  DOMAIN SubdirOf \subseteq Files /\ \A f \in DOMAIN SubdirOf : SubdirOf[f] \in Files
ASSUME UpstreamAssumption == Upstream \subseteq Contents
ASSUME GitAssumption == GitOptions \subseteq [subdir : BOOLEAN, exported : BOOLEAN]
ASSUME BoundAssumption == {MaxFetch, MaxSources, MaxSteps} \subseteq Nat

VARIABLES
  phase,      (* "fetch", "transform", "transformed" or "failed"           *)
  error,      (* why the run failed                                        *)
  steps,      (* steps run so far in this stage                            *)
  step,       (* the step last run, and what its tool wrote                *)
  inputs,     (* StageState.input_artifacts                                *)
  artifacts,  (* StageState.artifacts, the publication set                 *)
  disk,       (* path of an archive in the work directory -> its bytes     *)
  stripped,   (* name -> content of work_dir/_strip/<name>                 *)
  source,     (* StageState.source, the SourceWorkspace                    *)
  exported    (* the attached checkout is an exported tree, with no commit *)

vars == <<phase, error, steps, step, inputs, artifacts, disk, stripped, source,
          exported>>

Layouts == {"none", "checkout", "archive"}   \* "none": path is None

Workspace == [layout : Layouts, tree : Contents, artifact : Artifact \cup {None},
              dirty : BOOLEAN]

Errors == {"none", "duplicate", "download", "selection", "timestamp", "pattern",
           "root", "tool"}

NoWorkspace ==
  [layout |-> "none", tree |-> EmptyTree, artifact |-> None, dirty |-> FALSE]

Init ==
  /\ phase = "fetch"
  /\ error = "none"
  /\ steps = 0
  /\ step = Plain("start")
  /\ inputs = {}
  /\ artifacts = {}
  /\ disk = [p \in {} |-> EmptyTree]
  /\ stripped = [n \in {} |-> EmptyTree]
  /\ source = NoWorkspace
  /\ exported = FALSE

(* An error ends the run: the temporary work directory is removed, and only *)
(* the report, which shares the artifacts list, outlives it.               *)
Fail(reason) ==
  /\ phase' = "failed"
  /\ error' = reason
  /\ step' = Plain("end")
  /\ disk' = [p \in {} |-> EmptyTree]
  /\ stripped' = [n \in {} |-> EmptyTree]
  /\ UNCHANGED <<steps, inputs, source, exported>>

FailUnchanged(reason) == Fail(reason) /\ UNCHANGED artifacts

InStage(stage, bound) == phase = stage /\ steps < bound

(* What a completed step leaves alone.                                     *)
Continue(what) ==
  /\ step' = what
  /\ steps' = steps + 1
  /\ UNCHANGED <<phase, error>>

(***************************************************************************)
(* Fetch.                                                                  *)
(***************************************************************************)

(* Faulty variant: names are not checked.                                  *)
Unclaimed_Unchecked(ns) == TRUE

(* No publication artifact has one of these names yet.                     *)
Unclaimed(ns) == ns \cap NamesOf(artifacts) = {}

(* The files of `arts' are written, each where its artifact says.          *)
WriteAll(arts) ==
  [p \in DOMAIN disk \cup {a.path : a \in arts} |->
     IF \E a \in arts : a.path = p
       THEN (CHOOSE a \in arts : a.path = p).checksum
       ELSE disk[p]]

AddInputs(added) ==
  /\ inputs' = inputs \cup added
  /\ artifacts' = artifacts \cup added

(* What make_tar_gz archives of a checkout.                                *)
ArchiveOf(tree, subdir) ==
  IF ~subdir
    THEN tree
    ELSE [f \in Files |->
            IF f \in DOMAIN SubdirOf THEN tree[SubdirOf[f]] ELSE Absent]

(* `git': clone, archive the checkout, and attach it if it is the first.   *)
Git(n, tree, opt) ==
  LET bytes == ArchiveOf(tree, opt.subdir)
      art   == BuildInput(InputPath(n), n, bytes)
  IN
  /\ InStage("fetch", MaxFetch)
  /\ Unclaimed({n})
  /\ AddInputs({art})
  /\ disk' = Write(disk, art.path, bytes)
  /\ IF source.layout = "none"
       THEN /\ source' = [layout |-> "checkout", tree |-> tree, artifact |-> art,
                          dirty |-> FALSE]
            /\ exported' = opt.exported
       ELSE UNCHANGED <<source, exported>>
  /\ Continue(Plain("acquire"))
  /\ UNCHANGED stripped

(* `url' and `spec-source': download one archive, or every Source of the   *)
(* spec, before any of them joins the publication set.                     *)
NewNames(ns) == Unclaimed(Range(ns)) /\ IsInjective(ns)

Download(ns, contents) ==
  LET added == {BuildInput(InputPath(ns[i]), ns[i], contents[i]) : i \in DOMAIN ns} IN
  /\ InStage("fetch", MaxFetch)
  /\ NewNames(ns)
  /\ AddInputs(added)
  /\ disk' = WriteAll(added)
  /\ Continue(Plain("acquire"))
  /\ UNCHANGED <<stripped, source, exported>>

(* The name check runs after the bytes are on disk, and ends the run.      *)
FetchDuplicate(ns) ==
  /\ InStage("fetch", MaxFetch)
  /\ ~NewNames(ns)
  /\ FailUnchanged("duplicate")

FetchFails ==
  /\ InStage("fetch", MaxFetch)
  /\ FailUnchanged("download")

BeginTransform ==
  /\ phase = "fetch"
  /\ phase' = "transform"
  /\ steps' = 0
  /\ step' = Plain("end")
  /\ UNCHANGED <<error, inputs, artifacts, disk, stripped, source, exported>>

(***************************************************************************)
(* The workspace: SourceWorkspace's own operations.                        *)
(***************************************************************************)

Unbound == source.layout = "none"

Published(n) == n \in NamesOf(artifacts)

(* The active workspace already is the named artifact: same object.        *)
IsActive(n) == ~Unbound /\ Published(n) /\ source.artifact = Find(artifacts, n)

(* Faulty variant: switching away from unpublished edits is allowed.       *)
CanSelect_EvenIfDirty(target) ==
  IF target = None
    THEN Unbound => \E a \in artifacts : artifacts = {a}
    ELSE Published(target)

(* select() and materialize() raise unless:                                *)
CanSelect(target) ==
  IF target = None
    THEN Unbound => \E a \in artifacts : artifacts = {a}
    ELSE Published(target) /\ (IsActive(target) \/ ~source.dirty)

(* Faulty variant: the directory of the extraction is not recorded.        *)
Extracted_Unbound(art) ==
  [source EXCEPT !.tree = disk[art.path], !.artifact = art]

(* Extraction goes to a directory of its own, so no old file shows.        *)
Extracted(art) ==
  [source EXCEPT !.layout = "archive", !.tree = disk[art.path], !.artifact = art]

Select(target) ==
  IF target = None
    THEN IF Unbound THEN Extracted(CHOOSE a \in artifacts : TRUE) ELSE source
    ELSE IF IsActive(target) THEN source ELSE Extracted(Find(artifacts, target))

(* apply_changes: only a change of content marks the workspace dirty.      *)
ApplyChanges(ws, paths, new) ==
  LET edited == Patch(ws.tree, paths, new)
  IN [ws EXCEPT !.tree = edited, !.dirty = @ \/ edited # ws.tree]

(* Faulty variant: the workspace keeps pointing at the unfiltered parent.   *)
Adopt_TreeOnly(parent, derived, removed) ==
  IF Unbound \/ source.artifact # parent
    THEN source
    ELSE [source EXCEPT !.tree = Without(@, removed)]

(* adopt_filtered_artifact: the active tree follows a filter of the        *)
(* artifact that backs it.  In a checkout the archive's root component is   *)
(* dropped from the path, and a path the tree lacks is passed over.         *)
Adopt(parent, derived, removed) ==
  IF Unbound \/ source.artifact # parent
    THEN source
    ELSE [source EXCEPT !.tree = Without(@, removed), !.artifact = derived]

(***************************************************************************)
(* The publication set: StageState's own operations.                       *)
(***************************************************************************)

AddDerived(added) ==
  /\ artifacts' = artifacts \cup added
  /\ UNCHANGED inputs

Replace(new) ==
  {IF a.output_name = new.output_name THEN new ELSE a : a \in artifacts}

(* Derived artifacts of one producer, each holding `bytes'.                *)
Built(producer, ns, bytes) ==
  {BuildDerived(DerivedPath(producer, None, n), n, bytes) : n \in ns}

(***************************************************************************)
(* Transform steps.                                                        *)
(***************************************************************************)

(* `strip-tarball': the glob selects the files of `pattern'; a match can   *)
(* be single files, a directory with all that is under it, or the          *)
(* archive's own root.  The result replaces the target.                    *)
Matches == {"files", "directory", "root"}

StripTarget(target) ==
  IF target = None THEN CHOOSE a \in artifacts : TRUE ELSE Find(artifacts, target)

CanStrip(target) ==
  IF target = None THEN \E a \in artifacts : artifacts = {a} ELSE Published(target)

(* _strip/<name> keeps what an earlier step on the same name left there.   *)
StripExtraction(art) ==
  IF art.output_name \in DOMAIN stripped
    THEN ExtractOver(stripped[art.output_name], disk[art.path])
    ELSE disk[art.path]

StripTarball(target, pattern, match) ==
  LET art       == StripTarget(target)
      n         == art.output_name
      extracted == StripExtraction(art)
      removed   == IF match = "files" THEN pattern \cap Present(extracted) ELSE pattern
      kept      == Without(extracted, removed)
      path      == DerivedPath("strip-tarball", art.checksum, n)
      derived   == BuildDerived(path, n, kept)
  IN
  /\ InStage("transform", MaxSteps)
  /\ match = "root" => pattern = Files
  /\ CanStrip(target)
  /\ Present(extracted) \cap pattern # {}
  /\ IF match = "root" /\ source.layout = "checkout" /\ source.artifact = art
       THEN /\ Fail("root")
            /\ artifacts' = Replace(derived)
       ELSE /\ artifacts' = Replace(derived)
            /\ disk' = Write(disk, path, kept)
            /\ stripped' = Write(stripped, n, kept)
            /\ source' = Adopt(art, derived, removed)
            /\ Continue(Step("filter", n, removed, EmptyTree))
            /\ UNCHANGED <<inputs, exported>>

StripMatchesNothing(target, pattern) ==
  /\ InStage("transform", MaxSteps)
  /\ CanStrip(target)
  /\ Present(StripExtraction(StripTarget(target))) \cap pattern = {}
  /\ FailUnchanged("pattern")

(* `vendor-bump': edit_metadata copies the tree, lets the updater write the *)
(* copy, and publishes the declared files only if every update succeeded.  *)
VendorBump(paths, new) ==
  LET ws == Select(None) IN
  /\ InStage("transform", MaxSteps)
  /\ CanSelect(None)
  /\ source' = ApplyChanges(ws, paths, new)
  /\ Continue(Step("edit", ws.artifact.output_name, paths, new))
  /\ UNCHANGED <<inputs, artifacts, disk, stripped, exported>>

(* The archive members take the commit's time: an exported tree has none.  *)
NeedsCommit(ws) == ws.layout = "checkout" /\ exported

(* `vendor': the package manager works in a private copy of the selected   *)
(* source and leaves it as `copy'; the archive is made from the copy, the  *)
(* declared files go back to the source.  `outs' are retained outputs.     *)
(* Only a pnpm offline cache, which has neither, needs no commit time.     *)
Vendor(target, n, outs, copy, declared) ==
  LET ws    == Select(target)
      built == Built("vendor", {n}, copy) \cup Built("vendor-output", outs, copy)
  IN
  /\ InStage("transform", MaxSteps)
  /\ n \notin outs /\ Unclaimed({n} \cup outs)
  /\ CanSelect(target)
  /\ NeedsCommit(ws) => outs = {} /\ declared = {}
  /\ AddDerived(built)
  /\ disk' = WriteAll(built)
  /\ source' = ApplyChanges(ws, declared, copy)
  /\ Continue(Step("edit", ws.artifact.output_name, declared, copy))
  /\ UNCHANGED <<stripped, exported>>

VendorWithoutCommit(target) ==
  /\ InStage("transform", MaxSteps)
  /\ CanSelect(target)
  /\ NeedsCommit(Select(target))
  /\ FailUnchanged("timestamp")

(* `run' without a target works in the active workspace, and nothing marks *)
(* what it leaves there as an edit.                                        *)
RunInSource(outs, after) ==
  LET ws    == Select(None)
      built == Built("run", outs, after)
  IN
  /\ InStage("transform", MaxSteps)
  /\ Unclaimed(outs)
  /\ CanSelect(None)
  /\ source' = [ws EXCEPT !.tree = after]
  /\ AddDerived(built)
  /\ disk' = WriteAll(built)
  /\ Continue(Step("run", ws.artifact.output_name, {}, EmptyTree))
  /\ UNCHANGED <<stripped, exported>>

(* `run' with a target works in a detached extraction, and `pack' on files *)
(* of the package directory: both only make artifacts.                     *)
MakeOutputs(producer, outs, bytes) ==
  LET built == Built(producer, outs, bytes) IN
  /\ InStage("transform", MaxSteps)
  /\ Unclaimed(outs)
  /\ AddDerived(built)
  /\ disk' = WriteAll(built)
  /\ Continue(Plain("derive"))
  /\ UNCHANGED <<stripped, source, exported>>

RunDetached(target, outs, after) ==
  Published(target) /\ MakeOutputs("run", outs, after)

Pack(n, bytes) == MakeOutputs("pack", {n}, bytes)

(* A step whose source cannot be selected, whose target is unknown, or     *)
(* whose output name is taken.  `run' adds its outputs one by one, so the  *)
(* report can already list the ones before the clash.                      *)
CannotSelect(target) ==
  /\ InStage("transform", MaxSteps)
  /\ ~CanSelect(target) \/ ~CanStrip(target)
  /\ FailUnchanged("selection")

OutputTaken(producer, n, before, bytes) ==
  /\ InStage("transform", MaxSteps)
  /\ Published(n)
  /\ producer = "run" \/ before = {}
  /\ Unclaimed(before)
  /\ Fail("duplicate")
  /\ artifacts' = artifacts \cup Built(producer, before, bytes)

(* A command, package manager or updater fails, or does not deliver.       *)
ToolFails ==
  /\ InStage("transform", MaxSteps)
  /\ FailUnchanged("tool")

(* commit(): once, after the last step, repack a dirty workspace and put   *)
(* the new revision in its artifact's place.                               *)
EndTransform ==
  LET parent  == source.artifact
      path    == DerivedPath("source", parent.checksum, parent.output_name)
      derived == BuildDerived(path, parent.output_name, source.tree)
  IN
  /\ phase = "transform"
  /\ IF source.dirty
       THEN /\ ~NeedsCommit(source)
            /\ disk' = Write(disk, path, source.tree)
            /\ artifacts' = Replace(derived)
            /\ source' = [source EXCEPT !.artifact = derived, !.dirty = FALSE]
       ELSE UNCHANGED <<disk, artifacts, source>>
  /\ phase' = "transformed"
  /\ step' = Plain("end")
  /\ UNCHANGED <<error, steps, inputs, stripped, exported>>

CommitWithoutCommit ==
  /\ phase = "transform"
  /\ source.dirty
  /\ NeedsCommit(source)
  /\ FailUnchanged("timestamp")

-----------------------------------------------------------------------------

Fetch ==
  \/ \E n \in Names, tree \in Upstream, opt \in GitOptions : Git(n, tree, opt)
  \/ \E k \in 1..MaxSources : \E ns \in [1..k -> Names], contents \in [1..k -> Upstream] :
       Download(ns, contents)
  \/ \E k \in 1..MaxSources : \E ns \in [1..k -> Names] : FetchDuplicate(ns)
  \/ FetchFails

Targets == Names \cup {None}

Transforming ==
  \/ \E target \in Targets, pattern \in SUBSET Files, match \in Matches :
       StripTarball(target, pattern, match)
  \/ \E target \in Targets, pattern \in SUBSET Files :
       StripMatchesNothing(target, pattern)
  \/ \E paths \in SUBSET Files, new \in Contents : VendorBump(paths, new)
  \/ \E target \in Targets, n \in Names, outs \in SUBSET Names, copy \in Contents,
        declared \in SUBSET Files : Vendor(target, n, outs, copy, declared)
  \/ \E target \in Targets : VendorWithoutCommit(target)
  \/ \E outs \in SUBSET Names, after \in Contents : RunInSource(outs, after)
  \/ \E target \in Names, outs \in SUBSET Names, after \in Contents :
       RunDetached(target, outs, after)
  \/ \E n \in Names, bytes \in Contents : Pack(n, bytes)
  \/ \E target \in Targets : CannotSelect(target)
  \/ \E producer \in {"vendor", "run", "pack"}, n \in Names,
        before \in SUBSET Names, bytes \in Contents :
       OutputTaken(producer, n, before, bytes)
  \/ ToolFails

Next == Fetch \/ BeginTransform \/ Transforming \/ EndTransform \/ CommitWithoutCommit

Spec == Init /\ [][Next]_vars
=============================================================================
