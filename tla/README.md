# Verification of gorget

gorget runs a declarative pipeline over an RPM package: it acquires sources,
derives archives from them (strips, vendored dependencies, edited revisions),
verifies and audits the result and emits it with a dist-git `sources` manifest
and a report. It is sequential; what makes it hard is shared mutable state
handed from step to step, errors at any point of a long run, and directories
that outlive a run. The modules here model that state, TLC checks them on small
instances and TLAPS proves the invariants for every instance.

Paths below are relative to `src/gorget/` in the repository.

## The system

| component | state | operations | interacts with |
|---|---|---|---|
| artifacts, `StageState` (`pipeline/artifact.py`, `state.py`) | acquired inputs, publication set, dry-run plans, the report's artifact list (the same list object) | add input/derived, replace, find, plan, resolve | every stage |
| source workspace (`pipeline/source.py`) | active tree, the artifact it belongs to, layout, dirty bit | attach, materialize, select, apply changes, edit metadata, adopt a filter, commit | fetch attaches, transform steps edit, the stage commits at its end |
| fetch stage (`fetch/`) | files in the work directory, the first checkout | `spec-update`, `spec-source`, `url`, `git` | servers, git |
| transform stage (`transform/`) | `_strip/`, `_derived/`, vendor copies | `strip-tarball`, `vendor-bump`, `vendor`, `run`, `pack` | package managers, commands |
| publication planning (`pipeline/publication.py`) | none; a backtracking search | assign names to plans, select publications | `StageState` after every step of a dry run, emit |
| verify (`verify/`) | none | re-publication detection, `gpg-signature`, `checksum-file` | the package's `sources` |
| policy (`policy/`) | none | vendor constraints, audits, licenses | the trees that vendor steps left behind, stages later |
| post (`pipeline/stages/post.py`) | the package directory | commands, bundled provides | package directory |
| emit (`pipeline/stages/emit.py`) | the output directory | copy, manifest, report | output directory |
| runner, command line (`pipeline/runner.py`, `cli.py`) | stage results, error in flight | run the stages, translate errors to exit statuses, write the report of a failure | everything |
| toolchain (`toolchain.py`) | process-wide `PATH`, a directory of aliases | aliases, version checks | around the whole run |
| dependency updates (`dependencies/update.py`, `transform/vendor_bump.py`) | a private copy of the source, pending pins | read the inventory, edit manifests, resolve, check, publish the declared files | package managers, source workspace |
| version constraints (`util/version.py`) | none | parse, compare | dependency updates, toolchain, policy |
| dependency inventories (`dependencies/*.py`) | none; read lockfiles and manifests | read, walk | `vendor-bump`, policy, post |
| vendor ecosystems (`transform/vendor/*.py`) | a private source copy, stores, caches, temporary directories | one package manager each | `vendor` |
| configuration, spec file, archives, logging | none of their own | parse, edit text, tar | everything |

What can go wrong, per component, is the `hazards` list of `PROJECT.json`. The
properties it calls for, in short: bytes and checksums stay together; declared
edits and filters reach what is published and nothing else does; a name never
changes bytes in silence across releases; after a failed check nothing is
published; what a run leaves behind says truthfully what happened; searches and
retries end and lose no answer.

## Modules

**`Artifacts`**: the data. A tree, and the archive made of it, is a function
from files to values or `Absent`; a digest is the content it was taken of.
Paths of the work directory are records `[producer, revision, name]`, as
`derived_artifact_path` and its callers lay them out.

**`Transform`**: the fetch and transform stages outside a dry run. `inputs` and
`artifacts` are `StageState.input_artifacts` and `.artifacts`, `source` is the
`SourceWorkspace`, `disk` the archives in the work directory, `stripped` the
`_strip` directories, `exported` whether the checkout has no commit. One action
per step kind, plus the ways each can fail: a taken name, an unknown or
unselectable target, a pattern that matches nothing, a missing commit time, the
root of a checkout, a failing tool. The pipeline file is any sequence of at
most `MaxFetch` and `MaxSteps` steps; servers deliver any of `Upstream`; what a
command or package manager writes is any content. `step` is a history variable
that remembers which step ran last and what it was given.

**`SourceLedger`**: the abstract specification of that core, with no paths,
digests, archives or dirty bits. Every published name has a revision; declared
edits and filters change it at once; run commands may leave `scratch` in the
source; the end of the stage releases exactly the revisions.

**`TransformLedger`**: the properties of `Transform` and the refinement mapping
to `SourceLedger` (a name's revision is the active tree if the workspace is
dirty and belongs to it, its checksum otherwise).

**`PlanSearch`**: `assign_artifact_plans`, with the recursion of its inner
`search` unrolled into calls, loop rounds and returns, and the one
`assignment` dictionary that all levels write. Alternatives of equal rank may
be tried in any order; the code tries them as declared.

**`DryRun`**: a whole dry run around that search. `fixed` and `plans` are
`StageState.artifacts` and `.artifact_plans`. `Fetch`, `Vendor`, `Pack`, `RunOutput`,
`Discover`, `Use` and `Strip` are what steps do to the names (a `run` step is one of
`RunOutput` for each declared output, `Discover`, or `Use` if it makes nothing),
`Emit`, `Resolve` and `Select` are `resolve_dynamic_artifacts` and
`select_publications`. Every change of the names runs the search step by step.
Next to it, `real` is the set of all sets of names that real runs of the same
steps may have at this point, so that the verdict of the dry run can be held
against them. A real run also looks for what a step works in: without a target
the active source tree, or exactly one artifact to extract one from, with a
target that artifact (`Workable`; `attached` says whether there is a tree). A real
run that does not find it fails, so it leaves `real`. The dry run returns before
that check; `unseen` remembers that a step needs something that is not certain
to be there. `phase` ends as `"refused"` if a step outside the search refuses, and
as `"blind"` if it refuses for an artifact that a command may still make.

**`Pipeline`**: invocations of gorget over one package directory and one output
directory. `pc` is the stage, or `"error"`/`"violation"` for a `GorgetError` on
its way to `main()`. Toolchain, fetch and transform appear by their results; the
checks of verify and policy by their verdicts (`"raises"` is a `GorgetError`
that is no violation, `"escapes"` any other exception); emit by its single file writes, which can
fail and be interrupted half-way (`Torn`). `Kill` stops the process anywhere;
`Adopt` is the packager taking the manifest of a successful run into the
package. Re-publication detection is modelled in full.

**`Versions`**: `_parse`, `meets_minimum` and `satisfies_constraint` of
`util/version.py` as operators. A version is the sequence of its dotted
parts; those that are no numbers (`Word`) are skipped.

**`Vendoring`**: what vendor steps leave for the policy stage, and the stage.
One dependency is followed through every module: the copies (versions) the
source tree locks, those an archive ships, and those on disk where a check
looks. A vendor step works module by module in a private copy, which it
removes if a module fails; a pnpm offline cache hands on the live tree instead
(`live`). Other steps change the tree in between (`ChangeSource`). The policy stage
runs `CheckConstraints`, `Audit` or `AuditRaises` (the `KeyError` included) and
`CheckLicenses`, and `Conclude` turns failures into a violation.

**`VersionConstraints`**: extends `Vendoring` by a second definition of what `>=`
and `~` mean (a version is the number whose digits are its parts, a constraint
an interval) to hold the operators against. A version with fewer parts than
`~x.y` names is rejected by the code even if it lies in the interval;
`NeverTooStrict` leaves this case out.

**`PnpmCache`**: the two ways pnpm dependencies are vendored. An offline cache
is one install per platform, or one for all where the release has the flags,
then the download of each listed package's metadata with up to three attempts,
then the archive; a fetch fills a store in place, around which upstream's
`node_modules` directories are saved, restored after every outcome, and cleaned
between platforms. `cache` and `archive` are what was stored and packed. Every
command, download and file operation may fail, and an operator may interrupt
any command.

**`DependencyUpdate`**: a sequence of at most `MaxSteps` `vendor-bump` steps on one
source. `source`, `dirty` are the active workspace and its dirty bit, `tree` the
private copy a step edits, `todo` and `module` the position of the loop over the
step's modules, `pending` and `left` the two lists of the loop over pins. `Begin`
copies the source, `Read` takes the inventory of a module and stops there if
its pins hold, `Require` (go), `Edit` and `Resolve` (npm, pnpm, yarn; go), `CargoPin`
and `MavenPin` are the branches of `update_dependencies`, `Check` is its check of
the complete pin set, `Publish` copies the declared files back, and `Fail` is any
exception. What a package manager writes is free; only where `Obedient` is TRUE
does it follow its overrides and, for npm, what is locked.

**`Lockfiles`**: what a dependency of a manifest or of a locked package leads to.
pnpm: `npm:` aliases, peer suffixes, local protocols. Yarn Berry: resolutions by
exact descriptor, by parent or by name, of which all that match a request have
to agree (no kind takes precedence; if they differ none applies), `npm:` aliases,
patches, workspaces, descriptors bound to a locator. A reference of another
protocol keeps it in what is looked up (`name@npm:git:...`), as in the code.

**`LockWalk`**: the walk that lists the production dependencies
(`_pnpm_walk`, `_yarn_production_packages`): `queue` of requests, `visited`
items, `provides`. The queue is a set, so that no order of the walk is assumed.
There is no walk, and no model of one, of a Yarn Classic lock and of a Berry lock
without a `package.json` beside it (`dependencies/lockfiles.py:203`): there
everything counts as production.

**`Toolchain`**: activation around one run. `Collect` gathers the aliases of the
declared entries, `MakeDirectory`, `Link` and `ChangePath` put them on `PATH`, `Verify` asks
each declared program for its version through that `PATH`, then the stages run,
succeed or raise, and `Leave` and `Cleanup` undo it. `machine` says which
versioned executables are installed and what each answers.

The theorems about a module stand in modules of their own: `TransformProofs`,
`PlanSearchProofs` (also about `DryRun`), `PipelineProofs`,
`VendoringProofs` (also about `VersionConstraints`),
`PnpmCacheProofs`, `DependencyProofs`, `LockWalkProofs`, `ToolchainProofs`.
`MCTransform`, `MCDryRun`, `MCPipeline`, `MCDependencyUpdate`, `MCVendoring`,
`MCPnpmCache`, `MCLockWalk` and `MCToolchain` give the constants small values.

Composition: `TransformLedger` extends `Transform`, which extends `Artifacts`,
and instantiates `SourceLedger` with the refinement mapping. `DryRun` extends
`PlanSearch`: its steps start searches, and the actions of the search run
between them. `Pipeline` takes over where the stages' models end: what its
`Fetch`, `Transform`, `Policy` and toolchain actions choose freely contains what
`Transform`, `Vendoring` and `Toolchain` can produce. `DependencyUpdate`,
`Vendoring` and `Toolchain` share `Versions`. `DependencyUpdate` opens up what
`Transform` sees as one action, the edit of a `vendor-bump` step; `PnpmCache`
what `Vendoring` sees as the vendoring of one module.

## Runs

| run | shows | instance |
|---|---|---|
| `transform` | `TypeOK`, `BytesMatchChecksums`, `BackingIsPublished`, `InputsArePreserved`, `ImplementsLedger` | 3 names, 2 files, up to 2 fetch and 3 transform steps, with and without commit history |
| `dry_run` | `DryTypeOK`, `FoundIsSolution`, `GivesUpRightly`, `AcceptedCanPublish`, `RejectionIsJustified`, `DryRunEnds` | 3 names (one is the archive of another, and has one itself), up to 4 steps, every publish declaration |
| `pipeline` | `TypeOK`, `ManifestMatchesBytes`, `ReportTellsTheTruth`, `FailClosed`, `NoSilentRepublication`, `PackageChangesAfterChecks` | one invocation over any `sources` file and any leftovers, 2 names, 2 contents, up to 2 declared checks and 1 post step, every publish declaration of two names, dry or not |
| `vendor_bump` | `TypeOK`, `PublishedMeetsPins`, `OnlyDeclaredIsPublished`, `UpdateTakesEffect`, `UnrelatedPinsStay`, `PinsThatHoldChangeNothing` | six ecosystems, obedient Node package managers, any outcome of the others, 2 modules, 2 packages, 3 versions, 8 locks, 2 steps |
| `vendoring` | `TypeOK`, `ShippedMeetsConstraints`, `DisallowedCratesAreCaught`, `ViolationsAreReal`, `ComparisonIsExact` | 4 ecosystems, 2 modules, 2 copies, 5 policies, 2 vendor steps; comparisons of versions of up to 3 parts from 0 to 2 and a word with both constraint forms |
| `pnpm_cache` | `TypeOK`, `ArchiveIsComplete`, `UpstreamModulesSurvive`, `Termination` | every manifest of 3 releases, 2 platforms, every list of 3 metadata packages, 2 places for `node_modules` |
| `lock_walk` | `TypeOK`, `ProductionIsExact`, `ErrorsAreReal`, `Termination` | 61 000 lockfiles with cycles, aliases, also malformed ones, peers, workspaces, resolutions, `git:` references and missing entries |
| `toolchain` | `TypeOK`, `StagesSeeDeclared`, `RefusalIsJustified`, `PathIsSafe` | every declaration of up to 2 of 12 entries on 60 machines |
| `transform_subdir`, `pipeline_no_report`, `vendor_bump_stale_pin`, `vendoring_licenses` | the code departs from a statement of its documentation | small instances |

Why these bounds. Three names are a source, another source and a derived
artifact, enough for every switch, clash and replacement; two files tell apart
"filtered", "edited" and "left alone"; three transform steps are an edit, a
step between and a step that meets the consequence, and the end of the stage
comes on top. Two `Upstream` fetches give a checkout and a second archive. One
value besides `Absent` suffices in the passing run: file content matters only
as equal or different. In a dry run, three names and three plans are the least
with a chain of two conflicts, and a fourth step meets what the third left; steps
that need a source tree meet none, one artifact, several, and a checkout. One
invocation is enough because the initial `sources` file and the contents of the
output directory are arbitrary, as if earlier invocations, complete or killed,
had come before; the proofs are for any number of invocations. Two
`vendor-bump` steps are one that sets a pin and one that meets it again or
undoes it; two modules are one that succeeds and one that fails after it; the
locks are chosen so that a package is missing, stale, good, beyond the series,
present in two versions, or needed by another package. Two vendor steps are one
whose source changes afterwards and the other; two modules of one step are one
that is vendored when the other fails. Two platforms are one whose installation
overwrites what upstream ships and one that starts from the restored tree. Two
toolchain entries are one that takes over a command of the other. Three-part
versions are compared with shorter and longer ones. Permuting names, files,
contents or modules maps behaviours to behaviours, and no symmetric run checks
liveness.

`CHECK_DEADLOCK FALSE` everywhere: a run of the stages ends, a search, a walk
and a vendoring job end, and invocations are bounded by `MaxRuns`.

The mutants of `PROJECT.json` are the bugs the properties are there for, for
example a name check that is dropped, a filter the workspace does not follow, a
search that does not undo an entry, only the last plan looked at, a manifest of
everything, a check that overrides the one before, a version compared without
padding, a pin check of only the pins that were applied, a download that is
retried once too often, a copy that is removed too early.

### Fairness

The liveness properties assume weak fairness of the whole next-state relation,
and no more: `DryRun` and `LockWalk` are plain computations in a single thread
that nothing waits for; in `PnpmCache` the downloads have a timeout of 60
seconds, three attempts each, and the package manager's commands are taken to
end. `Pipeline`, `Transform`, `Vendoring`, `DependencyUpdate` and `Toolchain`
claim no liveness: their commands have no timeout (`util/subprocess_run.py`),
so a run need not end.

### Where code and documentation disagree

Each with its run under `findings` in `PROJECT.json`:

- editing a checkout fetched with `subdir` repacks the whole checkout;
- an exception that is not a `GorgetError` leaves no report;
- pruning an npm lock leaves the copies of a package that are installed under an
  alias;
- the license check of an npm module looks into a `node_modules` that vendoring
  has removed.

Found while modelling, without a run of their own:

- a dry run skips policy and verify (`pipeline/stages/policy.py:33`); the
  repository's README.md:562 says that it runs "through the Policy stage", and
  docs/how-to/add-a-policy-check.md:76-101 that it exits with 2 on a violation;
- a dry run rejects a pipeline that publishes `f` and `f.tar.gz` when one of
  them is a discovered output and the other an output of a run step
  (`pipeline/state.py:129`); `RejectionIsJustified` excepts it (`Ambiguous`);
- a strip step in a dry run looks only at artifacts that are materialized
  (`transform/strip_tarball.py:22`): the archive of an earlier `pack` is unknown
  to it, and without a target it takes the only materialized artifact although a
  real run may have more. `AcceptedCanPublish` excepts such pipelines (`unseen`),
  `RejectionIsJustified` the rejection itself (`"blind"`);
- a dry run accepts a pipeline with a `run`, `vendor` or `vendor-bump` step without
  target where there is neither a checkout nor exactly one artifact, for
  instance two `url` inputs and a `run` step; every real run refuses it
  (`pipeline/source.py:53`; the dry run returns at `transform/run_step.py:34`). Nor
  does it look for a step's target. `AcceptedCanPublish` is a promise only for
  pipelines whose steps are certain to find what they work in;
- a declared edit that a run command made first is no change, and does not reach
  Source0 (`pipeline/source.py:118`); a check that raises hides the violations of
  the checks before it, in the report and in the exit status
  (`pipeline/stages/verify.py:50`);
- an offline pnpm cache hands the live source tree to policy
  (`transform/vendor/__init__.py:88-92`), although `policy/base.py:5` says that
  policy does not infer workspaces from the source tree;
- `dependencies/lockfiles.py:4` says that `bundled-provides` reads the vendor
  archive's tree; `pipeline/stages/post.py:64` reads the source tree;
- audits of pnpm, yarn, composer and gradle modules end in a `KeyError`
  (`policy/audit.py:103`); README.md:435 promises audits "against every vendored
  module found";
- the modules `a/b` and `a_b` of one step get the same label in the combined
  archive (`transform/vendor/combine.py:43`);
- an `http.client.HTTPException` passes the retry loop of a metadata download.

## Proofs

Eight modules prove invariants and action properties for every value of the
constants that their named assumptions allow. The assumptions fix the shape of
the constants only: marks like `None` are no values, declarations and lockfiles
are well-formed, bounds are natural numbers. Every proof follows one argument:
an inductive invariant `IInv`, `Init => IInv`, one lemma per action for
`IInv /\ [Next]_vars => IInv'`, and each property from `IInv`.

**`TransformProofs`**. `IInv` is `TypeOK`, `OneArtifactPerName`,
`BytesMatchChecksums`, `BackingIsPublished` and `PathsAreOwned`, the
strengthening: `BytesMatchChecksums` alone is not inductive, because nothing
would stop a write at one artifact's path from changing another's bytes. An
artifact's path ends in its name, names are unique, and an input's path lies
outside the derivation directories; so the file a step writes belongs to a new
name, or to the artifact it replaces. Theorems: `TypeCorrectness`,
`Integrity`, `UniqueNames`, `Backing`, and `InputPreservation` (an input's bytes
are those of its checksum before and after a step, and it stays). `Refinement`
proves `ImplementsLedger` for whole checkouts (with git's `subdir` the archive
differs from the checkout that it backs from the start, see
`SubdirSourceStaysInSubdir`). It needs one more invariant, `StrippedIsPublished`:
what an earlier filter left under `_strip/<name>` is what is published under that
name, so a filter that extracts over it starts from the published content. Then
the step simulation: a completed fetch step maps to `Acquire`, `strip-tarball` to
`Filter`, `vendor-bump` and `vendor` to `Amend`, a `run` in the workspace to
`Scribble`, the steps that only make artifacts to `Derive`, `commit()` to
`Release`, and every failure to `Abort`. The heart is `TurnFacts`: the workspace
a step selects is either the active one or a fresh extraction made while no edit
was pending, so in both cases its tree is the revision, up to the scratch.

**`PlanSearchProofs`**. About the search: the positions below `depth` have names
that fit and no entry of a dead end is left in the dictionary (`Fits`); a
solution that agrees with the dictionary up to a position continues with the
name that stands there, or one its loop has yet to try (`NoneLost`). Hence
`SolutionsAreSound` and `SearchIsComplete`. About a dry run (`DryInv`): its
searches are right, and the names of the real runs lie in a closed form
(`RealSets`: what exists, a naming of the plans of the steps, and anything else
if a command names its outputs), and are all of it unless a step is `unseen`
(`Within`); the plans that emit appends have one name each, which no plan before
them can get (`Explained`, `Accounted`). Hence
`AcceptanceIsHonest` (the names found are those of a real run that publishes)
and `RejectionIsHonest` (a real run that publishes would be a solution of the
search that gave up), for any number of names and steps, besides `DryTypes`,
`DrySearchesAreSound` and `DrySearchesAreComplete`. Names must be finite:
the search orders plans by their number of alternatives.

**`PipelineProofs`**. `IInv` has a part per promise: which stages have returned
(`Log`), what a violation stops (`Stopped`), what verify compared (`Examined`),
what emit has written (`Published`). Theorems: `Types`, `ManifestIsTrue`,
`ReportIsTrue`, `RepublicationIsDeclared`, `ViolationsStop`, `ChecksComeFirst`,
`DryRunsAreDry`, for any number of invocations.

**`VendoringProofs`**. `Workspaces`: a record is true, its private copy exists
and, unless it is the live tree, locks what was shipped. `Verdicts` carries the
results of all modules from check to check, `Justified` gives every failure a
cause. Theorems: `Types`, `WorkspacesStay`, `PassedPoliciesHold`,
`CratesAreChecked`, `ViolationsHaveCauses`; in these what a constraint means
stays unexpanded: they hold for any comparison. `ComparisonsAreExact` is about
the comparison itself, for versions of up to three parts (`SizeAssumption`) of
any size: padded with zeros, the first part that differs decides. Its hypothesis
`ParseKeepsNumbers` says that what `Parse` returns are parts, and that it leaves
constraints as they are. `Parse` filters a sequence, which is recursive, so the
prover cannot look into it; TLC evaluates the hypothesis for the versions of the
`vendoring` run (`MCVendoring`).

**`PnpmCacheProofs`**. A part per resource: the `Version`, the `Stored` platforms,
`Downloads` with their attempts, `Restoring` upstream's modules. Theorems:
`Types`, `ArchivesAreComplete`, `UpstreamIsRestored`, `DownloadsAreRetried`,
`MetadataIsFinal`, and `JobsRunOut`: a natural number (`Ahead`) goes down with
every step, so no number of failed downloads, installs or clean-ups keeps a job
going. It needs only that a job names finitely many platforms and packages.

**`DependencyProofs`**, for all modules, packages, locks, constraints and numbers
of steps. Without `Obedient`: `UpdateTypeCorrectness`, `EditsAreKept`,
`OnlyDeclared`, `IdleUpdatesChangeNothing`, and `PinsAreMet`. For that one types
do not suffice: when the last module is done nothing looks at the first ones
again. The strengthening is that every module off the list meets all pins, but
for the one being updated; it survives because an update writes in that module
only. `Untouched` is its counterpart: a module on the list, or one that met the
pins from the start, is as in the source, which is why an idle step is one that
changes nothing. With `Obedient` (assumed by name, as the run sets it):
`UpdatesTakeEffect` and `UpdatesAreSurgical`. They need `Progress`, which says
what the edits so far have made of manifest and lock, whatever their order.

**`LockWalkProofs`**. `Frontier`: every edge of what was visited has been followed
or is queued. `Needed`: everything visited or queued is in every set that has the
roots and, of each item that is not missing, what it asks for (`Sufficient`). `Inside`:
all of it comes from the lockfile. Together: what is listed is the least closed
set (`ListingIsExact`); the walk fails only if something that every sufficient set
contains is missing, and succeeds only if nothing of that kind is
(`RefusalsAreReal`). `WalkRunsOut`: in a finite lockfile, cyclic or not, the
number of requests that lead to an item not visited, times the longest queue
possible, plus the length of the queue goes down with every step.

**`ToolchainProofs`**. `CollectInv`, `PathInv` and `VerifyInv` follow the entries,
`PATH` with the directory of aliases, and the versions verified through it.
Theorems: `ToolchainTypes`, `PathIsRestored`, `DeclaredToolsRun`, and
`RefusalsAreJustified`: a declaration is refused only if the machine cannot meet
it. An entry's version is promised part by part, and compared padded
(`VersionAtLeast`), at the least part that differs; that there is a least
one (`LeastNumber`) is where the library's well-foundedness of the naturals
comes in. `Chosen` says that every target is what some entry selects.

Some theorems state properties that no run lists, among them
`OneArtifactPerName`, `EditsAreCommitted`, `DryRunTouchesNothing`,
`WorkspacesOutliveSteps`, `RetriesAreSpent` and `WholeMetadataIsFinal`; they were model-checked before they were proved.

Every invariant and action property that a passing run checks is a theorem.
Only model-checked: liveness (`DryRunEnds` and both `Termination`s), because the
prover treats neither fairness nor `ENABLED`; what it would need besides a step
being possible is proved for the walk and for pnpm jobs (`WalkRunsOut`,
`JobsRunOut`), while the backtracking of a dry run is left to TLC. And the runs
that find a violation.

## What is abstracted or left out

- Archives can always be extracted and repacked; a failure of either is one of
  the stages' errors. Tar headers, timestamps, compression and the archive's
  root directory are left out, except where a path of the root is a match.
- A strip pattern is the set of files it matches.
- A checkout without commit history can be archived by the `git` step, but vendoring or
  committing it fails; both are actions of `Transform`, and no property judges it.
- `Transform` is a real run; a dry run is `DryRun` for its names, and in
  `Pipeline` what it must not touch. In `DryRun` an output of a run step counts as
  a step of its own, the patterns of a strip step are left out, and so is the
  refusal to leave a source that has unpublished edits (`pipeline/source.py:88`),
  which depends on what commands write: a real run in `real` may fail for it.
- Post commands may change anything in the package directory but the `sources`
  file; the packager does not touch either directory during a run.
- Artifact names `sources` and `report.json`, which emit would overwrite, are
  excluded by assumption.
- Digests do not collide, so a legacy md5 entry is as good as a sha512.
- A lock stands for what `read_inventory` learns of a module, and is determined by
  the declared files. A package manager writes the metadata of its own module and,
  perhaps, other files (`extra`). One pin per package and step.
- Copying the declared files back does not fail half-way; checks of paths that leave
  the source, Maven coordinate validation and the oldest npm lock format are left
  out. Removing the narrower overrides of a package is yarn's only, as in the code.
- Of a vendored module, one dependency and its copies are followed. The labels of
  modules in a combined archive are left out.
- pnpm: the registry of a scope is resolved or not, a metadata file is absent,
  torn or whole; its path, the native executables of the CLI and the delays
  between attempts are left out. Temporary directories are removed by context
  managers and `except`/`finally` blocks; an interrupt between making one and
  entering its block leaves it (`transform/vendor/pnpm.py:82-83`,
  `transform/vendor/__init__.py:129-140`), and nothing is claimed about them. That a store
  is the same for every fetch is not claimed either: `_normalize_store` (a step
  that may fail) removes what it can, and ignores some failures.
- A machine answers a version query the same way throughout a run.

Not modelled: configuration (parsing and validation of YAML before anything
runs, and the report of a run that fails in it, `cli.py:85-93`), the spec file (text edits of one file and calls to `rpmspec`), package
manager command lines and the set-up of composer and gradle (which command is
run, not what depends on it; what a command does is a free choice), the text of
Yarn Classic locks, the `git` command sequence of a clone, logging.

## What could follow

- `Compat`: the rewriting of `vendor` steps that stand in the fetch section
  (`config/compat.py`), as an operator on step sequences.
- `GitFetch`: the command sequence of a clone, its submodules and its commit time.
