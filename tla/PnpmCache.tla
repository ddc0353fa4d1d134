------------------------------- MODULE PnpmCache -------------------------------
(***************************************************************************)
(* The two ways pnpm dependencies are vendored (transform/vendor/pnpm.py): *)
(*                                                                         *)
(*   "offline"  an archive of the pnpm CLI, its store and its metadata     *)
(*              cache, built in a scratch copy of the module               *)
(*              (PnpmVendor.offline_cache);                                *)
(*   "fetch"    a store filled in place, next to whatever node_modules     *)
(*              upstream ships, which `pnpm fetch' may overwrite           *)
(*              (PnpmVendor.vendor, _preserve_node_modules).               *)
(*                                                                         *)
(* Commands, downloads and file operations may fail at every step, and an  *)
(* operator may interrupt them.                                            *)
(***************************************************************************)
EXTENDS Naturals, FiniteSets

CONSTANTS
  None,
  Releases,   (* pnpm releases                                             *)
  WithFlags,  (* those that take --cpu, --os and --libc: 10.14 and later   *)
  WithCache,  (* those whose metadata cache is known: 11 and 12            *)
  Platforms,
  Packages,   (* names `metadata-packages' may list                        *)
  Malformed,  (* those that are no npm package names                       *)
  ScopeOf,    (* package -> scope, which has a registry of its own         *)
  Dirs,       (* where node_modules directories may be                     *)
  Jobs        (* what a step asks for, and the module it asks it of        *)

ASSUME NoneAssumption == None \notin Releases
ASSUME ReleasesAssumption == WithFlags \subseteq Releases /\ WithCache \subseteq WithFlags
ASSUME PackagesAssumption == Malformed \subseteq Packages /\ DOMAIN ScopeOf = Packages

(* A manifest: the version in packageManager, the one in devEngines ("none" *)
(* too if that names another manager or a range), and the pnpm on PATH.    *)
Manifests == [packageManager : Releases \cup {"none", "invalid"},
              devEngines : Releases \cup {"none"},
              onPath : Releases \cup {"none"}]

IsJob(j) ==
  /\ j.op \in {"offline", "fetch"}
  /\ j.manifest \in Manifests
  /\ j.platforms \subseteq Platforms /\ j.platforms # {}
  /\ j.metadata \subseteq Packages
  /\ j.upstream \subseteq Dirs   \* those with a node_modules of upstream's
  /\ j.op = "fetch" => j.metadata = {}

ASSUME JobsAssumption == \A j \in Jobs : IsJob(j)

VARIABLES
  job,
  pc,
  version,     (* of the pnpm that is used                                 *)
  todo,        (* installs to run: the platforms each one covers           *)
  store,       (* the platforms whose packages the store holds             *)
  wanted,      (* packages whose metadata is still to be looked at         *)
  package,     (* the one that is downloaded                               *)
  attempts,    (* that failed, of this download                            *)
  requests,    (* package -> how often the registry was asked              *)
  registries,  (* scopes whose registry is resolved                        *)
  cache,       (* package -> its file in the metadata cache                *)
  modules,     (* directory -> its node_modules                            *)
  archive,
  error

vars == <<job, pc, version, todo, store, wanted, package, attempts, requests, registries,
          cache, modules, archive, error>>

installs == <<todo, store>>
download == <<package, attempts, requests, registries, cache>>
outside == <<job, archive, error>>

Files == {"none", "torn", "whole"}

DirStates == {"absent", "upstream", "installed", "torn"}

Ended == {"done", "failed"}

Upstream == [d \in Dirs |-> IF d \in job.upstream THEN "upstream" ELSE "absent"]

Init ==
  /\ job \in Jobs
  /\ pc = "start"
  /\ version = None
  /\ todo = {} /\ store = {}
  /\ wanted = {} /\ package = None /\ attempts = 0
  /\ requests = [p \in Packages |-> 0]
  /\ registries = {}
  /\ cache = [p \in Packages |-> "none"]
  /\ modules = Upstream
  /\ archive = None
  /\ error = "none"

Fail(reason) ==
  /\ pc' = "failed"
  /\ error' = reason
  /\ UNCHANGED <<job, version, installs, wanted, package, attempts, registries, archive>>

FailOnly(reason) == Fail(reason) /\ UNCHANGED <<requests, cache, modules>>

(***************************************************************************)
(* The offline cache.                                                      *)
(***************************************************************************)

(* _resolve_pnpm_version; None if it raises.                               *)
ResolvedVersion ==
  LET m == job.manifest IN
  CASE m.packageManager \in Releases -> m.packageManager
    [] m.packageManager = "invalid" -> None
    [] m.packageManager = "none" /\ m.devEngines \in Releases -> m.devEngines
    [] m.packageManager = "none" /\ m.devEngines = "none" ->
         IF m.onPath \in Releases THEN m.onPath ELSE None

RefuseVersion ==
  /\ pc = "start" /\ job.op = "offline"
  /\ ResolvedVersion = None
  /\ FailOnly("config")

(* The scratch copy, without node_modules and without a store, and npm     *)
(* install of the CLI into it.                                             *)
InstallCli ==
  /\ pc = "start" /\ job.op = "offline"
  /\ ResolvedVersion # None
  /\ version' = ResolvedVersion
  /\ todo' = IF ResolvedVersion \in WithFlags THEN {{p} : p \in job.platforms} ELSE {Platforms}
  /\ wanted' = job.metadata
  /\ pc' = "install"
  /\ UNCHANGED <<outside, store, download, modules>>

(* npm fails; there is no entry point; the CLI is of another version.      *)
InstallCliFails(reason) ==
  /\ pc = "start" /\ job.op = "offline"
  /\ ResolvedVersion # None
  /\ FailOnly(reason)

(* Faulty variant: a platform stays on the list.                           *)
Remaining_All(covered) == todo

Remaining(covered) == todo \ {covered}

(* pnpm install for one platform, or for all; pnpm caches some metadata.   *)
Install(covered, cached) ==
  /\ pc = "install"
  /\ store' = store \cup covered
  /\ cache' = [p \in Packages |-> IF p \in cached THEN "whole" ELSE cache[p]]
  /\ todo' = Remaining(covered)
  /\ pc' = IF Remaining(covered) = {} THEN "metadata" ELSE "install"
  /\ UNCHANGED <<outside, version, wanted, package, attempts, requests, registries, modules>>

InstallFails ==
  /\ pc = "install"
  /\ FailOnly("transient")

(* metadata-packages with a pnpm whose cache layout is unknown, a malformed *)
(* name, or a registry that npm cannot tell.                               *)
RefuseMetadata(p) ==
  /\ pc = "metadata"
  /\ \/ version \notin WithCache
     \/ p \in Malformed
     \/ ScopeOf[p] \notin registries
  /\ FailOnly("config")

Accepted(p) == version \in WithCache /\ p \notin Malformed

Cached(p) == cache[p] # "none"

(* A package whose file pnpm cached already is passed over.                *)
SkipPackage(p) ==
  /\ pc = "metadata"
  /\ Accepted(p) /\ Cached(p)
  /\ registries' = registries \cup {ScopeOf[p]}
  /\ wanted' = wanted \ {p}
  /\ UNCHANGED <<outside, pc, version, installs, package, attempts, requests, cache, modules>>

StartDownload(p) ==
  /\ pc = "metadata"
  /\ Accepted(p) /\ ~Cached(p)
  /\ registries' = registries \cup {ScopeOf[p]}
  /\ package' = p
  /\ attempts' = 0
  /\ pc' = "download"
  /\ UNCHANGED <<outside, version, installs, wanted, requests, cache, modules>>

Request == requests' = [requests EXCEPT ![package] = @ + 1]

DownloadSucceeds ==
  /\ pc = "download"
  /\ Request
  /\ cache' = [cache EXCEPT ![package] = "whole"]
  /\ wanted' = wanted \ {package}
  /\ pc' = "metadata"
  /\ UNCHANGED <<outside, version, installs, package, attempts, registries, modules>>

(* Faulty variant: retries without end.                                    *)
LastAttempt_Never(n) == FALSE

LastAttempt(n) == n = 2

(* What an attempt leaves in the cache: a failed write, part of the file.  *)
Left(torn) == cache' = [cache EXCEPT ![package] = IF torn THEN "torn" ELSE @]

(* The registry cannot be reached, answers with garbage, or the file       *)
(* cannot be written: wait, try again.                                     *)
RetryDownload(torn) ==
  /\ pc = "download"
  /\ ~LastAttempt(attempts)
  /\ Request /\ Left(torn)
  /\ attempts' = attempts + 1
  /\ UNCHANGED <<outside, pc, version, installs, wanted, package, registries, modules>>

(* Faulty variant: the last failure is swallowed.                          *)
GiveUpDownload_Swallowed(torn) ==
  /\ pc = "download"
  /\ LastAttempt(attempts)
  /\ Request /\ Left(torn)
  /\ wanted' = wanted \ {package}
  /\ pc' = "metadata"
  /\ UNCHANGED <<outside, version, installs, package, attempts, registries, modules>>

GiveUpDownload(torn) ==
  /\ pc = "download"
  /\ LastAttempt(attempts)
  /\ Request /\ Left(torn)
  /\ Fail("download")
  /\ UNCHANGED modules

(* Metadata of another package ("transient") is not asked for again, nor   *)
(* does the loop catch http.client.HTTPException ("crash").                *)
AbortDownload(reason) ==
  /\ pc = "download"
  /\ Request
  /\ Fail(reason)
  /\ UNCHANGED <<cache, modules>>

Contents == [version |-> version, platforms |-> store, cache |-> cache]

PackCache ==
  /\ pc = "metadata" /\ wanted = {}
  /\ archive' = Contents
  /\ pc' = "done"
  /\ UNCHANGED <<job, version, installs, wanted, download, modules, error>>

PackCacheFails ==
  /\ pc = "metadata" /\ wanted = {}
  /\ FailOnly("crash")

(***************************************************************************)
(* The store that is fetched in place.                                     *)
(***************************************************************************)

(* A store and, of every node_modules directory, a backup.                 *)
Backup ==
  /\ pc = "start" /\ job.op = "fetch"
  /\ todo' = {{p} : p \in job.platforms}
  /\ pc' = "fetch"
  /\ UNCHANGED <<outside, version, store, wanted, download, modules>>

BackupFails ==
  /\ pc = "start" /\ job.op = "fetch"
  /\ FailOnly("crash")

(* pnpm may change, add or remove any node_modules.                        *)
Altered(m) == \A d \in Dirs : m[d] \in {modules[d], "installed", "absent"}

Fetch(covered, m) ==
  /\ pc = "fetch"
  /\ Altered(m)
  /\ modules' = m
  /\ store' = store \cup covered
  /\ todo' = Remaining(covered)
  /\ pc' = "clean"
  /\ UNCHANGED <<outside, version, wanted, download>>

FetchFails(m, reason) ==
  /\ pc = "fetch"
  /\ Altered(m)
  /\ modules' = m
  /\ error' = reason
  /\ pc' = "restore"
  /\ UNCHANGED <<job, version, installs, wanted, download, archive>>

(* clean(): every node_modules is removed, those of upstream are copied    *)
(* back.  It can fail in either half.                                      *)
Clean ==
  /\ pc = "clean"
  /\ modules' = Upstream
  /\ pc' = IF todo = {} THEN "restore" ELSE "fetch"
  /\ UNCHANGED <<outside, version, installs, wanted, download>>

Broken(m) ==
  \A d \in Dirs : \/ m[d] \in {modules[d], "absent", "torn"}
                  \/ m[d] = "upstream" /\ d \in job.upstream

CleanFails(m) ==
  /\ pc = "clean"
  /\ Broken(m)
  /\ modules' = m
  /\ error' = "clean"
  /\ pc' = "restore"
  /\ UNCHANGED <<job, version, installs, wanted, download, archive>>

(* Faulty variant: node_modules are restored only after a success.         *)
Restored_OnSuccess == IF error = "none" THEN Upstream ELSE modules

Restored == Upstream

(* The `finally' of _preserve_node_modules cleans once more, whatever went *)
(* wrong before, and drops the backup.                                     *)
Restore ==
  /\ pc = "restore"
  /\ modules' = Restored
  /\ IF error = "none"
       THEN /\ pc' = "normalize"
            /\ UNCHANGED error
            /\ UNCHANGED <<job, version, installs, wanted, package, attempts, registries, archive>>
       ELSE Fail(error)
  /\ UNCHANGED <<requests, cache>>

RestoreFails(m) ==
  /\ pc = "restore"
  /\ Broken(m)
  /\ modules' = m
  /\ Fail("restore")
  /\ UNCHANGED <<requests, cache>>

(* The store's index loses what tells one fetch from another; the packages *)
(* in it stay.                                                             *)
Normalize ==
  /\ pc = "normalize"
  /\ pc' = "combine"
  /\ UNCHANGED <<outside, version, installs, wanted, download, modules>>

(* The handler archives the store, and its `finally' removes it.           *)
Combine ==
  /\ pc = "combine"
  /\ archive' = Contents
  /\ pc' = "done"
  /\ UNCHANGED <<job, version, installs, wanted, download, modules, error>>

FinishFails ==
  /\ pc \in {"normalize", "combine"}
  /\ FailOnly("crash")

-----------------------------------------------------------------------------

OfflineNext ==
  \/ RefuseVersion
  \/ InstallCli
  \/ \E reason \in {"transient", "config", "interrupt"} : InstallCliFails(reason)
  \/ \E covered \in todo, cached \in SUBSET Packages : Install(covered, cached)
  \/ InstallFails
  \/ \E p \in wanted : RefuseMetadata(p) \/ SkipPackage(p) \/ StartDownload(p)
  \/ DownloadSucceeds
  \/ \E torn \in BOOLEAN : RetryDownload(torn) \/ GiveUpDownload(torn)
  \/ \E reason \in {"transient", "crash", "interrupt"} : AbortDownload(reason)
  \/ PackCache
  \/ PackCacheFails

FetchNext ==
  \/ Backup
  \/ BackupFails
  \/ \E covered \in todo, m \in [Dirs -> DirStates] : Fetch(covered, m)
  \/ \E m \in [Dirs -> DirStates], reason \in {"transient", "interrupt"} : FetchFails(m, reason)
  \/ Clean
  \/ \E m \in [Dirs -> DirStates] : CleanFails(m) \/ RestoreFails(m)
  \/ Restore
  \/ Normalize
  \/ Combine
  \/ FinishFails

Next == OfflineNext \/ FetchNext

Spec == Init /\ [][Next]_vars /\ WF_vars(Next)
-----------------------------------------------------------------------------

(***************************************************************************)
(* The type invariant; no more than two failed attempts are remembered, and *)
(* a download is of a package that is still wanted.                        *)
(***************************************************************************)
TypeOK ==
  /\ job \in Jobs
  /\ pc \in {"start", "install", "metadata", "download", "fetch", "clean", "restore",
             "normalize", "combine"} \cup Ended
  /\ version \in Releases \cup {None}
  /\ todo \subseteq SUBSET Platforms /\ store \subseteq Platforms
  /\ wanted \subseteq job.metadata
  /\ attempts \in 0..2
  /\ requests \in [Packages -> 0..3]
  /\ registries \subseteq {ScopeOf[p] : p \in Packages}
  /\ cache \in [Packages -> Files]
  /\ modules \in [Dirs -> DirStates]
  /\ pc = "download" =>
       package \in wanted /\ attempts \leq requests[package]

(* What pins the version of an offline cache's CLI.                        *)
Pinned(v) ==
  LET m == job.manifest IN
  \/ m.packageManager = v
  \/ m.packageManager = "none" /\ m.devEngines = v
  \/ m.packageManager = "none" /\ m.devEngines = "none" /\ m.onPath = v

(***************************************************************************)
(* A vendor archive that is handed on holds the packages of every platform *)
(* asked for; with an offline cache also a whole metadata file for every   *)
(* package the pipeline declares, no file that a failed download left      *)
(* torn, and the pnpm that the module pins.  However many downloads failed *)
(* before, in whatever order packages were looked at.                      *)
(***************************************************************************)
ArchiveIsComplete ==
  pc = "done" =>
    /\ job.platforms \subseteq archive.platforms
    /\ \A p \in job.metadata : archive.cache[p] = "whole"
    /\ \A p \in Packages : archive.cache[p] # "torn"
    /\ job.op = "offline" => Pinned(archive.version)

(***************************************************************************)
(* The node_modules that upstream ships survive: an offline cache never    *)
(* touches them, and `pnpm fetch' may overwrite them, but every way out    *)
(* restores them, also after a failure to do so between two platforms.     *)
(* Only if the last restoring fails itself are they lost.                  *)
(***************************************************************************)
UpstreamModulesSurvive ==
  /\ job.op = "offline" => modules = Upstream
  /\ pc \in Ended /\ error # "restore" => modules = Upstream

(***************************************************************************)
(* A download that fails the run was tried three times and has left no     *)
(* whole file; and no registry is asked for a name that is not declared or *)
(* malformed, or for a pnpm whose cache it could not be put into.          *)
(***************************************************************************)
RetriesAreSpent ==
  /\ error = "download" => requests[package] = 3 /\ cache[package] # "whole"
  /\ \A p \in Packages : requests[p] > 0 => p \in job.metadata \ Malformed /\ version \in WithCache

(***************************************************************************)
(* Metadata that is whole, from pnpm's install or a download, is neither   *)
(* asked for again nor overwritten by a download that fails.               *)
(***************************************************************************)
WholeMetadataIsFinal ==
  [][\A p \in Packages :
       cache[p] = "whole" => cache'[p] = "whole" /\ requests'[p] = requests[p]]_vars

(* Every job ends: each loop has its bound.                                *)
Termination == <>(pc \in Ended)
=============================================================================
