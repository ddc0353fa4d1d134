---------------------------- MODULE PnpmCacheProofs ----------------------------
(***************************************************************************)
(* Both ways to vendor for pnpm keep their promises for any module,        *)
(* releases, platforms and packages, whatever fails and when.              *)
(*                                                                         *)
(* The invariant has one part per resource: the store, the metadata cache  *)
(* with its downloads, upstream's node_modules, and the archive.  From it  *)
(* follows also that a job runs out of steps.                              *)
(***************************************************************************)
EXTENDS PnpmCache, FiniteSetTheorems, TLAPS

Offline == {"install", "metadata", "download"}

Fetching == {"fetch", "clean", "restore", "normalize", "combine"}

Typed ==
  /\ job \in Jobs
  /\ pc \in {"start"} \cup Offline \cup Fetching \cup Ended
  /\ version \in Releases \cup {None}
  /\ todo \subseteq SUBSET Platforms /\ store \subseteq Platforms
  /\ wanted \subseteq job.metadata
  /\ attempts \in 0..2
  /\ requests \in [Packages -> 0..3]
  /\ registries \subseteq {ScopeOf[p] : p \in Packages}
  /\ cache \in [Packages -> Files]
  /\ modules \in [Dirs -> DirStates]
  /\ pc \in Offline => job.op = "offline"
  /\ pc \in Fetching => job.op = "fetch"

Version ==
  /\ pc \in Offline => version = ResolvedVersion /\ version # None
  /\ pc = "done" /\ job.op = "offline" => Pinned(archive.version)

(* The platforms asked for are installed, or are still to be.              *)
Stored ==
  /\ pc \in Offline \cup Fetching /\ (pc = "restore" => error = "none") =>
       \A p \in job.platforms : p \in store \/ \E covered \in todo : p \in covered
  /\ pc \in {"metadata", "download", "normalize", "combine"}
       \/ (pc = "restore" /\ error = "none") => todo = {}
  /\ pc = "done" => job.platforms \subseteq archive.platforms

Downloads ==
  /\ pc \in Offline => \A p \in job.metadata \ wanted : cache[p] = "whole"
  /\ \A p \in Packages : cache[p] = "torn" => pc \in {"download", "failed"} /\ p = package
  /\ pc \in {"start"} \cup Offline =>
       \A p \in Packages : requests[p] > 0 => cache[p] = "whole" \/ (pc = "download" /\ p = package)
  /\ pc = "download" => /\ package \in wanted /\ requests[package] = attempts
                        /\ cache[package] # "whole" /\ Accepted(package)
  /\ pc = "start" => \A p \in Packages : requests[p] = 0
  /\ \A p \in Packages : requests[p] > 0 => p \in job.metadata \ Malformed /\ version \in WithCache
  /\ error = "download" => pc = "failed" /\ requests[package] = 3 /\ cache[package] # "whole"
  /\ pc = "done" => /\ \A p \in job.metadata : archive.cache[p] = "whole"
                    /\ \A p \in Packages : archive.cache[p] # "torn"

Restoring ==
  /\ job.op = "offline" \/ pc \in {"start", "normalize", "combine", "done"}
       \/ (pc = "failed" /\ error # "restore") => modules = Upstream
  /\ pc \notin {"restore", "failed"} => error = "none"
  /\ pc = "restore" => error # "restore"

IInv == Typed /\ Version /\ Stored /\ Downloads /\ Restoring
-----------------------------------------------------------------------------

LEMMA JobTypes ==
  ASSUME job \in Jobs
  PROVE  /\ job.op \in {"offline", "fetch"}
         /\ job.manifest \in Manifests
         /\ job.platforms \subseteq Platforms
         /\ job.metadata \subseteq Packages
         /\ job.op = "fetch" => job.metadata = {}
BY JobsAssumption DEF IsJob

LEMMA ResolvedIsPinned ==
  ASSUME job \in Jobs, ResolvedVersion # None
  PROVE  ResolvedVersion \in Releases /\ Pinned(ResolvedVersion)
BY JobTypes DEF Manifests, ResolvedVersion, Pinned

(* The state after a failure says little.                                  *)
LEMMA Failed ==
  ASSUME Typed, NEW reason, Fail(reason),
         requests' \in [Packages -> 0..3], cache' \in [Packages -> Files],
         modules' \in [Dirs -> DirStates]
  PROVE  Typed' /\ Version' /\ Stored'
BY DEF Fail, installs, Ended, Offline, Fetching, Typed, Version, Stored

(* The offline cache leaves every node_modules alone,                      *)
LEMMA OfflineStep ==
  ASSUME Typed, Downloads, OfflineNext
  PROVE  /\ job' = job /\ job.op = "offline" /\ modules' = modules
         /\ pc' \in Offline \cup Ended /\ (pc' = "failed" \/ error' = error)
         /\ error' # "restore" \/ error' = error
<1> USE DEF Offline, Ended, outside, installs, download, Fail, FailOnly
<1>1. CASE RefuseVersion \/ InstallCli \/ InstallFails \/ PackCache \/ PackCacheFails \/ DownloadSucceeds
           \/ \E reason \in {"transient", "config", "interrupt"} : InstallCliFails(reason)
  BY <1>1 DEF RefuseVersion, InstallCli, InstallCliFails, InstallFails, PackCache, PackCacheFails,
     DownloadSucceeds, Typed
<1>2. ASSUME NEW covered, NEW cached, Install(covered, cached)
      PROVE  /\ job' = job /\ job.op = "offline" /\ modules' = modules
             /\ pc' \in Offline /\ error' = error
  BY <1>2 DEF Install, Typed
<1>3. ASSUME NEW p \in wanted, RefuseMetadata(p) \/ SkipPackage(p) \/ StartDownload(p)
      PROVE  /\ job' = job /\ job.op = "offline" /\ modules' = modules
             /\ pc' \in Offline \cup Ended /\ (pc' = "failed" \/ error' = error)
             /\ error' # "restore" \/ error' = error
  BY <1>3 DEF RefuseMetadata, SkipPackage, StartDownload, Typed
<1>4. ASSUME NEW torn \in BOOLEAN, RetryDownload(torn) \/ GiveUpDownload(torn)
      PROVE  /\ job' = job /\ job.op = "offline" /\ modules' = modules
             /\ pc' \in Offline \cup Ended /\ (pc' = "failed" \/ error' = error)
             /\ error' # "restore" \/ error' = error
  BY <1>4 DEF RetryDownload, GiveUpDownload, Typed
<1>5. ASSUME NEW reason \in {"transient", "crash", "interrupt"}, AbortDownload(reason)
      PROVE  /\ job' = job /\ job.op = "offline" /\ modules' = modules
             /\ pc' = "failed" /\ error' # "restore"
  BY <1>5 DEF AbortDownload, Typed
<1> QED
  BY <1>1, <1>2, <1>3, <1>4, <1>5 DEF OfflineNext

(* and the store fetched in place has no metadata cache.                   *)
LEMMA FetchStep ==
  ASSUME Typed, FetchNext
  PROVE  /\ job' = job /\ job.op = "fetch" /\ requests' = requests /\ cache' = cache
         /\ version' = version /\ package' = package /\ pc' \in Fetching \cup Ended
<1> USE DEF Fetching, Ended, outside, installs, download, Fail, FailOnly
<1>1. CASE Backup \/ BackupFails \/ Clean \/ Normalize \/ Combine \/ FinishFails
  BY <1>1 DEF Backup, BackupFails, Clean, Normalize, Combine, FinishFails, Typed
<1>2. CASE Restore
  BY <1>2 DEF Restore, Typed
<1>3. ASSUME NEW m, NEW covered, Fetch(covered, m) \/ CleanFails(m) \/ RestoreFails(m)
      PROVE  /\ job' = job /\ job.op = "fetch" /\ requests' = requests /\ cache' = cache
             /\ version' = version /\ package' = package /\ pc' \in Fetching \cup Ended
  BY <1>3 DEF Fetch, CleanFails, RestoreFails, Typed
<1>4. ASSUME NEW m, NEW reason, FetchFails(m, reason)
      PROVE  /\ job' = job /\ job.op = "fetch" /\ requests' = requests /\ cache' = cache
             /\ version' = version /\ package' = package /\ pc' \in Fetching \cup Ended
  BY <1>4 DEF FetchFails, Typed
<1> QED
  BY <1>1, <1>2, <1>3, <1>4 DEF FetchNext

LEMMA FailedOnly ==
  ASSUME Typed, NEW reason, FailOnly(reason)
  PROVE  Typed' /\ Version' /\ Stored'
BY Failed DEF FailOnly, Typed

(* An attempt counts, and leaves some file.                                *)
LEMMA Attempt ==
  ASSUME Typed, Downloads, pc = "download", Request
  PROVE  /\ package \in Packages /\ requests[package] = attempts /\ attempts \in 0..2
         /\ requests' \in [Packages -> 0..3]
         /\ requests'[package] = attempts + 1
         /\ \A p \in Packages : p # package => requests'[p] = requests[p]
         /\ \A torn : Left(torn) => cache' \in [Packages -> Files]
<1>1. package \in Packages /\ requests[package] = attempts /\ attempts \in 0..2
  BY JobTypes DEF Typed, Downloads
<1>2. /\ requests' \in [Packages -> 0..3]
      /\ requests'[package] = attempts + 1
      /\ \A p \in Packages : p # package => requests'[p] = requests[p]
  BY <1>1 DEF Typed, Request
<1>3. \A torn : Left(torn) => cache' \in [Packages -> Files]
  BY <1>1 DEF Typed, Left, Files
<1> QED
  BY <1>1, <1>2, <1>3

LEMMA CoreOfflineStep ==
  ASSUME IInv, OfflineNext
  PROVE  Typed' /\ Version' /\ Stored'
<1> USE DEF IInv
<1>1. CASE \/ RefuseVersion \/ InstallFails \/ PackCacheFails
           \/ \E reason \in {"transient", "config", "interrupt"} : InstallCliFails(reason)
           \/ \E p \in wanted : RefuseMetadata(p)
  BY <1>1, FailedOnly DEF RefuseVersion, InstallFails, PackCacheFails, InstallCliFails, RefuseMetadata
<1>2. CASE InstallCli
  <2>1. /\ version' = ResolvedVersion /\ ResolvedVersion \in Releases /\ ResolvedVersion # None
        /\ UNCHANGED <<job, archive, error, store, modules>>
        /\ UNCHANGED <<package, attempts, requests, registries, cache>>
        /\ wanted' = job.metadata /\ pc = "start" /\ pc' = "install" /\ job.op = "offline"
    BY <1>2, ResolvedIsPinned DEF InstallCli, outside, download, Typed
  <2>2. job.platforms \subseteq Platforms
    BY JobTypes DEF Typed
  <2>3. /\ todo' \subseteq SUBSET Platforms
        /\ \A p \in job.platforms : \E covered \in todo' : p \in covered
    BY <1>2, <2>2 DEF InstallCli
  <2>4. Typed'
    BY <2>1, <2>3 DEF Typed, Offline, Fetching
  <2>5. Version'
    BY <2>1 DEF Version, Offline, ResolvedVersion
  <2>6. Stored'
    BY <2>1, <2>3 DEF Stored
  <2> QED
    BY <2>4, <2>5, <2>6
<1>3. ASSUME NEW covered \in todo, NEW cached \in SUBSET Packages, Install(covered, cached)
      PROVE  Typed' /\ Version' /\ Stored'
  <2>1. /\ UNCHANGED <<job, archive, error, version, wanted, package, attempts, requests, registries>>
        /\ UNCHANGED <<modules>>
        /\ store' = store \cup covered /\ todo' = todo \ {covered}
        /\ pc = "install" /\ pc' = IF todo' = {} THEN "metadata" ELSE "install"
    BY <1>3 DEF Install, outside, Remaining
  <2>2. cache' \in [Packages -> Files]
    BY <1>3 DEF Install, Typed, Files
  <2>3. Typed'
    BY <2>1, <2>2 DEF Typed, Offline, Fetching
  <2>4. Version'
    BY <2>1 DEF Version, Offline, Ended, ResolvedVersion
  <2>5. Stored'
    BY <2>1 DEF Stored, Offline
  <2> QED
    BY <2>3, <2>4, <2>5
<1>4. ASSUME NEW p \in wanted, SkipPackage(p) \/ StartDownload(p)
      PROVE  Typed' /\ Version' /\ Stored'
  <2>1. p \in Packages
    BY JobTypes DEF Typed
  <2>2. /\ UNCHANGED <<job, archive, error, version, todo, store, requests, cache>>
        /\ UNCHANGED <<modules>> /\ registries' = registries \cup {ScopeOf[p]}
        /\ wanted' \in SUBSET wanted /\ attempts' \in 0..2
        /\ pc = "metadata" /\ pc' \in {"metadata", "download"}
    BY <1>4 DEF SkipPackage, StartDownload, outside, installs, Typed
  <2>3. Typed'
    BY <2>1, <2>2 DEF Typed, Offline, Fetching
  <2>4. Version' /\ Stored'
    BY <2>2 DEF Version, Stored, Offline, Fetching, Ended, ResolvedVersion
  <2> QED
    BY <2>3, <2>4
<1>5. CASE DownloadSucceeds \/ \E torn \in BOOLEAN : RetryDownload(torn)
  <2>1. /\ UNCHANGED <<job, archive, error, version, todo, store, registries, modules>>
        /\ wanted' \in SUBSET wanted /\ Request
        /\ pc = "download" /\ pc' \in {"metadata", "download"}
    BY <1>5 DEF DownloadSucceeds, RetryDownload, outside, installs
  <2>2. attempts' \in 0..2
    BY <1>5 DEF DownloadSucceeds, RetryDownload, LastAttempt, Typed
  <2>3. requests' \in [Packages -> 0..3] /\ cache' \in [Packages -> Files]
    BY <1>5, <2>1, Attempt DEF DownloadSucceeds, RetryDownload, Typed, Files
  <2>4. Typed'
    BY <2>1, <2>2, <2>3 DEF Typed, Offline, Fetching
  <2>5. Version' /\ Stored'
    BY <2>1 DEF Version, Stored, Offline, Fetching, Ended, ResolvedVersion
  <2> QED
    BY <2>4, <2>5
<1>6. CASE \/ \E torn \in BOOLEAN : GiveUpDownload(torn)
           \/ \E reason \in {"transient", "crash", "interrupt"} : AbortDownload(reason)
  <2>1. PICK reason : Fail(reason) /\ modules' = modules /\ pc = "download" /\ Request
    BY <1>6 DEF GiveUpDownload, AbortDownload
  <2>2. requests' \in [Packages -> 0..3] /\ cache' \in [Packages -> Files]
    BY <1>6, <2>1, Attempt DEF GiveUpDownload, AbortDownload, Typed
  <2> QED
    BY <2>1, <2>2, Failed DEF Typed
<1>7. CASE PackCache
  <2>1. /\ UNCHANGED <<job, version, todo, store, wanted, package, attempts, requests>>
        /\ UNCHANGED <<registries, cache, modules, error>>
        /\ pc = "metadata" /\ pc' = "done" /\ archive' = Contents /\ job.op = "offline"
    BY <1>7 DEF PackCache, installs, download, Typed, Offline, Ended
  <2>2. Typed'
    BY <2>1 DEF Typed, Offline, Fetching, Ended
  <2>3. Contents.version = version /\ Contents.platforms = store
    BY DEF Contents
  <2>4. Pinned(version)
    BY <2>1, ResolvedIsPinned DEF Version, Offline, Typed
  <2>5. Version'
    BY <2>1, <2>3, <2>4 DEF Version, Offline, Pinned
  <2>6. Stored'
    BY <2>1, <2>3 DEF Stored, Offline, Fetching
  <2> QED
    BY <2>2, <2>5, <2>6
<1> QED
  BY <1>1, <1>2, <1>3, <1>4, <1>5, <1>6, <1>7 DEF OfflineNext

LEMMA CoreFetchStep ==
  ASSUME IInv, FetchNext
  PROVE  Typed' /\ Version' /\ Stored'
<1> USE DEF IInv
<1>1. CASE BackupFails \/ FinishFails
  BY <1>1, FailedOnly DEF BackupFails, FinishFails
<1>2. CASE Backup
  <2>1. /\ UNCHANGED <<job, archive, error, version, store, wanted, package, attempts>>
        /\ UNCHANGED <<requests, registries, cache, modules>>
        /\ todo' = {{p} : p \in job.platforms}
        /\ pc = "start" /\ pc' = "fetch" /\ job.op = "fetch"
    BY <1>2 DEF Backup, outside, download
  <2>2. todo' \subseteq SUBSET Platforms
    BY <2>1, JobTypes DEF Typed
  <2>3. Typed'
    BY <2>1, <2>2 DEF Typed, Offline, Fetching
  <2> QED
    BY <2>1, <2>3 DEF Version, Stored, Offline, Fetching, Ended
<1>3. ASSUME NEW covered \in todo, NEW m \in [Dirs -> DirStates], Fetch(covered, m)
      PROVE  Typed' /\ Version' /\ Stored'
  <2>1. /\ UNCHANGED <<job, archive, error, version, wanted, package, attempts, requests, registries>>
        /\ UNCHANGED <<cache>> /\ modules' = m
        /\ store' = store \cup covered /\ todo' = todo \ {covered}
        /\ pc = "fetch" /\ pc' = "clean"
    BY <1>3 DEF Fetch, outside, download, Remaining
  <2>2. Typed'
    BY <2>1 DEF Typed, Offline, Fetching
  <2> QED
    BY <2>1, <2>2 DEF Version, Stored, Offline, Fetching, Ended
<1>4. ASSUME NEW m \in [Dirs -> DirStates], NEW reason \in {"transient", "interrupt"},
             FetchFails(m, reason)
      PROVE  Typed' /\ Version' /\ Stored'
  BY <1>4 DEF FetchFails, installs, download, Typed, Version, Stored, Offline, Fetching,
     Ended
<1>5. CASE Clean
  <2>1. Upstream \in [Dirs -> DirStates]
    BY DEF Upstream, DirStates
  <2>2. /\ UNCHANGED <<job, archive, error, version, todo, store, wanted, package>>
        /\ UNCHANGED <<attempts, requests, registries, cache>> /\ modules' = Upstream
        /\ pc = "clean" /\ pc' = IF todo = {} THEN "restore" ELSE "fetch"
    BY <1>5 DEF Clean, outside, installs, download
  <2>3. Typed'
    BY <2>1, <2>2 DEF Typed, Offline, Fetching
  <2>4. Version'
    BY <2>2 DEF Version, Offline, Fetching, Ended
  <2>5. Stored'
    BY <2>2 DEF Stored, Offline, Fetching
  <2> QED
    BY <2>3, <2>4, <2>5
<1>6. ASSUME NEW m \in [Dirs -> DirStates], CleanFails(m)
      PROVE  Typed' /\ Version' /\ Stored'
  BY <1>6 DEF CleanFails, installs, download, Typed, Version, Stored, Offline, Fetching,
     Ended
<1>7. ASSUME NEW m \in [Dirs -> DirStates], RestoreFails(m)
      PROVE  Typed' /\ Version' /\ Stored'
  BY <1>7, Failed DEF RestoreFails, Typed
<1>8. CASE Restore
  <2>1. Upstream \in [Dirs -> DirStates]
    BY DEF Upstream, DirStates
  <2>2. CASE error = "none"
    <3>1. /\ UNCHANGED <<job, archive, error, version, todo, store, wanted, package>>
          /\ UNCHANGED <<attempts, requests, registries, cache>> /\ modules' = Upstream
          /\ pc = "restore" /\ pc' = "normalize"
      BY <1>8, <2>2 DEF Restore, Restored, installs, Offline, Ended
    <3>2. Typed'
      BY <2>1, <3>1 DEF Typed, Offline, Fetching
    <3>3. Stored'
      BY <2>2, <3>1 DEF Stored, Offline, Fetching
    <3> QED
      BY <3>1, <3>2, <3>3 DEF Version, Offline, Fetching, Ended
  <2>3. CASE error # "none"
    BY <1>8, <2>1, <2>3, Failed DEF Restore, Restored, Typed
  <2> QED
    BY <2>2, <2>3
<1>9. CASE Normalize
  BY <1>9 DEF Normalize, outside, installs, download, Typed, Version, Stored, Offline, Fetching,
     Ended
<1>10. CASE Combine
  <2>1. /\ UNCHANGED <<job, version, todo, store, wanted, package, attempts, requests>>
        /\ UNCHANGED <<registries, cache, modules, error>>
        /\ pc = "combine" /\ pc' = "done" /\ archive' = Contents /\ job.op = "fetch"
    BY <1>10 DEF Combine, installs, download, Typed, Offline, Fetching, Ended
  <2>2. Contents.platforms = store
    BY DEF Contents
  <2> QED
    BY <2>1, <2>2 DEF Typed, Version, Stored, Offline, Fetching, Ended
<1> QED
  BY <1>1, <1>2, <1>3, <1>4, <1>5, <1>6, <1>7, <1>8, <1>9, <1>10 DEF FetchNext

LEMMA DownloadsOfflineStep == ASSUME IInv, OfflineNext PROVE Downloads'
<1> USE DEF IInv
<1>1. job' = job /\ job.metadata \subseteq Packages /\ error # "download"
  BY OfflineStep, JobTypes DEF Typed, Downloads, OfflineNext, RefuseVersion, InstallCli, InstallCliFails,
     Install, InstallFails, RefuseMetadata, SkipPackage, StartDownload, DownloadSucceeds, RetryDownload,
     GiveUpDownload, AbortDownload, PackCache, PackCacheFails
<1>2. ASSUME NEW reason \in {"transient", "config", "interrupt", "crash"}, FailOnly(reason),
             pc # "failed"
      PROVE  Downloads'
  <2>1. /\ UNCHANGED <<version, package, requests, cache>> /\ pc' = "failed" /\ error' = reason
    BY <1>2 DEF FailOnly, Fail
  <2>2. \A p \in Packages : cache[p] # "torn" \/ p = package
    BY DEF Downloads
  <2> QED
    BY <1>1, <2>1, <2>2 DEF Downloads, Offline
<1>3. CASE \/ RefuseVersion \/ InstallFails \/ PackCacheFails
           \/ \E reason \in {"transient", "config", "interrupt"} : InstallCliFails(reason)
           \/ \E p \in wanted : RefuseMetadata(p)
  BY <1>2, <1>3 DEF RefuseVersion, InstallFails, PackCacheFails, InstallCliFails, RefuseMetadata
<1>4. CASE InstallCli
  <2>1. /\ UNCHANGED <<package, requests, cache, error>> /\ pc = "start" /\ pc' = "install"
        /\ wanted' = job.metadata
    BY <1>4 DEF InstallCli, outside, download
  <2>2. \A p \in Packages : requests[p] = 0
    BY <2>1 DEF Downloads
  <2> QED
    BY <1>1, <2>1, <2>2 DEF Downloads, Offline
<1>5. ASSUME NEW covered, NEW cached \in SUBSET Packages, Install(covered, cached) PROVE Downloads'
  <2>1. /\ UNCHANGED <<package, requests, error, version, wanted>>
        /\ pc = "install" /\ pc' \in {"install", "metadata"}
        /\ \A p \in Packages : cache'[p] = IF p \in cached THEN "whole" ELSE cache[p]
    BY <1>5 DEF Install, outside
  <2>2. \A p \in job.metadata \ wanted : cache'[p] = "whole"
    BY <1>1, <2>1 DEF Downloads, Offline
  <2> QED
    BY <1>1, <2>1, <2>2 DEF Downloads, Offline
<1>6. ASSUME NEW p \in wanted, SkipPackage(p) PROVE Downloads'
  <2>1. /\ UNCHANGED <<package, requests, error, version, cache>> /\ wanted' = wanted \ {p}
        /\ pc = "metadata" /\ pc' = "metadata" /\ cache[p] # "none"
    BY <1>6 DEF SkipPackage, outside, Cached
  <2>2. p \in Packages
    BY <1>1 DEF Typed
  <2>3. cache[p] = "whole"
    BY <2>1, <2>2 DEF Typed, Downloads, Files
  <2> QED
    BY <1>1, <2>1, <2>3 DEF Downloads, Offline
<1>7. ASSUME NEW p \in wanted, StartDownload(p) PROVE Downloads'
  <2>1. /\ UNCHANGED <<requests, error, version, cache, wanted>> /\ package' = p /\ attempts' = 0
        /\ pc = "metadata" /\ pc' = "download" /\ cache[p] = "none" /\ Accepted(p)
    BY <1>7 DEF StartDownload, outside, installs, Cached
  <2>2. p \in Packages
    BY <1>1 DEF Typed
  <2>3. requests[p] = 0
    <3>1. ~(requests[p] > 0)
      BY <2>1, <2>2 DEF Downloads, Offline
    <3> QED
      BY <2>2, <3>1 DEF Typed
  <2>4. Accepted(p)'
    BY <2>1 DEF Accepted
  <2>5. \A q \in Packages : cache[q] # "torn"
    BY <2>1 DEF Downloads
  <2> QED
    BY <1>1, <2>1, <2>3, <2>4, <2>5 DEF Downloads, Offline
<1>8. CASE DownloadSucceeds
  <2>1. /\ UNCHANGED <<error, version, package>> /\ pc = "download" /\ pc' = "metadata"
        /\ cache' = [cache EXCEPT ![package] = "whole"] /\ wanted' = wanted \ {package}
    BY <1>8 DEF DownloadSucceeds, outside, installs
  <2>2. /\ package \in Packages /\ package \in wanted
        /\ \A p \in Packages : p # package => requests'[p] = requests[p]
    BY <1>8, Attempt DEF DownloadSucceeds, Downloads
  <2>3. /\ cache'[package] = "whole"
        /\ \A p \in Packages : p # package => cache'[p] = cache[p]
    BY <2>1, <2>2 DEF Typed
  <2>4. package \in job.metadata \ Malformed /\ version \in WithCache
    BY <2>1, <2>2 DEF Downloads, Accepted, Typed
  <2>5. \A p \in job.metadata \ wanted' : cache'[p] = "whole"
    BY <1>1, <2>1, <2>3 DEF Downloads, Offline
  <2> QED
    BY <1>1, <2>1, <2>2, <2>3, <2>4, <2>5 DEF Downloads, Offline
<1>9. ASSUME NEW torn \in BOOLEAN, pc = "download", Request, Left(torn)
      PROVE  /\ cache'[package] # "whole"
             /\ \A p \in Packages : p # package => cache'[p] = cache[p] /\ cache[p] # "torn"
  BY <1>9, Attempt DEF Left, Typed, Downloads
<1>10. pc = "download" => package \in job.metadata \ Malformed /\ version \in WithCache
  BY DEF Downloads, Accepted, Typed
<1>11. ASSUME NEW torn \in BOOLEAN, RetryDownload(torn) PROVE Downloads'
  <2>1. /\ UNCHANGED <<error, version, package, wanted>> /\ pc = "download" /\ pc' = "download"
        /\ attempts' = attempts + 1 /\ Request /\ Left(torn)
    BY <1>11 DEF RetryDownload, outside, installs
  <2>2. /\ requests'[package] = attempts' /\ package \in wanted /\ package \in Packages
        /\ \A p \in Packages : p # package => requests'[p] = requests[p]
    BY <2>1, Attempt DEF Downloads
  <2>3. Accepted(package)'
    BY <2>1 DEF Downloads, Accepted
  <2>4. \A p \in job.metadata \ wanted : cache'[p] = "whole"
    BY <1>1, <1>9, <2>1, <2>2 DEF Downloads, Offline
  <2> QED
    BY <1>1, <1>9, <1>10, <2>1, <2>2, <2>3, <2>4 DEF Downloads, Offline
<1>12. ASSUME NEW torn \in BOOLEAN, GiveUpDownload(torn) PROVE Downloads'
  <2>1. /\ UNCHANGED <<version, package>> /\ pc = "download" /\ pc' = "failed"
        /\ attempts = 2 /\ Request /\ Left(torn)
    BY <1>12 DEF GiveUpDownload, Fail, LastAttempt
  <2>2. /\ requests'[package] = 3 /\ package \in Packages
        /\ \A p \in Packages : p # package => requests'[p] = requests[p]
    BY <2>1, Attempt
  <2> QED
    BY <1>1, <1>9, <1>10, <2>1, <2>2 DEF Downloads, Offline
<1>13. ASSUME NEW reason \in {"transient", "crash", "interrupt"}, AbortDownload(reason)
       PROVE  Downloads'
  <2>1. /\ UNCHANGED <<version, package, cache>> /\ pc = "download" /\ pc' = "failed" /\ Request
        /\ error' = reason
    BY <1>13 DEF AbortDownload, Fail
  <2>2. \A p \in Packages : p # package => requests'[p] = requests[p]
    BY <2>1, Attempt
  <2> QED
    BY <1>1, <1>10, <2>1, <2>2 DEF Downloads, Offline
<1>14. CASE PackCache
  <2>1. /\ UNCHANGED <<version, package, requests, cache, error>> /\ pc = "metadata" /\ pc' = "done"
        /\ wanted = {} /\ archive'.cache = cache
    BY <1>14 DEF PackCache, Contents, download
  <2>2. \A p \in Packages : cache[p] # "torn"
    BY <2>1 DEF Downloads
  <2> QED
    BY <1>1, <2>1, <2>2 DEF Downloads, Offline
<1> QED
  BY <1>3, <1>4, <1>5, <1>6, <1>7, <1>8, <1>11, <1>12, <1>13, <1>14 DEF OfflineNext

LEMMA DownloadsFetchStep == ASSUME IInv, FetchNext PROVE Downloads'
<1> USE DEF IInv
<1>1. /\ job' = job /\ UNCHANGED <<requests, cache, version, package>>
      /\ pc' \in Fetching \cup Ended /\ job.metadata = {}
  BY FetchStep, JobTypes DEF Typed
<1>2. pc \in {"start"} \cup Fetching
  BY DEF FetchNext, Backup, BackupFails, Fetch, FetchFails, Clean, CleanFails, RestoreFails, Restore,
     Normalize, Combine, FinishFails, Fetching
<1>3. \A p \in Packages : cache[p] # "torn" /\ ~(requests[p] > 0)
  BY <1>1, <1>2 DEF Downloads, Fetching
<1>4. error # "download" /\ error' # "download"
  <2>1. error # "download"
    BY <1>2 DEF Downloads, Fetching
  <2> QED
    BY <2>1 DEF FetchNext, Backup, BackupFails, Fetch, FetchFails, Clean, CleanFails, RestoreFails,
       Restore, Normalize, Combine, FinishFails, Fail, FailOnly, outside
<1>5. pc' = "done" => archive'.cache = cache
  BY <1>2 DEF FetchNext, Backup, BackupFails, Fetch, FetchFails, Clean, CleanFails, RestoreFails,
     Restore, Normalize, Combine, FinishFails, Fail, FailOnly, Contents
<1> QED
  BY <1>1, <1>3, <1>4, <1>5 DEF Downloads, Offline, Fetching, Ended

LEMMA RestoringStep == ASSUME IInv, Next PROVE Restoring'
<1> USE DEF IInv
<1>1. job' = job => Upstream' = Upstream
  BY DEF Upstream
<1>2. CASE OfflineNext
  <2>1. pc \notin {"restore", "failed"}
    BY <1>2 DEF OfflineNext, RefuseVersion, InstallCli, InstallCliFails, Install, InstallFails,
       RefuseMetadata, SkipPackage, StartDownload, DownloadSucceeds, RetryDownload, GiveUpDownload,
       AbortDownload, PackCache, PackCacheFails
  <2>2. /\ job' = job /\ job.op = "offline" /\ modules' = modules
        /\ pc' \in Offline \cup Ended /\ (pc' = "failed" \/ error' = error)
    BY <1>2, OfflineStep
  <2> QED
    BY <1>1, <2>1, <2>2 DEF Restoring, Offline, Ended
<1>3. CASE FetchNext
  <2>1. job' = job /\ job.op = "fetch"
    BY <1>3, FetchStep
  <2>2. CASE Backup \/ BackupFails \/ Normalize \/ Combine \/ FinishFails
    BY <1>1, <2>1, <2>2 DEF Backup, BackupFails, Normalize, Combine, FinishFails, FailOnly, Fail,
       outside, installs, download, Restoring
  <2>3. CASE Clean \/ Restore
    BY <1>1, <2>1, <2>3 DEF Clean, Restore, Restored, Fail, outside, Restoring
  <2>4. ASSUME NEW m, NEW covered, Fetch(covered, m) PROVE Restoring'
    BY <1>1, <2>1, <2>4 DEF Fetch, outside, Restoring
  <2>5. ASSUME NEW m, NEW reason \in {"transient", "interrupt"}, FetchFails(m, reason) PROVE Restoring'
    BY <1>1, <2>1, <2>5 DEF FetchFails, Restoring
  <2>6. ASSUME NEW m, CleanFails(m) \/ RestoreFails(m) PROVE Restoring'
    BY <1>1, <2>1, <2>6 DEF CleanFails, RestoreFails, Fail, Restoring
  <2> QED
    BY <1>3, <2>2, <2>3, <2>4, <2>5, <2>6 DEF FetchNext
<1> QED
  BY <1>2, <1>3 DEF Next

LEMMA StutterInv == ASSUME IInv, UNCHANGED vars PROVE IInv'
<1> USE DEF vars, IInv
<1>1. Typed'
  BY DEF Typed
<1>2. Version'
  BY DEF Version, ResolvedVersion, Pinned
<1>3. Stored'
  BY DEF Stored
<1>4. Downloads'
  BY DEF Downloads, Accepted
<1>5. Restoring'
  BY DEF Restoring, Upstream
<1> QED
  BY <1>1, <1>2, <1>3, <1>4, <1>5

(***************************************************************************)
(* The inductive invariant: what store and cache hold at each point, and   *)
(* what is still to be restored.                                           *)
(***************************************************************************)
THEOREM Invariance == Spec => []IInv
<1>1. Init => IInv
  <2> SUFFICES ASSUME Init PROVE IInv
    OBVIOUS
  <2>1. Upstream \in [Dirs -> DirStates]
    BY DEF Upstream, DirStates
  <2>2. Typed
    <3>1. requests \in [Packages -> 0..3] /\ cache \in [Packages -> Files] /\ attempts \in 0..2
      BY DEF Init, Files
    <3>2. wanted = {} /\ registries = {} /\ todo = {} /\ store = {}
      BY DEF Init
    <3> QED
      BY <2>1, <3>1, <3>2 DEF Init, Typed, Offline, Fetching
  <2>3. Version /\ Stored /\ Restoring
    BY DEF Init, Version, Stored, Restoring, Offline, Fetching, Ended
  <2>4. Downloads
    BY DEF Init, Downloads, Offline
  <2> QED
    BY <2>2, <2>3, <2>4 DEF IInv
<1>2. IInv /\ [Next]_vars => IInv'
  <2>1. ASSUME IInv, Next PROVE IInv'
    BY <2>1, CoreOfflineStep, CoreFetchStep, DownloadsOfflineStep, DownloadsFetchStep, RestoringStep
       DEF IInv, Next
  <2> QED
    BY <2>1, StutterInv
<1> QED
  BY <1>1, <1>2, PTL DEF Spec
-----------------------------------------------------------------------------

(***************************************************************************)
(* Types, and: at most two failed attempts of a download that is wanted.   *)
(***************************************************************************)
THEOREM Types == Spec => []TypeOK
<1>1. IInv => TypeOK
  <2> SUFFICES ASSUME IInv PROVE TypeOK
    OBVIOUS
  <2>1. pc = "download" => package \in wanted /\ attempts \leq requests[package]
    BY DEF IInv, Downloads, Typed
  <2>2. pc \in {"start", "install", "metadata", "download", "fetch", "clean", "restore",
               "normalize", "combine"} \cup Ended
    BY DEF IInv, Typed, Offline, Fetching
  <2> QED
    BY <2>1, <2>2 DEF IInv, Typed, TypeOK
<1> QED
  BY <1>1, Invariance, PTL

(***************************************************************************)
(* An archive that is handed on is complete, whatever failed before.       *)
(***************************************************************************)
THEOREM ArchivesAreComplete == Spec => []ArchiveIsComplete
<1>1. IInv => ArchiveIsComplete
  BY DEF IInv, Version, Stored, Downloads, ArchiveIsComplete
<1> QED
  BY <1>1, Invariance, PTL

(***************************************************************************)
(* Upstream's node_modules survive, unless restoring them fails itself.    *)
(***************************************************************************)
THEOREM UpstreamIsRestored == Spec => []UpstreamModulesSurvive
<1>1. IInv => UpstreamModulesSurvive
  BY DEF IInv, Restoring, UpstreamModulesSurvive, Ended
<1> QED
  BY <1>1, Invariance, PTL

(***************************************************************************)
(* A download fails the run only after three attempts, and only names that *)
(* are declared and well formed are asked for.                             *)
(***************************************************************************)
THEOREM DownloadsAreRetried == Spec => []RetriesAreSpent
<1>1. IInv => RetriesAreSpent
  BY DEF IInv, Downloads, RetriesAreSpent
<1> QED
  BY <1>1, Invariance, PTL

(***************************************************************************)
(* Whole metadata is neither fetched again nor overwritten.                *)
(***************************************************************************)
THEOREM MetadataIsFinal == Spec => WholeMetadataIsFinal
<1>1. ASSUME IInv, [Next]_vars, NEW p \in Packages, cache[p] = "whole"
      PROVE  cache'[p] = "whole" /\ requests'[p] = requests[p]
  <2> USE DEF IInv
  <2>1. CASE UNCHANGED <<cache, requests>>
    BY <1>1, <2>1
  <2>2. CASE pc = "download" /\ Request
    <3>1. p # package
      BY <1>1, <2>2 DEF Downloads
    <3>2. requests'[p] = requests[p]
      BY <1>1, <2>2, <3>1, Attempt
    <3>3. cache'[p] = cache[p]
      BY <1>1, <2>2, <3>1 DEF Next, OfflineNext, RefuseVersion, InstallCli, InstallCliFails, Install,
         InstallFails, RefuseMetadata, SkipPackage, StartDownload, DownloadSucceeds, RetryDownload,
         GiveUpDownload, AbortDownload, PackCache, PackCacheFails, FetchNext, Backup, BackupFails, Fetch,
         FetchFails, Clean, CleanFails, RestoreFails, Restore, Normalize, Combine, FinishFails, Left,
         Typed, vars
    <3> QED
      BY <1>1, <3>2, <3>3
  <2>3. ASSUME NEW covered, NEW cached \in SUBSET Packages, Install(covered, cached)
        PROVE  cache'[p] = "whole" /\ requests'[p] = requests[p]
    BY <1>1, <2>3 DEF Install
  <2>4. CASE FetchNext
    BY <1>1, <2>4, FetchStep
  <2>5. CASE OfflineNext
    BY <2>1, <2>2, <2>3, <2>5 DEF OfflineNext, RefuseVersion, InstallCli, InstallCliFails, InstallFails,
       RefuseMetadata, SkipPackage, StartDownload, DownloadSucceeds, RetryDownload, GiveUpDownload,
       AbortDownload, PackCache, PackCacheFails, FailOnly, download
  <2> QED
    BY <1>1, <2>1, <2>4, <2>5 DEF Next, vars
<1>2. IInv /\ [Next]_vars =>
        \A p \in Packages :
          cache[p] = "whole" => cache'[p] = "whole" /\ requests'[p] = requests[p]
  BY <1>1
<1> QED
  BY <1>2, Invariance, PTL DEF WholeMetadataIsFinal, Spec

-----------------------------------------------------------------------------

(***************************************************************************)
(* A job does not go on for ever.  The prover has no liveness, but a       *)
(* number that every step brings down.                                     *)
(***************************************************************************)

(* A job names finitely many platforms and packages.                       *)
FiniteJobs == \A j \in Jobs : IsFiniteSet(j.platforms) /\ IsFiniteSet(j.metadata)

(* An upper bound of the number of steps that are left: an install for each *)
(* entry of the list, three attempts and a look for each package, two steps *)
(* for each platform that is fetched in place.                             *)
Ahead ==
  CASE pc = "start"     -> 10 + 4 * Cardinality(job.metadata) + 2 * Cardinality(job.platforms)
    [] pc = "install"   -> 2 + 4 * Cardinality(wanted) + Cardinality(todo)
    [] pc = "metadata"  -> 1 + 4 * Cardinality(wanted)
    [] pc = "download"  -> 4 * Cardinality(wanted) - attempts
    [] pc = "fetch"     -> 4 + 2 * Cardinality(todo)
    [] pc = "clean"     -> 5 + 2 * Cardinality(todo)
    [] pc = "restore"   -> 3
    [] pc = "normalize" -> 2
    [] pc = "combine"   -> 1
    [] OTHER            -> 0

JobAdvances == [][Ahead' < Ahead]_vars

(* There is at most one install for each platform.                         *)
LEMMA InstallsAreFew ==
  ASSUME NEW S, IsFiniteSet(S)
  PROVE  /\ IsFiniteSet({{p} : p \in S})
         /\ Cardinality({{p} : p \in S}) \in Nat
         /\ Cardinality(S) \in Nat
         /\ Cardinality({{p} : p \in S}) <= Cardinality(S)
<1> DEFINE T == {{p} : p \in S}
           f == [p \in S |-> {p}]
<1>1. f \in Surjection(S, T)
  BY DEF Surjection
<1> HIDE DEF f, T
<1>2. IsFiniteSet(T) /\ Cardinality(T) <= Cardinality(S)
  BY <1>1, FS_Surjection
<1>3. Cardinality(T) \in Nat /\ Cardinality(S) \in Nat
  BY <1>2, FS_CardinalityType
<1> QED BY <1>2, <1>3 DEF T

(* The list of installs stays finite.                                      *)
LEMMA InstallsAreFinite ==
  ASSUME FiniteJobs
  PROVE  Spec => []IsFiniteSet(todo)
<1>1. Init => IsFiniteSet(todo)
  BY FS_EmptySet DEF Init
<1>2. IInv /\ IsFiniteSet(todo) /\ [Next]_vars => IsFiniteSet(todo)'
  <2> SUFFICES ASSUME IInv, IsFiniteSet(todo), [Next]_vars PROVE IsFiniteSet(todo')
    OBVIOUS
  <2>1. CASE InstallCli \/ Backup
    <3>1. todo' = {{p} : p \in job.platforms} \/ todo' = {Platforms}
      BY <2>1 DEF InstallCli, Backup
    <3>2. IsFiniteSet({{p} : p \in job.platforms})
      BY InstallsAreFew DEF FiniteJobs, IInv, Typed
    <3>3. IsFiniteSet({Platforms})
      BY FS_Singleton
    <3> QED BY <3>1, <3>2, <3>3
  <2>2. CASE todo' \subseteq todo
    BY <2>2, FS_Subset
  <2>3. ASSUME OfflineNext, ~InstallCli PROVE todo' \subseteq todo
    BY <2>3 DEF OfflineNext, RefuseVersion, InstallCliFails, Install, Remaining, InstallFails,
       RefuseMetadata, SkipPackage, StartDownload, DownloadSucceeds, RetryDownload, GiveUpDownload,
       AbortDownload, PackCache, PackCacheFails, FailOnly, Fail, installs
  <2>4. ASSUME FetchNext, ~Backup PROVE todo' \subseteq todo
    BY <2>4 DEF FetchNext, BackupFails, Fetch, Remaining, FetchFails, Clean, CleanFails, RestoreFails,
       Restore, Normalize, Combine, FinishFails, FailOnly, Fail, installs
  <2> QED BY <2>1, <2>2, <2>3, <2>4 DEF Next, vars
<1> QED BY <1>1, <1>2, Invariance, PTL DEF Spec

(* What is counted.                                                        *)
LEMMA Counts ==
  ASSUME FiniteJobs, IInv, IsFiniteSet(todo)
  PROVE  /\ IsFiniteSet(wanted) /\ Cardinality(wanted) \in Nat
         /\ Cardinality(todo) \in Nat
         /\ Cardinality(job.metadata) \in Nat /\ Cardinality(job.platforms) \in Nat
         /\ attempts \in 0..2
         /\ pc = "download" => Cardinality(wanted) >= 1
<1>1. IsFiniteSet(job.metadata) /\ IsFiniteSet(job.platforms)
  BY DEF FiniteJobs, IInv, Typed
<1>2. IsFiniteSet(wanted)
  BY <1>1, FS_Subset DEF IInv, Typed
<1>3. pc = "download" => Cardinality(wanted) # 0
  BY <1>2, FS_EmptySet DEF IInv, Downloads
<1>4. /\ Cardinality(wanted) \in Nat
      /\ Cardinality(todo) \in Nat
      /\ Cardinality(job.metadata) \in Nat /\ Cardinality(job.platforms) \in Nat
  BY <1>1, <1>2, FS_CardinalityType
<1>5. attempts \in 0..2
  BY DEF IInv, Typed
<1> QED BY <1>2, <1>3, <1>4, <1>5

(* A job that fails has nothing left to do, and had something.             *)
LEMMA EndsAtNothing ==
  ASSUME FiniteJobs, IInv, IsFiniteSet(todo), pc \notin Ended, pc' \in Ended
  PROVE  Ahead' < Ahead
<1>1. Ahead' = 0
  BY DEF Ahead, Ended
<1>2. Ahead >= 1 /\ Ahead \in Nat
  BY Counts DEF Ahead, Ended, IInv, Typed, Offline, Fetching
<1> QED BY <1>1, <1>2

(***************************************************************************)
(* Every step of a job brings down the number of those that are left,      *)
(* whatever fails: neither installs, nor retries, nor clean-ups repeat     *)
(* without end.                                                            *)
(***************************************************************************)
THEOREM JobsRunOut ==
  ASSUME FiniteJobs
  PROVE  Spec => [](Ahead \in Nat) /\ JobAdvances
<1>1. IInv /\ IsFiniteSet(todo) => Ahead \in Nat
  BY Counts DEF Ahead
<1>2. IInv /\ IsFiniteSet(todo) /\ IsFiniteSet(todo)' /\ Next => Ahead' < Ahead
  <2> SUFFICES ASSUME IInv, IsFiniteSet(todo), IsFiniteSet(todo'), Next PROVE Ahead' < Ahead
    OBVIOUS
  <2> DEFINE w == Cardinality(wanted)
             t == Cardinality(todo)
             M == Cardinality(job.metadata)
             P == Cardinality(job.platforms)
  <2>1. /\ w \in Nat /\ t \in Nat /\ M \in Nat /\ P \in Nat
        /\ Cardinality(todo') \in Nat
        /\ attempts \in 0..2
    BY Counts, FS_CardinalityType
  <2>2. pc \notin Ended
    BY DEF Next, OfflineNext, RefuseVersion, InstallCli, InstallCliFails, Install,
       InstallFails, RefuseMetadata, SkipPackage, StartDownload, DownloadSucceeds, RetryDownload,
       GiveUpDownload, AbortDownload, PackCache, PackCacheFails, FetchNext, Backup, BackupFails, Fetch,
       FetchFails, Clean, CleanFails, RestoreFails, Restore, Normalize, Combine, FinishFails, Ended
  <2>3. CASE pc' \in Ended
    BY <2>2, <2>3, EndsAtNothing
  <2>4. CASE InstallCli
    <3>1. /\ pc = "start" /\ pc' = "install" /\ wanted' = job.metadata
          /\ todo' = {{p} : p \in job.platforms} \/ todo' = {Platforms}
      BY <2>4 DEF InstallCli
    <3>2. Cardinality(todo') <= P + 1
      <4> DEFINE T == {{p} : p \in job.platforms}
      <4>1. Cardinality(T) <= P /\ Cardinality(T) \in Nat
        BY InstallsAreFew DEF FiniteJobs, IInv, Typed
      <4>2. Cardinality({Platforms}) = 1
        BY FS_Singleton
      <4> HIDE DEF T, P
      <4>3. Cardinality(T) <= P + 1 /\ Cardinality({Platforms}) <= P + 1
        BY <2>1, <4>1, <4>2
      <4>4. todo' = T \/ todo' = {Platforms}
        BY <3>1 DEF T
      <4> QED BY <4>3, <4>4
    <3>3. Ahead = 10 + 4 * M + 2 * P /\ Ahead' = 2 + 4 * M + Cardinality(todo')
      BY <3>1 DEF Ahead
    <3> HIDE DEF M, P
    <3> QED BY <2>1, <3>2, <3>3
  <2>5. ASSUME NEW covered \in todo, NEW cached, Install(covered, cached) PROVE Ahead' < Ahead
    <3>1. Cardinality(todo') = t - 1
      BY <2>5, FS_RemoveElement DEF Install, Remaining
    <3>2. pc = "install" /\ pc' \in {"metadata", "install"} /\ wanted' = wanted
      BY <2>5 DEF Install
    <3> QED BY <2>1, <3>1, <3>2 DEF Ahead
  <2>6. ASSUME NEW p \in wanted, SkipPackage(p) PROVE Ahead' < Ahead
    <3>1. Cardinality(wanted') = w - 1
      BY <2>6, Counts, FS_RemoveElement DEF SkipPackage
    <3> QED BY <2>1, <2>6, <3>1 DEF SkipPackage, Ahead
  <2>7. ASSUME NEW p \in wanted, StartDownload(p) PROVE Ahead' < Ahead
    BY <2>1, <2>7 DEF StartDownload, Ahead
  <2>8. CASE DownloadSucceeds
    <3>1. Cardinality(wanted') = w - 1
      BY <2>8, Counts, FS_RemoveElement DEF DownloadSucceeds, IInv, Downloads
    <3> QED BY <2>1, <2>8, <3>1 DEF DownloadSucceeds, Ahead
  <2>9. ASSUME NEW torn, RetryDownload(torn) PROVE Ahead' < Ahead
    BY <2>1, <2>9 DEF RetryDownload, Ahead
  <2>10. CASE Backup
    <3>1. pc = "start" /\ pc' = "fetch" /\ todo' = {{p} : p \in job.platforms}
      BY <2>10 DEF Backup
    <3>2. Cardinality(todo') <= P
      BY <3>1, InstallsAreFew DEF FiniteJobs, IInv, Typed
    <3>3. Ahead = 10 + 4 * M + 2 * P /\ Ahead' = 4 + 2 * Cardinality(todo')
      BY <3>1 DEF Ahead
    <3> HIDE DEF M, P
    <3> QED BY <2>1, <3>2, <3>3
  <2>11. ASSUME NEW covered \in todo, NEW m, Fetch(covered, m) PROVE Ahead' < Ahead
    <3>1. Cardinality(todo') = t - 1
      BY <2>11, FS_RemoveElement DEF Fetch, Remaining
    <3> QED BY <2>1, <2>11, <3>1 DEF Fetch, Ahead
  <2>12. ASSUME NEW m, NEW reason, FetchFails(m, reason) \/ CleanFails(m) PROVE Ahead' < Ahead
    BY <2>1, <2>12 DEF FetchFails, CleanFails, Ahead
  <2>13. CASE Clean
    BY <2>1, <2>13 DEF Clean, installs, Ahead
  <2>14. CASE (Restore /\ error = "none") \/ Normalize
    BY <2>14 DEF Restore, Normalize, Ahead
  <2>15. ASSUME OfflineNext, pc' \notin Ended PROVE Ahead' < Ahead
    BY <2>15, <2>4, <2>5, <2>6, <2>7, <2>8, <2>9 DEF OfflineNext, RefuseVersion, InstallCliFails,
       InstallFails, RefuseMetadata, GiveUpDownload, AbortDownload, PackCache, PackCacheFails, FailOnly,
       Fail, Ended
  <2>16. ASSUME FetchNext, pc' \notin Ended PROVE Ahead' < Ahead
    BY <2>16, <2>10, <2>11, <2>12, <2>13, <2>14 DEF FetchNext, BackupFails, RestoreFails, Restore,
       Combine, FinishFails, FailOnly, Fail, Ended
  <2> QED BY <2>3, <2>15, <2>16 DEF Next
<1> QED BY <1>1, <1>2, Invariance, InstallsAreFinite, PTL DEF Spec, JobAdvances
=============================================================================
