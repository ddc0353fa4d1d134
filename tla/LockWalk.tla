-------------------------------- MODULE LockWalk --------------------------------
(***************************************************************************)
(* The search for the production dependencies of a lockfile, which decides *)
(* what `bundled-provides' lists: a queue of requests and a set of items   *)
(* already visited (_pnpm_walk, _yarn_production_packages), and the        *)
(* inventory read with its result (read_inventory).                        *)
(*                                                                         *)
(* The queue is a set: a request that is in it twice would be passed over  *)
(* the second time, and no order is assumed.                               *)
(*                                                                         *)
(* Only a Berry lock with a package.json beside it is walked: without one, *)
(* and for a classic lock, yarn_provides calls everything production.      *)
(***************************************************************************)
EXTENDS Lockfiles

CONSTANT Locks   \* the lockfiles

ASSUME LocksAssumption == \A l \in Locks : IsPnpmLock(l) \/ IsBerryLock(l)

VARIABLES
  lock,
  queue,     (* requests                                                   *)
  visited,   (* items                                                      *)
  provides,  (* <<name, version>>: production                              *)
  outcome    (* "walking", "done", "error"                                 *)

vars == <<lock, queue, visited, provides, outcome>>

Workspace(name) == [workspace |-> name]

BerryItem(request) ==
  IF Overridden(lock, request).protocol = "workspace" THEN Workspace(request.name)
  ELSE Looked(lock, request)

(* What a request leads to; None for a local package of a pnpm lock.       *)
Item(request) ==
  IF lock.manager = "pnpm" THEN PnpmReference(request) ELSE BerryItem(request)

IsWorkspace(item) == "workspace" \in DOMAIN item

(* Faulty variant: a package must have a version.                          *)
Lost_Versionless(item) ==
  /\ lock.manager = "yarn"
  /\ IF IsWorkspace(item) THEN item.workspace \notin DOMAIN lock.workspaces
     ELSE ~(Package(lock, item) # None /\ lock.packages[Package(lock, item)].version # None)

(* A workspace or descriptor that the lockfile does not have.              *)
Lost(item) ==
  /\ lock.manager = "yarn"
  /\ IF IsWorkspace(item) THEN item.workspace \notin DOMAIN lock.workspaces
     ELSE Package(lock, item) = None

(* The requests an item makes in its turn.                                 *)
PnpmRequests(key) ==
  IF key \in DOMAIN lock.snapshots THEN Requests(None, lock.snapshots[key]) ELSE {}

BerryRequests(item) ==
  IF IsWorkspace(item) THEN Requests(item.workspace, lock.workspaces[item.workspace])
  ELSE LET package == Package(lock, item)
       IN Requests(ResolvedName(lock, package, item.name), lock.packages[package].dependencies)

(* Faulty variant: local packages are walked like others.                  *)
Queued_Local(requests) == requests

Queued(requests) == {r \in requests : Item(r) # None}

Requested(item) ==
  Queued(IF lock.manager = "pnpm" THEN PnpmRequests(item) ELSE BerryRequests(item))

Roots == Queued(Requests(IF lock.manager = "pnpm" THEN None ELSE lock.name, lock.roots))

(* The copies an item stands for, as name and version.                     *)
BerryProvided(item) ==
  IF IsWorkspace(item) THEN {}
  ELSE LET package == Package(lock, item)
       IN {<<ResolvedName(lock, package, item.name), v>> :
             v \in {lock.packages[package].version} \ {None}}

Provided(item) ==
  IF lock.manager = "pnpm" THEN {<<item.package, item.version>>} ELSE BerryProvided(item)

(***************************************************************************)
(* The walk.                                                               *)
(***************************************************************************)

Init ==
  /\ lock \in Locks
  /\ queue = Roots
  /\ visited = {} /\ provides = {}
  /\ outcome = "walking"

(* Faulty variant: a version that is listed already is not walked again.   *)
Seen_Listed(item) == Provided(item) \subseteq provides

(* Faulty variant: nothing is remembered.                                  *)
Seen_Never(item) == FALSE

Seen(item) == item \in visited

Skip(request) ==
  /\ outcome = "walking"
  /\ ~Lost(Item(request)) /\ Seen(Item(request))
  /\ queue' = queue \ {request}
  /\ UNCHANGED <<lock, visited, provides, outcome>>

Visit(request) ==
  /\ outcome = "walking"
  /\ LET item == Item(request) IN
       /\ ~Lost(item) /\ ~Seen(item)
       /\ visited' = visited \cup {item}
       /\ provides' = provides \cup Provided(item)
       /\ queue' = (queue \ {request}) \cup Requested(item)
  /\ UNCHANGED <<lock, outcome>>

GiveUp(request) ==
  /\ outcome = "walking"
  /\ Lost(Item(request))
  /\ outcome' = "error"
  /\ UNCHANGED <<lock, queue, visited, provides>>

Finish ==
  /\ outcome = "walking" /\ queue = {}
  /\ outcome' = "done"
  /\ UNCHANGED <<lock, queue, visited, provides>>

Next ==
  \/ \E request \in queue : Skip(request)
  \/ \E request \in queue : Visit(request)
  \/ \E request \in queue : GiveUp(request)
  \/ Finish

Spec == Init /\ [][Next]_vars /\ WF_vars(Next)

(***************************************************************************)
(* The inventory: every copy that is locked; a copy is production if its   *)
(* name and version were walked.                                           *)
(***************************************************************************)

BerryName(package) ==
  IF lock.packages[package].name # None THEN lock.packages[package].name
  ELSE (CHOOSE d \in DOMAIN lock.descriptors : lock.descriptors[d] = package).name

BerryCopies ==
  {<<BerryName(p), lock.packages[p].version>> :
     p \in {q \in {lock.descriptors[d] : d \in DOMAIN lock.descriptors} :
              lock.packages[q].version # None}}

Copies ==
  IF lock.manager = "pnpm" THEN {<<k.package, k.version>> : k \in DOMAIN lock.snapshots}
  ELSE BerryCopies

(* What bundled_provides lists for one module in scope `production'.       *)
Listed == Copies \cap provides
-----------------------------------------------------------------------------

(***************************************************************************)
(* The type invariant; local packages are never queued, an item is visited *)
(* only if the lockfile has it.                                            *)
(***************************************************************************)
TypeOK ==
  /\ lock \in Locks
  /\ \A r \in queue : Item(r) # None
  /\ \A item \in visited : item # None /\ ~Lost(item)
  /\ outcome \in {"walking", "done", "error"}

(* A set of items that holds what the roots ask for and, with an item, what *)
(* that asks for.                                                          *)
Closed(items) ==
  /\ \A r \in Roots : Item(r) \in items
  /\ \A item \in items : \A r \in Requested(item) : Item(r) \in items

(***************************************************************************)
(* What is listed as production is exactly what the production roots need, *)
(* directly or not: the items visited are the least closed set, in         *)
(* whatever order the queue was worked off, through cycles, aliases,       *)
(* workspaces and several versions of a package.                           *)
(***************************************************************************)
ProductionIsExact ==
  outcome = "done" =>
    /\ Closed(visited)
    /\ \A items \in SUBSET visited : Closed(items) => items = visited
    /\ Listed = {copy \in Copies : \E item \in visited : copy \in Provided(item)}

(* All items that requests of this lockfile lead to.                       *)
OfSnapshots == UNION {lock.snapshots[k] : k \in DOMAIN lock.snapshots}

OfWorkspaces == UNION {lock.workspaces[n] : n \in DOMAIN lock.workspaces}

OfPackages == UNION {lock.packages[package].dependencies : package \in Packages}

Mentioned ==
  lock.roots \cup (IF lock.manager = "pnpm" THEN OfSnapshots ELSE OfWorkspaces \cup OfPackages)

Edges == Queued(UNION {Requests(parent, Mentioned) : parent \in Names \cup {None}})

Everything == {Item(r) : r \in Edges}

(* Not in the lockfile: a Berry workspace without manifest, a descriptor   *)
(* for which no entry is left ("Yarn descriptor not found").               *)
Missing(item) ==
  /\ lock.manager = "yarn"
  /\ IF IsWorkspace(item) THEN item.workspace \notin DOMAIN lock.workspaces
     ELSE Package(lock, item) = None

(* What the roots ask for and, with an item that is there, what that asks  *)
(* for.                                                                    *)
Sufficient(items) ==
  /\ \A r \in Roots : Item(r) \in items
  /\ \A item \in items : ~Missing(item) => \A r \in Requested(item) : Item(r) \in items

(* Production cannot do without it.                                        *)
Indispensable(item) == \A items \in SUBSET Everything : Sufficient(items) => item \in items

(***************************************************************************)
(* The walk fails on a lockfile exactly if something that production       *)
(* needs, directly or through packages that are there, is not in it; a     *)
(* hole that only other dependencies lead to is never noticed, and one     *)
(* that production leads to always is, in whatever order the queue is      *)
(* worked off.                                                             *)
(***************************************************************************)
ErrorsAreReal ==
  /\ outcome = "error" => \E item \in Everything : Missing(item) /\ Indispensable(item)
  /\ outcome = "done" => \A item \in Everything : Indispensable(item) => ~Missing(item)

(***************************************************************************)
(* The walk ends on every lockfile, cyclic ones included.                  *)
(***************************************************************************)
Termination == <>(outcome # "walking")
=============================================================================
