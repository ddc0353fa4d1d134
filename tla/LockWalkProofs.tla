---------------------------- MODULE LockWalkProofs ----------------------------
(***************************************************************************)
(* Theorems about LockWalk, for lockfiles of any size: what is collected is *)
(* what is reached, and a walk of a finite lockfile runs out of steps.     *)
(***************************************************************************)
EXTENDS LockWalk, FiniteSetTheorems, TLAPS

(* Every edge of what was visited, and of the roots, has been followed or  *)
(* is still in the queue.                                                  *)
Frontier ==
  /\ \A r \in Roots : Item(r) \in visited \/ r \in queue
  /\ \A item \in visited : \A r \in Requested(item) : Item(r) \in visited \/ r \in queue

(* Nothing is visited or queued that production could do without.          *)
Needed ==
  \A items : Sufficient(items) =>
    /\ visited \subseteq items
    /\ \A r \in queue : Item(r) \in items

(* Nothing comes from outside the lockfile.                                *)
Inside == queue \subseteq Edges /\ visited \subseteq Everything

Collected == \A copy : copy \in provides <=> \E item \in visited : copy \in Provided(item)

Ended ==
  /\ outcome = "error" => \E r \in queue : Lost(Item(r))
  /\ outcome = "done" => queue = {}

IInv == TypeOK /\ Frontier /\ Needed /\ Inside /\ Collected /\ Ended

(* The lockfile stays as it is, and with it what its items lead to.        *)
LEMMA Frame ==
  ASSUME lock' = lock, NEW z
  PROVE  /\ Item(z)' = Item(z) /\ Requested(z)' = Requested(z) /\ Roots' = Roots
         /\ (Lost(z)' <=> Lost(z)) /\ (Missing(z)' <=> Missing(z))
         /\ Provided(z)' = Provided(z) /\ Edges' = Edges /\ Everything' = Everything
<1>1. ASSUME NEW y PROVE Item(y)' = Item(y)
  BY DEF Item, BerryItem
<1>2. ASSUME NEW S PROVE Queued(S)' = Queued(S)
  BY <1>1 DEF Queued
<1>3. PnpmRequests(z)' = PnpmRequests(z) /\ BerryRequests(z)' = BerryRequests(z)
  BY DEF PnpmRequests, BerryRequests
<1>4. Requested(z)' = Requested(z)
  BY <1>2, <1>3 DEF Requested
<1>5. Roots' = Roots
  BY <1>2 DEF Roots
<1>6. (Lost(z)' <=> Lost(z)) /\ (Missing(z)' <=> Missing(z))
  BY DEF Lost, Missing
<1>7. Provided(z)' = Provided(z)
  BY DEF Provided, BerryProvided
<1>8. Edges' = Edges
  BY <1>2 DEF Edges, Mentioned, OfSnapshots, OfWorkspaces, OfPackages
<1>9. Everything' = Everything
  BY <1>1, <1>8 DEF Everything
<1> QED BY <1>1, <1>4, <1>5, <1>6, <1>7, <1>8, <1>9

(* Being sufficient depends on the lockfile only.                          *)
LEMMA FrameSufficient ==
  ASSUME lock' = lock, NEW items
  PROVE  Sufficient(items)' <=> Sufficient(items)
BY Frame DEF Sufficient

(* Local packages are never queued.                                        *)
LEMMA QueuedItems ==
  /\ \A r \in Roots : Item(r) # None
  /\ \A item : \A r \in Requested(item) : Item(r) # None
BY DEF Roots, Requested, Queued

(* The requests that there may be.                                         *)
Asked ==
  [parent : Names \cup {None}, name : Names, ref : Reference(Ranges \cup PnpmRange)]

(* Everything asked for in a lockfile is such a request.                   *)
LEMMA EdgesAreAsked ==
  ASSUME lock \in Locks
  PROVE  Edges \subseteq Asked
<1>1. Mentioned \subseteq Dependency(Ranges \cup PnpmRange)
  <2>1. CASE lock.manager = "pnpm"
    <3>1. IsPnpmLock(lock)
      BY <2>1, LocksAssumption DEF IsBerryLock
    <3>2. /\ lock.roots \subseteq Dependency(PnpmRange)
          /\ \A k \in DOMAIN lock.snapshots : lock.snapshots[k] \subseteq Dependency(PnpmRange)
      BY <3>1 DEF IsPnpmLock
    <3>3. Mentioned \subseteq Dependency(PnpmRange)
      BY <2>1, <3>2 DEF Mentioned, OfSnapshots
    <3>4. Dependency(PnpmRange) \subseteq Dependency(Ranges \cup PnpmRange)
      BY DEF Dependency, Reference
    <3> QED BY <3>3, <3>4
  <2>2. CASE lock.manager # "pnpm"
    <3>1. IsBerryLock(lock)
      BY <2>2, LocksAssumption DEF IsPnpmLock
    <3>2. lock.roots \subseteq Dependency(Ranges)
      BY <3>1 DEF IsBerryLock
    <3>3. \A n \in DOMAIN lock.workspaces : lock.workspaces[n] \subseteq Dependency(Ranges)
      BY <3>1 DEF IsBerryLock
    <3>4. \A p \in Packages : lock.packages[p].dependencies \subseteq Dependency(Ranges)
      BY <3>1 DEF IsBerryLock, IsPackage
    <3>5. Mentioned \subseteq Dependency(Ranges)
      <4>1. OfWorkspaces \subseteq Dependency(Ranges)
        BY <3>3 DEF OfWorkspaces
      <4>2. OfPackages \subseteq Dependency(Ranges)
        BY <3>4 DEF OfPackages
      <4> QED BY <2>2, <3>2, <4>1, <4>2 DEF Mentioned
    <3>6. Dependency(Ranges) \subseteq Dependency(Ranges \cup PnpmRange)
      BY DEF Dependency, Reference
    <3> QED BY <3>5, <3>6
  <2> QED BY <2>1, <2>2
<1>2. ASSUME NEW parent \in Names \cup {None}
      PROVE  Requests(parent, Mentioned) \subseteq Asked
  <2>1. \A d \in Mentioned : d.name \in Names /\ d.ref \in Reference(Ranges \cup PnpmRange)
    BY <1>1 DEF Dependency
  <2>2. \A d \in Mentioned : [parent |-> parent, name |-> d.name, ref |-> d.ref] \in Asked
    BY <2>1 DEF Asked
  <2> QED BY <2>2 DEF Requests
<1> QED BY <1>2 DEF Edges, Queued

(* A package that is found for a descriptor is one of the lockfile's.      *)
LEMMA PackageIsLocked ==
  ASSUME IsBerryLock(lock), NEW looked, Package(lock, looked) # None
  PROVE  Package(lock, looked) \in Packages
<1>1. ASSUME NEW S PROVE Only(S) \in S \cup {None}
  BY DEF Only
<1>2. \A d \in DOMAIN lock.descriptors : lock.descriptors[d] \in Packages
  BY DEF IsBerryLock
<1>3. Only(Bound(lock, looked)) \in DOMAIN lock.descriptors \cup {None}
  BY <1>1 DEF Bound
<1>4. Only(ByName(lock, looked.name)) \in Packages \cup {None}
  BY <1>1, <1>2 DEF ByName
<1> QED BY <1>2, <1>3, <1>4 DEF Package

(* What is asked for by one of the packages, or by the root, is an edge.   *)
LEMMA EdgeOf ==
  ASSUME NEW parent \in Names \cup {None}, NEW dependencies \in SUBSET Mentioned
  PROVE  Queued(Requests(parent, dependencies)) \subseteq Edges
BY DEF Edges, Queued, Requests

LEMMA RootsAreEdges == ASSUME lock \in Locks PROVE Roots \subseteq Edges
<1>1. lock.manager # "pnpm" => lock.name \in Names \cup {None}
  BY LocksAssumption DEF IsPnpmLock, IsBerryLock
<1>2. lock.roots \in SUBSET Mentioned
  BY DEF Mentioned
<1> QED BY <1>1, <1>2, EdgeOf DEF Roots

LEMMA RequestsAreEdges ==
  ASSUME lock \in Locks, NEW r \in Edges, r.name \in Names, ~Lost(Item(r))
  PROVE  Requested(Item(r)) \subseteq Edges
<1>1. CASE lock.manager = "pnpm"
  <2>1. ASSUME NEW k \in DOMAIN lock.snapshots PROVE lock.snapshots[k] \in SUBSET Mentioned
    BY <1>1 DEF Mentioned, OfSnapshots
  <2>2. Requested(Item(r)) = Queued(PnpmRequests(Item(r)))
    BY <1>1 DEF Requested
  <2>3. Queued({}) = {}
    BY DEF Queued
  <2> QED BY <2>1, <2>2, <2>3, EdgeOf DEF PnpmRequests
<1>2. CASE lock.manager # "pnpm"
  <2>1. IsBerryLock(lock) /\ lock.manager = "yarn"
    BY <1>2, LocksAssumption DEF IsPnpmLock, IsBerryLock
  <2>2. Requested(Item(r)) = Queued(BerryRequests(BerryItem(r)))
    BY <1>2 DEF Requested, Item
  <2>3. ~Lost(BerryItem(r))
    BY <1>2 DEF Item
  <2>4. CASE IsWorkspace(BerryItem(r))
    <3> DEFINE w == BerryItem(r).workspace
    <3>1. w \in DOMAIN lock.workspaces
      BY <2>1, <2>3, <2>4 DEF Lost
    <3>2. w \in Names
      BY <2>1, <3>1 DEF IsBerryLock
    <3>3. lock.workspaces[w] \in SUBSET Mentioned
      BY <1>2, <3>1 DEF Mentioned, OfWorkspaces
    <3>4. BerryRequests(BerryItem(r)) = Requests(w, lock.workspaces[w])
      BY <2>4 DEF BerryRequests
    <3> HIDE DEF w
    <3> QED BY <2>2, <3>2, <3>3, <3>4, EdgeOf
  <2>5. CASE ~IsWorkspace(BerryItem(r))
    <3> DEFINE package == Package(lock, BerryItem(r))
    <3>1. BerryItem(r).name = r.name
      BY <2>5 DEF BerryItem, Workspace, IsWorkspace, Looked, Unbound
    <3>2. package # None
      BY <2>1, <2>3, <2>5 DEF Lost
    <3>3. package \in Packages
      BY <2>1, <3>2, PackageIsLocked
    <3>4. BerryRequests(BerryItem(r))
            = Requests(ResolvedName(lock, package, r.name), lock.packages[package].dependencies)
      BY <2>5, <3>1 DEF BerryRequests
    <3> HIDE DEF package
    <3>5. IsPackage(lock.packages[package])
      BY <2>1, <3>3 DEF IsBerryLock
    <3>6. ResolvedName(lock, package, r.name) \in Names \cup {None}
      BY <3>5 DEF ResolvedName, IsPackage
    <3>7. lock.packages[package].dependencies \in SUBSET Mentioned
      <4>1. lock.packages[package].dependencies \subseteq OfPackages
        BY <3>3 DEF OfPackages
      <4> QED BY <1>2, <4>1 DEF Mentioned
    <3> QED BY <2>2, <3>4, <3>6, <3>7, EdgeOf
  <2> QED BY <2>4, <2>5
<1> QED BY <1>1, <1>2

-----------------------------------------------------------------------------

(* The initial states satisfy the invariant.                               *)
LEMMA InitInv == Init => IInv
<1> SUFFICES ASSUME Init PROVE IInv
  OBVIOUS
<1>1. TypeOK /\ Frontier /\ Collected /\ Ended
  BY QueuedItems DEF Init, TypeOK, Frontier, Collected, Ended
<1>2. Needed
  BY DEF Init, Needed, Sufficient
<1>3. Inside
  BY RootsAreEdges DEF Init, Inside
<1> QED BY <1>1, <1>2, <1>3 DEF IInv

(* Passing over a request whose item was visited keeps the invariant.      *)
LEMMA SkipStep ==
  ASSUME IInv, NEW request \in queue, Skip(request)
  PROVE  IInv'
<1>1. /\ lock' = lock /\ visited' = visited /\ provides' = provides /\ outcome' = outcome
      /\ outcome = "walking" /\ queue' = queue \ {request} /\ Item(request) \in visited
  BY DEF Skip, Seen
<1>2. TypeOK'
  BY <1>1, Frame DEF IInv, TypeOK
<1>3. Frontier'
  BY <1>1, Frame DEF IInv, Frontier
<1>4. Needed'
  BY <1>1, Frame, FrameSufficient DEF IInv, Needed
<1>5. Inside'
  BY <1>1, Frame DEF IInv, Inside
<1>6. Collected'
  BY <1>1, Frame DEF IInv, Collected
<1>7. Ended'
  BY <1>1 DEF Ended
<1> QED BY <1>2, <1>3, <1>4, <1>5, <1>6, <1>7 DEF IInv

(* Visiting an item puts all it asks for in the queue.                     *)
LEMMA VisitStep ==
  ASSUME IInv, NEW request \in queue, Visit(request)
  PROVE  IInv'
<1> DEFINE item == Item(request)
<1>1. /\ lock' = lock /\ outcome' = outcome /\ outcome = "walking" /\ ~Lost(item)
      /\ visited' = visited \cup {item} /\ provides' = provides \cup Provided(item)
      /\ queue' = (queue \ {request}) \cup Requested(item)
  BY DEF Visit
<1> HIDE DEF item
<1>0. item = Item(request)
  BY DEF item
<1>2. TypeOK'
  BY <1>0, <1>1, Frame, QueuedItems DEF IInv, TypeOK
<1>3. Frontier'
  <2>1. \A r \in queue : r \in queue' \/ Item(r) \in visited'
    BY <1>0, <1>1
  <2>2. \A r \in Requested(item) : r \in queue'
    BY <1>1
  <2> QED BY <1>1, <2>1, <2>2, Frame DEF IInv, Frontier
<1>4. Needed'
  <2> SUFFICES ASSUME NEW items, Sufficient(items)'
               PROVE  /\ visited' \subseteq items
                      /\ \A r \in queue' : Item(r)' \in items
    BY DEF Needed
  <2>1. Sufficient(items)
    BY <1>1, FrameSufficient
  <2>2. visited \subseteq items /\ \A r \in queue : Item(r) \in items
    BY <2>1 DEF IInv, Needed
  <2>3. item \in items /\ \A r \in Requested(item) : Item(r) \in items
    <3>1. ~Missing(item)
      BY <1>1 DEF Lost, Missing
    <3> QED BY <1>0, <2>1, <2>2, <3>1 DEF Sufficient
  <2> QED BY <1>1, <2>2, <2>3, Frame
<1>5. Inside'
  <2>1. request \in Edges /\ item \in Everything /\ lock \in Locks
    BY <1>0 DEF IInv, Inside, Everything, TypeOK
  <2>2. request.name \in Names
    BY <2>1, EdgesAreAsked DEF Asked
  <2>3. Requested(item) \subseteq Edges
    BY <1>0, <1>1, <2>1, <2>2, RequestsAreEdges
  <2> QED BY <1>1, <2>1, <2>3, Frame DEF IInv, Inside
<1>6. Collected'
  BY <1>1, Frame DEF IInv, Collected
<1>7. Ended'
  BY <1>1 DEF Ended
<1> QED BY <1>2, <1>3, <1>4, <1>5, <1>6, <1>7 DEF IInv

(* The last step keeps all but the outcome.                                *)
LEMMA EndStep ==
  ASSUME IInv, UNCHANGED <<lock, queue, visited, provides>>,
         \/ UNCHANGED outcome
         \/ outcome' = "done" /\ queue = {}
         \/ outcome' = "error" /\ \E r \in queue : Lost(Item(r))
  PROVE  IInv'
<1>1. lock' = lock /\ queue' = queue /\ visited' = visited /\ provides' = provides
  OBVIOUS
<1>2. TypeOK'
  BY <1>1, Frame DEF IInv, TypeOK
<1>3. Frontier'
  BY <1>1, Frame DEF IInv, Frontier
<1>4. Needed'
  BY <1>1, Frame, FrameSufficient DEF IInv, Needed
<1>5. Inside'
  BY <1>1, Frame DEF IInv, Inside
<1>6. Collected'
  BY <1>1, Frame DEF IInv, Collected
<1>7. Ended'
  <2>1. ASSUME NEW r PROVE Lost(Item(r))' <=> Lost(Item(r))
    BY <1>1 DEF Lost, Item, BerryItem
  <2> QED BY <1>1, <2>1 DEF IInv, Ended
<1> QED BY <1>2, <1>3, <1>4, <1>5, <1>6, <1>7 DEF IInv

(***************************************************************************)
(* The inductive invariant: the walked part of the graph, its frontier in  *)
(* the queue, and nothing in either that is not needed.                    *)
(***************************************************************************)
THEOREM WalkInvariance == Spec => []IInv
<1>1. IInv /\ [Next]_vars => IInv'
  <2> SUFFICES ASSUME IInv, [Next]_vars PROVE IInv'
    OBVIOUS
  <2>1. ASSUME NEW request \in queue, Skip(request) PROVE IInv'
    BY <2>1, SkipStep
  <2>2. ASSUME NEW request \in queue, Visit(request) PROVE IInv'
    BY <2>2, VisitStep
  <2>3. ASSUME NEW request \in queue, GiveUp(request) PROVE IInv'
    BY <2>3, EndStep DEF GiveUp
  <2>4. CASE Finish
    BY <2>4, EndStep DEF Finish
  <2>5. CASE UNCHANGED vars
    BY <2>5, EndStep DEF vars
  <2> QED BY <2>1, <2>2, <2>3, <2>4, <2>5 DEF Next
<1> QED BY InitInv, <1>1, PTL DEF Spec

(* The type invariant of the walk through a lockfile.                      *)
THEOREM WalkTypes == Spec => []TypeOK
<1>1. IInv => TypeOK
  BY DEF IInv
<1> QED BY WalkInvariance, <1>1, PTL

(***************************************************************************)
(* For every lockfile, what is listed as production is exactly what the    *)
(* production roots need (_pnpm_walk, _yarn_production_packages).          *)
(***************************************************************************)
THEOREM ListingIsExact == Spec => []ProductionIsExact
<1>1. IInv => ProductionIsExact
  <2> SUFFICES ASSUME IInv, outcome = "done"
               PROVE  /\ Closed(visited)
                      /\ \A items \in SUBSET visited : Closed(items) => items = visited
                      /\ Listed = {copy \in Copies : \E item \in visited : copy \in Provided(item)}
    BY DEF ProductionIsExact
  <2>1. Closed(visited)
    BY DEF IInv, Ended, Frontier, Closed
  <2>2. \A items \in SUBSET visited : Closed(items) => items = visited
    BY DEF IInv, Needed, Closed, Sufficient
  <2>3. Listed = {copy \in Copies : \E item \in visited : copy \in Provided(item)}
    BY DEF IInv, Collected, Listed
  <2> QED BY <2>1, <2>2, <2>3
<1> QED BY WalkInvariance, <1>1, PTL

(***************************************************************************)
(* For every lockfile, the walk fails only for something that production   *)
(* cannot do without and the lockfile does not have, and succeeds only if  *)
(* there is no such thing.                                                 *)
(***************************************************************************)
THEOREM RefusalsAreReal == Spec => []ErrorsAreReal
<1>1. IInv => ErrorsAreReal
  <2> SUFFICES ASSUME IInv PROVE ErrorsAreReal
    OBVIOUS
  <2>1. ASSUME NEW item PROVE Missing(item) <=> Lost(item)
    BY DEF Missing, Lost
  <2>2. ASSUME outcome = "error"
        PROVE  \E item \in Everything : Missing(item) /\ Indispensable(item)
    <3>1. PICK r \in queue : Lost(Item(r))
      BY <2>2 DEF IInv, Ended
    <3>2. Item(r) \in Everything
      BY DEF IInv, Inside, Everything
    <3>3. Indispensable(Item(r))
      BY DEF IInv, Needed, Indispensable
    <3> QED BY <2>1, <3>1, <3>2, <3>3
  <2>3. ASSUME outcome = "done", NEW item \in Everything, Indispensable(item)
        PROVE  ~Missing(item)
    <3>1. visited \in SUBSET Everything /\ Sufficient(visited)
      BY <2>3 DEF IInv, Inside, Ended, Frontier, Sufficient
    <3>2. item \in visited
      BY <2>3, <3>1 DEF Indispensable
    <3> QED BY <2>1, <3>2 DEF IInv, TypeOK
  <2> QED BY <2>2, <2>3 DEF ErrorsAreReal
<1> QED BY WalkInvariance, <1>1, PTL

-----------------------------------------------------------------------------

(***************************************************************************)
(* A walk does not go on for ever.  The prover has no liveness, but a      *)
(* number that every step brings down.                                     *)
(***************************************************************************)

(* A lockfile is finite.                                                   *)
FiniteLock == \A S \in {Names, Ranges, Versions, Locators} : IsFiniteSet(S)

(* Those that would still lead to an item not visited.                     *)
Fresh == {r \in Asked : Item(r) \notin visited}

(* An upper bound of the number of steps that are left.                    *)
Ahead ==
  Cardinality(Fresh) * (Cardinality(Asked) + 1) + Cardinality(queue)
    + (IF outcome = "walking" THEN 1 ELSE 0)

WalkAdvances == [][Ahead' < Ahead]_vars

(* The data of a finite lockfile are finite: references, protocols,        *)
(* descriptors and requests.                                               *)
LEMMA FinitePairs ==
  ASSUME NEW S, NEW T, IsFiniteSet(S), IsFiniteSet(T)
  PROVE  IsFiniteSet([protocol : S, range : T])
<1> DEFINE R == [protocol : S, range : T]
           f == [t \in S \X T |-> [protocol |-> t[1], range |-> t[2]]]
<1>1. f \in [S \X T -> R]
  OBVIOUS
<1>2. ASSUME NEW x \in R PROVE \E t \in S \X T : f[t] = x
  <2>1. <<x.protocol, x.range>> \in S \X T
    OBVIOUS
  <2>2. f[<<x.protocol, x.range>>] = x
    BY <2>1
  <2> QED BY <2>1, <2>2
<1>3. f \in Surjection(S \X T, R)
  BY <1>1, <1>2 DEF Surjection
<1>4. IsFiniteSet(S \X T)
  BY FS_Product
<1> HIDE DEF f
<1> QED BY <1>3, <1>4, FS_Surjection

(* There are eight protocols.                                              *)
LEMMA FiniteProtocols == IsFiniteSet(Protocols)
<1> DEFINE f == <<"none", "npm", "patch", "portal", "file", "workspace", "link", "git">>
<1>1. f \in Surjection(1..8, Protocols)
  BY DEF Surjection, Protocols
<1>2. IsFiniteSet(1..8)
  <2>1. 1..8 \in SUBSET Nat /\ \A n \in 1..8 : n <= 8
    OBVIOUS
  <2> QED BY <2>1, FS_BoundedSetOfNaturals
<1> HIDE DEF f
<1> QED BY <1>1, <1>2, FS_Surjection

(* A descriptor is a name, a reference and perhaps a binding locator.      *)
LEMMA FiniteDescriptors ==
  ASSUME FiniteLock
  PROVE  IsFiniteSet(Descriptor)
<1> DEFINE Bindings == Locators \cup {None}
           Refs == Reference(Ranges)
           S == (Names \X Refs) \X Bindings
           f == [t \in S |-> [name |-> t[1][1], ref |-> t[1][2], locator |-> t[2]]]
<1> HIDE DEF Bindings, Refs
<1>1. Descriptor = [name : Names, ref : Refs, locator : Bindings]
  BY DEF Descriptor, Refs, Bindings
<1>2. f \in Surjection(S, Descriptor)
  <2>1. f \in [S -> Descriptor]
    BY <1>1
  <2>2. ASSUME NEW x \in Descriptor PROVE \E t \in S : f[t] = x
    <3>1. <<<<x.name, x.ref>>, x.locator>> \in S
      BY <1>1
    <3>2. f[<<<<x.name, x.ref>>, x.locator>>] = x
      BY <1>1, <3>1
    <3> QED BY <3>1, <3>2
  <2> QED BY <2>1, <2>2 DEF Surjection
<1>3. IsFiniteSet(S)
  <2>1. IsFiniteSet(Names) /\ IsFiniteSet(Ranges) /\ IsFiniteSet(Locators)
    BY DEF FiniteLock
  <2>2. IsFiniteSet(Refs) /\ IsFiniteSet(Bindings)
    BY <2>1, FiniteProtocols, FinitePairs, FS_AddElement DEF Refs, Bindings, Reference
  <2>3. IsFiniteSet(Names \X Refs)
    BY <2>1, <2>2, FS_Product
  <2> QED BY <2>2, <2>3, FS_Product
<1> HIDE DEF f, S
<1> QED BY <1>2, <1>3, FS_Surjection

(* So there are finitely many requests, hence a bound for the queue.       *)
LEMMA FiniteAsked ==
  ASSUME FiniteLock
  PROVE  IsFiniteSet(Asked)
<1> DEFINE Parents == Names \cup {None}
           Peers == SUBSET Names
           Refs == Reference(Ranges \cup PnpmRange)
<1>1. IsFiniteSet(Names) /\ IsFiniteSet(Ranges) /\ IsFiniteSet(Versions)
  BY DEF FiniteLock
<1>2. IsFiniteSet(Parents) /\ IsFiniteSet(Peers)
  BY <1>1, FS_AddElement, FS_SUBSET
<1>3. IsFiniteSet(PnpmRange)
  <2> DEFINE S == (Parents \X Versions) \X Peers
             f == [t \in S |-> [package |-> t[1][1], version |-> t[1][2], peers |-> t[2]]]
  <2>1. f \in [S -> PnpmRange]
    BY DEF PnpmRange
  <2>2. ASSUME NEW x \in PnpmRange PROVE \E t \in S : f[t] = x
    <3>1. <<<<x.package, x.version>>, x.peers>> \in S
      BY DEF PnpmRange
    <3>2. f[<<<<x.package, x.version>>, x.peers>>] = x
      BY <3>1 DEF PnpmRange
    <3> QED BY <3>1, <3>2
  <2>3. f \in Surjection(S, PnpmRange)
    BY <2>1, <2>2 DEF Surjection
  <2>4. IsFiniteSet(S)
    <3> HIDE DEF Parents, Peers
    <3>1. IsFiniteSet(Parents \X Versions)
      BY <1>1, <1>2, FS_Product
    <3> QED BY <1>2, <3>1, FS_Product
  <2> HIDE DEF f, S
  <2> QED BY <2>3, <2>4, FS_Surjection
<1>4. IsFiniteSet(Protocols)
  BY FiniteProtocols
<1>5. IsFiniteSet(Refs)
  <2>1. IsFiniteSet(Ranges \cup PnpmRange)
    BY <1>1, <1>3, FS_Union
  <2> QED BY <1>4, <2>1, FinitePairs DEF Reference
<1> HIDE DEF Parents, Refs
<1> DEFINE S == (Parents \X Names) \X Refs
           f == [t \in S |-> [parent |-> t[1][1], name |-> t[1][2], ref |-> t[2]]]
<1>6. Asked = [parent : Parents, name : Names, ref : Refs]
  BY DEF Asked, Parents, Refs
<1>7. f \in Surjection(S, Asked)
  <2>1. f \in [S -> Asked]
    BY <1>6
  <2>2. ASSUME NEW x \in Asked PROVE \E t \in S : f[t] = x
    <3>1. <<<<x.parent, x.name>>, x.ref>> \in S
      BY <1>6
    <3>2. f[<<<<x.parent, x.name>>, x.ref>>] = x
      BY <1>6, <3>1
    <3> QED BY <3>1, <3>2
  <2> QED BY <2>1, <2>2 DEF Surjection
<1>8. IsFiniteSet(S)
  <2>1. IsFiniteSet(Parents \X Names)
    BY <1>1, <1>2, FS_Product DEF Parents
  <2> QED BY <1>5, <2>1, FS_Product
<1> HIDE DEF f, S
<1> QED BY <1>7, <1>8, FS_Surjection

(***************************************************************************)
(* Every step of a walk brings down the number of those that are left, for *)
(* every finite lockfile, cyclic ones included.                            *)
(***************************************************************************)
THEOREM WalkRunsOut ==
  ASSUME FiniteLock
  PROVE  Spec => [](Ahead \in Nat) /\ WalkAdvances
<1> DEFINE n == Cardinality(Asked)
<1>1. n \in Nat
  BY FiniteAsked, FS_CardinalityType
<1>2. IsFiniteSet(Fresh) /\ Cardinality(Fresh) \in Nat
  BY FiniteAsked, FS_Subset, FS_CardinalityType DEF Fresh
<1>3. ASSUME queue \subseteq Asked
      PROVE  IsFiniteSet(queue) /\ Cardinality(queue) \in Nat /\ Cardinality(queue) <= n
  BY <1>3, FiniteAsked, FS_Subset, FS_CardinalityType
<1>4. queue \subseteq Asked => Ahead \in Nat
  <2> HIDE DEF n
  <2> QED BY <1>1, <1>2, <1>3 DEF Ahead, n
<1>5. IInv => queue \subseteq Asked
  BY EdgesAreAsked DEF IInv, TypeOK, Inside
<1>6. IInv /\ queue \subseteq Asked /\ (queue \subseteq Asked)' /\ Next => Ahead' < Ahead
  <2> SUFFICES ASSUME IInv, queue \subseteq Asked, queue' \subseteq Asked, Next
               PROVE  Ahead' < Ahead
    OBVIOUS
  <2>1. Cardinality(queue)' \in Nat /\ Cardinality(queue)' <= n
    BY FiniteAsked, FS_Subset, FS_CardinalityType
  <2>2. ASSUME NEW r \in queue, Skip(r) PROVE Ahead' < Ahead
    <3>1. Fresh' = Fresh
      BY <2>2, Frame DEF Skip, Fresh
    <3>2. Cardinality(queue') = Cardinality(queue) - 1
      BY <1>3, <2>2, FS_RemoveElement DEF Skip
    <3> QED BY <1>1, <1>2, <1>3, <2>1, <2>2, <3>1, <3>2 DEF Skip, Ahead
  <2>3. ASSUME NEW r \in queue, Visit(r) PROVE Ahead' < Ahead
    <3>1. Fresh' \subseteq Fresh \ {r} /\ r \in Fresh
      BY <2>3, Frame DEF Visit, Seen, Fresh
    <3>2. Cardinality(Fresh') <= Cardinality(Fresh) - 1 /\ Cardinality(Fresh') \in Nat
      <4>1. IsFiniteSet(Fresh \ {r}) /\ Cardinality(Fresh \ {r}) = Cardinality(Fresh) - 1
        BY <1>2, <3>1, FS_RemoveElement
      <4> QED BY <3>1, <4>1, FS_Subset, FS_CardinalityType
    <3> QED BY <1>1, <1>2, <1>3, <2>1, <2>3, <3>2 DEF Visit, Ahead
  <2>4. ASSUME UNCHANGED <<lock, visited, queue>>, outcome = "walking", outcome' # "walking"
        PROVE  Ahead' < Ahead
    <3>1. Fresh' = Fresh
      BY <2>4, Frame DEF Fresh
    <3> QED BY <1>1, <1>2, <1>3, <2>4, <3>1 DEF Ahead
  <2> QED BY <2>2, <2>3, <2>4 DEF Next, GiveUp, Finish
<1> QED BY <1>4, <1>5, <1>6, WalkInvariance, PTL DEF Spec, WalkAdvances
=============================================================================
