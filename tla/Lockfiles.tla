------------------------------- MODULE Lockfiles -------------------------------
(***************************************************************************)
(* What gorget reads in a pnpm or Yarn Berry lockfile: how a dependency of *)
(* a manifest or of a locked package leads to another locked package.      *)
(*                                                                         *)
(* A reference is [protocol, range]: `npm:^1' is <<"npm", ^1>>, a bare `^1'*)
(* has protocol "none".  A request is one edge: the package that asks, the *)
(* name it asks for, the reference it asks with.                           *)
(***************************************************************************)
EXTENDS Naturals, FiniteSets

CONSTANTS
  Names,    (* package names                                               *)
  Ranges,   (* what stands behind a protocol in a Berry lock               *)
  Versions,
  Packages, (* the entries of a Berry lock, by their `resolution'          *)
  Locators, (* what a descriptor can be bound to (`::locator=...')         *)
  None

Protocols == {"none", "npm", "patch", "portal", "file", "workspace", "link", "git"}

Reference(ranges) == [protocol : Protocols, range : ranges]

Dependency(ranges) == [name : Names, ref : Reference(ranges)]

Requests(parent, dependencies) ==
  {[parent |-> parent, name |-> d.name, ref |-> d.ref] : d \in dependencies}

(***************************************************************************)
(* pnpm.  A snapshot's key is name@version(peers).                         *)
(***************************************************************************)
Key == [package : Names, version : Versions, peers : SUBSET Names]

(* Names a package after `npm:'; a plain reference leaves it to the name.  *)
PnpmRange == [package : Names \cup {None}, version : Versions, peers : SUBSET Names]

(* `roots' are the dependencies of all importers that are not dev.         *)
IsPnpmLock(lock) ==
  /\ lock.manager = "pnpm"
  /\ lock.roots \subseteq Dependency(PnpmRange)
  /\ DOMAIN lock.snapshots \subseteq Key
  /\ \A k \in DOMAIN lock.snapshots : lock.snapshots[k] \subseteq Dependency(PnpmRange)

(* Local packages are not bundled.                                         *)
Local == {"link", "workspace", "file"}

(* An `npm:' reference that names no package leads nowhere, either.        *)
PnpmReference(request) ==
  IF request.ref.protocol \in Local THEN None
  ELSE IF request.ref.protocol = "npm" THEN
    IF request.ref.range.package = None THEN None ELSE request.ref.range
  ELSE [request.ref.range EXCEPT !.package = request.name]

(***************************************************************************)
(* Yarn Berry.  A key of the lock lists descriptors, name@reference with   *)
(* or without a locator `::...' after it.                                  *)
(***************************************************************************)
Descriptor == [name : Names, ref : Reference(Ranges), locator : Locators \cup {None}]

Pattern ==
  [kind : {"name"}, name : Names] \cup
  [kind : {"exact"}, name : Names, ref : Reference(Ranges)] \cup
  [kind : {"nested"}, parent : Names, name : Names]

(* A package's name is the one in its `resolution', None if the protocol   *)
(* hides it.                                                               *)
IsPackage(package) ==
  /\ package.name \in Names \cup {None} /\ package.version \in Versions \cup {None}
  /\ package.dependencies \subseteq Dependency(Ranges)

(* name, roots and resolutions are the root manifest's.                    *)
IsBerryLock(lock) ==
  /\ lock.manager = "yarn" /\ lock.name \in Names \cup {None}
  /\ lock.roots \subseteq Dependency(Ranges)
  /\ \A n \in DOMAIN lock.workspaces :
       n \in Names /\ lock.workspaces[n] \subseteq Dependency(Ranges)
  /\ \A t \in DOMAIN lock.resolutions :
       t \in Pattern /\ lock.resolutions[t] \in Reference(Ranges)
  /\ \A d \in DOMAIN lock.descriptors :
       d \in Descriptor /\ lock.descriptors[d] \in Packages
  /\ \A package \in Packages : IsPackage(lock.packages[package])

(* Protocols a descriptor's name is recognised by.                         *)
Named == {"npm", "patch", "portal", "file"}

(* `npm:' before the whole reference; another protocol becomes part of the *)
(* range.                                                                  *)
Npm(ref) == [protocol |-> "npm", range |-> IF ref.protocol = "none" THEN ref.range ELSE ref]

Bare(ref) == IF ref.protocol = "npm" THEN [ref EXCEPT !.protocol = "none"] ELSE ref

Matches(pattern, request) ==
  /\ pattern.name = request.name
  /\ pattern.kind = "exact" => Bare(pattern.ref) = Bare(request.ref)
  /\ pattern.kind = "nested" => pattern.parent = request.parent

(* A resolution applies if all that match say the same.                    *)
Overridden(lock, request) ==
  LET values == {lock.resolutions[p] :
                   p \in {q \in DOMAIN lock.resolutions : Matches(q, request)}}
  IN IF Cardinality(values) = 1 THEN CHOOSE v \in values : TRUE ELSE request.ref

Unbound(name, ref) == [name |-> name, ref |-> ref, locator |-> None]

(* What a request is remembered by: the descriptor under which the package *)
(* is looked up last.                                                      *)
Looked(lock, request) ==
  LET ref == Overridden(lock, request)
      plain == Unbound(request.name, ref)
  IN IF plain \in DOMAIN lock.descriptors \/ ref.protocol \in Named THEN plain
     ELSE Unbound(request.name, Npm(ref))

Only(S) == IF \E x \in S : S = {x} THEN CHOOSE x \in S : TRUE ELSE None

Bound(lock, looked) ==
  {d \in DOMAIN lock.descriptors :
     d.name = looked.name /\ d.ref = looked.ref /\ d.locator # None}

ByName(lock, name) ==
  {lock.descriptors[d] :
     d \in {e \in DOMAIN lock.descriptors : e.name = name /\ e.ref.protocol \in Named}}

(* The package of a descriptor: its own, that of its only locator, or the  *)
(* only one locked under the name; None if there is no such thing.         *)
Package(lock, looked) ==
  IF looked \in DOMAIN lock.descriptors THEN lock.descriptors[looked]
  ELSE IF Only(Bound(lock, looked)) # None THEN lock.descriptors[Only(Bound(lock, looked))]
  ELSE Only(ByName(lock, looked.name))

ResolvedName(lock, package, name) ==
  IF lock.packages[package].name = None THEN name ELSE lock.packages[package].name
=============================================================================
