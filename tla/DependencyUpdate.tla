--------------------------- MODULE DependencyUpdate ---------------------------
(***************************************************************************)
(* vendor-bump steps: update_dependencies on every module of a step, in    *)
(* the private tree of SourceWorkspace.edit_metadata.                      *)
(*                                                                         *)
(* What a package manager resolves is one of Locks, chosen freely; if      *)
(* Obedient, it keeps to the overrides and locked entries it is given.  A  *)
(* lock stands for all that read_inventory learns of a module.             *)
(***************************************************************************)
EXTENDS Versions, FiniteSets

CONSTANTS
  Modules,     (* directories of the source with a manifest of their own   *)
  Packages,
  Constraints, (* [tilde, floor]                                           *)
  Declarations, (* the pins that steps may declare: package -> constraint   *)
  Locks,       (* sets of entries [key, name, version, needs]: the last    *)
               (* directory of a copy's place, which is an alias or the    *)
               (* package's name, and the keys it depends on               *)
  Trees,       (* the sources to start from                                *)
  Ecosystems,
  Obedient,
  None,
  MaxSteps

Node == {"npm", "pnpm", "yarn"}
Batch == Node \cup {"go"}            \* edit all manifests, resolve once
Sequential == {"cargo", "maven"}     \* a command for every pin

(* A manifest: direct requirements, overrides of the whole tree (go: the   *)
(* requirements), and packages that narrower yarn selectors still govern.  *)
Requirements == [Packages -> Constraints \cup {None}]

Manifest == [declared : Requirements, forced : Requirements,
             narrower : SUBSET Packages]

(* `extra': files the module has besides its metadata, like node_modules.  *)
Module == [manifest : Manifest \cup {None}, lock : Locks, extra : BOOLEAN]

Tree == [Modules -> Module]

Pins == UNION {[ps -> Constraints] : ps \in SUBSET Packages}

ASSUME EcosystemAssumption == Ecosystems \subseteq Batch \cup Sequential
ASSUME DeclarationsAssumption == Declarations \subseteq Pins
ASSUME TreesAssumption == Trees \subseteq Tree
ASSUME BoundAssumption == MaxSteps \in Nat
ASSUME NoneAssumption == None \notin Constraints \cup Manifest

VARIABLES
  ecosystem,
  origin,    (* the source before the transform stage: what is published   *)
  source,    (* the active workspace                                       *)
  dirty,
  pc,        (* "idle", "read", "edit", "check" or "failed"                *)
  steps,
  modules,   (* the step's modules                                         *)
  pins,      (* the step's pins                                            *)
  tree,      (* the private copy                                           *)
  todo,      (* modules not updated yet                                    *)
  module,    (* the module being updated                                   *)
  pending,   (* its pins that do not hold                                  *)
  left       (* pending pins not applied yet                               *)

vars == <<ecosystem, origin, source, dirty, pc, steps, modules, pins, tree, todo,
          module, pending, left>>

step == <<ecosystem, origin, steps, modules, pins>>

Init ==
  /\ ecosystem \in Ecosystems
  /\ origin \in Trees
  /\ source = origin
  /\ dirty = FALSE
  /\ pc = "idle"
  /\ steps = 0
  /\ modules = {}
  /\ pins = [p \in {} |-> None]
  /\ tree = source
  /\ todo = {}
  /\ module = None
  /\ pending = {}
  /\ left = {}

(***************************************************************************)
(* The inventory.                                                          *)
(***************************************************************************)
Copies(lock, p) == {e \in lock : e.name = p}

Holds(lock, p) ==
  /\ Copies(lock, p) # {}
  /\ \A e \in Copies(lock, p) : SatisfiesConstraint(e.version, pins[p])

(***************************************************************************)
(* A step.                                                                 *)
(***************************************************************************)

(* The handler enters edit_metadata: the source is copied as a whole.      *)
Begin(ms, ps) ==
  /\ pc = "idle"
  /\ steps < MaxSteps
  /\ pc' = "read"
  /\ steps' = steps + 1
  /\ modules' = ms
  /\ pins' = ps
  /\ tree' = source
  /\ todo' = ms
  /\ UNCHANGED <<ecosystem, origin, source, dirty, module, pending, left>>

(* Faulty variant: every pin is applied, whether it holds or not.          *)
Pending_All(lock) == DOMAIN pins

Pending(lock) == {p \in DOMAIN pins : ~Holds(lock, p)}

(* Faulty variant: the module stays on the list.                           *)
Rest_All(m) == todo

Rest(m) == todo \ {m}

(* The inventory of the next module: nothing is run if all pins hold.      *)
Read(m) ==
  /\ pc = "read"
  /\ m \in todo
  /\ module' = m
  /\ pending' = Pending(tree[m].lock)
  /\ left' = pending'
  /\ todo' = Rest(m)
  /\ pc' = IF pending' = {} THEN "read" ELSE "edit"
  /\ UNCHANGED <<step, source, dirty, tree>>

Edited(m, manifest, lock) ==
  [tree EXCEPT ![m].manifest = manifest, ![m].lock = lock]

Override(manifest, p) == [manifest EXCEPT !.forced[p] = pins[p]]

(* A direct requirement is reconciled with the pin.                        *)
Reconcile(manifest, p) ==
  IF manifest.declared[p] = None
    THEN manifest
    ELSE [manifest EXCEPT !.declared[p] = pins[p]]

(* Faulty variant: narrower resolutions of yarn stay.                      *)
Widen_Kept(manifest, p) == manifest

(* Resolutions for only some copies of the package are removed.            *)
Widen(manifest, p) ==
  IF ecosystem = "yarn"
    THEN [manifest EXCEPT !.narrower = @ \ {p}]
    ELSE manifest

(* Faulty variant: the whole lock goes.                                    *)
Pruned_All(lock, p) == {}

(* npm would keep an entry that is locked already, so the package and its  *)
(* direct dependents leave the lock.                                       *)
Pruned(lock, p) == {e \in lock : e.key # p /\ p \notin e.needs}

(* go: one `go mod edit' requires all pending packages.                    *)
Require ==
  LET old == tree[module] IN
  /\ pc = "edit"
  /\ ecosystem = "go"
  /\ left # {}
  /\ old.manifest # None
  /\ tree' = Edited(module,
                    [old.manifest EXCEPT !.forced = [p \in Packages |->
                       IF p \in left THEN pins[p] ELSE old.manifest.forced[p]]],
                    old.lock)
  /\ left' = {}
  /\ UNCHANGED <<step, source, dirty, pc, todo, module, pending>>

(* npm, pnpm, yarn: one pin is written to the manifests.                   *)
Edit(p) ==
  LET old == tree[module] IN
  /\ pc = "edit"
  /\ ecosystem \in Node
  /\ p \in left
  /\ old.manifest # None
  /\ tree' = Edited(module,
                    Override(Reconcile(Widen(old.manifest, p), p), p),
                    IF ecosystem = "npm" THEN Pruned(old.lock, p) ELSE old.lock)
  /\ left' = left \ {p}
  /\ UNCHANGED <<step, source, dirty, pc, todo, module, pending>>

(* An obedient package manager resolves every copy of a package as its     *)
(* override says, unless a narrower one governs it, and npm keeps what is  *)
(* locked.  For go no more is assumed than for cargo and maven: nothing.   *)
Obeys(lock, old) ==
  LET kept == IF ecosystem = "npm" THEN old.lock ELSE {}
      forced(p) == old.manifest.forced[p]
  IN
  /\ kept \subseteq lock
  /\ \A e \in lock \ kept :
       /\ e.key \in Packages \ old.manifest.narrower
       /\ forced(e.key) # None
       => SatisfiesConstraint(e.version, forced(e.key))

(* The one resolution of a Batch ecosystem.                                *)
Resolve(lock, extra) ==
  LET old == tree[module] IN
  /\ pc = "edit"
  /\ ecosystem \in Batch
  /\ left = {}
  /\ Obedient /\ ecosystem \in Node => Obeys(lock, old)
  /\ ecosystem = "npm" => ~extra
  /\ tree' = [tree EXCEPT ![module].lock = lock, ![module].extra = extra]
  /\ pc' = "check"
  /\ UNCHANGED <<step, source, dirty, todo, module, pending, left>>

(* cargo and maven: one pin is written and resolved.                       *)
Pin(p, manifest, lock, extra) ==
  /\ pc = "edit"
  /\ p \in left
  /\ tree[module].manifest # None
  /\ tree' = [Edited(module, manifest, lock) EXCEPT ![module].extra = extra]
  /\ left' = left \ {p}
  /\ pc' = IF left' = {} THEN "check" ELSE "edit"
  /\ UNCHANGED <<step, source, dirty, todo, module, pending>>

(* cargo has no overrides: a transitive package is moved in the lock only. *)
CargoPin(p, lock, extra) ==
  /\ ecosystem = "cargo"
  /\ Pin(p, Reconcile(tree[module].manifest, p), lock, extra)

(* maven manages a package that is not declared, and runs no command.      *)
Managed(manifest, p) ==
  IF manifest.declared[p] = None THEN Override(manifest, p) ELSE Reconcile(manifest, p)

MavenPin(p, lock, extra) ==
  /\ ecosystem = "maven"
  /\ Pin(p, Managed(tree[module].manifest, p), lock, extra)

(* Faulty variant: only the pins that were applied are checked.            *)
Required_Pending == pending

Required == DOMAIN pins

(* The complete pin set is checked against a new inventory.                *)
Check ==
  /\ pc = "check"
  /\ \A p \in Required : Holds(tree[module].lock, p)
  /\ pc' = "read"
  /\ UNCHANGED <<step, source, dirty, tree, todo, module, pending, left>>

(* The private tree is gone.                                               *)
Removed == tree' = source' /\ module' = None /\ pending' = {}

(* A pin that fails the check, a missing manifest, a failing command or an *)
(* exception end the run.                                                  *)
Fail ==
  /\ pc \in {"read", "edit", "check"}
  /\ pc' = "failed"
  /\ todo' = {}
  /\ left' = {}
  /\ UNCHANGED <<step, source, dirty>>
  /\ Removed

(* Faulty variant: the edited tree becomes the source.                     *)
Declared_All(m) == tree[m]

(* What the step's declared files make of a module.                        *)
Declared(m) ==
  IF m \in modules THEN [tree[m] EXCEPT !.extra = source[m].extra] ELSE source[m]

Dirty(edited) == dirty \/ edited # source

(* All modules are done: the declared files are published.                 *)
Publish ==
  /\ pc = "read"
  /\ todo = {}
  /\ source' = [m \in Modules |-> Declared(m)]
  /\ dirty' = Dirty(source')
  /\ pc' = "idle"
  /\ Removed
  /\ UNCHANGED <<step, todo, left>>

Next ==
  \/ \E ms \in SUBSET Modules, ps \in Declarations : Begin(ms, ps)
  \/ \E m \in Modules : Read(m)
  \/ Require
  \/ \E p \in Packages : Edit(p)
  \/ \E lock \in Locks, extra \in BOOLEAN : Resolve(lock, extra)
  \/ \E p \in Packages, lock \in Locks, extra \in BOOLEAN :
       CargoPin(p, lock, extra) \/ MavenPin(p, lock, extra)
  \/ Check
  \/ Fail
  \/ Publish

Spec == Init /\ [][Next]_vars

-----------------------------------------------------------------------------

(***************************************************************************)
(* The type invariant (Edition: a module whose lock may be pruned); an     *)
(* update under way is of a module of the step that is off the list, and   *)
(* is there for a reason.                                                  *)
(***************************************************************************)
Edition == [manifest : Manifest \cup {None}, lock : SUBSET UNION Locks, extra : BOOLEAN]

TypeOK ==
  /\ pc \in {"idle", "read", "edit", "check", "failed"}
  /\ source \in [Modules -> Edition]
  /\ tree \in [Modules -> Edition]
  /\ dirty \in BOOLEAN
  /\ pins \in Pins
  /\ todo \subseteq modules
  /\ modules \subseteq Modules
  /\ pc \in {"edit", "check"} =>
       /\ module \in modules \ todo
       /\ pending # {}
       /\ left \subseteq pending
       /\ pending \subseteq DOMAIN pins

(***************************************************************************)
(* The source changes, and a step succeeds, only when every pin of the     *)
(* step holds for every copy in every one of its modules, as published:    *)
(* a pin that held at first may be undone by the update of another, an     *)
(* early pin by a later one, and a step may fail in its last module.       *)
(***************************************************************************)
PublishedMeetsPins ==
  [][source' # source \/ (pc = "read" /\ pc' = "idle") =>
       \A m \in modules, p \in DOMAIN pins : Holds(source'[m].lock, p)]_vars

(***************************************************************************)
(* Nothing a package manager leaves behind, and no module outside the      *)
(* step, reaches the source.                                               *)
(***************************************************************************)
OnlyDeclaredIsPublished ==
  [][\A m \in Modules :
       /\ source'[m].extra = source[m].extra
       /\ m \notin modules => source'[m] = source[m]]_vars

(***************************************************************************)
(* A source that differs from what is published is committed at the end    *)
(* of the stage, whatever later steps do.                                  *)
(***************************************************************************)
EditsAreCommitted == source # origin => dirty

(***************************************************************************)
(* A step whose pins all hold changes nothing, manifests included, so that *)
(* no revision is published for it.                                        *)
(***************************************************************************)
PinsThatHoldChangeNothing ==
  [][(\A m \in modules, p \in DOMAIN pins : Holds(source[m].lock, p)) =>
       UNCHANGED <<source, dirty>>]_vars

(***************************************************************************)
(* With an obedient Node package manager an update takes effect: after the *)
(* resolution every copy of a pending package that is installed under its  *)
(* own name satisfies its pin.  (Only yarn's narrower overrides are        *)
(* removed.)                                                               *)
(***************************************************************************)
UpdateTakesEffect ==
  pc = "check" /\ ecosystem \in Node =>
    \A p \in pending :
      ecosystem = "yarn" \/ p \notin source[module].manifest.narrower =>
        \A e \in tree[module].lock :
          e.key = p => SatisfiesConstraint(e.version, pins[p])

(***************************************************************************)
(* npm's update is surgical: what neither is nor depends on a pending      *)
(* package stays locked.                                                   *)
(***************************************************************************)
UnrelatedPinsStay ==
  pc = "check" /\ ecosystem = "npm" =>
    \A e \in source[module].lock :
      e.key \notin pending /\ e.needs \cap pending = {} => e \in tree[module].lock

-----------------------------------------------------------------------------

(***************************************************************************)
(* dependencies/update.py, _npm_prune_dependents: pruning leaves no stale  *)
(* pin to the old version of a package, of which read_inventory counts the *)
(* copies.                                                                 *)
(***************************************************************************)
NoStalePin ==
  pc = "edit" /\ ecosystem = "npm" =>
    \A p \in pending \ left : Copies(tree[module].lock, p) = {}
=============================================================================
