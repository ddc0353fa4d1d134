--------------------------- MODULE DependencyProofs ---------------------------
(***************************************************************************)
(* Theorems about DependencyUpdate, for every value of its constants: the  *)
(* transaction's type, that a step publishes only what meets its pins and  *)
(* nothing when all pins hold, and what an update leaves in the lock.      *)
(***************************************************************************)
EXTENDS DependencyUpdate, TLAPS

LEMMA EmptyPins == [p \in {} |-> None] \in Pins
BY DEF Pins

LEMMA Requirement ==
  ASSUME NEW r \in Requirements, NEW p \in Packages, NEW c \in Constraints
  PROVE  [r EXCEPT ![p] = c] \in Requirements
BY DEF Requirements

(* Editing a manifest gives a manifest.                                    *)
LEMMA ManifestFacts ==
  ASSUME NEW x \in Manifest, NEW p \in Packages, p \in DOMAIN pins, pins \in Pins
  PROVE  /\ Override(x, p) \in Manifest
         /\ Reconcile(x, p) \in Manifest
         /\ Widen(x, p) \in Manifest
<1>1. pins[p] \in Constraints
  BY DEF Pins
<1>2. [x.forced EXCEPT ![p] = pins[p]] \in Requirements
  BY <1>1, Requirement DEF Manifest
<1>3. [x.declared EXCEPT ![p] = pins[p]] \in Requirements
  BY <1>1, Requirement DEF Manifest
<1>4. Override(x, p) \in Manifest
  BY <1>2 DEF Override, Manifest
<1>5. Reconcile(x, p) \in Manifest
  BY <1>3 DEF Reconcile, Manifest
<1>6. Widen(x, p) \in Manifest
  BY DEF Widen, Manifest
<1> QED BY <1>4, <1>5, <1>6

(***************************************************************************)
(* The type invariant holds.                                               *)
(***************************************************************************)
LEMMA InitType == Init => TypeOK
<1> SUFFICES ASSUME Init PROVE TypeOK
  OBVIOUS
<1>1. origin \in [Modules -> Edition]
  BY TreesAssumption DEF Init, Tree, Module, Edition
<1> QED BY <1>1, EmptyPins DEF Init, TypeOK

LEMMA RequireTypes ==
  ASSUME TypeOK, Require
  PROVE  TypeOK'
<1> USE DEF TypeOK
<1>1. module \in Modules /\ left \subseteq DOMAIN pins /\ tree[module] \in Edition
  BY DEF Require
<1>2. tree[module].manifest \in Manifest /\ tree[module].lock \in SUBSET UNION Locks
  BY <1>1 DEF Require, Edition
<1> DEFINE forced ==
      [p \in Packages |-> IF p \in left THEN pins[p] ELSE tree[module].manifest.forced[p]]
    manifest == [tree[module].manifest EXCEPT !.forced = forced]
<1>3. forced \in Requirements
  BY <1>1, <1>2 DEF Manifest, Requirements, Pins
<1>4. manifest \in Manifest
  <2> HIDE DEF forced
  <2> QED BY <1>2, <1>3 DEF Manifest
<1>5. tree' = Edited(module, manifest, tree[module].lock)
  BY DEF Require
<1>6. tree' \in [Modules -> Edition]
  <2> HIDE DEF manifest
  <2> QED BY <1>1, <1>2, <1>4, <1>5 DEF Edited, Edition
<1> QED BY <1>6 DEF Require, step

LEMMA EditTypes ==
  ASSUME TypeOK, NEW p \in Packages, Edit(p)
  PROVE  TypeOK'
<1> USE DEF TypeOK
<1>1. module \in Modules /\ p \in DOMAIN pins /\ tree[module] \in Edition
  BY DEF Edit
<1>2. tree[module].manifest \in Manifest
  BY <1>1 DEF Edit, Edition
<1> DEFINE manifest == Override(Reconcile(Widen(tree[module].manifest, p), p), p)
    lock == IF ecosystem = "npm" THEN Pruned(tree[module].lock, p) ELSE tree[module].lock
<1>3. manifest \in Manifest
  BY <1>1, <1>2, ManifestFacts
<1>4. lock \in SUBSET UNION Locks
  BY <1>1 DEF Pruned, Edition
<1>5. tree' = Edited(module, manifest, lock)
  BY DEF Edit
<1>6. tree' \in [Modules -> Edition]
  <2> HIDE DEF manifest, lock
  <2>1. tree \in [Modules -> Edition]
    OBVIOUS
  <2> QED BY <1>1, <1>3, <1>4, <1>5, <2>1 DEF Edited, Edition
<1> QED BY <1>6 DEF Edit, step

LEMMA ResolveTypes ==
  ASSUME TypeOK, NEW lock \in Locks, NEW extra \in BOOLEAN, Resolve(lock, extra)
  PROVE  TypeOK'
<1> USE DEF TypeOK
<1>1. module \in Modules
  BY DEF Resolve
<1> DEFINE resolved == [tree EXCEPT ![module].lock = lock]
<1>2. lock \in SUBSET UNION Locks
  OBVIOUS
<1>3. tree' = [resolved EXCEPT ![module].extra = extra]
  BY DEF Resolve
<1>4. tree' \in [Modules -> Edition]
  <2>1. [tree[module] EXCEPT !.lock = lock] \in Edition
    BY <1>1, <1>2 DEF Edition
  <2>2. resolved \in [Modules -> Edition]
    BY <2>1
  <2> HIDE DEF resolved
  <2> QED BY <1>1, <1>3, <2>2 DEF Edition
<1> QED BY <1>4 DEF Resolve, step

LEMMA PinTypes ==
  ASSUME TypeOK, NEW p \in Packages, NEW manifest \in Manifest, NEW lock \in Locks,
         NEW extra \in BOOLEAN, Pin(p, manifest, lock, extra)
  PROVE  TypeOK'
<1> USE DEF TypeOK
<1>1. module \in Modules
  BY DEF Pin
<1>2. tree' = [Edited(module, manifest, lock) EXCEPT ![module].extra = extra]
  BY DEF Pin
<1>3. tree' \in [Modules -> Edition]
  <2>1. Edited(module, manifest, lock) \in [Modules -> Edition]
    BY <1>1 DEF Edited, Edition
  <2> QED BY <1>1, <1>2, <2>1 DEF Edition
<1> QED BY <1>3 DEF Pin, step

(* cargo and maven pin with a manifest.                                    *)
LEMMA PinsManifest ==
  ASSUME TypeOK, NEW p \in Packages, NEW lock \in Locks, NEW extra \in BOOLEAN,
         CargoPin(p, lock, extra) \/ MavenPin(p, lock, extra)
  PROVE  \E manifest \in Manifest : Pin(p, manifest, lock, extra)
<1>1. tree[module].manifest \in Manifest /\ p \in DOMAIN pins /\ pins \in Pins
  BY DEF TypeOK, CargoPin, MavenPin, Pin, Edition
<1>2. /\ Reconcile(tree[module].manifest, p) \in Manifest
      /\ Override(tree[module].manifest, p) \in Manifest
  BY <1>1, ManifestFacts
<1> QED BY <1>2 DEF CargoPin, MavenPin, Managed

LEMMA PublishTypes ==
  ASSUME TypeOK, Publish
  PROVE  TypeOK'
<1> USE DEF TypeOK
<1>1. \A m \in Modules : Declared(m) \in Edition
  BY DEF Declared, Edition
<1>2. source' \in [Modules -> Edition]
  BY <1>1 DEF Publish
<1> QED BY <1>2 DEF Publish, Removed, Dirty, step

LEMMA NextTypes == TypeOK /\ [Next]_vars => TypeOK'
<1> SUFFICES ASSUME TypeOK, [Next]_vars PROVE TypeOK'
  OBVIOUS
<1>1. ASSUME NEW ms \in SUBSET Modules, NEW ps \in Declarations, Begin(ms, ps) PROVE TypeOK'
  BY <1>1, DeclarationsAssumption DEF TypeOK, Begin
<1>2. ASSUME NEW m \in Modules, Read(m) PROVE TypeOK'
  BY <1>2 DEF TypeOK, Read, Rest, Pending, step
<1>3. ASSUME NEW p \in Packages, Edit(p) PROVE TypeOK'
  BY <1>3, EditTypes
<1>4. ASSUME NEW lock \in Locks, NEW extra \in BOOLEAN, Resolve(lock, extra) PROVE TypeOK'
  BY <1>4, ResolveTypes
<1>5. ASSUME NEW p \in Packages, NEW lock \in Locks, NEW extra \in BOOLEAN,
             CargoPin(p, lock, extra) \/ MavenPin(p, lock, extra)
      PROVE TypeOK'
  BY <1>5, PinsManifest, PinTypes
<1>10. CASE Require
  BY <1>10, RequireTypes
<1>6. CASE Check
  BY <1>6 DEF TypeOK, Check, step
<1>7. CASE Fail
  BY <1>7 DEF TypeOK, Fail, Removed, step
<1>8. CASE Publish
  BY <1>8, PublishTypes
<1>9. CASE UNCHANGED vars
  BY <1>9 DEF TypeOK, vars
<1> QED BY <1>1, <1>2, <1>3, <1>4, <1>5, <1>6, <1>7, <1>8, <1>9, <1>10 DEF Next

(***************************************************************************)
(* Every reachable state of the transaction is of its type.                *)
(***************************************************************************)
THEOREM UpdateTypeCorrectness == Spec => []TypeOK
BY InitType, NextTypes, PTL DEF Spec

-----------------------------------------------------------------------------

MeetsPins(lock) == \A p \in DOMAIN pins : Holds(lock, p)

(* The strengthening: in the private tree, modules that are off the list   *)
(* meet the pins, all but the one being updated.                           *)
DoneMeetsPins ==
  pc \in {"read", "edit", "check"} =>
    \A m \in modules \ todo : pc = "read" \/ m # module => MeetsPins(tree[m].lock)

UpdateInv == TypeOK /\ DoneMeetsPins

(* A step keeps DoneMeetsPins if it changes the private tree only in a     *)
(* module that DoneMeetsPins says nothing of afterwards.                   *)
LEMMA DoneStays ==
  ASSUME DoneMeetsPins, pins' = pins, modules' = modules, todo' = todo, module' = module,
         pc = "edit", pc' \in {"edit", "check"},
         \A m \in modules \ {module} : tree'[m] = tree[m]
  PROVE  DoneMeetsPins'
BY DEF DoneMeetsPins, MeetsPins, Holds

LEMMA NextDone == UpdateInv /\ [Next]_vars => DoneMeetsPins'
<1> SUFFICES ASSUME UpdateInv, [Next]_vars PROVE DoneMeetsPins'
  OBVIOUS
<1> USE DEF UpdateInv
<1>1. ASSUME NEW ms \in SUBSET Modules, NEW ps \in Declarations, Begin(ms, ps)
      PROVE  DoneMeetsPins'
  BY <1>1 DEF Begin, DoneMeetsPins
<1>2. ASSUME NEW m \in Modules, Read(m) PROVE DoneMeetsPins'
  <2>1. pins' = pins /\ modules' = modules /\ tree' = tree /\ todo' = todo \ {m}
    BY <1>2 DEF Read, Rest, step
  <2>2. \A k \in modules \ todo : MeetsPins(tree[k].lock)
    BY <1>2 DEF Read, DoneMeetsPins
  <2>3. pc' = "read" => MeetsPins(tree[m].lock)
    BY <1>2 DEF Read, Pending, MeetsPins
  <2>4. module' = m
    BY <1>2 DEF Read
  <2>5. ASSUME NEW k \in modules \ todo', pc' = "read" \/ k # module'
        PROVE  MeetsPins(tree[k].lock)
    BY <2>1, <2>2, <2>3, <2>4, <2>5
  <2> QED BY <2>1, <2>5 DEF DoneMeetsPins, MeetsPins, Holds
<1>3. ASSUME NEW p \in Packages, Edit(p) PROVE DoneMeetsPins'
  <2>1. \A m \in modules \ {module} : tree'[m] = tree[m]
    BY <1>3 DEF Edit, Edited, TypeOK
  <2> QED BY <1>3, <2>1, DoneStays DEF Edit, step
<1>4. ASSUME NEW lock \in Locks, NEW extra \in BOOLEAN, Resolve(lock, extra)
      PROVE  DoneMeetsPins'
  <2>1. \A m \in modules \ {module} : tree'[m] = tree[m]
    BY <1>4 DEF Resolve, TypeOK
  <2> QED BY <1>4, <2>1, DoneStays DEF Resolve, step
<1>5. ASSUME NEW p \in Packages, NEW lock \in Locks, NEW extra \in BOOLEAN,
             CargoPin(p, lock, extra) \/ MavenPin(p, lock, extra)
      PROVE  DoneMeetsPins'
  <2>1. PICK manifest \in Manifest : Pin(p, manifest, lock, extra)
    BY <1>5, PinsManifest
  <2>2. \A m \in modules \ {module} : tree'[m] = tree[m]
    BY <2>1 DEF Pin, Edited, TypeOK
  <2> QED BY <2>1, <2>2, DoneStays DEF Pin, step
<1>10. CASE Require
  <2>1. \A m \in modules \ {module} : tree'[m] = tree[m]
    BY <1>10 DEF Require, Edited, TypeOK
  <2> QED BY <1>10, <2>1, DoneStays DEF Require, step
<1>6. CASE Check
  <2>1. MeetsPins(tree[module].lock)
    BY <1>6 DEF Check, Required, MeetsPins
  <2>2. \A m \in modules \ todo : MeetsPins(tree[m].lock)
    BY <1>6, <2>1 DEF Check, DoneMeetsPins
  <2> QED BY <1>6, <2>2 DEF Check, step, DoneMeetsPins, MeetsPins, Holds
<1>7. CASE Fail
  BY <1>7 DEF Fail, DoneMeetsPins
<1>8. CASE Publish
  BY <1>8 DEF Publish, DoneMeetsPins
<1>9. CASE UNCHANGED vars
  BY <1>9 DEF vars, DoneMeetsPins, MeetsPins, Holds
<1> QED BY <1>1, <1>2, <1>3, <1>4, <1>5, <1>6, <1>7, <1>8, <1>9, <1>10 DEF Next

LEMMA UpdateInvariance == Spec => []UpdateInv
<1>1. Init => UpdateInv
  BY InitType DEF UpdateInv, Init, DoneMeetsPins
<1>2. UpdateInv /\ [Next]_vars => UpdateInv'
  BY NextTypes, NextDone DEF UpdateInv
<1> QED BY <1>1, <1>2, PTL DEF Spec

(* Only Publish changes the source or ends a step well.                    *)
LEMMA OnlyPublishPublishes ==
  ASSUME [Next]_vars
  PROVE  /\ origin' = origin
         /\ \/ Publish
            \/ UNCHANGED <<source, dirty>> /\ ~(pc = "read" /\ pc' = "idle")
<1> DEFINE Quiet ==
      UNCHANGED <<origin, source, dirty>> /\ ~(pc = "read" /\ pc' = "idle")
<1>1. ASSUME NEW ms \in SUBSET Modules, NEW ps \in Declarations, Begin(ms, ps) PROVE Quiet
  BY <1>1 DEF Begin
<1>2. ASSUME NEW m \in Modules, Read(m) PROVE Quiet
  BY <1>2 DEF Read, step
<1>3. CASE Require
  BY <1>3 DEF Require, step
<1>4. ASSUME NEW p \in Packages, Edit(p) PROVE Quiet
  BY <1>4 DEF Edit, step
<1>5. ASSUME NEW lock \in Locks, NEW extra \in BOOLEAN, Resolve(lock, extra) PROVE Quiet
  BY <1>5 DEF Resolve, step
<1>6. ASSUME NEW p \in Packages, NEW lock \in Locks, NEW extra \in BOOLEAN,
             CargoPin(p, lock, extra) \/ MavenPin(p, lock, extra)
      PROVE  Quiet
  BY <1>6 DEF CargoPin, MavenPin, Pin, step
<1>7. CASE Check
  BY <1>7 DEF Check, step
<1>8. CASE Fail
  BY <1>8 DEF Fail, step
<1>9. CASE Publish
  BY <1>9 DEF Publish, step
<1>10. CASE UNCHANGED vars
  BY <1>10 DEF vars
<1> QED BY <1>1, <1>2, <1>3, <1>4, <1>5, <1>6, <1>7, <1>8, <1>9, <1>10 DEF Next

(***************************************************************************)
(* A step publishes only what meets every pin in every module.             *)
(***************************************************************************)
THEOREM PinsAreMet == Spec => PublishedMeetsPins
<1>1. UpdateInv /\ [Next]_vars =>
        (source' # source \/ (pc = "read" /\ pc' = "idle") =>
           \A m \in modules, p \in DOMAIN pins : Holds(source'[m].lock, p))
  <2> SUFFICES ASSUME UpdateInv, Publish, NEW m \in modules, NEW p \in DOMAIN pins
               PROVE  Holds(source'[m].lock, p)
    BY OnlyPublishPublishes
  <2>1. m \in Modules /\ tree[m] \in Edition
    BY DEF UpdateInv, TypeOK
  <2>2. source'[m].lock = tree[m].lock
    BY <2>1 DEF Publish, Declared, Edition
  <2>3. MeetsPins(tree[m].lock)
    BY DEF UpdateInv, DoneMeetsPins, Publish
  <2> QED BY <2>2, <2>3 DEF MeetsPins
<1> QED BY <1>1, UpdateInvariance, PTL DEF Spec, PublishedMeetsPins

(***************************************************************************)
(* Only the declared files of a step's modules reach the source.           *)
(***************************************************************************)
THEOREM OnlyDeclared == Spec => OnlyDeclaredIsPublished
<1>1. TypeOK /\ [Next]_vars =>
        \A m \in Modules :
          /\ source'[m].extra = source[m].extra
          /\ m \notin modules => source'[m] = source[m]
  <2> SUFFICES ASSUME TypeOK, Publish, NEW m \in Modules
               PROVE  /\ source'[m].extra = source[m].extra
                      /\ m \notin modules => source'[m] = source[m]
    BY OnlyPublishPublishes
  <2>1. source'[m] = Declared(m)
    BY DEF Publish
  <2>2. tree[m] \in Edition
    BY DEF TypeOK
  <2>3. Declared(m).extra = source[m].extra
    BY <2>2 DEF Declared, Edition
  <2>4. m \notin modules => Declared(m) = source[m]
    BY DEF Declared
  <2> QED BY <2>1, <2>3, <2>4
<1> QED BY <1>1, UpdateTypeCorrectness, PTL DEF Spec, OnlyDeclaredIsPublished

(***************************************************************************)
(* A source that was edited is dirty.                                      *)
(***************************************************************************)
THEOREM EditsAreKept == Spec => []EditsAreCommitted
<1>1. Init => EditsAreCommitted
  BY DEF Init, EditsAreCommitted
<1>2. EditsAreCommitted /\ [Next]_vars => EditsAreCommitted'
  BY OnlyPublishPublishes DEF EditsAreCommitted, Publish, Dirty
<1> QED BY <1>1, <1>2, PTL DEF Spec

-----------------------------------------------------------------------------

(***************************************************************************)
(* What update_dependencies has done to the private tree so far.           *)
(***************************************************************************)

(* A module that is still on the list, or that met the pins from the       *)
(* start, is as in the source; one is updated only for pins of it.         *)
Untouched ==
  pc \in {"read", "edit", "check"} =>
    /\ \A m \in modules :
         m \in todo \/ MeetsPins(source[m].lock) => tree[m] = source[m]
    /\ pc # "read" => pending = Pending(source[module].lock)

(* What the Node ecosystems have made of a module's manifest and lock,     *)
(* when the pins `done' are written.                                       *)
Written(done, was, now) ==
  /\ IF done = {} THEN now.manifest = was.manifest
     ELSE /\ now.manifest # None
          /\ \A p \in done : now.manifest.forced[p] = pins[p]
          /\ IF ecosystem = "yarn" THEN done \cap now.manifest.narrower = {}
             ELSE now.manifest.narrower = was.manifest.narrower
  /\ ecosystem = "npm" =>
       now.lock = {e \in was.lock : e.key \notin done /\ e.needs \cap done = {}}

Progress ==
  pc = "edit" /\ ecosystem \in Node =>
    Written(pending \ left, source[module], tree[module])


(* A pending update is of a module that does not meet the pins.            *)
LEMMA PendingIsDue ==
  ASSUME TypeOK, Untouched, pc \in {"edit", "check"}
  PROVE  ~MeetsPins(source[module].lock)
BY DEF TypeOK, Untouched, Pending, MeetsPins

(* Steps of an update touch the module being updated only.                 *)
LEMMA UntouchedStays ==
  ASSUME TypeOK, Untouched, pc = "edit", pc' \in {"edit", "check"},
         UNCHANGED <<step, source, todo, module, pending>>,
         \A m \in modules \ {module} : tree'[m] = tree[m]
  PROVE  Untouched'
<1>1. modules' = modules /\ pins' = pins
  BY DEF step
<1>2. module \notin todo /\ ~MeetsPins(source[module].lock)
  BY PendingIsDue DEF TypeOK
<1>3. ASSUME NEW m \in modules, m \in todo \/ MeetsPins(source[m].lock)
      PROVE  tree'[m] = source[m]
  BY <1>2, <1>3 DEF Untouched
<1>4. pending' = Pending(source[module].lock)
  BY DEF Untouched
<1> QED BY <1>1, <1>3, <1>4 DEF Untouched, MeetsPins, Holds, Pending

LEMMA NextUntouched == UpdateInv /\ Untouched /\ [Next]_vars => Untouched'
<1> SUFFICES ASSUME UpdateInv, Untouched, [Next]_vars PROVE Untouched'
  OBVIOUS
<1> USE DEF UpdateInv
<1>1. ASSUME NEW ms \in SUBSET Modules, NEW ps \in Declarations, Begin(ms, ps)
      PROVE  Untouched'
  BY <1>1 DEF Begin, Untouched
<1>2. ASSUME NEW m \in Modules, Read(m) PROVE Untouched'
  <2>1. /\ pins' = pins /\ modules' = modules /\ tree' = tree /\ source' = source
        /\ todo' = todo \ {m} /\ module' = m /\ pending' = Pending(tree[m].lock)
    BY <1>2 DEF Read, Rest, step
  <2>2. tree[m] = source[m]
    BY <1>2 DEF Read, Untouched, TypeOK
  <2>3. \A k \in modules : k \in todo' \/ MeetsPins(source[k].lock) => tree[k] = source[k]
    BY <1>2, <2>1 DEF Read, Untouched
  <2> QED BY <2>1, <2>2, <2>3 DEF Untouched, MeetsPins, Holds, Pending
<1>3. ASSUME NEW p \in Packages, Edit(p) PROVE Untouched'
  <2>1. \A m \in modules \ {module} : tree'[m] = tree[m]
    BY <1>3 DEF Edit, Edited, TypeOK
  <2> QED BY <1>3, <2>1, UntouchedStays DEF Edit
<1>4. ASSUME NEW lock \in Locks, NEW extra \in BOOLEAN, Resolve(lock, extra)
      PROVE  Untouched'
  <2>1. \A m \in modules \ {module} : tree'[m] = tree[m]
    BY <1>4 DEF Resolve, TypeOK
  <2> QED BY <1>4, <2>1, UntouchedStays DEF Resolve
<1>5. ASSUME NEW p \in Packages, NEW lock \in Locks, NEW extra \in BOOLEAN,
             CargoPin(p, lock, extra) \/ MavenPin(p, lock, extra)
      PROVE  Untouched'
  <2>1. PICK manifest \in Manifest : Pin(p, manifest, lock, extra)
    BY <1>5, PinsManifest
  <2>2. \A m \in modules \ {module} : tree'[m] = tree[m]
    BY <2>1 DEF Pin, Edited, TypeOK
  <2> QED BY <2>1, <2>2, UntouchedStays DEF Pin
<1>6. CASE Require
  <2>1. \A m \in modules \ {module} : tree'[m] = tree[m]
    BY <1>6 DEF Require, Edited, TypeOK
  <2> QED BY <1>6, <2>1, UntouchedStays DEF Require
<1>7. CASE Check
  BY <1>7 DEF Check, step, Untouched, MeetsPins, Holds
<1>8. CASE Fail \/ Publish
  BY <1>8 DEF Fail, Publish, Untouched
<1>9. CASE UNCHANGED vars
  BY <1>9 DEF vars, Untouched, MeetsPins, Holds, Pending
<1> QED BY <1>1, <1>2, <1>3, <1>4, <1>5, <1>6, <1>7, <1>8, <1>9 DEF Next

(* Writing one more pin.                                                   *)
LEMMA EditProgress ==
  ASSUME TypeOK, Untouched, Progress, NEW p \in Packages, Edit(p)
  PROVE  Progress'
<1> DEFINE was  == source[module]
           old  == tree[module]
           done == pending \ left
           new  == Override(Reconcile(Widen(old.manifest, p), p), p)
           lock == IF ecosystem = "npm" THEN Pruned(old.lock, p) ELSE old.lock
<1>1. /\ module \in Modules /\ old \in Edition /\ p \in DOMAIN pins /\ pins \in Pins
      /\ old.manifest \in Manifest /\ p \in left /\ left \subseteq pending
  BY DEF TypeOK, Edit, Edition
<1>2. /\ pc = "edit" /\ ecosystem \in Node /\ UNCHANGED <<step, source, pc, module, pending>>
      /\ left' = left \ {p} /\ tree' = Edited(module, new, lock)
  BY DEF Edit
<1>3. Written(done, was, old)
  BY <1>2 DEF Progress
<1>4. ecosystem' = ecosystem /\ pins' = pins /\ source' = source
  BY <1>2 DEF step
<1>5. pending' \ left' = done \cup {p}
  BY <1>1, <1>2
<1>6. tree'[module].manifest = new /\ tree'[module].lock = lock
  <2> HIDE DEF new, lock
  <2> QED BY <1>1, <1>2 DEF Edited, TypeOK, Edition
<1> DEFINE wide == Widen(old.manifest, p)
           mid  == Reconcile(wide, p)
<1>7. /\ wide \in Manifest /\ wide.forced = old.manifest.forced
      /\ wide.narrower = IF ecosystem = "yarn" THEN old.manifest.narrower \ {p}
                         ELSE old.manifest.narrower
  BY <1>1, ManifestFacts DEF Widen, Manifest
<1>8. mid \in Manifest /\ mid.forced = wide.forced /\ mid.narrower = wide.narrower
  <2> HIDE DEF wide
  <2> QED BY <1>1, <1>7, ManifestFacts DEF Reconcile, Manifest
<1>9. /\ new \in Manifest /\ new # None /\ new.narrower = mid.narrower
      /\ \A q \in Packages : new.forced[q] = IF q = p THEN pins[p] ELSE mid.forced[q]
  <2> HIDE DEF wide, mid
  <2>1. new = Override(mid, p)
    BY DEF wide, mid
  <2>2. new \in Manifest
    BY <1>1, <1>8, <2>1, ManifestFacts
  <2>3. new = [mid EXCEPT !.forced[p] = pins[p]]
    BY <2>1 DEF Override
  <2>4. new # None
    BY <2>2, NoneAssumption
  <2> QED BY <1>8, <2>2, <2>3, <2>4 DEF Manifest, Requirements
<1> HIDE DEF was, old, done, new, lock, wide, mid
<1>10. done \cup {p} \subseteq Packages
  <2>1. pending \subseteq DOMAIN pins /\ DOMAIN pins \subseteq Packages
    BY <1>1, <1>2 DEF TypeOK, Pins
  <2> QED BY <2>1 DEF done
<1>11. \A q \in done \cup {p} : new.forced[q] = pins[q]
  BY <1>3, <1>7, <1>8, <1>9, <1>10 DEF Written
<1>12. IF ecosystem = "yarn" THEN (done \cup {p}) \cap new.narrower = {}
       ELSE new.narrower = was.manifest.narrower
  BY <1>3, <1>7, <1>8, <1>9 DEF Written
<1>13. ecosystem = "npm" =>
         lock = {e \in was.lock : e.key \notin done \cup {p} /\ e.needs \cap (done \cup {p}) = {}}
  BY <1>3 DEF Written, Pruned, lock, old
<1>14. Written(done \cup {p}, was, tree'[module])
  BY <1>6, <1>9, <1>11, <1>12, <1>13 DEF Written
<1> QED BY <1>2, <1>4, <1>5, <1>14 DEF Progress, Written, was

LEMMA NextProgress == UpdateInv /\ Untouched /\ Progress /\ [Next]_vars => Progress'
<1> SUFFICES ASSUME UpdateInv, Untouched, Progress, [Next]_vars PROVE Progress'
  OBVIOUS
<1> USE DEF UpdateInv
<1>1. ASSUME NEW m \in Modules, Read(m) PROVE Progress'
  <2>1. /\ tree' = tree /\ source' = source /\ module' = m
        /\ pending' = left' /\ tree[m] = source[m]
    BY <1>1 DEF Read, step, Untouched, TypeOK
  <2>2. pending' \ left' = {}
    BY <2>1
  <2>3. Written({}, source[m], tree[m])'
    BY <2>1 DEF Written
  <2> QED BY <2>1, <2>2, <2>3 DEF Progress
<1>2. ASSUME NEW p \in Packages, Edit(p) PROVE Progress'
  BY <1>2, EditProgress
<1>3. ASSUME NEW p \in Packages, NEW lock \in Locks, NEW extra \in BOOLEAN,
             CargoPin(p, lock, extra) \/ MavenPin(p, lock, extra)
      PROVE  Progress'
  BY <1>3 DEF CargoPin, MavenPin, Pin, step, Progress, Node
<1>4. CASE Require
  BY <1>4 DEF Require, step, Progress, Node
<1>5. CASE UNCHANGED vars
  BY <1>5 DEF vars, Progress, Written
<1>6. ASSUME pc' # "edit" PROVE Progress'
  BY <1>6 DEF Progress
<1>7. CASE \/ \E ms \in SUBSET Modules, ps \in Declarations : Begin(ms, ps)
           \/ \E lock \in Locks, extra \in BOOLEAN : Resolve(lock, extra)
           \/ Check \/ Fail \/ Publish
  BY <1>6, <1>7 DEF Begin, Resolve, Check, Fail, Publish
<1> QED BY <1>1, <1>2, <1>3, <1>4, <1>5, <1>7 DEF Next

(* What an obedient resolution leaves in the lock.                         *)
LEMMA ResolveTakesEffect ==
  ASSUME Obedient, TypeOK, Progress, NEW lock \in Locks, NEW extra \in BOOLEAN,
         Resolve(lock, extra)
  PROVE  UpdateTakesEffect' /\ UnrelatedPinsStay'
<1> SUFFICES ASSUME ecosystem \in Node
             PROVE  UpdateTakesEffect' /\ UnrelatedPinsStay'
  BY DEF Resolve, step, UpdateTakesEffect, UnrelatedPinsStay, Node
<1> DEFINE was == source[module]
           old == tree[module]
<1>1. /\ pc = "edit" /\ left = {} /\ Obeys(lock, old)
      /\ UNCHANGED <<step, source, module, pending>>
  BY DEF Resolve
<1>2. ecosystem' = ecosystem /\ pins' = pins /\ tree'[module].lock = lock
  BY <1>1 DEF step, Resolve, TypeOK, Edition
<1>3. pending # {} /\ pending \subseteq DOMAIN pins /\ DOMAIN pins \subseteq Packages
      /\ \A p \in pending : pins[p] # None
  BY <1>1, NoneAssumption DEF TypeOK, Pins
<1>4. Written(pending, was, old)
  BY <1>1 DEF Progress
<1> HIDE DEF was, old
<1> DEFINE kept == IF ecosystem = "npm" THEN old.lock ELSE {}
<1>5. /\ kept \subseteq lock
      /\ \A e \in lock \ kept :
           e.key \in Packages \ old.manifest.narrower /\ old.manifest.forced[e.key] # None
             => SatisfiesConstraint(e.version, old.manifest.forced[e.key])
  BY <1>1 DEF Obeys
<1>6. \A e \in kept : e.key \notin pending
  BY <1>4 DEF Written
<1>7. ecosystem = "npm" =>
        \A e \in was.lock : e.key \notin pending /\ e.needs \cap pending = {} => e \in lock
  BY <1>4, <1>5 DEF Written
<1>8. ASSUME NEW p \in pending, ecosystem = "yarn" \/ p \notin was.manifest.narrower,
             NEW e \in lock, e.key = p
      PROVE  SatisfiesConstraint(e.version, pins[p])
  <2>1. old.manifest.forced[p] = pins[p] /\ p \notin old.manifest.narrower
    BY <1>3, <1>4, <1>8 DEF Written
  <2> QED BY <1>3, <1>5, <1>6, <1>8, <2>1
<1>9. UpdateTakesEffect'
  BY <1>1, <1>2, <1>8 DEF UpdateTakesEffect, was
<1>10. UnrelatedPinsStay'
  BY <1>1, <1>2, <1>7 DEF UnrelatedPinsStay, was
<1> QED BY <1>9, <1>10

LEMMA NextEffect ==
  ASSUME Obedient
  PROVE  UpdateInv /\ Progress /\ UpdateTakesEffect /\ UnrelatedPinsStay /\ [Next]_vars
           => UpdateTakesEffect' /\ UnrelatedPinsStay'
<1> DEFINE Effect == UpdateTakesEffect /\ UnrelatedPinsStay
<1> SUFFICES ASSUME UpdateInv, Progress, Effect, [Next]_vars PROVE Effect'
  OBVIOUS
<1>1. ASSUME NEW lock \in Locks, NEW extra \in BOOLEAN, Resolve(lock, extra) PROVE Effect'
  BY <1>1, ResolveTakesEffect DEF UpdateInv
<1>2. ASSUME NEW p \in Packages, NEW lock \in Locks, NEW extra \in BOOLEAN,
             CargoPin(p, lock, extra) \/ MavenPin(p, lock, extra)
      PROVE  Effect'
  BY <1>2 DEF CargoPin, MavenPin, Pin, step, UpdateTakesEffect, UnrelatedPinsStay, Node
<1>3. CASE UNCHANGED vars
  BY <1>3 DEF vars, UpdateTakesEffect, UnrelatedPinsStay
<1>4. ASSUME pc' # "check" PROVE Effect'
  BY <1>4 DEF UpdateTakesEffect, UnrelatedPinsStay
<1>5. CASE \/ \E ms \in SUBSET Modules, ps \in Declarations : Begin(ms, ps)
           \/ \E m \in Modules : Read(m)
           \/ Require
           \/ \E p \in Packages : Edit(p)
           \/ Check \/ Fail \/ Publish
  <2>1. pc' # "check"
    BY <1>5 DEF Begin, Read, Require, Edit, Check, Fail, Publish
  <2> QED BY <1>4, <2>1
<1> HIDE DEF Effect
<1> QED BY <1>1, <1>2, <1>3, <1>5 DEF Next

LEMMA ProgressInvariance == Spec => [](UpdateInv /\ Untouched /\ Progress)
<1>1. Init => Untouched /\ Progress
  BY DEF Init, Untouched, Progress
<1>2. Untouched /\ Progress /\ UpdateInv /\ [Next]_vars => Untouched' /\ Progress'
  BY NextUntouched, NextProgress
<1> QED BY <1>1, <1>2, UpdateInvariance, PTL DEF Spec

LEMMA EffectInvariance ==
  ASSUME Obedient
  PROVE  Spec => [](UpdateTakesEffect /\ UnrelatedPinsStay)
<1>1. Init => UpdateTakesEffect /\ UnrelatedPinsStay
  BY DEF Init, UpdateTakesEffect, UnrelatedPinsStay
<1> QED BY <1>1, NextEffect, ProgressInvariance, PTL DEF Spec

(***************************************************************************)
(* With a package manager that keeps to its overrides, an update reaches   *)
(* every copy of a pending package (_npm_update, _pnpm_update and          *)
(* _yarn_update, of any number of packages, pins and modules).             *)
(***************************************************************************)
THEOREM UpdatesTakeEffect ==
  ASSUME Obedient
  PROVE  Spec => []UpdateTakesEffect
BY EffectInvariance, PTL

(***************************************************************************)
(* npm's update leaves what neither is nor needs a pending package locked. *)
(***************************************************************************)
THEOREM UpdatesAreSurgical ==
  ASSUME Obedient
  PROVE  Spec => []UnrelatedPinsStay
BY EffectInvariance, PTL

(***************************************************************************)
(* A step whose pins hold in all its modules leaves the source, manifests  *)
(* included, and whether it counts as edited, as they are.                 *)
(***************************************************************************)
THEOREM IdleUpdatesChangeNothing == Spec => PinsThatHoldChangeNothing
<1>1. UpdateInv /\ Untouched /\ [Next]_vars =>
        ((\A m \in modules, p \in DOMAIN pins : Holds(source[m].lock, p)) =>
           UNCHANGED <<source, dirty>>)
  <2> SUFFICES ASSUME UpdateInv, Untouched, Publish,
                      \A m \in modules : MeetsPins(source[m].lock)
               PROVE  UNCHANGED <<source, dirty>>
    BY OnlyPublishPublishes DEF MeetsPins
  <2>1. ASSUME NEW m \in Modules PROVE Declared(m) = source[m]
    <3>1. m \in modules => tree[m] = source[m]
      BY DEF Publish, Untouched
    <3> QED BY <3>1 DEF Declared, UpdateInv, TypeOK, Edition
  <2>2. source' = source
    BY <2>1 DEF Publish, UpdateInv, TypeOK
  <2>3. dirty' = dirty
    BY <2>2 DEF Publish, Dirty, UpdateInv, TypeOK
  <2> QED BY <2>2, <2>3
<1> QED BY <1>1, ProgressInvariance, PTL DEF Spec, PinsThatHoldChangeNothing
=============================================================================
