------------------------------ MODULE MCLockWalk ------------------------------
(* Small lockfiles.                                                        *)
EXTENDS LockWalk, TLC

CONSTANTS a, b, p, q, r, x, any, old, new

(* pnpm: two snapshots of a that differ in their peers, one of b.          *)
Spelled(package, peers) == [package |-> package, version |-> 1, peers |-> peers]

Dep(name, protocol, range) ==
  [name |-> name, ref |-> [protocol |-> protocol, range |-> range]]

PnpmDeps ==
  {Dep(a, "none", Spelled(None, {})), Dep(a, "none", Spelled(None, {b})),
   Dep(a, "npm", Spelled(b, {})), Dep(b, "link", Spelled(None, {}))}

PnpmRoots == PnpmDeps \cup {Dep(b, "npm", Spelled(None, {}))}

Few(S, n) == {T \in SUBSET S : Cardinality(T) <= n}

PnpmKeys == {Spelled(a, {}), Spelled(a, {b}), Spelled(b, {})}

PnpmLocks ==
  [manager : {"pnpm"}, roots : Few(PnpmRoots, 2),
   snapshots : UNION {[D -> Few(PnpmDeps, 2)] : D \in {PnpmKeys, PnpmKeys \ {Spelled(b, {})}}}]

(* Berry: a in two versions (p, q), b (r) in one; a workspace x.  The      *)
(* ranges are model values: a reference behind `npm:' is none of them.     *)
BerryDeps ==
  {Dep(a, "none", old), Dep(a, "npm", new), Dep(b, "npm", old),
   Dep(x, "workspace", any)}

BerryRoots == BerryDeps \cup {Dep(a, "git", new)}

Ref(protocol, range) == [protocol |-> protocol, range |-> range]

Entries ==
  {(Unbound(a, Ref("npm", old)) :> p @@ Unbound(a, Ref("npm", new)) :> q @@
    Unbound(b, Ref("npm", old)) :> r),
   (Unbound(a, Ref("none", old)) :> p @@
    [name |-> a, ref |-> Ref("npm", new), locator |-> x] :> q @@
    [name |-> b, ref |-> Ref("patch", old), locator |-> a] :> r @@
    [name |-> b, ref |-> Ref("patch", old), locator |-> b] :> r),
   (Unbound(a, Ref("npm", old)) :> p @@ Unbound(a, Ref("git", new)) :> q)}

Overrides ==
  {<<>>, [kind |-> "name", name |-> a] :> Ref("npm", new),
   [kind |-> "nested", parent |-> b, name |-> a] :> Ref("none", new),
   ([kind |-> "exact", name |-> a, ref |-> Ref("npm", old)] :> Ref("patch", new) @@
    [kind |-> "name", name |-> a] :> Ref("none", old))}

Known(n, v) == [name |-> n, version |-> v]

BerryLocks ==
  {[manager |-> "yarn", name |-> None, roots |-> roots,
    workspaces |-> workspaces, resolutions |-> resolutions, descriptors |-> descriptors,
    packages |-> (p :> [name |-> a, version |-> 1, dependencies |-> ps] @@
                  q :> [name |-> n, version |-> 2, dependencies |-> qs] @@
                  r :> [name |-> b, version |-> v, dependencies |-> {Dep(a, "none", old)}])] :
     roots \in Few(BerryRoots, 2), ps \in Few(BerryDeps, 1), qs \in Few(BerryDeps, 1),
     workspaces \in {<<>>, x :> {Dep(b, "npm", old)}}, resolutions \in Overrides,
     descriptors \in Entries, n \in {a, None}, v \in {1, None}}

SmallLocks == PnpmLocks \cup BerryLocks
=============================================================================
