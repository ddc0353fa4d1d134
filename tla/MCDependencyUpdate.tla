-------------------------- MODULE MCDependencyUpdate --------------------------
(* Two modules, a package and one that may depend on it.                   *)
EXTENDS DependencyUpdate

CONSTANTS foo, bar, alias, m1, m2

Old == <<1, 0>>
Good == <<1, 2>>
New == <<2, 0>>

AtLeastGood == [tilde |-> FALSE, floor |-> Good]
GoodSeries == [tilde |-> TRUE, floor |-> Good]

BothConstraints == {AtLeastGood, GoodSeries}

Entry(key, name, version, needs) ==
  [key |-> key, name |-> name, version |-> version, needs |-> needs]

Foo(version) == Entry(foo, foo, version, {})
Bar(version) == Entry(bar, bar, version, {foo})
Alone == Entry(bar, bar, Good, {})
Alias == Entry(alias, foo, Old, {})

PlainLocks ==
  {{}, {Foo(Old), Alone}, {Foo(Good), Alone}, {Foo(New), Alone}, {Foo(Good), Bar(Old)},
   {Foo(Old), Foo(Good), Bar(Good)}, {Foo(Old), Bar(Old)}, {Foo(Good), Bar(Good)}}

AliasLocks == {{Foo(Old), Alias, Alone}, {Foo(Good), Alias, Alone}, {Foo(Good), Alone}}

Nothing == [p \in Packages |-> None]
Wanted(c) == [Nothing EXCEPT ![foo] = c]

Plain == [declared |-> Nothing, forced |-> Nothing, narrower |-> {}]
Direct == [Plain EXCEPT !.declared = Wanted(AtLeastGood)]
Narrow == [Plain EXCEPT !.narrower = {foo}]

At(manifest, lock) == [manifest |-> manifest, lock |-> lock, extra |-> FALSE]

First ==
  {At(x, l) : x \in {Plain, Direct}, l \in Locks}
    \cup {At(Narrow, l) : l \in {k \in Locks : {Foo(Old), Alone} \subseteq k}}
Second == {At(Plain, {Foo(Old), Bar(Old)}), At(None, {Foo(Good), Bar(Good)})}

(* The package alone, its dependent alone, or both are pinned.             *)
PinDeclarations ==
  {[p \in {foo} |-> AtLeastGood], [p \in {bar} |-> AtLeastGood],
   [p \in {foo, bar} |-> IF p = foo THEN GoodSeries ELSE AtLeastGood]}

Sources == {[m \in Modules |-> IF m = m1 THEN x ELSE y] : x \in First, y \in Second}
=============================================================================
