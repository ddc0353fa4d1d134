----------------------------- MODULE MCToolchain -----------------------------
(* Small declarations on small machines.                                   *)
EXTENDS Toolchain, TLC

Entry1(n, v) == [name |-> n, version |-> v, minimum |-> None]

SomeEntries ==
  {Entry1("node", <<1>>), Entry1("node", <<2>>), Entry1("node", <<1, 1>>),
   Entry1("node", Malformed),
   [name |-> "node", version |-> <<1>>, minimum |-> <<1, 1>>],
   [name |-> "node", version |-> <<1>>, minimum |-> Malformed],
   Entry1("npm", <<1>>), Entry1("python", <<3>>), Entry1("python", <<3, 1>>),
   Entry1("python", <<3, 2, 1>>), [name |-> "go", version |-> <<1>>, minimum |-> <<1, 0, 1>>], Entry1("deno", <<1>>)}

SmallDeclarations == UNION {[1..n -> SomeEntries] : n \in 0..2}

Node(s) == {Versioned(c, <<s>>) : c \in {"node", "npm", "npx"}}
Python(s) == {Versioned("python", <<3, s>>)}

SomeInstalled ==
  {{}, Node(1), Node(1) \cup Python(2), Node(1) \ {Versioned("npx", <<1>>)},
   Node(1) \cup Node(2) \cup Python(1) \cup Python(2)}

(* What one tool's programs answer.                                        *)
Ambient(c) == Versioned(c, <<>>)

NodeAnswers ==
  [{Ambient("node")} -> {<<1, 0>>, <<2, 0>>, NoAnswer}]

VersionedAnswers(m) == [p \in m |-> p.suffix \o <<1>>]

OtherAnswers ==
  {Ambient("npm") :> n @@ Ambient("python3") :> p @@ Ambient("go") :> g :
     n \in {<<1, 2>>}, p \in {<<3, 1>>, NoAnswer}, g \in {<<1, 0>>, <<1, 1>>}}

SmallMachines ==
  UNION {{[installed |-> m, answer |-> n @@ o @@ VersionedAnswers(m)] :
            n \in NodeAnswers, o \in OtherAnswers} : m \in SomeInstalled}
=============================================================================
