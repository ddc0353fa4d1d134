------------------------------- MODULE Toolchain -------------------------------
(***************************************************************************)
(* Toolchain activation around one pipeline run: aliases for versioned RPM *)
(* executables in a temporary directory, PATH changed to begin with it,    *)
(* the declared versions verified, the stages, and the way back.           *)
(*                                                                         *)
(* A version is the sequence of its numeric parts.  A program is a tool's  *)
(* versioned executable (node-24 is [tool |-> "node", suffix |-> <<24>>])  *)
(* or, with an empty suffix, whatever the caller's PATH finds for a name.  *)
(***************************************************************************)
EXTENDS Versions

CONSTANTS
  Declarations,   (* the `toolchain' sections: sequences of entries        *)
  Machines,       (* [installed, answer]: the versioned executables that   *)
                  (* are there and RPM-owned; what each program answers    *)
  Malformed,      (* a declared version that is not dot-separated numbers  *)
  None

(* name -> the command whose version is asked for (_VERSION_CHECKS).       *)
VersionChecks ==
  [go |-> "go", node |-> "node", npm |-> "npm", cargo |-> "cargo", rustc |-> "rustc",
   python |-> "python3", maven |-> "mvn", gradle |-> "gradle"]

Commands == {VersionChecks[name] : name \in DOMAIN VersionChecks} \cup {"npx", "python"}

Version == Seq(Nat) \ {<<>>}

Program == [tool : Commands, suffix : Seq(Nat)]

(* The directories of a PATH that are told apart.                          *)
Places == {"bin", "default", "shims"}

(* No version: the command is missing, fails, or prints something else.    *)
NoAnswer == <<>>

Entry == [name : STRING, version : Version \cup {Malformed},
          minimum : Version \cup {Malformed, None}]

ASSUME MarksAssumption ==
  Malformed \notin Version \cup {None} /\ None \notin Version \cup Seq(Places)
ASSUME DeclarationsAssumption == Declarations \subseteq Seq(Entry)
ASSUME MachinesAssumption ==
  \A m \in Machines :
    /\ m.installed \cup DOMAIN m.answer \subseteq Program
    /\ \A p \in DOMAIN m.answer : m.answer[p] \in Version \cup {NoAnswer}

VARIABLES
  entries, machine, original,   (* what the run finds; `original' is PATH  *)
  pc,
  i,        (* the entry the current loop is at                            *)
  targets,  (* alias -> program                                            *)
  shims,    (* what the temporary directory holds; None: it does not exist *)
  path,     (* os.environ["PATH"], or None                                 *)
  outcome   (* "none" while running, "refused" for activate() and          *)
            (* verify_installed(), "error" for a stage, "traceback", "ok"  *)

given == <<entries, machine, original>>

vars == <<given, pc, i, targets, shims, path, outcome>>

Empty == [c \in {} |-> None]

(* Updating the dictionary g with f.                                       *)
Joined(f, g) ==
  [c \in DOMAIN f \cup DOMAIN g |-> IF c \in DOMAIN f THEN f[c] ELSE g[c]]

Answered(program) ==
  IF program \in DOMAIN machine.answer THEN machine.answer[program] ELSE NoAnswer

(***************************************************************************)
(* Declarations.                                                           *)
(***************************************************************************)

WellFormed(entry) == Malformed \notin {entry.version, entry.minimum}

Versioned(tool, suffix) == [tool |-> tool, suffix |-> suffix]

Major(entry) == SubSeq(entry.version, 1, 1)

(* Node's executables come in threes.                                      *)
Incomplete(entry) ==
  /\ entry.name = "node"
  /\ Versioned("node", Major(entry)) \in machine.installed
  /\ \E c \in {"npm", "npx"} : Versioned(c, Major(entry)) \notin machine.installed

(* _versioned_aliases, for an entry that is well-formed and not incomplete. *)
Aliases(entry) ==
  LET node == Versioned("node", Major(entry))
      python == Versioned("python", SubSeq(entry.version, 1, 2))
  IN IF entry.name = "node" /\ node \in machine.installed
       THEN [c \in {"node", "npm", "npx"} |-> Versioned(c, node.suffix)]
     ELSE IF entry.name = "python" /\ Len(entry.version) >= 2 /\ python \in machine.installed
       THEN [c \in {"python", "python3"} |-> python]
     ELSE Empty

(* Faulty variant: the last entry that names a command gets it.            *)
Clash_Never(entry) == FALSE

(* Faulty variant: no command may be named twice.                          *)
Clash_Any(entry) == DOMAIN Aliases(entry) \cap DOMAIN targets # {}

(* An earlier entry gave one of these commands another target.             *)
Clash(entry) ==
  \E c \in DOMAIN Aliases(entry) \cap DOMAIN targets : targets[c] # Aliases(entry)[c]

(***************************************************************************)
(* activate(), up to the changed PATH.                                     *)
(***************************************************************************)

Init ==
  /\ entries \in Declarations /\ machine \in Machines
  /\ original \in {None, <<"bin">>}
  /\ pc = "collect" /\ i = 1
  /\ targets = Empty /\ shims = None
  /\ path = original
  /\ outcome = "none"

Acceptable(entry) == WellFormed(entry) /\ ~Incomplete(entry) /\ ~Clash(entry)

Collect ==
  /\ pc = "collect" /\ i <= Len(entries)
  /\ Acceptable(entries[i])
  /\ targets' = Joined(Aliases(entries[i]), targets)
  /\ i' = i + 1
  /\ UNCHANGED <<given, pc, shims, path, outcome>>

Refuse ==
  /\ pc = "collect" /\ i <= Len(entries)
  /\ ~Acceptable(entries[i])
  /\ pc' = "done" /\ outcome' = "refused"
  /\ UNCHANGED <<given, i, targets, shims, path>>

Collected ==
  /\ pc = "collect" /\ i > Len(entries)
  /\ pc' = IF targets = Empty THEN "verify" ELSE "link"
  /\ i' = 1
  /\ UNCHANGED <<given, targets, shims, path, outcome>>

(* The directory is made, then one symbolic link after the other.          *)
MakeDirectory ==
  /\ pc = "link" /\ shims = None
  /\ shims' = Empty
  /\ UNCHANGED <<given, pc, i, targets, path, outcome>>

Link(alias) ==
  /\ pc = "link" /\ shims # None /\ alias \in DOMAIN targets \ DOMAIN shims
  /\ shims' = [c \in DOMAIN shims \cup {alias} |-> targets[c]]
  /\ UNCHANGED <<given, pc, i, targets, path, outcome>>

(* Faulty variant: PATH is changed before the directory is filled.         *)
Ready_Directory == shims # None

Ready == shims # None /\ DOMAIN targets = DOMAIN shims

(* No directory, or no link: an OSError.                                   *)
LinkFails ==
  /\ pc = "link" /\ ~Ready
  /\ pc' = IF shims = None THEN "done" ELSE "cleanup"
  /\ outcome' = "traceback"
  /\ UNCHANGED <<given, i, targets, shims, path>>

(* Where commands are looked up without aliases; os.defpath for no PATH.   *)
SearchPath == IF original = None THEN <<"default">> ELSE original

ChangePath ==
  /\ pc = "link" /\ Ready
  /\ path' = <<"shims">> \o SearchPath
  /\ pc' = "verify"
  /\ UNCHANGED <<given, i, targets, shims, outcome>>

(***************************************************************************)
(* verify_installed() and the stages.                                      *)
(***************************************************************************)

Aliased == path # None /\ path[1] = "shims" /\ shims # None

(* What a child process gets for a command.                                *)
Resolved(command) ==
  IF Aliased /\ command \in DOMAIN shims THEN shims[command] ELSE Versioned(command, <<>>)

VersionMatches(declared, active) == Series(active, Len(declared)) = declared

(* Faulty variant: only the parts both have are compared.                  *)
VersionAtLeast_Short(minimum, active) ==
  LET width == IF Len(minimum) < Len(active) THEN Len(minimum) ELSE Len(active)
  IN AtLeast(Padded(active, width), Padded(minimum, width))

VersionAtLeast(minimum, active) ==
  LET width == IF Len(minimum) > Len(active) THEN Len(minimum) ELSE Len(active)
  IN AtLeast(Padded(active, width), Padded(minimum, width))

Meets(entry, answer) ==
  /\ answer # NoAnswer
  /\ VersionMatches(entry.version, answer)
  /\ entry.minimum # None => VersionAtLeast(entry.minimum, answer)

Verified(entry) ==
  /\ entry.name \in DOMAIN VersionChecks
  /\ Meets(entry, Answered(Resolved(VersionChecks[entry.name])))

Verify ==
  /\ pc = "verify" /\ i <= Len(entries)
  /\ WellFormed(entries[i]) /\ Verified(entries[i])
  /\ i' = i + 1
  /\ UNCHANGED <<given, pc, targets, shims, path, outcome>>

VerifyFails ==
  /\ pc = "verify" /\ i <= Len(entries)
  /\ ~(WellFormed(entries[i]) /\ Verified(entries[i]))
  /\ pc' = "leave" /\ outcome' = "refused"
  /\ UNCHANGED <<given, i, targets, shims, path>>

StagesBegin ==
  /\ pc = "verify" /\ i > Len(entries)
  /\ pc' = "stages"
  /\ UNCHANGED <<given, i, targets, shims, path, outcome>>

StagesEnd ==
  /\ pc = "stages"
  /\ pc' = "leave"
  /\ outcome' \in {"ok", "error", "traceback"}
  /\ UNCHANGED <<given, i, targets, shims, path>>

(***************************************************************************)
(* The way out.                                                            *)
(***************************************************************************)

(* Faulty variant: an unset PATH comes back as the default one.            *)
Restored_Search == SearchPath

Restored == original

Leave ==
  /\ pc = "leave"
  /\ IF targets = Empty THEN pc' = "done" /\ UNCHANGED path
     ELSE pc' = "cleanup" /\ path' = Restored
  /\ UNCHANGED <<given, i, targets, shims, outcome>>

(* The directory goes; if it cannot be removed, an OSError replaces what   *)
(* was on its way.                                                         *)
Cleanup ==
  /\ pc = "cleanup"
  /\ pc' = "done"
  /\ \/ shims' = None /\ UNCHANGED outcome
     \/ UNCHANGED shims /\ outcome' = "traceback"
  /\ UNCHANGED <<given, i, targets, path>>

Next ==
  \/ Collect \/ Refuse \/ Collected
  \/ MakeDirectory \/ (\E alias \in DOMAIN targets : Link(alias)) \/ LinkFails
  \/ ChangePath
  \/ Verify \/ VerifyFails
  \/ StagesBegin \/ StagesEnd
  \/ Leave \/ Cleanup

Spec == Init /\ [][Next]_vars
-----------------------------------------------------------------------------

(***************************************************************************)
(* The type invariant; an alias is made only for a collected target.       *)
(***************************************************************************)
TypeOK ==
  /\ entries \in Declarations /\ machine \in Machines
  /\ original \in {None, <<"bin">>}
  /\ pc \in {"collect", "link", "verify", "stages", "leave", "cleanup", "done"}
  /\ i \in 1..Len(entries) + 1
  /\ DOMAIN targets \subseteq Commands
  /\ shims # None => \A c \in DOMAIN shims : c \in DOMAIN targets /\ shims[c] = targets[c]
  /\ path \in {original, <<"shims">> \o SearchPath}
  /\ outcome \in {"none", "refused", "error", "traceback", "ok"}
  /\ pc \in {"leave", "cleanup", "done"} => outcome # "none"

(* What an entry promises of the program that answers for it: the declared *)
(* parts, and no part below the minimum's after equal ones; a part that a  *)
(* version does not have is 0.                                             *)
Part(version, n) == IF n <= Len(version) THEN version[n] ELSE 0

Promised(entry, answer) ==
  /\ answer # NoAnswer
  /\ \A n \in DOMAIN entry.version : n <= Len(answer) /\ answer[n] = entry.version[n]
  /\ entry.minimum # None => \A n \in DOMAIN entry.minimum :
       \/ Part(answer, n) >= entry.minimum[n]
       \/ \E m \in 1..n - 1 : Part(answer, m) # entry.minimum[m]

(***************************************************************************)
(* While the stages run, every entry has its way, whatever the others ask  *)
(* for: its tool's command answers with the declared version and at least  *)
(* the minimum, and if versioned executables were installed for it, all    *)
(* the commands that belong together resolve to them (activate() and       *)
(* verify_installed(); npm must not come from another Node than node).     *)
(***************************************************************************)
StagesSeeDeclared ==
  pc = "stages" => \A k \in DOMAIN entries :
    /\ entries[k].name \in DOMAIN VersionChecks
    /\ Promised(entries[k], Answered(Resolved(VersionChecks[entries[k].name])))
    /\ \A c \in DOMAIN Aliases(entries[k]) : Resolved(c) = Aliases(entries[k])[c]

(***************************************************************************)
(* A declaration that can be met is not refused: there is an assignment of *)
(* programs to commands that gives every entry its executables and every   *)
(* other command what PATH finds, complete, and meets every entry          *)
(* (activate() with verify_installed(), in any order of the entries).      *)
(***************************************************************************)
Selected(command) ==
  {Aliases(entries[k])[command] :
     k \in {j \in DOMAIN entries : command \in DOMAIN Aliases(entries[j])}}

Candidates(command) ==
  IF Selected(command) = {} THEN {Versioned(command, <<>>)} ELSE Selected(command)

CanBeMet ==
  /\ \A k \in DOMAIN entries : WellFormed(entries[k])
  /\ \A k \in DOMAIN entries :
       /\ ~Incomplete(entries[k])
       /\ entries[k].name \in DOMAIN VersionChecks
       /\ \A program \in Candidates(VersionChecks[entries[k].name]) :
            Promised(entries[k], Answered(program))
  /\ \A c \in Commands : \A p, q \in Selected(c) : p = q

RefusalIsJustified == outcome = "refused" => ~CanBeMet

(***************************************************************************)
(* PATH never names a directory that is missing or half filled, and when   *)
(* the run is over, however it ended, it is what it was before             *)
(* (toolchain.py:119, "restored when the pipeline finishes or fails").     *)
(***************************************************************************)
PathIsSafe ==
  /\ path # original => shims # None /\ DOMAIN shims = DOMAIN targets
  /\ pc \in {"cleanup", "done"} => path = original
=============================================================================
