--------------------------- MODULE TransformLedger ---------------------------
(***************************************************************************)
(* What must hold of the fetch and transform stages, and in which sense    *)
(* they implement SourceLedger.                                            *)
(***************************************************************************)
EXTENDS Transform

Alive == phase # "failed"

(***************************************************************************)
(* The type invariant.  An extracted or attached tree always has the       *)
(* artifact it came from, or commit() would drop its edits without a word. *)
(***************************************************************************)
TypeOK ==
  /\ phase \in {"fetch", "transform", "transformed", "failed"}
  /\ error \in Errors
  /\ steps \in Nat
  /\ inputs \subseteq Artifact
  /\ artifacts \subseteq Artifact
  /\ DOMAIN disk \subseteq Paths
  /\ \A p \in DOMAIN disk : disk[p] \in Contents
  /\ DOMAIN stripped \subseteq Names
  /\ \A n \in DOMAIN stripped : stripped[n] \in Contents
  /\ source \in Workspace
  /\ source.layout = "none" <=> source.artifact = None
  /\ source.dirty => source.layout # "none"
  /\ exported \in BOOLEAN

(***************************************************************************)
(* What is verified, audited and emitted is what was hashed: the bytes at  *)
(* the path of every acquired input and of every publication artifact      *)
(* still have the digest taken when the artifact was built, whichever      *)
(* steps wrote to the work directory since (artifact.py, state.py).        *)
(***************************************************************************)
BytesMatchChecksums ==
  Alive => \A a \in inputs \cup artifacts :
             a.path \in DOMAIN disk /\ disk[a.path] = a.checksum

(***************************************************************************)
(* The publication set has one artifact per output name, and keeps one for *)
(* every input acquired (_check_new_output_names, replace_artifact).       *)
(***************************************************************************)
OneArtifactPerName ==
  /\ \A a, b \in artifacts : a.output_name = b.output_name => a = b
  /\ NamesOf(inputs) \subseteq NamesOf(artifacts)

(***************************************************************************)
(* The workspace is backed by the artifact that is published now, never by *)
(* one a filter has replaced: commit() would otherwise put a revision of   *)
(* the old artifact in the place of the new one (source.py, select,        *)
(* adopt_filtered_artifact and commit).                                    *)
(***************************************************************************)
BackingIsPublished == Alive /\ ~Unbound => source.artifact \in artifacts

(***************************************************************************)
(* Acquired inputs stay available to verification: no step drops one or    *)
(* writes on its bytes ("Acquired inputs remain available", state.py).     *)
(***************************************************************************)
InputsArePreserved ==
  [][\A a \in inputs :
       /\ a \in inputs'
       /\ phase' # "failed" => disk'[a.path] = disk[a.path]]_vars

-----------------------------------------------------------------------------

(* The revision of a name: unpublished edits live in the active tree.      *)
Revision(a) ==
  IF source.dirty /\ source.artifact = a THEN source.tree ELSE a.checksum

Ledger ==
  IF Alive THEN [n \in NamesOf(artifacts) |-> Revision(Find(artifacts, n))]
  ELSE [n \in {} |-> EmptyTree]

Active ==
  IF Alive /\ ~Unbound THEN source.artifact.output_name ELSE None

(* Files a run command left in a workspace that nothing else has edited.   *)
Scratch ==
  IF Alive /\ ~Unbound /\ ~source.dirty
    THEN {f \in Files : source.tree[f] # source.artifact.checksum[f]}
    ELSE {}

Released ==
  IF phase = "transformed"
    THEN [n \in NamesOf(artifacts) |-> disk[Find(artifacts, n).path]]
    ELSE [n \in {} |-> EmptyTree]

Promise == INSTANCE SourceLedger WITH
  status <- phase, request <- step, ledger <- Ledger, active <- Active,
  open <- Alive /\ source.dirty, scratch <- Scratch, released <- Released

(***************************************************************************)
(* Every declared edit of a source reaches the archive released for it, a  *)
(* stripped file never comes back, a source switch loses no edit, and      *)
(* nothing but a declared step changes a source (transform steps together  *)
(* with SourceWorkspace).                                                  *)
(***************************************************************************)
ImplementsLedger == Promise!LedgerSpec

-----------------------------------------------------------------------------

(***************************************************************************)
(* README.md:67 and :94: with `subdir', git archives just the              *)
(* subdirectory of the checkout, so every member of the source it backs    *)
(* comes from there.                                                       *)
(***************************************************************************)
SubdirSourceStaysInSubdir ==
  source.layout = "checkout" =>
    Present(source.artifact.checksum) \subseteq DOMAIN SubdirOf
=============================================================================
