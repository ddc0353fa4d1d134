---------------------------- MODULE SourceLedger -----------------------------
(***************************************************************************)
(* What the fetch and transform stages promise about source content, with  *)
(* no directories, archives, digests or dirty bits.                        *)
(*                                                                         *)
(* `ledger' gives every publication artifact its revision: the content a   *)
(* reader of the pipeline file expects it to have after the steps run so   *)
(* far.  A declared edit enters the revision at once and is never lost; a  *)
(* filtered file stays away; nothing else changes a revision, except that  *)
(* a `run' command may write in the active source: into the revision when  *)
(* it already has unpublished edits, else into `scratch', files whose      *)
(* content a later edit of the same source may or may not pick up.  When   *)
(* the stage ends, what is released is exactly the ledger.                 *)
(***************************************************************************)
EXTENDS Artifacts

VARIABLES
  status,    (* "fetch", "transform", "transformed" or "failed"            *)
  request,   (* the step last run, and what its tool wrote                 *)
  ledger,    (* name -> its revision                                       *)
  active,    (* the name of the source being edited, or None               *)
  open,      (* the active source has edits not yet released               *)
  scratch,   (* files of the active source a run command wrote             *)
  released   (* name -> bytes handed on to the later stages                *)

lvars == <<status, request, ledger, active, open, scratch, released>>

Revisions == UNION {[S -> Contents] : S \in SUBSET Names}

NoRevisions == [n \in {} |-> EmptyTree]

LedgerInit ==
  /\ status = "fetch"
  /\ request = Plain("start")
  /\ ledger = NoRevisions
  /\ active = None
  /\ open = FALSE
  /\ scratch = {}
  /\ released = NoRevisions

(* The revision of n may change and names may be added; no other may.      *)
OnlyRevises(n) ==
  /\ DOMAIN ledger \subseteq DOMAIN ledger'
  /\ \A m \in DOMAIN ledger \ {n} : ledger'[m] = ledger[m]

Acquire ==
  /\ status = "fetch" /\ status' = "fetch"
  /\ request' = Plain("acquire")
  /\ OnlyRevises(None)
  /\ \/ active' = active
     \/ active = None /\ active' \in DOMAIN ledger' \ DOMAIN ledger
  /\ UNCHANGED <<open, scratch, released>>

BeginTransform ==
  /\ status = "fetch" /\ status' = "transform"
  /\ request' = Plain("end")
  /\ UNCHANGED <<ledger, active, open, scratch, released>>

(* Files disappear from one revision, and from the tree being edited.      *)
Filter ==
  /\ status = "transform" /\ status' = "transform"
  /\ request'.op = "filter"
  /\ request'.source \in DOMAIN ledger
  /\ ledger' = [ledger EXCEPT ![request'.source] = Without(@, request'.paths)]
  /\ scratch' \subseteq scratch
  /\ UNCHANGED <<active, open, released>>

(* A step may turn to another source only when the active one has no edits *)
(* still to release; the scratch of the source it leaves is gone.          *)
TurnTo(n) ==
  /\ n \in DOMAIN ledger
  /\ n = active \/ ~open
  /\ active' = n

Noise(n) == IF n = active THEN scratch ELSE {}

(* A declared edit, possibly with new artifacts beside it.                 *)
Amend ==
  LET n == request'.source IN
  /\ status = "transform" /\ status' = "transform"
  /\ request'.op = "edit"
  /\ TurnTo(n)
  /\ OnlyRevises(n)
  /\ \A f \in Files \ Noise(n) :
       ledger'[n][f] = Patch(ledger[n], request'.paths, request'.new)[f]
  /\ \/ /\ open'
        /\ scratch' = {}
     \/ /\ open' = (open /\ n = active)
        /\ scratch' = Noise(n)
        /\ ledger'[n] = ledger[n]
  /\ UNCHANGED released

(* An undeclared edit: a command runs in source n.                         *)
Scribble ==
  LET n == request'.source IN
  /\ status = "transform" /\ status' = "transform"
  /\ request'.op = "run"
  /\ TurnTo(n)
  /\ OnlyRevises(n)
  /\ IF open THEN scratch' = {} ELSE ledger'[n] = ledger[n]
  /\ UNCHANGED <<open, released>>

(* New artifacts that touch no source.                                     *)
Derive ==
  /\ status = "transform" /\ status' = "transform"
  /\ request' = Plain("derive")
  /\ OnlyRevises(None)
  /\ UNCHANGED <<active, open, scratch, released>>

Release ==
  /\ status = "transform" /\ status' = "transformed"
  /\ request' = Plain("end")
  /\ open' = FALSE
  /\ released' = ledger
  /\ UNCHANGED <<ledger, active, scratch>>

Abort ==
  /\ status \in {"fetch", "transform"} /\ status' = "failed"
  /\ request' = Plain("end")
  /\ ledger' = NoRevisions
  /\ active' = None
  /\ open' = FALSE
  /\ scratch' = {}
  /\ UNCHANGED released

LedgerNext ==
  /\ \/ Acquire
     \/ BeginTransform
     \/ Filter
     \/ Amend
     \/ Scribble
     \/ Derive
     \/ Release
     \/ Abort
  /\ ledger' \in Revisions

LedgerSpec == LedgerInit /\ [][LedgerNext]_lvars
=============================================================================
