------------------------------ MODULE Artifacts ------------------------------
(***************************************************************************)
(* The data gorget moves around, shared by the modules of the fetch and    *)
(* transform stages.                                                       *)
(*                                                                         *)
(* A tree of files, and the archive made of one, is a function from file   *)
(* paths to what the file holds; a digest (sha512 in the code) identifies  *)
(* that function, so a checksum IS the content it was computed from.       *)
(***************************************************************************)
EXTENDS Naturals, FiniteSets

CONSTANTS
  Names,    (* artifact output names                                       *)
  Files,    (* paths in a source tree, which are also archive members      *)
  Values,   (* what a file can hold                                        *)
  Absent,   (* stands in a tree for a file that does not exist             *)
  None      (* Python's None                                               *)

ASSUME AbsentAssumption == Absent \notin Values

Contents == [Files -> Values \cup {Absent}]

Present(c) == {f \in Files : c[f] # Absent}

Without(c, removed) == [f \in Files |-> IF f \in removed THEN Absent ELSE c[f]]

(* The files of `paths' take their value from `new'.                       *)
Patch(c, paths, new) == [f \in Files |-> IF f \in paths THEN new[f] ELSE c[f]]

(* Extracting an archive into a directory that may already hold files.     *)
ExtractOver(old, archive) == Patch(old, Present(archive), archive)

EmptyTree == [f \in Files |-> Absent]

(***************************************************************************)
(* Where an artifact's bytes live.  Inputs are work_dir/<name>; derived    *)
(* ones are work_dir/_derived/<producer>[/<parent digest>]/<name>.         *)
(***************************************************************************)
Producers == {"input", "strip-tarball", "source", "vendor", "vendor-output",
              "run", "pack"}

Paths == [producer : Producers, revision : Contents \cup {None}, name : Names]

InputPath(n) == [producer |-> "input", revision |-> None, name |-> n]

(* Faulty variant: derived archives share the inputs' directory.           *)
DerivedPath_InWorkDir(producer, revision, n) == InputPath(n)

DerivedPath(producer, revision, n) ==
  [producer |-> producer, revision |-> revision, name |-> n]

Artifact == [path : Paths, output_name : Names, checksum : Contents,
             kind : {"input", "derived"}]

(* Building an artifact hashes the bytes found at its path.                *)
BuildInput(path, n, bytes) ==
  [path |-> path, output_name |-> n, checksum |-> bytes, kind |-> "input"]

BuildDerived(path, n, bytes) ==
  [path |-> path, output_name |-> n, checksum |-> bytes, kind |-> "derived"]

NamesOf(arts) == {a.output_name : a \in arts}

Find(arts, n) == CHOOSE a \in arts : a.output_name = n

(***************************************************************************)
(* A step as the pipeline saw it: "filter" removed `paths' from `source';  *)
(* "edit" gave them the values of `new'; "run" ran a command in `source';  *)
(* "derive" and "acquire" only made artifacts; "end" closed a stage.       *)
(***************************************************************************)
Step(op, target, paths, new) ==
  [op |-> op, source |-> target, paths |-> paths, new |-> new]

Plain(op) == Step(op, None, {}, EmptyTree)

(* Writing bytes at a path replaces whatever file was there.               *)
Write(disk, path, bytes) ==
  [p \in DOMAIN disk \cup {path} |-> IF p = path THEN bytes ELSE disk[p]]
=============================================================================
