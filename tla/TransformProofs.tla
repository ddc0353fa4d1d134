--------------------------- MODULE TransformProofs ---------------------------
(***************************************************************************)
(* The invariants of the fetch and transform stages, and that they         *)
(* implement SourceLedger: for every pipeline file, every size of the      *)
(* constants and every behaviour of the tools.                             *)
(***************************************************************************)
EXTENDS TransformLedger, TLAPS

(***************************************************************************)
(* Why a step's writes leave other artifacts alone: the path of an         *)
(* artifact carries its name, names are unique, and only acquired inputs   *)
(* lie outside the derivation directories.                                 *)
(***************************************************************************)
PathsAreOwned ==
  /\ \A a \in inputs \cup artifacts : a.path.name = a.output_name
  /\ \A a \in inputs : a.path.producer = "input"

IInv ==
  /\ TypeOK
  /\ OneArtifactPerName
  /\ PathsAreOwned
  /\ BytesMatchChecksums
  /\ BackingIsPublished

-----------------------------------------------------------------------------

(* The operators on contents return contents.                              *)
LEMMA ContentOperators ==
  ASSUME NEW c \in Contents, NEW new \in Contents, NEW files
  PROVE  /\ Without(c, files) \in Contents
         /\ Patch(c, files, new) \in Contents
         /\ EmptyTree \in Contents
         /\ ExtractOver(c, new) \in Contents
         /\ \A subdir \in BOOLEAN : ArchiveOf(c, subdir) \in Contents
<1>1. Without(c, files) \in Contents
  BY DEF Contents, Without
<1>2. ASSUME NEW paths PROVE Patch(c, paths, new) \in Contents
  BY DEF Contents, Patch
<1>3. EmptyTree \in Contents
  BY DEF Contents, EmptyTree
<1>4. ExtractOver(c, new) \in Contents
  BY <1>2 DEF ExtractOver
<1>5. ASSUME NEW subdir \in BOOLEAN PROVE ArchiveOf(c, subdir) \in Contents
  BY SubdirAssumption DEF ArchiveOf, Contents
<1>6. QED
  BY <1>1, <1>2, <1>3, <1>4, <1>5

(* Looking a published name up yields the artifact of that name.           *)
LEMMA FindFacts ==
  ASSUME NEW arts, NEW n \in NamesOf(arts)
  PROVE  Find(arts, n) \in arts /\ Find(arts, n).output_name = n
BY DEF Find, NamesOf

(* Artifacts built from typed parts are typed, and own their paths.        *)
LEMMA BuildFacts ==
  ASSUME NEW n \in Names, NEW bytes \in Contents, NEW rev \in Contents \cup {None},
         NEW producer \in Producers
  PROVE  /\ BuildInput(InputPath(n), n, bytes) \in Artifact
         /\ DerivedPath(producer, rev, n) \in Paths
         /\ InputPath(n) \in Paths
         /\ BuildDerived(DerivedPath(producer, rev, n), n, bytes) \in Artifact
BY DEF BuildInput, BuildDerived, InputPath, DerivedPath, Paths, Producers, Artifact

(* Selecting a source yields a typed workspace backed by a published       *)
(* artifact.                                                               *)
LEMMA SelectFacts ==
  ASSUME IInv, Alive, NEW target \in Targets, CanSelect(target)
  PROVE  /\ Select(target) \in Workspace
         /\ Select(target).layout # "none"
         /\ Select(target).artifact \in artifacts
         /\ Select(target).artifact \in Artifact
<1>1. ASSUME NEW a \in artifacts
      PROVE  /\ Extracted(a) \in Workspace
             /\ Extracted(a).layout = "archive"
             /\ Extracted(a).artifact = a
  <2>1. disk[a.path] \in Contents
    BY Alive DEF IInv, TypeOK, BytesMatchChecksums
  <2>2. a \in Artifact
    BY DEF IInv, TypeOK
  <2>3. QED
    BY <2>1, <2>2 DEF IInv, TypeOK, Extracted, Workspace, Layouts
<1>2. CASE target = None /\ Unbound
  <2>1. (CHOOSE a \in artifacts : TRUE) \in artifacts
    BY <1>2 DEF CanSelect
  <2>2. QED
    BY <1>1, <1>2, <2>1 DEF Select, IInv, TypeOK
<1>3. CASE target = None /\ ~Unbound
  BY <1>3 DEF Select, Unbound, IInv, TypeOK, BackingIsPublished
<1>4. CASE target # None
  <2>1. Published(target)
    BY <1>4 DEF CanSelect
  <2>2. Find(artifacts, target) \in artifacts
    BY <2>1, FindFacts DEF Published
  <2>3. CASE IsActive(target)
    BY <1>4, <2>3, <2>2 DEF Select, IsActive, Unbound, IInv, TypeOK
  <2>4. CASE ~IsActive(target)
    BY <1>1, <1>4, <2>2, <2>4 DEF Select, IInv, TypeOK
  <2>5. QED
    BY <2>3, <2>4
<1>5. QED
  BY <1>2, <1>3, <1>4

-----------------------------------------------------------------------------

(* A failing step keeps the invariant whatever it added to the report.     *)
LEMMA FailKeeps ==
  ASSUME IInv, NEW reason \in Errors, Fail(reason),
         artifacts' \subseteq Artifact, OneArtifactPerName', PathsAreOwned'
  PROVE  IInv'
<1>1. phase' = "failed" /\ error' = reason /\ UNCHANGED <<steps, inputs, source, exported>>
  BY DEF Fail
<1>2. DOMAIN disk' = {} /\ DOMAIN stripped' = {}
  BY DEF Fail
<1>3. TypeOK'
  BY <1>1, <1>2 DEF IInv, TypeOK
<1>4. BytesMatchChecksums' /\ BackingIsPublished'
  BY <1>1 DEF BytesMatchChecksums, BackingIsPublished, Alive
<1>5. QED
  BY <1>3, <1>4 DEF IInv

(* A failing step that added nothing keeps the invariant.                  *)
LEMMA FailUnchangedKeeps ==
  ASSUME IInv, NEW reason \in Errors, FailUnchanged(reason)
  PROVE  IInv'
<1>1. Fail(reason) /\ UNCHANGED artifacts
  BY DEF FailUnchanged
<1>2. UNCHANGED inputs
  BY <1>1 DEF Fail
<1>3. artifacts' \subseteq Artifact /\ OneArtifactPerName' /\ PathsAreOwned'
  BY <1>1, <1>2 DEF IInv, TypeOK, OneArtifactPerName, PathsAreOwned, NamesOf
<1>4. QED
  BY <1>1, <1>3, FailKeeps

-----------------------------------------------------------------------------

(* A set of new artifacts that may join the publication set.               *)
Joinable(added) ==
  /\ added \subseteq Artifact
  /\ \A a \in added : a.path.name = a.output_name
  /\ \A a, b \in added : a.output_name = b.output_name => a = b
  /\ Unclaimed(NamesOf(added))

(* Adding artifacts keeps names unique and paths owned.                    *)
LEMMA JoinFacts ==
  ASSUME IInv, NEW added, Joinable(added), NEW more \in SUBSET added,
         \A a \in more : a.path.producer = "input",
         artifacts' = artifacts \cup added, inputs' = inputs \cup more
  PROVE  OneArtifactPerName' /\ PathsAreOwned'
<1>1. ASSUME NEW a \in artifacts, NEW b \in added PROVE a.output_name # b.output_name
  BY DEF Joinable, Unclaimed, NamesOf
<1>2. \A a, b \in artifacts' : a.output_name = b.output_name => a = b
  BY <1>1 DEF IInv, OneArtifactPerName, Joinable
<1>3. NamesOf(inputs') \subseteq NamesOf(artifacts')
  BY DEF IInv, OneArtifactPerName, NamesOf
<1>4. PathsAreOwned'
  BY DEF IInv, PathsAreOwned, Joinable
<1>5. QED
  BY <1>2, <1>3, <1>4 DEF OneArtifactPerName, NamesOf

(* Writing new artifacts gives each its bytes and leaves the rest alone.   *)
LEMMA WriteAllFacts ==
  ASSUME IInv, Alive, NEW added, Joinable(added), disk' = WriteAll(added)
  PROVE  /\ DOMAIN disk' \subseteq Paths
         /\ \A p \in DOMAIN disk' : disk'[p] \in Contents
         /\ \A a \in added : a.path \in DOMAIN disk' /\ disk'[a.path] = a.checksum
         /\ \A a \in inputs \cup artifacts :
              /\ a.path \in DOMAIN disk'
              /\ disk'[a.path] = a.checksum
<1>1. DOMAIN disk' = DOMAIN disk \cup {a.path : a \in added}
  BY DEF WriteAll
<1>2. ASSUME NEW a \in added PROVE disk'[a.path] = a.checksum
  <2>1. \A b \in added : b.path = a.path => b = a
    BY DEF Joinable
  <2>2. (CHOOSE b \in added : b.path = a.path) = a
    BY <2>1
  <2>3. QED
    BY <1>1, <2>2 DEF WriteAll
<1>3. ASSUME NEW a \in inputs \cup artifacts, NEW b \in added PROVE b.path # a.path
  <2>1. a.output_name \in NamesOf(artifacts)
    BY DEF IInv, OneArtifactPerName, NamesOf
  <2>2. a.path.name = a.output_name /\ b.path.name = b.output_name
    BY DEF IInv, PathsAreOwned, Joinable
  <2>3. b.output_name \notin NamesOf(artifacts)
    BY DEF Joinable, Unclaimed, NamesOf
  <2>4. QED
    BY <2>1, <2>2, <2>3
<1>4. ASSUME NEW a \in inputs \cup artifacts
      PROVE  a.path \in DOMAIN disk' /\ disk'[a.path] = a.checksum
  <2>1. a.path \in DOMAIN disk /\ disk[a.path] = a.checksum
    BY DEF IInv, BytesMatchChecksums
  <2>2. QED
    BY <1>1, <1>3, <2>1 DEF WriteAll
<1>5. ASSUME NEW p \in DOMAIN disk' PROVE p \in Paths /\ disk'[p] \in Contents
  <2>1. CASE \E a \in added : a.path = p
    BY <1>2, <2>1 DEF Joinable, Artifact
  <2>2. CASE ~\E a \in added : a.path = p
    BY <1>1, <2>2 DEF WriteAll, IInv, TypeOK
  <2>3. QED
    BY <2>1, <2>2
<1>6. QED
  BY <1>1, <1>2, <1>4, <1>5

(* Artifacts built from unclaimed names may join.                          *)
LEMMA BuiltFacts ==
  ASSUME NEW producer \in Producers, NEW ns \in SUBSET Names, NEW bytes \in Contents
  PROVE  /\ Built(producer, ns, bytes) \subseteq Artifact
         /\ NamesOf(Built(producer, ns, bytes)) = ns
         /\ \A a \in Built(producer, ns, bytes) : a.path.name = a.output_name
         /\ Unclaimed(ns) => Joinable(Built(producer, ns, bytes))
<1>1. Built(producer, ns, bytes) \subseteq Artifact
  BY BuildFacts DEF Built
<1>2. \A a \in Built(producer, ns, bytes) : a.path.name = a.output_name
  BY DEF Built, BuildDerived, DerivedPath
<1>3. NamesOf(Built(producer, ns, bytes)) = ns
  <2> DEFINE One(n) == BuildDerived(DerivedPath(producer, None, n), n, bytes)
  <2>1. \A n : One(n).output_name = n
    BY DEF BuildDerived
  <2>2. Built(producer, ns, bytes) = {One(n) : n \in ns}
    BY DEF Built
  <2> HIDE DEF One
  <2>3. QED
    BY <2>1, <2>2 DEF NamesOf
<1>4. \A a, b \in Built(producer, ns, bytes) : a.output_name = b.output_name => a = b
  BY DEF Built, BuildDerived
<1>5. QED
  BY <1>1, <1>2, <1>3, <1>4 DEF Joinable

(* Putting a new artifact in the place of the published one of its name.   *)
LEMMA ReplaceFacts ==
  ASSUME IInv, NEW new \in Artifact, NEW old \in artifacts,
         old.output_name = new.output_name
  PROVE  /\ Replace(new) \subseteq Artifact
         /\ new \in Replace(new)
         /\ NamesOf(Replace(new)) = NamesOf(artifacts)
         /\ \A a \in Replace(new) :
              a = new \/ (a \in artifacts /\ a.output_name # new.output_name)
         /\ \A a \in artifacts : a = old \/ a \in Replace(new)
<1>1. \A a \in Replace(new) :
        a = new \/ (a \in artifacts /\ a.output_name # new.output_name)
  BY DEF Replace
<1>2. new \in Replace(new)
  BY DEF Replace
<1>3. \A a \in artifacts : a = old \/ a \in Replace(new)
  BY DEF Replace, IInv, OneArtifactPerName
<1>4. NamesOf(Replace(new)) = NamesOf(artifacts)
  BY DEF NamesOf, Replace
<1>5. QED
  BY <1>1, <1>2, <1>3, <1>4 DEF IInv, TypeOK

(* Replacing keeps names unique and paths owned.                           *)
LEMMA ReplaceKeeps ==
  ASSUME IInv, NEW new \in Artifact, NEW old \in artifacts,
         old.output_name = new.output_name, new.path.name = new.output_name,
         artifacts' = Replace(new), inputs' = inputs
  PROVE  artifacts' \subseteq Artifact /\ OneArtifactPerName' /\ PathsAreOwned'
<1>1. \A a, b \in artifacts' : a.output_name = b.output_name => a = b
  BY ReplaceFacts DEF IInv, OneArtifactPerName
<1>2. NamesOf(inputs') \subseteq NamesOf(artifacts')
  BY ReplaceFacts DEF IInv, OneArtifactPerName
<1>3. PathsAreOwned'
  BY ReplaceFacts DEF IInv, PathsAreOwned
<1>4. QED
  BY <1>1, <1>2, <1>3, ReplaceFacts DEF OneArtifactPerName, NamesOf

(* Writing a replacement in a derivation directory of its own.             *)
LEMMA WriteFacts ==
  ASSUME IInv, Alive, NEW new \in Artifact, NEW old \in artifacts,
         old.output_name = new.output_name, new.path.name = new.output_name,
         new.path.producer # "input", disk' = Write(disk, new.path, new.checksum)
  PROVE  /\ DOMAIN disk' \subseteq Paths
         /\ \A p \in DOMAIN disk' : disk'[p] \in Contents
         /\ \A a \in inputs \cup Replace(new) :
              a.path \in DOMAIN disk' /\ disk'[a.path] = a.checksum
         /\ \A a \in inputs : disk'[a.path] = disk[a.path]
<1>1. DOMAIN disk' = DOMAIN disk \cup {new.path}
  BY DEF Write
<1>2. ASSUME NEW a \in inputs \cup artifacts, a \in inputs \/ a.output_name # new.output_name
      PROVE  /\ a.path \in DOMAIN disk' /\ disk'[a.path] = a.checksum
             /\ disk'[a.path] = disk[a.path]
  <2>1. a.path # new.path
    BY <1>2 DEF IInv, PathsAreOwned
  <2>2. QED
    BY <1>1, <2>1 DEF Write, IInv, BytesMatchChecksums
<1>3. new.path \in DOMAIN disk' /\ disk'[new.path] = new.checksum
  BY <1>1 DEF Write
<1>4. ASSUME NEW p \in DOMAIN disk' PROVE p \in Paths /\ disk'[p] \in Contents
  BY <1>1 DEF Write, IInv, TypeOK, Artifact
<1>5. QED
  BY <1>2, <1>3, <1>4, ReplaceFacts

-----------------------------------------------------------------------------

(* Editing declared files keeps the workspace typed and backed.            *)
LEMMA ApplyFacts ==
  ASSUME NEW ws \in Workspace, NEW paths, NEW new \in Contents
  PROVE  /\ ApplyChanges(ws, paths, new) \in Workspace
         /\ ApplyChanges(ws, paths, new).layout = ws.layout
         /\ ApplyChanges(ws, paths, new).artifact = ws.artifact
<1>1. Patch(ws.tree, paths, new) \in Contents
  BY ContentOperators DEF Workspace
<1>2. QED
  BY <1>1 DEF ApplyChanges, Workspace

(* What every fetch and transform step that adds artifacts has in common.  *)
LEMMA AdditionKeeps ==
  ASSUME IInv, Alive, Alive', NEW added, Joinable(added), NEW more \in SUBSET added,
         \A a \in more : a.path.producer = "input",
         artifacts' = artifacts \cup added, inputs' = inputs \cup more,
         disk' = WriteAll(added), UNCHANGED <<phase, error, stripped>>,
         steps' \in Nat, exported' \in BOOLEAN, source' \in Workspace,
         source'.layout = "none" <=> source'.artifact = None,
         source'.dirty => source'.layout # "none",
         source'.layout # "none" => source'.artifact \in artifacts'
  PROVE  IInv'
<1>1. OneArtifactPerName' /\ PathsAreOwned'
  BY JoinFacts
<1>2. TypeOK'
  BY WriteAllFacts DEF IInv, TypeOK, Joinable
<1>3. BytesMatchChecksums'
  BY WriteAllFacts DEF BytesMatchChecksums, IInv
<1>4. BackingIsPublished'
  BY DEF BackingIsPublished, Unbound
<1>5. QED
  BY <1>1, <1>2, <1>3, <1>4 DEF IInv

(* `git' keeps the invariant: the archive joins the set, and the checkout  *)
(* may become the workspace it backs.                                      *)
LEMMA GitKeeps ==
  ASSUME IInv, NEW n \in Names, NEW tree \in Upstream, NEW opt \in GitOptions,
         Git(n, tree, opt)
  PROVE  IInv'
<1> DEFINE bytes == ArchiveOf(tree, opt.subdir)
           art == BuildInput(InputPath(n), n, bytes)
<1>1. tree \in Contents /\ opt.subdir \in BOOLEAN /\ opt.exported \in BOOLEAN
  BY UpstreamAssumption, GitAssumption
<1>2. bytes \in Contents
  BY <1>1, ContentOperators
<1>3. /\ art \in Artifact
      /\ art.path = InputPath(n) /\ art.output_name = n /\ art.checksum = bytes
      /\ art.path.name = n /\ art.path.producer = "input"
  BY <1>2, BuildFacts DEF BuildInput, InputPath, Producers
<1>4. /\ Alive /\ Alive' /\ Unclaimed({n})
      /\ inputs' = inputs \cup {art} /\ artifacts' = artifacts \cup {art}
      /\ disk' = Write(disk, art.path, bytes)
      /\ phase' = phase /\ error' = error /\ steps' = steps + 1 /\ stripped' = stripped
  BY DEF Git, AddInputs, Continue, InStage, Alive
<1> HIDE DEF art
<1>5. NamesOf({art}) = {n}
  BY <1>3 DEF NamesOf
<1>6. Joinable({art})
  BY <1>3, <1>4, <1>5 DEF Joinable
<1>7. disk' = WriteAll({art})
  BY <1>3, <1>4 DEF Write, WriteAll
<1>8. CASE source.layout = "none"
  <2>1. /\ source' = [layout |-> "checkout", tree |-> tree, artifact |-> art, dirty |-> FALSE]
        /\ exported' = opt.exported
    BY <1>8 DEF Git, art
  <2>2. source' \in Workspace /\ art # None
    BY <1>1, <1>3, <2>1, NoneAssumption DEF Workspace, Layouts
  <2>3. /\ source'.layout = "none" <=> source'.artifact = None
        /\ source'.dirty => source'.layout # "none"
        /\ source'.layout # "none" => source'.artifact \in artifacts'
        /\ steps' \in Nat /\ exported' \in BOOLEAN
    BY <1>1, <1>4, <2>1, <2>2 DEF IInv, TypeOK
  <2>4. {art} \in SUBSET {art} /\ \A a \in {art} : a.path.producer = "input"
    BY <1>3
  <2>5. QED
    BY <1>4, <1>6, <1>7, <2>2, <2>3, <2>4, AdditionKeeps
<1>9. CASE source.layout # "none"
  <2>1. UNCHANGED <<source, exported>>
    BY <1>9 DEF Git
  <2>2. /\ source' \in Workspace /\ steps' \in Nat /\ exported' \in BOOLEAN
        /\ source'.layout = "none" <=> source'.artifact = None
        /\ source'.dirty => source'.layout # "none"
    BY <1>4, <2>1 DEF IInv, TypeOK
  <2>3. source'.layout # "none" => source'.artifact \in artifacts'
    BY <1>4, <2>1 DEF IInv, BackingIsPublished, Unbound
  <2>4. {art} \in SUBSET {art} /\ \A a \in {art} : a.path.producer = "input"
    BY <1>3
  <2>5. QED
    BY <1>4, <1>6, <1>7, <2>2, <2>3, <2>4, AdditionKeeps
<1>10. QED
  BY <1>8, <1>9

(* `url' and `spec-source' keep the invariant.                             *)
LEMMA DownloadKeeps ==
  ASSUME IInv, NEW k \in 1..MaxSources, NEW ns \in [1..k -> Names],
         NEW contents \in [1..k -> Upstream], Download(ns, contents)
  PROVE  IInv'
<1> DEFINE Art(i) == BuildInput(InputPath(ns[i]), ns[i], contents[i])
           added == {Art(i) : i \in 1..k}
<1>1. ASSUME NEW i \in 1..k
      PROVE  /\ Art(i) \in Artifact /\ Art(i).output_name = ns[i]
             /\ Art(i).path.name = ns[i] /\ Art(i).path.producer = "input"
  BY BuildFacts, UpstreamAssumption DEF BuildInput, InputPath, Producers
<1>2. /\ Alive /\ Alive' /\ Unclaimed(Range(ns)) /\ IsInjective(ns)
      /\ inputs' = inputs \cup added /\ artifacts' = artifacts \cup added
      /\ disk' = WriteAll(added)
      /\ UNCHANGED <<phase, error, stripped, source, exported>> /\ steps' = steps + 1
  BY DEF Download, NewNames, AddInputs, Continue, InStage, Alive
<1> HIDE DEF Art
<1>3. Joinable(added)
  <2>1. \A i, j \in 1..k : ns[i] = ns[j] => i = j
    BY <1>2 DEF IsInjective
  <2>2. NamesOf(added) \subseteq Range(ns)
    BY <1>1 DEF NamesOf, Range
  <2>3. QED
    BY <1>1, <1>2, <2>1, <2>2 DEF Joinable, Unclaimed
<1>4. /\ source' \in Workspace /\ steps' \in Nat /\ exported' \in BOOLEAN
      /\ source'.layout = "none" <=> source'.artifact = None
      /\ source'.dirty => source'.layout # "none"
      /\ source'.layout # "none" => source'.artifact \in artifacts'
  BY <1>2 DEF IInv, TypeOK, BackingIsPublished, Unbound
<1>5. added \in SUBSET added /\ \A a \in added : a.path.producer = "input"
  BY <1>1
<1> HIDE DEF added
<1>6. QED
  BY <1>2, <1>3, <1>4, <1>5, AdditionKeeps

(* `strip-tarball' keeps the invariant: a workspace the target backs moves *)
(* to the filtered archive, even when the run then fails.                  *)
LEMMA StripKeeps ==
  ASSUME IInv, NEW target \in Targets, NEW pattern \in SUBSET Files,
         NEW match \in Matches, StripTarball(target, pattern, match)
  PROVE  IInv'
<1> DEFINE art       == StripTarget(target)
           n         == art.output_name
           extracted == StripExtraction(art)
           removed   == IF match = "files" THEN pattern \cap Present(extracted) ELSE pattern
           kept      == Without(extracted, removed)
           path      == DerivedPath("strip-tarball", art.checksum, n)
           derived   == BuildDerived(path, n, kept)
<1>1. Alive /\ CanStrip(target)
  BY DEF StripTarball, InStage, Alive
<1>2. art \in artifacts /\ art \in Artifact
  BY <1>1, FindFacts DEF CanStrip, StripTarget, Published, IInv, TypeOK
<1>3. extracted \in Contents
  <2>1. disk[art.path] \in Contents
    BY <1>1, <1>2 DEF IInv, TypeOK, BytesMatchChecksums
  <2>2. QED
    BY <2>1, ContentOperators DEF StripExtraction, IInv, TypeOK
<1>4. kept \in Contents
  BY <1>3, ContentOperators
<1>5. n \in Names /\ art.checksum \in Contents
  BY <1>2 DEF Artifact
<1>6. /\ derived \in Artifact /\ derived.output_name = n /\ derived.checksum = kept
      /\ derived.path = path /\ path.name = n /\ path.producer = "strip-tarball"
  BY <1>4, <1>5, BuildFacts DEF BuildDerived, DerivedPath, Producers
<1>7. CASE Fail("root") /\ artifacts' = Replace(derived)
  <2>1. UNCHANGED inputs
    BY <1>7 DEF Fail
  <2>2. artifacts' \subseteq Artifact /\ OneArtifactPerName' /\ PathsAreOwned'
    BY <1>2, <1>6, <1>7, <2>1, ReplaceKeeps
  <2>3. QED
    BY <1>7, <2>2, FailKeeps DEF Errors
<1>8. CASE ~(match = "root" /\ source.layout = "checkout" /\ source.artifact = art)
  <2>1. /\ artifacts' = Replace(derived) /\ disk' = Write(disk, path, kept)
        /\ stripped' = Write(stripped, n, kept)
        /\ source' = Adopt(art, derived, removed)
        /\ UNCHANGED <<phase, error, inputs, exported>> /\ steps' = steps + 1
    BY <1>8 DEF StripTarball, Continue
  <2> HIDE DEF derived, removed, kept, extracted, path, n, art
  <2>2. OneArtifactPerName' /\ PathsAreOwned' /\ artifacts' \subseteq Artifact
    BY <1>2, <1>6, <2>1, ReplaceKeeps, n = art.output_name DEF n
  <2>3. /\ DOMAIN disk' \subseteq Paths
        /\ \A p \in DOMAIN disk' : disk'[p] \in Contents
        /\ \A a \in inputs \cup Replace(derived) :
              a.path \in DOMAIN disk' /\ disk'[a.path] = a.checksum
    BY <1>1, <1>2, <1>6, <2>1, WriteFacts, n = art.output_name DEF n
  <2>4. DOMAIN stripped' \subseteq Names /\ \A m \in DOMAIN stripped' : stripped'[m] \in Contents
    BY <1>4, <1>5, <2>1 DEF Write, IInv, TypeOK
  <2>5. /\ source' \in Workspace /\ source'.layout = source.layout
        /\ source'.dirty = source.dirty
        /\ source'.artifact = IF ~Unbound /\ source.artifact = art THEN derived
                              ELSE source.artifact
    <3>1. Without(source.tree, removed) \in Contents
      BY ContentOperators DEF IInv, TypeOK, Workspace
    <3>2. QED
      BY <1>6, <2>1, <3>1 DEF Adopt, Workspace, IInv, TypeOK
  <2>6. derived # None
    BY <1>6, NoneAssumption
  <2>7. source'.layout # "none" => source'.artifact \in artifacts'
    BY <1>1, <1>2, <1>6, <2>1, <2>5, ReplaceFacts, n = art.output_name
       DEF IInv, BackingIsPublished, Unbound, n
  <2>8. TypeOK'
    BY <2>1, <2>2, <2>3, <2>4, <2>5, <2>6 DEF IInv, TypeOK, Unbound
  <2>9. QED
    BY <2>1, <2>2, <2>3, <2>7, <2>8
       DEF IInv, BytesMatchChecksums, BackingIsPublished, Unbound
<1>9. QED
  BY <1>7, <1>8 DEF StripTarball

(* `vendor-bump' keeps the invariant: it edits the tree and nothing else.  *)
LEMMA BumpKeeps ==
  ASSUME IInv, NEW paths \in SUBSET Files, NEW new \in Contents, VendorBump(paths, new)
  PROVE  IInv'
<1>1. /\ Alive /\ Alive' /\ CanSelect(None)
      /\ source' = ApplyChanges(Select(None), paths, new)
      /\ UNCHANGED <<phase, error, inputs, artifacts, disk, stripped, exported>>
      /\ steps' = steps + 1
  BY DEF VendorBump, Continue, InStage, Alive
<1>2. /\ Select(None) \in Workspace /\ Select(None).layout # "none"
      /\ Select(None).artifact \in artifacts /\ Select(None).artifact \in Artifact
  BY <1>1, SelectFacts DEF Targets
<1>3. /\ source' \in Workspace /\ source'.layout # "none"
      /\ source'.artifact \in artifacts /\ source'.artifact # None
  BY <1>1, <1>2, ApplyFacts, NoneAssumption
<1>4. TypeOK'
  BY <1>1, <1>3 DEF IInv, TypeOK
<1>5. OneArtifactPerName' /\ PathsAreOwned' /\ BytesMatchChecksums'
  BY <1>1 DEF IInv, OneArtifactPerName, PathsAreOwned, BytesMatchChecksums, NamesOf, Alive
<1>6. BackingIsPublished'
  BY <1>1, <1>3 DEF BackingIsPublished
<1>7. QED
  BY <1>4, <1>5, <1>6 DEF IInv

(* Steps that add derived artifacts and leave a selected source behind.    *)
LEMMA DerivationKeeps ==
  ASSUME IInv, Alive, NEW built, Joinable(built), AddDerived(built),
         disk' = WriteAll(built), UNCHANGED <<phase, error, stripped, exported>>,
         steps' \in Nat,
         \/ source' = source
         \/ /\ source' \in Workspace /\ source'.layout # "none"
            /\ source'.artifact \in artifacts
  PROVE  IInv'
<1>1. Alive' /\ artifacts' = artifacts \cup built /\ inputs' = inputs \cup {}
  BY DEF Alive, AddDerived
<1>2. /\ source' \in Workspace /\ exported' \in BOOLEAN
      /\ source'.layout = "none" <=> source'.artifact = None
      /\ source'.dirty => source'.layout # "none"
      /\ source'.layout # "none" => source'.artifact \in artifacts'
  BY <1>1, NoneAssumption DEF IInv, TypeOK, BackingIsPublished, Unbound
<1>3. {} \in SUBSET built /\ \A a \in {} : a.path.producer = "input"
  OBVIOUS
<1>4. QED
  BY <1>1, <1>2, <1>3, AdditionKeeps

(* `vendor' keeps the invariant: archive and retained outputs join, and the *)
(* workspace is the selected one with its metadata copied back.            *)
LEMMA VendorKeeps ==
  ASSUME IInv, NEW target \in Targets, NEW n \in Names, NEW outs \in SUBSET Names,
         NEW copy \in Contents, NEW declared \in SUBSET Files,
         Vendor(target, n, outs, copy, declared)
  PROVE  IInv'
<1> DEFINE archive == Built("vendor", {n}, copy)
           outputs == Built("vendor-output", outs, copy)
<1>1. /\ Alive /\ CanSelect(target) /\ n \notin outs /\ Unclaimed({n} \cup outs)
      /\ AddDerived(archive \cup outputs) /\ disk' = WriteAll(archive \cup outputs)
      /\ source' = ApplyChanges(Select(target), declared, copy)
      /\ UNCHANGED <<phase, error, stripped, exported>> /\ steps' = steps + 1
  BY DEF Vendor, Continue, InStage, Alive
<1>2. /\ {n} \in SUBSET Names /\ Unclaimed({n}) /\ Unclaimed(outs)
      /\ "vendor" \in Producers /\ "vendor-output" \in Producers
  BY <1>1 DEF Unclaimed, Producers
<1>3. Joinable(archive) /\ NamesOf(archive) = {n}
  BY <1>2, BuiltFacts
<1>4. Joinable(outputs) /\ NamesOf(outputs) = outs
  BY <1>2, BuiltFacts
<1> HIDE DEF archive, outputs
<1>5. Joinable(archive \cup outputs)
  BY <1>1, <1>3, <1>4 DEF Joinable, Unclaimed, NamesOf
<1>6. source' \in Workspace /\ source'.layout # "none" /\ source'.artifact \in artifacts
  BY <1>1, SelectFacts, ApplyFacts
<1>7. steps' \in Nat
  BY <1>1 DEF IInv, TypeOK
<1> DEFINE built == archive \cup outputs
<1>8. /\ AddDerived(built) /\ disk' = WriteAll(built) /\ Joinable(built)
      /\ UNCHANGED <<phase, error, stripped, exported>>
  BY <1>1, <1>5
<1> HIDE DEF built
<1>9. QED
  BY <1>1, <1>6, <1>7, <1>8, DerivationKeeps

(* `run' in the active workspace keeps the invariant.                      *)
LEMMA RunInSourceKeeps ==
  ASSUME IInv, NEW outs \in SUBSET Names, NEW after \in Contents, RunInSource(outs, after)
  PROVE  IInv'
<1>1. /\ Alive /\ CanSelect(None) /\ Unclaimed(outs)
      /\ AddDerived(Built("run", outs, after)) /\ disk' = WriteAll(Built("run", outs, after))
      /\ source' = [Select(None) EXCEPT !.tree = after]
      /\ UNCHANGED <<phase, error, stripped, exported>> /\ steps' = steps + 1
  BY DEF RunInSource, Continue, InStage, Alive
<1>2. Joinable(Built("run", outs, after))
  BY <1>1, BuiltFacts DEF Producers
<1>3. /\ Select(None) \in Workspace /\ Select(None).layout # "none"
      /\ Select(None).artifact \in artifacts
  BY <1>1, SelectFacts DEF Targets
<1>4. source' \in Workspace /\ source'.layout # "none" /\ source'.artifact \in artifacts
  BY <1>1, <1>3 DEF Workspace
<1>5. QED
  BY <1>1, <1>2, <1>4, DerivationKeeps DEF IInv, TypeOK

(* `run' in a detached extraction and `pack' keep the invariant.           *)
LEMMA MakeOutputsKeeps ==
  ASSUME IInv, NEW producer \in {"run", "pack"}, NEW outs \in SUBSET Names,
         NEW bytes \in Contents, MakeOutputs(producer, outs, bytes)
  PROVE  IInv'
<1>1. /\ Alive /\ Unclaimed(outs) /\ AddDerived(Built(producer, outs, bytes))
      /\ disk' = WriteAll(Built(producer, outs, bytes))
      /\ UNCHANGED <<phase, error, stripped, exported, source>> /\ steps' = steps + 1
  BY DEF MakeOutputs, Continue, InStage, Alive
<1>2. Joinable(Built(producer, outs, bytes))
  BY <1>1, BuiltFacts DEF Producers
<1>3. QED
  BY <1>1, <1>2, DerivationKeeps DEF IInv, TypeOK

(* A step stopped by a taken output name keeps the invariant.              *)
LEMMA OutputTakenKeeps ==
  ASSUME IInv, NEW producer \in {"vendor", "run", "pack"}, NEW n \in Names,
         NEW before \in SUBSET Names, NEW bytes \in Contents,
         OutputTaken(producer, n, before, bytes)
  PROVE  IInv'
<1>1. /\ Unclaimed(before) /\ Fail("duplicate")
      /\ artifacts' = artifacts \cup Built(producer, before, bytes)
  BY DEF OutputTaken
<1>2. Joinable(Built(producer, before, bytes))
  BY <1>1, BuiltFacts DEF Producers
<1>3. inputs' = inputs \cup {}
  BY <1>1 DEF Fail
<1>4. OneArtifactPerName' /\ PathsAreOwned'
  <2>1. {} \in SUBSET Built(producer, before, bytes) /\ \A a \in {} : a.path.producer = "input"
    OBVIOUS
  <2>2. QED
    BY <1>1, <1>2, <1>3, <2>1, JoinFacts
<1>5. artifacts' \subseteq Artifact
  BY <1>1, <1>2 DEF Joinable, IInv, TypeOK
<1>6. QED
  BY <1>1, <1>4, <1>5, FailKeeps DEF Errors

(* commit() keeps the invariant: the repacked revision takes the place of  *)
(* the artifact that backed the workspace, which was published.            *)
LEMMA EndTransformKeeps ==
  ASSUME IInv, EndTransform
  PROVE  IInv'
<1> DEFINE parent  == source.artifact
           path    == DerivedPath("source", parent.checksum, parent.output_name)
           derived == BuildDerived(path, parent.output_name, source.tree)
<1>1. /\ Alive /\ Alive' /\ phase' = "transformed"
      /\ UNCHANGED <<error, steps, inputs, stripped, exported>>
  BY DEF EndTransform, Alive
<1>2. CASE ~source.dirty
  <2>1. UNCHANGED <<disk, artifacts, source>>
    BY <1>2 DEF EndTransform
  <2>2. QED
    BY <1>1, <2>1 DEF IInv, TypeOK, OneArtifactPerName, PathsAreOwned,
                     BytesMatchChecksums, BackingIsPublished, NamesOf, Alive, Unbound
<1>3. CASE source.dirty
  <2>1. /\ disk' = Write(disk, path, source.tree)
        /\ artifacts' = Replace(derived)
        /\ source' = [source EXCEPT !.artifact = derived, !.dirty = FALSE]
    BY <1>3 DEF EndTransform
  <2>2. parent \in artifacts /\ parent \in Artifact
    BY <1>1, <1>3 DEF IInv, TypeOK, BackingIsPublished, Unbound
  <2>3. /\ parent.output_name \in Names /\ parent.checksum \in Contents
        /\ source.tree \in Contents
    BY <2>2 DEF Artifact, IInv, TypeOK, Workspace
  <2>4. /\ derived \in Artifact /\ derived.output_name = parent.output_name
        /\ derived.checksum = source.tree /\ derived.path = path
        /\ path.name = parent.output_name /\ path.producer = "source"
    BY <2>3, BuildFacts DEF BuildDerived, DerivedPath, Producers
  <2> HIDE DEF derived, path, parent
  <2>5. artifacts' \subseteq Artifact /\ OneArtifactPerName' /\ PathsAreOwned'
    BY <1>1, <2>1, <2>2, <2>4, ReplaceKeeps
  <2>6. /\ DOMAIN disk' \subseteq Paths
        /\ \A p \in DOMAIN disk' : disk'[p] \in Contents
        /\ \A a \in inputs \cup Replace(derived) :
              a.path \in DOMAIN disk' /\ disk'[a.path] = a.checksum
    BY <1>1, <2>1, <2>2, <2>4, WriteFacts
  <2>7. /\ source' \in Workspace /\ source'.layout = source.layout
        /\ source'.artifact = derived /\ source'.dirty = FALSE /\ derived # None
    BY <2>1, <2>4, NoneAssumption DEF Workspace, IInv, TypeOK
  <2>8. TypeOK'
    BY <1>1, <1>3, <2>5, <2>6, <2>7 DEF IInv, TypeOK
  <2>9. BytesMatchChecksums'
    BY <1>1, <2>1, <2>6 DEF BytesMatchChecksums
  <2>10. BackingIsPublished'
    BY <2>1, <2>2, <2>4, <2>7, ReplaceFacts DEF BackingIsPublished
  <2>11. QED
    BY <2>5, <2>8, <2>9, <2>10 DEF IInv
<1>4. QED
  BY <1>2, <1>3
-----------------------------------------------------------------------------

(* The initial state satisfies the invariant.                              *)
LEMMA InitHolds == Init => IInv
<1> SUFFICES ASSUME Init PROVE IInv
  OBVIOUS
<1>1. EmptyTree \in Contents
  BY DEF EmptyTree, Contents
<1>2. TypeOK
  BY <1>1 DEF Init, TypeOK, NoWorkspace, Workspace, Layouts, Errors
<1>3. OneArtifactPerName /\ PathsAreOwned /\ BytesMatchChecksums /\ BackingIsPublished
  BY DEF Init, OneArtifactPerName, PathsAreOwned, BytesMatchChecksums,
         BackingIsPublished, NoWorkspace, NamesOf, Unbound
<1>4. QED
  BY <1>2, <1>3 DEF IInv

(* Every fetch step keeps the invariant.                                   *)
LEMMA FetchKeeps ==
  ASSUME IInv, Fetch
  PROVE  IInv'
<1>1. CASE \E n \in Names, tree \in Upstream, opt \in GitOptions : Git(n, tree, opt)
  BY <1>1, GitKeeps
<1>2. CASE \E k \in 1..MaxSources : \E ns \in [1..k -> Names], contents \in [1..k -> Upstream] :
             Download(ns, contents)
  BY <1>2, DownloadKeeps
<1>3. CASE \E k \in 1..MaxSources : \E ns \in [1..k -> Names] : FetchDuplicate(ns)
  BY <1>3, FailUnchangedKeeps DEF FetchDuplicate, Errors
<1>4. CASE FetchFails
  BY <1>4, FailUnchangedKeeps DEF FetchFails, Errors
<1>5. QED
  BY <1>1, <1>2, <1>3, <1>4 DEF Fetch

(* Every transform step keeps the invariant.                               *)
LEMMA TransformingKeeps ==
  ASSUME IInv, Transforming
  PROVE  IInv'
<1>1. CASE \E target \in Targets, pattern \in SUBSET Files, match \in Matches :
             StripTarball(target, pattern, match)
  BY <1>1, StripKeeps
<1>2. CASE \E target \in Targets, pattern \in SUBSET Files :
             StripMatchesNothing(target, pattern)
  BY <1>2, FailUnchangedKeeps DEF StripMatchesNothing, Errors
<1>3. CASE \E paths \in SUBSET Files, new \in Contents : VendorBump(paths, new)
  BY <1>3, BumpKeeps
<1>4. CASE \E target \in Targets, n \in Names, outs \in SUBSET Names,
              copy \in Contents, declared \in SUBSET Files :
             Vendor(target, n, outs, copy, declared)
  BY <1>4, VendorKeeps
<1>5. CASE \E target \in Targets : VendorWithoutCommit(target)
  BY <1>5, FailUnchangedKeeps DEF VendorWithoutCommit, Errors
<1>6. CASE \E outs \in SUBSET Names, after \in Contents : RunInSource(outs, after)
  BY <1>6, RunInSourceKeeps
<1>7. CASE \E target \in Names, outs \in SUBSET Names, after \in Contents :
             RunDetached(target, outs, after)
  BY <1>7, MakeOutputsKeeps DEF RunDetached
<1>8. CASE \E n \in Names, bytes \in Contents : Pack(n, bytes)
  <2>1. PICK n \in Names, bytes \in Contents : Pack(n, bytes)
    BY <1>8
  <2>2. {n} \in SUBSET Names
    OBVIOUS
  <2>3. QED
    BY <2>1, <2>2, MakeOutputsKeeps DEF Pack
<1>9. CASE \E target \in Targets : CannotSelect(target)
  BY <1>9, FailUnchangedKeeps DEF CannotSelect, Errors
<1>10. CASE \E producer \in {"vendor", "run", "pack"}, n \in Names,
               before \in SUBSET Names, bytes \in Contents :
              OutputTaken(producer, n, before, bytes)
  BY <1>10, OutputTakenKeeps
<1>11. CASE ToolFails
  BY <1>11, FailUnchangedKeeps DEF ToolFails, Errors
<1>12. QED
  BY <1>1, <1>2, <1>3, <1>4, <1>5, <1>6, <1>7, <1>8, <1>9, <1>10, <1>11
     DEF Transforming

(* The invariant is inductive.                                             *)
LEMMA NextKeeps == IInv /\ [Next]_vars => IInv'
<1> SUFFICES ASSUME IInv, [Next]_vars PROVE IInv'
  OBVIOUS
<1>1. CASE Fetch
  BY <1>1, FetchKeeps
<1>2. CASE BeginTransform
  BY <1>2 DEF BeginTransform, IInv, TypeOK, OneArtifactPerName, PathsAreOwned,
              BytesMatchChecksums, BackingIsPublished, NamesOf, Alive, Unbound
<1>3. CASE Transforming
  BY <1>3, TransformingKeeps
<1>4. CASE EndTransform
  BY <1>4, EndTransformKeeps
<1>5. CASE CommitWithoutCommit
  BY <1>5, FailUnchangedKeeps DEF CommitWithoutCommit, Errors
<1>6. CASE UNCHANGED vars
  BY <1>6 DEF vars, IInv, TypeOK, OneArtifactPerName, PathsAreOwned,
              BytesMatchChecksums, BackingIsPublished, NamesOf, Alive, Unbound
<1>7. QED
  BY <1>1, <1>2, <1>3, <1>4, <1>5, <1>6 DEF Next

(***************************************************************************)
(* The invariant holds of every run of the fetch and transform stages.     *)
(***************************************************************************)
THEOREM Invariance == Spec => []IInv
<1>1. Init => IInv
  BY InitHolds
<1>2. IInv /\ [Next]_vars => IInv'
  BY NextKeeps
<1>3. QED
  BY <1>1, <1>2, PTL DEF Spec

(* Type correctness of every run.                                          *)
THEOREM TypeCorrectness == Spec => []TypeOK
<1>1. IInv => TypeOK
  BY DEF IInv
<1>2. QED
  BY <1>1, Invariance, PTL

(***************************************************************************)
(* In every run, the bytes of every input and publication artifact are     *)
(* those its checksum was taken of.                                        *)
(***************************************************************************)
THEOREM Integrity == Spec => []BytesMatchChecksums
<1>1. IInv => BytesMatchChecksums
  BY DEF IInv
<1>2. QED
  BY <1>1, Invariance, PTL

(* In every run, output names are unique and no input loses its place.     *)
THEOREM UniqueNames == Spec => []OneArtifactPerName
<1>1. IInv => OneArtifactPerName
  BY DEF IInv
<1>2. QED
  BY <1>1, Invariance, PTL

(* In every run, the workspace is backed by a published artifact.          *)
THEOREM Backing == Spec => []BackingIsPublished
<1>1. IInv => BackingIsPublished
  BY DEF IInv
<1>2. QED
  BY <1>1, Invariance, PTL

(* No step forgets an input, and none leaves the failed phase.             *)
LEMMA InputsGrow == [Next]_vars => inputs \subseteq inputs' /\ (Alive' => Alive)
<1> SUFFICES ASSUME [Next]_vars PROVE inputs \subseteq inputs' /\ (Alive' => Alive)
  OBVIOUS
<1>1. CASE Fetch
  BY <1>1 DEF Fetch, Git, Download, FetchDuplicate, FetchFails, AddInputs, InStage,
              Continue, FailUnchanged, Fail, Alive
<1>2. CASE BeginTransform \/ EndTransform \/ CommitWithoutCommit \/ UNCHANGED vars
  BY <1>2 DEF BeginTransform, EndTransform, CommitWithoutCommit, FailUnchanged, Fail,
              Alive, vars
<1>3. CASE Transforming
  <2> DEFINE Kept == phase = "transform" /\ UNCHANGED inputs
  <2>1. ASSUME NEW target, NEW pattern, NEW match, StripTarball(target, pattern, match)
        PROVE  Kept
    BY <2>1 DEF StripTarball, InStage, Fail
  <2>2. ASSUME NEW target, NEW n, NEW outs, NEW copy, NEW declared,
               Vendor(target, n, outs, copy, declared)
        PROVE  Kept
    BY <2>2 DEF Vendor, InStage, AddDerived
  <2>3. ASSUME NEW outs, NEW after, RunInSource(outs, after)
        PROVE  Kept
    BY <2>3 DEF RunInSource, InStage, AddDerived
  <2>4. ASSUME NEW producer, NEW outs, NEW bytes, MakeOutputs(producer, outs, bytes)
        PROVE  Kept
    BY <2>4 DEF MakeOutputs, InStage, AddDerived
  <2>5. ASSUME NEW producer, NEW n, NEW before, NEW bytes,
               OutputTaken(producer, n, before, bytes)
        PROVE  Kept
    BY <2>5 DEF OutputTaken, InStage, Fail
  <2>6. ASSUME NEW paths, NEW new, VendorBump(paths, new)
        PROVE  Kept
    BY <2>6 DEF VendorBump, InStage
  <2>7. ASSUME NEW target, NEW pattern,
               \/ StripMatchesNothing(target, pattern) \/ VendorWithoutCommit(target)
               \/ CannotSelect(target) \/ ToolFails
        PROVE  Kept
    BY <2>7 DEF StripMatchesNothing, VendorWithoutCommit, CannotSelect, ToolFails,
                InStage, FailUnchanged, Fail
  <2> HIDE DEF Kept
  <2>8. Kept
    BY <1>3, <2>1, <2>2, <2>3, <2>4, <2>5, <2>6, <2>7 DEF Transforming, RunDetached, Pack
  <2>9. QED
    BY <2>8 DEF Kept, Alive
<1>4. QED
  BY <1>1, <1>2, <1>3 DEF Next

(***************************************************************************)
(* In every run, no step drops an acquired input or changes its bytes:     *)
(* they are those of its checksum before the step and after it.            *)
(***************************************************************************)
THEOREM InputPreservation == Spec => InputsArePreserved
<1> DEFINE Kept == \A a \in inputs :
                     /\ a \in inputs'
                     /\ phase' # "failed" => disk'[a.path] = disk[a.path]
<1>1. IInv /\ IInv' /\ [Next]_vars => Kept
  <2> SUFFICES ASSUME IInv, IInv', [Next]_vars, NEW a \in inputs
               PROVE  a \in inputs' /\ (Alive' => disk'[a.path] = disk[a.path])
    BY DEF Alive
  <2>1. a \in inputs' /\ (Alive' => Alive)
    BY InputsGrow
  <2>2. Alive => disk[a.path] = a.checksum
    BY DEF IInv, BytesMatchChecksums
  <2>3. Alive' => disk'[a.path] = a.checksum
    BY <2>1 DEF IInv, BytesMatchChecksums
  <2>4. QED
    BY <2>1, <2>2, <2>3
<1>2. Spec => [][Kept]_vars
  BY <1>1, Invariance, PTL DEF Spec
<1>3. QED
  BY <1>2 DEF InputsArePreserved

-----------------------------------------------------------------------------

(***************************************************************************)
(* What strip-tarball leaves in work_dir/_strip/<name> is what it          *)
(* published under that name, so extracting over it adds nothing.          *)
(***************************************************************************)
StrippedIsPublished ==
  /\ phase = "fetch" => DOMAIN stripped = {}
  /\ phase = "transform" =>
       \A n \in DOMAIN stripped :
         \E a \in artifacts : a.output_name = n /\ a.checksum = stripped[n]

(* What the refinement needs to know of every state.                       *)
RInv == IInv /\ StrippedIsPublished

(* A filter that completes: it takes its files from the published content. *)
LEMMA StripFacts ==
  ASSUME RInv, NEW target \in Targets, NEW pattern \in SUBSET Files,
         NEW match \in Matches, StripTarball(target, pattern, match)
  PROVE  /\ phase = "transform"
         /\ \/ Fail("root")
            \/ \E art \in artifacts, removed \in SUBSET Files, derived \in Artifact :
                 /\ derived.output_name = art.output_name
                 /\ derived.checksum = Without(art.checksum, removed)
                 /\ artifacts' = Replace(derived)
                 /\ stripped' = Write(stripped, art.output_name, derived.checksum)
                 /\ source' = Adopt(art, derived, removed)
                 /\ step' = Step("filter", art.output_name, removed, EmptyTree)
                 /\ UNCHANGED phase
<1> DEFINE art       == StripTarget(target)
           n         == art.output_name
           extracted == StripExtraction(art)
           removed   == IF match = "files" THEN pattern \cap Present(extracted) ELSE pattern
           kept      == Without(extracted, removed)
           path      == DerivedPath("strip-tarball", art.checksum, n)
           derived   == BuildDerived(path, n, kept)
<1>1. phase = "transform" /\ Alive /\ CanStrip(target)
  BY DEF StripTarball, InStage, Alive
<1>2. art \in artifacts /\ art \in Artifact
  BY <1>1, FindFacts DEF CanStrip, StripTarget, Published, RInv, IInv, TypeOK
<1>3. n \in Names /\ art.checksum \in Contents /\ disk[art.path] = art.checksum
  BY <1>1, <1>2 DEF Artifact, RInv, IInv, BytesMatchChecksums
<1>4. extracted = art.checksum
  <2>1. CASE n \in DOMAIN stripped
    <3>1. stripped[n] = art.checksum
      BY <1>1, <1>2, <2>1 DEF RInv, StrippedIsPublished, IInv, OneArtifactPerName
    <3>2. \A files : \A c \in Contents : Patch(c, files, c) = c
      BY DEF Patch, Contents
    <3>3. QED
      BY <1>3, <2>1, <3>1, <3>2 DEF StripExtraction, ExtractOver
  <2>2. CASE n \notin DOMAIN stripped
    BY <1>3, <2>2 DEF StripExtraction
  <2>3. QED
    BY <2>1, <2>2
<1>5. removed \in SUBSET Files
  OBVIOUS
<1>6. kept \in Contents /\ kept = Without(art.checksum, removed)
  BY <1>3, <1>4, ContentOperators
<1>7. derived \in Artifact /\ derived.output_name = n /\ derived.checksum = kept
  BY <1>3, <1>6, BuildFacts DEF BuildDerived, DerivedPath, Producers
<1>8. \/ Fail("root")
      \/ /\ artifacts' = Replace(derived)
         /\ stripped' = Write(stripped, n, kept)
         /\ source' = Adopt(art, derived, removed)
         /\ step' = Step("filter", n, removed, EmptyTree)
         /\ UNCHANGED phase
  BY DEF StripTarball, Continue
<1> HIDE DEF art, extracted, removed, kept, path, derived
<1>9. QED
  BY <1>1, <1>2, <1>5, <1>6, <1>7, <1>8

(* Every step keeps what the filters left behind published.                *)
LEMMA StrippedKeeps == RInv /\ [Next]_vars => StrippedIsPublished'
<1> SUFFICES ASSUME RInv, [Next]_vars PROVE StrippedIsPublished'
  OBVIOUS
<1> DEFINE Grows == UNCHANGED <<phase, stripped>> /\ artifacts \subseteq artifacts'
           Ends  == phase' \in {"failed", "transformed"}
<1>1. Grows => StrippedIsPublished'
  BY DEF RInv, StrippedIsPublished
<1>2. Ends => StrippedIsPublished'
  BY DEF StrippedIsPublished
<1>3. CASE Fetch
  <2>1. Grows \/ Ends
    BY <1>3 DEF Fetch, Git, Download, FetchDuplicate, FetchFails, AddInputs,
                Continue, FailUnchanged, Fail
  <2>2. QED
    BY <1>1, <1>2, <2>1
<1>4. CASE BeginTransform
  BY <1>4 DEF BeginTransform, RInv, StrippedIsPublished
<1>5. ASSUME NEW target \in Targets, NEW pattern \in SUBSET Files, NEW match \in Matches,
             StripTarball(target, pattern, match)
      PROVE  StrippedIsPublished'
  <2>1. CASE Fail("root")
    BY <1>2, <2>1 DEF Fail
  <2>2. CASE \E art \in artifacts, removed \in SUBSET Files, derived \in Artifact :
               /\ derived.output_name = art.output_name
               /\ artifacts' = Replace(derived)
               /\ stripped' = Write(stripped, art.output_name, derived.checksum)
               /\ UNCHANGED phase
    <3>1. PICK art \in artifacts, derived \in Artifact :
            /\ derived.output_name = art.output_name
            /\ artifacts' = Replace(derived)
            /\ stripped' = Write(stripped, art.output_name, derived.checksum)
            /\ UNCHANGED phase
      BY <2>2
    <3>2. phase = "transform"
      BY <1>5, StripFacts
    <3>3. ASSUME NEW m \in DOMAIN stripped'
          PROVE  \E a \in artifacts' : a.output_name = m /\ a.checksum = stripped'[m]
      <4>1. CASE m = art.output_name
        BY <3>1, <4>1 DEF Replace, Write
      <4>2. CASE m # art.output_name
        <5>1. PICK a \in artifacts : a.output_name = m /\ a.checksum = stripped[m]
          BY <3>1, <3>2, <3>3, <4>2 DEF Write, RInv, StrippedIsPublished
        <5>2. a \in artifacts'
          BY <3>1, <4>2, <5>1 DEF Replace
        <5>3. QED
          BY <3>1, <3>3, <4>2, <5>1, <5>2 DEF Write
      <4>3. QED
        BY <4>1, <4>2
    <3>4. QED
      BY <3>1, <3>2, <3>3 DEF StrippedIsPublished
  <2>3. QED
    BY <1>5, <2>1, <2>2, StripFacts
<1>6. ASSUME NEW target, NEW n, NEW outs, NEW copy, NEW declared,
             Vendor(target, n, outs, copy, declared)
      PROVE  Grows
  BY <1>6 DEF Vendor, AddDerived, Continue
<1>7. ASSUME NEW outs, NEW after, RunInSource(outs, after)
      PROVE  Grows
  BY <1>7 DEF RunInSource, AddDerived, Continue
<1>8. ASSUME NEW producer, NEW outs, NEW bytes, MakeOutputs(producer, outs, bytes)
      PROVE  Grows
  BY <1>8 DEF MakeOutputs, AddDerived, Continue
<1>9. ASSUME NEW paths, NEW new, VendorBump(paths, new)
      PROVE  Grows
  BY <1>9 DEF VendorBump, Continue
<1>10. ASSUME NEW producer, NEW n, NEW before, NEW bytes,
              OutputTaken(producer, n, before, bytes)
       PROVE  Ends
  BY <1>10 DEF OutputTaken, Fail
<1>11. ASSUME NEW target, NEW pattern,
              \/ StripMatchesNothing(target, pattern) \/ VendorWithoutCommit(target)
              \/ CannotSelect(target) \/ ToolFails
       PROVE  Ends
  BY <1>11 DEF StripMatchesNothing, VendorWithoutCommit, CannotSelect, ToolFails,
               FailUnchanged, Fail
<1>12. CASE EndTransform \/ CommitWithoutCommit
  <2>1. Ends
    BY <1>12 DEF EndTransform, CommitWithoutCommit, FailUnchanged, Fail
  <2>2. QED
    BY <1>2, <2>1
<1>13. CASE UNCHANGED vars
  BY <1>1, <1>13 DEF vars
<1> HIDE DEF Grows, Ends
<1>14. CASE Transforming
  BY <1>1, <1>2, <1>5, <1>6, <1>7, <1>8, <1>9, <1>10, <1>11, <1>14
     DEF Transforming, RunDetached, Pack
<1>15. QED
  BY <1>3, <1>4, <1>12, <1>13, <1>14 DEF Next

(* What the refinement needs holds of every run.                           *)
LEMMA RInvariance == Spec => []RInv
<1>1. Init => StrippedIsPublished
  BY DEF Init, StrippedIsPublished
<1>2. Init => RInv
  BY <1>1, InitHolds DEF RInv
<1>3. RInv /\ [Next]_vars => RInv'
  BY NextKeeps, StrippedKeeps DEF RInv
<1>4. QED
  BY <1>2, <1>3, PTL DEF Spec

-----------------------------------------------------------------------------

(***************************************************************************)
(* The refinement: the publication set, the archives on disk and the       *)
(* workspace, read as revisions, obey SourceLedger.                        *)
(***************************************************************************)

(* The ledger names the published artifacts and gives their revisions.     *)
LedgerReads ==
  /\ Alive => /\ DOMAIN Ledger = NamesOf(artifacts)
              /\ \A a \in artifacts : Ledger[a.output_name] = Revision(a)
              /\ \A n \in NamesOf(artifacts) :
                   \E a \in artifacts : a.output_name = n /\ Ledger[n] = Revision(a)
  /\ Ledger = [n \in DOMAIN Ledger |-> Ledger[n]]
  /\ Ledger \in Promise!Revisions

(* The ledger reads so in every state of the invariant,                    *)
LEMMA LedgerFacts == IInv => LedgerReads
<1> SUFFICES ASSUME IInv PROVE LedgerReads
  OBVIOUS
<1>1. CASE ~Alive
  <2>1. Ledger = [n \in {} |-> EmptyTree]
    BY <1>1 DEF Ledger
  <2>2. [n \in {} |-> EmptyTree] \in [{} -> Contents]
    OBVIOUS
  <2>3. Ledger \in Promise!Revisions
    BY <2>1, <2>2 DEF Promise!Revisions, Promise!Contents, Contents
  <2>4. QED
    BY <1>1, <2>1, <2>3 DEF LedgerReads
<1>2. CASE Alive
  <2>1. Ledger = [n \in NamesOf(artifacts) |-> Revision(Find(artifacts, n))]
    BY <1>2 DEF Ledger
  <2>2. ASSUME NEW a \in artifacts
        PROVE  a.output_name \in NamesOf(artifacts) /\ Find(artifacts, a.output_name) = a
    <3>1. a.output_name \in NamesOf(artifacts)
      BY DEF NamesOf
    <3>2. QED
      BY <3>1, FindFacts DEF IInv, OneArtifactPerName
  <2>3. \A a \in artifacts : Revision(a) \in Contents
    BY DEF Revision, IInv, TypeOK, Workspace, Artifact
  <2>4. NamesOf(artifacts) \in SUBSET Names
    BY DEF NamesOf, IInv, TypeOK, Artifact
  <2>5. \A n \in NamesOf(artifacts) : Find(artifacts, n) \in artifacts
    BY FindFacts
  <2>6. Ledger \in [NamesOf(artifacts) -> Contents]
    BY <2>1, <2>3, <2>5
  <2>7. Ledger \in Promise!Revisions
    BY <2>4, <2>6 DEF Promise!Revisions, Promise!Contents, Contents
  <2>8. \A a \in artifacts : Ledger[a.output_name] = Revision(a)
    BY <2>1, <2>2
  <2>9. \A n \in NamesOf(artifacts) :
          \E a \in artifacts : a.output_name = n /\ Ledger[n] = Revision(a)
    BY <2>1, FindFacts
  <2>10. QED
    BY <1>2, <2>1, <2>7, <2>8, <2>9 DEF LedgerReads
<1>3. QED
  BY <1>1, <1>2

(* and after every step.                                                   *)
LEMMA LedgerFactsNext == IInv' => LedgerReads'
BY LedgerFacts, PTL

(* The revisions of the artifacts that stay as they are stay too.          *)
LEMMA OthersStay ==
  ASSUME IInv, IInv', Alive, Alive', NEW n,
         NamesOf(artifacts) \subseteq NamesOf(artifacts'),
         \A a \in artifacts :
           a.output_name # n => a \in artifacts' /\ Revision(a)' = Revision(a)
  PROVE  Promise!OnlyRevises(n)
<1>1. LedgerReads /\ LedgerReads'
  BY LedgerFacts, LedgerFactsNext
<1>2. DOMAIN Ledger = NamesOf(artifacts) /\ DOMAIN Ledger' = NamesOf(artifacts')
  BY <1>1 DEF LedgerReads
<1>3. ASSUME NEW m \in DOMAIN Ledger \ {n} PROVE Ledger'[m] = Ledger[m]
  <2>1. PICK a \in artifacts : a.output_name = m /\ Ledger[m] = Revision(a)
    BY <1>1, <1>2 DEF LedgerReads
  <2>2. a \in artifacts' /\ Revision(a)' = Revision(a)
    BY <2>1
  <2>3. Ledger'[a.output_name] = Revision(a)'
    BY <1>1, <2>2 DEF LedgerReads
  <2>4. QED
    BY <2>1, <2>2, <2>3
<1>4. QED
  BY <1>2, <1>3 DEF Promise!OnlyRevises

(* A failure of either stage empties the ledger.                           *)
LEMMA FailMaps ==
  ASSUME phase \in {"fetch", "transform"}, NEW reason, Fail(reason)
  PROVE  Promise!LedgerNext
<1>1. phase' = "failed" /\ step' = Plain("end")
  BY DEF Fail
<1>2. Ledger' = [n \in {} |-> EmptyTree] /\ Active' = None /\ Scratch' = {} /\ ~Alive'
  BY <1>1 DEF Ledger, Active, Scratch, Alive
<1>3. Released' = Released
  BY <1>1 DEF Released
<1>4. [n \in {} |-> EmptyTree] \in [{} -> Contents]
  OBVIOUS
<1>5. Ledger' \in Promise!Revisions
  BY <1>2, <1>4 DEF Promise!Revisions, Promise!Contents, Contents
<1>6. Promise!Abort
  BY <1>1, <1>2, <1>3 DEF Promise!Abort, Promise!NoRevisions, Promise!EmptyTree,
     EmptyTree, Promise!Plain, Plain, Promise!Step, Step
<1>7. QED
  BY <1>5, <1>6 DEF Promise!LedgerNext

-----------------------------------------------------------------------------

(* A fetch step that completes acquires.                                   *)
LEMMA AcquireMaps ==
  ASSUME IInv, IInv', phase = "fetch", phase' = phase, step' = Plain("acquire"),
         artifacts \subseteq artifacts',
         \/ source' = source
         \/ /\ Unbound
            /\ ~source'.dirty /\ source'.layout = "checkout"
            /\ source'.artifact \in artifacts'
            /\ source'.artifact.output_name \notin NamesOf(artifacts)
            /\ source'.tree = source'.artifact.checksum
  PROVE  Promise!LedgerNext
<1>1. Alive /\ Alive' /\ NamesOf(artifacts) \subseteq NamesOf(artifacts')
  BY DEF Alive, NamesOf
<1>2. LedgerReads /\ LedgerReads'
  BY LedgerFacts, LedgerFactsNext
<1>3. Released' = Released
  BY DEF Released
<1>4. CASE source' = source
  <2>1. \A a \in artifacts : Revision(a)' = Revision(a)
    BY <1>4 DEF Revision
  <2>2. Promise!OnlyRevises(None)
    BY <1>1, <2>1, OthersStay
  <2>3. Active' = Active /\ Scratch' = Scratch
    BY <1>1, <1>4 DEF Active, Scratch, Unbound
  <2>4. Promise!Acquire
    BY <1>1, <1>3, <1>4, <2>2, <2>3
       DEF Promise!Acquire, Promise!Plain, Plain, Promise!Step, Step,
           Promise!EmptyTree, EmptyTree
  <2>5. QED
    BY <1>2, <2>4 DEF Promise!LedgerNext, LedgerReads
<1>5. CASE source' # source
  <2>1. Unbound /\ ~source.dirty /\ ~Unbound'
    BY <1>5 DEF Unbound, IInv, TypeOK
  <2>2. \A a \in artifacts : Revision(a)' = Revision(a)
    BY <1>5, <2>1 DEF Revision
  <2>3. Promise!OnlyRevises(None)
    BY <1>1, <2>2, OthersStay
  <2>4. Active = None /\ Active' = source'.artifact.output_name
    BY <1>1, <2>1 DEF Active
  <2>5. Active' \in NamesOf(artifacts') \ NamesOf(artifacts)
    BY <1>5, <2>4 DEF NamesOf
  <2>6. Scratch = {} /\ Scratch' = {}
    BY <1>5, <2>1 DEF Scratch
  <2>7. Promise!Acquire
    BY <1>1, <1>2, <1>3, <1>5, <2>1, <2>3, <2>4, <2>5, <2>6
       DEF Promise!Acquire, Promise!Plain, Plain, Promise!Step, Step,
           Promise!EmptyTree, EmptyTree, LedgerReads
  <2>8. QED
    BY <1>2, <2>7 DEF Promise!LedgerNext, LedgerReads
<1>6. QED
  BY <1>4, <1>5

(* Every fetch step, when git archives whole checkouts, acquires or aborts. *)
LEMMA FetchMaps ==
  ASSUME RInv, IInv', Fetch, \A opt \in GitOptions : ~opt.subdir
  PROVE  Promise!LedgerNext
<1>1. ASSUME NEW n \in Names, NEW tree \in Upstream, NEW opt \in GitOptions,
             Git(n, tree, opt)
      PROVE  Promise!LedgerNext
  <2> DEFINE art == BuildInput(InputPath(n), n, tree)
  <2>1. ArchiveOf(tree, opt.subdir) = tree
    BY DEF ArchiveOf
  <2>2. /\ phase = "fetch" /\ phase' = phase /\ step' = Plain("acquire")
        /\ Unclaimed({n}) /\ artifacts' = artifacts \cup {art}
    BY <1>1, <2>1 DEF Git, Continue, AddInputs, InStage
  <2>3. \/ source' = source
        \/ /\ Unbound
           /\ source' = [layout |-> "checkout", tree |-> tree, artifact |-> art,
                         dirty |-> FALSE]
    BY <1>1, <2>1 DEF Git, Unbound
  <2>4. art.output_name = n /\ art.checksum = tree
    BY DEF BuildInput
  <2> HIDE DEF art
  <2>5. n \notin NamesOf(artifacts)
    BY <2>2 DEF Unclaimed
  <2>6. QED
    BY <2>2, <2>3, <2>4, <2>5, AcquireMaps DEF RInv
<1>2. ASSUME NEW ns, NEW contents, Download(ns, contents)
      PROVE  Promise!LedgerNext
  <2>1. /\ phase = "fetch" /\ phase' = phase /\ step' = Plain("acquire")
        /\ artifacts \subseteq artifacts' /\ source' = source
    BY <1>2 DEF Download, Continue, AddInputs, InStage
  <2>2. QED
    BY <2>1, AcquireMaps DEF RInv
<1>3. ASSUME NEW ns, FetchDuplicate(ns) \/ FetchFails
      PROVE  Promise!LedgerNext
  BY <1>3, FailMaps DEF FetchDuplicate, FetchFails, FailUnchanged, InStage
<1>4. QED
  BY <1>1, <1>2, <1>3 DEF Fetch

(* A filter that completes removes its files from one revision.            *)
LEMMA FilterMaps ==
  ASSUME RInv, IInv', NEW target \in Targets, NEW pattern \in SUBSET Files,
         NEW match \in Matches, StripTarball(target, pattern, match)
  PROVE  Promise!LedgerNext
<1>1. phase = "transform" /\ Alive
  BY StripFacts DEF Alive
<1>2. CASE Fail("root")
  BY <1>1, <1>2, FailMaps
<1>3. CASE ~Fail("root")
  <2>1. PICK art \in artifacts, removed \in SUBSET Files, derived \in Artifact :
          /\ derived.output_name = art.output_name
          /\ derived.checksum = Without(art.checksum, removed)
          /\ artifacts' = Replace(derived)
          /\ source' = Adopt(art, derived, removed)
          /\ step' = Step("filter", art.output_name, removed, EmptyTree)
          /\ UNCHANGED phase
    BY <1>3, StripFacts
  <2> DEFINE n == art.output_name
  <2>2. Alive' /\ Released' = Released
    BY <1>1, <2>1 DEF Alive, Released
  <2>3. /\ derived \in artifacts' /\ NamesOf(artifacts') = NamesOf(artifacts)
        /\ \A a \in artifacts' : a = derived \/ (a \in artifacts /\ a.output_name # n)
        /\ \A a \in artifacts : a.output_name # n => a \in artifacts'
    BY <2>1, ReplaceFacts DEF RInv
  <2> DEFINE Filtered ==
               /\ Revision(derived)' = Without(Revision(art), removed)
               /\ \A a \in artifacts : a.output_name # n => Revision(a)' = Revision(a)
               /\ Active' = Active /\ Scratch' \subseteq Scratch
               /\ source'.dirty = source.dirty
  <2>4. ASSUME ~Unbound, source.artifact = art PROVE Filtered
    <3>1. /\ source' = [source EXCEPT !.tree = Without(@, removed), !.artifact = derived]
          /\ source \in Workspace
      BY <2>1, <2>4 DEF Adopt, RInv, IInv, TypeOK
    <3>2. /\ source'.dirty = source.dirty /\ source'.artifact = derived
          /\ source'.tree = Without(source.tree, removed) /\ ~Unbound'
      BY <2>4, <3>1 DEF Workspace, Unbound
    <3>3. Revision(derived)' = Without(Revision(art), removed)
      BY <2>1, <2>4, <3>2 DEF Revision
    <3>4. \A a \in artifacts : a.output_name # n => Revision(a)' = Revision(a)
      BY <2>1, <2>4, <3>2 DEF Revision
    <3>5. Active' = Active
      BY <1>1, <2>1, <2>2, <2>4, <3>2 DEF Active
    <3>6. Scratch' \subseteq Scratch
      BY <1>1, <2>1, <2>2, <2>4, <3>2 DEF Scratch, Without
    <3>7. QED
      BY <3>2, <3>3, <3>4, <3>5, <3>6
  <2>5. ASSUME Unbound \/ source.artifact # art PROVE Filtered
    <3>1. source' = source
      BY <2>1, <2>5 DEF Adopt
    <3>2. source.dirty => source.artifact # art /\ source.artifact # derived
      <4>1. SUFFICES ASSUME source.dirty, source.artifact = derived PROVE FALSE
        BY <2>5 DEF RInv, IInv, TypeOK, Unbound
      <4>2. source.artifact \in artifacts /\ ~Unbound
        BY <1>1, <4>1 DEF RInv, IInv, TypeOK, BackingIsPublished, Unbound
      <4>3. source.artifact = art
        BY <2>1, <4>1, <4>2 DEF RInv, IInv, OneArtifactPerName
      <4>4. QED
        BY <2>5, <4>2, <4>3
    <3>3. Revision(derived)' = Without(Revision(art), removed)
      BY <2>1, <3>1, <3>2 DEF Revision
    <3>4. \A a \in artifacts : a.output_name # n => Revision(a)' = Revision(a)
      BY <3>1 DEF Revision
    <3>5. Active' = Active /\ Scratch' = Scratch
      BY <1>1, <2>2, <3>1 DEF Active, Scratch, Unbound
    <3>6. QED
      BY <3>1, <3>3, <3>4, <3>5
  <2>6. Filtered
    BY <2>4, <2>5
  <2>7. LedgerReads /\ LedgerReads'
    BY LedgerFacts, LedgerFactsNext DEF RInv
  <2>8. DOMAIN Ledger' = DOMAIN Ledger /\ n \in DOMAIN Ledger
    BY <1>1, <2>1, <2>2, <2>3, <2>7 DEF LedgerReads, NamesOf
  <2>9. Ledger'[n] = Without(Ledger[n], removed)
    BY <1>1, <2>1, <2>2, <2>3, <2>6, <2>7 DEF LedgerReads
  <2>10. \A m \in DOMAIN Ledger \ {n} : Ledger'[m] = Ledger[m]
    <3>1. Promise!OnlyRevises(n)
      BY <1>1, <2>2, <2>3, <2>6, OthersStay DEF RInv
    <3>2. QED
      BY <3>1 DEF Promise!OnlyRevises
  <2>11. Ledger' = [Ledger EXCEPT ![n] = Without(@, removed)]
    <3>1. /\ Ledger' = [m \in DOMAIN Ledger' |-> Ledger'[m]]
          /\ Ledger = [m \in DOMAIN Ledger |-> Ledger[m]]
      BY <2>7 DEF LedgerReads
    <3> HIDE DEF n
    <3>2. QED
      BY <2>8, <2>9, <2>10, <3>1
  <2>12. step'.op = "filter" /\ step'.source = n /\ step'.paths = removed
    BY <2>1 DEF Step
  <2>13. Promise!Filter
    BY <1>1, <2>1, <2>2, <2>6, <2>8, <2>11, <2>12
       DEF Promise!Filter, Promise!Without, Without
  <2>14. QED
    BY <2>7, <2>13 DEF Promise!LedgerNext, LedgerReads
<1>4. QED
  BY <1>2, <1>3

-----------------------------------------------------------------------------

(* The workspace a step selects is the active one, or, when no edit is     *)
(* pending, a fresh extraction of a published artifact that is not active. *)
LEMMA SelectedFacts ==
  ASSUME IInv, Alive, NEW target \in Targets, CanSelect(target)
  PROVE  LET ws == Select(target) IN
         \/ ws = source /\ ~Unbound
         \/ /\ ~source.dirty /\ ~ws.dirty
            /\ ws.tree = ws.artifact.checksum
            /\ ws.artifact.output_name # Active
<1>1. ASSUME NEW a \in artifacts, ~source.dirty, Unbound \/ source.artifact # a
      PROVE  /\ ~Extracted(a).dirty
             /\ Extracted(a).tree = Extracted(a).artifact.checksum
             /\ Extracted(a).artifact.output_name # Active
  <2>1. /\ Extracted(a).dirty = source.dirty
        /\ Extracted(a).tree = disk[a.path] /\ Extracted(a).artifact = a
    BY DEF Extracted, IInv, TypeOK, Workspace
  <2>2. disk[a.path] = a.checksum
    BY DEF IInv, BytesMatchChecksums
  <2>3. CASE Unbound
    BY <1>1, <2>1, <2>2, <2>3, NoneAssumption DEF Active, IInv, TypeOK, Artifact
  <2>4. CASE ~Unbound
    <3>1. source.artifact \in artifacts
      BY <2>4 DEF IInv, BackingIsPublished
    <3>2. source.artifact.output_name # a.output_name
      BY <1>1, <2>4, <3>1 DEF IInv, OneArtifactPerName
    <3>3. QED
      BY <1>1, <2>1, <2>2, <2>4, <3>2 DEF Active
  <2>5. QED
    BY <2>3, <2>4
<1>2. CASE target = None /\ Unbound
  <2>1. (CHOOSE a \in artifacts : TRUE) \in artifacts
    BY <1>2 DEF CanSelect
  <2>2. ~source.dirty
    BY <1>2 DEF IInv, TypeOK, Unbound
  <2>3. QED
    BY <1>1, <1>2, <2>1, <2>2 DEF Select
<1>3. CASE target = None /\ ~Unbound
  BY <1>3 DEF Select
<1>4. CASE target # None /\ IsActive(target)
  BY <1>4 DEF Select, IsActive
<1>5. CASE target # None /\ ~IsActive(target)
  <2>1. Published(target) /\ ~source.dirty
    BY <1>5 DEF CanSelect
  <2>2. Find(artifacts, target) \in artifacts
    BY <2>1, FindFacts DEF Published
  <2>3. Unbound \/ source.artifact # Find(artifacts, target)
    BY <1>5, <2>1 DEF IsActive
  <2>4. QED
    BY <1>1, <1>5, <2>1, <2>2, <2>3 DEF Select
<1>6. QED
  BY <1>2, <1>3, <1>4, <1>5

(* What turning to the selected source means for the ledger.               *)
LEMMA TurnFacts ==
  ASSUME IInv, Alive, NEW target \in Targets, CanSelect(target)
  PROVE  LET ws == Select(target)
             n  == ws.artifact.output_name
         IN
         /\ ws \in Workspace /\ ws.artifact \in artifacts /\ ws.artifact \in Artifact
         /\ ws.layout # "none"
         /\ n \in DOMAIN Ledger
         /\ n = Active \/ ~source.dirty
         /\ ws.dirty = source.dirty
         /\ ws.dirty = (source.dirty /\ n = Active)
         /\ Ledger[n] = IF ws.dirty THEN ws.tree ELSE ws.artifact.checksum
         /\ \A a \in artifacts : a.output_name # n => Revision(a) = a.checksum
         /\ Promise!Noise(n) =
              IF ws.dirty THEN {} ELSE {f \in Files : ws.tree[f] # ws.artifact.checksum[f]}
<1> DEFINE ws == Select(target)
           n  == ws.artifact.output_name
<1>1. /\ ws \in Workspace /\ ws.artifact \in artifacts /\ ws.artifact \in Artifact
      /\ ws.layout # "none"
  BY SelectFacts
<1>2. LedgerReads
  BY LedgerFacts
<1>3. n \in DOMAIN Ledger /\ Ledger[n] = Revision(ws.artifact)
  BY <1>1, <1>2 DEF LedgerReads, NamesOf
<1>4. CASE ws = source /\ ~Unbound
  <2>1. Active = n
    BY <1>4 DEF Active
  <2>2. source.dirty \in BOOLEAN
    BY DEF IInv, TypeOK, Workspace
  <2>3. Ledger[n] = IF ws.dirty THEN ws.tree ELSE ws.artifact.checksum
    BY <1>3, <1>4 DEF Revision
  <2>4. \A a \in artifacts : a.output_name # n => Revision(a) = a.checksum
    BY <1>4 DEF Revision
  <2>5. Promise!Noise(n) =
          IF ws.dirty THEN {} ELSE {f \in Files : ws.tree[f] # ws.artifact.checksum[f]}
    BY <1>4, <2>1 DEF Promise!Noise, Scratch
  <2>6. QED
    BY <1>1, <1>3, <1>4, <2>1, <2>2, <2>3, <2>4, <2>5
<1>5. CASE /\ ~source.dirty /\ ~ws.dirty
           /\ ws.tree = ws.artifact.checksum
           /\ n # Active
  <2>1. Promise!Noise(n) = {}
    BY <1>5 DEF Promise!Noise
  <2>2. source.dirty = FALSE /\ ws.dirty = FALSE
    BY <1>1, <1>5 DEF IInv, TypeOK, Workspace
  <2>3. Ledger[n] = ws.artifact.checksum
    BY <1>3, <1>5 DEF Revision
  <2>4. \A a \in artifacts : Revision(a) = a.checksum
    BY <1>5 DEF Revision
  <2>5. {f \in Files : ws.tree[f] # ws.artifact.checksum[f]} = {}
    BY <1>5
  <2> HIDE DEF ws, n
  <2>6. QED
    BY <1>1, <1>3, <1>5, <2>1, <2>2, <2>3, <2>4, <2>5 DEF ws, n
<1>6. QED
  BY <1>4, <1>5, SelectedFacts

(* A declared edit, with the artifacts a vendor step adds, amends.         *)
LEMMA AmendMaps ==
  ASSUME IInv, IInv', phase = "transform", UNCHANGED phase,
         NEW target \in Targets, CanSelect(target),
         NEW paths \in SUBSET Files, NEW new \in Contents,
         source' = ApplyChanges(Select(target), paths, new),
         artifacts \subseteq artifacts',
         step' = Step("edit", Select(target).artifact.output_name, paths, new)
  PROVE  Promise!LedgerNext
<1> DEFINE ws == Select(target)
           n  == ws.artifact.output_name
           edited == Patch(ws.tree, paths, new)
<1>1. Alive /\ Alive' /\ Released' = Released
  BY DEF Alive, Released
<1>2. /\ ws \in Workspace /\ ws.artifact \in artifacts /\ ws.artifact \in Artifact
      /\ ws.layout # "none"
      /\ n \in DOMAIN Ledger
      /\ n = Active \/ ~source.dirty
      /\ ws.dirty = (source.dirty /\ n = Active)
      /\ Ledger[n] = IF ws.dirty THEN ws.tree ELSE ws.artifact.checksum
      /\ \A a \in artifacts : a.output_name # n => Revision(a) = a.checksum
      /\ Promise!Noise(n) =
           IF ws.dirty THEN {} ELSE {f \in Files : ws.tree[f] # ws.artifact.checksum[f]}
  BY <1>1, TurnFacts
<1>3. LedgerReads /\ LedgerReads'
  BY LedgerFacts, LedgerFactsNext
<1>4. /\ source'.tree = edited /\ source'.artifact = ws.artifact
      /\ source'.dirty = (ws.dirty \/ edited # ws.tree)
      /\ source'.layout = ws.layout
  BY <1>2 DEF ApplyChanges, Workspace
<1>5. /\ step'.op = "edit" /\ step'.source = n /\ step'.paths = paths /\ step'.new = new
  BY DEF Step
<1>6. /\ ws.tree \in Contents /\ ws.artifact.checksum \in Contents /\ edited \in Contents
      /\ ws.dirty \in BOOLEAN
  BY <1>2, ContentOperators DEF Workspace, Artifact
<1> HIDE DEF ws, n, edited
<1>7. ~Unbound' /\ Active' = n
  BY <1>1, <1>2, <1>4 DEF Unbound, Active, n
<1>8. NamesOf(artifacts) \subseteq NamesOf(artifacts')
  BY DEF NamesOf
<1>9. Promise!OnlyRevises(n)
  <2>1. \A a \in artifacts : a.output_name # n => Revision(a)' = Revision(a)
    BY <1>2, <1>4 DEF Revision, n
  <2>2. QED
    BY <1>1, <1>8, <2>1, OthersStay
<1>10. Ledger'[n] = IF source'.dirty THEN edited ELSE ws.artifact.checksum
  <2>1. PICK a \in artifacts' : a = ws.artifact
    BY <1>2
  <2>2. Ledger'[n] = Revision(a)'
    BY <1>1, <1>3, <2>1 DEF LedgerReads, n
  <2>3. QED
    BY <1>4, <2>1, <2>2 DEF Revision
<1>11. ASSUME NEW f \in Files, f \notin Promise!Noise(n)
       PROVE  Ledger'[n][f] = Patch(Ledger[n], paths, new)[f]
  <2>1. ~ws.dirty => ws.tree[f] = ws.artifact.checksum[f]
    BY <1>2, <1>11
  <2>2. \A c : Patch(c, paths, new)[f] = IF f \in paths THEN new[f] ELSE c[f]
    BY DEF Patch
  <2>3. edited[f] = Patch(Ledger[n], paths, new)[f]
    BY <1>2, <2>1, <2>2 DEF edited
  <2>4. ~source'.dirty => ws.artifact.checksum[f] = edited[f]
    BY <1>4, <2>1
  <2>5. QED
    BY <1>10, <2>3, <2>4
<1>12. CASE source'.dirty
  <2>1. Scratch' = {}
    BY <1>12 DEF Scratch
  <2>2. Promise!Amend
    BY <1>1, <1>2, <1>5, <1>7, <1>9, <1>11, <1>12, <2>1
       DEF Promise!Amend, Promise!TurnTo, Promise!Patch, Patch
  <2>3. QED
    BY <1>3, <2>2 DEF Promise!LedgerNext, LedgerReads
<1>13. CASE ~source'.dirty
  <2>1. ~ws.dirty /\ edited = ws.tree /\ source'.dirty = FALSE
    BY <1>4, <1>6, <1>13
  <2>2. Ledger'[n] = Ledger[n]
    BY <1>2, <1>10, <1>13, <2>1
  <2>3. Scratch' = Promise!Noise(n)
    BY <1>1, <1>2, <1>4, <1>7, <1>13, <2>1 DEF Scratch
  <2>4. (Alive /\ source.dirty /\ n = Active) = FALSE
    BY <1>2, <2>1
  <2>5. Promise!Amend
    BY <1>1, <1>2, <1>5, <1>7, <1>9, <1>11, <1>13, <2>1, <2>2, <2>3, <2>4
       DEF Promise!Amend, Promise!TurnTo, Promise!Patch, Patch
  <2>6. QED
    BY <1>3, <2>5 DEF Promise!LedgerNext, LedgerReads
<1>14. QED
  BY <1>12, <1>13

(* A command in the selected source scribbles.                             *)
LEMMA ScribbleMaps ==
  ASSUME IInv, IInv', NEW outs \in SUBSET Names, NEW after \in Contents,
         RunInSource(outs, after)
  PROVE  Promise!LedgerNext
<1> DEFINE ws == Select(None)
           n  == ws.artifact.output_name
<1>1. /\ phase = "transform" /\ phase' = phase /\ CanSelect(None)
      /\ source' = [ws EXCEPT !.tree = after] /\ artifacts \subseteq artifacts'
      /\ step' = Step("run", n, {}, EmptyTree)
  BY DEF RunInSource, InStage, AddDerived, Continue
<1>2. Alive /\ Alive' /\ Released' = Released
  BY <1>1 DEF Alive, Released
<1>3. /\ ws \in Workspace /\ ws.artifact \in artifacts
      /\ ws.layout # "none"
      /\ n \in DOMAIN Ledger
      /\ n = Active \/ ~source.dirty
      /\ ws.dirty = source.dirty
      /\ Ledger[n] = IF ws.dirty THEN ws.tree ELSE ws.artifact.checksum
      /\ \A a \in artifacts : a.output_name # n => Revision(a) = a.checksum
  BY <1>1, <1>2, TurnFacts DEF Targets
<1>4. LedgerReads /\ LedgerReads'
  BY LedgerFacts, LedgerFactsNext
<1>5. /\ source'.tree = after /\ source'.artifact = ws.artifact
      /\ source'.dirty = source.dirty /\ source'.layout = ws.layout
  BY <1>1, <1>3 DEF Workspace
<1>6. step'.op = "run" /\ step'.source = n
  BY <1>1 DEF Step
<1> HIDE DEF ws, n
<1>7. ~Unbound' /\ Active' = n
  BY <1>2, <1>3, <1>5 DEF Unbound, Active, n
<1>8. NamesOf(artifacts) \subseteq NamesOf(artifacts')
  BY <1>1 DEF NamesOf
<1>9. Promise!OnlyRevises(n)
  <2>1. \A a \in artifacts : a.output_name # n => Revision(a)' = Revision(a)
    BY <1>3, <1>5 DEF Revision, n
  <2>2. QED
    BY <1>1, <1>2, <1>8, <2>1, OthersStay
<1>10. IF Alive /\ source.dirty THEN Scratch' = {} ELSE Ledger'[n] = Ledger[n]
  <2>1. CASE source.dirty
    BY <1>2, <1>5, <2>1 DEF Scratch
  <2>2. CASE ~source.dirty
    <3>1. PICK a \in artifacts' : a = ws.artifact
      BY <1>1, <1>3
    <3>2. Ledger'[n] = Revision(a)'
      BY <1>2, <1>4, <3>1 DEF LedgerReads, n
    <3>3. QED
      BY <1>3, <1>5, <2>2, <3>1, <3>2 DEF Revision
  <2>3. QED
    BY <2>1, <2>2
<1>11. Promise!Scribble
  BY <1>1, <1>2, <1>3, <1>5, <1>6, <1>7, <1>9, <1>10
     DEF Promise!Scribble, Promise!TurnTo
<1>12. QED
  BY <1>4, <1>11 DEF Promise!LedgerNext, LedgerReads

(* Making artifacts of anything else derives.                              *)
LEMMA DeriveMaps ==
  ASSUME IInv, IInv', NEW producer, NEW outs, NEW bytes,
         MakeOutputs(producer, outs, bytes)
  PROVE  Promise!LedgerNext
<1>1. /\ phase = "transform" /\ phase' = phase /\ source' = source
      /\ artifacts \subseteq artifacts' /\ step' = Plain("derive")
  BY DEF MakeOutputs, InStage, AddDerived, Continue
<1>2. Alive /\ Alive' /\ Released' = Released
  BY <1>1 DEF Alive, Released
<1>3. NamesOf(artifacts) \subseteq NamesOf(artifacts')
  BY <1>1 DEF NamesOf
<1>4. Promise!OnlyRevises(None)
  <2>1. \A a \in artifacts : Revision(a)' = Revision(a)
    BY <1>1 DEF Revision
  <2>2. QED
    BY <1>1, <1>2, <1>3, <2>1, OthersStay
<1>5. Active' = Active /\ Scratch' = Scratch
  BY <1>1, <1>2 DEF Active, Scratch, Unbound
<1>6. Promise!Derive
  BY <1>1, <1>2, <1>4, <1>5
     DEF Promise!Derive, Promise!Plain, Plain, Promise!Step, Step,
         Promise!EmptyTree, EmptyTree
<1>7. QED
  BY <1>6, LedgerFactsNext DEF Promise!LedgerNext, LedgerReads

(* commit() releases the ledger.                                           *)
LEMMA ReleaseMaps ==
  ASSUME IInv, IInv', EndTransform
  PROVE  Promise!LedgerNext
<1> DEFINE parent  == source.artifact
           path    == DerivedPath("source", parent.checksum, parent.output_name)
           derived == BuildDerived(path, parent.output_name, source.tree)
<1>1. /\ phase = "transform" /\ phase' = "transformed" /\ step' = Plain("end")
  BY DEF EndTransform
<1>2. Alive /\ Alive'
  BY <1>1 DEF Alive
<1>3. LedgerReads /\ LedgerReads'
  BY LedgerFacts, LedgerFactsNext
<1>4. /\ NamesOf(artifacts') = NamesOf(artifacts)
      /\ \A a \in artifacts' : \E b \in artifacts :
           b.output_name = a.output_name /\ Revision(a)' = Revision(b)
      /\ Active' = Active /\ Scratch' = Scratch /\ ~source'.dirty
      /\ source'.dirty \in BOOLEAN
  <2>1. CASE ~source.dirty
    <3>1. UNCHANGED <<disk, artifacts, source>>
      BY <2>1 DEF EndTransform
    <3>2. Active' = Active /\ Scratch' = Scratch
      BY <1>2, <3>1 DEF Active, Scratch, Unbound
    <3>3. \A a \in artifacts : Revision(a)' = Revision(a)
      BY <3>1 DEF Revision
    <3>4. QED
      BY <2>1, <3>1, <3>2, <3>3 DEF IInv, TypeOK, Workspace, NamesOf
  <2>2. CASE source.dirty
    <3>1. /\ artifacts' = Replace(derived)
          /\ source' = [source EXCEPT !.artifact = derived, !.dirty = FALSE]
      BY <2>2 DEF EndTransform
    <3>2. parent \in artifacts /\ parent \in Artifact /\ ~Unbound
      BY <1>2, <2>2 DEF IInv, TypeOK, BackingIsPublished, Unbound
    <3>3. /\ parent.output_name \in Names /\ parent.checksum \in Contents
          /\ source.tree \in Contents
      BY <3>2 DEF Artifact, IInv, TypeOK, Workspace
    <3>4. /\ derived \in Artifact /\ derived.output_name = parent.output_name
          /\ derived.checksum = source.tree
      BY <3>3, BuildFacts DEF BuildDerived, DerivedPath, Producers
    <3> HIDE DEF derived, path
    <3>5. /\ source'.tree = source.tree /\ source'.artifact = derived
          /\ source'.dirty = FALSE /\ source'.layout = source.layout
      BY <3>1 DEF IInv, TypeOK, Workspace
    <3>6. /\ NamesOf(artifacts') = NamesOf(artifacts)
          /\ \A a \in artifacts' :
               a = derived \/ (a \in artifacts /\ a.output_name # derived.output_name)
      BY <3>1, <3>2, <3>4, ReplaceFacts
    <3>7. Active' = Active
      BY <1>2, <3>2, <3>4, <3>5 DEF Active, Unbound
    <3>8. Scratch = {} /\ Scratch' = {}
      BY <2>2, <3>4, <3>5 DEF Scratch
    <3>9. ASSUME NEW a \in artifacts', a = derived PROVE Revision(a)' = Revision(parent)
      BY <2>2, <3>4, <3>5, <3>9 DEF Revision
    <3>10. ASSUME NEW a \in artifacts, a.output_name # derived.output_name
           PROVE  Revision(a)' = Revision(a)
      BY <3>4, <3>5, <3>10 DEF Revision
    <3>11. QED
      BY <3>2, <3>4, <3>5, <3>6, <3>7, <3>8, <3>9, <3>10
  <2>3. QED
    BY <2>1, <2>2
<1> HIDE DEF parent, path, derived
<1>5. Ledger' = Ledger
  <2>1. DOMAIN Ledger' = DOMAIN Ledger /\ DOMAIN Ledger = NamesOf(artifacts)
    BY <1>2, <1>3, <1>4 DEF LedgerReads
  <2>2. ASSUME NEW n \in DOMAIN Ledger PROVE Ledger'[n] = Ledger[n]
    <3>1. PICK a \in artifacts' : a.output_name = n /\ Ledger'[n] = Revision(a)'
      BY <1>2, <1>3, <1>4, <2>1 DEF LedgerReads
    <3>2. PICK b \in artifacts : b.output_name = n /\ Revision(a)' = Revision(b)
      BY <1>4, <3>1
    <3>3. Ledger[b.output_name] = Revision(b)
      BY <1>2, <1>3 DEF LedgerReads
    <3>4. QED
      BY <3>1, <3>2, <3>3
  <2>3. /\ Ledger' = [n \in DOMAIN Ledger' |-> Ledger'[n]]
        /\ Ledger = [n \in DOMAIN Ledger |-> Ledger[n]]
    BY <1>3 DEF LedgerReads
  <2>4. QED
    BY <2>1, <2>2, <2>3
<1>6. Released' = Ledger'
  <2>1. Released' = [n \in NamesOf(artifacts') |-> disk'[Find(artifacts', n).path]]
    BY <1>1 DEF Released
  <2>2. Ledger' = [n \in NamesOf(artifacts') |-> Find(artifacts', n).checksum]
    BY <1>2, <1>4 DEF Ledger, Revision
  <2>3. ASSUME NEW n \in NamesOf(artifacts')
        PROVE  disk'[Find(artifacts', n).path] = Find(artifacts', n).checksum
    <3>1. Find(artifacts', n) \in artifacts'
      BY FindFacts
    <3>2. QED
      BY <1>2, <3>1 DEF IInv, BytesMatchChecksums
  <2>4. QED
    BY <2>1, <2>2, <2>3
<1>7. (Alive' /\ source'.dirty) = FALSE
  BY <1>4
<1>8. Promise!Release
  BY <1>1, <1>4, <1>5, <1>6, <1>7
     DEF Promise!Release, Promise!Plain, Plain, Promise!Step, Step,
         Promise!EmptyTree, EmptyTree
<1>9. QED
  BY <1>3, <1>8 DEF Promise!LedgerNext, LedgerReads

-----------------------------------------------------------------------------

(* Every transform step is a step of the ledger.                           *)
LEMMA TransformingMaps ==
  ASSUME RInv, IInv', Transforming
  PROVE  Promise!LedgerNext
<1> USE DEF RInv
<1>1. ASSUME NEW target \in Targets, NEW pattern \in SUBSET Files, NEW match \in Matches,
             StripTarball(target, pattern, match)
      PROVE  Promise!LedgerNext
  BY <1>1, FilterMaps
<1>2. ASSUME NEW paths \in SUBSET Files, NEW new \in Contents, VendorBump(paths, new)
      PROVE  Promise!LedgerNext
  <2>1. /\ phase = "transform" /\ UNCHANGED phase /\ CanSelect(None)
        /\ source' = ApplyChanges(Select(None), paths, new)
        /\ artifacts \subseteq artifacts'
        /\ step' = Step("edit", Select(None).artifact.output_name, paths, new)
    BY <1>2 DEF VendorBump, InStage, Continue
  <2>2. None \in Targets
    BY DEF Targets
  <2>3. QED
    BY <2>1, <2>2, AmendMaps
<1>3. ASSUME NEW target \in Targets, NEW n \in Names, NEW outs \in SUBSET Names,
             NEW copy \in Contents, NEW declared \in SUBSET Files,
             Vendor(target, n, outs, copy, declared)
      PROVE  Promise!LedgerNext
  <2>1. /\ phase = "transform" /\ UNCHANGED phase /\ CanSelect(target)
        /\ source' = ApplyChanges(Select(target), declared, copy)
        /\ artifacts \subseteq artifacts'
        /\ step' = Step("edit", Select(target).artifact.output_name, declared, copy)
    BY <1>3 DEF Vendor, InStage, AddDerived, Continue
  <2>2. QED
    BY <2>1, AmendMaps
<1>4. ASSUME NEW outs \in SUBSET Names, NEW after \in Contents, RunInSource(outs, after)
      PROVE  Promise!LedgerNext
  BY <1>4, ScribbleMaps
<1>5. ASSUME NEW producer, NEW outs, NEW bytes, MakeOutputs(producer, outs, bytes)
      PROVE  Promise!LedgerNext
  BY <1>5, DeriveMaps
<1>6. ASSUME NEW producer, NEW n, NEW before, NEW bytes,
             OutputTaken(producer, n, before, bytes)
      PROVE  Promise!LedgerNext
  BY <1>6, FailMaps DEF OutputTaken, InStage
<1>7. ASSUME NEW target, NEW pattern,
             \/ StripMatchesNothing(target, pattern) \/ VendorWithoutCommit(target)
             \/ CannotSelect(target) \/ ToolFails
      PROVE  Promise!LedgerNext
  BY <1>7, FailMaps DEF StripMatchesNothing, VendorWithoutCommit, CannotSelect,
                        ToolFails, FailUnchanged, InStage
<1>8. QED
  BY <1>1, <1>2, <1>3, <1>4, <1>5, <1>6, <1>7 DEF Transforming, RunDetached, Pack

(* Every step of the stages is a step of the ledger or leaves it alone.    *)
LEMMA NextMaps ==
  ASSUME \A opt \in GitOptions : ~opt.subdir
  PROVE  RInv /\ IInv' /\ [Next]_vars => [Promise!LedgerNext]_(Promise!lvars)
<1> SUFFICES ASSUME RInv, IInv', [Next]_vars
             PROVE  Promise!LedgerNext \/ UNCHANGED Promise!lvars
  OBVIOUS
<1>1. CASE Fetch
  BY <1>1, FetchMaps
<1>2. CASE BeginTransform
  <2>1. /\ phase = "fetch" /\ phase' = "transform" /\ step' = Plain("end")
        /\ artifacts' = artifacts /\ source' = source
    BY <1>2 DEF BeginTransform
  <2>2. /\ Ledger' = Ledger /\ Active' = Active /\ Scratch' = Scratch
        /\ Released' = Released /\ Alive' = Alive
    BY <2>1 DEF Ledger, Revision, Active, Scratch, Released, Unbound, Alive
  <2>3. Promise!BeginTransform
    BY <2>1, <2>2 DEF Promise!BeginTransform, Promise!Plain, Plain, Promise!Step, Step,
                      Promise!EmptyTree, EmptyTree
  <2>4. QED
    BY <2>3, LedgerFactsNext DEF Promise!LedgerNext, LedgerReads
<1>3. CASE Transforming
  BY <1>3, TransformingMaps
<1>4. CASE EndTransform
  BY <1>4, ReleaseMaps DEF RInv
<1>5. CASE CommitWithoutCommit
  BY <1>5, FailMaps DEF CommitWithoutCommit, FailUnchanged
<1>6. CASE UNCHANGED vars
  BY <1>6 DEF vars, Promise!lvars, Ledger, Revision, Active, Scratch, Released,
              Unbound, Alive
<1>7. QED
  BY <1>1, <1>2, <1>3, <1>4, <1>5, <1>6 DEF Next

(* The initial ledger is empty.                                            *)
LEMMA InitMaps == Init => Promise!LedgerInit
<1> SUFFICES ASSUME Init PROVE Promise!LedgerInit
  OBVIOUS
<1>1. /\ phase = "fetch" /\ step = Plain("start") /\ artifacts = {}
      /\ source.layout = "none" /\ source.dirty = FALSE
  BY DEF Init, NoWorkspace
<1>2. NamesOf(artifacts) = {}
  BY <1>1 DEF NamesOf
<1>3. /\ Ledger = [n \in {} |-> EmptyTree] /\ Released = [n \in {} |-> EmptyTree]
      /\ Active = None /\ Scratch = {}
  BY <1>1, <1>2 DEF Ledger, Released, Active, Scratch, Unbound, Alive
<1>4. QED
  BY <1>1, <1>3 DEF Promise!LedgerInit, Promise!NoRevisions, Promise!Plain, Plain,
                    Promise!Step, Step, Promise!EmptyTree, EmptyTree

(***************************************************************************)
(* Where git archives whole checkouts, every run of the two stages obeys   *)
(* SourceLedger: each declared edit reaches the archive released for its   *)
(* source, a stripped file never comes back, a source switch loses no      *)
(* edit, and nothing but a declared step changes a source.                 *)
(***************************************************************************)
THEOREM Refinement ==
  ASSUME \A opt \in GitOptions : ~opt.subdir
  PROVE  Spec => ImplementsLedger
<1>1. RInv /\ RInv' /\ [Next]_vars => [Promise!LedgerNext]_(Promise!lvars)
  BY NextMaps DEF RInv
<1>2. Spec => [][Next]_vars /\ Init
  BY DEF Spec
<1>3. QED
  BY <1>1, <1>2, InitMaps, RInvariance, PTL DEF ImplementsLedger, Promise!LedgerSpec
=============================================================================
