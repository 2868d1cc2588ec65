----------------------------- MODULE ChangeSeal -----------------------------
(***************************************************************************)
(* The change seals of the stages C6, C7, C8 and C9 (c6_seal.py to         *)
(* c9_seal.py) over a git history.  A stage's manifest lists the files the *)
(* stage changed; its seal commits to the manifest, to the diff and to the *)
(* tree of the covered commit; the annotated evidence tag points to a      *)
(* commit that adds the seal and nothing else.  The operator edits,        *)
(* commits, checks out, squash-merges and tags in any order between two    *)
(* invocations of the tools.  A SHA-256 digest is modelled by the value it *)
(* is the digest of.  `stage' picks the tool a behaviour uses; a C9        *)
(* history starts with the sealed C8 stage as its base.                    *)
(***************************************************************************)
EXTENDS GitHistory

CONSTANTS Stages,         \* the stages to explore
          Manifests(_),   \* the manifests an operator may write by hand
          Attestations,   \* final attestations a C9 cycle can end with
          MaxDirty(_),    \* bound on the paths that differ from HEAD at a time
          MaxNew          \* bound on the commits above the base

ASSUME SealAssumption == Stages \subseteq {"c6", "c7", "c8", "c9"}

VARIABLES stage,          \* the stage whose tool is used
          att             \* the C9 attestation file: [id, live, c8], or NoFile

sealVars == <<commits, head, branch, work, tag, c8tag, stage, att>>

ManifestPath(s) == IF s = "c8" THEN "c8manifest" ELSE "manifest"
SealPath(s) == IF s = "c8" THEN "c8seal" ELSE "seal"
Base(s) == IF s = "c9" THEN 3 ELSE 1
TagOf(s) == IF s = "c8" THEN c8tag ELSE tag

NoAttestation == "none"

----------------------------------------------------------------------------
(* What a stage commits to *)

\* A manifest is a file list and, from C8 on, the attestation it rests on; a
\* C9 manifest also has the live head and the C8 dependency of its attestation.
ManifestC6Valid(m) ==
  /\ m # NoFile
  /\ "manifest" \in m.files
  /\ "seal" \notin m.files

ManifestC7Valid(m) ==
  /\ m # NoFile
  /\ "manifest" \in m.files
  /\ "seal" \notin m.files

ManifestC8Valid(m) ==
  /\ m # NoFile
  /\ "c8manifest" \in m.files
  /\ "c8seal" \notin m.files
  /\ m.att # NoAttestation

ManifestC9Valid(m) ==
  /\ m # NoFile
  /\ "manifest" \in m.files
  /\ "seal" \notin m.files
  /\ m.att # NoAttestation

\* C6 leaves its own seal out of the changed paths, so that a sealed branch
\* can be sealed again; the later stages report every changed path.
ChangedPathsC6(a, c) == Changed(a, c) \ {"seal"}

ChangedPaths(a, c) == Changed(a, c)

DiffCommitment(s, a, c) ==
  [p \in Changed(a, c) \ {SealPath(s)} |-> <<Tree(a)[p], Tree(c)[p]>>]

TreeCommitment(s, c) == [p \in Paths \ {SealPath(s)} |-> Tree(c)[p]]

\* compute_c8_diff_commitment refuses an empty diff; C6 and C9 do the same
\* through the lower bound of the committed length.
DiffIsNonEmpty(s, a, c) == Changed(a, c) \ {SealPath(s)} # {}

Seal(s, c, m, changed) ==
  [covered |-> c, manifest |-> m, att |-> m.att, count |-> Cardinality(changed),
   diff |-> DiffCommitment(s, Base(s), c), tree |-> TreeCommitment(s, c)]

----------------------------------------------------------------------------
(* The checks verify_cN_seal makes on the tag, in the order it makes them  *)

TagIsAnnotated(t) == t # NoFile /\ t.annotated

\* The tagged commit's parent is the covered head, and it changes only the seal.
TagAddsOnlySeal(s, t) ==
  LET seal == Tree(t.target)[SealPath(s)]
  IN  /\ seal # NoFile
      /\ Parent(t.target) = seal.covered
      /\ Changed(seal.covered, t.target) = {SealPath(s)}

ManifestIsSealed(seal, m) == seal.manifest = m /\ seal.att = m.att

ChangesAreListed(changed, m, seal) ==
  changed = m.files /\ Cardinality(changed) = seal.count

CommitmentsHold(s, seal, t) ==
  /\ DiffIsNonEmpty(s, Base(s), seal.covered)
  /\ DiffCommitment(s, Base(s), seal.covered) = seal.diff
  /\ TreeCommitment(s, seal.covered) = TreeCommitment(s, t.target)
  /\ TreeCommitment(s, seal.covered) = seal.tree

\* Mutant: the current tree is not compared, only its ancestry.
CurrentAncestryOnly(s, seal, current) == IsAncestor(Base(s), head)

CurrentHolds(s, seal, current) ==
  /\ IsAncestor(Base(s), head)
  /\ current => TreeCommitment(s, head) = seal.tree

----------------------------------------------------------------------------
(* The four verifications.  `current' is --require-current-tree; the flag  *)
(* --require-clean adds Clean and is left to the caller.                   *)

VerifyC6(current) ==
  /\ TagIsAnnotated(tag)
  /\ LET seal == Tree(tag.target)["seal"]
         m == Tree(tag.target)["manifest"]
     IN  /\ ManifestC6Valid(m)
         /\ seal # NoFile
         /\ ManifestIsSealed(seal, m)
         /\ IsAncestor(Base("c6"), seal.covered)
         /\ TagAddsOnlySeal("c6", tag)
         /\ ChangesAreListed(ChangedPathsC6(Base("c6"), seal.covered), m, seal)
         /\ CommitmentsHold("c6", seal, tag)
         /\ CurrentHolds("c6", seal, current)

VerifyC7(current) ==
  /\ TagIsAnnotated(tag)
  /\ TagAddsOnlySeal("c7", tag)
  /\ LET seal == Tree(tag.target)["seal"]
         m == Tree(seal.covered)["manifest"]
     IN  /\ ManifestC7Valid(m)
         /\ ManifestIsSealed(seal, m)
         /\ ChangesAreListed(ChangedPaths(Base("c7"), seal.covered), m, seal)
         /\ CommitmentsHold("c7", seal, tag)
         /\ CurrentHolds("c7", seal, current)

\* Mutant: the manifest is read from HEAD, where later stages may change it.
VerifyC8AtHead(current) ==
  /\ TagIsAnnotated(c8tag)
  /\ TagAddsOnlySeal("c8", c8tag)
  /\ LET seal == Tree(c8tag.target)["c8seal"]
         m == Tree(head)["c8manifest"]
     IN  /\ ManifestC8Valid(m)
         /\ ManifestIsSealed(seal, m)
         /\ ChangesAreListed(ChangedPaths(Base("c8"), seal.covered), m, seal)
         /\ CommitmentsHold("c8", seal, c8tag)
         /\ CurrentHolds("c8", seal, current)

VerifyC8(current) ==
  /\ TagIsAnnotated(c8tag)
  /\ TagAddsOnlySeal("c8", c8tag)
  /\ LET seal == Tree(c8tag.target)["c8seal"]
         m == Tree(seal.covered)["c8manifest"]
     IN  /\ ManifestC8Valid(m)
         /\ ManifestIsSealed(seal, m)
         /\ ChangesAreListed(ChangedPaths(Base("c8"), seal.covered), m, seal)
         /\ CommitmentsHold("c8", seal, c8tag)
         /\ CurrentHolds("c8", seal, current)

\* verify_c9_c8_seal_exact: C9's own second implementation of the C8 check.
\* Its loader is stricter than C8's about how a file is written (at most 2 MiB,
\* no duplicate key, no NaN) and about git itself (at most 16 MiB of output, no
\* inherited GIT_ variable); files here are the values they are read as, so that
\* these refusals, all of them before anything is written, are not modelled.
C8SealExact ==
  /\ c8tag # NoFile
  /\ c8tag.annotated
  /\ LET t == c8tag.target
         seal == Tree(t)["c8seal"]
         m == Tree(Parent(t))["c8manifest"]
     IN  /\ Parent(t) # 0
         /\ seal # NoFile
         /\ seal.covered = Parent(t)
         /\ Changed(seal.covered, t) = {"c8seal"}
         /\ ManifestC8Valid(m)
         /\ seal.manifest = m
         /\ seal.att = m.att
         /\ Changed(Base("c8"), seal.covered) = m.files
         /\ seal.count = Cardinality(m.files)
         /\ seal.diff = DiffCommitment("c8", Base("c8"), seal.covered)
         /\ DOMAIN seal.diff # {}
         /\ TreeCommitment("c8", seal.covered) = TreeCommitment("c8", t)
         /\ TreeCommitment("c8", t) = seal.tree
         /\ IsAncestor(Base("c8"), head)

\* What a C9 manifest repeats of the C8 seal that commit t adds.
C8Dependency(t) ==
  LET seal == Tree(t)["c8seal"]
  IN  [covered |-> seal.covered, tree |-> seal.tree, att |-> seal.att]

\* _verify_c8_manifest_dependency: the C8 tag names C9's base commit, the
\* manifest repeats the covered head, the tree and the attestation of the seal
\* there, and the live head it claims descends from it.
C8ManifestDependency(m) ==
  /\ C8SealExact
  /\ c8tag.target = Base("c9")
  /\ m.c8 = C8Dependency(c8tag.target)
  /\ IsAncestor(c8tag.target, m.live)

\* _read_final_attestation
AttestationIsRead == att # NoFile

\* _manifest_from_attestation: what the attestation file in hand implies.
ManifestOf(files, a) ==
  [files |-> files, att |-> a.id, live |-> a.live, c8 |-> a.c8]

LiveHeadIsCovered(live, covered) ==
  IsAncestor(Base("c9"), live) /\ IsAncestor(live, covered)

VerifyC9(current) ==
  /\ TagIsAnnotated(tag)
  /\ TagAddsOnlySeal("c9", tag)
  /\ LET seal == Tree(tag.target)["seal"]
         m == Tree(seal.covered)["manifest"]
     IN  /\ ManifestC9Valid(m)
         /\ ManifestIsSealed(seal, m)
         /\ ChangesAreListed(ChangedPaths(Base("c9"), seal.covered), m, seal)
         /\ LiveHeadIsCovered(m.live, seal.covered)
         /\ C8ManifestDependency(m)
         /\ CommitmentsHold("c9", seal, tag)
         /\ AttestationIsRead
         /\ LiveHeadIsCovered(att.live, seal.covered)
         /\ m = ManifestOf(m.files, att)
         /\ CurrentHolds("c9", seal, current)

Verify(s, current) ==
  CASE s = "c6" -> VerifyC6(current)
    [] s = "c7" -> VerifyC7(current)
    [] s = "c8" -> VerifyC8(current)
    [] s = "c9" -> VerifyC9(current)

----------------------------------------------------------------------------
(* The tools that write: create-manifest (C9 only) and create, which writes *)
(* to the stage's seal path; --output names another file, outside of what   *)
(* verify reads, until the operator moves it there.                         *)

\* The seal replaces whatever the worktree has at the stage's seal path.
WriteSeal(s, c, m, changed) ==
  /\ DiffIsNonEmpty(s, Base(s), c)
  /\ work' = [work EXCEPT ![SealPath(s)] = Seal(s, c, m, changed)]
  /\ UNCHANGED <<commits, head, branch, tag, c8tag, stage, att>>

\* C6 seals HEAD, on the reviewed branch, from a clean worktree, and reads
\* the manifest from the worktree.
CreateC6Seal ==
  LET m == work["manifest"]
      changed == ChangedPathsC6(Base("c6"), head)
  IN  /\ stage = "c6"
      /\ Clean
      /\ IsAncestor(Base("c6"), head)
      /\ branch = "reviewed"
      /\ ManifestC6Valid(m)
      /\ changed = m.files
      /\ WriteSeal("c6", head, m, changed)

CreateC7Seal(c) ==
  LET m == Tree(c)["manifest"]
      changed == ChangedPaths(Base("c7"), c)
  IN  /\ stage = "c7"
      /\ IsAncestor(Base("c7"), c)
      /\ ManifestC7Valid(m)
      /\ changed = m.files
      /\ WriteSeal("c7", c, m, changed)

\* Mutant: create does not compare the manifest with the covered diff.
CreateC8SealUnchecked(c) ==
  LET m == Tree(c)["c8manifest"]
      changed == ChangedPaths(Base("c8"), c)
  IN  /\ stage = "c8"
      /\ IsAncestor(Base("c8"), c)
      /\ ManifestC8Valid(m)
      /\ WriteSeal("c8", c, m, changed)

CreateC8Seal(c) ==
  LET m == Tree(c)["c8manifest"]
      changed == ChangedPaths(Base("c8"), c)
  IN  /\ stage = "c8"
      /\ IsAncestor(Base("c8"), c)
      /\ ManifestC8Valid(m)
      /\ changed = m.files
      /\ WriteSeal("c8", c, m, changed)

\* C9 derives its manifest from the attestation; the output must not exist.
CreateC9Manifest(c) ==
  /\ stage = "c9"
  /\ Clean
  /\ IsAncestor(Base("c9"), c)
  /\ "seal" \notin ChangedPaths(Base("c9"), c)
  /\ AttestationIsRead
  /\ LiveHeadIsCovered(att.live, c)
  /\ LET m == ManifestOf(ChangedPaths(Base("c9"), c) \cup {"manifest"}, att)
     IN  /\ C8ManifestDependency(m)
         /\ work["manifest"] = NoFile
         /\ work' = [work EXCEPT !["manifest"] = m]
  /\ UNCHANGED <<commits, head, branch, tag, c8tag, stage, att>>

CreateC9Seal(c) ==
  LET m == Tree(c)["manifest"]
      changed == ChangedPaths(Base("c9"), c)
  IN  /\ stage = "c9"
      /\ Clean
      /\ IsAncestor(Base("c9"), c)
      /\ ManifestC9Valid(m)
      /\ changed = m.files
      /\ LiveHeadIsCovered(m.live, c)
      /\ C8ManifestDependency(m)
      /\ work["seal"] = NoFile
      /\ WriteSeal("c9", c, m, changed)

----------------------------------------------------------------------------
(* The operator's git commands and, for C9, the end of a live cycle *)

Dirty(tree) == {p \in Paths : tree[p] # Tree(head)[p]}

\* Manifests of C6 to C8 are written by hand; a seal can only be removed.
OperatorEdits ==
  /\ IsAncestor(Base(stage), head)
  /\ \/ \E p \in {"code", "notes"} : Edit(p, "edited")
     \/ stage # "c9" /\ \E m \in Manifests(stage) : Edit(ManifestPath(stage), m)
     \/ \E p \in {ManifestPath(stage), SealPath(stage)} : Edit(p, NoFile)
  /\ Cardinality(Dirty(work')) <= MaxDirty(stage)
  /\ UNCHANGED <<stage, att>>

\* The tools refuse every head that does not descend from the base: HEAD may
\* go there, but nothing is edited or attested there.
OperatorCommits ==
  /\ Len(commits) < Base(stage) + MaxNew
  /\ \E S \in SUBSET Dirty(work) : CommitPaths(S)
  /\ UNCHANGED <<stage, att>>

\* Only C6 looks at the branch, so only C6 distinguishes a detached HEAD.
OperatorMovesHead ==
  /\ \/ \E c \in 1..Len(commits), b \in {"reviewed", "none"} :
          (stage # "c6" => b = "reviewed") /\ Checkout(c, b)
     \/ Len(commits) < Base(stage) + MaxNew /\ SquashMerge(Base(stage))
  /\ UNCHANGED <<stage, att>>

\* A tag on a commit without a seal is refused at once and is left out.
OperatorTags ==
  /\ Tree(head)[SealPath(stage)] # NoFile
  /\ \E annotated \in BOOLEAN :
       IF stage = "c8" THEN SetC8Tag(annotated, head) ELSE SetTag(annotated)
  /\ UNCHANGED <<stage, att>>

\* The C8 evidence tag is moved, or made lightweight, under a C9 history.
C8TagMoves ==
  /\ stage = "c9"
  /\ c8tag = [annotated |-> TRUE, target |-> Base("c9")]
  /\ \E c \in {2, 3} : SetC8Tag(c # Base("c9"), c)
  /\ UNCHANGED <<stage, att>>

\* A live cycle ends with an attestation of HEAD and of the C8 seal that C9 is
\* based on, which the cycle verified; the file may be replaced.
AttestationArrives ==
  /\ stage = "c9"
  /\ Clean
  /\ branch = "reviewed"
  /\ IsAncestor(Base("c9"), head)
  /\ \E a \in Attestations :
       att' = [id |-> a, live |-> head, c8 |-> C8Dependency(Base("c9"))]
  /\ att' # att
  /\ UNCHANGED <<commits, head, branch, work, tag, c8tag, stage>>

----------------------------------------------------------------------------
(* C8's sealed history as C9 finds it: base, covered head, seal commit *)

C8Manifest ==
  [files |-> {"code", "c8manifest"}, att |-> "c8att", live |-> 0, c8 |-> NoFile]

C8Covered == [NoTree EXCEPT !["code"] = "edited", !["c8manifest"] = C8Manifest]

C8SealFile ==
  [covered |-> 2, manifest |-> C8Manifest, att |-> "c8att", count |-> 2,
   diff |-> [p \in {"code", "c8manifest"} |-> <<NoFile, C8Covered[p]>>],
   tree |-> [p \in Paths \ {"c8seal"} |-> C8Covered[p]]]

C8History ==
  <<[parent |-> 0, tree |-> NoTree],
    [parent |-> 1, tree |-> C8Covered],
    [parent |-> 2, tree |-> [C8Covered EXCEPT !["c8seal"] = C8SealFile]]>>

SealInit ==
  /\ stage \in Stages
  /\ commits = IF stage = "c9" THEN C8History
               ELSE <<[parent |-> 0, tree |-> NoTree]>>
  /\ head = Len(commits)
  /\ branch = "reviewed"
  /\ work = Tree(head)
  /\ tag = NoFile
  /\ c8tag = IF stage = "c9" THEN [annotated |-> TRUE, target |-> 3] ELSE NoFile
  /\ att = NoFile

SealNext ==
  \/ CreateC6Seal
  \/ \E c \in 1..Len(commits) :
       CreateC7Seal(c) \/ CreateC8Seal(c) \/ CreateC9Manifest(c) \/ CreateC9Seal(c)
  \/ OperatorEdits
  \/ OperatorCommits
  \/ OperatorMovesHead
  \/ OperatorTags
  \/ C8TagMoves
  \/ AttestationArrives

SealSpec == SealInit /\ [][SealNext]_sealVars

----------------------------------------------------------------------------
(* Properties *)

SealedCommit == Tree(TagOf(stage).target)[SealPath(stage)].covered

\* verify_cN_seal --require-current-tree is what a reviewer of main runs.
\* When it succeeds, the files that differ between the stage's base and HEAD
\* are the ones the manifest of the covered commit lists, and HEAD has the
\* reviewed content of every path but the seal: no commit after the review,
\* squash or partial commit brought in an unlisted change.
VerifiedMeansReviewed ==
  Verify(stage, TRUE) =>
    /\ Changed(Base(stage), head) \ {SealPath(stage)} =
         Tree(SealedCommit)[ManifestPath(stage)].files
    /\ \A p \in Paths \ {SealPath(stage)} : Tree(head)[p] = Tree(SealedCommit)[p]

\* A seal that cN_seal create wrote and that was committed alone on its
\* covered head under an annotated tag is accepted by cN_seal verify: create
\* and verify agree on what is sealed.  For C9 this needs the attestation the
\* manifest was made from and an untouched C8 tag.
FreshSealVerifies ==
  LET t == TagOf(stage)
  IN  /\ TagIsAnnotated(t)
      /\ TagAddsOnlySeal(stage, t)
      /\ IsAncestor(Base(stage), head)
      /\ stage = "c9" =>
           LET m == Tree(Parent(t.target))["manifest"]
           IN  /\ att # NoFile /\ ManifestOf(m.files, att) = m
               /\ c8tag = [annotated |-> TRUE, target |-> Base("c9")]
      => Verify(stage, FALSE)

\* Evidence outlives the branch: once a seal verifies, no commit, checkout or
\* squash merge invalidates it, as long as HEAD descends from the base and
\* the tags and the attestation file stay.
SealOutlivesBranch ==
  [][/\ Verify(stage, FALSE)
     /\ UNCHANGED <<tag, c8tag, att>>
     /\ IsAncestor(Base(stage), head)'
     => Verify(stage, FALSE)']_sealVars
=============================================================================
