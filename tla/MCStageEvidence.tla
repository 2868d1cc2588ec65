-------------------------- MODULE MCStageEvidence ---------------------------
(* Small instances of the C8 live cycle and of the change seals.  The cycle  *)
(* keeps its documents outside of the repository and the seals keep theirs   *)
(* inside, so that a behaviour of both is an interleaving of one behaviour   *)
(* of each: one is explored while the other stays as it was created.         *)
EXTENDS C8LiveCycle, ChangeSeal, TLC

-----------------------------------------------------------------------------
(* The live cycle *)

MCPolicy == [identity |-> "work", profileSha |-> "p1"]

MCProfile(identity, sha, support) ==
  [identity |-> identity, sha |-> sha, support |-> support, revalidateAfter |-> 3]

MCProfiles ==
  {MCProfile("work", "p1", "supported"), MCProfile("work", "p1", "unsupported"),
   MCProfile("work", "p2", "supported"), MCProfile("chat", "p1", "supported")}

MCSymmetry == Permutations(Bundles) \cup Permutations(Grants)

-----------------------------------------------------------------------------
(* The seals *)

\* Hand-written manifests of a stage: one that fits a change of `code' alone
\* and one that fits a change of `code' and `notes'.
MCManifests(s) ==
  {[files |-> f, att |-> IF s = "c8" THEN "c8att" ELSE NoAttestation, live |-> 0,
    c8 |-> NoFile] :
     f \in {{"code", ManifestPath(s)}, {"code", "notes", ManifestPath(s)}}}

\* C9 generates its manifest in a clean worktree, and C7 differs from C8 only in its
\* paths and its manifest: one edit at a time is enough for both.
MCMaxDirty(s) == IF s \in {"c7", "c9"} THEN 1 ELSE 2

-----------------------------------------------------------------------------

\* Seals are explored with one profile, the cycle with one stage.
SealsExplored == profile = MCProfile("work", "p1", "supported")
CycleExplored == stage = "c6"

StageInit == Init /\ SealInit /\ (SealsExplored \/ CycleExplored)

CycleStep == CycleExplored /\ SealInit /\ Next /\ UNCHANGED sealVars
SealsStep == SealsExplored /\ Init /\ SealNext /\ UNCHANGED vars

StageNext == CycleStep \/ SealsStep

StageSpec == StageInit /\ [][StageNext]_<<vars, sealVars>>
=============================================================================
