----------------------------- MODULE GitHistory -----------------------------
(***************************************************************************)
(* The part of git that the change seals of the stages C6 to C9 rely on:   *)
(* immutable commits with one parent, HEAD, a worktree, and the two        *)
(* evidence tags a stage can look at.  Everything here is external to the  *)
(* repository's code and is modelled from the git commands c6_seal.py,     *)
(* c7_seal.py, c8_seal.py and c9_seal.py run.  A commit is named by its    *)
(* position in `commits'; a tree gives every path its content, NoFile when *)
(* the path is absent.  The index is left out: a path is either as HEAD    *)
(* has it, or it differs and the worktree is dirty.                        *)
(***************************************************************************)
EXTENDS Naturals, Sequences, FiniteSets

CONSTANT NoFile        \* content of an absent path; also: no tag, no attestation

\* An absent tag is not a tag.
ASSUME NoFileAssumption == NoFile \notin [annotated : BOOLEAN, target : Nat]

VARIABLES commits,     \* [parent, tree] records, oldest first
          head,        \* the commit HEAD names
          branch,      \* the branch HEAD is on: the reviewed one, main, or none
          work,        \* the tree in the worktree
          tag,         \* the evidence tag of the stage being sealed
          c8tag        \* the evidence tag of stage C8, which C9 depends on

gitVars == <<commits, head, branch, work, tag, c8tag>>

Paths == {"code", "notes", "manifest", "seal", "c8manifest", "c8seal"}

NoTree == [p \in Paths |-> NoFile]

Parent(c) == commits[c].parent
Tree(c) == commits[c].tree

Ancestors(c) ==
  LET up[d \in 0..Len(commits)] ==
        IF d = 0 THEN {} ELSE {d} \cup up[commits[d].parent]
  IN  up[c]

\* merge-base --is-ancestor: a commit is an ancestor of itself.
IsAncestor(a, c) == a \in Ancestors(c)

\* diff --name-only between two commits.
Changed(a, c) == {p \in Paths : Tree(a)[p] # Tree(c)[p]}

\* status --porcelain prints nothing.
Clean == work = Tree(head)

NewCommit(parent, tree) ==
  /\ commits' = Append(commits, [parent |-> parent, tree |-> tree])
  /\ head' = Len(commits) + 1

Edit(p, content) ==
  /\ work[p] # content
  /\ work' = [work EXCEPT ![p] = content]
  /\ UNCHANGED <<commits, head, branch, tag, c8tag>>

\* Some of the changed paths are committed, the others stay in the worktree.
CommitPaths(S) ==
  /\ S # {}
  /\ \A p \in S : work[p] # Tree(head)[p]
  /\ NewCommit(head, [p \in Paths |-> IF p \in S THEN work[p] ELSE Tree(head)[p]])
  /\ UNCHANGED <<branch, work, tag, c8tag>>

Checkout(c, b) ==
  /\ Clean
  /\ <<c, b>> # <<head, branch>>
  /\ head' = c
  /\ branch' = b
  /\ work' = Tree(c)
  /\ UNCHANGED <<commits, tag, c8tag>>

\* The reviewed branch lands on main as one commit on top of `base'.
SquashMerge(base) ==
  /\ Clean
  /\ Parent(head) # base
  /\ NewCommit(base, Tree(head))
  /\ branch' = "main"
  /\ UNCHANGED <<work, tag, c8tag>>

SetTag(annotated) ==
  /\ tag' = [annotated |-> annotated, target |-> head]
  /\ tag' # tag
  /\ UNCHANGED <<commits, head, branch, work, c8tag>>

SetC8Tag(annotated, c) ==
  /\ c8tag' = [annotated |-> annotated, target |-> c]
  /\ c8tag' # c8tag
  /\ UNCHANGED <<commits, head, branch, work, tag>>
=============================================================================
