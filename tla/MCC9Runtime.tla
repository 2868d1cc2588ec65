----------------------------- MODULE MCC9Runtime -----------------------------
(* Small instances of the attachment authority and of the coordinator.  They *)
(* share no state, so that a behaviour of both is an interleaving of one     *)
(* behaviour of each: one is explored while the other has not begun.         *)
EXTENDS C9Runtime, TLC

coordinatorVars ==
    <<up, time, rec, staged, buffer, fixture, admission, execution, ended, receipt, stage, tool,
      export, exportUntil, claimed, directory, managerClosed, released, verified>>

MCLeaseTtl == {1}

MCSymmetry == Permutations(Thread) \cup Permutations(Lease) \cup Permutations(Manifest)
                  \cup Permutations(Source)

\* Bound of the run: a file is written after somebody has read it.  A version that
\* nobody remembers is compared with nothing.
ChangesAreSeen ==
    \A s \in Source : version[s] > 0 =>
        \/ \E l \in Lease : leases[l].source = s /\ leases[l].version < version[s]
        \/ \E t \in Thread : call[t].source = s /\ call[t].version < version[s]

RuntimeInit == Init /\ HC!Init

AuthorityStep == HC!Init /\ Next /\ UNCHANGED coordinatorVars
CoordinatorStep == Init /\ HC!Next /\ UNCHANGED vars

RuntimeNext == AuthorityStep \/ CoordinatorStep

RuntimeSpec == RuntimeInit /\ [][RuntimeNext]_<<vars, coordinatorVars>>
=============================================================================
