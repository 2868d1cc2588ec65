-------------------------- MODULE MCC9Attestation ---------------------------
EXTENDS C9Attestation, TLC

MCSymmetry == Permutations(Handoffs) \cup Permutations(Cycles)

\* Head x1 is a commit that does not descend from the sealed one.
MCAncestor == {<<Tag0, Head0>>}
=============================================================================
