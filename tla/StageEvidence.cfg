CONSTANTS
  MaxObservationAge = 1
  MaxGrant = 2
  WarningPeriod = 1
  GovernanceExpiry = 2
  Cycles = {c1}
  OtherCycle = c0
  Grants = {g1, g2}
  Bundles = {f1, f2}
  Profiles <- MCProfiles
  Policy <- MCPolicy
  MaxAuthorization = 2
  TaskTTL = 1
  ChallengeTTL = 1
  Leeway = 1
  Skew = 1
  AuthLengths = {2}
  GrantLengths = {1, 2}
  MaxTime = 2
  MaxCalls = 2
  None = None
  NoFile = NoFile
  MaxNew = 3
  MaxDirty <- MCMaxDirty
  Stages = {"c6", "c7", "c8", "c9"}
  Manifests <- MCManifests
  Attestations = {a1}
SPECIFICATION StageSpec
SYMMETRY MCSymmetry
INVARIANTS AttestationIsTrue VerifiedMeansReviewed FreshSealVerifies
PROPERTIES EvidenceDoesNotExpire SealOutlivesBranch
CHECK_DEADLOCK FALSE
