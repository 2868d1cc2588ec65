CONSTANTS
  Handoffs = {h1, h2}
  Grants = {g1}
  Cycles = {c1}
  OtherCycle = c0
  Heads = {x0, x1}
  Tags = {t0, t1}
  Head0 = x0
  Tag0 = t0
  ExactTags = {t0}
  Ancestor <- MCAncestor
  RuntimeTtl = 3
  SurfaceTtl = 1
  StageTtl = 3
  ApprovalTtl = 3
  ExportTtl = 3
  MaxLive = 2
  AuthTtl = 3
  MaxTime = 2
  MaxCalls = 2
  MaxRecords = 3
  None = None
SPECIFICATION CycleSpec
SYMMETRY MCSymmetry
INVARIANTS OneCallAttested ConfirmedRunIsAttestable
CHECK_DEADLOCK FALSE
