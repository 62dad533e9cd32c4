SPECIFICATION Spec
CONSTANTS
  a1 = a1
  a2 = a2
  lower = lower
  upper = upper
  Auths = {a1, a2}
  NoAuth = none
  Callers = {loop, m1}
  Names = {lower, upper}
  Fold <- MCFold
  Configs <- MCClaiming
  Candidates <- MCCandidates
  Grants = {TRUE}
  ProbeOnStart = TRUE
INVARIANTS TypeOK MarkedWasServed
SYMMETRY MCSymmetry
