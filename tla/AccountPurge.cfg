SPECIFICATION Spec
CONSTANTS
  Approvers = {a1, a2}
  Callers = {c1, c2}
  Holds = {h1, h2}
  MaxRequests = 2
  MaxGenerations = 5
  NoOne = NoOne
SYMMETRY Symmetry
INVARIANTS TypeOK OneOpenRequest ClaimIsOwned ExecutorIsAnother
PROPERTIES ClaimNotReplaced ClaimOnEligible
CHECK_DEADLOCK FALSE
