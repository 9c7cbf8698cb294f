SPECIFICATION Spec
CONSTANTS
  Callers = {c1, c2}
  worker = w
  MaxCalls = 2
  Exclusive = FALSE
SYMMETRY CallerSymmetry
INVARIANTS
  OwnResult
