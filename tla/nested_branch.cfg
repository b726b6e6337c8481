SPECIFICATION Spec
CONSTANTS
  Lane = {l0, l1, l2}
  MAX_DIVERGENCE_DEPTH = 2
  MAX_NESTING = 4
INVARIANT
  MaskedUntilJoin
