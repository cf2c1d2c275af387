SPECIFICATION Spec
CONSTANTS
  w1 = w1
  w2 = w2
  cleanup1 = cleanup1
  cleanup2 = cleanup2
  unknown = unknown
  Workers = {w1}
  Jobs = {cleanup1, cleanup2, unknown}
  Handled = {cleanup1, cleanup2}
  MaxAttempts <- MCMaxAttempts
  BatchSize = 2
  MaxMishaps = 2
INVARIANT
  NeverBeyondMaxAttempts
