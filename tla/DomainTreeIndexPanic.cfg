CONSTANTS
  LogIndices = {0, 1}
  CertIndices = {0, 1, 2}
  MaxLeaves = 3
  Readers = {r1}
SPECIFICATION Spec
INVARIANT LookupNeverPanics
