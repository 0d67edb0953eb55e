CONSTANTS
  d1 = d1
  d2 = d2
  bad = bad
  Domains <- MCOneDomain
  InvalidName = bad
  NumLogs = 1
  MaxTreeSize = 2
  CertShapes <- MCCertsNameless
  BufferSize = 2
SPECIFICATION Spec
INVARIANT WorkerNeverFails
