CONSTANTS
  d1 = d1
  d2 = d2
  bad = bad
  Domains <- MCOneDomain
  InvalidName = bad
  NumLogs = 1
  MaxTreeSize = 1
  CertShapes <- MCCertsRepeatedName
  BufferSize = 1
SPECIFICATION Spec
INVARIANT EntriesAppendedInOrder
