CONSTANTS
  d1 = d1
  d2 = d2
  bad = bad
  Domains <- MCOneDomain
  InvalidName = bad
  NumLogs = 3
  MaxTreeSize = 1
  CertShapes <- MCCertsOneName
  BufferSize = 3
SPECIFICATION Spec
PROPERTY FetchedEventuallyPublished
