CONSTANTS
  d1 = d1
  d2 = d2
  bad = bad
  Domains <- MCDomains
  InvalidName = bad
  NumLogs = 2
  MaxTreeSize = 2
  CertShapes <- MCCertsDistinctNames
  BufferSize = 2

SPECIFICATION Spec

INVARIANT TypeOK
INVARIANT HeadsCommitExactly
INVARIANT EntriesAppendedInOrder
INVARIANT WorkerNeverFails
PROPERTY FetchedEventuallyPublished
PROPERTY HeadLogRefined
