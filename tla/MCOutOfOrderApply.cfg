CONSTANTS
  d1 = d1
  d2 = d2
  bad = bad
  Domains <- MCOneDomain
  InvalidName = bad
  NumLogs = 3
  MaxTreeSize = 2
  CertShapes <- MCCertsOneName
  BufferSize = 4
SPECIFICATION Spec
INVARIANT HeadsCommitExactly
