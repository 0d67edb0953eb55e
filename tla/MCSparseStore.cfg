CONSTANTS
  DomL = DomL
  DomR = DomR
  MaxCerts = 7
  CertShapes <- MCShapesOneDomain
  ValueSetFirst = FALSE
SPECIFICATION Spec
INVARIANTS TypeOK PublishedRootsReadable OrphansPruned
\* The worker stops after its last certificate, or when it panics or fails.
CHECK_DEADLOCK FALSE
