CONSTANTS
  DomL = DomL
  DomR = DomR
  MaxCerts = 2
  CertShapes <- MCShapesAny
  ValueSetFirst = FALSE
SPECIFICATION Spec
INVARIANT PublishedRootsReadable
\* The worker stops after its last certificate, or when it panics or fails.
CHECK_DEADLOCK FALSE
