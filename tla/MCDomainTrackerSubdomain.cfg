CONSTANTS
  Names <- MCNamesSubdomain
  Normalize <- MCNormalizeSubdomain
  CertShapes <- MCShapes
  MaxCerts = 3
  MaxSig = 4
SPECIFICATION Spec
INVARIANT
  ReportedOnce
\* The tracker polls forever once the map stops publishing.
CHECK_DEADLOCK FALSE
