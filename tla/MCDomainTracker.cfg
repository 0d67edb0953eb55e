CONSTANTS
  Names <- MCNamesNormalized
  Normalize <- MCNormalizeNormalized
  CertShapes <- MCShapes
  MaxCerts = 3
  MaxSig = 4
SPECIFICATION Spec
INVARIANTS
  TypeOK
  ReportedOnce
  NoneSkipped
\* The tracker polls forever once the map stops publishing.
CHECK_DEADLOCK FALSE
