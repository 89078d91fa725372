CONSTANTS
  DbcsTables     <- MCDbcsTables
  EncodeTables   <- MCEncodeTables
  Messages       <- MCMessages
  SourceCodecs   <- MCSourceCodecs
  None           = None
SPECIFICATION Spec
INVARIANTS
  TypeOK
  ReencodeRestoresGitBytes
  RoundTripRaisesCount
\* The script exits after printing; the final state has no successor.
CHECK_DEADLOCK FALSE
