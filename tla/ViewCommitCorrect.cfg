CONSTANTS
  DbcsTables     <- MCDbcsTables
  EncodeTables   <- MCEncodeTables
  Messages       <- MCMessages
  SourceCodecs   <- MCSourceCodecs
  Metadata       <- MCMetadata
  None           = None
SPECIFICATION Spec
INVARIANTS
  TypeOK
  PreviewShowsMessageStart
\* main() returns after the report; the final state has no successor.
CHECK_DEADLOCK FALSE
