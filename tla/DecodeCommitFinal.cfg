CONSTANTS
  DbcsTables     <- MCDbcsTables
  EncodeTables   <- MCEncodeTables
  Messages       <- MCMessages
  SourceCodecs   <- MCSourceCodecs
  Header         <- MCHeader
  None           = None
  NoConfidentRecovery = NoConfidentRecovery
SPECIFICATION Spec
INVARIANTS
  TypeOK
  MessageExtracted
  BestIsFirstMaximum
  LegacySourceRecovered
PROPERTIES
  RecoveryEngineImplemented
\* The script exits after printing; the final state has no successor.
CHECK_DEADLOCK FALSE
