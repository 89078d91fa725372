CONSTANTS
  Missing = Missing
  None = None
  NotADict = NotADict
  TableItem = TableItem
  JsonItem = JsonItem
  Random = Random
  TableRows <- MCTableRows
  Pages <- MCPages
  CrawlSizes <- MCCrawlSizes
  RandomSpecs <- MCRandomSpecs
  FallbackManufacturers <- MCFallbackManufacturers
SPECIFICATION Spec
INVARIANTS
  TypeOK
  RowReadsBack
  RowCountInRange
  JsonCrawlNeverWritten
PROPERTIES
  FallbackWritesFile
\* The script exits after writing the file, or with a traceback.
CHECK_DEADLOCK FALSE
