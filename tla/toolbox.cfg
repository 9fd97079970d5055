SPECIFICATION Spec
CONSTANTS
  Paths <- MCPaths
  Suffix <- MCSuffix
  Spellings <- MCSpellings
  BadNames = {"?"}
  MaxDepth = 2
  Contents <- MCContents
  Documents <- MCDocuments
  MaxText = 3
  MaxUpload = 4
  MaxDocument = 4
  Sniff = 2
  AllowCreate = TRUE
  Overlays <- MCOverlays
  Clients = {c1}
  Batches <- MCBatches
  UnknownTools <- MCUnknown
  Words <- MCWords
INVARIANTS
  WholeFiles
  RoundTrip
  DefaultsSurvive
  UploadReport
CHECK_DEADLOCK FALSE
