SPECIFICATION Spec
CONSTANTS
  plain = plain
  dotted = dotted
  other = other
  outside = outside
  report = report
  notes = notes
  Names = {plain, dotted, other, outside}
  Files = {report, notes}
  FileOf <- Paths
  Invalid = invalid
  Texts <- TextsOfEachKind
  Unusable = unusable
  ChunkSize = 4
  Overlap = 2
  Queries = {0, 1, 9}
  NoQuery = 9
  TopK = {0, 1, 3}
  MinScore <- Thresholds
  One = 2
  Score <- Similarity
INVARIANTS
  MapsAgree
  WholeDocument
  PassageInOneChunk
  BestFirst
PROPERTIES
  ReportsTrue
  ImplementsIndex
