SPECIFICATION Spec
CONSTANTS
  c1 = c1
  c2 = c2
  fIgm = fIgm
  fOoc = fOoc
  fRms = fRms
  fRmsAmended = fRmsAmended
  Containers = {c1, c2}
  LegacyRows = {}
  Files <- MCFiles
  FileModule <- MCFileModule
  FileContainer <- MCFileContainer
  FilePosition <- MCFilePosition
  Directory = {fOoc, fRms}
  Synced = {fIgm, fRmsAmended}
  Fallible = {fOoc}
  Scanned = {c1}
  CustomsRequests = {q1, q2}
  MortalCustoms = {q2}
  Worker = {w1, w2}
  Replayer = {p1}
  f1 = f1
  f2 = f2
  Content = {f1, f2}
  Offer <- MCOffered
  NoFile = NoFile
  MaxRecords = 3
  MaxTime = 2
  MaxFaults = 2
  Operator = {"o1", "o2"}
  Asks <- MCAsks
  Part = {"a1", "a2", "a3", "a4", "a5", "g1", "odd"}
  Confident = {"a1", "a2", "a3", "a4", "a5", "g1"}
  GateDocs = {"g1"}
  Parsed <- MCParsed
  Fate <- MCFates
  Mails <- MCInbox
  MaxMoves = 1
  MaxDeaths = 1
CHECK_DEADLOCK FALSE
INVARIANTS
  SkippedFilesAreImported
  NoRecordSkipped
  StuckRecordNeedsAFault
  ProcessedIsAccountedFor
  EveryFailureIsExplained
PROPERTIES
  DispositionHasFact
  OutOfChargeReachesCargo
  HoldStopsRelease
  PublishedIsProcessed
  ImportsSettle
