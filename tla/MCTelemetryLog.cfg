CONSTANTS
  PacketFields <- TimeAndWheel
  ColumnOrder <- WheelOnly
  FileLen = 2
  KnownFields <- Fields
  FileStart = 4
  LiveStart = 5
  TypedTexts <- Texts
  MicrosPerMilli = 1
  MillisPerSecond = 1
  SecondsPerMinute = 2
  MinutesPerHour = 2
  HoursPerDay = 2
  MaxPackets = 3
  MaxResponses = 2
SPECIFICATION Spec
INVARIANTS
  TypeOK
  TailsAgree
  RawLinesMatch
  LoadedDataIsTheFile
  LineIsWhole
PROPERTY
  SyncFindsRow
