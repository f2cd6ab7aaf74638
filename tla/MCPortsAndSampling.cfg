CONSTANTS
  Ports = {1, 2}
  MaxStarts = 2
  MicrosPerMilli = 2
  MillisPerSecond = 2
  SecondsPerMinute = 2
  MinutesPerHour = 2
  HoursPerDay = 2
  Timeout = 4
  SendPeriod = 2
  TurnTimes = {1, 2, 5}
  HostStart = 27
  MaxTurns = 5
  MaxSyncs = 1
SPECIFICATION PartsSpec
INVARIANTS
  SerialTypeOK
  PatienceIsSafe
  NoneAbandoned
  SamplingTypeOK
  SpeedOfOneTurn
  SpeedIsFresh
  RowTimeTrue
PROPERTIES
  StopsForGood
  UnpluggedCloses
