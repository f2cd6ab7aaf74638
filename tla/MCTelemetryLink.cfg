CONSTANTS
  WordSize = 134217728
  DefaultIp <- Default
  SendsFail = TRUE
  Addresses <- Typed
SPECIFICATION FairSpec
INVARIANTS
  TypeOK
  FlagsOnlyInSession
  ThreadsJoined
  AddressInUse
  UrlIsAnAddress
PROPERTIES
  RestartHappens
  GreenGoesOut
  LightSpec
