CONSTANTS
  WordSize = 134217728
  DefaultIp <- Default
  SendsFail = FALSE
  Addresses <- Typed
SPECIFICATION FairSpec
PROPERTY
  ShownConnected
