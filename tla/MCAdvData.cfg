\* Parameters alone and in pairs, with 29 and 30 bytes in the texts.
SPECIFICATION AdvSpec
CONSTANTS
  Asks <- MCAsks
  Foreign <- MCForeign
  Peers <- MCPeers
  MaxSz = 31
  MaxFieldSz = 29
INVARIANTS
  AdvertisedAsAsked
  FedBack
  StaysInside
CHECK_DEADLOCK FALSE
