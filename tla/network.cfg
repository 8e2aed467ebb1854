CONSTANTS
  a = a
  b = b
  c = c
  ma = ma
  mb = mb
  mb2 = mb2
  mc = mc
  NoIp = NoIp
  NoMac = NoMac
  Broadcast = Broadcast
  Stations <- MCStations
  IpWords <- MCIpWords
  MacsOf <- MCMacsOf
  TableSize = 2
  Messages <- MCMessages
  Wishes <- MCWishes
  MaxNet = 3
SPECIFICATION FairSpec
INVARIANTS HeadersVerify LengthsAgree DataToOwner TableSuffices
PROPERTIES ImplementsBook DataSent
