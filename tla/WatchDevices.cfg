SPECIFICATION FairSpec
CONSTANTS
  DevNum = 2
  DevMac <- TwoCards
  Active <- FirstActive
  Host = {h1}
  IP = {a}
  NoIp = NoIp
  OddText = {}
  BadText = {}
  NoMac = NoMac
  DefendInterval = 2
  SignalCount = 1
  RingSize = 1
  MaxStep = 0
  a = a
  b = b
  m1 = m1
  m2 = m2
  h1 = h1
  h2 = h2
INVARIANTS
  ArpTypeOK
  ToldIsRecorded
PROPERTIES
  OwnCardNotAccused
  DefendSpacing
  GivenUpIsResolved
  StandingClaimDefended
