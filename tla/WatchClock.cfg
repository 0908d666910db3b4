SPECIFICATION FairSpec
CONSTANTS
  DevNum = 1
  DevMac <- OneCard
  Active <- FirstActive
  Host = {h1}
  IP = {a}
  NoIp = NoIp
  OddText = {}
  BadText = {}
  NoMac = NoMac
  DefendInterval = 2
  SignalCount = 3
  RingSize = 2
  MaxStep = 1
  a = a
  b = b
  m1 = m1
  m2 = m2
  h1 = h1
  h2 = h2
PROPERTIES
  DefenceOutlivesSteps
