SPECIFICATION Spec
SYMMETRY HostSymmetry
CONSTANTS
  DevNum = 1
  DevMac <- OneCard
  Active <- FirstActive
  Host = {h1, h2}
  IP = {a, b}
  NoIp = NoIp
  OddText = {}
  BadText = {}
  NoMac = NoMac
  DefendInterval = 1
  SignalCount = 2
  RingSize = 1
  MaxStep = 0
  a = a
  b = b
  m1 = m1
  m2 = m2
  h1 = h1
  h2 = h2
INVARIANTS
  CountIsBacked
PROPERTIES
  StaleConflictsFrozen
  ImplementsNotice
