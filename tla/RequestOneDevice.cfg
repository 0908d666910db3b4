SPECIFICATION Spec
CHECK_DEADLOCK FALSE
CONSTANTS
  DevNum = 1
  DevMac <- OneCard
  Active <- Passive
  Host = {h1}
  IP = {a}
  NoIp = NoIp
  OddText = {odd}
  BadText = {}
  NoMac = NoMac
  DefendInterval = 0
  SignalCount = 1
  RingSize = 1
  MaxStep = 0
  Denotes <- Spelled
  Net <- OneNet
  PcapMaxTimes = 2
  Asked <- TwoAsked
  a = a
  b = b
  odd = odd
  m1 = m1
  m2 = m2
  h1 = h1
  h2 = h2
INVARIANTS
  TypeOK
  ServedAlone
  SoundInService
  AnswerIsHeard
  ContextIsClean
  LockHasHolder
PROPERTIES
  OwnCardNotNamed
  ImplementsCheck
  ImplementsNotice
