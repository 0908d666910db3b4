SPECIFICATION Spec
CONSTANTS
  IfaceNum = 4
  Loopback = {1}
  Ether = {1, 2, 4}
  Facility = {"daemon", "user"}
  Script = {"s"}
  Number <- Numbers
  IntHalf = 1024
  MaxLines = 3
  MaxStarts = 2
INVARIANTS
  TypeOK
  SettingsAsSaid
  TableAsSaid
  
  NoneMissed
  ProbesAreClosed
