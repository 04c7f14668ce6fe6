CONSTANTS
  r1 = r1
  r2 = r2
  ext = ext
  emb = emb
  NoType = NoType
  Resources = {r1}
  Types = {emb}
  Embedded = {emb}
  Trans = {t1}
  Requests <- EmbeddedCreate
  MaxDeliver = 3
  MaxClaimed = 2
  MaxFlips = 0
  MaxFaults = 0
  Faults = {}
SPECIFICATION FairSpec
PROPERTIES
  NothingStrandedWhileReady
CHECK_DEADLOCK FALSE
