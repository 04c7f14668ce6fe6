CONSTANTS
  r1 = r1
  r2 = r2
  ext = ext
  emb = emb
  NoType = NoType
  Resources = {r1}
  Types = {ext}
  Embedded = {}
  Trans = {t1}
  Requests <- CreateDelete
  MaxDeliver = 3
  MaxClaimed = 2
  MaxFlips = 1
  MaxFaults = 0
  Faults = {}
SPECIFICATION Spec
PROPERTIES
  ArrivalOrder
CHECK_DEADLOCK FALSE
