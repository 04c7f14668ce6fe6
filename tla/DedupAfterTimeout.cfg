CONSTANTS
  r1 = r1
  r2 = r2
  ext = ext
  emb = emb
  NoType = NoType
  Resources = {r1}
  Types = {ext}
  Embedded = {}
  Trans = {t1, t2}
  Requests <- CreateDelete
  MaxDeliver = 3
  MaxClaimed = 2
  MaxFlips = 3
  MaxFaults = 1
  Faults = {"ctx"}
SPECIFICATION Spec
PROPERTIES
  DroppedPairLeavesNothing
CHECK_DEADLOCK FALSE
