CONSTANTS
  r1 = r1
  r2 = r2
  ext = ext
  emb = emb
  NoType = NoType
  Resources = {r1}
  Types = {ext}
  Embedded = {}
  Trans = {t1}
  Requests <- CreateDelete
  MaxDeliver = 3
  MaxClaimed = 2
  MaxFlips = 0
  MaxFaults = 1
  Faults = {"crash"}
SPECIFICATION Spec
INVARIANTS
  PairAcknowledged
CHECK_DEADLOCK FALSE
