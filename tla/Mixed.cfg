CONSTANTS
  r1 = r1
  r2 = r2
  ext = ext
  emb = emb
  NoType = NoType
  Resources = {r1, r2}
  Types = {emb}
  Embedded = {emb}
  Trans = {t1}
  Requests <- Mixed
  MaxDeliver = 2
  MaxClaimed = 1
  MaxFlips = 1
  MaxFaults = 1
  Faults = {"sp"}
SPECIFICATION Spec
INVARIANTS
  ClaimOutlivesForward
  RemovedOnlySettled
CHECK_DEADLOCK FALSE
