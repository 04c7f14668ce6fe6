CONSTANTS
  r1 = r1
  r2 = r2
  ext = ext
  emb = emb
  NoType = NoType
  Resources = {r1}
  Types = {ext}
  Embedded = {}
  Trans = {t1}
  Requests <- Lifecycle
  MaxDeliver = 2
  MaxClaimed = 2
  MaxFlips = 1
  MaxFaults = 1
  Faults = {"ctx", "publish", "fetch"}
SPECIFICATION FairSpec
PROPERTIES
  MainTopicDrains
  CancelTopicDrains
CHECK_DEADLOCK FALSE
