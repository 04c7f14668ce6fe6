CONSTANTS
  r1 = r1
  r2 = r2
  ext = ext
  emb = emb
  NoType = NoType
  Resources = {r1}
  Types = {ext}
  Embedded = {}
  Trans = {t1}
  Requests <- Lifecycle
  MaxDeliver = 2
  MaxClaimed = 2
  MaxFlips = 1
  MaxFaults = 1
  Faults = {"store", "publish", "sp", "ctx", "ack", "fetch", "ackwait", "crash", "ce", "metadata"}
SPECIFICATION Spec
INVARIANTS
  TypeOK
  OneForwardPerResource
  LockHeldOnlyWhileForwarding
  ClaimOutlivesForward
  RemovedOnlySettled
PROPERTIES
  PairNeverStarted
CHECK_DEADLOCK FALSE
