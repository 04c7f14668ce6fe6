----------------------------- MODULE AgentState -----------------------------
(***************************************************************************)
(* The state shared by the agent's message-handling threads, the JetStream *)
(* broker it consumes from (external), and the lookups every handler makes.*)
(*                                                                         *)
(* A request is one CloudEvent published by the control plane.  Its copy   *)
(* on the control-plane stream (main or cancel subject) is the item        *)
(* <<q, 0>>; a copy the agent publishes to its own retry stream while      *)
(* handling the n-th delivery of q is the item <<q, n>>.                   *)
(***************************************************************************)
EXTENDS Naturals, FiniteSets

CONSTANTS
  Requests,     \* the CloudEvents the control plane may publish
  Resources,    \* resource ids they name
  Types,        \* service types
  Embedded,     \* the service types served by an embedded SP
  NoType,       \* the empty service_type of an invalid payload
  Trans,        \* goroutines available to RunTransition
  MaxDeliver,   \* MaxDeliver of the main consumer
  MaxClaimed,   \* claimedResourcesSetMaxSize
  MaxFlips,     \* bound on health changes in a behaviour
  MaxFaults,    \* bound on faults in a behaviour
  Faults        \* the kinds of fault that may occur

Kinds == {"create", "delete", "cancel", "malformed"}

ASSUME RequestsAssumption ==
  Requests \subseteq [id : Nat, kind : Kinds, rid : Resources, svc : Types \cup {NoType}]

ASSUME TypesAssumption == Embedded \subseteq Types /\ NoType \notin Types

ASSUME BoundsAssumption ==
  /\ MaxDeliver \in Nat \ {0}
  /\ MaxClaimed \in Nat \ {0}
  /\ MaxFlips \in Nat
  /\ MaxFaults \in Nat

ASSUME TransAssumption == Trans \cap {"main", "boot", "cancel"} = {}

ASSUME FaultsAssumption ==
  Faults \subseteq {"store", "publish", "sp", "ctx", "ack", "fetch", "ackwait", "ce",
                    "metadata", "crash"}

Items == Requests \X (0 .. MaxDeliver)

NoItem == <<>>

OnRetry(i) == i[2] > 0

\* "main" runs handleMainMessage, "cancel" handleCancelMessage, "boot" the
\* setup goroutine and ProcessOnRestart, each member of Trans one
\* ProcessOnTransition.
Workers == {"main", "boot"} \cup Trans

Threads == Workers \cup {"cancel"}

Statuses == {"none", "untracked", "unhealthy", "ready", "unavailable"}

Phases == {"cancel", "recancel", "main", "retry", "live"}

Labels == {"idle", "fetch", "dedup", "pair", "deleted", "batch", "deny", "resolve", "error",
           "enqueue", "lock", "recheck", "dispatch", "ack", "nak", "term", "purge"}

\* "unreported": the request was settled and its outcome CloudEvent was not
\* published.  "paired": dropped by dedupCreateDeletePairs; "dedup": the DELETED
\* of the pair was published.
Outcomes == {"forwarded", "error", "queued", "denied", "dropped", "paired", "dedup",
             "purged", "maxdeliver", "unreported", "cancelAcked", "rejected"}

VARIABLES
  sent,       \* requests the control plane has published
  stored,     \* items in a stream and not acknowledged
  held,       \* the stored items delivered and not yet due for redelivery
  delivered,  \* delivery count of each request's control-plane copy
  status,     \* what ResolveProvider finds for each service type
  flips,      \* health changes so far
  phase,      \* progress of setupStreamsAndConsume and ProcessOnRestart
  pc,         \* control state of each thread
  cur,        \* the item each thread is handling
  batch,      \* fetched items a thread has still to handle
  newly,      \* newlyAdded of forwardWithRetry / forwardRequest
  serving,    \* service type of the SP whose transition a goroutine handles
  deny,       \* denyList
  claimed,    \* claimedResourcesSet
  order,      \* its LRU list: <<r, s>> when r was used less recently than s
  evicted,    \* resources evicted from it and not forwarded successfully since
  inFlight,   \* inFlight KeyLock
  spHas,      \* resources the SPs hold
  hist,       \* outcomes so far: <<request, outcome>>
  succeeded,  \* resources forwarded successfully since the agent started
  faults      \* faults so far

broker == <<stored, held, delivered>>
health == <<status, flips>>
threads == <<pc, cur, batch, newly, serving>>
claims == <<claimed, order, evicted>>
ledgers == <<deny, claims, inFlight>>
outside == <<spHas, hist, succeeded>>

vars == <<sent, broker, health, phase, threads, ledgers, outside, faults>>

-----------------------------------------------------------------------------

Fault(f) == f \in Faults /\ faults < MaxFaults /\ faults' = faults + 1

NoFault == UNCHANGED faults

\* The broker may miss the acks of these items; the callers ignore the error.
LostAcks(lost) == IF lost = {} THEN NoFault ELSE Fault("ack")

\* fetchAllFromConsumer returns what it has when its context ends or a fetch
\* comes back empty, without an error.
Fetched(got, items) == got \subseteq items /\ IF got = items THEN NoFault ELSE Fault("fetch")

Goto(t, l) == pc' = [pc EXCEPT ![t] = l]

\* publishCE: an outcome CloudEvent that fails to publish is only logged.
publishCE(q, o) ==
  \/ hist' = hist \cup {<<q, o>>} /\ NoFault
  \/ Fault("ce") /\ hist' = hist \cup {<<q, "unreported">>}

\* Items of the retry stream, and control-plane items of the given kinds, that
\* a fetch returns now.
FetchRetry == {i \in stored \ held : OnRetry(i)}

FetchTopic(kinds) ==
  {i \in stored \ held : ~OnRetry(i) /\ i[1].kind \in kinds}

MainKinds == {"create", "delete", "malformed"}

\* Mutant: the main consumer is created without MaxDeliver.
FetchMainUnbounded == FetchTopic(MainKinds)

\* The broker stops delivering a main-subject message after MaxDeliver deliveries.
FetchMain == {i \in FetchTopic(MainKinds) : delivered[i[1]] < MaxDeliver}

\* j is a create and i a later delete of the same resource on the main subject.
Precedes(j, i) ==
  /\ ~OnRetry(i)
  /\ j[1].rid = i[1].rid /\ j[1].kind = "create" /\ i[1].kind = "delete"

\* Delivery counts once these items are delivered; only the main subject's
\* consumer is bounded by its count.
CountDelivery(items) ==
  [q \in Requests |-> IF <<q, 0>> \in items /\ q.kind \in MainKinds
                      THEN delivered[q] + 1 ELSE delivered[q]]

\* The items some thread still has to settle.
Owned == {cur[t] : t \in Threads} \cup UNION {batch[t] : t \in Threads}

\* ResolveProvider: "none" when no provider is registered for the type; a
\* registered provider the health tracker does not know yet is "untracked".
ResolveProvider(ty) == IF ty = NoType THEN "none" ELSE status[ty]

\* The deny check of a request: only creates are deny-listed.
Denied(q) == q.kind = "create" /\ q.rid \in deny

\* The LRU list of the claims in S once r, one of them, has been used.
UsedLast(S, r) == {p \in order : {p[1], p[2]} \subseteq S \ {r}} \cup ((S \ {r}) \X {r})

\* ResourceSet.insert: a new entry of a full set evicts the least recently used.
Evicts(r) ==
  {s \in claimed : /\ r \notin claimed
                   /\ Cardinality(claimed) >= MaxClaimed
                   /\ \A u \in claimed \ {s} : <<s, u>> \in order}

=============================================================================
