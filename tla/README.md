# Environment agent: TLA+ models and proofs

The environment agent consumes create, delete and cancel CloudEvents of the DCM
control plane from NATS JetStream, routes creates and deletes to service
providers (SPs), parks requests whose SP is unhealthy on a retry topic, watches
the health of the SPs, and registers itself with DCM. Some SPs are external HTTP
services, others (container, VM, cluster, storage, network, database on
OpenShift) are embedded in the agent.

This directory holds TLA+ modules that model the agent, the TLC configurations
that check them, and TLAPS proofs. Every definition is a translation of the Go
source; `PROJECT.json` gives the lines of each (`map`), the runs, the findings
and the hazards.

## Inventory

Source under `src/`; test files are not counted.

| Part | Source | State it owns | Modelled |
|------|--------|---------------|----------|
| Request router | `internal/routing/router.go` | deny list, claimed set, in-flight lock | yes |
| Provider resolution | `internal/routing/resolve.go` | none | yes |
| In-flight lock | `internal/routing/keylock.go` | set of resources | yes |
| Deny list, claimed set | `internal/routing/resourceset.go` | LRU-bounded sets | yes; eviction of the claimed set only |
| SP forwarder | `internal/routing/forwarder.go` | none; bounded attempts | outcomes only |
| Retry processor | `internal/routing/retry/` | transition goroutines | all but `Stop` |
| Messaging client | `internal/messaging/` | connection, consumers, setup progress | handlers, start-up |
| Health monitor | `internal/health/monitor/` | a state machine per provider | its effect on routing |
| Health CloudEvents, health API | `internal/health/` | none | no |
| Provider service, registry | `internal/provider/` | service-type slots, health states | as routing sees them |
| Provider file store | `internal/provider/store/` | JSON file | no |
| DCM registrar | `internal/dcm/`, `internal/backoff/` | agent id, notification slot, token | no |
| Wiring | `cmd/environment-agent/` | start-up and shutdown order | start-up |
| HTTP API | `internal/{apiserver,handler,auth,httperror}` | none | no |
| Configuration | `internal/config/` | none after start-up | no |
| CloudEvent construction | `internal/cloudevent/` | none | no |
| Embedded SP adapters | `internal/embedded/` | none | no |
| Embedded SPs | `internal/openshift/*` | debouncers, last-published statuses, informers | no |
| Generated code | `api/`, `internal/api/`, `pkg/client/` | none | no |

What is hard to test here is concurrency around a message broker: five kinds of
thread (main consumer, cancel consumer, setup goroutine, transition goroutines,
health checks) share three in-memory sets and three streams, and every step may
be followed by a redelivery or a restart. The hazards are listed one by one in
`PROJECT.json`.

## Modules

Each module extends the one before it.

| Module | Models |
|--------|--------|
| `AgentState` | the shared state, the broker's streams (external), provider lookup |
| `RequestHandler` | one request from deny check to ack: `Router.HandleRequest`, `forwardWithRetry`, `processTransitionItems`, `routeMessage`, `forwardRequest` |
| `CancelHandler` | `Router.HandleCancel`, `purgeFromRetryTopic`, `handleCancelMessage` |
| `RetryProcessor` | the fetch of the retry topic, `dedupCreateDeletePairs`, `ProcessOnTransition`, the drains of `ProcessOnRestart` |
| `EnvironmentAgent` | the composition: control plane, redelivery, start-up, main consumer, registration and health, crashes |
| `AgentProperties` | safety, fairness, liveness, and document statements that fail |
| `MCAgent` | instances for TLC |
| `AgentProofs`, `ForwardingProofs`, `DeliveryProofs` | the proofs |

### State

A request is a record (id, kind, resource, service type). An item `<<q, 0>>` is
its copy on the control-plane stream, `<<q, n>>` the copy the agent published to
the retry stream while handling the n-th delivery. `stored` holds the
unacknowledged items, `held` those delivered and not yet due again, `delivered`
the delivery counts that `MaxDeliver` bounds. `deny`, `claimed` and `inFlight`
are the router's three sets; `order` is the LRU list of `claimed`, whose capacity
is `MaxClaimed`, and `evicted` records what it evicted. `status` is what `ResolveProvider` finds:
`"none"` (no slot), `"untracked"` (slot and record, no health state yet, which
the code reads as Unavailable), or a health status. `phase` is the progress of
`setupStreamsAndConsume` and `ProcessOnRestart`. Each thread has a control state
`pc`, the item it handles `cur` and the rest of its `batch`. `hist`, `spHas`,
`succeeded` and `evicted` record outcomes, what the SPs hold, which resources this
process forwarded and which claims it evicted; no guard reads them.

### Steps

One action is one stretch of code between two points at which another thread can
see or change something: a read or write of one of the sets, a broker call, an
SP call. Steps merged on purpose: the in-flight lock and the claim
(nobody who reads the one reads the other in between with a different result),
and the deferred unlock and unclaim at the end of a forward.
`dedupCreateDeletePairs` is one step per ack (`AckPaired`, creates before deletes)
and one for the CloudEvent that follows (`PublishDeleted`), after the fetch, which
is a step of its own: other threads fetch, forward and crash in between.

Faults are bounded by `MaxFaults` and chosen by `Faults`: a transient store error
(`store`), a retry-topic publish that fails or whose acknowledgement is lost
(`publish`), a final SP error (`sp`), a handler deadline (`ctx`), a lost ack,
nak or term (`ack`), a fetch that fails, or that stops early and returns what it
has without an error (`fetch`), an AckWait that expires on an item waiting in a
batch or being dropped as a pair (`ackwait`), an outcome CloudEvent that cannot be
published (`ce`, recorded as `"unreported"`), delivery metadata that cannot be read
(`metadata`) and a crash (`crash`). An SP call that ends in an error, a
deadline or a crash may or may not have taken effect.

First deliveries follow stream order for a create and the later delete of the
same resource; redeliveries come in any order.

### Abstractions

- Payloads, CloudEvent encoding, logging and time are left out. The attempts of
  `ForwardWithRetry` are one step with its three outcomes.
- A success CloudEvent that cannot be published is not distinguished:
  `"forwarded"` says the SP accepted the request.
- An SP that acts on a timed-out call does so before the agent's next step.
- A malformed message on the cancel subject is acked and changes nothing; it is
  not an instance.
- `Trans` bounds the transition goroutines alive at once; a health change to Ready
  or Unavailable needs a free one.
- The control plane sends a delete or cancel only after the create.

## Runs

All runs use module `MCAgent`. Deadlock is not checked: once the bounded
requests, health changes and faults are used up, an agent with nothing to do is
idle.

| Run | Instance | Checks |
|-----|----------|--------|
| `Forwarding` | create, delete, cancel of one resource; one health change; one fault of any kind | types; one forward per resource; no leaked lock; claims survive; nothing acked undecided; without a fault, no pair dropped whose create reached the SP |
| `Mixed` | creates of two resources of an embedded type with room for one claim, malformed message, invalid create, invalid cancel; `sp` | claims are lost only to eviction; nothing acked undecided on the error paths, or when a goroutine handles items that are not its own |
| `Liveness` | create, delete, cancel; `ctx`, `publish` or `fetch`; fair | main and cancel topics drain |

Bounds: one resource is enough for the races, which are all per resource; the
second one is there for eviction. Two requests and a cancel give every pair of
operations on it. `MaxDeliver` 2 makes the guard fire on the first redelivery. One
health change lets a parked request be released. One fault is placed at every
possible point of a behaviour.

`PairNeverStarted` asks for a behaviour without a fault so far. A create that
timed out, or whose item was redelivered under a goroutine that still held it, can
come back to the retry topic after it reached the SP; run `DedupAfterTimeout`
shows it. `MainTopicDrains` is checked without `crash` and `ack` faults and fails
with them: both can use up the last delivery of a message without a `Term`.

Fairness (`FairSpec`): weak fairness of every thread's steps (goroutines are
scheduled, and each blocking call is bounded by a deadline), of redelivery (the
broker redelivers after AckWait or the Nak delay), and of registering embedded
SPs (`main` does so on every start). Nothing is assumed of the control plane,
health changes or faults.

### Where the code and its documents disagree

Each of these runs refutes one statement; `findings` in `PROJECT.json` quotes it.

| Run | Shows |
|-----|-------|
| `Overtaking` | a create from the retry topic is forwarded after the later delete (REQ-RCM-060) |
| `UnhealthyForward` | a goroutine forwards to a provider that is Unhealthy again (REQ-RCM-050) |
| `DedupAfterTimeout` | a create that timed out at the SP is dropped with its delete (REQ-RCM-110) |
| `DedupCrash` | a crash between the acks of a pair and its DELETED: the deletion is never acknowledged (REQ-RCM-110) |
| `CancelRace` | a cancel is acknowledged and its create forwarded (REQ-RTE-180) |
| `StartupCancel` | a cancel handled before the JetStream context is set is acked and not answered (REQ-RTE-171) |
| `StartupDrain` | a cancel taken by the processor's drain is deny-listed, acked and not answered (REQ-RTE-171) |
| `Exhausted` | the restart drain uses up the last delivery without the MaxDeliver error (REQ-RCM-160) |
| `Stranded` | a request waits for ever although its embedded SP is Ready (REQ-RCM-030, REQ-RCM-150) |

A cancel acknowledged after a restart for a resource forwarded before it is
accepted by decision DD-060 and is not listed.

## Proofs

The theorems hold for every set of requests, resources, service types and
goroutines, and for every bound, from the assumptions of `AgentState`
(`RequestsAssumption`, `TypesAssumption`, `BoundsAssumption`, `TransAssumption`,
`FaultsAssumption`). TLC checks the same statements on the instances above.

- `TypeCorrect`: `Spec => []TypeOK`. The inductive invariant `TypeInv` adds that
  a thread inside a handler has an item.
- `ForwardsExclusive`, `LockNotLeaked`, `ClaimKept`. The three are proved together
  (`ForwardInv`), for a claimed set of any capacity: exclusion rests on the lock set being exactly the resources
  being forwarded. The strengthening `NewClaimIsFirst` says that a thread with
  `newlyAdded` true forwards a resource nobody has forwarded successfully since it
  was last evicted, so giving up its claim loses none. Most actions neither start nor end a forward
  (`Quiet`) and are handled by one lemma.
- `RequestsKept`: `Spec => []RemovedOnlySettled`, with every kind of fault allowed.
  It says that the decision comes before the ack, and not that the control plane
  hears of it: `publishCE` only logs a failed publish and the message is acked all
  the same. `DeliveryInv` says what each thread may rely on: an item about to be
  acked is settled, or safely copied if it is not itself the copy. Every action is
  then shown to remove only settled items (`Covered`); the acks of a pair settle
  their items themselves.

Only model-checked: `PairNeverStarted`, which depends on the absence of faults so
far, and the liveness properties, since fairness and `ENABLED` are out of the
prover's reach.

## Not modelled

Beside the parts the inventory marks: the prefetch of `Consume` (the live
consumers take one message at a time, and a prefetched message counts as
undelivered until its handler starts); panics of a handler, which are nacked like
an error; the bound of the deny list; `Processor.Stop` and shutdown, which end a
behaviour as `Crash` does but after waiting for the goroutines; two creates of one
resource id.

## Plan

1. Components, each a module of its own:
   `Forwarder` (attempts and deadline), `HealthMonitor` (state machine, concurrent
   checks, replacement, stop), `MessagingClient` (setup, retry in background,
   deferred consumption, stop), `Registrar` (registration, heartbeat, coalesced
   notifications, supervision), `ProviderService` with `FileStore` (claim, save,
   rollback, crash between the steps of a write).
2. Embedded SPs: the two debouncers, the status monitors on top of them, the
   composite cluster status, `worker.Background`.
3. Composition: an abstract request life cycle (pending, at the SP, answered)
   that `EnvironmentAgent` refines; the health monitor feeding `HealthTransition`;
   shutdown in the order of `main`.
4. Further instances: two creates of one resource, eviction from the deny list.
5. Proofs: the debouncers' last-event property, registry and store agreement, the refinement of the request life cycle.
