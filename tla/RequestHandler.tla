--------------------------- MODULE RequestHandler ---------------------------
(***************************************************************************)
(* How one create or delete request is handled, from the deny-list check   *)
(* to the acknowledgement: Router.HandleRequest and forwardWithRetry on    *)
(* the main consumer's thread, and Processor.processTransitionItems,       *)
(* routeMessage, requeueToRetryTopic and forwardRequest on the transition  *)
(* goroutines and the restart drain.  The three differ only where          *)
(* Consume, Verdict and Deferred say so.                                   *)
(***************************************************************************)
EXTENDS AgentState

\* Router consumes a deny entry when it filters a create; the processor only
\* looks at it.
Consume(t, q) == IF t = "main" THEN deny \ {q.rid} ELSE deny

\* The processor's requeueToRetryTopic: Nak a retry-stream item in place, copy
\* a main-stream item to the retry stream.
requeueToRetryTopic(i) == IF OnRetry(i) THEN "nak" ELSE "enqueue"

\* Mutant: a transition goroutine settles the items of other service types.
VerdictAcksForeign(t, i, st) ==
  IF t \in Trans /\ i[1].svc # serving[t] THEN "ack"
  ELSE CASE st = "ready"                        -> "lock"
         [] st \in {"unavailable", "untracked"} -> "error"
         [] OTHER                               -> requeueToRetryTopic(i)

\* What is done with item i once its provider status st is known.
Verdict(t, i, st) ==
  LET own == t \in Trans /\ i[1].svc = serving[t] IN
  CASE st = "ready"                       -> "lock"
    [] st \in {"unavailable", "untracked"} -> "error"
    [] st = "none" /\ (t = "main" \/ own) -> "error"
    [] st = "unhealthy" /\ own            -> "lock"
    [] OTHER                              -> requeueToRetryTopic(i)

\* Where a forward that found the lock taken, or timed out, leaves its item.
Deferred(t, i) == IF t = "boot" THEN requeueToRetryTopic(i) ELSE "nak"

\* The thread's next control state when it has settled its item.
After(t) == IF t \in {"main", "cancel"} THEN "idle" ELSE "batch"

Effect(q) == IF q.kind = "create" THEN spHas \cup {q.rid} ELSE spHas \ {q.rid}

\* Mutant: a failed forward drops the claim even when an earlier one made it.
UnclaimAlways(t, q) == claimed \ {q.rid}

\* A forward that does not succeed gives up only a claim of its own.
Unclaim(t, q) == IF newly[t] THEN claimed \ {q.rid} ELSE claimed

\* ResourceSet.Remove.
GiveUpClaim(t, q) ==
  /\ claimed' = Unclaim(t, q)
  /\ order' = {p \in order : {p[1], p[2]} \subseteq Unclaim(t, q)}
  /\ UNCHANGED evicted

\* Mutant: a full set takes no new entry.
AddClaimIfRoom(t, q) ==
  /\ newly' = [newly EXCEPT ![t] = FALSE]
  /\ IF Cardinality(claimed) < MaxClaimed
     THEN claimed' = claimed \cup {q.rid} /\ order' = UsedLast(claimed \cup {q.rid}, q.rid)
     ELSE UNCHANGED <<claimed, order>>
  /\ UNCHANGED evicted

\* ResourceSet.AddIfAbsent.
AddClaim(t, q) ==
  /\ newly' = [newly EXCEPT ![t] = q.rid \notin claimed]
  /\ claimed' = (claimed \ Evicts(q.rid)) \cup {q.rid}
  /\ order' = UsedLast((claimed \ Evicts(q.rid)) \cup {q.rid}, q.rid)
  /\ evicted' = evicted \cup Evicts(q.rid)

-----------------------------------------------------------------------------

\* Next item of a fetched batch.  First deliveries come in stream order, after
\* any redeliveries; items on their second delivery come in any order.
TakeItem(t) ==
  /\ pc[t] = "batch"
  /\ \E i \in batch[t] :
       /\ delivered[i[1]] = 1 => \A j \in batch[t] : ~Precedes(j, i)
       /\ cur' = [cur EXCEPT ![t] = i]
       /\ batch' = [batch EXCEPT ![t] = @ \ {i}]
  /\ Goto(t, "deny")
  /\ UNCHANGED <<sent, broker, health, phase, newly, serving, ledgers, outside, faults>>

\* Unparseable or unknown CE: acked by the router, terminated by the drain.
DropMalformed(t) ==
  LET q == cur[t][1] IN
  /\ pc[t] = "deny"
  /\ q.kind = "malformed"
  /\ hist' = hist \cup {<<q, "dropped">>}
  /\ Goto(t, "ack")
  /\ UNCHANGED <<sent, broker, health, phase, cur, batch, newly, serving, ledgers, spHas,
                 succeeded, faults>>

\* HandleRequest answers INVALID_PAYLOAD; the processor has no such check.
RejectInvalid(t) ==
  LET q == cur[t][1] IN
  /\ pc[t] = "deny"
  /\ t = "main" /\ q.kind # "malformed" /\ q.svc = NoType
  /\ Goto(t, "error")
  /\ UNCHANGED <<sent, broker, health, phase, cur, batch, newly, serving, ledgers, outside,
                 faults>>

CheckDeny(t) ==
  LET q == cur[t][1] IN
  /\ pc[t] = "deny"
  /\ q.kind # "malformed"
  /\ t = "main" => q.svc # NoType
  /\ \/ /\ Denied(q)
        /\ deny' = Consume(t, q)
        /\ hist' = hist \cup {<<q, "denied">>}
        /\ Goto(t, "ack")
     \/ /\ ~Denied(q)
        /\ Goto(t, "resolve")
        /\ UNCHANGED <<deny, hist>>
  /\ UNCHANGED <<sent, broker, health, phase, cur, batch, newly, serving, claims, inFlight,
                 spHas, succeeded, faults>>

\* ResolveProvider, with a transient store error naking the item.
Resolve(t) ==
  LET i  == cur[t]
      st == ResolveProvider(i[1].svc)
  IN
  /\ pc[t] = "resolve"
  /\ \/ Goto(t, Verdict(t, i, st)) /\ NoFault
     \/ st # "none" /\ Fault("store") /\ Goto(t, "nak")
  /\ UNCHANGED <<sent, broker, health, phase, cur, batch, newly, serving, ledgers, outside>>

\* The error CloudEvent of a request resolved without forwarding.
Reject(t) ==
  /\ pc[t] = "error"
  /\ publishCE(cur[t][1], "error")
  /\ Goto(t, "ack")
  /\ UNCHANGED <<sent, broker, health, phase, cur, batch, newly, serving, ledgers, spHas,
                 succeeded>>

\* Mutant: the original is acked whether or not its copy was published.
EnqueueIgnoresError(t) ==
  LET q == cur[t][1] IN
  /\ pc[t] = "enqueue"
  /\ \/ stored' = stored \cup {<<q, delivered[q]>>} /\ NoFault
     \/ Fault("publish") /\ UNCHANGED stored
  /\ Goto(t, "ack")
  /\ UNCHANGED <<sent, held, delivered, health, phase, cur, batch, newly, serving, ledgers,
                 outside>>

\* Publish the original bytes to the retry topic.  A failed publish may still
\* have been stored.
Enqueue(t) ==
  LET q    == cur[t][1]
      copy == <<q, delivered[q]>>
  IN
  /\ pc[t] = "enqueue"
  /\ \/ /\ stored' = stored \cup {copy}
        /\ \/ t = "main" /\ hist' = hist \cup {<<q, "queued">>} /\ NoFault
           \/ t = "main" /\ Fault("ce") /\ UNCHANGED hist
           \/ t # "main" /\ UNCHANGED <<hist, faults>>
        /\ Goto(t, "ack")
     \/ /\ Fault("publish")
        /\ stored' \in {stored, stored \cup {copy}}
        /\ Goto(t, "nak")
        /\ UNCHANGED hist
  /\ UNCHANGED <<sent, held, delivered, health, phase, cur, batch, newly, serving, ledgers,
                 spHas, succeeded>>

\* Mutant: the result of AddIfAbsent on the in-flight lock is ignored.
LockUnchecked(t) ==
  LET q == cur[t][1] IN
  /\ pc[t] = "lock"
  /\ inFlight' = inFlight \cup {q.rid}
  /\ AddClaim(t, q)
  /\ Goto(t, "recheck")
  /\ UNCHANGED <<sent, broker, health, phase, cur, batch, serving, deny, outside, faults>>

\* The in-flight lock and the claim.
Lock(t) ==
  LET q == cur[t][1] IN
  /\ pc[t] = "lock"
  /\ \/ /\ q.rid \in inFlight
        /\ Goto(t, Deferred(t, cur[t]))
        /\ UNCHANGED <<inFlight, claims, newly>>
     \/ /\ q.rid \notin inFlight
        /\ inFlight' = inFlight \cup {q.rid}
        /\ AddClaim(t, q)
        /\ Goto(t, "recheck")
  /\ UNCHANGED <<sent, broker, health, phase, cur, batch, serving, deny, outside, faults>>

\* Mutant: the return of a denied create skips the unlock.
RecheckKeepsLock(t) ==
  LET q == cur[t][1] IN
  /\ pc[t] = "recheck"
  /\ \/ /\ Denied(q)
        /\ deny' = Consume(t, q)
        /\ GiveUpClaim(t, q)
        /\ hist' = hist \cup {<<q, "denied">>}
        /\ Goto(t, "ack")
     \/ /\ ~Denied(q)
        /\ Goto(t, "dispatch")
        /\ UNCHANGED <<deny, claims, hist>>
  /\ UNCHANGED <<sent, broker, health, phase, cur, batch, newly, serving, inFlight, spHas,
                 succeeded, faults>>

\* The deny list is checked again once the resource is claimed.
Recheck(t) ==
  LET q == cur[t][1] IN
  /\ pc[t] = "recheck"
  /\ \/ /\ Denied(q)
        /\ deny' = Consume(t, q)
        /\ GiveUpClaim(t, q)
        /\ inFlight' = inFlight \ {q.rid}
        /\ hist' = hist \cup {<<q, "denied">>}
        /\ Goto(t, "ack")
     \/ /\ ~Denied(q)
        /\ Goto(t, "dispatch")
        /\ UNCHANGED <<ledgers, hist>>
  /\ UNCHANGED <<sent, broker, health, phase, cur, batch, newly, serving, spHas, succeeded,
                 faults>>

\* Mutant: the context is looked at before the result, and a forward that
\* succeeded is nacked.
ForwardedNaks(t) ==
  LET q == cur[t][1] IN
  /\ pc[t] = "dispatch"
  /\ spHas' = Effect(q)
  /\ inFlight' = inFlight \ {q.rid}
  /\ Goto(t, "nak")
  /\ UNCHANGED <<sent, broker, health, phase, cur, batch, newly, serving, deny, claims, hist,
                 succeeded, faults>>

\* ForwardWithRetry returned nil: the claim outlives the forward.
Forwarded(t) ==
  LET q == cur[t][1] IN
  /\ pc[t] = "dispatch"
  /\ spHas' = Effect(q)
  /\ succeeded' = succeeded \cup {q.rid}
  /\ evicted' = evicted \ (claimed \cap {q.rid})
  /\ hist' = hist \cup {<<q, "forwarded">>}
  /\ inFlight' = inFlight \ {q.rid}
  /\ Goto(t, "ack")
  /\ UNCHANGED <<sent, broker, health, phase, cur, batch, newly, serving, deny, claimed, order,
                 faults>>

\* The SP's final answer is an error; it may have acted on the request.
ForwardFailed(t) ==
  LET q == cur[t][1] IN
  /\ pc[t] = "dispatch"
  /\ Fault("sp")
  /\ spHas' \in {spHas, Effect(q)}
  /\ GiveUpClaim(t, q)
  /\ inFlight' = inFlight \ {q.rid}
  /\ \/ hist' = hist \cup {<<q, "error">>}
     \/ "ce" \in Faults /\ hist' = hist \cup {<<q, "unreported">>}
  /\ Goto(t, "ack")
  /\ UNCHANGED <<sent, broker, health, phase, cur, batch, newly, serving, deny, succeeded>>

\* The handler deadline (or shutdown) ended the call; the SP may have acted.
ForwardTimedOut(t) ==
  LET q == cur[t][1] IN
  /\ pc[t] = "dispatch"
  /\ Fault("ctx")
  /\ spHas' \in {spHas, Effect(q)}
  /\ GiveUpClaim(t, q)
  /\ inFlight' = inFlight \ {q.rid}
  /\ Goto(t, Deferred(t, cur[t]))
  /\ UNCHANGED <<sent, broker, health, phase, cur, batch, newly, serving, deny, hist, succeeded>>

\* Ack of the current item.  A lost ack leaves it for redelivery.
Ack(t) ==
  /\ pc[t] = "ack"
  /\ \/ stored' = stored \ {cur[t]} /\ held' = held \ {cur[t]} /\ NoFault
     \/ Fault("ack") /\ UNCHANGED <<stored, held>>
  /\ cur' = [cur EXCEPT ![t] = NoItem]
  /\ newly' = [newly EXCEPT ![t] = FALSE]
  /\ Goto(t, After(t))
  /\ UNCHANGED <<sent, delivered, health, phase, batch, serving, ledgers, outside>>

\* NakWithDelay: the item stays in its stream, for redelivery.
Nak(t) ==
  /\ pc[t] = "nak"
  /\ cur' = [cur EXCEPT ![t] = NoItem]
  /\ newly' = [newly EXCEPT ![t] = FALSE]
  /\ Goto(t, After(t))
  /\ UNCHANGED <<sent, broker, health, phase, batch, serving, ledgers, outside, faults>>

HandleStep(t) ==
  \/ TakeItem(t) \/ DropMalformed(t) \/ RejectInvalid(t) \/ CheckDeny(t)
  \/ Resolve(t) \/ Reject(t) \/ Enqueue(t)
  \/ Lock(t) \/ Recheck(t)
  \/ Forwarded(t) \/ ForwardFailed(t) \/ ForwardTimedOut(t)

=============================================================================
