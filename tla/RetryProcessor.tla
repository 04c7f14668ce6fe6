--------------------------- MODULE RetryProcessor ---------------------------
(***************************************************************************)
(* retry.Processor: the fetch of the retry topic by each transition        *)
(* goroutine, its dropping of create/delete pairs, and the three drains of *)
(* ProcessOnRestart.  The items that survive are handled one by one by     *)
(* RequestHandler.                                                         *)
(***************************************************************************)
EXTENDS CancelHandler

\* dedupCreateDeletePairs: the fetched items of every resource for which both a
\* create and a delete were fetched, whatever their order.
DedupPairs(items) ==
  {i \in items : \E c, d \in items :
     /\ c[1].rid = i[1].rid /\ c[1].kind = "create"
     /\ d[1].rid = i[1].rid /\ d[1].kind = "delete"}

\* dedupCreateDeletePairs goes on while a pair is left.
NextPair(items) == IF DedupPairs(items) = {} THEN "batch" ELSE "dedup"

\* Fetch the retry topic.
FetchRetryTopic(t) ==
  /\ \E got \in SUBSET FetchRetry :
       /\ Fetched(got, FetchRetry)
       /\ held' = held \cup got
       /\ batch' = [batch EXCEPT ![t] = got]
       /\ Goto(t, NextPair(got))
  /\ UNCHANGED <<stored, delivered, hist>>

\* A fetch error: the items already collected are dropped without a Nak.
FetchError(t, items, next) ==
  /\ Fault("fetch")
  /\ \E some \in SUBSET items :
       held' = held \cup some /\ delivered' = CountDelivery(some)
  /\ Goto(t, next)
  /\ UNCHANGED <<stored, batch, hist>>

-----------------------------------------------------------------------------

\* The pairs are dropped one resource at a time; cur keeps the delete that is
\* acked last.
TakePair(t) ==
  /\ pc[t] = "dedup"
  /\ \E d \in DedupPairs(batch[t]) :
       /\ d[1].kind = "delete"
       /\ cur' = [cur EXCEPT ![t] = d]
       /\ batch' = [batch EXCEPT ![t] = @ \ {d}]
  /\ Goto(t, "pair")
  /\ UNCHANGED <<sent, broker, health, phase, newly, serving, ledgers, outside, faults>>

\* The acks of the pair, the creates before the deletes.  Ack errors are
\* ignored.
AckPaired(t) ==
  LET d    == cur[t]
      rest == {i \in batch[t] : i[1].rid = d[1].rid}
  IN
  /\ pc[t] = "pair"
  /\ \E i \in rest \cup {d} :
       /\ i = d => rest = {}
       /\ i[1].kind = "delete" => \A j \in rest : j[1].kind # "create"
       /\ \/ stored' = stored \ {i} /\ held' = held \ {i} /\ NoFault
          \/ Fault("ack") /\ UNCHANGED <<stored, held>>
       /\ batch' = [batch EXCEPT ![t] = @ \ {i}]
       /\ hist' = hist \cup {<<i[1], "paired">>}
       /\ Goto(t, IF i = d THEN "deleted" ELSE "pair")
  /\ UNCHANGED <<sent, delivered, health, phase, cur, newly, serving, ledgers, spHas, succeeded>>

\* Only then is DELETED published for the resource.
PublishDeleted(t) ==
  /\ pc[t] = "deleted"
  /\ publishCE(cur[t][1], "dedup")
  /\ cur' = [cur EXCEPT ![t] = NoItem]
  /\ Goto(t, NextPair(batch[t]))
  /\ UNCHANGED <<sent, broker, health, phase, batch, newly, serving, ledgers, spHas, succeeded>>

DedupStep(t) == TakePair(t) \/ AckPaired(t) \/ PublishDeleted(t)

-----------------------------------------------------------------------------

\* ProcessOnTransition up to its loop.  It ends early when its provider lookup
\* fails or when there is no JetStream context yet.
FetchOnTransition(t) ==
  /\ pc[t] = "fetch"
  /\ \/ /\ ~JSReady
        /\ Goto(t, "idle")
        /\ UNCHANGED <<broker, batch, hist, faults>>
     \/ /\ Fault("store")
        /\ Goto(t, "idle")
        /\ UNCHANGED <<broker, batch, hist>>
     \/ JSReady /\ FetchRetryTopic(t)
     \/ JSReady /\ FetchError(t, FetchRetry, "idle")
  /\ UNCHANGED <<sent, health, phase, cur, newly, serving, ledgers, spHas, succeeded>>

\* The goroutine returns.
EndTransition(t) ==
  /\ pc[t] = "batch" /\ batch[t] = {}
  /\ Goto(t, "idle")
  /\ UNCHANGED <<sent, broker, health, phase, cur, batch, newly, serving, ledgers, outside,
                 faults>>

-----------------------------------------------------------------------------

\* An error of any drain ends ProcessOnRestart; consumption starts regardless.
RestartFailed(items) ==
  /\ FetchError("boot", items, "idle")
  /\ phase' = "live"
  /\ UNCHANGED deny

\* drainCancelsToDenyList: deny-list and ack, with no answer to the cancel.
drainCancelsToDenyList ==
  LET items == FetchTopic({"cancel"}) IN
  /\ phase = "recancel" /\ pc["boot"] = "fetch"
  /\ \/ /\ \E got \in SUBSET items, lost \in SUBSET items :
             /\ lost \subseteq got
             /\ IF got = items THEN LostAcks(lost) ELSE lost = {} /\ Fault("fetch")
             /\ deny' = deny \cup {i[1].rid : i \in got}
             /\ stored' = stored \ (got \ lost)
             /\ held' = held \cup lost
        /\ phase' = "main"
        /\ UNCHANGED <<delivered, batch, hist, pc>>
     \/ RestartFailed(items)
  /\ UNCHANGED <<sent, health, cur, newly, serving, claims, inFlight, spHas, succeeded>>

\* drainMainTopic: one delivery of everything available on the main subject,
\* without the MaxDeliver guard of handleMainMessage.
drainMainTopic ==
  LET items == FetchMain IN
  /\ phase = "main" /\ pc["boot"] = "fetch"
  /\ \/ /\ \E got \in SUBSET items :
             /\ Fetched(got, items)
             /\ held' = held \cup got
             /\ delivered' = CountDelivery(got)
             /\ batch' = [batch EXCEPT !["boot"] = got]
        /\ Goto("boot", "batch")
        /\ UNCHANGED <<stored, hist, phase, deny>>
     \/ RestartFailed(items)
  /\ UNCHANGED <<sent, health, cur, newly, serving, claims, inFlight, spHas, succeeded>>

\* drainRetryTopicWithDedup.
drainRetryTopicWithDedup ==
  /\ phase = "retry" /\ pc["boot"] = "fetch"
  /\ \/ FetchRetryTopic("boot") /\ UNCHANGED <<phase, deny>>
     \/ RestartFailed(FetchRetry)
  /\ UNCHANGED <<sent, health, cur, newly, serving, claims, inFlight, spHas, succeeded>>

\* A drain's loop is over: the next drain, or StartConsuming.
EndDrain ==
  /\ pc["boot"] = "batch" /\ batch["boot"] = {}
  /\ \/ phase = "main" /\ phase' = "retry" /\ Goto("boot", "fetch")
     \/ phase = "retry" /\ phase' = "live" /\ Goto("boot", "idle")
  /\ UNCHANGED <<sent, broker, health, cur, batch, newly, serving, ledgers, outside, faults>>

=============================================================================
