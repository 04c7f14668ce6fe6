----------------------------- MODULE AgentProofs -----------------------------
(***************************************************************************)
(* Proofs about the request path, for every set of requests, resources,    *)
(* service types and goroutines and for every bound.                       *)
(***************************************************************************)
EXTENDS AgentProperties, TLAPS

\* The control states in which a thread is handling an item.
ItemLabels == Labels \ {"idle", "fetch", "dedup", "batch"}

HasItem ==
  \A t \in Threads :
    pc[t] \in ItemLabels \/ (t = "cancel" /\ pc[t] = "fetch") => cur[t] \in Items

TypeInv == TypeOK /\ HasItem

\* An item is a request with a delivery number.
LEMMA ItemFields ==
  ASSUME NEW i \in Items
  PROVE  /\ i = <<i[1], i[2]>>
         /\ i[1] \in Requests
         /\ i[2] \in 0 .. MaxDeliver
         /\ i[1].kind \in Kinds
         /\ i[1].rid \in Resources
         /\ i[1].svc \in Types \cup {NoType}
BY RequestsAssumption DEF Items

\* The threads are pairwise different.
LEMMA ThreadNames ==
  /\ Workers \subseteq Threads
  /\ Trans \subseteq Workers
  /\ "main" \in Workers /\ "boot" \in Workers /\ "cancel" \in Threads
  /\ "cancel" \notin Workers
  /\ "main" \notin Trans /\ "boot" \notin Trans
BY TransAssumption DEF Workers, Threads

\* What a fetch returns is a set of items.
LEMMA FetchItems ==
  ASSUME TypeOK
  PROVE  /\ FetchRetry \subseteq Items
         /\ FetchMain \subseteq Items
         /\ \A kinds : FetchTopic(kinds) \subseteq Items
BY DEF TypeOK, FetchRetry, FetchMain, FetchTopic

\* Counting a delivery of items that may be delivered stays within MaxDeliver.
LEMMA CountDeliveryType ==
  ASSUME TypeOK,
         NEW items \in SUBSET (FetchMain \cup FetchRetry \cup FetchTopic({"cancel"}))
  PROVE  CountDelivery(items) \in [Requests -> 0 .. MaxDeliver]
<1> SUFFICES ASSUME NEW q \in Requests, <<q, 0>> \in items, q.kind \in MainKinds
             PROVE  delivered[q] + 1 \in 0 .. MaxDeliver
  BY DEF CountDelivery, TypeOK
<1>1. <<q, 0>> \in FetchMain
  BY DEF FetchRetry, FetchTopic, OnRetry, MainKinds
<1>2. delivered[q] \in 0 .. MaxDeliver /\ delivered[q] < MaxDeliver
  BY SMTT(60), <1>1 DEF FetchMain, TypeOK
<1> QED
  BY <1>2, BoundsAssumption

\* Adding a claim, with the eviction it may cause, keeps the claimed set a set of resources.
LEMMA AddClaimType ==
  ASSUME TypeOK, NEW t, NEW q, q.rid \in Resources, AddClaim(t, q)
  PROVE  /\ claimed' \subseteq Resources /\ evicted' \subseteq Resources
         /\ order' \subseteq Resources \X Resources
<1>1. Evicts(q.rid) \subseteq Resources /\ claimed \subseteq Resources
  BY DEF Evicts, TypeOK
<1>2. claimed' \subseteq Resources /\ evicted' \subseteq Resources
  BY <1>1 DEF AddClaim, TypeOK
<1>3. \A S \in SUBSET Resources : UsedLast(S, q.rid) \subseteq Resources \X Resources
  BY DEF UsedLast, TypeOK
<1> QED
  BY <1>1, <1>2, <1>3 DEF AddClaim

\* Removing a claim from the claimed set keeps it a set of resources.
LEMMA GiveUpClaimType ==
  ASSUME TypeOK, NEW t, NEW q, GiveUpClaim(t, q)
  PROVE  /\ claimed' \subseteq Resources /\ evicted' \subseteq Resources
         /\ order' \subseteq Resources \X Resources
BY DEF GiveUpClaim, Unclaim, TypeOK

\* Dropping a create/delete pair keeps the state well-typed.
LEMMA DedupStepType ==
  ASSUME TypeInv, NEW t \in Workers, DedupStep(t)
  PROVE  TypeInv'
<1> USE ThreadNames, ItemFields, BoundsAssumption
    DEF TypeInv, TypeOK, HasItem, Goto, broker, health, threads, ledgers, claims, outside,
        ItemLabels, Labels
<1>1. CASE TakePair(t)
  BY <1>1 DEF TakePair, DedupPairs
<1>2. CASE AckPaired(t)
  BY <1>2 DEF AckPaired, Fault, NoFault, Outcomes
<1>3. CASE PublishDeleted(t)
  BY <1>3 DEF PublishDeleted, publishCE, NextPair, Fault, NoFault, Outcomes
<1> QED
  BY <1>1, <1>2, <1>3 DEF DedupStep

\* Every handler step keeps the state well-typed and its item in hand.
LEMMA HandleStepType ==
  ASSUME TypeInv, NEW t \in Workers, WorkerStep(t)
  PROVE  TypeInv'
<1> USE ThreadNames, ItemFields, BoundsAssumption
    DEF TypeInv, TypeOK, HasItem, Goto, broker, health, threads, ledgers, claims, outside,
        ItemLabels, Labels
<1>1. CASE TakeItem(t)
  BY <1>1 DEF TakeItem, Precedes
<1>2. CASE DropMalformed(t)
  BY <1>2 DEF DropMalformed, Outcomes
<1>3. CASE RejectInvalid(t)
  BY <1>3 DEF RejectInvalid
<1>4. CASE CheckDeny(t)
  BY <1>4 DEF CheckDeny, Consume, Outcomes
<1>5. CASE Resolve(t)
  BY <1>5 DEF Resolve, Verdict, requeueToRetryTopic, Fault, NoFault
<1>6. CASE Reject(t)
  BY <1>6 DEF Reject, publishCE, Fault, NoFault, Outcomes
<1>7. CASE Enqueue(t)
  BY <1>7 DEF Enqueue, publishCE, Fault, NoFault, Outcomes, Items
<1>8. CASE Lock(t)
  <2>1. CASE cur[t][1].rid \in inFlight
    BY <1>8, <2>1 DEF Lock, claims, Deferred, requeueToRetryTopic
  <2>2. CASE cur[t][1].rid \notin inFlight
    <3>1. /\ newly' = [newly EXCEPT ![t] = cur[t][1].rid \notin claimed]
          /\ AddClaim(t, cur[t][1])
          /\ inFlight' = inFlight \cup {cur[t][1].rid}
          /\ pc' = [pc EXCEPT ![t] = "recheck"]
          /\ UNCHANGED <<sent, broker, health, phase, cur, batch, serving, deny, outside, faults>>
          /\ pc[t] = "lock"
      BY <1>8, <2>2, Zenon DEF Lock, AddClaim
    <3>2. newly' \in [Threads -> BOOLEAN]
      BY <3>1, Zenon
    <3>3. cur[t] \in Items /\ cur[t][1].rid \in Resources
      BY <3>1
    <3>4. claimed' \subseteq Resources /\ evicted' \subseteq Resources
      BY <3>1, <3>3, AddClaimType
    <3>5. order' \subseteq Resources \X Resources
      BY <3>1, <3>3, AddClaimType
    <3> QED
      BY <3>1, <3>2, <3>3, <3>4, <3>5
  <2> QED
    BY <2>1, <2>2
<1>9. CASE Recheck(t)
  BY <1>9, GiveUpClaimType DEF Recheck, Consume, Outcomes, claims
<1>10. CASE Forwarded(t)
  BY <1>10 DEF Forwarded, Effect, Outcomes
<1>11. CASE ForwardFailed(t)
  BY <1>11, GiveUpClaimType DEF ForwardFailed, Fault, Effect, Outcomes
<1>12. CASE ForwardTimedOut(t)
  BY <1>12, GiveUpClaimType
  DEF ForwardTimedOut, Fault, Effect, Deferred, requeueToRetryTopic
<1>13. CASE Ack(t)
  BY <1>13 DEF Ack, After, Fault, NoFault
<1>14. CASE Nak(t)
  BY SMTT(60), <1>14 DEF Nak, After
<1>15. CASE DedupStep(t)
  BY <1>15, DedupStepType
<1> QED
  BY Zenon, <1>15, <1>1, <1>2, <1>3, <1>4, <1>5, <1>6, <1>7, <1>8, <1>9, <1>10, <1>11, <1>12, <1>13, <1>14 DEF WorkerStep, HandleStep

\* So does every step of the cancel consumer.
LEMMA CancelStepType ==
  ASSUME TypeInv, CancelStep
  PROVE  TypeInv'
<1> USE ThreadNames, ItemFields, BoundsAssumption
    DEF TypeInv, TypeOK, HasItem, Goto, broker, health, threads, ledgers, claims, outside,
        ItemLabels, Labels
<1>1. CASE HandleCancel
  <2>1. order' \subseteq Resources \X Resources
    BY <1>1, FetchItems DEF HandleCancel, UsedLast
  <2> QED
    BY <1>1, <2>1 DEF HandleCancel, FetchTopic, AnswerCancel, Fault, NoFault, Outcomes
<1>2. CASE CancelDeny
  BY <1>2 DEF CancelDeny
<1>3. CASE CancelFetch
  BY <1>3 DEF CancelFetch, FetchRetry, Fetched, Fault, NoFault
<1>4. CASE CancelPurge
  BY SMTT(60), <1>4 DEF CancelPurge, AnswerCancel, Fault, NoFault, Outcomes
<1>5. CASE Ack("cancel")
  BY SMTT(60), <1>5 DEF Ack, After, Fault, NoFault
<1>6. CASE Nak("cancel")
  BY <1>6 DEF Nak, After
<1> QED
  BY <1>1, <1>2, <1>3, <1>4, <1>5, <1>6 DEF CancelStep

\* FetchRetryTopic and FetchError, whose callers have a frame of their own.
LEMMA FetchType ==
  ASSUME TypeOK, NEW t \in Threads
  PROVE  /\ FetchRetryTopic(t) =>
              /\ stored' = stored /\ held' \subseteq Items
              /\ delivered' = delivered /\ hist' = hist
              /\ \E l \in {"batch", "dedup"} : pc' = [pc EXCEPT ![t] = l]
              /\ batch' \in [Threads -> SUBSET Items]
              /\ faults' \in 0 .. MaxFaults
         /\ \A items \in SUBSET Items, next \in Labels :
              /\ items \subseteq FetchMain \cup FetchRetry \cup FetchTopic({"cancel"})
              /\ FetchError(t, items, next)
              => /\ stored' = stored /\ held' \subseteq Items
                 /\ delivered' \in [Requests -> 0 .. MaxDeliver]
                 /\ pc' = [pc EXCEPT ![t] = next]
                 /\ batch' = batch /\ hist' = hist
                 /\ faults' \in 0 .. MaxFaults
<1>1. ASSUME FetchRetryTopic(t)
      PROVE  /\ stored' = stored /\ held' \subseteq Items
             /\ delivered' = delivered /\ hist' = hist
             /\ \E l \in {"batch", "dedup"} : pc' = [pc EXCEPT ![t] = l]
             /\ batch' \in [Threads -> SUBSET Items]
             /\ faults' \in 0 .. MaxFaults
  <2>1. PICK got \in SUBSET FetchRetry : /\ Fetched(got, FetchRetry)
                                         /\ held' = held \cup got
                                         /\ batch' = [batch EXCEPT ![t] = got]
                                         /\ pc' = [pc EXCEPT ![t] = NextPair(got)]
    BY <1>1, Zenon DEF FetchRetryTopic, Goto
  <2>2. stored' = stored /\ delivered' = delivered /\ hist' = hist
    BY <1>1, Zenon DEF FetchRetryTopic
  <2>3. got \in SUBSET Items
    BY FetchItems
  <2>4. held' \subseteq Items /\ batch' \in [Threads -> SUBSET Items]
    BY <2>1, <2>3 DEF TypeOK
  <2>5. NextPair(got) \in {"batch", "dedup"}
    BY DEF NextPair
  <2>6. faults' \in 0 .. MaxFaults
    BY <2>1, BoundsAssumption DEF Fetched, Fault, NoFault, TypeOK
  <2> QED
    BY <2>1, <2>2, <2>4, <2>5, <2>6, Zenon
<1>2. ASSUME NEW items \in SUBSET Items, NEW next \in Labels,
             items \subseteq FetchMain \cup FetchRetry \cup FetchTopic({"cancel"}),
             FetchError(t, items, next)
      PROVE  /\ stored' = stored /\ held' \subseteq Items
             /\ delivered' \in [Requests -> 0 .. MaxDeliver]
             /\ pc' = [pc EXCEPT ![t] = next]
             /\ batch' = batch /\ hist' = hist
             /\ faults' \in 0 .. MaxFaults
  BY <1>2, CountDeliveryType, BoundsAssumption DEF FetchError, Fault, Goto, TypeOK
<1> QED
  BY Zenon, <1>1, <1>2

\* The restart drain and the transition goroutines.
LEMMA ProcessorStepType ==
  ASSUME TypeInv, BootStep \/ \E t \in Trans : TransitionStep(t)
  PROVE  TypeInv'
<1> USE ThreadNames, ItemFields, BoundsAssumption
    DEF TypeInv, TypeOK, HasItem, Goto, broker, health, threads, ledgers, claims, outside,
        ItemLabels, Labels, Phases
<1>1. CASE FinishCancelDrain
  BY <1>1 DEF FinishCancelDrain
<1>2. CASE drainCancelsToDenyList
  <2>1. FetchTopic({"cancel"}) \subseteq Items
    BY FetchItems
  <2>2. CASE RestartFailed(FetchTopic({"cancel"}))
    <3>1. /\ stored' = stored /\ held' \subseteq Items
          /\ delivered' \in [Requests -> 0 .. MaxDeliver]
          /\ pc' = [pc EXCEPT !["boot"] = "idle"]
          /\ batch' = batch /\ hist' = hist
          /\ faults' \in 0 .. MaxFaults
      BY <2>1, <2>2, FetchType DEF RestartFailed
    <3>2. UNCHANGED <<sent, health, cur, newly, serving, deny, claims, inFlight, spHas, succeeded>>
      BY <1>2, <2>2 DEF drainCancelsToDenyList, RestartFailed
    <3> QED
      BY <2>2, <3>1, <3>2 DEF RestartFailed
  <2>3. CASE ~RestartFailed(FetchTopic({"cancel"}))
    <3>1. PICK got \in SUBSET FetchTopic({"cancel"}), lost \in SUBSET FetchTopic({"cancel"}) :
            /\ lost \subseteq got
            /\ IF got = FetchTopic({"cancel"}) THEN LostAcks(lost)
               ELSE lost = {} /\ Fault("fetch")
            /\ deny' = deny \cup {i[1].rid : i \in got}
            /\ stored' = stored \ (got \ lost)
            /\ held' = held \cup lost
      BY Zenon, <1>2, <2>3 DEF drainCancelsToDenyList
    <3>2. deny' \subseteq Resources /\ stored' \subseteq Items /\ held' \subseteq Items
      BY <2>1, <3>1
    <3>3. faults' \in 0 .. MaxFaults
      BY <3>1 DEF LostAcks, Fault, NoFault
    <3>4. /\ phase' = "main"
          /\ UNCHANGED <<delivered, batch, hist, pc, sent, health, cur, newly, serving, claims,
                         inFlight, spHas, succeeded>>
      BY <1>2, <2>3 DEF drainCancelsToDenyList
    <3> QED
      BY <3>2, <3>3, <3>4
  <2> QED
    BY <2>2, <2>3
<1>3. CASE drainMainTopic
  <2>1. /\ FetchMain \subseteq Items
        /\ \A got \in SUBSET FetchMain : CountDelivery(got) \in [Requests -> 0 .. MaxDeliver]
    BY FetchItems, CountDeliveryType
  <2>2. CASE RestartFailed(FetchMain)
    BY SMTT(60), <1>3, <2>1, <2>2, FetchType DEF drainMainTopic, RestartFailed
  <2>3. CASE ~RestartFailed(FetchMain)
    <3>1. PICK got \in SUBSET FetchMain : /\ Fetched(got, FetchMain)
                                          /\ held' = held \cup got
                                          /\ delivered' = CountDelivery(got)
                                          /\ batch' = [batch EXCEPT !["boot"] = got]
      BY <1>3, <2>3 DEF drainMainTopic
    <3>2. faults' \in 0 .. MaxFaults
      BY <3>1 DEF Fetched, Fault, NoFault
    <3>3. held' \subseteq Items /\ delivered' \in [Requests -> 0 .. MaxDeliver]
      BY <2>1, <3>1
    <3>4. /\ pc' = [pc EXCEPT !["boot"] = "batch"]
          /\ UNCHANGED <<stored, hist, phase, deny, sent, health, cur, newly, serving, claims,
                         inFlight, spHas, succeeded>>
      BY <1>3, <2>3 DEF drainMainTopic
    <3> QED
      BY <2>1, <3>1, <3>2, <3>3, <3>4
  <2> QED
    BY <2>2, <2>3
<1>4. CASE drainRetryTopicWithDedup
  <2>1. FetchRetry \subseteq Items
    BY FetchItems
  <2>2. CASE RestartFailed(FetchRetry)
    <3>1. /\ stored' = stored /\ held' \subseteq Items
          /\ delivered' \in [Requests -> 0 .. MaxDeliver]
          /\ pc' = [pc EXCEPT !["boot"] = "idle"]
          /\ batch' = batch /\ hist' = hist
          /\ faults' \in 0 .. MaxFaults
      BY <2>1, <2>2, FetchType DEF RestartFailed
    <3> QED
      BY <1>4, <2>2, <3>1 DEF drainRetryTopicWithDedup, RestartFailed
  <2>3. CASE FetchRetryTopic("boot") /\ ~RestartFailed(FetchRetry)
    <3>1. /\ stored' = stored /\ held' \subseteq Items
          /\ delivered' = delivered /\ hist' = hist
          /\ \E l \in {"batch", "dedup"} : pc' = [pc EXCEPT !["boot"] = l]
          /\ batch' \in [Threads -> SUBSET Items]
          /\ faults' \in 0 .. MaxFaults
      BY <2>3, FetchType, Zenon
    <3>2. PICK l \in {"batch", "dedup"} : pc' = [pc EXCEPT !["boot"] = l]
      BY <3>1, Zenon
    <3>3. UNCHANGED <<phase, deny, sent, health, cur, newly, serving, claims, inFlight, spHas,
                      succeeded>>
      BY <1>4, <2>3, Zenon DEF drainRetryTopicWithDedup
    <3>4. pc' \in [Threads -> Labels] /\ cur' = cur
      BY <3>2, <3>3
    <3>5. TypeOK'
      BY <3>1, <3>3, <3>4
    <3>6. \A t \in Threads : pc'[t] = pc[t] \/ (t = "boot" /\ pc'[t] \in {"batch", "dedup"})
      BY <3>2
    <3>7. HasItem'
      BY <3>4, <3>6
    <3> QED
      BY <3>5, <3>7
  <2> QED
    BY <1>4, <2>2, <2>3 DEF drainRetryTopicWithDedup
<1>5. CASE EndDrain
  BY <1>5 DEF EndDrain
<1>6. ASSUME NEW t \in Trans, FetchOnTransition(t)
      PROVE  TypeInv'
  <2>1. FetchRetry \subseteq Items
    BY FetchItems
  <2>2. CASE FetchRetryTopic(t)
    <3>1. UNCHANGED <<sent, health, phase, cur, newly, serving, ledgers, spHas, succeeded>>
      BY <1>6, Zenon DEF FetchOnTransition
    <3> QED
      BY <2>2, <3>1, FetchType
  <2>3. CASE FetchError(t, FetchRetry, "idle")
    BY <1>6, <2>1, <2>3, FetchType DEF FetchOnTransition
  <2>4. CASE ~FetchRetryTopic(t) /\ ~FetchError(t, FetchRetry, "idle")
    BY <1>6, <2>4 DEF FetchOnTransition, Fault
  <2> QED
    BY <2>2, <2>3, <2>4
<1>7. ASSUME NEW t \in Trans, EndTransition(t)
      PROVE  TypeInv'
  BY SMTT(60), <1>7 DEF EndTransition
<1> QED
  BY Zenon, <1>1, <1>2, <1>3, <1>4, <1>5, <1>6, <1>7 DEF BootStep, TransitionStep

\* The control plane, the broker, the main consumer, provider health, crashes.
LEMMA EnvironmentType ==
  ASSUME TypeInv,
         \/ Environment
         \/ \E i \in held : Redeliver(i)
         \/ \E ty \in Types : TrackType(ty)
         \/ handleMainMessage \/ TermMain
  PROVE  TypeInv'
<1> USE ThreadNames, ItemFields, BoundsAssumption
    DEF TypeInv, TypeOK, HasItem, Goto, broker, health, threads, ledgers, claims, outside,
        ItemLabels, Labels, Phases, Statuses
<1>1. ASSUME NEW q \in Requests, Send(q)
      PROVE  TypeInv'
  BY <1>1 DEF Send, Items
<1>2. ASSUME NEW ty \in Types, ClaimType(ty)
      PROVE  TypeInv'
  BY <1>2 DEF ClaimType
<1>3. ASSUME NEW ty \in Types, NEW to \in {"unhealthy", "ready", "unavailable"},
             HealthTransition(ty, to)
      PROVE  TypeInv'
  <2>1. /\ UNCHANGED <<sent, broker, phase, cur, batch, newly, ledgers, outside, faults>>
        /\ flips < MaxFlips /\ flips' = flips + 1
        /\ status' = [status EXCEPT ![ty] = to]
    BY <1>3, Zenon DEF HealthTransition
  <2>2. /\ status' \in [Types -> Statuses]
        /\ flips' \in 0 .. MaxFlips
    BY <2>1
  <2>3. CASE UNCHANGED <<pc, serving>>
    BY <2>1, <2>2, <2>3, Zenon
  <2>4. CASE \E t \in Trans : Goto(t, "fetch") /\ serving' = [serving EXCEPT ![t] = ty]
    <3>1. PICK t \in Trans : /\ pc' = [pc EXCEPT ![t] = "fetch"]
                             /\ serving' = [serving EXCEPT ![t] = ty]
      BY <2>4, Zenon
    <3>2. pc' \in [Threads -> Labels] /\ serving' \in [Trans -> Types \cup {NoType}]
      BY <3>1
    <3>3. TypeOK'
      BY <2>1, <2>2, <3>2, Zenon
    <3>4. t \in Threads /\ t # "cancel"
      OBVIOUS
    <3>5. \A u \in Threads : pc'[u] = IF u = t THEN "fetch" ELSE pc[u]
      BY <3>1, Zenon
    <3>6. SUFFICES ASSUME NEW u \in Threads,
                          pc'[u] \in ItemLabels \/ (u = "cancel" /\ pc'[u] = "fetch")
                   PROVE  cur[u] \in Items
      BY <2>1, <3>3, Zenon
    <3>7. CASE u = t
      BY <3>4, <3>5, <3>6, <3>7
    <3>8. CASE u # t
      BY <3>5, <3>6, <3>8, Zenon
    <3> QED
      BY <3>7, <3>8
  <2> QED
    BY <1>3, <2>3, <2>4, Zenon DEF HealthTransition, RunTransition
<1>4. CASE Crash
  <2>1. spHas' \subseteq Resources
    BY <1>4 DEF Crash, Applied
  <2> QED
    BY <1>4, <2>1 DEF Crash, FreshPC, Fault
<1>5. ASSUME NEW i \in held, Redeliver(i)
      PROVE  TypeInv'
  BY <1>5 DEF Redeliver, Fault, NoFault
<1>6. ASSUME NEW ty \in Types, TrackType(ty)
      PROVE  TypeInv'
  BY <1>6 DEF TrackType, RunTransition
<1>7. CASE handleMainMessage
  <2>1. PICK i \in FetchMain : /\ held' = held \cup {i}
                               /\ delivered' = CountDelivery({i})
                               /\ cur' = [cur EXCEPT !["main"] = i]
                               /\ \E l \in {"term", "deny", "nak"} : Goto("main", l)
                               /\ faults' \in 0 .. MaxFaults
    <3>1. PICK i \in FetchMain :
            /\ held' = held \cup {i}
            /\ delivered' = CountDelivery({i})
            /\ cur' = [cur EXCEPT !["main"] = i]
            /\ \/ /\ Goto("main", IF delivered[i[1]] + 1 >= MaxDeliver THEN "term" ELSE "deny")
                  /\ NoFault
               \/ Fault("metadata") /\ Goto("main", "nak")
      BY <1>7, Zenon DEF handleMainMessage
    <3>2. faults' \in 0 .. MaxFaults
      BY <3>1 DEF Fault, NoFault
    <3>3. \E l \in {"term", "deny", "nak"} : Goto("main", l)
      BY <3>1, Zenon
    <3> QED
      BY <3>1, <3>2, <3>3, Zenon
  <2>2. i \in Items /\ CountDelivery({i}) \in [Requests -> 0 .. MaxDeliver]
    BY FetchItems, CountDeliveryType
  <2>3. PICK l \in {"term", "deny", "nak"} : pc' = [pc EXCEPT !["main"] = l]
    BY <2>1, Zenon
  <2>4. UNCHANGED <<sent, stored, health, phase, batch, newly, serving, ledgers, outside>>
    BY <1>7, Zenon DEF handleMainMessage
  <2>5. pc' \in [Threads -> Labels] /\ cur' \in [Threads -> Items \cup {NoItem}]
    BY <2>1, <2>2, <2>3
  <2>6. TypeOK'
    BY Zenon, <2>1, <2>2, <2>4, <2>5
  <2>7. SUFFICES ASSUME NEW t \in Threads
                 PROVE  \/ pc'[t] = pc[t] /\ cur'[t] = cur[t]
                        \/ t = "main" /\ cur'[t] \in Items
    BY <2>6
  <2>8. CASE t = "main"
    BY <2>1, <2>2, <2>8
  <2>9. CASE t # "main"
    BY <2>1, <2>3, <2>9
  <2> QED
    BY <2>8, <2>9
<1>8. CASE TermMain
  BY <1>8 DEF TermMain, publishCE, Fault, NoFault, Outcomes
<1> QED
  BY ZenonT(60), <1>1, <1>2, <1>3, <1>4, <1>5, <1>6, <1>7, <1>8 DEF Environment

\* A new process starts well-typed, with no item in any thread's hands.
LEMMA InitType == Init => TypeInv
BY ThreadNames, BoundsAssumption
DEF Init, FreshPC, TypeInv, TypeOK, HasItem, ItemLabels, Labels, Phases, Statuses

\* Every step of the request path keeps the strengthened type invariant.
LEMMA NextType == TypeInv /\ [Next]_vars => TypeInv'
<1> SUFFICES ASSUME TypeInv, [Next]_vars PROVE TypeInv'
  OBVIOUS
<1>1. CASE UNCHANGED vars
  BY <1>1 DEF vars, broker, health, threads, ledgers, claims, outside, TypeInv, TypeOK, HasItem
<1>2. CASE Next
  BY <1>2, HandleStepType, CancelStepType, ProcessorStepType, EnvironmentType DEF Next
<1> QED
  BY <1>1, <1>2

\* The strengthened type invariant: TypeOK, and a thread in the middle of a
\* handler has an item.
LEMMA TypeInvariant == Spec => []TypeInv
BY InitType, NextType, PTL DEF Spec

\* The state of the request path is always well-typed; in particular no message
\* is counted as delivered more than MaxDeliver times.
THEOREM TypeCorrect == Spec => []TypeOK
BY TypeInvariant, PTL DEF TypeInv

=============================================================================
