--------------------------- MODULE DeliveryProofs ---------------------------
(***************************************************************************)
(* No create or delete is acked away before the agent has decided it, with *)
(* every fault of the model allowed.                                       *)
(***************************************************************************)
EXTENDS AgentProofs

\* q has a copy on the retry stream.
Queued(q) == \E n \in 1 .. MaxDeliver : <<q, n>> \in stored

Answered(q) == Settled(q) \/ Queued(q)

\* What a worker may rely on: its control-plane items have been delivered, so a
\* copy it publishes is a retry copy; only a control-plane item is copied; and
\* an item about to be acked is settled, or safely copied if it is not itself
\* the copy.
Sound(t) ==
  /\ \A i \in batch[t] : OnRetry(i) \/ delivered[i[1]] > 0
  /\ pc[t] \in ItemLabels => OnRetry(cur[t]) \/ delivered[cur[t][1]] > 0
  /\ pc[t] = "enqueue" => ~OnRetry(cur[t])
  /\ pc[t] = "ack" => Answered(cur[t][1])
  /\ pc[t] = "ack" /\ OnRetry(cur[t]) => Settled(cur[t][1])

\* The cancel consumer only settles cancels of the control-plane stream.
CancelItem ==
  pc["cancel"] \in ItemLabels \cup {"fetch"} =>
    cur["cancel"][1].kind = "cancel" /\ ~OnRetry(cur["cancel"])

DeliveryInv ==
  /\ TypeInv
  /\ CancelItem
  /\ \A t \in Workers : Sound(t)
  /\ RemovedOnlySettled

\* A step that removes only settled items from the streams.
Covered ==
  /\ hist \subseteq hist'
  /\ \A q \in Requests : delivered'[q] >= delivered[q]
  /\ \A q \in Requests, n \in 1 .. MaxDeliver :
       <<q, n>> \in stored \ stored' => Settled(q)'
  /\ \A q \in Requests :
       <<q, 0>> \in stored \ stored' => q.kind = "cancel" \/ Answered(q)'

Same(t) == pc'[t] = pc[t] /\ cur'[t] = cur[t] /\ batch'[t] = batch[t]

\* Outcomes are never taken back, so a settled request stays settled.
LEMMA AnsweredStays ==
  ASSUME Covered, NEW q \in Requests
  PROVE  /\ Settled(q) => Settled(q)'
         /\ Answered(q) => Answered(q)'
BY DEF Covered, Settled, Had, Answered, Queued

\* Settling items this way keeps the invariant, once the threads that moved are
\* sound again.
LEMMA CoveredKeeps ==
  ASSUME DeliveryInv, TypeInv', Covered, CancelItem',
         \A q \in sent' \ sent : <<q, 0>> \in stored',
         sent \subseteq sent',
         \A t \in Workers : Same(t) \/ Sound(t)'
  PROVE  DeliveryInv'
<1>1. RemovedOnlySettled'
  <2> SUFFICES ASSUME NEW q \in sent', q.kind # "cancel"
               PROVE  InStream(q)' \/ Settled(q)'
    BY DEF RemovedOnlySettled
  <2>1. CASE q \notin sent
    BY <2>1, BoundsAssumption DEF InStream
  <2>2. CASE q \in sent
    <3>1. q \in Requests /\ (InStream(q) \/ Settled(q))
      BY <2>2 DEF DeliveryInv, TypeInv, TypeOK, RemovedOnlySettled
    <3>2. CASE Settled(q)
      BY <3>1, <3>2, AnsweredStays
    <3>3. ASSUME NEW n \in 0 .. MaxDeliver, <<q, n>> \in stored
          PROVE  InStream(q)' \/ Settled(q)'
      <4>1. CASE <<q, n>> \in stored'
        BY <4>1 DEF InStream
      <4>2. CASE <<q, n>> \notin stored' /\ n = 0
        BY <3>1, <3>3, <4>2, BoundsAssumption DEF Covered, Answered, Queued, InStream
      <4>3. CASE <<q, n>> \notin stored' /\ n # 0
        BY <3>1, <3>3, <4>3, BoundsAssumption DEF Covered
      <4> QED
        BY <4>1, <4>2, <4>3
    <3> QED
      BY <3>1, <3>2, <3>3 DEF InStream
  <2> QED
    BY <2>1, <2>2
<1>2. ASSUME NEW t \in Workers, Same(t)
      PROVE  Sound(t)'
  <2>1. Sound(t) /\ t \in Threads /\ batch[t] \subseteq Items
    BY ThreadNames DEF DeliveryInv, TypeInv, TypeOK
  <2>2. pc[t] \in ItemLabels => cur[t] \in Items
    BY <2>1 DEF DeliveryInv, TypeInv, HasItem
  <2>3. \A q \in Requests : delivered[q] \in Nat /\ delivered'[q] \in Nat
    BY DEF DeliveryInv, TypeInv, TypeOK
  <2>4. \A i \in batch'[t] : OnRetry(i) \/ delivered'[i[1]] > 0
    BY <1>2, <2>1, <2>3, ItemFields DEF Same, Sound, Covered
  <2>5. pc'[t] \in ItemLabels => OnRetry(cur'[t]) \/ delivered'[cur'[t][1]] > 0
    BY <1>2, <2>1, <2>2, <2>3, ItemFields DEF Same, Sound, Covered
  <2>6. pc[t] = "ack" => pc[t] \in ItemLabels
    BY DEF ItemLabels, Labels
  <2>7. pc[t] = "ack" => cur[t][1] \in Requests
    BY <2>2, <2>6, ItemFields
  <2>8. pc'[t] = "ack" => Answered(cur[t][1])' 
    BY <1>2, <2>1, <2>7, AnsweredStays DEF Same, Sound
  <2> QED
    BY <1>2, <2>1, <2>4, <2>5, <2>7, <2>8, AnsweredStays DEF Same, Sound
<1> QED
  BY <1>1, <1>2 DEF DeliveryInv

\* A step of a worker that leaves the streams alone.
LEMMA StreamsUnchanged ==
  ASSUME TypeInv, UNCHANGED <<stored, delivered>>, hist \subseteq hist'
  PROVE  Covered
BY DEF Covered, TypeInv, TypeOK

\* A step that adds to the streams and removes only cancels from them.
LEMMA OnlyCancelsRemoved ==
  ASSUME DeliveryInv, hist' = hist, delivered' = delivered,
         \A i \in stored \ stored' : ~OnRetry(i) /\ i[1].kind = "cancel"
  PROVE  Covered
<1>1. \A q \in Requests : delivered'[q] >= delivered[q]
  <2>1. \A q \in Requests : delivered[q] \in Nat
    BY DEF DeliveryInv, TypeInv, TypeOK
  <2> QED
    BY <2>1
<1>2. \A q \in Requests, n \in 1 .. MaxDeliver : <<q, n>> \notin stored \ stored'
  BY DEF OnRetry
<1>3. \A q \in Requests : <<q, 0>> \in stored \ stored' => q.kind = "cancel"
  <2>1. \A q \in Requests : <<q, 0>>[1] = q
    OBVIOUS
  <2> QED
    BY SMTT(60), <2>1
<1> QED
  BY <1>1, <1>2, <1>3 DEF Covered

\* The handler steps that settle nothing in the streams.
LEMMA HandlerSound ==
  ASSUME DeliveryInv, NEW t \in Workers, HandleStep(t), ~Enqueue(t)
  PROVE  /\ Covered
         /\ Sound(t)'
         /\ UNCHANGED sent
         /\ \A u \in Threads \ {t} : Same(u)
<1> USE ThreadNames
    DEF DeliveryInv, TypeInv, TypeOK, Goto, broker, ledgers, claims, outside, Same, Sound
<1>1. CASE TakeItem(t)
  BY SMTT(60), <1>1, StreamsUnchanged DEF TakeItem, ItemLabels
<1>2. pc[t] # "batch" => pc[t] \in ItemLabels
  BY ZenonT(60) DEF HandleStep, TakeItem, DropMalformed, RejectInvalid, CheckDeny, Resolve, Reject, Lock,
         Recheck, Forwarded, ForwardFailed, ForwardTimedOut, ItemLabels, Labels
<1>3. CASE DropMalformed(t)
  BY Zenon, <1>2, <1>3, StreamsUnchanged DEF DropMalformed, Answered, Settled, Had, FinalOutcomes
<1>4. CASE RejectInvalid(t)
  BY <1>2, <1>4, StreamsUnchanged DEF RejectInvalid
<1>5. CASE CheckDeny(t)
  BY Zenon, <1>2, <1>5, StreamsUnchanged DEF CheckDeny, Answered, Settled, Had, FinalOutcomes
<1>6. CASE Resolve(t)
  BY <1>2, <1>6, StreamsUnchanged DEF Resolve, Verdict, requeueToRetryTopic
<1>7. CASE Reject(t)
  BY ZenonT(60), <1>2, <1>7, StreamsUnchanged
  DEF Reject, publishCE, Fault, Answered, Settled, Had, FinalOutcomes
<1>8. CASE Lock(t)
  BY <1>2, <1>8, StreamsUnchanged DEF Lock, Deferred, requeueToRetryTopic
<1>9. CASE Recheck(t)
  BY Zenon, <1>2, <1>9, StreamsUnchanged DEF Recheck, Answered, Settled, Had, FinalOutcomes
<1>10. CASE Forwarded(t)
  BY Zenon, <1>2, <1>10, StreamsUnchanged DEF Forwarded, Answered, Settled, Had, FinalOutcomes
<1>11. CASE ForwardFailed(t)
  BY ZenonT(60), <1>2, <1>11, StreamsUnchanged DEF ForwardFailed, Answered, Settled, Had, FinalOutcomes
<1>12. CASE ForwardTimedOut(t)
  BY <1>2, <1>12, StreamsUnchanged DEF ForwardTimedOut, Deferred, requeueToRetryTopic
<1> QED
  BY ZenonT(60), <1>1, <1>3, <1>4, <1>5, <1>6, <1>7, <1>8, <1>9, <1>10, <1>11, <1>12 DEF HandleStep

\* A pair is recorded as dropped before either of its items leaves the stream.
LEMMA DedupSound ==
  ASSUME DeliveryInv, NEW t \in Workers, DedupStep(t)
  PROVE  /\ Covered
         /\ Sound(t)'
         /\ UNCHANGED sent
         /\ \A u \in Threads \ {t} : Same(u)
<1>0. /\ t \in Threads /\ Sound(t) /\ TypeInv
      /\ pc \in [Threads -> Labels] /\ cur \in [Threads -> Items \cup {NoItem}]
      /\ batch \in [Threads -> SUBSET Items]
  BY ThreadNames DEF DeliveryInv, TypeInv, TypeOK
<1>1. CASE TakePair(t)
  <2>1. PICK d \in batch[t] : /\ cur' = [cur EXCEPT ![t] = d]
                             /\ batch' = [batch EXCEPT ![t] = @ \ {d}]
    BY Zenon, <1>1 DEF TakePair, DedupPairs
  <2>2. /\ pc' = [pc EXCEPT ![t] = "pair"]
        /\ UNCHANGED <<sent, stored, delivered, hist>>
    BY <1>1, Zenon DEF TakePair, Goto, broker, outside
  <2>3. Covered
    BY <1>0, <2>2, StreamsUnchanged
  <2>4. Sound(t)'
    BY <1>0, <2>1, <2>2 DEF Sound
  <2> QED
    BY <1>0, <2>1, <2>2, <2>3, <2>4 DEF Same
<1>2. CASE AckPaired(t)
  <2>1. /\ hist \subseteq hist' /\ delivered' = delivered /\ cur' = cur /\ sent' = sent
        /\ \A i \in stored \ stored' : <<i[1], "paired">> \in hist'
        /\ \A u \in Threads \ {t} : Same(u)
        /\ batch'[t] \subseteq batch[t]
        /\ pc[t] = "pair" /\ pc'[t] \in {"pair", "deleted"}
    BY <1>0, <1>2 DEF AckPaired, Goto, Same
  <2>2. \A q \in Requests, n \in 0 .. MaxDeliver : <<q, n>> \in stored \ stored' => Settled(q)'
    <3> SUFFICES ASSUME NEW q \in Requests, NEW n \in 0 .. MaxDeliver, <<q, n>> \in stored \ stored'
                 PROVE  Settled(q)'
      OBVIOUS
    <3>1. <<q, "paired">> \in hist'
      BY <2>1
    <3> QED
      BY <3>1 DEF Settled, Had, FinalOutcomes
  <2>3. \A q \in Requests : delivered'[q] >= delivered[q]
    BY <1>0, <2>1 DEF TypeInv, TypeOK
  <2>4. Covered
    BY <2>1, <2>2, <2>3, BoundsAssumption DEF Covered, Answered
  <2>5. Sound(t)'
    BY <1>0, <2>1 DEF Sound, ItemLabels, Labels
  <2> QED
    BY <2>1, <2>4, <2>5
<1>3. CASE PublishDeleted(t)
  <2>1. /\ pc' = [pc EXCEPT ![t] = NextPair(batch[t])]
        /\ cur' = [cur EXCEPT ![t] = NoItem]
        /\ hist \subseteq hist'
        /\ UNCHANGED <<sent, stored, delivered, batch>>
    BY <1>3 DEF PublishDeleted, publishCE, Goto, broker
  <2>2. NextPair(batch[t]) \in {"batch", "dedup"}
    BY DEF NextPair
  <2>3. Covered
    BY <1>0, <2>1, StreamsUnchanged
  <2>4. Sound(t)'
    BY <1>0, <2>1, <2>2 DEF Sound, ItemLabels
  <2> QED
    BY <1>0, <2>1, <2>3, <2>4 DEF Same
<1> QED
  BY <1>1, <1>2, <1>3 DEF DedupStep

\* The copy is on the retry stream before the original is acked.
LEMMA EnqueueSound ==
  ASSUME DeliveryInv, NEW t \in Workers, Enqueue(t)
  PROVE  /\ Covered
         /\ Sound(t)'
         /\ UNCHANGED sent
         /\ \A u \in Threads \ {t} : Same(u)
<1> DEFINE q == cur[t][1]
<1>1. t \in Threads /\ pc[t] = "enqueue" /\ pc[t] \in ItemLabels
  BY ThreadNames DEF Enqueue, ItemLabels, Labels
<1>2. cur[t] \in Items /\ q \in Requests
  BY <1>1, ItemFields DEF DeliveryInv, TypeInv, HasItem
<1>3. ~OnRetry(cur[t]) /\ delivered[q] > 0 /\ delivered[q] \in 1 .. MaxDeliver
  BY <1>1, <1>2 DEF DeliveryInv, Sound, TypeInv, TypeOK
<1>4. /\ delivered' = delivered /\ cur' = cur /\ batch' = batch /\ sent' = sent
      /\ stored \subseteq stored' /\ hist \subseteq hist'
      /\ \/ <<q, delivered[q]>> \in stored' /\ pc' = [pc EXCEPT ![t] = "ack"]
         \/ pc' = [pc EXCEPT ![t] = "nak"]
  BY DEF Enqueue, publishCE, Goto
<1>5. Covered
  BY <1>4 DEF Covered, DeliveryInv, TypeInv, TypeOK
<1>6. pc'[t] = "ack" => Answered(q)'
  BY SMTT(60), <1>1, <1>3, <1>4 DEF Answered, Queued, DeliveryInv, TypeInv, TypeOK
<1>7. Sound(t)'
  BY <1>1, <1>3, <1>4, <1>6 DEF Sound, DeliveryInv, TypeInv, TypeOK
<1> QED
  BY <1>4, <1>5, <1>7 DEF Same, DeliveryInv, TypeInv, TypeOK

\* An acked item was settled or copied.
LEMMA AckSound ==
  ASSUME DeliveryInv, NEW t \in Workers, Ack(t) \/ Nak(t)
  PROVE  /\ Covered
         /\ Sound(t)'
         /\ UNCHANGED sent
         /\ \A u \in Threads \ {t} : Same(u)
<1>1. t \in Threads /\ cur[t] \in Items /\ pc[t] \in ItemLabels
  BY ThreadNames DEF Ack, Nak, ItemLabels, Labels, DeliveryInv, TypeInv, HasItem
<1>2. /\ delivered' = delivered /\ batch' = batch /\ sent' = sent /\ hist' = hist
      /\ cur' = [cur EXCEPT ![t] = NoItem] /\ pc' = [pc EXCEPT ![t] = After(t)]
      /\ stored \ {cur[t]} \subseteq stored'
      /\ stored' # stored => pc[t] = "ack"
  BY DEF Ack, Nak, Goto, broker, outside
<1>3. After(t) \in {"idle", "batch"}
  BY DEF After
<1>4. ASSUME NEW q \in Requests, NEW n \in 0 .. MaxDeliver, <<q, n>> \in stored \ stored'
      PROVE  IF n > 0 THEN Settled(q)' ELSE Answered(q)'
  <2>1. cur[t] = <<q, n>> /\ pc[t] = "ack"
    BY <1>2, <1>4
  <2>2. Answered(q) /\ (n > 0 => Settled(q))
    BY <2>1 DEF DeliveryInv, Sound, OnRetry
  <2>3. Settled(q)' <=> Settled(q)
    BY <1>2 DEF Settled, Had
  <2>4. n = 0 /\ Queued(q) => Queued(q)'
    BY <1>2, <2>1 DEF Queued
  <2> QED
    BY <2>2, <2>3, <2>4 DEF Answered
<1>5. Covered
  BY <1>2, <1>4, BoundsAssumption DEF Covered, DeliveryInv, TypeInv, TypeOK
<1>6. Sound(t)'
  BY SMTT(60), <1>1, <1>2, <1>3 DEF Sound, ItemLabels, DeliveryInv, TypeInv, TypeOK
<1> QED
  BY <1>2, <1>5, <1>6 DEF Same, DeliveryInv, TypeInv, TypeOK

\* The cancel consumer removes cancels, and purges retry items it records.
LEMMA CancelCovered ==
  ASSUME DeliveryInv, CancelStep
  PROVE  /\ Covered
         /\ CancelItem'
         /\ UNCHANGED sent
         /\ \A t \in Workers : Same(t)
<1>0. /\ CancelItem /\ TypeInv /\ "cancel" \in Threads
      /\ pc \in [Threads -> Labels] /\ cur \in [Threads -> Items \cup {NoItem}]
      /\ batch \in [Threads -> SUBSET Items]
  BY ThreadNames DEF DeliveryInv, TypeInv, TypeOK
<1>1. ASSUME NEW l, NEW i, pc' = [pc EXCEPT !["cancel"] = l], cur' = [cur EXCEPT !["cancel"] = i],
             \/ batch' = batch
             \/ \E got : batch' = [batch EXCEPT !["cancel"] = got]
      PROVE  \A t \in Workers : Same(t)
  BY <1>0, <1>1, ThreadNames DEF Same
<1>2. ASSUME NEW l, pc' = [pc EXCEPT !["cancel"] = l], cur' = cur,
             \/ batch' = batch
             \/ \E got : batch' = [batch EXCEPT !["cancel"] = got]
      PROVE  \A t \in Workers : Same(t)
  BY <1>0, <1>2, ThreadNames DEF Same
<1>3. ASSUME NEW l, pc' = [pc EXCEPT !["cancel"] = l], cur' = cur,
             pc["cancel"] \in {"deny", "fetch", "purge"}
      PROVE  CancelItem'
  BY <1>0, <1>3 DEF CancelItem, ItemLabels, Labels
<1>4. CASE HandleCancel
  <2>1. PICK i \in FetchTopic({"cancel"}) : /\ cur' = [cur EXCEPT !["cancel"] = i]
                                           /\ \E l \in {"ack", "deny"} : Goto("cancel", l)
    BY <1>4, Zenon DEF HandleCancel
  <2>2. UNCHANGED <<sent, stored, delivered, batch>>
    BY <1>4, Zenon DEF HandleCancel
  <2>3. hist \subseteq hist'
    BY <1>4 DEF HandleCancel, AnswerCancel
  <2>4. Covered
    BY <1>0, <2>2, <2>3, StreamsUnchanged, Zenon
  <2>5. i[1].kind = "cancel" /\ ~OnRetry(i) /\ cur'["cancel"] = i
    BY <1>0, <2>1 DEF FetchTopic
  <2> QED
    BY <1>1, <2>1, <2>2, <2>4, <2>5, Zenon DEF CancelItem, Goto
<1>5. CASE CancelDeny
  <2>1. /\ pc["cancel"] = "deny" /\ pc' = [pc EXCEPT !["cancel"] = "fetch"]
        /\ UNCHANGED <<sent, stored, delivered, hist, cur, batch>>
    BY <1>5, Zenon DEF CancelDeny, Goto, broker, outside
  <2> QED
    BY Zenon, <1>0, <1>2, <1>3, <2>1, StreamsUnchanged
<1>6. CASE CancelFetch
  <2>1. /\ pc["cancel"] = "fetch" /\ UNCHANGED <<sent, stored, delivered, hist, cur>>
        /\ \E l : pc' = [pc EXCEPT !["cancel"] = l]
        /\ batch' = batch \/ \E got : batch' = [batch EXCEPT !["cancel"] = got]
    BY <1>6, Zenon DEF CancelFetch, Goto, outside
  <2>2. Covered
    BY <1>0, <2>1, StreamsUnchanged
  <2> QED
    BY Zenon, <1>2, <1>3, <2>1, <2>2
<1>7. CASE CancelPurge
  <2>1. /\ hist \subseteq hist' /\ delivered' = delivered
        /\ \A i \in stored \ stored' : <<i[1], "purged">> \in hist'
    BY <1>7 DEF CancelPurge, AnswerCancel
  <2>2. \A q \in Requests, n \in 0 .. MaxDeliver : <<q, n>> \in stored \ stored' => Settled(q)'
    <3> SUFFICES ASSUME NEW q \in Requests, NEW n \in 0 .. MaxDeliver, <<q, n>> \in stored \ stored'
                 PROVE  Settled(q)'
      OBVIOUS
    <3>1. <<q, "purged">> \in hist'
      BY <2>1
    <3> QED
      BY <3>1 DEF Settled, Had, FinalOutcomes
  <2>3. \A q \in Requests : delivered'[q] >= delivered[q]
    BY <1>0, <2>1 DEF TypeInv, TypeOK
  <2>4. Covered
    BY <2>1, <2>2, <2>3, BoundsAssumption DEF Covered, Answered
  <2>5. /\ sent' = sent /\ cur' = cur /\ pc["cancel"] = "purge"
        /\ \E l : pc' = [pc EXCEPT !["cancel"] = l]
        /\ \E got : batch' = [batch EXCEPT !["cancel"] = got]
    BY <1>7, Zenon DEF CancelPurge, Goto
  <2> QED
    BY Zenon, <1>2, <1>3, <2>4, <2>5
<1>8. CASE Ack("cancel")
  <2>1. /\ pc["cancel"] = "ack" /\ pc' = [pc EXCEPT !["cancel"] = "idle"]
        /\ cur' = [cur EXCEPT !["cancel"] = NoItem]
        /\ UNCHANGED <<sent, delivered, hist, batch>>
        /\ stored' = stored \ {cur["cancel"]} \/ stored' = stored
    BY <1>8, Zenon DEF Ack, After, Goto, outside
  <2>2. cur["cancel"][1].kind = "cancel" /\ ~OnRetry(cur["cancel"])
    BY <1>0, <2>1 DEF CancelItem, ItemLabels, Labels
  <2>3. \A i \in stored \ stored' : i = cur["cancel"]
    BY <2>1
  <2>4. Covered
    BY <2>1, <2>2, <2>3, OnlyCancelsRemoved, Zenon
  <2>5. pc'["cancel"] = "idle"
    BY <1>0, <2>1
  <2>6. CancelItem'
    BY <2>5 DEF CancelItem, ItemLabels
  <2> QED
    BY Zenon, <1>1, <2>1, <2>4, <2>6
<1>9. CASE Nak("cancel")
  <2>1. /\ pc' = [pc EXCEPT !["cancel"] = "idle"] /\ cur' = [cur EXCEPT !["cancel"] = NoItem]
        /\ UNCHANGED <<sent, stored, delivered, hist, batch>>
    BY <1>9, Zenon DEF Nak, After, Goto, broker, outside
  <2>2. pc'["cancel"] = "idle"
    BY <1>0, <2>1
  <2>3. CancelItem'
    BY <2>2 DEF CancelItem, ItemLabels
  <2> QED
    BY Zenon, <1>0, <1>1, <2>1, <2>3, StreamsUnchanged
<1> QED
  BY Zenon, <1>4, <1>5, <1>6, <1>7, <1>8, <1>9 DEF CancelStep

\* What the fetches do to the streams and to the thread that fetches.
LEMMA FetchSound ==
  ASSUME DeliveryInv, NEW t \in Workers
  PROVE  /\ FetchRetryTopic(t) => Covered /\ (cur' = cur => Sound(t)')
         /\ \A items : FetchError(t, items, "idle") => Covered /\ (cur' = cur => Sound(t)')
<1>0. t \in Threads
  BY ThreadNames
<1>1. ASSUME FetchRetryTopic(t)
      PROVE  Covered /\ (cur' = cur => Sound(t)')
  <2>1. hist' = hist /\ delivered' = delivered /\ stored' = stored
    BY <1>1 DEF FetchRetryTopic
  <2>2. Covered
    BY <2>1, StreamsUnchanged DEF DeliveryInv
  <2>3. pc'[t] \in {"batch", "dedup"} /\ \A i \in batch'[t] : OnRetry(i)
    BY <1>0, <1>1
    DEF FetchRetryTopic, FetchRetry, NextPair, Goto, DeliveryInv, TypeInv, TypeOK
  <2> QED
    BY <2>2, <2>3 DEF Sound, ItemLabels
<1>2. ASSUME NEW items, FetchError(t, items, "idle")
      PROVE  Covered /\ (cur' = cur => Sound(t)')
  <2>0. PICK some \in SUBSET items : delivered' = CountDelivery(some)
    BY <1>2 DEF FetchError
  <2>1. \A q \in Requests : /\ delivered[q] \in Nat /\ delivered'[q] \in Nat
                            /\ delivered'[q] >= delivered[q]
    <3>1. \A q \in Requests : delivered[q] \in Nat
      BY DEF DeliveryInv, TypeInv, TypeOK
    <3>2. \A q \in Requests : delivered'[q] = delivered[q] \/ delivered'[q] = delivered[q] + 1
      BY <2>0, Zenon DEF CountDelivery
    <3> QED
      BY <3>1, <3>2
  <2>2. Covered
    BY <1>2, <2>1 DEF Covered, FetchError
  <2>3. pc'[t] = "idle" /\ batch' = batch
    BY <1>0, <1>2 DEF FetchError, Goto, DeliveryInv, TypeInv, TypeOK
  <2>4. \A i \in batch'[t] : OnRetry(i) \/ delivered'[i[1]] > 0
    BY <1>0, <2>1, <2>3, ItemFields DEF DeliveryInv, Sound, TypeInv, TypeOK
  <2> QED
    BY <2>2, <2>3, <2>4 DEF Sound, ItemLabels
<1> QED
  BY <1>1, <1>2

\* The restart drain and the transition goroutines lose no request.
LEMMA ProcessorSound ==
  ASSUME DeliveryInv, BootStep \/ \E t \in Trans : TransitionStep(t)
  PROVE  /\ Covered
         /\ CancelItem'
         /\ UNCHANGED sent
         /\ \A t \in Workers : Same(t) \/ Sound(t)'
<1> USE ThreadNames DEF Same, Goto, broker, health, outside, ledgers, claims, threads
<1>0. /\ \A t \in Workers : Sound(t)
      /\ CancelItem /\ TypeInv
      /\ pc \in [Threads -> Labels] /\ cur \in [Threads -> Items \cup {NoItem}]
      /\ batch \in [Threads -> SUBSET Items]
  BY DEF DeliveryInv, TypeInv, TypeOK
<1>1. CASE FinishCancelDrain
  BY <1>0, <1>1, StreamsUnchanged DEF FinishCancelDrain, CancelItem
<1>2. CASE drainCancelsToDenyList
  <2>1. CASE RestartFailed(FetchTopic({"cancel"}))
    BY ZenonT(60), <1>0, <1>2, <2>1, FetchSound DEF drainCancelsToDenyList, RestartFailed, FetchError, CancelItem
  <2>2. CASE ~RestartFailed(FetchTopic({"cancel"}))
    <3>1. /\ hist' = hist /\ delivered' = delivered
          /\ \A i \in stored \ stored' : ~OnRetry(i) /\ i[1].kind = "cancel"
      BY <1>2, <2>2 DEF drainCancelsToDenyList, FetchTopic
    <3>2. Covered
      BY SMTT(60), <3>1, OnlyCancelsRemoved
    <3> QED
      BY <1>0, <1>2, <2>2, <3>2 DEF drainCancelsToDenyList, CancelItem
  <2> QED
    BY SMTT(60), <2>1, <2>2
<1>3. CASE drainMainTopic
  <2>1. CASE RestartFailed(FetchMain)
    BY Zenon, <1>0, <1>3, <2>1, FetchSound DEF drainMainTopic, RestartFailed, FetchError, CancelItem
  <2>2. CASE ~RestartFailed(FetchMain)
    <3>1. PICK got \in SUBSET FetchMain :
            /\ stored' = stored /\ hist' = hist /\ cur' = cur /\ sent' = sent
            /\ delivered' = CountDelivery(got)
            /\ batch' = [batch EXCEPT !["boot"] = got]
            /\ pc' = [pc EXCEPT !["boot"] = "batch"]
      BY <1>3, <2>2 DEF drainMainTopic
    <3>2. Covered
      BY <1>0, <3>1 DEF Covered, CountDelivery, TypeInv, TypeOK
    <3>3. \A i \in FetchMain : i = <<i[1], 0>> /\ i[1] \in Requests /\ i[1].kind \in MainKinds
      BY <1>0, ItemFields DEF FetchMain, FetchTopic, OnRetry, TypeInv, TypeOK
    <3>4. \A i \in got : delivered'[i[1]] > 0
      BY SMTT(60), <1>0, <3>1, <3>3 DEF CountDelivery, TypeInv, TypeOK
    <3>5. Sound("boot")'
      <4>1. pc'["boot"] = "batch" /\ batch'["boot"] = got
        BY <1>0, <3>1
      <4> QED
        BY <3>4, <4>1, Zenon DEF Sound, ItemLabels
    <3> QED
      BY Zenon, <1>0, <3>1, <3>2, <3>5 DEF CancelItem
  <2> QED
    BY ZenonT(60), <2>1, <2>2
<1>4. CASE drainRetryTopicWithDedup
  BY ZenonT(60), <1>0, <1>4, FetchSound
  DEF drainRetryTopicWithDedup, RestartFailed, FetchError, FetchRetryTopic, CancelItem
<1>5. CASE EndDrain
  BY Zenon, <1>0, <1>5, StreamsUnchanged DEF EndDrain, Sound, ItemLabels, CancelItem
<1>6. ASSUME NEW t \in Trans, FetchOnTransition(t)
      PROVE  /\ Covered /\ CancelItem' /\ UNCHANGED sent
             /\ \A u \in Workers : Same(u) \/ Sound(u)'
  <2>1. CASE FetchRetryTopic(t) \/ FetchError(t, FetchRetry, "idle")
    BY ZenonT(60), <1>0, <1>6, <2>1, FetchSound
    DEF FetchOnTransition, FetchError, FetchRetryTopic, CancelItem
  <2>2. CASE ~FetchRetryTopic(t) /\ ~FetchError(t, FetchRetry, "idle")
    BY ZenonT(60), <1>0, <1>6, <2>2, StreamsUnchanged DEF FetchOnTransition, Sound, ItemLabels, CancelItem
  <2> QED
    BY ZenonT(60), <2>1, <2>2
<1>7. ASSUME NEW t \in Trans, EndTransition(t)
      PROVE  /\ Covered /\ CancelItem' /\ UNCHANGED sent
             /\ \A u \in Workers : Same(u) \/ Sound(u)'
  <2>1. pc' = [pc EXCEPT ![t] = "idle"] /\ UNCHANGED <<sent, stored, delivered, hist, cur, batch>>
    BY <1>7, Zenon DEF EndTransition
  <2>2. t \in Threads /\ t \in Workers /\ t # "cancel"
    OBVIOUS
  <2>3. Covered
    BY <1>0, <2>1, StreamsUnchanged, Zenon
  <2>4. CancelItem'
    BY <1>0, <2>1, <2>2, Zenon DEF CancelItem
  <2>5. Sound(t)'
    BY <1>0, <2>1, <2>2 DEF Sound, ItemLabels
  <2>6. \A u \in Workers : u # t => Same(u)
    BY <1>0, <2>1
  <2> QED
    BY <2>1, <2>3, <2>4, <2>5, <2>6, Zenon
<1> QED
  BY Zenon, <1>1, <1>2, <1>3, <1>4, <1>5, <1>6, <1>7 DEF BootStep, TransitionStep

\* Neither do the control plane, the broker, the main consumer, provider health
\* or a crash.
LEMMA EnvironmentSound ==
  ASSUME DeliveryInv,
         \/ Environment
         \/ \E i \in held : Redeliver(i)
         \/ \E ty \in Types : TrackType(ty)
         \/ handleMainMessage \/ TermMain
  PROVE  /\ Covered
         /\ CancelItem'
         /\ sent \subseteq sent' /\ \A q \in sent' \ sent : <<q, 0>> \in stored'
         /\ \A t \in Workers : Same(t) \/ Sound(t)'
<1> DEFINE Goal == /\ Covered
                   /\ CancelItem'
                   /\ sent \subseteq sent' /\ \A q \in sent' \ sent : <<q, 0>> \in stored'
                   /\ \A t \in Workers : Same(t) \/ Sound(t)'
<1> USE ThreadNames DEF Same, Goto, broker, health, outside, ledgers, claims, threads
<1>0. /\ \A t \in Workers : Sound(t)
      /\ CancelItem /\ TypeInv
      /\ pc \in [Threads -> Labels] /\ cur \in [Threads -> Items \cup {NoItem}]
      /\ batch \in [Threads -> SUBSET Items]
      /\ delivered \in [Requests -> 0 .. MaxDeliver]
  BY SMTT(60) DEF DeliveryInv, TypeInv, TypeOK
<1>1. ASSUME NEW q \in Requests, Send(q)
      PROVE  Goal
  <2>1. Covered
    BY SMTT(60), <1>1, OnlyCancelsRemoved DEF Send
  <2> QED
    BY Zenon, <1>0, <1>1, <2>1 DEF Send, CancelItem
<1>2. ASSUME NEW ty \in Types, ClaimType(ty)
      PROVE  Goal
  BY ZenonT(60), <1>0, <1>2, StreamsUnchanged DEF ClaimType, CancelItem
<1>3. ASSUME NEW ty \in Types, NEW to, RunTransition(ty, to),
             UNCHANGED <<sent, broker, cur, batch, outside>>
      PROVE  Goal
  <2>1. CASE pc' = pc
    BY ZenonT(60), <1>0, <1>3, <2>1, StreamsUnchanged DEF CancelItem
  <2>2. CASE \E t \in Trans : Goto(t, "fetch")
    <3>1. PICK t \in Trans : pc' = [pc EXCEPT ![t] = "fetch"]
      BY <2>2, Zenon
    <3>2. UNCHANGED <<sent, stored, delivered, hist, cur, batch>>
      BY <1>3, Zenon
    <3>3. t \in Threads /\ t \in Workers /\ t # "cancel"
      OBVIOUS
    <3>4. Covered
      BY <1>0, <3>2, StreamsUnchanged, Zenon
    <3>5. CancelItem'
      BY <1>0, <3>1, <3>2, <3>3, Zenon DEF CancelItem
    <3>6. Sound(t)'
      BY <1>0, <3>1, <3>2, <3>3 DEF Sound, ItemLabels
    <3>7. \A u \in Workers : u # t => Same(u)
      BY <1>0, <3>1, <3>2
    <3> QED
      BY <3>2, <3>4, <3>5, <3>6, <3>7, Zenon
  <2> QED
    BY <1>3, <2>1, <2>2, Zenon DEF RunTransition
<1>4. ASSUME NEW ty \in Types, NEW to, HealthTransition(ty, to)
      PROVE  Goal
  BY Zenon, <1>3, <1>4 DEF HealthTransition
<1>5. ASSUME NEW ty \in Types, TrackType(ty)
      PROVE  Goal
  <2>1. CASE pc' = pc
    <3>1. UNCHANGED <<sent, stored, delivered, hist, cur, batch>>
      BY <1>5, Zenon DEF TrackType
    <3>2. Covered
      BY <1>0, <3>1, StreamsUnchanged, Zenon
    <3> QED
      BY <1>0, <2>1, <3>1, <3>2, Zenon DEF CancelItem
  <2>2. CASE \E st : RunTransition(ty, st)
    BY SMTT(60), <1>3, <1>5, <2>2 DEF TrackType
  <2> QED
    BY SMTT(60), <1>5, <2>1, <2>2 DEF TrackType
<1>6. CASE Crash
  BY ZenonT(60), <1>0, <1>6, StreamsUnchanged DEF Crash, FreshPC, CancelItem, Sound, ItemLabels
<1>7. ASSUME NEW i \in held, Redeliver(i)
      PROVE  Goal
  BY ZenonT(60), <1>0, <1>7, StreamsUnchanged DEF Redeliver, CancelItem
<1>8. CASE handleMainMessage
  <2>1. PICK i \in FetchMain : /\ delivered' = CountDelivery({i})
                               /\ cur' = [cur EXCEPT !["main"] = i]
                               /\ \E l \in {"term", "deny", "nak"} : Goto("main", l)
    BY <1>8, Zenon DEF handleMainMessage
  <2>2. i = <<i[1], 0>> /\ i[1] \in Requests /\ i[1].kind \in MainKinds
    BY <1>0, ItemFields DEF FetchMain, FetchTopic, OnRetry, TypeInv, TypeOK
  <2>3. delivered'[i[1]] > 0 /\ \A q \in Requests : delivered'[q] >= delivered[q]
    BY <1>0, <2>1, <2>2 DEF CountDelivery
  <2>4. Covered
    BY Zenon, <1>8, <2>3 DEF handleMainMessage, Covered
  <2>5. \A j \in batch["main"] : OnRetry(j) \/ delivered'[j[1]] > 0
    BY SMTT(60), <1>0, <2>1, <2>3, ItemFields DEF Sound, CountDelivery
  <2>6. Sound("main")'
    <3>1. batch' = batch
      BY <1>8, Zenon DEF handleMainMessage
    <3>2. cur'["main"] = i /\ pc'["main"] \in {"term", "deny", "nak"}
      BY <1>0, <2>1
    <3> QED
      BY <2>3, <2>5, <3>1, <3>2 DEF Sound
  <2> QED
    <3>1. UNCHANGED <<sent, batch>>
      BY <1>8, Zenon DEF handleMainMessage
    <3>2. PICK l : pc' = [pc EXCEPT !["main"] = l]
      BY <2>1, Zenon
    <3>3. \A t \in Threads : t # "main" => pc'[t] = pc[t] /\ cur'[t] = cur[t]
      BY <1>0, <2>1, <3>2
    <3>4. CancelItem'
      BY <1>0, <3>3, Zenon DEF CancelItem
    <3> QED
      BY <2>4, <2>6, <3>1, <3>3, <3>4, Zenon
<1>9. CASE TermMain
  <2>1. /\ \E o \in {"maxdeliver", "unreported"} : <<cur["main"][1], o>> \in hist'
        /\ hist \subseteq hist'
        /\ delivered' = delivered /\ stored \ {cur["main"]} \subseteq stored'
    BY <1>9 DEF TermMain, publishCE
  <2>2. \A q, n : <<q, n>> \in stored \ stored' => Settled(q)'
    BY <2>1 DEF Settled, Had, FinalOutcomes
  <2>3. Covered
    BY SMTT(60), <1>0, <2>1, <2>2 DEF Covered, Answered
  <2>4. Sound("main")'
    BY <1>0, <1>9 DEF TermMain, Sound, ItemLabels
  <2> QED
    BY ZenonT(60), <1>0, <1>9, <2>3, <2>4 DEF TermMain, CancelItem
<1> QED
  BY Zenon, <1>1, <1>2, <1>4, <1>5, <1>6, <1>7, <1>8, <1>9 DEF Environment

\* Before the control plane has published anything there is nothing to lose.
LEMMA InitDelivery == Init => DeliveryInv
<1> SUFFICES ASSUME Init PROVE DeliveryInv
  OBVIOUS
<1>1. TypeInv
  BY InitType
<1>2. CancelItem /\ \A t \in Workers : Sound(t)
  BY Zenon, ThreadNames DEF Init, FreshPC, CancelItem, Sound, ItemLabels
<1>3. RemovedOnlySettled
  BY DEF Init, RemovedOnlySettled
<1> QED
  BY <1>1, <1>2, <1>3 DEF DeliveryInv

\* Every step keeps the delivery invariant.
LEMMA NextDelivery == DeliveryInv /\ [Next]_vars => DeliveryInv'
<1> SUFFICES ASSUME DeliveryInv, [Next]_vars PROVE DeliveryInv'
  OBVIOUS
<1>1. TypeInv /\ TypeInv'
  BY NextType DEF DeliveryInv
<1>2. CASE UNCHANGED vars
  <2>1. Covered /\ CancelItem' /\ \A t \in Workers : Same(t)
    BY <1>1, <1>2, StreamsUnchanged
    DEF vars, broker, threads, outside, CancelItem, Same, DeliveryInv
  <2> QED
    BY <1>1, <1>2, <2>1, CoveredKeeps DEF vars
<1>3. ASSUME NEW t \in Workers, WorkerStep(t)
      PROVE  DeliveryInv'
  <2>1. Covered /\ Sound(t)' /\ UNCHANGED sent /\ \A u \in Threads \ {t} : Same(u)
    BY SMTT(60), <1>3, HandlerSound, EnqueueSound, AckSound, DedupSound DEF WorkerStep
  <2>2. CancelItem'
    BY <2>1, ThreadNames DEF DeliveryInv, CancelItem, Same
  <2> QED
    BY <1>1, <2>1, <2>2, ThreadNames, CoveredKeeps
<1>4. CASE CancelStep
  BY <1>1, <1>4, CancelCovered, CoveredKeeps
<1>5. CASE BootStep \/ \E t \in Trans : TransitionStep(t)
  BY <1>1, <1>5, ProcessorSound, CoveredKeeps
<1>6. CASE \/ Environment
           \/ \E i \in held : Redeliver(i)
           \/ \E ty \in Types : TrackType(ty)
           \/ handleMainMessage \/ TermMain
  BY <1>1, <1>6, EnvironmentSound, CoveredKeeps
<1> QED
  BY <1>2, <1>3, <1>4, <1>5, <1>6 DEF Next

\* For every number of requests, resources, service types, goroutines and faults
\* of every kind, a create or delete of the control plane is in a stream or the
\* agent has decided it: crashes, redelivery, lost acks, failed publishes and the
\* two-step dropping of pairs never ack it away undecided.  It does not say that
\* the control plane hears of the decision.
THEOREM RequestsKept == Spec => []RemovedOnlySettled
<1>1. DeliveryInv => RemovedOnlySettled
  BY DEF DeliveryInv
<1> QED
  BY <1>1, InitDelivery, NextDelivery, PTL DEF Spec

=============================================================================
