-------------------------- MODULE ForwardingProofs --------------------------
(***************************************************************************)
(* The in-flight lock and the claimed-resources set: at most one forward   *)
(* per resource, no leaked lock, no claim lost except by eviction.         *)
(***************************************************************************)
EXTENDS AgentProofs

ForwardLabels == {"recheck", "dispatch"}

\* A thread that has just made the claim forwards a resource no forward has
\* succeeded for, or whose claim was evicted, so giving the claim up again hides
\* no earlier success that the set still remembered.
NewClaimIsFirst ==
  \A t \in Forwarding : newly[t] => cur[t][1].rid \notin succeeded \ evicted

ForwardInv ==
  /\ TypeInv
  /\ OneForwardPerResource
  /\ LockHeldOnlyWhileForwarding
  /\ ClaimOutlivesForward
  /\ NewClaimIsFirst

\* A step that neither starts nor ends a forward.
Quiet ==
  /\ UNCHANGED <<inFlight, claimed, evicted, succeeded>>
  /\ \A t \in Workers :
       /\ pc'[t] \in ForwardLabels <=> pc[t] \in ForwardLabels
       /\ pc[t] \in ForwardLabels => cur'[t] = cur[t] /\ newly'[t] = newly[t]

\* A step that starts and ends no forward and leaves the lock and the claims
\* alone keeps the invariant of the in-flight lock.
LEMMA QuietKeeps ==
  ASSUME ForwardInv, TypeInv', Quiet
  PROVE  ForwardInv'
<1>1. Forwarding' = Forwarding
  BY DEF Quiet, Forwarding, ForwardLabels
<1>2. \A t \in Forwarding : cur'[t] = cur[t] /\ newly'[t] = newly[t]
  BY DEF Quiet, Forwarding, ForwardLabels
<1>3. {cur'[t][1].rid : t \in Forwarding'} = {cur[t][1].rid : t \in Forwarding}
  BY <1>1, <1>2
<1>4. LockHeldOnlyWhileForwarding'
  BY Zenon, <1>3 DEF ForwardInv, LockHeldOnlyWhileForwarding, Quiet
<1>5. OneForwardPerResource' /\ ClaimOutlivesForward' /\ NewClaimIsFirst'
  BY <1>1, <1>2
  DEF ForwardInv, OneForwardPerResource, ClaimOutlivesForward, NewClaimIsFirst, Quiet
<1> QED
  BY <1>4, <1>5 DEF ForwardInv

\* The handler steps outside the forward.
LEMMA QuietHandler ==
  ASSUME TypeInv, NEW t \in Workers,
         \/ TakeItem(t) \/ DropMalformed(t) \/ RejectInvalid(t) \/ CheckDeny(t)
         \/ Resolve(t) \/ Reject(t) \/ Enqueue(t) \/ Ack(t) \/ Nak(t) \/ DedupStep(t)
  PROVE  Quiet
<1> USE ThreadNames
    DEF TypeInv, TypeOK, Quiet, ForwardLabels, Goto, broker, health, threads, ledgers, claims, outside
<1>1. CASE TakeItem(t)
  BY <1>1 DEF TakeItem
<1>2. CASE DropMalformed(t)
  BY <1>2 DEF DropMalformed
<1>3. CASE RejectInvalid(t)
  BY <1>3 DEF RejectInvalid
<1>4. CASE CheckDeny(t)
  BY <1>4 DEF CheckDeny
<1>5. CASE Resolve(t)
  BY <1>5 DEF Resolve, Verdict, requeueToRetryTopic
<1>6. CASE Reject(t)
  BY <1>6 DEF Reject
<1>7. CASE Enqueue(t)
  BY <1>7 DEF Enqueue
<1>8. CASE Ack(t)
  BY Zenon, <1>8 DEF Ack, After
<1>9. CASE Nak(t)
  BY Zenon, <1>9 DEF Nak, After
<1>10. CASE TakePair(t)
  BY <1>10 DEF TakePair
<1>11. CASE AckPaired(t)
  BY <1>11 DEF AckPaired
<1>12. CASE PublishDeleted(t)
  BY <1>12 DEF PublishDeleted, NextPair
<1> QED
  BY <1>1, <1>2, <1>3, <1>4, <1>5, <1>6, <1>7, <1>8, <1>9, <1>10, <1>11, <1>12 DEF DedupStep

\* The cancel consumer and the processor's fetches.
LEMMA QuietOthers ==
  ASSUME TypeInv, CancelStep \/ BootStep \/ \E t \in Trans : TransitionStep(t)
  PROVE  Quiet
<1> USE ThreadNames
    DEF TypeInv, TypeOK, Quiet, ForwardLabels, Goto, broker, health, threads, ledgers, claims, outside
<1>1. CASE HandleCancel
  BY <1>1 DEF HandleCancel
<1>2. CASE CancelDeny
  BY <1>2 DEF CancelDeny
<1>3. CASE CancelFetch
  BY <1>3 DEF CancelFetch
<1>4. CASE CancelPurge
  BY <1>4 DEF CancelPurge
<1>5. CASE Ack("cancel")
  BY Zenon, <1>5 DEF Ack
<1>6. CASE Nak("cancel")
  BY Zenon, <1>6 DEF Nak
<1>7. CASE FinishCancelDrain
  BY <1>7 DEF FinishCancelDrain
<1>8. CASE drainCancelsToDenyList
  BY <1>8 DEF drainCancelsToDenyList, RestartFailed, FetchError
<1>9. CASE drainMainTopic
  BY <1>9 DEF drainMainTopic, RestartFailed, FetchError
<1>10. CASE drainRetryTopicWithDedup
  BY <1>10 DEF drainRetryTopicWithDedup, RestartFailed, FetchError, FetchRetryTopic, NextPair
<1>11. CASE EndDrain
  BY <1>11 DEF EndDrain
<1>12. ASSUME NEW t \in Trans, FetchOnTransition(t)
       PROVE  Quiet
  BY <1>12 DEF FetchOnTransition, FetchRetryTopic, NextPair, FetchError
<1>13. ASSUME NEW t \in Trans, EndTransition(t)
       PROVE  Quiet
  BY <1>13 DEF EndTransition
<1> QED
  BY <1>1, <1>2, <1>3, <1>4, <1>5, <1>6, <1>7, <1>8, <1>9, <1>10, <1>11, <1>12, <1>13
  DEF CancelStep, BootStep, TransitionStep

\* The environment, the broker and the main consumer, crashes excepted.
LEMMA QuietEnvironment ==
  ASSUME TypeInv,
         \/ \E q \in Requests : Send(q)
         \/ \E ty \in Types : ClaimType(ty)
         \/ \E ty \in Types, to \in {"unhealthy", "ready", "unavailable"} :
              HealthTransition(ty, to)
         \/ \E i \in held : Redeliver(i)
         \/ \E ty \in Types : TrackType(ty)
         \/ handleMainMessage \/ TermMain
  PROVE  Quiet
<1> USE ThreadNames
    DEF TypeInv, TypeOK, Quiet, ForwardLabels, Goto, broker, health, threads, ledgers, claims, outside
<1>1. ASSUME NEW q \in Requests, Send(q)
      PROVE  Quiet
  BY <1>1 DEF Send
<1>2. ASSUME NEW ty \in Types, ClaimType(ty)
      PROVE  Quiet
  BY <1>2 DEF ClaimType
<1>3. ASSUME NEW ty \in Types, NEW to \in {"unhealthy", "ready", "unavailable"},
             HealthTransition(ty, to)
      PROVE  Quiet
  BY <1>3 DEF HealthTransition, RunTransition
<1>4. ASSUME NEW i \in held, Redeliver(i)
      PROVE  Quiet
  BY <1>4 DEF Redeliver
<1>5. ASSUME NEW ty \in Types, TrackType(ty)
      PROVE  Quiet
  BY <1>5 DEF TrackType, RunTransition
<1>6. CASE handleMainMessage
  BY <1>6 DEF handleMainMessage
<1>7. CASE TermMain
  BY <1>7 DEF TermMain
<1> QED
  BY <1>1, <1>2, <1>3, <1>4, <1>5, <1>6, <1>7

\* A forward starts: the lock is taken by a thread that finds it free.
LEMMA LockKeeps ==
  ASSUME ForwardInv, TypeInv', NEW t \in Workers, Lock(t)
  PROVE  ForwardInv'
<1> DEFINE rid == cur[t][1].rid
<1>1. CASE rid \in inFlight
  <2>1. Quiet
    BY <1>1, ThreadNames
    DEF ForwardInv, TypeInv, TypeOK, Lock, Deferred, requeueToRetryTopic, Goto, Quiet, ForwardLabels,
        claims, outside
  <2> QED
    BY <2>1, QuietKeeps
<1>2. CASE rid \notin inFlight
  <2>1. /\ pc' = [pc EXCEPT ![t] = "recheck"] /\ cur' = cur
        /\ inFlight' = inFlight \cup {rid}
        /\ claimed' = (claimed \ Evicts(rid)) \cup {rid}
        /\ evicted' = evicted \cup Evicts(rid)
        /\ newly' = [newly EXCEPT ![t] = rid \notin claimed]
        /\ succeeded' = succeeded
        /\ pc[t] = "lock"
    BY <1>2 DEF Lock, AddClaim, Goto, outside
  <2>2. Forwarding' = Forwarding \cup {t}
    BY <2>1, ThreadNames DEF ForwardInv, TypeInv, TypeOK, Forwarding
  <2>3. inFlight = {cur[u][1].rid : u \in Forwarding}
    BY DEF ForwardInv, LockHeldOnlyWhileForwarding
  <2>4. OneForwardPerResource'
    BY <1>2, <2>1, <2>2, <2>3 DEF ForwardInv, OneForwardPerResource
  <2>5. LockHeldOnlyWhileForwarding'
    BY <2>1, <2>2, <2>3 DEF LockHeldOnlyWhileForwarding
  <2>6. ClaimOutlivesForward'
    BY <2>1, <2>2 DEF ForwardInv, ClaimOutlivesForward
  <2>7. t \notin Forwarding
    BY <2>1 DEF Forwarding
  <2>8. newly'[t] => rid \notin claimed
    BY <2>1, ThreadNames, Zenon DEF ForwardInv, TypeInv, TypeOK
  <2>9. \A u \in Forwarding : newly'[u] = newly[u]
    BY <2>1, <2>7
  <2>10. NewClaimIsFirst'
    BY <2>1, <2>2, <2>8, <2>9 DEF ForwardInv, NewClaimIsFirst, ClaimOutlivesForward
  <2> QED
    BY <2>4, <2>5, <2>6, <2>10 DEF ForwardInv
<1> QED
  BY <1>1, <1>2

\* A forward ends: its lock, and its claim if it made one and did not succeed,
\* are given up, and no other thread held either.
LEMMA EndForwardKeeps ==
  ASSUME ForwardInv, TypeInv', NEW t \in Forwarding,
         cur' = cur, newly' = newly,
         \E l \in Labels \ ForwardLabels : pc' = [pc EXCEPT ![t] = l],
         inFlight' = inFlight \ {cur[t][1].rid},
         \/ /\ claimed' = claimed /\ evicted' = evicted \ (claimed \cap {cur[t][1].rid})
            /\ succeeded' = succeeded \cup {cur[t][1].rid}
         \/ /\ claimed' = Unclaim(t, cur[t][1]) /\ evicted' = evicted
            /\ succeeded' = succeeded
  PROVE  ForwardInv'
<1> DEFINE rid == cur[t][1].rid
<1>1. Forwarding' = Forwarding \ {t}
  BY ThreadNames DEF ForwardInv, TypeInv, TypeOK, Forwarding, ForwardLabels
<1>2. \A u \in Forwarding' : cur[u][1].rid # rid
  BY <1>1 DEF ForwardInv, OneForwardPerResource
<1>3. OneForwardPerResource'
  BY <1>1 DEF ForwardInv, OneForwardPerResource
<1>4. LockHeldOnlyWhileForwarding'
  BY <1>1, <1>2 DEF ForwardInv, LockHeldOnlyWhileForwarding
<1>5. ClaimOutlivesForward'
  BY <1>1, <1>2 DEF ForwardInv, ClaimOutlivesForward, NewClaimIsFirst, Unclaim
<1>6. NewClaimIsFirst'
  BY <1>1, <1>2 DEF ForwardInv, NewClaimIsFirst
<1> QED
  BY <1>3, <1>4, <1>5, <1>6 DEF ForwardInv

\* The steps of a forward in progress.
LEMMA ForwardStepKeeps ==
  ASSUME ForwardInv, TypeInv', NEW t \in Workers,
         Recheck(t) \/ Forwarded(t) \/ ForwardFailed(t) \/ ForwardTimedOut(t)
  PROVE  ForwardInv'
<1>1. CASE Recheck(t) /\ Denied(cur[t][1])
  <2>1. t \in Forwarding
    BY <1>1 DEF Recheck, Forwarding
  <2>2. /\ pc' = [pc EXCEPT ![t] = "ack"] /\ cur' = cur /\ newly' = newly
        /\ inFlight' = inFlight \ {cur[t][1].rid}
        /\ claimed' = Unclaim(t, cur[t][1]) /\ evicted' = evicted /\ succeeded' = succeeded
    BY <1>1 DEF Recheck, GiveUpClaim, Goto
  <2> QED
    BY Zenon, <2>1, <2>2, EndForwardKeeps DEF Labels, ForwardLabels
<1>2. CASE Recheck(t) /\ ~Denied(cur[t][1])
  <2>1. Quiet
    BY <1>2, ThreadNames
    DEF ForwardInv, TypeInv, TypeOK, Recheck, Goto, ledgers, claims, Quiet, ForwardLabels
  <2> QED
    BY SMTT(60), <2>1, QuietKeeps
<1>3. CASE Forwarded(t)
  <2>1. t \in Forwarding
    BY <1>3 DEF Forwarded, Forwarding
  <2>2. /\ pc' = [pc EXCEPT ![t] = "ack"] /\ cur' = cur /\ newly' = newly
        /\ inFlight' = inFlight \ {cur[t][1].rid}
        /\ claimed' = claimed /\ evicted' = evicted \ (claimed \cap {cur[t][1].rid})
        /\ succeeded' = succeeded \cup {cur[t][1].rid}
    BY <1>3 DEF Forwarded, Goto
  <2> QED
    BY Zenon, <2>1, <2>2, EndForwardKeeps DEF Labels, ForwardLabels
<1>4. CASE ForwardFailed(t)
  <2>1. t \in Forwarding
    BY <1>4 DEF ForwardFailed, Forwarding
  <2>2. /\ pc' = [pc EXCEPT ![t] = "ack"] /\ cur' = cur /\ newly' = newly
        /\ inFlight' = inFlight \ {cur[t][1].rid}
        /\ claimed' = Unclaim(t, cur[t][1]) /\ evicted' = evicted /\ succeeded' = succeeded
    BY Zenon, <1>4 DEF ForwardFailed, GiveUpClaim, Goto
  <2> QED
    BY Zenon, <2>1, <2>2, EndForwardKeeps DEF Labels, ForwardLabels
<1>5. CASE ForwardTimedOut(t)
  <2>1. t \in Forwarding
    BY <1>5 DEF ForwardTimedOut, Forwarding
  <2>2. /\ pc' = [pc EXCEPT ![t] = Deferred(t, cur[t])] /\ cur' = cur /\ newly' = newly
        /\ inFlight' = inFlight \ {cur[t][1].rid}
        /\ claimed' = Unclaim(t, cur[t][1]) /\ evicted' = evicted /\ succeeded' = succeeded
    BY Zenon, <1>5 DEF ForwardTimedOut, GiveUpClaim, Goto
  <2>3. Deferred(t, cur[t]) \in Labels \ ForwardLabels
    BY DEF Deferred, requeueToRetryTopic, Labels, ForwardLabels
  <2> QED
    BY Zenon, <2>1, <2>2, <2>3, EndForwardKeeps
<1> QED
  BY <1>1, <1>2, <1>3, <1>4, <1>5

\* A restarted process forwards nothing and remembers no claim.
LEMMA CrashKeeps ==
  ASSUME TypeInv', Crash
  PROVE  ForwardInv'
<1>1. Forwarding' = {}
  BY ThreadNames DEF Crash, FreshPC, Forwarding
<1>2. inFlight' = {} /\ claimed' = {} /\ evicted' = {} /\ succeeded' = {}
  BY DEF Crash
<1> QED
  BY <1>1, <1>2
  DEF ForwardInv, OneForwardPerResource, LockHeldOnlyWhileForwarding, ClaimOutlivesForward,
      NewClaimIsFirst

\* A new process forwards nothing and has claimed nothing.
LEMMA InitForward == Init => ForwardInv
<1> SUFFICES ASSUME Init PROVE ForwardInv
  OBVIOUS
<1>1. Forwarding = {} /\ inFlight = {} /\ claimed = {} /\ succeeded = {}
  BY ThreadNames DEF Init, FreshPC, Forwarding
<1> QED
  BY <1>1, InitType
  DEF ForwardInv, OneForwardPerResource, LockHeldOnlyWhileForwarding, ClaimOutlivesForward,
      NewClaimIsFirst

\* Every step of the request path keeps the invariant of the in-flight lock.
LEMMA NextForward == ForwardInv /\ [Next]_vars => ForwardInv'
<1> SUFFICES ASSUME ForwardInv, [Next]_vars PROVE ForwardInv'
  OBVIOUS
<1>1. TypeInv /\ TypeInv'
  BY NextType DEF ForwardInv
<1>2. CASE UNCHANGED vars
  <2>1. Quiet
    BY <1>2 DEF vars, threads, ledgers, claims, outside, Quiet
  <2> QED
    BY <1>1, <2>1, QuietKeeps
<1>3. ASSUME NEW t \in Workers, WorkerStep(t)
      PROVE  ForwardInv'
  BY <1>1, <1>3, QuietHandler, QuietKeeps, LockKeeps, ForwardStepKeeps DEF WorkerStep, HandleStep
<1>4. CASE CancelStep \/ BootStep \/ \E t \in Trans : TransitionStep(t)
  BY <1>1, <1>4, QuietOthers, QuietKeeps
<1>5. CASE Crash
  BY <1>1, <1>5, CrashKeeps
<1>6. CASE \/ \E q \in Requests : Send(q)
           \/ \E ty \in Types : ClaimType(ty)
           \/ \E ty \in Types, to \in {"unhealthy", "ready", "unavailable"} :
                HealthTransition(ty, to)
           \/ \E i \in held : Redeliver(i)
           \/ \E ty \in Types : TrackType(ty)
           \/ handleMainMessage \/ TermMain
  BY <1>1, <1>6, QuietEnvironment, QuietKeeps
<1> QED
  BY <1>2, <1>3, <1>4, <1>5, <1>6 DEF Next, Environment

\* Lock, claim and newlyAdded agree with the forwards in progress, always.
LEMMA ForwardInvariant == Spec => []ForwardInv
BY InitForward, NextForward, PTL DEF Spec

\* The main consumer, the restart drain and any number of transition goroutines
\* never call an SP for the same resource at the same time.
THEOREM ForwardsExclusive == Spec => []OneForwardPerResource
BY ForwardInvariant, PTL DEF ForwardInv

\* No return path of forwardWithRetry or forwardRequest leaks the in-flight lock.
THEOREM LockNotLeaked == Spec => []LockHeldOnlyWhileForwarding
BY ForwardInvariant, PTL DEF ForwardInv

\* For a claimed-resources set of any capacity, a resource being forwarded, or
\* forwarded successfully by this process, stays claimed whatever later forwards
\* of it do, unless the full set evicted it to make room for another resource.
THEOREM ClaimKept == Spec => []ClaimOutlivesForward
BY ForwardInvariant, PTL DEF ForwardInv

=============================================================================
