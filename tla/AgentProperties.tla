--------------------------- MODULE AgentProperties ---------------------------
(***************************************************************************)
(* What the request path promises: safety first, then what it promises to  *)
(* do eventually, then statements of the repository's documents that the   *)
(* code does not keep (each is refuted by a run of its own).               *)
(***************************************************************************)
EXTENDS EnvironmentAgent

Creates == {q \in Requests : q.kind = "create"}
Deletes == {q \in Requests : q.kind = "delete"}
Cancels == {q \in Requests : q.kind = "cancel"}

Had(q, o) == <<q, o>> \in hist

\* Threads inside forwardWithRetry / forwardRequest past the in-flight lock.
Forwarding == {t \in Workers : pc[t] \in {"recheck", "dispatch"}}

\* q has a copy in a stream.  A main-subject copy that used up its deliveries
\* counts, although the broker will not deliver it again.
InStream(q) == \E n \in 0 .. MaxDeliver : <<q, n>> \in stored

\* What the agent may decide about a create or delete it does not keep.
FinalOutcomes ==
  {"forwarded", "error", "denied", "dropped", "paired", "purged", "maxdeliver", "unreported"}

Settled(q) == \E o \in FinalOutcomes : Had(q, o)

-----------------------------------------------------------------------------
(* Safety.                                                                 *)

\* The in-flight lock shared by Router and retry.Processor keeps the main
\* consumer, the restart drain and the transition goroutines from calling an SP
\* for the same resource at the same time (REQ-RTE-210).
OneForwardPerResource ==
  \A t, u \in Forwarding : cur[t][1].rid = cur[u][1].rid => t = u

\* The in-flight set holds exactly the resources being forwarded: no return
\* path of forwardWithRetry or forwardRequest leaks the lock, and a leaked
\* lock would defer every later request for the resource.
LockHeldOnlyWhileForwarding ==
  inFlight = {cur[t][1].rid : t \in Forwarding}

\* A resource whose create or delete is being forwarded, or was forwarded
\* successfully since the process started, is in the claimed-resources set, so
\* HandleCancel rejects its cancel, unless the set was full and evicted it: a
\* failed later forward never takes away the claim of an earlier successful one
\* (REQ-RTE-180, REQ-RTE-200).
ClaimOutlivesForward ==
  /\ succeeded \subseteq claimed \cup evicted
  /\ \A t \in Forwarding : cur[t][1].rid \in claimed \cup evicted

\* A create or delete leaves the streams only once the agent has decided its
\* fate: forwarded, refused, dropped by the deny list, by its pair or by a
\* cancel, or given up after MaxDeliver deliveries.  No ack comes before the
\* decision, across redelivery, failed publishes, lost acks and crashes
\* (REQ-MSG-115).  Whether the control plane hears of the decision is another
\* matter: "unreported" counts, and so does a pair whose DELETED is still to
\* be published.
RemovedOnlySettled ==
  \A q \in sent : q.kind # "cancel" => InStream(q) \/ Settled(q)

\* As long as nothing has failed, the SP holds nothing of a resource whose create
\* and delete dedupCreateDeletePairs drops, whichever threads fetched, forwarded
\* or cancelled before: the create "was never started" (REQ-RCM-110).
PairNeverStarted ==
  [][\A q \in Deletes :
       faults = 0 /\ <<q, "paired">> \in hist' \ hist => q.rid \notin spHas]_vars

-----------------------------------------------------------------------------
(* Liveness.  The agent's threads run, the broker redelivers, embedded SPs  *)
(* get registered; nothing is assumed of the control plane, of health       *)
(* changes, or of faults.                                                   *)

Fairness ==
  /\ \A t \in Workers : WF_vars(WorkerStep(t))
  /\ \A t \in Trans : WF_vars(TransitionStep(t))
  /\ WF_vars(CancelStep)
  /\ WF_vars(BootStep)
  /\ WF_vars(handleMainMessage)
  /\ WF_vars(TermMain)
  /\ \A i \in Items : WF_vars(Redeliver(i))
  /\ \A ty \in Embedded : WF_vars(ClaimType(ty))
  /\ \A ty \in Types : WF_vars(TrackType(ty))

FairSpec == Spec /\ Fairness

\* Every create and delete eventually leaves the main topic: it is settled, or
\* moved to the retry topic, or terminated after MaxDeliver deliveries
\* (REQ-RCM-150).
MainTopicDrains ==
  \A q \in Requests : (q \in sent /\ q.kind # "cancel") ~> <<q, 0>> \notin stored

\* Every cancel is eventually acknowledged to the broker; neither the retry-topic
\* purge nor a forward in flight can hold it back for ever (REQ-MSG-070).
CancelTopicDrains ==
  \A q \in Cancels : q \in sent ~> <<q, 0>> \notin stored

-----------------------------------------------------------------------------
(* Statements of the documents that the code does not keep.                *)

\* REQ-RTE-180: a cancel of a resource that was dispatched to its SP is
\* rejected.  HandleCancel looks at the claimed set before it adds to the deny
\* list, and a forward can claim, recheck and dispatch in between.
AckedCancelNotForwarded ==
  \A x \in Cancels, c \in Creates :
    x.rid = c.rid => ~(Had(x, "cancelAcked") /\ Had(c, "forwarded"))

Answers == {"cancelAcked", "rejected", "error"}

\* REQ-RTE-171: a cancel handled while the client is still setting up is
\* answered.  drainCancelTopic hands it to HandleCancel before c.js is set, so
\* the publish fails and handleCancelMessage acks it all the same.
EarlyCancelAnswered ==
  pc["cancel"] = "ack" => \E o \in Answers : Had(cur["cancel"][1], o)

\* REQ-RTE-171: a cancel that drainCancelsToDenyList takes off the cancel topic
\* is answered.  It is deny-listed and acked, and nothing is published.
DrainedCancelAnswered ==
  [][\A x \in Cancels :
       phase = "recancel" /\ <<x, 0>> \in stored \ stored'
         => \E o \in Answers : <<x, o>> \in hist']_vars

\* REQ-RCM-110: a create dropped with its delete "was never started".  A create
\* that was handed to the SP and is delivered again is dropped all the same.
DroppedPairLeavesNothing ==
  [][\A q \in Deletes : <<q, "dedup">> \in hist' \ hist => q.rid \notin spHas]_vars

\* REQ-RCM-110: the deletion is acknowledged to DCM when dedup occurs.  The pair
\* is acked before DELETED is published.
PairAcknowledged ==
  \A d \in Deletes :
    Had(d, "paired") /\ ~InStream(d)
      => \/ \E o \in {"dedup", "forwarded", "error", "maxdeliver"} : Had(d, o)
         \/ \E t \in Workers : pc[t] = "deleted" /\ cur[t][1] = d

\* REQ-RCM-050: a request whose SP is Unhealthy stays on the retry topic.
UnhealthyStaysQueued ==
  [][\A t \in Workers : pc[t] = "resolve" /\ pc'[t] = "lock"
       => ResolveProvider(cur[t][1].svc) = "ready"]_vars

\* REQ-RCM-060: requests are processed in arrival order, so a create is not
\* forwarded after the delete that followed it.
ArrivalOrder ==
  [][\A c \in Creates, d \in Deletes :
       c.rid = d.rid /\ Had(d, "forwarded") => <<c, "forwarded">> \notin hist' \ hist]_vars

\* REQ-RCM-160: a main-subject message that used up its deliveries is answered
\* with MAX_DELIVERY_EXCEEDED.  A thread that naks the last delivery leaves a
\* message the broker will not deliver again.
ExhaustedIsAnswered ==
  [][\A t \in Workers :
       LET i == cur[t] IN
       Nak(t) /\ ~OnRetry(i) /\ delivered[i[1]] = MaxDeliver
         => Settled(i[1]) \/ \E n \in 1 .. MaxDeliver : <<i[1], n>> \in stored]_vars

\* REQ-RCM-030, REQ-RCM-150: a request leaves the retry topic once its service
\* type has a Ready SP; its stay there is bounded by health transitions.
NothingStrandedWhileReady ==
  \A q \in Creates :
    ~<>[](/\ q.svc # NoType
          /\ ResolveProvider(q.svc) = "ready"
          /\ \E n \in 1 .. MaxDeliver : <<q, n>> \in stored)

=============================================================================
