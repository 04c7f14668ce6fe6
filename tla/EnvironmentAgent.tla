-------------------------- MODULE EnvironmentAgent --------------------------
(***************************************************************************)
(* The request path of the environment agent as one system: the control    *)
(* plane and the broker (external), messaging.Client's start-up and main   *)
(* consumer, Router, retry.Processor, and provider health as it reaches    *)
(* routing.                                                                *)
(***************************************************************************)
EXTENDS RetryProcessor

TypeOK ==
  /\ sent \subseteq Requests
  /\ stored \subseteq Items
  /\ held \subseteq Items
  /\ delivered \in [Requests -> 0 .. MaxDeliver]
  /\ status \in [Types -> Statuses]
  /\ flips \in 0 .. MaxFlips
  /\ phase \in Phases
  /\ pc \in [Threads -> Labels]
  /\ cur \in [Threads -> Items \cup {NoItem}]
  /\ batch \in [Threads -> SUBSET Items]
  /\ newly \in [Threads -> BOOLEAN]
  /\ serving \in [Trans -> Types \cup {NoType}]
  /\ deny \subseteq Resources
  /\ claimed \subseteq Resources
  /\ order \subseteq Resources \X Resources
  /\ evicted \subseteq Resources
  /\ inFlight \subseteq Resources
  /\ spHas \subseteq Resources
  /\ hist \subseteq Requests \X Outcomes
  /\ succeeded \subseteq Resources
  /\ faults \in 0 .. MaxFaults

\* The setup goroutine of a new process is the only thread with work to do.
FreshPC == [t \in Threads |-> IF t = "boot" THEN "fetch" ELSE "idle"]

\* LoadPersisted restores external providers as Unhealthy; embedded ones are
\* registered later.
Init ==
  /\ sent = {}
  /\ stored = {}
  /\ held = {}
  /\ delivered = [q \in Requests |-> 0]
  /\ status \in {s \in [Types -> {"none", "unhealthy"}] : \A ty \in Embedded : s[ty] = "none"}
  /\ flips = 0
  /\ phase = "cancel"
  /\ pc = FreshPC
  /\ cur = [t \in Threads |-> NoItem]
  /\ batch = [t \in Threads |-> {}]
  /\ newly = [t \in Threads |-> FALSE]
  /\ serving = [t \in Trans |-> NoType]
  /\ deny = {} /\ claimed = {} /\ order = {} /\ evicted = {} /\ inFlight = {}
  /\ spHas = {} /\ hist = {} /\ succeeded = {}
  /\ faults = 0

-----------------------------------------------------------------------------
(* The control plane and the broker.                                       *)

\* The control plane deletes or cancels a resource only after asking for it.
Send(q) ==
  /\ q \notin sent
  /\ q.kind \in {"delete", "cancel"} =>
       \A c \in Requests : c.kind = "create" /\ c.rid = q.rid => c \in sent
  /\ sent' = sent \cup {q}
  /\ stored' = stored \cup {<<q, 0>>}
  /\ UNCHANGED <<held, delivered, health, phase, threads, ledgers, outside, faults>>

\* AckWait or the Nak delay of an item no thread owns has passed.  The item a
\* thread is handling was heartbeated and its handler deadline is below
\* AckWait; the items waiting in a batch, or being dropped as a pair, were
\* heartbeated only once.
Redeliver(i) ==
  /\ i \in held
  /\ \/ i \notin Owned /\ NoFault
     \/ /\ i \in Owned
        /\ \A t \in Threads : cur[t] = i => pc[t] \in {"pair", "deleted"}
        /\ Fault("ackwait")
  /\ held' = held \ {i}
  /\ UNCHANGED <<sent, stored, delivered, health, phase, threads, ledgers, outside>>

-----------------------------------------------------------------------------
(* messaging.Client.                                                       *)

\* drainCancelTopic found no more cancels, or ran out of time; c.js is set.
FinishCancelDrain ==
  /\ phase = "cancel"
  /\ pc["cancel"] = "idle"
  /\ phase' = "recancel"
  /\ UNCHANGED <<sent, broker, health, threads, ledgers, outside, faults>>

\* The main consumer delivers a message, a new one after those published before
\* it and after those due for redelivery.  A delivery whose metadata cannot be
\* read is nacked; one that reaches MaxDeliver is not handed to the router.
handleMainMessage ==
  /\ phase = "live"
  /\ pc["main"] = "idle"
  /\ \E i \in FetchMain :
       /\ delivered[i[1]] = 0 => \A j \in FetchMain : ~Precedes(j, i)
       /\ held' = held \cup {i}
       /\ delivered' = CountDelivery({i})
       /\ cur' = [cur EXCEPT !["main"] = i]
       /\ \/ /\ Goto("main", IF delivered[i[1]] + 1 >= MaxDeliver THEN "term" ELSE "deny")
             /\ NoFault
          \/ Fault("metadata") /\ Goto("main", "nak")
  /\ UNCHANGED <<sent, stored, health, phase, batch, newly, serving, ledgers, outside>>

\* Mutant: the error is published and the message is left alone.
TermMainWithoutTerm ==
  /\ pc["main"] = "term"
  /\ publishCE(cur["main"][1], "maxdeliver")
  /\ cur' = [cur EXCEPT !["main"] = NoItem]
  /\ Goto("main", "idle")
  /\ UNCHANGED <<sent, broker, health, phase, batch, newly, serving, ledgers, spHas, succeeded>>

\* publishMaxDeliverError, then Term, which may fail.
TermMain ==
  LET q == cur["main"][1] IN
  /\ pc["main"] = "term"
  /\ \/ /\ publishCE(q, "maxdeliver")
        /\ stored' = stored \ {cur["main"]}
        /\ held' = held \ {cur["main"]}
     \/ /\ Fault("ack")
        /\ hist' = hist \cup {<<q, "maxdeliver">>}
        /\ UNCHANGED <<stored, held>>
  /\ cur' = [cur EXCEPT !["main"] = NoItem]
  /\ Goto("main", "idle")
  /\ UNCHANGED <<sent, delivered, health, phase, batch, newly, serving, ledgers, spHas, succeeded>>

-----------------------------------------------------------------------------
(* Provider registration and health, as routing sees them.                 *)

\* registry.Claim and store.Save by a registration: found by Lookup and
\* GetByName, not yet by GetState.
ClaimType(ty) ==
  /\ status[ty] = "none"
  /\ status' = [status EXCEPT ![ty] = "untracked"]
  /\ UNCHANGED <<sent, broker, flips, phase, threads, ledgers, outside, faults>>

\* A goroutine runs ProcessOnTransition, which has nothing to do for Unhealthy.
RunTransition(ty, to) ==
  \/ to = "unhealthy" /\ UNCHANGED <<pc, serving>>
  \/ /\ to \in {"ready", "unavailable"}
     /\ \E t \in Trans :
          /\ pc[t] = "idle"
          /\ Goto(t, "fetch")
          /\ serving' = [serving EXCEPT ![t] = ty]

\* Tracking starts.  An external SP starts as Unhealthy.  An embedded SP starts
\* as Ready, but its state is published only after its initial check: no
\* transition when the check leaves it Ready.
TrackType(ty) ==
  /\ status[ty] = "untracked"
  /\ \E st \in {"ready", "unhealthy", "unavailable"} :
       /\ status' = [status EXCEPT ![ty] = st]
       /\ \/ ty \notin Embedded /\ st = "unhealthy" /\ UNCHANGED <<pc, serving>>
          \/ ty \in Embedded /\ st = "ready" /\ UNCHANGED <<pc, serving>>
          \/ ty \in Embedded /\ st # "ready" /\ RunTransition(ty, st)
  /\ UNCHANGED <<sent, broker, flips, phase, cur, batch, newly, ledgers, outside, faults>>

\* A health check changes a provider's status.
HealthTransition(ty, to) ==
  /\ status[ty] \in {"unhealthy", "ready", "unavailable"} \ {to}
  /\ flips < MaxFlips
  /\ flips' = flips + 1
  /\ status' = [status EXCEPT ![ty] = to]
  /\ RunTransition(ty, to)
  /\ UNCHANGED <<sent, broker, phase, cur, batch, newly, ledgers, outside, faults>>

-----------------------------------------------------------------------------
(* Crash and restart.                                                      *)

\* The effect on the SPs when the calls of the threads in S were carried out.
Applied(S) ==
  LET qs == {cur[t][1] : t \in S} IN
  (spHas \cup {q.rid : q \in {p \in qs : p.kind = "create"}})
    \ {q.rid : q \in {p \in qs : p.kind = "delete"}}

\* The process dies and starts again: memory is lost, the streams and the SPs
\* are not.  An SP call in progress may have been carried out.
Crash ==
  /\ Fault("crash")
  /\ pc' = FreshPC
  /\ cur' = [t \in Threads |-> NoItem]
  /\ batch' = [t \in Threads |-> {}]
  /\ newly' = [t \in Threads |-> FALSE]
  /\ serving' = [t \in Trans |-> NoType]
  /\ phase' = "cancel"
  /\ deny' = {} /\ claimed' = {} /\ order' = {} /\ evicted' = {} /\ inFlight' = {}
  /\ succeeded' = {}
  /\ status' = [ty \in Types |-> IF ty \in Embedded \/ status[ty] = "none"
                                 THEN "none" ELSE "unhealthy"]
  /\ \E S \in SUBSET {t \in Workers : pc[t] = "dispatch"} : spHas' = Applied(S)
  /\ UNCHANGED <<sent, broker, flips, hist>>

-----------------------------------------------------------------------------

BootStep ==
  \/ FinishCancelDrain
  \/ drainCancelsToDenyList \/ drainMainTopic \/ drainRetryTopicWithDedup
  \/ EndDrain

TransitionStep(t) == FetchOnTransition(t) \/ EndTransition(t)

WorkerStep(t) == DedupStep(t) \/ HandleStep(t) \/ Ack(t) \/ Nak(t)

Environment ==
  \/ \E q \in Requests : Send(q)
  \/ \E ty \in Types : ClaimType(ty)
  \/ \E ty \in Types, to \in {"unhealthy", "ready", "unavailable"} : HealthTransition(ty, to)
  \/ Crash

Next ==
  \/ Environment
  \/ \E i \in held : Redeliver(i)
  \/ \E ty \in Types : TrackType(ty)
  \/ BootStep
  \/ handleMainMessage \/ TermMain
  \/ CancelStep
  \/ \E t \in Trans : TransitionStep(t)
  \/ \E t \in Workers : WorkerStep(t)

Spec == Init /\ [][Next]_vars

=============================================================================
