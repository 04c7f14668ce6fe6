---------------------------- MODULE CancelHandler ----------------------------
(***************************************************************************)
(* Router.HandleCancel and purgeFromRetryTopic, run by handleCancelMessage *)
(* on the cancel consumer's thread: first from drainCancelTopic while the  *)
(* client is still setting up (phase "cancel", no JetStream context yet),  *)
(* later from the live consumer (phase "live").                            *)
(***************************************************************************)
EXTENDS RequestHandler

\* c.js is set once drainCancelTopic has returned.
JSReady == phase # "cancel"

\* publishCE on the cancel path: without a JetStream context every publish
\* fails, and is only logged.  settled are outcomes of other requests.
AnswerCancel(q, o, settled) ==
  \/ JSReady /\ hist' = hist \cup {<<q, o>>} \cup settled /\ NoFault
  \/ JSReady /\ Fault("ce") /\ hist' = hist \cup {<<q, "unreported">>} \cup settled
  \/ ~JSReady /\ hist' = hist \cup {<<q, "unreported">>} \cup settled /\ NoFault

\* Mutant: a cancel for a claimed resource is nacked until the claim is gone.
HandleCancelWaits ==
  /\ phase \in {"cancel", "live"}
  /\ pc["cancel"] = "idle"
  /\ \E i \in FetchTopic({"cancel"}) :
       /\ held' = held \cup {i}
       /\ cur' = [cur EXCEPT !["cancel"] = i]
       /\ Goto("cancel", IF i[1].rid \in claimed THEN "nak" ELSE "deny")
  /\ UNCHANGED <<sent, stored, delivered, health, phase, batch, newly, serving, ledgers, outside,
                 faults>>

\* A cancel is delivered.  An invalid one is answered with an error, one for a
\* claimed resource is rejected; any other is on its way to the deny list.
HandleCancel ==
  /\ phase \in {"cancel", "live"}
  /\ pc["cancel"] = "idle"
  /\ \E i \in FetchTopic({"cancel"}) :
       LET q == i[1] IN
       /\ held' = held \cup {i}
       /\ cur' = [cur EXCEPT !["cancel"] = i]
       /\ \/ /\ q.svc = NoType
             /\ AnswerCancel(q, "error", {})
             /\ Goto("cancel", "ack")
             /\ UNCHANGED order
          \/ /\ q.svc # NoType /\ q.rid \in claimed
             /\ AnswerCancel(q, "rejected", {})
             /\ order' = UsedLast(claimed, q.rid)
             /\ Goto("cancel", "ack")
          \/ /\ q.svc # NoType /\ q.rid \notin claimed
             /\ Goto("cancel", "deny")
             /\ UNCHANGED <<order, hist, faults>>
  /\ UNCHANGED <<sent, stored, delivered, health, phase, batch, newly, serving, deny, claimed,
                 evicted, inFlight, spHas, succeeded>>

\* denyList.Add.
CancelDeny ==
  /\ pc["cancel"] = "deny"
  /\ deny' = deny \cup {cur["cancel"][1].rid}
  /\ Goto("cancel", "fetch")
  /\ UNCHANGED <<sent, broker, health, phase, cur, batch, newly, serving, claims, inFlight,
                 outside, faults>>

\* FetchRetryMessages: nothing without a JetStream context; what was fetched so
\* far when its deadline passes; a fetch error leaves that unsettled.
CancelFetch ==
  LET items == IF JSReady THEN FetchRetry ELSE {} IN
  /\ pc["cancel"] = "fetch"
  /\ \/ /\ \E got \in SUBSET items :
             /\ Fetched(got, items)
             /\ held' = held \cup got
             /\ batch' = [batch EXCEPT !["cancel"] = got]
        /\ Goto("cancel", "purge")
     \/ /\ JSReady /\ Fault("fetch")
        /\ \E some \in SUBSET items : held' = held \cup some
        /\ Goto("cancel", "nak")
        /\ UNCHANGED batch
  /\ UNCHANGED <<sent, stored, delivered, health, phase, cur, newly, serving, ledgers, outside>>

\* Ack the items of the cancelled resource and Nak the others, then answer.  An
\* Ack or Nak error aborts the purge part-way.
CancelPurge ==
  LET q    == cur["cancel"][1]
      mine == {i \in batch["cancel"] : i[1].rid = q.rid}
      purged(items) == {<<i[1], "purged">> : i \in items}
  IN
  /\ pc["cancel"] = "purge"
  /\ \/ /\ stored' = stored \ mine
        /\ held' = held \ mine
        /\ AnswerCancel(q, "cancelAcked", purged(mine))
        /\ Goto("cancel", "ack")
     \/ /\ batch["cancel"] # {} /\ Fault("ack")
        /\ \E some \in SUBSET mine :
             /\ stored' = stored \ some
             /\ held' = held \ some
             /\ hist' = hist \cup purged(some)
        /\ Goto("cancel", "nak")
  /\ batch' = [batch EXCEPT !["cancel"] = {}]
  /\ UNCHANGED <<sent, delivered, health, phase, cur, newly, serving, ledgers, spHas, succeeded>>

CancelStep ==
  HandleCancel \/ CancelDeny \/ CancelFetch \/ CancelPurge \/ Ack("cancel") \/ Nak("cancel")

=============================================================================
