-------------------------------- MODULE Handoff --------------------------------
(***************************************************************************)
(* Qualified leads handed to routing and to the CRM: modules Assignment    *)
(* and CrmSync on the workers and queues they share.                       *)
(***************************************************************************)
EXTENDS Assignment, CrmSync

(* A job is handed over again: by another complete answer, or a booking.   *)
(* Redis may have forgotten it by then.                                    *)
Requested(j) ==
    /\ jobState[j] # "absent" \/ forgotten[j] > 0
    /\ Q!Add(j)
    /\ UNCHANGED <<leadState, team, crm, wk, faults, history>>

(* Old completed jobs are dropped: of each queue Redis retains the last    *)
(* thousand.                                                               *)
Forgotten(j) ==
    /\ Fault
    /\ Q!Evict(j)
    /\ forgotten' = [forgotten EXCEPT ![j] = @ + 1]
    /\ UNCHANGED <<leadState, team, crm, wk, cut, overtaken, lost, raced, forced, answered,
                   late>>

(* A person takes the lead over. *)
TakenOver(l) ==
    /\ leadState[l] # "human_owned"
    /\ CanTransition(leadState[l], "human_owned")
    /\ leadState' = [leadState EXCEPT ![l] = "human_owned"]
    /\ Answered(l)
    /\ UNCHANGED <<team, crm, queueVars, wk, faults, cut, overtaken, lost, raced, forced, forgotten>>

-----------------------------------------------------------------------------
(* Executions end. *)

Leave(w) == wk' = [wk EXCEPT ![w] = Idle]

Finish(w) ==
    /\ wk[w].pc = "done"
    /\ Q!Complete(w, wk[w].job)
    /\ Leave(w)
    /\ UNCHANGED <<leadState, team, crm, faults, history>>

CutOff(w) ==
    /\ Leave(w)
    /\ cut' = cut \cup {wk[w].job}
    /\ lost' = lost \cup Unrecorded(w)
    /\ UNCHANGED <<leadState, team, crm, overtaken, raced, forced, forgotten, answered, late>>

(* The rethrow, or an error of the database or of Redis; the CRM's are     *)
(* CallFails.                                                              *)
Throw(w) ==
    /\ \/ wk[w].pc = "thrown" /\ UNCHANGED faults
       \/ wk[w].pc \in {"assign", "ladder", "escalate", "failed"} /\ Fault
    /\ Q!Reject(w, wk[w].job)
    /\ CutOff(w)

(* The worker process dies. *)
Crash(w) ==
    /\ Fault /\ wk[w].pc # "idle"
    /\ CutOff(w)
    /\ UNCHANGED queueVars

(* The stalled-job check. *)
Orphaned(j) == jobState[j] = "active" /\ \A w \in Workers : wk[w].job # j

Stall(j) ==
    /\ IF Orphaned(j) THEN UNCHANGED faults ELSE Fault
    /\ Q!Stall(j)
    /\ cut' = cut \cup {j}
    /\ UNCHANGED <<leadState, team, crm, wk, overtaken, lost, raced, forced, forgotten, answered,
                   late>>

-----------------------------------------------------------------------------
Takes(w, j) ==
    \E l \in Leads :
        \/ j = Assign(l) /\ AssignBegin(w, l)
        \/ j = Sync(l) /\ SyncBegin(w, l)
        \/ \E i \in 1..Ladder : j = Esc(l, i) /\ EscalateBegin(w, l, i)

Proceeds(w) == AssignmentStep(w) \/ CrmStep(w) \/ Finish(w) \/ Throw(w)

Environment ==
    \/ \E l \in Attended : Acknowledge(l) \/ TakenOver(l)
    \/ \E l \in Leads : Requested(Assign(l)) \/ Requested(Sync(l))
    \/ \E d \in Deals, type \in {"won", "lost"} : CrmInboundBegin(d, type)
    \/ \E r \in reports : CrmInboundCommit(r)
    \/ \E w \in Workers : Crash(w)
    \/ \E j \in Jobs : Stall(j) \/ Forgotten(j)

Next == Environment \/ \E w \in Workers : Proceeds(w) \/ \E j \in Jobs : Takes(w, j)

Spec == Init /\ [][Next]_vars

(* As in Messaging and Booking. *)
Fairness ==
    /\ \A w \in Workers : WF_vars(Proceeds(w))
    /\ \A j \in Jobs : SF_vars(\E w \in Workers : Takes(w, j))
    /\ \A j \in Jobs : WF_vars(Orphaned(j) /\ Stall(j))

FairSpec == Spec /\ Fairness

-----------------------------------------------------------------------------
(* Properties.                                                             *)

(* A lead gets one primary assignment, however often it is handed over.    *)
(* Another one takes a job that was cut off or threw and ran again, or a   *)
(* completed one that Redis forgot before the next hand-over: no more rows *)
(* than that.                                                              *)
OnePrimary ==
    \A l \in Leads : primaries[l] > 1 + forgotten[Assign(l)] => Assign(l) \in cut

(* No rep is given more leads than their cap, unless two assignments       *)
(* overlapped or there was a lead nobody was eligible for.                 *)
CapRespected == raced \/ forced \/ \A r \in Reps : Load(r) <= Profile[r].cap

(* "A lead is never trapped by one unavailable rep": of an assigned hot    *)
(* lead every step of the ladder is executed, unless it is acknowledged or *)
(* has moved on, or a job of it is dead-lettered.                          *)
HotLeadEscalated ==
    \A l \in Hot : primaries[l] > 0 ~>
        \/ \A i \in 1..Ladder : escalated[l][i] > 0
        \/ acked[l] \/ leadState[l] \notin Waiting
        \/ \E j \in {Assign(l)} \cup {Esc(l, i) : i \in 1..Ladder} : jobState[j] = "failed"

(* Acknowledgement "halts the escalation ladder", for good: once a lead    *)
(* was acknowledged or moved on only a step that was being executed just   *)
(* then escalates it, though the lead be assigned again and its ladder     *)
(* with it.                                                                *)
EscalationHalts ==
    [][\A l \in answered, i \in 1..Ladder : escalated'[l][i] > escalated[l][i]
          => \E w \in late : wk[w].job = Esc(l, i) /\ wk[w].pc = "escalate" /\ wk'[w].pc = "done"]_vars

(* "Retries never duplicate": a lead has a second deal only if an          *)
(* execution ended, by a failure or a crash, between the creation of one   *)
(* and the mapping, or two executions overlapped.                          *)
OneDeal ==
    \A d, e \in Deals : d # e /\ dealOf[d] # None /\ dealOf[d] = dealOf[e]
        => {d, e} \cap lost # {} \/ dealOf[d] \in overtaken

(* A synchronisation that is shown as pending ends: synced, failed or      *)
(* dead-lettered.  (A tenant without a connection keeps the row pending.)  *)
SyncSettles ==
    \A l \in Connected : "pending" \in syncRows[l] ~>
        "pending" \notin syncRows[l] \/ jobState[Sync(l)] = "failed"

=============================================================================
