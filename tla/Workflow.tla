-------------------------------- MODULE Workflow --------------------------------
(***************************************************************************)
(* The follow-up engine: processWorkflow of                                *)
(* apps/worker/src/processors/workflow.ts over one definition of           *)
(* packages/core/src/workflow.ts.  A trigger starts a run; each step job   *)
(* executes the step the run is at, whatever step it was added for, and    *)
(* adds the next one before its commit.                                    *)
(***************************************************************************)
EXTENDS EngagementState

RunNow(r, status) == runs[r].status = status

-----------------------------------------------------------------------------
(* startRun.                                                               *)

Running == {r \in Runs : RunNow(r, "running")}

NewRun == CHOOSE r \in Runs : RunNow(r, "none")

(* Another start has looked and not yet inserted. *)
Overlaps ==
    /\ raced' = (raced \/ \E u \in Workers : wk[u].pc = "create")
    /\ UNCHANGED <<lead, flows, handoff, others, faults,
                   before, unpaused, fate, doubled>>

(* Mutant: every trigger starts a run. *)
StartAnother(w, t) ==
    /\ wk[w].pc = "idle"
    /\ Q!Take(w, Start(t))
    /\ wk' = [wk EXCEPT ![w] = [Idle EXCEPT !.job = Start(t), !.pc = "create"]]
    /\ Overlaps

(* Mutant: a start that finds a running run leaves it alone. *)
StartSkips(w, t) ==
    /\ wk[w].pc = "idle"
    /\ Q!Take(w, Start(t))
    /\ wk' = [wk EXCEPT ![w] = [Idle EXCEPT !.job = Start(t),
                                          !.pc = IF Running = {} THEN "create" ELSE "done"]]
    /\ Overlaps

(* Looks for a running run: one active run per lead and workflow. *)
StartBegin(w, t) ==
    /\ wk[w].pc = "idle"
    /\ Q!Take(w, Start(t))
    /\ IF Running = {}
       THEN wk' = [wk EXCEPT ![w] = [Idle EXCEPT !.job = Start(t), !.pc = "create"]]
       ELSE \E r \in Running :
               wk' = [wk EXCEPT ![w] =
                        [Idle EXCEPT !.job = Start(t), !.pc = "schedule", !.run = r]]
    /\ Overlaps

(* Inserts a run; no index keeps a second one out. *)
StartCommit(w) ==
    /\ wk[w].pc = "create"
    /\ \E r \in Runs : RunNow(r, "none")
    /\ runs' = [runs EXCEPT ![NewRun].status = "running"]
    /\ wk' = [wk EXCEPT ![w].pc = "schedule", ![w].run = NewRun]
    /\ UNCHANGED <<lead, rows, handoff, queueVars, others, faults, history>>

(* After the commit, adds the first step's job, of a run that was found too. *)
ScheduleFirst(w) ==
    /\ wk[w].pc = "schedule"
    /\ Q!Add(Step(wk[w].run, 1))
    /\ Done(w)
    /\ UNCHANGED <<lead, flows, handoff, others, faults, history>>

-----------------------------------------------------------------------------
(* advanceRun.  The step after idx is stepAt(def, idx).                    *)

(* Mutant: a step runs although the lead is in a stop state. *)
NeverStops(s) == FALSE

(* shouldStop. *)
ShouldStop(s) == s \in StopStates

AtEnd(idx) == idx >= Len(Steps)

(* A step's job comes back from its delay long after the transaction that  *)
(* added it has ended.                                                     *)
Due(r, k) == \A w \in Workers : wk[w].pc = "advance" /\ wk[w].run = r => wk[w].idx + 2 # k

(* Reads the run and the lead, and decides. *)
AdvanceBegin(w, r, k) ==
    /\ wk[w].pc = "idle"
    /\ Due(r, k)
    /\ Q!Take(w, Step(r, k))
    /\ LET seen == [Idle EXCEPT !.job = Step(r, k)]
           idx  == runs[r].step
       IN wk' = [wk EXCEPT ![w] =
             IF ~RunNow(r, "running") THEN [seen EXCEPT !.pc = "done"]
             ELSE IF ShouldStop(state) THEN [seen EXCEPT !.pc = "stop", !.run = r]
             ELSE IF AtEnd(idx) THEN [seen EXCEPT !.pc = "complete", !.run = r]
             ELSE IF Steps[idx + 1] = "stop" THEN [seen EXCEPT !.pc = "complete", !.run = r]
             ELSE [seen EXCEPT !.pc = "gate", !.run = r, !.idx = idx, !.state = state]]
    /\ doubled' = IF \E u \in Workers : wk[u].run = r /\ wk[u].job \in StepJobs
                  THEN doubled \cup {r} ELSE doubled
    /\ UNCHANGED <<lead, flows, handoff, others, faults,
                   before, unpaused, fate, raced>>

(* stopRun and completeRun write the status whatever it is by now. *)
EndRun(w, pc, status) ==
    /\ wk[w].pc = pc
    /\ runs' = [runs EXCEPT ![wk[w].run].status = status]
    /\ Done(w)
    /\ UNCHANGED <<lead, rows, handoff, queueVars, others, faults, history>>

StopRun(w) == EndRun(w, "stop", "stopped")

CompleteRun(w) == EndRun(w, "complete", "completed")

(* executeAction: a send step composes its message if there is a           *)
(* conversation and the gate passes it; a step that sends nothing counts   *)
(* as executed too.                                                        *)
ExecuteAction(w) ==
    LET k == wk[w].idx + 1 IN
    /\ wk[w].pc = "gate"
    /\ wk' = [wk EXCEPT ![w].pc = "next",
                        ![w].key = IF Steps[k] = "send" /\ convo # "none" /\ ~suppressed
                                   THEN <<"step", k>> ELSE None]
    /\ UNCHANGED <<lead, flows, handoff, queueVars, others, faults, history>>

(* The next step's job is added before the commit. *)
ScheduleNext(w) ==
    /\ wk[w].pc = "next"
    /\ IF AtEnd(wk[w].idx + 1) THEN UNCHANGED queueVars
       ELSE Q!Add(Step(wk[w].run, wk[w].idx + 2))
    /\ Goes(w, "advance")
    /\ UNCHANGED <<lead, flows, handoff, others, faults, history>>

(* Mutant: the run's counter stays. *)
AdvanceUncounted(w) ==
    LET r == wk[w].run k == wk[w].idx + 1 IN
    /\ wk[w].pc = "advance"
    /\ Insert(wk[w].key)
    /\ rows' = [rows EXCEPT ![r][k] = @ + 1]
    /\ runs' = [runs EXCEPT ![r].status = IF AtEnd(k) THEN "completed" ELSE @]
    /\ Done(w)
    /\ UNCHANGED <<state, previous, qualifiedAt, convo, suppressed, lastIn, answers,
                   handoff, queueVars, others, faults, history>>

(* The commit: the message, the step's row and the run's counter; the run  *)
(* is completed with its last step.                                        *)
AdvanceCommit(w) ==
    LET r == wk[w].run k == wk[w].idx + 1 IN
    /\ wk[w].pc = "advance"
    /\ Insert(wk[w].key)
    /\ rows' = [rows EXCEPT ![r][k] = @ + 1]
    /\ runs' = [runs EXCEPT ![r].step = k,
                            ![r].status = IF AtEnd(k) THEN "completed" ELSE @]
    /\ Done(w)
    /\ UNCHANGED <<state, previous, qualifiedAt, convo, suppressed, lastIn, answers,
                   handoff, queueVars, others, faults, history>>

WorkflowStep(w) ==
    \/ StartCommit(w)
    \/ ScheduleFirst(w)
    \/ StopRun(w)
    \/ CompleteRun(w)
    \/ ExecuteAction(w)
    \/ ScheduleNext(w)
    \/ AdvanceCommit(w)

=============================================================================
