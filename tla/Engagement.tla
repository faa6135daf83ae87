------------------------------- MODULE Engagement -------------------------------
(***************************************************************************)
(* A lead under automation: the conversation engine, the follow-up engine, *)
(* the recording of replies (processInbound of messaging-events.ts, in     *)
(* detail in module Messaging) and the takeover and resume routes          *)
(* (processors/takeover.ts of the worker), over the rows they share.  One   *)
(* takeover or resume transaction runs at a time.                          *)
(***************************************************************************)
EXTENDS Conversation, Workflow

Inactive == UNCHANGED <<qualifiedAt, answers, sent, handoff, wk>>

-----------------------------------------------------------------------------
(* What reaches the lead from outside.                                     *)

(* The first touch of module Messaging: the lead is contacted and has a    *)
(* conversation.                                                           *)
FirstTouch ==
    /\ state = "new"
    /\ state' = "contacted"
    /\ convo' = IF convo = "none" THEN "active" ELSE convo
    /\ UNCHANGED <<previous, suppressed, lastIn, flows, queueVars, others, faults, history>>
    /\ Inactive

(* processInbound on a reply reads the lead and, last of all, adds the     *)
(* reply's job, before it commits.                                         *)
InboundOpens(m) ==
    /\ Event
    /\ inbound[m].pc = "none"
    /\ CanTransition(state, IF state = "new" THEN "engaged" ELSE state)
    /\ inbound' = [inbound EXCEPT ![m] = [pc |-> "open", state |-> state]]
    /\ Q!Add(Conv(m))
    /\ UNCHANGED <<lead, flows, handoff, wk, desk, faults, history>>

InboundCommits(m) ==
    /\ inbound[m].pc = "open"
    /\ inbound' = [inbound EXCEPT ![m] = [NoTx EXCEPT !.pc = "done"]]
    /\ lastIn' = "reply"
    /\ convo' = IF convo = "none" THEN "active" ELSE convo
    /\ state' = IF inbound[m].state = "contacted" THEN "engaged" ELSE state
    /\ UNCHANGED <<previous, suppressed, flows, queueVars, desk, events, faults, history>>
    /\ Inactive

(* The commit fails; the job stays. *)
InboundAborts(m) ==
    /\ Fault
    /\ inbound[m].pc = "open"
    /\ inbound' = [inbound EXCEPT ![m] = [NoTx EXCEPT !.pc = "lost"]]
    /\ UNCHANGED <<lead, flows, handoff, queueVars, wk, desk, events, history>>

(* processInbound on STOP: handleOptOut suppresses the phone and moves the *)
(* lead; it neither pauses the conversation nor stops a run.               *)
InboundStop ==
    /\ Event
    /\ CanTransition(state, "opted_out")
    /\ state' = "opted_out"
    /\ suppressed' = TRUE
    /\ lastIn' = "stop"
    /\ convo' = IF convo = "none" THEN "active" ELSE convo
    /\ UNCHANGED <<previous, flows, queueVars, inbound, desk, faults, history>>
    /\ Inactive

(* A trigger asks for the workflow. *)
Triggered(t) ==
    /\ Event
    /\ jobState[Start(t)] = "absent"
    /\ Q!Add(Start(t))
    /\ UNCHANGED <<lead, flows, handoff, wk, inbound, desk, faults, history>>

(* Other components move the lead. *)
LeadMoves(s) ==
    /\ state # s
    /\ CanTransition(state, s)
    /\ state' = s
    /\ UNCHANGED <<previous, convo, suppressed, lastIn, flows, queueVars, others, faults, history>>
    /\ Inactive

-----------------------------------------------------------------------------
(* takeoverLead and resumeLead.                                            *)

TakeoverBegin ==
    /\ Event
    /\ desk.pc = "none"
    /\ state # "opted_out"
    /\ desk' = [pc |-> "takeover", state |-> state]
    /\ UNCHANGED <<lead, flows, handoff, queueVars, wk, inbound, faults, history>>

(* Mutant: the state is remembered again although the lead is owned. *)
RememberAlways ==
    /\ desk.pc = "takeover"
    /\ CanTransition(desk.state, "human_owned")
    /\ desk' = NoTx
    /\ state' = "human_owned" /\ previous' = desk.state
    /\ convo' = IF convo = "active" THEN "paused" ELSE convo
    /\ unpaused' = (unpaused \/ convo = "none")
    /\ runs' = [r \in Runs |-> IF RunNow(r, "running") THEN [runs[r] EXCEPT !.status = "stopped"]
                               ELSE runs[r]]
    /\ before' = IF desk.state = "human_owned" THEN before
                 ELSE IF state = desk.state THEN state ELSE None
    /\ UNCHANGED <<suppressed, lastIn, rows, queueVars, inbound, events, faults,
                   fate, doubled, raced>>
    /\ Inactive

(* Mutant: the AI is not paused. *)
TakeWithoutPause ==
    /\ desk.pc = "takeover"
    /\ CanTransition(desk.state, "human_owned")
    /\ desk' = NoTx
    /\ state' = "human_owned" /\ previous' = desk.state
    /\ UNCHANGED <<convo, suppressed, lastIn, flows, queueVars, inbound, events, faults, history>>
    /\ Inactive

(* Pauses the AI if there is a conversation, stops the running runs, and   *)
(* unless the lead was owned when read takes it and remembers that state.  *)
TakeoverCommit ==
    /\ desk.pc = "takeover"
    /\ CanTransition(desk.state, "human_owned")
    /\ desk' = NoTx
    /\ convo' = IF convo = "active" THEN "paused" ELSE convo
    /\ unpaused' = (unpaused \/ convo = "none")
    /\ runs' = [r \in Runs |-> IF RunNow(r, "running") THEN [runs[r] EXCEPT !.status = "stopped"]
                               ELSE runs[r]]
    /\ IF desk.state # "human_owned"
       THEN /\ state' = "human_owned" /\ previous' = desk.state
            /\ before' = IF state = desk.state THEN state ELSE None
       ELSE UNCHANGED <<state, previous, before>>
    /\ UNCHANGED <<suppressed, lastIn, rows, queueVars, inbound, events, faults,
                   fate, doubled, raced>>
    /\ Inactive

ResumeBegin ==
    /\ Event
    /\ desk.pc = "none"
    /\ state = "human_owned"
    /\ desk' = [pc |-> "resume", state |-> state]
    /\ UNCHANGED <<lead, flows, handoff, queueVars, wk, inbound, faults, history>>

(* The state a resumed lead goes back to. *)
ResumeTo == IF previous = None THEN "engaged" ELSE previous

ResumeCommit ==
    /\ desk.pc = "resume"
    /\ CanTransition("human_owned", ResumeTo)
    /\ desk' = NoTx
    /\ convo' = IF convo = "paused" THEN "active" ELSE convo
    /\ state' = ResumeTo
    /\ UNCHANGED <<previous, suppressed, lastIn, flows, queueVars, inbound, events, faults, history>>
    /\ Inactive

(* An illegal transition throws, and the transaction is rolled back. *)
DeskThrows ==
    /\ \/ desk.pc = "takeover" /\ ~CanTransition(desk.state, "human_owned")
       \/ desk.pc = "resume" /\ ~CanTransition("human_owned", ResumeTo)
    /\ desk' = NoTx
    /\ UNCHANGED <<lead, flows, handoff, queueVars, wk, inbound, events, faults, history>>

Desk == TakeoverCommit \/ ResumeCommit \/ DeskThrows

-----------------------------------------------------------------------------
(* Executions end.                                                         *)

Leave(w) == wk' = [wk EXCEPT ![w] = Idle]

Finish(w) ==
    /\ wk[w].pc = "done"
    /\ Q!Complete(w, wk[w].job)
    /\ Leave(w)
    /\ fate' = [m \in Replies |-> IF wk[w].job = Conv(m) /\ holder[Conv(m)] = w
                                  THEN wk[w].found ELSE fate[m]]
    /\ UNCHANGED <<lead, flows, handoff, others, faults, before, unpaused, doubled, raced>>

(* An illegal transition, or an error of the database, Redis or the model. *)
Throw(w) ==
    /\ \/ ConversationThrows(w) /\ UNCHANGED faults
       \/ wk[w].pc \notin {"idle", "done"} /\ Fault
    /\ Q!Reject(w, wk[w].job)
    /\ Leave(w)
    /\ UNCHANGED <<lead, flows, handoff, others, history>>

(* The worker process dies. *)
Crash(w) ==
    /\ Fault /\ wk[w].pc # "idle"
    /\ Leave(w)
    /\ UNCHANGED <<lead, flows, handoff, queueVars, others, history>>

(* The stalled-job check. *)
Orphaned(j) == jobState[j] = "active" /\ \A w \in Workers : wk[w].job # j

Stall(j) ==
    /\ IF Orphaned(j) THEN UNCHANGED faults ELSE Fault
    /\ Q!Stall(j)
    /\ UNCHANGED <<lead, flows, handoff, wk, others, history>>

-----------------------------------------------------------------------------
Takes(w, j) ==
    \/ \E m \in Replies : j = Conv(m) /\ ConversationBegin(w, m)
    \/ \E t \in Triggers : j = Start(t) /\ StartBegin(w, t)
    \/ \E r \in Runs, k \in 1..Len(Steps) : j = Step(r, k) /\ AdvanceBegin(w, r, k)

Proceeds(w) == ConversationStep(w) \/ WorkflowStep(w) \/ Finish(w) \/ Throw(w)

Environment ==
    \/ FirstTouch \/ InboundStop
    \/ \E m \in Replies : InboundOpens(m) \/ InboundCommits(m) \/ InboundAborts(m)
    \/ \E t \in Triggers : Triggered(t)
    \/ \E s \in Moves : LeadMoves(s)
    \/ TakeoverBegin \/ ResumeBegin \/ Desk
    \/ \E w \in Workers : Crash(w)
    \/ \E j \in Jobs : Stall(j)

Next == Environment \/ \E w \in Workers : Proceeds(w) \/ \E j \in Jobs : Takes(w, j)

Spec == Init /\ [][Next]_vars

(* As in Messaging and Booking; a transaction that is open also ends.      *)
Fairness ==
    /\ \A w \in Workers : WF_vars(Proceeds(w))
    /\ \A j \in Jobs : SF_vars(\E w \in Workers : Takes(w, j))
    /\ \A j \in Jobs : WF_vars(Orphaned(j) /\ Stall(j))
    /\ \A m \in Replies : WF_vars(InboundCommits(m))
    /\ WF_vars(Desk)

FairSpec == Spec /\ Fairness

-----------------------------------------------------------------------------
(* Properties.                                                             *)

(* "Every run and step is persisted", and the counter, not the job, says   *)
(* which step is next: whatever is retried, a run whose executions did not *)
(* overlap has executed each step below its counter once and none above.   *)
StepsOnceInOrder ==
    \A r \in Runs \ doubled, k \in 1..Len(Steps) : rows[r][k] = IF k <= runs[r].step THEN 1 ELSE 0

(* "One active run per (lead, workflow)": unless two starts overlapped.    *)
OneRunningRun == raced \/ \A r, q \in Runs : RunNow(r, "running") /\ RunNow(q, "running") => r = q

(* A lead the desk took is given back where it was: no second takeover and *)
(* no workflow or reply in between overwrites the remembered state.  (A    *)
(* takeover that read the lead too early, and one by the AI, remember      *)
(* another state or none.)                                                 *)
PreviousIsRemembered == state = "human_owned" /\ before # None => previous = before

(* A qualified lead has been handed to routing and to the CRM, at whatever *)
(* step the process died.                                                  *)
QualifiedIsHandedOff == qualifiedAt => handoff = {"assign", "crm"}

Inserts(w, key) == wk[w].key = key /\ key \notin sent /\ key \in sent' /\ wk'[w].pc = "done"

(* "Human takeover pauses automation", and STOP ends it: an execution that *)
(* began after the lead was taken over, opted out, booked or closed sends  *)
(* no follow-up; one that began after the opt-out sends at most the fixed  *)
(* fallback text; one that began after a takeover sends nothing, unless    *)
(* the takeover found no conversation to pause.                            *)
AutomationStops ==
    [][\A w \in Workers, key \in Keys : Inserts(w, key) =>
          /\ key \in {<<"step", k>> : k \in 1..Len(Steps)} => wk[w].state \notin StopStates
          /\ wk[w].state = "opted_out" => key = <<"uncertainty">>
          /\ wk[w].state = "human_owned" => unpaused]_vars

Committed(w) == wk[w].pc = "converse" /\ wk'[w].pc = "done"

(* A person keeps the lead they took until they give it back, the lead     *)
(* opts out or another component moves it; or a transaction that read the  *)
(* lead before the takeover overwrites it, or the takeover found nothing   *)
(* to pause.                                                               *)
TakeoverHolds ==
    [][state = "human_owned" /\ state' # "human_owned" =>
          \/ desk.pc = "resume" /\ desk'.pc = "none"
          \/ state' \in Moves \cup {"opted_out"}
          \/ \E m \in Replies : inbound[m].pc = "open" /\ inbound'[m].pc = "done"
                                /\ inbound[m].state # "human_owned"
          \/ \E w \in Workers : Committed(w) /\ (wk[w].state # "human_owned" \/ unpaused)]_vars

(* What a lead has answered is not lost: an answer disappears only when a  *)
(* conversation writes over one that came after it read them.              *)
AnswersKept ==
    [][~(answers \subseteq answers') =>
          \E w \in Workers : Committed(w) /\ wk[w].facts # answers]_vars

(* "No follow-up disappears silently": a run ends, or a job of it is dead- *)
(* lettered, or two executions of it overlapped.                           *)
RunEnds ==
    \A r \in Runs : RunNow(r, "running") ~>
        \/ ~RunNow(r, "running")
        \/ r \in doubled
        \/ \E j \in StartJobs \cup {Step(r, k) : k \in 1..Len(Steps)} : jobState[j] = "failed"

(* No reply is forgotten: the job of a recorded reply is in the queue or   *)
(* dead-lettered, or was completed by an execution that had the reply      *)
(* among the messages it read and decided on it, that read the AI paused   *)
(* after the reply was recorded, or that read before it was recorded.  An  *)
(* execution of the last two kinds that lost the job excuses nothing.      *)
NoReplyForgotten ==
    \A m \in Replies : inbound[m].pc = "done" =>
        \/ jobState[Conv(m)] \in {"waiting", "active", "failed"}
        \/ jobState[Conv(m)] = "completed" /\ fate[m] \in Found

=============================================================================
