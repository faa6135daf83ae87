---------------------------- MODULE EngagementState ----------------------------
(***************************************************************************)
(* What the conversation engine, the follow-up workflows and the takeover  *)
(* routes share: the rows of one lead.  Each of them only touches rows of  *)
(* the lead of its job.  Modules Conversation and Workflow add the steps   *)
(* of the processors, module Engagement composes them.                     *)
(*                                                                         *)
(* A transaction is a step that reads, steps that call the model, the gate *)
(* or Redis, and one that commits what it writes.                          *)
(***************************************************************************)
EXTENDS LeadLifecycle, Integers, Sequences, FiniteSets

CONSTANTS Replies,      (* inbound messages that are not STOP               *)
          Triggers,     (* jobs that start the workflow                     *)
          Runs,         (* workflow_runs ids                                *)
          Steps,        (* the actions of the workflow's definition         *)
          Fields,       (* the required fields of the qualification schema  *)
          Turns,        (* the facts an answer of the model may extract     *)
          Workers, None, MaxAttempts, MaxStalls,
          Moves,        (* states other components may move the lead to     *)
          Events,       (* how many messages, triggers, takeovers may come  *)
          Faults        (* how many crashes, stalls and I/O errors may occur *)

ASSUME EngagementAssumption ==
    /\ None \notin Replies \cup Triggers \cup Runs \cup Workers
    /\ Steps \in Seq({"send", "task", "stop"}) /\ Steps # <<>>
    /\ Turns \subseteq SUBSET Fields
    /\ MaxAttempts \in Nat \ {0} /\ MaxStalls \in Nat
    /\ Moves \subseteq {"booked", "lost", "won"}
    /\ Events \in Nat /\ Faults \in Nat

VARIABLES
    state,      (* leads.state                                              *)
    previous,   (* leads.custom_fields.preTakeoverState                     *)
    qualifiedAt,(* whether leads.qualified_at is set                        *)
    convo,      (* the conversation: none yet, active or aiPaused           *)
    suppressed, (* the phone is suppressed and its consent revoked          *)
    lastIn,     (* the last inbound message recorded                        *)
    answers,    (* qualification_answers: the fields answered               *)
    sent,       (* dedupe keys of the outbound messages queued              *)
    runs,       (* workflow_runs: status and current_step                   *)
    rows,       (* workflow_steps: how often a step of a run was executed   *)
    handoff,    (* jobs of the lead added to the routing and CRM queues     *)
    jobState, tries, stalls, holder,
    wk,         (* the execution each worker runs                           *)
    inbound,    (* the transaction that records each reply                  *)
    desk,       (* the transaction of the takeover and resume routes        *)
    events, faults,
    (* history *)
    before,     (* the state the desk last took the lead from; None if the  *)
                (* AI did, or if the desk had read another state            *)
    unpaused,   (* a takeover found no conversation to pause                *)
    fate,       (* what the execution that completed a reply's job had read *)
    doubled,    (* runs two executions of which overlapped                  *)
    raced       (* two starts of the workflow overlapped                    *)

lead    == <<state, previous, qualifiedAt, convo, suppressed, lastIn, answers, sent>>
flows   == <<runs, rows>>
queueVars == <<jobState, tries, stalls, holder>>
others  == <<inbound, desk, events>>
history == <<before, unpaused, fate, doubled, raced>>
vars    == <<lead, flows, handoff, queueVars, wk, others, faults, history>>

-----------------------------------------------------------------------------
(* Jobs: a reply's conversation job, a trigger, the k-th step job of a run. *)
Conv(m)    == <<"conv", m>>
Start(t)   == <<"wf", t>>
Step(r, k) == <<"wf", r, k>>

ConvJobs  == {Conv(m) : m \in Replies}
StartJobs == {Start(t) : t \in Triggers}
StepJobs  == {Step(r, k) : r \in Runs, k \in 1..Len(Steps)}
Jobs      == ConvJobs \cup StartJobs \cup StepJobs

Q == INSTANCE JobQueue WITH Job <- Jobs, Worker <- Workers, NoWorker <- None

(* Dedupe keys: an answer of the model with the facts it extracted, the    *)
(* fixed fallback text, and the message of a workflow step.                *)
Keys == {<<"ai", f>> : f \in Turns} \cup {<<"uncertainty">>}
            \cup {<<"step", k>> : k \in 1..Len(Steps)}

ASSUME NoneAssumption == None \notin Jobs \cup Keys \cup LeadState

Pc == {"idle", "decide", "assign", "crm", "converse",
       "create", "schedule", "stop", "complete", "gate", "next", "advance", "done"}

(* What a conversation's execution finds of its reply: the reply, the AI   *)
(* paused, or, before the reply is recorded, neither.                      *)
Found == {"reply", "paused", "early"}

(* state, facts, stop (the last message is STOP), idx and found are what   *)
(* the transaction read; to, merged and key what it is going to write.     *)
Execution ==
    [job: Jobs \cup {None}, pc: Pc, state: LeadState, facts: SUBSET Fields, stop: BOOLEAN,
     to: LeadState, merged: (SUBSET Fields) \cup {None}, key: Keys \cup {None},
     run: Runs \cup {None}, idx: 0..Len(Steps), found: Found \cup {"none"}]

Idle == [job |-> None, pc |-> "idle", state |-> "new", facts |-> {}, stop |-> FALSE,
         to |-> "new", merged |-> None, key |-> None, run |-> None, idx |-> 0,
         found |-> "none"]

NoTx == [pc |-> "none", state |-> "new"]

TypeOK ==
    /\ state \in LeadState
    /\ previous \in LeadState \cup {None}
    /\ qualifiedAt \in BOOLEAN /\ suppressed \in BOOLEAN
    /\ convo \in {"none", "active", "paused"}
    /\ lastIn \in {"none", "reply", "stop"}
    /\ answers \subseteq Fields
    /\ sent \subseteq Keys
    /\ runs \in [Runs -> [status: {"none", "running", "completed", "stopped"},
                          step: 0..Len(Steps)]]
    /\ rows \in [Runs -> [1..Len(Steps) -> Nat]]
    /\ handoff \subseteq {"assign", "crm"}
    /\ Q!QueueTypeOK
    /\ wk \in [Workers -> Execution]
    /\ inbound \in [Replies -> [pc: {"none", "open", "done", "lost"}, state: LeadState]]
    /\ desk \in [pc: {"none", "takeover", "resume"}, state: LeadState]
    /\ events \in 0..Events /\ faults \in 0..Faults
    /\ before \in LeadState \cup {None}
    /\ unpaused \in BOOLEAN
    /\ fate \in [Replies -> Found \cup {"none"}]
    /\ doubled \subseteq Runs
    /\ raced \in BOOLEAN

(* A lead as ingestion leaves it. *)
Init ==
    /\ state = "new" /\ previous = None /\ qualifiedAt = FALSE
    /\ convo = "none" /\ suppressed = FALSE /\ lastIn = "none"
    /\ answers = {} /\ sent = {} /\ handoff = {}
    /\ runs = [r \in Runs |-> [status |-> "none", step |-> 0]]
    /\ rows = [r \in Runs |-> [k \in 1..Len(Steps) |-> 0]]
    /\ Q!QueueInit({})
    /\ wk = [w \in Workers |-> Idle]
    /\ inbound = [m \in Replies |-> NoTx]
    /\ desk = NoTx
    /\ events = Events /\ faults = Faults
    /\ before = None /\ unpaused = FALSE
    /\ fate = [m \in Replies |-> "none"]
    /\ doubled = {} /\ raced = FALSE

Fault == faults > 0 /\ faults' = faults - 1
Event == events > 0 /\ events' = events - 1

Goes(w, pc) == wk' = [wk EXCEPT ![w].pc = pc]

(* The handler returns: but for what it found, what it had read is gone. *)
Done(w) == wk' = [wk EXCEPT ![w] = [Idle EXCEPT !.job = wk[w].job, !.pc = "done",
                                                !.found = wk[w].found]]

(* The message is inserted unless its dedupe key is taken. *)
Insert(key) == sent' = IF key = None THEN sent ELSE sent \cup {key}

=============================================================================
