---------------------------- MODULE EngagementProofs ----------------------------
(***************************************************************************)
(* A lead under automation, for any replies, triggers, runs and workers,   *)
(* any workflow, any qualification schema and any number of faults.        *)
(*                                                                         *)
(* TypeInv ties what an execution has read and is going to write to its    *)
(* control point.  On top of it each property has an invariant of its own, *)
(* which says what an execution may rely on although the rows it read have *)
(* changed since: StepsInv, StartInv, HandoffInv, PauseInv and ReplyInv.   *)
(***************************************************************************)
EXTENDS Engagement, TLAPS

QP == INSTANCE JobQueueProofs WITH Job <- Jobs, Worker <- Workers, NoWorker <- None

(* Control points: of a conversation, of its second half, of a step job,   *)
(* and of one that executes its step.                                      *)
Conversing == {"decide", "assign", "crm", "converse"}
Writing    == {"assign", "crm", "converse"}
Stepping   == {"stop", "complete", "gate", "next", "advance"}
Acting     == {"gate", "next", "advance"}

ReplyKeys == {<<"ai", f>> : f \in Turns}
StepKeys  == {<<"step", k>> : k \in 1..Len(Steps)}

ExecutionInv(e) ==
    /\ e.pc = "idle" <=> e.job = None
    /\ e.pc \in Conversing => e.job \in ConvJobs
    /\ e.pc \in {"create", "schedule"} => e.job \in StartJobs
    /\ e.pc \in Stepping => e.job \in StepJobs
    /\ e.pc \in Stepping \cup {"schedule"} => e.run \in Runs
    /\ e.pc \notin Acting \cup Writing => e.key = None
    /\ e.pc \in Acting =>
         /\ e.idx < Len(Steps) /\ e.state \notin StopStates
         /\ e.key \in StepKeys \cup {None}
    /\ e.pc \in Writing =>
         /\ e.key \in ReplyKeys \cup {<<"uncertainty">>, None}
         /\ e.merged # None => e.facts \subseteq e.merged
         /\ e.to = "human_owned" /\ e.state # "human_owned" => e.key = None
         /\ e.to = "opted_out" => e.state = "opted_out"

WorkersInv ==
    /\ wk \in [Workers -> Execution]
    /\ \A w \in Workers : ExecutionInv(wk[w])

LeadType ==
    /\ state \in LeadState
    /\ previous \in LeadState \cup {None}
    /\ qualifiedAt \in BOOLEAN /\ suppressed \in BOOLEAN
    /\ convo \in {"none", "active", "paused"}
    /\ lastIn \in {"none", "reply", "stop"}
    /\ answers \subseteq Fields
    /\ sent \subseteq Keys

FlowsType ==
    /\ runs \in [Runs -> [status: {"none", "running", "completed", "stopped"},
                          step: 0..Len(Steps)]]
    /\ rows \in [Runs -> [1..Len(Steps) -> Nat]]

OthersType ==
    /\ handoff \subseteq {"assign", "crm"}
    /\ inbound \in [Replies -> [pc: {"none", "open", "done", "lost"}, state: LeadState]]
    /\ desk \in [pc: {"none", "takeover", "resume"}, state: LeadState]
    /\ events \in 0..Events /\ faults \in 0..Faults

HistoryType ==
    /\ before \in LeadState \cup {None}
    /\ unpaused \in BOOLEAN
    /\ fate \in [Replies -> Found \cup {"none"}]
    /\ doubled \subseteq Runs
    /\ raced \in BOOLEAN

TypeInv ==
    /\ LeadType /\ FlowsType /\ OthersType /\ HistoryType
    /\ QP!QueueInv
    /\ WorkersInv

(* A run is executed by one worker at a time, at the step its counter says. *)
StepsInv ==
    \A r \in Runs \ doubled :
        /\ \A u, w \in Workers :
              /\ wk[u].run = r /\ wk[u].job \in StepJobs
              /\ wk[w].run = r /\ wk[w].job \in StepJobs
              => u = w
        /\ \A w \in Workers : wk[w].run = r /\ wk[w].pc \in Acting => wk[w].idx = runs[r].step
        /\ \A k \in 1..Len(Steps) : rows[r][k] = IF k <= runs[r].step THEN 1 ELSE 0

(* A start that is going to insert a run is the only one, and there is no  *)
(* running run.                                                            *)
StartInv ==
    ~raced =>
        /\ \A u, w \in Workers : wk[u].pc = "create" /\ wk[w].pc = "create" => u = w
        /\ \A w \in Workers : wk[w].pc = "create" => Running = {}
        /\ \A r, q \in Running : r = q

(* The jobs of a lead that qualifies are added in order, before its commit. *)
HandoffInv ==
    /\ qualifiedAt => handoff = {"assign", "crm"}
    /\ \A w \in Workers :
          /\ wk[w].pc = "crm" => "assign" \in handoff
          /\ wk[w].pc = "converse" /\ Qualifies(wk[w]) => handoff = {"assign", "crm"}

(* What the rows say of an opt-out and of a takeover. *)
LeadInv ==
    /\ previous \notin {"human_owned", "opted_out"}
    /\ desk.pc = "takeover" => desk.state # "opted_out"
    /\ state = "opted_out" => suppressed
    /\ state = "human_owned" /\ convo # "paused" => unpaused
    /\ state = "human_owned" /\ before # None => previous = before

(* What a conversation that read them still knows. *)
Informed(e) ==
    e.pc \in Conversing =>
        /\ e.state = "opted_out" => suppressed
        /\ e.state = "human_owned" => unpaused
        /\ e.pc \in Writing /\ e.state = "opted_out" => e.key \notin ReplyKeys

PauseInv == LeadInv /\ \A w \in Workers : Informed(wk[w])

(* A reply's job is added before the reply is recorded; whoever runs it    *)
(* knows what it found of the reply, and so does its completion.           *)
ReplyInv ==
    \A m \in Replies :
        /\ inbound[m].pc # "none" => jobState[Conv(m)] # "absent"
        /\ jobState[Conv(m)] = "completed" => fate[m] \in Found
        /\ \A w \in Workers : wk[w].job = Conv(m) => wk[w].found \in Found

-----------------------------------------------------------------------------
(* Constants and records.                                                  *)

(* The job ids of the queues are distinct. *)
LEMMA JobIds ==
    /\ \A m \in Replies : Conv(m) \in ConvJobs /\ Conv(m) \in Jobs
    /\ \A t \in Triggers : Start(t) \in StartJobs /\ Start(t) \in Jobs
    /\ \A r \in Runs, k \in 1..Len(Steps) : Step(r, k) \in StepJobs /\ Step(r, k) \in Jobs
    /\ ConvJobs \subseteq Jobs /\ StartJobs \subseteq Jobs /\ StepJobs \subseteq Jobs
    /\ ConvJobs \cap StartJobs = {} /\ ConvJobs \cap StepJobs = {}
    /\ StartJobs \cap StepJobs = {}
    /\ \A m : Conv(m)[2] = m
  <1>1. \A m, t, r, k : Conv(m) # Start(t) /\ Conv(m) # Step(r, k) /\ Start(t) # Step(r, k)
    BY DEF Conv, Start, Step
  <1>2. \A m : Conv(m)[2] = m BY DEF Conv
  <1> QED BY <1>1, <1>2 DEF ConvJobs, StartJobs, StepJobs, Jobs

(* The queue's constants are in order; a workflow has a step. *)
LEMMA Constants ==
    /\ QP!QueueConstants
    /\ None \notin Jobs /\ None \notin Keys /\ None \notin LeadState /\ None \notin Runs
    /\ Len(Steps) \in Nat \ {0}
  BY EngagementAssumption, NoneAssumption DEF QP!QueueConstants

(* Dedupe keys: no answer is the fallback text, and neither is a step's.   *)
LEMMA KeyIds ==
    /\ ReplyKeys \subseteq Keys /\ StepKeys \subseteq Keys /\ <<"uncertainty">> \in Keys
    /\ <<"uncertainty">> \notin ReplyKeys /\ <<"uncertainty">> \notin StepKeys
    /\ ReplyKeys \cap StepKeys = {}
    /\ None \notin ReplyKeys /\ None \notin StepKeys /\ None # <<"uncertainty">>
  <1>1. \A f, k : /\ <<"ai", f>> # <<"uncertainty">> /\ <<"step", k>> # <<"uncertainty">>
                  /\ <<"ai", f>> # <<"step", k>>
    OBVIOUS
  <1>2. /\ ReplyKeys \subseteq Keys /\ StepKeys \subseteq Keys /\ <<"uncertainty">> \in Keys
        /\ <<"uncertainty">> \notin ReplyKeys /\ <<"uncertainty">> \notin StepKeys
        /\ ReplyKeys \cap StepKeys = {}
    BY <1>1 DEF Keys, ReplyKeys, StepKeys
  <1> QED BY <1>2, Constants

(* An execution stays one when a field takes another value of its type. *)
LEMMA UpdateType ==
    ASSUME NEW e \in Execution
    PROVE  /\ \A x \in Jobs \cup {None} : [e EXCEPT !.job = x] \in Execution
           /\ \A x \in Pc : [e EXCEPT !.pc = x] \in Execution
           /\ \A x \in LeadState : [e EXCEPT !.state = x] \in Execution
           /\ \A x \in SUBSET Fields : [e EXCEPT !.facts = x] \in Execution
           /\ \A x \in BOOLEAN : [e EXCEPT !.stop = x] \in Execution
           /\ \A x \in LeadState : [e EXCEPT !.to = x] \in Execution
           /\ \A x \in (SUBSET Fields) \cup {None} : [e EXCEPT !.merged = x] \in Execution
           /\ \A x \in Keys \cup {None} : [e EXCEPT !.key = x] \in Execution
           /\ \A x \in Runs \cup {None} : [e EXCEPT !.run = x] \in Execution
           /\ \A x \in 0..Len(Steps) : [e EXCEPT !.idx = x] \in Execution
           /\ \A x \in Found \cup {"none"} : [e EXCEPT !.found = x] \in Execution
  BY DEF Execution

(* An idle worker has one. *)
LEMMA IdleType == Idle \in Execution /\ ExecutionInv(Idle)
  <1>1. "new" \in LeadState /\ "idle" \in Pc /\ {} \in SUBSET Fields /\ 0 \in 0..Len(Steps)
    BY Constants DEF LeadState, Pc
  <1>2. Idle \in Execution
    <2> DEFINE js == Jobs \cup {None}
               ms == (SUBSET Fields) \cup {None}
               ks == Keys \cup {None}
               rs == Runs \cup {None}
    <2>1. None \in js /\ None \in ms /\ None \in ks /\ None \in rs OBVIOUS
    <2> HIDE DEF js, ms, ks, rs
    <2>2. Idle \in [job: js, pc: Pc, state: LeadState, facts: SUBSET Fields, stop: BOOLEAN,
                    to: LeadState, merged: ms, key: ks, run: rs, idx: 0..Len(Steps),
                    found: Found \cup {"none"}]
      BY <1>1, <2>1 DEF Idle
    <2> QED BY <2>2 DEF Execution, js, ms, ks, rs
  <1>3. Idle.pc = "idle" /\ Idle.job = None /\ Idle.key = None BY DEF Idle
  <1>4. ExecutionInv(Idle)
    BY <1>3 DEF ExecutionInv, Conversing, Writing, Stepping, Acting
  <1> QED BY <1>2, <1>4

-----------------------------------------------------------------------------
(* What each step leaves of the execution it is of.                        *)

Moved(w) ==
    /\ wk' \in [Workers -> Execution] /\ ExecutionInv(wk'[w])
    /\ \A u \in Workers \ {w} : wk'[u] = wk[u]

(* The execution of one worker is replaced. *)
LEMMA Replaced ==
    ASSUME WorkersInv, NEW w \in Workers, NEW e \in Execution, ExecutionInv(e),
           wk' = [wk EXCEPT ![w] = e]
    PROVE  Moved(w) /\ wk'[w] = e
  BY DEF WorkersInv, Moved

(* A worker leaves its job. *)
LEMMA LeaveMoves ==
    ASSUME WorkersInv, NEW w \in Workers, Leave(w)
    PROVE  /\ Moved(w)
           /\ wk'[w].pc = "idle" /\ wk'[w].job = None /\ wk'[w].key = None /\ wk'[w].run = None
  <1>1. Moved(w) /\ wk'[w] = Idle BY IdleType, Replaced DEF Leave
  <1> QED BY <1>1 DEF Idle

(* A handler returns. *)
LEMMA DoneMoves ==
    ASSUME WorkersInv, NEW w \in Workers, wk[w].pc # "idle", Done(w)
    PROVE  /\ Moved(w)
           /\ wk'[w].pc = "done" /\ wk'[w].job = wk[w].job
           /\ wk'[w].key = None /\ wk'[w].run = None
  <1> DEFINE e == [Idle EXCEPT !.job = wk[w].job, !.pc = "done", !.found = wk[w].found]
  <1>1. wk[w] \in Execution /\ wk[w].job # None BY DEF WorkersInv, ExecutionInv
  <1>2. wk[w].job \in Jobs \cup {None} /\ wk[w].found \in Found \cup {"none"}
    BY <1>1 DEF Execution
  <1>3. [Idle EXCEPT !.job = wk[w].job] \in Execution BY <1>2, IdleType, UpdateType
  <1>4. e \in Execution
    <2>1. [Idle EXCEPT !.job = wk[w].job, !.pc = "done"] \in Execution
      BY <1>3, UpdateType DEF Pc
    <2> QED BY <1>2, <2>1, UpdateType
  <1>5. e.pc = "done" /\ e.job = wk[w].job /\ e.key = None /\ e.run = None BY DEF Idle
  <1>6. wk' = [wk EXCEPT ![w] = e] BY DEF Done
  <1> HIDE DEF e
  <1>7. ExecutionInv(e)
    BY <1>1, <1>5 DEF ExecutionInv, Conversing, Writing, Stepping, Acting
  <1> QED BY <1>4, <1>5, <1>6, <1>7, Replaced

(* A conversation reads the lead, unless there is nothing to answer. *)
LEMMA ConversationBeginMoves ==
    ASSUME TypeInv, NEW w \in Workers, NEW m \in Replies, ConversationBegin(w, m)
    PROVE  /\ Moved(w)
           /\ wk'[w].job = Conv(m) /\ wk'[w].key = None /\ wk'[w].run = None
           /\ wk'[w].found \in Found
           /\ \/ wk'[w].pc = "done" /\ convo # "active"
              \/ /\ wk'[w].pc = "decide" /\ convo = "active"
                 /\ wk'[w].state = state /\ wk'[w].facts = answers
  <1>1. Conv(m) \in Jobs /\ Conv(m) \in ConvJobs /\ Conv(m) # None BY JobIds, Constants
  <1>2. [Idle EXCEPT !.job = Conv(m)] \in Execution BY <1>1, IdleType, UpdateType
  <1> DEFINE found == Finds(m)
  <1>0. found \in Found BY DEF Finds, Found
  <1> HIDE DEF found
  <1>3. CASE convo # "active"
    <2> DEFINE e == [Idle EXCEPT !.job = Conv(m), !.pc = "done", !.found = found]
    <2>1. e \in Execution
      <3>1. [Idle EXCEPT !.job = Conv(m), !.pc = "done"] \in Execution
        BY <1>2, UpdateType DEF Pc
      <3> QED BY <1>0, <3>1, UpdateType
    <2>2. e.pc = "done" /\ e.job = Conv(m) /\ e.key = None /\ e.run = None /\ e.found \in Found
      BY <1>0 DEF Idle
    <2>3. wk' = [wk EXCEPT ![w] = e] BY <1>3 DEF ConversationBegin, found
    <2> HIDE DEF e
    <2>4. ExecutionInv(e)
      BY <1>1, <2>2 DEF ExecutionInv, Conversing, Writing, Stepping, Acting
    <2> QED BY <1>3, <2>1, <2>2, <2>3, <2>4, Replaced DEF TypeInv
  <1>4. CASE convo = "active"
    <2> DEFINE stop == lastIn = "stop"
               e == [Idle EXCEPT !.job = Conv(m), !.pc = "decide", !.found = found,
                                 !.state = state, !.facts = answers, !.stop = stop]
    <2>1. stop \in BOOLEAN /\ state \in LeadState /\ answers \in SUBSET Fields
      BY DEF TypeInv, LeadType
    <2>2. wk' = [wk EXCEPT ![w] = e] BY <1>4 DEF ConversationBegin, found
    <2> HIDE DEF stop
    <2>3. [Idle EXCEPT !.job = Conv(m), !.pc = "decide", !.found = found] \in Execution
      <3>1. [Idle EXCEPT !.job = Conv(m), !.pc = "decide"] \in Execution
        BY <1>2, UpdateType DEF Pc
      <3> QED BY <1>0, <3>1, UpdateType
    <2>4. [Idle EXCEPT !.job = Conv(m), !.pc = "decide", !.found = found,
                       !.state = state] \in Execution
      BY <2>1, <2>3, UpdateType
    <2>5. [Idle EXCEPT !.job = Conv(m), !.pc = "decide", !.found = found,
                       !.state = state, !.facts = answers] \in Execution
      BY <2>1, <2>4, UpdateType
    <2>6. e \in Execution BY <2>1, <2>5, UpdateType
    <2>7. /\ e.pc = "decide" /\ e.job = Conv(m) /\ e.key = None /\ e.run = None
          /\ e.state = state /\ e.facts = answers /\ e.found \in Found
      BY <1>0 DEF Idle
    <2> HIDE DEF e
    <2>8. ExecutionInv(e)
      BY <1>1, <2>7 DEF ExecutionInv, Conversing, Writing, Stepping, Acting
    <2> QED BY <1>4, <2>2, <2>6, <2>7, <2>8, Replaced DEF TypeInv
  <1> QED BY <1>3, <1>4

(* A start finds a running run, or is going to make one. *)
LEMMA StartBeginMoves ==
    ASSUME TypeInv, NEW w \in Workers, NEW t \in Triggers, StartBegin(w, t)
    PROVE  /\ Moved(w)
           /\ wk'[w].job = Start(t) /\ wk'[w].key = None
           /\ \/ wk'[w].pc = "create" /\ Running = {} /\ wk'[w].run = None
              \/ wk'[w].pc = "schedule"
  <1>1. Start(t) \in Jobs /\ Start(t) \in StartJobs /\ Start(t) # None BY JobIds, Constants
  <1>2. [Idle EXCEPT !.job = Start(t)] \in Execution BY <1>1, IdleType, UpdateType
  <1>3. CASE Running = {}
    <2> DEFINE e == [Idle EXCEPT !.job = Start(t), !.pc = "create"]
    <2>1. e \in Execution BY <1>2, UpdateType DEF Pc
    <2>2. e.pc = "create" /\ e.job = Start(t) /\ e.key = None /\ e.run = None BY DEF Idle
    <2>3. wk' = [wk EXCEPT ![w] = e] BY <1>3 DEF StartBegin
    <2> HIDE DEF e
    <2>4. ExecutionInv(e)
      BY <1>1, <2>2 DEF ExecutionInv, Conversing, Writing, Stepping, Acting
    <2> QED BY <1>3, <2>1, <2>2, <2>3, <2>4, Replaced DEF TypeInv
  <1>4. CASE Running # {}
    <2>1. PICK r \in Running :
             wk' = [wk EXCEPT ![w] = [Idle EXCEPT !.job = Start(t), !.pc = "schedule", !.run = r]]
      BY <1>4 DEF StartBegin
    <2> DEFINE e == [Idle EXCEPT !.job = Start(t), !.pc = "schedule", !.run = r]
    <2>2. r \in Runs BY DEF Running
    <2>3. [Idle EXCEPT !.job = Start(t), !.pc = "schedule"] \in Execution
      BY <1>2, UpdateType DEF Pc
    <2>4. e \in Execution BY <2>2, <2>3, UpdateType
    <2>5. e.pc = "schedule" /\ e.job = Start(t) /\ e.key = None /\ e.run = r BY DEF Idle
    <2>6. wk' = [wk EXCEPT ![w] = e] BY <2>1
    <2> HIDE DEF e
    <2>7. ExecutionInv(e)
      BY <1>1, <2>2, <2>5 DEF ExecutionInv, Conversing, Writing, Stepping, Acting
    <2> QED BY <2>4, <2>5, <2>6, <2>7, Replaced DEF TypeInv
  <1> QED BY <1>3, <1>4

(* A step job finds its run ended, ends it, or is going to execute the     *)
(* step the run is at.                                                     *)
LEMMA AdvanceBeginMoves ==
    ASSUME TypeInv, NEW w \in Workers, NEW r \in Runs, NEW k \in 1..Len(Steps),
           AdvanceBegin(w, r, k)
    PROVE  /\ Moved(w)
           /\ wk'[w].job = Step(r, k) /\ wk'[w].key = None
           /\ wk'[w].pc \in {"done", "stop", "complete", "gate"}
           /\ wk'[w].run \in {r, None}
           /\ wk'[w].pc = "gate" => wk'[w].idx = runs[r].step
  <1> DEFINE idx == runs[r].step
             seen == [Idle EXCEPT !.job = Step(r, k)]
  <1>1. Step(r, k) \in Jobs /\ Step(r, k) \in StepJobs /\ Step(r, k) # None
    BY JobIds, Constants
  <1>2. state \in LeadState /\ idx \in 0..Len(Steps) BY DEF TypeInv, LeadType, FlowsType
  <1>3. seen \in Execution BY <1>1, IdleType, UpdateType
  <1>4. /\ seen.job = Step(r, k) /\ seen.key = None /\ seen.run = None
    BY DEF Idle
  <1> HIDE DEF seen
  <1>5. ASSUME wk' = [wk EXCEPT ![w] = [seen EXCEPT !.pc = "done"]]
        PROVE  Moved(w) /\ wk'[w] = [seen EXCEPT !.pc = "done"]
    <2> DEFINE e == [seen EXCEPT !.pc = "done"]
    <2>1. e \in Execution BY <1>3, UpdateType DEF Pc
    <2>2. e.pc = "done" /\ e.job = Step(r, k) /\ e.key = None BY <1>3, <1>4 DEF Execution
    <2>3. wk' = [wk EXCEPT ![w] = e] BY <1>5
    <2> HIDE DEF e
    <2>4. ExecutionInv(e)
      BY <1>1, <2>2 DEF ExecutionInv, Conversing, Writing, Stepping, Acting
    <2>5. Moved(w) /\ wk'[w] = e BY <2>1, <2>3, <2>4, Replaced DEF TypeInv
    <2> QED BY <2>5 DEF e
  <1>6. ASSUME NEW pc \in {"stop", "complete"},
               wk' = [wk EXCEPT ![w] = [seen EXCEPT !.pc = pc, !.run = r]]
        PROVE  Moved(w) /\ wk'[w] = [seen EXCEPT !.pc = pc, !.run = r]
    <2> DEFINE e == [seen EXCEPT !.pc = pc, !.run = r]
    <2>1. [seen EXCEPT !.pc = pc] \in Execution BY <1>3, UpdateType DEF Pc
    <2>2. e \in Execution BY <2>1, UpdateType
    <2>3. e.pc = pc /\ e.job = Step(r, k) /\ e.key = None /\ e.run = r
      BY <1>3, <1>4 DEF Execution
    <2>4. wk' = [wk EXCEPT ![w] = e] BY <1>6
    <2> HIDE DEF e
    <2>5. ExecutionInv(e)
      BY <1>1, <2>3 DEF ExecutionInv, Conversing, Writing, Stepping, Acting
    <2>6. Moved(w) /\ wk'[w] = e BY <2>2, <2>4, <2>5, Replaced DEF TypeInv
    <2> QED BY <2>6 DEF e
  <1>7. ASSUME ~AtEnd(idx), ~ShouldStop(state),
               wk' = [wk EXCEPT ![w] = [seen EXCEPT !.pc = "gate", !.run = r, !.idx = idx,
                                                    !.state = state]]
        PROVE  Moved(w) /\ wk'[w] = [seen EXCEPT !.pc = "gate", !.run = r, !.idx = idx,
                                                 !.state = state]
    <2> DEFINE e == [seen EXCEPT !.pc = "gate", !.run = r, !.idx = idx, !.state = state]
    <2>1. [seen EXCEPT !.pc = "gate"] \in Execution BY <1>3, UpdateType DEF Pc
    <2>2. [seen EXCEPT !.pc = "gate", !.run = r] \in Execution BY <2>1, UpdateType
    <2>3. [seen EXCEPT !.pc = "gate", !.run = r, !.idx = idx] \in Execution
      BY <1>2, <2>2, UpdateType
    <2>4. e \in Execution BY <1>2, <2>3, UpdateType
    <2>5. /\ e.pc = "gate" /\ e.job = Step(r, k) /\ e.key = None /\ e.run = r
          /\ e.idx = idx /\ e.state = state
      BY <1>3, <1>4 DEF Execution
    <2>6. wk' = [wk EXCEPT ![w] = e] BY <1>7
    <2>7. idx < Len(Steps) /\ state \notin StopStates
      BY <1>2, <1>7, Constants DEF AtEnd, ShouldStop
    <2> HIDE DEF e
    <2>8. ExecutionInv(e)
      BY <1>1, <2>5, <2>7 DEF ExecutionInv, Conversing, Writing, Stepping, Acting
    <2>9. Moved(w) /\ wk'[w] = e BY <2>4, <2>6, <2>8, Replaced DEF TypeInv
    <2> QED BY <2>9 DEF e
  <1>8. \/ wk' = [wk EXCEPT ![w] = [seen EXCEPT !.pc = "done"]]
        \/ \E pc \in {"stop", "complete"} :
              wk' = [wk EXCEPT ![w] = [seen EXCEPT !.pc = pc, !.run = r]]
        \/ /\ ~AtEnd(idx) /\ ~ShouldStop(state)
           /\ wk' = [wk EXCEPT ![w] = [seen EXCEPT !.pc = "gate", !.run = r, !.idx = idx,
                                                   !.state = state]]
    BY DEF AdvanceBegin, seen
  <1> QED BY <1>3, <1>4, <1>5, <1>6, <1>7, <1>8 DEF Execution

(* What a conversation is going to write. *)
LEMMA WritesMoves ==
    ASSUME WorkersInv, NEW w \in Workers, wk[w].pc = "decide",
           NEW pc \in Writing, NEW key \in ReplyKeys \cup {<<"uncertainty">>, None},
           NEW to \in LeadState, NEW merged \in (SUBSET Fields) \cup {None},
           merged # None => wk[w].facts \subseteq merged,
           to = "human_owned" /\ wk[w].state # "human_owned" => key = None,
           to = "opted_out" => wk[w].state = "opted_out",
           Writes(w, pc, key, to, merged)
    PROVE  /\ Moved(w)
           /\ wk'[w].pc = pc /\ wk'[w].key = key /\ wk'[w].to = to /\ wk'[w].merged = merged
           /\ wk'[w].job = wk[w].job /\ wk'[w].run = wk[w].run
           /\ wk'[w].state = wk[w].state /\ wk'[w].facts = wk[w].facts
  <1> DEFINE e == [wk[w] EXCEPT !.pc = pc, !.key = key, !.to = to, !.merged = merged]
  <1>1. wk[w] \in Execution /\ ExecutionInv(wk[w]) BY DEF WorkersInv
  <1>2. [wk[w] EXCEPT !.pc = pc] \in Execution BY <1>1, UpdateType DEF Pc, Writing
  <1>3. key \in Keys \cup {None} BY KeyIds
  <1>4. [wk[w] EXCEPT !.pc = pc, !.key = key] \in Execution BY <1>2, <1>3, UpdateType
  <1>5. [wk[w] EXCEPT !.pc = pc, !.key = key, !.to = to] \in Execution BY <1>4, UpdateType
  <1>6. e \in Execution BY <1>5, UpdateType
  <1>7. /\ e.pc = pc /\ e.key = key /\ e.to = to /\ e.merged = merged
        /\ e.job = wk[w].job /\ e.run = wk[w].run
        /\ e.state = wk[w].state /\ e.facts = wk[w].facts
    BY <1>1 DEF Execution
  <1>8. wk' = [wk EXCEPT ![w] = e] BY <1>1 DEF Writes, WorkersInv
  <1> HIDE DEF e
  <1>9. wk[w].job \in ConvJobs /\ wk[w].job # None
    BY <1>1 DEF ExecutionInv, Conversing
  <1>10. ExecutionInv(e)
    BY <1>7, <1>9 DEF ExecutionInv, Conversing, Writing, Stepping, Acting
  <1> QED BY <1>6, <1>7, <1>8, <1>10, Replaced

(* A conversation that has decided.  One whose answer qualifies the lead   *)
(* is not yet at its commit.                                               *)
LEMMA DecideMoves ==
    ASSUME TypeInv, NEW w \in Workers,
           Fallback(w) \/ PauseForHuman(w) \/ \E f \in Turns : Answer(w, f)
    PROVE  /\ Moved(w) /\ wk[w].pc = "decide"
           /\ wk'[w].pc \in {"assign", "converse"}
           /\ wk'[w].job = wk[w].job /\ wk'[w].run = wk[w].run /\ wk'[w].state = wk[w].state
           /\ wk'[w].key \in ReplyKeys => ~suppressed
           /\ wk'[w].pc = "converse" => ~Qualifies(wk'[w])
  <1>1. WorkersInv /\ wk[w] \in Execution BY DEF TypeInv, WorkersInv
  <1>2. wk[w].state \in LeadState /\ wk[w].facts \in SUBSET Fields BY <1>1 DEF Execution
  <1>3. "converse" \in Writing /\ "assign" \in Writing BY DEF Writing
  <1>4. CASE Fallback(w)
    <2>1. /\ wk[w].pc = "decide"
          /\ Writes(w, "converse", <<"uncertainty">>, wk[w].state, None)
      BY <1>4 DEF Fallback
    <2>2. /\ Moved(w) /\ wk'[w].pc = "converse" /\ wk'[w].key = <<"uncertainty">>
          /\ wk'[w].job = wk[w].job /\ wk'[w].run = wk[w].run /\ wk'[w].state = wk[w].state
      BY <1>1, <1>2, <1>3, <2>1, WritesMoves
    <2> QED BY <2>1, <2>2, KeyIds DEF Qualifies, ReplyKeys
  <1>5. CASE PauseForHuman(w)
    <2>1. /\ wk[w].pc = "decide"
          /\ Writes(w, "converse", None, "human_owned", None)
      BY <1>5 DEF PauseForHuman
    <2>2. /\ Moved(w) /\ wk'[w].pc = "converse" /\ wk'[w].key = None
          /\ wk'[w].job = wk[w].job /\ wk'[w].run = wk[w].run /\ wk'[w].state = wk[w].state
      BY <1>1, <1>2, <1>3, <2>1, WritesMoves DEF LeadState
    <2> QED BY <2>1, <2>2, KeyIds DEF Qualifies, ReplyKeys
  <1>6. ASSUME NEW f \in Turns, Answer(w, f)
        PROVE  /\ Moved(w) /\ wk[w].pc = "decide"
               /\ wk'[w].pc \in {"assign", "converse"}
               /\ wk'[w].job = wk[w].job /\ wk'[w].run = wk[w].run
               /\ wk'[w].state = wk[w].state
               /\ wk'[w].key \in ReplyKeys => ~suppressed
               /\ wk'[w].pc = "converse" => ~Qualifies(wk'[w])
    <2> DEFINE facts == MergeAnswers(wk[w].facts, f)
               to == NextState(wk[w].state, IsComplete(facts))
               pc == IF IsComplete(facts) THEN "assign" ELSE "converse"
    <2>1. wk[w].pc = "decide" BY <1>6 DEF Answer
    <2>2. facts \in (SUBSET Fields) \cup {None} /\ wk[w].facts \subseteq facts
      BY <1>2, EngagementAssumption DEF MergeAnswers
    <2>3. /\ to \in LeadState
          /\ to = "human_owned" => wk[w].state = "human_owned"
          /\ to = "opted_out" => wk[w].state = "opted_out"
      BY <1>2 DEF NextState, LeadState
    <2>4. <<"ai", f>> \in ReplyKeys BY DEF ReplyKeys
    <2>5. \/ Writes(w, "converse", <<"uncertainty">>, wk[w].state, facts)
          \/ ~suppressed /\ Writes(w, pc, <<"ai", f>>, to, facts)
      BY <1>6 DEF Answer, GateMayPass
    <2> HIDE DEF facts, to
    <2>6. CASE Writes(w, "converse", <<"uncertainty">>, wk[w].state, facts)
      <3>1. /\ Moved(w) /\ wk'[w].pc = "converse" /\ wk'[w].key = <<"uncertainty">>
            /\ wk'[w].job = wk[w].job /\ wk'[w].run = wk[w].run /\ wk'[w].state = wk[w].state
        BY <1>1, <1>2, <1>3, <2>1, <2>2, <2>6, WritesMoves
      <3> QED BY <2>1, <3>1, KeyIds DEF Qualifies, ReplyKeys
    <2>7. CASE ~suppressed /\ Writes(w, pc, <<"ai", f>>, to, facts)
      <3>1. pc \in Writing BY DEF Writing
      <3>2. /\ Moved(w) /\ wk'[w].pc = pc /\ wk'[w].merged = facts
            /\ wk'[w].job = wk[w].job /\ wk'[w].run = wk[w].run /\ wk'[w].state = wk[w].state
        BY <1>1, <2>1, <2>2, <2>3, <2>4, <2>7, <3>1, WritesMoves
      <3> QED BY <2>1, <2>7, <3>2 DEF Qualifies
    <2> QED BY <2>5, <2>6, <2>7
  <1> QED BY <1>4, <1>5, <1>6

(* A worker goes from one control point to the next. *)
LEMMA GoesMoves ==
    ASSUME WorkersInv, NEW w \in Workers, NEW pc,
           \/ wk[w].pc = "assign" /\ pc = "crm"
           \/ wk[w].pc = "crm" /\ pc = "converse"
           \/ wk[w].pc = "next" /\ pc = "advance",
           Goes(w, pc)
    PROVE  Moved(w) /\ wk'[w] = [wk[w] EXCEPT !.pc = pc]
  <1> DEFINE e == [wk[w] EXCEPT !.pc = pc]
  <1>1. wk[w] \in Execution /\ ExecutionInv(wk[w]) BY DEF WorkersInv
  <1>2. e \in Execution BY <1>1, UpdateType DEF Pc
  <1>3. /\ e.pc = pc /\ e.job = wk[w].job /\ e.run = wk[w].run /\ e.key = wk[w].key
        /\ e.idx = wk[w].idx /\ e.state = wk[w].state /\ e.to = wk[w].to
        /\ e.merged = wk[w].merged /\ e.facts = wk[w].facts
    BY <1>1 DEF Execution
  <1>4. wk' = [wk EXCEPT ![w] = e] BY <1>1 DEF Goes, WorkersInv
  <1> HIDE DEF e
  <1>5. ExecutionInv(e)
    BY <1>1, <1>3 DEF ExecutionInv, Conversing, Writing, Stepping, Acting
  <1>6. Moved(w) /\ wk'[w] = e BY <1>2, <1>4, <1>5, Replaced
  <1> QED BY <1>6 DEF e

(* A start inserts the run it is going to schedule. *)
LEMMA StartCommitMoves ==
    ASSUME TypeInv, NEW w \in Workers, StartCommit(w)
    PROVE  /\ Moved(w) /\ NewRun \in Runs /\ RunNow(NewRun, "none")
           /\ wk'[w].pc = "schedule" /\ wk'[w].job = wk[w].job /\ wk'[w].key = None
  <1> DEFINE e == [wk[w] EXCEPT !.pc = "schedule", !.run = NewRun]
  <1>1. wk[w] \in Execution /\ ExecutionInv(wk[w]) /\ wk[w].pc = "create"
    BY DEF TypeInv, WorkersInv, StartCommit
  <1>2. NewRun \in Runs /\ RunNow(NewRun, "none") BY DEF StartCommit, NewRun
  <1>3. [wk[w] EXCEPT !.pc = "schedule"] \in Execution BY <1>1, UpdateType DEF Pc
  <1>4. e \in Execution BY <1>2, <1>3, UpdateType
  <1>5. /\ e.pc = "schedule" /\ e.job = wk[w].job /\ e.run = NewRun /\ e.key = wk[w].key
    BY <1>1 DEF Execution
  <1>6. wk' = [wk EXCEPT ![w] = e] BY <1>1 DEF StartCommit, TypeInv, WorkersInv
  <1> HIDE DEF e
  <1>7. ExecutionInv(e) /\ wk[w].key = None
    BY <1>1, <1>2, <1>5 DEF ExecutionInv, Conversing, Writing, Stepping, Acting
  <1> QED BY <1>2, <1>4, <1>5, <1>6, <1>7, Replaced DEF TypeInv

(* The step of a run is executed once the lead was seen outside the stop   *)
(* states.                                                                 *)
LEMMA ExecuteActionMoves ==
    ASSUME TypeInv, NEW w \in Workers, ExecuteAction(w)
    PROVE  /\ Moved(w) /\ wk[w].pc = "gate" /\ wk'[w].pc = "next"
           /\ wk'[w].job = wk[w].job /\ wk'[w].run = wk[w].run /\ wk'[w].idx = wk[w].idx
  <1> DEFINE k == wk[w].idx + 1
             key == IF Steps[k] = "send" /\ convo # "none" /\ ~suppressed
                    THEN <<"step", k>> ELSE None
             e == [wk[w] EXCEPT !.pc = "next", !.key = key]
  <1>1. wk[w] \in Execution /\ ExecutionInv(wk[w]) /\ wk[w].pc = "gate"
    BY DEF TypeInv, WorkersInv, ExecuteAction
  <1>2. k \in 1..Len(Steps)
    BY <1>1, Constants DEF ExecutionInv, Execution, Acting
  <1>3. key \in StepKeys \cup {None} BY <1>2 DEF StepKeys
  <1>4. wk' = [wk EXCEPT ![w] = e] BY <1>1 DEF ExecuteAction, TypeInv, WorkersInv
  <1> HIDE DEF key
  <1>5. [wk[w] EXCEPT !.pc = "next"] \in Execution BY <1>1, UpdateType DEF Pc
  <1>6. e \in Execution BY <1>3, <1>5, KeyIds, UpdateType
  <1>7. /\ e.pc = "next" /\ e.job = wk[w].job /\ e.run = wk[w].run /\ e.key = key
        /\ e.idx = wk[w].idx /\ e.state = wk[w].state
    BY <1>1 DEF Execution
  <1> HIDE DEF e
  <1>8. ExecutionInv(e)
    BY <1>1, <1>3, <1>7 DEF ExecutionInv, Conversing, Writing, Stepping, Acting
  <1> QED BY <1>1, <1>4, <1>6, <1>7, <1>8, Replaced DEF TypeInv

(* What an execution at a control point is about. *)
LEMMA AtPoint ==
    ASSUME TypeInv, NEW w \in Workers
    PROVE  /\ wk[w] \in Execution /\ ExecutionInv(wk[w])
           /\ wk[w].pc # "idle" => wk[w].job \in Jobs
           /\ Converses(w) => ReplyOf(w) \in Replies /\ wk[w].job = Conv(ReplyOf(w))
           /\ wk[w].pc \in {"decide", "assign", "crm", "converse"} => Converses(w)
  <1>1. wk[w] \in Execution /\ ExecutionInv(wk[w]) BY DEF TypeInv, WorkersInv
  <1>2. wk[w].pc # "idle" => wk[w].job \in Jobs BY <1>1 DEF Execution, ExecutionInv
  <1>3. ASSUME Converses(w) PROVE ReplyOf(w) \in Replies /\ wk[w].job = Conv(ReplyOf(w))
    BY <1>3, JobIds DEF Converses, ReplyOf, ConvJobs
  <1> QED BY <1>1, <1>2, <1>3 DEF ExecutionInv, Conversing, Converses

-----------------------------------------------------------------------------
(* Types.                                                                  *)

(* Every operation of the queue keeps it in order. *)
LEMMA QueueStep ==
    ASSUME TypeInv, NEW w, NEW j \in Jobs,
           \/ w \in Workers /\ (Q!Take(w, j) \/ Q!Complete(w, j) \/ Q!Reject(w, j))
           \/ Q!Add(j) \/ Q!Stall(j)
    PROVE  QP!QueueInv'
  <1>1. QP!QueueOperation(w, j)
    BY DEF QP!QueueOperation, Q!Take, QP!Take, Q!Add, QP!Add, Q!Complete, QP!Complete,
           Q!Reject, QP!Reject, Q!Stall, QP!Stall
  <1> QED BY <1>1, Constants, QP!QueueKept DEF TypeInv

(* As does a step that leaves it alone. *)
LEMMA QueueIdle == ASSUME TypeInv, UNCHANGED queueVars PROVE QP!QueueInv'
  BY DEF TypeInv, queueVars, QP!QueueInv, QP!QueueTypeOK

(* A step of one worker keeps all in order. *)
LEMMA MovedType == ASSUME WorkersInv, NEW w \in Workers, Moved(w) PROVE WorkersInv'
  BY DEF WorkersInv, Moved

(* As does one of none. *)
LEMMA WorkersIdle == ASSUME WorkersInv, UNCHANGED wk PROVE WorkersInv'
  BY DEF WorkersInv

(* Counters of events and faults. *)
LEMMA Spent ==
    ASSUME TypeInv
    PROVE  /\ Event \/ UNCHANGED events => events' \in 0..Events
           /\ Fault \/ UNCHANGED faults => faults' \in 0..Faults
  BY EngagementAssumption DEF TypeInv, OthersType, Event, Fault

(* What a step does not touch keeps its type. *)
LEMMA Untouched ==
    ASSUME TypeInv
    PROVE  /\ UNCHANGED lead => LeadType'
           /\ UNCHANGED flows => FlowsType'
           /\ UNCHANGED <<handoff, others, faults>> => OthersType'
           /\ UNCHANGED history => HistoryType'
  BY DEF TypeInv, LeadType, FlowsType, OthersType, HistoryType, lead, flows, others, history

(* Conversations. *)
LEMMA ConversationType ==
    ASSUME TypeInv, NEW w \in Workers, ConversationStep(w) PROVE TypeInv'
  <1> USE Untouched, QueueIdle
  <1>1. WorkersInv /\ wk[w] \in Execution BY DEF TypeInv, WorkersInv
  <1>2. ASSUME Moved(w) PROVE WorkersInv' BY <1>1, <1>2, MovedType
  <1>3. CASE Fallback(w) \/ PauseForHuman(w) \/ \E f \in Turns : Answer(w, f)
    <2>1. Moved(w) BY <1>3, DecideMoves
    <2>2. UNCHANGED <<lead, flows, handoff, queueVars, others, faults, history>>
      BY <1>3 DEF Fallback, PauseForHuman, Answer
    <2> QED BY <1>2, <2>1, <2>2 DEF TypeInv
  <1>4. CASE LeaveToOptOut(w)
    <2>1. Moved(w) BY <1>1, <1>4, DoneMoves DEF LeaveToOptOut
    <2> QED BY <1>2, <1>4, <2>1 DEF TypeInv, LeaveToOptOut
  <1>5. CASE EnqueueAssign(w)
    <2>1. Moved(w) BY <1>1, <1>5, GoesMoves DEF EnqueueAssign
    <2>2. OthersType' BY <1>5 DEF EnqueueAssign, TypeInv, OthersType, others
    <2> QED BY <1>2, <1>5, <2>1, <2>2 DEF TypeInv, EnqueueAssign
  <1>6. CASE EnqueueCrm(w)
    <2>1. Moved(w) BY <1>1, <1>6, GoesMoves DEF EnqueueCrm
    <2>2. OthersType' BY <1>6 DEF EnqueueCrm, TypeInv, OthersType, others
    <2> QED BY <1>2, <1>6, <2>1, <2>2 DEF TypeInv, EnqueueCrm
  <1>7. CASE ConversationCommit(w)
    <2>1. wk[w].pc = "converse" BY <1>7 DEF ConversationCommit
    <2>2. Moved(w) BY <1>1, <1>7, DoneMoves DEF ConversationCommit
    <2>3. HistoryType' BY <1>7 DEF ConversationCommit, TypeInv, HistoryType
    <2>4. LeadType'
      <3>1. /\ wk[w].key \in Keys \cup {None} /\ wk[w].to \in LeadState
            /\ wk[w].merged \in (SUBSET Fields) \cup {None}
        BY <1>1 DEF Execution
      <3>2. /\ UNCHANGED <<previous, suppressed, lastIn>>
            /\ sent' \subseteq Keys /\ answers' \subseteq Fields /\ state' \in LeadState
            /\ convo' \in {"none", "active", "paused"}
        BY <1>7, <3>1 DEF ConversationCommit, Insert, TypeInv, LeadType
      <3>3. qualifiedAt' \in BOOLEAN
        <4>1. qualifiedAt' = (qualifiedAt \/ Qualifies(wk[w])) BY <1>7 DEF ConversationCommit
        <4> QED BY <4>1, Zenon
      <3> QED BY <3>2, <3>3 DEF TypeInv, LeadType
    <2> QED BY <1>2, <1>7, <2>2, <2>3, <2>4 DEF TypeInv, ConversationCommit
  <1> QED BY <1>3, <1>4, <1>5, <1>6, <1>7 DEF ConversationStep

(* A counter of a family is counted up. *)
LEMMA CountUp ==
    ASSUME NEW S, NEW f \in [S -> Nat], NEW x \in S
    PROVE  [f EXCEPT ![x] = f[x] + 1] \in [S -> Nat]
  OBVIOUS

(* A run keeps its type when its status changes. *)
LEMMA RunType ==
    ASSUME FlowsType, NEW r \in Runs
    PROVE  \A s \in {"none", "running", "completed", "stopped"} :
              [runs EXCEPT ![r].status = s] \in
                  [Runs -> [status: {"none", "running", "completed", "stopped"},
                            step: 0..Len(Steps)]]
  BY DEF FlowsType

(* A commit of a step counts it and moves the run's counter. *)
LEMMA AdvanceCommitEffect ==
    ASSUME TypeInv, NEW w \in Workers, AdvanceCommit(w)
    PROVE  /\ wk[w].pc = "advance" /\ wk[w].run \in Runs
           /\ wk[w].idx + 1 \in 1..Len(Steps)
           /\ rows' = [rows EXCEPT ![wk[w].run] =
                         [rows[wk[w].run] EXCEPT ![wk[w].idx + 1] =
                            rows[wk[w].run][wk[w].idx + 1] + 1]]
           /\ runs'[wk[w].run].step = wk[w].idx + 1
           /\ runs'[wk[w].run].status \in {runs[wk[w].run].status, "completed"}
           /\ \A q \in Runs \ {wk[w].run} : runs'[q] = runs[q]
           /\ FlowsType'
  <1> DEFINE r == wk[w].run
             k == wk[w].idx + 1
             s == IF AtEnd(k) THEN "completed" ELSE runs[r].status
             row == [rows[r] EXCEPT ![k] = rows[r][k] + 1]
  <1>1. wk[w] \in Execution /\ ExecutionInv(wk[w]) /\ wk[w].pc = "advance"
    BY AtPoint DEF AdvanceCommit
  <1>2. r \in Runs /\ k \in 1..Len(Steps)
    BY <1>1, Constants DEF ExecutionInv, Execution, Acting, Stepping
  <1>3. runs' = [runs EXCEPT ![r].step = k, ![r].status = s]
    BY <1>2 DEF AdvanceCommit, TypeInv, FlowsType
  <1>4. rows' = [rows EXCEPT ![r] = row] BY <1>2 DEF AdvanceCommit, TypeInv, FlowsType
  <1>5. s \in {runs[r].status, "completed"} BY DEF s
  <1>6. runs[r].status \in {"none", "running", "completed", "stopped"}
    BY <1>2 DEF TypeInv, FlowsType
  <1> HIDE DEF r, k, s
  <1>7. k \in 0..Len(Steps) /\ s \in {"none", "running", "completed", "stopped"}
    BY <1>2, <1>5, <1>6, Constants
  <1>8. /\ runs' \in [Runs -> [status: {"none", "running", "completed", "stopped"},
                               step: 0..Len(Steps)]]
        /\ runs'[r].step = k /\ runs'[r].status = s
        /\ \A q \in Runs \ {r} : runs'[q] = runs[q]
    <2> DEFINE mid == [runs EXCEPT ![r].step = k]
               T == [Runs -> [status: {"none", "running", "completed", "stopped"},
                              step: 0..Len(Steps)]]
    <2>1. runs \in T BY DEF TypeInv, FlowsType
    <2>2. mid \in T /\ mid[r].step = k /\ \A q \in Runs \ {r} : mid[q] = runs[q]
      BY <1>2, <1>7, <2>1
    <2>3. runs' = [mid EXCEPT ![r].status = s] BY <1>3
    <2> HIDE DEF mid
    <2> QED BY <1>2, <1>7, <2>2, <2>3
  <1>9. rows[r] \in [1..Len(Steps) -> Nat] BY <1>2 DEF TypeInv, FlowsType
  <1>10. row \in [1..Len(Steps) -> Nat] BY <1>2, <1>9, CountUp
  <1>11. rows' = [rows EXCEPT ![r] = [rows[r] EXCEPT ![k] = rows[r][k] + 1]] BY <1>4
  <1> HIDE DEF row
  <1>12. rows' \in [Runs -> [1..Len(Steps) -> Nat]]
    BY <1>2, <1>4, <1>10 DEF TypeInv, FlowsType
  <1> QED BY <1>1, <1>2, <1>5, <1>8, <1>11, <1>12 DEF FlowsType, r, k

(* Workflows. *)
LEMMA WorkflowType ==
    ASSUME TypeInv, NEW w \in Workers, WorkflowStep(w) PROVE TypeInv'
  <1> USE Untouched, QueueIdle
  <1>1. WorkersInv /\ wk[w] \in Execution BY DEF TypeInv, WorkersInv
  <1>2. ASSUME Moved(w) PROVE WorkersInv' BY <1>1, <1>2, MovedType
  <1>3. CASE StartCommit(w)
    <2>1. Moved(w) /\ NewRun \in Runs BY <1>3, StartCommitMoves
    <2>2. FlowsType' BY <1>3, <2>1, RunType DEF StartCommit, TypeInv, FlowsType
    <2> QED BY <1>2, <1>3, <2>1, <2>2 DEF TypeInv, StartCommit
  <1>4. CASE ScheduleFirst(w)
    <2>1. wk[w].pc = "schedule" BY <1>4 DEF ScheduleFirst
    <2>2. Moved(w) BY <1>1, <1>4, <2>1, DoneMoves DEF ScheduleFirst
    <2>3. wk[w].run \in Runs /\ 1 \in 1..Len(Steps)
      BY <2>1, AtPoint, Constants DEF ExecutionInv
    <2>4. QP!QueueInv' BY <1>4, <2>3, JobIds, QueueStep DEF ScheduleFirst
    <2> QED BY <1>2, <1>4, <2>2, <2>4 DEF TypeInv, ScheduleFirst
  <1>5. CASE StopRun(w) \/ CompleteRun(w)
    <2>1. PICK s \in {"stopped", "completed"} :
             /\ wk[w].pc \in {"stop", "complete"}
             /\ runs' = [runs EXCEPT ![wk[w].run].status = s]
             /\ Done(w)
             /\ UNCHANGED <<lead, rows, handoff, queueVars, others, faults, history>>
      BY <1>5 DEF StopRun, CompleteRun, EndRun
    <2>2. Moved(w) BY <1>1, <2>1, DoneMoves
    <2>3. wk[w].run \in Runs BY <2>1, AtPoint DEF ExecutionInv, Stepping
    <2>4. FlowsType' BY <2>1, <2>3, RunType DEF TypeInv, FlowsType
    <2> QED BY <1>2, <2>1, <2>2, <2>4 DEF TypeInv
  <1>6. CASE ExecuteAction(w)
    <2>1. Moved(w) BY <1>6, ExecuteActionMoves
    <2> QED BY <1>2, <1>6, <2>1 DEF TypeInv, ExecuteAction
  <1>7. CASE ScheduleNext(w)
    <2>1. wk[w].pc = "next" BY <1>7 DEF ScheduleNext
    <2>2. Moved(w) BY <1>1, <1>7, <2>1, GoesMoves DEF ScheduleNext
    <2>3. wk[w].run \in Runs /\ wk[w].idx \in 0..Len(Steps)
      BY <2>1, AtPoint DEF ExecutionInv, Stepping, Execution
    <2>4. QP!QueueInv'
      <3>1. CASE AtEnd(wk[w].idx + 1) BY <1>7, <3>1 DEF ScheduleNext
      <3>2. CASE ~AtEnd(wk[w].idx + 1)
        <4>1. wk[w].idx + 2 \in 1..Len(Steps) BY <2>3, <3>2, Constants DEF AtEnd
        <4> QED BY <1>7, <2>3, <3>2, <4>1, JobIds, QueueStep DEF ScheduleNext
      <3> QED BY <3>1, <3>2
    <2> QED BY <1>2, <1>7, <2>2, <2>4 DEF TypeInv, ScheduleNext
  <1>8. CASE AdvanceCommit(w)
    <2>1. wk[w].pc = "advance" /\ FlowsType' BY <1>8, AdvanceCommitEffect
    <2>2. Moved(w) BY <1>1, <1>8, <2>1, DoneMoves DEF AdvanceCommit
    <2>3. wk[w].key \in Keys \cup {None} BY <1>1 DEF Execution
    <2>4. LeadType' BY <1>8, <2>3 DEF AdvanceCommit, Insert, TypeInv, LeadType
    <2>5. UNCHANGED <<handoff, queueVars, others, faults, history>> BY <1>8 DEF AdvanceCommit
    <2> QED BY <1>2, <2>1, <2>2, <2>4, <2>5 DEF TypeInv
  <1> QED BY <1>3, <1>4, <1>5, <1>6, <1>7, <1>8 DEF WorkflowStep

(* Executions begin. *)
LEMMA TakesType ==
    ASSUME TypeInv, NEW w \in Workers, NEW j \in Jobs, Takes(w, j) PROVE TypeInv'
  <1> USE Untouched
  <1>1. ASSUME Moved(w) PROVE WorkersInv' BY <1>1, MovedType DEF TypeInv
  <1>2. ASSUME NEW m \in Replies, ConversationBegin(w, m) PROVE TypeInv'
    <2>1. Moved(w) BY <1>2, ConversationBeginMoves
    <2>2. QP!QueueInv' BY <1>2, JobIds, QueueStep DEF ConversationBegin
    <2> QED BY <1>1, <1>2, <2>1, <2>2 DEF TypeInv, ConversationBegin
  <1>3. ASSUME NEW t \in Triggers, StartBegin(w, t) PROVE TypeInv'
    <2>1. Moved(w) BY <1>3, StartBeginMoves
    <2>2. QP!QueueInv' BY <1>3, JobIds, QueueStep DEF StartBegin
    <2>3. HistoryType'
      <3>1. raced' \in BOOLEAN
        <4>1. raced' = (raced \/ \E u \in Workers : wk[u].pc = "create")
          BY <1>3 DEF StartBegin, Overlaps
        <4> QED BY <4>1, Zenon
      <3> QED BY <1>3, <3>1 DEF StartBegin, Overlaps, TypeInv, HistoryType
    <2> QED BY <1>1, <1>3, <2>1, <2>2, <2>3 DEF TypeInv, StartBegin, Overlaps
  <1>4. ASSUME NEW r \in Runs, NEW k \in 1..Len(Steps), AdvanceBegin(w, r, k) PROVE TypeInv'
    <2>1. Moved(w) BY <1>4, AdvanceBeginMoves
    <2>2. QP!QueueInv' BY <1>4, JobIds, QueueStep DEF AdvanceBegin
    <2>3. HistoryType' BY <1>4 DEF AdvanceBegin, TypeInv, HistoryType
    <2> QED BY <1>1, <1>4, <2>1, <2>2, <2>3 DEF TypeInv, AdvanceBegin
  <1> QED BY <1>2, <1>3, <1>4 DEF Takes

(* Executions end, or lose their job. *)
LEMMA EndsType ==
    ASSUME TypeInv,
           \/ \E w \in Workers : Finish(w) \/ Throw(w) \/ Crash(w)
           \/ \E j \in Jobs : Stall(j)
    PROVE  TypeInv'
  <1> USE Untouched, QueueIdle, Spent
  <1>1. WorkersInv BY DEF TypeInv
  <1>2. ASSUME Fault \/ UNCHANGED faults, UNCHANGED <<handoff, others>> PROVE OthersType'
    BY <1>2 DEF TypeInv, OthersType, others
  <1>3. ASSUME NEW w \in Workers, Finish(w) PROVE TypeInv'
    <2>1. Moved(w) BY <1>1, <1>3, LeaveMoves DEF Finish
    <2>2. QP!QueueInv' BY <1>3, AtPoint, QueueStep DEF Finish
    <2>3. HistoryType'
      <3>1. wk[w].found \in Found \cup {"none"} BY AtPoint DEF Execution
      <3>2. fate' = [m \in Replies |-> IF wk[w].job = Conv(m) /\ holder[Conv(m)] = w
                                       THEN wk[w].found ELSE fate[m]]
        BY <1>3 DEF Finish
      <3>3. \A m \in Replies : fate[m] \in Found \cup {"none"} BY DEF TypeInv, HistoryType
      <3> HIDE DEF Found
      <3>4. fate' \in [Replies -> Found \cup {"none"}] BY <3>1, <3>2, <3>3
      <3> QED BY <1>3, <3>4 DEF Finish, TypeInv, HistoryType
    <2> QED BY <1>1, <1>3, <2>1, <2>2, <2>3, MovedType DEF TypeInv, Finish
  <1>4. ASSUME NEW w \in Workers, Throw(w) PROVE TypeInv'
    <2>1. Moved(w) BY <1>1, <1>4, LeaveMoves DEF Throw
    <2>2. wk[w].pc # "idle" BY <1>4 DEF Throw, ConversationThrows
    <2>3. QP!QueueInv' BY <1>4, <2>2, AtPoint, QueueStep DEF Throw
    <2>4. OthersType' BY <1>2, <1>4 DEF Throw
    <2> QED BY <1>1, <1>4, <2>1, <2>3, <2>4, MovedType DEF TypeInv, Throw
  <1>5. ASSUME NEW w \in Workers, Crash(w) PROVE TypeInv'
    <2>1. Moved(w) BY <1>1, <1>5, LeaveMoves DEF Crash
    <2>2. OthersType' BY <1>2, <1>5 DEF Crash
    <2> QED BY <1>1, <1>5, <2>1, <2>2, MovedType DEF TypeInv, Crash
  <1>6. ASSUME NEW j \in Jobs, Stall(j) PROVE TypeInv'
    <2>1. QP!QueueInv' BY <1>6, QueueStep DEF Stall
    <2>2. OthersType' BY <1>2, <1>6 DEF Stall
    <2> QED BY <1>1, <1>6, <2>1, <2>2, WorkersIdle DEF TypeInv, Stall
  <1> QED BY <1>3, <1>4, <1>5, <1>6

(* What reaches the lead from outside. *)
LEMMA OutsideType ==
    ASSUME TypeInv,
           \/ FirstTouch \/ InboundStop
           \/ \E m \in Replies : InboundOpens(m) \/ InboundCommits(m) \/ InboundAborts(m)
           \/ \E t \in Triggers : Triggered(t)
           \/ \E s \in Moves : LeadMoves(s)
    PROVE  TypeInv'
  <1> USE Untouched, QueueIdle, Spent, WorkersIdle
  <1>1. CASE FirstTouch
    <2>1. LeadType' BY <1>1 DEF FirstTouch, Inactive, TypeInv, LeadType, LeadState
    <2>2. UNCHANGED <<flows, queueVars, handoff, others, faults, history, wk>>
      BY <1>1 DEF FirstTouch, Inactive
    <2> QED BY <2>1, <2>2 DEF TypeInv
  <1>2. CASE InboundStop
    <2>1. LeadType' BY <1>2 DEF InboundStop, Inactive, TypeInv, LeadType, LeadState
    <2>2. OthersType' BY <1>2 DEF InboundStop, Inactive, TypeInv, OthersType
    <2>3. UNCHANGED <<flows, queueVars, history, wk>> BY <1>2 DEF InboundStop, Inactive
    <2> QED BY <2>1, <2>2, <2>3 DEF TypeInv
  <1>3. ASSUME NEW m \in Replies, InboundOpens(m) PROVE TypeInv'
    <2> DEFINE row == [pc |-> "open", state |-> state]
    <2>1. row \in [pc: {"none", "open", "done", "lost"}, state: LeadState]
      BY DEF TypeInv, LeadType
    <2>2. inbound' = [inbound EXCEPT ![m] = row] BY <1>3 DEF InboundOpens
    <2> HIDE DEF row
    <2>3. OthersType' BY <1>3, <2>1, <2>2 DEF InboundOpens, TypeInv, OthersType
    <2>4. QP!QueueInv' BY <1>3, JobIds, QueueStep DEF InboundOpens
    <2> QED BY <1>3, <2>3, <2>4 DEF TypeInv, InboundOpens
  <1>4. ASSUME NEW m \in Replies, NEW pc \in {"done", "lost"},
               inbound' = [inbound EXCEPT ![m] = [NoTx EXCEPT !.pc = pc]]
        PROVE  inbound' \in [Replies -> [pc: {"none", "open", "done", "lost"}, state: LeadState]]
    <2> DEFINE row == [NoTx EXCEPT !.pc = pc]
    <2>1. row \in [pc: {"none", "open", "done", "lost"}, state: LeadState]
      BY DEF NoTx, LeadState
    <2>2. inbound' = [inbound EXCEPT ![m] = row] BY <1>4
    <2> HIDE DEF row
    <2> QED BY <2>1, <2>2 DEF TypeInv, OthersType
  <1>5. ASSUME NEW m \in Replies, InboundCommits(m) PROVE TypeInv'
    <2>1. LeadType' BY <1>5 DEF InboundCommits, Inactive, TypeInv, LeadType, LeadState
    <2>2. OthersType' BY <1>4, <1>5 DEF InboundCommits, Inactive, TypeInv, OthersType
    <2>3. UNCHANGED <<flows, queueVars, history, wk>> BY <1>5 DEF InboundCommits, Inactive
    <2> QED BY <2>1, <2>2, <2>3 DEF TypeInv
  <1>6. ASSUME NEW m \in Replies, InboundAborts(m) PROVE TypeInv'
    <2>1. OthersType' BY <1>4, <1>6 DEF InboundAborts, TypeInv, OthersType
    <2> QED BY <1>6, <2>1 DEF TypeInv, InboundAborts
  <1>7. ASSUME NEW t \in Triggers, Triggered(t) PROVE TypeInv'
    <2>1. OthersType' BY <1>7 DEF Triggered, TypeInv, OthersType
    <2>2. QP!QueueInv' BY <1>7, JobIds, QueueStep DEF Triggered
    <2> QED BY <1>7, <2>1, <2>2 DEF TypeInv, Triggered
  <1>8. ASSUME NEW s \in Moves, LeadMoves(s) PROVE TypeInv'
    <2>1. s \in LeadState BY EngagementAssumption DEF LeadState
    <2>2. LeadType' BY <1>8, <2>1 DEF LeadMoves, Inactive, TypeInv, LeadType
    <2>3. UNCHANGED <<flows, queueVars, handoff, others, faults, history, wk>>
      BY <1>8 DEF LeadMoves, Inactive
    <2> QED BY <2>2, <2>3 DEF TypeInv
  <1> QED BY <1>1, <1>2, <1>3, <1>5, <1>6, <1>7, <1>8

(* Takeover and resume. *)
LEMMA DeskType == ASSUME TypeInv, TakeoverBegin \/ ResumeBegin \/ Desk PROVE TypeInv'
  <1> USE Untouched, QueueIdle, Spent, WorkersIdle
  <1>1. NoTx \in [pc: {"none", "takeover", "resume"}, state: LeadState]
    BY DEF NoTx, LeadState
  <1>2. CASE TakeoverBegin \/ ResumeBegin
    <2>1. PICK pc \in {"takeover", "resume"} : desk' = [pc |-> pc, state |-> state]
      BY <1>2 DEF TakeoverBegin, ResumeBegin
    <2>2. desk' \in [pc: {"none", "takeover", "resume"}, state: LeadState]
      BY <2>1 DEF TypeInv, LeadType
    <2>3. OthersType' BY <1>2, <2>2 DEF TakeoverBegin, ResumeBegin, TypeInv, OthersType
    <2>4. UNCHANGED <<lead, flows, queueVars, wk, history>>
      BY <1>2 DEF TakeoverBegin, ResumeBegin
    <2> QED BY <2>3, <2>4 DEF TypeInv
  <1>3. CASE TakeoverCommit
    <2>1. desk.state \in LeadState BY DEF TypeInv, OthersType
    <2>2. LeadType'
      BY <1>3, <2>1 DEF TakeoverCommit, Inactive, TypeInv, LeadType, LeadState
    <2>3. FlowsType'
      <3> DEFINE stopped(r) == IF RunNow(r, "running") THEN [runs[r] EXCEPT !.status = "stopped"]
                               ELSE runs[r]
      <3>1. \A r \in Runs : stopped(r) \in [status: {"none", "running", "completed", "stopped"},
                                            step: 0..Len(Steps)]
        BY DEF TypeInv, FlowsType
      <3>2. runs' = [r \in Runs |-> stopped(r)] BY <1>3 DEF TakeoverCommit
      <3> HIDE DEF stopped
      <3> QED BY <1>3, <3>1, <3>2 DEF TakeoverCommit, TypeInv, FlowsType
    <2>4. OthersType' BY <1>1, <1>3 DEF TakeoverCommit, Inactive, TypeInv, OthersType
    <2>5. before' \in LeadState \cup {None}
      BY <1>3 DEF TakeoverCommit, TypeInv, LeadType, HistoryType
    <2>6. unpaused' \in BOOLEAN
      <3>1. unpaused' = (unpaused \/ convo = "none") BY <1>3 DEF TakeoverCommit
      <3> QED BY <3>1, Zenon
    <2>7. UNCHANGED <<queueVars, wk, fate, doubled, raced>>
      BY <1>3 DEF TakeoverCommit, Inactive
    <2> QED BY <2>2, <2>3, <2>4, <2>5, <2>6, <2>7 DEF TypeInv, HistoryType
  <1>4. CASE ResumeCommit
    <2>1. ResumeTo \in LeadState BY DEF ResumeTo, TypeInv, LeadType, LeadState
    <2>2. LeadType' BY <1>4, <2>1 DEF ResumeCommit, Inactive, TypeInv, LeadType
    <2>3. OthersType' BY <1>1, <1>4 DEF ResumeCommit, Inactive, TypeInv, OthersType
    <2>4. UNCHANGED <<flows, queueVars, wk, history>> BY <1>4 DEF ResumeCommit, Inactive
    <2> QED BY <2>2, <2>3, <2>4 DEF TypeInv
  <1>5. CASE DeskThrows
    <2>1. OthersType' BY <1>1, <1>5 DEF DeskThrows, TypeInv, OthersType
    <2>2. UNCHANGED <<lead, flows, queueVars, wk, history>> BY <1>5 DEF DeskThrows
    <2> QED BY <2>1, <2>2 DEF TypeInv
  <1> QED BY <1>2, <1>3, <1>4, <1>5 DEF Desk

(* Every step keeps the types. *)
LEMMA TypeStep == ASSUME TypeInv, [Next]_vars PROVE TypeInv'
  <1>1. CASE UNCHANGED vars
    BY <1>1, Untouched, QueueIdle, WorkersIdle DEF vars, TypeInv, queueVars
  <1>2. ASSUME NEW w \in Workers, Proceeds(w) PROVE TypeInv'
    BY <1>2, ConversationType, WorkflowType, EndsType DEF Proceeds
  <1>3. ASSUME NEW w \in Workers, NEW j \in Jobs, Takes(w, j) PROVE TypeInv'
    BY <1>3, TakesType
  <1>4. CASE Environment
    <2>1. \/ FirstTouch \/ InboundStop
          \/ \E m \in Replies : InboundOpens(m) \/ InboundCommits(m) \/ InboundAborts(m)
          \/ \E t \in Triggers : Triggered(t)
          \/ \E s \in Moves : LeadMoves(s)
          \/ TakeoverBegin \/ ResumeBegin \/ Desk
          \/ \E w \in Workers : Crash(w)
          \/ \E j \in Jobs : Stall(j)
      BY <1>4 DEF Environment
    <2> QED BY <2>1, OutsideType, DeskType, EndsType
  <1> QED BY <1>1, <1>2, <1>3, <1>4 DEF Next

(* A lead as ingestion leaves it is in order. *)
LEMMA TypeInit == ASSUME Init PROVE TypeInv
  <1>1. LeadType BY DEF Init, LeadType, LeadState
  <1>2. FlowsType
    <2> DEFINE run == [status |-> "none", step |-> 0]
               row == [k \in 1..Len(Steps) |-> 0]
    <2>1. run \in [status: {"none", "running", "completed", "stopped"}, step: 0..Len(Steps)]
      BY Constants
    <2>2. row \in [1..Len(Steps) -> Nat] OBVIOUS
    <2>3. runs = [r \in Runs |-> run] /\ rows = [r \in Runs |-> row] BY DEF Init
    <2> HIDE DEF run, row
    <2> QED BY <2>1, <2>2, <2>3 DEF FlowsType
  <1>3. OthersType
    <2>1. NoTx \in [pc: {"none", "open", "done", "lost"}, state: LeadState]
          /\ NoTx \in [pc: {"none", "takeover", "resume"}, state: LeadState]
      BY DEF NoTx, LeadState
    <2>2. handoff = {} /\ desk = NoTx /\ events = Events /\ faults = Faults
          /\ inbound = [m \in Replies |-> NoTx]
      BY DEF Init
    <2> QED BY <2>1, <2>2, EngagementAssumption DEF OthersType
  <1>4. HistoryType BY DEF Init, HistoryType
  <1>5. QP!QueueInv
    <2>1. QP!QueueInit({}) BY DEF Init, Q!QueueInit, QP!QueueInit
    <2> QED BY <2>1, Constants, QP!QueueInitially
  <1>6. WorkersInv
    <2>1. wk = [w \in Workers |-> Idle] BY DEF Init
    <2> QED BY <2>1, IdleType DEF WorkersInv
  <1> QED BY <1>1, <1>2, <1>3, <1>4, <1>5, <1>6 DEF TypeInv

(* At every control point an execution holds the record that belongs to    *)
(* its job: what it sends is a message of its kind, what it writes keeps   *)
(* what it had read.                                                       *)
THEOREM TypeInvariant == Spec => []TypeInv
  <1>1. Init => TypeInv BY TypeInit
  <1>2. TypeInv /\ [Next]_vars => TypeInv' BY TypeStep
  <1> QED BY <1>1, <1>2, PTL DEF Spec

(* The rows, the queues and the executions keep their types. *)
THEOREM TypeCorrect == Spec => []TypeOK
  <1>1. TypeInv => TypeOK
    BY DEF TypeInv, TypeOK, LeadType, FlowsType, OthersType, HistoryType, WorkersInv,
           QP!QueueInv, QP!QueueTypeOK, Q!QueueTypeOK, QP!JobStatus, Q!JobStatus
  <1> QED BY <1>1, TypeInvariant, PTL

-----------------------------------------------------------------------------
(* What a step of each kind leaves alone.                                  *)

(* A worker is left idle. *)
Left(w) == Moved(w) /\ wk'[w].pc = "idle" /\ wk'[w].job = None
                    /\ wk'[w].key = None /\ wk'[w].run = None

(* A conversation touches no run. *)
LEMMA ConversationFrame ==
    ASSUME TypeInv, NEW w \in Workers, ConversationStep(w)
    PROVE  /\ Moved(w)
           /\ wk[w].pc \in Conversing /\ wk[w].job \in ConvJobs
           /\ wk'[w].pc \in Writing \cup {"done"} /\ wk'[w].job = wk[w].job
           /\ UNCHANGED <<previous, suppressed, lastIn, flows, queueVars, others, faults,
                          unpaused, fate, doubled, raced>>
  <1>1. WorkersInv /\ wk[w] \in Execution /\ ExecutionInv(wk[w]) BY DEF TypeInv, WorkersInv
  <1>2. ASSUME wk[w].pc \in Conversing PROVE wk[w].job \in ConvJobs /\ wk[w].pc # "idle"
    BY <1>1, <1>2 DEF ExecutionInv, Conversing
  <1>3. CASE Fallback(w) \/ PauseForHuman(w) \/ \E f \in Turns : Answer(w, f)
    <2>1. /\ Moved(w) /\ wk[w].pc = "decide"
          /\ wk'[w].pc \in {"assign", "converse"} /\ wk'[w].job = wk[w].job
      BY <1>3, DecideMoves
    <2>2. UNCHANGED <<lead, flows, queueVars, others, faults, history>>
      BY <1>3 DEF Fallback, PauseForHuman, Answer
    <2> QED BY <1>2, <2>1, <2>2 DEF Conversing, Writing, lead, history
  <1>4. CASE EnqueueAssign(w) \/ EnqueueCrm(w)
    <2>1. PICK pc \in {"crm", "converse"} :
             /\ \/ wk[w].pc = "assign" /\ pc = "crm"
                \/ wk[w].pc = "crm" /\ pc = "converse"
             /\ Goes(w, pc)
             /\ UNCHANGED <<lead, flows, queueVars, others, faults, history>>
      BY <1>4 DEF EnqueueAssign, EnqueueCrm
    <2>2. Moved(w) /\ wk'[w] = [wk[w] EXCEPT !.pc = pc] BY <1>1, <2>1, GoesMoves
    <2>3. wk'[w].pc = pc /\ wk'[w].job = wk[w].job BY <1>1, <2>2 DEF Execution
    <2> QED BY <1>2, <2>1, <2>2, <2>3 DEF Conversing, Writing, lead, history
  <1>5. CASE LeaveToOptOut(w) \/ ConversationCommit(w)
    <2>1. /\ wk[w].pc \in {"decide", "converse"} /\ Done(w)
          /\ UNCHANGED <<previous, suppressed, lastIn, flows, queueVars, others, faults,
                         unpaused, fate, doubled, raced>>
      BY <1>5 DEF LeaveToOptOut, ConversationCommit, lead, history
    <2>2. Moved(w) /\ wk'[w].pc = "done" /\ wk'[w].job = wk[w].job
      BY <1>1, <2>1, DoneMoves
    <2> QED BY <1>2, <2>1, <2>2 DEF Conversing
  <1> QED BY <1>3, <1>4, <1>5 DEF ConversationStep

(* A workflow touches no more of the lead than the messages sent. *)
LEMMA WorkflowFrame ==
    ASSUME TypeInv, NEW w \in Workers, WorkflowStep(w)
    PROVE  /\ Moved(w)
           /\ wk[w].pc \in {"create", "schedule"} \cup Stepping
           /\ wk'[w].pc \in {"schedule", "next", "advance", "done"} /\ wk'[w].job = wk[w].job
           /\ wk[w].job \in StartJobs \cup StepJobs
           /\ UNCHANGED <<state, previous, qualifiedAt, convo, suppressed, lastIn, answers,
                          handoff, others, faults, history>>
  <1>1. WorkersInv /\ wk[w] \in Execution /\ ExecutionInv(wk[w]) BY DEF TypeInv, WorkersInv
  <1>2. ASSUME wk[w].pc \in {"create", "schedule"} \cup Stepping
        PROVE  wk[w].job \in StartJobs \cup StepJobs /\ wk[w].pc # "idle"
    BY <1>1, <1>2 DEF ExecutionInv, Stepping
  <1>3. CASE StartCommit(w)
    <2>1. Moved(w) /\ wk'[w].pc = "schedule" /\ wk'[w].job = wk[w].job
      BY <1>3, StartCommitMoves
    <2> QED BY <1>2, <1>3, <2>1 DEF StartCommit, lead
  <1>4. CASE ScheduleFirst(w) \/ StopRun(w) \/ CompleteRun(w) \/ AdvanceCommit(w)
    <2>1. /\ wk[w].pc \in {"schedule", "stop", "complete", "advance"} /\ Done(w)
          /\ UNCHANGED <<state, previous, qualifiedAt, convo, suppressed, lastIn, answers,
                         handoff, others, faults, history>>
      BY <1>4 DEF ScheduleFirst, StopRun, CompleteRun, EndRun, AdvanceCommit, lead
    <2>2. wk[w].pc \in {"create", "schedule"} \cup Stepping BY <2>1 DEF Stepping
    <2>3. Moved(w) /\ wk'[w].pc = "done" /\ wk'[w].job = wk[w].job
      BY <1>1, <1>2, <2>1, <2>2, DoneMoves
    <2> QED BY <1>2, <2>1, <2>2, <2>3
  <1>5. CASE ExecuteAction(w)
    <2>1. Moved(w) /\ wk[w].pc = "gate" /\ wk'[w].pc = "next" /\ wk'[w].job = wk[w].job
      BY <1>5, ExecuteActionMoves
    <2> QED BY <1>2, <1>5, <2>1 DEF ExecuteAction, Stepping, lead
  <1>6. CASE ScheduleNext(w)
    <2>1. wk[w].pc = "next" /\ Goes(w, "advance") BY <1>6 DEF ScheduleNext
    <2>2. Moved(w) /\ wk'[w] = [wk[w] EXCEPT !.pc = "advance"] BY <1>1, <2>1, GoesMoves
    <2>3. wk'[w].pc = "advance" /\ wk'[w].job = wk[w].job BY <1>1, <2>2 DEF Execution
    <2> QED BY <1>2, <1>6, <2>1, <2>2, <2>3 DEF ScheduleNext, Stepping, lead
  <1> QED BY <1>3, <1>4, <1>5, <1>6 DEF WorkflowStep

(* An execution that begins has written nothing. *)
LEMMA TakesFrame ==
    ASSUME TypeInv, NEW w \in Workers, NEW j \in Jobs, Takes(w, j)
    PROVE  /\ Moved(w)
           /\ wk[w].pc = "idle" /\ wk'[w].job = j /\ wk'[w].key = None
           /\ wk'[w].pc \in {"decide", "create", "schedule", "stop", "complete", "gate", "done"}
           /\ Q!Take(w, j)
           /\ UNCHANGED <<lead, flows, handoff, others, faults, before, unpaused, fate>>
  <1>1. ASSUME NEW m \in Replies, j = Conv(m), ConversationBegin(w, m)
        PROVE  /\ Moved(w) /\ wk'[w].job = j /\ wk'[w].key = None
               /\ wk'[w].pc \in {"decide", "done"}
    BY <1>1, ConversationBeginMoves
  <1>2. ASSUME NEW t \in Triggers, j = Start(t), StartBegin(w, t)
        PROVE  /\ Moved(w) /\ wk'[w].job = j /\ wk'[w].key = None
               /\ wk'[w].pc \in {"create", "schedule"}
    BY <1>2, StartBeginMoves
  <1>3. ASSUME NEW r \in Runs, NEW k \in 1..Len(Steps), j = Step(r, k), AdvanceBegin(w, r, k)
        PROVE  /\ Moved(w) /\ wk'[w].job = j /\ wk'[w].key = None
               /\ wk'[w].pc \in {"done", "stop", "complete", "gate"}
    BY <1>3, AdvanceBeginMoves
  <1>4. /\ wk[w].pc = "idle" /\ Q!Take(w, j)
        /\ UNCHANGED <<lead, flows, handoff, others, faults, before, unpaused, fate>>
    BY DEF Takes, ConversationBegin, StartBegin, Overlaps, AdvanceBegin, history
  <1> QED BY <1>1, <1>2, <1>3, <1>4 DEF Takes

(* An execution that ends leaves the rows alone. *)
LEMMA EndsFrame ==
    ASSUME TypeInv, NEW w \in Workers, Finish(w) \/ Throw(w)
    PROVE  /\ Left(w) /\ wk[w].pc # "idle"
           /\ UNCHANGED <<lead, flows, handoff, others, before, unpaused, doubled, raced>>
           /\ Throw(w) => UNCHANGED fate
  <1>1. Left(w) BY LeaveMoves DEF TypeInv, Finish, Throw, Left
  <1> QED BY <1>1 DEF Finish, Throw, ConversationThrows, history

(* What reaches the lead from outside takes at most a worker away, and     *)
(* starts no run.                                                          *)
LEMMA EnvironmentFrame ==
    ASSUME TypeInv, Environment
    PROVE  /\ UNCHANGED wk \/ \E w \in Workers : Left(w)
           /\ UNCHANGED <<rows, handoff, qualifiedAt, answers, sent, fate, doubled, raced>>
           /\ \A r \in Runs : /\ runs'[r].step = runs[r].step
                              /\ runs'[r].status # runs[r].status => runs'[r].status = "stopped"
  <1>1. CASE TakeoverCommit
    <2>1. UNCHANGED <<wk, rows, handoff, qualifiedAt, answers, sent, fate, doubled, raced>>
      BY <1>1 DEF TakeoverCommit, Inactive
    <2>2. \A r \in Runs : /\ runs'[r].step = runs[r].step
                          /\ runs'[r].status # runs[r].status => runs'[r].status = "stopped"
      BY <1>1 DEF TakeoverCommit, TypeInv, FlowsType
    <2> QED BY <2>1, <2>2
  <1>2. ASSUME NEW w \in Workers, Crash(w) PROVE Left(w) BY <1>2, LeaveMoves DEF TypeInv, Crash, Left
  <1>3. CASE \E w \in Workers : Crash(w)
    BY <1>2, <1>3 DEF Crash, lead, flows, history
  <1>4. CASE FirstTouch \/ InboundStop \/ (\E m \in Replies : InboundCommits(m))
             \/ (\E s \in Moves : LeadMoves(s)) \/ ResumeCommit
    BY <1>4 DEF FirstTouch, InboundStop, InboundCommits, LeadMoves, ResumeCommit, Inactive,
                flows, history
  <1>5. CASE \/ \E m \in Replies : InboundOpens(m) \/ InboundAborts(m)
             \/ \E t \in Triggers : Triggered(t)
             \/ TakeoverBegin \/ ResumeBegin \/ DeskThrows
             \/ \E j \in Jobs : Stall(j)
    BY <1>5 DEF InboundOpens, InboundAborts, Triggered, TakeoverBegin, ResumeBegin, DeskThrows,
                Stall, lead, flows, history
  <1> QED BY <1>1, <1>3, <1>4, <1>5 DEF Environment, Desk

-----------------------------------------------------------------------------
(* The steps of a run.                                                     *)

(* A worker that executes no step of a run, or goes on with the one it     *)
(* had, disturbs no run.                                                   *)
LEMMA StepsKept ==
    ASSUME TypeInv, StepsInv, NEW w \in Workers, Moved(w),
           UNCHANGED <<rows, doubled>>, \A r \in Runs : runs'[r].step = runs[r].step,
           \/ wk'[w].job \notin StepJobs
           \/ wk'[w].run = None
           \/ /\ wk'[w].job = wk[w].job /\ wk'[w].run = wk[w].run /\ wk'[w].idx = wk[w].idx
              /\ wk'[w].pc \in Acting => wk[w].pc \in Acting
    PROVE  StepsInv'
  <1>1. ExecutionInv(wk'[w]) /\ \A u \in Workers \ {w} : wk'[u] = wk[u] BY DEF Moved
  <1>2. wk'[w].pc \in Acting => wk'[w].job \in StepJobs
    BY <1>1 DEF ExecutionInv, Acting, Stepping
  <1>3. \A r \in Runs : r # None BY Constants
  <1> SUFFICES ASSUME NEW r \in Runs \ doubled
               PROVE  /\ \A u, v \in Workers :
                           /\ wk'[u].run = r /\ wk'[u].job \in StepJobs
                           /\ wk'[v].run = r /\ wk'[v].job \in StepJobs
                           => u = v
                      /\ \A u \in Workers : wk'[u].run = r /\ wk'[u].pc \in Acting
                                              => wk'[u].idx = runs'[r].step
                      /\ \A k \in 1..Len(Steps) :
                           rows'[r][k] = IF k <= runs'[r].step THEN 1 ELSE 0
    BY DEF StepsInv
  <1>4. \A u \in Workers : wk'[u].run = r /\ wk'[u].job \in StepJobs
                             => wk[u].run = r /\ wk[u].job \in StepJobs
    BY <1>1, <1>3
  <1>5. \A u \in Workers : wk'[u].run = r /\ wk'[u].pc \in Acting
                             => /\ wk[u].run = r /\ wk[u].pc \in Acting
                                /\ wk'[u].idx = wk[u].idx
    BY <1>1, <1>2, <1>3
  <1> QED BY <1>4, <1>5 DEF StepsInv

(* A step job that begins on a run another worker is at marks it; one that *)
(* begins alone reads the counter.                                         *)
LEMMA StepsBegin ==
    ASSUME TypeInv, StepsInv, NEW w \in Workers, NEW r \in Runs, NEW k \in 1..Len(Steps),
           AdvanceBegin(w, r, k)
    PROVE  StepsInv'
  <1>1. /\ Moved(w) /\ wk'[w].run \in {r, None}
        /\ wk'[w].pc \in {"done", "stop", "complete", "gate"}
        /\ wk'[w].pc = "gate" => wk'[w].idx = runs[r].step
    BY AdvanceBeginMoves
  <1>2. UNCHANGED flows
        /\ doubled' = IF \E u \in Workers : wk[u].run = r /\ wk[u].job \in StepJobs
                      THEN doubled \cup {r} ELSE doubled
    BY DEF AdvanceBegin
  <1>3. \A u \in Workers \ {w} : wk'[u] = wk[u] BY <1>1 DEF Moved
  <1> SUFFICES ASSUME NEW q \in Runs \ doubled'
               PROVE  /\ \A u, v \in Workers :
                           /\ wk'[u].run = q /\ wk'[u].job \in StepJobs
                           /\ wk'[v].run = q /\ wk'[v].job \in StepJobs
                           => u = v
                      /\ \A u \in Workers : wk'[u].run = q /\ wk'[u].pc \in Acting
                                              => wk'[u].idx = runs'[q].step
                      /\ \A i \in 1..Len(Steps) :
                           rows'[q][i] = IF i <= runs'[q].step THEN 1 ELSE 0
    BY DEF StepsInv
  <1>4. q \notin doubled /\ None # q BY <1>2, Constants
  <1>5. q = r => ~\E u \in Workers : wk[u].run = r /\ wk[u].job \in StepJobs BY <1>2
  <1>6. \A u, v \in Workers :
           /\ wk'[u].run = q /\ wk'[u].job \in StepJobs
           /\ wk'[v].run = q /\ wk'[v].job \in StepJobs
           => u = v
    BY <1>1, <1>3, <1>4, <1>5 DEF StepsInv
  <1>7. \A u \in Workers : wk'[u].run = q /\ wk'[u].pc \in Acting => wk'[u].idx = runs'[q].step
    <2> SUFFICES ASSUME NEW u \in Workers, wk'[u].run = q, wk'[u].pc \in Acting
                 PROVE  wk'[u].idx = runs'[q].step
      OBVIOUS
    <2>1. runs' = runs BY <1>2 DEF flows
    <2>2. CASE u = w
      <3>1. wk'[w].pc = "gate" /\ q = r BY <1>1, <1>4, <2>2 DEF Acting
      <3> QED BY <1>1, <2>1, <2>2, <3>1
    <2>3. CASE u # w BY <1>3, <1>4, <2>1, <2>3 DEF StepsInv
    <2> QED BY <2>2, <2>3
  <1> QED BY <1>2, <1>4, <1>6, <1>7 DEF StepsInv, flows

(* The commit counts the step at the counter, and moves the counter past   *)
(* it.                                                                     *)
LEMMA StepsCommit ==
    ASSUME TypeInv, StepsInv, NEW w \in Workers, AdvanceCommit(w) PROVE StepsInv'
  <1> DEFINE r == wk[w].run
             k == wk[w].idx + 1
  <1>1. /\ wk[w].pc = "advance" /\ r \in Runs /\ k \in 1..Len(Steps)
        /\ rows' = [rows EXCEPT ![r] = [rows[r] EXCEPT ![k] = rows[r][k] + 1]]
        /\ runs'[r].step = k
        /\ \A q \in Runs \ {r} : runs'[q] = runs[q]
    BY AdvanceCommitEffect
  <1>2. wk[w] \in Execution /\ ExecutionInv(wk[w]) BY AtPoint
  <1>3. wk[w].pc \in Acting /\ wk[w].job \in StepJobs
    BY <1>1, <1>2 DEF ExecutionInv, Acting, Stepping
  <1>4. Moved(w) /\ wk'[w].run = None /\ wk'[w].pc = "done"
    BY <1>1, DoneMoves DEF AdvanceCommit, TypeInv
  <1>5. UNCHANGED doubled BY DEF AdvanceCommit, history
  <1>6. \A u \in Workers \ {w} : wk'[u] = wk[u] BY <1>4 DEF Moved
  <1> SUFFICES ASSUME NEW q \in Runs \ doubled
               PROVE  /\ \A u, v \in Workers :
                           /\ wk'[u].run = q /\ wk'[u].job \in StepJobs
                           /\ wk'[v].run = q /\ wk'[v].job \in StepJobs
                           => u = v
                      /\ \A u \in Workers : wk'[u].run = q /\ wk'[u].pc \in Acting
                                              => wk'[u].idx = runs'[q].step
                      /\ \A i \in 1..Len(Steps) :
                           rows'[q][i] = IF i <= runs'[q].step THEN 1 ELSE 0
    BY <1>5 DEF StepsInv
  <1>7. None # q BY Constants
  <1>8. \A u, v \in Workers :
           /\ wk'[u].run = q /\ wk'[u].job \in StepJobs
           /\ wk'[v].run = q /\ wk'[v].job \in StepJobs
           => u = v
    BY <1>4, <1>6, <1>7 DEF StepsInv
  <1>9. CASE q # r
    <2>1. runs'[q] = runs[q] /\ rows'[q] = rows[q] BY <1>1, <1>9 DEF TypeInv, FlowsType
    <2> QED BY <1>4, <1>6, <1>7, <1>8, <2>1 DEF StepsInv
  <1>10. CASE q = r
    <2>1. wk[w].idx = runs[q].step /\ k = runs[q].step + 1 BY <1>3, <1>10 DEF StepsInv
    <2>2. \A u \in Workers : wk'[u].run = q => wk'[u].pc \notin Acting
      <3> SUFFICES ASSUME NEW u \in Workers, wk'[u].run = q, wk'[u].pc \in Acting PROVE FALSE
        OBVIOUS
      <3>1. u # w BY <1>4, <1>7
      <3>2. wk[u].run = q /\ wk[u].pc \in Acting BY <1>6, <3>1
      <3>3. wk[u].job \in StepJobs BY <3>2, AtPoint DEF ExecutionInv, Acting, Stepping
      <3> QED BY <1>3, <1>10, <3>1, <3>2, <3>3 DEF StepsInv
    <2>3. \A i \in 1..Len(Steps) : rows'[q][i] = IF i <= runs'[q].step THEN 1 ELSE 0
      <3> SUFFICES ASSUME NEW i \in 1..Len(Steps)
                   PROVE  rows'[q][i] = IF i <= runs'[q].step THEN 1 ELSE 0
        OBVIOUS
      <3>1. runs'[q].step = k BY <1>1, <1>10
      <3>2. rows[q] \in [1..Len(Steps) -> Nat] /\ runs[q].step \in 0..Len(Steps)
        BY DEF TypeInv, FlowsType
      <3>3. rows'[q] = [rows[q] EXCEPT ![k] = rows[q][k] + 1]
        BY <1>1, <1>10 DEF TypeInv, FlowsType
      <3>4. \A j \in 1..Len(Steps) : rows[q][j] = IF j <= runs[q].step THEN 1 ELSE 0
        BY DEF StepsInv
      <3>5. k \in Nat /\ i \in Nat /\ Len(Steps) \in Nat BY <1>1, Constants
      <3>6. CASE i = k BY <1>1, <2>1, <3>1, <3>2, <3>3, <3>4, <3>5, <3>6
      <3>7. CASE i # k
        <4>1. rows'[q][i] = rows[q][i] BY <3>2, <3>3, <3>7
        <4>2. i <= k <=> i <= runs[q].step BY <2>1, <3>2, <3>5, <3>7
        <4> QED BY <3>1, <3>4, <4>1, <4>2
      <3> QED BY <3>6, <3>7
    <2> QED BY <1>8, <2>2, <2>3
  <1> QED BY <1>9, <1>10

(* Every step keeps StepsInv. *)
LEMMA StepsStep == ASSUME TypeInv, StepsInv, [Next]_vars PROVE StepsInv'
  <1>1. CASE UNCHANGED vars BY <1>1 DEF vars, flows, history, StepsInv
  <1>2. CASE Environment
    <2>1. /\ UNCHANGED wk \/ \E w \in Workers : Left(w)
          /\ UNCHANGED <<rows, doubled>> /\ \A r \in Runs : runs'[r].step = runs[r].step
      BY <1>2, EnvironmentFrame
    <2>2. CASE UNCHANGED wk BY <2>1, <2>2 DEF StepsInv
    <2>3. CASE \E w \in Workers : Left(w) BY <2>1, <2>3, StepsKept DEF Left
    <2> QED BY <2>1, <2>2, <2>3
  <1>3. ASSUME NEW w \in Workers, Finish(w) \/ Throw(w) PROVE StepsInv'
    BY <1>3, EndsFrame, StepsKept DEF Left, flows
  <1>4. ASSUME NEW w \in Workers, ConversationStep(w) PROVE StepsInv'
    <2>1. /\ Moved(w) /\ wk[w].job \in ConvJobs /\ wk'[w].job = wk[w].job
          /\ UNCHANGED <<flows, doubled>>
      BY <1>4, ConversationFrame
    <2> QED BY <2>1, JobIds, StepsKept DEF flows
  <1>5. ASSUME NEW w \in Workers, WorkflowStep(w) PROVE StepsInv'
    <2>1. /\ Moved(w) /\ UNCHANGED doubled /\ wk'[w].job = wk[w].job
      BY <1>5, WorkflowFrame DEF history
    <2>2. wk[w] \in Execution /\ ExecutionInv(wk[w]) BY AtPoint
    <2>3. CASE StartCommit(w)
      <3>1. wk[w].job \in StartJobs BY <2>2, <2>3 DEF StartCommit, ExecutionInv
      <3>2. rows' = rows /\ \A r \in Runs : runs'[r].step = runs[r].step
        BY <2>3, StartCommitMoves DEF StartCommit, TypeInv, FlowsType
      <3> QED BY <2>1, <3>1, <3>2, JobIds, StepsKept
    <2>4. CASE ScheduleFirst(w) \/ StopRun(w) \/ CompleteRun(w)
      <3>1. Done(w) /\ wk[w].pc # "idle"
        BY <2>4 DEF ScheduleFirst, StopRun, CompleteRun, EndRun
      <3>2. wk'[w].run = None BY <3>1, DoneMoves DEF TypeInv
      <3>3. rows' = rows /\ \A r \in Runs : runs'[r].step = runs[r].step
        <4>1. CASE ScheduleFirst(w) BY <4>1 DEF ScheduleFirst, flows
        <4>2. CASE StopRun(w) BY <4>2 DEF StopRun, EndRun, TypeInv, FlowsType
        <4>3. CASE CompleteRun(w) BY <4>3 DEF CompleteRun, EndRun, TypeInv, FlowsType
        <4> QED BY <2>4, <4>1, <4>2, <4>3
      <3> QED BY <2>1, <3>2, <3>3, StepsKept
    <2>5. CASE ExecuteAction(w)
      <3>1. /\ wk[w].pc = "gate" /\ wk'[w].run = wk[w].run /\ wk'[w].idx = wk[w].idx
            /\ UNCHANGED flows
        BY <2>5, ExecuteActionMoves DEF ExecuteAction
      <3> QED BY <2>1, <3>1, StepsKept DEF Acting, flows
    <2>6. CASE ScheduleNext(w)
      <3>1. wk[w].pc = "next" /\ UNCHANGED flows BY <2>6 DEF ScheduleNext
      <3>2. wk'[w] = [wk[w] EXCEPT !.pc = "advance"]
        BY <2>6, <3>1, GoesMoves DEF ScheduleNext, TypeInv
      <3>3. wk'[w].run = wk[w].run /\ wk'[w].idx = wk[w].idx BY <2>2, <3>2 DEF Execution
      <3> QED BY <2>1, <3>1, <3>3, StepsKept DEF Acting, flows
    <2>7. CASE AdvanceCommit(w) BY <2>7, StepsCommit
    <2> QED BY <1>5, <2>3, <2>4, <2>5, <2>6, <2>7 DEF WorkflowStep
  <1>6. ASSUME NEW w \in Workers, NEW j \in Jobs, Takes(w, j) PROVE StepsInv'
    <2>1. Moved(w) /\ wk'[w].job = j /\ UNCHANGED flows BY <1>6, TakesFrame
    <2>2. ASSUME NEW m \in Replies, j = Conv(m), ConversationBegin(w, m) PROVE StepsInv'
      BY <2>1, <2>2, JobIds, StepsKept DEF ConversationBegin, flows, history
    <2>3. ASSUME NEW t \in Triggers, j = Start(t), StartBegin(w, t) PROVE StepsInv'
      BY <2>1, <2>3, JobIds, StepsKept DEF StartBegin, Overlaps, flows
    <2> QED BY <1>6, <2>2, <2>3, StepsBegin DEF Takes
  <1> QED BY <1>1, <1>2, <1>3, <1>4, <1>5, <1>6 DEF Next, Proceeds

(* Whatever is retried, crashes or stalls, a run whose executions did not  *)
(* overlap has executed each step below its counter once and none above.   *)
THEOREM StepsAreExecutedOnce == Spec => []StepsOnceInOrder
  <1>1. Init => StepsInv
    <2> SUFFICES ASSUME Init PROVE StepsInv OBVIOUS
    <2>1. \A w \in Workers : wk[w].run = None /\ wk[w].pc = "idle" BY DEF Init, Idle
    <2>2. \A r \in Runs : runs[r].step = 0 /\ \A k \in 1..Len(Steps) : rows[r][k] = 0
      BY DEF Init
    <2>3. \A k \in 1..Len(Steps) : ~(k <= 0) BY Constants
    <2>4. \A r \in Runs : r # None BY Constants
    <2> QED BY <2>1, <2>2, <2>3, <2>4 DEF StepsInv, Acting
  <1>2. TypeInv /\ StepsInv /\ [Next]_vars => StepsInv' BY StepsStep
  <1>3. StepsInv => StepsOnceInOrder BY DEF StepsInv, StepsOnceInOrder
  <1> QED BY <1>1, <1>2, <1>3, TypeInvariant, PTL DEF Spec

-----------------------------------------------------------------------------
(* One running run.                                                        *)

(* A worker that goes elsewhere than to an insertion, and a run that ends, *)
(* leave one running run.                                                  *)
LEMMA StartKept ==
    ASSUME StartInv, NEW w \in Workers, Moved(w), wk'[w].pc # "create",
           UNCHANGED raced, Running' \subseteq Running
    PROVE  StartInv'
  <1>1. \A u \in Workers : wk'[u].pc = "create" => wk[u].pc = "create" BY DEF Moved
  <1> HIDE DEF Running
  <1> QED BY <1>1 DEF StartInv

(* A start that looks while none is at its insertion is the only one. *)
LEMMA StartBegins ==
    ASSUME TypeInv, StartInv, NEW w \in Workers, NEW t \in Triggers, StartBegin(w, t)
    PROVE  StartInv'
  <1>1. /\ Moved(w)
        /\ \/ wk'[w].pc = "create" /\ Running = {}
           \/ wk'[w].pc = "schedule"
    BY StartBeginMoves
  <1>2. /\ raced' = (raced \/ \E u \in Workers : wk[u].pc = "create")
        /\ UNCHANGED runs
    BY DEF StartBegin, Overlaps, flows
  <1>3. Running' = Running BY <1>2 DEF Running, RunNow
  <1>4. \A u \in Workers \ {w} : wk'[u] = wk[u] BY <1>1 DEF Moved
  <1> SUFFICES ASSUME ~raced'
               PROVE  /\ \A u, v \in Workers : wk'[u].pc = "create" /\ wk'[v].pc = "create" => u = v
                      /\ \A u \in Workers : wk'[u].pc = "create" => Running' = {}
                      /\ \A r, q \in Running' : r = q
    BY DEF StartInv
  <1>5. ~raced /\ \A u \in Workers : wk[u].pc # "create" BY <1>2
  <1> HIDE DEF Running
  <1>6. \A u \in Workers : wk'[u].pc = "create" => u = w /\ Running = {}
    BY <1>1, <1>4, <1>5
  <1> QED BY <1>3, <1>5, <1>6 DEF StartInv

(* The one at its insertion inserts the one running run. *)
LEMMA StartCommits ==
    ASSUME TypeInv, StartInv, NEW w \in Workers, StartCommit(w) PROVE StartInv'
  <1>1. Moved(w) /\ NewRun \in Runs /\ wk'[w].pc = "schedule" BY StartCommitMoves
  <1>2. /\ wk[w].pc = "create" /\ UNCHANGED raced
        /\ runs' = [runs EXCEPT ![NewRun].status = "running"]
    BY DEF StartCommit, history
  <1>3. \A u \in Workers \ {w} : wk'[u] = wk[u] BY <1>1 DEF Moved
  <1>4. Running' \subseteq Running \cup {NewRun}
    BY <1>1, <1>2 DEF Running, RunNow, TypeInv, FlowsType
  <1> HIDE DEF Running
  <1>5. ASSUME ~raced PROVE Running = {} /\ \A u \in Workers : wk'[u].pc # "create"
    BY <1>1, <1>2, <1>3, <1>5 DEF StartInv
  <1> QED BY <1>2, <1>4, <1>5 DEF StartInv

(* Every step keeps StartInv. *)
LEMMA StartStep == ASSUME TypeInv, StartInv, [Next]_vars PROVE StartInv'
  <1>1. ASSUME UNCHANGED runs PROVE Running' \subseteq Running
    BY <1>1 DEF Running, RunNow
  <1>2. CASE UNCHANGED vars
    BY <1>2 DEF vars, flows, history, StartInv, Running, RunNow
  <1>3. CASE Environment
    <2>1. UNCHANGED wk \/ \E w \in Workers : Left(w) BY <1>3, EnvironmentFrame
    <2>2. UNCHANGED raced BY <1>3, EnvironmentFrame
    <2>3. Running' \subseteq Running BY <1>3, EnvironmentFrame DEF Running, RunNow
    <2>4. CASE UNCHANGED wk
      <3> HIDE DEF Running
      <3> QED BY <2>2, <2>3, <2>4 DEF StartInv
    <2>5. CASE \E w \in Workers : Left(w) BY <2>2, <2>3, <2>5, StartKept DEF Left
    <2> QED BY <2>1, <2>4, <2>5
  <1>4. ASSUME NEW w \in Workers, Finish(w) \/ Throw(w) PROVE StartInv'
    <2>1. Left(w) /\ UNCHANGED <<runs, raced>> BY <1>4, EndsFrame DEF flows
    <2> QED BY <1>1, <2>1, StartKept DEF Left
  <1>5. ASSUME NEW w \in Workers, ConversationStep(w) PROVE StartInv'
    <2>1. Moved(w) /\ wk'[w].pc \in Writing \cup {"done"} /\ UNCHANGED <<runs, raced>>
      BY <1>5, ConversationFrame DEF flows
    <2> QED BY <1>1, <2>1, StartKept DEF Writing
  <1>6. ASSUME NEW w \in Workers, WorkflowStep(w) PROVE StartInv'
    <2>1. /\ Moved(w) /\ wk'[w].pc \in {"schedule", "next", "advance", "done"}
          /\ UNCHANGED raced
      BY <1>6, WorkflowFrame DEF history
    <2>2. CASE StartCommit(w) BY <2>2, StartCommits
    <2>3. ASSUME Running' \subseteq Running PROVE StartInv'
      BY <2>1, <2>3, StartKept
    <2>4. CASE ScheduleFirst(w) \/ ExecuteAction(w) \/ ScheduleNext(w)
      BY <1>1, <2>3, <2>4 DEF ScheduleFirst, ExecuteAction, ScheduleNext, flows
    <2>5. CASE StopRun(w) \/ CompleteRun(w)
      <3>1. PICK s \in {"stopped", "completed"} : runs' = [runs EXCEPT ![wk[w].run].status = s]
        BY <2>5 DEF StopRun, CompleteRun, EndRun
      <3>2. Running' \subseteq Running
        BY <3>1 DEF Running, RunNow, TypeInv, FlowsType
      <3> QED BY <2>3, <3>2
    <2>6. CASE AdvanceCommit(w)
      <3>1. /\ runs'[wk[w].run].status \in {runs[wk[w].run].status, "completed"}
            /\ \A q \in Runs \ {wk[w].run} : runs'[q] = runs[q]
        BY <2>6, AdvanceCommitEffect
      <3>2. Running' \subseteq Running BY <3>1 DEF Running, RunNow
      <3> QED BY <2>3, <3>2
    <2> QED BY <1>6, <2>2, <2>4, <2>5, <2>6 DEF WorkflowStep
  <1>7. ASSUME NEW w \in Workers, NEW j \in Jobs, Takes(w, j) PROVE StartInv'
    <2>1. Moved(w) /\ UNCHANGED runs BY <1>7, TakesFrame DEF flows
    <2>2. ASSUME NEW m \in Replies, ConversationBegin(w, m) PROVE StartInv'
      <3>1. wk'[w].pc # "create" BY <2>2, ConversationBeginMoves
      <3> QED BY <1>1, <2>1, <2>2, <3>1, StartKept DEF ConversationBegin, history
    <2>3. ASSUME NEW r \in Runs, NEW k \in 1..Len(Steps), AdvanceBegin(w, r, k) PROVE StartInv'
      <3>1. wk'[w].pc # "create" BY <2>3, AdvanceBeginMoves
      <3> QED BY <1>1, <2>1, <2>3, <3>1, StartKept DEF AdvanceBegin
    <2> QED BY <1>7, <2>2, <2>3, StartBegins DEF Takes
  <1> QED BY <1>2, <1>3, <1>4, <1>5, <1>6, <1>7 DEF Next, Proceeds

(* One run of a workflow is active for a lead, unless two starts           *)
(* overlapped: no index of the database is needed as long as they do not.  *)
THEOREM OneRunIsActive == Spec => []OneRunningRun
  <1>1. Init => StartInv
    <2> SUFFICES ASSUME Init PROVE StartInv OBVIOUS
    <2>1. \A w \in Workers : wk[w].pc = "idle" BY DEF Init, Idle
    <2>2. Running = {} BY DEF Init, Running, RunNow
    <2> QED BY <2>1, <2>2 DEF StartInv
  <1>2. TypeInv /\ StartInv /\ [Next]_vars => StartInv' BY StartStep
  <1>3. StartInv => OneRunningRun BY DEF StartInv, OneRunningRun, Running
  <1> QED BY <1>1, <1>2, <1>3, TypeInvariant, PTL DEF Spec

-----------------------------------------------------------------------------
(* The hand-off of a qualified lead.                                       *)

(* A worker that is not at the CRM's job or at its commit relies on no     *)
(* hand-off.                                                               *)
LEMMA HandoffKept ==
    ASSUME HandoffInv, NEW w \in Workers, Moved(w), wk'[w].pc \notin {"crm", "converse"},
           UNCHANGED <<qualifiedAt, handoff>>
    PROVE  HandoffInv'
  <1>1. \A u \in Workers \ {w} : wk'[u] = wk[u] BY DEF Moved
  <1> QED BY <1>1 DEF HandoffInv, Qualifies

(* The conversation adds the two jobs one after the other. *)
LEMMA HandoffConversation ==
    ASSUME TypeInv, HandoffInv, NEW w \in Workers, ConversationStep(w) PROVE HandoffInv'
  <1>1. Moved(w) BY ConversationFrame
  <1>2. \A u \in Workers \ {w} : wk'[u] = wk[u] BY <1>1 DEF Moved
  <1>3. wk[w] \in Execution /\ WorkersInv /\ handoff \subseteq {"assign", "crm"}
    BY AtPoint DEF TypeInv, OthersType
  <1>4. CASE Fallback(w) \/ PauseForHuman(w) \/ \E f \in Turns : Answer(w, f)
    <2>1. /\ wk'[w].pc \in {"assign", "converse"}
          /\ wk'[w].pc = "converse" => ~Qualifies(wk'[w])
      BY <1>4, DecideMoves
    <2>2. UNCHANGED <<qualifiedAt, handoff>>
      BY <1>4 DEF Fallback, PauseForHuman, Answer, lead
    <2> HIDE DEF Qualifies
    <2> QED BY <1>2, <2>1, <2>2 DEF HandoffInv
  <1>5. CASE LeaveToOptOut(w)
    <2>1. wk'[w].pc = "done" BY <1>3, <1>5, DoneMoves DEF LeaveToOptOut
    <2> QED BY <1>1, <1>5, <2>1, HandoffKept DEF LeaveToOptOut, lead
  <1>6. CASE EnqueueAssign(w)
    <2>1. wk[w].pc = "assign" /\ handoff' = handoff \cup {"assign"} /\ UNCHANGED qualifiedAt
      BY <1>6 DEF EnqueueAssign, lead
    <2>2. wk'[w] = [wk[w] EXCEPT !.pc = "crm"] BY <1>3, <1>6, <2>1, GoesMoves DEF EnqueueAssign
    <2>3. wk'[w].pc = "crm" BY <1>3, <2>2 DEF Execution
    <2> QED BY <1>2, <1>3, <2>1, <2>3 DEF HandoffInv
  <1>7. CASE EnqueueCrm(w)
    <2>1. wk[w].pc = "crm" /\ handoff' = handoff \cup {"crm"} /\ UNCHANGED qualifiedAt
      BY <1>7 DEF EnqueueCrm, lead
    <2>2. handoff' = {"assign", "crm"} BY <1>3, <2>1 DEF HandoffInv
    <2> QED BY <1>2, <2>1, <2>2 DEF HandoffInv
  <1>8. CASE ConversationCommit(w)
    <2>1. /\ wk[w].pc = "converse" /\ UNCHANGED handoff
          /\ qualifiedAt' = (qualifiedAt \/ Qualifies(wk[w]))
      BY <1>8 DEF ConversationCommit
    <2>2. wk'[w].pc = "done" BY <1>3, <1>8, <2>1, DoneMoves DEF ConversationCommit
    <2> HIDE DEF Qualifies
    <2>3. qualifiedAt' => handoff = {"assign", "crm"} BY <2>1 DEF HandoffInv
    <2> QED BY <1>2, <2>1, <2>2, <2>3 DEF HandoffInv
  <1> QED BY <1>4, <1>5, <1>6, <1>7, <1>8 DEF ConversationStep

(* Every step keeps HandoffInv. *)
LEMMA HandoffStep == ASSUME TypeInv, HandoffInv, [Next]_vars PROVE HandoffInv'
  <1>1. CASE UNCHANGED vars BY <1>1 DEF vars, lead, HandoffInv, Qualifies
  <1>2. CASE Environment
    <2>1. /\ UNCHANGED wk \/ \E w \in Workers : Left(w)
          /\ UNCHANGED <<qualifiedAt, handoff>>
      BY <1>2, EnvironmentFrame
    <2>2. CASE UNCHANGED wk BY <2>1, <2>2 DEF HandoffInv, Qualifies
    <2>3. CASE \E w \in Workers : Left(w) BY <2>1, <2>3, HandoffKept DEF Left
    <2> QED BY <2>1, <2>2, <2>3
  <1>3. ASSUME NEW w \in Workers, Finish(w) \/ Throw(w) PROVE HandoffInv'
    BY <1>3, EndsFrame, HandoffKept DEF Left, lead
  <1>4. ASSUME NEW w \in Workers, WorkflowStep(w) PROVE HandoffInv'
    BY <1>4, WorkflowFrame, HandoffKept
  <1>5. ASSUME NEW w \in Workers, NEW j \in Jobs, Takes(w, j) PROVE HandoffInv'
    BY <1>5, TakesFrame, HandoffKept DEF lead
  <1> QED BY <1>1, <1>2, <1>3, <1>4, <1>5, HandoffConversation DEF Next, Proceeds

(* A qualified lead has been handed to routing and to the CRM, at whatever *)
(* step a process died.                                                    *)
THEOREM QualifiedGoesToPeople == Spec => []QualifiedIsHandedOff
  <1>1. Init => HandoffInv BY DEF Init, HandoffInv, Idle
  <1>2. TypeInv /\ HandoffInv /\ [Next]_vars => HandoffInv' BY HandoffStep
  <1>3. HandoffInv => QualifiedIsHandedOff BY DEF HandoffInv, QualifiedIsHandedOff
  <1> QED BY <1>1, <1>2, <1>3, TypeInvariant, PTL DEF Spec

-----------------------------------------------------------------------------
(* Takeover and opt-out.                                                   *)

(* What is known of a suppression or of an unpaused takeover stays known. *)
LEMMA InformedKept ==
    ASSUME PauseInv, suppressed => suppressed', unpaused => unpaused',
           \/ UNCHANGED wk
           \/ \E w \in Workers : Moved(w) /\ wk'[w].pc \notin Conversing
    PROVE  \A w \in Workers : Informed(wk[w])'
  <1>1. CASE UNCHANGED wk BY <1>1 DEF PauseInv, Informed
  <1>2. ASSUME NEW w \in Workers, Moved(w), wk'[w].pc \notin Conversing
        PROVE  \A u \in Workers : Informed(wk[u])'
    BY <1>2 DEF PauseInv, Informed, Moved
  <1> QED BY <1>1, <1>2

(* The rows the invariant is about. *)
LEMMA LeadKept ==
    ASSUME LeadInv, UNCHANGED <<previous, desk, state, suppressed, convo, unpaused, before>>
    PROVE  LeadInv'
  BY DEF LeadInv

(* No transaction of the desk remembers an opt-out, or gives a lead back   *)
(* to the desk; a takeover pauses the conversation there is.               *)
LEMMA PauseDesk ==
    ASSUME TypeInv, PauseInv, TakeoverBegin \/ ResumeBegin \/ Desk PROVE PauseInv'
  <1>1. LeadInv BY DEF PauseInv
  <1>2. NoTx.pc = "none" BY DEF NoTx
  <1>3. UNCHANGED <<wk, suppressed>>
    BY DEF TakeoverBegin, ResumeBegin, Desk, TakeoverCommit, ResumeCommit, DeskThrows, Inactive,
           lead
  <1>4. CASE TakeoverBegin \/ ResumeBegin
    <2>1. UNCHANGED <<previous, state, convo, unpaused, before>>
      BY <1>4 DEF TakeoverBegin, ResumeBegin, lead, history
    <2>2. desk'.pc = "takeover" => desk'.state # "opted_out"
      BY <1>4 DEF TakeoverBegin, ResumeBegin
    <2>3. LeadInv' BY <1>1, <1>3, <2>1, <2>2 DEF LeadInv
    <2> QED BY <1>3, <2>1, <2>3, InformedKept DEF PauseInv
  <1>5. CASE TakeoverCommit
    <2>1. /\ desk.pc = "takeover" /\ desk' = NoTx
          /\ convo' = IF convo = "active" THEN "paused" ELSE convo
          /\ unpaused' = (unpaused \/ convo = "none")
          /\ IF desk.state # "human_owned"
             THEN /\ state' = "human_owned" /\ previous' = desk.state
                  /\ before' = IF state = desk.state THEN state ELSE None
             ELSE UNCHANGED <<state, previous, before>>
      BY <1>5 DEF TakeoverCommit
    <2>2. convo \in {"none", "active", "paused"} BY DEF TypeInv, LeadType
    <2>3. unpaused => unpaused' BY <2>1
    <2>4. convo' # "paused" => unpaused'
      BY <2>1, <2>2
    <2>5. previous' \notin {"human_owned", "opted_out"} BY <1>1, <2>1 DEF LeadInv
    <2>6. state' = "human_owned" /\ before' # None => previous' = before'
      BY <1>1, <2>1 DEF LeadInv
    <2>7. state' = "opted_out" => suppressed' BY <1>1, <1>3, <2>1 DEF LeadInv
    <2>8. LeadInv' BY <1>2, <2>1, <2>4, <2>5, <2>6, <2>7 DEF LeadInv
    <2> QED BY <1>3, <2>3, <2>8, InformedKept DEF PauseInv
  <1>6. CASE ResumeCommit
    <2>1. /\ desk' = NoTx /\ state' = ResumeTo /\ UNCHANGED <<previous, unpaused>>
      BY <1>6 DEF ResumeCommit, history
    <2>2. ResumeTo \notin {"human_owned", "opted_out"} BY <1>1 DEF ResumeTo, LeadInv
    <2>3. LeadInv' BY <1>1, <1>2, <2>1, <2>2 DEF LeadInv
    <2> QED BY <1>3, <2>1, <2>3, InformedKept DEF PauseInv
  <1>7. CASE DeskThrows
    <2>1. desk' = NoTx /\ UNCHANGED <<previous, state, convo, unpaused, before>>
      BY <1>7 DEF DeskThrows, lead, history
    <2>2. LeadInv' BY <1>1, <1>2, <1>3, <2>1 DEF LeadInv
    <2> QED BY <1>3, <2>1, <2>2, InformedKept DEF PauseInv
  <1> QED BY <1>4, <1>5, <1>6, <1>7 DEF Desk

(* A reply takes a lead nobody may talk to nowhere; STOP suppresses. *)
LEMMA PauseOutside ==
    ASSUME TypeInv, PauseInv,
           \/ FirstTouch \/ InboundStop
           \/ \E m \in Replies : InboundOpens(m) \/ InboundCommits(m) \/ InboundAborts(m)
           \/ \E t \in Triggers : Triggered(t)
           \/ \E s \in Moves : LeadMoves(s)
    PROVE  PauseInv'
  <1>1. LeadInv BY DEF PauseInv
  <1>2. UNCHANGED <<wk, previous, desk, unpaused, before>> /\ (suppressed => suppressed')
    <2>1. CASE FirstTouch \/ InboundStop
      BY <2>1 DEF FirstTouch, InboundStop, Inactive, others, history
    <2>2. CASE \E m \in Replies : InboundOpens(m) \/ InboundCommits(m) \/ InboundAborts(m)
      BY <2>2 DEF InboundOpens, InboundCommits, InboundAborts, Inactive, lead, history
    <2>3. CASE \E t \in Triggers : Triggered(t) BY <2>3 DEF Triggered, lead, history
    <2>4. CASE \E s \in Moves : LeadMoves(s) BY <2>4 DEF LeadMoves, Inactive, others, history
    <2> QED BY <2>1, <2>2, <2>3, <2>4
  <1>3. /\ state' = "opted_out" => suppressed'
        /\ state' = "human_owned" => state = "human_owned"
        /\ convo' # "paused" => convo # "paused"
    <2>1. CASE FirstTouch BY <2>1 DEF FirstTouch
    <2>2. CASE InboundStop BY <2>2 DEF InboundStop
    <2>3. CASE \E m \in Replies : InboundCommits(m)
      BY <1>1, <2>3 DEF InboundCommits, LeadInv
    <2>4. CASE \E s \in Moves : LeadMoves(s)
      BY <2>4, EngagementAssumption DEF LeadMoves
    <2>5. CASE \/ \E m \in Replies : InboundOpens(m) \/ InboundAborts(m)
               \/ \E t \in Triggers : Triggered(t)
      BY <1>1, <2>5 DEF InboundOpens, InboundAborts, Triggered, lead, LeadInv
    <2> QED BY <2>1, <2>2, <2>3, <2>4, <2>5
  <1>4. LeadInv' BY <1>1, <1>2, <1>3 DEF LeadInv
  <1> QED BY <1>2, <1>4, InformedKept DEF PauseInv

(* A conversation that takes the lead for a person pauses itself; one that *)
(* read the lead before an opt-out or a takeover still knows of it.        *)
LEMMA PauseConversation ==
    ASSUME TypeInv, PauseInv, NEW w \in Workers, ConversationStep(w) PROVE PauseInv'
  <1>1. /\ Moved(w) /\ wk[w].pc \in Conversing
        /\ UNCHANGED <<previous, suppressed, desk, unpaused>>
    BY ConversationFrame DEF others
  <1>2. LeadInv /\ Informed(wk[w]) /\ WorkersInv BY DEF PauseInv, TypeInv
  <1>3. wk[w] \in Execution /\ ExecutionInv(wk[w]) BY AtPoint
  <1>4. ASSUME Informed(wk[w])' PROVE \A u \in Workers : Informed(wk[u])'
    BY <1>1, <1>4 DEF Moved, PauseInv, Informed
  <1>5. CASE Fallback(w) \/ PauseForHuman(w) \/ \E f \in Turns : Answer(w, f)
    <2>1. wk'[w].state = wk[w].state /\ (wk'[w].key \in ReplyKeys => ~suppressed)
      BY <1>5, DecideMoves
    <2>2. Informed(wk[w])' BY <1>1, <1>2, <2>1 DEF Informed
    <2>3. UNCHANGED <<lead, before>>
      BY <1>5 DEF Fallback, PauseForHuman, Answer, history
    <2> QED BY <1>1, <1>2, <1>4, <2>2, <2>3, LeadKept DEF PauseInv, lead
  <1>6. CASE EnqueueAssign(w) \/ EnqueueCrm(w)
    <2>1. PICK pc \in {"crm", "converse"} :
             /\ \/ wk[w].pc = "assign" /\ pc = "crm"
                \/ wk[w].pc = "crm" /\ pc = "converse"
             /\ Goes(w, pc)
             /\ UNCHANGED <<lead, history>>
      BY <1>6 DEF EnqueueAssign, EnqueueCrm
    <2>2. wk'[w] = [wk[w] EXCEPT !.pc = pc] BY <1>2, <2>1, GoesMoves
    <2>3. wk'[w].state = wk[w].state /\ wk'[w].key = wk[w].key /\ wk[w].pc \in Writing
      BY <1>3, <2>1, <2>2 DEF Execution, Writing
    <2>4. Informed(wk[w])' BY <1>1, <1>2, <2>3 DEF Informed, Conversing, Writing
    <2> QED BY <1>1, <1>2, <1>4, <2>1, <2>4, LeadKept DEF PauseInv, lead, history
  <1>7. CASE LeaveToOptOut(w)
    <2>1. wk'[w].pc = "done" BY <1>2, <1>7, DoneMoves DEF LeaveToOptOut
    <2>2. wk'[w].pc \notin Conversing BY <2>1 DEF Conversing
    <2>3. UNCHANGED <<lead, before>> BY <1>7 DEF LeaveToOptOut, history
    <2> QED BY <1>1, <1>2, <2>2, <2>3, InformedKept, LeadKept DEF PauseInv, lead
  <1>8. CASE ConversationCommit(w)
    <2> DEFINE r == wk[w]
    <2>1. /\ r.pc = "converse"
          /\ state' = IF r.to = r.state THEN state ELSE r.to
          /\ convo' = IF r.key = None THEN "paused" ELSE convo
          /\ before' = IF r.to = "human_owned" /\ r.to # r.state THEN None ELSE before
      BY <1>8 DEF ConversationCommit
    <2>2. /\ r.to = "human_owned" /\ r.state # "human_owned" => r.key = None
          /\ r.to = "opted_out" => r.state = "opted_out"
      BY <1>3, <2>1 DEF ExecutionInv, Writing
    <2>3. wk'[w].pc = "done" BY <1>2, <1>8, <2>1, DoneMoves DEF ConversationCommit
    <2>4. wk'[w].pc \notin Conversing BY <2>3 DEF Conversing
    <2> HIDE DEF r
    <2>5. LeadInv' BY <1>1, <1>2, <2>1, <2>2 DEF LeadInv
    <2> QED BY <1>1, <2>4, <2>5, InformedKept DEF PauseInv
  <1> QED BY <1>5, <1>6, <1>7, <1>8 DEF ConversationStep

(* Every step keeps PauseInv. *)
LEMMA PauseStep == ASSUME TypeInv, PauseInv, [Next]_vars PROVE PauseInv'
  <1>1. LeadInv BY DEF PauseInv
  <1>2. CASE UNCHANGED vars
    BY <1>1, <1>2, LeadKept, InformedKept DEF vars, lead, others, history, PauseInv
  <1>3. ASSUME NEW w \in Workers, Finish(w) \/ Throw(w) PROVE PauseInv'
    <2>1. Left(w) /\ UNCHANGED <<lead, others, before, unpaused>> BY <1>3, EndsFrame
    <2> QED BY <1>1, <2>1, LeadKept, InformedKept
      DEF PauseInv, lead, others, Left, Conversing
  <1>4. ASSUME NEW w \in Workers, Crash(w) PROVE PauseInv'
    <2>1. Left(w) /\ UNCHANGED <<lead, others, history>>
      BY <1>4, LeaveMoves DEF Crash, Left, TypeInv
    <2> QED BY <1>1, <2>1, LeadKept, InformedKept
      DEF PauseInv, lead, others, history, Left, Conversing
  <1>5. ASSUME NEW w \in Workers, WorkflowStep(w) PROVE PauseInv'
    <2>1. /\ Moved(w) /\ wk'[w].pc \in {"schedule", "next", "advance", "done"}
          /\ UNCHANGED <<state, previous, convo, suppressed, others, history>>
      BY <1>5, WorkflowFrame
    <2>2. wk'[w].pc \notin Conversing BY <2>1 DEF Conversing
    <2> QED BY <1>1, <2>1, <2>2, LeadKept, InformedKept DEF PauseInv, others, history
  <1>6. ASSUME NEW w \in Workers, NEW j \in Jobs, Takes(w, j) PROVE PauseInv'
    <2>1. /\ Moved(w) /\ UNCHANGED <<lead, others, before, unpaused>>
          /\ wk'[w].key = None
      BY <1>6, TakesFrame
    <2>2. LeadInv' BY <1>1, <2>1, LeadKept DEF lead, others
    <2>3. ASSUME wk'[w].pc \notin Conversing PROVE PauseInv'
      BY <2>1, <2>2, <2>3, InformedKept DEF PauseInv, lead
    <2>4. ASSUME NEW m \in Replies, ConversationBegin(w, m) PROVE PauseInv'
      <3>1. \/ wk'[w].pc = "done"
            \/ wk'[w].pc = "decide" /\ convo = "active" /\ wk'[w].state = state
        BY <2>4, ConversationBeginMoves
      <3>2. CASE wk'[w].pc = "done" BY <2>3, <3>2 DEF Conversing
      <3>3. CASE wk'[w].pc = "decide" /\ convo = "active" /\ wk'[w].state = state
        <4>1. Informed(wk[w])'
          BY <1>1, <2>1, <3>3 DEF Informed, LeadInv, Writing, lead
        <4>2. \A u \in Workers : Informed(wk[u])'
          BY <2>1, <4>1 DEF Moved, PauseInv, Informed, lead
        <4> QED BY <2>2, <4>2 DEF PauseInv
      <3> QED BY <3>1, <3>2, <3>3
    <2>5. ASSUME \/ \E t \in Triggers : StartBegin(w, t)
                 \/ \E r \in Runs, k \in 1..Len(Steps) : AdvanceBegin(w, r, k)
          PROVE  PauseInv'
      <3>1. wk'[w].pc \in {"create", "schedule", "done", "stop", "complete", "gate"}
        BY <2>5, StartBeginMoves, AdvanceBeginMoves
      <3> QED BY <2>3, <3>1 DEF Conversing
    <2> QED BY <1>6, <2>4, <2>5 DEF Takes
  <1>7. ASSUME NEW j \in Jobs, Stall(j) PROVE PauseInv'
    BY <1>1, <1>7, LeadKept, InformedKept DEF PauseInv, Stall, lead, others, history
  <1> QED BY <1>2, <1>3, <1>4, <1>5, <1>6, <1>7, PauseDesk, PauseOutside, PauseConversation
    DEF Next, Environment, Proceeds

(* Opt-out, takeover and what is known of them. *)
LEMMA PauseInvariant == Spec => []PauseInv
  <1>1. Init => PauseInv
    <2> SUFFICES ASSUME Init PROVE PauseInv OBVIOUS
    <2>1. \A w \in Workers : wk[w].pc = "idle" BY DEF Init, Idle
    <2>2. previous = None /\ state = "new" /\ desk.pc = "none" BY DEF Init, NoTx
    <2>3. None \notin {"human_owned", "opted_out"} BY Constants DEF LeadState
    <2> QED BY <2>1, <2>2, <2>3 DEF PauseInv, LeadInv, Informed, Conversing
  <1>2. TypeInv /\ PauseInv /\ [Next]_vars => PauseInv' BY PauseStep
  <1> QED BY <1>1, <1>2, TypeInvariant, PTL DEF Spec

(* A lead the desk took is given back where it was: no second takeover and *)
(* no workflow or reply in between overwrites the remembered state.        *)
THEOREM TakeoverRemembers == Spec => []PreviousIsRemembered
  <1>1. PauseInv => PreviousIsRemembered BY DEF PauseInv, LeadInv, PreviousIsRemembered
  <1> QED BY <1>1, PauseInvariant, PTL

-----------------------------------------------------------------------------
(* Replies.                                                                *)

(* No operation drops a job, and only its completion completes it. *)
LEMMA QueueRetains ==
    ASSUME TypeInv, NEW w, NEW j \in Jobs, NEW i \in Jobs,
           \/ Q!Take(w, j) \/ Q!Add(j) \/ Q!Reject(w, j) \/ Q!Stall(j)
           \/ Q!Complete(w, j) /\ i # j
           \/ UNCHANGED queueVars
    PROVE  /\ jobState[i] # "absent" => jobState'[i] # "absent"
           /\ jobState'[i] = "completed" => jobState[i] = "completed"
  <1> USE DEF TypeInv, QP!QueueInv, QP!QueueTypeOK, QP!JobStatus
  <1>1. CASE Q!Take(w, j) BY <1>1 DEF Q!Take
  <1>2. CASE Q!Add(j) BY <1>2 DEF Q!Add
  <1>3. CASE Q!Reject(w, j) BY <1>3 DEF Q!Reject
  <1>4. CASE Q!Stall(j) BY <1>4 DEF Q!Stall
  <1>5. CASE Q!Complete(w, j) /\ i # j BY <1>5 DEF Q!Complete
  <1>6. CASE UNCHANGED queueVars BY <1>6 DEF queueVars
  <1> QED BY <1>1, <1>2, <1>3, <1>4, <1>5, <1>6

(* A step that drops and completes no job keeps what is known of the       *)
(* replies, if whoever runs a reply's job ran it before or has just read.  *)
LEMMA ReplyKept ==
    ASSUME ReplyInv, UNCHANGED fate,
           \A m \in Replies :
              /\ jobState[Conv(m)] # "absent" => jobState'[Conv(m)] # "absent"
              /\ jobState'[Conv(m)] = "completed" => jobState[Conv(m)] = "completed"
              /\ inbound'[m].pc # "none" => inbound[m].pc # "none"
              /\ \A w \in Workers : wk'[w].job = Conv(m) =>
                    \/ wk'[w].found \in Found
                    \/ wk[w].job = Conv(m) /\ wk'[w].found = wk[w].found
    PROVE  ReplyInv'
  BY DEF ReplyInv

(* What does not touch a reply. *)
LEMMA Others ==
    ASSUME TypeInv,
           \/ UNCHANGED wk
           \/ \E w \in Workers : Moved(w) /\ wk'[w].job \notin ConvJobs
    PROVE  \A m \in Replies, w \in Workers : wk'[w].job = Conv(m) => wk'[w] = wk[w]
  <1>1. CASE UNCHANGED wk BY <1>1
  <1>2. ASSUME NEW w \in Workers, Moved(w), wk'[w].job \notin ConvJobs
        PROVE  \A m \in Replies, u \in Workers : wk'[u].job = Conv(m) => wk'[u] = wk[u]
    BY <1>2, JobIds DEF Moved
  <1> QED BY <1>1, <1>2

(* An idle worker runs no reply's job. *)
LEMMA LeftOthers ==
    ASSUME TypeInv, NEW w \in Workers, Left(w)
    PROVE  Moved(w) /\ wk'[w].job \notin ConvJobs
  BY JobIds, Constants DEF Left

(* A conversation goes by what it found when it read. *)
LEMMA FoundKept ==
    ASSUME TypeInv, NEW w \in Workers, ConversationStep(w)
    PROVE  wk'[w].found = wk[w].found
  <1>1. wk \in [Workers -> Execution] /\ wk[w] \in Execution BY DEF TypeInv, WorkersInv
  <1>2. CASE \E pc, key, to, merged : Writes(w, pc, key, to, merged)
    <2>1. PICK pc, key, to, merged : Writes(w, pc, key, to, merged) BY <1>2
    <2> QED BY <1>1, <2>1 DEF Writes, Execution
  <1>3. CASE \E pc : Goes(w, pc)
    <2>1. PICK pc : Goes(w, pc) BY <1>3
    <2> QED BY <1>1, <2>1 DEF Goes, Execution
  <1>4. CASE Done(w)
    <2> DEFINE e == [Idle EXCEPT !.job = wk[w].job, !.pc = "done", !.found = wk[w].found]
    <2>1. e.found = wk[w].found BY DEF Idle
    <2>2. wk' = [wk EXCEPT ![w] = e] BY <1>4 DEF Done
    <2> HIDE DEF e
    <2> QED BY <1>1, <2>1, <2>2
  <1>5. CASE Fallback(w) \/ PauseForHuman(w) \/ \E f \in Turns : Answer(w, f)
    BY <1>2, <1>5 DEF Fallback, PauseForHuman, Answer
  <1>6. CASE EnqueueAssign(w) \/ EnqueueCrm(w)
    BY <1>3, <1>6 DEF EnqueueAssign, EnqueueCrm
  <1>7. CASE LeaveToOptOut(w) \/ ConversationCommit(w)
    BY <1>4, <1>7 DEF LeaveToOptOut, ConversationCommit
  <1> QED BY <1>5, <1>6, <1>7 DEF ConversationStep

(* A conversation under way. *)
LEMMA ReplyConversation ==
    ASSUME TypeInv, ReplyInv, NEW w \in Workers, ConversationStep(w) PROVE ReplyInv'
  <1>1. /\ Moved(w) /\ wk'[w].job = wk[w].job
        /\ UNCHANGED <<queueVars, inbound, fate>>
    BY ConversationFrame DEF others
  <1>2. wk'[w].found = wk[w].found BY FoundKept
  <1>3. \A u \in Workers \ {w} : wk'[u] = wk[u] BY <1>1 DEF Moved
  <1> QED BY <1>1, <1>2, <1>3, ReplyKept DEF queueVars

(* A conversation that begins knows what it found. *)
LEMMA ReplyBegin ==
    ASSUME TypeInv, ReplyInv, NEW w \in Workers, NEW m \in Replies, ConversationBegin(w, m)
    PROVE  ReplyInv'
  <1>1. Moved(w) /\ wk'[w].found \in Found BY ConversationBeginMoves
  <1>2. UNCHANGED <<inbound, fate>> /\ Q!Take(w, Conv(m))
    BY DEF ConversationBegin, others, history
  <1>3. \A u \in Workers \ {w} : wk'[u] = wk[u] BY <1>1 DEF Moved
  <1>4. \A n \in Replies :
           /\ jobState[Conv(n)] # "absent" => jobState'[Conv(n)] # "absent"
           /\ jobState'[Conv(n)] = "completed" => jobState[Conv(n)] = "completed"
    BY <1>2, JobIds, QueueRetains
  <1> QED BY <1>1, <1>2, <1>3, <1>4, ReplyKept

(* A job completes when the execution that returned holds it; what that    *)
(* execution had found is then the reply's fate.                           *)
LEMMA ReplyFinish == ASSUME TypeInv, ReplyInv, NEW w \in Workers, Finish(w) PROVE ReplyInv'
  <1> DEFINE j == wk[w].job
  <1>1. /\ Left(w) /\ UNCHANGED inbound /\ wk[w].pc = "done" /\ Q!Complete(w, j)
        /\ fate' = [m \in Replies |-> IF j = Conv(m) /\ holder[Conv(m)] = w
                                      THEN wk[w].found ELSE fate[m]]
    BY EndsFrame DEF Finish, others
  <1>2. j \in Jobs BY <1>1, AtPoint
  <1>3. \A m \in Replies, u \in Workers : wk'[u].job = Conv(m) => wk'[u] = wk[u]
    BY <1>1, LeftOthers, Others
  <1>4. jobState \in [Jobs -> QP!JobStatus]
    BY DEF TypeInv, QP!QueueInv, QP!QueueTypeOK
  <1> HIDE DEF j
  <1>5. ASSUME NEW m \in Replies
        PROVE  /\ jobState[Conv(m)] # "absent" => jobState'[Conv(m)] # "absent"
               /\ jobState'[Conv(m)] = "completed" => fate'[m] \in Found
    <2>1. CASE Conv(m) # j
      <3>1. /\ jobState[Conv(m)] # "absent" => jobState'[Conv(m)] # "absent"
            /\ jobState'[Conv(m)] = "completed" => jobState[Conv(m)] = "completed"
        BY <1>1, <1>2, <2>1, JobIds, QueueRetains
      <3> QED BY <1>1, <2>1, <3>1 DEF ReplyInv
    <2>2. CASE Conv(m) = j /\ holder[j] = w
      <3>1. wk[w].found \in Found BY <2>2 DEF ReplyInv, j
      <3>2. jobState' = [jobState EXCEPT ![j] = "completed"]
        BY <1>1, <2>2 DEF Q!Complete
      <3> QED BY <1>1, <1>2, <1>4, <2>2, <3>1, <3>2
    <2>3. CASE Conv(m) = j /\ holder[j] # w
      <3>1. UNCHANGED jobState BY <1>1, <2>3 DEF Q!Complete
      <3> QED BY <1>1, <2>3, <3>1 DEF ReplyInv
    <2> QED BY <2>1, <2>2, <2>3
  <1> QED BY <1>1, <1>3, <1>5 DEF ReplyInv

(* The job of a reply is added before the transaction that records it      *)
(* commits.                                                                *)
LEMMA ReplyOpens ==
    ASSUME TypeInv, ReplyInv, NEW m \in Replies, InboundOpens(m) PROVE ReplyInv'
  <1>1. /\ UNCHANGED <<wk, fate>> /\ Q!Add(Conv(m))
        /\ inbound' = [inbound EXCEPT ![m] = [pc |-> "open", state |-> state]]
    BY DEF InboundOpens, history
  <1>2. \A n \in Replies :
           /\ jobState[Conv(n)] # "absent" => jobState'[Conv(n)] # "absent"
           /\ jobState'[Conv(n)] = "completed" => jobState[Conv(n)] = "completed"
    BY <1>1, JobIds, QueueRetains
  <1>3. jobState'[Conv(m)] # "absent"
    BY <1>1, JobIds DEF Q!Add, TypeInv, QP!QueueInv, QP!QueueTypeOK
  <1>4. \A n \in Replies \ {m} : inbound'[n] = inbound[n]
    BY <1>1 DEF TypeInv, OthersType
  <1> QED BY <1>1, <1>2, <1>3, <1>4 DEF ReplyInv

(* Every step keeps ReplyInv. *)
LEMMA ReplyStep == ASSUME TypeInv, ReplyInv, [Next]_vars PROVE ReplyInv'
  <1> DEFINE Retained == \A m \in Replies :
                /\ jobState[Conv(m)] # "absent" => jobState'[Conv(m)] # "absent"
                /\ jobState'[Conv(m)] = "completed" => jobState[Conv(m)] = "completed"
             Elsewhere == \/ UNCHANGED wk
                          \/ \E w \in Workers : Moved(w) /\ wk'[w].job \notin ConvJobs
  <1>1. ASSUME UNCHANGED queueVars PROVE Retained BY <1>1 DEF queueVars
  <1>2. ASSUME NEW w, NEW j \in Jobs, Q!Take(w, j) \/ Q!Add(j) \/ Q!Reject(w, j) \/ Q!Stall(j)
        PROVE  Retained
    BY <1>2, JobIds, QueueRetains
  <1> HIDE DEF Retained
  <1>3. ASSUME Retained, Elsewhere, UNCHANGED <<inbound, fate>> PROVE ReplyInv'
    <2>1. \A m \in Replies, w \in Workers : wk'[w].job = Conv(m) => wk'[w] = wk[w]
      BY <1>3, Others
    <2> QED BY <1>3, <2>1, ReplyKept DEF Retained
  <1>4. CASE UNCHANGED vars BY <1>1, <1>3, <1>4 DEF vars, others, history, queueVars
  <1>5. ASSUME NEW w \in Workers, Throw(w) PROVE ReplyInv'
    <2>1. Left(w) /\ UNCHANGED <<others, fate>> /\ wk[w].pc # "idle" BY <1>5, EndsFrame
    <2>2. Elsewhere BY <2>1, LeftOthers
    <2>3. Retained BY <1>2, <1>5, <2>1, AtPoint DEF Throw
    <2> QED BY <1>3, <2>1, <2>2, <2>3 DEF others
  <1>6. ASSUME NEW w \in Workers, WorkflowStep(w) PROVE ReplyInv'
    <2>1. /\ Moved(w) /\ wk'[w].job = wk[w].job /\ wk[w].job \in StartJobs \cup StepJobs
          /\ UNCHANGED <<inbound, fate>>
      BY <1>6, WorkflowFrame DEF others, history
    <2>2. Elsewhere BY <2>1, JobIds
    <2>3. wk[w] \in Execution /\ ExecutionInv(wk[w]) BY AtPoint
    <2>4. Retained
      <3>1. CASE UNCHANGED queueVars BY <1>1, <3>1
      <3>2. CASE ScheduleFirst(w)
        <4>1. wk[w].run \in Runs /\ 1 \in 1..Len(Steps)
          BY <2>3, <3>2, Constants DEF ScheduleFirst, ExecutionInv
        <4> QED BY <1>2, <3>2, <4>1, JobIds DEF ScheduleFirst
      <3>3. CASE ScheduleNext(w) /\ ~AtEnd(wk[w].idx + 1)
        <4>1. wk[w].run \in Runs /\ wk[w].idx \in 0..Len(Steps)
          BY <2>3, <3>3 DEF ScheduleNext, ExecutionInv, Stepping, Execution
        <4>2. wk[w].idx + 2 \in 1..Len(Steps) BY <3>3, <4>1, Constants DEF AtEnd
        <4>3. Step(wk[w].run, wk[w].idx + 2) \in Jobs BY <4>1, <4>2, JobIds
        <4>4. Q!Add(Step(wk[w].run, wk[w].idx + 2)) BY <3>3 DEF ScheduleNext
        <4> QED BY <1>2, <4>3, <4>4
      <3> QED BY <1>6, <3>1, <3>2, <3>3
        DEF WorkflowStep, StartCommit, StopRun, CompleteRun, EndRun, ExecuteAction,
            ScheduleNext, AdvanceCommit
    <2> QED BY <1>3, <2>1, <2>2, <2>4
  <1>7. ASSUME NEW w \in Workers, NEW j \in Jobs, Takes(w, j) PROVE ReplyInv'
    <2>1. Moved(w) /\ wk'[w].job = j /\ Q!Take(w, j) /\ UNCHANGED others
      BY <1>7, TakesFrame
    <2>2. Retained BY <1>2, <2>1
    <2>3. ASSUME NEW t \in Triggers, j = Start(t), StartBegin(w, t) PROVE ReplyInv'
      <3>1. Elsewhere BY <2>1, <2>3, JobIds
      <3> QED BY <1>3, <2>1, <2>2, <2>3, <3>1 DEF StartBegin, Overlaps, others
    <2>4. ASSUME NEW r \in Runs, NEW k \in 1..Len(Steps), j = Step(r, k), AdvanceBegin(w, r, k)
          PROVE  ReplyInv'
      <3>1. Elsewhere BY <2>1, <2>4, JobIds
      <3> QED BY <1>3, <2>1, <2>2, <2>4, <3>1 DEF AdvanceBegin, others
    <2> QED BY <1>7, <2>3, <2>4, ReplyBegin DEF Takes
  <1>8. ASSUME NEW w \in Workers, Crash(w) PROVE ReplyInv'
    <2>1. Left(w) /\ UNCHANGED <<queueVars, inbound, fate>>
      BY <1>8, LeaveMoves DEF Crash, Left, TypeInv, others, history
    <2>2. Elsewhere BY <2>1, LeftOthers
    <2> QED BY <1>1, <1>3, <2>1, <2>2
  <1>9. ASSUME NEW j \in Jobs, Stall(j) PROVE ReplyInv'
    <2>1. Retained BY <1>2, <1>9 DEF Stall
    <2> QED BY <1>3, <1>9, <2>1 DEF Stall, others, history
  <1>10. ASSUME NEW t \in Triggers, Triggered(t) PROVE ReplyInv'
    <2>1. Retained BY <1>2, <1>10, JobIds DEF Triggered
    <2> QED BY <1>3, <1>10, <2>1 DEF Triggered, history
  <1>11. ASSUME NEW m \in Replies, InboundCommits(m) \/ InboundAborts(m) PROVE ReplyInv'
    <2>1. /\ UNCHANGED <<wk, queueVars, fate>> /\ inbound[m].pc = "open"
          /\ \A n \in Replies \ {m} : inbound'[n] = inbound[n]
      BY <1>11 DEF InboundCommits, InboundAborts, Inactive, history, TypeInv, OthersType
    <2>2. Retained BY <1>1, <2>1
    <2>3. \A n \in Replies : inbound'[n].pc # "none" => inbound[n].pc # "none"
      BY <2>1
    <2> QED BY <2>1, <2>2, <2>3, ReplyKept DEF Retained
  <1>12. CASE FirstTouch \/ InboundStop \/ (\E s \in Moves : LeadMoves(s))
              \/ TakeoverBegin \/ ResumeBegin \/ Desk
    <2>1. UNCHANGED <<wk, queueVars, inbound, fate>>
      BY <1>12 DEF FirstTouch, InboundStop, LeadMoves, TakeoverBegin, ResumeBegin, Desk,
                   TakeoverCommit, ResumeCommit, DeskThrows, Inactive, others, history
    <2> QED BY <1>1, <1>3, <2>1
  <1> QED BY <1>4, <1>5, <1>6, <1>7, <1>8, <1>9, <1>10, <1>11, <1>12,
             ReplyConversation, ReplyFinish, ReplyOpens
    DEF Next, Environment, Proceeds

(* No reply is forgotten: the job of a recorded reply is in the queue or   *)
(* dead-lettered, or was completed by an execution that had read the reply *)
(* and decided on it, that read the AI paused after the reply was          *)
(* recorded, or that read before it was recorded.                          *)
THEOREM RepliesAreServed == Spec => []NoReplyForgotten
  <1>1. Init => ReplyInv
    <2> SUFFICES ASSUME Init PROVE ReplyInv OBVIOUS
    <2>1. \A w \in Workers, m \in Replies : wk[w].job # Conv(m)
      BY JobIds, Constants DEF Init, Idle
    <2>2. \A m \in Replies : inbound[m].pc = "none" BY DEF Init, NoTx
    <2>3. \A m \in Replies : jobState[Conv(m)] = "absent"
      BY JobIds DEF Init, Q!QueueInit
    <2> QED BY <2>1, <2>2, <2>3 DEF ReplyInv
  <1>2. TypeInv /\ ReplyInv /\ [Next]_vars => ReplyInv' BY ReplyStep
  <1>3. TypeInv /\ ReplyInv => NoReplyForgotten
    <2> SUFFICES ASSUME TypeInv, ReplyInv, NEW m \in Replies,
                        inbound[m].pc = "done"
                 PROVE  \/ jobState[Conv(m)] \in {"waiting", "active", "failed"}
                        \/ jobState[Conv(m)] = "completed" /\ fate[m] \in Found
      BY DEF NoReplyForgotten
    <2>1. jobState[Conv(m)] \in QP!JobStatus
      BY JobIds DEF TypeInv, QP!QueueInv, QP!QueueTypeOK
    <2> QED BY <2>1 DEF ReplyInv, QP!JobStatus
  <1> QED BY <1>1, <1>2, <1>3, TypeInvariant, PTL DEF Spec

-----------------------------------------------------------------------------
(* What a step may not do.                                                 *)

(* Only a commit queues a message, and only a conversation's writes the    *)
(* answers.                                                                *)
LEMMA OnlyCommitsWrite ==
    ASSUME TypeInv, [Next]_vars
    PROVE  /\ sent' # sent => \E w \in Workers : ConversationCommit(w) \/ AdvanceCommit(w)
           /\ answers' # answers => \E w \in Workers : ConversationCommit(w)
  <1>1. CASE UNCHANGED vars BY <1>1 DEF vars, lead
  <1>2. CASE Environment BY <1>2, EnvironmentFrame
  <1>3. ASSUME NEW w \in Workers, Finish(w) \/ Throw(w) PROVE UNCHANGED <<sent, answers>>
    BY <1>3, EndsFrame DEF lead
  <1>4. ASSUME NEW w \in Workers, NEW j \in Jobs, Takes(w, j) PROVE UNCHANGED <<sent, answers>>
    BY <1>4, TakesFrame DEF lead
  <1>5. ASSUME NEW w \in Workers, ConversationStep(w), ~ConversationCommit(w)
        PROVE  UNCHANGED <<sent, answers>>
    BY <1>5 DEF ConversationStep, Fallback, LeaveToOptOut, PauseForHuman, Answer, EnqueueAssign,
                EnqueueCrm, lead
  <1>6. ASSUME NEW w \in Workers, WorkflowStep(w)
        PROVE  UNCHANGED answers /\ (~AdvanceCommit(w) => UNCHANGED sent)
    BY <1>6 DEF WorkflowStep, StartCommit, ScheduleFirst, StopRun, CompleteRun, EndRun,
                ExecuteAction, ScheduleNext, AdvanceCommit, lead
  <1> QED BY <1>1, <1>2, <1>3, <1>4, <1>5, <1>6 DEF Next, Proceeds

(* A worker at its commit returns. *)
LEMMA CommitReturns ==
    ASSUME TypeInv, NEW w \in Workers, ConversationCommit(w) \/ AdvanceCommit(w)
    PROVE  Moved(w) /\ wk[w].pc \in {"converse", "advance"} /\ wk'[w].pc = "done"
  BY DoneMoves DEF ConversationCommit, AdvanceCommit, TypeInv

(* An execution that began after the lead was taken over, opted out,       *)
(* booked or closed sends no follow-up; one that began after the opt-out   *)
(* sends at most the fixed text; one that began after a takeover sends     *)
(* nothing, unless the takeover found no conversation to pause.            *)
THEOREM TakeoverAndStopSilence == Spec => AutomationStops
  <1>1. ASSUME TypeInv, PauseInv, [Next]_vars, NEW w \in Workers, NEW key \in Keys,
               Inserts(w, key)
        PROVE  /\ key \in {<<"step", k>> : k \in 1..Len(Steps)} => wk[w].state \notin StopStates
               /\ wk[w].state = "opted_out" => key = <<"uncertainty">>
               /\ wk[w].state = "human_owned" => unpaused
    <2>1. wk[w].key = key /\ sent' # sent /\ wk'[w].pc = "done" BY <1>1 DEF Inserts
    <2>2. PICK u \in Workers : ConversationCommit(u) \/ AdvanceCommit(u)
      BY <1>1, <2>1, OnlyCommitsWrite
    <2>3. Moved(u) /\ wk[u].pc \in {"converse", "advance"} BY <1>1, <2>2, CommitReturns
    <2>4. ExecutionInv(wk[w]) /\ key # None BY <1>1, AtPoint, Constants
    <2>5. wk[w].pc \in Acting \cup Writing BY <2>1, <2>4 DEF ExecutionInv
    <2>6. wk'[w] # wk[w] BY <2>1, <2>5 DEF Acting, Writing
    <2>7. w = u BY <2>3, <2>6 DEF Moved
    <2>8. CASE wk[w].pc = "converse"
      <3>1. key \in ReplyKeys \cup {<<"uncertainty">>} /\ key \notin StepKeys
        BY <2>1, <2>4, <2>8, KeyIds DEF ExecutionInv, Writing
      <3>2. Informed(wk[w]) /\ wk[w].pc \in Conversing /\ wk[w].pc \in Writing
        BY <1>1, <2>8 DEF PauseInv, Conversing, Writing
      <3> QED BY <2>1, <3>1, <3>2 DEF Informed, StepKeys
    <2>9. CASE wk[w].pc = "advance"
      <3>1. wk[w].state \notin StopStates BY <2>4, <2>9 DEF ExecutionInv, Acting
      <3> QED BY <3>1 DEF StopStates
    <2> QED BY <2>3, <2>7, <2>8, <2>9
  <1>2. TypeInv /\ PauseInv /\ [Next]_vars =>
          [\A w \in Workers, key \in Keys : Inserts(w, key) =>
              /\ key \in {<<"step", k>> : k \in 1..Len(Steps)} => wk[w].state \notin StopStates
              /\ wk[w].state = "opted_out" => key = <<"uncertainty">>
              /\ wk[w].state = "human_owned" => unpaused]_vars
    BY <1>1
  <1> QED BY <1>2, TypeInvariant, PauseInvariant, PTL DEF Spec, AutomationStops

(* A person keeps the lead they took until they give it back, the lead     *)
(* opts out or another component moves it; or a transaction that read the  *)
(* lead before the takeover overwrites it, or the takeover found nothing   *)
(* to pause.                                                               *)
THEOREM PeopleKeepTheirLeads == Spec => TakeoverHolds
  <1>1. ASSUME TypeInv, PauseInv, [Next]_vars, state = "human_owned", state' # "human_owned"
        PROVE  \/ desk.pc = "resume" /\ desk'.pc = "none"
               \/ state' \in Moves \cup {"opted_out"}
               \/ \E m \in Replies : inbound[m].pc = "open" /\ inbound'[m].pc = "done"
                                     /\ inbound[m].state # "human_owned"
               \/ \E w \in Workers : Committed(w) /\ (wk[w].state # "human_owned" \/ unpaused)
    <2>1. state' # state BY <1>1
    <2>2. CASE UNCHANGED vars BY <2>1, <2>2 DEF vars, lead
    <2>3. ASSUME NEW w \in Workers, Proceeds(w)
          PROVE  \E u \in Workers : Committed(u) /\ (wk[u].state # "human_owned" \/ unpaused)
      <3>1. CASE Finish(w) \/ Throw(w) BY <1>1, <2>1, <3>1, EndsFrame DEF lead
      <3>2. CASE WorkflowStep(w) BY <1>1, <2>1, <3>2, WorkflowFrame
      <3>3. CASE ConversationStep(w)
        <4>1. ConversationCommit(w)
          BY <2>1, <3>3 DEF ConversationStep, Fallback, LeaveToOptOut, PauseForHuman, Answer,
                            EnqueueAssign, EnqueueCrm, lead
        <4>2. wk[w].pc = "converse" BY <4>1 DEF ConversationCommit
        <4>3. wk'[w].pc = "done" BY <1>1, <4>1, CommitReturns
        <4>4. Informed(wk[w]) BY <1>1 DEF PauseInv
        <4> QED BY <4>2, <4>3, <4>4 DEF Committed, Informed, Conversing
      <3> QED BY <2>3, <3>1, <3>2, <3>3 DEF Proceeds
    <2>4. ASSUME NEW w \in Workers, NEW j \in Jobs, Takes(w, j) PROVE FALSE
      BY <1>1, <2>1, <2>4, TakesFrame DEF lead
    <2>5. CASE FirstTouch BY <1>1, <2>5 DEF FirstTouch
    <2>6. CASE InboundStop BY <2>6 DEF InboundStop
    <2>7. ASSUME NEW m \in Replies, InboundCommits(m)
          PROVE  /\ inbound[m].pc = "open" /\ inbound'[m].pc = "done"
                 /\ inbound[m].state # "human_owned"
      <3>1. /\ inbound[m].pc = "open"
            /\ inbound' = [inbound EXCEPT ![m] = [NoTx EXCEPT !.pc = "done"]]
            /\ inbound[m].state = "contacted"
        BY <2>1, <2>7 DEF InboundCommits
      <3>2. inbound'[m].pc = "done" BY <1>1, <3>1 DEF NoTx, TypeInv, OthersType
      <3> QED BY <3>1, <3>2
    <2>8. ASSUME NEW s \in Moves, LeadMoves(s) PROVE state' \in Moves BY <2>8 DEF LeadMoves
    <2>9. CASE ResumeCommit BY <2>9 DEF ResumeCommit, NoTx
    <2>10. CASE TakeoverCommit BY <1>1, <2>10 DEF TakeoverCommit
    <2>11. CASE \/ \E m \in Replies : InboundOpens(m) \/ InboundAborts(m)
                \/ \E t \in Triggers : Triggered(t)
                \/ TakeoverBegin \/ ResumeBegin \/ DeskThrows
                \/ \E w \in Workers : Crash(w)
                \/ \E j \in Jobs : Stall(j)
      BY <2>1, <2>11 DEF InboundOpens, InboundAborts, Triggered, TakeoverBegin, ResumeBegin,
                         DeskThrows, Crash, Stall, lead
    <2> QED BY <1>1, <2>2, <2>3, <2>4, <2>5, <2>6, <2>7, <2>8, <2>9, <2>10, <2>11
      DEF Next, Environment, Desk
  <1>2. TypeInv /\ PauseInv /\ [Next]_vars =>
          [state = "human_owned" /\ state' # "human_owned" =>
              \/ desk.pc = "resume" /\ desk'.pc = "none"
              \/ state' \in Moves \cup {"opted_out"}
              \/ \E m \in Replies : inbound[m].pc = "open" /\ inbound'[m].pc = "done"
                                    /\ inbound[m].state # "human_owned"
              \/ \E w \in Workers : Committed(w) /\ (wk[w].state # "human_owned" \/ unpaused)]_vars
    BY <1>1
  <1> QED BY <1>2, TypeInvariant, PauseInvariant, PTL DEF Spec, TakeoverHolds

(* What a lead has answered disappears only when a conversation writes     *)
(* over an answer that came after it read them.                            *)
THEOREM AnswersAreKept == Spec => AnswersKept
  <1>1. ASSUME TypeInv, [Next]_vars, ~(answers \subseteq answers')
        PROVE  \E w \in Workers : Committed(w) /\ wk[w].facts # answers
    <2>1. PICK w \in Workers : ConversationCommit(w) BY <1>1, OnlyCommitsWrite
    <2>2. wk[w].pc = "converse" /\ answers' = IF wk[w].merged = None THEN answers ELSE wk[w].merged
      BY <2>1 DEF ConversationCommit
    <2>3. wk[w].merged # None => wk[w].facts \subseteq wk[w].merged
      BY <1>1, <2>2, AtPoint DEF ExecutionInv, Writing
    <2>4. Committed(w) BY <1>1, <2>1, <2>2, CommitReturns DEF Committed
    <2> QED BY <1>1, <2>2, <2>3, <2>4
  <1>2. TypeInv /\ [Next]_vars =>
          [~(answers \subseteq answers') =>
              \E w \in Workers : Committed(w) /\ wk[w].facts # answers]_vars
    BY <1>1
  <1> QED BY <1>2, TypeInvariant, PTL DEF Spec, AnswersKept

=============================================================================
