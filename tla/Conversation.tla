------------------------------ MODULE Conversation ------------------------------
(***************************************************************************)
(* The conversation engine: processConversation of                         *)
(* apps/worker/src/processors/conversation.ts with the qualification logic *)
(* of packages/core/src/qualification.ts.  The job reads the lead, the     *)
(* conversation and the answers, calls the model, passes its reply through *)
(* the policy gate, and writes, all in one transaction; the routing and    *)
(* CRM jobs of a lead that qualifies are added before the commit.          *)
(***************************************************************************)
EXTENDS EngagementState

Converses(w) == wk[w].job \in ConvJobs
ReplyOf(w)   == wk[w].job[2]

(* Mutant: an answer replaces the facts known before. *)
ExtractedOnly(known, extracted) == extracted

(* mergeAnswers: what was answered stays answered. *)
MergeAnswers(known, extracted) == known \cup extracted

(* isQualificationComplete. *)
IsComplete(facts) == facts = Fields

(* What is there of reply m when its job reads.  The job is added before   *)
(* the reply is recorded, and may read before that.                        *)
Finds(m) ==
    IF inbound[m].pc # "done" THEN "early" ELSE IF convo = "active" THEN "reply" ELSE "paused"

(* Reads the lead, the conversation, its messages and the answers.         *)
(* Without a conversation, or with the AI paused, nothing is answered.     *)
ConversationBegin(w, m) ==
    /\ wk[w].pc = "idle"
    /\ Q!Take(w, Conv(m))
    /\ wk' = [wk EXCEPT ![w] =
                IF convo # "active"
                THEN [Idle EXCEPT !.job = Conv(m), !.pc = "done", !.found = Finds(m)]
                ELSE [Idle EXCEPT !.job = Conv(m), !.pc = "decide", !.found = Finds(m),
                                  !.state = state, !.facts = answers,
                                  !.stop = (lastIn = "stop")]]
    /\ UNCHANGED <<lead, flows, handoff, others, faults, history>>

Writes(w, pc, key, to, merged) ==
    wk' = [wk EXCEPT ![w].pc = pc, ![w].key = key, ![w].to = to, ![w].merged = merged]

(* The model's two attempts gave nothing valid: the fixed fallback text,   *)
(* which passes no gate.                                                   *)
Fallback(w) ==
    /\ wk[w].pc = "decide"
    /\ Writes(w, "converse", <<"uncertainty">>, wk[w].state, None)
    /\ UNCHANGED <<lead, flows, handoff, queueVars, others, faults, history>>

(* The last message is an opt-out: nothing is answered. *)
LeaveToOptOut(w) ==
    /\ wk[w].pc = "decide"
    /\ wk[w].stop
    /\ Done(w)
    /\ UNCHANGED <<lead, flows, handoff, queueVars, others, faults, history>>

(* pauseForHuman: the lead wants a person, or is dissatisfied. *)
PauseForHuman(w) ==
    /\ wk[w].pc = "decide"
    /\ ~wk[w].stop
    /\ CanTransition(wk[w].state, "human_owned")
    /\ Writes(w, "converse", None, "human_owned", None)
    /\ UNCHANGED <<lead, flows, handoff, queueVars, others, faults, history>>

(* The state an answered lead goes to. *)
NextState(s, complete) ==
    IF complete THEN "qualified" ELSE IF s = "engaged" THEN "qualifying" ELSE s

(* Mutant: the gate does not ask for suppression. *)
GateIgnoresSuppression(f) == TRUE

(* The policy gate on the reply: a lead that is suppressed or whose        *)
(* consent is gone never passes.                                           *)
GateMayPass(f) == ~suppressed

(* The model answers with facts f.  The gate may also refuse what the      *)
(* reply says: the facts are kept and the fallback text is queued.         *)
Answer(w, f) ==
    LET facts == MergeAnswers(wk[w].facts, f)
        to    == NextState(wk[w].state, IsComplete(facts))
    IN /\ wk[w].pc = "decide"
       /\ ~wk[w].stop
       /\ \/ Writes(w, "converse", <<"uncertainty">>, wk[w].state, facts)
          \/ /\ GateMayPass(f)
             /\ CanTransition(wk[w].state, to)
             /\ Writes(w, IF IsComplete(facts) THEN "assign" ELSE "converse", <<"ai", f>>, to, facts)
       /\ UNCHANGED <<lead, flows, handoff, queueVars, others, faults, history>>

(* A qualified lead goes to routing and to the CRM, before the commit. *)
EnqueueAssign(w) ==
    /\ wk[w].pc = "assign"
    /\ handoff' = handoff \cup {"assign"}
    /\ Goes(w, "crm")
    /\ UNCHANGED <<lead, flows, queueVars, others, faults, history>>

(* Mutant: the CRM is forgotten. *)
SkipCrm(w) ==
    /\ wk[w].pc = "crm"
    /\ Goes(w, "converse")
    /\ UNCHANGED <<lead, flows, handoff, queueVars, others, faults, history>>

EnqueueCrm(w) ==
    /\ wk[w].pc = "crm"
    /\ handoff' = handoff \cup {"crm"}
    /\ Goes(w, "converse")
    /\ UNCHANGED <<lead, flows, queueVars, others, faults, history>>

Qualifies(r) == r.key \in {<<"ai", f>> : f \in Turns} /\ IsComplete(r.merged)

(* The commit.  The answers are written over whatever they are by now; a   *)
(* state the reader meant to keep is not written.                          *)
ConversationCommit(w) ==
    LET r == wk[w] IN
    /\ r.pc = "converse"
    /\ Insert(r.key)
    /\ answers' = IF r.merged = None THEN answers ELSE r.merged
    /\ state' = IF r.to = r.state THEN state ELSE r.to
    /\ qualifiedAt' = (qualifiedAt \/ Qualifies(r))
    /\ convo' = IF r.key = None THEN "paused" ELSE convo
    /\ before' = IF r.to = "human_owned" /\ r.to # r.state THEN None ELSE before
    /\ Done(w)
    /\ UNCHANGED <<previous, suppressed, lastIn, flows, handoff, queueVars, others, faults,
                   unpaused, fate, doubled, raced>>

(* A transition the state machine does not allow throws. *)
ConversationThrows(w) ==
    /\ wk[w].pc = "decide" /\ ~wk[w].stop
    /\ \/ ~CanTransition(wk[w].state, "human_owned")
       \/ \E f \in Turns :
             /\ GateMayPass(f)
             /\ ~CanTransition(wk[w].state,
                               NextState(wk[w].state, IsComplete(MergeAnswers(wk[w].facts, f))))

ConversationStep(w) ==
    \/ Fallback(w)
    \/ LeaveToOptOut(w)
    \/ PauseForHuman(w)
    \/ \E f \in Turns : Answer(w, f)
    \/ EnqueueAssign(w)
    \/ EnqueueCrm(w)
    \/ ConversationCommit(w)

=============================================================================
