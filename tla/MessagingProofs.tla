---------------------------- MODULE MessagingProofs ----------------------------
(***************************************************************************)
(* Type correctness of Messaging, for every value of its constants.        *)
(*                                                                         *)
(* TypeOK is not inductive: an execution's row, sid and lead are usable    *)
(* only at certain control points, and a job's attempts stay in range only *)
(* because a job is under a lock exactly while it is active.               *)
(***************************************************************************)
EXTENDS Messaging, TLAPS

(* A lock goes with an active job, and a job that may still run has an     *)
(* attempt left.                                                           *)
QueueInv ==
    /\ Q!QueueTypeOK
    /\ \A j \in Job : /\ holder[j] # None <=> jobState[j] = "active"
                      /\ jobState[j] \in {"absent", "waiting", "active"}
                            => tries[j] < MaxAttempts

(* What an execution holds at each of its control points. *)
ExecutionInv(e) ==
    /\ e.pc # "idle" => e.job \in Job
    /\ e.creates => e.lead \in Leads
    /\ e.pc \in {"compose", "composed"} => e.job \in Keys \X Leads /\ e.lead = e.job[2]
    /\ e.pc \in {"composed", "send", "accepted", "refused", "transient"} => e.row \in Rows
    /\ e.pc = "accepted" => e.sid \in Sids
    /\ e.pc \in {"select", "void", "record"} => e.lead \in Leads
    /\ e.pc = "waits" => \/ e.job \in {"first_touch"} \X Leads /\ e.lead = e.job[2]
                         \/ e.job \in {"inbound"} \X Inbounds /\ e.lead \in Leads

WorkersInv ==
    /\ wk \in [Workers -> Execution]
    /\ \A w \in Workers : ExecutionInv(wk[w])

DatabaseType ==
    /\ leadState \in [Leads -> LeadState]
    /\ convo \subseteq Leads
    /\ replied \subseteq Leads
    /\ consent \in [Leads -> {"granted", "unknown", "revoked"}]
    /\ suppressed \subseteq Leads
    /\ msgOf \in [Rows -> (Keys \X Leads) \cup {NoJob}]
    /\ msgStatus \in [Rows -> MsgStatus]
    /\ msgSid \in [Rows -> Sids \cup {None}]
    /\ outbox \in [Rows -> OutboxStatus]

OutsideType ==
    /\ statusTx \subseteq Rows \X ({"sent"} \cup Final)
    /\ accepted \in [Sids -> Rows \cup {None}]
    /\ carrier \in [Sids -> Final \cup {None}]
    /\ interrupted \subseteq Rows
    /\ reopened \subseteq Rows
    /\ voided \subseteq Rows
    /\ unseen \subseteq Workers
    /\ raced \subseteq Rows
    /\ faults \in 0..Faults

TypeInv == QueueInv /\ WorkersInv /\ DatabaseType /\ OutsideType

-----------------------------------------------------------------------------
(* A step of one worker, to an execution in order. *)
LEMMA OneWorker ==
    ASSUME WorkersInv, NEW w \in Workers, NEW e \in Execution, ExecutionInv(e),
           wk' = [wk EXCEPT ![w] = e]
    PROVE  WorkersInv'
  BY DEF WorkersInv

(* The job ids of each queue are jobs. *)
LEMMA JobIds ==
    /\ \A l \in Leads : FirstTouch(l) \in Job /\ FollowUp(l) \in Job
    /\ \A l \in Leads : FirstTouch(l) \in Keys \X Leads /\ FollowUp(l) \in Keys \X Leads
    /\ \A r \in Rows : Relay(r) \in Job
    /\ \A i \in Inbounds : Inbound(i) \in Job /\ Inbound(i) \in {"inbound"} \X Inbounds
  BY DEF FirstTouch, FollowUp, Relay, Inbound, Job, Keys

(* Every operation of the queue preserves QueueInv. *)
LEMMA QueueAdd == ASSUME QueueInv, NEW j \in Job, Q!Add(j) PROVE QueueInv'
  BY DEF QueueInv, Q!QueueTypeOK, Q!JobStatus, Q!Add

(* A job taken was waiting, and has an attempt left.                       *)
LEMMA QueueTake ==
    ASSUME QueueInv, NEW j \in Job, NEW w \in Workers, Q!Take(w, j) PROVE QueueInv'
  BY MessagingAssumption DEF QueueInv, Q!QueueTypeOK, Q!JobStatus, Q!Take

(* Completing releases the lock.                                           *)
LEMMA QueueComplete ==
    ASSUME QueueInv, NEW j \in Job, NEW w \in Workers, Q!Complete(w, j) PROVE QueueInv'
  BY MessagingAssumption DEF QueueInv, Q!QueueTypeOK, Q!JobStatus, Q!Complete

(* A throw uses one of the attempts that were left.                        *)
LEMMA QueueReject ==
    ASSUME QueueInv, NEW j \in Job, NEW w \in Workers, Q!Reject(w, j) PROVE QueueInv'
  BY MessagingAssumption DEF QueueInv, Q!QueueTypeOK, Q!JobStatus, Q!Reject

(* A stalled job is released.                                              *)
LEMMA QueueStall == ASSUME QueueInv, NEW j \in Job, Q!Stall(j) PROVE QueueInv'
  BY MessagingAssumption DEF QueueInv, Q!QueueTypeOK, Q!JobStatus, Q!Stall

(* A dropped job starts afresh.                                            *)
LEMMA QueueEvict == ASSUME QueueInv, NEW j \in Job, Q!Evict(j) PROVE QueueInv'
  BY MessagingAssumption DEF QueueInv, Q!QueueTypeOK, Q!JobStatus, Q!Evict

(* And so does a step that leaves the queue alone.                         *)
LEMMA QueueIdle == ASSUME QueueInv, UNCHANGED queueVars PROVE QueueInv'
  BY DEF QueueInv, Q!QueueTypeOK, Q!JobStatus, queueVars

(* An execution that begins, for a job of a lead. *)
LEMMA BeginType ==
    ASSUME TypeInv, NEW w \in Workers, NEW j \in Job, NEW l \in Leads,
           NEW pc \in {"skip", "compose", "select", "record"},
           \/ j \in Keys \X Leads /\ l = j[2]
           \/ j \in {"inbound"} \X Inbounds /\ pc # "compose",
           Begin(w, j, l, pc)
    PROVE  TypeInv'
  <1>1. QueueInv' BY QueueTake DEF TypeInv, Begin
  <1>2. WorkersInv'
    <2> DEFINE waits == j[1] # "follow_up" /\ InsertWaits(l)
               e == [Idle EXCEPT !.job = j, !.pc = IF waits THEN "waits" ELSE pc, !.lead = l,
                                 !.state = leadState[l], !.first = l \notin replied,
                                 !.creates = j[1] # "follow_up" /\ ~waits /\ l \notin convo]
    <2>1. wk' = [wk EXCEPT ![w] = e] BY DEF Begin
    <2>2. waits => \/ j \in {"first_touch"} \X Leads /\ l = j[2]
                   \/ j \in {"inbound"} \X Inbounds
      BY DEF Keys
    <2> HIDE DEF waits
    <2>3. e \in Execution
      <3>1. leadState[l] \in LeadState BY DEF TypeInv, DatabaseType
      <3>2. /\ (IF waits THEN "waits" ELSE pc) \in Pc
            /\ (l \notin replied) \in BOOLEAN
            /\ (j[1] # "follow_up" /\ ~waits /\ l \notin convo) \in BOOLEAN
        BY DEF Pc
      <3> QED BY <3>1, <3>2, Zenon DEF Idle, Execution
    <2>4. ExecutionInv(e)
      BY <2>2 DEF Idle, ExecutionInv
    <2> HIDE DEF e
    <2> QED BY <2>1, <2>3, <2>4, OneWorker DEF TypeInv
  <1>3. DatabaseType' BY DEF TypeInv, Begin, DatabaseType, dbLead, dbMsg
  <1>4. OutsideType' BY DEF TypeInv, Begin, OutsideType, provider, history
  <1> QED BY <1>1, <1>2, <1>3, <1>4 DEF TypeInv

(* An execution that waited goes on as if it had begun.                    *)
LEMMA InsertConversationType ==
    ASSUME TypeInv, NEW w \in Workers, InsertConversation(w) PROVE TypeInv'
  <1>1. QueueInv' BY QueueIdle DEF TypeInv, InsertConversation
  <1>2. WorkersInv'
    <2> DEFINE l == wk[w].lead
               pc == IF wk[w].job[1] = "first_touch" THEN FirstTouchPc(l)
                     ELSE InboundPc(wk[w].job[2])
               e == [wk[w] EXCEPT !.creates = TRUE, !.pc = pc]
    <2>1. wk[w] \in Execution /\ ExecutionInv(wk[w]) /\ wk[w].pc = "waits"
      BY DEF TypeInv, WorkersInv, InsertConversation
    <2>2. \/ /\ wk[w].job \in {"first_touch"} \X Leads /\ l = wk[w].job[2]
             /\ pc \in {"skip", "compose"}
          \/ l \in Leads /\ pc \in {"select", "record"}
      BY <2>1 DEF ExecutionInv, FirstTouchPc, InboundPc
    <2>3. wk' = [wk EXCEPT ![w] = e] BY DEF InsertConversation
    <2> HIDE DEF pc
    <2>4. e \in Execution BY <2>1, <2>2 DEF Execution, Pc
    <2>5. ExecutionInv(e) BY <2>1, <2>2, <2>4 DEF ExecutionInv, Execution, Keys
    <2> HIDE DEF e
    <2> QED BY <2>3, <2>4, <2>5, OneWorker DEF TypeInv
  <1>3. DatabaseType' BY DEF TypeInv, DatabaseType, dbLead, dbMsg, InsertConversation
  <1>4. OutsideType' BY DEF TypeInv, OutsideType, provider, history, InsertConversation
  <1> QED BY <1>1, <1>2, <1>3, <1>4 DEF TypeInv

(* An insert of a first touch enqueues a relay job and gives w a row.      *)
LEMMA FirstTouchComposeType ==
    ASSUME TypeInv, NEW w \in Workers, NEW l \in Leads, FirstTouchCompose(w, l)
    PROVE  TypeInv'
  <1>1. QueueInv' BY QueueAdd, JobIds DEF TypeInv, FirstTouchCompose
  <1>2. WorkersInv'
    <2>1. PICK r \in Rows :
            wk' = [wk EXCEPT ![w] = [wk[w] EXCEPT !.pc = "composed", !.row = r, !.lock = TRUE]]
      BY DEF FirstTouchCompose
    <2> DEFINE e == [wk[w] EXCEPT !.pc = "composed", !.row = r, !.lock = TRUE]
    <2>2. wk[w] \in Execution /\ ExecutionInv(wk[w]) BY DEF TypeInv, WorkersInv
    <2>3. wk[w].pc = "compose" BY DEF FirstTouchCompose
    <2>4. e \in Execution BY <2>2 DEF Execution, Pc
    <2>5. ExecutionInv(e) BY <2>2, <2>3, <2>4 DEF ExecutionInv, Execution
    <2> HIDE DEF e
    <2> QED BY <2>1, <2>4, <2>5, OneWorker DEF TypeInv, e
  <1>3. DatabaseType' BY DEF TypeInv, DatabaseType, dbLead, dbMsg, FirstTouchCompose
  <1>4. OutsideType' BY DEF TypeInv, OutsideType, provider, history, FirstTouchCompose
  <1> QED BY <1>1, <1>2, <1>3, <1>4 DEF TypeInv

(* So does that of a follow-up, unless its key is taken.                   *)
LEMMA FollowUpComposeType ==
    ASSUME TypeInv, NEW w \in Workers, NEW l \in Leads, FollowUpCompose(w, l)
    PROVE  TypeInv'
  <1>1. QueueInv' BY QueueAdd, QueueIdle, JobIds DEF TypeInv, FollowUpCompose
  <1>2. WorkersInv'
    <2>1. wk[w] \in Execution /\ ExecutionInv(wk[w]) BY DEF TypeInv, WorkersInv
    <2>2. wk[w].pc = "compose" BY DEF FollowUpCompose
    <2>3. CASE wk' = [wk EXCEPT ![w] = [wk[w] EXCEPT !.pc = "skip"]]
      <3> DEFINE e == [wk[w] EXCEPT !.pc = "skip"]
      <3>1. e \in Execution BY <2>1 DEF Execution, Pc
      <3>2. ExecutionInv(e) BY <2>1, <2>2, <3>1 DEF ExecutionInv, Execution
      <3> QED BY <2>3, <3>1, <3>2, OneWorker DEF TypeInv
    <2>4. ASSUME NEW r \in Rows,
                 wk' = [wk EXCEPT ![w] = [wk[w] EXCEPT !.pc = "composed", !.row = r]]
          PROVE  WorkersInv'
      <3> DEFINE e == [wk[w] EXCEPT !.pc = "composed", !.row = r]
      <3>1. e \in Execution BY <2>1 DEF Execution, Pc
      <3>2. ExecutionInv(e) BY <2>1, <2>2, <3>1 DEF ExecutionInv, Execution
      <3> QED BY <2>4, <3>1, <3>2, OneWorker DEF TypeInv
    <2> QED BY <2>3, <2>4 DEF FollowUpCompose
  <1>3. DatabaseType' BY DEF TypeInv, DatabaseType, dbLead, dbMsg, FollowUpCompose
  <1>4. OutsideType' BY DEF TypeInv, OutsideType, provider, history, FollowUpCompose
  <1> QED BY <1>1, <1>2, <1>3, <1>4 DEF TypeInv

(* The row a composing transaction commits is a row, under its own key.    *)
LEMMA ComposeCommitType == ASSUME TypeInv, NEW w \in Workers, ComposeCommit(w) PROVE TypeInv'
  <1>1. QueueInv' BY QueueIdle DEF TypeInv, ComposeCommit
  <1>2. WorkersInv'
    <2> DEFINE e == Committed(w)
    <2>1. wk[w] \in Execution /\ ExecutionInv(wk[w]) BY DEF TypeInv, WorkersInv
    <2>2. e \in Execution BY <2>1 DEF Committed, Execution, Idle, Pc, LeadState
    <2>3. ExecutionInv(e) BY <2>1 DEF ComposeCommit, Committed, ExecutionInv, Idle
    <2>4. wk' = [wk EXCEPT ![w] = e] BY DEF ComposeCommit, Committed
    <2> HIDE DEF e
    <2> QED BY <2>2, <2>3, <2>4, OneWorker DEF TypeInv
  <1>3. DatabaseType' BY
      DEF TypeInv, DatabaseType, WorkersInv, ExecutionInv, Execution, Pc, ComposeCommit,
          ConvoAfter, LeadState, MsgStatus, OutboxStatus
  <1>4. OutsideType' BY
      DEF TypeInv, OutsideType, provider, history, WorkersInv, ExecutionInv, Execution, Pc,
          ComposeCommit
  <1> QED BY <1>1, <1>2, <1>3, <1>4 DEF TypeInv

(* A transaction that composed nothing writes at most a conversation.      *)
LEMMA SkipCommitType == ASSUME TypeInv, NEW w \in Workers, SkipCommit(w) PROVE TypeInv'
  <1>1. QueueInv' BY QueueIdle DEF TypeInv, SkipCommit
  <1>2. WorkersInv'
    <2> DEFINE e == Committed(w)
    <2>1. wk[w] \in Execution /\ ExecutionInv(wk[w]) BY DEF TypeInv, WorkersInv
    <2>2. e \in Execution BY <2>1 DEF Committed, Execution, Idle, Pc, LeadState
    <2>3. ExecutionInv(e) BY <2>1 DEF SkipCommit, Committed, ExecutionInv, Idle
    <2>4. wk' = [wk EXCEPT ![w] = e] BY DEF SkipCommit, Committed
    <2> HIDE DEF e
    <2> QED BY <2>2, <2>3, <2>4, OneWorker DEF TypeInv
  <1>3. DatabaseType' BY
      DEF TypeInv, DatabaseType, dbMsg, WorkersInv, ExecutionInv, Execution, Pc, SkipCommit,
          ConvoAfter
  <1>4. OutsideType' BY DEF TypeInv, OutsideType, provider, history, SkipCommit
  <1> QED BY <1>1, <1>2, <1>3, <1>4 DEF TypeInv

(* A relay goes on only with a row.                                        *)
LEMMA RelayBeginType ==
    ASSUME TypeInv, NEW w \in Workers, NEW r \in Rows, RelayBegin(w, r)
    PROVE  TypeInv'
  <1>1. QueueInv' BY QueueTake, JobIds DEF TypeInv, RelayBegin
  <1>2. WorkersInv'
    BY JobIds
        DEF TypeInv, WorkersInv, ExecutionInv, Execution, Pc, RelayBegin, Idle, NoJob, LeadState
  <1>3. DatabaseType' BY DEF TypeInv, DatabaseType, dbLead, dbMsg, RelayBegin
  <1>4. OutsideType' BY DEF TypeInv, OutsideType, provider, history, RelayBegin
  <1> QED BY <1>1, <1>2, <1>3, <1>4 DEF TypeInv

(* The provider answers a send with a sid, or not at all.                  *)
LEMMA RelaySendType == ASSUME TypeInv, NEW w \in Workers, RelaySend(w) PROVE TypeInv'
  <1>1. QueueInv' BY QueueIdle DEF TypeInv, RelaySend
  <1>2. WorkersInv' BY DEF TypeInv, WorkersInv, ExecutionInv, Execution, Pc, RelaySend
  <1>3. DatabaseType' BY DEF TypeInv, DatabaseType, dbLead, dbMsg, RelaySend
  <1>4. OutsideType' BY MessagingAssumption
      DEF TypeInv, OutsideType, WorkersInv, ExecutionInv, Execution, Fault, RelaySend
  <1> QED BY <1>1, <1>2, <1>3, <1>4 DEF TypeInv

(* The answer is recorded on the row and its intent.                       *)
LEMMA RelaySettleType == ASSUME TypeInv, NEW w \in Workers, RelaySettle(w) PROVE TypeInv'
  <1>1. QueueInv' BY QueueIdle DEF TypeInv, RelaySettle
  <1>2. WorkersInv'
    <2> DEFINE e == Committed(w)
    <2>1. wk[w] \in Execution /\ ExecutionInv(wk[w]) BY DEF TypeInv, WorkersInv
    <2>2. e \in Execution BY <2>1 DEF Committed, Execution, Idle, Pc, LeadState
    <2>3. ExecutionInv(e) BY <2>1 DEF RelaySettle, Committed, ExecutionInv, Idle
    <2>4. wk' = [wk EXCEPT ![w] = e] BY DEF RelaySettle, Committed
    <2> HIDE DEF e
    <2> QED BY <2>2, <2>3, <2>4, OneWorker DEF TypeInv
  <1>3. DatabaseType' BY
      DEF TypeInv, DatabaseType, dbLead, dbMsg, WorkersInv, ExecutionInv, Execution, Pc,
          MsgStatus, OutboxStatus, RelaySettle
  <1>4. OutsideType' BY DEF TypeInv, OutsideType, provider, history, RelaySettle
  <1> QED BY <1>1, <1>2, <1>3, <1>4 DEF TypeInv

(* The messages a STOP selects are rows.                                   *)
LEMMA StopSelectType == ASSUME TypeInv, NEW w \in Workers, StopSelect(w) PROVE TypeInv'
  <1>1. QueueInv' BY QueueIdle DEF TypeInv, StopSelect
  <1>2. WorkersInv'
    <2> DEFINE e == [wk[w] EXCEPT !.pc = "void", !.lock = wk[w].first,
                                  !.queued = QueuedRows(wk[w].lead)]
    <2>1. wk[w] \in Execution /\ ExecutionInv(wk[w]) BY DEF TypeInv, WorkersInv
    <2>2. e \in Execution BY <2>1 DEF StopSelect, Execution, Pc, QueuedRows
    <2>3. ExecutionInv(e) BY <2>1, <2>2 DEF StopSelect, ExecutionInv, Execution, QueuedRows
    <2>4. wk' = [wk EXCEPT ![w] = e] BY DEF StopSelect, QueuedRows
    <2> HIDE DEF e
    <2> QED BY <2>2, <2>3, <2>4, OneWorker DEF TypeInv
  <1>3. DatabaseType' BY DEF TypeInv, DatabaseType, dbLead, dbMsg, StopSelect
  <1>4. OutsideType' BY DEF TypeInv, OutsideType, provider, history, StopSelect
  <1> QED BY <1>1, <1>2, <1>3, <1>4 DEF TypeInv

(* What a STOP writes.                                                     *)
LEMMA StopCommitType == ASSUME TypeInv, NEW w \in Workers, StopCommit(w) PROVE TypeInv'
  <1>1. QueueInv' BY QueueIdle DEF TypeInv, StopCommit
  <1>2. WorkersInv'
    <2> DEFINE e == Committed(w)
    <2>1. wk[w] \in Execution /\ ExecutionInv(wk[w]) BY DEF TypeInv, WorkersInv
    <2>2. e \in Execution BY <2>1 DEF Committed, Execution, Idle, Pc, LeadState
    <2>3. ExecutionInv(e) BY <2>1 DEF StopCommit, Committed, ExecutionInv, Idle
    <2>4. wk' = [wk EXCEPT ![w] = e] BY DEF StopCommit, Committed
    <2> HIDE DEF e
    <2> QED BY <2>2, <2>3, <2>4, OneWorker DEF TypeInv
  <1>3. DatabaseType' BY
      DEF TypeInv, DatabaseType, dbLead, dbMsg, WorkersInv, ExecutionInv, Execution, Pc,
          MsgStatus, OutboxStatus, LeadState, ConvoAfter, StopCommit
  <1>4. OutsideType' BY
      DEF TypeInv, OutsideType, provider, history, WorkersInv, ExecutionInv, Execution, Pc,
          StopCommit, Overlapping
  <1> QED BY <1>1, <1>2, <1>3, <1>4 DEF TypeInv

(* What a reply or HELP writes.                                            *)
LEMMA RecordCommitType == ASSUME TypeInv, NEW w \in Workers, RecordCommit(w) PROVE TypeInv'
  <1>1. QueueInv' BY QueueIdle DEF TypeInv, RecordCommit
  <1>2. WorkersInv'
    <2> DEFINE e == Committed(w)
    <2>1. wk[w] \in Execution /\ ExecutionInv(wk[w]) BY DEF TypeInv, WorkersInv
    <2>2. e \in Execution BY <2>1 DEF Committed, Execution, Idle, Pc, LeadState
    <2>3. ExecutionInv(e) BY <2>1 DEF RecordCommit, Committed, ExecutionInv, Idle
    <2>4. wk' = [wk EXCEPT ![w] = e] BY DEF RecordCommit, Committed
    <2> HIDE DEF e
    <2> QED BY <2>2, <2>3, <2>4, OneWorker DEF TypeInv
  <1>3. DatabaseType' BY
      DEF TypeInv, DatabaseType, dbLead, dbMsg, WorkersInv, ExecutionInv, Execution, Pc,
          LeadState, ConvoAfter, RecordCommit
  <1>4. OutsideType' BY DEF TypeInv, OutsideType, provider, history, RecordCommit
  <1> QED BY <1>1, <1>2, <1>3, <1>4 DEF TypeInv

(* A callback is for a row and a status of the carrier.                    *)
LEMMA StatusReadType == ASSUME TypeInv, NEW s \in Sids, StatusRead(s) PROVE TypeInv'
  <1>1. QueueInv' BY QueueIdle DEF TypeInv, StatusRead
  <1>2. WorkersInv' BY DEF TypeInv, WorkersInv, StatusRead
  <1>3. DatabaseType' BY DEF TypeInv, DatabaseType, dbLead, dbMsg, StatusRead
  <1>4. OutsideType' BY DEF TypeInv, OutsideType, provider, history, Final, StatusRead
  <1> QED BY <1>1, <1>2, <1>3, <1>4 DEF TypeInv

(* A status write sets a message status.                                   *)
LEMMA StatusWriteType == ASSUME TypeInv, NEW r \in Rows, NEW st, StatusWrite(r, st) PROVE TypeInv'
  <1>1. QueueInv' BY QueueIdle DEF TypeInv, StatusWrite
  <1>2. WorkersInv' BY DEF TypeInv, WorkersInv, StatusWrite
  <1>3. DatabaseType' BY
      DEF TypeInv, DatabaseType, dbLead, dbMsg, OutsideType, MsgStatus, Final, StatusWrite
  <1>4. OutsideType' BY DEF TypeInv, OutsideType, provider, history, StatusWrite
  <1> QED BY <1>1, <1>2, <1>3, <1>4 DEF TypeInv

(* The carrier settles with a final status.                                *)
LEMMA CarrierSettlesType == ASSUME TypeInv, NEW s \in Sids, CarrierSettles(s) PROVE TypeInv'
  <1>1. QueueInv' BY QueueIdle DEF TypeInv, CarrierSettles
  <1>2. WorkersInv' BY DEF TypeInv, WorkersInv, CarrierSettles
  <1>3. DatabaseType' BY DEF TypeInv, DatabaseType, dbLead, dbMsg, CarrierSettles
  <1>4. OutsideType' BY MessagingAssumption
      DEF TypeInv, OutsideType, provider, history, Final, CarrierSettles
  <1> QED BY <1>1, <1>2, <1>3, <1>4 DEF TypeInv

(* The manual retry keeps to the statuses.                                 *)
LEMMA RetryFailedMessageType == ASSUME TypeInv, NEW r \in Rows, RetryFailedMessage(r) PROVE TypeInv'
  <1>1. QueueInv' BY QueueIdle DEF TypeInv, RetryFailedMessage
  <1>2. WorkersInv' BY DEF TypeInv, WorkersInv, RetryFailedMessage
  <1>3. DatabaseType' BY
      DEF TypeInv, DatabaseType, dbLead, dbMsg, MsgStatus, OutboxStatus, RetryFailedMessage
  <1>4. OutsideType' BY DEF TypeInv, OutsideType, provider, history, RetryFailedMessage
  <1> QED BY <1>1, <1>2, <1>3, <1>4 DEF TypeInv

(* The other components set lead states.                                   *)
LEMMA LeadMovesType ==
    ASSUME TypeInv, NEW l \in Leads, NEW s \in Moves, LeadMoves(l, s)
    PROVE  TypeInv'
  <1>1. QueueInv' BY QueueIdle DEF TypeInv, LeadMoves
  <1>2. WorkersInv' BY DEF TypeInv, WorkersInv, LeadMoves
  <1>3. DatabaseType' BY MessagingAssumption
      DEF TypeInv, DatabaseType, dbLead, dbMsg, LeadState, LeadMoves
  <1>4. OutsideType' BY DEF TypeInv, OutsideType, provider, history, LeadMoves
  <1> QED BY <1>1, <1>2, <1>3, <1>4 DEF TypeInv

(* What arrives is a job.                                                  *)
LEMMA ArrivesType == ASSUME TypeInv, NEW j \in Job, Arrives(j) PROVE TypeInv'
  <1>1. QueueInv' BY QueueAdd DEF TypeInv, Arrives
  <1>2. WorkersInv' BY DEF TypeInv, WorkersInv, Arrives
  <1>3. DatabaseType' BY DEF TypeInv, DatabaseType, dbLead, dbMsg, Arrives
  <1>4. OutsideType' BY DEF TypeInv, OutsideType, provider, history, Arrives
  <1> QED BY <1>1, <1>2, <1>3, <1>4 DEF TypeInv

(* An acknowledged job has an execution behind it.                         *)
LEMMA FinishType == ASSUME TypeInv, NEW w \in Workers, Finish(w) PROVE TypeInv'
  <1>1. QueueInv' BY QueueComplete DEF TypeInv, WorkersInv, ExecutionInv, Finish
  <1>2. WorkersInv' BY
      DEF TypeInv, WorkersInv, ExecutionInv, Execution, Pc, Leave, Idle, NoJob, LeadState, Finish
  <1>3. DatabaseType' BY DEF TypeInv, DatabaseType, dbLead, dbMsg, Finish
  <1>4. OutsideType' BY DEF TypeInv, OutsideType, provider, history, Leave, Finish
  <1> QED BY <1>1, <1>2, <1>3, <1>4 DEF TypeInv

(* A handler that throws leaves its worker idle, its job retried or failed. *)
LEMMA ThrowType == ASSUME TypeInv, NEW w \in Workers, Throw(w) PROVE TypeInv'
  <1>1. QueueInv' BY QueueReject DEF TypeInv, WorkersInv, ExecutionInv, Throw, MustThrow
  <1>2. WorkersInv' BY
      DEF TypeInv, WorkersInv, ExecutionInv, Execution, Pc, Leave, Idle, NoJob, LeadState, Throw
  <1>3. DatabaseType' BY DEF TypeInv, DatabaseType, dbLead, dbMsg, Throw
  <1>4. OutsideType' BY MessagingAssumption
      DEF TypeInv, OutsideType, provider, history, WorkersInv, ExecutionInv, Leave, Fault, Throw
  <1> QED BY <1>1, <1>2, <1>3, <1>4 DEF TypeInv

(* A crash leaves the worker idle and the queue alone.                     *)
LEMMA CrashType == ASSUME TypeInv, NEW w \in Workers, Crash(w) PROVE TypeInv'
  <1>1. QueueInv' BY QueueIdle DEF TypeInv, Crash
  <1>2. WorkersInv' BY
      DEF TypeInv, WorkersInv, ExecutionInv, Execution, Pc, Leave, Idle, NoJob, LeadState, Crash
  <1>3. DatabaseType' BY DEF TypeInv, DatabaseType, dbLead, dbMsg, Crash
  <1>4. OutsideType' BY MessagingAssumption
      DEF TypeInv, OutsideType, provider, history, WorkersInv, ExecutionInv, Leave, Fault, Crash
  <1> QED BY <1>1, <1>2, <1>3, <1>4 DEF TypeInv

(* The stalled check only touches the queue, and a fault is spent.         *)
LEMMA StallType == ASSUME TypeInv, NEW j \in Job, Stall(j) PROVE TypeInv'
  <1>1. QueueInv' BY QueueStall DEF TypeInv, Stall
  <1>2. WorkersInv' BY DEF TypeInv, WorkersInv, Stall
  <1>3. DatabaseType' BY DEF TypeInv, DatabaseType, dbLead, dbMsg, Stall
  <1>4. OutsideType' BY MessagingAssumption
      DEF TypeInv, OutsideType, provider, history, Fault, Stall
  <1> QED BY <1>1, <1>2, <1>3, <1>4 DEF TypeInv

(* Dropping a completed job only touches the queue.                        *)
LEMMA EvictType == ASSUME TypeInv, NEW j \in Job, Evict(j) PROVE TypeInv'
  <1>1. QueueInv' BY QueueEvict DEF TypeInv, Evict
  <1>2. WorkersInv' BY DEF TypeInv, WorkersInv, Evict
  <1>3. DatabaseType' BY DEF TypeInv, DatabaseType, dbLead, dbMsg, Evict
  <1>4. OutsideType' BY DEF TypeInv, OutsideType, provider, history, Evict
  <1> QED BY <1>1, <1>2, <1>3, <1>4 DEF TypeInv

(* The handlers of a lead's jobs begin in order.                           *)
LEMMA FirstTouchBeginType ==
    ASSUME TypeInv, NEW w \in Workers, NEW l \in Leads, FirstTouchBegin(w, l) PROVE TypeInv'
  BY BeginType, JobIds DEF FirstTouchBegin, FirstTouch, FirstTouchPc

(* Likewise.                                                              *)
LEMMA FollowUpBeginType ==
    ASSUME TypeInv, NEW w \in Workers, NEW l \in Leads, FollowUpBegin(w, l) PROVE TypeInv'
  BY BeginType, JobIds DEF FollowUpBegin, FollowUp

(* Likewise.                                                              *)
LEMMA InboundBeginType ==
    ASSUME TypeInv, NEW w \in Workers, NEW i \in Inbounds, InboundBegin(w, i) PROVE TypeInv'
  BY BeginType, JobIds, MessagingAssumption DEF InboundBegin, Inbound, InboundPc

-----------------------------------------------------------------------------
(* TypeInv is inductive.                                                   *)
LEMMA TypeStep == TypeInv /\ [Next]_vars => TypeInv'
  <1> SUFFICES ASSUME TypeInv, [Next]_vars PROVE TypeInv' OBVIOUS
  <1>1. ASSUME NEW w \in Workers, Takes(w) PROVE TypeInv'
    BY <1>1, FirstTouchBeginType, FollowUpBeginType, RelayBeginType, InboundBeginType DEF Takes
  <1>2. ASSUME NEW w \in Workers, Proceeds(w) PROVE TypeInv'
    BY <1>2, FirstTouchComposeType, FollowUpComposeType, InsertConversationType, ComposeCommitType, SkipCommitType,
       RelaySendType, RelaySettleType, StopSelectType, StopCommitType, RecordCommitType,
       FinishType, ThrowType DEF Proceeds
  <1>3. CASE Environment
    <2>1. CASE \E l \in Leads : IngestEnqueues(l) \/ FollowUpDue(l)
      BY <2>1, ArrivesType, JobIds DEF IngestEnqueues, FollowUpDue
    <2>2. CASE \E i \in Inbounds : InboundWebhook(i)
      BY <2>2, ArrivesType, JobIds DEF InboundWebhook
    <2>3. CASE \E t \in statusTx : StatusWrite(t[1], t[2])
      BY <2>3, StatusWriteType DEF TypeInv, OutsideType
    <2> QED
      BY <1>3, <2>1, <2>2, <2>3, LeadMovesType, CarrierSettlesType, StatusReadType,
         RetryFailedMessageType, CrashType, StallType, EvictType DEF Environment
  <1>4. CASE UNCHANGED vars
    <2>1. QueueInv' BY <1>4, QueueIdle DEF TypeInv, vars, queueVars
    <2>2. WorkersInv' BY <1>4 DEF TypeInv, WorkersInv, vars
    <2>3. DatabaseType' BY <1>4 DEF TypeInv, DatabaseType, vars, dbLead, dbMsg
    <2>4. OutsideType' BY <1>4 DEF TypeInv, OutsideType, vars, provider, history
    <2> QED BY <2>1, <2>2, <2>3, <2>4 DEF TypeInv
  <1> QED BY <1>1, <1>2, <1>3, <1>4 DEF Next

(* It holds initially.                                                     *)
LEMMA TypeInit == Init => TypeInv
  <1> SUFFICES ASSUME Init PROVE TypeInv OBVIOUS
  <1>1. QueueInv
    BY MessagingAssumption DEF Init, QueueInv, Q!QueueInit, Q!QueueTypeOK, Q!JobStatus
  <1>2. WorkersInv
    BY DEF Init, WorkersInv, ExecutionInv, Execution, Idle, Pc, LeadState
  <1>3. DatabaseType
    BY DEF Init, DatabaseType, LeadState, MsgStatus, OutboxStatus
  <1>4. OutsideType BY MessagingAssumption DEF Init, OutsideType
  <1> QED BY <1>1, <1>2, <1>3, <1>4 DEF TypeInv

(* The inductive invariant holds: executions, locks and attempts are in    *)
(* order in every reachable state.                                         *)
THEOREM TypeInvariant == Spec => []TypeInv
  BY TypeInit, TypeStep, PTL DEF Spec

(* Type correctness: the database, the queues and the executions keep to   *)
(* their values, and no job is tried more than MaxAttempts times.          *)
THEOREM TypeCorrect == Spec => []TypeOK
  <1>1. TypeInv => TypeOK
    BY DEF TypeInv, QueueInv, WorkersInv, DatabaseType, OutsideType, TypeOK
  <1> QED BY <1>1, TypeInvariant, PTL

=============================================================================
