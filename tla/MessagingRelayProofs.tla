-------------------------- MODULE MessagingRelayProofs --------------------------
(***************************************************************************)
(* The relay of Messaging beside STOP, the manual retry and the delivery   *)
(* callbacks, for every value of the constants: what may still be pending  *)
(* after a STOP, when the provider gets a row twice, and when a delivered  *)
(* message loses that status.                                              *)
(*                                                                         *)
(* The three rest on RelayInv: of the executions that relay a row one is   *)
(* under the job's lock, and every other one was stalled, which the        *)
(* history calls interrupted.  So a dispatched intent of an uninterrupted  *)
(* row has no relay left that could send it or settle it again.            *)
(***************************************************************************)
EXTENDS MessagingSafetyProofs

(* A row that is not a message is blank, and nobody works on it. *)
RowInv ==
    /\ \A r \in Rows : msgOf[r] = NoJob =>
          outbox[r] = "none" /\ msgStatus[r] = "none" /\ msgSid[r] = None
    /\ \A w \in Workers : Unsettled(w) =>
          msgOf[wk[w].row] # NoJob /\ wk[w].job = Relay(wk[w].row)
    /\ \A w \in Workers : wk[w].pc = "void" => \A r \in wk[w].queued : msgOf[r] # NoJob

(* What a relay without the job's lock, one of a dispatched intent, and a  *)
(* recorded or an accepted send say of the row.                            *)
RelayInv ==
    /\ \A w \in Workers : Unsettled(w) /\ holder[wk[w].job] # w => wk[w].row \in interrupted
    /\ \A w \in Workers : Unsettled(w) /\ outbox[wk[w].row] = "dispatched"
          => wk[w].row \in interrupted
    /\ \A r \in Rows : msgSid[r] # None => outbox[r] = "dispatched" \/ r \in interrupted
    /\ \A s \in Sids : accepted[s] # None =>
          \/ outbox[accepted[s]] = "dispatched"
          \/ accepted[s] \in interrupted
          \/ \E w \in Workers : wk[w].pc = "accepted" /\ wk[w].row = accepted[s]
    /\ DuplicateOnlyIfInterrupted

(* Of a row relayed once and never re-opened, a callback tells what the    *)
(* carrier settled.                                                        *)
CallbackInv ==
    \A r \in Rows \ (interrupted \cup reopened) : msgSid[r] # None =>
        /\ msgStatus[r] # "queued"
        /\ msgStatus[r] = "delivered" => carrier[msgSid[r]] = "delivered"
        /\ \A st \in MsgStatus : <<r, st>> \in statusTx => st = carrier[msgSid[r]]

(* A pending intent is of a message that was never sent and is still       *)
(* queued; a STOP that has selected the queued messages has it, unless its *)
(* transaction overlaps.                                                   *)
PendingInv ==
    /\ \A r \in Rows \ reopened : outbox[r] = "pending" =>
          msgStatus[r] = "queued" /\ msgSid[r] = None
    /\ \A w \in Workers : wk[w].pc = "void" =>
          \A r \in Rows : outbox[r] = "pending" /\ msgOf[r][2] = wk[w].lead
              => r \in wk[w].queued \cup raced \cup reopened
    /\ StopLeavesNothingPending

-----------------------------------------------------------------------------
(* Steps beside the relay.                                                 *)

(* No worker comes to one of these control points or moves while there.    *)
Stays ==
    \A u \in Workers : wk'[u].pc \in {"send", "accepted", "refused", "transient", "void"}
        => wk'[u] = wk[u]

(* A step that neither begins, sends nor settles a relay: it may take a    *)
(* job's lock from a relay, or cut one off, but then says so.              *)
Aside ==
    /\ \A u \in Workers : Unsettled(u)' => wk'[u] = wk[u]
    /\ \A u \in Workers : wk[u].pc = "accepted" /\ wk'[u] # wk[u] => wk[u].row \in interrupted'
    /\ \A u \in Workers : Unsettled(u)' /\ holder[wk[u].job] = u
          => holder'[wk[u].job] = u \/ wk[u].row \in interrupted'
    /\ interrupted \subseteq interrupted'
    /\ \A r \in Rows : outbox'[r] = "dispatched" <=> outbox[r] = "dispatched"
    /\ UNCHANGED <<msgSid, accepted>>

(* Such a step preserves RelayInv. *)
LEMMA AsideRelay == ASSUME TypeInv, RelayInv, Aside PROVE RelayInv'
  <1>1. \A s \in Sids : accepted[s] \in Rows \cup {None} BY DEF TypeInv, OutsideType
  <1>2. \A u \in Workers : Unsettled(u) => wk[u].row \in Rows
    BY DEF TypeInv, WorkersInv, ExecutionInv, Unsettled
  <1>3. ASSUME NEW u \in Workers, Unsettled(u)', holder'[wk'[u].job] # u
        PROVE  wk'[u].row \in interrupted'
    BY <1>3 DEF RelayInv, Aside, Unsettled
  <1>4. ASSUME NEW u \in Workers, Unsettled(u)', outbox'[wk'[u].row] = "dispatched"
        PROVE  wk'[u].row \in interrupted'
    BY <1>2, <1>4 DEF RelayInv, Aside, Unsettled
  <1>5. ASSUME NEW r \in Rows, msgSid'[r] # None
        PROVE  outbox'[r] = "dispatched" \/ r \in interrupted'
    BY <1>5 DEF RelayInv, Aside
  <1>6. ASSUME NEW s \in Sids, accepted'[s] # None
        PROVE  \/ outbox'[accepted'[s]] = "dispatched"
               \/ accepted'[s] \in interrupted'
               \/ \E u \in Workers : wk'[u].pc = "accepted" /\ wk'[u].row = accepted'[s]
    <2>1. accepted[s] \in Rows /\ accepted'[s] = accepted[s] BY <1>1, <1>6 DEF Aside
    <2>2. CASE \E u \in Workers : wk[u].pc = "accepted" /\ wk[u].row = accepted[s]
      BY <2>1, <2>2 DEF Aside
    <2> QED BY <1>6, <2>1, <2>2 DEF RelayInv, Aside
  <1>7. DuplicateOnlyIfInterrupted' BY DEF RelayInv, Aside, DuplicateOnlyIfInterrupted
  <1> QED BY <1>3, <1>4, <1>5, <1>6, <1>7 DEF RelayInv

(* An operation of the queue, by a worker whose execution ends or begins,  *)
(* takes no lock from another one. *)
LEMMA TakeHolders ==
    ASSUME TypeInv, NEW w \in Workers, NEW j \in Job, Q!Take(w, j),
           NEW u \in Workers, u # w, wk[u].job \in Job, holder[wk[u].job] = u
    PROVE  holder'[wk[u].job] = u
  <1>1. holder[j] = None BY DEF TypeInv, QueueInv, Q!Take
  <1>2. u # None BY MessagingAssumption
  <1> QED BY <1>1, <1>2 DEF TypeInv, QueueInv, Q!QueueTypeOK, Q!Take

(* A worker that ends takes its own lock along only. *)
LEMMA EndHolders ==
    ASSUME TypeInv, NEW w \in Workers, NEW j, Q!Complete(w, j) \/ Q!Reject(w, j),
           NEW u \in Workers, u # w, wk[u].job \in Job, holder[wk[u].job] = u
    PROVE  holder'[wk[u].job] = u
  BY DEF TypeInv, QueueInv, Q!QueueTypeOK, Q!Complete, Q!Reject

(* An unsettled execution is of a job and a row. *)
LEMMA RelayJob ==
    ASSUME TypeInv, NEW u \in Workers, Unsettled(u)
    PROVE  wk[u].job \in Job /\ wk[u].row \in Rows
  BY DEF TypeInv, WorkersInv, ExecutionInv, Unsettled

(* What a handler other than the relay does when it begins. *)
LEMMA BeginAside ==
    ASSUME TypeInv, NEW w \in Workers, NEW j \in Job, NEW l,
           NEW pc \in {"skip", "compose", "select", "record"}, Begin(w, j, l, pc)
    PROVE  Stays /\ Aside
  <1>1. wk'[w].pc \in {pc, "waits"} /\ wk[w].pc = "idle" BY DEF TypeInv, WorkersInv, Begin, Idle
  <1>2. \A u \in Workers \ {w} : wk'[u] = wk[u] BY DEF TypeInv, WorkersInv, Begin
  <1>3. UNCHANGED <<interrupted, outbox, msgSid, accepted>> /\ Q!Take(w, j)
    BY DEF Begin, history, dbMsg, provider
  <1>4. \A u \in Workers : Unsettled(u)' /\ holder[wk[u].job] = u => holder'[wk[u].job] = u
    BY <1>1, <1>2, <1>3, TakeHolders, RelayJob DEF Unsettled
  <1> QED BY <1>1, <1>2, <1>3, <1>4 DEF Stays, Aside, Unsettled

(* What it does until it commits. *)
LEMMA ComposeAside ==
    ASSUME TypeInv, NEW w \in Workers, NEW l \in Leads,
           FirstTouchCompose(w, l) \/ FollowUpCompose(w, l)
    PROVE  Stays /\ Aside
  <1>1. UNCHANGED <<interrupted, outbox, msgSid, accepted, holder>>
    BY DEF FirstTouchCompose, FollowUpCompose, history, dbMsg, provider, queueVars, Q!Add
  <1> QED BY <1>1, ComposeMoves DEF Stays, Aside, Unsettled

(* A conversation is inserted beside the relay. *)
LEMMA InsertAside ==
    ASSUME TypeInv, NEW w \in Workers, InsertConversation(w) PROVE Stays /\ Aside
  <1>1. UNCHANGED <<interrupted, outbox, msgSid, accepted, holder>>
    BY DEF InsertConversation, history, dbMsg, provider, queueVars
  <1> QED BY <1>1, InsertMoves DEF Stays, Aside, Unsettled

(* A STOP that selects what is queued touches no relay. *)
LEMMA StopSelectAside == ASSUME TypeInv, NEW w \in Workers, StopSelect(w) PROVE Aside
  <1>1. UNCHANGED <<interrupted, outbox, msgSid, accepted, holder>>
    BY DEF StopSelect, history, dbMsg, provider, queueVars
  <1>2. wk[w].pc = "select" /\ wk'[w].pc = "void" /\ \A u \in Workers \ {w} : wk'[u] = wk[u]
    BY DEF StopSelect, TypeInv, WorkersInv, Execution
  <1> QED BY <1>1, <1>2 DEF Aside, Unsettled

(* A commit: no row is dispatched or ceases to be by any but the relay's.  *)
LEMMA CommitStays ==
    ASSUME TypeInv, NEW w \in Workers,
           ComposeCommit(w) \/ SkipCommit(w) \/ RelaySettle(w) \/ StopCommit(w) \/ RecordCommit(w)
    PROVE  /\ Stays
           /\ wk'[w].pc = "done"
           /\ \A u \in Workers \ {w} : wk'[u] = wk[u]
           /\ UNCHANGED <<interrupted, accepted, holder>>
  <1>1. wk' = [wk EXCEPT ![w] = Committed(w)]
    BY DEF ComposeCommit, SkipCommit, RelaySettle, StopCommit, RecordCommit
  <1>2. Committed(w).pc = "done" BY DEF Idle, Committed
  <1>3. UNCHANGED <<interrupted, accepted, holder>>
    BY DEF ComposeCommit, SkipCommit, RelaySettle, StopCommit, RecordCommit, history, provider,
       queueVars
  <1> QED BY <1>1, <1>2, <1>3 DEF TypeInv, WorkersInv, Stays

(* No commit of another handler dispatches an intent, or undoes that. *)
LEMMA CommitAside ==
    ASSUME TypeInv, RowInv, KeyInv, NEW w \in Workers,
           ComposeCommit(w) \/ SkipCommit(w) \/ StopCommit(w) \/ RecordCommit(w)
    PROVE  Aside
  <1>1. wk[w].pc # "accepted"
    BY DEF ComposeCommit, SkipCommit, StopCommit, RecordCommit
  <1>2. UNCHANGED msgSid
    BY DEF ComposeCommit, SkipCommit, StopCommit, RecordCommit, dbMsg
  <1>3. \A r \in Rows : outbox'[r] = "dispatched" <=> outbox[r] = "dispatched"
    <2>1. CASE ComposeCommit(w)
      <3>1. wk[w].pc = "composed" /\ outbox' = [outbox EXCEPT ![wk[w].row] = "pending"]
        BY <2>1 DEF ComposeCommit
      <3>2. wk[w].row \in Rows /\ outbox[wk[w].row] = "none"
        BY <3>1 DEF TypeInv, WorkersInv, ExecutionInv, KeyInv, RowInv
      <3> QED BY <3>1, <3>2 DEF TypeInv, DatabaseType
    <2>2. CASE StopCommit(w) BY <2>2 DEF StopCommit
    <2>3. CASE SkipCommit(w) \/ RecordCommit(w) BY <2>3 DEF SkipCommit, RecordCommit, dbMsg
    <2> QED BY <2>1, <2>2, <2>3
  <1> QED BY <1>1, <1>2, <1>3, CommitStays DEF Stays, Aside, Unsettled

(* An execution that ends, by itself or not, and the rest of the           *)
(* environment.                                                            *)
LEMMA LeaveAside ==
    ASSUME TypeInv, NEW w \in Workers, Finish(w) \/ Throw(w) \/ Crash(w)
    PROVE  Stays /\ Aside
  <1>1. wk'[w].pc = "idle" /\ \A u \in Workers \ {w} : wk'[u] = wk[u]
    BY DEF Finish, Throw, Crash, Leave, Idle, TypeInv, WorkersInv
  <1>2. UNCHANGED <<outbox, msgSid, accepted>> BY DEF Finish, Throw, Crash, dbMsg, provider
  <1>3. /\ interrupted \subseteq interrupted'
        /\ wk[w].pc = "accepted" => wk[w].row \in interrupted'
    BY DEF Finish, Throw, Crash
  <1>4. \A u \in Workers : Unsettled(u)' /\ holder[wk[u].job] = u => holder'[wk[u].job] = u
    <2>1. UNCHANGED holder \/ Q!Complete(w, wk[w].job) \/ Q!Reject(w, wk[w].job)
      BY DEF Finish, Throw, Crash, queueVars
    <2> QED BY <1>1, <2>1, EndHolders, RelayJob DEF Unsettled
  <1> QED BY <1>1, <1>2, <1>3, <1>4 DEF Stays, Aside, Unsettled

(* Only the stalled check takes a lock, and what it takes it from is cut   *)
(* off.                                                                    *)
LEMMA StallAside ==
    ASSUME TypeInv, RowInv, NEW j \in Job, Stall(j) PROVE Stays /\ Aside
  <1>1. UNCHANGED <<wk, outbox, msgSid, accepted>> /\ interrupted \subseteq interrupted'
    BY DEF Stall, dbMsg, provider
  <1>2. \A i \in Job : i # j => holder'[i] = holder[i]
    BY DEF Stall, Q!Stall, TypeInv, QueueInv, Q!QueueTypeOK
  <1>3. ASSUME NEW u \in Workers, Unsettled(u), wk[u].job = j PROVE wk[u].row \in interrupted'
    <2>1. j = Relay(wk[u].row) /\ wk[u].row \in Rows BY <1>3, RelayJob DEF RowInv
    <2> QED BY <1>3, <2>1 DEF Stall
  <1> QED BY <1>1, <1>2, <1>3, RelayJob DEF Stays, Aside, Unsettled

(* Nor does what reaches the system from outside. *)
LEMMA EnvironmentAside == ASSUME TypeInv, RowInv, Environment PROVE Stays /\ Aside
  <1>1. ASSUME NEW w \in Workers, Crash(w) PROVE Stays /\ Aside BY <1>1, LeaveAside
  <1>2. ASSUME NEW j \in Job, Stall(j) PROVE Stays /\ Aside BY <1>2, StallAside
  <1>3. CASE /\ UNCHANGED <<wk, holder, interrupted, msgSid, accepted>>
             /\ \A r \in Rows : outbox'[r] = "dispatched" <=> outbox[r] = "dispatched"
    BY <1>3 DEF Stays, Aside, Unsettled
  <1>4. ASSUME NEW r \in Rows, RetryFailedMessage(r) PROVE Stays /\ Aside
    <2>1. \A q \in Rows : outbox'[q] = "dispatched" <=> outbox[q] = "dispatched"
      BY <1>4 DEF RetryFailedMessage, TypeInv, DatabaseType
    <2> QED BY <1>3, <1>4, <2>1 DEF RetryFailedMessage, queueVars, provider
  <1>5. CASE UNCHANGED <<wk, holder, interrupted, msgSid, accepted, outbox>> BY <1>3, <1>5
  <1> QED
    BY <1>1, <1>2, <1>4, <1>5 DEF Environment, IngestEnqueues, FollowUpDue, InboundWebhook, Arrives,
       LeadMoves, CarrierSettles, StatusRead, StatusWrite, Evict, Q!Evict, Q!Add, history, dbMsg,
       provider, queueVars

-----------------------------------------------------------------------------
(* Rows.                                                                   *)

(* A step that makes messages of blank rows and changes messages only.     *)
LEMMA RowFrame ==
    ASSUME TypeInv, RowInv, Stays,
           \A r \in Rows : msgOf[r] # NoJob => msgOf'[r] # NoJob,
           \A r \in Rows : msgOf[r] = NoJob =>
              \/ msgOf'[r] # NoJob
              \/ outbox'[r] = outbox[r] /\ msgStatus'[r] = msgStatus[r] /\ msgSid'[r] = msgSid[r]
    PROVE  RowInv'
  <1>1. \A u \in Workers : wk[u].queued \subseteq Rows BY DEF TypeInv, WorkersInv, Execution
  <1>2. ASSUME NEW r \in Rows, msgOf'[r] = NoJob
        PROVE  outbox'[r] = "none" /\ msgStatus'[r] = "none" /\ msgSid'[r] = None
    BY <1>2 DEF RowInv
  <1>3. ASSUME NEW u \in Workers, Unsettled(u)'
        PROVE  msgOf'[wk'[u].row] # NoJob /\ wk'[u].job = Relay(wk'[u].row)
    <2>1. wk'[u] = wk[u] /\ Unsettled(u) BY <1>3 DEF Stays, Unsettled
    <2> QED BY <2>1, RelayJob DEF RowInv
  <1>4. ASSUME NEW u \in Workers, wk'[u].pc = "void", NEW r \in wk'[u].queued
        PROVE  msgOf'[r] # NoJob
    BY <1>1, <1>4 DEF RowInv, Stays
  <1> QED BY <1>2, <1>3, <1>4 DEF RowInv

(* A relay begins to send only what is a message.                          *)
LEMMA RelayBegins ==
    ASSUME TypeInv, NEW w \in Workers, NEW r \in Rows, RelayBegin(w, r)
    PROVE  /\ wk[w].pc = "idle" /\ Q!Take(w, Relay(r))
           /\ wk'[w].job = Relay(r) /\ wk'[w].row = r
           /\ wk'[w].pc \in {"missing", "skip", "send"}
           /\ wk'[w].pc = "send" => msgOf[r] # NoJob /\ outbox[r] # "dispatched"
           /\ \A u \in Workers \ {w} : wk'[u] = wk[u]
           /\ UNCHANGED <<dbLead, dbMsg, statusTx, provider, history>>
  BY DEF RelayBegin, Idle, TypeInv, WorkersInv

(* A send goes to the provider once or not at all; its relay keeps the row.*)
LEMMA RelaySends ==
    ASSUME TypeInv, NEW w \in Workers, RelaySend(w)
    PROVE  /\ wk[w].pc = "send"
           /\ wk'[w].row = wk[w].row /\ wk'[w].job = wk[w].job
           /\ \A u \in Workers \ {w} : wk'[u] = wk[u]
           /\ \/ wk'[w].pc \in {"refused", "transient"} /\ UNCHANGED <<accepted, interrupted>>
              \/ \E s \in Sids :
                   /\ SidFor(wk[w].row, s)
                   /\ accepted' = [accepted EXCEPT ![s] = wk[w].row]
                   /\ \/ wk'[w].pc = "accepted" /\ UNCHANGED interrupted
                      \/ wk'[w].pc = "transient" /\ interrupted' = interrupted \cup {wk[w].row}
           /\ UNCHANGED <<dbLead, dbMsg, queueVars, statusTx, carrier, reopened, voided, raced>>
  <1> DEFINE r == wk[w].row
  <1>1. wk[w] \in Execution /\ wk \in [Workers -> Execution] BY DEF TypeInv, WorkersInv
  <1>2. CASE wk' = [wk EXCEPT ![w].pc = "refused"] \/ wk' = [wk EXCEPT ![w].pc = "transient"]
    <2>1. /\ wk'[w].row = r /\ wk'[w].job = wk[w].job
          /\ \A u \in Workers \ {w} : wk'[u] = wk[u]
          /\ wk'[w].pc \in {"refused", "transient"}
          /\ wk' = [wk EXCEPT ![w].pc = "refused"] => wk'[w].pc = "refused"
          /\ wk' = [wk EXCEPT ![w].pc = "transient"] => wk'[w].pc = "transient"
      BY <1>1, <1>2 DEF Execution
    <2>2. \A s \in Sids : wk' # [wk EXCEPT ![w].pc = "accepted", ![w].sid = s]
      <3> SUFFICES ASSUME NEW s \in Sids, wk' = [wk EXCEPT ![w].pc = "accepted", ![w].sid = s]
                   PROVE  wk'[w].pc = "accepted"
        BY <2>1
      <3> QED BY <1>1 DEF Execution
    <2> QED BY <2>1, <2>2 DEF RelaySend
  <1>3. ASSUME NEW s \in Sids, wk' = [wk EXCEPT ![w].pc = "accepted", ![w].sid = s],
               SidFor(r, s), accepted' = [accepted EXCEPT ![s] = r], UNCHANGED interrupted
        PROVE  /\ wk'[w].row = r /\ wk'[w].job = wk[w].job /\ wk'[w].pc = "accepted"
               /\ \A u \in Workers \ {w} : wk'[u] = wk[u]
    BY <1>1, <1>3 DEF Execution
  <1> QED BY <1>2, <1>3 DEF RelaySend

(* A settling relay records the answer on its row.                         *)
LEMMA RelaySettles ==
    ASSUME TypeInv, NEW w \in Workers, RelaySettle(w)
    PROVE  /\ wk[w].row \in Rows
           /\ \/ /\ wk[w].pc = "accepted" /\ outbox'[wk[w].row] = "dispatched"
                 /\ msgStatus'[wk[w].row] = "sent" /\ msgSid'[wk[w].row] = wk[w].sid
                 /\ wk[w].sid # None
              \/ /\ wk[w].pc = "refused" /\ outbox'[wk[w].row] = "failed"
                 /\ msgStatus'[wk[w].row] = "failed"
                 /\ UNCHANGED msgSid
           /\ \A r \in Rows \ {wk[w].row} :
                outbox'[r] = outbox[r] /\ msgSid'[r] = msgSid[r] /\ msgStatus'[r] = msgStatus[r]
           /\ UNCHANGED <<dbLead, msgOf, statusTx, provider, history>>
  <1>1. wk[w].row \in Rows /\ (wk[w].pc = "accepted" => wk[w].sid # None)
    BY MessagingAssumption DEF RelaySettle, TypeInv, WorkersInv, ExecutionInv
  <1> QED BY <1>1 DEF RelaySettle, TypeInv, DatabaseType

(* A STOP selects messages of its lead.                                    *)
LEMMA StopSelects ==
    ASSUME TypeInv, NEW w \in Workers, StopSelect(w)
    PROVE  /\ wk'[w].pc = "void" /\ wk'[w].lead = wk[w].lead
           /\ wk'[w].queued = QueuedRows(wk[w].lead)
           /\ \A u \in Workers \ {w} : wk'[u] = wk[u]
           /\ UNCHANGED <<dbLead, dbMsg, statusTx, provider, history>>
  BY DEF StopSelect, TypeInv, WorkersInv, Execution

(* RowInv is inductive, relative to the invariants of messages and sends.  *)
LEMMA RowStep == TypeInv /\ KeyInv /\ SendInv /\ RowInv /\ [Next]_vars => RowInv'
  <1> SUFFICES ASSUME TypeInv, KeyInv, SendInv, RowInv, [Next]_vars PROVE RowInv' OBVIOUS
  <1>1. CASE Stays /\ UNCHANGED dbMsg BY <1>1, RowFrame DEF dbMsg
  <1>2. ASSUME NEW w \in Workers, Takes(w) PROVE RowInv'
    <2>1. ASSUME NEW l \in Leads, FirstTouchBegin(w, l) PROVE RowInv'
      BY <1>1, <2>1, BeginAside, JobIds DEF FirstTouchBegin, FirstTouchPc, Begin
    <2>2. ASSUME NEW l \in Leads, FollowUpBegin(w, l) PROVE RowInv'
      BY <1>1, <2>2, BeginAside, JobIds DEF FollowUpBegin, Begin
    <2>3. ASSUME NEW i \in Inbounds, InboundBegin(w, i) PROVE RowInv'
      BY <1>1, <2>3, BeginAside, JobIds DEF InboundBegin, InboundPc, Begin
    <2>4. ASSUME NEW r \in Rows, RelayBegin(w, r) PROVE RowInv'
      BY <2>4, RelayBegins DEF RowInv, dbMsg, Unsettled
    <2> QED BY <1>2, <2>1, <2>2, <2>3, <2>4 DEF Takes
  <1>3. ASSUME NEW w \in Workers, Proceeds(w) PROVE RowInv'
    <2>1. ASSUME NEW l \in Leads, FirstTouchCompose(w, l) \/ FollowUpCompose(w, l) PROVE RowInv'
      BY <1>1, <2>1, ComposeAside DEF FirstTouchCompose, FollowUpCompose
    <2>2. CASE InsertConversation(w) BY <1>1, <2>2, InsertAside DEF InsertConversation
    <2>3. CASE ComposeCommit(w)
      <3> DEFINE r == wk[w].row
      <3>1. /\ msgOf' = [msgOf EXCEPT ![r] = wk[w].job]
            /\ msgStatus' = [msgStatus EXCEPT ![r] = "queued"]
            /\ outbox' = [outbox EXCEPT ![r] = "pending"]
            /\ UNCHANGED msgSid
        BY <2>3 DEF ComposeCommit
      <3>2. r \in Rows /\ wk[w].job # NoJob
        BY <2>3 DEF ComposeCommit, TypeInv, WorkersInv, ExecutionInv, Keys, NoJob
      <3> HIDE DEF r
      <3>3. Stays BY <2>3, CommitStays
      <3> QED BY <3>1, <3>2, <3>3, RowFrame DEF TypeInv, DatabaseType
    <2>4. CASE SkipCommit(w) \/ RecordCommit(w)
      BY <1>1, <2>4, CommitStays DEF SkipCommit, RecordCommit
    <2>5. CASE StopCommit(w)
      <3>1. \A r \in Rows : msgOf[r] = NoJob => r \notin wk[w].queued
        BY <2>5 DEF StopCommit, RowInv
      <3>2. UNCHANGED <<msgOf, msgSid>> BY <2>5 DEF StopCommit
      <3>3. \A r \in Rows : r \notin wk[w].queued =>
              outbox'[r] = outbox[r] /\ msgStatus'[r] = msgStatus[r]
        BY <2>5 DEF StopCommit
      <3> QED BY <2>5, <3>1, <3>2, <3>3, CommitStays, RowFrame
    <2>6. CASE RelaySend(w)
      BY <2>6, RelaySends DEF RowInv, dbMsg, Unsettled
    <2>7. CASE RelaySettle(w)
      <3>1. msgOf[wk[w].row] # NoJob BY <2>7, RelaySettles DEF RowInv, Unsettled
      <3> QED BY <2>7, <3>1, RelaySettles, CommitStays, RowFrame
    <2>8. CASE StopSelect(w)
      BY <2>8, StopSelects DEF RowInv, QueuedRows, dbMsg, Unsettled
    <2>9. CASE Finish(w) \/ Throw(w) BY <1>1, <2>9, LeaveAside DEF Finish, Throw
    <2> QED BY <1>3, <2>1, <2>2, <2>3, <2>4, <2>5, <2>6, <2>7, <2>8, <2>9 DEF Proceeds
  <1>4. CASE Environment
    <2>1. Stays BY <1>4, EnvironmentAside
    <2>2. ASSUME NEW t \in statusTx, StatusWrite(t[1], t[2]) PROVE RowInv'
      <3>1. msgSid[t[1]] # None /\ t[1] \in Rows BY DEF SendInv, TypeInv, OutsideType
      <3>2. msgOf[t[1]] # NoJob BY <3>1 DEF RowInv
      <3>3. /\ UNCHANGED <<msgOf, msgSid, outbox>>
            /\ \A r \in Rows : r # t[1] => msgStatus'[r] = msgStatus[r]
        BY <2>2, <3>1 DEF StatusWrite, TypeInv, DatabaseType
      <3> QED BY <2>1, <3>2, <3>3, RowFrame
    <2>3. ASSUME NEW r \in Rows, RetryFailedMessage(r) PROVE RowInv'
      <3>1. msgOf[r] # NoJob BY <2>3 DEF RetryFailedMessage, RowInv
      <3>2. /\ UNCHANGED <<msgOf, msgSid>>
            /\ \A q \in Rows : q # r => msgStatus'[q] = msgStatus[q] /\ outbox'[q] = outbox[q]
        BY <2>3 DEF RetryFailedMessage, TypeInv, DatabaseType
      <3> QED BY <2>1, <3>1, <3>2, RowFrame
    <2> QED
      BY <1>1, <1>4, <2>1, <2>2, <2>3 DEF Environment, IngestEnqueues, FollowUpDue, InboundWebhook,
         Arrives, LeadMoves, CarrierSettles, StatusRead, Crash, Stall, Evict
  <1>5. CASE UNCHANGED vars BY <1>1, <1>5 DEF vars, Stays
  <1> QED BY <1>2, <1>3, <1>4, <1>5 DEF Next

-----------------------------------------------------------------------------
(* Relays.                                                                 *)

(* Two relays of a row cannot both have the lock of its job. *)
LEMMA OneLock ==
    ASSUME TypeInv, RowInv, RelayInv, NEW u \in Workers, NEW w \in Workers, u # w,
           Unsettled(u), Unsettled(w), wk[u].row = wk[w].row
    PROVE  wk[u].row \in interrupted
  BY DEF RowInv, RelayInv

(* A relay takes the lock of a job nobody has, and reads that its intent   *)
(* is not dispatched.                                                      *)
LEMMA BeginRelay ==
    ASSUME TypeInv, RowInv, RelayInv, NEW w \in Workers, NEW r \in Rows, RelayBegin(w, r)
    PROVE  RelayInv'
  <1>1. UNCHANGED <<outbox, msgSid, accepted, interrupted>>
    BY RelayBegins DEF dbMsg, provider, history
  <1>2. \A u \in Workers \ {w} : wk'[u] = wk[u] BY RelayBegins
  <1>3. ASSUME NEW u \in Workers, Unsettled(u)', holder'[wk'[u].job] # u
        PROVE  wk'[u].row \in interrupted'
    <2>1. CASE u = w
      <3>1. holder'[Relay(r)] = w
        BY RelayBegins, JobIds DEF TypeInv, QueueInv, Q!QueueTypeOK, Q!Take
      <3> QED BY <1>3, <2>1, <3>1, RelayBegins
    <2>2. CASE u # w
      <3>1. Unsettled(u) /\ wk'[u] = wk[u] BY <1>2, <1>3, <2>2 DEF Unsettled
      <3>2. holder[wk[u].job] # u BY <1>3, <2>2, <3>1, TakeHolders, RelayJob, RelayBegins, JobIds
      <3> QED BY <1>1, <3>1, <3>2 DEF RelayInv
    <2> QED BY <2>1, <2>2
  <1>4. ASSUME NEW u \in Workers, Unsettled(u)', outbox'[wk'[u].row] = "dispatched"
        PROVE  wk'[u].row \in interrupted'
    <2>1. u # w BY <1>1, <1>4, RelayBegins DEF Unsettled
    <2> QED BY <1>1, <1>2, <1>4, <2>1 DEF RelayInv, Unsettled
  <1>5. ASSUME NEW s \in Sids, accepted'[s] # None
        PROVE  \/ outbox'[accepted'[s]] = "dispatched"
               \/ accepted'[s] \in interrupted'
               \/ \E u \in Workers : wk'[u].pc = "accepted" /\ wk'[u].row = accepted'[s]
    <2>1. \A u \in Workers : wk[u].pc = "accepted" => wk'[u] = wk[u] BY <1>2, RelayBegins
    <2> QED BY <1>1, <1>5, <2>1 DEF RelayInv
  <1> QED BY <1>1, <1>3, <1>4, <1>5 DEF RelayInv, DuplicateOnlyIfInterrupted

(* A row the provider has accepted before is sent again only by a relay    *)
(* of a dispatched intent or beside one that was accepted: interrupted.    *)
LEMMA SentBefore ==
    ASSUME TypeInv, RowInv, RelayInv, NEW w \in Workers, wk[w].pc = "send",
           NEW t \in Sids, accepted[t] = wk[w].row
    PROVE  wk[w].row \in interrupted
  <1>1. wk[w].row \in Rows /\ Unsettled(w) BY DEF TypeInv, WorkersInv, ExecutionInv, Unsettled
  <1>2. \/ outbox[wk[w].row] = "dispatched"
        \/ wk[w].row \in interrupted
        \/ \E u \in Workers : wk[u].pc = "accepted" /\ wk[u].row = wk[w].row
    BY <1>1, MessagingAssumption DEF RelayInv
  <1>3. ASSUME NEW u \in Workers, wk[u].pc = "accepted", wk[u].row = wk[w].row
        PROVE  wk[w].row \in interrupted
    BY <1>1, <1>3, OneLock DEF Unsettled
  <1> QED BY <1>1, <1>2, <1>3 DEF RelayInv

(* The send keeps RelayInv, whatever becomes of its answer. *)
LEMMA SendRelay ==
    ASSUME TypeInv, RowInv, RelayInv, NEW w \in Workers, RelaySend(w) PROVE RelayInv'
  <1> DEFINE r == wk[w].row
  <1>1. wk[w].pc = "send" /\ Unsettled(w) /\ r \in Rows /\ r # None
    BY RelaySends, MessagingAssumption DEF TypeInv, WorkersInv, ExecutionInv, Unsettled
  <1>2. UNCHANGED <<holder, outbox, msgSid>> BY RelaySends DEF queueVars, dbMsg
  <1>3. \A u \in Workers : /\ wk'[u].row = wk[u].row /\ wk'[u].job = wk[u].job
                           /\ Unsettled(u)' => Unsettled(u)
    BY <1>1, RelaySends DEF Unsettled
  <1>4. interrupted \subseteq interrupted' BY RelaySends
  <1>5. ASSUME NEW u \in Workers, Unsettled(u)', holder'[wk'[u].job] # u
        PROVE  wk'[u].row \in interrupted'
    BY <1>2, <1>3, <1>4, <1>5 DEF RelayInv
  <1>6. ASSUME NEW u \in Workers, Unsettled(u)', outbox'[wk'[u].row] = "dispatched"
        PROVE  wk'[u].row \in interrupted'
    BY <1>2, <1>3, <1>4, <1>6 DEF RelayInv
  <1>7. ASSUME NEW q \in Rows, msgSid'[q] # None
        PROVE  outbox'[q] = "dispatched" \/ q \in interrupted'
    BY <1>2, <1>4, <1>7 DEF RelayInv
  <1>8. \A u \in Workers : wk[u].pc = "accepted" => wk'[u] = wk[u] BY <1>1, RelaySends
  <1>9. CASE UNCHANGED accepted
    <2>1. ASSUME NEW s \in Sids, accepted'[s] # None
          PROVE  \/ outbox'[accepted'[s]] = "dispatched"
                 \/ accepted'[s] \in interrupted'
                 \/ \E u \in Workers : wk'[u].pc = "accepted" /\ wk'[u].row = accepted'[s]
      BY <1>2, <1>4, <1>8, <1>9, <2>1 DEF RelayInv
    <2>2. DuplicateOnlyIfInterrupted' BY <1>4, <1>9 DEF RelayInv, DuplicateOnlyIfInterrupted
    <2> QED BY <1>5, <1>6, <1>7, <2>1, <2>2 DEF RelayInv
  <1>10. ASSUME NEW s \in Sids, accepted' = [accepted EXCEPT ![s] = r],
                wk'[w].pc = "accepted" \/ interrupted' = interrupted \cup {r}
         PROVE  RelayInv'
    <2>1. \A t \in Sids : accepted'[t] = IF t = s THEN r ELSE accepted[t]
      BY <1>10 DEF TypeInv, OutsideType
    <2>2. \A t \in Sids : accepted[t] = r => r \in interrupted BY <1>1, SentBefore
    <2> HIDE DEF r
    <2>3. ASSUME NEW t \in Sids, accepted'[t] # None
          PROVE  \/ outbox'[accepted'[t]] = "dispatched"
                 \/ accepted'[t] \in interrupted'
                 \/ \E u \in Workers : wk'[u].pc = "accepted" /\ wk'[u].row = accepted'[t]
      <3>1. CASE t = s BY <1>3, <1>10, <2>1, <3>1 DEF r
      <3>2. CASE t # s BY <1>2, <1>4, <1>8, <2>1, <2>3, <3>2 DEF RelayInv
      <3> QED BY <3>1, <3>2
    <2>4. DuplicateOnlyIfInterrupted'
      BY <1>1, <1>4, <2>1, <2>2 DEF RelayInv, DuplicateOnlyIfInterrupted
    <2> QED BY <1>5, <1>6, <1>7, <2>3, <2>4 DEF RelayInv
  <1> QED BY <1>9, <1>10, RelaySends

(* A settling relay dispatches the intent, or records a refusal over a     *)
(* dispatched one only if the row is interrupted.                          *)
LEMMA SettleRelay ==
    ASSUME TypeInv, RowInv, RelayInv, NEW w \in Workers, RelaySettle(w) PROVE RelayInv'
  <1> DEFINE r == wk[w].row
  <1>1. r \in Rows /\ Unsettled(w) /\ wk[w].pc \in {"accepted", "refused"}
    BY RelaySettles DEF Unsettled
  <1>2. UNCHANGED <<holder, accepted, interrupted>> /\ wk'[w].pc = "done"
        /\ \A u \in Workers \ {w} : wk'[u] = wk[u]
    BY CommitStays
  <1>3. ASSUME NEW u \in Workers, Unsettled(u)'
        PROVE  u # w /\ Unsettled(u) /\ wk'[u] = wk[u] /\ (wk[u].row = r => r \in interrupted)
    <2>1. u # w /\ Unsettled(u) /\ wk'[u] = wk[u] BY <1>2, <1>3 DEF Unsettled
    <2> QED BY <1>1, <2>1, OneLock
  <1>4. \A q \in Rows \ {r} : outbox'[q] = outbox[q] /\ msgSid'[q] = msgSid[q]
    BY RelaySettles
  <1>5. ASSUME NEW u \in Workers, Unsettled(u)', holder'[wk'[u].job] # u
        PROVE  wk'[u].row \in interrupted'
    BY <1>2, <1>3, <1>5 DEF RelayInv
  <1>6. ASSUME NEW u \in Workers, Unsettled(u)', outbox'[wk'[u].row] = "dispatched"
        PROVE  wk'[u].row \in interrupted'
    <2>1. CASE wk[u].row = r BY <1>2, <1>3, <1>6, <2>1
    <2>2. CASE wk[u].row # r BY <1>2, <1>3, <1>4, <1>6, <2>2, RelayJob DEF RelayInv
    <2> QED BY <2>1, <2>2
  <1>7. ASSUME NEW q \in Rows, msgSid'[q] # None
        PROVE  outbox'[q] = "dispatched" \/ q \in interrupted'
    <2>1. CASE q # r BY <1>2, <1>4, <1>7, <2>1 DEF RelayInv
    <2>2. CASE q = r /\ wk[w].pc = "accepted" BY <2>2, RelaySettles
    <2>3. CASE q = r /\ wk[w].pc = "refused"
      <3>1. msgSid[r] # None BY <1>7, <2>3, RelaySettles
      <3> QED BY <1>1, <1>2, <2>3, <3>1 DEF RelayInv
    <2> QED BY <1>1, <2>1, <2>2, <2>3
  <1>8. ASSUME NEW s \in Sids, accepted'[s] # None
        PROVE  \/ outbox'[accepted'[s]] = "dispatched"
               \/ accepted'[s] \in interrupted'
               \/ \E u \in Workers : wk'[u].pc = "accepted" /\ wk'[u].row = accepted'[s]
    <2>1. accepted'[s] = accepted[s] /\ accepted[s] \in Rows
      BY <1>2, <1>8 DEF TypeInv, OutsideType
    <2>2. CASE accepted[s] # r
      <3>1. ASSUME NEW u \in Workers, wk[u].pc = "accepted", wk[u].row = accepted[s]
            PROVE  wk'[u] = wk[u]
        BY <1>2, <2>2, <3>1
      <3> QED BY <1>2, <1>4, <1>8, <2>1, <2>2, <3>1 DEF RelayInv
    <2>3. CASE accepted[s] = r /\ wk[w].pc = "accepted" BY <2>1, <2>3, RelaySettles
    <2>4. CASE accepted[s] = r /\ wk[w].pc = "refused"
      <3>1. CASE outbox[r] = "dispatched" \/ r \in interrupted
        BY <1>1, <1>2, <2>1, <2>4, <3>1 DEF RelayInv
      <3>2. ASSUME NEW u \in Workers, wk[u].pc = "accepted", wk[u].row = r
            PROVE  r \in interrupted
        BY <1>1, <2>4, <3>2, OneLock DEF Unsettled
      <3> QED BY <1>2, <1>8, <2>1, <2>4, <3>1, <3>2 DEF RelayInv
    <2> QED BY <1>1, <2>2, <2>3, <2>4
  <1>9. DuplicateOnlyIfInterrupted' BY <1>2 DEF RelayInv, DuplicateOnlyIfInterrupted
  <1> QED BY <1>5, <1>6, <1>7, <1>8, <1>9 DEF RelayInv

(* RelayInv is inductive, relative to RowInv. *)
LEMMA RelayStep == TypeInv /\ KeyInv /\ RowInv /\ RelayInv /\ [Next]_vars => RelayInv'
  <1> SUFFICES ASSUME TypeInv, KeyInv, RowInv, RelayInv, [Next]_vars PROVE RelayInv' OBVIOUS
  <1>1. ASSUME NEW w \in Workers, Takes(w) PROVE RelayInv'
    <2>1. ASSUME NEW l \in Leads, FirstTouchBegin(w, l) PROVE RelayInv'
      BY <2>1, AsideRelay, BeginAside, JobIds DEF FirstTouchBegin, FirstTouchPc
    <2>2. ASSUME NEW l \in Leads, FollowUpBegin(w, l) PROVE RelayInv'
      BY <2>2, AsideRelay, BeginAside, JobIds DEF FollowUpBegin
    <2>3. ASSUME NEW i \in Inbounds, InboundBegin(w, i) PROVE RelayInv'
      BY <2>3, AsideRelay, BeginAside, JobIds DEF InboundBegin, InboundPc
    <2> QED BY <1>1, <2>1, <2>2, <2>3, BeginRelay DEF Takes
  <1>2. ASSUME NEW w \in Workers, Proceeds(w) PROVE RelayInv'
    <2>1. ASSUME NEW l \in Leads, FirstTouchCompose(w, l) \/ FollowUpCompose(w, l) PROVE RelayInv'
      BY <2>1, AsideRelay, ComposeAside
    <2>2. CASE InsertConversation(w) BY <2>2, AsideRelay, InsertAside
    <2>3. CASE ComposeCommit(w) \/ SkipCommit(w) \/ StopCommit(w) \/ RecordCommit(w)
      BY <2>3, AsideRelay, CommitAside
    <2>4. CASE StopSelect(w) BY <2>4, AsideRelay, StopSelectAside
    <2>5. CASE Finish(w) \/ Throw(w) BY <2>5, AsideRelay, LeaveAside
    <2> QED BY <1>2, <2>1, <2>2, <2>3, <2>4, <2>5, SendRelay, SettleRelay DEF Proceeds
  <1>3. CASE Environment BY <1>3, AsideRelay, EnvironmentAside
  <1>4. CASE UNCHANGED vars
    <2>1. Aside BY <1>4 DEF vars, dbMsg, history, provider, queueVars, Aside, Unsettled
    <2> QED BY <2>1, AsideRelay
  <1> QED BY <1>1, <1>2, <1>3, <1>4 DEF Next

(* There is neither a message nor a relay at first. *)
LEMMA InitRows == Init => RowInv /\ RelayInv
  <1> SUFFICES ASSUME Init PROVE RowInv /\ RelayInv OBVIOUS
  <1>1. \A w \in Workers : wk[w].pc = "idle" BY DEF Init, Idle
  <1>2. RowInv BY <1>1 DEF Init, RowInv, Unsettled
  <1>3. RelayInv BY <1>1 DEF Init, RelayInv, Unsettled, DuplicateOnlyIfInterrupted
  <1> QED BY <1>2, <1>3

(* No row reaches the provider twice unless a relay of it was cut off      *)
(* between the send and its record, or overlapped another one              *)
(* (processMessagingOut under retries, stalls and repeated jobs).          *)
THEOREM NoSilentDuplicate == Spec => []DuplicateOnlyIfInterrupted
  <1>1. Init => KeyInv BY DEF Init, KeyInv, OneMessagePerKey, Idle
  <1>2. Init => SendInv BY DEF Init, SendInv, Idle
  <1>3. RelayInv => DuplicateOnlyIfInterrupted BY DEF RelayInv
  <1> QED
    BY <1>1, <1>2, <1>3, InitRows, KeyStep, SendStep, RowStep, RelayStep, TypeInvariant, PTL
    DEF Spec

-----------------------------------------------------------------------------
(* Callbacks.                                                              *)

(* A step that hears nothing from the carrier and gives no row a sid, and  *)
(* that fails a message if it changes its status at all.                   *)
LEMMA CallbackFrame ==
    ASSUME TypeInv, CallbackInv, UNCHANGED <<msgSid, carrier>>, statusTx' \subseteq statusTx,
           interrupted \subseteq interrupted', reopened \subseteq reopened',
           \A r \in Rows \ (interrupted' \cup reopened') :
              msgSid[r] # None => msgStatus'[r] \in {msgStatus[r], "failed"}
    PROVE  CallbackInv'
  <1> SUFFICES ASSUME NEW r \in Rows \ (interrupted' \cup reopened'), msgSid'[r] # None
               PROVE  /\ msgStatus'[r] # "queued"
                      /\ msgStatus'[r] = "delivered" => carrier'[msgSid'[r]] = "delivered"
                      /\ \A st \in MsgStatus : <<r, st>> \in statusTx' => st = carrier'[msgSid'[r]]
    BY DEF CallbackInv
  <1>1. r \in Rows \ (interrupted \cup reopened) /\ msgSid[r] # None OBVIOUS
  <1> QED BY <1>1 DEF CallbackInv

(* A callback being written is of a row, with a status of the carrier.     *)
LEMMA StatusTx ==
    ASSUME TypeInv, NEW t \in statusTx
    PROVE  t[1] \in Rows /\ t[2] \in {"sent"} \cup Final /\ t = <<t[1], t[2]>>
  <1>1. t \in Rows \X ({"sent"} \cup Final) BY DEF TypeInv, OutsideType
  <1> QED BY <1>1

(* A relay settles a row that is neither interrupted nor re-opened for the *)
(* first time.                                                             *)
LEMMA SettlesFirst ==
    ASSUME TypeInv, SendInv, RowInv, RelayInv, NEW w \in Workers, RelaySettle(w),
           wk[w].row \notin interrupted
    PROVE  msgSid[wk[w].row] = None /\ \A st : <<wk[w].row, st>> \notin statusTx
  <1>1. Unsettled(w) /\ wk[w].row \in Rows BY RelaySettles DEF Unsettled
  <1>2. msgSid[wk[w].row] = None BY <1>1 DEF RelayInv
  <1> QED BY <1>2 DEF SendInv

(* CallbackInv is inductive, relative to the invariants of sends and       *)
(* relays.                                                                 *)
LEMMA CallbackStep ==
    TypeInv /\ KeyInv /\ SendInv /\ RowInv /\ RelayInv /\ CallbackInv /\ [Next]_vars => CallbackInv'
  <1> SUFFICES ASSUME TypeInv, KeyInv, SendInv, RowInv, RelayInv, CallbackInv, [Next]_vars
               PROVE  CallbackInv'
    OBVIOUS
  <1>1. CASE /\ UNCHANGED <<dbMsg, carrier, statusTx, reopened>>
             /\ interrupted \subseteq interrupted'
    BY <1>1, CallbackFrame DEF dbMsg
  <1>2. ASSUME NEW w \in Workers, Takes(w) PROVE CallbackInv'
    BY <1>1, <1>2 DEF Takes, FirstTouchBegin, FollowUpBegin, InboundBegin, RelayBegin, Begin,
       provider, history
  <1>3. ASSUME NEW w \in Workers, Proceeds(w) PROVE CallbackInv'
    <2>1. ASSUME NEW l \in Leads, FirstTouchCompose(w, l) \/ FollowUpCompose(w, l)
          PROVE  CallbackInv'
      BY <1>1, <2>1 DEF FirstTouchCompose, FollowUpCompose, provider, history
    <2>2. CASE InsertConversation(w) \/ StopSelect(w)
      BY <1>1, <2>2 DEF InsertConversation, StopSelect, provider, history
    <2>3. CASE ComposeCommit(w)
      <3>1. wk[w].row \in Rows /\ msgSid[wk[w].row] = None
        BY <2>3 DEF ComposeCommit, TypeInv, WorkersInv, ExecutionInv, KeyInv, RowInv
      <3>2. /\ msgStatus' = [msgStatus EXCEPT ![wk[w].row] = "queued"]
            /\ UNCHANGED <<msgSid, carrier, statusTx, interrupted, reopened>>
        BY <2>3 DEF ComposeCommit, provider
      <3>3. \A r \in Rows : msgSid[r] # None => msgStatus'[r] = msgStatus[r]
        BY <3>1, <3>2 DEF TypeInv, DatabaseType
      <3> QED BY <3>2, <3>3, CallbackFrame
    <2>4. CASE SkipCommit(w) \/ RecordCommit(w)
      BY <1>1, <2>4 DEF SkipCommit, RecordCommit, provider
    <2>5. CASE StopCommit(w)
      <3>1. \A r \in Rows : msgStatus'[r] \in {msgStatus[r], "failed"}
        BY <2>5 DEF StopCommit
      <3>2. UNCHANGED <<msgSid, carrier, statusTx, interrupted, reopened>>
        BY <2>5 DEF StopCommit, provider
      <3> QED BY <3>1, <3>2, CallbackFrame
    <2>6. CASE RelaySend(w) BY <1>1, <2>6, RelaySends
    <2>7. CASE RelaySettle(w)
      <3> DEFINE q == wk[w].row
      <3>1. UNCHANGED <<carrier, statusTx, interrupted, reopened>>
        BY <2>7, RelaySettles DEF provider, history
      <3>2. ASSUME NEW r \in Rows \ (interrupted' \cup reopened'), msgSid'[r] # None
            PROVE  /\ msgStatus'[r] # "queued"
                   /\ msgStatus'[r] = "delivered" => carrier'[msgSid'[r]] = "delivered"
                   /\ \A st \in MsgStatus : <<r, st>> \in statusTx' => st = carrier'[msgSid'[r]]
        <4>1. CASE r = q
          <5>1. msgSid[q] = None /\ \A st : <<q, st>> \notin statusTx
            BY <2>7, <3>1, <3>2, <4>1, SettlesFirst
          <5>2. msgStatus'[q] \in {"sent", "failed"} BY <2>7, RelaySettles
          <5> QED BY <3>1, <4>1, <5>1, <5>2
        <4>2. CASE r # q
          <5>1. msgSid'[r] = msgSid[r] /\ msgStatus'[r] = msgStatus[r]
            BY <2>7, <4>2, RelaySettles
          <5> QED BY <3>1, <3>2, <5>1 DEF CallbackInv
        <4> QED BY <4>1, <4>2
      <3> QED BY <3>2 DEF CallbackInv
    <2>8. CASE Finish(w) \/ Throw(w)
      BY <1>1, <2>8 DEF Finish, Throw, provider
    <2> QED BY <1>3, <2>1, <2>2, <2>3, <2>4, <2>5, <2>6, <2>7, <2>8 DEF Proceeds
  <1>4. CASE Environment
    <2>1. ASSUME NEW s \in Sids, CarrierSettles(s) PROVE CallbackInv'
      <3>1. UNCHANGED <<msgSid, msgStatus, statusTx, interrupted, reopened>> /\ carrier[s] = None
        BY <2>1 DEF CarrierSettles, dbMsg, history
      <3>2. \A t \in Sids : carrier[t] # None => carrier'[t] = carrier[t]
        BY <2>1 DEF CarrierSettles, TypeInv, OutsideType
      <3>3. \A r \in Rows : msgSid[r] # None => msgSid[r] \in Sids
        BY DEF TypeInv, DatabaseType
      <3>4. \A t \in statusTx : t[2] # None /\ \A r, st : t = <<r, st>> => t[2] = st
        BY MessagingAssumption DEF TypeInv, OutsideType, Final
      <3> QED BY <3>1, <3>2, <3>3, <3>4, MessagingAssumption DEF CallbackInv
    <2>2. ASSUME NEW s \in Sids, StatusRead(s) PROVE CallbackInv'
      <3>1. UNCHANGED <<msgSid, msgStatus, carrier, interrupted, reopened>>
        BY <2>2 DEF StatusRead, dbMsg, provider, history
      <3>2. PICK st \in {"sent", carrier[s]} \ {None}, r \in Rows :
              /\ msgSid[r] = s
              /\ IsStatusNewer(st, msgStatus[r])
              /\ statusTx' = statusTx \cup {<<r, st>>}
        BY <2>2 DEF StatusRead
      <3>3. ASSUME r \notin interrupted \cup reopened PROVE st = carrier[s]
        <4>1. msgStatus[r] # "queued" /\ msgStatus[r] \in MsgStatus
          BY <3>2, <3>3, MessagingAssumption DEF CallbackInv, TypeInv, DatabaseType
        <4>2. ~IsStatusNewer("sent", msgStatus[r])
          BY <4>1 DEF IsStatusNewer, StatusRank, MsgStatus
        <4> QED BY <3>2, <4>2
      <3> QED BY <3>1, <3>2, <3>3 DEF CallbackInv
    <2>3. ASSUME NEW t \in statusTx, StatusWrite(t[1], t[2]) PROVE CallbackInv'
      <3>1. PICK r \in Rows, st \in {"sent"} \cup Final : t = <<r, st>>
        BY StatusTx
      <3>2. /\ UNCHANGED <<msgSid, carrier, interrupted, reopened>>
            /\ statusTx' \subseteq statusTx
            /\ msgStatus' = [msgStatus EXCEPT ![r] = st]
        BY <2>3, <3>1 DEF StatusWrite, provider, history
      <3>3. \A q \in Rows : msgStatus'[q] = IF q = r THEN st ELSE msgStatus[q]
        BY <3>2 DEF TypeInv, DatabaseType
      <3>4. st # "queued" /\ st \in MsgStatus BY DEF Final, MsgStatus
      <3>5. <<r, st>> \in statusTx BY <3>1
      <3> QED BY <3>2, <3>3, <3>4, <3>5 DEF CallbackInv
    <2>4. ASSUME NEW r \in Rows, RetryFailedMessage(r) PROVE CallbackInv'
      <3>1. /\ UNCHANGED <<msgSid, carrier, statusTx, interrupted>>
            /\ reopened' = reopened \cup {r}
            /\ \A q \in Rows : q # r => msgStatus'[q] = msgStatus[q]
        BY <2>4 DEF RetryFailedMessage, provider, TypeInv, DatabaseType
      <3> QED BY <3>1, CallbackFrame
    <2>5. interrupted \subseteq interrupted' BY <1>4, EnvironmentAside DEF Aside
    <2> QED
      BY <1>1, <1>4, <2>1, <2>2, <2>3, <2>4, <2>5 DEF Environment, IngestEnqueues, FollowUpDue,
         InboundWebhook, Arrives, LeadMoves, Crash, Stall, Evict, provider, history
  <1>5. CASE UNCHANGED vars BY <1>1, <1>5 DEF vars, provider, history
  <1> QED BY <1>2, <1>3, <1>4, <1>5 DEF Next

(* What may take a delivered message its status. *)
DeliveredStep ==
    \A r \in Rows : msgStatus[r] = "delivered" /\ msgStatus'[r] # "delivered"
        => \/ r \in interrupted \cup reopened
           \/ \E w \in Workers : wk[w].pc = "void" /\ r \in wk[w].queued

(* The commit of a STOP is the only such step: the relay does not settle a *)
(* row again, and its callbacks tell what the carrier settled.             *)
LEMMA NextDelivered ==
    TypeInv /\ KeyInv /\ SendInv /\ RowInv /\ RelayInv /\ CallbackInv /\ [Next]_vars
      => DeliveredStep
  <1> SUFFICES ASSUME TypeInv, KeyInv, SendInv, RowInv, RelayInv, CallbackInv, [Next]_vars,
                      NEW r \in Rows, msgStatus[r] = "delivered", msgStatus'[r] # "delivered",
                      r \notin interrupted \cup reopened
               PROVE  \E w \in Workers : wk[w].pc = "void" /\ r \in wk[w].queued
    BY DEF DeliveredStep
  <1>1. msgSid[r] # None BY DEF SendInv
  <1>2. ASSUME NEW w \in Workers, Takes(w) PROVE FALSE
    BY <1>2 DEF Takes, FirstTouchBegin, FollowUpBegin, InboundBegin, RelayBegin, Begin, dbMsg
  <1>3. ASSUME NEW w \in Workers, Proceeds(w), ~StopCommit(w) PROVE FALSE
    <2>1. CASE ComposeCommit(w)
      <3>1. wk[w].row \in Rows /\ msgSid[wk[w].row] = None
        BY <2>1 DEF ComposeCommit, TypeInv, WorkersInv, ExecutionInv, KeyInv, RowInv
      <3>2. msgStatus'[r] = msgStatus[r]
        BY <1>1, <2>1, <3>1 DEF ComposeCommit, TypeInv, DatabaseType
      <3> QED BY <3>2
    <2>2. CASE RelaySettle(w)
      <3>1. wk[w].row = r BY <2>2, RelaySettles
      <3> QED BY <1>1, <2>2, <3>1, SettlesFirst
    <2> QED
      BY <1>3, <2>1, <2>2 DEF Proceeds, FirstTouchCompose, FollowUpCompose, InsertConversation,
         SkipCommit, RelaySend, StopSelect, RecordCommit, Finish, Throw, dbMsg
  <1>4. ASSUME NEW w \in Workers, StopCommit(w)
        PROVE  wk[w].pc = "void" /\ r \in wk[w].queued
    BY <1>4 DEF StopCommit
  <1>5. CASE Environment
    <2>1. ASSUME NEW t \in statusTx, StatusWrite(t[1], t[2]) PROVE FALSE
      <3>1. PICK q \in Rows, st \in {"sent"} \cup Final : t = <<q, st>>
        BY StatusTx
      <3>2. msgStatus' = [msgStatus EXCEPT ![q] = st] BY <2>1, <3>1 DEF StatusWrite
      <3>3. q = r /\ st # "delivered" BY <3>2 DEF TypeInv, DatabaseType
      <3>4. st \in MsgStatus BY DEF Final, MsgStatus
      <3>5. st = carrier[msgSid[r]] BY <1>1, <3>1, <3>3, <3>4 DEF CallbackInv
      <3>6. carrier[msgSid[r]] = "delivered" BY <1>1 DEF CallbackInv
      <3> QED BY <3>3, <3>5, <3>6
    <2>2. ASSUME NEW q \in Rows, RetryFailedMessage(q) PROVE FALSE
      BY <2>2 DEF RetryFailedMessage, TypeInv, DatabaseType
    <2> QED
      BY <1>5, <2>1, <2>2 DEF Environment, IngestEnqueues, FollowUpDue, InboundWebhook, Arrives,
         LeadMoves, CarrierSettles, StatusRead, Crash, Stall, Evict, dbMsg
  <1> QED BY <1>2, <1>3, <1>4, <1>5 DEF Next, vars, dbMsg

(* No row has a provider id at first. *)
LEMMA InitCallbacks == Init => CallbackInv
  BY DEF Init, CallbackInv

(* A delivered message keeps that status, whatever order processStatus     *)
(* sees the callbacks in, unless its relays overlapped, a STOP that        *)
(* selected it as queued commits late, or a person re-opened it.           *)
THEOREM DeliveryIsFinal == Spec => DeliveredIsKept
  <1>1. Init => KeyInv BY DEF Init, KeyInv, OneMessagePerKey, Idle
  <1>2. Init => SendInv BY DEF Init, SendInv, Idle
  <1>3. TypeInv /\ KeyInv /\ SendInv /\ RowInv /\ RelayInv /\ CallbackInv /\ [Next]_vars
          => [\A r \in Rows : msgStatus[r] = "delivered" /\ msgStatus'[r] # "delivered"
                => \/ r \in interrupted \cup reopened
                   \/ \E w \in Workers : wk[w].pc = "void" /\ r \in wk[w].queued]_vars
    BY NextDelivered DEF DeliveredStep
  <1> QED
    BY <1>1, <1>2, <1>3, InitRows, InitCallbacks, KeyStep, SendStep, RowStep, RelayStep,
       CallbackStep, TypeInvariant, PTL
    DEF Spec, DeliveredIsKept

-----------------------------------------------------------------------------
(* Pending intents.                                                        *)

(* A step that makes no intent pending and suppresses no lead; what is     *)
(* pending keeps its status, or is re-opened.                              *)
LEMMA PendingFrame ==
    ASSUME TypeInv, PendingInv, Stays, UNCHANGED <<msgOf, suppressed>>,
           raced \subseteq raced', reopened \subseteq reopened',
           \A r \in Rows \ reopened' : outbox'[r] = "pending" =>
              outbox[r] = "pending" /\ msgStatus'[r] = msgStatus[r] /\ msgSid'[r] = msgSid[r]
    PROVE  PendingInv'
  <1>1. ASSUME NEW r \in Rows \ reopened', outbox'[r] = "pending"
        PROVE  msgStatus'[r] = "queued" /\ msgSid'[r] = None
    BY <1>1 DEF PendingInv
  <1>2. ASSUME NEW u \in Workers, wk'[u].pc = "void", NEW r \in Rows, outbox'[r] = "pending",
               msgOf'[r][2] = wk'[u].lead
        PROVE  r \in wk'[u].queued \cup raced' \cup reopened'
    <2>1. wk'[u] = wk[u] BY <1>2 DEF Stays
    <2> QED BY <1>2, <2>1 DEF PendingInv
  <1>3. StopLeavesNothingPending' BY DEF PendingInv, StopLeavesNothingPending
  <1> QED BY <1>1, <1>2, <1>3 DEF PendingInv

(* An intent becomes pending with its message queued; beside a STOP of the *)
(* lead, or after one, it is one that raced.                               *)
LEMMA ComposePending ==
    ASSUME TypeInv, KeyInv, RowInv, PendingInv, NEW w \in Workers, ComposeCommit(w)
    PROVE  PendingInv'
  <1> DEFINE q == wk[w].row
             l == wk[w].lead
  <1>1. /\ msgOf' = [msgOf EXCEPT ![q] = wk[w].job]
        /\ msgStatus' = [msgStatus EXCEPT ![q] = "queued"]
        /\ outbox' = [outbox EXCEPT ![q] = "pending"]
        /\ raced' = IF RacesStop(l) THEN raced \cup {q} ELSE raced
        /\ UNCHANGED <<msgSid, suppressed, reopened>>
    BY DEF ComposeCommit
  <1>2. q \in Rows /\ wk[w].job[2] = l /\ msgSid[q] = None
    BY DEF ComposeCommit, TypeInv, WorkersInv, ExecutionInv, KeyInv, RowInv
  <1>3. Stays BY CommitStays
  <1>4. \A r \in Rows : /\ msgOf'[r] = IF r = q THEN wk[w].job ELSE msgOf[r]
                        /\ msgStatus'[r] = IF r = q THEN "queued" ELSE msgStatus[r]
                        /\ outbox'[r] = IF r = q THEN "pending" ELSE outbox[r]
    BY <1>1 DEF TypeInv, DatabaseType
  <1>5. RacesStop(l) => q \in raced' BY <1>1
  <1>6. raced \subseteq raced' BY <1>1
  <1> HIDE DEF q, l
  <1>7. ASSUME NEW r \in Rows \ reopened', outbox'[r] = "pending"
        PROVE  msgStatus'[r] = "queued" /\ msgSid'[r] = None
    BY <1>1, <1>2, <1>4, <1>7 DEF PendingInv
  <1>8. ASSUME NEW u \in Workers, wk'[u].pc = "void", NEW r \in Rows, outbox'[r] = "pending",
               msgOf'[r][2] = wk'[u].lead
        PROVE  r \in wk'[u].queued \cup raced' \cup reopened'
    <2>1. wk'[u] = wk[u] /\ wk[u].pc = "void" BY <1>3, <1>8 DEF Stays
    <2>2. CASE r = q
      <3>1. RacesStop(l) BY <1>2, <1>4, <1>8, <2>1, <2>2 DEF RacesStop
      <3> QED BY <1>5, <2>2, <3>1
    <2>3. CASE r # q BY <1>1, <1>4, <1>6, <1>8, <2>1, <2>3 DEF PendingInv
    <2> QED BY <2>2, <2>3
  <1>9. StopLeavesNothingPending'
    <2> SUFFICES ASSUME NEW r \in Rows, msgOf'[r] # NoJob, msgOf'[r][2] \in suppressed,
                        outbox'[r] = "pending"
                 PROVE  r \in raced' \cup reopened'
      BY <1>1 DEF StopLeavesNothingPending
    <2>1. CASE r = q BY <1>2, <1>4, <1>5, <2>1 DEF RacesStop
    <2>2. CASE r # q
      BY <1>1, <1>4, <1>6, <2>2 DEF PendingInv, StopLeavesNothingPending
    <2> QED BY <2>1, <2>2
  <1> QED BY <1>7, <1>8, <1>9 DEF PendingInv

(* A STOP selects what is pending, ...                                     *)
LEMMA SelectPending ==
    ASSUME TypeInv, RowInv, PendingInv, NEW w \in Workers, StopSelect(w) PROVE PendingInv'
  <1>1. UNCHANGED <<msgOf, msgStatus, msgSid, outbox, suppressed, raced, reopened>>
    BY StopSelects DEF dbLead, dbMsg, history
  <1>2. ASSUME NEW u \in Workers, wk'[u].pc = "void", NEW r \in Rows, outbox'[r] = "pending",
               msgOf'[r][2] = wk'[u].lead
        PROVE  r \in wk'[u].queued \cup raced' \cup reopened'
    <2>1. CASE u = w
      <3>1. msgOf[r] # NoJob BY <1>1, <1>2 DEF RowInv
      <3>2. msgStatus[r] = "queued" \/ r \in reopened BY <1>1, <1>2 DEF PendingInv
      <3> QED BY <1>1, <1>2, <2>1, <3>1, <3>2, StopSelects DEF QueuedRows
    <2>2. CASE u # w
      <3>1. wk'[u] = wk[u] BY <2>2, StopSelects
      <3> QED BY <1>1, <1>2, <3>1 DEF PendingInv
    <2> QED BY <2>1, <2>2
  <1> QED BY <1>1, <1>2 DEF PendingInv, StopLeavesNothingPending

(* ... and voids it before it suppresses the lead.                         *)
LEMMA StopPending ==
    ASSUME TypeInv, PendingInv, NEW w \in Workers, StopCommit(w) PROVE PendingInv'
  <1> DEFINE l == wk[w].lead
             Q0 == wk[w].queued
  <1>1. /\ wk[w].pc = "void"
        /\ suppressed' = suppressed \cup {l}
        /\ UNCHANGED <<msgOf, msgSid, raced, reopened>>
    BY DEF StopCommit
  <1>2. \A r \in Rows : outbox'[r] = "pending" =>
          outbox[r] = "pending" /\ r \notin Q0 /\ msgStatus'[r] = msgStatus[r]
    BY DEF StopCommit
  <1>3. \A r \in Rows : outbox[r] = "pending" /\ msgOf[r][2] = l => r \in Q0 \cup raced \cup reopened
    BY <1>1 DEF PendingInv
  <1>4. Stays BY CommitStays
  <1> HIDE DEF l, Q0
  <1>5. ASSUME NEW r \in Rows \ reopened', outbox'[r] = "pending"
        PROVE  msgStatus'[r] = "queued" /\ msgSid'[r] = None
    BY <1>1, <1>2, <1>5 DEF PendingInv
  <1>6. ASSUME NEW u \in Workers, wk'[u].pc = "void", NEW r \in Rows, outbox'[r] = "pending",
               msgOf'[r][2] = wk'[u].lead
        PROVE  r \in wk'[u].queued \cup raced' \cup reopened'
    <2>1. wk'[u] = wk[u] BY <1>4, <1>6 DEF Stays
    <2> QED BY <1>1, <1>2, <1>6, <2>1 DEF PendingInv
  <1>7. StopLeavesNothingPending'
    BY <1>1, <1>2, <1>3 DEF PendingInv, StopLeavesNothingPending
  <1> QED BY <1>5, <1>6, <1>7 DEF PendingInv

(* PendingInv is inductive, relative to the invariants of rows and sends.  *)
LEMMA PendingStep ==
    TypeInv /\ KeyInv /\ SendInv /\ RowInv /\ PendingInv /\ [Next]_vars => PendingInv'
  <1> SUFFICES ASSUME TypeInv, KeyInv, SendInv, RowInv, PendingInv, [Next]_vars
               PROVE  PendingInv'
    OBVIOUS
  <1>1. CASE Stays /\ UNCHANGED <<dbMsg, suppressed, raced, reopened>>
    BY <1>1, PendingFrame DEF dbMsg
  <1>2. ASSUME NEW w \in Workers, Takes(w) PROVE PendingInv'
    <2>1. ASSUME NEW l \in Leads, FirstTouchBegin(w, l) PROVE PendingInv'
      BY <1>1, <2>1, BeginAside, JobIds
      DEF FirstTouchBegin, FirstTouchPc, Begin, dbLead, history
    <2>2. ASSUME NEW l \in Leads, FollowUpBegin(w, l) PROVE PendingInv'
      BY <1>1, <2>2, BeginAside, JobIds DEF FollowUpBegin, Begin, dbLead, history
    <2>3. ASSUME NEW i \in Inbounds, InboundBegin(w, i) PROVE PendingInv'
      BY <1>1, <2>3, BeginAside, JobIds DEF InboundBegin, InboundPc, Begin, dbLead, history
    <2>4. ASSUME NEW r \in Rows, RelayBegin(w, r) PROVE PendingInv'
      <3>1. \A u \in Workers : wk'[u].pc = "void" => wk'[u] = wk[u] BY <2>4, RelayBegins
      <3>2. UNCHANGED <<dbMsg, suppressed, raced, reopened>>
        BY <2>4, RelayBegins DEF dbLead, history
      <3> QED BY <3>1, <3>2 DEF PendingInv, StopLeavesNothingPending, dbMsg
    <2> QED BY <1>2, <2>1, <2>2, <2>3, <2>4 DEF Takes
  <1>3. ASSUME NEW w \in Workers, Proceeds(w) PROVE PendingInv'
    <2>1. ASSUME NEW l \in Leads, FirstTouchCompose(w, l) \/ FollowUpCompose(w, l)
          PROVE  PendingInv'
      BY <1>1, <2>1, ComposeAside DEF FirstTouchCompose, FollowUpCompose, dbLead, history
    <2>2. CASE InsertConversation(w)
      BY <1>1, <2>2, InsertAside DEF InsertConversation, dbLead, history
    <2>3. CASE SkipCommit(w) \/ RecordCommit(w)
      BY <1>1, <2>3, CommitStays DEF SkipCommit, RecordCommit
    <2>4. CASE RelaySend(w)
      <3>1. \A u \in Workers : wk'[u].pc = "void" => wk'[u] = wk[u] BY <2>4, RelaySends
      <3>2. UNCHANGED <<dbMsg, suppressed, raced, reopened>>
        BY <2>4, RelaySends DEF dbLead
      <3> QED BY <3>1, <3>2 DEF PendingInv, StopLeavesNothingPending, dbMsg
    <2>5. CASE RelaySettle(w)
      <3>1. UNCHANGED <<msgOf, suppressed, raced, reopened>>
        BY <2>5, RelaySettles DEF dbLead, history
      <3>2. \A r \in Rows : outbox'[r] = "pending" =>
              outbox[r] = "pending" /\ msgStatus'[r] = msgStatus[r] /\ msgSid'[r] = msgSid[r]
        BY <2>5, RelaySettles
      <3> QED BY <2>5, <3>1, <3>2, CommitStays, PendingFrame
    <2>6. CASE Finish(w) \/ Throw(w)
      BY <1>1, <2>6, LeaveAside DEF Finish, Throw, dbLead
    <2> QED
      BY <1>3, <2>1, <2>2, <2>3, <2>4, <2>5, <2>6, ComposePending, SelectPending, StopPending
      DEF Proceeds
  <1>4. CASE Environment
    <2>1. Stays BY <1>4, EnvironmentAside
    <2>2. ASSUME NEW t \in statusTx, StatusWrite(t[1], t[2]) PROVE PendingInv'
      <3>1. msgSid[t[1]] # None /\ t[1] \in Rows BY StatusTx DEF SendInv
      <3>2. UNCHANGED <<msgOf, msgSid, outbox, suppressed, raced, reopened>>
        BY <2>2 DEF StatusWrite, dbLead, history
      <3>3. \A r \in Rows : r # t[1] => msgStatus'[r] = msgStatus[r]
        BY <2>2, <3>1 DEF StatusWrite, TypeInv, DatabaseType
      <3>4. t[1] \in reopened \/ outbox[t[1]] # "pending" BY <3>1 DEF PendingInv
      <3> QED BY <2>1, <3>2, <3>3, <3>4, PendingFrame
    <2>3. ASSUME NEW r \in Rows, RetryFailedMessage(r) PROVE PendingInv'
      <3>1. /\ UNCHANGED <<msgOf, msgSid, suppressed, raced>>
            /\ reopened' = reopened \cup {r}
            /\ \A q \in Rows : q # r => msgStatus'[q] = msgStatus[q] /\ outbox'[q] = outbox[q]
        BY <2>3 DEF RetryFailedMessage, dbLead, TypeInv, DatabaseType
      <3> QED BY <2>1, <3>1, PendingFrame
    <2> QED
      BY <1>1, <1>4, <2>1, <2>2, <2>3 DEF Environment, IngestEnqueues, FollowUpDue, InboundWebhook,
         Arrives, LeadMoves, CarrierSettles, StatusRead, Crash, Stall, Evict, dbLead, history
  <1>5. CASE UNCHANGED vars BY <1>1, <1>5 DEF vars, Stays, dbLead, history
  <1> QED BY <1>2, <1>3, <1>4, <1>5 DEF Next

(* STOP cancels what is scheduled (handleOptOut): an intent of a           *)
(* suppressed lead is pending only if its transaction overlapped the STOP, *)
(* or a person re-opened it.                                               *)
THEOREM StopCancels == Spec => []StopLeavesNothingPending
  <1>1. Init => KeyInv BY DEF Init, KeyInv, OneMessagePerKey, Idle
  <1>2. Init => SendInv BY DEF Init, SendInv, Idle
  <1>3. Init => PendingInv BY DEF Init, PendingInv, StopLeavesNothingPending, Idle
  <1>4. PendingInv => StopLeavesNothingPending BY DEF PendingInv
  <1> QED
    BY <1>1, <1>2, <1>3, <1>4, InitRows, KeyStep, SendStep, RowStep, PendingStep, TypeInvariant,
       PTL
    DEF Spec

=============================================================================
