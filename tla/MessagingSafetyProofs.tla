------------------------- MODULE MessagingSafetyProofs -------------------------
(***************************************************************************)
(* The safety of Messaging, for every value of its constants: each         *)
(* property below is a conjunct of, or follows from, one of four           *)
(* invariants, each inductive relative to TypeInv.                         *)
(***************************************************************************)
EXTENDS MessagingProofs

(* The unique index on (conversation, dedupe key) works because an         *)
(* uncommitted insert has a row and a key of its own.                      *)
KeyInv ==
    /\ OneMessagePerKey
    /\ \A w \in Workers : wk[w].pc = "composed" => msgOf[wk[w].row] = NoJob /\ ~KeyTaken(wk[w].job)
    /\ \A u, w \in Workers :
          u # w /\ wk[u].pc = "composed" /\ wk[w].pc = "composed"
            => wk[u].row # wk[w].row /\ wk[u].job # wk[w].job

(* Consent once granted is revoked, never forgotten: what the gate read of *)
(* it still excludes "unknown" when the transaction commits.               *)
LedgerInv ==
    /\ ConsentLedgerRules
    /\ \A w \in Workers : wk[w].pc \in {"compose", "composed"} => consent[wk[w].lead] # "unknown"

(* A sid is recorded only for the row the provider made it for.            *)
SendInv ==
    /\ \A r \in Rows :
          msgStatus[r] \in {"sent", "delivered", "undelivered"} \/ outbox[r] = "dispatched"
            => msgSid[r] # None
    /\ \A r \in Rows : msgSid[r] # None => accepted[msgSid[r]] = r
    /\ \A t \in statusTx : msgSid[t[1]] # None
    /\ \A w \in Workers : wk[w].pc = "accepted" => accepted[wk[w].sid] = wk[w].row

(* Whoever may still message or engage an opted-out lead overlapped the    *)
(* STOP.                                                                   *)
OverlapInv ==
    /\ \A w \in Workers :
          wk[w].pc \in {"compose", "composed"} /\ wk[w].lead \in suppressed => w \in unseen
    /\ \A w \in Workers :
          /\ wk[w].pc = "record" /\ wk[w].state \in {"new", "contacted"}
          /\ leadState[wk[w].lead] = "opted_out"
          => w \in unseen

(* A STOP has its lead's conversation: no execution waits for the insert   *)
(* of an opted-out lead's.                                                 *)
ConvoInv ==
    /\ \A w \in Workers :
          wk[w].pc \in {"select", "void"} => wk[w].lead \in convo \/ wk[w].creates
    /\ \A l \in Leads : leadState[l] = "opted_out" => l \in convo

-----------------------------------------------------------------------------
(* A step moves no worker to one of these control points, and none there   *)
(* stops being one that overlapped a STOP.                                 *)
Keeps ==
    \A u \in Workers :
        wk'[u].pc \in {"compose", "composed", "accepted", "record"}
            => wk'[u] = wk[u] /\ (u \in unseen => u \in unseen')

(* A step of one worker to another control point keeps the others.         *)
LEMMA OneKeeps ==
    ASSUME TypeInv, NEW w \in Workers, NEW e,
           wk' = [wk EXCEPT ![w] = e], unseen \ {w} \subseteq unseen',
           e.pc \notin {"compose", "composed", "accepted", "record"}
    PROVE  Keeps
  BY DEF TypeInv, WorkersInv, Keeps

(* The commits, the ends of an execution and the steps between keep.       *)
LEMMA CommitKeeps ==
    ASSUME TypeInv, NEW w \in Workers,
           ComposeCommit(w) \/ SkipCommit(w) \/ RelaySettle(w) \/ StopCommit(w) \/ RecordCommit(w)
    PROVE  Keeps
  <1> DEFINE e == Committed(w)
  <1>1. wk' = [wk EXCEPT ![w] = e]
    BY DEF ComposeCommit, SkipCommit, RelaySettle, StopCommit, RecordCommit
  <1>2. unseen \ {w} \subseteq unseen'
    BY DEF ComposeCommit, SkipCommit, RelaySettle, StopCommit, RecordCommit, history
  <1>3. e.pc = "done" BY DEF Idle, Committed
  <1> HIDE DEF e
  <1> QED BY <1>1, <1>2, <1>3, OneKeeps

(* An execution that ends keeps the others.                                *)
LEMMA LeaveKeeps ==
    ASSUME TypeInv, NEW w \in Workers, Finish(w) \/ Throw(w) \/ Crash(w) PROVE Keeps
  <1>1. wk' = [wk EXCEPT ![w] = Idle] /\ unseen \ {w} \subseteq unseen'
    BY DEF Finish, Throw, Crash, Leave
  <1>2. Idle.pc = "idle" BY DEF Idle
  <1> QED BY <1>1, <1>2, OneKeeps

(* Selecting keeps.                                                        *)
LEMMA StopSelectKeeps == ASSUME TypeInv, NEW w \in Workers, StopSelect(w) PROVE Keeps
  <1> DEFINE e == [wk[w] EXCEPT !.pc = "void", !.lock = wk[w].first,
                                 !.queued = QueuedRows(wk[w].lead)]
  <1>1. wk' = [wk EXCEPT ![w] = e] /\ unseen' = unseen BY DEF StopSelect, history
  <1>2. e.pc = "void" BY DEF TypeInv, WorkersInv, Execution
  <1> HIDE DEF e
  <1> QED BY <1>1, <1>2, OneKeeps

(* A relay that begins keeps.                                              *)
LEMMA RelayBeginKeeps ==
    ASSUME TypeInv, NEW w \in Workers, NEW r \in Rows, RelayBegin(w, r) PROVE Keeps
  <1> DEFINE e == [Idle EXCEPT !.job = Relay(r), !.row = r,
                             !.pc = IF msgOf[r] = NoJob THEN "missing"
                                    ELSE IF outbox[r] = "dispatched" THEN "skip" ELSE "send"]
  <1>1. wk' = [wk EXCEPT ![w] = e] /\ unseen' = unseen BY DEF RelayBegin, history
  <1>2. e.pc \in {"missing", "skip", "send"} BY DEF Idle
  <1> HIDE DEF e
  <1> QED BY <1>1, <1>2, OneKeeps

(* A composing step keeps its lead and what it read.                       *)
LEMMA ComposeMoves ==
    ASSUME TypeInv, NEW w \in Workers, NEW l \in Leads,
           FirstTouchCompose(w, l) \/ FollowUpCompose(w, l)
    PROVE  /\ wk[w].pc = "compose" /\ wk'[w].pc \in {"skip", "composed"}
           /\ wk'[w].lead = wk[w].lead
           /\ \A u \in Workers \ {w} : wk'[u] = wk[u]
  <1>1. wk[w].pc = "compose" BY DEF FirstTouchCompose, FollowUpCompose
  <1>2. \/ wk' = [wk EXCEPT ![w] = [wk[w] EXCEPT !.pc = "skip"]]
        \/ \E r \in Rows :
             wk' = [wk EXCEPT ![w] = [wk[w] EXCEPT !.pc = "composed", !.row = r, !.lock = TRUE]]
        \/ \E r \in Rows :
             wk' = [wk EXCEPT ![w] = [wk[w] EXCEPT !.pc = "composed", !.row = r]]
    BY DEF FirstTouchCompose, FollowUpCompose
  <1>3. wk[w] \in Execution /\ wk \in [Workers -> Execution] BY DEF TypeInv, WorkersInv
  <1>4. ASSUME NEW e, wk' = [wk EXCEPT ![w] = e], e.pc \in {"skip", "composed"},
               e.lead = wk[w].lead
        PROVE  /\ wk'[w].pc \in {"skip", "composed"} /\ wk'[w].lead = wk[w].lead
               /\ \A u \in Workers \ {w} : wk'[u] = wk[u]
    BY <1>3, <1>4
  <1>5. \A r : /\ [wk[w] EXCEPT !.pc = "composed", !.row = r].pc = "composed"
               /\ [wk[w] EXCEPT !.pc = "composed", !.row = r].lead = wk[w].lead
               /\ [wk[w] EXCEPT !.pc = "composed", !.row = r, !.lock = TRUE].pc = "composed"
               /\ [wk[w] EXCEPT !.pc = "composed", !.row = r, !.lock = TRUE].lead = wk[w].lead
    BY <1>3 DEF Execution
  <1>6. /\ [wk[w] EXCEPT !.pc = "skip"].pc = "skip"
        /\ [wk[w] EXCEPT !.pc = "skip"].lead = wk[w].lead
    BY <1>3 DEF Execution
  <1> QED BY <1>1, <1>2, <1>4, <1>5, <1>6

(* An execution that waited goes on with what it had read, composing only  *)
(* if the gate allows it.                                                  *)
LEMMA InsertMoves ==
    ASSUME TypeInv, NEW w \in Workers, InsertConversation(w)
    PROVE  /\ wk[w].pc = "waits" /\ wk[w].lead \notin convo
           /\ wk'[w].pc \in {"skip", "compose", "select", "record"}
           /\ wk'[w].pc = "compose" => GateAllows(wk[w].lead)
           /\ wk'[w].lead = wk[w].lead /\ wk'[w].creates
           /\ \A u \in Workers \ {w} : wk'[u] = wk[u]
           /\ UNCHANGED <<dbLead, dbMsg, statusTx, provider, history>>
  BY DEF TypeInv, WorkersInv, Execution, InsertConversation, FirstTouchPc, InboundPc

(* Every step of the environment keeps.                                    *)
LEMMA EnvironmentKeeps == ASSUME TypeInv, Environment PROVE Keeps
  <1>1. CASE \E w \in Workers : Crash(w) BY <1>1, LeaveKeeps
  <1>2. CASE wk' = wk /\ unseen' = unseen BY <1>2 DEF Keeps
  <1> QED
    BY <1>1, <1>2 DEF Environment, IngestEnqueues, FollowUpDue, InboundWebhook, Arrives,
       LeadMoves, CarrierSettles, StatusRead, StatusWrite, RetryFailedMessage, Stall, Evict, history

-----------------------------------------------------------------------------
(* One message per key.                                                    *)

(* Messages are inserted by the commit of a composing transaction only.    *)
LEMMA KeyFrame == ASSUME KeyInv, Keeps, UNCHANGED msgOf PROVE KeyInv'
  BY DEF KeyInv, Keeps, OneMessagePerKey, KeyTaken

(* A transaction that begins to compose holds no insert yet.               *)
LEMMA KeyBegin ==
    ASSUME TypeInv, KeyInv, NEW w \in Workers, NEW j, NEW l, NEW pc \in Pc \ {"composed"},
           Begin(w, j, l, pc)
    PROVE  KeyInv'
  <1>1. wk'[w].pc \in {pc, "waits"} BY DEF TypeInv, WorkersInv, Begin, Idle
  <1>2. \A u \in Workers : wk'[u].pc = "composed" => wk'[u] = wk[u]
    BY <1>1 DEF TypeInv, WorkersInv, Begin
  <1>3. UNCHANGED msgOf BY DEF Begin, dbMsg
  <1> QED BY <1>2, <1>3 DEF KeyInv, OneMessagePerKey, KeyTaken

(* An insert gets a fresh row, and a key nobody has or is inserting.       *)
LEMMA KeyInsert ==
    ASSUME TypeInv, KeyInv, NEW w \in Workers, NEW r \in Rows, NEW e \in Execution,
           FreshRow(r), ~KeyTaken(wk[w].job), ~KeyInFlight(wk[w].job, w), UNCHANGED msgOf,
           wk' = [wk EXCEPT ![w] = e], e.row = r, e.job = wk[w].job
    PROVE  KeyInv'
  <1>1. wk'[w] = e /\ \A u \in Workers \ {w} : wk'[u] = wk[u]
    BY DEF TypeInv, WorkersInv
  <1>2. OneMessagePerKey' BY DEF KeyInv, OneMessagePerKey
  <1>3. \A u \in Workers : wk'[u].pc = "composed"
          => msgOf'[wk'[u].row] = NoJob /\ \A q \in Rows : msgOf'[q] # wk'[u].job
    BY <1>1 DEF KeyInv, FreshRow, KeyTaken
  <1>4. \A u, v \in Workers :
          u # v /\ wk'[u].pc = "composed" /\ wk'[v].pc = "composed"
            => wk'[u].row # wk'[v].row /\ wk'[u].job # wk'[v].job
    BY <1>1 DEF KeyInv, FreshRow, KeyInFlight
  <1> QED BY <1>2, <1>3, <1>4 DEF KeyInv, KeyTaken

(* A first touch inserts so.                                               *)
LEMMA KeyFirstTouchCompose ==
    ASSUME TypeInv, KeyInv, NEW w \in Workers, NEW l \in Leads, FirstTouchCompose(w, l)
    PROVE  KeyInv'
  <1>1. PICK r \in Rows : FreshRow(r) /\
            wk' = [wk EXCEPT ![w] = [wk[w] EXCEPT !.pc = "composed", !.row = r, !.lock = TRUE]]
    BY DEF FirstTouchCompose
  <1> DEFINE e == [wk[w] EXCEPT !.pc = "composed", !.row = r, !.lock = TRUE]
  <1>2. e \in Execution /\ e.row = r /\ e.job = wk[w].job
    BY DEF TypeInv, WorkersInv, Execution, Pc
  <1>3. ~KeyTaken(wk[w].job) /\ ~KeyInFlight(wk[w].job, w) /\ UNCHANGED msgOf
    BY DEF FirstTouchCompose, dbMsg
  <1> HIDE DEF e
  <1> QED BY <1>1, <1>2, <1>3, KeyInsert DEF e

(* A follow-up inserts so, or not at all.                                  *)
LEMMA KeyFollowUpCompose ==
    ASSUME TypeInv, KeyInv, NEW w \in Workers, NEW l \in Leads, FollowUpCompose(w, l)
    PROVE  KeyInv'
  <1>1. ~KeyInFlight(wk[w].job, w) /\ UNCHANGED <<msgOf, unseen>>
    BY DEF FollowUpCompose, dbMsg, history
  <1>2. CASE KeyTaken(FollowUp(l))
    <2> DEFINE e == [wk[w] EXCEPT !.pc = "skip"]
    <2>1. wk' = [wk EXCEPT ![w] = e] BY <1>2 DEF FollowUpCompose
    <2>2. e.pc = "skip" BY DEF TypeInv, WorkersInv, Execution
    <2> HIDE DEF e
    <2>3. Keeps BY <1>1, <2>1, <2>2, OneKeeps
    <2> QED BY <1>1, <2>3, KeyFrame
  <1>3. CASE ~KeyTaken(FollowUp(l))
    <2>1. PICK r \in Rows : FreshRow(r) /\
            wk' = [wk EXCEPT ![w] = [wk[w] EXCEPT !.pc = "composed", !.row = r]]
      BY <1>3 DEF FollowUpCompose
    <2> DEFINE e == [wk[w] EXCEPT !.pc = "composed", !.row = r]
    <2>2. e \in Execution /\ e.row = r /\ e.job = wk[w].job
      BY DEF TypeInv, WorkersInv, Execution, Pc
    <2>3. ~KeyTaken(wk[w].job) BY <1>3 DEF FollowUpCompose
    <2> HIDE DEF e
    <2> QED BY <1>1, <2>1, <2>2, <2>3, KeyInsert DEF e
  <1> QED BY <1>2, <1>3

(* A commit turns an insert in flight into the message of its key.         *)
LEMMA KeyCommit ==
    ASSUME TypeInv, KeyInv, NEW w \in Workers, ComposeCommit(w) PROVE KeyInv'
  <1> DEFINE r == wk[w].row
             k == wk[w].job
  <1>1. r \in Rows /\ k # NoJob /\ msgOf' = [msgOf EXCEPT ![r] = k] /\ wk[w].pc = "composed"
    BY DEF TypeInv, WorkersInv, ExecutionInv, ComposeCommit, Keys, NoJob
  <1>2. msgOf[r] = NoJob /\ \A q \in Rows : msgOf[q] # k
    BY <1>1 DEF KeyInv, KeyTaken
  <1>3. \A q \in Rows : msgOf'[q] = IF q = r THEN k ELSE msgOf[q]
    BY <1>1 DEF TypeInv, DatabaseType
  <1>4. \A u \in Workers : wk'[u].pc = "composed" => u # w /\ wk'[u] = wk[u]
    <2>1. wk'[w].pc = "done"
      BY DEF TypeInv, WorkersInv, Idle, ComposeCommit, Committed
    <2> QED BY <2>1, CommitKeeps DEF Keeps
  <1>5. \A u \in Workers : wk'[u].pc = "composed"
          => wk[u].row # r /\ wk[u].job # k /\ wk[u].row \in Rows
    BY <1>1, <1>4 DEF KeyInv, TypeInv, WorkersInv, ExecutionInv
  <1> HIDE DEF r, k
  <1>6. OneMessagePerKey' BY <1>2, <1>3 DEF KeyInv, OneMessagePerKey
  <1>7. \A u \in Workers : wk'[u].pc = "composed"
          => msgOf'[wk'[u].row] = NoJob /\ \A q \in Rows : msgOf'[q] # wk'[u].job
    BY <1>3, <1>4, <1>5 DEF KeyInv, KeyTaken
  <1>8. \A u, v \in Workers :
          u # v /\ wk'[u].pc = "composed" /\ wk'[v].pc = "composed"
            => wk'[u].row # wk'[v].row /\ wk'[u].job # wk'[v].job
    BY <1>4 DEF KeyInv
  <1> QED BY <1>6, <1>7, <1>8 DEF KeyInv, KeyTaken

(* Recording the provider's answer touches no insert in flight.            *)
LEMMA KeySend == ASSUME TypeInv, KeyInv, NEW w \in Workers, RelaySend(w) PROVE KeyInv'
  <1>1. \A u \in Workers : wk'[u].pc = "composed" => wk'[u] = wk[u]
    BY DEF TypeInv, WorkersInv, Execution, RelaySend
  <1>2. UNCHANGED msgOf BY DEF RelaySend, dbMsg
  <1> QED BY <1>1, <1>2 DEF KeyInv, OneMessagePerKey, KeyTaken

(* KeyInv is inductive, relative to TypeInv.                               *)
LEMMA KeyStep == TypeInv /\ KeyInv /\ [Next]_vars => KeyInv'
  <1> SUFFICES ASSUME TypeInv, KeyInv, [Next]_vars PROVE KeyInv' OBVIOUS
  <1>1. ASSUME NEW w \in Workers, Takes(w) PROVE KeyInv'
    <2>1. ASSUME NEW l \in Leads, FirstTouchBegin(w, l) PROVE KeyInv'
      BY <2>1, KeyBegin DEF FirstTouchBegin, FirstTouchPc, Pc
    <2>2. ASSUME NEW l \in Leads, FollowUpBegin(w, l) PROVE KeyInv'
      BY <2>2, KeyBegin DEF FollowUpBegin, Pc
    <2>3. ASSUME NEW i \in Inbounds, InboundBegin(w, i) PROVE KeyInv'
      BY <2>3, KeyBegin DEF InboundBegin, InboundPc, Pc
    <2>4. ASSUME NEW r \in Rows, RelayBegin(w, r) PROVE KeyInv'
      BY <2>4, RelayBeginKeeps, KeyFrame DEF RelayBegin, dbMsg
    <2> QED BY <1>1, <2>1, <2>2, <2>3, <2>4 DEF Takes
  <1>2. ASSUME NEW w \in Workers, Proceeds(w) PROVE KeyInv'
    <2>1. CASE SkipCommit(w) \/ RelaySettle(w) \/ StopCommit(w) \/ RecordCommit(w)
      BY <2>1, CommitKeeps, KeyFrame DEF SkipCommit, RelaySettle, StopCommit, RecordCommit, dbMsg
    <2>2. CASE Finish(w) \/ Throw(w)
      BY <2>2, LeaveKeeps, KeyFrame DEF Finish, Throw, dbMsg
    <2>3. CASE StopSelect(w)
      BY <2>3, StopSelectKeeps, KeyFrame DEF StopSelect, dbMsg
    <2>4. CASE InsertConversation(w)
      BY <2>4, InsertMoves DEF KeyInv, OneMessagePerKey, KeyTaken, dbMsg
    <2> QED
      BY <1>2, <2>1, <2>2, <2>3, <2>4, KeyFirstTouchCompose, KeyFollowUpCompose, KeyCommit, KeySend
      DEF Proceeds
  <1>3. CASE Environment
    <2>1. UNCHANGED msgOf
      BY <1>3 DEF Environment, IngestEnqueues, FollowUpDue, InboundWebhook, Arrives, LeadMoves,
         CarrierSettles, StatusRead, StatusWrite, RetryFailedMessage, Crash, Stall, Evict, dbMsg
    <2> QED BY <1>3, <2>1, EnvironmentKeeps, KeyFrame
  <1>4. CASE UNCHANGED vars
    BY <1>4, KeyFrame DEF vars, dbMsg, history, Keeps
  <1> QED BY <1>1, <1>2, <1>3, <1>4 DEF Next

(* At most one message is ever committed per dedupe key and lead, for any  *)
(* number of workers, retries, stalls and repeated jobs.                   *)
THEOREM NoSecondMessage == Spec => []OneMessagePerKey
  <1>1. Init => KeyInv
    BY DEF Init, KeyInv, OneMessagePerKey, Idle
  <1>2. KeyInv => OneMessagePerKey BY DEF KeyInv
  <1> QED BY <1>1, <1>2, KeyStep, TypeInvariant, PTL DEF Spec

-----------------------------------------------------------------------------
(* The consent ledger.                                                     *)

(* While the lead, the ledger and the messages stay, so does LedgerInv.    *)
LEMMA LedgerFrame ==
    ASSUME LedgerInv, UNCHANGED <<leadState, consent, suppressed, msgOf>>,
           \A u \in Workers : wk'[u].pc \in {"compose", "composed"}
              => wk[u].pc \in {"compose", "composed"} /\ wk'[u].lead = wk[u].lead
    PROVE  LedgerInv'
  BY DEF LedgerInv, ConsentLedgerRules

(* A transaction composes only after the gate has seen consent.            *)
LEMMA LedgerBegin ==
    ASSUME TypeInv, LedgerInv, NEW w \in Workers, NEW j, NEW l, NEW pc \in Pc,
           Begin(w, j, l, pc), pc # "composed", pc = "compose" => GateAllows(l)
    PROVE  LedgerInv'
  <1>1. wk'[w].pc \in {pc, "waits"} /\ wk'[w].lead = l BY DEF TypeInv, WorkersInv, Begin, Idle
  <1>2. \A u \in Workers \ {w} : wk'[u] = wk[u] BY DEF TypeInv, WorkersInv, Begin
  <1>3. UNCHANGED <<leadState, consent, suppressed, msgOf>> BY DEF Begin, dbLead, dbMsg
  <1> QED BY <1>1, <1>2, <1>3 DEF LedgerInv, ConsentLedgerRules, GateAllows

(* What commits keeps the rules of the ledger.                             *)
LEMMA LedgerCommit ==
    ASSUME TypeInv, LedgerInv, NEW w \in Workers,
           ComposeCommit(w) \/ SkipCommit(w) \/ RelaySettle(w) \/ StopCommit(w) \/ RecordCommit(w)
    PROVE  LedgerInv'
  <1>1. \A u \in Workers : wk'[u].pc \in {"compose", "composed"} => wk'[u] = wk[u]
    BY CommitKeeps DEF Keeps
  <1>2. CASE ComposeCommit(w)
    <2>1. /\ msgOf' = [msgOf EXCEPT ![wk[w].row] = wk[w].job]
          /\ consent[wk[w].job[2]] # "unknown"
          /\ UNCHANGED <<consent, suppressed>>
      BY <1>2 DEF ComposeCommit, LedgerInv, TypeInv, WorkersInv, ExecutionInv
    <2>2. \A l \in Leads : leadState'[l] = "opted_out" => leadState[l] = "opted_out"
      BY <1>2 DEF ComposeCommit, TypeInv, DatabaseType
    <2> QED BY <1>1, <2>1, <2>2 DEF LedgerInv, ConsentLedgerRules, TypeInv, DatabaseType
  <1>3. CASE SkipCommit(w) \/ RelaySettle(w)
    BY <1>1, <1>3, LedgerFrame DEF SkipCommit, RelaySettle, dbLead, dbMsg
  <1>4. CASE StopCommit(w)
    <2>1. /\ consent' = [consent EXCEPT ![wk[w].lead] = "revoked"]
          /\ suppressed' = suppressed \cup {wk[w].lead}
          /\ leadState' = [leadState EXCEPT ![wk[w].lead] = "opted_out"]
          /\ UNCHANGED msgOf
      BY <1>4 DEF StopCommit
    <2> QED BY <1>1, <2>1 DEF LedgerInv, ConsentLedgerRules, TypeInv, DatabaseType
  <1>5. CASE RecordCommit(w)
    <2>1. UNCHANGED <<consent, suppressed, msgOf>> BY <1>5 DEF RecordCommit, dbMsg
    <2>2. \A l \in Leads : leadState'[l] = "opted_out" => leadState[l] = "opted_out"
      BY <1>5 DEF RecordCommit, TypeInv, DatabaseType
    <2> QED BY <1>1, <2>1, <2>2 DEF LedgerInv, ConsentLedgerRules
  <1> QED BY <1>2, <1>3, <1>4, <1>5

(* LedgerInv is inductive, relative to TypeInv.                            *)
LEMMA LedgerStep == TypeInv /\ LedgerInv /\ [Next]_vars => LedgerInv'
  <1> SUFFICES ASSUME TypeInv, LedgerInv, [Next]_vars PROVE LedgerInv' OBVIOUS
  <1>1. ASSUME NEW w \in Workers, Takes(w) PROVE LedgerInv'
    <2>1. ASSUME NEW l \in Leads, FirstTouchBegin(w, l) PROVE LedgerInv'
      BY <2>1, LedgerBegin DEF FirstTouchBegin, FirstTouchPc, Pc
    <2>2. ASSUME NEW l \in Leads, FollowUpBegin(w, l) PROVE LedgerInv'
      BY <2>2, LedgerBegin DEF FollowUpBegin, Pc
    <2>3. ASSUME NEW i \in Inbounds, InboundBegin(w, i) PROVE LedgerInv'
      BY <2>3, LedgerBegin DEF InboundBegin, InboundPc, Pc
    <2>4. ASSUME NEW r \in Rows, RelayBegin(w, r) PROVE LedgerInv'
      BY <2>4, RelayBeginKeeps, LedgerFrame DEF RelayBegin, dbLead, dbMsg, Keeps
    <2> QED BY <1>1, <2>1, <2>2, <2>3, <2>4 DEF Takes
  <1>2. ASSUME NEW w \in Workers, Proceeds(w) PROVE LedgerInv'
    <2>1. ASSUME NEW l \in Leads, FirstTouchCompose(w, l) \/ FollowUpCompose(w, l)
          PROVE  LedgerInv'
      BY <2>1, ComposeMoves, LedgerFrame DEF FirstTouchCompose, FollowUpCompose, dbLead, dbMsg
    <2>2. CASE RelaySend(w)
      <3>1. \A u \in Workers : wk'[u].pc \in {"compose", "composed"} => wk'[u] = wk[u]
        BY <2>2 DEF RelaySend, TypeInv, WorkersInv, Execution
      <3> QED BY <2>2, <3>1, LedgerFrame DEF RelaySend, dbLead, dbMsg
    <2>3. CASE Finish(w) \/ Throw(w)
      BY <2>3, LeaveKeeps, LedgerFrame DEF Finish, Throw, dbLead, dbMsg, Keeps
    <2>4. CASE StopSelect(w)
      BY <2>4, StopSelectKeeps, LedgerFrame DEF StopSelect, dbLead, dbMsg, Keeps
    <2>5. CASE InsertConversation(w)
      BY <2>5, InsertMoves DEF LedgerInv, ConsentLedgerRules, GateAllows, dbLead, dbMsg
    <2> QED BY <1>2, <2>1, <2>2, <2>3, <2>4, <2>5, LedgerCommit DEF Proceeds
  <1>3. CASE Environment
    <2>1. \A u \in Workers : wk'[u].pc \in {"compose", "composed"} => wk'[u] = wk[u]
      BY <1>3, EnvironmentKeeps DEF Keeps
    <2>2. UNCHANGED <<consent, suppressed, msgOf>>
      BY <1>3 DEF Environment, IngestEnqueues, FollowUpDue, InboundWebhook, Arrives, LeadMoves,
         CarrierSettles, StatusRead, StatusWrite, RetryFailedMessage, Crash, Stall, Evict,
         dbLead, dbMsg
    <2>3. CASE UNCHANGED leadState
      BY <2>1, <2>2, <2>3, LedgerFrame
    <2>4. ASSUME NEW l \in Leads, NEW st \in Moves, LeadMoves(l, st) PROVE LedgerInv'
      <3>1. \A m \in Leads : leadState'[m] = "opted_out" => leadState[m] = "opted_out"
        BY <2>4, MessagingAssumption DEF LeadMoves, TypeInv, DatabaseType
      <3> QED BY <2>1, <2>2, <3>1 DEF LedgerInv, ConsentLedgerRules
    <2> QED
      BY <1>3, <2>3, <2>4 DEF Environment, IngestEnqueues, FollowUpDue, InboundWebhook, Arrives,
         CarrierSettles, StatusRead, StatusWrite, RetryFailedMessage, Crash, Stall, Evict, dbLead
  <1>4. CASE UNCHANGED vars
    BY <1>4, LedgerFrame DEF vars, dbLead, dbMsg
  <1> QED BY <1>1, <1>2, <1>3, <1>4 DEF Next

(* No lead without recorded consent has a message, and an opted-out lead   *)
(* is both revoked and suppressed.                                         *)
THEOREM LedgerHolds == Spec => []ConsentLedgerRules
  <1>1. Init => LedgerInv
    BY DEF Init, LedgerInv, ConsentLedgerRules, Idle
  <1>2. LedgerInv => ConsentLedgerRules BY DEF LedgerInv
  <1> QED BY <1>1, <1>2, LedgerStep, TypeInvariant, PTL DEF Spec

-----------------------------------------------------------------------------
(* Claimed sends.                                                          *)

(* While the records and the provider stay, so does SendInv.               *)
LEMMA SendFrame ==
    ASSUME SendInv, UNCHANGED <<msgStatus, outbox, msgSid, accepted, statusTx>>,
           \A u \in Workers : wk'[u].pc = "accepted" => wk'[u] = wk[u]
    PROVE  SendInv'
  BY DEF SendInv

(* A step that neither records a send nor hears from the provider: rows    *)
(* may become queued or failed, intents pending or failed.                 *)
LEMMA SendWeakens ==
    ASSUME TypeInv, SendInv, UNCHANGED <<msgSid, accepted, statusTx>>,
           \A u \in Workers : wk'[u].pc = "accepted" => wk'[u] = wk[u],
           \A r \in Rows : msgStatus'[r] = msgStatus[r] \/ msgStatus'[r] \in {"queued", "failed"},
           \A r \in Rows : outbox'[r] = outbox[r] \/ outbox'[r] \in {"pending", "failed"}
    PROVE  SendInv'
  BY DEF SendInv

(* Only a settling relay records a send, with the sid it was given.        *)
LEMMA SendCommit ==
    ASSUME TypeInv, SendInv, NEW w \in Workers,
           ComposeCommit(w) \/ SkipCommit(w) \/ RelaySettle(w) \/ StopCommit(w) \/ RecordCommit(w)
    PROVE  SendInv'
  <1>1. \A u \in Workers : wk'[u].pc = "accepted" => wk'[u] = wk[u]
    BY CommitKeeps DEF Keeps
  <1>2. CASE ComposeCommit(w)
    <2>1. UNCHANGED <<msgSid, accepted, statusTx>> BY <1>2 DEF ComposeCommit, provider
    <2>2. \A r \in Rows : msgStatus'[r] = msgStatus[r] \/ msgStatus'[r] \in {"queued", "failed"}
      BY <1>2 DEF ComposeCommit, TypeInv, DatabaseType
    <2>3. \A r \in Rows : outbox'[r] = outbox[r] \/ outbox'[r] \in {"pending", "failed"}
      BY <1>2 DEF ComposeCommit, TypeInv, DatabaseType
    <2> QED BY <1>1, <2>1, <2>2, <2>3, SendWeakens
  <1>3. CASE SkipCommit(w) \/ RecordCommit(w)
    BY <1>1, <1>3, SendFrame DEF SkipCommit, RecordCommit, dbMsg, provider
  <1>4. CASE StopCommit(w)
    <2>1. UNCHANGED <<msgSid, accepted, statusTx>> BY <1>4 DEF StopCommit, provider
    <2>2. \A r \in Rows : /\ msgStatus'[r] = msgStatus[r] \/ msgStatus'[r] \in {"queued", "failed"}
                          /\ outbox'[r] = outbox[r] \/ outbox'[r] \in {"pending", "failed"}
      BY <1>4 DEF StopCommit
    <2> QED BY <1>1, <2>1, <2>2, SendWeakens
  <1>5. CASE RelaySettle(w)
    <2> DEFINE r == wk[w].row
    <2>1. UNCHANGED <<accepted, statusTx>> BY <1>5 DEF RelaySettle, provider
    <2>2. CASE wk[w].pc = "accepted"
      <3>1. /\ msgStatus' = [msgStatus EXCEPT ![r] = "sent"]
            /\ msgSid' = [msgSid EXCEPT ![r] = wk[w].sid]
            /\ outbox' = [outbox EXCEPT ![r] = "dispatched"]
        BY <1>5, <2>2 DEF RelaySettle
      <3>2. r \in Rows /\ wk[w].sid # None /\ accepted[wk[w].sid] = r
        BY <2>2, MessagingAssumption DEF TypeInv, WorkersInv, ExecutionInv, SendInv
      <3> HIDE DEF r
      <3> QED BY <1>1, <2>1, <3>1, <3>2 DEF SendInv, TypeInv, DatabaseType, OutsideType
    <2>3. CASE wk[w].pc = "refused"
      <3>1. UNCHANGED <<msgSid, accepted, statusTx>>
        BY <1>5, <2>3 DEF RelaySettle, provider
      <3>2. \A q \in Rows : /\ msgStatus'[q] = msgStatus[q] \/ msgStatus'[q] \in {"queued", "failed"}
                            /\ outbox'[q] = outbox[q] \/ outbox'[q] \in {"pending", "failed"}
        BY <1>5, <2>3 DEF RelaySettle, TypeInv, DatabaseType
      <3> QED BY <1>1, <3>1, <3>2, SendWeakens
    <2> QED BY <1>5, <2>2, <2>3 DEF RelaySettle
  <1> QED BY <1>2, <1>3, <1>4, <1>5

(* The provider gives an id it has not given, or the one of this row.      *)
LEMMA SendSend == ASSUME TypeInv, SendInv, NEW w \in Workers, RelaySend(w) PROVE SendInv'
  <1> DEFINE r == wk[w].row
  <1>1. UNCHANGED <<msgStatus, outbox, msgSid, statusTx>> BY DEF RelaySend, dbMsg
  <1>2. \A u \in Workers \ {w} : wk'[u] = wk[u]
    BY DEF RelaySend, TypeInv, WorkersInv
  <1>3. r \in Rows BY DEF RelaySend, TypeInv, WorkersInv, ExecutionInv
  <1>4. CASE UNCHANGED accepted
    <2>1. wk'[w].pc = "accepted" => accepted'[wk'[w].sid] = wk'[w].row
      BY <1>4 DEF RelaySend, SidFor, TypeInv, WorkersInv, Execution, OutsideType
    <2> QED BY <1>1, <1>2, <1>4, <2>1 DEF SendInv
  <1>5. ASSUME NEW s \in Sids, SidFor(r, s), accepted' = [accepted EXCEPT ![s] = r],
               \/ wk' = [wk EXCEPT ![w].pc = "accepted", ![w].sid = s]
               \/ wk' = [wk EXCEPT ![w].pc = "transient"]
        PROVE  SendInv'
    <2>1. accepted[s] \in {None, r} BY <1>5 DEF SidFor
    <2>2. wk'[w].pc = "accepted" => wk'[w].sid = s /\ wk'[w].row = r
      BY <1>5 DEF TypeInv, WorkersInv, Execution
    <2>3. \A t \in Sids : accepted'[t] = IF t = s THEN r ELSE accepted[t]
      BY <1>5 DEF TypeInv, OutsideType
    <2>4. \A q \in Rows : msgSid[q] # None => msgSid[q] \in Sids
      BY DEF TypeInv, DatabaseType
    <2>5. \A u \in Workers : wk[u].pc = "accepted" => wk[u].sid \in Sids /\ wk[u].row \in Rows
      BY DEF TypeInv, WorkersInv, ExecutionInv
    <2> HIDE DEF r
    <2> QED
      BY <1>1, <1>2, <1>3, <2>1, <2>2, <2>3, <2>4, <2>5, MessagingAssumption DEF SendInv
  <1> QED BY <1>4, <1>5 DEF RelaySend

(* SendInv is inductive, relative to TypeInv.                              *)
LEMMA SendStep == TypeInv /\ SendInv /\ [Next]_vars => SendInv'
  <1> SUFFICES ASSUME TypeInv, SendInv, [Next]_vars PROVE SendInv' OBVIOUS
  <1>1. ASSUME NEW w \in Workers, Takes(w) PROVE SendInv'
    <2>1. ASSUME NEW j, NEW l, NEW pc \in Pc \ {"accepted"}, Begin(w, j, l, pc) PROVE SendInv'
      <3>1. wk'[w].pc \in {pc, "waits"} BY <2>1 DEF TypeInv, WorkersInv, Begin, Idle
      <3>2. \A u \in Workers \ {w} : wk'[u] = wk[u] BY <2>1 DEF TypeInv, WorkersInv, Begin
      <3> QED BY <2>1, <3>1, <3>2, SendFrame DEF Begin, dbMsg, provider
    <2>2. ASSUME NEW l \in Leads, FirstTouchBegin(w, l) PROVE SendInv'
      BY <2>1, <2>2 DEF FirstTouchBegin, FirstTouchPc, Pc
    <2>3. ASSUME NEW l \in Leads, FollowUpBegin(w, l) PROVE SendInv'
      BY <2>1, <2>3 DEF FollowUpBegin, Pc
    <2>4. ASSUME NEW i \in Inbounds, InboundBegin(w, i) PROVE SendInv'
      BY <2>1, <2>4 DEF InboundBegin, InboundPc, Pc
    <2>5. ASSUME NEW r \in Rows, RelayBegin(w, r) PROVE SendInv'
      BY <2>5, RelayBeginKeeps, SendFrame DEF RelayBegin, dbMsg, provider, Keeps
    <2> QED BY <1>1, <2>2, <2>3, <2>4, <2>5 DEF Takes
  <1>2. ASSUME NEW w \in Workers, Proceeds(w) PROVE SendInv'
    <2>1. ASSUME NEW l \in Leads, FirstTouchCompose(w, l) \/ FollowUpCompose(w, l)
          PROVE  SendInv'
      BY <2>1, ComposeMoves, SendFrame DEF FirstTouchCompose, FollowUpCompose, dbMsg, provider
    <2>2. CASE Finish(w) \/ Throw(w)
      BY <2>2, LeaveKeeps, SendFrame DEF Finish, Throw, dbMsg, provider, Keeps
    <2>3. CASE StopSelect(w)
      BY <2>3, StopSelectKeeps, SendFrame DEF StopSelect, dbMsg, provider, Keeps
    <2>4. CASE InsertConversation(w)
      BY <2>4, InsertMoves, SendFrame DEF dbMsg, provider
    <2> QED BY <1>2, <2>1, <2>2, <2>3, <2>4, SendCommit, SendSend DEF Proceeds
  <1>3. CASE Environment
    <2>1. \A u \in Workers : wk'[u].pc = "accepted" => wk'[u] = wk[u]
      BY <1>3, EnvironmentKeeps DEF Keeps
    <2>2. CASE UNCHANGED <<msgStatus, outbox, msgSid, accepted, statusTx>>
      BY <2>1, <2>2, SendFrame
    <2>3. ASSUME NEW s \in Sids, StatusRead(s) PROVE SendInv'
      <3>1. UNCHANGED <<msgStatus, outbox, msgSid, accepted>>
        BY <2>3 DEF StatusRead, dbMsg, provider
      <3>2. PICK r \in Rows, st \in {"sent", carrier[s]} \ {None} : msgSid[r] = s /\ statusTx' = statusTx \cup {<<r, st>>}
        BY <2>3 DEF StatusRead
      <3> QED BY <2>1, <3>1, <3>2, MessagingAssumption DEF SendInv
    <2>4. ASSUME NEW t \in statusTx, StatusWrite(t[1], t[2]) PROVE SendInv'
      <3>1. UNCHANGED <<outbox, msgSid, accepted>> /\ statusTx' \subseteq statusTx
        BY <2>4 DEF StatusWrite, provider
      <3>2. \A q \in Rows : q # t[1] => msgStatus'[q] = msgStatus[q]
        BY <2>4 DEF StatusWrite, TypeInv, DatabaseType
      <3> QED BY <2>1, <3>1, <3>2 DEF SendInv
    <2>5. ASSUME NEW r \in Rows, RetryFailedMessage(r) PROVE SendInv'
      <3>1. UNCHANGED <<msgSid, accepted, statusTx>>
        BY <2>5 DEF RetryFailedMessage, provider
      <3>2. \A q \in Rows : /\ msgStatus'[q] = msgStatus[q] \/ msgStatus'[q] \in {"queued", "failed"}
                            /\ outbox'[q] = outbox[q] \/ outbox'[q] \in {"pending", "failed"}
        BY <2>5 DEF RetryFailedMessage, TypeInv, DatabaseType
      <3> QED BY <2>1, <3>1, <3>2, SendWeakens
    <2> QED
      BY <1>3, <2>2, <2>3, <2>4, <2>5 DEF Environment, IngestEnqueues, FollowUpDue, InboundWebhook,
         Arrives, LeadMoves, CarrierSettles, Crash, Stall, Evict, dbMsg, provider
  <1>4. CASE UNCHANGED vars
    BY <1>4, SendFrame DEF vars, dbMsg, provider
  <1> QED BY <1>1, <1>2, <1>3, <1>4 DEF Next

(* The inbox never claims a send that did not happen: a message shown as   *)
(* sent or settled, or an intent shown as dispatched, has the sid of an    *)
(* acceptance by the provider of that very row.                            *)
THEOREM ClaimsAreTrue == Spec => []ClaimedSendsHappened
  <1>1. Init => SendInv
    BY DEF Init, SendInv, Idle
  <1>2. SendInv => ClaimedSendsHappened BY DEF SendInv, ClaimedSendsHappened
  <1> QED BY <1>1, <1>2, SendStep, TypeInvariant, PTL DEF Spec

-----------------------------------------------------------------------------
(* After a STOP.                                                           *)

(* While conversations stay and nobody new is opted out, so does ConvoInv. *)
LEMMA ConvoFrame ==
    ASSUME TypeInv, ConvoInv, convo \subseteq convo',
           \A l \in Leads : leadState'[l] = "opted_out" => leadState[l] = "opted_out" \/ l \in convo',
           \A u \in Workers : wk'[u].pc \in {"select", "void"}
              => \/ /\ wk[u].pc \in {"select", "void"}
                    /\ wk'[u].lead = wk[u].lead /\ wk'[u].creates = wk[u].creates
                 \/ wk'[u].lead \in convo' \/ wk'[u].creates
    PROVE  ConvoInv'
  BY DEF ConvoInv

(* A transaction that begins has found the conversation, inserts it, or    *)
(* waits.                                                                  *)
LEMMA ConvoBegin ==
    ASSUME TypeInv, ConvoInv, NEW w \in Workers, NEW j, NEW l, NEW pc \in Pc,
           Begin(w, j, l, pc), j[1] = "follow_up" => pc \notin {"select", "void"}
    PROVE  ConvoInv'
  <1>1. /\ wk'[w].pc \in {pc, "waits"} /\ wk'[w].lead = l
        /\ wk'[w].pc \in {"select", "void"} => l \in convo \/ wk'[w].creates
    BY DEF TypeInv, WorkersInv, Begin, Idle
  <1>2. \A u \in Workers \ {w} : wk'[u] = wk[u] BY DEF TypeInv, WorkersInv, Begin
  <1>3. UNCHANGED <<leadState, convo>> BY DEF Begin, dbLead
  <1> QED BY <1>1, <1>2, <1>3 DEF ConvoInv

(* A commit keeps its conversation, and a STOP's lead has one.             *)
LEMMA ConvoCommit ==
    ASSUME TypeInv, ConvoInv, NEW w \in Workers,
           ComposeCommit(w) \/ SkipCommit(w) \/ RelaySettle(w) \/ StopCommit(w) \/ RecordCommit(w)
    PROVE  ConvoInv'
  <1>1. \A u \in Workers : wk'[u].pc \in {"select", "void"} => wk'[u] = wk[u]
    <2>1. wk' = [wk EXCEPT ![w] = Committed(w)]
      BY DEF ComposeCommit, SkipCommit, RelaySettle, StopCommit, RecordCommit
    <2>2. Committed(w).pc = "done" BY DEF Idle, Committed
    <2> QED BY <2>1, <2>2 DEF TypeInv, WorkersInv
  <1>2. convo \subseteq convo'
    BY DEF ComposeCommit, SkipCommit, RelaySettle, StopCommit, RecordCommit, ConvoAfter, dbLead
  <1>3. \A l \in Leads : leadState'[l] = "opted_out" => leadState[l] = "opted_out" \/ l \in convo'
    <2>1. CASE StopCommit(w)
      <3>1. /\ leadState' = [leadState EXCEPT ![wk[w].lead] = "opted_out"]
            /\ wk[w].pc = "void" /\ convo' = ConvoAfter(w)
        BY <2>1 DEF StopCommit
      <3> QED BY <3>1 DEF ConvoInv, ConvoAfter, TypeInv, DatabaseType
    <2>2. CASE ~StopCommit(w)
      BY <2>2 DEF ComposeCommit, SkipCommit, RelaySettle, RecordCommit, dbLead, TypeInv,
         DatabaseType
    <2> QED BY <2>1, <2>2
  <1> QED BY <1>1, <1>2, <1>3, ConvoFrame

(* ConvoInv is inductive, relative to TypeInv.                             *)
LEMMA ConvoStep == TypeInv /\ ConvoInv /\ [Next]_vars => ConvoInv'
  <1> SUFFICES ASSUME TypeInv, ConvoInv, [Next]_vars PROVE ConvoInv' OBVIOUS
  <1>1. ASSUME NEW w \in Workers, Takes(w) PROVE ConvoInv'
    <2>1. ASSUME NEW l \in Leads, FirstTouchBegin(w, l) PROVE ConvoInv'
      BY <2>1, ConvoBegin DEF FirstTouchBegin, FirstTouchPc, FirstTouch, Pc
    <2>2. ASSUME NEW l \in Leads, FollowUpBegin(w, l) PROVE ConvoInv'
      BY <2>2, ConvoBegin DEF FollowUpBegin, Pc
    <2>3. ASSUME NEW i \in Inbounds, InboundBegin(w, i) PROVE ConvoInv'
      BY <2>3, ConvoBegin DEF InboundBegin, InboundPc, Inbound, Pc
    <2>4. ASSUME NEW r \in Rows, RelayBegin(w, r) PROVE ConvoInv'
      <3>1. wk'[w].pc \in {"missing", "skip", "send"} /\ \A u \in Workers \ {w} : wk'[u] = wk[u]
        BY <2>4 DEF RelayBegin, Idle, TypeInv, WorkersInv
      <3> QED BY <2>4, <3>1, ConvoFrame DEF RelayBegin, dbLead
    <2> QED BY <1>1, <2>1, <2>2, <2>3, <2>4 DEF Takes
  <1>2. ASSUME NEW w \in Workers, Proceeds(w) PROVE ConvoInv'
    <2>1. ASSUME NEW l \in Leads, FirstTouchCompose(w, l) \/ FollowUpCompose(w, l)
          PROVE  ConvoInv'
      BY <2>1, ComposeMoves, ConvoFrame DEF FirstTouchCompose, FollowUpCompose, dbLead
    <2>2. CASE RelaySend(w)
      <3>1. \A u \in Workers : wk'[u].pc \in {"select", "void"} => wk'[u] = wk[u]
        BY <2>2 DEF RelaySend, TypeInv, WorkersInv, Execution
      <3> QED BY <2>2, <3>1, ConvoFrame DEF RelaySend, dbLead
    <2>3. CASE StopSelect(w)
      <3>1. /\ wk[w].pc = "select"
            /\ wk'[w].lead = wk[w].lead /\ wk'[w].creates = wk[w].creates
            /\ \A u \in Workers \ {w} : wk'[u] = wk[u]
        BY <2>3 DEF StopSelect, TypeInv, WorkersInv, Execution
      <3> QED BY <2>3, <3>1, ConvoFrame DEF StopSelect, dbLead
    <2>4. CASE InsertConversation(w)
      BY <2>4, InsertMoves, ConvoFrame DEF dbLead
    <2>5. CASE Finish(w) \/ Throw(w)
      <3>1. \A u \in Workers : wk'[u].pc \in {"select", "void"} => wk'[u] = wk[u]
        BY <2>5 DEF Finish, Throw, Leave, Idle, TypeInv, WorkersInv
      <3> QED BY <2>5, <3>1, ConvoFrame DEF Finish, Throw, dbLead
    <2> QED BY <1>2, <2>1, <2>2, <2>3, <2>4, <2>5, ConvoCommit DEF Proceeds
  <1>3. CASE Environment
    <2>1. \A u \in Workers : wk'[u].pc \in {"select", "void"} => wk'[u] = wk[u]
      <3>1. UNCHANGED wk \/ \E w \in Workers : wk' = [wk EXCEPT ![w] = Idle]
        BY <1>3 DEF Environment, IngestEnqueues, FollowUpDue, InboundWebhook, Arrives,
           LeadMoves, CarrierSettles, StatusRead, StatusWrite, RetryFailedMessage, Stall, Evict,
           Crash, Leave
      <3> QED BY <3>1 DEF Idle, TypeInv, WorkersInv
    <2>2. UNCHANGED convo
      BY <1>3 DEF Environment, IngestEnqueues, FollowUpDue, InboundWebhook, Arrives, LeadMoves,
         CarrierSettles, StatusRead, StatusWrite, RetryFailedMessage, Crash, Stall, Evict, dbLead
    <2>3. CASE UNCHANGED leadState
      BY <2>1, <2>2, <2>3, ConvoFrame
    <2>4. ASSUME NEW l \in Leads, NEW st \in Moves, LeadMoves(l, st) PROVE ConvoInv'
      <3>1. \A m \in Leads : leadState'[m] = "opted_out" => leadState[m] = "opted_out"
        BY <2>4, MessagingAssumption DEF LeadMoves, TypeInv, DatabaseType
      <3> QED BY <2>1, <2>2, <3>1, ConvoFrame
    <2> QED
      BY <1>3, <2>3, <2>4 DEF Environment, IngestEnqueues, FollowUpDue, InboundWebhook, Arrives,
         CarrierSettles, StatusRead, StatusWrite, RetryFailedMessage, Crash, Stall, Evict, dbLead
  <1>4. CASE UNCHANGED vars
    BY <1>4, ConvoFrame DEF vars, dbLead
  <1> QED BY <1>1, <1>2, <1>3, <1>4 DEF Next

(* A step that opts nobody out and keeps preserves OverlapInv.             *)
LEMMA OverlapFrame ==
    ASSUME OverlapInv, Keeps, suppressed' \subseteq suppressed,
           TypeInv, \A l \in Leads : leadState'[l] = "opted_out" => leadState[l] = "opted_out"
    PROVE  OverlapInv'
  BY DEF OverlapInv, Keeps, TypeInv, WorkersInv, ExecutionInv

(* What begins after a STOP neither composes nor engages: the gate sees    *)
(* the suppression, and the lead is read as opted out.                     *)
LEMMA OverlapBegin ==
    ASSUME TypeInv, OverlapInv, NEW w \in Workers, NEW j, NEW l, NEW pc \in Pc,
           Begin(w, j, l, pc), pc # "composed", pc = "compose" => GateAllows(l)
    PROVE  OverlapInv'
  <1>1. wk'[w].pc \in {pc, "waits"} /\ wk'[w].lead = l /\ wk'[w].state = leadState[l]
    BY DEF TypeInv, WorkersInv, Begin, Idle
  <1>2. \A u \in Workers \ {w} : wk'[u] = wk[u] BY DEF TypeInv, WorkersInv, Begin
  <1>3. UNCHANGED <<leadState, suppressed, unseen>> BY DEF Begin, dbLead, history
  <1> QED BY <1>1, <1>2, <1>3 DEF OverlapInv, GateAllows

(* A STOP marks every transaction that overlaps it.                        *)
LEMMA OverlapCommit ==
    ASSUME TypeInv, OverlapInv, NEW w \in Workers,
           ComposeCommit(w) \/ SkipCommit(w) \/ RelaySettle(w) \/ StopCommit(w) \/ RecordCommit(w)
    PROVE  OverlapInv'
  <1>1. Keeps BY CommitKeeps
  <1>2. CASE ~StopCommit(w)
    <2>1. UNCHANGED suppressed
      BY <1>2 DEF ComposeCommit, SkipCommit, RelaySettle, RecordCommit, dbLead
    <2>2. \A l \in Leads : leadState'[l] = "opted_out" => leadState[l] = "opted_out"
      BY <1>2 DEF ComposeCommit, SkipCommit, RelaySettle, RecordCommit, dbLead, TypeInv, DatabaseType
    <2> QED BY <1>1, <2>1, <2>2, OverlapFrame
  <1>3. CASE StopCommit(w)
    <2> DEFINE l == wk[w].lead
    <2>1. /\ suppressed' = suppressed \cup {l}
          /\ unseen' = (unseen \cup Overlapping(l, w)) \ {w}
          /\ leadState' = [leadState EXCEPT ![l] = "opted_out"]
      BY <1>3 DEF StopCommit
    <2>2. wk'[w].pc = "done"
      BY <1>3 DEF StopCommit, Committed, TypeInv, WorkersInv, Idle
    <2>3. \A u \in Workers : wk'[u].pc \in {"compose", "composed", "record"}
            => u # w /\ wk'[u] = wk[u]
      BY <1>1, <2>2 DEF Keeps
    <2>4. \A u \in Workers \ {w} : wk[u].lead = l /\ wk[u].pc \in {"compose", "composed", "record"}
            => u \in unseen'
      BY <2>1 DEF Overlapping
    <2> HIDE DEF l
    <2> QED BY <2>1, <2>3, <2>4 DEF OverlapInv, TypeInv, DatabaseType
  <1> QED BY <1>2, <1>3

(* OverlapInv is inductive, relative to TypeInv.                           *)
LEMMA OverlapStep == TypeInv /\ ConvoInv /\ OverlapInv /\ [Next]_vars => OverlapInv'
  <1> SUFFICES ASSUME TypeInv, ConvoInv, OverlapInv, [Next]_vars PROVE OverlapInv' OBVIOUS
  <1>1. ASSUME NEW w \in Workers, Takes(w) PROVE OverlapInv'
    <2>1. ASSUME NEW l \in Leads, FirstTouchBegin(w, l) PROVE OverlapInv'
      BY <2>1, OverlapBegin DEF FirstTouchBegin, FirstTouchPc, Pc
    <2>2. ASSUME NEW l \in Leads, FollowUpBegin(w, l) PROVE OverlapInv'
      BY <2>2, OverlapBegin DEF FollowUpBegin, Pc
    <2>3. ASSUME NEW i \in Inbounds, InboundBegin(w, i) PROVE OverlapInv'
      BY <2>3, OverlapBegin DEF InboundBegin, InboundPc, Pc
    <2>4. ASSUME NEW r \in Rows, RelayBegin(w, r) PROVE OverlapInv'
      BY <2>4, RelayBeginKeeps, OverlapFrame DEF RelayBegin, dbLead
    <2> QED BY <1>1, <2>1, <2>2, <2>3, <2>4 DEF Takes
  <1>2. ASSUME NEW w \in Workers, Proceeds(w) PROVE OverlapInv'
    <2>1. ASSUME NEW l \in Leads, FirstTouchCompose(w, l) \/ FollowUpCompose(w, l)
          PROVE  OverlapInv'
      <3>1. UNCHANGED <<leadState, suppressed, unseen>>
        BY <2>1 DEF FirstTouchCompose, FollowUpCompose, dbLead, history
      <3> QED BY <2>1, <3>1, ComposeMoves DEF OverlapInv
    <2>2. CASE RelaySend(w)
      <3>1. \A u \in Workers : wk'[u].pc \in {"compose", "composed", "record"} => wk'[u] = wk[u]
        BY <2>2 DEF RelaySend, TypeInv, WorkersInv, Execution
      <3>2. UNCHANGED <<leadState, suppressed, unseen>> BY <2>2 DEF RelaySend, dbLead
      <3> QED BY <3>1, <3>2 DEF OverlapInv
    <2>3. CASE Finish(w) \/ Throw(w)
      BY <2>3, LeaveKeeps, OverlapFrame DEF Finish, Throw, dbLead
    <2>4. CASE StopSelect(w)
      BY <2>4, StopSelectKeeps, OverlapFrame DEF StopSelect, dbLead
    <2>5. CASE InsertConversation(w)
      <3>1. wk[w].lead \in Leads BY <2>5 DEF InsertConversation, TypeInv, WorkersInv, ExecutionInv
      <3> QED BY <2>5, <3>1, InsertMoves DEF OverlapInv, ConvoInv, GateAllows, dbLead, history
    <2> QED BY <1>2, <2>1, <2>2, <2>3, <2>4, <2>5, OverlapCommit DEF Proceeds
  <1>3. CASE Environment
    <2>1. UNCHANGED suppressed
      BY <1>3 DEF Environment, IngestEnqueues, FollowUpDue, InboundWebhook, Arrives, LeadMoves,
         CarrierSettles, StatusRead, StatusWrite, RetryFailedMessage, Crash, Stall, Evict, dbLead
    <2>2. CASE UNCHANGED leadState
      BY <1>3, <2>1, <2>2, EnvironmentKeeps, OverlapFrame
    <2>3. ASSUME NEW l \in Leads, NEW st \in Moves, LeadMoves(l, st) PROVE OverlapInv'
      <3>1. \A m \in Leads : leadState'[m] = "opted_out" => leadState[m] = "opted_out"
        BY <2>3, MessagingAssumption DEF LeadMoves, TypeInv, DatabaseType
      <3> QED BY <1>3, <2>1, <3>1, EnvironmentKeeps, OverlapFrame
    <2> QED
      BY <1>3, <2>2, <2>3 DEF Environment, IngestEnqueues, FollowUpDue, InboundWebhook, Arrives,
         CarrierSettles, StatusRead, StatusWrite, RetryFailedMessage, Crash, Stall, Evict, dbLead
  <1>4. CASE UNCHANGED vars
    BY <1>4, OverlapFrame DEF vars, dbLead, history, Keeps
  <1> QED BY <1>1, <1>2, <1>3, <1>4 DEF Next

(* An opted-out lead cannot move to a state other components set.          *)
LEMMA OptedOutStays ==
    \A st \in Moves \cup {"contacted", "engaged"} : ~CanTransition("opted_out", st)
  BY MessagingAssumption DEF CanTransition, ActiveStates, Transitions

(* The step behind OnlyOverlapsFollowStop.                                 *)
OverlapsStep ==
    \A l \in suppressed :
        /\ \A r \in Rows : msgOf[r] = NoJob /\ msgOf'[r] # NoJob /\ msgOf'[r][2] = l
              => \E w \in unseen : wk[w].row = r
        /\ leadState[l] = "opted_out" /\ leadState'[l] # "opted_out"
              => \E w \in unseen : wk[w].lead = l /\ wk'[w].pc = "done"

(* The commits obey it.                                                    *)
LEMMA CommitOverlaps ==
    ASSUME TypeInv, LedgerInv, OverlapInv, NEW w \in Workers,
           ComposeCommit(w) \/ SkipCommit(w) \/ RelaySettle(w) \/ StopCommit(w) \/ RecordCommit(w)
    PROVE  OverlapsStep
  <1>1. wk'[w].pc = "done"
    <2>1. wk' = [wk EXCEPT ![w] = Committed(w)]
      BY DEF ComposeCommit, SkipCommit, RelaySettle, StopCommit, RecordCommit
    <2>2. Committed(w).pc = "done" BY DEF Idle, Committed
    <2> QED BY <2>1, <2>2 DEF TypeInv, WorkersInv
  <1>2. CASE ComposeCommit(w)
    <2>1. /\ wk[w].pc = "composed" /\ msgOf' = [msgOf EXCEPT ![wk[w].row] = wk[w].job]
          /\ \A l \in Leads : l # wk[w].lead => leadState'[l] = leadState[l]
      BY <1>2 DEF ComposeCommit, TypeInv, DatabaseType
    <2>2. wk[w].lead = wk[w].job[2] /\ wk[w].row \in Rows
      BY <2>1 DEF TypeInv, WorkersInv, ExecutionInv
    <2> QED BY <1>1, <2>1, <2>2 DEF OverlapsStep, OverlapInv, TypeInv, DatabaseType
  <1>3. CASE SkipCommit(w) \/ RelaySettle(w) \/ StopCommit(w)
    <2>1. UNCHANGED msgOf BY <1>3 DEF SkipCommit, RelaySettle, StopCommit, dbMsg
    <2>2. \A l \in Leads : leadState[l] = "opted_out" => leadState'[l] = "opted_out"
      BY <1>3 DEF SkipCommit, RelaySettle, StopCommit, dbLead, TypeInv, DatabaseType
    <2> QED BY <2>1, <2>2 DEF OverlapsStep, TypeInv, DatabaseType
  <1>4. CASE RecordCommit(w)
    <2>1. UNCHANGED msgOf BY <1>4 DEF RecordCommit, dbMsg
    <2>2. CASE Engages(w)
      <3>1. /\ wk[w].pc = "record" /\ wk[w].state \in {"new", "contacted"}
            /\ \A l \in Leads : l # wk[w].lead => leadState'[l] = leadState[l]
        BY <1>4, <2>2 DEF RecordCommit, Engages, TypeInv, DatabaseType
      <3> QED BY <1>1, <2>1, <3>1 DEF OverlapsStep, OverlapInv, TypeInv, DatabaseType
    <2>3. CASE ~Engages(w)
      BY <1>4, <2>1, <2>3 DEF RecordCommit, OverlapsStep
    <2> QED BY <2>2, <2>3
  <1> QED BY <1>2, <1>3, <1>4

(* Every step does.                                                        *)
LEMMA NextOverlaps == TypeInv /\ LedgerInv /\ OverlapInv /\ [Next]_vars => OverlapsStep
  <1> SUFFICES ASSUME TypeInv, LedgerInv, OverlapInv, [Next]_vars PROVE OverlapsStep OBVIOUS
  <1>1. CASE UNCHANGED <<msgOf, leadState>> BY <1>1 DEF OverlapsStep
  <1>2. ASSUME NEW w \in Workers, Takes(w) PROVE UNCHANGED <<msgOf, leadState>>
    BY <1>2 DEF Takes, FirstTouchBegin, FollowUpBegin, InboundBegin, RelayBegin, Begin,
       dbLead, dbMsg
  <1>3. ASSUME NEW w \in Workers, Proceeds(w) PROVE OverlapsStep
    BY <1>1, <1>3, CommitOverlaps DEF Proceeds, FirstTouchCompose, FollowUpCompose, RelaySend,
       InsertConversation, StopSelect, Finish, Throw, dbLead, dbMsg
  <1>4. CASE Environment
    <2>1. ASSUME NEW l \in Leads, NEW st \in Moves, LeadMoves(l, st) PROVE OverlapsStep
      <3>1. UNCHANGED msgOf BY <2>1 DEF LeadMoves, dbMsg
      <3>2. \A m \in Leads : leadState[m] = "opted_out" => leadState'[m] = "opted_out"
        BY <2>1, OptedOutStays DEF LeadMoves, TypeInv, DatabaseType
      <3> QED BY <3>1, <3>2 DEF OverlapsStep, TypeInv, DatabaseType
    <2> QED
      BY <1>1, <1>4, <2>1 DEF Environment, IngestEnqueues, FollowUpDue, InboundWebhook, Arrives,
         CarrierSettles, StatusRead, StatusWrite, RetryFailedMessage, Crash, Stall, Evict,
         dbLead, dbMsg
  <1> QED BY <1>1, <1>2, <1>3, <1>4 DEF Next, vars, dbLead, dbMsg

(* Once a STOP is committed, a message is added for the lead, or the lead  *)
(* leaves opted_out, only by a transaction that was running at the time.   *)
THEOREM StopIsFinal == Spec => OnlyOverlapsFollowStop
  <1>1. Init => LedgerInv /\ ConvoInv /\ OverlapInv
    BY DEF Init, LedgerInv, ConsentLedgerRules, ConvoInv, OverlapInv, Idle
  <1>2. TypeInv /\ LedgerInv /\ OverlapInv /\ [Next]_vars
          => [\A l \in suppressed :
                /\ \A r \in Rows : msgOf[r] = NoJob /\ msgOf'[r] # NoJob /\ msgOf'[r][2] = l
                      => \E w \in unseen : wk[w].row = r
                /\ leadState[l] = "opted_out" /\ leadState'[l] # "opted_out"
                      => \E w \in unseen : wk[w].lead = l /\ wk'[w].pc = "done"]_vars
    BY NextOverlaps DEF OverlapsStep
  <1> QED
    BY <1>1, <1>2, LedgerStep, ConvoStep, OverlapStep, TypeInvariant, PTL DEF Spec, OnlyOverlapsFollowStop

=============================================================================
