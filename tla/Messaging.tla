------------------------------- MODULE Messaging -------------------------------
(***************************************************************************)
(* Outbound and inbound SMS of a lead: the processors of apps/worker that  *)
(* compose a message behind the policy gate (first-touch.ts, messaging.ts),*)
(* relay it to the provider through the transactional outbox (relay.ts),   *)
(* and handle replies, STOP and delivery callbacks (messaging-events.ts),  *)
(* with the manual retry of takeover.ts.                                   *)
(*                                                                         *)
(* A handler is a BullMQ job run by a worker.  A database transaction is a *)
(* Begin step, which takes the job and reads, and a commit step, which     *)
(* writes: Postgres runs READ COMMITTED, so any other transaction may      *)
(* commit in between and the writes rest on what was read.  Row locks that *)
(* order the writers of a lead are modelled; the provider is called        *)
(* between two transactions, and a job is acknowledged to the queue after  *)
(* its last one.                                                           *)
(***************************************************************************)
EXTENDS LeadLifecycle, Naturals, FiniteSets

CONSTANTS Leads,          (* leads, each the latest one of its phone        *)
          Rows,           (* message ids; each has one outbox row           *)
          Inbounds,       (* inbound webhooks, by their MessageSid          *)
          Sids,           (* provider message ids                           *)
          Workers,        (* concurrent handler executions                  *)
          None,
          MaxAttempts, MaxStalls,
          InLead,         (* the lead an inbound's phone resolves to        *)
          InKind,         (* what detectOptOut makes of its body            *)
          FollowUps,      (* leads with a workflow step due                 *)
          Moves,          (* states other components may move a lead to     *)
          Evicted,        (* queues old enough to drop a completed job       *)
          Outcomes,       (* final statuses the carrier may report            *)
          ProviderDedupes,(* whether send honours the dedupeKey             *)
          Faults          (* how many crashes, stalls and I/O errors may occur *)

ASSUME MessagingAssumption ==
    /\ None \notin Leads \cup Rows \cup Inbounds \cup Sids \cup Workers
    /\ None \notin {"sent", "delivered", "undelivered", "failed"}
    /\ MaxAttempts \in Nat \ {0}
    /\ MaxStalls \in Nat
    /\ InLead \in [Inbounds -> Leads]
    /\ InKind \in [Inbounds -> {"stop", "help", "reply"}]
    /\ FollowUps \subseteq Leads
    /\ Moves \subseteq {"qualifying", "qualified", "booked", "human_owned", "won", "lost"}
    /\ Evicted \subseteq {"first_touch", "follow_up", "relay", "inbound"}
    /\ Outcomes \subseteq {"delivered", "undelivered", "failed"}
    /\ ProviderDedupes \in BOOLEAN
    /\ Faults \in Nat

-----------------------------------------------------------------------------
(* Job ids, over the four queues this module uses. *)
Keys == {"first_touch", "follow_up"}
FirstTouch(l) == <<"first_touch", l>>
FollowUp(l)   == <<"follow_up", l>>
Relay(r)      == <<"relay", r>>
Inbound(i)    == <<"inbound", i>>
Job == (Keys \X Leads) \cup ({"relay"} \X Rows) \cup ({"inbound"} \X Inbounds)
NoJob == <<"none", None>>

VARIABLES
    (* Postgres *)
    leadState,  (* leads.state                                              *)
    convo,      (* leads that have a conversations row                      *)
    replied,    (* leads with firstReplyAt set                              *)
    consent,    (* the latest consent_records status of a lead, for sms     *)
    suppressed, (* leads whose phone is in suppression_entries              *)
    msgOf,      (* messages: <<dedupe key, lead>> of a committed row        *)
    msgStatus,  (* messages.status                                          *)
    msgSid,     (* messages.provider_sid                                    *)
    outbox,     (* outbox.status of the row's intent                        *)
    (* Redis *)
    jobState, tries, stalls, holder,
    (* worker processes: the execution each runs, with what it has read     *)
    wk,
    statusTx,   (* status callbacks that passed the guard, not yet written  *)
    (* the provider *)
    accepted,   (* the row a provider message id was created for            *)
    carrier,    (* its final delivery status                                *)
    (* history *)
    interrupted,(* rows with a relay cut off after it may have been sent    *)
    reopened,   (* rows re-opened by the manual retry                       *)
    voided,     (* rows whose pending intent a STOP voided                  *)
    unseen,     (* workers whose transaction overlaps a STOP of its lead    *)
    raced,      (* rows committed by, or during, such an overlap            *)
    faults      (* faults that may still occur                              *)

Q == INSTANCE JobQueue WITH Worker <- Workers, NoWorker <- None

dbLead   == <<leadState, convo, replied, consent, suppressed>>
dbMsg    == <<msgOf, msgStatus, msgSid, outbox>>
queueVars == <<jobState, tries, stalls, holder>>
provider == <<accepted, carrier>>
history  == <<interrupted, reopened, voided, unseen, raced, faults>>
vars == <<dbLead, dbMsg, queueVars, wk, statusTx, provider, history>>

-----------------------------------------------------------------------------
(* Types. *)
MsgStatus == {"none", "queued", "sent", "delivered", "undelivered", "failed"}
OutboxStatus == {"none", "pending", "dispatched", "failed"}
Final == {"delivered", "undelivered", "failed"}

(* Control points of an execution.                                         *)
(*   waits: for another transaction's insert of the conversation           *)
(*   composing: skip, compose, composed       relaying: send, accepted,    *)
(*   refused, transient, missing              inbound: select, void, record*)
(*   done: the transaction is committed, the job not yet acknowledged.     *)
Pc == {"idle", "waits", "skip", "compose", "composed", "missing", "send", "accepted",
       "refused", "transient", "select", "void", "record", "done"}

Execution ==
    [job: Job \cup {NoJob}, pc: Pc,
     lead: Leads \cup {None}, row: Rows \cup {None}, sid: Sids \cup {None},
     state: LeadState,       \* lead.state as read by this transaction
     creates: BOOLEAN,       \* holds an uncommitted conversations insert
     first: BOOLEAN,         \* read firstReplyAt as null
     lock: BOOLEAN,          \* holds the lead's row lock
     queued: SUBSET Rows]    \* queued messages selected by a STOP

Idle == [job |-> NoJob, pc |-> "idle", lead |-> None, row |-> None, sid |-> None,
         state |-> "new", creates |-> FALSE, first |-> FALSE, lock |-> FALSE, queued |-> {}]

TypeOK ==
    /\ leadState \in [Leads -> LeadState]
    /\ convo \subseteq Leads
    /\ replied \subseteq Leads
    /\ consent \in [Leads -> {"granted", "unknown", "revoked"}]
    /\ suppressed \subseteq Leads
    /\ msgOf \in [Rows -> (Keys \X Leads) \cup {NoJob}]
    /\ msgStatus \in [Rows -> MsgStatus]
    /\ msgSid \in [Rows -> Sids \cup {None}]
    /\ outbox \in [Rows -> OutboxStatus]
    /\ Q!QueueTypeOK
    /\ wk \in [Workers -> Execution]
    /\ statusTx \subseteq Rows \X ({"sent"} \cup Final)
    /\ accepted \in [Sids -> Rows \cup {None}]
    /\ carrier \in [Sids -> Final \cup {None}]
    /\ interrupted \subseteq Rows
    /\ reopened \subseteq Rows
    /\ voided \subseteq Rows
    /\ unseen \subseteq Workers
    /\ raced \subseteq Rows
    /\ faults \in 0..Faults

(* A lead as ingest leaves it, with or without recorded sms consent; its   *)
(* phone may be suppressed since an earlier lead of the same phone.        *)
Init ==
    /\ leadState = [l \in Leads |-> "new"]
    /\ convo = {} /\ replied = {}
    /\ consent \in [Leads -> {"granted", "unknown"}]
    /\ suppressed \in SUBSET Leads
    /\ msgOf = [r \in Rows |-> NoJob]
    /\ msgStatus = [r \in Rows |-> "none"]
    /\ msgSid = [r \in Rows |-> None]
    /\ outbox = [r \in Rows |-> "none"]
    /\ Q!QueueInit({})
    /\ wk = [w \in Workers |-> Idle]
    /\ statusTx = {}
    /\ accepted = [s \in Sids |-> None]
    /\ carrier = [s \in Sids |-> None]
    /\ interrupted = {} /\ reopened = {} /\ voided = {} /\ unseen = {} /\ raced = {}
    /\ faults = Faults

(* One of the Faults occurs. *)
Fault == faults > 0 /\ faults' = faults - 1

-----------------------------------------------------------------------------
(* What the handlers read. *)

(* Mutants, here and below: what a bug in the next definition would do.    *)
GateIgnoresConsent(l)     == l \notin suppressed
GateIgnoresSuppression(l) == consent[l] = "granted"

(* evaluatePolicy on a send with the consent and suppression read: the     *)
(* first failing check blocks.  Quiet hours never block (they only set     *)
(* scheduledFor), and the remaining inputs are constants of the callers.   *)
GateAllows(l) == l \notin suppressed /\ consent[l] = "granted"

(* Mutant: no unique index, and no look at earlier messages. *)
KeyNeverTaken(k) == FALSE

KeyTaken(k) == \E r \in Rows : msgOf[r] = k

(* An uncommitted insert of the same (conversation, dedupe_key): Postgres  *)
(* makes a second one wait for it.                                         *)
KeyInFlight(k, w) == \E u \in Workers \ {w} : wk[u].pc = "composed" /\ wk[u].job = k

(* No other transaction holds the lead's row lock. *)
LeadFree(l, w) == \A u \in Workers \ {w} : ~(wk[u].lock /\ wk[u].lead = l)

(* Another transaction inserted the lead's conversation and has yet to     *)
(* commit: ensureConversation finds none, and its own insert waits.        *)
InsertWaits(l) == l \notin convo /\ \E u \in Workers : wk[u].creates /\ wk[u].lead = l

(* uuids are fresh: never a row, an uncommitted row, or a relay job's row. *)
FreshRow(r) ==
    /\ msgOf[r] = NoJob
    /\ jobState[Relay(r)] = "absent"
    /\ \A u \in Workers : wk[u].row # r

(* Mutants: a wrong status, or only the first touch. *)
SentRows(l) == {r \in Rows : msgOf[r] # NoJob /\ msgOf[r][2] = l /\ msgStatus[r] = "sent"}
QueuedFirstTouch(l) == {r \in Rows : msgOf[r] = FirstTouch(l) /\ msgStatus[r] = "queued"}

QueuedRows(l) ==
    {r \in Rows : msgOf[r] # NoJob /\ msgOf[r][2] = l /\ msgStatus[r] = "queued"}

(* The transactions a STOP of lead l does not see and that do not see it. *)
Overlapping(l, w) ==
    {u \in Workers \ {w} : /\ wk[u].lead = l
                           /\ wk[u].pc \in {"compose", "composed", "select", "void", "record"}}

(* Rows a commit adds to raced: it follows a STOP of the lead, or falls    *)
(* between a STOP's look at the queued messages and its commit.            *)
RacesStop(l) ==
    \/ l \in suppressed
    \/ \E u \in Workers : wk[u].pc = "void" /\ wk[u].lead = l

(* A handler takes its job, reads the lead and ensures the conversation,   *)
(* and goes on at pc; a follow-up does not ensure one.                     *)
Begin(w, j, l, pc) ==
    LET waits == j[1] # "follow_up" /\ InsertWaits(l)
    IN /\ wk[w].pc = "idle"
       /\ Q!Take(w, j)
       /\ wk' = [wk EXCEPT ![w] =
                   [Idle EXCEPT !.job = j, !.pc = IF waits THEN "waits" ELSE pc, !.lead = l,
                                !.state = leadState[l], !.first = l \notin replied,
                                !.creates = j[1] # "follow_up" /\ ~waits /\ l \notin convo]]
       /\ UNCHANGED <<dbLead, dbMsg, statusTx, provider, history>>

(* The transaction of w committed: its locks go, the job is still active. *)
Committed(w) == [Idle EXCEPT !.job = wk[w].job, !.pc = "done"]

ConvoAfter(w) == IF wk[w].creates THEN convo \cup {wk[w].lead} ELSE convo

-----------------------------------------------------------------------------
(* processFirstTouch.                                                      *)

(* The reads, up to the gate's verdict.  An existing first touch or a      *)
(* blocked verdict still commits the conversation.                         *)
FirstTouchPc(l) == IF KeyTaken(FirstTouch(l)) \/ ~GateAllows(l) THEN "skip" ELSE "compose"

FirstTouchBegin(w, l) == Begin(w, FirstTouch(l), l, FirstTouchPc(l))

(* Insert the message and its intent, update the lead, enqueue the relay:  *)
(* all before the commit, and only the enqueue is visible.                 *)
FirstTouchCompose(w, l) ==
    /\ wk[w].pc = "compose" /\ wk[w].job = FirstTouch(l)
    /\ ~KeyTaken(FirstTouch(l)) /\ ~KeyInFlight(FirstTouch(l), w)
    /\ CanTransition(wk[w].state, "contacted")
    /\ LeadFree(l, w)
    /\ \E r \in Rows :
         /\ FreshRow(r)
         /\ wk' = [wk EXCEPT ![w].pc = "composed", ![w].row = r, ![w].lock = TRUE]
         /\ Q!Add(Relay(r))
    /\ UNCHANGED <<dbLead, dbMsg, statusTx, provider, history>>

(* Mutant: a follow-up that does not ask the gate. *)
FollowUpUngated(w, l) ==
    Begin(w, FollowUp(l), l,
          IF leadState[l] \in StopStates \/ l \notin convo THEN "skip" ELSE "compose")

(* composeAndEnqueue, called by a workflow step's transaction after its    *)
(* stop check; it does not run without a conversation.                     *)
FollowUpBegin(w, l) ==
    Begin(w, FollowUp(l), l,
          IF leadState[l] \in StopStates \/ l \notin convo \/ ~GateAllows(l)
          THEN "skip" ELSE "compose")

(* onConflictDoNothing: a duplicate composes nothing and throws nothing. *)
FollowUpCompose(w, l) ==
    /\ wk[w].pc = "compose" /\ wk[w].job = FollowUp(l)
    /\ ~KeyInFlight(FollowUp(l), w)
    /\ IF KeyTaken(FollowUp(l))
       THEN wk' = [wk EXCEPT ![w].pc = "skip"] /\ UNCHANGED queueVars
       ELSE \E r \in Rows :
              /\ FreshRow(r)
              /\ wk' = [wk EXCEPT ![w].pc = "composed", ![w].row = r]
              /\ Q!Add(Relay(r))
    /\ UNCHANGED <<dbLead, dbMsg, statusTx, provider, history>>

(* The commit of a composing transaction. *)
ComposeCommit(w) ==
    LET r == wk[w].row
        l == wk[w].lead
    IN /\ wk[w].pc = "composed"
       /\ msgOf' = [msgOf EXCEPT ![r] = wk[w].job]
       /\ msgStatus' = [msgStatus EXCEPT ![r] = "queued"]
       /\ outbox' = [outbox EXCEPT ![r] = "pending"]
       /\ leadState' = IF wk[w].job[1] = "first_touch"
                       THEN [leadState EXCEPT ![l] = "contacted"] ELSE leadState
       /\ convo' = ConvoAfter(w)
       /\ wk' = [wk EXCEPT ![w] = Committed(w)]
       /\ unseen' = unseen \ {w}
       /\ raced' = IF RacesStop(l) THEN raced \cup {r} ELSE raced
       /\ UNCHANGED <<replied, consent, suppressed, msgSid, queueVars, statusTx,
                      provider, interrupted, reopened, voided, faults>>

(* The commit of a transaction that ends in duplicate, blocked, stopped or *)
(* already_dispatched.                                                     *)
SkipCommit(w) ==
    /\ wk[w].pc = "skip"
    /\ convo' = ConvoAfter(w)
    /\ wk' = [wk EXCEPT ![w] = Committed(w)]
    /\ unseen' = unseen \ {w}
    /\ UNCHANGED <<leadState, replied, consent, suppressed, dbMsg, queueVars, statusTx,
                   provider, interrupted, reopened, voided, raced, faults>>

-----------------------------------------------------------------------------
(* processMessagingOut.                                                    *)

(* Mutant: no check of the intent's status. *)
RelayUnchecked(w, r) ==
    /\ wk[w].pc = "idle"
    /\ Q!Take(w, Relay(r))
    /\ wk' = [wk EXCEPT ![w] =
                [Idle EXCEPT !.job = Relay(r), !.row = r,
                             !.pc = IF msgOf[r] = NoJob THEN "missing" ELSE "send"]]
    /\ UNCHANGED <<dbLead, dbMsg, statusTx, provider, history>>

(* The first transaction: a missing row throws, a dispatched one is done,  *)
(* and any other status, failed included, is sent.                         *)
RelayBegin(w, r) ==
    /\ wk[w].pc = "idle"
    /\ Q!Take(w, Relay(r))
    /\ wk' = [wk EXCEPT ![w] =
                [Idle EXCEPT !.job = Relay(r), !.row = r,
                             !.pc = IF msgOf[r] = NoJob THEN "missing"
                                    ELSE IF outbox[r] = "dispatched" THEN "skip" ELSE "send"]]
    /\ UNCHANGED <<dbLead, dbMsg, statusTx, provider, history>>

(* The provider's message id for a send: a new one, or, where it honours   *)
(* the dedupeKey, the one of the first send.                               *)
SidFor(r, s) ==
    \/ accepted[s] = None /\ (ProviderDedupes => \A t \in Sids : accepted[t] # r)
    \/ ProviderDedupes /\ accepted[s] = r

(* sms.send outside any transaction.  The answer may be lost after the     *)
(* provider accepted: an unmapped error, which is retryable.               *)
RelaySend(w) ==
    LET r == wk[w].row
    IN /\ wk[w].pc = "send"
       /\ \/ \E s \in Sids :
               /\ SidFor(r, s)
               /\ accepted' = [accepted EXCEPT ![s] = r]
               /\ \/ wk' = [wk EXCEPT ![w].pc = "accepted", ![w].sid = s]
                     /\ UNCHANGED <<interrupted, faults>>
                  \/ Fault /\ wk' = [wk EXCEPT ![w].pc = "transient"]
                     /\ interrupted' = interrupted \cup {r}
          \/ /\ \/ wk' = [wk EXCEPT ![w].pc = "refused"] /\ UNCHANGED faults
                \/ Fault /\ wk' = [wk EXCEPT ![w].pc = "transient"]
             /\ UNCHANGED <<accepted, interrupted>>
       /\ UNCHANGED <<dbLead, dbMsg, queueVars, statusTx, carrier,
                      reopened, voided, unseen, raced>>

(* Mutant: result.ok is not looked at. *)
SettleAsSent(w) ==
    LET r == wk[w].row
    IN /\ wk[w].pc \in {"accepted", "refused"}
       /\ msgStatus' = [msgStatus EXCEPT ![r] = "sent"]
       /\ msgSid' = [msgSid EXCEPT ![r] = wk[w].sid]
       /\ outbox' = [outbox EXCEPT ![r] = "dispatched"]
       /\ wk' = [wk EXCEPT ![w] = Committed(w)]
       /\ UNCHANGED <<dbLead, msgOf, queueVars, statusTx, provider, history>>

(* The second transaction, unconditional on what the row is by now. *)
RelaySettle(w) ==
    LET r == wk[w].row
    IN /\ \/ /\ wk[w].pc = "accepted"
             /\ msgStatus' = [msgStatus EXCEPT ![r] = "sent"]
             /\ msgSid' = [msgSid EXCEPT ![r] = wk[w].sid]
             /\ outbox' = [outbox EXCEPT ![r] = "dispatched"]
          \/ /\ wk[w].pc = "refused"
             /\ msgStatus' = [msgStatus EXCEPT ![r] = "failed"]
             /\ outbox' = [outbox EXCEPT ![r] = "failed"]
             /\ UNCHANGED msgSid
       /\ wk' = [wk EXCEPT ![w] = Committed(w)]
       /\ UNCHANGED <<dbLead, msgOf, queueVars, statusTx, provider, history>>

-----------------------------------------------------------------------------
(* processMessagingEvent, inbound.                                         *)

(* Look up the lead, ensure the conversation, record the message.          *)
InboundPc(i) == IF InKind[i] = "stop" THEN "select" ELSE "record"

InboundBegin(w, i) == Begin(w, Inbound(i), InLead[i], InboundPc(i))

(* The insert waited for was rolled back: this one takes its place.  (If   *)
(* it committed instead, this one is a unique violation.)                  *)
InsertConversation(w) ==
    LET l == wk[w].lead
    IN /\ wk[w].pc = "waits" /\ l \notin convo /\ ~InsertWaits(l)
       /\ wk' = [wk EXCEPT ![w].creates = TRUE,
                           ![w].pc = IF wk[w].job[1] = "first_touch" THEN FirstTouchPc(l)
                                     ELSE InboundPc(wk[w].job[2])]
       /\ UNCHANGED <<dbLead, dbMsg, queueVars, statusTx, provider, history>>

(* A first reply is recorded on the lead, under its row lock; then         *)
(* handleOptOut selects the lead's queued messages...                      *)
StopSelect(w) ==
    /\ wk[w].pc = "select"
    /\ wk[w].first => LeadFree(wk[w].lead, w)
    /\ wk' = [wk EXCEPT ![w].pc = "void", ![w].lock = wk[w].first,
                        ![w].queued = QueuedRows(wk[w].lead)]
    /\ UNCHANGED <<dbLead, dbMsg, queueVars, statusTx, provider, history>>

(* ... and commits: revoke, suppress, void those messages and the intents  *)
(* of theirs still pending, opt the lead out.                              *)
StopCommit(w) ==
    LET l == wk[w].lead
        pending == {r \in wk[w].queued : outbox[r] = "pending"}
    IN /\ wk[w].pc = "void"
       /\ CanTransition(wk[w].state, "opted_out")
       /\ LeadFree(l, w)
       /\ consent' = [consent EXCEPT ![l] = "revoked"]
       /\ suppressed' = suppressed \cup {l}
       /\ outbox' = [r \in Rows |-> IF r \in pending THEN "failed" ELSE outbox[r]]
       /\ msgStatus' = [r \in Rows |-> IF r \in wk[w].queued THEN "failed" ELSE msgStatus[r]]
       /\ leadState' = [leadState EXCEPT ![l] = "opted_out"]
       /\ convo' = ConvoAfter(w)
       /\ replied' = replied \cup {l}
       /\ wk' = [wk EXCEPT ![w] = Committed(w)]
       /\ voided' = voided \cup pending
       /\ unseen' = (unseen \cup Overlapping(l, w)) \ {w}
       /\ UNCHANGED <<msgOf, msgSid, queueVars, statusTx, provider,
                      interrupted, reopened, raced, faults>>

(* HELP is only recorded; a reply engages a lead that was new or contacted *)
(* when read.                                                              *)
Engages(w) == InKind[wk[w].job[2]] = "reply" /\ wk[w].state \in {"new", "contacted"}

RecordCommit(w) ==
    LET l == wk[w].lead
    IN /\ wk[w].pc = "record"
       /\ wk[w].first \/ Engages(w) => LeadFree(l, w)
       /\ IF Engages(w)
          THEN /\ CanTransition(wk[w].state, "engaged")
               /\ leadState' = [leadState EXCEPT ![l] = "engaged"]
          ELSE UNCHANGED leadState
       /\ convo' = ConvoAfter(w)
       /\ replied' = replied \cup {l}
       /\ wk' = [wk EXCEPT ![w] = Committed(w)]
       /\ unseen' = unseen \ {w}
       /\ UNCHANGED <<consent, suppressed, dbMsg, queueVars, statusTx, provider,
                      interrupted, reopened, voided, raced, faults>>

-----------------------------------------------------------------------------
(* processStatus. STATUS_RANK, and isStatusNewer's guard against           *)
(* out-of-order callbacks.                                                 *)
StatusRank(st) ==
    CASE st = "queued" -> 0 [] st = "sent" -> 1 [] st = "delivered" -> 3 [] OTHER -> 2

(* Mutant: only an unchanged status is ignored. *)
IsStatusOther(incoming, current) == incoming # current

IsStatusNewer(incoming, current) == StatusRank(incoming) > StatusRank(current)

(* A callback, possibly repeated or late, finds its message and passes the *)
(* guard; one whose sid no message carries yet is dropped.                 *)
StatusRead(s) ==
    /\ accepted[s] # None
    /\ \E st \in {"sent", carrier[s]} \ {None}, r \in Rows :
         /\ msgSid[r] = s
         /\ IsStatusNewer(st, msgStatus[r])
         /\ statusTx' = statusTx \cup {<<r, st>>}
    /\ UNCHANGED <<dbLead, dbMsg, queueVars, wk, provider, history>>

StatusWrite(r, st) ==
    /\ <<r, st>> \in statusTx
    /\ msgStatus' = [msgStatus EXCEPT ![r] = st]
    /\ statusTx' = statusTx \ {<<r, st>>}
    /\ UNCHANGED <<dbLead, msgOf, msgSid, outbox, queueVars, wk, provider, history>>

(* The carrier settles an accepted message, once.                          *)
CarrierSettles(s) ==
    /\ accepted[s] # None /\ carrier[s] = None
    /\ \E st \in Outcomes : carrier' = [carrier EXCEPT ![s] = st]
    /\ UNCHANGED <<dbLead, dbMsg, queueVars, wk, statusTx, accepted, history>>

-----------------------------------------------------------------------------
(* retryFailedMessage: re-opens the intent, if it failed, and enqueues     *)
(* nothing.                                                                *)
RetryFailedMessage(r) ==
    /\ msgStatus[r] = "failed"
    /\ outbox' = [outbox EXCEPT ![r] = IF @ = "failed" THEN "pending" ELSE @]
    /\ msgStatus' = [msgStatus EXCEPT ![r] = "queued"]
    /\ reopened' = reopened \cup {r}
    /\ UNCHANGED <<dbLead, msgOf, msgSid, queueVars, wk, statusTx, provider,
                   interrupted, voided, unseen, raced, faults>>

(* The other components move the lead, each checked against the table.     *)
LeadMoves(l, s) ==
    /\ leadState[l] # s
    /\ CanTransition(leadState[l], s)
    /\ LeadFree(l, None)
    /\ leadState' = [leadState EXCEPT ![l] = s]
    /\ UNCHANGED <<convo, replied, consent, suppressed, dbMsg, queueVars, wk, statusTx,
                   provider, history>>

(* Jobs arrive: ingest's first touch (a merged inquiry adds it again), a   *)
(* due follow-up step, an inbound webhook (Twilio may repeat it).          *)
Arrives(j) ==
    /\ jobState[j] = "absent"
    /\ Q!Add(j)
    /\ UNCHANGED <<dbLead, dbMsg, wk, statusTx, provider, history>>

IngestEnqueues(l)    == Arrives(FirstTouch(l))
FollowUpDue(l)       == l \in FollowUps /\ Arrives(FollowUp(l))
InboundWebhook(i)    == Arrives(Inbound(i))

-----------------------------------------------------------------------------
(* The end of an execution.                                                *)

Leave(w) == wk' = [wk EXCEPT ![w] = Idle] /\ unseen' = unseen \ {w}

(* A relay stopped at one of these points may have sent, or may yet settle *)
(* its row after another execution has.                                    *)
Unsettled(u) == wk[u].pc \in {"send", "accepted", "refused", "transient"}

Finish(w) ==
    /\ wk[w].pc = "done"
    /\ Q!Complete(w, wk[w].job)
    /\ Leave(w)
    /\ UNCHANGED <<dbLead, dbMsg, statusTx, provider, interrupted, reopened, voided, raced,
                   faults>>

(* What makes a handler throw by itself: a unique violation, an illegal    *)
(* transition, a missing row, a retryable send failure (whose update of    *)
(* the intent to failed is rolled back by the throw).                      *)
MustThrow(w) ==
    \/ /\ wk[w].pc = "compose" /\ wk[w].job[1] = "first_touch"
       /\ KeyTaken(wk[w].job) \/ ~CanTransition(wk[w].state, "contacted")
    \/ wk[w].pc = "waits" /\ wk[w].lead \in convo
    \/ wk[w].pc \in {"missing", "transient"}
    \/ wk[w].pc = "void" /\ ~CanTransition(wk[w].state, "opted_out")
    \/ wk[w].pc = "record" /\ Engages(w) /\ ~CanTransition(wk[w].state, "engaged")

(* ... or, at any point before the last commit, a database or queue error. *)
Throw(w) ==
    /\ \/ MustThrow(w) /\ UNCHANGED faults
       \/ ~MustThrow(w) /\ wk[w].pc \notin {"idle", "done"} /\ Fault
    /\ Q!Reject(w, wk[w].job)
    /\ Leave(w)
    /\ interrupted' = IF wk[w].pc = "accepted" THEN interrupted \cup {wk[w].row} ELSE interrupted
    /\ UNCHANGED <<dbLead, dbMsg, statusTx, provider, reopened, voided, raced>>

(* The worker process dies: the transaction is rolled back and the job     *)
(* stays active, under a lock nobody renews.                               *)
Crash(w) ==
    /\ Fault /\ wk[w].pc # "idle"
    /\ Leave(w)
    /\ interrupted' = IF wk[w].pc = "accepted" THEN interrupted \cup {wk[w].row} ELSE interrupted
    /\ UNCHANGED <<dbLead, dbMsg, queueVars, statusTx, provider, reopened, voided, raced>>

(* The stalled check gives a job up for another execution: its worker died *)
(* or, a fault, still runs but did not renew its lock in time.             *)
Orphaned(j) == jobState[j] = "active" /\ \A w \in Workers : wk[w].job # j

Stall(j) ==
    /\ IF Orphaned(j) THEN UNCHANGED faults ELSE Fault
    /\ Q!Stall(j)
    /\ interrupted' = interrupted \cup
         {r \in Rows : \E u \in Workers : j = Relay(r) /\ wk[u].job = j /\ Unsettled(u)}
    /\ UNCHANGED <<dbLead, dbMsg, wk, statusTx, provider, reopened, voided, unseen, raced>>

Evict(j) ==
    /\ j[1] \in Evicted
    /\ Q!Evict(j)
    /\ UNCHANGED <<dbLead, dbMsg, wk, statusTx, provider, history>>

-----------------------------------------------------------------------------
(* A worker takes a job... *)
Takes(w) ==
    \/ \E l \in Leads : FirstTouchBegin(w, l) \/ FollowUpBegin(w, l)
    \/ \E r \in Rows : RelayBegin(w, r)
    \/ \E i \in Inbounds : InboundBegin(w, i)

(* ... and carries its handler on, to the acknowledgement or a throw. *)
Proceeds(w) ==
    \/ \E l \in Leads : FirstTouchCompose(w, l) \/ FollowUpCompose(w, l)
    \/ InsertConversation(w)
    \/ ComposeCommit(w)
    \/ SkipCommit(w)
    \/ RelaySend(w)
    \/ RelaySettle(w)
    \/ StopSelect(w)
    \/ StopCommit(w)
    \/ RecordCommit(w)
    \/ Finish(w)
    \/ Throw(w)

Environment ==
    \/ \E l \in Leads : IngestEnqueues(l) \/ FollowUpDue(l)
    \/ \E i \in Inbounds : InboundWebhook(i)
    \/ \E l \in Leads, s \in Moves : LeadMoves(l, s)
    \/ \E s \in Sids : CarrierSettles(s) \/ StatusRead(s)
    \/ \E t \in statusTx : StatusWrite(t[1], t[2])
    \/ \E r \in Rows : RetryFailedMessage(r)
    \/ \E w \in Workers : Crash(w)
    \/ \E j \in Job : Stall(j) \/ Evict(j)

Next == Environment \/ \E w \in Workers : Takes(w) \/ Proceeds(w)

Spec == Init /\ [][Next]_vars

(* The workers run: a handler that can go on does, BullMQ hands out the    *)
(* jobs of a queue in order so that none waits for ever, and its stalled   *)
(* check eventually finds a job whose worker died.  Nothing is assumed of  *)
(* webhooks, operators, the carrier or faults.                             *)
Fairness ==
    /\ \A w \in Workers : WF_vars(Proceeds(w))
    /\ \A l \in Leads : SF_vars(\E w \in Workers : FirstTouchBegin(w, l))
    /\ \A l \in Leads : SF_vars(\E w \in Workers : FollowUpBegin(w, l))
    /\ \A r \in Rows : SF_vars(\E w \in Workers : RelayBegin(w, r))
    /\ \A i \in Inbounds : SF_vars(\E w \in Workers : InboundBegin(w, i))
    /\ \A j \in Job : WF_vars(Orphaned(j) /\ Stall(j))

FairSpec == Spec /\ Fairness

-----------------------------------------------------------------------------
(* Properties.                                                             *)

(* "No duplicate first-touch, ever" (and no repeated follow-up): however   *)
(* often a composing job is retried, stalled or added again, at most one   *)
(* message of a dedupe key is committed for a lead.                        *)
OneMessagePerKey ==
    \A r1, r2 \in Rows : msgOf[r1] # NoJob /\ msgOf[r1] = msgOf[r2] => r1 = r2

(* A message the database calls sent, delivered or undelivered, or whose   *)
(* intent it calls dispatched, was accepted by the provider for that row   *)
(* under the recorded sid: nothing a retry, a STOP, a crash or a late      *)
(* callback does makes the inbox claim a send that never happened.         *)
ClaimedSendsHappened ==
    \A r \in Rows :
        msgStatus[r] \in {"sent", "delivered", "undelivered"} \/ outbox[r] = "dispatched"
            => msgSid[r] # None /\ accepted[msgSid[r]] = r

(* A lead without recorded consent is never messaged, although a merged    *)
(* inquiry with consent in its payload enqueues a first touch for it; and  *)
(* an opted-out lead is always both revoked in the consent ledger and      *)
(* suppressed by phone.                                                    *)
ConsentLedgerRules ==
    /\ \A r \in Rows : msgOf[r] # NoJob => consent[msgOf[r][2]] # "unknown"
    /\ \A l \in Leads : leadState[l] = "opted_out" => consent[l] = "revoked" /\ l \in suppressed

(* Once a STOP is committed, a message is added for the lead, or the lead  *)
(* leaves opted_out, only by a transaction that was already running then:  *)
(* no job started later does either, on any retry or for any key.          *)
OnlyOverlapsFollowStop ==
    [][\A l \in suppressed :
          /\ \A r \in Rows : msgOf[r] = NoJob /\ msgOf'[r] # NoJob /\ msgOf'[r][2] = l
                => \E w \in unseen : wk[w].row = r
          /\ leadState[l] = "opted_out" /\ leadState'[l] # "opted_out"
                => \E w \in unseen : wk[w].lead = l /\ wk'[w].pc = "done"]_vars

(* STOP cancels what is scheduled: an intent of a suppressed lead is       *)
(* pending only if its transaction overlapped the STOP, or a person        *)
(* re-opened it.                                                           *)
StopLeavesNothingPending ==
    \A r \in Rows : msgOf[r] # NoJob /\ msgOf[r][2] \in suppressed /\ outbox[r] = "pending"
        => r \in raced \cup reopened

(* A row reaches the provider twice only when a relay of it was cut off    *)
(* between the send and its record, or overlapped another one: a job run   *)
(* again after its record, or added again, does not send.                  *)
DuplicateOnlyIfInterrupted ==
    \A s, t \in Sids : accepted[s] # None /\ accepted[s] = accepted[t] /\ s # t
        => accepted[s] \in interrupted

(* The out-of-order guard: a delivered message keeps that status, whatever *)
(* order callbacks come in, unless its relays overlapped, a STOP that      *)
(* selected it as queued commits late, or a person re-opened it.           *)
DeliveredIsKept ==
    [][\A r \in Rows : msgStatus[r] = "delivered" /\ msgStatus'[r] # "delivered"
          => \/ r \in interrupted \cup reopened
             \/ \E w \in Workers : wk[w].pc = "void" /\ r \in wk[w].queued]_vars

(* Every committed intent is settled: dispatched, failed, or its relay job *)
(* is kept among the failed jobs.  A person's retry is the exception.      *)
EveryIntentSettles ==
    \A r \in Rows :
        outbox[r] = "pending" /\ r \notin reopened
            ~> outbox[r] # "pending" \/ r \in reopened \/ jobState[Relay(r)] = "failed"

(* A STOP that reached the queue suppresses the lead, or is kept among the *)
(* failed jobs.                                                            *)
StopTakesEffect ==
    \A i \in Inbounds :
        InKind[i] = "stop" /\ jobState[Inbound(i)] = "waiting"
            ~> InLead[i] \in suppressed \/ jobState[Inbound(i)] = "failed"

-----------------------------------------------------------------------------
(* What the repository says and the code does not do.                      *)

(* messaging-events.ts: the intents a STOP selects are "voided: never      *)
(* dispatched".  No relay that reads one afterwards goes on to send it.    *)
VoidedNeverDispatched ==
    [][\A w \in Workers :
          wk[w].pc # "send" /\ wk'[w].pc = "send" => wk'[w].row \notin voided \ reopened]_vars

(* A STOP that arrives suppresses the lead.                                *)
StopAlwaysSuppresses ==
    \A i \in Inbounds :
        InKind[i] = "stop" /\ jobState[Inbound(i)] = "waiting" ~> InLead[i] \in suppressed

(* takeover.ts: a re-opened intent is there for the relay to pick up.      *)
ReopenedHasRelay ==
    \A r \in reopened : outbox[r] = "pending" => jobState[Relay(r)] \in {"waiting", "active"}

=============================================================================
