# A verification development for the speed-to-lead platform

This directory holds TLA+ models of the repository's worker processes and of the
queue and database they share, the TLC configurations that check them on small
instances, and proofs, checked by TLAPS, that hold for every instance.  All paths
below are relative to the repository's root (`src/` in `PROJECT.json`).

## 1. The system

Leads come in through signed webhooks.  The API (`apps/api`) stores almost nothing
itself: it checks a signature, writes an idempotency row and enqueues a BullMQ job.
The worker (`apps/worker/src/main.ts`) runs one processor per queue.  A processor
opens one or more Postgres transactions (`withTenant`, READ COMMITTED), calls
providers outside of them (mostly), and enqueues further jobs under deterministic
ids, sometimes before its transaction commits.

| Component | State it keeps | Operations | Interacts with |
|---|---|---|---|
| Lead state machine, `packages/core/src/state-machine.ts` | `leads.state` | `canTransition`, `assertTransition` | every processor that moves a lead |
| Job queues, `packages/queue/src/index.ts` | jobs in Redis: waiting, active, completed, failed; attempts; locks | `enqueue`, `createWorker` | all processors, the API |
| Ingest, `apps/api/src/routes/ingest.ts`, `processors/ingest.ts` | `raw_webhooks`, `ingest_idempotency`, `leads`, `consent_records`, `lead_scores` | webhook, `processIngest` (deduplicate, create or merge, score) | enqueues first touch |
| First touch, `processors/first-touch.ts` | `conversations`, `messages`, `outbox`, lead state | `processFirstTouch` | policy gate; enqueues the relay |
| Follow-up compose, `apps/worker/src/messaging.ts` | `messages`, `outbox` | `composeAndEnqueue` | called in a workflow step's transaction |
| Outbox relay, `processors/relay.ts` | `messages.status`, `provider_sid`, `outbox.status` | `processMessagingOut` | the SMS provider |
| Inbound messages and status, `processors/messaging-events.ts`, `apps/api/src/routes/twilio.ts` | consent ledger, suppression, lead state, message status | `processInbound`, `handleOptOut`, `processStatus` | Twilio; enqueues the conversation engine |
| Policy gate and opt-out detection, `packages/core` | none | `evaluatePolicy`, `detectOptOut` | every compose |
| Takeover, resume, retry, `processors/takeover.ts` | lead state, `workflow_runs`, message and outbox status | `takeoverLead`, `resumeLead`, `retryFailedMessage` | API routes in `lead-actions.ts` |
| Conversation engine, `processors/conversation.ts` | `qualification_answers`, `conversations.ai_paused`, lead state | `processConversation` around two LLM calls | enqueues replies, assignment, CRM sync |
| Workflow engine, `processors/workflow.ts` | `workflow_runs`, `workflow_steps`, `tasks` | `startRun`, `advanceRun` | re-enqueues itself with a delay |
| Booking, `processors/booking.ts` | `slot_holds`, `appointments`, lead state | `processBooking`, `releaseExpiredHolds` | the calendar; enqueues CRM sync |
| Routing and escalation, `processors/assignment.ts`, `escalation.ts` | `lead_assignments`, `routing_state` | `processAssignment`, `processEscalation`, `acknowledgeLead` | delayed jobs |
| CRM sync, `processors/crm-sync.ts`, `crm-inbound.ts` | `crm_mappings`, `crm_sync_jobs`, `outcomes` | outbound mirror, inbound outcome | HubSpot |
| Scoring, slots, routing, analytics, templating (`packages/core`) | none | pure functions | |
| Auth, read API, web, configuration, logging, seeds | sessions | queries | |

### What is hard here

* **Interleaving.** Two executions of one job (a stalled job is given to a second
  worker while the first still runs), a STOP against a compose or a relay, two
  bookings of one slot.  READ COMMITTED transactions read at their start and write
  at their end, so a check (`stopStates`, consent, the lead's state) may be stale
  when it is acted on.
* **Crashes between steps.** Provider call and record, hold and event, commit and
  enqueue.  There is no outbox scanner, no sweep, no scheduler in `src/`.
* **At-least-once delivery** of jobs and webhooks, delivery callbacks out of order,
  answers lost after the provider acted.
* **Liveness.** Everything must end visibly: done, failed, or kept in the
  dead-letter set.

What makes each component correct:

* *messaging:* no second message of a dedupe key; no message without consent; after
  a STOP nothing but a transaction it overlapped adds a message, and nothing else
  stays pending; the database never claims a send that did not happen; a send is
  repeated only if a relay was cut off between the call and its record; every
  committed intent settles; every STOP takes effect or is dead-lettered;
* *booking:* a slot has one appointment; only the holder of the slot creates an
  event; of the bookings of a slot one wins; no hold is kept for ever;
* *ingest:* one open lead per phone, one lead per person and per inquiry; every
  accepted inquiry is served; a first touch only with consent in some inquiry;
* *conversation, workflow, takeover:* one run per lead and workflow, each step once
  and in order, and every run ends; no automated message begun after a takeover or a
  STOP; a lead keeps its owner, its answers and its remembered state against
  transactions that read before; no reply and no hand-over is forgotten;
* *routing:* one primary rep, within the rep's cap; a hot lead is escalated until it
  is acknowledged or moves on, and not after;
* *CRM:* one deal per lead; a pending synchronisation settles.

## 2. Modules

| Module | What it is |
|---|---|
| `LeadLifecycle` | transition table, `CanTransition`, stop states (constant level) |
| `JobQueue` | one BullMQ queue's operations, to be conjoined to processor steps |
| `JobQueueProofs` | what the queue keeps in order, proved once for its users |
| `Messaging` | first touch, follow-up compose, relay, inbound, STOP, status, retry |
| `MCMessaging` | its TLC instances |
| `MessagingProofs` | type correctness |
| `MessagingSafetyProofs` | dedupe keys, consent ledger, claimed sends, what follows a STOP |
| `MessagingRelayProofs` | duplicate sends, delivered statuses, what a STOP leaves pending |
| `SlotReservation` | abstract: appointments are made one at a time, one per slot |
| `Booking` | `processBooking` and `releaseExpiredHolds` |
| `MCBooking` | its TLC instances |
| `BookingProofs` | `Booking` implements `SlotReservation`; types and calendar events |
| `Scoring` | the score, its category caps and bands, and the facts ingest derives (constant level) |
| `Ingest`, `MCIngest` | the signed gateway and `processIngest` |
| `IngestProofs` | types, duplicates, retries, evidence of consent |
| `EngagementState` | the rows of one lead that conversation, workflow and desk share |
| `Conversation` | `processConversation` |
| `Workflow` | `startRun` and `advanceRun` |
| `Engagement`, `MCEngagement` | their composition with replies, STOP, takeover and resume |
| `EngagementProofs` | types, and every safety and action property of the composition |
| `Routing` | `routeLead` (constant level) |
| `HandoffState` | the rows of qualified leads |
| `Assignment` | `processAssignment`, the ladder, `processEscalation`, `acknowledgeLead` |
| `CrmSync` | `processCrmSync`, `processCrmInbound` |
| `Handoff`, `MCHandoff` | their composition on the shared workers |
| `HandoffProofs` | types, and every safety and action property of the composition |

`LeadLifecycle` is extended by every model, and `JobQueue` is instantiated by each
with its own jobs.  The four models meet at job ids and rows: `Ingest` creates the
lead and the first-touch job that `Messaging` serves; `Messaging` records the reply
whose conversation job `Engagement` serves (there, `FirstTouch`, `InboundOpens`,
`InboundCommits` and `InboundStop` stand for it); `Engagement` adds the routing and
CRM jobs that `Handoff` serves; `Booking` moves a lead (`LeadMoves`) and asks for
another CRM job (`Requested`).

### How a handler becomes actions

A **worker** `w` is one concurrent execution; `wk[w]` is what that execution has
read so far and its control point `pc`.  A transaction is two steps, a *Begin* step
that takes the job and reads and a *Commit* step that writes; anything may commit in
between, which is what READ COMMITTED allows.  A third step in the middle is there
where something becomes visible or is locked before the commit (the relay job is
enqueued, the lead's row lock is taken, the STOP selects the queued messages).
Provider calls are steps of their own between two transactions.  After its last
transaction an execution is at `done`, and `Finish` acknowledges the job: a crash in
between makes the queue run a committed job again.

Correspondence, `Messaging`:

| Action | Code |
|---|---|
| `FirstTouchBegin`, `FirstTouchCompose`, `ComposeCommit`, `SkipCommit` | `processFirstTouch` with `ensureConversation` |
| `FollowUpBegin`, `FollowUpCompose`, `ComposeCommit` | `advanceRun`'s stop check, `composeAndEnqueue` |
| `InsertConversation` | the second of two inserts of one conversation |
| `RelayBegin`, `RelaySend`, `RelaySettle` | `processMessagingOut`, transaction / `sms.send` / transaction |
| `InboundBegin`, `StopSelect`, `StopCommit`, `RecordCommit` | `processInbound`, `handleOptOut` |
| `StatusRead`, `StatusWrite` | `processStatus` |
| `RetryFailedMessage` | `retryFailedMessage` |
| `Finish`, `Throw`, `Crash`, `Stall`, `Evict` | the end of an execution, and BullMQ's view of it |
| `LeadMoves` | the other processors, each through `assertTransition` |
| `IngestEnqueues`, `FollowUpDue`, `InboundWebhook`, `CarrierSettles` | the environment |

A throw is never a choice of the model alone: `MustThrow` lists the conditions under
which the code throws, and any other throw is a fault and uses up the budget.

Correspondence, `Booking`: `BookingBegin` (connection lookup), `AcquireHold` (step 1,
with the unique partial index), `CreateEvent` (step 2), `ReleaseHold` (its catch),
`ConfirmHold` and `BookCommit` (step 3), `Throw` (its roll-back and the rethrow),
`ReleaseExpiredHolds` (the sweep).  The job and the sweep have no producer in `src/`:
`Requested` and `Sweeps` make them inputs.

Correspondence, `Ingest`: `Receive` is the gateway's transaction (payload and
idempotency row), `Acknowledge` its job and answer, `CutOff` a death between the two;
`IngestBegin` reads and decides (`ResolveDuplicate` over `Candidates`), `CreateLead` and
`AttachToLead` are the commit for a new and a known lead, with `PhoneTaken` for the
index `leads_open_phone`, and `EnqueueFirstTouch` is what follows the commit.

Correspondence, `Engagement`:

| Action | Code |
|---|---|
| `ConversationBegin` | the reads of `processConversation`, and its return without a conversation or with the AI paused |
| `Fallback`, `LeaveToOptOut`, `PauseForHuman`, `Answer` | what the two model calls may come to, up to the last write |
| `EnqueueAssign`, `EnqueueCrm`, `ConversationCommit`, `Throw` | the two jobs, the commit, and `transition`'s exception |
| `StartBegin`, `StartCommit`, `ScheduleFirst` | `startRun` |
| `AdvanceBegin`, `StopRun`, `CompleteRun`, `ExecuteAction`, `ScheduleNext`, `AdvanceCommit` | `advanceRun` |
| `TakeoverBegin`/`Commit`, `ResumeBegin`/`Commit`, `DeskThrows` | `takeoverLead`, `resumeLead` |
| `InboundOpens`, `InboundCommits`, `InboundAborts`, `InboundStop` | `processInbound` as the lead's other rows see it |

Correspondence, `Handoff`: `AssignBegin` and `AssignCommit` are the transaction of
`processAssignment`, `EnqueueEscalation` the jobs after it, one by one; `EscalateBegin`
and `EscalateCommit` are `processEscalation`; `SyncBegin` is the first transaction of
`processCrmSync`, `UpsertContact`, `UpsertDeal` and `Annotate` the CRM calls, `MapCommit`
the second transaction, `CallFails`, `MarkFailed` and `Throw` the exception, its catch
and its rethrow; `CrmInboundBegin` and `CrmInboundCommit` are the transaction of
`processCrmInbound`.  `Requested` hands a job over again (`conversation.ts:191`,
`booking.ts:147`), which has an effect only once `Forgotten` has dropped the completed job
(`removeOnComplete`).

### Abstractions

* One worker is one concurrent execution, not a process; concurrency settings are
  the size of `Workers`.
* Message bodies, templates and names are left out.  A follow-up's body hash is
  taken as stable, so its dedupe key is its step.
* Back-off and delays only postpone a job, so a waiting job may be taken at any time.
* A workflow's run and step counter are not in `Messaging`: a job that runs again
  after its commit finds its key taken.  What the code does, which is to execute the
  *next* step early (`workflow.ts:131`), is in `Workflow`.
* An inquiry's payload is the record of what `mapRawToNormalized` makes of it; a
  payload with the phone and the email of two people is among the forms.
* `externalIds` and `isExistingCustomer` are set by no code under `src/`, so dedup by
  external id and `attach_to_customer` never happen (`dedup.ts:53`, `78`), as routing's
  `ownsContact` never does (`assignment.ts:163`).
* The model's answer is any of `Turns`, the sets of required fields it may extract;
  the gate may refuse any answer, and must refuse one of a suppressed lead.
* A step of a workflow is `send`, `stop` or `task`, and a `task` is any step that
  queues no SMS: tasks, notifications, and email steps, which the gate always blocks
  because only SMS consent is ever recorded (`ingest.ts:146`).
* A delay is longer than any transaction: a step's job is not taken while the
  transaction that added it is open (`Due`).
* Of takeover and resume requests one transaction is open at a time.
* Messages of `Engagement` are the dedupe keys queued; what becomes of a queued
  message is `Messaging`'s part.
* Routing knows a lead by the territory keys it has and by its service; among reps of
  one workload the database may return any first.
* Of the CRM only deals are kept.  HubSpot's adapter ignores a contact's
  `externalId` and searches by email (`hubspot.ts:51`), so a lead without email gets a
  new contact at every sync: a step without effect in the model.  Deal stages,
  amounts, notes and meetings are left out, as is how often an outcome is recorded.
* Quiet hours set `scheduledFor`, a field nothing reads; they do not appear.
* Email, row-level security and signatures are not modelled.
* A released hold nobody remembers may be reused as the id of a new one; uuids are
  taken with `CHOOSE`, which one it is tells no property apart.
* History variables (`interrupted`, `reopened`, `voided`, `unseen`, `raced`, `lost`,
  `stranded`, `origin`, `flagged`, `overlapped`, `before`, `unpaused`, `fate`,
  `doubled`, `cut`, `overtaken`, `forced`, `forgotten`, `answered`, `late`, `faults`) are
  never read by the program's part of an action; neither is the field `found` of an
  engagement's execution, which says what it could read of its reply and becomes the
  reply's `fate` when that execution completes the job.

## 3. Runs

`tlc -workers 2 -config <run>.cfg <MC module>`; each passing run takes one to two
minutes and explores its state space completely.

| Run | Instance | Question | Result |
|---|---|---|---|
| `MessagingSafety` | 1 lead, 2 messages, 1 STOP, 2 provider ids, 2 workers, 1 fault, every carrier outcome, old first-touch and inbound jobs dropped | does any interleaving with one crash, stall, lost answer or I/O error break the safety properties? | pass, 0.9 million states |
| `MessagingFlow` | first touch, follow-up, a reply and a STOP of one lead, takeover, no fault | do the rules of a STOP survive four processors at once? | pass, 2.1 million states |
| `MessagingLiveness` | 1 first touch, 1 STOP, 1 fault, fair workers | does every intent settle and every STOP take effect? | pass |
| `BookingSafety` | 2 bookings of different leads, 1 slot, 2 workers, 3 holds, 2 events, sweep, opt-outs, 1 fault, fair workers | is booking an exclusive reservation, and does someone win? | pass, 0.4 million states |
| `Ingest` | 3 inquiries (a phone; an email, consenting but unqualified; both, consenting), 4 leads, opt-outs, 2 workers, 1 fault, 2 attempts, fair workers | who may have two leads, who gets a first touch, is every accepted inquiry served? | pass, 0.2 million states |
| `Conversation` | 2 replies, 1 required field, 3 events (replies, STOP, takeovers, resumes), 2 workers, 1 fault, 1 attempt | what may a conversation, a desk or a STOP overwrite, and what is never lost? | pass, 1.6 million states |
| `FollowUps` | 1 trigger, 2 runs, steps send and stop, 2 events, 2 workers, 1 fault, 2 attempts, fair workers | each step once and in order, one running run, does every run end? | pass, 0.06 million states |
| `Handoff` | 3 leads (one hot), 2 reps with cap 1, a ladder of 2 delayed steps, 2 deals, 2 outcomes at once, 2 workers, 1 fault or dropped job, 2 attempts, fair workers | second assignments, second deals, overfull reps, escalation and its end, does a sync settle? | pass, 0.04 million states |
| `MessagingVoided` | | "voided: never dispatched" | violated |
| `MessagingStopLost` | | "STOP immediately suppresses" | violated |
| `MessagingRetry` | | "for the relay to pick up again" | violated |
| `BookingHolds` | | "any failure rolls the hold back" | violated |

**Why the bounds suffice.**  No handler touches two leads, so one lead with its
message keys is the unit of interaction; leads share only the workers.  Two workers
allow every pairwise overlap; both kinds of key plus one repetition need two
messages; two provider ids are the least that shows a duplicate send.  `MaxAttempts`
is 2 for the code's 5: the first attempt, a retry, and the dead-letter set are all
reached.  One fault is enough for each single failure at each point (a crash, a
stall under a living worker, an I/O error, a lost answer), and crashes of crashed
jobs add nothing the theorems do not cover: those hold for any budget.
For ingestion three inquiries are the least in which one matches the leads of two
others (the form with both contact details may find no lead, one, or two); a fourth lead
leaves room for a duplicate.  For an engagement the lead is the unit again: two replies
and two workers give every pair of overlapping conversations, the three events let a
takeover, a resume and a STOP or another reply interleave with them, and the one
required field separates complete from incomplete answers.  That run has one attempt
per job to stay small: a job runs again there after a crash or a stall (`MaxStalls`),
which for the properties is the same as a retry.  A workflow of two steps has a first,
a next and a last one; two runs let a second trigger start one.  With three steps
(send, task, stop; 0.14 million states), with three events (0.29 million), and for
`Ingest` with a form that may have neither phone nor email (0.34 million) the same
properties hold: these instances were checked once and are too slow to keep.  For `Handoff` each initial state holds the jobs
that may interfere: a hot lead's assignment; two assignments that compete for reps of
cap 1; a synchronisation with or without a CRM connection; a ladder of two delayed
steps, for the code's four, has a first and a last; two deals are a duplicate and the one
mapped; two outcomes at once overlap.  Its one fault is a crash, a stall, an error, or the
drop of one completed job, which stands for the thousand others that push it out.
For bookings a slot is the unit; three holds are two executions' and the
one in force; two events show every duplicate, and a call beyond them is a refused one.

`CHECK_DEADLOCK FALSE` is in every configuration because the system really stops:
with all jobs done and no webhook due there is nothing to do.

**Symmetry** is used only in runs without temporal leads-to properties.

### Fairness

`FairSpec` assumes that a running handler that can go on does (weak fairness of
`Proceeds(w)`), that BullMQ, which serves a queue in order, gives every waiting job
to a worker in the end (strong fairness of taking each job, since another job may
occupy the workers again and again), and that its stalled-job check runs (weak
fairness of `Stall` of a job whose worker is gone).  Nothing is assumed of webhooks,
carriers, operators, the sweep or faults.  Fewer assumptions than these make the
liveness properties false for reasons outside the code.

### What the properties say

`OneMessagePerKey`, `ClaimedSendsHappened`, `ConsentLedgerRules`,
`OnlyOverlapsFollowStop`, `StopLeavesNothingPending`, `DuplicateOnlyIfInterrupted`,
`DeliveredIsKept`, `EveryIntentSettles` and `StopTakesEffect` are stated, with the
behaviour they are about, at the end of `Messaging.tla`; `ReservesSlots`,
`OnlyWinnerCreates`, `SomeoneWins` at the end of `Booking.tla`; those of the other
models at the end of `Ingest.tla`, `Engagement.tla` and `Handoff.tla`.  Several name their
exceptions.  These are not loopholes but what the code really allows, found while
the property was checked without them:

* a transaction that overlaps a STOP may still commit a message, and a first touch
  that read the lead before the STOP writes `contacted` over `opted_out`
  (`first-touch.ts:140`); the suppression entry still blocks later composes;
* a send is repeated if its relay is cut off before the record, because Twilio's
  adapter ignores the dedupe key (`MessagingLiveness` runs with one that honours it);
* a delivered message loses its status to a STOP that selected it as queued;
* an execution cut off while it holds a slot blocks it: its own retry meets its own
  hold, returns `slot_taken` and completes;
* two inquiries that share only an email may become two leads, as two executions of one
  inquiry may: only the phone has an index, and it covers open leads only
  (`schema.ts:172`).  An inquiry with neither matches no lead at all
  (`ingest.ts:221`), so a retry after its commit creates another one: this exception of
  `OneLeadPerInquiry` was found by its proof.  A gateway that dies between its commit and the job leaves an
  inquiry that no replay will ever process (`ingest.ts:86` of the API);
* a takeover of a lead without a conversation pauses nothing (`takeover.ts:26`): the
  conversation that comes later is active, and the AI answers in it and may move the
  lead on.  A hand-off by the AI remembers no state to resume to
  (`conversation.ts:375`), and a resume then goes where an earlier takeover remembered,
  or to `engaged`;
* a reply or a conversation that read the lead before a takeover or a STOP writes its
  state over it, and two conversations that overlap write the answers each read
  (`conversation.ts:169`, `122`);
* after a STOP a conversation may still queue its fallback text, which passes no gate
  (`conversation.ts:341`); its recipient is `null`;
* a reply's job is added before the reply is recorded (the comment at
  `messaging-events.ts:107` says after the commit), so it may run too early: for the
  first reply it then finds no conversation, for a later one the messages before it, and
  in both cases the job completes and none is added in its place (`early` in
  `NoReplyForgotten`); only the execution of another reply may still read it.  With the
  AI paused a reply is left to the person (`paused`).  The property allows these two to
  the execution that completed the job, not to one whose job was taken away or retried;
* two overlapping triggers start two runs (`workflow.ts:50`), and two overlapping
  executions of a run's steps may execute one step twice;
* a job of an assignment that is run again after its commit inserts the assignment
  again (`assignment.ts:51`): because it was cut off, or because its id was forgotten
  after a thousand other assignments (`queue/src/index.ts:120`) and another complete
  answer (`conversation.ts:191`) added it again.  So `OnePrimary` allows a second row to an
  assignment that was cut off, and one more row per forgetting to any other; overlapping assignments overfill a rep, and so does a lead
  nobody is eligible for, which goes to the least loaded of the pool;
* an execution that stands between the check and the commit of a step of the ladder as
  the lead is acknowledged or moves on still escalates it (`late` in `EscalationHalts`);
* a CRM call whose answer is lost, or a crash before the mapping is written, leaves a
  deal that the retry does not know (`crm-sync.ts:77`), although the mapping "means
  retries never duplicate"; a tenant without a connection keeps its synchronisation
  `pending` (`crm-sync.ts:61`).

Some facts the models rest on, or that follow from them without a run:

* nothing but ingestion scores a lead, and the facts it derives reach at most the
  band `nurture` (`ingest.ts:243`), so `hot` is never assigned outside of tests and the
  ladder of `Handoff` (`Hot`) is dormant in the deployed composition;
* nothing under `src/` enqueues the start of a workflow or a booking: triggers and
  bookings are inputs;
* `routeLead` with the strategies the worker passes never takes the round robin's turn:
  the cursor stays where it is (`routing.ts:118`);
* the CRM job's id is retained after the first synchronisation, so the one a booking asks
  for (`booking.ts:147`) is dropped and its meeting, which `docs/PLAN.md:298` expects,
  does not reach the CRM until 1000 other jobs have completed;
* a repeated HubSpot webhook inserts its outcome again (`crm-inbound.ts:55`), although
  `hubspot.ts:9` calls events idempotent by deal and stage.

### Findings

Each violation run checks one statement of the repository.

1. `relay.ts:35` returns early only for `dispatched`; an intent a STOP voided
   (`failed`, "voided: never dispatched", `messaging-events.ts:173`) is sent.
2. `handleOptOut` transitions the lead last, in the same transaction; for a lead that
   is won or lost this throws and rolls the revocation and suppression back.
3. `retryFailedMessage` re-opens an intent "for the relay to pick up again"
   (`takeover.ts:131`), but enqueues no relay job and nothing scans the outbox.
4. A booking whose step 3 throws keeps its hold; nothing under `src/` calls
   `releaseExpiredHolds`, although `docs/integrations.md:105` relies on it.

## 4. Theorems

Every safety invariant and every action property that a passing run checks is also a
theorem (the last two of the table have no run), for arbitrary sets, functions and
bounds.  The assumptions are the ones the modules declare, and TLC evaluates them in
every run:

* `MessagingAssumption`, `BookingAssumption`, `IngestAssumption`, `EngagementAssumption`,
  `NoneAssumption`, `HandoffAssumption`: `None`, SQL's null, is no row, job, key or
  status; inputs have their types; the jobs of different queues have different ids;
  `MaxAttempts` is positive and the other bounds are natural numbers; other components
  move a lead only to the states they do (`Moves`).  `Handoff` counts leads, so their
  set is finite there.
* `AnonymousScore`: without a phone and an email an inquiry is unqualified.  What
  the recursive function of `Scoring` computes is arithmetic on four concrete cases that
  TLC evaluates and the provers cannot unfold.

| Theorem | States |
|---|---|
| `MessagingProofs!TypeCorrect` | `[]TypeOK` |
| `MessagingSafetyProofs!NoSecondMessage` | `[]OneMessagePerKey` |
| `MessagingSafetyProofs!LedgerHolds` | `[]ConsentLedgerRules` |
| `MessagingSafetyProofs!ClaimsAreTrue` | `[]ClaimedSendsHappened` |
| `MessagingSafetyProofs!StopIsFinal` | `OnlyOverlapsFollowStop` |
| `MessagingRelayProofs!NoSilentDuplicate` | `[]DuplicateOnlyIfInterrupted` |
| `MessagingRelayProofs!DeliveryIsFinal` | `DeliveredIsKept` |
| `MessagingRelayProofs!StopCancels` | `[]StopLeavesNothingPending` |
| `BookingProofs!Invariance` | `[]Inv`, behind the next |
| `BookingProofs!BookingReservesSlots` | `ReservesSlots`, the refinement |
| `BookingProofs!TypeCorrect` | `[]TypeOK` |
| `BookingProofs!WinnerCreates` | `[]OnlyWinnerCreates` |
| `IngestProofs!TypeCorrect` | `[]TypeOK` |
| `IngestProofs!DuplicatesAreRaces` | `[]NoDuplicateLeads` |
| `IngestProofs!RetriesFindTheirLead` | `[]OneLeadPerInquiry` |
| `IngestProofs!ConsentIsEvident` | `[]FirstTouchHasEvidence` |
| `EngagementProofs!TypeCorrect` | `[]TypeOK` |
| `EngagementProofs!StepsAreExecutedOnce` | `[]StepsOnceInOrder` |
| `EngagementProofs!OneRunIsActive` | `[]OneRunningRun` |
| `EngagementProofs!QualifiedGoesToPeople` | `[]QualifiedIsHandedOff` |
| `EngagementProofs!TakeoverRemembers` | `[]PreviousIsRemembered` |
| `EngagementProofs!RepliesAreServed` | `[]NoReplyForgotten` |
| `EngagementProofs!TakeoverAndStopSilence` | `AutomationStops` |
| `EngagementProofs!PeopleKeepTheirLeads` | `TakeoverHolds` |
| `EngagementProofs!AnswersAreKept` | `AnswersKept` |
| `HandoffProofs!TypeCorrect` | `[]TypeOK` |
| `HandoffProofs!LadderHalts` | `EscalationHalts` |
| `HandoffProofs!NoSecondPrimary` | `[]OnePrimary` |
| `HandoffProofs!CapsHold` | `[]CapRespected` |
| `HandoffProofs!RetriesDontDuplicate` | `[]OneDeal` |
| `HandoffProofs!NobodyIsTrapped` | what `RouteLead` returns for any team |
| `HandoffProofs!EverybodyHasARep` | with a team, a lead handed over has a rep of its territory if there is one |

Each but `NobodyIsTrapped` is `Spec => ...`, without fairness.  In every module `TypeOK`
is not inductive and the proof starts from a `TypeInv` that adds two things: the queue is
in order (`QueueInv` of `JobQueueProofs`, in `MessagingProofs` a version of its own: a job
is under a lock exactly while it is active, and has an attempt left while it may run;
each operation of `JobQueue` keeps it), and at each control point
an execution's record holds what the code has at that place (`ExecutionInv`).  A proof
that a step keeps an invariant has one step or lemma per action.  Each strengthening was
checked by TLC as an invariant before it was proved.

**Messaging: rows and consent.**  On top of `TypeInv`: `KeyInv` (a row is fresh until its
transaction commits, and an execution about to
commit a key is the only one and finds the key free), `LedgerInv` (consent read by a
composing execution is recorded; opted-out is written only together with revocation
and suppression, and consent never goes back), `SendInv` (a claimed send has its
provider id, and an execution past a send holds the id of that send), `OverlapInv`
(an execution that may still message a suppressed lead, or engage an opted-out one,
is in `unseen`: one that is not saw the suppression) and `ConvoInv` (an opted-out
lead has its conversation, so no reply still waits to insert it and then engages the
lead with a state read before the STOP).

**Messaging: relay.**  `RowInv`: a row without a message is blank, and whoever relays a
row does so under its own job.  `RelayInv`: a relay that does not hold the job's lock was
stalled, and one of a dispatched intent is left over from an interruption; a send the
provider accepted is dispatched, interrupted, or still in the hands of the execution that
made it.  So a row with a dispatched intent that was never interrupted has no relay that
could send or settle it again.  `CallbackInv`: the callbacks of such a row, in whatever
order, tell what the carrier settled once.  `PendingInv`: a pending intent was never
sent and is queued, so a STOP's selection contains it unless its transaction overlaps.
The steps beside the relay are handled at once by two frame predicates, `Stays` and
`Aside`.

**Booking.**  That a slot has no appointment yet when one is made does not follow
from the index: the hold may have been swept and the row taken by another booking
while the calendar was called.  `Inv` says that at most one hold of a slot is active,
that every appointment's slot has a hold that stays confirmed, that each execution
has a hold of its own which is not confirmed, and that at `book` it is the slot's
only active one.  Hence at the commit the slot has no confirmed hold, hence no
appointment, and the commit is the abstract `Reserve`; every other step is a
stutter, because a new calendar event is never one an appointment has.  `EventInv`
accounts for the events: one that no ended execution lost is an appointment's, or at an
execution in step 3, which by `Inv` is the slot's only one there.

**Ingest.**  No step but `CreateLead` makes a row, and none takes a row, a phone or an
email away (`Grows`), so what an execution has read of a lead stays true.  `PhoneInv` is
`leads_open_phone`: it needs that a closed lead stays closed.  `RacedInv` says a lead that
shares a detail was created by an execution that had not seen the other.
`OriginInv` and `InquiryInv`: a lead has the details of the inquiry it came from, and an
execution that is about to create one, of an inquiry whose executions never
overlapped, has none yet, because the attempt before it would have left a candidate.  The
last step fails for an anonymous inquiry, which is its exception.  `EvidenceInv`: the
first touch is queued by an execution whose inquiry has the consent and, by
`AnonymousScore`, a phone or an email.

**Engagement.**  `TypeInv` carries most of the weight: what kind of message each control
point may queue, that merged answers contain those read, that the answer to a lead
handed to a person has no text.  `StepsInv` says that of a run that was never doubled
one execution is under way, at the step of the counter; `StartInv` that a start at its
insertion is alone and has found no running run; `HandoffInv` that the two jobs are added
in order before the commit.  `PauseInv` relates the rows and what executions have read of
them: who read `opted_out` knows a suppression, who read `human_owned` in a
conversation that went on knows a takeover that paused nothing, and the desk never
remembers an opt-out or its own takeover.  `ReplyInv`: a recorded reply has its job;
every execution of that job knows what it found of the reply, keeps that to its end, and
only the one that holds the lock completes the job, leaving what it found.  Frame lemmas say once what each kind of step leaves alone.

**Handoff.**  `LockInv`: the execution of a job that was never cut off holds its lock.
`AssignInv`, on top of it, counts: the primary rows are at most one per time the job's id
was forgotten, and one more once the present job has committed.  `CapInv`: unless two
assignments overlapped, the load read is the load committed to (lemmas about
`Cardinality` and about what `RouteLead` returns).  `DealInv`: the only execution of a
lead's synchronisation works on the mapped deal if there is one; every other deal is
about to be mapped, or lost by an execution that was cut off.  `HaltInv`: a lead
that was answered is acknowledged or out of the waiting states for good (no step sets
`acked` back, and no transition of this module leads back), so no execution that reads it
afterwards reaches the commit of an escalation, and one that is there was there before
and is in `late`.
`NobodyIsTrapped` is about routing alone: the least loaded exist because loads are
natural numbers (`NatLessThanWellFounded`), and three of them are picked one by one.
`RepInv` carries it through the read and the commit, to the rows.

**Only model-checked.**  The liveness properties (`EveryIntentSettles`,
`StopTakesEffect`, `SomeoneWins`, `AcceptedIsServed`, `RunEnds`, `HotLeadEscalated`,
`SyncSettles`): fairness is about `ENABLED`, and their arguments count attempts down.
What `Scoring` computes for all facts needs induction over its rules, and stays an
evaluation.  The findings are counterexamples, which TLC exhibits.

## 5. Plan

Modelled, checked and proved: everything of the table in section 2, in the order
messaging, booking, ingestion, engagement, hand-off.  What is left to prove, most
important first:

1. facts about the operators the models are built from, stated for themselves as
   `NobodyIsTrapped` is: what `ResolveDuplicate` decides for a candidate;
2. `Messaging`'s own `QueueInv` replaced by the instance of `JobQueueProofs` the other
   modules use;
3. step invariants that would carry the liveness arguments, as far as they need no
   `ENABLED`: each serving of a job uses an attempt or a stall, so that a job without
   new requests ends.

## 6. Not modelled

* The dashboard, the read API, authentication and sessions, configuration, logging,
  seeds and migrations: no concurrent state of their own.
* Analytics and templating: arithmetic and string work over stored rows, covered by unit
  tests.  Phone normalisation, field mapping, opt-out patterns and the gate's claim
  patterns are string functions too; the models take what they yield as input.
* `computeSlots` (`slots.ts`): a pure function nothing under `src/` calls.  A hold
  compares starts only (`schema.ts:465`), so whether overlapping appointments can be
  booked depends on which starts an unwritten caller asks for.
* Quiet hours and the follow-up cap: the first sets a field nobody reads
  (`policy-gate.ts:185`); the second compares a count that every caller passes as 0
  (`first-touch.ts:84`, `conversation.ts:138`, `messaging.ts:83`), so it blocks only
  an organisation whose cap is 0.
* The content of the model's answers and of the prompts: an answer is a
  nondeterministic choice.
* Row-level security, encryption and webhook signatures.
