------------------------------ MODULE HandoffProofs ------------------------------
(***************************************************************************)
(* Routing, escalation and the CRM synchronisation, for any leads, reps,   *)
(* workers and deals, any ladder and any number of faults.                 *)
(*                                                                         *)
(* TypeInv ties what an execution's record holds to its control point.  On *)
(* top of it each property has an invariant of its own: HaltInv, AssignInv, *)
(* CapInv and DealInv, which say what the execution between a read and its *)
(* commit may still rely on.                                               *)
(***************************************************************************)
EXTENDS Handoff, FiniteSetTheorems, WellFoundedInduction, TLAPS

QP == INSTANCE JobQueueProofs WITH Job <- Jobs, Worker <- Workers, NoWorker <- None

(* Control points of a synchronisation. *)
Syncing == {"contact", "deal", "note", "map", "failed", "thrown"}

ExecutionInv(e) ==
    /\ e.pc = "idle" <=> e.job = None
    /\ e.pc = "assign" => \E l \in Leads : e.job = Assign(l)
    /\ e.pc = "ladder" => \E l \in Hot : e.job = Assign(l) /\ e.idx \in 1..Ladder
    /\ e.pc = "escalate" => \E l \in Hot, i \in 1..Ladder : e.job = Esc(l, i)
    /\ e.pc \in Syncing => \E l \in Leads : e.job = Sync(l)

WorkersInv ==
    /\ wk \in [Workers -> Execution]
    /\ \A w \in Workers : ExecutionInv(wk[w])

TeamType ==
    /\ assigned \in [Leads -> Reps \cup {None}]
    /\ primaries \in [Leads -> Nat]
    /\ fallback \in [Leads -> SUBSET Reps]
    /\ acked \in [Leads -> BOOLEAN]
    /\ cursor \in Nat
    /\ escalated \in [Leads -> [1..Ladder -> Nat]]

CrmType ==
    /\ mapping \in [Leads -> Deals \cup {None}]
    /\ syncRows \in [Leads -> SUBSET {"pending", "synced", "failed"}]
    /\ dealOf \in [Deals -> Leads \cup {None}]
    /\ outcomes \in [Leads -> SUBSET {"won", "lost"}]
    /\ reports \subseteq Report /\ \A r \in reports : dealOf[r.deal] \in Leads

HistoryType ==
    /\ cut \subseteq Jobs /\ overtaken \subseteq Leads /\ lost \subseteq Deals
    /\ raced \in BOOLEAN /\ forced \in BOOLEAN
    /\ forgotten \in [Jobs -> Nat]
    /\ answered \subseteq Leads /\ late \subseteq Workers

LeadsType == leadState \in [Leads -> LeadState]
FaultsType == faults \in 0..Faults

TypeInv ==
    /\ LeadsType /\ TeamType /\ CrmType /\ HistoryType /\ FaultsType
    /\ QP!QueueInv
    /\ WorkersInv

-----------------------------------------------------------------------------
(* The job ids of the three queues are distinct, and name their lead.      *)
LEMMA JobIds ==
    /\ \A l \in Leads : Assign(l) \in Jobs /\ Sync(l) \in Jobs
    /\ \A l \in Hot, i \in 1..Ladder : Esc(l, i) \in Jobs
    /\ \A l : Assign(l)[2] = l /\ Sync(l)[2] = l
    /\ \A l, i : Esc(l, i)[2] = l /\ Esc(l, i)[3] = i
    /\ \A l, m : Assign(l) # Sync(m)
    /\ \A l, m, i : Assign(l) # Esc(m, i) /\ Sync(l) # Esc(m, i)
  BY DEF Assign, Sync, Esc, Jobs, EscJobs

(* The queue's constants are in order. *)
LEMMA Constants == QP!QueueConstants /\ Hot \subseteq Leads /\ None \notin Jobs
  BY HandoffAssumption DEF QP!QueueConstants

(* A step of one worker, to an execution in order. *)
LEMMA OneWorker ==
    ASSUME WorkersInv, NEW w \in Workers, NEW e \in Execution, ExecutionInv(e),
           wk' = [wk EXCEPT ![w] = e]
    PROVE  WorkersInv'
  BY DEF WorkersInv

(* An execution stays one when a field takes another value of its type. *)
LEMMA UpdateType ==
    ASSUME NEW e \in Execution
    PROVE  /\ \A x \in Jobs \cup {None} : [e EXCEPT !.job = x] \in Execution
           /\ \A x \in Pc : [e EXCEPT !.pc = x] \in Execution
           /\ \A x \in Reps \cup {None} : [e EXCEPT !.primary = x] \in Execution
           /\ \A x \in SUBSET Reps : [e EXCEPT !.fallback = x] \in Execution
           /\ \A x \in Nat : [e EXCEPT !.cursor = x] \in Execution
           /\ \A x \in 0..Ladder : [e EXCEPT !.idx = x] \in Execution
           /\ \A x \in Deals \cup {None} : [e EXCEPT !.deal = x] \in Execution
  BY DEF Execution

(* An idle worker has one. *)
LEMMA IdleType == Idle \in Execution /\ ExecutionInv(Idle)
  BY HandoffAssumption DEF Idle, Execution, ExecutionInv, Pc, Syncing

(* A counter of a family is counted up. *)
LEMMA CountUp ==
    ASSUME NEW S, NEW f \in [S -> Nat], NEW x \in S
    PROVE  [f EXCEPT ![x] = f[x] + 1] \in [S -> Nat]
  OBVIOUS

(* A fault is spent, or not. *)
LEMMA FaultSpent == ASSUME FaultsType, Fault \/ UNCHANGED faults PROVE FaultsType'
  BY HandoffAssumption DEF FaultsType, Fault

(* Routing keeps the cursor, picks among the reps, and picks an eligible   *)
(* rep when there is one.                                                  *)
LEMMA RouteLeadPicks ==
    ASSUME NEW profile, NEW lead, NEW load, NEW n, NEW none,
           NEW res \in RouteLead(profile, lead, load, n, none)
    PROVE  /\ res.primary \in DOMAIN profile \cup {none}
           /\ res.fallback \subseteq DOMAIN profile
           /\ res.cursor = n
           /\ Eligible(Pool(profile, lead), profile, load) # {}
                 => res.primary \in Eligible(Pool(profile, lead), profile, load)
  <1> DEFINE pool == Pool(profile, lead)
             E == Eligible(pool, profile, load)
  <1>1. pool \subseteq DOMAIN profile BY DEF Pool, Narrow
  <1>2. E \subseteq pool BY DEF Eligible
  <1>3. CASE pool = {} BY <1>2, <1>3 DEF RouteLead
  <1>4. CASE pool # {}
    <2>1. PICK r \in LeastLoaded(PrimaryPool(pool, profile, load), load) :
             \E F \in Fallbacks(pool \ {r}, load) :
                res = [primary |-> r, fallback |-> F, cursor |-> n]
      BY <1>4 DEF RouteLead
    <2>2. r \in PrimaryPool(pool, profile, load) BY DEF LeastLoaded
    <2>3. r \in pool /\ (E # {} => r \in E) BY <1>2, <2>2 DEF PrimaryPool
    <2>4. PICK F \in Fallbacks(pool \ {r}, load) :
             res = [primary |-> r, fallback |-> F, cursor |-> n]
      BY <2>1
    <2>5. F \subseteq pool BY DEF Fallbacks
    <2>6. res.primary = r /\ res.fallback = F /\ res.cursor = n BY <2>4
    <2> QED BY <1>1, <2>3, <2>5, <2>6
  <1> QED BY <1>3, <1>4

-----------------------------------------------------------------------------
(* Every operation of the queue keeps it in order. *)
LEMMA QueueStep ==
    ASSUME TypeInv, NEW w, NEW j \in Jobs,
           \/ w \in Workers /\ (Q!Take(w, j) \/ Q!Complete(w, j) \/ Q!Reject(w, j))
           \/ Q!Add(j) \/ Q!Stall(j) \/ Q!Evict(j)
    PROVE  QP!QueueInv'
  <1>1. QP!QueueOperation(w, j)
    BY DEF QP!QueueOperation, Q!Take, QP!Take, Q!Add, QP!Add, Q!Complete, QP!Complete,
           Q!Reject, QP!Reject, Q!Stall, QP!Stall, Q!Evict, QP!Evict
  <1> QED BY <1>1, Constants, QP!QueueKept DEF TypeInv

(* As does a step that leaves it alone. *)
LEMMA QueueIdle == ASSUME TypeInv, UNCHANGED queueVars PROVE QP!QueueInv'
  BY DEF TypeInv, queueVars, QP!QueueInv, QP!QueueTypeOK

(* An assignment begins with a routing of the reps there are. *)
LEMMA AssignBeginType ==
    ASSUME TypeInv, NEW w \in Workers, NEW l \in Leads, AssignBegin(w, l) PROVE TypeInv'
  <1> DEFINE load == [r \in Reps |-> Load(r)]
  <1>1. PICK res \in RouteLead(Profile, Inquiry[l], load, cursor, None) :
           wk' = [wk EXCEPT ![w] =
                    [Idle EXCEPT !.job = Assign(l), !.pc = "assign", !.primary = res.primary,
                                 !.fallback = res.fallback, !.cursor = res.cursor]]
    BY DEF AssignBegin
  <1> DEFINE e == [Idle EXCEPT !.job = Assign(l), !.pc = "assign", !.primary = res.primary,
                               !.fallback = res.fallback, !.cursor = res.cursor]
  <1>2. res.primary \in Reps \cup {None} /\ res.fallback \subseteq Reps /\ res.cursor \in Nat
    BY RouteLeadPicks, HandoffAssumption DEF TypeInv, TeamType
  <1>3. e \in Execution
    <2>1. Assign(l) \in Jobs BY JobIds
    <2>2. [Idle EXCEPT !.job = Assign(l)] \in Execution BY <2>1, IdleType, UpdateType
    <2>3. [Idle EXCEPT !.job = Assign(l), !.pc = "assign"] \in Execution
      BY <2>2, UpdateType DEF Pc
    <2>4. [Idle EXCEPT !.job = Assign(l), !.pc = "assign", !.primary = res.primary] \in Execution
      BY <1>2, <2>3, UpdateType
    <2>5. [Idle EXCEPT !.job = Assign(l), !.pc = "assign", !.primary = res.primary,
                       !.fallback = res.fallback] \in Execution
      BY <1>2, <2>4, UpdateType
    <2> QED BY <1>2, <2>5, UpdateType
  <1>4. e.job = Assign(l) /\ e.pc = "assign" BY DEF Idle
  <1>5. ExecutionInv(e) BY <1>4, JobIds, Constants DEF ExecutionInv, Syncing
  <1>6. WorkersInv' BY <1>1, <1>3, <1>5, OneWorker DEF TypeInv
  <1>7. QP!QueueInv' BY QueueStep, JobIds DEF AssignBegin
  <1>8. HistoryType' BY DEF TypeInv, HistoryType, AssignBegin
  <1>9. UNCHANGED <<leadState, team, crm, faults>> BY DEF AssignBegin
  <1> QED BY <1>6, <1>7, <1>8, <1>9
    DEF TypeInv, LeadsType, TeamType, CrmType, FaultsType, team, crm

(* Executions that end, in whatever way they do. *)
LEMMA DoneType ==
    ASSUME TypeInv, NEW w \in Workers, wk[w].pc # "idle", Done(w) PROVE WorkersInv'
  <1> DEFINE e == [Idle EXCEPT !.job = wk[w].job, !.pc = "done"]
  <1>1. wk[w] \in Execution /\ ExecutionInv(wk[w]) BY DEF TypeInv, WorkersInv
  <1>2. wk[w].job \in Jobs \cup {None} /\ wk[w].job # None
    BY <1>1 DEF Execution, ExecutionInv
  <1>3. e \in Execution BY <1>2, IdleType, UpdateType DEF Pc
  <1>4. e.job = wk[w].job /\ e.pc = "done" BY DEF Idle
  <1>5. ExecutionInv(e) BY <1>2, <1>4 DEF ExecutionInv, Syncing
  <1> QED BY <1>3, <1>5, OneWorker DEF TypeInv, Done

(* A worker that leaves its job is idle. *)
LEMMA LeaveType == ASSUME TypeInv, NEW w \in Workers, Leave(w) PROVE WorkersInv'
  BY IdleType, OneWorker DEF TypeInv, Leave

(* A synchronisation goes from one control point to the next. *)
LEMMA GoesType ==
    ASSUME TypeInv, NEW w \in Workers, wk[w].pc \in Syncing,
           NEW pc \in Syncing, NEW d \in Deals \cup {None},
           wk' = [wk EXCEPT ![w] = [wk[w] EXCEPT !.pc = pc, !.deal = d]]
    PROVE  WorkersInv'
  <1> DEFINE e == [wk[w] EXCEPT !.pc = pc, !.deal = d]
  <1>1. wk[w] \in Execution /\ ExecutionInv(wk[w]) BY DEF TypeInv, WorkersInv
  <1>2. [wk[w] EXCEPT !.pc = pc] \in Execution BY <1>1, UpdateType DEF Pc, Syncing
  <1>3. e \in Execution BY <1>2, UpdateType
  <1>4. e.pc = pc /\ e.job = wk[w].job BY <1>1 DEF Execution
  <1>5. ExecutionInv(e) BY <1>1, <1>4 DEF ExecutionInv, Syncing
  <1> QED BY <1>3, <1>5, OneWorker DEF TypeInv

(* The lead of an assignment or a synchronisation is one of the leads. *)
LEMMA LeadOfJob ==
    ASSUME TypeInv, NEW w \in Workers
    PROVE  /\ wk[w] \in Execution
           /\ wk[w].pc \in {"assign", "ladder"} =>
                LeadFor(w) \in Leads /\ wk[w].job = Assign(LeadFor(w))
           /\ wk[w].pc = "ladder" => LeadFor(w) \in Hot /\ wk[w].idx \in 1..Ladder
           /\ wk[w].pc = "escalate" =>
                /\ LeadFor(w) \in Hot /\ wk[w].job[3] \in 1..Ladder
                /\ wk[w].job = Esc(LeadFor(w), wk[w].job[3])
           /\ wk[w].pc \in Syncing => LeadFor(w) \in Leads /\ wk[w].job = Sync(LeadFor(w))
  <1>1. wk[w] \in Execution /\ ExecutionInv(wk[w]) BY DEF TypeInv, WorkersInv
  <1> QED BY <1>1, JobIds, Constants DEF ExecutionInv, LeadFor

-----------------------------------------------------------------------------
(* Routing and escalation. *)

(* The rows of an assignment are of its lead, and the ladder's first step  *)
(* is one.                                                                 *)
LEMMA AssignCommitType == ASSUME TypeInv, NEW w \in Workers, AssignCommit(w) PROVE TypeInv'
  <1> DEFINE l == LeadFor(w)
             e == [Idle EXCEPT !.job = wk[w].job, !.pc = "ladder", !.idx = 1]
  <1>1. /\ wk[w] \in Execution /\ l \in Leads /\ wk[w].job = Assign(l)
        /\ wk[w].pc = "assign"
    BY LeadOfJob DEF AssignCommit
  <1>2. ASSUME l \in Hot, Ladder > 0, wk' = [wk EXCEPT ![w] = e] PROVE WorkersInv'
    <2>1. 1 \in 1..Ladder /\ 1 \in 0..Ladder BY <1>2, HandoffAssumption
    <2>2. [Idle EXCEPT !.job = wk[w].job] \in Execution
      BY <1>1, IdleType, UpdateType, JobIds
    <2>3. [Idle EXCEPT !.job = wk[w].job, !.pc = "ladder"] \in Execution
      BY <2>2, UpdateType DEF Pc
    <2>4. e \in Execution BY <2>1, <2>3, UpdateType
    <2>5. e.job = Assign(l) /\ e.pc = "ladder" /\ e.idx = 1 BY <1>1 DEF Idle
    <2>6. ExecutionInv(e)
      BY <1>2, <2>1, <2>5, JobIds, Constants DEF ExecutionInv, Syncing
    <2> QED BY <1>2, <2>4, <2>6, OneWorker DEF TypeInv
  <1>3. WorkersInv' BY <1>1, <1>2, DoneType DEF AssignCommit
  <1>4. TeamType'
    BY <1>1 DEF AssignCommit, TypeInv, TeamType, Execution
  <1>5. QP!QueueInv' BY QueueIdle DEF AssignCommit
  <1> QED BY <1>3, <1>4, <1>5
    DEF TypeInv, LeadsType, CrmType, FaultsType, HistoryType, AssignCommit, crm, history

(* The ladder has no step past its end. *)
LEMMA EnqueueEscalationType ==
    ASSUME TypeInv, NEW w \in Workers, EnqueueEscalation(w) PROVE TypeInv'
  <1> DEFINE e == [wk[w] EXCEPT !.idx = wk[w].idx + 1]
  <1>1. /\ wk[w] \in Execution /\ LeadFor(w) \in Hot /\ wk[w].idx \in 1..Ladder
        /\ wk[w].pc = "ladder" /\ wk[w].job = Assign(LeadFor(w))
    BY LeadOfJob DEF EnqueueEscalation
  <1>2. ASSUME wk[w].idx < Ladder, wk' = [wk EXCEPT ![w] = e] PROVE WorkersInv'
    <2>1. wk[w].idx + 1 \in 1..Ladder /\ wk[w].idx + 1 \in 0..Ladder
      BY <1>1, <1>2, HandoffAssumption
    <2>2. e \in Execution BY <1>1, <2>1, UpdateType
    <2>3. e.pc = "ladder" /\ e.job = wk[w].job /\ e.idx = wk[w].idx + 1
      BY <1>1 DEF Execution
    <2>4. ExecutionInv(e) BY <1>1, <2>1, <2>3, JobIds, Constants DEF ExecutionInv, Syncing
    <2> QED BY <1>2, <2>2, <2>4, OneWorker DEF TypeInv
  <1>3. WorkersInv'
    <2>1. CASE wk[w].idx < Ladder BY <1>2, <2>1 DEF EnqueueEscalation, TypeInv, WorkersInv
    <2>2. CASE ~(wk[w].idx < Ladder) BY <1>1, <2>2, DoneType DEF EnqueueEscalation
    <2> QED BY <2>1, <2>2
  <1>4. QP!QueueInv' BY <1>1, QueueStep, JobIds DEF EnqueueEscalation
  <1> QED BY <1>3, <1>4
    DEF TypeInv, LeadsType, TeamType, CrmType, FaultsType, HistoryType, EnqueueEscalation,
        team, crm, history

(* A step of the ladder that goes on found its lead waiting. *)
LEMMA EscalateBeginType ==
    ASSUME TypeInv, NEW w \in Workers, NEW l \in Hot, NEW i \in 1..Ladder, EscalateBegin(w, l, i)
    PROVE  TypeInv'
  <1> DEFINE waiting == leadState[l] \in Waiting /\ ~acked[l]
             pc == IF waiting THEN "escalate" ELSE "done"
             e == [Idle EXCEPT !.job = Esc(l, i), !.pc = pc]
  <1>1. wk' = [wk EXCEPT ![w] = e] BY DEF EscalateBegin
  <1>2. pc \in Pc /\ pc \in {"escalate", "done"} BY DEF Pc
  <1> HIDE DEF pc
  <1>3. [Idle EXCEPT !.job = Esc(l, i)] \in Execution BY IdleType, UpdateType, JobIds
  <1>5. e \in Execution BY <1>2, <1>3, UpdateType
  <1>6. e.job = Esc(l, i) /\ e.pc = pc BY DEF Idle
  <1>7. ExecutionInv(e) BY <1>2, <1>6, JobIds, Constants DEF ExecutionInv, Syncing
  <1>8. WorkersInv' BY <1>1, <1>5, <1>7, OneWorker DEF TypeInv
  <1>9. QP!QueueInv' BY QueueStep, JobIds DEF EscalateBegin
  <1> QED BY <1>8, <1>9
    DEF TypeInv, LeadsType, TeamType, CrmType, FaultsType, HistoryType, EscalateBegin,
        team, crm, history

(* An escalation counts for its lead and step. *)
LEMMA EscalateCommitType == ASSUME TypeInv, NEW w \in Workers, EscalateCommit(w) PROVE TypeInv'
  <1>1. LeadFor(w) \in Leads /\ wk[w].job[3] \in 1..Ladder /\ wk[w].pc = "escalate"
    BY LeadOfJob, Constants DEF EscalateCommit
  <1>2. WorkersInv' BY <1>1, DoneType DEF EscalateCommit
  <1>3. TeamType'
    <2> DEFINE l == LeadFor(w)
               i == wk[w].job[3]
               row == [escalated[l] EXCEPT ![i] = escalated[l][i] + 1]
    <2>1. escalated' = [escalated EXCEPT ![l] = row] BY DEF EscalateCommit
    <2>2. l \in Leads /\ i \in 1..Ladder BY <1>1
    <2> HIDE DEF l, i
    <2>3. escalated[l] \in [1..Ladder -> Nat] BY <2>2 DEF TypeInv, TeamType
    <2>4. row \in [1..Ladder -> Nat] BY <2>2, <2>3, CountUp
    <2> HIDE DEF row
    <2>5. escalated' \in [Leads -> [1..Ladder -> Nat]]
      BY <2>1, <2>2, <2>4 DEF TypeInv, TeamType
    <2> QED BY <2>5 DEF EscalateCommit, TypeInv, TeamType
  <1>4. QP!QueueInv' BY QueueIdle DEF EscalateCommit
  <1> QED BY <1>2, <1>3, <1>4
    DEF TypeInv, LeadsType, CrmType, FaultsType, HistoryType, EscalateCommit, crm, history

(* An acknowledgement touches one column. *)
LEMMA AcknowledgeType == ASSUME TypeInv, NEW l \in Leads, Acknowledge(l) PROVE TypeInv'
  <1>1. QP!QueueInv' BY QueueIdle DEF Acknowledge
  <1> QED BY <1>1
    DEF TypeInv, LeadsType, TeamType, CrmType, FaultsType, HistoryType, WorkersInv, Acknowledge,
        Answered, crm

-----------------------------------------------------------------------------
(* The CRM. *)

(* A synchronisation begins with the deal its lead is mapped to, if any. *)
LEMMA SyncBeginType ==
    ASSUME TypeInv, NEW w \in Workers, NEW l \in Leads, SyncBegin(w, l) PROVE TypeInv'
  <1> DEFINE pc == IF l \in Connected THEN "contact" ELSE "done"
             deal == IF l \in Connected THEN mapping[l] ELSE None
             e == [Idle EXCEPT !.job = Sync(l), !.pc = pc, !.deal = deal]
  <1>1. wk' = [wk EXCEPT ![w] = e] BY DEF SyncBegin
  <1>2. pc \in {"contact", "done"} /\ pc \in Pc /\ deal \in Deals \cup {None}
    BY DEF Pc, TypeInv, CrmType
  <1> HIDE DEF pc, deal
  <1>3. [Idle EXCEPT !.job = Sync(l)] \in Execution BY IdleType, UpdateType, JobIds
  <1>4. [Idle EXCEPT !.job = Sync(l), !.pc = pc] \in Execution BY <1>2, <1>3, UpdateType
  <1>5. e \in Execution BY <1>2, <1>4, UpdateType
  <1>6. e.job = Sync(l) /\ e.pc = pc BY DEF Idle
  <1>7. ExecutionInv(e) BY <1>2, <1>6, JobIds, Constants DEF ExecutionInv, Syncing
  <1>8. WorkersInv' BY <1>1, <1>5, <1>7, OneWorker DEF TypeInv
  <1>9. QP!QueueInv' BY QueueStep, JobIds DEF SyncBegin
  <1> QED BY <1>8, <1>9
    DEF TypeInv, LeadsType, TeamType, CrmType, FaultsType, HistoryType, SyncBegin, team

(* The calls of the CRM that change nothing here. *)
LEMMA CallType ==
    ASSUME TypeInv, NEW w \in Workers, UpsertContact(w) \/ Annotate(w) PROVE TypeInv'
  <1>1. PICK pc \in Syncing : wk[w].pc \in Syncing /\ Goes(w, pc)
    BY DEF UpsertContact, Annotate, Syncing
  <1>2. wk[w] \in Execution BY LeadOfJob
  <1>3. wk' = [wk EXCEPT ![w] = [wk[w] EXCEPT !.pc = pc, !.deal = wk[w].deal]]
        /\ wk[w].deal \in Deals \cup {None}
    BY <1>1, <1>2 DEF Goes, Execution
  <1>4. WorkersInv' BY <1>1, <1>3, GoesType
  <1>5. QP!QueueInv' BY QueueIdle DEF UpsertContact, Annotate
  <1> QED BY <1>4, <1>5
    DEF TypeInv, LeadsType, TeamType, CrmType, FaultsType, HistoryType, UpsertContact, Annotate,
        team, crm, history

(* A step to another control point that keeps the deal. *)
LEMMA GoesKeepsDeal ==
    ASSUME TypeInv, NEW w \in Workers, wk[w].pc \in Syncing, NEW pc \in Syncing, Goes(w, pc)
    PROVE  WorkersInv'
  <1>1. wk[w] \in Execution BY LeadOfJob
  <1>2. wk' = [wk EXCEPT ![w] = [wk[w] EXCEPT !.pc = pc, !.deal = wk[w].deal]]
        /\ wk[w].deal \in Deals \cup {None}
    BY <1>1 DEF Goes, Execution
  <1> QED BY <1>2, GoesType

(* A new deal is one of the CRM's, whether or not its answer arrives. *)
LEMMA UpsertDealType == ASSUME TypeInv, NEW w \in Workers, UpsertDeal(w) PROVE TypeInv'
  <1>1. wk[w].pc \in Syncing /\ LeadFor(w) \in Leads BY LeadOfJob DEF UpsertDeal, Syncing
  <1>2. (\E d \in Deals : dealOf[d] = None) => NewDeal \in Deals BY DEF NewDeal
  <1>3. WorkersInv'
    <2>1. CASE Goes(w, "note") \/ Goes(w, "failed")
      BY <1>1, <2>1, GoesKeepsDeal DEF Syncing
    <2>2. CASE wk' = [wk EXCEPT ![w].pc = "note", ![w].deal = NewDeal] /\ NewDeal \in Deals
      <3>1. wk' = [wk EXCEPT ![w] = [wk[w] EXCEPT !.pc = "note", !.deal = NewDeal]]
        BY <2>2 DEF TypeInv, WorkersInv
      <3> QED BY <1>1, <2>2, <3>1, GoesType DEF Syncing
    <2> QED BY <1>2, <2>1, <2>2 DEF UpsertDeal
  <1>4. CrmType'
    <2>1. /\ dealOf \in [Deals -> Leads \cup {None}] /\ reports \subseteq Report
          /\ \A r \in reports : dealOf[r.deal] \in Leads
      BY DEF TypeInv, CrmType
    <2>2. UNCHANGED <<mapping, syncRows, outcomes, reports>> BY DEF UpsertDeal
    <2>3. CASE UNCHANGED dealOf BY <2>2, <2>3 DEF TypeInv, CrmType
    <2>4. CASE NewDeal \in Deals /\ dealOf' = [dealOf EXCEPT ![NewDeal] = LeadFor(w)]
      <3> DEFINE n == NewDeal
                 m == LeadFor(w)
      <3>1. n \in Deals /\ m \in Leads /\ dealOf' = [dealOf EXCEPT ![n] = m] BY <1>1, <2>4
      <3> HIDE DEF n, m
      <3>2. dealOf' \in [Deals -> Leads \cup {None}] BY <2>1, <3>1
      <3>3. ASSUME NEW r \in reports PROVE dealOf'[r.deal] \in Leads
        <4>1. r.deal \in Deals /\ dealOf[r.deal] \in Leads BY <2>1 DEF Report
        <4> QED BY <2>1, <3>1, <4>1
      <3> QED BY <2>2, <3>2, <3>3 DEF TypeInv, CrmType
    <2> QED BY <1>2, <2>3, <2>4 DEF UpsertDeal
  <1>5. HistoryType' BY <1>2 DEF UpsertDeal, TypeInv, HistoryType
  <1>6. FaultsType' BY FaultSpent DEF UpsertDeal, TypeInv
  <1>7. QP!QueueInv' BY QueueIdle DEF UpsertDeal
  <1> QED BY <1>3, <1>4, <1>5, <1>6, <1>7
    DEF TypeInv, LeadsType, TeamType, UpsertDeal, team

(* What a lost execution may leave unrecorded is a deal. *)
LEMMA UnrecordedType ==
    ASSUME TypeInv, NEW w \in Workers PROVE Unrecorded(w) \subseteq Deals
  BY LeadOfJob DEF Unrecorded, Execution

(* A call that fails leaves the execution to its handler of errors. *)
LEMMA CallFailsType == ASSUME TypeInv, NEW w \in Workers, CallFails(w) PROVE TypeInv'
  <1>1. wk' = [wk EXCEPT ![w] = [wk[w] EXCEPT !.pc = "failed", !.deal = None]]
    BY DEF CallFails, TypeInv, WorkersInv
  <1>2. WorkersInv' BY <1>1, GoesType DEF CallFails, Syncing
  <1>3. FaultsType' BY FaultSpent DEF CallFails, TypeInv
  <1>4. HistoryType' BY UnrecordedType DEF CallFails, TypeInv, HistoryType
  <1>5. QP!QueueInv' BY QueueIdle DEF CallFails
  <1> QED BY <1>2, <1>3, <1>4, <1>5
    DEF TypeInv, LeadsType, TeamType, CrmType, CallFails, team, crm

(* The mapping takes the deal of the execution. *)
LEMMA MapCommitType == ASSUME TypeInv, NEW w \in Workers, MapCommit(w) PROVE TypeInv'
  <1>1. LeadFor(w) \in Leads /\ wk[w] \in Execution /\ wk[w].pc = "map"
    BY LeadOfJob DEF MapCommit, Syncing
  <1>2. WorkersInv' BY <1>1, DoneType DEF MapCommit
  <1>3. CrmType' BY <1>1 DEF MapCommit, TypeInv, CrmType, Execution
  <1>4. QP!QueueInv' BY QueueIdle DEF MapCommit
  <1> QED BY <1>2, <1>3, <1>4
    DEF TypeInv, LeadsType, TeamType, FaultsType, HistoryType, MapCommit, team, history

(* The rows of a failed synchronisation are marked. *)
LEMMA MarkFailedType == ASSUME TypeInv, NEW w \in Workers, MarkFailed(w) PROVE TypeInv'
  <1>1. wk[w].pc \in Syncing /\ "thrown" \in Syncing BY DEF MarkFailed, Syncing
  <1>2. WorkersInv' BY <1>1, GoesKeepsDeal DEF MarkFailed
  <1>3. CrmType' BY DEF MarkFailed, TypeInv, CrmType
  <1>4. QP!QueueInv' BY QueueIdle DEF MarkFailed
  <1> QED BY <1>2, <1>3, <1>4
    DEF TypeInv, LeadsType, TeamType, FaultsType, HistoryType, MarkFailed, team, history

(* An outcome is taken in of a deal of one of the leads. *)
LEMMA CrmInboundBeginType ==
    ASSUME TypeInv, NEW d \in Deals, NEW type \in {"won", "lost"}, CrmInboundBegin(d, type)
    PROVE  TypeInv'
  <1>1. dealOf[d] \in Leads BY DEF CrmInboundBegin, TypeInv, CrmType
  <1>2. [deal |-> d, type |-> type, state |-> leadState[dealOf[d]]] \in Report
    BY <1>1 DEF TypeInv, LeadsType, Report
  <1>3. CrmType' BY <1>1, <1>2 DEF CrmInboundBegin, TypeInv, CrmType
  <1>4. QP!QueueInv' BY QueueIdle DEF CrmInboundBegin
  <1> QED BY <1>3, <1>4
    DEF TypeInv, LeadsType, TeamType, FaultsType, HistoryType, WorkersInv, CrmInboundBegin, team,
        history

(* It moves the lead only to a state there is. *)
LEMMA CrmInboundCommitType ==
    ASSUME TypeInv, NEW r \in reports, CrmInboundCommit(r) PROVE TypeInv'
  <1> DEFINE l == dealOf[r.deal]
  <1>1. l \in Leads /\ r.type \in {"won", "lost"}
    BY DEF TypeInv, CrmType, Report
  <1>2. LeadsType' BY <1>1 DEF CrmInboundCommit, TypeInv, LeadsType, LeadState
  <1>3. CrmType' BY <1>1 DEF CrmInboundCommit, TypeInv, CrmType
  <1>4. HistoryType' BY <1>1 DEF CrmInboundCommit, Answered, TypeInv, HistoryType
  <1>5. QP!QueueInv' BY QueueIdle DEF CrmInboundCommit
  <1> QED BY <1>2, <1>3, <1>4, <1>5
    DEF TypeInv, TeamType, FaultsType, WorkersInv, CrmInboundCommit, team

-----------------------------------------------------------------------------
(* The queue's other users, and faults. *)

(* A job handed over again touches the queue only. *)
LEMMA RequestedType ==
    ASSUME TypeInv, NEW l \in Leads, Requested(Assign(l)) \/ Requested(Sync(l))
    PROVE  TypeInv'
  <1>1. QP!QueueInv' BY QueueStep, JobIds DEF Requested
  <1> QED BY <1>1
    DEF TypeInv, LeadsType, TeamType, CrmType, FaultsType, HistoryType, WorkersInv, Requested,
        team, crm, history

(* As does one that is dropped. *)
LEMMA ForgottenType == ASSUME TypeInv, NEW j \in Jobs, Forgotten(j) PROVE TypeInv'
  <1>1. QP!QueueInv' BY QueueStep DEF Forgotten
  <1>2. FaultsType' BY FaultSpent DEF Forgotten, TypeInv
  <1>3. HistoryType' BY DEF Forgotten, TypeInv, HistoryType
  <1> QED BY <1>1, <1>2, <1>3
    DEF TypeInv, LeadsType, TeamType, CrmType, WorkersInv, Forgotten, team, crm

(* A takeover touches the state of a lead. *)
LEMMA TakenOverType == ASSUME TypeInv, NEW l \in Leads, TakenOver(l) PROVE TypeInv'
  <1>1. QP!QueueInv' BY QueueIdle DEF TakenOver
  <1>2. LeadsType' BY DEF TakenOver, TypeInv, LeadsType, LeadState
  <1> QED BY <1>1, <1>2
    DEF TypeInv, TeamType, CrmType, FaultsType, HistoryType, WorkersInv, TakenOver, Answered,
        team, crm

(* A worker that finishes is idle. *)
LEMMA FinishType == ASSUME TypeInv, NEW w \in Workers, Finish(w) PROVE TypeInv'
  <1>1. wk[w].job \in Jobs BY DEF Finish, TypeInv, WorkersInv, ExecutionInv, Execution
  <1>2. QP!QueueInv' BY <1>1, QueueStep DEF Finish
  <1>3. WorkersInv' BY LeaveType DEF Finish
  <1> QED BY <1>2, <1>3
    DEF TypeInv, LeadsType, TeamType, CrmType, FaultsType, HistoryType, Finish, team, crm, history

(* An execution that is cut off may leave a deal unrecorded. *)
LEMMA CutOffType ==
    ASSUME TypeInv, NEW w \in Workers, wk[w].pc # "idle", CutOff(w)
    PROVE  /\ wk[w].job \in Jobs
           /\ WorkersInv' /\ HistoryType' /\ LeadsType' /\ TeamType' /\ CrmType'
  <1>1. wk[w].job \in Jobs BY DEF TypeInv, WorkersInv, ExecutionInv, Execution
  <1>2. WorkersInv' BY LeaveType DEF CutOff
  <1>3. HistoryType' BY <1>1, UnrecordedType DEF CutOff, TypeInv, HistoryType
  <1> QED BY <1>1, <1>2, <1>3 DEF TypeInv, LeadsType, TeamType, CrmType, CutOff, team, crm

(* A throw uses one attempt. *)
LEMMA ThrowType == ASSUME TypeInv, NEW w \in Workers, Throw(w) PROVE TypeInv'
  <1>1. wk[w].pc # "idle" /\ CutOff(w) BY DEF Throw
  <1>2. QP!QueueInv' BY <1>1, CutOffType, QueueStep DEF Throw
  <1>3. FaultsType' BY FaultSpent DEF Throw, TypeInv
  <1> QED BY <1>1, <1>2, <1>3, CutOffType DEF TypeInv

(* A crash leaves the queue alone. *)
LEMMA CrashType == ASSUME TypeInv, NEW w \in Workers, Crash(w) PROVE TypeInv'
  <1>1. wk[w].pc # "idle" /\ CutOff(w) BY DEF Crash
  <1>2. QP!QueueInv' BY QueueIdle DEF Crash
  <1>3. FaultsType' BY FaultSpent DEF Crash, TypeInv
  <1> QED BY <1>1, <1>2, <1>3, CutOffType DEF TypeInv

(* The stalled-job check touches the queue only. *)
LEMMA StallType == ASSUME TypeInv, NEW j \in Jobs, Stall(j) PROVE TypeInv'
  <1>1. QP!QueueInv' BY QueueStep DEF Stall
  <1>2. FaultsType' BY FaultSpent DEF Stall, TypeInv
  <1> QED BY <1>1, <1>2
    DEF TypeInv, LeadsType, TeamType, CrmType, HistoryType, WorkersInv, Stall, team, crm

-----------------------------------------------------------------------------
(* TypeInv is inductive. *)
LEMMA TypeStep == TypeInv /\ [Next]_vars => TypeInv'
  <1> SUFFICES ASSUME TypeInv, [Next]_vars PROVE TypeInv' OBVIOUS
  <1>1. ASSUME NEW w \in Workers, NEW j \in Jobs, Takes(w, j) PROVE TypeInv'
    <2>1. PICK l \in Leads :
             \/ j = Assign(l) /\ AssignBegin(w, l)
             \/ j = Sync(l) /\ SyncBegin(w, l)
             \/ \E i \in 1..Ladder : j = Esc(l, i) /\ EscalateBegin(w, l, i)
      BY <1>1 DEF Takes
    <2>2. ASSUME NEW i \in 1..Ladder, j = Esc(l, i) PROVE l \in Hot
      BY <2>2 DEF Jobs, EscJobs, Esc, Assign, Sync
    <2> QED BY <2>1, <2>2, AssignBeginType, SyncBeginType, EscalateBeginType
  <1>2. ASSUME NEW w \in Workers, Proceeds(w) PROVE TypeInv'
    BY <1>2, AssignCommitType, EnqueueEscalationType, EscalateCommitType, CallType,
       UpsertDealType, CallFailsType, MapCommitType, MarkFailedType, FinishType, ThrowType
    DEF Proceeds, AssignmentStep, CrmStep
  <1>3. CASE Environment
    BY <1>3, HandoffAssumption, AcknowledgeType, TakenOverType, RequestedType, ForgottenType,
       CrmInboundBeginType, CrmInboundCommitType, CrashType, StallType
    DEF Environment
  <1>4. CASE UNCHANGED vars
    <2>1. QP!QueueInv' BY <1>4, QueueIdle DEF vars
    <2> QED BY <1>4, <2>1
      DEF TypeInv, LeadsType, TeamType, CrmType, FaultsType, HistoryType, WorkersInv,
          vars, team, crm, history
  <1> QED BY <1>1, <1>2, <1>3, <1>4 DEF Next

(* It holds of the leads as they are handed over. *)
LEMMA TypeInit == Init => TypeInv
  <1> SUFFICES ASSUME Init PROVE TypeInv OBVIOUS
  <1>1. QP!QueueInv
    <2>1. PICK S \in Handed : QP!QueueInit(S) BY DEF Init, Q!QueueInit, QP!QueueInit
    <2> QED BY <2>1, Constants, QP!QueueInitially
  <1>2. WorkersInv BY IdleType DEF Init, WorkersInv
  <1>3. LeadsType BY DEF Init, LeadsType, LeadState
  <1>4. TeamType
    <2>1. [i \in 1..Ladder |-> 0] \in [1..Ladder -> Nat] OBVIOUS
    <2> DEFINE none == [i \in 1..Ladder |-> 0]
    <2>2. escalated = [l \in Leads |-> none] BY DEF Init
    <2> HIDE DEF none
    <2>3. escalated \in [Leads -> [1..Ladder -> Nat]] BY <2>1, <2>2 DEF none
    <2>4. /\ assigned \in [Leads -> Reps \cup {None}] /\ primaries \in [Leads -> Nat]
          /\ fallback \in [Leads -> SUBSET Reps] /\ acked \in [Leads -> BOOLEAN]
          /\ cursor \in Nat
      BY DEF Init
    <2> QED BY <2>3, <2>4 DEF TeamType
  <1>5. CrmType
    <2>1. mapping \in [Leads -> Deals \cup {None}] BY DEF Init
    <2>2. syncRows \in [Leads -> SUBSET {"pending", "synced", "failed"}] BY DEF Init
    <2>3. dealOf \in [Deals -> Leads \cup {None}] BY DEF Init
    <2>4. outcomes \in [Leads -> SUBSET {"won", "lost"}] BY DEF Init
    <2>5. reports = {} BY DEF Init
    <2> QED BY <2>1, <2>2, <2>3, <2>4, <2>5 DEF CrmType
  <1>6. HistoryType BY DEF Init, HistoryType
  <1>7. FaultsType
    <2>1. faults = Faults /\ Faults \in Nat BY HandoffAssumption DEF Init
    <2> QED BY <2>1 DEF FaultsType
  <1> QED BY <1>1, <1>2, <1>3, <1>4, <1>5, <1>6, <1>7 DEF TypeInv

(* What an execution holds follows from its control point, in every        *)
(* reachable state.                                                        *)
THEOREM TypeInvariant == Spec => []TypeInv
  BY TypeInit, TypeStep, PTL DEF Spec

(* The rows, the queues and the executions keep to their values: no ladder *)
(* has a step past its end, and no job more attempts than it may have.     *)
THEOREM TypeCorrect == Spec => []TypeOK
  <1>1. TypeInv => TypeOK
    BY DEF TypeInv, LeadsType, TeamType, CrmType, FaultsType, HistoryType, WorkersInv, TypeOK,
           QP!QueueInv, QP!QueueTypeOK, Q!QueueTypeOK, QP!JobStatus, Q!JobStatus
  <1> QED BY <1>1, TypeInvariant, PTL

-----------------------------------------------------------------------------
(* What a step may do to the executions, whatever it is for.               *)

(* Worker w takes job j up. *)
Begins(w, j) ==
    /\ Q!Take(w, j)
    /\ wk[w].pc = "idle" /\ wk'[w].job = j
    /\ \A u \in Workers \ {w} : wk'[u] = wk[u]
    /\ UNCHANGED <<leadState, acked, assigned, primaries, escalated, mapping, dealOf, cut, lost,
                   forgotten, answered>>

(* Worker w goes on with its job. *)
GoesOn(w) ==
    /\ wk[w].pc # "idle" /\ wk'[w].job = wk[w].job /\ wk'[w].pc \notin {"assign", "escalate"}
    /\ \A u \in Workers \ {w} : wk'[u] = wk[u]
    /\ UNCHANGED queueVars \/ \E l \in Hot, i \in 1..Ladder : Q!Add(Esc(l, i))
    /\ UNCHANGED <<leadState, acked, cut, overtaken, raced, forced, forgotten, answered, late>>

(* Worker w leaves its job. *)
Leaves(w) ==
    /\ wk[w].pc # "idle" /\ wk[w].job \in Jobs /\ wk' = [wk EXCEPT ![w] = Idle]
    /\ UNCHANGED <<leadState, acked, assigned, primaries, escalated, mapping, dealOf, overtaken,
                   raced, forced, forgotten, answered, late>>
    /\ \/ Q!Complete(w, wk[w].job) /\ wk[w].pc = "done" /\ UNCHANGED <<cut, lost>>
       \/ /\ Q!Reject(w, wk[w].job) \/ UNCHANGED queueVars
          /\ cut' = cut \cup {wk[w].job} /\ lost' = lost \cup Unrecorded(w)

(* No execution moves. *)
Outside ==
    /\ UNCHANGED <<wk, assigned, primaries, escalated, mapping, dealOf, overtaken, lost, raced, forced>>
    /\ \/ UNCHANGED queueVars /\ UNCHANGED <<cut, forgotten>>
       \/ \E j \in Jobs : Q!Add(j) /\ UNCHANGED <<cut, forgotten>>
       \/ \E j \in Jobs : /\ Q!Evict(j) /\ UNCHANGED cut
                          /\ forgotten' = [forgotten EXCEPT ![j] = @ + 1]
       \/ \E j \in Jobs : Q!Stall(j) /\ cut' = cut \cup {j} /\ UNCHANGED forgotten

(* A job taken up is the execution's. *)
LEMMA TakesBegins ==
    ASSUME TypeInv, NEW w \in Workers, NEW j \in Jobs, Takes(w, j) PROVE Begins(w, j)
  <1>1. wk \in [Workers -> Execution] BY DEF TypeInv, WorkersInv
  <1>2. CASE \E l \in Leads : j = Assign(l) /\ AssignBegin(w, l)
    BY <1>1, <1>2 DEF AssignBegin, Begins, Idle, team, crm
  <1>3. CASE \E l \in Leads : j = Sync(l) /\ SyncBegin(w, l)
    BY <1>1, <1>3 DEF SyncBegin, Begins, Idle, team, crm
  <1>4. CASE \E l \in Leads, i \in 1..Ladder : j = Esc(l, i) /\ EscalateBegin(w, l, i)
    BY <1>1, <1>4 DEF EscalateBegin, Begins, Idle, team, crm, history
  <1> QED BY <1>2, <1>3, <1>4 DEF Takes

(* The other steps of a worker go on with its job or leave it. *)
LEMMA ProceedsGoesOn ==
    ASSUME TypeInv, NEW w \in Workers, Proceeds(w) PROVE GoesOn(w) \/ Leaves(w)
  <1>1. wk \in [Workers -> Execution] /\ wk[w] \in Execution
    BY DEF TypeInv, WorkersInv
  <1>2. CASE AssignCommit(w)
    BY <1>1, <1>2 DEF AssignCommit, GoesOn, Done, Idle, team, history
  <1>3. CASE EnqueueEscalation(w)
    <2>1. LeadFor(w) \in Hot /\ wk[w].idx \in 1..Ladder
      BY <1>3, LeadOfJob DEF EnqueueEscalation
    <2> QED BY <1>1, <1>3, <2>1 DEF EnqueueEscalation, GoesOn, Done, Idle, Execution, team, history
  <1>4. CASE EscalateCommit(w)
    BY <1>1, <1>4 DEF EscalateCommit, GoesOn, Done, Idle, team, history
  <1>5. CASE UpsertContact(w) \/ Annotate(w) \/ MarkFailed(w)
    BY <1>1, <1>5 DEF UpsertContact, Annotate, MarkFailed, Goes, GoesOn, Execution, team, history
  <1>6. CASE UpsertDeal(w)
    BY <1>1, <1>6 DEF UpsertDeal, Goes, GoesOn, Execution, team
  <1>7. CASE CallFails(w)
    BY <1>1, <1>7 DEF CallFails, GoesOn, Execution, team
  <1>8. CASE MapCommit(w)
    BY <1>1, <1>8 DEF MapCommit, GoesOn, Done, Idle, team, history
  <1>9. CASE Finish(w) \/ Throw(w)
    <2>1. wk[w].job \in Jobs BY <1>9, LeadOfJob, Constants
      DEF TypeInv, WorkersInv, ExecutionInv, Execution, Finish, Throw
    <2> QED BY <1>9, <2>1
      DEF Finish, Throw, CutOff, Leave, Leaves, team, crm, history
  <1> QED BY <1>2, <1>3, <1>4, <1>5, <1>6, <1>7, <1>8, <1>9
    DEF Proceeds, AssignmentStep, CrmStep

(* The environment moves no execution, or ends one. *)
LEMMA EnvironmentOutside ==
    ASSUME TypeInv, Environment PROVE Outside \/ \E w \in Workers : Leaves(w)
  <1>1. CASE \E l \in Attended : Acknowledge(l) \/ TakenOver(l)
    BY <1>1 DEF Acknowledge, TakenOver, Outside, team, crm
  <1>2. CASE \E l \in Leads : Requested(Assign(l)) \/ Requested(Sync(l))
    BY <1>2, JobIds DEF Requested, Outside, team, crm, history
  <1>3. CASE \/ \E d \in Deals, type \in {"won", "lost"} : CrmInboundBegin(d, type)
             \/ \E r \in reports : CrmInboundCommit(r)
    BY <1>3 DEF CrmInboundBegin, CrmInboundCommit, Outside, team, history
  <1>4. ASSUME NEW w \in Workers, Crash(w) PROVE Leaves(w)
    <2>1. wk[w].job \in Jobs BY <1>4, CutOffType DEF Crash
    <2> QED BY <1>4, <2>1 DEF Crash, CutOff, Leave, Leaves, team, crm
  <1>5. CASE \E j \in Jobs : Stall(j) \/ Forgotten(j)
    BY <1>5 DEF Stall, Forgotten, Outside, team, crm
  <1> QED BY <1>1, <1>2, <1>3, <1>4, <1>5 DEF Environment

-----------------------------------------------------------------------------
(* EscalationHalts.                                                        *)

(* A lead that was answered stays so, whatever is assigned or run again;   *)
(* and who still stands at a step of its ladder stood there then.          *)
HaltInv ==
    /\ \A l \in answered : acked[l] \/ leadState[l] \notin Waiting
    /\ \A w \in Workers : wk[w].pc = "escalate" /\ LeadFor(w) \in answered => w \in late

(* A lead that was taken over, won or lost never waits again. *)
LEMMA NoWayBack ==
    ASSUME NEW s \in {"human_owned", "won", "lost"} PROVE s \notin Waiting
  BY DEF Waiting

(* Nothing is answered, and no step of a ladder begins. *)
LEMMA QuietHalt ==
    ASSUME HaltInv, UNCHANGED <<leadState, acked, answered, late>>,
           \A u \in Workers : wk'[u].pc = "escalate" => wk'[u] = wk[u]
    PROVE  HaltInv'
  BY DEF HaltInv, LeadFor

(* A step of the ladder that begins finds a lead nobody has answered.      *)
LEMMA EscalateBeginHalt ==
    ASSUME TypeInv, HaltInv, NEW w \in Workers, NEW l \in Leads, NEW i \in 1..Ladder,
           EscalateBegin(w, l, i)
    PROVE  HaltInv'
  <1> DEFINE pc == IF leadState[l] \in Waiting /\ ~acked[l] THEN "escalate" ELSE "done"
  <1>1. /\ wk'[w].job = Esc(l, i) /\ wk'[w].pc = pc
        /\ \A u \in Workers \ {w} : wk'[u] = wk[u]
    BY DEF EscalateBegin, TypeInv, WorkersInv, Idle
  <1>2. UNCHANGED <<leadState, acked, answered>> /\ late' = late \ {w}
    BY DEF EscalateBegin, team
  <1>3. ASSUME wk'[w].pc = "escalate" PROVE LeadFor(w)' \notin answered'
    <2>1. leadState[l] \in Waiting /\ ~acked[l] BY <1>1, <1>3
    <2>2. LeadFor(w)' = l BY <1>1, JobIds DEF LeadFor
    <2> QED BY <1>2, <2>1, <2>2 DEF HaltInv
  <1> QED BY <1>1, <1>2, <1>3 DEF HaltInv, LeadFor

(* An answer catches every execution that is at a step of the ladder.      *)
LEMMA AnsweredHalt ==
    ASSUME TypeInv, HaltInv, NEW l \in Leads, Answered(l), UNCHANGED wk,
           acked'[l] \/ leadState'[l] \notin Waiting,
           \A m \in Leads \ {l} : acked'[m] = acked[m] /\ leadState'[m] = leadState[m]
    PROVE  HaltInv'
  BY DEF HaltInv, Answered, LeadFor, TypeInv, HistoryType

(* HaltInv is inductive on top of TypeInv. *)
LEMMA HaltStep == TypeInv /\ HaltInv /\ [Next]_vars => HaltInv'
  <1> SUFFICES ASSUME TypeInv, HaltInv, [Next]_vars PROVE HaltInv' OBVIOUS
  <1>1. /\ wk \in [Workers -> Execution] /\ leadState \in [Leads -> LeadState]
        /\ acked \in [Leads -> BOOLEAN]
    BY DEF TypeInv, WorkersInv, LeadsType, TeamType
  <1>2. CASE UNCHANGED vars BY <1>2, QuietHalt DEF vars, team, history
  <1>3. ASSUME NEW w \in Workers, NEW j \in Jobs, Takes(w, j) PROVE HaltInv'
    <2>1. CASE \E l \in Leads, i \in 1..Ladder : EscalateBegin(w, l, i)
      BY <2>1, EscalateBeginHalt
    <2>2. CASE \E l \in Leads : AssignBegin(w, l)
      BY <1>1, <2>2, QuietHalt DEF AssignBegin, team, Idle
    <2>3. CASE \E l \in Leads : SyncBegin(w, l)
      BY <1>1, <2>3, QuietHalt DEF SyncBegin, team, Idle
    <2> QED BY <1>3, <2>1, <2>2, <2>3 DEF Takes
  <1>4. ASSUME NEW w \in Workers, GoesOn(w) PROVE HaltInv'
    BY <1>4, QuietHalt DEF GoesOn
  <1>5. ASSUME NEW w \in Workers, Leaves(w) PROVE HaltInv'
    <2>1. \A u \in Workers : wk'[u].pc = "escalate" => wk'[u] = wk[u]
      BY <1>1, <1>5 DEF Leaves, Idle
    <2> QED BY <1>5, <2>1, QuietHalt DEF Leaves
  <1>6. CASE Environment
    <2>1. ASSUME NEW l \in Leads, Acknowledge(l) PROVE HaltInv'
      <3>1. acked'[l] /\ UNCHANGED <<wk, leadState>> BY <1>1, <2>1 DEF Acknowledge
      <3>2. \A m \in Leads \ {l} : acked'[m] = acked[m] BY <1>1, <2>1 DEF Acknowledge
      <3> QED BY <2>1, <3>1, <3>2, AnsweredHalt DEF Acknowledge
    <2>2. ASSUME NEW l \in Leads, TakenOver(l) PROVE HaltInv'
      <3>1. leadState'[l] \notin Waiting /\ UNCHANGED <<wk, acked>>
        BY <1>1, <2>2, NoWayBack DEF TakenOver, team
      <3>2. \A m \in Leads \ {l} : leadState'[m] = leadState[m] BY <1>1, <2>2 DEF TakenOver
      <3> QED BY <2>2, <3>1, <3>2, AnsweredHalt DEF TakenOver
    <2>3. ASSUME NEW r \in reports, CrmInboundCommit(r) PROVE HaltInv'
      <3> DEFINE l == dealOf[r.deal]
      <3>1. l \in Leads /\ r.type \in {"won", "lost"} BY DEF TypeInv, CrmType, Report
      <3>2. UNCHANGED <<wk, acked>> BY <2>3 DEF CrmInboundCommit, team
      <3>3. CASE CanTransition(r.state, r.type)
        <4>1. leadState' = [leadState EXCEPT ![l] = r.type] /\ Answered(l)
          BY <2>3, <3>3 DEF CrmInboundCommit
        <4> HIDE DEF l
        <4>2. leadState'[l] \notin Waiting BY <1>1, <3>1, <4>1, NoWayBack
        <4>3. \A m \in Leads \ {l} : leadState'[m] = leadState[m] BY <1>1, <4>1
        <4> QED BY <3>1, <3>2, <4>1, <4>2, <4>3, AnsweredHalt
      <3>4. CASE ~CanTransition(r.state, r.type)
        BY <2>3, <3>2, <3>4, QuietHalt DEF CrmInboundCommit
      <3> QED BY <3>3, <3>4
    <2>4. CASE \/ \E l \in Leads : Requested(Assign(l)) \/ Requested(Sync(l))
               \/ \E d \in Deals, type \in {"won", "lost"} : CrmInboundBegin(d, type)
               \/ \E j \in Jobs : Stall(j) \/ Forgotten(j)
      BY <2>4, QuietHalt DEF Requested, CrmInboundBegin, Stall, Forgotten, team, history
    <2>5. ASSUME NEW w \in Workers, Crash(w) PROVE HaltInv'
      <3>1. \A u \in Workers : wk'[u].pc = "escalate" => wk'[u] = wk[u]
        BY <1>1, <2>5 DEF Crash, CutOff, Leave, Idle
      <3> QED BY <2>5, <3>1, QuietHalt DEF Crash, CutOff, team
    <2> QED BY <1>6, <2>1, <2>2, <2>3, <2>4, <2>5, HandoffAssumption DEF Environment
  <1> QED BY <1>2, <1>3, <1>4, <1>5, <1>6, ProceedsGoesOn DEF Next

(* What a step that escalates lead l at step i owes to the lead. *)
EscalatesWaiting(l, i) ==
    l \in answered /\ escalated'[l][i] > escalated[l][i]
        => \E w \in late : wk[w].job = Esc(l, i) /\ wk[w].pc = "escalate" /\ wk'[w].pc = "done"

(* Only EscalateCommit writes an escalation. *)
LEMMA OnlyEscalates ==
    ASSUME TypeInv, [Next]_vars PROVE UNCHANGED escalated \/ \E w \in Workers : EscalateCommit(w)
  <1>1. ASSUME NEW w \in Workers, Proceeds(w) PROVE UNCHANGED escalated \/ EscalateCommit(w)
    BY <1>1 DEF Proceeds, AssignmentStep, CrmStep, AssignCommit, EnqueueEscalation, UpsertContact,
       UpsertDeal, Annotate, CallFails, MapCommit, MarkFailed, Finish, Throw, CutOff, team
  <1>2. ASSUME NEW w \in Workers, NEW j \in Jobs, Takes(w, j) PROVE UNCHANGED escalated
    BY <1>2, TakesBegins DEF Begins
  <1>3. CASE Environment BY <1>3, EnvironmentOutside DEF Outside, Leaves
  <1>4. CASE UNCHANGED vars BY <1>4 DEF vars, team
  <1> QED BY <1>1, <1>2, <1>3, <1>4 DEF Next

(* And it writes it for the lead and the step of its job, which was under  *)
(* way when the lead was answered, if it was.                              *)
LEMMA EscalateCommitWaits ==
    ASSUME TypeInv, HaltInv, NEW w \in Workers, EscalateCommit(w),
           NEW l \in Leads, NEW i \in 1..Ladder
    PROVE  EscalatesWaiting(l, i)
  <1> DEFINE m == LeadFor(w)
             k == wk[w].job[3]
  <1>1. /\ m \in Leads /\ k \in 1..Ladder
        /\ wk[w].job = Esc(m, k) /\ wk[w].pc = "escalate"
        /\ m \in answered => w \in late
    BY LeadOfJob, Constants DEF EscalateCommit, HaltInv
  <1>2. wk'[w].pc = "done" BY DEF EscalateCommit, Done, TypeInv, WorkersInv, Idle
  <1>3. escalated' = [escalated EXCEPT ![m][k] = escalated[m][k] + 1] BY DEF EscalateCommit
  <1> HIDE DEF m, k
  <1>4. escalated \in [Leads -> [1..Ladder -> Nat]] BY DEF TypeInv, TeamType
  <1>5. CASE m = l /\ k = i BY <1>1, <1>2, <1>5 DEF EscalatesWaiting
  <1>6. CASE m # l
    <2>1. escalated'[l] = escalated[l] BY <1>1, <1>3, <1>4, <1>6
    <2>2. escalated[l][i] \in Nat BY <1>4
    <2> QED BY <2>1, <2>2 DEF EscalatesWaiting
  <1>7. CASE m = l /\ k # i
    <2>1. escalated'[l] = [escalated[l] EXCEPT ![k] = escalated[m][k] + 1]
      BY <1>1, <1>3, <1>4, <1>7
    <2>2. escalated[l] \in [1..Ladder -> Nat] BY <1>4
    <2>3. escalated'[l][i] = escalated[l][i] BY <1>7, <2>1, <2>2
    <2>4. escalated[l][i] \in Nat BY <2>2
    <2> QED BY <2>3, <2>4 DEF EscalatesWaiting
  <1> QED BY <1>5, <1>6, <1>7

(* "Acknowledgement halts the ladder": once a lead was acknowledged or     *)
(* moved on, only an execution that was at the step just then escalates    *)
(* it, through retries, repeated assignments and forgotten jobs.           *)
THEOREM LadderHalts == Spec => EscalationHalts
  <1>1. Init => HaltInv BY DEF Init, HaltInv, Idle
  <1>2. TypeInv /\ HaltInv /\ [Next]_vars
           => [\A l \in answered, i \in 1..Ladder : escalated'[l][i] > escalated[l][i]
                 => \E w \in late :
                       wk[w].job = Esc(l, i) /\ wk[w].pc = "escalate" /\ wk'[w].pc = "done"]_vars
    <2> SUFFICES ASSUME TypeInv, HaltInv, [Next]_vars, NEW l \in answered, NEW i \in 1..Ladder,
                        escalated'[l][i] > escalated[l][i]
                 PROVE  \E w \in late :
                           wk[w].job = Esc(l, i) /\ wk[w].pc = "escalate" /\ wk'[w].pc = "done"
      OBVIOUS
    <2>1. l \in Leads BY DEF TypeInv, HistoryType
    <2>2. escalated' # escalated
      <3>1. escalated[l] \in [1..Ladder -> Nat] BY <2>1 DEF TypeInv, TeamType
      <3>2. escalated[l][i] \in Nat BY <3>1
      <3> QED BY <3>2
    <2> QED BY <2>1, <2>2, OnlyEscalates, EscalateCommitWaits DEF EscalatesWaiting
  <1> QED BY <1>1, <1>2, HaltStep, TypeInvariant, PTL DEF Spec, EscalationHalts

-----------------------------------------------------------------------------
(* OnePrimary.                                                             *)

(* A job no execution of which was cut off has one execution at most, and  *)
(* that one holds the job's lock.                                          *)
LockInv ==
    \A w \in Workers :
        wk[w].job \in Jobs \ cut => jobState[wk[w].job] = "active" /\ holder[wk[w].job] = w

(* A job that is taken up waited, so nobody was at it. *)
LEMMA BeginsLocks ==
    ASSUME TypeInv, LockInv, NEW w \in Workers, NEW j \in Jobs, Begins(w, j) PROVE LockInv'
  <1> SUFFICES ASSUME NEW u \in Workers, wk'[u].job \in Jobs \ cut
               PROVE  jobState'[wk'[u].job] = "active" /\ holder'[wk'[u].job] = u
    BY DEF LockInv, Begins
  <1>1. jobState \in [Jobs -> QP!JobStatus] /\ holder \in [Jobs -> Workers \cup {None}]
    BY DEF TypeInv, QP!QueueInv, QP!QueueTypeOK
  <1>2. jobState[j] = "waiting" /\ jobState' = [jobState EXCEPT ![j] = "active"]
        /\ holder' = [holder EXCEPT ![j] = w]
    BY DEF Begins, Q!Take
  <1>3. CASE u = w BY <1>1, <1>2, <1>3 DEF Begins
  <1>4. CASE u # w
    <2>1. wk'[u] = wk[u] BY <1>4 DEF Begins
    <2>2. jobState[wk[u].job] = "active" /\ holder[wk[u].job] = u BY <2>1 DEF LockInv
    <2> QED BY <1>1, <1>2, <2>1, <2>2
  <1> QED BY <1>3, <1>4

(* Nothing a worker does before it leaves touches the lock of a job. *)
LEMMA GoesOnLocks ==
    ASSUME TypeInv, LockInv, NEW w \in Workers, GoesOn(w) PROVE LockInv'
  <1>1. \A u \in Workers : wk'[u].job = wk[u].job BY DEF GoesOn
  <1>2. jobState \in [Jobs -> QP!JobStatus]
    BY DEF TypeInv, QP!QueueInv, QP!QueueTypeOK
  <1>3. /\ \A j \in Jobs : jobState[j] = "active" => jobState'[j] = "active"
        /\ holder' = holder
    BY <1>2 DEF GoesOn, Q!Add, queueVars
  <1> QED BY <1>1, <1>3 DEF LockInv, GoesOn

(* A worker that leaves a job takes its lock along, and no other job's. *)
LEMMA LeavesLocks ==
    ASSUME TypeInv, LockInv, NEW w \in Workers, Leaves(w) PROVE LockInv'
  <1> SUFFICES ASSUME NEW u \in Workers, wk'[u].job \in Jobs \ cut'
               PROVE  jobState'[wk'[u].job] = "active" /\ holder'[wk'[u].job] = u
    BY DEF LockInv
  <1> DEFINE j == wk[w].job
  <1>1. /\ jobState \in [Jobs -> QP!JobStatus] /\ holder \in [Jobs -> Workers \cup {None}]
        /\ wk \in [Workers -> Execution]
    BY DEF TypeInv, QP!QueueInv, QP!QueueTypeOK, WorkersInv
  <1>2. u # w /\ wk'[u] = wk[u] BY <1>1, Constants DEF Leaves, Idle
  <1>3. wk[u].job \in Jobs \ cut BY <1>2 DEF Leaves
  <1>4. jobState[wk[u].job] = "active" /\ holder[wk[u].job] = u BY <1>3 DEF LockInv
  <1>5. j \in Jobs /\ wk[u].job # j
    <2>1. CASE Q!Complete(w, j) /\ UNCHANGED cut BY <1>2, <1>4, <2>1 DEF Leaves, LockInv
    <2>2. CASE cut' = cut \cup {j} BY <1>2, <2>2 DEF Leaves
    <2> QED BY <2>1, <2>2 DEF Leaves
  <1>6. jobState'[wk[u].job] = jobState[wk[u].job] /\ holder'[wk[u].job] = holder[wk[u].job]
    BY <1>1, <1>3, <1>5 DEF Leaves, Q!Complete, Q!Reject, queueVars
  <1> QED BY <1>2, <1>4, <1>6

(* The stalled-job check takes a lock away, and the job is cut off. *)
LEMMA OutsideLocks == ASSUME TypeInv, LockInv, Outside PROVE LockInv'
  <1>1. jobState \in [Jobs -> QP!JobStatus] /\ holder \in [Jobs -> Workers \cup {None}]
    BY DEF TypeInv, QP!QueueInv, QP!QueueTypeOK
  <1>2. /\ wk' = wk /\ cut \subseteq cut'
        /\ \A j \in Jobs \ cut' : jobState[j] = "active"
              => jobState'[j] = "active" /\ holder'[j] = holder[j]
    BY <1>1, JobIds DEF Outside, Q!Add, Q!Evict, Q!Stall, queueVars
  <1> QED BY <1>2 DEF LockInv

(* LockInv is inductive on top of TypeInv. *)
LEMMA LockStep == TypeInv /\ LockInv /\ [Next]_vars => LockInv'
  <1> SUFFICES ASSUME TypeInv, LockInv, [Next]_vars PROVE LockInv' OBVIOUS
  <1>1. CASE UNCHANGED vars BY <1>1 DEF vars, queueVars, history, LockInv
  <1> QED BY <1>1, TakesBegins, ProceedsGoesOn, EnvironmentOutside, BeginsLocks, GoesOnLocks,
             LeavesLocks, OutsideLocks DEF Next

(* Such an assignment inserts one row, and one more each time that its id  *)
(* was forgotten; before its execution commits, the last is still to come. *)
AssignInv ==
    \A l \in Leads : Assign(l) \notin cut =>
        /\ primaries[l] <= 1 + forgotten[Assign(l)]
        /\ jobState[Assign(l)] \in {"absent", "waiting"} => primaries[l] <= forgotten[Assign(l)]
        /\ \A w \in Workers : wk[w].job = Assign(l) /\ wk[w].pc = "assign"
              => primaries[l] <= forgotten[Assign(l)]

(* Only AssignCommit inserts a primary row, one for the lead of its job. *)
LEMMA PrimariesOf ==
    ASSUME TypeInv, NEW w \in Workers, Proceeds(w)
    PROVE  \/ UNCHANGED primaries
           \/ /\ wk[w].pc = "assign" /\ LeadFor(w) \in Leads /\ wk[w].job = Assign(LeadFor(w))
              /\ primaries' = [primaries EXCEPT ![LeadFor(w)] = @ + 1]
  BY LeadOfJob
  DEF Proceeds, AssignmentStep, CrmStep, AssignCommit, EnqueueEscalation, EscalateCommit,
      UpsertContact, UpsertDeal, Annotate, CallFails, MapCommit, MarkFailed, Finish, Throw,
      CutOff, team

(* A job waits again only if it was cut off or forgotten.                  *)
LEMMA NotAgain ==
    ASSUME TypeInv, NEW l \in Leads, Assign(l) \notin cut',
           forgotten'[Assign(l)] = forgotten[Assign(l)],
           jobState'[Assign(l)] \in {"absent", "waiting"},
           \/ Outside
           \/ \E w \in Workers : GoesOn(w) \/ Leaves(w)
           \/ \E w \in Workers, j \in Jobs : Begins(w, j)
    PROVE  jobState[Assign(l)] \in {"absent", "waiting"}
  <1>1. jobState \in [Jobs -> QP!JobStatus] BY DEF TypeInv, QP!QueueInv, QP!QueueTypeOK
  <1>2. Assign(l) \in Jobs BY JobIds
  <1>3. CASE Outside
    <2>1. CASE \E j \in Jobs : Q!Evict(j) /\ forgotten' = [forgotten EXCEPT ![j] = @ + 1]
      <3>1. PICK j \in Jobs : Q!Evict(j) /\ forgotten' = [forgotten EXCEPT ![j] = @ + 1]
        BY <2>1
      <3>2. forgotten \in [Jobs -> Nat] BY DEF TypeInv, HistoryType
      <3>3. j # Assign(l)
        <4>1. CASE j = Assign(l)
          <5>1. forgotten'[j] = forgotten[j] + 1 BY <3>1, <3>2
          <5>2. forgotten[j] \in Nat BY <3>2
          <5> QED BY <4>1, <5>1, <5>2
        <4> QED BY <4>1
      <3> QED BY <1>1, <1>2, <3>1, <3>3 DEF Q!Evict
    <2>2. CASE ~ \E j \in Jobs : Q!Evict(j) /\ forgotten' = [forgotten EXCEPT ![j] = @ + 1]
      BY <1>1, <1>2, <1>3, <2>2 DEF Outside, Q!Add, Q!Stall, queueVars
    <2> QED BY <2>1, <2>2
  <1>4. ASSUME NEW w \in Workers, GoesOn(w) PROVE jobState[Assign(l)] \in {"absent", "waiting"}
    BY <1>1, <1>2, <1>4 DEF GoesOn, Q!Add, queueVars
  <1>5. ASSUME NEW w \in Workers, Leaves(w) PROVE jobState[Assign(l)] \in {"absent", "waiting"}
    <2>1. CASE Q!Complete(w, wk[w].job) BY <1>1, <1>2, <1>5, <2>1 DEF Leaves, Q!Complete
    <2>2. CASE /\ Q!Reject(w, wk[w].job) \/ UNCHANGED queueVars
               /\ cut' = cut \cup {wk[w].job}
      BY <1>1, <1>2, <1>5, <2>2 DEF Q!Reject, queueVars
    <2> QED BY <1>5, <2>1, <2>2 DEF Leaves
  <1>6. ASSUME NEW w \in Workers, NEW j \in Jobs, Begins(w, j)
        PROVE  jobState[Assign(l)] \in {"absent", "waiting"}
    BY <1>1, <1>2, <1>6 DEF Begins, Q!Take
  <1> QED BY <1>3, <1>4, <1>5, <1>6

(* What AssignInv says of lead l.                                          *)
AssignedOnce(l) ==
    /\ primaries[l] <= 1 + forgotten[Assign(l)]
    /\ jobState[Assign(l)] \in {"absent", "waiting"} => primaries[l] <= forgotten[Assign(l)]
    /\ \A w \in Workers : wk[w].job = Assign(l) /\ wk[w].pc = "assign"
          => primaries[l] <= forgotten[Assign(l)]

(* A step that inserts no primary row of the lead keeps it.                *)
LEMMA QuietAssign ==
    ASSUME TypeInv, NEW l \in Leads, Assign(l) \notin cut', AssignedOnce(l),
           primaries'[l] = primaries[l], forgotten'[Assign(l)] = forgotten[Assign(l)],
           jobState'[Assign(l)] \in {"absent", "waiting"}
              => jobState[Assign(l)] \in {"absent", "waiting"},
           \A u \in Workers : wk'[u].job = Assign(l) /\ wk'[u].pc = "assign"
              => wk'[u] = wk[u] \/ jobState[Assign(l)] = "waiting"
    PROVE  AssignedOnce(l)'
  BY DEF AssignedOnce

(* And a completed assignment that is forgotten may insert another. *)
LEMMA ForgetAssign ==
    ASSUME TypeInv, NEW l \in Leads, AssignedOnce(l), primaries' = primaries,
           forgotten' = [forgotten EXCEPT ![Assign(l)] = @ + 1]
    PROVE  AssignedOnce(l)'
  <1>1. Assign(l) \in Jobs BY JobIds
  <1>2. forgotten[Assign(l)] \in Nat /\ primaries[l] \in Nat
        /\ forgotten'[Assign(l)] = forgotten[Assign(l)] + 1
    BY <1>1 DEF TypeInv, TeamType, HistoryType
  <1>3. primaries'[l] <= forgotten'[Assign(l)] BY <1>2 DEF AssignedOnce
  <1>4. primaries'[l] <= 1 + forgotten'[Assign(l)] BY <1>2, <1>3
  <1> QED BY <1>3, <1>4 DEF AssignedOnce

(* And the one step that inserts one finds it still to come.               *)
LEMMA CommitAssign ==
    ASSUME TypeInv, LockInv, NEW w \in Workers, GoesOn(w), wk[w].pc = "assign",
           NEW l \in Leads, wk[w].job = Assign(l), Assign(l) \notin cut', AssignedOnce(l),
           primaries' = [primaries EXCEPT ![l] = @ + 1]
    PROVE  AssignedOnce(l)'
  <1>1. /\ primaries \in [Leads -> Nat] /\ forgotten \in [Jobs -> Nat]
        /\ jobState \in [Jobs -> QP!JobStatus]
    BY DEF TypeInv, TeamType, HistoryType, QP!QueueInv, QP!QueueTypeOK
  <1>2. Assign(l) \in Jobs \ cut BY JobIds DEF GoesOn
  <1>3. jobState[Assign(l)] = "active" /\ holder[Assign(l)] = w BY <1>2 DEF LockInv
  <1>4. primaries'[l] <= 1 + forgotten'[Assign(l)]
    <2>1. primaries[l] <= forgotten[Assign(l)] BY DEF AssignedOnce
    <2>2. primaries'[l] = primaries[l] + 1 /\ forgotten' = forgotten BY <1>1 DEF GoesOn
    <2>3. primaries[l] \in Nat /\ forgotten[Assign(l)] \in Nat BY <1>1, <1>2
    <2> QED BY <2>1, <2>2, <2>3
  <1>5. jobState'[Assign(l)] = "active"
    BY <1>1, <1>2, <1>3 DEF GoesOn, Q!Add, queueVars
  <1>6. ASSUME NEW u \in Workers, wk'[u].job = Assign(l), wk'[u].pc = "assign" PROVE FALSE
    <2>1. u # w /\ wk'[u] = wk[u] BY <1>6 DEF GoesOn
    <2>2. holder[Assign(l)] = u BY <1>2, <1>6, <2>1 DEF LockInv
    <2> QED BY <1>3, <2>1, <2>2
  <1> QED BY <1>4, <1>5, <1>6 DEF AssignedOnce

(* AssignInv is inductive on top of TypeInv and LockInv. *)
LEMMA AssignStep == TypeInv /\ LockInv /\ AssignInv /\ [Next]_vars => AssignInv'
  <1> SUFFICES ASSUME TypeInv, LockInv, AssignInv, [Next]_vars, NEW l \in Leads,
                      Assign(l) \notin cut'
               PROVE  AssignedOnce(l)'
    BY DEF AssignInv, AssignedOnce
  <1>1. primaries \in [Leads -> Nat] /\ wk \in [Workers -> Execution]
    BY DEF TypeInv, TeamType, WorkersInv
  <1>2. CASE UNCHANGED vars
    BY <1>2 DEF AssignInv, AssignedOnce, vars, team, history, queueVars
  <1>3. ASSUME Assign(l) \notin cut PROVE AssignedOnce(l)
    BY <1>3 DEF AssignInv, AssignedOnce
  <1>4. ASSUME NEW w \in Workers, NEW j \in Jobs, Takes(w, j) PROVE AssignedOnce(l)'
    <2>1. Begins(w, j) BY <1>4, TakesBegins
    <2>2. Assign(l) \notin cut /\ UNCHANGED <<primaries, forgotten>> BY <2>1 DEF Begins
    <2>3. ASSUME NEW u \in Workers, wk'[u].job = Assign(l)
          PROVE  wk'[u] = wk[u] \/ jobState[Assign(l)] = "waiting"
      BY <2>1, <2>3 DEF Begins, Q!Take
    <2> QED BY <1>3, <2>1, <2>2, <2>3, NotAgain, QuietAssign
  <1>5. ASSUME NEW w \in Workers, GoesOn(w), Proceeds(w) PROVE AssignedOnce(l)'
    <2>1. Assign(l) \notin cut /\ UNCHANGED forgotten BY <1>5 DEF GoesOn
    <2>2. CASE primaries'[l] = primaries[l]
      BY <1>3, <1>5, <2>1, <2>2, NotAgain, QuietAssign DEF GoesOn
    <2>3. CASE primaries'[l] # primaries[l]
      BY <1>1, <1>3, <1>5, <2>1, <2>3, PrimariesOf, CommitAssign
    <2> QED BY <2>2, <2>3
  <1>6. ASSUME NEW w \in Workers, Leaves(w) PROVE AssignedOnce(l)'
    <2>1. Assign(l) \notin cut /\ UNCHANGED <<primaries, forgotten>> BY <1>6 DEF Leaves
    <2>2. ASSUME NEW u \in Workers, wk'[u].pc = "assign" PROVE wk'[u] = wk[u]
      BY <1>1, <1>6, <2>2 DEF Leaves, Idle
    <2> QED BY <1>3, <1>6, <2>1, <2>2, NotAgain, QuietAssign
  <1>7. CASE Outside
    <2>1. Assign(l) \notin cut /\ UNCHANGED <<primaries, wk>> BY <1>7 DEF Outside
    <2>2. CASE forgotten'[Assign(l)] = forgotten[Assign(l)]
      BY <1>3, <1>7, <2>1, <2>2, NotAgain, QuietAssign
    <2>3. CASE forgotten'[Assign(l)] # forgotten[Assign(l)]
      <3>1. PICK j \in Jobs : forgotten' = [forgotten EXCEPT ![j] = @ + 1]
        BY <1>7, <2>3 DEF Outside
      <3>2. j = Assign(l) BY <2>3, <3>1 DEF TypeInv, HistoryType
      <3> QED BY <1>3, <2>1, <3>1, <3>2, ForgetAssign
    <2> QED BY <2>2, <2>3
  <1> QED BY <1>2, <1>4, <1>5, <1>6, <1>7, ProceedsGoesOn, EnvironmentOutside DEF Next

(* Of an assignment that was never cut off a lead has one primary row, and *)
(* at most one more each time that the completed job was forgotten.        *)
THEOREM NoSecondPrimary == Spec => []OnePrimary
  <1>1. Init => LockInv /\ AssignInv
    BY Constants, JobIds DEF Init, LockInv, AssignInv, Idle
  <1>2. TypeInv /\ AssignInv => OnePrimary
    BY JobIds DEF AssignInv, OnePrimary, TypeInv, TeamType, HistoryType
  <1> QED BY <1>1, <1>2, LockStep, AssignStep, TypeInvariant, PTL DEF Spec

-----------------------------------------------------------------------------
(* CapRespected.                                                           *)

(* Unless two assignments overlapped the loads an assignment has read are  *)
(* those it commits to.                                                    *)
CapInv ==
    /\ ~raced => \A u, w \in Workers : wk[u].pc = "assign" /\ wk[w].pc = "assign" => u = w
    /\ ~raced /\ ~forced =>
         /\ \A r \in Reps : Load(r) <= Profile[r].cap
         /\ \A w \in Workers : wk[w].pc = "assign" =>
              wk[w].primary \in Reps /\ Load(wk[w].primary) < Profile[wk[w].primary].cap

(* One more lead is one more at most, and for its new rep only. *)
LEMMA LoadGrows ==
    ASSUME TypeInv, NEW l \in Leads, NEW p, assigned' = [assigned EXCEPT ![l] = p], NEW r
    PROVE  /\ Load(r) \in Nat /\ Load(r)' \in Nat
           /\ Load(r)' <= Load(r) + 1
           /\ r # p => Load(r)' <= Load(r)
  <1> DEFINE before == {m \in Leads : assigned[m] = r}
             after  == {m \in Leads : assigned'[m] = r}
  <1>1. IsFiniteSet(Leads) /\ assigned \in [Leads -> Reps \cup {None}]
    BY HandoffAssumption DEF TypeInv, TeamType
  <1>2. IsFiniteSet(before) /\ IsFiniteSet(after) BY <1>1, FS_Subset
  <1>3. Load(r) = Cardinality(before) /\ Load(r)' = Cardinality(after) BY DEF Load
  <1>4. Cardinality(before) \in Nat /\ Cardinality(after) \in Nat BY <1>2, FS_CardinalityType
  <1>5. Cardinality(after) <= Cardinality(before) + 1
    <2>1. after \subseteq before \cup {l} BY <1>1
    <2>2. IsFiniteSet(before \cup {l})
          /\ \/ Cardinality(before \cup {l}) = Cardinality(before) + 1
             \/ before \cup {l} = before
      BY <1>2, FS_AddElement
    <2>3. Cardinality(after) <= Cardinality(before \cup {l}) BY <2>1, <2>2, FS_Subset
    <2>4. Cardinality(before \cup {l}) \in Nat BY <2>2, FS_CardinalityType
    <2>5. Cardinality(before \cup {l}) <= Cardinality(before) + 1
      <3> DEFINE n == Cardinality(before)
                 k == Cardinality(before \cup {l})
      <3>1. k = n + 1 \/ k = n BY <2>2
      <3>2. n \in Nat BY <1>4
      <3> HIDE DEF n, k
      <3>3. k <= n + 1 BY <3>1, <3>2
      <3> QED BY <3>3 DEF n, k
    <2> QED BY <1>4, <2>3, <2>4, <2>5
  <1>6. ASSUME r # p PROVE Cardinality(after) <= Cardinality(before)
    <2>1. after \subseteq before BY <1>1, <1>6
    <2> QED BY <1>2, <2>1, FS_Subset
  <1> QED BY <1>3, <1>4, <1>5, <1>6

(* Loads and caps are numbers. *)
LEMMA LoadType ==
    ASSUME TypeInv PROVE \A r \in Reps : Load(r) \in Nat /\ Profile[r].cap \in Nat
  <1>1. ASSUME NEW r \in Reps PROVE Load(r) \in Nat
    <2>1. IsFiniteSet({m \in Leads : assigned[m] = r}) BY HandoffAssumption, FS_Subset
    <2> QED BY <2>1, FS_CardinalityType DEF Load
  <1> QED BY <1>1, HandoffAssumption

(* An assignment is routed to a rep under the cap, or nobody was eligible. *)
LEMMA AssignBeginCap ==
    ASSUME TypeInv, CapInv, NEW w \in Workers, NEW l \in Leads, AssignBegin(w, l)
    PROVE  CapInv'
  <1> DEFINE load == [r \in Reps |-> Load(r)]
             E == Eligible(Pool(Profile, Inquiry[l]), Profile, load)
  <1>1. PICK res \in RouteLead(Profile, Inquiry[l], load, cursor, None) :
           wk' = [wk EXCEPT ![w] =
                    [Idle EXCEPT !.job = Assign(l), !.pc = "assign", !.primary = res.primary,
                                 !.fallback = res.fallback, !.cursor = res.cursor]]
    BY DEF AssignBegin
  <1>2. /\ raced' = (raced \/ \E u \in Workers : wk[u].pc = "assign")
        /\ forced' = (forced \/ E = {})
        /\ assigned' = assigned
    BY DEF AssignBegin, team
  <1>3. wk'[w].primary = res.primary /\ \A u \in Workers \ {w} : wk'[u] = wk[u]
    BY <1>1 DEF TypeInv, WorkersInv, Idle
  <1>4. \A r : Load(r)' = Load(r) BY <1>2 DEF Load
  <1>5. ASSUME ~raced', NEW u \in Workers, wk'[u].pc = "assign" PROVE u = w
    BY <1>2, <1>3, <1>5
  <1>6. ASSUME ~forced'
        PROVE  res.primary \in Reps /\ Load(res.primary) < Profile[res.primary].cap
    <2>1. res.primary \in E BY <1>2, <1>6, RouteLeadPicks
    <2>2. res.primary \in Pool(Profile, Inquiry[l]) /\ load[res.primary] < Profile[res.primary].cap
      BY <2>1 DEF Eligible
    <2>3. res.primary \in Reps BY <2>2, HandoffAssumption DEF Pool, Narrow
    <2> QED BY <2>2, <2>3
  <1> HIDE DEF load, E
  <1>7. ~raced' => ~raced BY <1>2
  <1>8. ~forced' => ~forced BY <1>2
  <1> QED BY <1>3, <1>4, <1>5, <1>6, <1>7, <1>8 DEF CapInv

(* The commit adds the lead to the load that was read. *)
LEMMA AssignCommitCap ==
    ASSUME TypeInv, CapInv, NEW w \in Workers, GoesOn(w), AssignCommit(w) PROVE CapInv'
  <1> DEFINE l == LeadFor(w)
             p == wk[w].primary
  <1>1. l \in Leads /\ wk[w].pc = "assign" BY LeadOfJob DEF AssignCommit
  <1>2. assigned' = [assigned EXCEPT ![l] = p] BY DEF AssignCommit
  <1>3. ASSUME ~raced' PROVE \A u \in Workers : wk'[u].pc # "assign"
    BY <1>1, <1>3 DEF GoesOn, CapInv
  <1>4. ASSUME ~raced', ~forced', NEW r \in Reps PROVE Load(r)' <= Profile[r].cap
    <2>1. ~raced /\ ~forced BY <1>4 DEF GoesOn
    <2>2. Load(r) <= Profile[r].cap /\ (r = p => Load(r) < Profile[r].cap)
      BY <1>1, <2>1 DEF CapInv
    <2>3. Load(r) \in Nat /\ Load(r)' \in Nat /\ Load(r)' <= Load(r) + 1
          /\ (r # p => Load(r)' <= Load(r))
      BY <1>1, <1>2, LoadGrows
    <2>4. Profile[r].cap \in Nat BY HandoffAssumption
    <2> HIDE DEF p, l
    <2> QED BY <2>2, <2>3, <2>4
  <1> QED BY <1>3, <1>4 DEF CapInv

(* A step that routes nothing. *)
LEMMA QuietCap ==
    ASSUME CapInv, UNCHANGED <<assigned, raced, forced>>,
           \A u \in Workers : wk'[u].pc = "assign" => wk'[u] = wk[u]
    PROVE  CapInv'
  <1>1. \A r : Load(r)' = Load(r) BY DEF Load
  <1> QED BY <1>1 DEF CapInv

(* CapInv is inductive on top of TypeInv. *)
LEMMA CapStep == TypeInv /\ CapInv /\ [Next]_vars => CapInv'
  <1> SUFFICES ASSUME TypeInv, CapInv, [Next]_vars PROVE CapInv' OBVIOUS
  <1>1. wk \in [Workers -> Execution] BY DEF TypeInv, WorkersInv
  <1>2. CASE UNCHANGED vars BY <1>2, QuietCap DEF vars, team, history
  <1>3. ASSUME NEW w \in Workers, NEW j \in Jobs, Takes(w, j) PROVE CapInv'
    <2>1. CASE \E l \in Leads : AssignBegin(w, l) BY <2>1, AssignBeginCap
    <2>2. CASE \E l \in Leads : SyncBegin(w, l)
      BY <1>1, <2>2, QuietCap DEF SyncBegin, team, Idle
    <2>3. CASE \E l \in Leads, i \in 1..Ladder : EscalateBegin(w, l, i)
      BY <1>1, <2>3, QuietCap DEF EscalateBegin, team, history, Idle
    <2> QED BY <1>3, <2>1, <2>2, <2>3 DEF Takes
  <1>4. ASSUME NEW w \in Workers, GoesOn(w), Proceeds(w) PROVE CapInv'
    <2>1. CASE AssignCommit(w) BY <1>4, <2>1, AssignCommitCap
    <2>2. CASE UNCHANGED assigned BY <1>4, <2>2, QuietCap DEF GoesOn
    <2>3. UNCHANGED assigned \/ AssignCommit(w)
      BY <1>4 DEF Proceeds, AssignmentStep, CrmStep, EnqueueEscalation, EscalateCommit,
         UpsertContact, UpsertDeal, Annotate, CallFails, MapCommit, MarkFailed, Finish, Throw,
         CutOff, team
    <2> QED BY <2>1, <2>2, <2>3
  <1>5. ASSUME NEW w \in Workers, Leaves(w) PROVE CapInv'
    <2>1. \A u \in Workers : wk'[u].pc = "assign" => wk'[u] = wk[u]
      BY <1>1, <1>5 DEF Leaves, Idle
    <2> QED BY <1>5, <2>1, QuietCap DEF Leaves
  <1>6. CASE Outside BY <1>6, QuietCap DEF Outside
  <1> QED BY <1>2, <1>3, <1>4, <1>5, <1>6, ProceedsGoesOn, EnvironmentOutside DEF Next

(* No rep gets a lead past their cap, unless two assignments overlapped or *)
(* nobody was eligible.                                                    *)
THEOREM CapsHold == Spec => []CapRespected
  <1>1. Init => CapInv
    <2> SUFFICES ASSUME Init PROVE CapInv OBVIOUS
    <2>1. \A w \in Workers : wk[w].pc # "assign" BY DEF Init, Idle
    <2>2. ASSUME NEW r \in Reps PROVE Load(r) = 0
      <3>1. \A l \in Leads : assigned[l] # r BY HandoffAssumption DEF Init
      <3>2. {l \in Leads : assigned[l] = r} = {} BY <3>1
      <3> QED BY <3>2, FS_EmptySet DEF Load
    <2>3. \A r \in Reps : Load(r) <= Profile[r].cap BY <2>2, HandoffAssumption
    <2> QED BY <2>1, <2>3 DEF CapInv
  <1>2. CapInv => CapRespected BY DEF CapInv, CapRespected
  <1> QED BY <1>1, <1>2, CapStep, TypeInvariant, PTL DEF Spec

-----------------------------------------------------------------------------
(* OneDeal.                                                                *)

(* Of a lead whose synchronisations never overlapped there is one          *)
(* execution, which works on the mapped deal if there is one; every deal   *)
(* that is not lost is mapped or about to be.                              *)
DealInv ==
    \A l \in Leads \ overtaken :
        /\ \A u, w \in Workers : wk[u].job = Sync(l) /\ wk[w].job = Sync(l) => u = w
        /\ \A w \in Workers : wk[w].job = Sync(l) =>
             /\ wk[w].pc \in {"contact", "deal"} => wk[w].deal = mapping[l]
             /\ wk[w].pc \in {"note", "map"} /\ mapping[l] # None => wk[w].deal = mapping[l]
        /\ \A d \in Deals \ lost : dealOf[d] = l =>
             \/ mapping[l] = d
             \/ \E w \in Workers :
                   wk[w].job = Sync(l) /\ wk[w].pc \in {"note", "map"} /\ wk[w].deal = d

(* What DealInv says of lead l. *)
DealsOf(l) ==
    /\ \A u, w \in Workers : wk[u].job = Sync(l) /\ wk[w].job = Sync(l) => u = w
    /\ \A w \in Workers : wk[w].job = Sync(l) =>
         /\ wk[w].pc \in {"contact", "deal"} => wk[w].deal = mapping[l]
         /\ wk[w].pc \in {"note", "map"} /\ mapping[l] # None => wk[w].deal = mapping[l]
    /\ \A d \in Deals \ lost : dealOf[d] = l =>
         \/ mapping[l] = d
         \/ \E w \in Workers :
               wk[w].job = Sync(l) /\ wk[w].pc \in {"note", "map"} /\ wk[w].deal = d

(* A step that neither begins nor goes on with a synchronisation of the    *)
(* lead.                                                                   *)
LEMMA QuietDeals ==
    ASSUME NEW l \in Leads, DealsOf(l),
           \A u \in Workers : wk'[u].job = Sync(l) => wk'[u] = wk[u],
           \A u \in Workers : wk[u].job = Sync(l) => wk'[u] = wk[u],
           mapping'[l] = mapping[l], lost \subseteq lost',
           \A d \in Deals : dealOf'[d] = l => dealOf[d] = l
    PROVE  DealsOf(l)'
  BY DEF DealsOf

(* The lead's only synchronisation goes on without a new deal: it keeps    *)
(* its deal, or gives it up as lost.                                       *)
LEMMA GoOnDeals ==
    ASSUME NEW l \in Leads, DealsOf(l), NEW w \in Workers, wk[w].job = Sync(l),
           \A u \in Workers \ {w} : wk'[u] = wk[u],
           mapping' = mapping, dealOf' = dealOf, lost \subseteq lost',
           wk'[w].pc \in {"contact", "deal"} =>
              wk[w].pc \in {"contact", "deal"} /\ wk'[w].deal = wk[w].deal,
           wk'[w].pc \in {"note", "map"} =>
              /\ wk[w].pc \in {"contact", "deal", "note", "map"}
              /\ wk'[w].deal = wk[w].deal,
           wk[w].pc \in {"note", "map"} =>
              \/ wk'[w].job = Sync(l) /\ wk'[w].pc \in {"note", "map"}
              \/ Unrecorded(w) \subseteq lost',
           wk'[w].job # Sync(l) => wk'[w].job \notin Jobs,
           \A d \in Deals : d # None
    PROVE  DealsOf(l)'
  <1>1. Sync(l) \in Jobs /\ LeadFor(w) = l BY JobIds DEF LeadFor
  <1>2. \A u \in Workers : wk'[u].job = Sync(l) => wk[u].job = Sync(l) OBVIOUS
  <1>3. \A u \in Workers : wk[u].job = Sync(l) => u = w BY DEF DealsOf
  <1>4. ASSUME NEW d \in Deals \ lost', dealOf'[d] = l, mapping'[l] # d
        PROVE  /\ wk'[w].job = Sync(l) /\ wk'[w].pc \in {"note", "map"} /\ wk'[w].deal = d
    <2>1. wk[w].pc \in {"note", "map"} /\ wk[w].deal = d BY <1>3, <1>4 DEF DealsOf
    <2>2. d \in Unrecorded(w) BY <1>1, <1>4, <2>1 DEF Unrecorded
    <2> QED BY <1>4, <2>1, <2>2
  <1>5. \A u \in Workers : wk'[u].job = Sync(l) => u = w BY <1>2, <1>3
  <1>6. wk'[w].pc \in {"contact", "deal"} => wk'[w].deal = mapping[l] BY DEF DealsOf
  <1>7. wk'[w].pc \in {"note", "map"} /\ mapping[l] # None => wk'[w].deal = mapping[l]
    BY DEF DealsOf
  <1> QED BY <1>4, <1>5, <1>6, <1>7 DEF DealsOf

(* A synchronisation that begins is the lead's only one, and starts from   *)
(* the mapped deal.                                                        *)
LEMMA SyncBeginDeals ==
    ASSUME TypeInv, NEW w \in Workers, NEW m \in Leads, SyncBegin(w, m),
           NEW l \in Leads, l \notin overtaken', DealsOf(l)
    PROVE  DealsOf(l)'
  <1>1. /\ wk'[w].job = Sync(m) /\ wk'[w].pc \in {"contact", "done"}
        /\ wk'[w].pc = "contact" => wk'[w].deal = mapping[m]
        /\ \A u \in Workers \ {w} : wk'[u] = wk[u]
    BY DEF SyncBegin, TypeInv, WorkersInv, Idle
  <1>2. UNCHANGED <<mapping, dealOf, lost>> BY DEF SyncBegin
  <1>3. wk[w].job = None BY DEF SyncBegin, TypeInv, WorkersInv, ExecutionInv
  <1>4. CASE l = m
    <2>1. \A u \in Workers : wk[u].job # Sync(l) BY <1>4 DEF SyncBegin
    <2>2. \A u \in Workers : wk'[u].job = Sync(l) => u = w BY <1>1, <2>1
    <2>3. \A d \in Deals \ lost : dealOf[d] = l => mapping[l] = d BY <2>1 DEF DealsOf
    <2> QED BY <1>1, <1>2, <1>4, <2>2, <2>3 DEF DealsOf
  <1>5. CASE l # m
    <2>1. Sync(l) # Sync(m) /\ Sync(l) # None BY <1>5, JobIds, Constants
    <2> QED BY <1>1, <1>2, <1>3, <2>1, QuietDeals
  <1> QED BY <1>4, <1>5

(* A new deal is made for a lead that has none that is recorded: it is     *)
(* held by the execution, or lost with the answer.                         *)
LEMMA UpsertDealDeals ==
    ASSUME TypeInv, NEW w \in Workers, UpsertDeal(w), NEW l \in Leads, wk[w].job = Sync(l),
           DealsOf(l)
    PROVE  DealsOf(l)'
  <1>1. /\ wk[w].pc = "deal" /\ LeadFor(w) = l /\ wk[w] \in Execution
        /\ wk \in [Workers -> Execution] /\ dealOf \in [Deals -> Leads \cup {None}]
        /\ \A d \in Deals : d # None
    BY JobIds, HandoffAssumption DEF UpsertDeal, LeadFor, TypeInv, WorkersInv, CrmType
  <1>2. \A u \in Workers : wk[u].job = Sync(l) => u = w BY DEF DealsOf
  <1>3. wk[w].deal = mapping[l] /\ UNCHANGED mapping BY <1>1 DEF DealsOf, UpsertDeal
  <1>4. \A d \in Deals \ lost : dealOf[d] = l => mapping[l] = d BY <1>1, <1>2 DEF DealsOf
  <1>5. CASE wk[w].deal # None
    <2>1. /\ wk'[w].job = Sync(l) /\ wk'[w].pc = "note" /\ wk'[w].deal = wk[w].deal
          /\ \A u \in Workers \ {w} : wk'[u] = wk[u]
          /\ UNCHANGED <<dealOf, lost>>
      BY <1>1, <1>5 DEF UpsertDeal, Goes, Execution
    <2> QED BY <1>1, <1>2, <1>3, <1>4, <2>1 DEF DealsOf
  <1>6. CASE wk[w].deal = None
    <2> DEFINE n == NewDeal
    <2>1. n \in Deals /\ dealOf[n] = None BY <1>6 DEF UpsertDeal, NewDeal
    <2>2. dealOf' = [dealOf EXCEPT ![n] = l] BY <1>1, <1>6 DEF UpsertDeal
    <2>3. /\ wk'[w].job = Sync(l)
          /\ \A u \in Workers \ {w} : wk'[u] = wk[u]
          /\ \/ wk'[w].pc = "note" /\ wk'[w].deal = n /\ lost' = lost
             \/ wk'[w].pc = "failed" /\ lost' = lost \cup {n}
      BY <1>1, <1>6 DEF UpsertDeal, Goes, Execution
    <2> HIDE DEF n
    <2>4. \A d \in Deals \ lost : dealOf[d] # l BY <1>1, <1>3, <1>4, <1>6
    <2>5. \A d \in Deals \ lost' : dealOf'[d] = l => d = n /\ wk'[w].pc = "note"
      BY <1>1, <2>1, <2>2, <2>3, <2>4
    <2>6. mapping'[l] = None BY <1>3, <1>6
    <2>7. \A u \in Workers : wk'[u].job = Sync(l) => u = w BY <1>2, <2>3
    <2> QED BY <2>3, <2>5, <2>6, <2>7 DEF DealsOf
  <1> QED BY <1>5, <1>6

(* The mapping takes the deal that the execution holds, which is the one   *)
(* mapped before if there was one.                                         *)
LEMMA MapCommitDeals ==
    ASSUME TypeInv, NEW w \in Workers, MapCommit(w), NEW l \in Leads, wk[w].job = Sync(l),
           DealsOf(l)
    PROVE  DealsOf(l)'
  <1>1. /\ wk[w].pc = "map" /\ LeadFor(w) = l /\ wk \in [Workers -> Execution]
        /\ mapping \in [Leads -> Deals \cup {None}] /\ \A d \in Deals : d # None
    BY JobIds, HandoffAssumption DEF MapCommit, LeadFor, TypeInv, WorkersInv, CrmType
  <1>2. /\ mapping'[l] = wk[w].deal /\ UNCHANGED <<dealOf, lost>>
        /\ wk'[w].pc = "done" /\ \A u \in Workers \ {w} : wk'[u] = wk[u]
    BY <1>1 DEF MapCommit, Done, Idle, history
  <1>3. \A u \in Workers : wk[u].job = Sync(l) => u = w BY DEF DealsOf
  <1>4. \A u \in Workers : wk'[u].job = Sync(l) => u = w BY <1>2, <1>3
  <1>5. \A d \in Deals \ lost : dealOf[d] = l => wk[w].deal = d
    BY <1>1, <1>3 DEF DealsOf
  <1> QED BY <1>2, <1>4, <1>5 DEF DealsOf

(* The other steps of a lead's synchronisation. *)
LEMMA SyncStepDeals ==
    ASSUME TypeInv, NEW w \in Workers, Proceeds(w), NEW l \in Leads, wk[w].job = Sync(l),
           DealsOf(l)
    PROVE  DealsOf(l)'
  <1>1. /\ wk \in [Workers -> Execution] /\ wk[w] \in Execution /\ LeadFor(w) = l
        /\ \A d \in Deals : d # None
    BY JobIds, HandoffAssumption DEF LeadFor, TypeInv, WorkersInv
  <1>2. ~AssignCommit(w) /\ ~EnqueueEscalation(w) /\ ~EscalateCommit(w)
    BY LeadOfJob, JobIds, Constants DEF AssignCommit, EnqueueEscalation, EscalateCommit
  <1>3. CASE UpsertContact(w) \/ Annotate(w) \/ MarkFailed(w)
    <2>1. /\ wk'[w].job = Sync(l) /\ wk'[w].deal = wk[w].deal
          /\ \A u \in Workers \ {w} : wk'[u] = wk[u]
          /\ UNCHANGED <<mapping, dealOf, lost>>
          /\ \/ wk[w].pc = "contact" /\ wk'[w].pc = "deal"
             \/ wk[w].pc = "note" /\ wk'[w].pc = "map"
             \/ wk[w].pc = "failed" /\ wk'[w].pc = "thrown"
      BY <1>1, <1>3 DEF UpsertContact, Annotate, MarkFailed, Goes, Execution, crm, history
    <2> QED BY <1>1, <2>1, GoOnDeals
  <1>4. CASE CallFails(w)
    <2>1. /\ wk'[w].job = Sync(l) /\ wk'[w].pc = "failed"
          /\ \A u \in Workers \ {w} : wk'[u] = wk[u]
          /\ UNCHANGED <<mapping, dealOf>> /\ lost' = lost \cup Unrecorded(w)
      BY <1>1, <1>4 DEF CallFails, Execution, crm
    <2> QED BY <1>1, <2>1, GoOnDeals
  <1>5. CASE Finish(w) \/ Throw(w)
    <2>1. /\ wk'[w] = Idle /\ \A u \in Workers \ {w} : wk'[u] = wk[u]
          /\ UNCHANGED <<mapping, dealOf>>
          /\ lost' = lost \cup Unrecorded(w) \/ (lost' = lost /\ wk[w].pc = "done")
      BY <1>1, <1>5 DEF Finish, Throw, CutOff, Leave, crm, history
    <2> QED BY <1>1, <2>1, GoOnDeals, Constants DEF Idle
  <1> QED
    BY <1>2, <1>3, <1>4, <1>5, UpsertDealDeals, MapCommitDeals
    DEF Proceeds, AssignmentStep, CrmStep

(* The steps of other jobs' executions leave the lead's deals alone. *)
LEMMA OtherStepDeals ==
    ASSUME TypeInv, NEW w \in Workers, Proceeds(w), NEW l \in Leads, wk[w].job # Sync(l),
           DealsOf(l)
    PROVE  DealsOf(l)'
  <1>1. /\ wk \in [Workers -> Execution] /\ Sync(l) # None
        /\ mapping \in [Leads -> Deals \cup {None}] /\ dealOf \in [Deals -> Leads \cup {None}]
    BY JobIds, Constants DEF TypeInv, WorkersInv, CrmType
  <1>2. wk'[w].job # Sync(l) /\ \A u \in Workers \ {w} : wk'[u] = wk[u]
    BY <1>1, ProceedsGoesOn DEF GoesOn, Leaves, Idle
  <1>3. lost \subseteq lost'
    BY DEF Proceeds, AssignmentStep, CrmStep, AssignCommit, EnqueueEscalation, EscalateCommit,
       UpsertContact, UpsertDeal, Annotate, CallFails, MapCommit, MarkFailed, Finish, Throw,
       CutOff, history
  <1>4. mapping'[l] = mapping[l] /\ \A d \in Deals : dealOf'[d] = l => dealOf[d] = l
    <2>1. CASE MapCommit(w)
      <3>1. LeadFor(w) # l BY <2>1, LeadOfJob DEF MapCommit, Syncing
      <3> QED BY <1>1, <2>1, <3>1 DEF MapCommit
    <2>2. CASE UpsertDeal(w)
      <3>1. LeadFor(w) # l BY <2>2, LeadOfJob DEF UpsertDeal, Syncing
      <3> QED BY <1>1, <2>2, <3>1 DEF UpsertDeal
    <2>3. CASE UNCHANGED <<mapping, dealOf>> BY <2>3
    <2> QED BY <2>1, <2>2, <2>3
      DEF Proceeds, AssignmentStep, CrmStep, AssignCommit, EnqueueEscalation, EscalateCommit,
          UpsertContact, Annotate, CallFails, MarkFailed, Finish, Throw, CutOff, crm
  <1> QED BY <1>2, <1>3, <1>4, QuietDeals

(* DealInv is inductive on top of TypeInv. *)
LEMMA DealStep == TypeInv /\ DealInv /\ [Next]_vars => DealInv'
  <1> SUFFICES ASSUME TypeInv, DealInv, [Next]_vars, NEW l \in Leads, l \notin overtaken'
               PROVE  DealsOf(l)'
    BY DEF DealInv, DealsOf
  <1>1. wk \in [Workers -> Execution] /\ Sync(l) # None /\ \A d \in Deals : d # None
    BY JobIds, Constants, HandoffAssumption DEF TypeInv, WorkersInv
  <1>2. ASSUME l \notin overtaken PROVE DealsOf(l) BY <1>2 DEF DealInv, DealsOf
  <1>3. CASE UNCHANGED vars
    <2>1. UNCHANGED <<wk, mapping, dealOf, lost, overtaken>> BY <1>3 DEF vars, crm, history
    <2> QED BY <1>2, <2>1, QuietDeals
  <1>4. ASSUME NEW w \in Workers, NEW j \in Jobs, Takes(w, j) PROVE DealsOf(l)'
    <2>1. CASE \E m \in Leads : SyncBegin(w, m)
      <3>1. l \notin overtaken BY <2>1 DEF SyncBegin
      <3> QED BY <1>2, <2>1, <3>1, SyncBeginDeals
    <2>2. CASE j # Sync(l) /\ UNCHANGED overtaken
      <3>1. Begins(w, j) BY <1>4, TakesBegins
      <3>2. wk[w].job = None BY <3>1 DEF Begins, TypeInv, WorkersInv, ExecutionInv
      <3> QED BY <1>1, <1>2, <2>2, <3>1, <3>2, QuietDeals DEF Begins
    <2>3. \/ \E m \in Leads : SyncBegin(w, m)
          \/ j # Sync(l) /\ UNCHANGED overtaken
      <3>1. CASE \E m \in Leads : j = Assign(m) /\ AssignBegin(w, m)
        BY <3>1, JobIds DEF AssignBegin
      <3>2. CASE \E m \in Leads, i \in 1..Ladder : j = Esc(m, i) /\ EscalateBegin(w, m, i)
        BY <3>2, JobIds DEF EscalateBegin, history
      <3> QED BY <1>4, <3>1, <3>2 DEF Takes
    <2> QED BY <2>1, <2>2, <2>3
  <1>5. ASSUME NEW w \in Workers, Proceeds(w) PROVE DealsOf(l)'
    <2>1. l \notin overtaken BY <1>5, ProceedsGoesOn DEF GoesOn, Leaves
    <2> QED BY <1>2, <1>5, <2>1, SyncStepDeals, OtherStepDeals
  <1>6. ASSUME NEW w \in Workers, Leaves(w) PROVE DealsOf(l)'
    <2>1. /\ wk'[w] = Idle /\ \A u \in Workers \ {w} : wk'[u] = wk[u]
          /\ UNCHANGED <<mapping, dealOf, overtaken>>
          /\ lost' = lost \cup Unrecorded(w) \/ (lost' = lost /\ wk[w].pc = "done")
      BY <1>1, <1>6 DEF Leaves
    <2>2. DealsOf(l) BY <1>2, <2>1
    <2>3. CASE wk[w].job = Sync(l)
      BY <1>1, <2>1, <2>2, <2>3, GoOnDeals, Constants DEF Idle
    <2>4. CASE wk[w].job # Sync(l)
      BY <1>1, <2>1, <2>2, <2>4, QuietDeals DEF Idle
    <2> QED BY <2>3, <2>4
  <1>7. CASE Outside BY <1>2, <1>7, QuietDeals DEF Outside
  <1> QED BY <1>3, <1>4, <1>5, <1>6, <1>7, EnvironmentOutside DEF Next

(* "Retries never duplicate": a second deal takes an execution that ended  *)
(* between the creation of one and its mapping, or two that overlapped.    *)
THEOREM RetriesDontDuplicate == Spec => []OneDeal
  <1>1. Init => DealInv
    <2> SUFFICES ASSUME Init PROVE DealInv OBVIOUS
    <2>1. \A w \in Workers : wk[w].job = None BY DEF Init, Idle
    <2>2. \A d \in Deals : dealOf[d] = None BY DEF Init
    <2>3. \A l \in Leads : Sync(l) # None /\ l # None BY JobIds, Constants, HandoffAssumption
    <2> QED BY <2>1, <2>2, <2>3 DEF DealInv
  <1>2. TypeInv /\ DealInv => OneDeal
    <2> SUFFICES ASSUME TypeInv, DealInv, NEW d \in Deals, NEW e \in Deals, d # e,
                        dealOf[d] # None, dealOf[d] = dealOf[e],
                        d \notin lost, e \notin lost, dealOf[d] \notin overtaken
                 PROVE  FALSE
      BY DEF OneDeal
    <2> DEFINE l == dealOf[d]
    <2>1. l \in Leads /\ d # None /\ e # None
      BY HandoffAssumption DEF TypeInv, CrmType
    <2>2. DealsOf(l) BY <2>1 DEF DealInv, DealsOf
    <2> QED BY <2>1, <2>2 DEF DealsOf
  <1> QED BY <1>1, <1>2, DealStep, TypeInvariant, PTL DEF Spec

-----------------------------------------------------------------------------
(* Routing finds somebody.                                                 *)

(* Of some reps one has the least load. *)
LEMMA SomeoneIsLeast ==
    ASSUME NEW pool, NEW load, pool # {}, \A r \in pool : load[r] \in Nat
    PROVE  LeastLoaded(pool, load) # {}
  <1> DEFINE Loads == {load[r] : r \in pool}
  <1>1. PICK n \in Loads : \A m \in Loads : ~ <<m, n>> \in OpToRel(<, Nat)
    <2>1. Loads \subseteq Nat /\ Loads # {} OBVIOUS
    <2> QED BY <2>1, NatLessThanWellFounded, WFMin
  <1>2. PICK r \in pool : n = load[r] BY <1>1
  <1>3. ASSUME NEW q \in pool PROVE load[r] <= load[q]
    <2>1. load[q] \in Loads /\ load[q] \in Nat /\ load[r] \in Nat OBVIOUS
    <2>2. ~ <<load[q], load[r]>> \in OpToRel(<, Nat) BY <1>1, <1>2, <2>1
    <2>3. ~ (load[q] < load[r]) BY <2>1, <2>2 DEF OpToRel
    <2> QED BY <2>1, <2>3
  <1> QED BY <1>3 DEF LeastLoaded

(* Reps F are some of the least loaded of the others. *)
Foremost(F, others, load) ==
    /\ F \subseteq others /\ IsFiniteSet(F)
    /\ \A r \in F, q \in others \ F : load[r] <= load[q]

(* The next one can be added to them. *)
LEMMA NextForemost ==
    ASSUME NEW others, NEW load, \A r \in others : load[r] \in Nat,
           NEW F, Foremost(F, others, load), F # others
    PROVE  \E G : Foremost(G, others, load) /\ Cardinality(G) = Cardinality(F) + 1
  <1>1. PICK r : r \in LeastLoaded(others \ F, load) BY SomeoneIsLeast DEF Foremost
  <1>2. r \in others \ F /\ \A q \in others \ F : load[r] <= load[q] BY <1>1 DEF LeastLoaded
  <1>3. Cardinality(F \cup {r}) = Cardinality(F) + 1 /\ IsFiniteSet(F \cup {r})
    BY <1>2, FS_AddElement DEF Foremost
  <1>4. Foremost(F \cup {r}, others, load) BY <1>2, <1>3 DEF Foremost
  <1> QED BY <1>3, <1>4

(* There is always a list of fallbacks. *)
LEMMA FallbacksExist ==
    ASSUME NEW others, IsFiniteSet(others), NEW load, \A r \in others : load[r] \in Nat
    PROVE  Fallbacks(others, load) # {}
  <1>1. Cardinality(others) \in Nat BY FS_CardinalityType
  <1>2. CASE Cardinality(others) < 3
    <2>1. others \in Fallbacks(others, load) BY <1>2 DEF Fallbacks
    <2> QED BY <2>1
  <1>3. CASE Cardinality(others) >= 3
    <2>1. Foremost({}, others, load) /\ Cardinality({}) = 0 BY FS_EmptySet DEF Foremost
    <2>2. PICK F : Foremost(F, others, load) /\ Cardinality(F) = 1
      BY <1>3, <2>1, NextForemost
    <2>3. PICK G : Foremost(G, others, load) /\ Cardinality(G) = 2
      BY <1>3, <2>2, NextForemost
    <2>4. PICK H : Foremost(H, others, load) /\ Cardinality(H) = 3
      BY <1>3, <2>3, NextForemost
    <2>5. H \in Fallbacks(others, load) BY <1>1, <1>3, <2>4 DEF Foremost, Fallbacks
    <2> QED BY <2>5
  <1> QED BY <1>1, <1>2, <1>3

(* "A lead is never trapped by one unavailable rep": as long as there is a *)
(* team routeLead names a primary, of the lead's territory if anyone has   *)
(* it, and up to three others; none only if nobody else is in the pool.    *)
THEOREM NobodyIsTrapped ==
    ASSUME NEW profile, IsFiniteSet(DOMAIN profile), DOMAIN profile # {},
           NEW lead, NEW load, \A r \in DOMAIN profile : load[r] \in Nat, NEW n, NEW none
    PROVE  /\ RouteLead(profile, lead, load, n, none) # {}
           /\ \A res \in RouteLead(profile, lead, load, n, none) :
                /\ res.primary \in DOMAIN profile
                /\ (\E r \in DOMAIN profile : TerritoryMatch(profile[r], lead))
                      => TerritoryMatch(profile[res.primary], lead)
                /\ res.fallback \subseteq DOMAIN profile \ {res.primary}
                /\ Cardinality(res.fallback) \in 0..3
                /\ res.fallback = {} => Pool(profile, lead) = {res.primary}
  <1> DEFINE pool == Pool(profile, lead)
             P == PrimaryPool(pool, profile, load)
             Here == {r \in DOMAIN profile : TerritoryMatch(profile[r], lead)}
  <1>1. pool \subseteq DOMAIN profile /\ pool # {} BY DEF Pool, Narrow
  <1>2. P \subseteq pool /\ P # {} BY <1>1 DEF PrimaryPool, Eligible
  <1>3. Here # {} => pool \subseteq Here BY DEF Pool, Narrow
  <1>4. \A r \in pool : IsFiniteSet(pool \ {r}) BY <1>1, FS_Subset
  <1>5. RouteLead(profile, lead, load, n, none) # {}
    <2>1. PICK r : r \in LeastLoaded(P, load) BY <1>1, <1>2, SomeoneIsLeast
    <2>2. r \in pool BY <1>2, <2>1 DEF LeastLoaded
    <2>3. PICK F : F \in Fallbacks(pool \ {r}, load)
      BY <1>1, <1>4, <2>2, FallbacksExist
    <2> DEFINE With(q) == {[primary |-> q, fallback |-> G, cursor |-> n] :
                              G \in Fallbacks(pool \ {q}, load)}
    <2>4. [primary |-> r, fallback |-> F, cursor |-> n] \in With(r) BY <2>3
    <2>5. RouteLead(profile, lead, load, n, none) = UNION {With(q) : q \in LeastLoaded(P, load)}
      BY <1>1 DEF RouteLead
    <2> HIDE DEF With
    <2>6. [primary |-> r, fallback |-> F, cursor |-> n]
             \in UNION {With(q) : q \in LeastLoaded(P, load)}
      BY <2>1, <2>4
    <2> QED BY <2>5, <2>6
  <1>6. ASSUME NEW res \in RouteLead(profile, lead, load, n, none)
        PROVE  /\ res.primary \in P
               /\ res.fallback \in Fallbacks(pool \ {res.primary}, load)
    <2>1. PICK r \in LeastLoaded(P, load) : \E F \in Fallbacks(pool \ {r}, load) :
             res = [primary |-> r, fallback |-> F, cursor |-> n]
      BY <1>1, <1>6 DEF RouteLead
    <2>2. PICK F \in Fallbacks(pool \ {r}, load) :
             res = [primary |-> r, fallback |-> F, cursor |-> n]
      BY <2>1
    <2>3. r \in P BY DEF LeastLoaded
    <2> QED BY <2>2, <2>3
  <1>7. ASSUME NEW res \in RouteLead(profile, lead, load, n, none)
        PROVE  /\ res.fallback \subseteq pool \ {res.primary}
               /\ Cardinality(res.fallback) \in 0..3
               /\ res.fallback = {} => pool = {res.primary}
    <2> DEFINE others == pool \ {res.primary}
    <2>1. res.primary \in pool BY <1>2, <1>6
    <2>2. Cardinality(others) \in Nat BY <1>4, <2>1, FS_CardinalityType
    <2>3. /\ res.fallback \subseteq others
          /\ Cardinality(res.fallback) = IF Cardinality(others) < 3 THEN Cardinality(others) ELSE 3
      BY <1>6 DEF Fallbacks
    <2>4. Cardinality(res.fallback) \in 0..3 BY <2>2, <2>3
    <2>5. ASSUME res.fallback = {} PROVE others = {}
      <3>1. Cardinality(res.fallback) = 0 BY <2>5, FS_EmptySet
      <3>2. Cardinality(others) = 0 BY <2>2, <2>3, <3>1
      <3> QED BY <1>4, <2>1, <3>2, FS_EmptySet
    <2> QED BY <2>1, <2>3, <2>4, <2>5
  <1> QED BY <1>1, <1>2, <1>3, <1>5, <1>6, <1>7

(* A rep for lead l: of its territory, if the team has somebody there. *)
Suits(r, l) ==
    /\ r \in Reps
    /\ (\E q \in Reps : TerritoryMatch(Profile[q], Inquiry[l]))
          => TerritoryMatch(Profile[r], Inquiry[l])

(* So is the rep of every lead that is assigned, and of every one that is  *)
(* about to be.                                                            *)
RepInv ==
    /\ \A l \in Leads : primaries[l] > 0 => Suits(assigned[l], l)
    /\ \A w \in Workers, l \in Leads :
          wk[w].pc = "assign" /\ wk[w].job = Assign(l) => Suits(wk[w].primary, l)

(* An assignment begins with such a rep. *)
LEMMA AssignBeginSuits ==
    ASSUME TypeInv, IsFiniteSet(Reps), Reps # {},
           NEW w \in Workers, NEW l \in Leads, AssignBegin(w, l)
    PROVE  wk'[w].job = Assign(l) /\ Suits(wk'[w].primary, l)
  <1> DEFINE load == [r \in Reps |-> Load(r)]
  <1>1. PICK res \in RouteLead(Profile, Inquiry[l], load, cursor, None) :
           wk' = [wk EXCEPT ![w] =
                    [Idle EXCEPT !.job = Assign(l), !.pc = "assign", !.primary = res.primary,
                                 !.fallback = res.fallback, !.cursor = res.cursor]]
    BY DEF AssignBegin
  <1>2. wk'[w].job = Assign(l) /\ wk'[w].primary = res.primary
    BY <1>1 DEF TypeInv, WorkersInv, Idle
  <1>3. DOMAIN Profile = Reps BY HandoffAssumption
  <1>4. \A r \in Reps : load[r] \in Nat BY LoadType
  <1> HIDE DEF load
  <1>5. /\ res.primary \in Reps
        /\ (\E r \in Reps : TerritoryMatch(Profile[r], Inquiry[l]))
              => TerritoryMatch(Profile[res.primary], Inquiry[l])
    BY <1>3, <1>4, NobodyIsTrapped
  <1> QED BY <1>2, <1>5 DEF Suits

(* The commit writes the rep that was read, no other step writes one. *)
LEMMA AssignedOf ==
    ASSUME TypeInv, NEW w \in Workers, Proceeds(w)
    PROVE  \/ UNCHANGED <<primaries, assigned>>
           \/ /\ wk[w].pc = "assign" /\ LeadFor(w) \in Leads /\ wk[w].job = Assign(LeadFor(w))
              /\ primaries' = [primaries EXCEPT ![LeadFor(w)] = @ + 1]
              /\ assigned' = [assigned EXCEPT ![LeadFor(w)] = wk[w].primary]
  BY LeadOfJob
  DEF Proceeds, AssignmentStep, CrmStep, AssignCommit, EnqueueEscalation, EscalateCommit,
      UpsertContact, UpsertDeal, Annotate, CallFails, MapCommit, MarkFailed, Finish, Throw,
      CutOff, team

(* RepInv is inductive on top of TypeInv, of a team there is. *)
LEMMA RepStep ==
    IsFiniteSet(Reps) /\ Reps # {} /\ TypeInv /\ RepInv /\ [Next]_vars => RepInv'
  <1> SUFFICES ASSUME IsFiniteSet(Reps), Reps # {}, TypeInv, RepInv, [Next]_vars
               PROVE  RepInv'
    OBVIOUS
  <1> USE DEF Suits
  <1>1. /\ primaries \in [Leads -> Nat] /\ assigned \in [Leads -> Reps \cup {None}]
        /\ wk \in [Workers -> Execution]
    BY DEF TypeInv, TeamType, WorkersInv
  <1>2. CASE UNCHANGED vars BY <1>2 DEF RepInv, vars, team
  <1>3. ASSUME NEW w \in Workers, NEW j \in Jobs, Takes(w, j) PROVE RepInv'
    <2>1. Begins(w, j) BY <1>3, TakesBegins
    <2>2. ASSUME NEW l \in Leads, wk'[w].pc = "assign", wk'[w].job = Assign(l)
          PROVE  Suits(wk'[w].primary, l)
      <3>1. j = Assign(l) BY <2>1, <2>2 DEF Begins
      <3>2. \A m, i : j # Sync(m) /\ j # Esc(m, i) BY <3>1, JobIds
      <3>3. PICK m \in Leads : j = Assign(m) /\ AssignBegin(w, m)
        <4>1. PICK m \in Leads :
                 \/ j = Assign(m) /\ AssignBegin(w, m)
                 \/ j = Sync(m) /\ SyncBegin(w, m)
                 \/ \E i \in 1..Ladder : j = Esc(m, i) /\ EscalateBegin(w, m, i)
          BY <1>3 DEF Takes
        <4> QED BY <3>2, <4>1
      <3>4. m = l
        <4>1. Assign(m)[2] = m /\ Assign(l)[2] = l BY JobIds
        <4> QED BY <3>1, <3>3, <4>1
      <3> QED BY <3>3, <3>4, AssignBeginSuits
    <2> QED BY <2>1, <2>2 DEF RepInv, Begins
  <1>4. ASSUME NEW w \in Workers, GoesOn(w), Proceeds(w) PROVE RepInv'
    <2>1. CASE UNCHANGED <<primaries, assigned>> BY <1>4, <2>1 DEF RepInv, GoesOn
    <2>2. CASE /\ wk[w].pc = "assign" /\ LeadFor(w) \in Leads /\ wk[w].job = Assign(LeadFor(w))
               /\ primaries' = [primaries EXCEPT ![LeadFor(w)] = @ + 1]
               /\ assigned' = [assigned EXCEPT ![LeadFor(w)] = wk[w].primary]
      <3>1. Suits(wk[w].primary, LeadFor(w)) BY <2>2 DEF RepInv
      <3>2. ASSUME NEW l \in Leads, primaries'[l] > 0 PROVE Suits(assigned'[l], l)
        BY <1>1, <2>2, <3>1, <3>2 DEF RepInv
      <3> QED BY <1>4, <3>2 DEF RepInv, GoesOn
    <2> QED BY <1>4, <2>1, <2>2, AssignedOf
  <1>5. ASSUME NEW w \in Workers, Leaves(w) PROVE RepInv'
    BY <1>1, <1>5 DEF RepInv, Leaves, Idle
  <1>6. CASE Outside BY <1>6 DEF RepInv, Outside
  <1> QED BY <1>2, <1>3, <1>4, <1>5, <1>6, ProceedsGoesOn, EnvironmentOutside DEF Next

(* A tenant with a team leaves no lead that was handed over without a rep, *)
(* and gives none to a rep of another territory who has a colleague there. *)
THEOREM EverybodyHasARep ==
    IsFiniteSet(Reps) /\ Reps # {} /\ Spec
      => [](\A l \in Leads : primaries[l] > 0 => Suits(assigned[l], l))
  <1>1. Init => RepInv BY DEF Init, RepInv, Idle
  <1>2. RepInv => \A l \in Leads : primaries[l] > 0 => Suits(assigned[l], l) BY DEF RepInv
  <1>3. CASE IsFiniteSet(Reps) /\ Reps # {}
    <2>1. TypeInv /\ RepInv /\ [Next]_vars => RepInv' BY <1>3, RepStep
    <2> QED BY <1>1, <1>2, <2>1, TypeInvariant, PTL DEF Spec
  <1> QED BY <1>3
=============================================================================
