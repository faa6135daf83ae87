------------------------------ MODULE IngestProofs ------------------------------
(***************************************************************************)
(* Lead ingestion, for any inquiries and forms, any leads and workers and  *)
(* any number of faults.                                                   *)
(*                                                                         *)
(* TypeInv says what an execution between its read and its commit, or      *)
(* between its commit and the first touch, may still rely on; the proofs   *)
(* rest on the fact that no step but CreateLead makes a row, and that none *)
(* takes a row, a phone or an email away (Grows).                          *)
(***************************************************************************)
EXTENDS Ingest, TLAPS

QP == INSTANCE JobQueueProofs WITH Job <- Jobs, Worker <- Workers, NoWorker <- None

DatabaseType ==
    /\ raw \in [Inquiries -> Payloads \cup {None}]
    /\ ledger \in [Inquiries -> Leads \cup {None}]
    /\ leadRow \in [Leads -> LeadRow \cup {None}]

GatewayType == gateway \in [Inquiries -> {"idle", "enqueue", "acked", "cut"}]

HistoryType ==
    /\ origin \in [Leads -> Inquiries \cup {None}]
    /\ raced \subseteq Leads
    /\ flagged \subseteq Inquiries
    /\ overlapped \subseteq Inquiries

FaultsType == faults \in 0..Faults

(* A request stores its payload, and only then adds the job. *)
RequestsInv ==
    \A i \in Inquiries : /\ gateway[i] # "idle" <=> raw[i] # None
                         /\ jobState[i] # "absent" => raw[i] # None

(* An execution has a stored inquiry; the lead it attaches to shares its   *)
(* phone or its email, and so does the lead it is to touch, unless the     *)
(* inquiry is anonymous.                                                   *)
ExecutionInv(e, stored, row) ==
    /\ e.pc = "idle" <=> e.job = None
    /\ e.job # None => stored[e.job] # None
    /\ e.pc = "write" =>
         \/ e.action = "create"
         \/ /\ e.action \in {"merge", "reopen"}
            /\ e.lead \in Leads /\ row[e.lead] # None
            /\ Matches(row[e.lead], stored[e.job])
    /\ e.pc = "enqueue" =>
         /\ e.lead \in Leads /\ row[e.lead] # None
         /\ Matches(row[e.lead], stored[e.job]) \/ Anonymous(stored[e.job])

WorkersInv ==
    /\ wk \in [Workers -> Execution]
    /\ \A w \in Workers : ExecutionInv(wk[w], raw, leadRow)

TypeInv ==
    /\ DatabaseType /\ GatewayType /\ HistoryType /\ FaultsType
    /\ QP!QueueInv
    /\ RequestsInv
    /\ WorkersInv

(* What no step does to a stored inquiry or to a lead. *)
Grows ==
    /\ \A i \in Inquiries : raw[i] # None => raw'[i] = raw[i]
    /\ \A l \in Leads : leadRow[l] # None =>
         /\ leadRow'[l] # None
         /\ leadRow'[l].phone = leadRow[l].phone
         /\ leadRow'[l].email = leadRow[l].email

-----------------------------------------------------------------------------
(* The jobs of the two queues are distinct, and the queue's constants in   *)
(* order.                                                                  *)
LEMMA Constants ==
    /\ QP!QueueConstants
    /\ Inquiries \subseteq Jobs
    /\ None \notin Inquiries
    /\ \A l \in Leads : FirstTouch(l) \in Jobs \ Inquiries
    /\ \A l, m : FirstTouch(l) = FirstTouch(m) => l = m
  BY IngestAssumption DEF QP!QueueConstants, Jobs, FirstTouch

(* A payload has its fields, and is none. *)
LEMMA PayloadType ==
    ASSUME NEW p \in Payloads
    PROVE  /\ p # None
           /\ p.phone \in Phones \cup {None} /\ p.email \in Emails \cup {None}
           /\ p.consent \in BOOLEAN /\ p.city \in BOOLEAN /\ p.service \in BOOLEAN
  BY IngestAssumption

(* A band is one of the four, and an anonymous form gets the lowest. *)
LEMMA BandType ==
    ASSUME NEW p \in Payloads
    PROVE  /\ BandOf[p] \in {"hot", "qualified", "nurture", "unqualified"}
           /\ Anonymous(p) => BandOf[p] = "unqualified"
  <1>1. \A F : Band(F) \in {"hot", "qualified", "nurture", "unqualified"}
    BY DEF Band, BandFor
  <1>2. BandOf[p] = Band(DerivedFacts(p.phone # None, p.email # None, p.city, p.service))
    BY DEF BandOf
  <1>3. ASSUME Anonymous(p) PROVE BandOf[p] = "unqualified"
    <2>1. (p.phone # None) = FALSE /\ (p.email # None) = FALSE BY <1>3 DEF Anonymous
    <2>2. p.city \in BOOLEAN /\ p.service \in BOOLEAN BY PayloadType
    <2> QED BY <1>2, <2>1, <2>2, AnonymousScore
  <1> QED BY <1>1, <1>2, <1>3

(* resolveDuplicate creates only for lack of a candidate, and attaches to  *)
(* one of them.                                                            *)
LEMMA OutcomeOf ==
    ASSUME NEW C \in SUBSET Leads, NEW o \in ResolveDuplicate(C)
    PROVE  /\ o.action \in {"create", "merge", "reopen", "flag_for_review"}
           /\ o.lead \in Leads \cup {None}
           /\ o.action = "create" => C = {}
           /\ o.action \in {"merge", "reopen"} => o.lead \in C
  BY DEF ResolveDuplicate, Outcome, OpenOnes

(* A fault is spent, or not. *)
LEMMA FaultSpent == ASSUME FaultsType, Fault \/ UNCHANGED faults PROVE FaultsType'
  BY IngestAssumption DEF FaultsType, Fault

-----------------------------------------------------------------------------
(* Type correctness.                                                       *)

(* The lead that CreateLead makes was none, and its row is one. *)
LEMMA Created ==
    ASSUME TypeInv, NEW w \in Workers, CreateLead(w)
    PROVE  /\ wk[w].job \in Inquiries /\ raw[wk[w].job] \in Payloads
           /\ NewLead \in Leads /\ leadRow[NewLead] = None
           /\ leadRow'[NewLead] \in LeadRow /\ leadRow'[NewLead] # None
           /\ leadRow'[NewLead].phone = raw[wk[w].job].phone
           /\ leadRow'[NewLead].email = raw[wk[w].job].email
           /\ leadRow'[NewLead].state = "new"
           /\ \A l \in Leads \ {NewLead} : leadRow'[l] = leadRow[l]
           /\ leadRow' \in [Leads -> LeadRow \cup {None}]
  <1>1. wk[w].job \in Inquiries /\ raw[wk[w].job] \in Payloads
    BY DEF CreateLead, TypeInv, DatabaseType, WorkersInv, ExecutionInv, Execution
  <1>2. NewLead \in Leads /\ leadRow[NewLead] = None BY DEF CreateLead, NewLead
  <1> DEFINE p == raw[wk[w].job]
             row == [state |-> "new", phone |-> p.phone, email |-> p.email,
                     consent |-> ConsentOf(p), band |-> BandOf[p]]
  <1>3. row \in LeadRow
    <2>1. "new" \in LeadState /\ ConsentOf(p) \in {"granted", "unknown"}
      BY DEF LeadState, ConsentOf
    <2>2. BandOf[p] \in {"hot", "qualified", "nurture", "unqualified"} BY <1>1, BandType
    <2>3. p.phone \in Phones \cup {None} /\ p.email \in Emails \cup {None}
      BY <1>1, PayloadType
    <2> QED BY <2>1, <2>2, <2>3 DEF LeadRow
  <1>4. row # None BY <1>3, IngestAssumption
  <1>5. leadRow' = [leadRow EXCEPT ![NewLead] = row] BY DEF CreateLead, Payload
  <1>6. leadRow \in [Leads -> LeadRow \cup {None}] BY DEF TypeInv, DatabaseType
  <1>7. row.phone = p.phone /\ row.email = p.email /\ row.state = "new" OBVIOUS
  <1> HIDE DEF row
  <1> QED BY <1>1, <1>2, <1>3, <1>4, <1>5, <1>6, <1>7

(* AttachToLead and LeadMoves rewrite a row that exists. *)
LEMMA Rewritten ==
    ASSUME TypeInv, NEW l \in Leads, leadRow[l] # None,
           \/ \E b \in {"hot", "qualified", "nurture", "unqualified"} :
                 leadRow' = [leadRow EXCEPT ![l].band = b]
           \/ \E s \in LeadState : leadRow' = [leadRow EXCEPT ![l].state = s]
    PROVE  /\ leadRow' \in [Leads -> LeadRow \cup {None}]
           /\ \A m \in Leads : leadRow[m] # None =>
                 /\ leadRow'[m] # None
                 /\ leadRow'[m].phone = leadRow[m].phone /\ leadRow'[m].email = leadRow[m].email
           /\ \A m \in Leads : leadRow'[m] # None => leadRow[m] # None
  <1>1. leadRow \in [Leads -> LeadRow \cup {None}] /\ leadRow[l] \in LeadRow
    BY DEF TypeInv, DatabaseType
  <1>2. PICK row : /\ leadRow' = [leadRow EXCEPT ![l] = row] /\ row \in LeadRow
                   /\ row.phone = leadRow[l].phone /\ row.email = leadRow[l].email
    <2>1. ASSUME NEW b \in {"hot", "qualified", "nurture", "unqualified"},
                 leadRow' = [leadRow EXCEPT ![l].band = b]
          PROVE  \E row \in LeadRow :
                    /\ leadRow' = [leadRow EXCEPT ![l] = row]
                    /\ row.phone = leadRow[l].phone /\ row.email = leadRow[l].email
      <3>1. [leadRow[l] EXCEPT !.band = b] \in LeadRow BY <1>1 DEF LeadRow
      <3>2. /\ [leadRow[l] EXCEPT !.band = b].phone = leadRow[l].phone
            /\ [leadRow[l] EXCEPT !.band = b].email = leadRow[l].email
        BY <1>1 DEF LeadRow
      <3> QED BY <2>1, <3>1, <3>2
    <2>2. ASSUME NEW s \in LeadState, leadRow' = [leadRow EXCEPT ![l].state = s]
          PROVE  \E row \in LeadRow :
                    /\ leadRow' = [leadRow EXCEPT ![l] = row]
                    /\ row.phone = leadRow[l].phone /\ row.email = leadRow[l].email
      <3>1. [leadRow[l] EXCEPT !.state = s] \in LeadRow BY <1>1 DEF LeadRow
      <3>2. /\ [leadRow[l] EXCEPT !.state = s].phone = leadRow[l].phone
            /\ [leadRow[l] EXCEPT !.state = s].email = leadRow[l].email
        BY <1>1 DEF LeadRow
      <3> QED BY <2>2, <3>1, <3>2
    <2> QED BY <2>1, <2>2
  <1> QED BY <1>1, <1>2, IngestAssumption

(* The steps that write rows of leads. *)
LEMMA RowSteps ==
    ASSUME TypeInv, [Next]_vars
    PROVE  \/ UNCHANGED leadRow
           \/ \E w \in Workers : CreateLead(w)
           \/ \E w \in Workers : AttachToLead(w)
           \/ \E l \in Leads, s \in Moves : LeadMoves(l, s)
  BY DEF Next, vars, database, Environment, Proceeds, Receive, CutOff, Stall, Crash,
     Acknowledge, IngestBegin, EnqueueFirstTouch, Finish, Throw

(* Stored inquiries, and the contact details of leads, stay. *)
LEMMA StepGrows ==
    ASSUME TypeInv, [Next]_vars PROVE Grows /\ leadRow' \in [Leads -> LeadRow \cup {None}]
  <1>1. \A i \in Inquiries : raw[i] # None => raw'[i] = raw[i]
    <2>1. UNCHANGED raw \/ \E i \in Inquiries : \E p \in Forms[i] : Receive(i, p)
      BY DEF Next, vars, database, Environment, Proceeds, CutOff, Stall, LeadMoves, Crash,
         Acknowledge, IngestBegin, CreateLead, AttachToLead, EnqueueFirstTouch, Finish, Throw
    <2>2. ASSUME NEW i \in Inquiries, NEW p \in Forms[i], Receive(i, p)
          PROVE  \A j \in Inquiries : raw[j] # None => raw'[j] = raw[j]
      BY <2>2 DEF Receive, TypeInv, DatabaseType, RequestsInv
    <2> QED BY <2>1, <2>2
  <1>2. CASE UNCHANGED leadRow BY <1>1, <1>2 DEF Grows, TypeInv, DatabaseType
  <1>3. ASSUME NEW w \in Workers, CreateLead(w)
        PROVE  Grows /\ leadRow' \in [Leads -> LeadRow \cup {None}]
    BY <1>1, <1>3, Created DEF Grows
  <1>4. ASSUME NEW w \in Workers, AttachToLead(w)
        PROVE  Grows /\ leadRow' \in [Leads -> LeadRow \cup {None}]
    <2>1. /\ wk[w] \in Execution /\ wk[w].job \in Inquiries /\ raw[wk[w].job] \in Payloads
          /\ wk[w].lead \in Leads /\ leadRow[wk[w].lead] # None
      BY <1>4 DEF AttachToLead, TypeInv, DatabaseType, WorkersInv, ExecutionInv, Execution
    <2>2. BandOf[Payload(w)] \in {"hot", "qualified", "nurture", "unqualified"}
      BY <2>1, BandType DEF Payload
    <2> QED BY <1>1, <1>4, <2>1, <2>2, Rewritten DEF AttachToLead, Grows
  <1>5. ASSUME NEW l \in Leads, NEW s \in Moves, LeadMoves(l, s)
        PROVE  Grows /\ leadRow' \in [Leads -> LeadRow \cup {None}]
    <2>1. s \in LeadState BY IngestAssumption DEF LeadState
    <2> QED BY <1>1, <1>5, <2>1, Rewritten DEF LeadMoves, Grows
  <1> QED BY <1>2, <1>3, <1>4, <1>5, RowSteps

(* Each step is one operation of the queue, at most. *)
LEMMA QueueStep == ASSUME TypeInv, [Next]_vars PROVE QP!QueueInv'
  <1>1. CASE UNCHANGED queueVars
    BY <1>1 DEF TypeInv, queueVars, QP!QueueInv, QP!QueueTypeOK
  <1>2. ASSUME NEW w, NEW j \in Jobs, QP!QueueOperation(w, j) PROVE QP!QueueInv'
    BY <1>2, QP!QueueKept, Constants DEF TypeInv
  <1>3. ASSUME NEW w \in Workers, NEW i \in Inquiries, IngestBegin(w, i) PROVE QP!QueueInv'
    BY <1>2, <1>3, Constants DEF IngestBegin, QP!QueueOperation, QP!Take, Q!Take
  <1>4. ASSUME NEW i \in Inquiries, Acknowledge(i) \/ Stall(i) PROVE QP!QueueInv'
    BY <1>2, <1>4, Constants
    DEF Acknowledge, Stall, QP!QueueOperation, QP!Add, Q!Add, QP!Stall, Q!Stall
  <1>5. ASSUME NEW w \in Workers, EnqueueFirstTouch(w) PROVE QP!QueueInv'
    <2>1. FirstTouch(wk[w].lead) \in Jobs
      BY <1>5, Constants DEF EnqueueFirstTouch, TypeInv, WorkersInv, ExecutionInv
    <2> QED BY <1>1, <1>2, <1>5, <2>1 DEF EnqueueFirstTouch, QP!QueueOperation, QP!Add, Q!Add
  <1>6. ASSUME NEW w \in Workers, Finish(w) \/ Throw(w) PROVE QP!QueueInv'
    <2>1. wk[w].job \in Jobs
      BY <1>6, Constants
      DEF Finish, Throw, MustThrow, TypeInv, WorkersInv, ExecutionInv, Execution
    <2> QED
      BY <1>2, <1>6, <2>1
      DEF Finish, Throw, QP!QueueOperation, QP!Complete, Q!Complete, QP!Reject, Q!Reject
  <1> QED
    BY <1>1, <1>3, <1>4, <1>5, <1>6
    DEF Next, vars, Environment, Proceeds, Receive, CutOff, LeadMoves, Crash, CreateLead,
        AttachToLead, queueVars

(* A job that appears is of a request that was stored, or a first touch    *)
(* that an execution adds.                                                 *)
LEMMA JobAppears ==
    ASSUME TypeInv, [Next]_vars, NEW j \in Jobs, jobState'[j] # "absent", jobState[j] = "absent"
    PROVE  \/ \E i \in Inquiries : j = i /\ Acknowledge(i)
           \/ \E w \in Workers : EnqueueFirstTouch(w) /\ Eligible(w) /\ j = FirstTouch(wk[w].lead)
  <1>1. jobState \in [Jobs -> Q!JobStatus]
    BY DEF TypeInv, QP!QueueInv, QP!QueueTypeOK, QP!JobStatus, Q!JobStatus
  <1>2. ASSUME NEW w \in Workers, NEW i \in Inquiries, IngestBegin(w, i) PROVE FALSE
    BY <1>1, <1>2 DEF IngestBegin, Q!Take
  <1>3. ASSUME NEW i \in Inquiries, Stall(i) PROVE FALSE
    BY <1>1, <1>3 DEF Stall, Q!Stall
  <1>4. ASSUME NEW w \in Workers, Finish(w) \/ Throw(w) PROVE FALSE
    <2>1. jobState' = jobState \/ (holder[wk[w].job] = w /\ holder[wk[w].job] # None)
      BY <1>4, IngestAssumption DEF Finish, Throw, Q!Complete, Q!Reject
    <2>2. wk[w].job \in Jobs
      BY <1>4, Constants
      DEF Finish, Throw, MustThrow, TypeInv, WorkersInv, ExecutionInv, Execution
    <2>3. jobState' = jobState \/ jobState[wk[w].job] = "active"
      BY <2>1, <2>2 DEF TypeInv, QP!QueueInv
    <2> QED BY <1>1, <1>4, <2>3 DEF Finish, Throw, Q!Complete, Q!Reject
  <1>5. ASSUME NEW i \in Inquiries, Acknowledge(i) PROVE j = i
    BY <1>1, <1>5 DEF Acknowledge, Q!Add
  <1>6. ASSUME NEW w \in Workers, EnqueueFirstTouch(w)
        PROVE  Eligible(w) /\ j = FirstTouch(wk[w].lead)
    BY <1>1, <1>6 DEF EnqueueFirstTouch, Q!Add, queueVars
  <1> QED
    BY <1>2, <1>3, <1>4, <1>5, <1>6
    DEF Next, vars, Environment, Proceeds, Receive, CutOff, LeadMoves, Crash, CreateLead,
        AttachToLead, queueVars

(* What the gateway has answered for, and what waits, is stored. *)
LEMMA RequestsStep == ASSUME TypeInv, [Next]_vars PROVE RequestsInv' /\ GatewayType'
  <1>1. raw \in [Inquiries -> Payloads \cup {None}] /\ GatewayType /\ RequestsInv
    BY DEF TypeInv, DatabaseType
  <1>2. ASSUME NEW i \in Inquiries, jobState[i] # "absent" PROVE raw[i] # None
    BY <1>1, <1>2 DEF RequestsInv
  <1>3. ASSUME NEW i \in Inquiries, jobState'[i] # "absent" PROVE raw'[i] # None
    <2>1. CASE jobState[i] # "absent" BY <1>2, <2>1, StepGrows DEF Grows
    <2>2. CASE jobState[i] = "absent"
      <3>1. Acknowledge(i)
        BY <1>3, <2>2, JobAppears, Constants DEF TypeInv, WorkersInv, ExecutionInv,
           EnqueueFirstTouch
      <3> QED BY <1>1, <3>1 DEF Acknowledge, database, RequestsInv
    <2> QED BY <2>1, <2>2
  <1>4. GatewayType' /\ \A i \in Inquiries : gateway'[i] # "idle" <=> raw'[i] # None
    <2>1. ASSUME NEW i \in Inquiries, NEW p \in Forms[i], Receive(i, p)
          PROVE  GatewayType' /\ \A j \in Inquiries : gateway'[j] # "idle" <=> raw'[j] # None
      <3>1. p \in Payloads /\ p # None BY IngestAssumption
      <3> QED BY <1>1, <2>1, <3>1 DEF Receive, GatewayType, RequestsInv
    <2>2. ASSUME NEW i \in Inquiries, Acknowledge(i) \/ CutOff(i)
          PROVE  GatewayType' /\ \A j \in Inquiries : gateway'[j] # "idle" <=> raw'[j] # None
      BY <1>1, <2>2 DEF Acknowledge, CutOff, database, GatewayType, RequestsInv
    <2>3. CASE UNCHANGED <<gateway, raw>> BY <1>1, <2>3 DEF GatewayType, RequestsInv
    <2> QED
      BY <2>1, <2>2, <2>3
      DEF Next, vars, database, Environment, Proceeds, Stall, LeadMoves, Crash, IngestBegin,
          CreateLead, AttachToLead, EnqueueFirstTouch, Finish, Throw
  <1> QED BY <1>3, <1>4 DEF RequestsInv

(* An execution in order stays so when inquiries and leads only grow. *)
LEMMA ExecutionKept ==
    ASSUME TypeInv, Grows, NEW w \in Workers, wk'[w] = wk[w]
    PROVE  ExecutionInv(wk[w], raw', leadRow')
  <1>1. wk[w] \in Execution /\ ExecutionInv(wk[w], raw, leadRow) BY DEF TypeInv, WorkersInv
  <1>2. wk[w].job \in Inquiries \cup {None} BY <1>1 DEF Execution
  <1>3. wk[w].pc \in {"write", "enqueue"} => wk[w].job \in Inquiries
    BY <1>1, <1>2 DEF ExecutionInv
  <1> QED BY <1>1, <1>2, <1>3 DEF Grows, ExecutionInv, Matches, Anonymous

(* A step of one worker, to an execution in order. *)
LEMMA OneWorker ==
    ASSUME TypeInv, Grows, NEW w \in Workers, NEW e \in Execution, wk' = [wk EXCEPT ![w] = e],
           ExecutionInv(e, raw', leadRow')
    PROVE  WorkersInv'
  <1>1. wk \in [Workers -> Execution] BY DEF TypeInv, WorkersInv
  <1>2. wk' \in [Workers -> Execution] /\ wk'[w] = e BY <1>1
  <1>3. \A u \in Workers \ {w} : wk'[u] = wk[u] BY <1>1
  <1>4. \A u \in Workers \ {w} : ExecutionInv(wk'[u], raw', leadRow') BY <1>3, ExecutionKept
  <1> QED BY <1>2, <1>4 DEF WorkersInv

(* The execution of an idle worker. *)
LEMMA IdleType == Idle \in Execution /\ ExecutionInv(Idle, raw', leadRow')
  BY DEF Idle, Execution, ExecutionInv

(* Every execution that goes on is in order. *)
LEMMA WorkersStep == ASSUME TypeInv, [Next]_vars PROVE WorkersInv'
  <1>1. Grows /\ WorkersInv /\ DatabaseType BY StepGrows DEF TypeInv
  <1>2. wk \in [Workers -> Execution] BY <1>1 DEF WorkersInv
  <1>3. CASE UNCHANGED wk BY <1>1, <1>2, <1>3, ExecutionKept DEF WorkersInv
  <1>4. ASSUME NEW w \in Workers, Leave(w) PROVE WorkersInv'
    BY <1>1, <1>4, IdleType, OneWorker DEF Leave
  <1>5. ASSUME NEW w \in Workers, NEW i \in Inquiries, IngestBegin(w, i) PROVE WorkersInv'
    <2>1. PICK o \in ResolveDuplicate(Candidates(raw[i])) :
             wk' = [wk EXCEPT ![w] =
                      [job |-> i, action |-> o.action, lead |-> o.lead,
                       pc |-> IF o.action = "flag_for_review" THEN "done" ELSE "write"]]
      BY <1>5 DEF IngestBegin
    <2>2. /\ o.action \in {"create", "merge", "reopen", "flag_for_review"}
          /\ o.lead \in Leads \cup {None}
          /\ o.action \in {"merge", "reopen"} => o.lead \in Candidates(raw[i])
      BY OutcomeOf DEF Candidates
    <2>3. raw[i] # None /\ i # None /\ raw' = raw /\ leadRow' = leadRow
      BY <1>5, Constants DEF IngestBegin, Q!Take, database, TypeInv, RequestsInv
    <2> DEFINE e == [job |-> i, action |-> o.action, lead |-> o.lead,
                     pc |-> IF o.action = "flag_for_review" THEN "done" ELSE "write"]
    <2>4. e \in Execution BY <2>2 DEF Execution
    <2>5. ExecutionInv(e, raw', leadRow') BY <2>2, <2>3 DEF ExecutionInv, Candidates, Matches
    <2> HIDE DEF e
    <2> QED BY <1>1, <2>1, <2>4, <2>5, OneWorker DEF e
  <1>6. ASSUME NEW w \in Workers, CreateLead(w) PROVE WorkersInv'
    <2> DEFINE e == [wk[w] EXCEPT !.pc = "enqueue", !.lead = NewLead]
    <2>1. wk[w] \in Execution /\ wk[w].pc = "write" /\ NewLead \in Leads
      BY <1>2, <1>6, Created DEF CreateLead
    <2>2. e \in Execution BY <2>1 DEF Execution
    <2>3. e.pc = "enqueue" /\ e.lead = NewLead /\ e.job = wk[w].job
      BY <2>1 DEF Execution
    <2>4. wk' = [wk EXCEPT ![w] = e] BY <1>2, <1>6 DEF CreateLead
    <2>5. /\ wk[w].job \in Inquiries /\ raw[wk[w].job] \in Payloads /\ raw' = raw
          /\ leadRow'[NewLead] # None
          /\ leadRow'[NewLead].phone = raw[wk[w].job].phone
          /\ leadRow'[NewLead].email = raw[wk[w].job].email
      BY <1>6, Created DEF CreateLead
    <2> HIDE DEF e
    <2>6. ExecutionInv(e, raw', leadRow')
      BY <2>1, <2>3, <2>5, Constants, PayloadType DEF ExecutionInv, Matches, Anonymous
    <2> QED BY <1>1, <2>2, <2>4, <2>6, OneWorker
  <1>7. ASSUME NEW w \in Workers, AttachToLead(w) PROVE WorkersInv'
    <2> DEFINE e == [wk[w] EXCEPT !.pc = "enqueue"]
    <2>1. wk[w] \in Execution /\ wk[w].pc = "write" /\ ExecutionInv(wk[w], raw, leadRow)
      BY <1>1, <1>7 DEF AttachToLead, WorkersInv
    <2>2. e \in Execution BY <2>1 DEF Execution
    <2>3. e.pc = "enqueue" /\ e.lead = wk[w].lead /\ e.job = wk[w].job
      BY <2>1 DEF Execution
    <2>4. wk' = [wk EXCEPT ![w] = e] BY <1>2, <1>7 DEF AttachToLead
    <2>5. wk[w].job \in Inquiries BY <2>1 DEF Execution, ExecutionInv
    <2> HIDE DEF e
    <2>6. ExecutionInv(e, raw', leadRow')
      BY <1>1, <1>7, <2>1, <2>3, <2>5, Constants
      DEF AttachToLead, ExecutionInv, Grows, Matches, Anonymous
    <2> QED BY <1>1, <2>2, <2>4, <2>6, OneWorker
  <1>8. ASSUME NEW w \in Workers, EnqueueFirstTouch(w) PROVE WorkersInv'
    <2> DEFINE e == [wk[w] EXCEPT !.pc = "done"]
    <2>1. wk[w] \in Execution /\ wk[w].pc = "enqueue" /\ ExecutionInv(wk[w], raw, leadRow)
      BY <1>1, <1>8 DEF EnqueueFirstTouch, WorkersInv
    <2>2. e \in Execution BY <2>1 DEF Execution
    <2>3. e.pc = "done" /\ e.job = wk[w].job BY <2>1 DEF Execution
    <2>4. wk' = [wk EXCEPT ![w] = e] BY <1>2, <1>8 DEF EnqueueFirstTouch
    <2>5. wk[w].job \in Inquiries BY <2>1 DEF Execution, ExecutionInv
    <2> HIDE DEF e
    <2>6. ExecutionInv(e, raw', leadRow') BY <1>1, <2>1, <2>3, <2>5, Constants DEF ExecutionInv, Grows
    <2> QED BY <1>1, <2>2, <2>4, <2>6, OneWorker
  <1> QED
    BY <1>3, <1>4, <1>5, <1>6, <1>7, <1>8
    DEF Next, vars, Environment, Proceeds, Receive, CutOff, Stall, LeadMoves, Crash,
        Acknowledge, Finish, Throw

(* The rest of the type invariant. *)
LEMMA RestStep ==
    ASSUME TypeInv, [Next]_vars PROVE DatabaseType' /\ HistoryType' /\ FaultsType'
  <1>1. FaultsType'
    <2>1. Fault \/ UNCHANGED faults
      BY DEF Next, vars, Environment, Proceeds, Receive, CutOff, Stall, LeadMoves, Crash,
         Acknowledge, IngestBegin, CreateLead, AttachToLead, EnqueueFirstTouch, Finish, Throw
    <2> QED BY <2>1, FaultSpent DEF TypeInv
  <1>2. ASSUME NEW w \in Workers, wk[w].pc \in {"write", "enqueue"}
        PROVE  /\ wk[w].job \in Inquiries
               /\ wk[w].action # "create" \/ wk[w].pc = "enqueue" => wk[w].lead \in Leads
    BY <1>2 DEF TypeInv, WorkersInv, ExecutionInv, Execution
  <1>3. raw' \in [Inquiries -> Payloads \cup {None}]
    <2>1. UNCHANGED raw \/ \E i \in Inquiries : \E p \in Forms[i] : Receive(i, p)
      BY DEF Next, vars, database, Environment, Proceeds, CutOff, Stall, LeadMoves, Crash,
         Acknowledge, IngestBegin, CreateLead, AttachToLead, EnqueueFirstTouch, Finish, Throw
    <2> QED BY <2>1, IngestAssumption DEF Receive, TypeInv, DatabaseType
  <1>4. ledger' \in [Inquiries -> Leads \cup {None}]
    <2>1. \/ UNCHANGED ledger
          \/ \E w \in Workers : CreateLead(w)
          \/ \E w \in Workers : AttachToLead(w)
      BY DEF Next, vars, database, Environment, Proceeds, Receive, CutOff, Stall, LeadMoves,
         Crash, Acknowledge, IngestBegin, EnqueueFirstTouch, Finish, Throw
    <2>2. ASSUME NEW w \in Workers, CreateLead(w) PROVE ledger' \in [Inquiries -> Leads \cup {None}]
      BY <2>2, Created DEF CreateLead, TypeInv, DatabaseType
    <2>3. ASSUME NEW w \in Workers, AttachToLead(w)
          PROVE  ledger' \in [Inquiries -> Leads \cup {None}]
      BY <1>2, <2>3 DEF AttachToLead, TypeInv, DatabaseType
    <2> QED BY <2>1, <2>2, <2>3 DEF TypeInv, DatabaseType
  <1>5. HistoryType'
    <2>1. \/ UNCHANGED history
          \/ \E w \in Workers : CreateLead(w)
          \/ \E w \in Workers, i \in Inquiries : IngestBegin(w, i)
      BY DEF Next, vars, Environment, Proceeds, Receive, CutOff, Stall, LeadMoves,
         Crash, Acknowledge, AttachToLead, EnqueueFirstTouch, Finish, Throw
    <2>2. ASSUME NEW w \in Workers, CreateLead(w) PROVE HistoryType'
      BY <2>2, Created DEF CreateLead, TypeInv, HistoryType
    <2>3. ASSUME NEW w \in Workers, NEW i \in Inquiries, IngestBegin(w, i) PROVE HistoryType'
      BY <2>3 DEF IngestBegin, TypeInv, HistoryType
    <2> QED BY <2>1, <2>2, <2>3 DEF history, TypeInv, HistoryType
  <1> QED BY <1>1, <1>3, <1>4, <1>5, StepGrows DEF DatabaseType

(* TypeInv is inductive. *)
THEOREM TypeInvariant == Spec => []TypeInv
  <1>1. Init => TypeInv
    <2> SUFFICES ASSUME Init PROVE TypeInv OBVIOUS
    <2>1. QP!QueueInv BY QP!QueueInitially, Constants DEF Init, QP!QueueInit, Q!QueueInit
    <2>2. WorkersInv BY DEF Init, WorkersInv, ExecutionInv, Idle, Execution
    <2>3. RequestsInv BY Constants DEF Init, RequestsInv, Q!QueueInit
    <2>4. DatabaseType /\ GatewayType /\ HistoryType /\ FaultsType
      BY IngestAssumption DEF Init, DatabaseType, GatewayType, HistoryType, FaultsType
    <2> QED BY <2>1, <2>2, <2>3, <2>4 DEF TypeInv
  <1>2. TypeInv /\ [Next]_vars => TypeInv'
    BY QueueStep, RequestsStep, WorkersStep, RestStep DEF TypeInv
  <1> QED BY <1>1, <1>2, PTL DEF Spec

(* Every variable has its type. *)
THEOREM TypeCorrect == Spec => []TypeOK
  <1>1. TypeInv => TypeOK
    BY DEF TypeInv, TypeOK, DatabaseType, GatewayType, HistoryType, FaultsType, WorkersInv,
       QP!QueueInv, QP!QueueTypeOK, Q!QueueTypeOK, QP!JobStatus, Q!JobStatus
  <1> QED BY <1>1, TypeInvariant, PTL

-----------------------------------------------------------------------------
(* A first touch has evidence.                                             *)

(* The first touch that is queued is of a lead that exists. *)
EvidenceInv ==
    \A l \in Leads :
        jobState[FirstTouch(l)] # "absent"
            => /\ leadRow[l] # None
               /\ \E i \in Inquiries :
                     raw[i] # None /\ raw[i].consent /\ Matches(leadRow[l], raw[i])

(* EvidenceInv is inductive on top of TypeInv: an inquiry that is eligible *)
(* is not anonymous, and the execution has found or made a lead with its   *)
(* phone or email, which no step takes away.                               *)
THEOREM ConsentIsEvident == Spec => []FirstTouchHasEvidence
  <1>1. Init => EvidenceInv
    BY Constants DEF Init, EvidenceInv, Q!QueueInit
  <1>2. TypeInv /\ EvidenceInv /\ [Next]_vars => EvidenceInv'
    <2> SUFFICES ASSUME TypeInv, EvidenceInv, [Next]_vars, NEW l \in Leads,
                        jobState'[FirstTouch(l)] # "absent"
                 PROVE  /\ leadRow'[l] # None
                        /\ \E i \in Inquiries :
                              raw'[i] # None /\ raw'[i].consent /\ Matches(leadRow'[l], raw'[i])
      BY DEF EvidenceInv
    <2>1. Grows BY StepGrows
    <2>2. ASSUME leadRow[l] # None,
                 \E i \in Inquiries :
                    raw[i] # None /\ raw[i].consent /\ Matches(leadRow[l], raw[i])
          PROVE  /\ leadRow'[l] # None
                 /\ \E i \in Inquiries :
                       raw'[i] # None /\ raw'[i].consent /\ Matches(leadRow'[l], raw'[i])
      BY <2>1, <2>2 DEF Grows, Matches
    <2>3. CASE jobState[FirstTouch(l)] # "absent" BY <2>2, <2>3 DEF EvidenceInv
    <2>4. CASE jobState[FirstTouch(l)] = "absent"
      <3>1. PICK w \in Workers : EnqueueFirstTouch(w) /\ Eligible(w)
                                    /\ FirstTouch(l) = FirstTouch(wk[w].lead)
        BY <2>4, JobAppears, Constants
      <3>2. /\ wk[w].job \in Inquiries /\ raw[wk[w].job] # None /\ wk[w].lead = l
            /\ leadRow[l] # None
            /\ Matches(leadRow[l], raw[wk[w].job]) \/ Anonymous(raw[wk[w].job])
        BY <3>1, Constants
        DEF EnqueueFirstTouch, TypeInv, WorkersInv, Execution, ExecutionInv
      <3>3. raw[wk[w].job] \in Payloads BY <3>2 DEF TypeInv, DatabaseType
      <3>4. raw[wk[w].job].consent /\ ~Anonymous(raw[wk[w].job])
        BY <3>1, <3>3, BandType DEF Eligible, Payload
      <3> QED BY <2>2, <3>2, <3>4
    <2> QED BY <2>3, <2>4
  <1>3. EvidenceInv => FirstTouchHasEvidence BY DEF EvidenceInv, FirstTouchHasEvidence
  <1> QED BY <1>1, <1>2, <1>3, TypeInvariant, PTL DEF Spec

-----------------------------------------------------------------------------
(* Leads that share a phone or an email.                                   *)

Closed == {"archived", "lost", "won", "opted_out"}

(* A lead that is closed stays closed: of the moves of other components    *)
(* none leads out.                                                         *)
LEMMA ClosedStays ==
    ASSUME TypeInv, [Next]_vars, NEW l \in Leads, leadRow[l] # None, leadRow[l].state \in Closed
    PROVE  leadRow'[l].state \in Closed
  <1>1. leadRow \in [Leads -> LeadRow \cup {None}] BY DEF TypeInv, DatabaseType
  <1>2. ASSUME NEW m \in Leads, NEW s \in Moves, LeadMoves(m, s), m = l PROVE FALSE
    <2>1. /\ CanTransition(leadRow[l].state, s) /\ leadRow[l].state # s
          /\ s \in {"contacted", "engaged", "human_owned", "opted_out", "lost"}
      BY <1>2, IngestAssumption DEF LeadMoves
    <2>2. /\ Transitions("archived") = {} /\ Transitions("lost") = {"archived", "nurture"}
          /\ Transitions("won") = {"archived"} /\ Transitions("opted_out") = {"archived"}
      BY DEF Transitions
    <2> QED BY <2>1, <2>2 DEF CanTransition, ActiveStates, Closed
  <1>3. ASSUME NEW m \in Leads, NEW s \in Moves, LeadMoves(m, s), m # l
        PROVE  leadRow'[l] = leadRow[l]
    BY <1>1, <1>3 DEF LeadMoves
  <1>4. ASSUME NEW w \in Workers, CreateLead(w) PROVE leadRow'[l] = leadRow[l]
    BY <1>4, Created
  <1>5. ASSUME NEW w \in Workers, AttachToLead(w) PROVE leadRow'[l].state = leadRow[l].state
    <2>1. wk[w].lead \in Leads /\ leadRow[wk[w].lead] \in LeadRow
      BY <1>1, <1>5 DEF AttachToLead, TypeInv, WorkersInv, ExecutionInv
    <2>2. leadRow[l] \in LeadRow BY <1>1
    <2> QED BY <1>1, <1>5, <2>1, <2>2 DEF AttachToLead, LeadRow
  <1> QED BY <1>2, <1>3, <1>4, <1>5, RowSteps

(* Of two leads with one phone one is closed: leads_open_phone. *)
PhoneInv ==
    \A l, m \in Leads :
        l # m /\ leadRow[l] # None /\ leadRow[m] # None /\ SamePhone(l, m) => OneIsClosed(l, m)

(* A lead with the phone or the email of another was created by an         *)
(* execution that had not seen it.                                         *)
RacedInv ==
    \A l, m \in Leads :
        l # m /\ leadRow[l] # None /\ leadRow[m] # None /\ (SamePhone(l, m) \/ SameEmail(l, m))
            => {l, m} \cap raced # {}

(* Only CreateLead makes a row. *)
LEMMA RowAppears ==
    ASSUME TypeInv, [Next]_vars, ~\E w \in Workers : CreateLead(w)
    PROVE  /\ \A l \in Leads : leadRow'[l] # None => leadRow[l] # None
           /\ origin' = origin /\ raced' = raced
  <1>1. origin' = origin /\ raced' = raced
    BY DEF Next, vars, history, Environment, Proceeds, Receive, CutOff, Stall, LeadMoves,
       Crash, Acknowledge, IngestBegin, AttachToLead, EnqueueFirstTouch, Finish, Throw
  <1>2. ASSUME NEW w \in Workers, AttachToLead(w)
        PROVE  \A l \in Leads : leadRow'[l] # None => leadRow[l] # None
    <2>1. wk[w].lead \in Leads /\ leadRow[wk[w].lead] # None
      BY <1>2 DEF AttachToLead, TypeInv, WorkersInv, ExecutionInv
    <2> QED BY <1>2, <2>1 DEF AttachToLead, TypeInv, DatabaseType
  <1>3. ASSUME NEW l \in Leads, NEW s \in Moves, LeadMoves(l, s)
        PROVE  \A m \in Leads : leadRow'[m] # None => leadRow[m] # None
    BY <1>3 DEF LeadMoves, TypeInv, DatabaseType
  <1> QED BY <1>1, <1>2, <1>3, RowSteps

(* A step that makes no row keeps the details the invariants compare. *)
LEMMA DetailsKept ==
    ASSUME TypeInv, [Next]_vars, NEW l \in Leads, NEW m \in Leads,
           leadRow[l] # None, leadRow[m] # None
    PROVE  /\ SamePhone(l, m)' => SamePhone(l, m)
           /\ SameEmail(l, m)' => SameEmail(l, m)
           /\ OneIsClosed(l, m) => OneIsClosed(l, m)'
  BY StepGrows, ClosedStays DEF Grows, SamePhone, SameEmail, OneIsClosed, Closed

(* PhoneInv and RacedInv are inductive on top of TypeInv. *)
LEMMA DuplicatesStep ==
    TypeInv /\ PhoneInv /\ RacedInv /\ [Next]_vars => PhoneInv' /\ RacedInv'
  <1> SUFFICES ASSUME TypeInv, PhoneInv, RacedInv, [Next]_vars,
                      NEW l \in Leads, NEW m \in Leads, l # m,
                      leadRow'[l] # None, leadRow'[m] # None
               PROVE  /\ SamePhone(l, m)' => OneIsClosed(l, m)'
                      /\ SamePhone(l, m)' \/ SameEmail(l, m)' => {l, m} \cap raced' # {}
    BY DEF PhoneInv, RacedInv
  <1>1. raced \subseteq raced' BY RowAppears DEF CreateLead
  <1>2. CASE leadRow[l] # None /\ leadRow[m] # None
    BY <1>1, <1>2, DetailsKept DEF PhoneInv, RacedInv
  <1>3. ASSUME NEW w \in Workers, CreateLead(w), NEW a \in Leads, NEW b \in Leads,
               a # b, a = NewLead, leadRow[b] # None
        PROVE  /\ SamePhone(a, b)' => OneIsClosed(a, b)'
               /\ SamePhone(a, b)' \/ SameEmail(a, b)' => a \in raced'
    <2> DEFINE p == raw[wk[w].job]
    <2>1. /\ leadRow'[a].phone = p.phone /\ leadRow'[a].email = p.email
          /\ leadRow'[b] = leadRow[b]
      BY <1>3, Created
    <2>2. ASSUME SamePhone(a, b)' PROVE OneIsClosed(a, b)'
      <3>1. p.phone # None /\ leadRow[b].phone = p.phone BY <2>1, <2>2 DEF SamePhone
      <3>2. leadRow[b].state \in Closed
        BY <1>3, <3>1 DEF CreateLead, PhoneTaken, Payload, Closed
      <3> QED BY <2>1, <3>2 DEF OneIsClosed, Closed
    <2>3. ASSUME SamePhone(a, b)' \/ SameEmail(a, b)' PROVE a \in raced'
      <3>1. Matches(leadRow[b], p) BY <2>1, <2>3 DEF SamePhone, SameEmail, Matches
      <3>2. b \in Candidates(p) BY <1>3, <3>1 DEF Candidates
      <3> QED BY <1>3, <3>2 DEF CreateLead, Payload
    <2> QED BY <2>2, <2>3
  <1>4. CASE leadRow[l] = None \/ leadRow[m] = None
    <2>1. PICK w \in Workers : CreateLead(w) BY <1>4, RowAppears
    <2>2. \A n \in Leads : leadRow[n] = None /\ leadRow'[n] # None => n = NewLead
      BY <2>1, Created
    <2>3. CASE leadRow[l] = None
      <3>1. l = NewLead /\ leadRow[m] # None BY <2>2, <2>3
      <3> QED BY <1>3, <2>1, <3>1
    <2>4. CASE leadRow[m] = None
      <3>1. m = NewLead /\ leadRow[l] # None BY <2>2, <2>4
      <3> QED BY <1>3, <2>1, <3>1 DEF SamePhone, SameEmail, OneIsClosed
    <2> QED BY <1>4, <2>3, <2>4
  <1> QED BY <1>2, <1>4

(* What leads_open_phone keeps, and what only a race can break. *)
THEOREM DuplicatesAreRaces == Spec => []NoDuplicateLeads
  <1>1. Init => PhoneInv /\ RacedInv BY DEF Init, PhoneInv, RacedInv
  <1>2. PhoneInv /\ RacedInv => NoDuplicateLeads
    BY DEF PhoneInv, RacedInv, NoDuplicateLeads
  <1> QED BY <1>1, <1>2, DuplicatesStep, TypeInvariant, PTL DEF Spec

-----------------------------------------------------------------------------
(* The leads of one inquiry.                                               *)

(* A lead has the details of the inquiry that created it. *)
OriginInv ==
    \A l \in Leads : origin[l] # None =>
        /\ leadRow[l] # None /\ raw[origin[l]] # None
        /\ leadRow[l].phone = raw[origin[l]].phone
        /\ leadRow[l].email = raw[origin[l]].email

(* What OneLeadPerInquiry needs of an inquiry no two executions of which   *)
(* overlapped: one that is about to create a lead has none yet.            *)
InquiryInv ==
    \A i \in Inquiries \ overlapped :
        /\ \A u, w \in Workers : wk[u].job = i /\ wk[w].job = i => u = w
        /\ raw[i] # None /\ ~Anonymous(raw[i]) =>
             /\ \A l, m \in Leads : origin[l] = i /\ origin[m] = i => l = m
             /\ \A w \in Workers :
                   wk[w].job = i /\ wk[w].pc = "write" /\ wk[w].action = "create"
                       => \A l \in Leads : origin[l] # i

(* OriginInv is inductive on top of TypeInv. *)
LEMMA OriginStep == TypeInv /\ OriginInv /\ [Next]_vars => OriginInv'
  <1> SUFFICES ASSUME TypeInv, OriginInv, [Next]_vars, NEW l \in Leads, origin'[l] # None
               PROVE  /\ leadRow'[l] # None /\ raw'[origin'[l]] # None
                      /\ leadRow'[l].phone = raw'[origin'[l]].phone
                      /\ leadRow'[l].email = raw'[origin'[l]].email
    BY DEF OriginInv
  <1>1. Grows /\ origin \in [Leads -> Inquiries \cup {None}]
    BY StepGrows DEF TypeInv, HistoryType
  <1>2. CASE origin'[l] = origin[l] BY <1>1, <1>2 DEF OriginInv, Grows
  <1>3. CASE origin'[l] # origin[l]
    <2>1. PICK w \in Workers : CreateLead(w) BY <1>3, RowAppears
    <2>2. l = NewLead /\ origin'[l] = wk[w].job /\ raw' = raw
      BY <1>1, <1>3, <2>1, Created DEF CreateLead
    <2>3. raw[wk[w].job] # None BY <2>1, Created, PayloadType
    <2> QED BY <2>1, <2>2, <2>3, Created
  <1> QED BY <1>2, <1>3

(* What a step does to the executions of an inquiry. *)
LEMMA ExecutionsStep ==
    ASSUME TypeInv, [Next]_vars, NEW i \in Inquiries, i \notin overlapped', NEW w \in Workers,
           wk'[w].job = i
    PROVE  /\ i \notin overlapped
           /\ \/ /\ wk[w].job = i
                 /\ wk'[w].pc = "write" => wk'[w] = wk[w]
              \/ /\ IngestBegin(w, i)
                 /\ \A u \in Workers : wk[u].job # i
                 /\ \A u \in Workers \ {w} : wk'[u] = wk[u]
                 /\ wk'[w].pc = "write" /\ wk'[w].action = "create" => Candidates(raw[i]) = {}
  <1>1. wk \in [Workers -> Execution] /\ i # None /\ overlapped \subseteq Inquiries
    BY Constants DEF TypeInv, WorkersInv, HistoryType
  <1>2. i \notin overlapped
    BY DEF Next, vars, history, Environment, Proceeds, Receive, CutOff, Stall, LeadMoves,
       Crash, Acknowledge, IngestBegin, CreateLead, AttachToLead, EnqueueFirstTouch, Finish,
       Throw
  <1>3. ASSUME NEW u \in Workers, NEW j \in Inquiries, IngestBegin(u, j)
        PROVE  \/ wk'[w] = wk[w]
               \/ /\ IngestBegin(w, i) /\ \A v \in Workers : wk[v].job # i
                  /\ \A v \in Workers \ {w} : wk'[v] = wk[v]
                  /\ wk'[w].pc = "write" /\ wk'[w].action = "create" => Candidates(raw[i]) = {}
    <2>1. PICK o \in ResolveDuplicate(Candidates(raw[j])) :
             wk' = [wk EXCEPT ![u] =
                      [job |-> j, action |-> o.action, lead |-> o.lead,
                       pc |-> IF o.action = "flag_for_review" THEN "done" ELSE "write"]]
      BY <1>3 DEF IngestBegin
    <2>2. CASE u # w BY <1>1, <2>1, <2>2
    <2>3. CASE u = w
      <3>1. j = i /\ wk'[w].action = o.action BY <1>1, <2>1, <2>3
      <3>2. \A v \in Workers : wk[v].job # i BY <1>3, <3>1 DEF IngestBegin
      <3>3. o.action = "create" => Candidates(raw[i]) = {}
        BY <3>1, OutcomeOf DEF Candidates
      <3> QED BY <1>1, <1>3, <2>1, <2>3, <3>1, <3>2, <3>3
    <2> QED BY <2>2, <2>3
  <1>4. ASSUME NEW u \in Workers, Proceeds(u) \/ Crash(u)
        PROVE  wk[w].job = i /\ (wk'[w].pc = "write" => wk'[w] = wk[w])
    <2>1. CASE u # w
      BY <1>1, <1>4, <2>1 DEF Proceeds, CreateLead, AttachToLead, EnqueueFirstTouch, Finish,
         Throw, Crash, Leave
    <2>2. CASE u = w
      <3>1. CASE Finish(w) \/ Throw(w) \/ Crash(w)
        BY <1>1, <3>1 DEF Finish, Throw, Crash, Leave, Idle
      <3>2. CASE CreateLead(w) \/ AttachToLead(w) \/ EnqueueFirstTouch(w)
        BY <1>1, <3>2 DEF CreateLead, AttachToLead, EnqueueFirstTouch, Execution
      <3> QED BY <1>4, <2>2, <3>1, <3>2 DEF Proceeds
    <2> QED BY <2>1, <2>2
  <1>5. CASE UNCHANGED wk BY <1>2, <1>5
  <1> QED
    BY <1>2, <1>3, <1>4, <1>5
    DEF Next, vars, Environment, Receive, CutOff, Stall, LeadMoves, Acknowledge

(* InquiryInv is inductive on top of TypeInv and OriginInv: an execution   *)
(* that begins after a commit meets the lead it made.                      *)
LEMMA InquiryStep == TypeInv /\ OriginInv /\ InquiryInv /\ [Next]_vars => InquiryInv'
  <1> SUFFICES ASSUME TypeInv, OriginInv, InquiryInv, [Next]_vars,
                      NEW i \in Inquiries, i \notin overlapped'
               PROVE  /\ \A u, w \in Workers : wk'[u].job = i /\ wk'[w].job = i => u = w
                      /\ raw'[i] # None /\ ~Anonymous(raw'[i]) =>
                           /\ \A l, m \in Leads : origin'[l] = i /\ origin'[m] = i => l = m
                           /\ \A w \in Workers :
                                 wk'[w].job = i /\ wk'[w].pc = "write"
                                    /\ wk'[w].action = "create"
                                       => \A l \in Leads : origin'[l] # i
    BY DEF InquiryInv, Anonymous
  <1>1. /\ Grows /\ origin \in [Leads -> Inquiries \cup {None}] /\ i # None
        /\ raw \in [Inquiries -> Payloads \cup {None}]
    BY StepGrows, Constants DEF TypeInv, HistoryType, DatabaseType
  <1>2. i \notin overlapped
    BY DEF Next, vars, history, Environment, Proceeds, Receive, CutOff, Stall, LeadMoves,
       Crash, Acknowledge, IngestBegin, CreateLead, AttachToLead, EnqueueFirstTouch, Finish,
       Throw
  <1>3. \A u, w \in Workers : wk[u].job = i /\ wk[w].job = i => u = w BY <1>2 DEF InquiryInv
  <1>4. \A u, w \in Workers : wk'[u].job = i /\ wk'[w].job = i => u = w
    <2> SUFFICES ASSUME NEW u \in Workers, NEW w \in Workers,
                        wk'[u].job = i, wk'[w].job = i, u # w
                 PROVE  FALSE
      OBVIOUS
    <2>1. CASE wk[u].job = i /\ wk[w].job = i BY <1>3, <2>1
    <2>2. CASE wk[u].job # i BY <2>2, ExecutionsStep
    <2>3. CASE wk[w].job # i BY <2>3, ExecutionsStep
    <2> QED BY <2>1, <2>2, <2>3
  <1>5. ASSUME raw'[i] # None, ~Anonymous(raw'[i])
        PROVE  /\ \A l, m \in Leads : origin'[l] = i /\ origin'[m] = i => l = m
               /\ \A w \in Workers :
                     wk'[w].job = i /\ wk'[w].pc = "write" /\ wk'[w].action = "create"
                         => \A l \in Leads : origin'[l] # i
    <2>1. CASE raw[i] = None
      <3>1. \A l \in Leads : origin'[l] = i => origin[l] = i
        BY <2>1, <1>1, RowAppears, Created, PayloadType DEF CreateLead
      <3>2. \A l \in Leads : origin'[l] # i BY <1>1, <2>1, <3>1 DEF OriginInv
      <3> QED BY <3>2
    <2>2. CASE raw[i] # None
      <3>1. raw'[i] = raw[i] /\ ~Anonymous(raw[i]) BY <1>1, <1>5, <2>2 DEF Grows
      <3>2. \A l, m \in Leads : origin[l] = i /\ origin[m] = i => l = m
        BY <1>2, <2>2, <3>1 DEF InquiryInv
      <3>3. \A w \in Workers :
               wk[w].job = i /\ wk[w].pc = "write" /\ wk[w].action = "create"
                   => \A l \in Leads : origin[l] # i
        BY <1>2, <2>2, <3>1 DEF InquiryInv
      <3>4. ASSUME NEW w \in Workers, CreateLead(w), wk[w].job = i
            PROVE  /\ \A l \in Leads : origin'[l] = i => l = NewLead
                   /\ \A u \in Workers : wk'[u].job = i => wk'[u].pc # "write"
        <4>1. \A l \in Leads : origin[l] # i BY <3>3, <3>4 DEF CreateLead
        <4>2. \A u \in Workers : wk'[u].job = i => u = w
          BY <1>3, <3>4, ExecutionsStep DEF CreateLead, IngestBegin
        <4>3. wk'[w].pc = "enqueue"
          BY <3>4 DEF CreateLead, TypeInv, WorkersInv, Execution
        <4> QED BY <1>1, <3>4, <4>1, <4>2, <4>3 DEF CreateLead
      <3>5. ASSUME \A w \in Workers : CreateLead(w) => wk[w].job # i
            PROVE  \A l \in Leads : origin'[l] = i => origin[l] = i
        <4>1. CASE ~\E w \in Workers : CreateLead(w) BY <4>1, RowAppears
        <4>2. ASSUME NEW w \in Workers, CreateLead(w)
              PROVE  \A l \in Leads : origin'[l] = i => origin[l] = i
          <5>1. wk[w].job # i BY <3>5, <4>2
          <5> QED BY <1>1, <4>2, <5>1, Created DEF CreateLead
        <4> QED BY <4>1, <4>2
      <3>6. ASSUME NEW w \in Workers, wk'[w].job = i, wk'[w].pc = "write",
                   wk'[w].action = "create", NEW l \in Leads, origin[l] = i
            PROVE  FALSE
        <4>1. CASE wk'[w] = wk[w] BY <3>3, <3>6, <4>1
        <4>2. CASE wk'[w] # wk[w]
          <5>1. IngestBegin(w, i) /\ Candidates(raw[i]) = {} BY <3>6, <4>2, ExecutionsStep
          <5>2. /\ leadRow[l] # None
                /\ leadRow[l].phone = raw[i].phone /\ leadRow[l].email = raw[i].email
            BY <1>1, <3>6 DEF OriginInv
          <5>3. l \in Candidates(raw[i])
            BY <3>1, <5>2 DEF Candidates, Matches, Anonymous
          <5> QED BY <5>1, <5>3
        <4> QED BY <4>1, <4>2
      <3>7. CASE \E w \in Workers : CreateLead(w) /\ wk[w].job = i BY <3>4, <3>7
      <3>8. CASE \A w \in Workers : CreateLead(w) => wk[w].job # i
        BY <3>2, <3>5, <3>6, <3>8
      <3> QED BY <3>7, <3>8
    <2> QED BY <2>1, <2>2
  <1> QED BY <1>4, <1>5

(* A retry meets the lead of the attempt that committed. *)
THEOREM RetriesFindTheirLead == Spec => []OneLeadPerInquiry
  <1>1. Init => OriginInv /\ InquiryInv
    <2> SUFFICES ASSUME Init PROVE OriginInv /\ InquiryInv OBVIOUS
    <2>1. \A l \in Leads : origin[l] = None BY DEF Init
    <2>2. \A w \in Workers : wk[w].job = None BY DEF Init, Idle
    <2>3. None \notin Inquiries BY Constants
    <2> QED BY <2>1, <2>2, <2>3 DEF OriginInv, InquiryInv
  <1>2. TypeInv /\ OriginInv /\ InquiryInv /\ PhoneInv => OneLeadPerInquiry
    <2> SUFFICES ASSUME TypeInv, OriginInv, InquiryInv, PhoneInv,
                        NEW l \in Leads, NEW m \in Leads, l # m,
                        origin[l] # None, origin[l] = origin[m]
                 PROVE  /\ origin[l] \in overlapped \/ Anonymous(raw[origin[l]])
                        /\ SamePhone(l, m) => OneIsClosed(l, m)
      BY DEF OneLeadPerInquiry
    <2>1. /\ origin[l] \in Inquiries /\ raw[origin[l]] # None
          /\ leadRow[l] # None /\ leadRow[m] # None
      BY DEF TypeInv, HistoryType, OriginInv
    <2> QED BY <2>1 DEF InquiryInv, PhoneInv
  <1>3. Init => PhoneInv /\ RacedInv BY DEF Init, PhoneInv, RacedInv
  <1> QED
    BY <1>1, <1>2, <1>3, OriginStep, InquiryStep, DuplicatesStep, TypeInvariant, PTL DEF Spec

=============================================================================
