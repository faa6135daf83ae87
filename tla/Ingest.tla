--------------------------------- MODULE Ingest ---------------------------------
(***************************************************************************)
(* Lead ingestion: the signed gateway of apps/api/src/routes/ingest.ts and *)
(* processIngest of apps/worker/src/processors/ingest.ts, with the         *)
(* identity resolution of packages/core/src/dedup.ts.                      *)
(*                                                                         *)
(* The gateway stores an inquiry and its idempotency row in a transaction  *)
(* and only then adds the job.  The processor reads the leads that share   *)
(* the phone or the email, decides, writes, commits, and only then adds    *)
(* the first-touch job.  The transaction is a step that reads and decides  *)
(* and one that writes and commits.  The processor of the first-touch job  *)
(* is module Messaging's.                                                  *)
(***************************************************************************)
EXTENDS LeadLifecycle, Scoring, FiniteSets

CONSTANTS Inquiries,    (* a source and an idempotency key                  *)
          Payloads,     (* what forms may hold                              *)
          Forms,        (* the payloads an inquiry may carry                *)
          Leads, Phones, Emails,
          Workers, None, MaxAttempts, MaxStalls,
          Moves,        (* states other components may move a lead to       *)
          Faults        (* how many crashes, stalls and I/O errors may occur *)

FirstTouch(l) == <<"first-touch", l>>

Jobs == Inquiries \cup {FirstTouch(l) : l \in Leads}

LeadRow ==
    [state: LeadState, phone: Phones \cup {None}, email: Emails \cup {None},
     consent: {"granted", "unknown"}, band: {"hot", "qualified", "nurture", "unqualified"}]

ASSUME IngestAssumption ==
    /\ None \notin Jobs \cup Leads \cup Phones \cup Emails \cup Workers \cup Payloads
                    \cup LeadRow
    /\ \A l \in Leads : FirstTouch(l) \notin Inquiries
    /\ Payloads \subseteq [phone: Phones \cup {None}, email: Emails \cup {None},
                           consent: BOOLEAN, city: BOOLEAN, service: BOOLEAN]
    /\ Forms \in [Inquiries -> SUBSET Payloads]
    /\ MaxAttempts \in Nat \ {0}
    /\ MaxStalls \in Nat
    /\ Moves \subseteq {"contacted", "engaged", "human_owned", "opted_out", "lost"}
    /\ Faults \in Nat

(* Without a phone and an email no inquiry scores above unqualified: a     *)
(* fact of the scoring table, which has no parameter.                      *)
ASSUME AnonymousScore ==
    \A city, service \in BOOLEAN :
        Band(DerivedFacts(FALSE, FALSE, city, service)) = "unqualified"

VARIABLES
    raw,        (* raw_webhooks.payload of the request that made the ledger row *)
    ledger,     (* ingest_idempotency.lead_id                               *)
    leadRow,    (* leads, their phone and email identities, their consent   *)
    gateway,    (* how far the request that made the ledger row has come    *)
    jobState, tries, stalls, holder,
    wk,         (* the execution each worker runs                           *)
    (* history *)
    origin,     (* the inquiry that created a lead                          *)
    raced,      (* leads created although a match was committed meanwhile   *)
    flagged,    (* inquiries an execution of which was flagged for review   *)
    overlapped, (* inquiries of which two executions ran at once            *)
    faults

Q == INSTANCE JobQueue WITH Job <- Jobs, Worker <- Workers, NoWorker <- None

database  == <<raw, ledger, leadRow>>
queueVars == <<jobState, tries, stalls, holder>>
history   == <<origin, raced, flagged, overlapped>>
vars == <<database, gateway, queueVars, wk, history, faults>>

(* Control points: write is the commit of the transaction, enqueue what    *)
(* follows it.  action and lead are the outcome of resolveDuplicate.       *)
Execution ==
    [job: Inquiries \cup {None}, pc: {"idle", "write", "enqueue", "done"},
     action: {"none", "create", "merge", "reopen", "flag_for_review"},
     lead: Leads \cup {None}]

Idle == [job |-> None, pc |-> "idle", action |-> "none", lead |-> None]

TypeOK ==
    /\ raw \in [Inquiries -> Payloads \cup {None}]
    /\ ledger \in [Inquiries -> Leads \cup {None}]
    /\ leadRow \in [Leads -> LeadRow \cup {None}]
    /\ gateway \in [Inquiries -> {"idle", "enqueue", "acked", "cut"}]
    /\ Q!QueueTypeOK
    /\ wk \in [Workers -> Execution]
    /\ origin \in [Leads -> Inquiries \cup {None}]
    /\ raced \subseteq Leads
    /\ flagged \subseteq Inquiries
    /\ overlapped \subseteq Inquiries
    /\ faults \in 0..Faults

Init ==
    /\ raw = [i \in Inquiries |-> None]
    /\ ledger = [i \in Inquiries |-> None]
    /\ leadRow = [l \in Leads |-> None]
    /\ gateway = [i \in Inquiries |-> "idle"]
    /\ Q!QueueInit({})
    /\ wk = [w \in Workers |-> Idle]
    /\ origin = [l \in Leads |-> None]
    /\ raced = {} /\ flagged = {} /\ overlapped = {}
    /\ faults = Faults

Fault == faults > 0 /\ faults' = faults - 1

-----------------------------------------------------------------------------
(* Identity resolution: resolveDuplicate over the rows loadCandidates      *)
(* finds.  Nothing sets isExistingCustomer or externalIds, so no outcome   *)
(* attaches to a customer.                                                 *)

OpenStates == {"received", "processing", "new", "contacted", "engaged", "qualifying",
               "qualified", "appointment_offered", "booked", "human_owned", "nurture"}

ClosedReopenable == {"unqualified", "lost", "archived"}

(* Mutant: only the phone identifies a person. *)
MatchesPhone(row, p) == p.phone # None /\ row.phone = p.phone

Matches(row, p) ==
    \/ p.phone # None /\ row.phone = p.phone
    \/ p.email # None /\ row.email = p.email

Candidates(p) == {l \in Leads : leadRow[l] # None /\ Matches(leadRow[l], p)}

OpenOnes(C) == {l \in C : leadRow[l].state \in OpenStates}

Outcome(action, l) == [action |-> action, lead |-> l]

(* The outcomes resolveDuplicate may return for candidates C: with no open *)
(* one it takes the first row, and the query has no order.                 *)
ResolveDuplicate(C) ==
    IF C = {} THEN {Outcome("create", None)}
    ELSE IF Cardinality(OpenOnes(C)) > 1 THEN {Outcome("flag_for_review", None)}
    ELSE {Outcome(IF leadRow[l].state \in OpenStates THEN "merge"
                  ELSE IF leadRow[l].state \in ClosedReopenable THEN "reopen"
                  ELSE "flag_for_review", l) :
             l \in IF OpenOnes(C) # {} THEN OpenOnes(C) ELSE C}

(* Mutant: the index covers the new leads only until they are contacted. *)
PhoneTakenByNew(p) ==
    p.phone # None /\ \E l \in Leads : leadRow[l] # None /\ leadRow[l].phone = p.phone
                                          /\ leadRow[l].state = "opted_out"

(* leads_open_phone: the insert of a second row that is not closed fails.  *)
PhoneTaken(p) ==
    p.phone # None /\ \E l \in Leads :
        /\ leadRow[l] # None
        /\ leadRow[l].phone = p.phone
        /\ leadRow[l].state \notin {"archived", "lost", "won", "opted_out"}

(* The band scoreLead gives an inquiry. *)
BandOf == [p \in Payloads |-> Band(DerivedFacts(p.phone # None, p.email # None, p.city, p.service))]

(* Mutant: a form without consent is taken for a refusal. *)
ConsentOrRefusal(p) == IF p.consent THEN "granted" ELSE "revoked"

ConsentOf(p) == IF p.consent THEN "granted" ELSE "unknown"

NewLead == CHOOSE l \in Leads : leadRow[l] = None

-----------------------------------------------------------------------------
(* The gateway.                                                            *)

(* A signed request of an active source: its payload and the idempotency   *)
(* row commit together.  A replay finds the row, adds a raw webhook nobody *)
(* reads, and is acknowledged: no step of this module.                     *)
Receive(i, p) ==
    /\ gateway[i] = "idle"
    /\ raw' = [raw EXCEPT ![i] = p]
    /\ gateway' = [gateway EXCEPT ![i] = "enqueue"]
    /\ UNCHANGED <<ledger, leadRow, queueVars, wk, history, faults>>

(* Then it adds the job and answers 202... *)
Acknowledge(i) ==
    /\ gateway[i] = "enqueue"
    /\ gateway' = [gateway EXCEPT ![i] = "acked"]
    /\ Q!Add(i)
    /\ UNCHANGED <<database, wk, history, faults>>

(* ... unless the API process dies or Redis refuses the job. *)
CutOff(i) ==
    /\ gateway[i] = "enqueue"
    /\ Fault
    /\ gateway' = [gateway EXCEPT ![i] = "cut"]
    /\ UNCHANGED <<database, queueVars, wk, history>>

-----------------------------------------------------------------------------
(* processIngest.                                                          *)

Payload(w) == raw[wk[w].job]

(* The transaction reads the inquiry and its candidates and decides; a     *)
(* flagged inquiry ends here, with nothing written.                        *)
IngestBegin(w, i) ==
    /\ wk[w].pc = "idle"
    /\ Q!Take(w, i)
    /\ \E o \in ResolveDuplicate(Candidates(raw[i])) :
          /\ wk' = [wk EXCEPT ![w] =
                      [job |-> i, action |-> o.action, lead |-> o.lead,
                       pc |-> IF o.action = "flag_for_review" THEN "done" ELSE "write"]]
          /\ flagged' = IF o.action = "flag_for_review" THEN flagged \cup {i} ELSE flagged
    /\ overlapped' = IF \E u \in Workers : wk[u].job = i THEN overlapped \cup {i} ELSE overlapped
    /\ UNCHANGED <<database, gateway, origin, raced, faults>>

(* A new lead, with its identities and the consent its form carries. *)
CreateLead(w) ==
    LET p == Payload(w) IN
    /\ wk[w].pc = "write" /\ wk[w].action = "create"
    /\ ~PhoneTaken(p)
    /\ \E l \in Leads : leadRow[l] = None
    /\ leadRow' = [leadRow EXCEPT ![NewLead] =
                     [state |-> "new", phone |-> p.phone, email |-> p.email,
                      consent |-> ConsentOf(p),
                      band |-> BandOf[p]]]
    /\ ledger' = [ledger EXCEPT ![wk[w].job] = NewLead]
    /\ wk' = [wk EXCEPT ![w].pc = "enqueue", ![w].lead = NewLead]
    /\ origin' = [origin EXCEPT ![NewLead] = wk[w].job]
    /\ raced' = IF Candidates(p) # {} THEN raced \cup {NewLead} ELSE raced
    /\ UNCHANGED <<raw, gateway, queueVars, flagged, overlapped, faults>>

(* merge and reopen: the lead is re-scored.  Its state, contact details    *)
(* and consent stay as they are.                                           *)
AttachToLead(w) ==
    /\ wk[w].pc = "write" /\ wk[w].action \in {"merge", "reopen"}
    /\ leadRow' = [leadRow EXCEPT ![wk[w].lead].band = BandOf[Payload(w)]]
    /\ ledger' = [ledger EXCEPT ![wk[w].job] = wk[w].lead]
    /\ wk' = [wk EXCEPT ![w].pc = "enqueue"]
    /\ UNCHANGED <<raw, gateway, queueVars, history, faults>>

(* Mutant: only an inquiry that created its lead leads to a first touch. *)
EligibleIfCreated(w) ==
    Payload(w).consent /\ wk[w].action = "create" /\ BandOf[Payload(w)] # "unqualified"

(* Mutant: the band alone decides. *)
EligibleByBand(w) == BandOf[Payload(w)] # "unqualified"

(* consentGranted is the payload's, whatever the lead's consent record. *)
Eligible(w) == Payload(w).consent /\ BandOf[Payload(w)] # "unqualified"

EnqueueFirstTouch(w) ==
    /\ wk[w].pc = "enqueue"
    /\ IF Eligible(w) THEN Q!Add(FirstTouch(wk[w].lead)) ELSE UNCHANGED queueVars
    /\ wk' = [wk EXCEPT ![w].pc = "done"]
    /\ UNCHANGED <<database, gateway, history, faults>>

Leave(w) == wk' = [wk EXCEPT ![w] = Idle]

Finish(w) ==
    /\ wk[w].pc = "done"
    /\ Q!Complete(w, wk[w].job)
    /\ Leave(w)
    /\ UNCHANGED <<database, gateway, history, faults>>

(* The unique violation of leads_open_phone rolls the transaction back... *)
MustThrow(w) == wk[w].pc = "write" /\ wk[w].action = "create" /\ PhoneTaken(Payload(w))

(* ... as does an error of the database; Redis may refuse the job. *)
Throw(w) ==
    /\ \/ MustThrow(w) /\ UNCHANGED faults
       \/ ~MustThrow(w) /\ wk[w].pc \in {"write", "enqueue"} /\ Fault
    /\ Q!Reject(w, wk[w].job)
    /\ Leave(w)
    /\ UNCHANGED <<database, gateway, history>>

-----------------------------------------------------------------------------
(* The worker process dies. *)
Crash(w) ==
    /\ Fault /\ wk[w].pc # "idle"
    /\ Leave(w)
    /\ UNCHANGED <<database, gateway, queueVars, history>>

(* The stalled-job check. *)
Orphaned(i) == jobState[i] = "active" /\ \A w \in Workers : wk[w].job # i

Stall(i) ==
    /\ IF Orphaned(i) THEN UNCHANGED faults ELSE Fault
    /\ Q!Stall(i)
    /\ UNCHANGED <<database, gateway, wk, history>>

(* The other components move the lead. *)
LeadMoves(l, s) ==
    /\ leadRow[l] # None
    /\ leadRow[l].state # s /\ CanTransition(leadRow[l].state, s)
    /\ leadRow' = [leadRow EXCEPT ![l].state = s]
    /\ UNCHANGED <<raw, ledger, gateway, queueVars, wk, history, faults>>

-----------------------------------------------------------------------------
Proceeds(w) ==
    \/ CreateLead(w)
    \/ AttachToLead(w)
    \/ EnqueueFirstTouch(w)
    \/ Finish(w)
    \/ Throw(w)

Environment ==
    \/ \E i \in Inquiries : \E p \in Forms[i] : Receive(i, p)
    \/ \E i \in Inquiries : CutOff(i) \/ Stall(i)
    \/ \E l \in Leads, s \in Moves : LeadMoves(l, s)
    \/ \E w \in Workers : Crash(w)

Next ==
    \/ Environment
    \/ \E i \in Inquiries : Acknowledge(i)
    \/ \E w \in Workers : Proceeds(w) \/ \E i \in Inquiries : IngestBegin(w, i)

Spec == Init /\ [][Next]_vars

(* The gateway answers what it has accepted unless it is cut off; workers  *)
(* and queue as in Messaging.  Requests, leads and faults are not assumed. *)
Fairness ==
    /\ \A i \in Inquiries : WF_vars(Acknowledge(i))
    /\ \A w \in Workers : WF_vars(Proceeds(w))
    /\ \A i \in Inquiries : SF_vars(\E w \in Workers : IngestBegin(w, i))
    /\ \A i \in Inquiries : WF_vars(Orphaned(i) /\ Stall(i))

FairSpec == Spec /\ Fairness

-----------------------------------------------------------------------------
(* Properties.                                                             *)

(* What leads_open_phone says of two leads with one phone. *)
OneIsClosed(l, m) ==
    {leadRow[l].state, leadRow[m].state} \cap {"archived", "lost", "won", "opted_out"} # {}

SamePhone(l, m) == leadRow[l].phone # None /\ leadRow[l].phone = leadRow[m].phone
SameEmail(l, m) == leadRow[l].email # None /\ leadRow[l].email = leadRow[m].email

(* Two leads never share a phone or an email unless one was created by an  *)
(* execution that had read before the other lead was committed; and the    *)
(* index keeps one of two leads of a phone closed even then.               *)
NoDuplicateLeads ==
    \A l, m \in Leads :
        l # m /\ leadRow[l] # None /\ leadRow[m] # None /\ (SamePhone(l, m) \/ SameEmail(l, m))
            => /\ {l, m} \cap raced # {}
               /\ SamePhone(l, m) => OneIsClosed(l, m)

(* A form that tells neither phone nor email. *)
Anonymous(p) == p.phone = None /\ p.email = None

(* An inquiry that is retried after its commit meets its own lead, unless  *)
(* it is anonymous: only then, or when executions overlap of an inquiry    *)
(* the index cannot arbitrate, two leads are created.                      *)
OneLeadPerInquiry ==
    \A l, m \in Leads :
        l # m /\ origin[l] # None /\ origin[l] = origin[m]
            => /\ origin[l] \in overlapped \/ Anonymous(raw[origin[l]])
               /\ SamePhone(l, m) => OneIsClosed(l, m)

(* A first touch is queued only for a lead that shares the phone or the    *)
(* email of an inquiry that gave consent.                                  *)
FirstTouchHasEvidence ==
    \A l \in Leads :
        jobState[FirstTouch(l)] # "absent"
            => \E i \in Inquiries :
                  raw[i] # None /\ raw[i].consent /\ Matches(leadRow[l], raw[i])

(* Every accepted inquiry is flagged for review, dead-lettered, or linked  *)
(* to a lead, with a first-touch job of the lead if it carried consent and *)
(* scored above unqualified: also when an execution is cut off between its *)
(* commit and the job.  The exception is a gateway cut off between its     *)
(* commit and the job, as the ledger row makes every replay a duplicate.   *)
AcceptedIsServed ==
    \A i \in Inquiries :
        raw[i] # None ~>
            \/ i \in flagged \/ jobState[i] = "failed" \/ gateway[i] = "cut"
            \/ /\ ledger[i] # None
               /\ raw[i].consent /\ BandOf[raw[i]] # "unqualified"
                     => jobState[FirstTouch(ledger[i])] # "absent"

=============================================================================
