-------------------------------- MODULE CrmSync --------------------------------
(***************************************************************************)
(* The CRM: processCrmSync (apps/worker/src/processors/crm-sync.ts)        *)
(* mirrors a lead into the tenant's CRM, with the calls of the CrmAdapter  *)
(* between its two transactions; processCrmInbound (crm-inbound.ts) takes  *)
(* the outcome of a deal back.  Of what the CRM holds only the deals are   *)
(* tracked.                                                                *)
(***************************************************************************)
EXTENDS HandoffState

(* The first transaction reads the mapping and inserts a pending row;      *)
(* without a connection nothing follows.                                   *)
SyncBegin(w, l) ==
    /\ wk[w].pc = "idle"
    /\ Q!Take(w, Sync(l))
    /\ syncRows' = [syncRows EXCEPT ![l] = @ \cup {"pending"}]
    /\ wk' = [wk EXCEPT ![w] =
                [Idle EXCEPT !.job = Sync(l),
                             !.pc = IF l \in Connected THEN "contact" ELSE "done",
                             !.deal = IF l \in Connected THEN mapping[l] ELSE None]]
    /\ overtaken' = IF \E u \in Workers : wk[u].job = Sync(l) THEN overtaken \cup {l} ELSE overtaken
    /\ UNCHANGED <<leadState, team, mapping, dealOf, outcomes, reports, faults, cut, lost, raced,
                   forced, forgotten, answered, late>>

UpsertContact(w) ==
    /\ wk[w].pc = "contact"
    /\ Goes(w, "deal")
    /\ UNCHANGED <<leadState, team, crm, queueVars, faults, history>>

NewDeal == CHOOSE d \in Deals : dealOf[d] = None

(* Mutant: every sync creates a deal. *)
CreateDeal(w) ==
    /\ wk[w].pc = "deal"
    /\ \E d \in Deals : dealOf[d] = None
    /\ dealOf' = [dealOf EXCEPT ![NewDeal] = LeadFor(w)]
    /\ wk' = [wk EXCEPT ![w].pc = "note", ![w].deal = NewDeal]
    /\ UNCHANGED <<leadState, team, mapping, syncRows, outcomes, reports, queueVars, faults,
                   history>>

(* upsertDeal updates the mapped deal, or creates one; the answer may be   *)
(* lost.                                                                   *)
UpsertDeal(w) ==
    /\ wk[w].pc = "deal"
    /\ IF wk[w].deal # None THEN Goes(w, "note") /\ UNCHANGED <<dealOf, faults, lost>>
       ELSE /\ \E d \in Deals : dealOf[d] = None
            /\ dealOf' = [dealOf EXCEPT ![NewDeal] = LeadFor(w)]
            /\ \/ wk' = [wk EXCEPT ![w].pc = "note", ![w].deal = NewDeal]
                  /\ UNCHANGED <<faults, lost>>
               \/ Fault /\ Goes(w, "failed") /\ lost' = lost \cup {NewDeal}
    /\ UNCHANGED <<leadState, team, mapping, syncRows, outcomes, reports, queueVars, cut, overtaken,
                   raced, forced, forgotten, answered, late>>

(* addNote, and createMeeting if there is an appointment. *)
Annotate(w) ==
    /\ wk[w].pc = "note"
    /\ Goes(w, "map")
    /\ UNCHANGED <<leadState, team, crm, queueVars, faults, history>>

(* A deal the execution created and will not record. *)
Unrecorded(w) ==
    IF wk[w].deal # None /\ mapping[LeadFor(w)] # wk[w].deal THEN {wk[w].deal} ELSE {}

(* A call of the CRM fails, or the second transaction does. *)
CallFails(w) ==
    /\ Fault
    /\ wk[w].pc \in {"contact", "deal", "note", "map"}
    /\ wk' = [wk EXCEPT ![w].pc = "failed", ![w].deal = None]
    /\ lost' = lost \cup Unrecorded(w)
    /\ UNCHANGED <<leadState, team, crm, queueVars, cut, overtaken, raced, forced, forgotten,
                   answered, late>>

(* Mutant: the rows of the attempt are not marked. *)
MapOnly(w) ==
    /\ wk[w].pc = "map"
    /\ mapping' = [mapping EXCEPT ![LeadFor(w)] = wk[w].deal]
    /\ Done(w)
    /\ UNCHANGED <<leadState, team, syncRows, dealOf, outcomes, reports, queueVars, faults,
                   history>>

(* The second transaction: the mapping, and every row of the lead synced. *)
MapCommit(w) ==
    LET l == LeadFor(w) IN
    /\ wk[w].pc = "map"
    /\ mapping' = [mapping EXCEPT ![l] = wk[w].deal]
    /\ syncRows' = [syncRows EXCEPT ![l] = {"synced"}]
    /\ Done(w)
    /\ UNCHANGED <<leadState, team, dealOf, outcomes, reports, queueVars, faults,
                   history>>

(* The catch marks every row of the lead failed, and rethrows. *)
MarkFailed(w) ==
    /\ wk[w].pc = "failed"
    /\ syncRows' = [syncRows EXCEPT ![LeadFor(w)] = {"failed"}]
    /\ Goes(w, "thrown")
    /\ UNCHANGED <<leadState, team, mapping, dealOf, outcomes, reports, queueVars, faults,
                   history>>

(* processCrmInbound: a deal that is mapped was won or lost.  Its          *)
(* transaction reads the state of the lead ...                             *)
CrmInboundBegin(d, type) ==
    /\ dealOf[d] # None /\ mapping[dealOf[d]] = d
    /\ Cardinality(reports) < OpenReports
    /\ reports' = reports \cup {[deal |-> d, type |-> type, state |-> leadState[dealOf[d]]]}
    /\ UNCHANGED <<leadState, team, mapping, syncRows, dealOf, outcomes, queueVars, wk, faults, history>>

(* ... and writes at its end: the outcome whether or not the lead may      *)
(* still move, and the state if it could when it was read.                 *)
CrmInboundCommit(r) ==
    LET l == dealOf[r.deal] IN
    /\ r \in reports
    /\ reports' = reports \ {r}
    /\ outcomes' = [outcomes EXCEPT ![l] = @ \cup {r.type}]
    /\ IF CanTransition(r.state, r.type)
       THEN leadState' = [leadState EXCEPT ![l] = r.type] /\ Answered(l)
       ELSE UNCHANGED <<leadState, answered, late>>
    /\ UNCHANGED <<team, mapping, syncRows, dealOf, queueVars, wk, faults, cut, overtaken, lost,
                   raced, forced, forgotten>>

CrmStep(w) ==
    \/ UpsertContact(w)
    \/ UpsertDeal(w)
    \/ Annotate(w)
    \/ CallFails(w)
    \/ MapCommit(w)
    \/ MarkFailed(w)

=============================================================================
