------------------------------ MODULE HandoffState ------------------------------
(***************************************************************************)
(* What becomes of a qualified lead: the rows that routing, its escalation *)
(* ladder and the CRM synchronisation keep of each lead.  Modules          *)
(* Assignment and CrmSync add the steps of the processors, module Handoff  *)
(* composes them.                                                          *)
(***************************************************************************)
EXTENDS LeadLifecycle, Routing

CONSTANTS Leads, Reps, Workers, None,
          Profile,    (* the reps: schedules and territories                *)
          Inquiry,    (* what routing asks of a lead                        *)
          Hot,        (* leads whose score band is hot                      *)
          Ladder,     (* how many steps of the ladder are delayed jobs      *)
          Attended,   (* leads a person acknowledges or takes over          *)
          Connected,  (* leads of tenants with a CRM connection             *)
          Deals,      (* external ids of deals in the CRM                   *)
          Handed,     (* sets of jobs other components hand over together   *)
          MaxAttempts, MaxStalls,
          Faults,     (* how many crashes, stalls, errors and drops of old  *)
                      (* jobs may occur                                     *)
          OpenReports (* how many outcomes may be taken in at once          *)

Assign(l) == <<"assign", l>>
Esc(l, i) == <<"esc", l, i>>
Sync(l)   == <<"crm", l>>

EscJobs == {Esc(l, i) : l \in Hot, i \in 1..Ladder}
Jobs    == {Assign(l) : l \in Leads} \cup EscJobs \cup {Sync(l) : l \in Leads}

ASSUME HandoffAssumption ==
    /\ None \notin Leads \cup Reps \cup Workers \cup Deals \cup Jobs
    /\ IsFiniteSet(Leads)
    /\ DOMAIN Profile = Reps
    /\ \A r \in Reps : Profile[r].cap \in Nat
    /\ Hot \cup Attended \cup Connected \subseteq Leads
    /\ Ladder \in Nat
    /\ \A S \in Handed : S \subseteq Jobs
    /\ MaxAttempts \in Nat \ {0} /\ MaxStalls \in Nat /\ Faults \in Nat /\ OpenReports \in Nat

VARIABLES
    leadState,  (* leads.state                                              *)
    assigned,   (* leads.assigned_user_id                                   *)
    primaries,  (* lead_assignments: how many primary rows                  *)
    fallback,   (* ... and the users of the fallback rows                   *)
    acked,      (* some primary row is acknowledged                         *)
    cursor,     (* routing_state.round_robin_cursor                         *)
    escalated,  (* lead.escalated events, by step of the ladder             *)
    mapping,    (* crm_mappings.deal_external_id                            *)
    syncRows,   (* the statuses of the lead's crm_sync_jobs rows            *)
    dealOf,     (* the CRM: the lead of a deal                              *)
    outcomes,   (* outcomes: the types recorded                             *)
    reports,    (* open transactions of outcomes, with the state they read  *)
    jobState, tries, stalls, holder,
    wk,         (* the execution each worker runs                           *)
    faults,
    (* history *)
    cut,        (* jobs an execution of which was cut off or threw          *)
    overtaken,  (* leads two synchronisations of which overlapped           *)
    lost,       (* deals whose execution ended without recording them       *)
    raced,      (* two assignments overlapped                               *)
    forced,     (* an assignment found nobody eligible                      *)
    forgotten,  (* how often a completed job was dropped                    *)
    answered,   (* leads acknowledged, or that ceased to wait               *)
    late        (* workers at a step of the ladder as its lead was answered *)

team      == <<assigned, primaries, fallback, acked, cursor, escalated>>
crm       == <<mapping, syncRows, dealOf, outcomes, reports>>
queueVars == <<jobState, tries, stalls, holder>>
history   == <<cut, overtaken, lost, raced, forced, forgotten, answered, late>>
vars      == <<leadState, team, crm, queueVars, wk, faults, history>>

Q == INSTANCE JobQueue WITH Job <- Jobs, Worker <- Workers, NoWorker <- None

Pc == {"idle", "assign", "ladder", "escalate", "contact", "deal", "note", "map",
       "failed", "thrown", "done"}

(* primary, fallback and cursor are the routing decided on; idx the next   *)
(* step of the ladder; deal the mapped deal when read, then the CRM's      *)
(* answer.                                                                 *)
Execution ==
    [job: Jobs \cup {None}, pc: Pc, primary: Reps \cup {None}, fallback: SUBSET Reps,
     cursor: Nat, idx: 0..Ladder, deal: Deals \cup {None}]

Idle == [job |-> None, pc |-> "idle", primary |-> None, fallback |-> {}, cursor |-> 0,
         idx |-> 0, deal |-> None]

(* processCrmInbound between its read of the lead and its commit. *)
Report == [deal: Deals, type: {"won", "lost"}, state: LeadState]

TypeOK ==
    /\ leadState \in [Leads -> LeadState]
    /\ assigned \in [Leads -> Reps \cup {None}]
    /\ primaries \in [Leads -> Nat]
    /\ fallback \in [Leads -> SUBSET Reps]
    /\ acked \in [Leads -> BOOLEAN]
    /\ cursor \in Nat
    /\ escalated \in [Leads -> [1..Ladder -> Nat]]
    /\ mapping \in [Leads -> Deals \cup {None}]
    /\ syncRows \in [Leads -> SUBSET {"pending", "synced", "failed"}]
    /\ dealOf \in [Deals -> Leads \cup {None}]
    /\ outcomes \in [Leads -> SUBSET {"won", "lost"}]
    /\ reports \subseteq Report
    /\ Q!QueueTypeOK
    /\ wk \in [Workers -> Execution]
    /\ faults \in 0..Faults
    /\ cut \subseteq Jobs /\ overtaken \subseteq Leads /\ lost \subseteq Deals
    /\ raced \in BOOLEAN /\ forced \in BOOLEAN
    /\ forgotten \in [Jobs -> Nat]
    /\ answered \subseteq Leads /\ late \subseteq Workers

(* Leads as the conversation engine hands them over. *)
Init ==
    /\ leadState = [l \in Leads |-> "qualified"]
    /\ assigned = [l \in Leads |-> None]
    /\ primaries = [l \in Leads |-> 0]
    /\ fallback = [l \in Leads |-> {}]
    /\ acked = [l \in Leads |-> FALSE]
    /\ cursor = 0
    /\ escalated = [l \in Leads |-> [i \in 1..Ladder |-> 0]]
    /\ mapping = [l \in Leads |-> None]
    /\ syncRows = [l \in Leads |-> {}]
    /\ dealOf = [d \in Deals |-> None]
    /\ outcomes = [l \in Leads |-> {}]
    /\ reports = {}
    /\ \E S \in Handed : Q!QueueInit(S)
    /\ wk = [w \in Workers |-> Idle]
    /\ faults = Faults
    /\ cut = {} /\ overtaken = {} /\ lost = {} /\ raced = FALSE /\ forced = FALSE
    /\ forgotten = [j \in Jobs |-> 0]
    /\ answered = {} /\ late = {}

(* States in which a lead still waits for its rep. *)
Waiting == {"new", "contacted", "engaged", "qualifying", "qualified"}

Fault == faults > 0 /\ faults' = faults - 1

LeadFor(w) == wk[w].job[2]

(* The lead is answered, which the executions at a step of its ladder do   *)
(* not see any more.                                                       *)
Answered(l) ==
    /\ answered' = answered \cup {l}
    /\ late' = late \cup {w \in Workers : wk[w].pc = "escalate" /\ LeadFor(w) = l}

Goes(w, pc) == wk' = [wk EXCEPT ![w].pc = pc]

Done(w) == wk' = [wk EXCEPT ![w] = [Idle EXCEPT !.job = wk[w].job, !.pc = "done"]]

=============================================================================
