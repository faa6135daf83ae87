------------------------------- MODULE Assignment -------------------------------
(***************************************************************************)
(* Routing and escalation: processAssignment                               *)
(* (apps/worker/src/processors/assignment.ts), processEscalation and       *)
(* acknowledgeLead (escalation.ts).  An assignment is one transaction,     *)
(* which reads the reps and the cursor and writes at the end; the ladder   *)
(* of a hot lead is added after it.                                        *)
(***************************************************************************)
EXTENDS HandoffState

(* Mutant: a lead that has its rep is left alone. *)
AssignOnce(w, l) ==
    /\ wk[w].pc = "idle"
    /\ Q!Take(w, Assign(l))
    /\ IF assigned[l] # None
       THEN /\ wk' = [wk EXCEPT ![w] = [Idle EXCEPT !.job = Assign(l), !.pc = "done"]]
            /\ UNCHANGED <<raced, forced>>
       ELSE /\ \E r \in Reps :
                  wk' = [wk EXCEPT ![w] = [Idle EXCEPT !.job = Assign(l), !.pc = "assign",
                                                        !.primary = r]]
            /\ UNCHANGED <<raced, forced>>
    /\ UNCHANGED <<leadState, team, crm, faults, cut, overtaken, lost, forgotten, answered, late>>

(* loadCandidates counts every lead a rep was ever assigned, closed or not. *)
Load(r) == Cardinality({l \in Leads : assigned[l] = r})

AssignBegin(w, l) ==
    LET load == [r \in Reps |-> Load(r)] IN
    /\ wk[w].pc = "idle"
    /\ Q!Take(w, Assign(l))
    /\ \E res \in RouteLead(Profile, Inquiry[l], load, cursor, None) :
          wk' = [wk EXCEPT ![w] =
                   [Idle EXCEPT !.job = Assign(l), !.pc = "assign", !.primary = res.primary,
                                !.fallback = res.fallback, !.cursor = res.cursor]]
    /\ raced' = (raced \/ \E u \in Workers : wk[u].pc = "assign")
    /\ forced' = (forced \/ Eligible(Pool(Profile, Inquiry[l]), Profile, load) = {})
    /\ UNCHANGED <<leadState, team, crm, faults, cut, overtaken, lost, forgotten, answered, late>>

(* The rows are inserted again by a job that is run again. *)
AssignCommit(w) ==
    LET l == LeadFor(w) IN
    /\ wk[w].pc = "assign"
    /\ primaries' = [primaries EXCEPT ![l] = @ + 1]
    /\ fallback' = [fallback EXCEPT ![l] = @ \cup wk[w].fallback]
    /\ assigned' = [assigned EXCEPT ![l] = wk[w].primary]
    /\ cursor' = wk[w].cursor
    /\ IF l \in Hot /\ Ladder > 0
       THEN wk' = [wk EXCEPT ![w] = [Idle EXCEPT !.job = wk[w].job, !.pc = "ladder", !.idx = 1]]
       ELSE Done(w)
    /\ UNCHANGED <<leadState, acked, escalated, crm, queueVars, faults, history>>

(* Mutant: one step past the end of the ladder. *)
EnqueuePastEnd(w) ==
    /\ wk[w].pc = "ladder"
    /\ Q!Add(Esc(LeadFor(w), wk[w].idx))
    /\ IF wk[w].idx <= Ladder THEN wk' = [wk EXCEPT ![w].idx = @ + 1] ELSE Done(w)
    /\ UNCHANGED <<leadState, team, crm, faults, history>>

(* The delayed jobs of the ladder, one by one. *)
EnqueueEscalation(w) ==
    /\ wk[w].pc = "ladder"
    /\ Q!Add(Esc(LeadFor(w), wk[w].idx))
    /\ IF wk[w].idx < Ladder THEN wk' = [wk EXCEPT ![w].idx = @ + 1] ELSE Done(w)
    /\ UNCHANGED <<leadState, team, crm, faults, history>>

-----------------------------------------------------------------------------
(* Mutant: nobody looks whether the rep has answered. *)
EscalateAnyway(w, l, i) ==
    /\ wk[w].pc = "idle"
    /\ Q!Take(w, Esc(l, i))
    /\ wk' = [wk EXCEPT ![w] = [Idle EXCEPT !.job = Esc(l, i),
                                            !.pc = IF leadState[l] \in Waiting THEN "escalate" ELSE "done"]]
    /\ late' = late \ {w}
    /\ UNCHANGED <<leadState, team, crm, faults, cut, overtaken, lost, raced, forced, forgotten,
                   answered>>

(* A step cancels itself if the lead has moved on or was acknowledged. *)
EscalateBegin(w, l, i) ==
    /\ wk[w].pc = "idle"
    /\ Q!Take(w, Esc(l, i))
    /\ LET waiting == leadState[l] \in Waiting /\ ~acked[l] IN
       wk' = [wk EXCEPT ![w] = [Idle EXCEPT !.job = Esc(l, i),
                                            !.pc = IF waiting THEN "escalate" ELSE "done"]]
    /\ late' = late \ {w}
    /\ UNCHANGED <<leadState, team, crm, faults, cut, overtaken, lost, raced, forced, forgotten,
                   answered>>

EscalateCommit(w) ==
    /\ wk[w].pc = "escalate"
    /\ escalated' = [escalated EXCEPT ![LeadFor(w)][wk[w].job[3]] = @ + 1]
    /\ Done(w)
    /\ UNCHANGED <<leadState, assigned, primaries, fallback, acked, cursor, crm, queueVars,
                   faults, history>>

(* acknowledgeLead marks the primary rows there are by now. *)
Acknowledge(l) ==
    /\ primaries[l] > 0 /\ ~acked[l]
    /\ acked' = [acked EXCEPT ![l] = TRUE]
    /\ Answered(l)
    /\ UNCHANGED <<leadState, assigned, primaries, fallback, cursor, escalated, crm, queueVars,
                   wk, faults, cut, overtaken, lost, raced, forced, forgotten>>

AssignmentStep(w) ==
    \/ AssignCommit(w)
    \/ EnqueueEscalation(w)
    \/ EscalateCommit(w)

=============================================================================
