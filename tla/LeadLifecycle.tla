---------------------------- MODULE LeadLifecycle ----------------------------
(***************************************************************************)
(* The lead state machine of packages/core/src/state-machine.ts, and the   *)
(* stop states of the follow-up engine (packages/core/src/workflow.ts).    *)
(* Constant-level definitions only: every module that moves a lead EXTENDS *)
(* this one and guards its step with CanTransition, as the processors call *)
(* assertTransition.                                                       *)
(***************************************************************************)

(* LeadState of core/src/types.ts. *)
LeadState ==
    {"received", "processing", "new", "contacted", "engaged", "qualifying",
     "qualified", "appointment_offered", "booked", "nurture", "unqualified",
     "won", "lost", "human_owned", "opted_out", "archived"}

(* TRANSITIONS: the allowed moves between normal-flow states. *)
Transitions(s) ==
    CASE s = "received"    -> {"processing", "archived"}
      [] s = "processing"  -> {"new", "unqualified", "archived"}
      [] s = "new"         -> {"contacted", "nurture", "unqualified", "archived"}
      [] s = "contacted"   -> {"engaged", "nurture", "unqualified", "archived"}
      [] s = "engaged"     -> {"qualifying", "qualified", "unqualified", "nurture", "archived"}
      [] s = "qualifying"  -> {"qualified", "unqualified", "nurture", "archived"}
      [] s = "qualified"   -> {"appointment_offered", "booked", "lost", "nurture", "archived"}
      [] s = "appointment_offered" -> {"booked", "qualified", "lost", "nurture", "archived"}
      [] s = "booked"      -> {"won", "lost", "appointment_offered", "archived"}
      [] s = "nurture"     -> {"engaged", "contacted", "unqualified", "archived"}
      [] s = "unqualified" -> {"archived", "new"}
      [] s = "won"         -> {"archived"}
      [] s = "lost"        -> {"archived", "nurture"}
      [] s = "human_owned" -> {"contacted", "engaged", "qualifying", "qualified",
                               "appointment_offered", "booked", "nurture",
                               "unqualified", "lost", "won", "archived"}
      [] s = "opted_out"   -> {"archived"}
      [] OTHER             -> {}

(* ACTIVE_STATES: where opt-out and takeover are allowed from. *)
ActiveStates ==
    {"received", "processing", "new", "contacted", "engaged", "qualifying",
     "qualified", "appointment_offered", "booked", "nurture", "human_owned"}

(* canTransition(from, to); assertTransition throws exactly when it is FALSE. *)
CanTransition(from, to) ==
    \/ from = to
    \/ to \in {"opted_out", "human_owned"} /\ from \in ActiveStates
    \/ to \notin {"opted_out", "human_owned"} /\ to \in Transitions(from)

(* STOP_STATES of the workflow engine: shouldStop for a lead in state s. *)
StopStates == {"opted_out", "booked", "human_owned", "won", "lost", "archived"}

=============================================================================
