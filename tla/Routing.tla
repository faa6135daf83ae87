-------------------------------- MODULE Routing --------------------------------
(***************************************************************************)
(* The routing decision of packages/core/src/routing.ts: which reps a lead *)
(* may go to.  The candidates come from a query without an ORDER BY, so of *)
(* reps with the same workload any may come first.                         *)
(*                                                                         *)
(* rep   [territories, specialties, available, cap]; no candidate owns the *)
(*       contact, the worker never finds that out                          *)
(* lead  [keys, service]; keys are the prefixes of its postal code and     *)
(*       region, and a service stands for all the names that contain it    *)
(***************************************************************************)
EXTENDS Integers, FiniteSets

TerritoryMatch(rep, lead) == rep.territories = {} \/ rep.territories \cap lead.keys # {}

SpecialtyMatch(rep, lead) ==
    rep.specialties = {} \/ lead.service = "any" \/ lead.service \in rep.specialties

(* A filter that would leave nobody is not applied. *)
Narrow(pool, matching) == IF pool \cap matching = {} THEN pool ELSE pool \cap matching

(* The reps left by the territory and the specialty filters. *)
Pool(profile, lead) ==
    Narrow(Narrow(DOMAIN profile, {r \in DOMAIN profile : TerritoryMatch(profile[r], lead)}),
           {r \in DOMAIN profile : SpecialtyMatch(profile[r], lead)})

(* Mutant: one lead over the cap. *)
EligibleAtCap(pool, profile, load) ==
    {r \in pool : profile[r].available /\ load[r] <= profile[r].cap}

(* Available and under the cap. *)
Eligible(pool, profile, load) ==
    {r \in pool : profile[r].available /\ load[r] < profile[r].cap}

LeastLoaded(pool, load) == {r \in pool : \A q \in pool : load[r] <= load[q]}

(* The first three of the others, by workload, are the fallback. *)
Fallbacks(others, load) ==
    {F \in SUBSET others :
        /\ Cardinality(F) = IF Cardinality(others) < 3 THEN Cardinality(others) ELSE 3
        /\ \A r \in F, q \in others \ F : load[r] <= load[q]}

(* The eligible, or if there is none the whole pool. *)
PrimaryPool(pool, profile, load) ==
    IF Eligible(pool, profile, load) # {} THEN Eligible(pool, profile, load) ELSE pool

(* routeLead with the strategies the worker passes: the least loaded wins, *)
(* so the turn of the round robin is never taken and its cursor stays.     *)
RouteLead(profile, lead, load, cursor, none) ==
    LET pool == Pool(profile, lead) IN
    IF pool = {} THEN {[primary |-> none, fallback |-> {}, cursor |-> cursor]}
    ELSE UNION {{[primary |-> r, fallback |-> F, cursor |-> cursor] :
                    F \in Fallbacks(pool \ {r}, load)} :
                r \in LeastLoaded(PrimaryPool(pool, profile, load), load)}

=============================================================================
