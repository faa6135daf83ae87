------------------------------- MODULE MCHandoff -------------------------------
(***************************************************************************)
(* TLC instances of Handoff.  A hot lead goes to routing; or two others,   *)
(* one of the territory of the first rep and one that nobody covers; or a  *)
(* lead with or without a CRM connection goes to the CRM.                  *)
(***************************************************************************)
EXTENDS Handoff

CONSTANTS l1, l2, l3, ra, rb, w1, w2, d1, d2

Rep(territories) ==
    [territories |-> territories, specialties |-> {}, available |-> TRUE, cap |-> 1]

MCProfile == [r \in Reps |-> IF r = ra THEN Rep({"north"}) ELSE Rep({"south"})]

MCInquiry ==
    [l \in Leads |-> [keys |-> IF l = l3 THEN {} ELSE {"north"}, service |-> "any"]]

MCHanded == {{Assign(l1)}, {Assign(l2), Assign(l3)}, {Sync(l1)}, {Sync(l2)}}

=============================================================================
