---------------------------- MODULE SlotReservation ----------------------------
(***************************************************************************)
(* What booking promises (docs/integrations.md, booking sequence; the      *)
(* comment on slot_holds in packages/db/src/schema.ts): appointments are   *)
(* made one at a time, and a slot that has one never gets another.         *)
(***************************************************************************)
CONSTANTS Appointment, Slot

VARIABLE booked   (* the appointments made, each with its slot *)

Init == booked = {}

Reserve(a, s) ==
    /\ \A p \in booked : p[2] # s
    /\ booked' = booked \cup {<<a, s>>}

Next == \E a \in Appointment, s \in Slot : Reserve(a, s)

Spec == Init /\ [][Next]_booked

=============================================================================
