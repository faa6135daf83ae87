------------------------------- MODULE MCBooking -------------------------------
(***************************************************************************)
(* TLC instances of Booking: bookings of different leads for one slot, the *)
(* case the holds are for.  Different slots share nothing but workers.     *)
(***************************************************************************)
EXTENDS Booking, TLC

CONSTANTS b1, b2, la, lb, sl, w1, w2, h1, h2, h3, e1, e2, e3

MCLeadOf == [b \in Bookings |-> IF b = b1 THEN la ELSE lb]
MCSlotOf == [b \in Bookings |-> sl]

Symmetry == Permutations(Workers) \cup Permutations(Holds) \cup Permutations(Events)

=============================================================================
