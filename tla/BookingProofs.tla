----------------------------- MODULE BookingProofs -----------------------------
(***************************************************************************)
(* Booking implements SlotReservation, for every value of its constants:   *)
(* any number of jobs, workers and slots, with or without the sweep, and   *)
(* any number of faults.                                                   *)
(*                                                                         *)
(* That a slot has no appointment yet when one is made does not follow     *)
(* from the index alone.  The invariant ties the appointment to a hold     *)
(* that stays confirmed, and the transaction that makes it to a hold of    *)
(* its own that is not confirmed and is the only active one of the slot.   *)
(***************************************************************************)
EXTENDS Booking, TLAPS

QP == INSTANCE JobQueueProofs WITH Job <- Bookings, Worker <- Workers, NoWorker <- None

Shape ==
    /\ wk \in [Workers -> Execution]
    /\ leadState \in [Leads -> LeadState]
    /\ holdStatus \in [Holds -> {"none", "held", "confirmed", "released"}]
    /\ holdSlot \in [Holds -> Slots \cup {None}]
    /\ appts \subseteq Events
    /\ eventSlot \in [Events -> Slots \cup {None}]

Active(h) == holdStatus[h] \in {"held", "confirmed"}

(* slot_holds_unique. *)
OneActiveHold ==
    \A h, g \in Holds : Active(h) /\ Active(g) /\ holdSlot[h] = holdSlot[g] => h = g

(* An appointment's slot stays confirmed. *)
AppointmentsHold ==
    \A e \in appts :
        /\ eventSlot[e] \in Slots
        /\ \E h \in Holds : holdStatus[h] = "confirmed" /\ holdSlot[h] = eventSlot[e]

(* What the execution of w has, at each of its control points. *)
Owns(w) ==
    /\ wk[w].pc \in {"hold", "create", "release", "confirm", "book"} => wk[w].job \in Bookings
    /\ wk[w].pc \in {"create", "release", "confirm", "book"} =>
         /\ wk[w].hold \in Holds
         /\ holdStatus[wk[w].hold] \in {"held", "released"}
         /\ holdSlot[wk[w].hold] = SlotFor(w)
    /\ wk[w].pc \in {"confirm", "book"} =>
         /\ wk[w].event \in Events
         /\ eventSlot[wk[w].event] = SlotFor(w)
    /\ wk[w].pc = "book" =>
         \A h \in Holds : Active(h) /\ holdSlot[h] = SlotFor(w) => h = wk[w].hold

(* No two executions share a hold, or confirm one of the same slot.        *)
Apart(u, w) ==
    /\ wk[u].hold \in Holds /\ wk[u].hold = wk[w].hold => u = w
    /\ wk[u].pc = "book" /\ wk[w].pc = "book" /\ SlotFor(u) = SlotFor(w) => u = w

Inv ==
    /\ Shape
    /\ OneActiveHold
    /\ AppointmentsHold
    /\ \A w \in Workers : Owns(w)
    /\ \A u, w \in Workers : Apart(u, w)

-----------------------------------------------------------------------------
(* A fresh execution, or one that ends: nothing in the database changes.   *)
LEMMA OutsideTransactions ==
    ASSUME Inv, NEW w \in Workers, NEW x \in Execution,
           wk' = [wk EXCEPT ![w] = x], UNCHANGED <<leadState, database, eventSlot>>,
           x.pc \in {"idle", "hold", "done", "thrown"},
           x.pc = "hold" => x.job \in Bookings,
           x.hold = None \/ x.hold = wk[w].hold
    PROVE  Inv'
  <1> USE BookingAssumption DEF Inv, database
  <1>1. Shape' BY DEF Shape
  <1>2. OneActiveHold' BY DEF OneActiveHold, Active
  <1>3. AppointmentsHold' BY DEF AppointmentsHold
  <1>4. ASSUME NEW u \in Workers PROVE Owns(u)'
    BY DEF Shape, Owns, Active, SlotFor
  <1>5. ASSUME NEW u \in Workers, NEW v \in Workers PROVE Apart(u, v)'
    BY DEF Shape, Apart, SlotFor
  <1> QED BY <1>1, <1>2, <1>3, <1>4, <1>5

(* A worker between two jobs. *)
LEMMA Idles == Idle \in Execution /\ Idle.pc = "idle" /\ Idle.hold = None
  BY DEF Idle, Execution, Pc, LeadState

(* Step 1 gives the slot its only active hold, and the execution a hold no *)
(* other one has.                                                          *)
LEMMA AcquireHoldStep == ASSUME Inv, NEW w \in Workers, AcquireHold(w) PROVE Inv'
  <1> USE DEF Inv
  <1>1. CASE ActiveHolds(SlotFor(w)) # {}
    <2> DEFINE x == [wk[w] EXCEPT !.pc = "done"]
    <2>1. wk' = [wk EXCEPT ![w] = x] BY <1>1 DEF AcquireHold, Shape
    <2>2. x \in Execution /\ x.pc = "done" /\ x.hold = wk[w].hold
      BY DEF Shape, Execution, Pc
    <2> HIDE DEF x
    <2> QED BY <1>1, <2>1, <2>2, OutsideTransactions DEF AcquireHold, database
  <1>2. CASE ActiveHolds(SlotFor(w)) = {}
    <2> DEFINE n == NewHold
               s == SlotFor(w)
    <2>1. n \in Holds /\ FreshHold(n) BY <1>2 DEF AcquireHold, NewHold
    <2>2. /\ holdStatus' = [holdStatus EXCEPT ![n] = "held"]
          /\ holdSlot' = [holdSlot EXCEPT ![n] = s]
          /\ wk' = [wk EXCEPT ![w].pc = "create", ![w].hold = n]
          /\ UNCHANGED <<leadState, appts, eventSlot>>
          /\ wk[w].pc = "hold"
          /\ ~HoldInFlight(s, w)
      BY <1>2 DEF AcquireHold
    <2> HIDE DEF n
    <2>3. s \in Slots /\ wk[w].job \in Bookings
      BY <2>2, BookingAssumption DEF Owns, SlotFor
    <2>4. \A u \in Workers : wk[u].hold # n BY <2>1 DEF FreshHold
    <2>5. \A h \in Holds : ~(Active(h) /\ holdSlot[h] = s) BY <1>2 DEF ActiveHolds, Active
    <2>6. ~Active(n) BY <2>1 DEF FreshHold, Active
    <2>7. \A u \in Workers : SlotFor(u)' = SlotFor(u) BY <2>2 DEF SlotFor, Shape
    <2> HIDE DEF s
    <2>8. Shape'
      <3>1. [wk[w] EXCEPT !.pc = "create", !.hold = n] \in Execution
        BY <2>1 DEF Shape, Execution, Pc
      <3>2. wk' = [wk EXCEPT ![w] = [wk[w] EXCEPT !.pc = "create", !.hold = n]]
        BY <2>2 DEF Shape
      <3>3. wk' \in [Workers -> Execution] BY <3>1, <3>2 DEF Shape
      <3> QED BY <2>1, <2>2, <2>3, <3>3 DEF Shape
    <2>9. OneActiveHold' BY <2>1, <2>2, <2>5 DEF OneActiveHold, Active, Shape
    <2>10. AppointmentsHold' BY <2>1, <2>2, <2>6 DEF AppointmentsHold, Active, Shape
    <2>11. ASSUME NEW u \in Workers PROVE Owns(u)'
      <3>1. CASE u = w
        BY <2>1, <2>2, <2>3, <2>7, <3>1 DEF Owns, Shape, s
      <3>2. CASE u # w
        <4>1. wk'[u] = wk[u] /\ wk[u].hold # n BY <2>2, <2>4, <3>2 DEF Shape
        <4>2. wk[u].pc = "book" => SlotFor(u) # s BY <2>2, <3>2 DEF HoldInFlight
        <4> QED BY <2>1, <2>2, <2>7, <4>1, <4>2 DEF Owns, Shape, Active
      <3> QED BY <3>1, <3>2
    <2>12. ASSUME NEW u \in Workers, NEW v \in Workers PROVE Apart(u, v)'
      BY <2>2, <2>4, <2>7 DEF Apart, Shape
    <2> QED BY <2>8, <2>9, <2>10, <2>11, <2>12
  <1> QED BY <1>1, <1>2

(* Step 2 takes an event no appointment has.                               *)
LEMMA CreateEventStep == ASSUME Inv, NEW w \in Workers, CreateEvent(w) PROVE Inv'
  <1> USE DEF Inv
  <1>1. PICK x \in Execution :
          /\ wk' = [wk EXCEPT ![w] = x]
          /\ x.job = wk[w].job /\ x.hold = wk[w].hold
          /\ \/ x.pc = "release"
             \/ x.pc = "confirm" /\ x.event \in Events /\ eventSlot'[x.event] = SlotFor(w)
    <2>1. CASE wk' = [wk EXCEPT ![w].pc = "release"]
      <3> DEFINE x == [wk[w] EXCEPT !.pc = "release"]
      <3> x \in Execution /\ wk' = [wk EXCEPT ![w] = x]
        BY <2>1 DEF Shape, Execution, Pc
      <3> QED BY DEF Shape, Execution
    <2>2. CASE /\ \E e \in Events : eventSlot[e] = None
               /\ eventSlot' = [eventSlot EXCEPT ![NewEvent] = SlotFor(w)]
               /\ wk' = [wk EXCEPT ![w].pc = "confirm", ![w].event = NewEvent]
      <3> DEFINE x == [wk[w] EXCEPT !.pc = "confirm", !.event = NewEvent]
      <3>1. NewEvent \in Events BY <2>2 DEF NewEvent
      <3>2. x \in Execution /\ wk' = [wk EXCEPT ![w] = x]
        BY <2>2, <3>1 DEF Shape, Execution, Pc
      <3>3. eventSlot'[NewEvent] = SlotFor(w) BY <2>2, <3>1 DEF Shape
      <3> QED BY <3>1, <3>2, <3>3 DEF Shape, Execution
    <2> QED BY <2>1, <2>2 DEF CreateEvent
  <1>2. /\ wk[w].pc = "create"
        /\ UNCHANGED <<leadState, database>>
    BY DEF CreateEvent
  <1>3. SlotFor(w) \in Slots BY <1>2, BookingAssumption DEF Owns, SlotFor
  <1>4. /\ eventSlot' \in [Events -> Slots \cup {None}]
        /\ \A e \in Events : eventSlot[e] # None => eventSlot'[e] = eventSlot[e]
    <2>1. CASE UNCHANGED eventSlot BY <2>1 DEF Shape
    <2>2. CASE /\ \E e \in Events : eventSlot[e] = None
               /\ eventSlot' = [eventSlot EXCEPT ![NewEvent] = SlotFor(w)]
      <3>1. NewEvent \in Events /\ eventSlot[NewEvent] = None BY <2>2 DEF NewEvent
      <3> QED BY <1>3, <2>2, <3>1 DEF Shape
    <2> QED BY <2>1, <2>2 DEF CreateEvent
  <1>5. \A u \in Workers : SlotFor(u)' = SlotFor(u) BY <1>1 DEF SlotFor, Shape
  <1>6. \A u \in Workers : u # w => wk'[u] = wk[u] BY <1>1 DEF Shape
  <1>7. wk'[w] = x BY <1>1 DEF Shape
  <1>8. Shape' BY <1>1, <1>2, <1>4 DEF Shape, database
  <1>9. OneActiveHold' BY <1>2 DEF OneActiveHold, Active, database
  <1>10. AppointmentsHold'
    BY <1>2, <1>4, BookingAssumption DEF AppointmentsHold, Shape, database
  <1>11. ASSUME NEW u \in Workers PROVE Owns(u)'
    <2>1. CASE u = w BY <1>1, <1>2, <1>5, <1>7, <2>1 DEF Owns, database
    <2>2. CASE u # w
      <3>1. Owns(u) /\ wk'[u] = wk[u] BY <1>6, <2>2
      <3>2. wk[u].pc \in {"confirm", "book"} => eventSlot[wk[u].event] # None
        BY <3>1, BookingAssumption DEF Owns, SlotFor
      <3> QED BY <1>2, <1>4, <1>5, <3>1, <3>2 DEF Owns, Active, database
    <2> QED BY <2>1, <2>2
  <1>12. ASSUME NEW u \in Workers, NEW v \in Workers PROVE Apart(u, v)'
    BY <1>1, <1>2, <1>5, <1>6, <1>7 DEF Apart
  <1> QED BY <1>8, <1>9, <1>10, <1>11, <1>12

(* The catch releases the execution's own hold, which is not confirmed.    *)
LEMMA ReleaseHoldStep == ASSUME Inv, NEW w \in Workers, ReleaseHold(w) PROVE Inv'
  <1> USE DEF Inv
  <1> DEFINE g == wk[w].hold
  <1>1. /\ g \in Holds /\ holdStatus[g] \in {"held", "released"}
        /\ holdStatus' = [holdStatus EXCEPT ![g] = "released"]
        /\ wk' = [wk EXCEPT ![w].pc = "thrown"]
        /\ UNCHANGED <<leadState, holdSlot, appts, eventSlot>>
    BY DEF ReleaseHold, Owns
  <1>2. \A u \in Workers : SlotFor(u)' = SlotFor(u) BY <1>1 DEF SlotFor, Shape
  <1>3. Shape' BY <1>1 DEF Shape, Execution, Pc
  <1>4. OneActiveHold' BY <1>1 DEF OneActiveHold, Active, Shape
  <1>5. AppointmentsHold' BY <1>1 DEF AppointmentsHold, Shape
  <1>6. ASSUME NEW u \in Workers PROVE Owns(u)' BY <1>1, <1>2 DEF Owns, Active, Shape
  <1>7. ASSUME NEW u \in Workers, NEW v \in Workers PROVE Apart(u, v)'
    BY <1>1, <1>2 DEF Apart, Shape
  <1> QED BY <1>3, <1>4, <1>5, <1>6, <1>7

(* releaseExpiredHolds touches no confirmed hold.                          *)
LEMMA SweepStep ==
    ASSUME Inv, NEW S \in SUBSET Holds, ReleaseExpiredHolds(S) PROVE Inv'
  <1> USE DEF Inv
  <1>1. /\ \A h \in S : holdStatus[h] = "held"
        /\ holdStatus' = [h \in Holds |-> IF h \in S THEN "released" ELSE holdStatus[h]]
        /\ UNCHANGED <<leadState, holdSlot, appts, eventSlot, wk>>
    BY DEF ReleaseExpiredHolds
  <1>2. \A u \in Workers : SlotFor(u)' = SlotFor(u) BY <1>1 DEF SlotFor
  <1>3. Shape' BY <1>1 DEF Shape
  <1>4. OneActiveHold' BY <1>1 DEF OneActiveHold, Active
  <1>5. AppointmentsHold' BY <1>1 DEF AppointmentsHold
  <1>6. ASSUME NEW u \in Workers PROVE Owns(u)' BY <1>1, <1>2 DEF Owns, Active
  <1>7. ASSUME NEW u \in Workers, NEW v \in Workers PROVE Apart(u, v)' BY <1>1, <1>2 DEF Apart
  <1> QED BY <1>3, <1>4, <1>5, <1>6, <1>7

(* Step 3 begins alone on its slot.                                        *)
LEMMA ConfirmHoldStep == ASSUME Inv, NEW w \in Workers, ConfirmHold(w) PROVE Inv'
  <1> USE DEF Inv
  <1>1. PICK x \in Execution :
          /\ wk' = [wk EXCEPT ![w] = x]
          /\ x.pc = "book" /\ x.job = wk[w].job /\ x.hold = wk[w].hold
          /\ x.event = wk[w].event
    <2> DEFINE x == [wk[w] EXCEPT !.pc = "book", !.state = leadState[LeadFor(w)]]
    <2>1. wk[w].job \in Bookings BY DEF ConfirmHold, Owns
    <2>2. leadState[LeadFor(w)] \in LeadState
      BY <2>1, BookingAssumption DEF LeadFor, Shape
    <2>3. x \in Execution BY <2>2 DEF Shape, Execution, Pc
    <2>4. wk' = [wk EXCEPT ![w] = x] BY DEF ConfirmHold, Shape
    <2> QED BY <2>3, <2>4 DEF Shape, Execution
  <1>2. /\ wk[w].pc = "confirm"
        /\ ~HoldInFlight(SlotFor(w), w)
        /\ ActiveHolds(SlotFor(w)) \subseteq {wk[w].hold}
        /\ UNCHANGED <<leadState, database, eventSlot>>
    BY DEF ConfirmHold
  <1>3. \A u \in Workers : SlotFor(u)' = SlotFor(u) BY <1>1 DEF SlotFor, Shape
  <1>4. \A u \in Workers : u # w => wk'[u] = wk[u] BY <1>1 DEF Shape
  <1>5. wk'[w] = x BY <1>1 DEF Shape
  <1>6. Shape' BY <1>1, <1>2 DEF Shape, database
  <1>7. OneActiveHold' BY <1>2 DEF OneActiveHold, Active, database
  <1>8. AppointmentsHold' BY <1>2 DEF AppointmentsHold, database
  <1>9. ASSUME NEW u \in Workers PROVE Owns(u)'
    <2>1. CASE u = w
      BY <1>1, <1>2, <1>3, <1>5, <2>1 DEF Owns, Active, ActiveHolds, database
    <2>2. CASE u # w
      BY <1>2, <1>3, <1>4, <2>2 DEF Owns, Active, database
    <2> QED BY <2>1, <2>2
  <1>10. ASSUME NEW u \in Workers, NEW v \in Workers PROVE Apart(u, v)'
    <2>1. \A y \in Workers : wk'[y].hold = wk[y].hold BY <1>1, <1>4, <1>5
    <2>2. \A y \in Workers \ {w} : wk[y].pc = "book" => SlotFor(y) # SlotFor(w)
      BY <1>2 DEF HoldInFlight
    <2> QED BY <1>3, <1>4, <2>1, <2>2 DEF Apart
  <1> QED BY <1>6, <1>7, <1>8, <1>9, <1>10

(* The slot of a booking transaction has no appointment: one would keep a  *)
(* confirmed hold on it, and the only active hold is this transaction's.   *)
LEMMA SlotIsFree ==
    ASSUME Inv, NEW w \in Workers, wk[w].pc = "book"
    PROVE  \A e \in appts : eventSlot[e] # SlotFor(w)
  <1> SUFFICES ASSUME NEW e \in appts, eventSlot[e] = SlotFor(w) PROVE FALSE
    OBVIOUS
  <1>1. PICK h \in Holds : holdStatus[h] = "confirmed" /\ holdSlot[h] = SlotFor(w)
    BY DEF Inv, AppointmentsHold
  <1>2. h = wk[w].hold BY <1>1 DEF Inv, Owns, Active
  <1> QED BY <1>1, <1>2 DEF Inv, Owns

(* The commit turns the slot's only active hold into a confirmed one.      *)
LEMMA BookCommitStep == ASSUME Inv, NEW w \in Workers, BookCommit(w) PROVE Inv'
  <1> USE DEF Inv
  <1> DEFINE g == wk[w].hold
             x == [wk[w] EXCEPT !.pc = "done"]
  <1>1. /\ wk[w].pc = "book"
        /\ holdStatus' = [holdStatus EXCEPT ![g] = "confirmed"]
        /\ appts' = appts \cup {wk[w].event}
        /\ wk' = [wk EXCEPT ![w] = x]
        /\ UNCHANGED <<holdSlot, eventSlot>>
        /\ leadState' \in [Leads -> LeadState]
    BY DEF BookCommit, Shape, LeadState
  <1>2. /\ g \in Holds /\ holdSlot[g] = SlotFor(w) /\ SlotFor(w) \in Slots
        /\ wk[w].event \in Events /\ eventSlot[wk[w].event] = SlotFor(w)
        /\ \A h \in Holds : Active(h) /\ holdSlot[h] = SlotFor(w) => h = g
    BY <1>1, BookingAssumption DEF Owns, SlotFor
  <1>3. x \in Execution /\ x.pc = "done" /\ x.hold = g /\ x.job = wk[w].job
    BY DEF Shape, Execution, Pc
  <1> HIDE DEF x
  <1>4. \A u \in Workers : SlotFor(u)' = SlotFor(u) BY <1>1, <1>3 DEF SlotFor, Shape
  <1>5. Shape' BY <1>1, <1>2, <1>3 DEF Shape
  <1>6. OneActiveHold' BY <1>1, <1>2 DEF OneActiveHold, Active, Shape
  <1>7. AppointmentsHold' BY <1>1, <1>2 DEF AppointmentsHold, Shape
  <1>8. ASSUME NEW u \in Workers PROVE Owns(u)'
    <2>1. CASE u = w BY <1>1, <1>3, <2>1 DEF Owns, Shape
    <2>2. CASE u # w
      <3>1. Owns(u) /\ wk'[u] = wk[u] BY <1>1, <2>2 DEF Shape
      <3>2. wk[u].hold \in Holds => wk[u].hold # g BY <2>2, <1>2 DEF Apart
      <3>3. wk[u].pc = "book" => SlotFor(u) # SlotFor(w) BY <1>1, <2>2 DEF Apart
      <3> QED BY <1>1, <1>2, <1>4, <3>1, <3>2, <3>3 DEF Owns, Active, Shape
    <2> QED BY <2>1, <2>2
  <1>9. ASSUME NEW u \in Workers, NEW v \in Workers PROVE Apart(u, v)'
    BY <1>1, <1>3, <1>4 DEF Apart, Shape
  <1> QED BY <1>5, <1>6, <1>7, <1>8, <1>9

-----------------------------------------------------------------------------
(* Steps that touch neither the database's bookings nor an execution.      *)
LEMMA LeadOnly ==
    ASSUME Inv, UNCHANGED <<database, eventSlot, wk>>, leadState' \in [Leads -> LeadState]
    PROVE  Inv'
  BY DEF Inv, database, Shape, OneActiveHold, Active, AppointmentsHold, Owns, Apart, SlotFor

(* No hold, no appointment, no execution.                                  *)
LEMMA InitInv == Init => Inv
  <1> SUFFICES ASSUME Init PROVE Inv OBVIOUS
  <1>1. Shape BY Idles DEF Init, Shape, LeadState
  <1>2. OneActiveHold BY DEF Init, OneActiveHold, Active
  <1>3. AppointmentsHold BY DEF Init, AppointmentsHold
  <1>4. \A w \in Workers : Owns(w) BY Idles DEF Init, Owns
  <1>5. \A u, w \in Workers : Apart(u, w)
    BY Idles, BookingAssumption DEF Init, Apart
  <1> QED BY <1>1, <1>2, <1>3, <1>4, <1>5 DEF Inv

(* One step per action; those that leave the database's bookings alone     *)
(* are instances of the two lemmas above.                                  *)
LEMMA NextInv == Inv /\ [Next]_vars => Inv'
  <1> SUFFICES ASSUME Inv, [Next]_vars PROVE Inv' OBVIOUS
  <1>1. ASSUME NEW w \in Workers, NEW b \in Bookings, BookingBegin(w, b) PROVE Inv'
    <2> DEFINE x == [Idle EXCEPT !.job = b, !.pc = IF b \in Unconnected THEN "done" ELSE "hold"]
    <2>1. x \in Execution /\ x.hold = None /\ x.pc \in {"done", "hold"} /\ x.job = b
      BY DEF Idle, Execution, Pc, LeadState
    <2>2. wk' = [wk EXCEPT ![w] = x] /\ UNCHANGED <<leadState, database, eventSlot>>
      BY <1>1 DEF BookingBegin
    <2> HIDE DEF x
    <2> QED BY <2>1, <2>2, OutsideTransactions
  <1>2. ASSUME NEW w \in Workers, Finish(w) \/ Throw(w) \/ Crash(w) PROVE Inv'
    <2>1. wk' = [wk EXCEPT ![w] = Idle] /\ UNCHANGED <<leadState, database, eventSlot>>
      BY <1>2 DEF Finish, Throw, Crash, Leave
    <2> QED BY <2>1, Idles, OutsideTransactions
  <1>3. ASSUME NEW b \in Bookings, Requested(b) \/ Stall(b) PROVE Inv'
    BY <1>3, LeadOnly DEF Requested, Stall, Inv, Shape
  <1>4. ASSUME NEW l \in Leads, NEW s \in Moves, LeadMoves(l, s) PROVE Inv'
    BY <1>4, LeadOnly, BookingAssumption DEF LeadMoves, Inv, Shape, LeadState
  <1>5. CASE UNCHANGED vars BY <1>5, LeadOnly DEF vars, Inv, Shape
  <1> QED
    BY <1>1, <1>2, <1>3, <1>4, <1>5, AcquireHoldStep, CreateEventStep, ReleaseHoldStep,
       ConfirmHoldStep, BookCommitStep, SweepStep
    DEF Next, Environment, Proceeds

(* Booking's invariant, from which the refinement follows.                 *)
THEOREM Invariance == Spec => []Inv
  BY InitInv, NextInv, PTL DEF Spec

-----------------------------------------------------------------------------
(* What a step does to the abstract reservation.                           *)
Booked == {<<e, eventSlot[e]>> : e \in appts}

(* The commit is the reservation.                                          *)
LEMMA CommitReserves ==
    ASSUME Inv, NEW w \in Workers, BookCommit(w)
    PROVE  Reservation!Next
  <1> DEFINE e == wk[w].event
             s == SlotFor(w)
  <1>1. e \in Events /\ eventSlot[e] = s /\ s \in Slots
    BY BookingAssumption DEF BookCommit, Inv, Owns, SlotFor
  <1>2. \A d \in appts : eventSlot[d] # s BY SlotIsFree DEF BookCommit
  <1>3. appts' = appts \cup {e} /\ eventSlot' = eventSlot BY DEF BookCommit
  <1>4. Booked' = Booked \cup {<<e, s>>} BY <1>1, <1>3 DEF Booked
  <1>5. \A p \in Booked : p[2] # s BY <1>2 DEF Booked
  <1> HIDE DEF e, s
  <1>6. e \in Events /\ s \in Slots BY <1>1
  <1> QED BY <1>4, <1>5, <1>6 DEF Reservation!Next, Reservation!Reserve, Booked

(* Every other step is a stutter: no appointment's event is created again. *)
LEMMA OthersStutter ==
    ASSUME Inv, UNCHANGED appts,
           \/ UNCHANGED eventSlot
           \/ \E w \in Workers : CreateEvent(w)
    PROVE  UNCHANGED Booked
  <1>1. \A e \in appts : eventSlot'[e] = eventSlot[e]
    <2>1. CASE UNCHANGED eventSlot BY <2>1
    <2>2. ASSUME NEW w \in Workers, CreateEvent(w) PROVE \A e \in appts : eventSlot'[e] = eventSlot[e]
      <3>1. CASE UNCHANGED eventSlot BY <3>1
      <3>2. CASE /\ \E e \in Events : eventSlot[e] = None
                 /\ eventSlot' = [eventSlot EXCEPT ![NewEvent] = SlotFor(w)]
        <4>1. NewEvent \in Events /\ eventSlot[NewEvent] = None BY <3>2 DEF NewEvent
        <4>2. NewEvent \notin appts
          BY <4>1, BookingAssumption DEF Inv, AppointmentsHold
        <4> QED BY <3>2, <4>2 DEF Inv, Shape
      <3> QED BY <2>2, <3>1, <3>2 DEF CreateEvent
    <2> QED BY <2>1, <2>2
  <1> QED BY <1>1 DEF Booked

(* Booking implements the exclusive reservation (processBooking and        *)
(* releaseExpiredHolds, retried and interleaved in any way): no slot ever  *)
(* gets a second appointment.                                              *)
THEOREM BookingReservesSlots == Spec => ReservesSlots
  <1>1. Init => Reservation!Init BY DEF Init, Reservation!Init
  <1>2. ASSUME Inv, [Next]_vars PROVE Reservation!Next \/ UNCHANGED Booked
    <2>1. CASE \E w \in Workers : BookCommit(w) BY <1>2, <2>1, CommitReserves
    <2>2. CASE \E w \in Workers : CreateEvent(w)
      BY <1>2, <2>2, OthersStutter DEF CreateEvent, database
    <2>3. CASE UNCHANGED <<appts, eventSlot>>
      BY <1>2, <2>3, OthersStutter
    <2> QED
      BY <1>2, <2>1, <2>2, <2>3
      DEF Next, Environment, Proceeds, vars, database, BookingBegin, AcquireHold, ReleaseHold,
          ConfirmHold, Finish, Throw, Crash, Stall, Requested, ReleaseExpiredHolds, LeadMoves
  <1>3. Inv /\ [Next]_vars => [Reservation!Next]_Booked BY <1>2
  <1> QED BY <1>1, <1>3, Invariance, PTL DEF Spec, ReservesSlots, Reservation!Spec, Booked

-----------------------------------------------------------------------------
(* Types.  What Inv leaves out: the queue, and the histories, which are    *)
(* about the booking an execution still has when it ends.                  *)
HasJob(w) == wk[w].pc # "idle" => wk[w].job \in Bookings

TypeInv ==
    /\ QP!QueueInv
    /\ lost \subseteq Events
    /\ stranded \subseteq Slots
    /\ faults \in 0..Faults
    /\ \A w \in Workers : HasJob(w)

(* The queue's constants are in order. *)
LEMMA QueueConstants == QP!QueueConstants
  BY BookingAssumption DEF QP!QueueConstants

(* TypeInv holds before any booking is taken up. *)
LEMMA InitTypes == Init => TypeInv
  <1> SUFFICES ASSUME Init PROVE TypeInv OBVIOUS
  <1>1. QP!QueueInv
    <2>1. QP!QueueInit({}) BY DEF Init, Q!QueueInit, QP!QueueInit
    <2> QED BY <2>1, QueueConstants, QP!QueueInitially
  <1>2. \A w \in Workers : HasJob(w) BY Idles DEF Init, HasJob
  <1> QED BY <1>1, <1>2, BookingAssumption DEF Init, TypeInv

(* A step performs at most one operation of the queue. *)
LEMMA QueueStep ==
    ASSUME QP!QueueInv, NEW w, NEW b \in Bookings,
           \/ w \in Workers /\ (Q!Take(w, b) \/ Q!Complete(w, b) \/ Q!Reject(w, b))
           \/ Q!Add(b) \/ Q!Stall(b)
    PROVE  QP!QueueInv'
  <1>1. QP!QueueOperation(w, b)
    BY DEF QP!QueueOperation, Q!Take, QP!Take, Q!Add, QP!Add, Q!Complete, QP!Complete,
           Q!Reject, QP!Reject, Q!Stall, QP!Stall
  <1> QED BY <1>1, QueueConstants, QP!QueueKept

(* A step that leaves the queue alone keeps it in order. *)
LEMMA QueueIdle == ASSUME QP!QueueInv, UNCHANGED queueVars PROVE QP!QueueInv'
  BY DEF queueVars, QP!QueueInv, QP!QueueTypeOK

(* The next control point of an execution, which keeps its booking. *)
LEMMA SameJob ==
    ASSUME Inv, TypeInv, NEW w \in Workers, NEW x,
           wk' = [wk EXCEPT ![w] = x], x.job = wk[w].job, wk[w].pc # "idle"
    PROVE  \A u \in Workers : HasJob(u)'
  BY DEF Inv, Shape, TypeInv, HasJob

(* An execution that ends by an error or with its process. *)
LEMMA AbandonsTypes ==
    ASSUME Inv, TypeInv, NEW w \in Workers, Leave(w), Abandons(w)
    PROVE  /\ lost' \subseteq Events
           /\ stranded' \subseteq Slots
           /\ \A u \in Workers : HasJob(u)'
  <1>1. wk[w].pc \in {"confirm", "book"} => wk[w].event \in Events
    BY DEF Inv, Owns
  <1>2. Holding(w) => SlotFor(w) \in Slots
    BY BookingAssumption DEF Inv, Owns, Holding, SlotFor
  <1>3. \A u \in Workers : HasJob(u)'
    BY Idles DEF Inv, Shape, TypeInv, HasJob, Leave
  <1> QED BY <1>1, <1>2, <1>3 DEF Abandons, TypeInv

(* A fault is spent, or not. *)
LEMMA FaultType == ASSUME faults \in 0..Faults, Fault PROVE faults' \in 0..Faults
  BY BookingAssumption DEF Fault

(* One step per action. *)
LEMMA NextTypes == Inv /\ TypeInv /\ [Next]_vars => TypeInv'
  <1> SUFFICES ASSUME Inv, TypeInv, [Next]_vars PROVE TypeInv' OBVIOUS
  <1> USE DEF TypeInv
  <1>1. ASSUME NEW w \in Workers, NEW b \in Bookings, BookingBegin(w, b) PROVE TypeInv'
    <2> DEFINE x == [Idle EXCEPT !.job = b, !.pc = IF b \in Unconnected THEN "done" ELSE "hold"]
    <2>1. x.job = b BY DEF Idle
    <2>2. wk' = [wk EXCEPT ![w] = x] BY <1>1 DEF BookingBegin
    <2> HIDE DEF x
    <2>3. \A u \in Workers : HasJob(u)' BY <2>1, <2>2 DEF Inv, Shape, HasJob
    <2>4. QP!QueueInv' BY <1>1, QueueStep DEF BookingBegin
    <2> QED BY <1>1, <2>3, <2>4 DEF BookingBegin
  <1>2. ASSUME NEW w \in Workers, AcquireHold(w) PROVE TypeInv'
    <2>1. PICK x : wk' = [wk EXCEPT ![w] = x] /\ x.job = wk[w].job
      <3>1. CASE wk' = [wk EXCEPT ![w].pc = "done"]
        <4> WITNESS [wk[w] EXCEPT !.pc = "done"]
        <4> QED BY <3>1 DEF Inv, Shape, Execution
      <3>2. CASE wk' = [wk EXCEPT ![w].pc = "create", ![w].hold = NewHold]
        <4> WITNESS [wk[w] EXCEPT !.pc = "create", !.hold = NewHold]
        <4> QED BY <3>2 DEF Inv, Shape, Execution
      <3> QED BY <1>2, <3>1, <3>2 DEF AcquireHold
    <2>2. \A u \in Workers : HasJob(u)' BY <1>2, <2>1, SameJob DEF AcquireHold
    <2>3. QP!QueueInv' BY <1>2, QueueIdle DEF AcquireHold
    <2> QED BY <1>2, <2>2, <2>3 DEF AcquireHold
  <1>3. ASSUME NEW w \in Workers, CreateEvent(w) PROVE TypeInv'
    <2>1. PICK x : wk' = [wk EXCEPT ![w] = x] /\ x.job = wk[w].job
      <3>1. CASE wk' = [wk EXCEPT ![w].pc = "release"]
        <4> WITNESS [wk[w] EXCEPT !.pc = "release"]
        <4> QED BY <3>1 DEF Inv, Shape, Execution
      <3>2. CASE wk' = [wk EXCEPT ![w].pc = "confirm", ![w].event = NewEvent]
        <4> WITNESS [wk[w] EXCEPT !.pc = "confirm", !.event = NewEvent]
        <4> QED BY <3>2 DEF Inv, Shape, Execution
      <3> QED BY <1>3, <3>1, <3>2 DEF CreateEvent
    <2>2. \A u \in Workers : HasJob(u)' BY <1>3, <2>1, SameJob DEF CreateEvent
    <2>3. QP!QueueInv' BY <1>3, QueueIdle DEF CreateEvent
    <2>4. lost' \subseteq Events /\ faults' \in 0..Faults
      <3>1. CASE UNCHANGED <<lost, faults>> BY <3>1
      <3>2. CASE Fault /\ lost' = lost \cup {NewEvent} /\ \E e \in Events : eventSlot[e] = None
        BY <3>2, FaultType DEF NewEvent
      <3> QED BY <1>3, <3>1, <3>2 DEF CreateEvent
    <2> QED BY <1>3, <2>2, <2>3, <2>4 DEF CreateEvent
  <1>4. ASSUME NEW w \in Workers, ReleaseHold(w) \/ ConfirmHold(w) \/ BookCommit(w) PROVE TypeInv'
    <2>1. PICK x : wk' = [wk EXCEPT ![w] = x] /\ x.job = wk[w].job
      <3>1. PICK p : \/ wk' = [wk EXCEPT ![w].pc = p]
                     \/ \E s : wk' = [wk EXCEPT ![w].pc = p, ![w].state = s]
        BY <1>4 DEF ReleaseHold, ConfirmHold, BookCommit
      <3>2. CASE wk' = [wk EXCEPT ![w].pc = p]
        <4> WITNESS [wk[w] EXCEPT !.pc = p]
        <4> QED BY <3>2 DEF Inv, Shape, Execution
      <3>3. ASSUME NEW s, wk' = [wk EXCEPT ![w].pc = p, ![w].state = s]
            PROVE \E x : wk' = [wk EXCEPT ![w] = x] /\ x.job = wk[w].job
        <4> WITNESS [wk[w] EXCEPT !.pc = p, !.state = s]
        <4> QED BY <3>3 DEF Inv, Shape, Execution
      <3> QED BY <3>1, <3>2, <3>3
    <2>2. wk[w].pc # "idle" BY <1>4 DEF ReleaseHold, ConfirmHold, BookCommit
    <2>3. \A u \in Workers : HasJob(u)' BY <2>1, <2>2, SameJob
    <2>4. UNCHANGED <<queueVars, lost, stranded, faults>>
      BY <1>4 DEF ReleaseHold, ConfirmHold, BookCommit
    <2> QED BY <2>3, <2>4, QueueIdle
  <1>5. ASSUME NEW w \in Workers, Finish(w) PROVE TypeInv'
    <2>1. QP!QueueInv' BY <1>5, QueueStep DEF Finish, HasJob
    <2>2. \A u \in Workers : HasJob(u)'
      BY <1>5, Idles DEF Inv, Shape, HasJob, Finish, Leave
    <2> QED BY <1>5, <2>1, <2>2 DEF Finish
  <1>6. ASSUME NEW w \in Workers, Throw(w) PROVE TypeInv'
    <2>1. wk[w].pc # "idle" BY <1>6 DEF Throw, MustThrow
    <2>2. QP!QueueInv' BY <1>6, <2>1, QueueStep DEF Throw, HasJob
    <2>3. faults' \in 0..Faults BY <1>6, FaultType DEF Throw
    <2> QED BY <1>6, <2>2, <2>3, AbandonsTypes DEF Throw
  <1>7. ASSUME NEW w \in Workers, Crash(w) PROVE TypeInv'
    BY <1>7, FaultType, QueueIdle, AbandonsTypes DEF Crash
  <1>8. ASSUME NEW b \in Bookings, Requested(b) PROVE TypeInv'
    <2>1. QP!QueueInv' BY <1>8, QueueStep DEF Requested
    <2> QED BY <1>8, <2>1 DEF Requested, HasJob
  <1>9. ASSUME NEW b \in Bookings, Stall(b) PROVE TypeInv'
    <2>1. QP!QueueInv' BY <1>9, QueueStep DEF Stall
    <2>2. faults' \in 0..Faults BY <1>9, FaultType DEF Stall
    <2>3. stranded' \subseteq Slots
      BY <1>9, BookingAssumption DEF Stall, SlotFor
    <2> QED BY <1>9, <2>1, <2>2, <2>3 DEF Stall, HasJob
  <1>10. ASSUME NEW l \in Leads, NEW s \in Moves, LeadMoves(l, s) PROVE TypeInv'
    BY <1>10, QueueIdle DEF LeadMoves, HasJob
  <1>11. ASSUME NEW S \in SUBSET Holds, ReleaseExpiredHolds(S) PROVE TypeInv'
    BY <1>11, QueueIdle DEF ReleaseExpiredHolds, HasJob
  <1>12. CASE UNCHANGED vars BY <1>12, QueueIdle DEF vars, HasJob
  <1> QED
    BY <1>1, <1>2, <1>3, <1>4, <1>5, <1>6, <1>7, <1>8, <1>9, <1>10, <1>11, <1>12
    DEF Next, Environment, Proceeds

(* Every variable keeps its type (the columns of slot_holds, appointments  *)
(* and leads, the state of the queue, an execution's local variables).     *)
THEOREM TypeCorrect == Spec => []TypeOK
  <1>1. Inv /\ TypeInv => TypeOK
    BY DEF Inv, Shape, TypeInv, TypeOK, QP!QueueInv, QP!QueueTypeOK, QP!JobStatus,
           Q!QueueTypeOK, Q!JobStatus
  <1> QED BY <1>1, InitInv, NextInv, InitTypes, NextTypes, PTL DEF Spec

-----------------------------------------------------------------------------
(* Who creates events.  An event that an ended execution did not lose is   *)
(* in an appointment or on its way to one, and a slot's appointment is the *)
(* only one of the slot.                                                   *)
Accounted(e) ==
    eventSlot[e] # None /\ e \notin lost =>
        \/ e \in appts
        \/ \E w \in Workers : wk[w].pc \in {"confirm", "book"} /\ wk[w].event = e

EventInv ==
    /\ \A e \in Events : Accounted(e)
    /\ \A e, f \in appts : eventSlot[e] = eventSlot[f] => e = f

(* There is no event before the first call of the calendar. *)
LEMMA InitEvents == Init => EventInv
  BY DEF Init, EventInv, Accounted

(* An execution without an event changes neither events nor appointments. *)
LEMMA NoEvent ==
    ASSUME Inv, EventInv, NEW w \in Workers, NEW x, wk' = [wk EXCEPT ![w] = x],
           wk[w].pc \notin {"confirm", "book"}, UNCHANGED <<appts, eventSlot, lost>>
    PROVE  EventInv'
  <1>1. ASSUME NEW e \in Events PROVE Accounted(e)'
    <2>1. CASE eventSlot[e] = None \/ e \in lost \/ e \in appts BY <2>1 DEF Accounted
    <2>2. CASE \E u \in Workers : wk[u].pc \in {"confirm", "book"} /\ wk[u].event = e
      <3>1. PICK u \in Workers : wk[u].pc \in {"confirm", "book"} /\ wk[u].event = e
        BY <2>2
      <3>2. wk'[u] = wk[u] BY <3>1 DEF Inv, Shape
      <3> QED BY <3>1, <3>2 DEF Accounted
    <2> QED BY <2>1, <2>2 DEF EventInv, Accounted
  <1> QED BY <1>1 DEF EventInv

(* One that has an event keeps it... *)
LEMMA SameEvent ==
    ASSUME Inv, EventInv, NEW w \in Workers, NEW x, wk' = [wk EXCEPT ![w] = x],
           wk[w].pc \in {"confirm", "book"},
           \/ x.pc \in {"confirm", "book"} /\ x.event = wk[w].event
           \/ wk[w].event \in lost' \cup appts',
           lost \subseteq lost', appts \subseteq appts', UNCHANGED eventSlot
    PROVE  \A e \in Events : Accounted(e)'
  <1> SUFFICES ASSUME NEW e \in Events PROVE Accounted(e)' OBVIOUS
  <1>1. CASE eventSlot[e] = None \/ e \in lost \/ e \in appts BY <1>1 DEF Accounted
  <1>2. CASE \E u \in Workers : wk[u].pc \in {"confirm", "book"} /\ wk[u].event = e
    <2>1. PICK u \in Workers : wk[u].pc \in {"confirm", "book"} /\ wk[u].event = e
      BY <1>2
    <2>2. wk'[u] = IF u = w THEN x ELSE wk[u] BY <2>1 DEF Inv, Shape
    <2> QED BY <2>1, <2>2 DEF Accounted
  <1> QED BY <1>1, <1>2 DEF EventInv, Accounted

(* ... loses it when it ends... *)
LEMMA AbandonsEvents ==
    ASSUME Inv, EventInv, NEW w \in Workers, Leave(w), Abandons(w),
           UNCHANGED <<database, eventSlot>>
    PROVE  EventInv'
  <1>1. wk' = [wk EXCEPT ![w] = Idle] /\ UNCHANGED appts BY DEF Leave, database
  <1>2. CASE wk[w].pc \in {"confirm", "book"}
    <2>1. lost' = lost \cup {wk[w].event} BY <1>2 DEF Abandons
    <2>2. \A e \in Events : Accounted(e)' BY <1>1, <1>2, <2>1, SameEvent
    <2> QED BY <1>1, <2>2 DEF EventInv
  <1>3. CASE wk[w].pc \notin {"confirm", "book"}
    BY <1>1, <1>3, NoEvent DEF Abandons
  <1> QED BY <1>2, <1>3

(* ... or puts it into the slot's first appointment. *)
LEMMA CommitEvents == ASSUME Inv, EventInv, NEW w \in Workers, BookCommit(w) PROVE EventInv'
  <1>1. /\ wk[w].pc = "book" /\ appts' = appts \cup {wk[w].event}
        /\ UNCHANGED <<eventSlot, lost>>
    BY DEF BookCommit
  <1>2. wk' = [wk EXCEPT ![w] = [wk[w] EXCEPT !.pc = "done"]]
    BY DEF BookCommit, Inv, Shape
  <1>3. \A e \in Events : Accounted(e)' BY <1>1, <1>2, SameEvent
  <1>4. eventSlot[wk[w].event] = SlotFor(w) BY <1>1 DEF Inv, Owns
  <1>5. \A e \in appts : eventSlot[e] # SlotFor(w) BY <1>1, SlotIsFree
  <1>6. \A e, f \in appts' : eventSlot'[e] = eventSlot'[f] => e = f
    BY <1>1, <1>4, <1>5 DEF EventInv
  <1> QED BY <1>3, <1>6 DEF EventInv

(* An event is created by an execution that has none, for a slot that had  *)
(* none under its id, and is lost if the answer is.                        *)
LEMMA CreateEvents == ASSUME Inv, EventInv, NEW w \in Workers, CreateEvent(w) PROVE EventInv'
  <1>1. wk[w].pc = "create" /\ UNCHANGED appts BY DEF CreateEvent, database
  <1>2. CASE wk' = [wk EXCEPT ![w].pc = "release"] /\ UNCHANGED <<eventSlot, lost>>
    <2>1. wk' = [wk EXCEPT ![w] = [wk[w] EXCEPT !.pc = "release"]]
      BY <1>2 DEF Inv, Shape
    <2> QED BY <1>1, <1>2, <2>1, NoEvent
  <1>3. CASE /\ \E e \in Events : eventSlot[e] = None
             /\ eventSlot' = [eventSlot EXCEPT ![NewEvent] = SlotFor(w)]
             /\ \/ /\ wk' = [wk EXCEPT ![w].pc = "confirm", ![w].event = NewEvent]
                   /\ UNCHANGED lost
                \/ /\ wk' = [wk EXCEPT ![w].pc = "release"]
                   /\ lost' = lost \cup {NewEvent}
    <2>0. PICK n : n = NewEvent OBVIOUS
    <2>1. n \in Events /\ eventSlot[n] = None BY <1>3, <2>0 DEF NewEvent
    <2>2. n \notin appts /\ \A e \in appts : eventSlot'[e] = eventSlot[e]
      BY <1>3, <2>0, <2>1, BookingAssumption DEF Inv, AppointmentsHold, Shape
    <2>3. \A e \in Events : e # n => eventSlot'[e] = eventSlot[e]
      BY <1>3, <2>0 DEF Inv, Shape
    <2>4. n \in lost' \/ (wk'[w].pc = "confirm" /\ wk'[w].event = n)
      BY <1>3, <2>0 DEF Inv, Shape, Execution
    <2>5. \A u \in Workers : u # w => wk'[u] = wk[u] BY <1>3 DEF Inv, Shape
    <2>6. lost \subseteq lost' BY <1>3
    <2>7. Accounted(n)' BY <2>4 DEF Accounted
    <2>8. ASSUME NEW e \in Events, e # n PROVE Accounted(e)'
      <3>1. CASE eventSlot[e] = None \/ e \in lost \/ e \in appts
        BY <1>1, <2>3, <2>6, <2>8, <3>1 DEF Accounted
      <3>2. CASE \E u \in Workers : wk[u].pc \in {"confirm", "book"} /\ wk[u].event = e
        BY <1>1, <2>5, <3>2 DEF Accounted
      <3> QED BY <3>1, <3>2 DEF EventInv, Accounted
    <2>9. \A e \in Events : Accounted(e)' BY <2>7, <2>8
    <2> QED BY <1>1, <2>2, <2>9 DEF EventInv
  <1> QED BY <1>2, <1>3 DEF CreateEvent

(* EventInv is inductive on top of Inv: the event an execution holds goes  *)
(* into its appointment, or the execution ends and loses it.               *)
LEMMA NextEvents == Inv /\ EventInv /\ [Next]_vars => EventInv'
  <1> SUFFICES ASSUME Inv, EventInv, [Next]_vars PROVE EventInv' OBVIOUS
  <1>1. ASSUME NEW w \in Workers, NEW b \in Bookings, BookingBegin(w, b) PROVE EventInv'
    <2>1. wk[w].pc = "idle" /\ UNCHANGED <<appts, eventSlot, lost>>
      BY <1>1 DEF BookingBegin, database
    <2>2. PICK x : wk' = [wk EXCEPT ![w] = x] BY <1>1 DEF BookingBegin
    <2> QED BY <2>1, <2>2, NoEvent
  <1>2. ASSUME NEW w \in Workers, AcquireHold(w) PROVE EventInv'
    <2>1. wk[w].pc = "hold" /\ UNCHANGED <<appts, eventSlot, lost>>
      BY <1>2 DEF AcquireHold, database
    <2>2. PICK x : wk' = [wk EXCEPT ![w] = x]
      BY <1>2 DEF AcquireHold, Inv, Shape
    <2> QED BY <2>1, <2>2, NoEvent
  <1>3. ASSUME NEW w \in Workers, ReleaseHold(w) PROVE EventInv'
    <2>1. wk[w].pc = "release" /\ UNCHANGED <<appts, eventSlot, lost>>
      BY <1>3 DEF ReleaseHold
    <2>2. wk' = [wk EXCEPT ![w] = [wk[w] EXCEPT !.pc = "thrown"]]
      BY <1>3 DEF ReleaseHold, Inv, Shape
    <2> QED BY <2>1, <2>2, NoEvent
  <1>4. ASSUME NEW w \in Workers, ConfirmHold(w) PROVE EventInv'
    <2> DEFINE x == [wk[w] EXCEPT !.pc = "book", !.state = leadState[LeadFor(w)]]
    <2>1. wk[w].pc = "confirm" /\ UNCHANGED <<appts, eventSlot, lost>>
      BY <1>4 DEF ConfirmHold, database
    <2>2. wk' = [wk EXCEPT ![w] = x] BY <1>4 DEF ConfirmHold, Inv, Shape
    <2>3. x.pc = "book" /\ x.event = wk[w].event BY DEF Inv, Shape, Execution
    <2> HIDE DEF x
    <2>4. \A e \in Events : Accounted(e)' BY <2>1, <2>2, <2>3, SameEvent
    <2> QED BY <2>1, <2>4 DEF EventInv
  <1>5. ASSUME NEW w \in Workers, Finish(w) PROVE EventInv'
    BY <1>5, NoEvent DEF Finish, Leave, database
  <1>6. ASSUME NEW w \in Workers, Throw(w) \/ Crash(w) PROVE EventInv'
    BY <1>6, AbandonsEvents DEF Throw, Crash
  <1>7. CASE UNCHANGED <<appts, eventSlot, lost, wk>>
    BY <1>7 DEF EventInv, Accounted
  <1>8. ASSUME NEW b \in Bookings, Requested(b) \/ Stall(b) PROVE EventInv'
    BY <1>7, <1>8 DEF Requested, Stall, database
  <1>9. ASSUME NEW l \in Leads, NEW s \in Moves, LeadMoves(l, s) PROVE EventInv'
    BY <1>7, <1>9 DEF LeadMoves, database
  <1>10. ASSUME NEW S \in SUBSET Holds, ReleaseExpiredHolds(S) PROVE EventInv'
    BY <1>7, <1>10 DEF ReleaseExpiredHolds
  <1>11. CASE UNCHANGED vars BY <1>7, <1>11 DEF vars, database
  <1> QED
    BY <1>1, <1>2, <1>3, <1>4, <1>5, <1>6, <1>8, <1>9, <1>10, <1>11, CreateEvents, CommitEvents
    DEF Next, Environment, Proceeds

(* An execution that still has an active hold on the slot has no           *)
(* appointment and no other such execution beside it.                      *)
LEMMA OneWinner == Inv /\ EventInv => OnlyWinnerCreates
  <1> SUFFICES ASSUME Inv, EventInv, NEW e \in Events, NEW f \in Events,
                      eventSlot[e] # None, eventSlot[e] = eventSlot[f], e # f,
                      {e, f} \cap lost = {},
                      \A w \in Workers : wk[w].event \in {e, f} => holdStatus[wk[w].hold] # "released"
               PROVE  FALSE
    BY DEF OnlyWinnerCreates
  <1> DEFINE On(w, d) == wk[w].pc \in {"confirm", "book"} /\ wk[w].event = d
  <1>1. ASSUME NEW d \in {e, f}, NEW w \in Workers, On(w, d)
        PROVE  /\ wk[w].hold \in Holds
               /\ holdStatus[wk[w].hold] = "held"
               /\ holdSlot[wk[w].hold] = eventSlot[e]
    BY <1>1 DEF Inv, Owns
  <1>2. \A d \in {e, f} : d \in appts \/ \E w \in Workers : On(w, d)
    BY DEF EventInv, Accounted
  <1>3. ~(e \in appts /\ f \in appts) BY DEF EventInv
  <1>4. ASSUME NEW d \in {e, f}, d \in appts PROVE \A c \in {e, f}, w \in Workers : ~On(w, c)
    <2> SUFFICES ASSUME NEW c \in {e, f}, NEW w \in Workers, On(w, c) PROVE FALSE
      OBVIOUS
    <2>1. PICK h \in Holds : holdStatus[h] = "confirmed" /\ holdSlot[h] = eventSlot[e]
      BY <1>4 DEF Inv, AppointmentsHold
    <2> QED BY <1>1, <2>1 DEF Inv, OneActiveHold, Active
  <1>5. ASSUME NEW u \in Workers, NEW w \in Workers, On(u, e), On(w, f) PROVE FALSE
    <2>1. wk[u].hold = wk[w].hold /\ wk[u].hold \in Holds
      BY <1>1, <1>5 DEF Inv, OneActiveHold, Active
    <2>2. u = w BY <2>1 DEF Inv, Apart
    <2> QED BY <1>5, <2>2
  <1> QED BY <1>2, <1>3, <1>4, <1>5

(* "Only the winner then creates the calendar event" (processBooking):     *)
(* however bookings are retried, interleaved and swept, a slot gets a      *)
(* second event only if the execution behind one of the two ended without  *)
(* recording it, or runs on a hold that was swept.                         *)
THEOREM WinnerCreates == Spec => []OnlyWinnerCreates
  BY InitInv, NextInv, InitEvents, NextEvents, OneWinner, PTL DEF Spec
=============================================================================
