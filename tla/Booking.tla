-------------------------------- MODULE Booking --------------------------------
(***************************************************************************)
(* Appointment booking: processBooking and releaseExpiredHolds of          *)
(* apps/worker/src/processors/booking.ts.  A booking job acquires a slot   *)
(* hold in a transaction of its own (a unique partial index arbitrates),   *)
(* creates the calendar event outside any transaction, and confirms the    *)
(* hold, inserts the appointment and advances the lead in a last one.      *)
(*                                                                         *)
(* The last transaction is a step that updates the hold and reads the lead *)
(* and a commit step; what others commit in between is not seen.  Nothing  *)
(* under src/ calls releaseExpiredHolds: Sweeps says whether a deployment  *)
(* schedules it.                                                           *)
(***************************************************************************)
EXTENDS LeadLifecycle, Naturals

CONSTANTS Bookings,     (* booking jobs                                     *)
          Leads, Slots, (* a slot is a calendar connection and a start      *)
          Holds,        (* slot_holds ids                                   *)
          Events,       (* external calendar event ids                      *)
          Workers, None, MaxAttempts, MaxStalls,
          LeadOf, SlotOf,
          Unconnected,  (* bookings whose calendar connection is missing    *)
          Moves,        (* states other components may move a lead to       *)
          Sweeps,       (* whether releaseExpiredHolds is scheduled         *)
          Faults        (* how many crashes, stalls and I/O errors may occur *)

ASSUME BookingAssumption ==
    /\ None \notin Bookings \cup Leads \cup Slots \cup Holds \cup Events \cup Workers
    /\ MaxAttempts \in Nat \ {0}
    /\ MaxStalls \in Nat
    /\ LeadOf \in [Bookings -> Leads]
    /\ SlotOf \in [Bookings -> Slots]
    /\ Unconnected \subseteq Bookings
    /\ Moves \subseteq {"human_owned", "opted_out", "lost"}
    /\ Sweeps \in BOOLEAN
    /\ Faults \in Nat

VARIABLES
    leadState,  (* leads.state                                              *)
    holdStatus, (* slot_holds.status                                        *)
    holdSlot,   (* its calendar connection and start                        *)
    appts,      (* appointments rows, by external event id                  *)
    eventSlot,  (* the provider's calendar: the slot of an event            *)
    jobState, tries, stalls, holder,
    wk,         (* the execution each worker runs                           *)
    (* history *)
    lost,       (* events whose execution ended without recording them      *)
    stranded,   (* slots an execution was cut off from while holding them   *)
    faults

Q == INSTANCE JobQueue WITH Job <- Bookings, Worker <- Workers, NoWorker <- None

database  == <<holdStatus, holdSlot, appts>>
queueVars == <<jobState, tries, stalls, holder>>
vars == <<leadState, database, eventSlot, queueVars, wk, lost, stranded, faults>>

(* Control points: the next thing the execution does, in program order;    *)
(* release and thrown lead out of createEvent's catch.                     *)
Pc == {"idle", "hold", "create", "release", "thrown", "confirm", "book", "done"}

Execution ==
    [job: Bookings \cup {None}, pc: Pc, hold: Holds \cup {None}, event: Events \cup {None},
     state: LeadState]       \* lead.state as read by the last transaction

Idle == [job |-> None, pc |-> "idle", hold |-> None, event |-> None, state |-> "new"]

TypeOK ==
    /\ leadState \in [Leads -> LeadState]
    /\ holdStatus \in [Holds -> {"none", "held", "confirmed", "released"}]
    /\ holdSlot \in [Holds -> Slots \cup {None}]
    /\ appts \subseteq Events
    /\ eventSlot \in [Events -> Slots \cup {None}]
    /\ Q!QueueTypeOK
    /\ wk \in [Workers -> Execution]
    /\ lost \subseteq Events
    /\ stranded \subseteq Slots
    /\ faults \in 0..Faults

Init ==
    /\ leadState = [l \in Leads |-> "qualified"]
    /\ holdStatus = [h \in Holds |-> "none"]
    /\ holdSlot = [h \in Holds |-> None]
    /\ appts = {}
    /\ eventSlot = [e \in Events |-> None]
    /\ Q!QueueInit({})
    /\ wk = [w \in Workers |-> Idle]
    /\ lost = {} /\ stranded = {}
    /\ faults = Faults

Fault == faults > 0 /\ faults' = faults - 1

-----------------------------------------------------------------------------
LeadFor(w) == LeadOf[wk[w].job]
SlotFor(w) == SlotOf[wk[w].job]

(* Mutant: the index leaves out the confirmed holds. *)
HeldHolds(s) == {h \in Holds : holdSlot[h] = s /\ holdStatus[h] = "held"}

(* slot_holds_unique: at most one hold of a slot is held or confirmed. *)
ActiveHolds(s) == {h \in Holds : holdSlot[h] = s /\ holdStatus[h] \in {"held", "confirmed"}}

(* A transaction that updated a hold of the slot has yet to commit: a      *)
(* statement that needs the row or its index entry waits.                  *)
HoldInFlight(s, w) == \E u \in Workers \ {w} : wk[u].pc = "book" /\ SlotFor(u) = s

(* A new row's id: unused, or of a released row that nobody remembers.     *)
FreshHold(h) ==
    holdStatus[h] \in {"none", "released"} /\ \A u \in Workers : wk[u].hold # h

NewHold  == CHOOSE h \in Holds : FreshHold(h)
NewEvent == CHOOSE e \in Events : eventSlot[e] = None

-----------------------------------------------------------------------------
(* processBooking.                                                         *)

BookingBegin(w, b) ==
    /\ wk[w].pc = "idle"
    /\ Q!Take(w, b)
    /\ wk' = [wk EXCEPT ![w] =
                [Idle EXCEPT !.job = b, !.pc = IF b \in Unconnected THEN "done" ELSE "hold"]]
    /\ UNCHANGED <<leadState, database, eventSlot, lost, stranded, faults>>

(* Step 1, a transaction of its own; a unique violation is slot_taken. *)
AcquireHold(w) ==
    /\ wk[w].pc = "hold"
    /\ ~HoldInFlight(SlotFor(w), w)
    /\ IF ActiveHolds(SlotFor(w)) # {}
       THEN wk' = [wk EXCEPT ![w].pc = "done"] /\ UNCHANGED database
       ELSE /\ \E h \in Holds : FreshHold(h)
            /\ holdStatus' = [holdStatus EXCEPT ![NewHold] = "held"]
            /\ holdSlot' = [holdSlot EXCEPT ![NewHold] = SlotFor(w)]
            /\ wk' = [wk EXCEPT ![w].pc = "create", ![w].hold = NewHold]
            /\ UNCHANGED appts
    /\ UNCHANGED <<leadState, eventSlot, queueVars, lost, stranded, faults>>

(* Step 2: calendar.createEvent, which may throw, before or (a fault: the  *)
(* answer is lost) after it created the event.                             *)
CreateEvent(w) ==
    /\ wk[w].pc = "create"
    /\ \/ /\ \E e \in Events : eventSlot[e] = None
          /\ eventSlot' = [eventSlot EXCEPT ![NewEvent] = SlotFor(w)]
          /\ \/ wk' = [wk EXCEPT ![w].pc = "confirm", ![w].event = NewEvent]
                /\ UNCHANGED <<lost, faults>>
             \/ Fault /\ wk' = [wk EXCEPT ![w].pc = "release"] /\ lost' = lost \cup {NewEvent}
       \/ wk' = [wk EXCEPT ![w].pc = "release"] /\ UNCHANGED <<eventSlot, lost, faults>>
    /\ UNCHANGED <<leadState, database, queueVars, stranded>>

(* Mutant: the catch rethrows and leaves the hold. *)
KeepHold(w) ==
    /\ wk[w].pc = "release"
    /\ wk' = [wk EXCEPT ![w].pc = "thrown"]
    /\ UNCHANGED <<leadState, database, eventSlot, queueVars, lost, stranded, faults>>

(* Its catch releases the hold, whatever its status, and rethrows. *)
ReleaseHold(w) ==
    /\ wk[w].pc = "release"
    /\ holdStatus' = [holdStatus EXCEPT ![wk[w].hold] = "released"]
    /\ wk' = [wk EXCEPT ![w].pc = "thrown"]
    /\ UNCHANGED <<leadState, holdSlot, appts, eventSlot, queueVars, lost, stranded, faults>>

(* Step 3: confirm the hold, whatever its status, unless the index now has *)
(* another one of the slot; read the lead...                               *)
ConfirmHold(w) ==
    /\ wk[w].pc = "confirm"
    /\ ~HoldInFlight(SlotFor(w), w)
    /\ ActiveHolds(SlotFor(w)) \subseteq {wk[w].hold}
    /\ wk' = [wk EXCEPT ![w].pc = "book", ![w].state = leadState[LeadFor(w)]]
    /\ UNCHANGED <<leadState, database, eventSlot, queueVars, lost, stranded, faults>>

(* ... and commit, with the appointment and the lead booked unless it was  *)
(* when read.                                                              *)
BookCommit(w) ==
    /\ wk[w].pc = "book"
    /\ CanTransition(wk[w].state, "booked")
    /\ holdStatus' = [holdStatus EXCEPT ![wk[w].hold] = "confirmed"]
    /\ appts' = appts \cup {wk[w].event}
    /\ leadState' = IF wk[w].state = "booked" THEN leadState
                    ELSE [leadState EXCEPT ![LeadFor(w)] = "booked"]
    /\ wk' = [wk EXCEPT ![w].pc = "done"]
    /\ UNCHANGED <<holdSlot, eventSlot, queueVars, lost, stranded, faults>>

Leave(w) == wk' = [wk EXCEPT ![w] = Idle]

Finish(w) ==
    /\ wk[w].pc = "done"
    /\ Q!Complete(w, wk[w].job)
    /\ Leave(w)
    /\ UNCHANGED <<leadState, database, eventSlot, lost, stranded, faults>>

(* What an execution that ends here leaves behind. *)
Holding(w) == wk[w].pc \in {"create", "release", "confirm", "book"}

Abandons(w) ==
    /\ lost' = IF wk[w].pc \in {"confirm", "book"} THEN lost \cup {wk[w].event} ELSE lost
    /\ stranded' = IF Holding(w) THEN stranded \cup {SlotFor(w)} ELSE stranded

(* The rethrow, a second hold on the slot, an illegal transition.  Step 3  *)
(* is rolled back, and nothing releases its hold or cancels its event.     *)
MustThrow(w) ==
    \/ wk[w].pc = "thrown"
    \/ /\ wk[w].pc = "confirm" /\ ~HoldInFlight(SlotFor(w), w)
       /\ ~(ActiveHolds(SlotFor(w)) \subseteq {wk[w].hold})
    \/ wk[w].pc = "book" /\ ~CanTransition(wk[w].state, "booked")

(* ... or an error of the database in one of the transactions; an error at *)
(* create is caught there.                                                 *)
Throw(w) ==
    /\ \/ MustThrow(w) /\ UNCHANGED faults
       \/ ~MustThrow(w) /\ wk[w].pc \in {"hold", "release", "confirm", "book"} /\ Fault
    /\ Q!Reject(w, wk[w].job)
    /\ Leave(w)
    /\ Abandons(w)
    /\ UNCHANGED <<leadState, database, eventSlot>>

-----------------------------------------------------------------------------
(* The worker process dies. *)
Crash(w) ==
    /\ Fault /\ wk[w].pc # "idle"
    /\ Leave(w)
    /\ Abandons(w)
    /\ UNCHANGED <<leadState, database, eventSlot, queueVars>>

(* The stalled-job check. *)
Orphaned(b) == jobState[b] = "active" /\ \A w \in Workers : wk[w].job # b

Stall(b) ==
    /\ IF Orphaned(b) THEN UNCHANGED faults ELSE Fault
    /\ Q!Stall(b)
    /\ stranded' = stranded \cup {SlotFor(w) : w \in {u \in Workers : wk[u].job = b}}
    /\ UNCHANGED <<leadState, database, eventSlot, wk, lost>>

(* A booking is asked for. *)
Requested(b) ==
    /\ jobState[b] = "absent"
    /\ Q!Add(b)
    /\ UNCHANGED <<leadState, database, eventSlot, wk, lost, stranded, faults>>

(* releaseExpiredHolds, on the holds past their five minutes by the clock  *)
(* of the caller; it waits for a hold that is being confirmed.             *)
ReleaseExpiredHolds(S) ==
    /\ Sweeps
    /\ S # {}
    /\ \A h \in S : holdStatus[h] = "held" /\ \A w \in Workers : wk[w].pc = "book" => wk[w].hold # h
    /\ holdStatus' = [h \in Holds |-> IF h \in S THEN "released" ELSE holdStatus[h]]
    /\ UNCHANGED <<leadState, holdSlot, appts, eventSlot, queueVars, wk, lost, stranded, faults>>

(* The other components move the lead. *)
LeadMoves(l, s) ==
    /\ leadState[l] # s
    /\ CanTransition(leadState[l], s)
    /\ leadState' = [leadState EXCEPT ![l] = s]
    /\ UNCHANGED <<database, eventSlot, queueVars, wk, lost, stranded, faults>>

-----------------------------------------------------------------------------
Proceeds(w) ==
    \/ AcquireHold(w)
    \/ CreateEvent(w)
    \/ ReleaseHold(w)
    \/ ConfirmHold(w)
    \/ BookCommit(w)
    \/ Finish(w)
    \/ Throw(w)

Environment ==
    \/ \E b \in Bookings : Requested(b) \/ Stall(b)
    \/ \E l \in Leads, s \in Moves : LeadMoves(l, s)
    \/ \E S \in SUBSET Holds : ReleaseExpiredHolds(S)
    \/ \E w \in Workers : Crash(w)

Next == Environment \/ \E w \in Workers : Proceeds(w) \/ \E b \in Bookings : BookingBegin(w, b)

Spec == Init /\ [][Next]_vars

(* As in Messaging: the workers run and the queue serves every job; the    *)
(* sweep, leads and faults are not assumed.                                *)
Fairness ==
    /\ \A w \in Workers : WF_vars(Proceeds(w))
    /\ \A b \in Bookings : SF_vars(\E w \in Workers : BookingBegin(w, b))
    /\ \A b \in Bookings : WF_vars(Orphaned(b) /\ Stall(b))

FairSpec == Spec /\ Fairness

-----------------------------------------------------------------------------
(* Properties.                                                             *)

(* Booking implements the exclusive reservation: whatever is retried,      *)
(* stalls, or is swept while the calendar is called, no slot ever gets a   *)
(* second appointment.                                                     *)
Reservation == INSTANCE SlotReservation
                 WITH Appointment <- Events, Slot <- Slots,
                      booked <- {<<e, eventSlot[e]>> : e \in appts}

ReservesSlots == Reservation!Spec

(* "Only the winner then creates the calendar event": a slot has a second  *)
(* event only if the execution of one of the two ended without recording   *)
(* it, or runs on a hold that was swept.                                   *)
OnlyWinnerCreates ==
    \A e, f \in Events : eventSlot[e] # None /\ eventSlot[e] = eventSlot[f] /\ e # f
        => \/ {e, f} \cap lost # {}
           \/ \E w \in Workers : wk[w].event \in {e, f} /\ holdStatus[wk[w].hold] = "released"

(* Of the bookings asked for a slot one wins, or one is dead-lettered for  *)
(* an operator; the exceptions are an execution cut off while it held the  *)
(* slot and a calendar that is not connected.                              *)
SomeoneWins ==
    \A b \in Bookings \ Unconnected :
        jobState[b] = "waiting" ~>
            \/ \E e \in appts : eventSlot[e] = SlotOf[b]
            \/ \E c \in Bookings : SlotOf[c] = SlotOf[b] /\ jobState[c] = "failed"
            \/ SlotOf[b] \in stranded

-----------------------------------------------------------------------------
(* What the repository says and the code does not do.                      *)

(* docs/integrations.md: "Any failure rolls the hold back; expiry sweep    *)
(* releases abandoned holds."  No hold stays held for ever.                *)
HoldsEnd == \A h \in Holds : holdStatus[h] = "held" ~> holdStatus[h] # "held"

=============================================================================
