------------------------------- MODULE JobQueue -------------------------------
(***************************************************************************)
(* The BullMQ queues behind packages/queue/src/index.ts, as the workers    *)
(* and the API use them.  A job is a deterministic job id.  The module     *)
(* offers the queue's operations; the modules of the processors INSTANCE   *)
(* it and conjoin an operation to each step of a handler that performs it. *)
(*                                                                         *)
(* Delivery is at least once: a worker that stops renewing its lock (it    *)
(* crashed, or it is slow) loses the job, which goes back to waiting while *)
(* the first execution may still be running.                               *)
(***************************************************************************)
EXTENDS Naturals

CONSTANTS Job,         (* job ids, over all queues                          *)
          Worker,      (* concurrent executions                             *)
          NoWorker,
          MaxAttempts, (* DEFAULT_JOB_OPTS.attempts                         *)
          MaxStalls    (* BullMQ's maxStalledCount                          *)

VARIABLES jobState,    (* where a job id is in Redis                        *)
          tries,       (* failed attempts of the retained job               *)
          stalls,      (* times the retained job was found stalled          *)
          holder       (* whose lock an active job is under                 *)

queueVars == <<jobState, tries, stalls, holder>>

JobStatus == {"absent", "waiting", "active", "completed", "failed"}

QueueTypeOK ==
    /\ jobState \in [Job -> JobStatus]
    /\ tries \in [Job -> 0..MaxAttempts]
    /\ stalls \in [Job -> 0..MaxStalls]
    /\ holder \in [Job -> Worker \cup {NoWorker}]

(* A queue in which exactly the jobs of S wait. *)
QueueInit(S) ==
    /\ jobState = [j \in Job |-> IF j \in S THEN "waiting" ELSE "absent"]
    /\ tries = [j \in Job |-> 0]
    /\ stalls = [j \in Job |-> 0]
    /\ holder = [j \in Job |-> NoWorker]

(* Mutant: a completed job is added again. *)
AddAgain(j) ==
    /\ jobState' = [jobState EXCEPT ![j] = IF @ \in {"absent", "completed"} THEN "waiting" ELSE @]
    /\ UNCHANGED <<tries, stalls, holder>>

(* enqueue: a job id Redis still retains, whatever its state, is not added *)
(* again.                                                                  *)
Add(j) ==
    /\ jobState' = [jobState EXCEPT ![j] = IF @ = "absent" THEN "waiting" ELSE @]
    /\ UNCHANGED <<tries, stalls, holder>>

(* A worker picks the job up.  Back-off and delays only postpone this. *)
Take(w, j) ==
    /\ jobState[j] = "waiting"
    /\ jobState' = [jobState EXCEPT ![j] = "active"]
    /\ holder' = [holder EXCEPT ![j] = w]
    /\ UNCHANGED <<tries, stalls>>

(* The processor returned.  Without the lock the result is discarded. *)
Complete(w, j) ==
    /\ IF holder[j] = w
       THEN /\ jobState' = [jobState EXCEPT ![j] = "completed"]
            /\ holder' = [holder EXCEPT ![j] = NoWorker]
       ELSE UNCHANGED <<jobState, holder>>
    /\ UNCHANGED <<tries, stalls>>

(* Mutants of Reject: one attempt too many, or an exhausted job forgotten. *)
RejectLate(w, j) ==
    /\ tries' = [tries EXCEPT ![j] = @ + 1]
    /\ jobState' = [jobState EXCEPT ![j] = IF tries[j] < MaxAttempts THEN "waiting" ELSE "failed"]
    /\ holder' = [holder EXCEPT ![j] = NoWorker]
    /\ UNCHANGED stalls

RejectForgets(w, j) ==
    /\ tries' = [tries EXCEPT ![j] = @ + 1]
    /\ jobState' = [jobState EXCEPT
                      ![j] = IF tries[j] + 1 < MaxAttempts THEN "waiting" ELSE "completed"]
    /\ holder' = [holder EXCEPT ![j] = NoWorker]
    /\ UNCHANGED stalls

(* The processor threw: retried until the attempts are used up, then kept  *)
(* as failed (removeOnFail: false).                                        *)
Reject(w, j) ==
    /\ IF holder[j] = w
       THEN /\ tries' = [tries EXCEPT ![j] = @ + 1]
            /\ jobState' = [jobState EXCEPT
                              ![j] = IF tries[j] + 1 < MaxAttempts THEN "waiting" ELSE "failed"]
            /\ holder' = [holder EXCEPT ![j] = NoWorker]
       ELSE UNCHANGED <<jobState, tries, holder>>
    /\ UNCHANGED stalls

(* Mutant: a stalled job is taken for completed. *)
StallForgets(j) ==
    /\ jobState[j] = "active"
    /\ jobState' = [jobState EXCEPT ![j] = "completed"]
    /\ holder' = [holder EXCEPT ![j] = NoWorker]
    /\ UNCHANGED <<tries, stalls>>

(* The stalled-job check takes the job from whoever holds it. *)
Stall(j) ==
    /\ jobState[j] = "active"
    /\ IF stalls[j] < MaxStalls
       THEN /\ jobState' = [jobState EXCEPT ![j] = "waiting"]
            /\ stalls' = [stalls EXCEPT ![j] = @ + 1]
       ELSE /\ jobState' = [jobState EXCEPT ![j] = "failed"]
            /\ UNCHANGED stalls
    /\ holder' = [holder EXCEPT ![j] = NoWorker]
    /\ UNCHANGED tries

(* removeOnComplete: an old completed job is dropped, and its id is free.  *)
(* A failed job is never dropped.                                          *)
Evict(j) ==
    /\ jobState[j] = "completed"
    /\ jobState' = [jobState EXCEPT ![j] = "absent"]
    /\ tries' = [tries EXCEPT ![j] = 0]
    /\ stalls' = [stalls EXCEPT ![j] = 0]
    /\ UNCHANGED holder

=============================================================================
