----------------------------- MODULE JobQueueProofs -----------------------------
(***************************************************************************)
(* What the operations of JobQueue preserve, for every set of jobs and     *)
(* workers.  The proof modules of the components INSTANCE this module the  *)
(* way the components INSTANCE JobQueue.                                   *)
(***************************************************************************)
EXTENDS JobQueue, TLAPS

QueueConstants ==
    /\ MaxAttempts \in Nat \ {0} /\ MaxStalls \in Nat
    /\ NoWorker \notin Worker

(* A job is under a lock exactly while it is active, and has an attempt    *)
(* left unless it is dead-lettered.                                        *)
QueueInv ==
    /\ QueueTypeOK
    /\ \A j \in Job : /\ holder[j] # NoWorker <=> jobState[j] = "active"
                      /\ jobState[j] # "failed" => tries[j] < MaxAttempts

(* The operations, of which a step of a component performs at most one.    *)
QueueOperation(w, j) ==
    \/ w \in Worker /\ (Take(w, j) \/ Complete(w, j) \/ Reject(w, j))
    \/ Add(j) \/ Stall(j) \/ Evict(j)
    \/ UNCHANGED queueVars

(* A queue begins in order, whatever waits in it. *)
LEMMA QueueInitially == ASSUME QueueConstants, NEW S, QueueInit(S) PROVE QueueInv
  BY DEF QueueConstants, QueueInit, QueueInv, QueueTypeOK, JobStatus

(* An operation on job j keeps the queue in order if it leaves j so.       *)
LEMMA JobKept ==
    ASSUME QueueInv, NEW j \in Job, QueueTypeOK',
           \A k \in Job \ {j} : /\ jobState'[k] = jobState[k] /\ tries'[k] = tries[k]
                                /\ holder'[k] = holder[k],
           holder'[j] # NoWorker <=> jobState'[j] = "active",
           jobState'[j] # "failed" => tries'[j] < MaxAttempts
    PROVE  QueueInv'
  BY DEF QueueInv

(* No operation takes a lock from a job that is active, or an attempt from *)
(* one that has none.                                                      *)
LEMMA QueueKept ==
    ASSUME QueueConstants, QueueInv, NEW w, NEW j \in Job, QueueOperation(w, j)
    PROVE  QueueInv'
  <1> USE DEF QueueTypeOK, JobStatus
  <1>0. /\ QueueTypeOK
        /\ MaxAttempts \in Nat \ {0} /\ MaxStalls \in Nat /\ NoWorker \notin Worker
        /\ holder[j] # NoWorker <=> jobState[j] = "active"
        /\ jobState[j] # "failed" => tries[j] < MaxAttempts
    BY DEF QueueConstants, QueueInv
  <1>1. CASE Add(j)
    <2>1. QueueTypeOK' BY <1>0, <1>1 DEF Add
    <2>2. \A k \in Job \ {j} : /\ jobState'[k] = jobState[k] /\ tries'[k] = tries[k]
                               /\ holder'[k] = holder[k]
      BY <1>0, <1>1 DEF Add
    <2>3. /\ holder'[j] # NoWorker <=> jobState'[j] = "active"
          /\ jobState'[j] # "failed" => tries'[j] < MaxAttempts
      BY <1>0, <1>1 DEF Add
    <2> QED BY <2>1, <2>2, <2>3, JobKept
  <1>2. CASE w \in Worker /\ Take(w, j)
    <2>1. QueueTypeOK' BY <1>0, <1>2 DEF Take
    <2>2. \A k \in Job \ {j} : /\ jobState'[k] = jobState[k] /\ tries'[k] = tries[k]
                               /\ holder'[k] = holder[k]
      BY <1>0, <1>2 DEF Take
    <2>3. /\ holder'[j] # NoWorker <=> jobState'[j] = "active"
          /\ jobState'[j] # "failed" => tries'[j] < MaxAttempts
      BY <1>0, <1>2 DEF Take
    <2> QED BY <2>1, <2>2, <2>3, JobKept
  <1>3. CASE w \in Worker /\ Complete(w, j)
    <2>1. QueueTypeOK' BY <1>0, <1>3 DEF Complete
    <2>2. \A k \in Job \ {j} : /\ jobState'[k] = jobState[k] /\ tries'[k] = tries[k]
                               /\ holder'[k] = holder[k]
      BY <1>0, <1>3 DEF Complete
    <2>3. /\ holder'[j] # NoWorker <=> jobState'[j] = "active"
          /\ jobState'[j] # "failed" => tries'[j] < MaxAttempts
      BY <1>0, <1>3 DEF Complete
    <2> QED BY <2>1, <2>2, <2>3, JobKept
  <1>4. CASE w \in Worker /\ Reject(w, j)
    <2>1. QueueTypeOK' BY <1>0, <1>4 DEF Reject
    <2>2. \A k \in Job \ {j} : /\ jobState'[k] = jobState[k] /\ tries'[k] = tries[k]
                               /\ holder'[k] = holder[k]
      BY <1>0, <1>4 DEF Reject
    <2>3. /\ holder'[j] # NoWorker <=> jobState'[j] = "active"
          /\ jobState'[j] # "failed" => tries'[j] < MaxAttempts
      BY <1>0, <1>4 DEF Reject
    <2> QED BY <2>1, <2>2, <2>3, JobKept
  <1>5. CASE Stall(j)
    <2>1. QueueTypeOK' BY <1>0, <1>5 DEF Stall
    <2>2. \A k \in Job \ {j} : /\ jobState'[k] = jobState[k] /\ tries'[k] = tries[k]
                               /\ holder'[k] = holder[k]
      BY <1>0, <1>5 DEF Stall
    <2>3. /\ holder'[j] # NoWorker <=> jobState'[j] = "active"
          /\ jobState'[j] # "failed" => tries'[j] < MaxAttempts
      BY <1>0, <1>5 DEF Stall
    <2> QED BY <2>1, <2>2, <2>3, JobKept
  <1>6. CASE Evict(j)
    <2>1. QueueTypeOK' BY <1>0, <1>6 DEF Evict
    <2>2. \A k \in Job \ {j} : /\ jobState'[k] = jobState[k] /\ tries'[k] = tries[k]
                               /\ holder'[k] = holder[k]
      BY <1>0, <1>6 DEF Evict
    <2>3. /\ holder'[j] # NoWorker <=> jobState'[j] = "active"
          /\ jobState'[j] # "failed" => tries'[j] < MaxAttempts
      BY <1>0, <1>6 DEF Evict
    <2> QED BY <2>1, <2>2, <2>3, JobKept
  <1>7. CASE UNCHANGED queueVars BY <1>7 DEF queueVars, QueueInv
  <1> QED BY <1>1, <1>2, <1>3, <1>4, <1>5, <1>6, <1>7 DEF QueueOperation

=============================================================================
