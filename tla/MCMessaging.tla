------------------------------ MODULE MCMessaging ------------------------------
(***************************************************************************)
(* TLC instances of Messaging.  One lead is enough for every property: no  *)
(* handler touches two leads, and what they share is the worker pool.      *)
(***************************************************************************)
EXTENDS Messaging, TLC

CONSTANTS l1, r1, r2, i1, i2, s1, s2, w1, w2

MCInLead == [i \in Inbounds |-> l1]
MCStop   == [i \in Inbounds |-> "stop"]
MCReply  == [i \in Inbounds |-> IF i = i1 THEN "reply" ELSE "stop"]

Symmetry == Permutations(Workers) \cup Permutations(Rows) \cup Permutations(Sids)

=============================================================================
