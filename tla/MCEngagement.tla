----------------------------- MODULE MCEngagement -----------------------------
(***************************************************************************)
(* TLC instances of Engagement: one question to answer and a follow-up of  *)
(* two steps, which may be a message or not.                               *)
(***************************************************************************)
EXTENDS Engagement, TLC

CONSTANTS m1, m2, t1, r1, r2, w1, w2

MCSteps == <<"send", "stop">>
MCFields == {"service"}
MCTurns == {{}, MCFields}

Symmetry == Permutations(Workers) \cup Permutations(Replies)

===============================================================================
