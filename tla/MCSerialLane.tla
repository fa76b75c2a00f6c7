--------------------------- MODULE MCSerialLane ---------------------------
(* Two lanes on one worker: a mailbox of one place with two updates of one  *)
(* key and a plain call, and a second lane with one call.                  *)
EXTENDS SerialLane, TLC

CONSTANTS u1, u2, p1, q1, l1, l2, w1

MCSubmission == {u1, u2, p1, q1}
MCLaneOf     == u1 :> l1 @@ u2 :> l1 @@ p1 :> l1 @@ q1 :> l2
MCCreated    == <<l1, l2>>
MCWorkerOf   == [l \in {l1, l2} |-> w1]
============================================================================
