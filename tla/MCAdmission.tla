---------------------------- MODULE MCAdmission ----------------------------
(* Three groups for TLC: a LOW and a CRITICAL one of the same tenant that    *)
(* wait, and one of another tenant that is rejected when there is no room.   *)
EXTENDS Admission, TLC

CONSTANTS a1, b1, b2, c1, low, critical, reject, t1, t2, gpu, io, cpu

MCRequest    == {a1, b1, b2, c1}
MCGroup      == {low, critical, reject}
MCGroupOf    == a1 :> low @@ b1 :> critical @@ b2 :> critical @@ c1 :> reject
MCLaneOf     == [r \in MCRequest |-> IF r = c1 THEN cpu ELSE io]
MCTenantOf   == low :> t1 @@ critical :> t1 @@ reject :> t2
MCResourceOf == low :> None @@ critical :> gpu @@ reject :> gpu
MCRankOf     == low :> 1 @@ critical :> 0 @@ reject :> 2
MCLaneLimit  == io :> 2 @@ cpu :> 1
============================================================================
