------------------------------ MODULE MCAutonomy ------------------------------
(* Autonomy with the costs of the two registered turn jobs and a stretch that   *)
(* keeps the order of the code's 1, 3 and 6.                                    *)
EXTENDS Autonomy

MCCost == [job \in TurnJobs |-> IF job = "dream" THEN 3 ELSE 1]
MCStretch == [l \in Levels |-> CASE l = "lively" -> 1 [] l = "eased" -> 2 [] l = "low" -> 3]
===============================================================================
