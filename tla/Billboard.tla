------------------------------ MODULE Billboard -------------------------------
(* What the panel promises to those who post frames to it: each region shows    *)
(* frames that were posted, in the order they were posted, skipping as many as  *)
(* it likes. Frames are known by their place in the order of their region.      *)
EXTENDS Naturals

CONSTANT Regions

VARIABLES
  posted,   \* per region, the place of the newest frame posted, 0 for none
  shown     \* per region, the place of the frame on the panel, 0 for none

vars == <<posted, shown>>

Init ==
  /\ posted = [r \in Regions |-> 0]
  /\ shown = [r \in Regions |-> 0]

Post(r) ==
  /\ posted'[r] > posted[r]
  /\ posted' = [posted EXCEPT ![r] = posted'[r]]
  /\ UNCHANGED shown

\* One refresh may bring several regions up to date.
Refresh ==
  /\ shown' = [r \in Regions |-> shown'[r]]
  /\ \A r \in Regions : shown'[r] \in shown[r] .. posted[r]
  /\ UNCHANGED posted

Next == Refresh \/ \E r \in Regions : Post(r)

Spec == Init /\ [][Next]_vars
===============================================================================
