---------------------------- MODULE AtomicSwitch ----------------------------
(***************************************************************************)
(* What the persistence utility promises while nothing else touches its     *)
(* paths: seen between its runs, the root serves exactly the projections    *)
(* that are recorded, and both change together, to a whole plan, or not at  *)
(* all.                                                                     *)
(***************************************************************************)
CONSTANT Plans   \* the plans, as sets of entries

VARIABLES recorded,  \* the plan in force
          served     \* the projections in place

Init == recorded = {} /\ served = {}

Switch(p) == recorded' = p /\ served' = p

Next == \E p \in Plans : Switch(p)

Spec == Init /\ [][Next]_<<recorded, served>>
=============================================================================
