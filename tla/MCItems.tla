-------------------------------- MODULE MCItems --------------------------------
(***************************************************************************)
(* Items for TLC: two rings and a fish, which is not to be worn, a finger  *)
(* and two slots, so that the slot a ring is to be taken off to can be     *)
(* filled and the bag can be full.                                         *)
(***************************************************************************)
EXTENDS Items, TLC

CONSTANTS ring1, ring2, fish, finger

MCItem == {ring1, ring2, fish}
MCPartOf == [i \in MCItem |-> IF i = fish THEN "none" ELSE "ring"]
MCEquippable == [p \in {"ring", "none"} |-> IF p = "ring" THEN {finger} ELSE {}]

\* Nothing tells the rings apart.
Rings == Permutations({ring1, ring2})
================================================================================
