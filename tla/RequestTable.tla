---------------------------- MODULE RequestTable ----------------------------
(***************************************************************************)
(* What a user of the database connector (Network/AspApi/AspApi.h) may     *)
(* rely on, without its reference counts.  A request occupies a slot.  It  *)
(* is pending from its acceptance until the answer is in, answered while   *)
(* the answer is handed out, and then gives the slot back, or passes it on *)
(* to a follow-up request.  An exclusive request (cancelByDuplication) is  *)
(* accepted only while no request of the same serial is pending, and no    *)
(* pending request is ever dropped: it leaves "pending" through its answer.*)
(***************************************************************************)
CONSTANTS Call,     \* the slots
          Serial    \* the serials requests are made under

VARIABLE slot

Idle == [stage |-> "idle"]

Request == [stage : {"pending", "answered"}, serial : Serial, exclusive : BOOLEAN]

TypeOK == slot \in [Call -> {Idle} \cup Request]

Pending(c) == slot[c].stage = "pending"

Init == slot = [c \in Call |-> Idle]

Admissible(v, x) == x => \A d \in Call : Pending(d) => slot[d].serial # v

Occupy(c, v, x) ==
  /\ Admissible(v, x)
  /\ slot' = [slot EXCEPT ![c] = [stage |-> "pending", serial |-> v, exclusive |-> x]]

Accept(c) == /\ slot[c] = Idle
             /\ \E v \in Serial, x \in BOOLEAN : Occupy(c, v, x)

Answer(c) == /\ Pending(c)
             /\ slot' = [slot EXCEPT ![c].stage = "answered"]

Finish(c) == /\ slot[c].stage = "answered"
             /\ slot' = [slot EXCEPT ![c] = Idle]

Reuse(c) == /\ slot[c].stage = "answered"
            /\ \E v \in Serial, x \in BOOLEAN : Occupy(c, v, x)

Next == \E c \in Call : Accept(c) \/ Answer(c) \/ Finish(c) \/ Reuse(c)

Spec == Init /\ [][Next]_slot
=============================================================================
