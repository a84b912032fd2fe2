------------------------------- MODULE MCLobby -------------------------------
(***************************************************************************)
(* Instances of Lobby for TLC: one to three connections, one or two        *)
(* Callers.  Users and Callers are interchangeable, which the run without  *)
(* a liveness property uses.  The run with three users has one instead     *)
(* (TLC's symmetry is not sound for liveness), and lets them connect in    *)
(* the order of their names: every other behaviour is one of these with    *)
(* the users renamed.                                                      *)
(***************************************************************************)
EXTENDS Lobby, TLC

CONSTANTS u1, u2, u3, c1, c2

MCUsers1 == {u1}
MCUsers2 == {u1, u2}
MCUsers3 == {u1, u2, u3}
MCCallers == {c1, c2}
MCSymmetry == Permutations(MCUsers2) \cup Permutations(MCCallers)

\* Two flags of a new user have no initial value.  In the run for the registry his ping
\* flag is TRUE, which gives him one more pass, and isAuthenticated is FALSE, which is
\* read by RemoveUser only, and TRUE makes no difference there as long as no permanent
\* id is his: nothing is found under the temporary one.
StartsAs == \A u \in User : socket[u] = "none" /\ socket'[u] # "none" =>
              waitingOnAlivePing'[u] /\ ~isAuthenticated'[u]

MCSpec == Init /\ [][Next /\ StartsAs]_vars

InOrder == \A pair \in {<<u1, u2>>, <<u2, u3>>} :
             socket[pair[2]] # "none" => socket[pair[1]] # "none"

MCFairSpec == Init /\ [][Next /\ InOrder']_vars /\ Fairness
=============================================================================
