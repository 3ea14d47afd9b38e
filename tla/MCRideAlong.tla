---------------------------- MODULE MCRideAlong ----------------------------
(* Two calls and two keys of the operator.  The first call may ring or be   *)
(* dialled, the second one is dialled; the player fails in the first call   *)
(* only; a console that is started in the middle of the first call is       *)
(* started on its nodes.                                                    *)
EXTENDS RideAlong

MCInit == Init /\ (line.at = "over" \/ home.ear)
MCNext ==
    /\ Next
    /\ line'.at = "ringing" => line'.call = 1
    /\ misplayed' \subseteq {1}
MCSpec == MCInit /\ [][MCNext]_vars /\ Fairness
============================================================================
