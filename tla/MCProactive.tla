---------------------------- MODULE MCProactive ----------------------------
(* Two items in the queue, one meeting, one fault; the roster is an empty   *)
(* database that nobody opens.                                              *)
EXTENDS SharedStores
CONSTANTS m1
MCMeetings == {m1}
MCClasses == {"ancs", "calendar_nudge"}

MCInit == Init /\ version = 1 /\ N!Init

MCNext == N!Next /\ UNCHANGED vars

MCSpec == MCInit /\ [][MCNext]_<<vars, N!vars>> /\ N!Fairness
============================================================================
