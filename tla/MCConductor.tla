---------------------------- MODULE MCConductor ----------------------------
(* Three workers: two race and a third comes while both are in flight.  Or  *)
(* the memory of a call: two topics, a window of two turns, five turns, so  *)
(* that three gist threads can overlap.  A behaviour is one of Conductor or *)
(* one of Context, with the other at rest.                                  *)
EXTENDS VoiceLoop, TLC
VARIABLES part

MCTopics == {"price", "greeting"}
MCExact == {"price"}

Symmetry == Permutations(Workers)

MCInit ==
    /\ Init /\ C!Init /\ part \in {"conductor", "context"}
    /\ part = "conductor" => store = FALSE

MCNext ==
    \/ part = "conductor" /\ Next /\ UNCHANGED <<part, contextVars>>
    \/ part = "context" /\ C!Next /\ UNCHANGED <<part, vars>>

MCSpec == MCInit /\ [][MCNext]_<<vars, contextVars, part>>
============================================================================
