------------------------------ MODULE MCCards ------------------------------
(* What the console shows of calls: two calls, one fact and one action item, *)
(* one fault; or the lists of a call.  A behaviour is one of Cards or one of *)
(* Lists, with the other at rest, and the console rides along on no call.    *)
EXTENDS ConsoleCalls
CONSTANTS f1, i1
VARIABLES part

MCFacts == {f1}
MCItems == {i1}
MCSessions == {"call"}
MCItemTexts == {"milk"}
MCAlike == {}

MCInit == Init /\ P!Init /\ L!Init /\ part \in {"cards", "lists"}

MCNext ==
    \/ part = "cards" /\ P!Next /\ UNCHANGED <<part, vars, listVars>>
    \/ part = "lists" /\ L!Next /\ UNCHANGED <<part, vars, cardVars>>

MCSpec == MCInit /\ [][MCNext]_<<vars, cardVars, listVars, part>> /\ P!Fairness
============================================================================
