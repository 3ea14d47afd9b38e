--------------------------- MODULE MCCallHandling ---------------------------
(* A contact of each kind of rule and callers the roster does not know; or  *)
(* the dialogues with callers that are answered, two of them; or what is    *)
(* remembered of two calls, in two archives.  Nothing connects the three as *)
(* yet: a behaviour is one of CallHandling, of Screening or of Memory, with *)
(* the others at rest.                                                      *)
EXTENDS CallerDialogues, CallMemory, TLC

CONSTANTS Vip, Friend, Pest
VARIABLES part

MCContacts == {Vip, Friend, Pest}
MCRule == (Vip :> "ring_with_announcement") @@ (Friend :> "ring_through")
            @@ (Pest :> "ignore")
MCPeople == {"ann"}

MCInit ==
    /\ Init /\ S!Init /\ M!Init
    /\ part \in {"handling", "dialogue", "memory"}
    /\ part # "handling" => dnd

MCNext ==
    \/ part = "handling" /\ Next /\ UNCHANGED <<part, dialogues, memory>>
    \/ part = "dialogue" /\ S!Next /\ UNCHANGED <<part, vars, memory>>
    \/ part = "memory" /\ M!Next /\ UNCHANGED <<part, vars, dialogues>>

MCSpec == MCInit /\ [][MCNext]_<<vars, dialogues, memory, part>>

Symmetry == Permutations(Calls) \cup Permutations(Threads)
=============================================================================
