----------------------------- MODULE CaptureGate -----------------------------
(***************************************************************************)
(* What the Call Card promises of far-side capture, whoever carries it     *)
(* out: one call is live at a time, the far side is heard only in calls    *)
(* whose disclosure was acknowledged, and a call that is over is not heard *)
(* for good, provided that its capture was not begun twice.  A console may *)
(* acknowledge, and the far side may be heard or let go, before or after   *)
(* the call is over: between the acknowledgement and the hearing there is  *)
(* time for the call to end.                                               *)
(***************************************************************************)
CONSTANTS
    Sessions,   \* calls
    NoSession   \* no call is live

VARIABLES
    begun,      \* calls that have begun
    live,       \* the live call
    agreed,     \* calls whose disclosure was acknowledged
    hearing,    \* calls whose far side is being captured
    doubled     \* calls whose capture was begun more than once

vars == <<begun, live, agreed, hearing, doubled>>

Init ==
    /\ begun = {} /\ live = NoSession
    /\ agreed = {} /\ hearing = {} /\ doubled = {}

\* Call numbers are fresh and calls do not overlap.
Begin(s) ==
    /\ live = NoSession /\ s \notin begun
    /\ begun' = begun \cup {s} /\ live' = s
    /\ UNCHANGED <<agreed, hearing, doubled>>

\* Consent is given once and for all of a call, and to no other call.
Agree(s) ==
    /\ s \in begun
    /\ agreed' = agreed \cup {s}
    /\ UNCHANGED <<begun, live, hearing, doubled>>

\* The gate.
Hear(s) ==
    /\ s \in agreed
    /\ hearing' = hearing \cup {s}
    /\ doubled' \in {doubled, doubled \cup {s}}
    /\ UNCHANGED <<begun, live, agreed>>

LetGo(s) ==
    /\ hearing' = hearing \ {s}
    /\ UNCHANGED <<begun, live, agreed, doubled>>

End ==
    /\ live' = NoSession
    /\ UNCHANGED <<begun, agreed, hearing, doubled>>

Next == End \/ \E s \in Sessions : Begin(s) \/ Agree(s) \/ Hear(s) \/ LetGo(s)

Safety == Init /\ [][Next]_vars

\* A call that is over is let go of.
Overheard(s) == s \in hearing \ doubled /\ live # s

Release == \A s \in Sessions : Overheard(s) ~> ~Overheard(s)

Spec == Safety /\ Release
==============================================================================
