------------------------------ MODULE VoiceLoop ------------------------------
(***************************************************************************)
(* The voice loop of the console, and the memory of a conversation (module *)
(* Context), which nothing in the program gives the loop as yet: the two   *)
(* share nothing.                                                          *)
(***************************************************************************)
EXTENDS Conductor

CONSTANTS Topics, Exact, WindowMaxlen, MaxAdded
VARIABLES window, about, gist, active, noticed, base, started, store, answer, failed, raced

contextVars == <<window, about, gist, active, noticed, base, started, store, answer, failed, raced>>

C == INSTANCE Context

\* What was said in the call is found or known to be lost (Context!SaidIsFound).
SaidIsFound == C!SaidIsFound
=============================================================================
