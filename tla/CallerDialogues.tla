---------------------------- MODULE CallerDialogues ----------------------------
(***************************************************************************)
(* What the engine does with calls (CallHandling), and the dialogues with  *)
(* the callers that it answers (module Screening).  The engine does not    *)
(* start the dialogues as yet, so the two share no state, and each has its *)
(* own view of the line.                                                   *)
(***************************************************************************)
EXTENDS CallHandling

CONSTANTS MaxCalls, MaxRaises       \* of Screening

ASSUME DialogueBounds == {MaxCalls, MaxRaises} \subseteq Nat

VARIABLES
    calls, flow, raises, queue, messages, recorded, spoken, emitted, through, raised, stranded,
    hungUp,
    onLine,        \* Screening's line
    disclosed      \* Screening's told

dialogues == <<calls, onLine, flow, raises, queue, messages, disclosed, recorded, spoken,
               emitted, through, raised, stranded, hungUp>>

S == INSTANCE Screening WITH line <- onLine, told <- disclosed

\* Callers who talk to Iris are told before they are recorded, what they say is kept, and
\* their call ends as was decided (module Screening).
CallersAreDealtWith == S!ToldBeforeRecorded /\ S!WordsAreKept /\ S!EndsAsDecided
================================================================================
