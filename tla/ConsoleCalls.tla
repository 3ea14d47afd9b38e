----------------------------- MODULE ConsoleCalls -----------------------------
(***************************************************************************)
(* What the console does with phone calls: without a daemon it rides along *)
(* on them itself (module RideAlong), with one it shows the daemon's call  *)
(* cards (module Cards), and it shows the lists that a call leaves (module *)
(* Lists).  The three share the process, and no state.                     *)
(***************************************************************************)
EXTENDS RideAlong

CONSTANTS
    Facts, Items, MaxFinds, MaxFaults,                      \* of Cards
    Sessions, ItemTexts, Alike, Lookups, MaxLists, MaxItems     \* of Lists

ASSUME FindsAssumption == Facts \cap Items = {}
ASSUME FindBoundsAssumption == {MaxFinds, MaxFaults} \subseteq Nat
ASSUME ListBounds == {MaxLists, MaxItems} \subseteq Nat

VARIABLES
    calls, onLine, daemonUp, active, farOn, recorded, row, link, wire, queue, mode, riding,
    panelCall, disclosure, feed, disk, posted, waiting, faults, pressed, untold, agreed, shown,
    lists, items, results, skill, view, lookup, stuck

cardVars ==
    <<calls, onLine, daemonUp, active, farOn, recorded, row, link, wire, queue, mode, riding,
      panelCall, disclosure, feed, disk, posted, waiting, faults, pressed, untold, agreed, shown>>
listVars == <<lists, items, results, skill, view, lookup, stuck>>

P == INSTANCE Cards
L == INSTANCE Lists

\* The daemon records, and captures by, what the operator has answered in the card of that
\* very call (Cards!AnswersAreTheOperators).
AnswersAreTheOperators == P!AnswersAreTheOperators

\* An answer is heard by the daemon, or the console says that it was not
\* (Cards!AnswerIsHeard).
AnswerIsHeard == P!AnswerIsHeard

\* Nothing falls off the panel undecided, and what was agreed to is kept in the words agreed
\* to (Cards!FindsAreKept).
FindsAreKept == P!FindsAreKept

\* A call has one list, which tells the truth about its lookups (Lists!ListsAreTrue).
ListsAreTrue == L!ListsAreTrue
===============================================================================
