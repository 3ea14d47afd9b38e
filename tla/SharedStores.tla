----------------------------- MODULE SharedStores -----------------------------
(***************************************************************************)
(* The two databases that daemon and console both write: the roster, and   *)
(* the queue of proactive notifications (module Proactive).  They are two  *)
(* files, opened by different code, and share no state.                    *)
(***************************************************************************)
EXTENDS Roster

CONSTANTS Meetings, Classes, MinPriority, MaxItems, MaxFaults     \* of Proactive

ASSUME ClassesAssumption == Classes \subseteq {"ancs", "calendar_nudge"}
ASSUME MeetingsAssumption == {0, "idle"} \cap Meetings = {}
ASSUME BoundsAssumption == {MinPriority, MaxItems, MaxFaults} \subseteq Nat

VARIABLES
    items, cooling, shownId, shownLong, fresh, badge, current, workers, meeting, cache,
    polling, faults, spoken, cycled

N == INSTANCE Proactive

\* Nothing is announced twice, be it an item or the meeting it is about
\* (Proactive!NothingIsToldTwice).
NothingIsToldTwice == N!NothingIsToldTwice

\* Cycling through the items visits them all and takes none of them away
\* (Proactive!CyclingLosesNothing).
CyclingLosesNothing == N!CyclingLosesNothing

\* A wanted item is noticed, told, dismissed or expires (Proactive!WantedIsNoticed).
WantedIsNoticed == N!WantedIsNoticed
===============================================================================
