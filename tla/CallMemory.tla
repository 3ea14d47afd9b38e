------------------------------ MODULE CallMemory ------------------------------
(***************************************************************************)
(* What is remembered of calls (module Memory), under names that nothing   *)
(* beside it has: neither the engine nor the voice loop drives it as yet.  *)
(***************************************************************************)
EXTENDS Naturals

CONSTANTS People, Threads, MaxBegun, WindowMax, EvictBatch, MaxTurns, MaxNotes, MaxFails

\* A batch is not empty and fits into the window (_EVICT_BATCH, _WINDOW_MAX).
ASSUME MemoryBounds ==
    /\ {MaxBegun, WindowMax, EvictBatch, MaxTurns, MaxNotes, MaxFails} \subseteq Nat
    /\ 0 < EvictBatch /\ EvictBatch <= WindowMax

VARIABLES
    begun,         \* Memory's calls
    lastBegun,     \* Memory's active
    recent,        \* Memory's window
    summary,       \* Memory's gist
    archived,      \* Memory's session
    onCall, identity, said, bound, inbox, worker, notes, rows, archive, fails, overtaken,
    forgotten

memory == <<begun, onCall, identity, lastBegun, said, recent, bound, inbox, worker, summary,
            notes, archived, rows, archive, fails, overtaken, forgotten>>

M == INSTANCE Memory WITH Contacts <- People, MaxCalls <- MaxBegun, calls <- begun,
                          active <- lastBegun, window <- recent, gist <- summary,
                          session <- archived

\* What is archived of a call is its own, after every step (Memory!ArchiveIsOfItsCall), and
\* stays as it is (Memory!ArchivedOnce).
ArchiveIsOfItsCall == M!ArchivedOnce /\ [][(M!ArchiveIsOfItsCall)']_memory
===============================================================================
