------------------------------- MODULE Posture -------------------------------
(***************************************************************************)
(* The do-not-disturb posture: PostureManager's in-memory state, its       *)
(* singleton row in roster.db, the posture events sent to the consoles and *)
(* the PostureWatcher thread that ends a timed DND.                        *)
(*                                                                         *)
(* A change is three separate steps for every thread that makes one: the   *)
(* mutation under PostureManager._lock, the supersession check under the   *)
(* lock again, and persist and broadcast outside any lock; a console's     *)
(* handler thread writes its ack between the first two.  The daemon may    *)
(* be restarted between any two steps, and then starts from the row.       *)
(***************************************************************************)
EXTENDS Naturals

CONSTANTS
    Clients,        \* DaemonAPI handler threads that may send a dnd command
    Watcher,        \* the posture-watcher thread
    MaxChanges,     \* bound: dnd commands per behaviour
    MaxTime,        \* bound: the clock, in watcher polls
    MaxRestarts     \* bound: daemon restarts

ASSUME WatcherAssumption == Watcher \notin Clients
ASSUME BoundsAssumption ==
    MaxChanges \in Nat /\ MaxTime \in Nat /\ MaxRestarts \in Nat

Threads == Clients \cup {Watcher}
Indefinite == 0                       \* dnd_expires is None
Deadlines == 0 .. MaxTime

VARIABLES
    mem,        \* PostureManager._state: dnd, expires, seq
    row,        \* the posture table's only row: dnd, expires
    shown,      \* the dnd of the last posture event the consoles received
    thread,     \* where each thread stands in its change, and its snapshot (for
                \* the watcher before it clears: history, what it looked at)
    looked,     \* PostureWatcher._check_expiry's local "now"
    clock,      \* time.time()
    changes, restarts,
    failed,     \* history: the last _persist raised, and was only logged
    raced       \* history: two threads were past their check together

vars == <<mem, row, shown, thread, looked, clock, changes, restarts, failed, raced>>

States == [dnd : BOOLEAN, expires : Deadlines, seq : Nat]
Cleared(seq) == [dnd |-> FALSE, expires |-> Indefinite, seq |-> seq]
Stored(state) == [dnd |-> state.dnd, expires |-> state.expires]
Idle == [at |-> "idle", snap |-> Cleared(0)]
Past == {"persist", "broadcast"}      \* past the check of _finish_dnd_change

TypeOK ==
    /\ mem \in States
    /\ row \in [dnd : BOOLEAN, expires : Deadlines]
    /\ shown \in BOOLEAN
    /\ thread \in [Threads -> [at : {"idle", "looked", "clear", "check"} \cup Past,
                               snap : States]]
    /\ looked \in Deadlines
    /\ clock \in Deadlines
    /\ changes \in 0 .. MaxChanges
    /\ restarts \in 0 .. MaxRestarts
    /\ failed \in BOOLEAN
    /\ raced \in BOOLEAN

\* First start: _ensure_row inserts the row, _load_state reads it.
Init ==
    /\ mem = Cleared(0)
    /\ row = Stored(mem)
    /\ shown = FALSE
    /\ thread = [p \in Threads |-> Idle]
    /\ looked = 0
    /\ clock = 0
    /\ changes = 0
    /\ restarts = 0
    /\ failed = FALSE
    /\ raced = FALSE

----------------------------------------------------------------------------
(* A change of the posture.                                                *)

\* _set_dnd_state and _clear_dnd_state: replace the state, take a snapshot.
Mutate(p, dnd, expires) ==
    /\ mem' = [dnd |-> dnd, expires |-> expires, seq |-> mem.seq + 1]
    /\ thread' = [thread EXCEPT ![p] = [at |-> "check", snap |-> mem']]

\* mutant: the timestamp of "until" taken for a number of seconds from now
DndForSeconds(c) ==
    /\ thread[c].at = "idle"
    /\ changes < MaxChanges
    /\ changes' = changes + 1
    /\ \/ \E expires \in Deadlines : Mutate(c, TRUE, clock + expires)
       \/ Mutate(c, FALSE, Indefinite)
    /\ UNCHANGED <<row, shown, looked, clock, restarts, failed, raced>>

\* _handle_dnd: "on", "until" a timestamp, possibly past, and "off".
DndCommand(c) ==
    /\ thread[c].at = "idle"
    /\ changes < MaxChanges
    /\ changes' = changes + 1
    /\ \/ \E expires \in Deadlines : Mutate(c, TRUE, expires)
       \/ Mutate(c, FALSE, Indefinite)
    /\ UNCHANGED <<row, shown, looked, clock, restarts, failed, raced>>

\* mutant: the supersession check is dropped
NoCheck(p) ==
    /\ thread[p].at = "check"
    /\ thread' = [thread EXCEPT ![p].at = "persist"]
    /\ raced' = (raced \/ \E q \in Threads \ {p} : thread[q].at \in Past)
    /\ UNCHANGED <<mem, row, shown, looked, clock, changes, restarts, failed>>

\* _finish_dnd_change: under the lock, give up if a newer mutation exists.
CheckSuperseded(p) ==
    /\ thread[p].at = "check"
    /\ IF thread[p].snap.seq < mem.seq
         THEN /\ thread' = [thread EXCEPT ![p] = Idle]
              /\ UNCHANGED raced
         ELSE /\ thread' = [thread EXCEPT ![p].at = "persist"]
              /\ raced' = (raced \/ \E q \in Threads \ {p} : thread[q].at \in Past)
    /\ UNCHANGED <<mem, row, shown, looked, clock, changes, restarts, failed>>

\* _persist: best effort, an exception is logged and the state held in memory.
Persist(p) ==
    /\ thread[p].at = "persist"
    /\ \/ row' = Stored(thread[p].snap) /\ failed' = FALSE
       \/ failed' = TRUE /\ UNCHANGED row
    /\ thread' = [thread EXCEPT ![p].at = "broadcast"]
    /\ UNCHANGED <<mem, shown, looked, clock, changes, restarts, raced>>

Broadcast(p) ==
    /\ thread[p].at = "broadcast"
    /\ shown' = thread[p].snap.dnd
    /\ thread' = [thread EXCEPT ![p] = Idle]
    /\ UNCHANGED <<mem, row, looked, clock, changes, restarts, failed, raced>>

----------------------------------------------------------------------------
(* PostureWatcher._check_expiry: three reads and a write, none of them under *)
(* the lock of another.                                                      *)

\* time.time(), then effective(); without DND there is nothing to do.
WatcherLook ==
    /\ thread[Watcher].at = "idle"
    /\ mem.dnd
    /\ looked' = clock
    /\ thread' = [thread EXCEPT ![Watcher] = [at |-> "looked", snap |-> mem]]
    /\ UNCHANGED <<mem, row, shown, clock, changes, restarts, failed, raced>>

\* mutant: the comparison the wrong way round
DecideBackwards ==
    /\ thread[Watcher].at = "looked"
    /\ thread' = [thread EXCEPT ![Watcher].at =
                     IF mem.expires # Indefinite /\ looked < mem.expires
                       THEN "clear" ELSE "idle"]
    /\ UNCHANGED <<mem, row, shown, looked, clock, changes, restarts, failed, raced>>

\* mutant: an indefinite DND is taken for an expired one
DecideWithoutDeadline ==
    /\ thread[Watcher].at = "looked"
    /\ thread' = [thread EXCEPT ![Watcher].at =
                     IF looked > mem.expires THEN "clear" ELSE "idle"]
    /\ UNCHANGED <<mem, row, shown, looked, clock, changes, restarts, failed, raced>>

\* dnd_expires(), compared with the time read before.
WatcherDecide ==
    /\ thread[Watcher].at = "looked"
    /\ thread' = [thread EXCEPT ![Watcher].at =
                     IF mem.expires # Indefinite /\ looked > mem.expires
                       THEN "clear" ELSE "idle"]
    /\ UNCHANGED <<mem, row, shown, looked, clock, changes, restarts, failed, raced>>

\* clear_dnd(), whatever the posture has become by now.
WatcherClear ==
    /\ thread[Watcher].at = "clear"
    /\ Mutate(Watcher, FALSE, Indefinite)
    /\ UNCHANGED <<row, shown, looked, clock, changes, restarts, failed, raced>>

----------------------------------------------------------------------------
\* mutant: _load_state forgets the deadline
LoadWithoutDeadline == [dnd |-> row.dnd, expires |-> Indefinite, seq |-> 0]

\* _load_state: a fresh _State, numbered from 0 again.
LoadState == [dnd |-> row.dnd, expires |-> row.expires, seq |-> 0]

\* The daemon stops at any point and is started again; consoles that reconnect
\* read the posture with a status command.
Restart ==
    /\ restarts < MaxRestarts
    /\ restarts' = restarts + 1
    /\ mem' = LoadState
    /\ shown' = row.dnd
    /\ thread' = [p \in Threads |-> Idle]
    /\ looked' = 0
    /\ failed' = FALSE
    /\ raced' = FALSE
    /\ UNCHANGED <<row, clock, changes>>

Tick ==
    /\ clock < MaxTime
    /\ clock' = clock + 1
    /\ UNCHANGED <<mem, row, shown, thread, looked, changes, restarts, failed, raced>>

ThreadStep(p) == CheckSuperseded(p) \/ Persist(p) \/ Broadcast(p)

WatcherStep == WatcherLook \/ WatcherDecide \/ WatcherClear \/ ThreadStep(Watcher)

Next ==
    \/ \E c \in Clients : DndCommand(c) \/ ThreadStep(c)
    \/ WatcherStep
    \/ Restart
    \/ Tick

\* The watcher polls for ever and every handler finishes what it began; nothing
\* makes a console send a command, and time need not pass.
Fairness == WF_vars(WatcherStep) /\ \A c \in Clients : WF_vars(ThreadStep(c))

Spec == Init /\ [][Next]_vars /\ Fairness

----------------------------------------------------------------------------
(* Properties.                                                             *)

Quiet == \A p \in Threads : thread[p].at \in {"idle", "looked", "clear"}
Settled == row = Stored(mem) /\ shown = mem.dnd

Overdue == mem.dnd /\ mem.expires # Indefinite /\ clock > mem.expires

\* When every change has been finished, the database and the consoles agree with
\* memory, unless a write failed or two threads were past their supersession
\* check at the same time (_finish_dnd_change releases the lock in between).
SettledUnlessRaced == (Quiet /\ ~failed /\ ~raced) => Settled

\* The watcher ends no DND early: what it clears is overdue, unless a command
\* replaced the posture after the watcher began to look (effective(),
\* dnd_expires() and clear_dnd() take the lock separately).
WatcherEndsNoneEarly ==
    [][ WatcherClear => Overdue \/ mem.seq # thread[Watcher].snap.seq ]_vars

\* A restart between two changes loses nothing: DND and its deadline come back.
RestartKeepsPosture ==
    [][ (restarts' # restarts /\ Quiet /\ ~failed /\ ~raced)
          => Stored(mem') = Stored(mem) ]_vars

\* A timed DND ends (PostureWatcher: "auto-clears DND when the expiry time
\* passes"), also one that was restored after a restart.
TimedDndEnds == Overdue ~> ~Overdue

\* DND is neither ended before its time nor lost: not by the watcher, whose look at
\* posture and clock is in several steps, and not by a restart.
DndIsNotLost == WatcherEndsNoneEarly /\ RestartKeepsPosture
=============================================================================
