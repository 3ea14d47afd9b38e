---------------------------- MODULE Posture_proofs ----------------------------
(***************************************************************************)
(* Proofs about Posture, for any set of consoles and any bounds: a posture *)
(* whose changes are finished is settled, the watcher ends no DND early,   *)
(* and a restart brings the posture back.  And about DaemonProxy, for any  *)
(* number of sends: an ack reaches the send it answers, the event about a  *)
(* command comes after its ack, and who waits is woken at the end.         *)
(***************************************************************************)
EXTENDS DaemonSocket, SequenceTheorems, TLAPS

\* The threads that carry a snapshot of their own change.
Changing == {"check"} \cup Past

\* A change takes a number of its own, so the one that has memory's number is
\* what memory holds.
SnapshotsAreOfChanges ==
    \A p \in Threads : thread[p].at \in Changing =>
        /\ thread[p].snap.seq <= mem.seq
        /\ thread[p].snap.seq = mem.seq => thread[p].snap = mem

\* The supersession check lets one thread through at a time, or it is a race.
OnePastUnlessRaced ==
    ~raced => \A p, q \in Threads : thread[p].at \in Past /\ thread[q].at \in Past => p = q

\* The thread p is on its way with what memory holds, at the given place.
Newest(p, place) == thread[p].at = place /\ thread[p].snap.seq = mem.seq

RowIsMem == ~failed => row = Stored(mem)
NobodyPast == \A p \in Threads : thread[p].at \notin Past

\* Unless there was a race, some thread still has to write what memory holds, or
\* still has to tell it, or all is done and no older change can come after it.
NewestGetsThrough ==
    ~raced =>
        \/ \E p \in Threads : Newest(p, "check")
        \/ \E p \in Threads : Newest(p, "persist")
        \/ \E p \in Threads : Newest(p, "broadcast") /\ RowIsMem
        \/ RowIsMem /\ shown = mem.dnd /\ NobodyPast

\* What the watcher has seen is still so, or memory has another number by now.
WatcherHasSeen ==
    LET w == thread[Watcher] IN
    /\ looked <= clock
    /\ w.at \in {"looked", "clear"} =>
          /\ w.snap.seq <= mem.seq
          /\ w.snap.seq = mem.seq => mem.dnd
    /\ (w.at = "clear" /\ w.snap.seq = mem.seq) =>
          mem.expires # Indefinite /\ looked > mem.expires

\* The inductive invariant.
IInv ==
    /\ TypeOK
    /\ SnapshotsAreOfChanges
    /\ OnePastUnlessRaced
    /\ NewestGetsThrough
    /\ WatcherHasSeen

USE WatcherAssumption, BoundsAssumption

----------------------------------------------------------------------------
\* Initially nothing has been changed.
LEMMA InitIInv == Init => IInv
<1> SUFFICES ASSUME Init
             PROVE  IInv
  OBVIOUS
<1>1. Cleared(0) \in States /\ 0 \in Deadlines
  BY DEF Cleared, States, Deadlines, Indefinite
<1>2. \A p \in Threads : thread[p].at = "idle"
  BY DEF Init, Idle
<1>3. TypeOK
  <2>1. thread \in [Threads -> [at : {"idle", "looked", "clear", "check"} \cup Past,
                                snap : States]]
    BY <1>1 DEF Init, Idle
  <2>2. row \in [dnd : BOOLEAN, expires : Deadlines]
    BY <1>1 DEF Init, Stored, States
  <2>3. mem \in States /\ looked \in Deadlines /\ clock \in Deadlines
    BY <1>1 DEF Init
  <2>4. changes \in 0 .. MaxChanges /\ restarts \in 0 .. MaxRestarts
    BY DEF Init
  <2>5. QED
    BY <2>1, <2>2, <2>3, <2>4 DEF Init, TypeOK
<1>4. SnapshotsAreOfChanges /\ OnePastUnlessRaced
  BY <1>2 DEF SnapshotsAreOfChanges, OnePastUnlessRaced, Changing, Past
<1>5. NewestGetsThrough
  BY <1>2 DEF Init, NewestGetsThrough, RowIsMem, NobodyPast, Past, Cleared
<1>6. WatcherHasSeen
  BY <1>2 DEF Init, WatcherHasSeen, Threads
<1>7. QED
  BY <1>3, <1>4, <1>5, <1>6 DEF IInv

\* A change of the posture, by a thread that may make one: it takes the next number.
LEMMA MutateEffect ==
    ASSUME TypeOK, NEW p \in Threads, NEW dnd \in BOOLEAN, NEW expires \in Deadlines,
           Mutate(p, dnd, expires)
    PROVE  /\ mem' \in States
           /\ mem'.seq = mem.seq + 1
           /\ mem'.dnd = dnd
           /\ thread' \in [Threads -> [at : {"idle", "looked", "clear", "check"} \cup Past,
                                       snap : States]]
           /\ thread'[p] = [at |-> "check", snap |-> mem']
           /\ \A q \in Threads \ {p} : thread'[q] = thread[q]
BY DEF Mutate, TypeOK, States, Past

\* The indefinite deadline is one.
LEMMA IndefiniteIsDeadline == Indefinite \in Deadlines
BY DEF Indefinite, Deadlines

\* What a dnd command of a console does is a change by its thread.
LEMMA CommandEffect ==
    ASSUME TypeOK, NEW c \in Clients, DndCommand(c)
    PROVE  \E dnd \in BOOLEAN, expires \in Deadlines : Mutate(c, dnd, expires)
BY IndefiniteIsDeadline DEF DndCommand

\* A thread that moves on, or has finished, is a thread.
LEMMA MoveType ==
    ASSUME TypeOK, NEW p \in Threads
    PROVE  /\ \A place \in {"idle", "looked", "clear", "check"} \cup Past :
                 [thread EXCEPT ![p].at = place]
                    \in [Threads -> [at : {"idle", "looked", "clear", "check"} \cup Past,
                                     snap : States]]
           /\ [thread EXCEPT ![p] = Idle]
                 \in [Threads -> [at : {"idle", "looked", "clear", "check"} \cup Past,
                                  snap : States]]
           /\ Idle \in [at : {"idle", "looked", "clear", "check"} \cup Past, snap : States]
<1>1. Idle \in [at : {"idle", "looked", "clear", "check"} \cup Past, snap : States]
  BY IndefiniteIsDeadline DEF Idle, Cleared, States
<1>2. QED
  BY <1>1 DEF TypeOK

\* Every step keeps the types.
LEMMA TypeStep ==
    ASSUME TypeOK, [Next]_vars
    PROVE  TypeOK'
<1> USE DEF TypeOK
<1>1. ASSUME NEW c \in Clients, DndCommand(c)
      PROVE  TypeOK'
  <2>1. c \in Threads
    BY DEF Threads
  <2>2. PICK dnd \in BOOLEAN, expires \in Deadlines : Mutate(c, dnd, expires)
    BY <1>1, CommandEffect
  <2>3. mem' \in States
        /\ thread' \in [Threads -> [at : {"idle", "looked", "clear", "check"} \cup Past,
                                    snap : States]]
    BY <2>1, <2>2, MutateEffect
  <2>4. changes' \in 0 .. MaxChanges
    BY <1>1 DEF DndCommand
  <2>5. QED
    BY <1>1, <2>3, <2>4 DEF DndCommand
<1>2. ASSUME NEW p \in Threads, CheckSuperseded(p)
      PROVE  TypeOK'
  <2>1. thread' \in {[thread EXCEPT ![p] = Idle], [thread EXCEPT ![p].at = "persist"]}
    BY <1>2 DEF CheckSuperseded
  <2>2. raced' \in BOOLEAN
    BY <1>2 DEF CheckSuperseded
  <2>3. "persist" \in Past
    BY DEF Past
  <2>4. thread' \in [Threads -> [at : {"idle", "looked", "clear", "check"} \cup Past,
                                 snap : States]]
    BY <2>1, <2>3, MoveType
  <2>5. QED
    BY <1>2, <2>2, <2>4 DEF CheckSuperseded
<1>3. ASSUME NEW p \in Threads, Persist(p)
      PROVE  TypeOK'
  <2>1. row' \in [dnd : BOOLEAN, expires : Deadlines]
    BY <1>3 DEF Persist, Stored, States
  <2>2. QED
    BY <1>3, <2>1, MoveType DEF Persist, Past
<1>4. ASSUME NEW p \in Threads, Broadcast(p)
      PROVE  TypeOK'
  BY <1>4, MoveType DEF Broadcast, States
<1>5. CASE WatcherLook
  BY <1>5 DEF WatcherLook, Threads
<1>6. CASE WatcherDecide
  BY <1>6 DEF WatcherDecide, Threads
<1>7. CASE WatcherClear
  <2>1. Watcher \in Threads
    BY DEF Threads
  <2>2. QED
    BY <1>7, <2>1, MutateEffect, IndefiniteIsDeadline DEF WatcherClear
<1>8. CASE Restart
  <2>1. LoadState \in States /\ 0 \in Deadlines
    BY DEF LoadState, States, Deadlines
  <2>2. restarts' \in 0 .. MaxRestarts
    BY <1>8 DEF Restart
  <2>3. Watcher \in Threads
    BY DEF Threads
  <2>4. QED
    BY <1>8, <2>1, <2>2, <2>3, MoveType DEF Restart
<1>9. CASE Tick
  BY <1>9 DEF Tick, Deadlines
<1>10. CASE UNCHANGED vars
  BY <1>10 DEF vars
<1>11. QED
  BY <1>1, <1>2, <1>3, <1>4, <1>5, <1>6, <1>7, <1>8, <1>9, <1>10
     DEF Next, ThreadStep, WatcherStep, Threads

\* The numbers of memory and of a snapshot are natural numbers.
LEMMA Numbers ==
    ASSUME TypeOK
    PROVE  /\ mem.seq \in Nat
           /\ \A p \in Threads : thread[p].snap \in States /\ thread[p].snap.seq \in Nat
BY DEF TypeOK, States

\* Every step keeps the snapshots those of changes made.
LEMMA SnapshotsStep ==
    ASSUME TypeOK, SnapshotsAreOfChanges, [Next]_vars
    PROVE  SnapshotsAreOfChanges'
<1> USE DEF SnapshotsAreOfChanges, Changing, Past
<1>1. ASSUME NEW p \in Threads, NEW dnd \in BOOLEAN, NEW expires \in Deadlines,
             Mutate(p, dnd, expires)
      PROVE  SnapshotsAreOfChanges'
  <2>1. mem'.seq = mem.seq + 1 /\ thread'[p] = [at |-> "check", snap |-> mem']
        /\ \A q \in Threads \ {p} : thread'[q] = thread[q]
    BY <1>1, MutateEffect
  <2>2. mem'.seq \in Nat
    BY <2>1, Numbers
  <2>3. QED
    BY <2>1, <2>2, Numbers
<1>2. ASSUME NEW p \in Threads, CheckSuperseded(p) \/ Persist(p) \/ Broadcast(p)
      PROVE  SnapshotsAreOfChanges'
  BY <1>2 DEF CheckSuperseded, Persist, Broadcast, Idle, TypeOK
<1>3. CASE WatcherLook \/ WatcherDecide
  BY <1>3 DEF WatcherLook, WatcherDecide, TypeOK
<1>4. CASE Restart
  BY <1>4 DEF Restart, Idle
<1>5. CASE Tick \/ UNCHANGED vars
  BY <1>5 DEF Tick, vars
<1>6. QED
  BY <1>1, <1>2, <1>3, <1>4, <1>5, CommandEffect, IndefiniteIsDeadline
     DEF Next, ThreadStep, WatcherStep, WatcherClear, Threads

\* Every step keeps to one thread past its check, or notes the race.
LEMMA OnePastStep ==
    ASSUME TypeOK, OnePastUnlessRaced, [Next]_vars
    PROVE  OnePastUnlessRaced'
<1> USE DEF OnePastUnlessRaced
<1>1. ASSUME NEW p \in Threads, NEW dnd \in BOOLEAN, NEW expires \in Deadlines,
             Mutate(p, dnd, expires), UNCHANGED raced
      PROVE  OnePastUnlessRaced'
  BY <1>1, MutateEffect DEF Past
<1>2. ASSUME NEW p \in Threads, CheckSuperseded(p)
      PROVE  OnePastUnlessRaced'
  <2>1. CASE thread[p].snap.seq < mem.seq
    BY <1>2, <2>1 DEF CheckSuperseded, Idle, TypeOK, Past
  <2>2. CASE ~(thread[p].snap.seq < mem.seq)
    <3>1. /\ \A q \in Threads \ {p} : thread'[q] = thread[q]
          /\ raced' = (raced \/ \E q \in Threads \ {p} : thread[q].at \in Past)
      BY <1>2, <2>2 DEF CheckSuperseded, TypeOK
    <3>2. QED
      BY <3>1
  <2>3. QED
    BY <2>1, <2>2
<1>3. ASSUME NEW p \in Threads, Persist(p) \/ Broadcast(p)
      PROVE  OnePastUnlessRaced'
  BY <1>3 DEF Persist, Broadcast, Idle, TypeOK, Past
<1>4. CASE WatcherLook \/ WatcherDecide
  BY <1>4 DEF WatcherLook, WatcherDecide, TypeOK, Past
<1>5. CASE Restart
  BY <1>5 DEF Restart, Idle, Past
<1>6. CASE Tick \/ UNCHANGED vars
  BY <1>6 DEF Tick, vars
<1>7. QED
  BY <1>1, <1>2, <1>3, <1>4, <1>5, <1>6, CommandEffect, IndefiniteIsDeadline
     DEF Next, ThreadStep, WatcherStep, WatcherClear, DndCommand, Threads

\* Every step brings what memory holds on its way, or a race is noted.
LEMMA NewestStep ==
    ASSUME TypeOK, SnapshotsAreOfChanges, OnePastUnlessRaced, NewestGetsThrough,
           [Next]_vars
    PROVE  NewestGetsThrough'
<1> USE DEF NewestGetsThrough, Newest, RowIsMem, NobodyPast
<1>1. ASSUME NEW p \in Threads, NEW dnd \in BOOLEAN, NEW expires \in Deadlines,
             Mutate(p, dnd, expires)
      PROVE  NewestGetsThrough'
  <2>1. thread'[p] = [at |-> "check", snap |-> mem']
    BY <1>1, MutateEffect
  <2>2. QED
    BY <2>1
<1>2. ASSUME NEW p \in Threads, CheckSuperseded(p)
      PROVE  NewestGetsThrough'
  <2>1. UNCHANGED <<mem, row, shown, failed>> /\ \A q \in Threads \ {p} : thread'[q] = thread[q]
    BY <1>2 DEF CheckSuperseded, TypeOK
  <2>2. CASE thread[p].snap.seq < mem.seq
    <3>1. thread'[p] = Idle /\ raced' = raced
      BY <1>2, <2>2 DEF CheckSuperseded, TypeOK
    <3>2. thread[p].snap.seq # mem.seq
      BY <2>2, Numbers
    <3>3. thread'[p].at \notin Past
      BY <3>1 DEF Idle, Past
    <3>4. QED
      BY <2>1, <3>1, <3>2, <3>3
  <2>3. CASE ~(thread[p].snap.seq < mem.seq)
    <3>1. thread'[p].at = "persist" /\ thread'[p].snap = thread[p].snap
      BY <1>2, <2>3 DEF CheckSuperseded, TypeOK
    <3>2. thread[p].snap.seq = mem.seq
      BY <1>2, <2>3, Numbers DEF CheckSuperseded, SnapshotsAreOfChanges, Changing
    <3>3. QED
      BY <2>1, <3>1, <3>2
  <2>4. QED
    BY <2>2, <2>3
<1>3. ASSUME NEW p \in Threads, Persist(p)
      PROVE  NewestGetsThrough'
  <2> SUFFICES ASSUME ~raced
               PROVE  NewestGetsThrough'
    BY <1>3 DEF Persist
  <2>1. /\ UNCHANGED <<mem, shown, raced>> /\ thread[p].at = "persist"
        /\ thread'[p].at = "broadcast" /\ thread'[p].snap = thread[p].snap
        /\ \A q \in Threads \ {p} : thread'[q] = thread[q]
    BY <1>3 DEF Persist, TypeOK
  <2>2. CASE \E q \in Threads : Newest(q, "check")
    BY <2>1, <2>2
  <2>3. CASE ~ \E q \in Threads : Newest(q, "check")
    <3>1. \A q \in Threads : thread[q].at \in Past => q = p
      BY <2>1 DEF OnePastUnlessRaced, Past
    <3>2. thread[p].snap.seq = mem.seq
      BY <2>1, <2>3, <3>1 DEF Past
    <3>3. thread[p].snap = mem
      BY <2>1, <3>2 DEF SnapshotsAreOfChanges, Changing, Past
    <3>4. RowIsMem'
      BY <1>3, <2>1, <3>3 DEF Persist, Stored
    <3>5. QED
      BY <2>1, <3>2, <3>4
  <2>4. QED
    BY <2>2, <2>3
<1>4. ASSUME NEW p \in Threads, Broadcast(p)
      PROVE  NewestGetsThrough'
  <2> SUFFICES ASSUME ~raced
               PROVE  NewestGetsThrough'
    BY <1>4 DEF Broadcast
  <2>1. /\ UNCHANGED <<mem, row, failed, raced>> /\ thread[p].at = "broadcast"
        /\ thread'[p] = Idle /\ shown' = thread[p].snap.dnd
        /\ \A q \in Threads \ {p} : thread'[q] = thread[q]
    BY <1>4 DEF Broadcast, TypeOK
  <2>2. CASE \E q \in Threads : Newest(q, "check")
    BY <2>1, <2>2
  <2>3. CASE ~ \E q \in Threads : Newest(q, "check")
    <3>1. \A q \in Threads : thread[q].at \in Past => q = p
      BY <2>1 DEF OnePastUnlessRaced, Past
    <3>2. thread[p].snap.seq = mem.seq /\ RowIsMem
      BY <2>1, <2>3, <3>1 DEF Past
    <3>3. thread[p].snap = mem
      BY <2>1, <3>2 DEF SnapshotsAreOfChanges, Changing, Past
    <3>4. NobodyPast'
      BY <2>1, <3>1 DEF Idle, Past
    <3>5. QED
      BY <2>1, <3>2, <3>3, <3>4
  <2>4. QED
    BY <2>2, <2>3
<1>5. CASE WatcherLook \/ WatcherDecide
  <2>1. /\ UNCHANGED <<mem, row, shown, failed, raced>>
        /\ \A q \in Threads \ {Watcher} : thread'[q] = thread[q]
        /\ thread[Watcher].at \in {"idle", "looked"}
        /\ thread'[Watcher].at \in {"idle", "looked", "clear"}
    BY <1>5 DEF WatcherLook, WatcherDecide, TypeOK, Threads
  <2>2. QED
    BY <2>1 DEF Past
<1>6. CASE Restart
  BY <1>6 DEF Restart, LoadState, Stored, Idle, Past, TypeOK
<1>7. CASE Tick \/ UNCHANGED vars
  BY <1>7 DEF Tick, vars
<1>8. QED
  BY <1>1, <1>2, <1>3, <1>4, <1>5, <1>6, <1>7, CommandEffect, IndefiniteIsDeadline
     DEF Next, ThreadStep, WatcherStep, WatcherClear, Threads

\* What the watcher has seen stays so, or memory gets another number.
LEMMA SeenStep ==
    ASSUME TypeOK, WatcherHasSeen, [Next]_vars
    PROVE  WatcherHasSeen'
<1> USE DEF WatcherHasSeen
<1>1. Watcher \in Threads /\ mem.seq \in Nat /\ thread[Watcher].snap.seq \in Nat
      /\ looked \in Nat /\ clock \in Nat /\ mem.expires \in Nat
  BY Numbers DEF Threads, TypeOK, Deadlines, States
<1>2. ASSUME NEW p \in Threads, NEW dnd \in BOOLEAN, NEW expires \in Deadlines,
             Mutate(p, dnd, expires), UNCHANGED <<looked, clock>>
      PROVE  WatcherHasSeen'
  <2>1. mem'.seq = mem.seq + 1 /\ thread'[p] = [at |-> "check", snap |-> mem']
        /\ \A q \in Threads \ {p} : thread'[q] = thread[q]
    BY <1>2, MutateEffect
  <2>2. CASE p = Watcher
    BY <1>2, <2>1, <2>2
  <2>3. CASE p # Watcher
    BY <1>1, <1>2, <2>1, <2>3
  <2>4. QED
    BY <2>2, <2>3
<1>3. ASSUME NEW p \in Threads, CheckSuperseded(p) \/ Persist(p) \/ Broadcast(p)
      PROVE  WatcherHasSeen'
  <2>1. /\ UNCHANGED <<mem, looked, clock>>
        /\ thread'[p].at \in {"idle", "persist", "broadcast"}
        /\ \A q \in Threads \ {p} : thread'[q] = thread[q]
    BY <1>3 DEF CheckSuperseded, Persist, Broadcast, Idle, TypeOK
  <2>2. CASE p = Watcher
    BY <2>1, <2>2
  <2>3. CASE p # Watcher
    BY <1>1, <2>1, <2>3
  <2>4. QED
    BY <2>2, <2>3
<1>4. CASE WatcherLook
  <2>1. UNCHANGED <<mem, clock>> /\ mem.dnd /\ looked' = clock
        /\ thread'[Watcher] = [at |-> "looked", snap |-> mem]
    BY <1>1, <1>4 DEF WatcherLook, TypeOK
  <2>2. QED
    BY <1>1, <2>1
<1>5. CASE WatcherDecide
  <2>1. UNCHANGED <<mem, clock, looked>> /\ thread[Watcher].at = "looked"
        /\ thread'[Watcher].snap = thread[Watcher].snap
        /\ thread'[Watcher].at = IF mem.expires # Indefinite /\ looked > mem.expires
                                   THEN "clear" ELSE "idle"
    BY <1>1, <1>5 DEF WatcherDecide, TypeOK
  <2>2. QED
    BY <1>1, <2>1
<1>6. CASE Restart
  <2>1. thread'[Watcher].at = "idle" /\ looked' = 0 /\ clock' = clock
    BY <1>1, <1>6 DEF Restart, Idle
  <2>2. QED
    BY <1>1, <2>1
<1>7. CASE Tick
  BY <1>1, <1>7 DEF Tick
<1>8. CASE UNCHANGED vars
  BY <1>8 DEF vars
<1>9. QED
  BY <1>1, <1>2, <1>3, <1>4, <1>5, <1>6, <1>7, <1>8, CommandEffect, IndefiniteIsDeadline
     DEF Next, ThreadStep, WatcherStep, WatcherClear, DndCommand, Threads

\* The inductive invariant holds throughout.
THEOREM IInvSpec == Spec => []IInv
<1>1. IInv /\ [Next]_vars => IInv'
  BY TypeStep, SnapshotsStep, OnePastStep, NewestStep, SeenStep DEF IInv
<1>2. QED
  BY InitIInv, <1>1, PTL DEF Spec

\* Type correctness, for any consoles and bounds.
THEOREM TypeCorrect == Spec => []TypeOK
BY IInvSpec, PTL DEF IInv

\* When nobody is at work what memory holds has got through, or it failed or raced.
LEMMA QuietMeansSettled == IInv => SettledUnlessRaced
BY DEF IInv, SettledUnlessRaced, NewestGetsThrough, Newest, RowIsMem, Quiet, Settled

\* Row, consoles and memory agree when every change is finished: a thread that was
\* superseded never writes after the one that superseded it, unless two threads are
\* past their check together or the last write failed.
THEOREM Settles == Spec => []SettledUnlessRaced
BY IInvSpec, QuietMeansSettled, PTL

\* The watcher, which looks, compares and clears in steps of its own, ends only what
\* is overdue, or what a command has put in its place; and a restart brings DND and
\* its deadline back.
THEOREM DndIsKept == Spec => DndIsNotLost
<1>1. IInv /\ [Next]_vars =>
        [WatcherClear => Overdue \/ mem.seq # thread[Watcher].snap.seq]_vars
  <2> SUFFICES ASSUME IInv, WatcherClear, mem.seq = thread[Watcher].snap.seq
               PROVE  Overdue
    OBVIOUS
  <2>1. thread[Watcher].at = "clear"
    BY DEF WatcherClear
  <2>2. mem.dnd /\ mem.expires # Indefinite /\ looked > mem.expires /\ looked <= clock
    BY <2>1 DEF IInv, WatcherHasSeen
  <2>3. looked \in Nat /\ clock \in Nat /\ mem.expires \in Nat
    BY DEF IInv, TypeOK, States, Deadlines
  <2>4. QED
    BY <2>2, <2>3 DEF Overdue
<1>2. IInv /\ [Next]_vars =>
        [(restarts' # restarts /\ Quiet /\ ~failed /\ ~raced) => Stored(mem') = Stored(mem)]_vars
  <2> SUFFICES ASSUME IInv, [Next]_vars, restarts' # restarts, Quiet, ~failed, ~raced
               PROVE  Stored(mem') = Stored(mem)
    OBVIOUS
  <2>1. row = Stored(mem)
    BY QuietMeansSettled DEF SettledUnlessRaced, Settled
  <2>2. Restart
    BY DEF Next, ThreadStep, WatcherStep, WatcherLook, WatcherDecide, WatcherClear,
           CheckSuperseded, Persist, Broadcast, DndCommand, Tick, vars
  <2>3. QED
    BY <2>1, <2>2 DEF Restart, LoadState, Stored
<1>3. QED
  BY IInvSpec, <1>1, <1>2, PTL DEF Spec, DndIsNotLost, WatcherEndsNoneEarly, RestartKeepsPosture

----------------------------------------------------------------------------
(* DaemonProxy: a connection.                                               *)

In(s, e) == \E i \in 1 .. Len(s) : s[i] = e
Precedes(s, d, e) == \E i, j \in 1 .. Len(s) : i < j /\ s[i] = d /\ s[j] = e

\* The element e is somewhere in s with no d before it.
Early(s, d, e) == \E i \in 1 .. Len(s) : s[i] = e /\ \A j \in 1 .. Len(s) : j < i => s[j] # d

LEMMA AppendFacts ==
    ASSUME NEW S, NEW s \in Seq(S), NEW e \in S
    PROVE  /\ Append(s, e) \in Seq(S)
           /\ \A d : In(Append(s, e), d) <=> In(s, d) \/ d = e
           /\ \A c, d : Precedes(Append(s, e), c, d) <=> Precedes(s, c, d) \/ (In(s, c) /\ d = e)
           /\ \A c, d : Early(Append(s, e), c, d) <=> Early(s, c, d) \/ (d = e /\ ~ In(s, c))
<1> DEFINE t == Append(s, e)
<1>1. /\ t \in Seq(S) /\ Len(t) = Len(s) + 1 /\ Len(s) \in Nat
      /\ t[Len(s) + 1] = e
      /\ \A i \in 1 .. Len(s) : t[i] = s[i]
  OBVIOUS
<1> HIDE DEF t
<1>2. 1 .. Len(t) = (1 .. Len(s)) \cup {Len(s) + 1}
  BY <1>1
<1>3. \A d : In(t, d) <=> In(s, d) \/ d = e
  BY <1>1, <1>2 DEF In
<1>4. ASSUME NEW c, NEW d
      PROVE  Precedes(t, c, d) <=> Precedes(s, c, d) \/ (In(s, c) /\ d = e)
  <2>1. ASSUME Precedes(t, c, d)
        PROVE  Precedes(s, c, d) \/ (In(s, c) /\ d = e)
    <3>1. PICK i \in 1 .. Len(t), j \in 1 .. Len(t) : i < j /\ t[i] = c /\ t[j] = d
      BY <2>1 DEF Precedes
    <3>2. i \in 1 .. Len(s)
      BY <1>1, <1>2, <3>1
    <3>3. CASE j \in 1 .. Len(s)
      BY <1>1, <3>1, <3>2, <3>3 DEF Precedes
    <3>4. CASE j = Len(s) + 1
      BY <1>1, <3>1, <3>2, <3>4 DEF In
    <3>5. QED
      BY <1>2, <3>3, <3>4
  <2>2. ASSUME Precedes(s, c, d)
        PROVE  Precedes(t, c, d)
    <3>1. PICK i \in 1 .. Len(s), j \in 1 .. Len(s) : i < j /\ s[i] = c /\ s[j] = d
      BY <2>2 DEF Precedes
    <3>2. QED
      BY <1>1, <1>2, <3>1 DEF Precedes
  <2>3. ASSUME In(s, c), d = e
        PROVE  Precedes(t, c, d)
    <3>1. PICK i \in 1 .. Len(s) : s[i] = c
      BY <2>3 DEF In
    <3>2. i < Len(s) + 1 /\ t[i] = c /\ t[Len(s) + 1] = d
      BY <1>1, <2>3, <3>1
    <3>3. QED
      BY <1>2, <3>2 DEF Precedes
  <2>4. QED
    BY <2>1, <2>2, <2>3
<1>5. ASSUME NEW c, NEW d
      PROVE  Early(t, c, d) <=> Early(s, c, d) \/ (d = e /\ ~ In(s, c))
  <2>1. ASSUME Early(t, c, d)
        PROVE  Early(s, c, d) \/ (d = e /\ ~ In(s, c))
    <3>1. PICK i \in 1 .. Len(t) : t[i] = d /\ \A j \in 1 .. Len(t) : j < i => t[j] # c
      BY <2>1 DEF Early
    <3>2. CASE i \in 1 .. Len(s)
      BY <1>1, <1>2, <3>1, <3>2 DEF Early
    <3>3. CASE i = Len(s) + 1
      <4>1. \A j \in 1 .. Len(s) : j < i /\ s[j] # c
        BY <1>1, <1>2, <3>1, <3>3
      <4>2. QED
        BY <1>1, <3>1, <3>3, <4>1 DEF In
    <3>4. QED
      BY <1>2, <3>2, <3>3
  <2>2. ASSUME Early(s, c, d)
        PROVE  Early(t, c, d)
    <3>1. PICK i \in 1 .. Len(s) : s[i] = d /\ \A j \in 1 .. Len(s) : j < i => s[j] # c
      BY <2>2 DEF Early
    <3>2. \A j \in 1 .. Len(t) : j < i => j \in 1 .. Len(s)
      BY <1>1, <1>2
    <3>3. QED
      BY <1>1, <1>2, <3>1, <3>2 DEF Early
  <2>3. ASSUME d = e, ~ In(s, c)
        PROVE  Early(t, c, d)
    <3>1. \A j \in 1 .. Len(t) : j < Len(s) + 1 => j \in 1 .. Len(s) /\ t[j] # c
      BY <1>1, <1>2, <2>3 DEF In
    <3>2. QED
      BY <1>1, <1>2, <2>3, <3>1 DEF Early
  <2>4. QED
    BY <2>1, <2>2, <2>3
<1>6. QED
  BY <1>1, <1>3, <1>4, <1>5 DEF t

LEMMA TailFacts ==
    ASSUME NEW S, NEW s \in Seq(S), s # <<>>
    PROVE  /\ Head(s) \in S /\ Tail(s) \in Seq(S)
           /\ In(s, Head(s))
           /\ \A d : In(s, d) <=> d = Head(s) \/ In(Tail(s), d)
           /\ \A c, d : Precedes(s, c, d)
                          <=> Precedes(Tail(s), c, d) \/ (c = Head(s) /\ In(Tail(s), d))
           /\ \A c, d : Early(Tail(s), c, d) => Early(s, c, d) \/ c = Head(s)
           /\ \A c : Early(s, c, Head(s))
<1> DEFINE t == Tail(s)
           h == Head(s)
<1>1. /\ h \in S /\ t \in Seq(S) /\ Len(s) = Len(t) + 1 /\ Len(t) \in Nat
      /\ s[1] = h
      /\ \A i \in 1 .. Len(t) : t[i] = s[i + 1]
  OBVIOUS
<1> HIDE DEF t, h
<1>2. /\ \A i \in 1 .. Len(t) : i + 1 \in 1 .. Len(s) /\ i \in Nat
      /\ \A i \in 1 .. Len(s) : i = 1 \/ (i - 1 \in 1 .. Len(t) /\ (i - 1) + 1 = i)
      /\ 1 \in 1 .. Len(s)
  BY <1>1
<1>3. \A i \in 1 .. Len(s) : i = 1 \/ t[i - 1] = s[i]
  BY <1>1, <1>2
<1>4. \A d : In(s, d) <=> d = h \/ In(t, d)
  BY <1>1, <1>2, <1>3 DEF In
<1>5. ASSUME NEW c, NEW d
      PROVE  Precedes(s, c, d) <=> Precedes(t, c, d) \/ (c = h /\ In(t, d))
  <2>1. ASSUME Precedes(s, c, d)
        PROVE  Precedes(t, c, d) \/ (c = h /\ In(t, d))
    <3>1. PICK i \in 1 .. Len(s), j \in 1 .. Len(s) : i < j /\ s[i] = c /\ s[j] = d
      BY <2>1 DEF Precedes
    <3>2. j - 1 \in 1 .. Len(t) /\ t[j - 1] = d
      BY <1>2, <1>3, <3>1
    <3>3. CASE i = 1
      BY <1>1, <3>1, <3>2, <3>3 DEF In
    <3>4. CASE i # 1
      <4>1. i - 1 \in 1 .. Len(t) /\ t[i - 1] = c /\ i - 1 < j - 1
        BY <1>2, <1>3, <3>1, <3>4
      <4>2. QED
        BY <3>2, <4>1 DEF Precedes
    <3>5. QED
      BY <3>3, <3>4
  <2>2. ASSUME Precedes(t, c, d)
        PROVE  Precedes(s, c, d)
    <3>1. PICK i \in 1 .. Len(t), j \in 1 .. Len(t) : i < j /\ t[i] = c /\ t[j] = d
      BY <2>2 DEF Precedes
    <3>2. /\ i + 1 \in 1 .. Len(s) /\ j + 1 \in 1 .. Len(s) /\ i + 1 < j + 1
          /\ s[i + 1] = c /\ s[j + 1] = d
      BY <1>1, <1>2, <3>1
    <3>3. QED
      BY <3>2 DEF Precedes
  <2>3. ASSUME c = h, In(t, d)
        PROVE  Precedes(s, c, d)
    <3>1. PICK j \in 1 .. Len(t) : t[j] = d
      BY <2>3 DEF In
    <3>2. j + 1 \in 1 .. Len(s) /\ s[j + 1] = d /\ 1 < j + 1
      BY <1>1, <1>2, <3>1
    <3>3. QED
      BY <1>1, <1>2, <2>3, <3>2 DEF Precedes
  <2>4. QED
    BY <2>1, <2>2, <2>3
<1>6. ASSUME NEW c, NEW d, Early(t, c, d)
      PROVE  Early(s, c, d) \/ c = h
  <2>1. PICK i \in 1 .. Len(t) : t[i] = d /\ \A j \in 1 .. Len(t) : j < i => t[j] # c
    BY <1>6 DEF Early
  <2>2. i + 1 \in 1 .. Len(s) /\ s[i + 1] = d
    BY <1>1, <1>2, <2>1
  <2>3. ASSUME c # h, NEW j \in 1 .. Len(s), j < i + 1
        PROVE  s[j] # c
    <3>1. CASE j = 1
      BY <1>1, <2>3, <3>1
    <3>2. CASE j # 1
      <4>1. j - 1 \in 1 .. Len(t) /\ t[j - 1] = s[j] /\ j - 1 < i
        BY <1>2, <1>3, <2>3, <3>2
      <4>2. QED
        BY <2>1, <4>1
    <3>3. QED
      BY <3>1, <3>2
  <2>4. QED
    BY <2>2, <2>3 DEF Early
<1>7. \A c : Early(s, c, h)
  BY <1>1, <1>2 DEF Early
<1>8. QED
  BY <1>1, <1>2, <1>4, <1>5, <1>6, <1>7 DEF t, h, In

\* No element occurs twice.
Single(s) == \A d : ~ Precedes(s, d, d)

LEMMA RemoveFacts ==
    ASSUME NEW S, NEW s \in Seq(S), NEW e, Single(s)
    PROVE  /\ D!RemoveFirst(s, e) \in Seq(S)
           /\ \A d : In(D!RemoveFirst(s, e), d) <=> In(s, d) /\ d # e
           /\ \A c, d : Precedes(D!RemoveFirst(s, e), c, d) => Precedes(s, c, d)
<1>1. CASE ~ In(s, e)
  BY <1>1 DEF In, D!RemoveFirst
<1>2. CASE In(s, e)
  <2> DEFINE t == D!RemoveFirst(s, e)
  <2>1. PICK k \in 1 .. Len(s) : s[k] = e
    BY <1>2 DEF In
  <2>2. ASSUME NEW i \in 1 .. Len(s), s[i] = e
        PROVE  i = k
    <3>1. ~ i < k /\ ~ k < i
      BY <2>1, <2>2 DEF Single, Precedes
    <3>2. QED
      BY <3>1
  <2>3. {i \in 1 .. Len(s) : s[i] = e} = {k}
    BY <2>1, <2>2
  <2>4. D!Min({k}) = k
    BY DEF D!Min
  <2>5. D!SelectInSeq(s, LAMBDA v : v = e) = k
    BY <2>3, <2>4 DEF D!SelectInSeq
  <2>6. t = SubSeq(s, 1, k - 1) \o SubSeq(s, k + 1, Len(s))
    BY <2>1, <2>5 DEF D!RemoveFirst, D!RemoveAt
  <2> DEFINE u == SubSeq(s, 1, k - 1)
             v == SubSeq(s, k + 1, Len(s))
  <2>7. /\ u \in Seq(S) /\ Len(u) = k - 1 /\ Len(s) \in Nat /\ k \in Nat
        /\ \A i \in 1 .. k - 1 : u[i] = s[i]
    OBVIOUS
  <2>8. /\ v \in Seq(S) /\ Len(v) = Len(s) - k
        /\ \A i \in 1 .. Len(s) - k : v[i] = s[k + i]
    BY <2>7
  <2>9. t = u \o v
    BY <2>6
  <2> HIDE DEF t, u, v
  <2>10. /\ t \in Seq(S) /\ Len(t) = Len(s) - 1
         /\ \A i \in 1 .. Len(t) : t[i] = IF i < k THEN u[i] ELSE v[i - (k - 1)]
    <3>1. /\ t \in Seq(S) /\ Len(t) = Len(u) + Len(v)
          /\ \A i \in 1 .. Len(u) + Len(v) :
                t[i] = IF i <= Len(u) THEN u[i] ELSE v[i - Len(u)]
      BY <2>7, <2>8, <2>9, ConcatProperties
    <3>2. \A i \in 1 .. Len(t) : i <= Len(u) <=> i < k
      BY <2>7, <3>1
    <3>3. Len(u) + Len(v) = Len(s) - 1
      BY <2>7, <2>8
    <3>4. QED
      BY <2>7, <3>1, <3>2, <3>3
  <2>11. ASSUME NEW i \in 1 .. Len(t)
         PROVE  t[i] = IF i < k THEN s[i] ELSE s[i + 1]
    <3>1. CASE i < k
      BY <2>7, <2>10, <3>1
    <3>2. CASE ~ i < k
      <4>1. i - (k - 1) \in 1 .. Len(s) - k /\ k + (i - (k - 1)) = i + 1
        BY <2>7, <2>10, <3>2
      <4>2. QED
        BY <2>8, <2>10, <3>2, <4>1
    <3>3. QED
      BY <3>1, <3>2
  <2>12. ASSUME NEW d
         PROVE  In(t, d) <=> In(s, d) /\ d # e
    <3>1. ASSUME In(t, d)
          PROVE  In(s, d) /\ d # e
      <4>1. PICK i \in 1 .. Len(t) : t[i] = d
        BY <3>1 DEF In
      <4>2. CASE i < k
        <5>1. i \in 1 .. Len(s) /\ s[i] = d /\ i # k
          BY <2>7, <2>10, <2>11, <4>1, <4>2
        <5>2. QED
          BY <2>2, <5>1 DEF In
      <4>3. CASE ~ i < k
        <5>1. i + 1 \in 1 .. Len(s) /\ s[i + 1] = d /\ i + 1 # k
          BY <2>7, <2>10, <2>11, <4>1, <4>3
        <5>2. QED
          BY <2>2, <5>1 DEF In
      <4>4. QED
        BY <4>2, <4>3
    <3>2. ASSUME In(s, d), d # e
          PROVE  In(t, d)
      <4>1. PICK i \in 1 .. Len(s) : s[i] = d
        BY <3>2 DEF In
      <4>2. i # k
        BY <2>1, <3>2, <4>1
      <4>3. CASE i < k
        <5>1. i \in 1 .. Len(t) /\ t[i] = d
          BY <2>7, <2>10, <2>11, <4>1, <4>3
        <5>2. QED
          BY <5>1 DEF In
      <4>4. CASE i > k
        <5>1. i - 1 \in 1 .. Len(t) /\ ~ (i - 1 < k) /\ (i - 1) + 1 = i
          BY <2>7, <2>10, <4>1, <4>4
        <5>2. t[i - 1] = d
          BY <2>11, <4>1, <5>1
        <5>3. QED
          BY <5>1, <5>2 DEF In
      <4>5. QED
        BY <2>7, <4>2, <4>3, <4>4
    <3>3. QED
      BY <3>1, <3>2
  <2>13. ASSUME NEW c, NEW d, Precedes(t, c, d)
         PROVE  Precedes(s, c, d)
    <3>1. PICK i \in 1 .. Len(t), j \in 1 .. Len(t) : i < j /\ t[i] = c /\ t[j] = d
      BY <2>13 DEF Precedes
    <3>2. i \in 1 .. Len(s) /\ i + 1 \in 1 .. Len(s) /\ j \in 1 .. Len(s) /\ j + 1 \in 1 .. Len(s)
      BY <2>7, <2>10
    <3>3. \E m, n \in 1 .. Len(s) : m < n /\ s[m] = c /\ s[n] = d
      <4>1. CASE j < k
        <5>1. s[i] = c /\ s[j] = d
          BY <2>7, <2>11, <3>1, <4>1
        <5>2. QED
          BY <3>1, <3>2, <5>1
      <4>2. CASE ~ j < k /\ i < k
        <5>1. s[i] = c /\ s[j + 1] = d /\ i < j + 1
          BY <2>7, <2>11, <3>1, <4>2
        <5>2. QED
          BY <3>2, <5>1
      <4>3. CASE ~ j < k /\ ~ i < k
        <5>1. s[i + 1] = c /\ s[j + 1] = d /\ i + 1 < j + 1
          BY <2>7, <2>11, <3>1, <4>3
        <5>2. QED
          BY <3>2, <5>1
      <4>4. QED
        BY <4>1, <4>2, <4>3
    <3>4. QED
      BY <3>3 DEF Precedes
  <2>14. QED
    BY <2>10, <2>12, <2>13 DEF t
<1>3. QED
  BY <1>1, <1>2

----------------------------------------------------------------------------
(* The inductive invariant.                                                 *)

\* No send has given up, and close() was not called.
Calm == ~ late /\ client = "open"

Queued(x) == In(pending, x)
Acked(x) == In(toClient, D!Ack(x))
Handled(x) == handling.at = "ack" /\ handling.cmd = x
Sent(x) == In(toServer, x)

\* The reader has the ack for x in its hand, or x has been answered.
Answered(x) == slot[x] # D!Empty \/ (reader.at = "put" /\ reader.slot = x)

HandlerHasACommand ==
    /\ handling.at = "ack" => handling.cmd \in Sends
    /\ handling.at = "event" => handling.cmd \in Dnd

\* A slot that may still be filled is empty, and is in one place.
SlotsAreSingle ==
    /\ Single(pending)
    /\ \A x \in Sends :
          /\ Queued(x) => slot[x] = D!Empty /\ pc[x] # "idle"
          /\ pc[x] = "idle" => slot[x] = D!Empty
          /\ pc[x] = "write" => sendLock = x
    /\ reader.at = "put" => /\ slot[reader.slot] = D!Empty
                            /\ ~ Queued(reader.slot) /\ pc[reader.slot] # "idle"

\* What is not written yet is nowhere.
UnwrittenIsNowhere ==
    \A x \in Sends : pc[x] \in {"idle", "write"} =>
        ~ Acked(x) /\ ~ Sent(x) /\ handling.cmd # x /\ ~ In(toClient, D!Event(x))

\* The acks on their way are for slots that are queued, in the order of the queue.
AcksAreInOrder ==
    Calm =>
        /\ \A x \in Sends : Acked(x) => Queued(x)
        /\ \A x \in Sends : ~ Precedes(toClient, D!Ack(x), D!Ack(x))
        /\ \A x, y \in Sends : Precedes(pending, y, x) /\ Acked(x)
                                => Precedes(toClient, D!Ack(y), D!Ack(x))

\* As long as the daemon listens, what is queued is in one place between the two, the
\* older the further.
CommandsAreInOrder ==
    Calm /\ server = "up" =>
        /\ \A x \in Sends : Queued(x) => Acked(x) \/ Handled(x) \/ Sent(x) \/ pc[x] = "write"
        /\ \A x \in Sends : Handled(x) \/ Sent(x) => Queued(x) /\ ~ Acked(x)
        /\ \A x \in Sends : ~ (Handled(x) /\ Sent(x)) /\ ~ Precedes(toServer, x, x)
        /\ \A x \in Sends : pc[x] = "write" => Queued(x)
        /\ \A x, y \in Sends : Precedes(pending, y, x) =>
              /\ Handled(x) => Acked(y)
              /\ Sent(x) => Acked(y) \/ Handled(y) \/ Precedes(toServer, y, x)

SlotsAreOwn ==
    Calm => /\ \A x \in Sends : slot[x].is = "ack" => slot[x].of = x
            /\ reader.at = "put" => reader.ack = reader.slot

\* The event about a command comes after its ack.
EventsFollow ==
    Calm => /\ \A x \in Sends : Early(toClient, D!Ack(x), D!Event(x)) => Answered(x)
            /\ handling.at = "event" => Acked(handling.cmd) \/ Answered(handling.cmd)
            /\ \A x \in seen : slot[x] # D!Empty

\* Who waits has a slot in the queue, or has been answered.
NobodyIsForgotten ==
    \A x \in Sends : pc[x] \in {"write", "wait"} => Queued(x) \/ Answered(x)

SocketInv ==
    /\ D!TypeOK /\ HandlerHasACommand /\ SlotsAreSingle /\ UnwrittenIsNowhere
    /\ AcksAreInOrder /\ CommandsAreInOrder /\ SlotsAreOwn /\ EventsFollow
    /\ NobodyIsForgotten

USE SocketAssumption

----------------------------------------------------------------------------
(* Types.                                                                   *)

Stages == {"idle", "write", "wait", "forget", "acked", "closed", "timed out", "broken", "raised"}
Fillings == {D!Empty, D!None} \cup {D!Ack(x) : x \in Sends}
Hands == [at : {"put"}, slot : Sends, ack : Sends]
           \cup [at : {"reading", "ended"}, slot : {Nobody}, ack : {Nobody}]
Messages == {D!Ack(x) : x \in Sends} \cup {D!Event(x) : x \in Dnd}
Progress == [cmd : Sends \cup {Nobody}, at : {"free", "ack", "event"}]

\* The type invariant, with a name for each set of records.
Types ==
    /\ pc \in [Sends -> Stages] /\ sendLock \in Sends \cup {Nobody}
    /\ pending \in Seq(Sends) /\ slot \in [Sends -> Fillings] /\ reader \in Hands
    /\ client \in {"open", "closing", "shut", "closed"} /\ told \in BOOLEAN
    /\ toServer \in Seq(Sends) /\ toClient \in Seq(Messages)
    /\ handling \in Progress /\ server \in {"up", "half", "gone"}
    /\ late \in BOOLEAN /\ seen \subseteq Sends

LEMMA TypeOKIsTypes == D!TypeOK <=> Types
BY DEF D!TypeOK, Types, Stages, Fillings, Hands, Messages, Progress

\* The kinds of messages, of slots and of what is in a hand.
LEMMA Kinds ==
    /\ \A x \in Sends : D!Ack(x) \in Messages /\ D!Ack(x) \in Fillings
                        /\ D!Ack(x).is = "ack" /\ D!Ack(x).of = x
    /\ \A x \in Dnd : D!Event(x) \in Messages
    /\ \A x : D!Event(x).is = "event" /\ D!Event(x).of = x /\ D!Ack(x) # D!Empty /\ D!Ack(x) # D!None
    /\ \A m \in Messages : \/ m.is = "ack" /\ m.of \in Sends /\ m = D!Ack(m.of)
                           \/ m.is = "event" /\ m.of \in Dnd /\ m = D!Event(m.of)
    /\ \A x, y : D!Ack(x) # D!Event(y) /\ (D!Ack(x) = D!Ack(y) => x = y)
    /\ D!Empty \in Fillings /\ D!None \in Fillings /\ D!Empty # D!None
    /\ D!Empty.is # "ack" /\ D!None.is # "ack"
<1>1. \A x : /\ D!Ack(x).is = "ack" /\ D!Ack(x).of = x
             /\ D!Event(x).is = "event" /\ D!Event(x).of = x
  BY DEF D!Ack, D!Event
<1>2. D!Empty.is = "empty" /\ D!None.is = "None"
  BY DEF D!Empty, D!None
<1>3. ASSUME NEW m \in Messages
      PROVE  \/ m.is = "ack" /\ m.of \in Sends /\ m = D!Ack(m.of)
             \/ m.is = "event" /\ m.of \in Dnd /\ m = D!Event(m.of)
  BY <1>1 DEF Messages
<1>4. QED
  BY <1>1, <1>2, <1>3 DEF Messages, Fillings

LEMMA ReaderKinds ==
    ASSUME NEW r \in Hands
    PROVE  /\ r.at = "put" => r.slot \in Sends /\ r.ack \in Sends
           /\ r.at \in {"put", "reading", "ended"}
           /\ D!Reading \in Hands /\ [D!Reading EXCEPT !.at = "ended"] \in Hands
           /\ D!Reading.at = "reading" /\ [D!Reading EXCEPT !.at = "ended"].at = "ended"
           /\ \A x, y \in Sends : [at |-> "put", slot |-> x, ack |-> y] \in Hands
<1>1. r.at = "put" => r.slot \in Sends /\ r.ack \in Sends
  BY DEF Hands
<1>2. r.at \in {"put", "reading", "ended"}
  BY DEF Hands
<1>3. D!Reading \in Hands /\ [D!Reading EXCEPT !.at = "ended"] \in Hands
  BY DEF Hands, D!Reading
<1>4. \A x, y \in Sends : [at |-> "put", slot |-> x, ack |-> y] \in Hands
  BY DEF Hands
<1>5. QED
  BY <1>1, <1>2, <1>3, <1>4 DEF D!Reading

LEMMA HandlingKinds ==
    ASSUME NEW h \in Progress
    PROVE  /\ h.cmd \in Sends \cup {Nobody} /\ h.at \in {"free", "ack", "event"}
           /\ D!Free \in Progress /\ D!Free.cmd = Nobody /\ D!Free.at = "free"
           /\ [h EXCEPT !.at = "event"] \in Progress
           /\ [h EXCEPT !.at = "event"].cmd = h.cmd /\ [h EXCEPT !.at = "event"].at = "event"
           /\ \A x \in Sends : [cmd |-> x, at |-> "ack"] \in Progress
BY DEF Progress, D!Free

LEMMA InitSocketInv == D!Init => SocketInv
<1> SUFFICES ASSUME D!Init
             PROVE  SocketInv
  OBVIOUS
<1>1. /\ \A d : ~ In(pending, d) /\ ~ In(toClient, d) /\ ~ In(toServer, d)
      /\ \A c, d : ~ Precedes(pending, c, d) /\ ~ Precedes(toClient, c, d)
                  /\ ~ Precedes(toServer, c, d) /\ ~ Early(toClient, c, d)
  BY DEF D!Init, In, Precedes, Early
<1>2. D!TypeOK
  <2>1. D!Empty \in Fillings /\ D!Reading \in Hands /\ D!Free \in Progress
    BY DEF Fillings, Hands, Progress, D!Reading, D!Free
  <2>2. pc \in [Sends -> Stages] /\ slot \in [Sends -> Fillings]
    BY <2>1, Kinds DEF D!Init, Stages
  <2>3. pending \in Seq(Sends) /\ toServer \in Seq(Sends) /\ toClient \in Seq(Messages)
    BY DEF D!Init
  <2>5. told \in BOOLEAN /\ late \in BOOLEAN
    BY DEF D!Init
  <2>6. Types
    BY <2>1, <2>2, <2>3, <2>5 DEF D!Init, Types
  <2>7. QED
    BY <2>6, TypeOKIsTypes
<1>3. HandlerHasACommand
  BY DEF D!Init, HandlerHasACommand, D!Free
<1>4. SlotsAreSingle
  BY <1>1 DEF D!Init, SlotsAreSingle, Single, Queued, D!Reading
<1>5. UnwrittenIsNowhere
  BY <1>1 DEF D!Init, UnwrittenIsNowhere, Acked, Sent, D!Free
<1>6. AcksAreInOrder
  BY <1>1 DEF AcksAreInOrder, Acked
<1>7. CommandsAreInOrder
  BY <1>1 DEF D!Init, CommandsAreInOrder, Queued, Handled, Sent, D!Free
<1>8. SlotsAreOwn
  BY DEF D!Init, SlotsAreOwn, D!Empty, D!Reading
<1>9. EventsFollow
  BY <1>1 DEF D!Init, EventsFollow, D!Free
<1>10. NobodyIsForgotten
  BY DEF D!Init, NobodyIsForgotten
<1>11. QED
  BY <1>2, <1>3, <1>4, <1>5, <1>6, <1>7, <1>8, <1>9, <1>10 DEF SocketInv

\* What _fail_pending does.
LEMMA FailFacts ==
    ASSUME Types, D!FailPending
    PROVE  /\ pending' = <<>>
           /\ slot' \in [Sends -> Fillings]
           /\ \A x \in Sends : slot'[x] = IF Queued(x) /\ slot[x] = D!Empty THEN D!None ELSE slot[x]
           /\ \A d : ~ In(pending', d)
           /\ \A c, d : ~ Precedes(pending', c, d)
<1>1. \A x : x \in D!ToSet(pending) <=> Queued(x)
  <2>1. DOMAIN pending = 1 .. Len(pending)
    BY DEF Types
  <2>2. QED
    BY <2>1 DEF D!ToSet, Queued, In
<1>2. pending' = <<>> /\ \A d : ~ In(pending', d) /\ \A c : ~ Precedes(pending', c, d)
  BY DEF D!FailPending, In, Precedes
<1>3. slot' = [x \in Sends |-> IF x \in D!ToSet(pending) /\ slot[x] = D!Empty THEN D!None ELSE slot[x]]
  BY DEF D!FailPending
<1>4. \A x \in Sends : slot'[x] = IF Queued(x) /\ slot[x] = D!Empty THEN D!None ELSE slot[x]
  BY <1>1, <1>3
<1>5. \A x \in Sends : slot[x] \in Fillings
  BY DEF Types
<1>6. slot' \in [Sends -> Fillings]
  BY <1>3, <1>5, Kinds
<1>7. QED
  BY <1>2, <1>4, <1>6

LEMMA TypesStep ==
    ASSUME Types, HandlerHasACommand, SlotsAreSingle, [D!Next]_D!vars
    PROVE  Types'
<1>0. D!FailPending => pending' \in Seq(Sends) /\ slot' \in [Sends -> Fillings]
  <2>1. D!FailPending => pending' = <<>> /\ slot' \in [Sends -> Fillings]
    BY FailFacts
  <2>2. QED
    BY <2>1
<1> USE DEF Types
<1>1. ASSUME NEW x \in Sends, D!SendBegin(x)
      PROVE  Types'
  <2>1. pc' \in [Sends -> Stages]
    BY <1>1 DEF D!SendBegin, D!To, Stages
  <2>2. pending' \in Seq(Sends)
    BY <1>1 DEF D!SendBegin
  <2>3. QED
    BY <1>1, <2>1, <2>2 DEF D!SendBegin, D!serverVars, D!socket, D!history
<1>2. ASSUME NEW x \in Sends, D!SendWrite(x)
      PROVE  Types'
  <2>1. pc' \in [Sends -> Stages]
    BY <1>2 DEF D!SendWrite, D!To, Stages
  <2>2. toServer' \in Seq(Sends)
    BY <1>2 DEF D!SendWrite
  <2>3. QED
    BY <1>2, <2>1, <2>2 DEF D!SendWrite, D!serverVars, D!history
<1>3. ASSUME NEW x \in Sends, D!SendBroken(x)
      PROVE  Types'
  <2>1. pending' \in Seq(Sends)
    BY <1>3, RemoveFacts DEF D!SendBroken, SlotsAreSingle
  <2>2. QED
    BY <1>3, <2>1 DEF D!SendBroken, D!To, Stages, D!serverVars, D!socket, D!history
<1>4. ASSUME NEW x \in Sends, D!SendRaises(x) \/ D!SendReturns(x) \/ D!SendTimeout(x)
      PROVE  Types'
  BY <1>4 DEF D!SendRaises, D!SendReturns, D!SendTimeout, D!To, Stages, D!serverVars, D!socket, D!history
<1>5. ASSUME NEW x \in Sends, D!SendForget(x)
      PROVE  Types'
  <2>1. pending' \in Seq(Sends)
    BY <1>5, RemoveFacts DEF D!SendForget, SlotsAreSingle
  <2>2. QED
    BY <1>5, <2>1 DEF D!SendForget, D!To, Stages, D!serverVars, D!socket
<1>6. CASE D!ReadAck
  <2>1. Head(toClient) \in Messages /\ toClient' \in Seq(Messages)
    BY <1>6 DEF D!ReadAck
  <2>2. Head(toClient).of \in Sends
    BY <1>6, <2>1, Kinds DEF D!ReadAck
  <2>3. pending # <<>> => Head(pending) \in Sends /\ Tail(pending) \in Seq(Sends)
    OBVIOUS
  <2>4. reader' \in Hands /\ pending' \in Seq(Sends)
    <3>1. CASE pending = <<>>
      BY <1>6, <3>1 DEF D!ReadAck
    <3>2. CASE pending # <<>>
      <4>1. [at |-> "put", slot |-> Head(pending), ack |-> Head(toClient).of] \in Hands
        BY <2>2, <2>3, <3>2, ReaderKinds
      <4>2. QED
        BY <1>6, <2>3, <3>2, <4>1 DEF D!ReadAck
    <3>3. QED
      BY <3>1, <3>2
  <2>5. QED
    BY <1>6, <2>1, <2>4 DEF D!ReadAck, D!serverVars, D!history
<1>7. CASE D!ReadPut
  <2>1. D!Ack(reader.ack) \in Fillings /\ D!Reading \in Hands
    BY <1>7, Kinds, ReaderKinds DEF D!ReadPut
  <2>2. QED
    BY <1>7, <2>1 DEF D!ReadPut, D!serverVars, D!socket, D!history
<1>8. CASE D!ReadEvent
  <2>1. Head(toClient) \in Messages /\ toClient' \in Seq(Messages)
    BY <1>8 DEF D!ReadEvent
  <2>2. Head(toClient).of \in Sends
    BY <2>1, Kinds
  <2>3. QED
    BY <1>8, <2>1, <2>2 DEF D!ReadEvent, D!clientVars, D!serverVars
<1>9. CASE D!ReadEnd
  <2>1. reader' \in Hands
    BY <1>9, ReaderKinds DEF D!ReadEnd
  <2>2. pending' \in Seq(Sends) /\ slot' \in [Sends -> Fillings]
    BY <1>0, <1>9 DEF D!ReadEnd
  <2>3. told' \in BOOLEAN
    BY <1>9 DEF D!ReadEnd
  <2>4. QED
    BY <1>9, <2>1, <2>2, <2>3 DEF D!ReadEnd, D!serverVars, D!socket, D!history
<1>10. CASE D!CloseFlag
  <2>1. pending' \in Seq(Sends) /\ slot' \in [Sends -> Fillings]
    BY <1>0, <1>10 DEF D!CloseFlag
  <2>2. QED
    BY <1>10, <2>1 DEF D!CloseFlag, D!serverVars, D!socket, D!history
<1>11. CASE D!CloseSocket
  BY <1>11 DEF D!CloseSocket, D!serverVars, D!socket, D!history
<1>12. CASE D!Take
  <2>1. Head(toServer) \in Sends /\ Tail(toServer) \in Seq(Sends)
    BY <1>12 DEF D!Take
  <2>2. QED
    BY <1>12, <2>1, HandlingKinds DEF D!Take, D!clientVars, D!history
<1>13. CASE D!WriteAck
  <2>1. handling.cmd \in Sends
    BY <1>13 DEF D!WriteAck, HandlerHasACommand
  <2>2. handling' \in Progress
    BY <1>13, HandlingKinds DEF D!WriteAck
  <2>3. toClient' \in Seq(Messages)
    BY <1>13, <2>1, Kinds DEF D!WriteAck
  <2>4. QED
    BY <1>13, <2>2, <2>3 DEF D!WriteAck, D!clientVars, D!history
<1>14. CASE D!WriteEvent
  <2>1. handling.cmd \in Dnd
    BY <1>14 DEF D!WriteEvent, HandlerHasACommand
  <2>2. toClient' \in Seq(Messages)
    <3>1. D!Event(handling.cmd) \in Messages
      BY <2>1, Kinds
    <3>2. QED
      BY <1>14, <3>1 DEF D!WriteEvent
  <2>3. QED
    BY <1>14, <2>2, HandlingKinds DEF D!WriteEvent, D!clientVars, D!history
<1>15. CASE D!ServerEnds
  BY <1>15, HandlingKinds DEF D!ServerEnds, D!clientVars, D!socket, D!history
<1>16. CASE UNCHANGED D!vars
  BY <1>16 DEF D!vars, D!clientVars, D!serverVars, D!socket, D!history
<1>17. QED
  BY <1>1, <1>2, <1>3, <1>4, <1>5, <1>6, <1>7, <1>8, <1>9, <1>10, <1>11, <1>12, <1>13, <1>14,
     <1>15, <1>16
  DEF D!Next, D!SendStep, D!ReaderStep, D!ServerStep

LEMMA HandlerStep ==
    ASSUME Types, HandlerHasACommand, [D!Next]_D!vars
    PROVE  HandlerHasACommand'
<1>1. CASE UNCHANGED handling
  BY <1>1 DEF HandlerHasACommand
<1>2. CASE D!Take
  <2>1. Head(toServer) \in Sends
    BY <1>2 DEF D!Take, Types
  <2>2. handling'.at = "ack" /\ handling'.cmd = Head(toServer)
    BY <1>2 DEF D!Take
  <2>3. QED
    BY <2>1, <2>2 DEF HandlerHasACommand
<1>3. CASE D!WriteAck
  <2>1. CASE handling.cmd \in Dnd
    BY <1>3, <2>1, HandlingKinds DEF D!WriteAck, Types, HandlerHasACommand
  <2>2. CASE handling.cmd \notin Dnd
    BY <1>3, <2>2 DEF D!WriteAck, D!Free, HandlerHasACommand
  <2>3. QED
    BY <2>1, <2>2
<1>4. CASE D!WriteEvent \/ D!ServerEnds
  BY <1>4 DEF D!WriteEvent, D!ServerEnds, D!Free, HandlerHasACommand
<1>5. QED
  BY <1>1, <1>2, <1>3, <1>4 DEF D!Next, D!SendStep, D!ReaderStep, D!ServerStep, D!SendBegin, D!SendWrite,
     D!SendBroken, D!SendRaises, D!SendReturns, D!SendTimeout, D!SendForget, D!ReadAck, D!ReadPut, D!ReadEvent,
     D!ReadEnd, D!CloseFlag, D!CloseSocket, D!serverVars, D!vars

----------------------------------------------------------------------------
(* What the steps do to the three queues.                                   *)

LEMMA BeginFacts ==
    ASSUME Types, NEW x \in Sends, D!SendBegin(x)
    PROVE  /\ \A y : In(pending', y) <=> In(pending, y) \/ y = x
           /\ \A y, z : Precedes(pending', y, z)
                           <=> Precedes(pending, y, z) \/ (In(pending, y) /\ z = x)
<1>1. pending \in Seq(Sends) /\ pending' = Append(pending, x)
  BY DEF Types, D!SendBegin
<1>2. QED
  BY <1>1, AppendFacts

LEMMA WriteFacts ==
    ASSUME Types, NEW x \in Sends, D!SendWrite(x)
    PROVE  /\ \A y : In(toServer', y) <=> In(toServer, y) \/ y = x
           /\ \A y, z : Precedes(toServer', y, z)
                           <=> Precedes(toServer, y, z) \/ (In(toServer, y) /\ z = x)
<1>1. toServer \in Seq(Sends) /\ toServer' = Append(toServer, x)
  BY DEF Types, D!SendWrite
<1>2. QED
  BY <1>1, AppendFacts

LEMMA RemovedFacts ==
    ASSUME Types, SlotsAreSingle, NEW x \in Sends, D!SendBroken(x) \/ D!SendForget(x)
    PROVE  /\ \A y : In(pending', y) <=> In(pending, y) /\ y # x
           /\ \A y, z : Precedes(pending', y, z) => Precedes(pending, y, z)
<1>1. pending \in Seq(Sends) /\ Single(pending) /\ pending' = D!RemoveFirst(pending, x)
  BY DEF Types, SlotsAreSingle, D!SendBroken, D!SendForget
<1>2. QED
  BY <1>1, RemoveFacts

LEMMA ReadFacts ==
    ASSUME Types, D!ReadAck \/ D!ReadEvent
    PROVE  /\ Head(toClient) \in Messages
           /\ \A m : In(toClient, m) <=> m = Head(toClient) \/ In(toClient', m)
           /\ \A m, n : Precedes(toClient, m, n)
                           <=> Precedes(toClient', m, n) \/ (m = Head(toClient) /\ In(toClient', n))
           /\ \A m, n : Early(toClient', m, n) => Early(toClient, m, n) \/ m = Head(toClient)
           /\ \A m : Early(toClient, m, Head(toClient))
<1>1. toClient \in Seq(Messages) /\ toClient # <<>> /\ toClient' = Tail(toClient)
  BY DEF Types, D!ReadAck, D!ReadEvent
<1>2. QED
  BY <1>1, TailFacts

LEMMA PoppedFacts ==
    ASSUME Types, D!ReadAck, pending # <<>>
    PROVE  /\ Head(pending) \in Sends
           /\ In(pending, Head(pending))
           /\ \A y : In(pending, y) <=> y = Head(pending) \/ In(pending', y)
           /\ \A y, z : Precedes(pending, y, z)
                           <=> Precedes(pending', y, z) \/ (y = Head(pending) /\ In(pending', z))
<1>1. pending \in Seq(Sends) /\ pending' = Tail(pending)
  BY DEF Types, D!ReadAck
<1>2. QED
  BY <1>1, TailFacts

LEMMA TakeFacts ==
    ASSUME Types, D!Take
    PROVE  /\ Head(toServer) \in Sends
           /\ In(toServer, Head(toServer))
           /\ \A y : In(toServer, y) <=> y = Head(toServer) \/ In(toServer', y)
           /\ \A y, z : Precedes(toServer, y, z)
                           <=> Precedes(toServer', y, z) \/ (y = Head(toServer) /\ In(toServer', z))
<1>1. toServer \in Seq(Sends) /\ toServer # <<>> /\ toServer' = Tail(toServer)
  BY DEF Types, D!Take
<1>2. QED
  BY <1>1, TailFacts

LEMMA AckFacts ==
    ASSUME Types, HandlerHasACommand, D!WriteAck
    PROVE  LET a == D!Ack(handling.cmd) IN
           /\ \A m : In(toClient', m) <=> In(toClient, m) \/ m = a
           /\ \A m, n : Precedes(toClient', m, n)
                           <=> Precedes(toClient, m, n) \/ (In(toClient, m) /\ n = a)
           /\ \A m, n : Early(toClient', m, n)
                           <=> Early(toClient, m, n) \/ (n = a /\ ~ In(toClient, m))
<1>1. D!Ack(handling.cmd) \in Messages
  BY Kinds DEF D!WriteAck, HandlerHasACommand
<1>2. toClient \in Seq(Messages) /\ toClient' = Append(toClient, D!Ack(handling.cmd))
  BY DEF Types, D!WriteAck
<1>3. QED
  BY <1>1, <1>2, AppendFacts

LEMMA EventFacts ==
    ASSUME Types, HandlerHasACommand, D!WriteEvent, toClient' # toClient
    PROVE  LET e == D!Event(handling.cmd) IN
           /\ \A m : In(toClient', m) <=> In(toClient, m) \/ m = e
           /\ \A m, n : Precedes(toClient', m, n)
                           <=> Precedes(toClient, m, n) \/ (In(toClient, m) /\ n = e)
           /\ \A m, n : Early(toClient', m, n)
                           <=> Early(toClient, m, n) \/ (n = e /\ ~ In(toClient, m))
<1>1. D!Event(handling.cmd) \in Messages
  BY Kinds DEF D!WriteEvent, HandlerHasACommand
<1>2. toClient \in Seq(Messages) /\ toClient' = Append(toClient, D!Event(handling.cmd))
  BY DEF Types, D!WriteEvent
<1>3. QED
  BY <1>1, <1>2, AppendFacts

\* Nothing comes before what is at the head of a queue of single elements.
LEMMA NothingBeforeHead ==
    /\ Types /\ Single(pending) /\ pending # <<>> => \A y : ~ Precedes(pending, y, Head(pending))
    /\ Types /\ toServer # <<>> /\ ~ Precedes(toServer, Head(toServer), Head(toServer))
         => \A y : ~ Precedes(toServer, y, Head(toServer))
    /\ Types /\ toClient # <<>> /\ ~ Precedes(toClient, Head(toClient), Head(toClient))
         => \A y : ~ Precedes(toClient, y, Head(toClient))
<1>1. ASSUME NEW S, NEW s \in Seq(S), s # <<>>, ~ Precedes(s, Head(s), Head(s)), NEW y
      PROVE  ~ Precedes(s, y, Head(s))
  <2>1. ~ In(Tail(s), Head(s))
    BY <1>1, TailFacts
  <2>2. Precedes(Tail(s), y, Head(s)) => In(Tail(s), Head(s))
    BY DEF Precedes, In
  <2>3. QED
    BY <1>1, <2>1, <2>2, TailFacts
<1>2. QED
  BY <1>1 DEF Types, Single

----------------------------------------------------------------------------
(* The invariant is kept.                                                   *)

LEMMA SlotsStep ==
    ASSUME Types, SlotsAreSingle, [D!Next]_D!vars
    PROVE  SlotsAreSingle'
<1>1. ASSUME NEW x \in Sends, D!SendBegin(x)
      PROVE  SlotsAreSingle'
  <2>1. ~ In(pending, x) /\ pc'[x] = "write" /\ \A y \in Sends : y # x => pc'[y] = pc[y]
    BY <1>1 DEF D!SendBegin, SlotsAreSingle, Queued, Types, D!To
  <2>2. Single(pending')
    BY <1>1, <2>1, BeginFacts DEF Single, SlotsAreSingle
  <2>3. \A y \in Sends : pc[y] # "write"
    BY <1>1 DEF D!SendBegin, SlotsAreSingle
  <2>4. reader.at = "put" => reader.slot \in Sends /\ reader.slot # x
    BY <1>1, ReaderKinds DEF D!SendBegin, SlotsAreSingle, Types
  <2>5. QED
    BY <1>1, <2>1, <2>2, <2>3, <2>4, BeginFacts DEF D!SendBegin, SlotsAreSingle, Queued
<1>2. ASSUME NEW x \in Sends, NEW place, pc[x] # "idle", place \notin {"idle", "write"},
             pc' = [pc EXCEPT ![x] = place], UNCHANGED <<slot, reader>>,
             sendLock' = sendLock \/ pc[x] = "write",
             Single(pending'), \A y : In(pending', y) => In(pending, y)
      PROVE  SlotsAreSingle'
  <2>1. pc'[x] = place /\ \A y \in Sends : y # x => pc'[y] = pc[y]
    BY <1>2 DEF Types
  <2>2. \A y \in Sends : pc'[y] = "write" => sendLock'= y
    BY <1>2, <2>1 DEF SlotsAreSingle
  <2>3. QED
    BY <1>2, <2>1, <2>2, ReaderKinds DEF SlotsAreSingle, Queued, Types
<1>3. ASSUME NEW x \in Sends, D!SendWrite(x)
      PROVE  SlotsAreSingle'
  BY <1>2, <1>3 DEF D!SendWrite, D!To, SlotsAreSingle
<1>4. ASSUME NEW x \in Sends, D!SendBroken(x) \/ D!SendForget(x)
      PROVE  SlotsAreSingle'
  <2>1. Single(pending') /\ \A y : In(pending', y) => In(pending, y)
    BY <1>4, RemovedFacts DEF Single, SlotsAreSingle
  <2>2. QED
    BY <1>2, <1>4, <2>1 DEF D!SendBroken, D!SendForget, D!To
<1>5. ASSUME NEW x \in Sends, D!SendRaises(x) \/ D!SendReturns(x) \/ D!SendTimeout(x)
      PROVE  SlotsAreSingle'
  BY <1>2, <1>5 DEF D!SendRaises, D!SendReturns, D!SendTimeout, D!To, SlotsAreSingle
<1>6. CASE D!ReadAck
  <2>1. CASE pending = <<>>
    BY <1>6, <2>1 DEF D!ReadAck, SlotsAreSingle, Queued
  <2>2. CASE pending # <<>>
    <3>1. /\ reader'.at = "put" /\ reader'.slot = Head(pending)
          /\ UNCHANGED <<slot, pc, sendLock>>
      BY <1>6, <2>2 DEF D!ReadAck
    <3>2. Single(pending') /\ ~ In(pending', Head(pending))
      BY <1>6, <2>2, PoppedFacts DEF Single, SlotsAreSingle
    <3>3. QED
      BY <1>6, <2>2, <3>1, <3>2, PoppedFacts DEF SlotsAreSingle, Queued
  <2>3. QED
    BY <2>1, <2>2
<1>7. CASE D!ReadPut
  <2>1. reader.slot \in Sends /\ reader'.at = "reading"
    BY <1>7, ReaderKinds DEF D!ReadPut, Types
  <2>2. \A y \in Sends : y # reader.slot => slot'[y] = slot[y]
    BY <1>7, <2>1 DEF D!ReadPut, Types
  <2>3. QED
    BY <1>7, <2>1, <2>2 DEF D!ReadPut, SlotsAreSingle, Queued
<1>8. ASSUME D!FailPending, UNCHANGED <<pc, sendLock>>, reader' = reader \/ reader'.at = "ended"
      PROVE  SlotsAreSingle'
  <2>1. \A y \in Sends : slot'[y] = slot[y] \/ Queued(y)
    BY <1>8, FailFacts
  <2>2. Single(pending') /\ \A y : ~ In(pending', y)
    BY <1>8, FailFacts DEF Single
  <2>3. reader.at = "put" => reader.slot \in Sends
    BY ReaderKinds DEF Types
  <2>4. QED
    BY <1>8, <2>1, <2>2, <2>3 DEF SlotsAreSingle, Queued
<1>9. CASE D!ReadEnd \/ D!CloseFlag
  BY <1>8, <1>9 DEF D!ReadEnd, D!CloseFlag, D!Reading
<1>10. CASE UNCHANGED <<pending, slot, reader, pc, sendLock>>
  BY <1>10 DEF SlotsAreSingle, Queued
<1>11. CASE D!ReadEvent \/ D!CloseSocket \/ D!ServerStep \/ D!ServerEnds \/ UNCHANGED D!vars
  BY <1>10, <1>11 DEF D!ReadEvent, D!CloseSocket, D!ServerStep, D!Take, D!WriteAck, D!WriteEvent, D!ServerEnds,
                      D!clientVars, D!vars
<1>12. QED
  BY <1>1, <1>3, <1>4, <1>5, <1>6, <1>7, <1>9, <1>11 DEF D!Next, D!SendStep, D!ReaderStep

LEMMA PrecedesIsIn ==
    ASSUME NEW s, NEW c, NEW d, Precedes(s, c, d)
    PROVE  In(s, c) /\ In(s, d)
BY DEF Precedes, In

LEMMA UnwrittenStep ==
    ASSUME Types, HandlerHasACommand, UnwrittenIsNowhere, [D!Next]_D!vars
    PROVE  UnwrittenIsNowhere'
<1> USE DEF UnwrittenIsNowhere, Acked, Sent
<1>1. ASSUME NEW x \in Sends, D!SendBegin(x)
      PROVE  UnwrittenIsNowhere'
  <2>1. \A y \in Sends : y # x => pc'[y] = pc[y]
    BY <1>1 DEF D!SendBegin, D!To, Types
  <2>2. QED
    BY <1>1, <2>1 DEF D!SendBegin, D!serverVars, D!socket
<1>2. ASSUME NEW x \in Sends, D!SendWrite(x)
      PROVE  UnwrittenIsNowhere'
  <2>1. pc'[x] = "wait" /\ \A y \in Sends : y # x => pc'[y] = pc[y]
    BY <1>2 DEF D!SendWrite, D!To, Types
  <2>2. QED
    BY <1>2, <2>1, WriteFacts DEF D!SendWrite, D!serverVars
<1>3. ASSUME NEW x \in Sends,
             D!SendBroken(x) \/ D!SendRaises(x) \/ D!SendReturns(x) \/ D!SendTimeout(x) \/ D!SendForget(x)
      PROVE  UnwrittenIsNowhere'
  <2>1. \A y \in Sends : IF y = x THEN pc'[y] \notin {"idle", "write"} ELSE pc'[y] = pc[y]
    BY <1>3 DEF D!SendBroken, D!SendRaises, D!SendReturns, D!SendTimeout, D!SendForget, D!To, Types
  <2>2. UNCHANGED <<toClient, toServer, handling>>
    BY <1>3 DEF D!SendBroken, D!SendRaises, D!SendReturns, D!SendTimeout, D!SendForget, D!serverVars, D!socket
  <2>3. QED
    BY <2>1, <2>2
<1>4. CASE D!ReadAck \/ D!ReadEvent
  <2>1. UNCHANGED <<pc, toServer, handling>>
    BY <1>4 DEF D!ReadAck, D!ReadEvent, D!serverVars, D!clientVars
  <2>2. QED
    BY <1>4, <2>1, ReadFacts
<1>5. CASE D!Take
  <2>1. handling'.cmd = Head(toServer) /\ UNCHANGED <<pc, toClient>>
    BY <1>5 DEF D!Take, D!clientVars
  <2>2. QED
    BY <1>5, <2>1, TakeFacts
<1>6. CASE D!WriteAck
  <2>1. /\ \A y \in Sends : handling'.cmd = y => handling.cmd = y
        /\ UNCHANGED <<pc, toServer>> /\ handling.cmd \in Sends
    BY <1>6, HandlingKinds DEF D!WriteAck, D!clientVars, Types, HandlerHasACommand
  <2>2. \A x : /\ In(toClient', D!Ack(x)) => In(toClient, D!Ack(x)) \/ x = handling.cmd
               /\ In(toClient', D!Event(x)) => In(toClient, D!Event(x))
    BY <1>6, AckFacts, Kinds
  <2>3. QED
    BY <2>1, <2>2
<1>7. CASE D!WriteEvent
  <2>1. handling'.cmd = Nobody /\ UNCHANGED <<pc, toServer>>
    BY <1>7, HandlingKinds DEF D!WriteEvent, D!clientVars, Types
  <2>2. \A x : /\ In(toClient', D!Ack(x)) => In(toClient, D!Ack(x))
               /\ In(toClient', D!Event(x)) => In(toClient, D!Event(x)) \/ x = handling.cmd
    <3>1. CASE toClient' = toClient
      BY <3>1
    <3>2. CASE toClient' # toClient
      <4>1. \A x, y : D!Event(x) = D!Event(y) => x = y
        BY DEF D!Event
      <4>2. QED
        BY <1>7, <3>2, <4>1, EventFacts, Kinds
    <3>3. QED
      BY <3>1, <3>2
  <2>3. QED
    BY <2>1, <2>2
<1>8. CASE D!ServerEnds
  BY <1>8, HandlingKinds DEF D!ServerEnds, D!clientVars, D!socket, Types
<1>9. CASE UNCHANGED <<pc, toClient, toServer, handling>>
  BY <1>9
<1>10. CASE D!ReadPut \/ D!ReadEnd \/ D!CloseFlag \/ D!CloseSocket \/ UNCHANGED D!vars
  BY <1>9, <1>10 DEF D!ReadPut, D!ReadEnd, D!CloseFlag, D!CloseSocket, D!clientVars, D!serverVars, D!socket, D!vars
<1>11. QED
  BY <1>1, <1>2, <1>3, <1>4, <1>5, <1>6, <1>7, <1>8, <1>10
  DEF D!Next, D!SendStep, D!ReaderStep, D!ServerStep

\* The argument of the module's docstring: an ack that is read answers the oldest slot.
LEMMA HeadIsOwn ==
    ASSUME Types, SlotsAreSingle, AcksAreInOrder, Calm, D!ReadAck
    PROVE  /\ pending # <<>> /\ Head(toClient) = D!Ack(Head(pending))
           /\ \A x \in Sends : In(toClient', D!Ack(x)) <=> Acked(x) /\ x # Head(pending)
           /\ \A x : In(pending', x) <=> Queued(x) /\ x # Head(pending)
<1>1. toClient # <<>> /\ Head(toClient) \in Messages /\ In(toClient, Head(toClient))
  BY ReadFacts DEF D!ReadAck
<1>2. PICK z \in Sends : Head(toClient) = D!Ack(z)
  BY <1>1, Kinds DEF D!ReadAck
<1>3. Acked(z) /\ Queued(z) /\ ~ Precedes(toClient, D!Ack(z), D!Ack(z))
  BY <1>1, <1>2 DEF AcksAreInOrder, Acked
<1>4. pending # <<>>
  BY <1>3 DEF Queued, In
<1>5. z = Head(pending)
  <2>1. SUFFICES ASSUME z # Head(pending)
                 PROVE  FALSE
    OBVIOUS
  <2>2. Precedes(pending, Head(pending), z) /\ Head(pending) \in Sends
    BY <1>3, <1>4, <2>1, PoppedFacts DEF Queued
  <2>3. Precedes(toClient, D!Ack(Head(pending)), D!Ack(z))
    BY <1>3, <2>2 DEF AcksAreInOrder
  <2>4. QED
    BY <1>1, <1>2, <1>3, <2>3, NothingBeforeHead
<1>6. \A x \in Sends : In(toClient', D!Ack(x)) <=> Acked(x) /\ x # z
  BY <1>2, <1>3, ReadFacts, Kinds DEF Acked
<1>7. \A x : In(pending', x) <=> Queued(x) /\ x # z
  BY <1>4, <1>5, PoppedFacts DEF Queued, SlotsAreSingle, Single
<1>8. QED
  BY <1>2, <1>4, <1>5, <1>6, <1>7

LEMMA AcksStep ==
    ASSUME Types, HandlerHasACommand, SlotsAreSingle, UnwrittenIsNowhere, AcksAreInOrder,
           CommandsAreInOrder, [D!Next]_D!vars
    PROVE  AcksAreInOrder'
<1> SUFFICES ASSUME Calm'
             PROVE  AcksAreInOrder'
  BY DEF AcksAreInOrder
<1>0. CASE UNCHANGED <<late, client, pending, toClient>>
  BY <1>0 DEF AcksAreInOrder, Calm, Queued, Acked
<1>1. ASSUME NEW x \in Sends, D!SendBegin(x)
      PROVE  AcksAreInOrder'
  <2>1. Calm /\ ~ Acked(x) /\ UNCHANGED toClient
    BY <1>1 DEF D!SendBegin, D!socket, D!history, Calm, UnwrittenIsNowhere
  <2>2. QED
    BY <1>1, <2>1, BeginFacts DEF AcksAreInOrder, Queued, Acked
<1>2. ASSUME NEW x \in Sends, D!SendBroken(x)
      PROVE  AcksAreInOrder'
  <2>1. Calm /\ ~ Acked(x) /\ UNCHANGED toClient
    BY <1>2 DEF D!SendBroken, D!socket, D!history, Calm, UnwrittenIsNowhere
  <2>2. QED
    BY <1>2, <2>1, RemovedFacts DEF AcksAreInOrder, Queued, Acked
<1>3. ASSUME NEW x \in Sends, D!SendForget(x)
      PROVE  AcksAreInOrder'
  BY <1>3 DEF D!SendForget, Calm
<1>4. CASE D!ReadAck
  <2>1. Calm
    BY <1>4 DEF D!ReadAck, Calm, D!history
  <2>2. pending # <<>>
    BY <1>4, <2>1, HeadIsOwn
  <2>3. \A x \in Sends : Acked(x)' => Queued(x)'
    BY <1>4, <2>1, HeadIsOwn DEF AcksAreInOrder, Queued, Acked
  <2>4. \A x \in Sends : ~ Precedes(toClient', D!Ack(x), D!Ack(x))
    BY <1>4, <2>1, ReadFacts DEF AcksAreInOrder
  <2>5. ASSUME NEW x \in Sends, NEW y \in Sends, Precedes(pending', y, x), In(toClient', D!Ack(x))
        PROVE  Precedes(toClient', D!Ack(y), D!Ack(x))
    <3>1. Precedes(pending, y, x) /\ Acked(x)
      BY <1>4, <2>1, <2>2, <2>5, PoppedFacts, HeadIsOwn
    <3>2. Precedes(toClient, D!Ack(y), D!Ack(x))
      BY <2>1, <3>1 DEF AcksAreInOrder
    <3>3. In(pending', y)
      BY <2>5, PrecedesIsIn
    <3>4. D!Ack(y) # Head(toClient)
      BY <1>4, <2>1, <3>3, HeadIsOwn, Kinds
    <3>5. QED
      BY <1>4, <3>2, <3>4, ReadFacts
  <2>6. QED
    BY <2>3, <2>4, <2>5 DEF AcksAreInOrder, Acked
<1>5. CASE D!ReadEvent
  <2>1. Calm /\ UNCHANGED pending
    BY <1>5 DEF D!ReadEvent, Calm, D!clientVars
  <2>2. \A x : Head(toClient) # D!Ack(x)
    <3>1. Head(toClient).is = "event"
      BY <1>5 DEF D!ReadEvent
    <3>2. \A x : D!Ack(x).is = "ack"
      BY DEF D!Ack
    <3>3. QED
      BY <3>1, <3>2
  <2>3. QED
    BY <1>5, <2>1, <2>2, ReadFacts DEF AcksAreInOrder, Queued, Acked
<1>6. CASE D!ReadEnd
  <2>1. Calm /\ toClient = <<>> /\ UNCHANGED toClient
    BY <1>6 DEF D!ReadEnd, Calm, D!EndOfFile, D!socket, D!history
  <2>2. \A m, n : ~ In(toClient, m) /\ ~ Precedes(toClient, m, n)
    BY <2>1 DEF In, Precedes
  <2>3. QED
    BY <2>1, <2>2 DEF AcksAreInOrder, Acked
<1>7. CASE D!CloseFlag \/ D!CloseSocket
  BY <1>7 DEF D!CloseFlag, D!CloseSocket, Calm
<1>8. CASE D!WriteAck
  <2>1. Calm /\ server = "up" /\ UNCHANGED pending
    BY <1>8 DEF D!WriteAck, Calm, D!clientVars, D!history
  <2>2. handling.cmd \in Sends /\ Handled(handling.cmd)
    BY <1>8 DEF D!WriteAck, HandlerHasACommand, Handled
  <2>3. /\ Queued(handling.cmd) /\ ~ Acked(handling.cmd)
        /\ \A y \in Sends : Precedes(pending, y, handling.cmd) => Acked(y)
    BY <2>1, <2>2 DEF CommandsAreInOrder
  <2>4. \A x \in Sends : In(toClient', D!Ack(x)) <=> In(toClient, D!Ack(x)) \/ x = handling.cmd
    BY <1>8, <2>2, AckFacts, Kinds
  <2>5. \A x, y \in Sends : Precedes(toClient', D!Ack(y), D!Ack(x))
            <=> Precedes(toClient, D!Ack(y), D!Ack(x)) \/ (In(toClient, D!Ack(y)) /\ x = handling.cmd)
    BY <1>8, <2>2, AckFacts, Kinds
  <2>6. QED
    BY <2>1, <2>3, <2>4, <2>5 DEF AcksAreInOrder, Queued, Acked
<1>9. CASE D!WriteEvent
  <2>1. Calm /\ UNCHANGED pending
    BY <1>9 DEF D!WriteEvent, Calm, D!clientVars, D!history
  <2>2. CASE toClient' = toClient
    BY <2>1, <2>2 DEF AcksAreInOrder, Queued, Acked
  <2>3. CASE toClient' # toClient
    BY <1>9, <2>1, <2>3, EventFacts, Kinds DEF AcksAreInOrder, Queued, Acked
  <2>4. QED
    BY <2>2, <2>3
<1>10. ASSUME NEW x \in Sends, D!SendWrite(x) \/ D!SendRaises(x) \/ D!SendReturns(x) \/ D!SendTimeout(x)
       PROVE  AcksAreInOrder'
  BY <1>0, <1>10 DEF D!SendWrite, D!SendRaises, D!SendReturns, D!SendTimeout, D!socket, D!history
<1>11. CASE D!ReadPut \/ D!Take \/ D!ServerEnds \/ UNCHANGED D!vars
  BY <1>0, <1>11 DEF D!ReadPut, D!Take, D!ServerEnds, D!clientVars, D!socket, D!history, D!vars
<1>12. QED
  BY <1>1, <1>2, <1>3, <1>4, <1>5, <1>6, <1>7, <1>8, <1>9, <1>10, <1>11
  DEF D!Next, D!SendStep, D!ReaderStep, D!ServerStep

LEMMA CommandsStep ==
    ASSUME Types, HandlerHasACommand, SlotsAreSingle, UnwrittenIsNowhere, AcksAreInOrder,
           CommandsAreInOrder, [D!Next]_D!vars
    PROVE  CommandsAreInOrder'
<1> SUFFICES ASSUME Calm', server' = "up"
             PROVE  CommandsAreInOrder'
  BY DEF CommandsAreInOrder
<1> DEFINE Kept == UNCHANGED <<late, client, server>>
<1>0. CASE Kept /\ UNCHANGED <<pending, toClient, toServer, handling>>
            /\ \A y \in Sends : pc'[y] = "write" <=> pc[y] = "write"
  BY <1>0 DEF CommandsAreInOrder, Calm, Queued, Acked, Handled, Sent
<1>1. ASSUME NEW x \in Sends, D!SendBegin(x)
      PROVE  CommandsAreInOrder'
  <2>1. Calm /\ server = "up" /\ UNCHANGED <<toClient, toServer, handling>>
    BY <1>1 DEF D!SendBegin, D!serverVars, D!socket, D!history, Calm
  <2>2. ~ Acked(x) /\ ~ Sent(x) /\ ~ Handled(x) /\ pc'[x] = "write"
        /\ \A y \in Sends : y # x => pc'[y] = pc[y]
    BY <1>1 DEF D!SendBegin, UnwrittenIsNowhere, Handled, D!To, Types
  <2>3. QED
    BY <1>1, <2>1, <2>2, BeginFacts DEF CommandsAreInOrder, Queued, Acked, Handled, Sent
<1>2. ASSUME NEW x \in Sends, D!SendWrite(x)
      PROVE  CommandsAreInOrder'
  <2>1. Calm /\ server = "up" /\ UNCHANGED <<pending, toClient, handling>>
    BY <1>2 DEF D!SendWrite, D!serverVars, D!history, Calm
  <2>2. /\ Queued(x) /\ ~ Acked(x) /\ ~ Sent(x) /\ ~ Handled(x) /\ pc'[x] = "wait"
        /\ \A y \in Sends : y # x => pc'[y] = pc[y] /\ pc[y] # "write"
    BY <1>2, <2>1 DEF D!SendWrite, UnwrittenIsNowhere, CommandsAreInOrder, SlotsAreSingle, Handled,
                      D!To, Types
  <2>3. ASSUME NEW y \in Sends, Precedes(pending, y, x)
        PROVE  Acked(y) \/ Handled(y) \/ Precedes(toServer', y, x)
    <3>1. Queued(y) /\ y # x
      BY <2>3, PrecedesIsIn DEF Queued, SlotsAreSingle, Single
    <3>2. Acked(y) \/ Handled(y) \/ Sent(y)
      BY <2>1, <2>2, <3>1 DEF CommandsAreInOrder
    <3>3. QED
      BY <1>2, <3>2, WriteFacts DEF Sent
  <2>4. QED
    BY <1>2, <2>1, <2>2, <2>3, WriteFacts DEF CommandsAreInOrder, Queued, Acked, Handled, Sent
<1>3. ASSUME NEW x \in Sends, D!SendBroken(x) \/ D!SendRaises(x) \/ D!SendForget(x)
      PROVE  CommandsAreInOrder'
  BY <1>3 DEF D!SendBroken, D!SendRaises, D!SendForget, D!serverVars, D!history, Calm
<1>4. ASSUME NEW x \in Sends, D!SendReturns(x) \/ D!SendTimeout(x)
      PROVE  CommandsAreInOrder'
  <2>1. \A y \in Sends : pc'[y] = "write" <=> pc[y] = "write"
    BY <1>4 DEF D!SendReturns, D!SendTimeout, D!To, Types
  <2>2. QED
    BY <1>0, <1>4, <2>1 DEF D!SendReturns, D!SendTimeout, D!serverVars, D!socket, D!history
<1>5. CASE D!ReadAck
  <2>1. Calm /\ server = "up" /\ UNCHANGED <<toServer, handling, pc>>
    BY <1>5 DEF D!ReadAck, D!serverVars, D!history, Calm
  <2> DEFINE h == Head(pending)
  <2>2. /\ h \in Sends /\ Acked(h)
        /\ \A x \in Sends : Acked(x)' <=> Acked(x) /\ x # h
        /\ \A x : Queued(x)' <=> Queued(x) /\ x # h
        /\ \A x, y : Precedes(pending', y, x) => Precedes(pending, y, x) /\ y # h
    <3>1. /\ pending # <<>> /\ Head(toClient) = D!Ack(h) /\ ~ In(pending', h)
          /\ \A x \in Sends : In(toClient', D!Ack(x)) <=> Acked(x) /\ x # h
          /\ \A x : In(pending', x) <=> Queued(x) /\ x # h
      BY <1>5, <2>1, HeadIsOwn
    <3>2. h \in Sends /\ \A x, y : Precedes(pending', y, x) => Precedes(pending, y, x)
      BY <1>5, <3>1, PoppedFacts
    <3>3. In(toClient, D!Ack(h))
      BY <1>5, <3>1, ReadFacts
    <3>4. \A x, y : Precedes(pending', y, x) => y # h
      BY <3>1, PrecedesIsIn
    <3>5. \A x \in Sends : Acked(x)' <=> In(toClient', D!Ack(x))
      BY DEF Acked
    <3>6. \A x : Queued(x)' <=> In(pending', x)
      BY DEF Queued
    <3>7. Acked(h)
      BY <3>3 DEF Acked
    <3> HIDE DEF h
    <3>8. QED
      BY <3>1, <3>2, <3>4, <3>5, <3>6, <3>7
  <2> HIDE DEF h
  <2>3. \A x \in Sends : pc[x] = "write" => ~ Acked(x)
    BY DEF UnwrittenIsNowhere
  <2>4. \A x \in Sends : (Handled(x)' <=> Handled(x)) /\ (Sent(x)' <=> Sent(x))
    BY <2>1 DEF Handled, Sent
  <2>5. QED
    BY <2>1, <2>2, <2>3, <2>4 DEF CommandsAreInOrder
<1>6. CASE D!ReadEvent
  <2>1. Calm /\ server = "up" /\ UNCHANGED <<pending, toServer, handling, pc>>
    BY <1>6 DEF D!ReadEvent, D!serverVars, D!clientVars, Calm
  <2>2. \A x : Acked(x)' <=> Acked(x)
    <3>1. \A x : Head(toClient) # D!Ack(x)
      <4>1. Head(toClient).is = "event"
        BY <1>6 DEF D!ReadEvent
      <4>2. \A x : D!Ack(x).is = "ack"
        BY DEF D!Ack
      <4>3. QED
        BY <4>1, <4>2
    <3>2. QED
      BY <1>6, <3>1, ReadFacts DEF Acked
  <2>3. QED
    BY <2>1, <2>2 DEF CommandsAreInOrder, Queued, Handled, Sent
<1>7. CASE D!ReadEnd \/ D!CloseFlag \/ D!CloseSocket
  BY <1>7 DEF D!ReadEnd, D!EndOfFile, D!CloseFlag, D!CloseSocket, Calm, D!serverVars, D!history
<1>8. CASE D!Take
  <2>1. Calm /\ server = "up" /\ UNCHANGED <<pending, toClient, pc>>
    BY <1>8 DEF D!Take, D!clientVars, D!history, Calm
  <2>0. PICK h \in Sends : h = Head(toServer)
    BY <1>8, TakeFacts
  <2>2. /\ Sent(h)
        /\ \A x \in Sends : ~ Handled(x) /\ (Handled(x)' <=> x = h)
        /\ \A x : Sent(x) <=> x = h \/ Sent(x)'
        /\ \A x, y : Precedes(toServer, y, x)
                        <=> Precedes(toServer', y, x) \/ (y = h /\ Sent(x)')
        /\ \A y : ~ Precedes(toServer, y, h)
    <3>1. In(toServer, h) /\ toServer # <<>>
      BY <1>8, <2>0, TakeFacts DEF D!Take
    <3>2. ~ Precedes(toServer, h, h)
      BY <2>1, <3>1 DEF CommandsAreInOrder
    <3>3. \A y : ~ Precedes(toServer, y, h)
      BY <2>0, <3>1, <3>2, NothingBeforeHead
    <3>4. \A x \in Sends : ~ Handled(x) /\ (Handled(x)' <=> x = h)
      BY <1>8, <2>0 DEF D!Take, Handled
    <3>5. QED
      BY <1>8, <2>0, <3>1, <3>3, <3>4, TakeFacts DEF Sent
  <2>3. ~ Sent(h)'
    BY <2>2
  <2>4. \A x : Queued(x)' <=> Queued(x)
    BY <2>1 DEF Queued
  <2>5. \A x : Acked(x)' <=> Acked(x)
    BY <2>1 DEF Acked
  <2>6. QED
    BY <2>1, <2>2, <2>3, <2>4, <2>5 DEF CommandsAreInOrder
<1>9. CASE D!WriteAck
  <2>1. Calm /\ server = "up" /\ UNCHANGED <<pending, toServer, pc>>
    BY <1>9 DEF D!WriteAck, D!clientVars, D!history, Calm
  <2>2. /\ handling.cmd \in Sends
        /\ \A x \in Sends : (Handled(x) <=> x = handling.cmd) /\ ~ Handled(x)'
    BY <1>9, HandlingKinds DEF D!WriteAck, HandlerHasACommand, Handled, Types
  <2>3. \A x \in Sends : Acked(x)' <=> Acked(x) \/ Handled(x)
    BY <1>9, <2>2, AckFacts, Kinds DEF Acked
  <2>4. \A x : (Queued(x)' <=> Queued(x)) /\ (Sent(x)' <=> Sent(x))
    BY <2>1 DEF Queued, Sent
  <2>5. QED
    BY <2>1, <2>2, <2>3, <2>4 DEF CommandsAreInOrder
<1>10. CASE D!WriteEvent
  <2>1. Calm /\ server = "up" /\ UNCHANGED <<pending, toServer, pc>>
    BY <1>10 DEF D!WriteEvent, D!clientVars, D!history, Calm
  <2>2. \A x : ~ Handled(x) /\ ~ Handled(x)'
    BY <1>10, HandlingKinds DEF D!WriteEvent, Handled, Types
  <2>3. \A x : Acked(x)' <=> Acked(x)
    <3>1. CASE toClient' = toClient
      BY <3>1 DEF Acked
    <3>2. CASE toClient' # toClient
      BY <1>10, <3>2, EventFacts, Kinds DEF Acked
    <3>3. QED
      BY <3>1, <3>2
  <2>4. \A x : (Queued(x)' <=> Queued(x)) /\ (Sent(x)' <=> Sent(x))
    BY <2>1 DEF Queued, Sent
  <2>5. QED
    BY <2>1, <2>2, <2>3, <2>4 DEF CommandsAreInOrder
<1>11. CASE D!ServerEnds
  BY <1>11 DEF D!ServerEnds
<1>12. CASE D!ReadPut \/ UNCHANGED D!vars
  BY <1>0, <1>12 DEF D!ReadPut, D!clientVars, D!serverVars, D!socket, D!history, D!vars
<1>13. QED
  BY <1>1, <1>2, <1>3, <1>4, <1>5, <1>6, <1>7, <1>8, <1>9, <1>10, <1>11, <1>12
  DEF D!Next, D!SendStep, D!ReaderStep, D!ServerStep

LEMMA OwnStep ==
    ASSUME Types, SlotsAreSingle, AcksAreInOrder, SlotsAreOwn, [D!Next]_D!vars
    PROVE  SlotsAreOwn'
<1> SUFFICES ASSUME Calm'
             PROVE  SlotsAreOwn'
  BY DEF SlotsAreOwn
<1>0. CASE UNCHANGED <<late, client, slot, reader>>
  BY <1>0 DEF SlotsAreOwn, Calm
<1>1. CASE D!ReadAck
  <2>1. Calm /\ UNCHANGED slot
    BY <1>1 DEF D!ReadAck, D!history, Calm
  <2>2. pending # <<>> /\ Head(toClient) = D!Ack(Head(pending))
    BY <1>1, <2>1, HeadIsOwn
  <2>3. reader'.ack = reader'.slot
    BY <1>1, <2>2 DEF D!ReadAck, D!Ack
  <2>4. QED
    BY <2>1, <2>3 DEF SlotsAreOwn
<1>2. CASE D!ReadPut
  <2>1. Calm /\ reader.slot \in Sends /\ reader.ack = reader.slot
    BY <1>2, ReaderKinds DEF D!ReadPut, D!history, Calm, Types, SlotsAreOwn
  <2>2. \A x \in Sends : slot'[x] = IF x = reader.slot THEN D!Ack(reader.ack) ELSE slot[x]
    BY <1>2, <2>1 DEF D!ReadPut, Types
  <2>3. reader'.at # "put"
    BY <1>2, ReaderKinds DEF D!ReadPut, Types
  <2>4. QED
    BY <2>1, <2>2, <2>3, Kinds DEF SlotsAreOwn
<1>3. CASE D!ReadEnd
  <2>1. Calm /\ D!FailPending /\ reader'.at # "put"
    BY <1>3, ReaderKinds DEF D!ReadEnd, D!history, Calm, Types
  <2>2. \A x \in Sends : slot'[x] \in {D!None, slot[x]}
    BY <2>1, FailFacts
  <2>3. QED
    BY <2>1, <2>2, Kinds DEF SlotsAreOwn
<1>4. CASE D!CloseFlag \/ D!CloseSocket
  BY <1>4 DEF D!CloseFlag, D!CloseSocket, Calm
<1>5. ASSUME NEW x \in Sends, D!SendStep(x)
      PROVE  SlotsAreOwn'
  BY <1>0, <1>5 DEF D!SendStep, D!SendBegin, D!SendWrite, D!SendBroken, D!SendRaises, D!SendReturns,
                    D!SendTimeout, D!SendForget, D!history, Calm
<1>6. CASE D!ReadEvent \/ D!ServerStep \/ D!ServerEnds \/ UNCHANGED D!vars
  BY <1>0, <1>6 DEF D!ReadEvent, D!ServerStep, D!Take, D!WriteAck, D!WriteEvent, D!ServerEnds, D!clientVars,
                    D!history, D!vars
<1>7. QED
  BY <1>1, <1>2, <1>3, <1>4, <1>5, <1>6 DEF D!Next, D!ReaderStep

LEMMA EventsStep ==
    ASSUME Types, HandlerHasACommand, SlotsAreSingle, AcksAreInOrder, EventsFollow, [D!Next]_D!vars
    PROVE  EventsFollow'
<1> SUFFICES ASSUME Calm'
             PROVE  EventsFollow'
  BY DEF EventsFollow
<1>0. CASE UNCHANGED <<late, client, slot, reader, toClient, handling, seen>>
  BY <1>0 DEF EventsFollow, Calm, Answered, Acked
<1>1. CASE D!ReadAck
  <2>1. Calm /\ UNCHANGED <<slot, handling, seen>> /\ reader.at = "reading"
    BY <1>1 DEF D!ReadAck, D!history, D!serverVars, Calm
  <2>2. /\ pending # <<>> /\ Head(toClient) = D!Ack(Head(pending))
        /\ \A x \in Sends : In(toClient', D!Ack(x)) <=> Acked(x) /\ x # Head(pending)
    BY <1>1, <2>1, HeadIsOwn
  <2>3. reader'.at = "put" /\ reader'.slot = Head(pending)
    BY <1>1, <2>2 DEF D!ReadAck
  <2>4. \A x : (Answered(x) => Answered(x)') /\ (x = Head(pending) => Answered(x)')
    BY <2>1, <2>3 DEF Answered
  <2>5. ASSUME NEW x \in Sends, Early(toClient', D!Ack(x), D!Event(x))
        PROVE  Answered(x)'
    <3>1. Early(toClient, D!Ack(x), D!Event(x)) \/ x = Head(pending)
      BY <1>1, <2>2, <2>5, ReadFacts, Kinds
    <3>2. QED
      BY <2>1, <2>4, <3>1 DEF EventsFollow
  <2>6. handling.at = "event" => Acked(handling.cmd)' \/ Answered(handling.cmd)'
    BY <2>1, <2>2, <2>4 DEF EventsFollow, HandlerHasACommand, Acked
  <2>7. QED
    BY <2>1, <2>5, <2>6 DEF EventsFollow, Acked, Answered
<1>2. CASE D!ReadPut
  <2>1. Calm /\ reader.slot \in Sends /\ UNCHANGED <<toClient, handling, seen>>
    BY <1>2, ReaderKinds DEF D!ReadPut, D!history, D!serverVars, D!socket, Calm, Types
  <2>2. \A x \in Sends : slot'[x] = IF x = reader.slot THEN D!Ack(reader.ack) ELSE slot[x]
    BY <1>2, <2>1 DEF D!ReadPut, Types
  <2>3. \A x \in Sends : (Answered(x) => Answered(x)') /\ (slot[x] # D!Empty => slot'[x] # D!Empty)
    BY <2>2, Kinds DEF Answered
  <2>4. QED
    BY <2>1, <2>3 DEF EventsFollow, Acked, HandlerHasACommand, Types
<1>3. CASE D!ReadEvent
  <2>1. Calm /\ UNCHANGED <<slot, reader, handling>> /\ reader.at = "reading"
    BY <1>3 DEF D!ReadEvent, D!clientVars, D!serverVars, Calm
  <2>2. PICK z \in Dnd : Head(toClient) = D!Event(z) /\ Head(toClient).of = z
    BY <1>3, ReadFacts, Kinds DEF D!ReadEvent
  <2>3. Answered(z)
    BY <1>3, <2>1, <2>2, ReadFacts DEF EventsFollow
  <2>4. slot[z] # D!Empty
    BY <2>1, <2>3 DEF Answered
  <2>5. \A x \in Sends : Early(toClient', D!Ack(x), D!Event(x)) => Early(toClient, D!Ack(x), D!Event(x))
    BY <1>3, <2>2, ReadFacts, Kinds
  <2>6. \A x : Acked(x)' <=> Acked(x)
    BY <1>3, <2>2, ReadFacts, Kinds DEF Acked
  <2>7. seen' = seen \cup {z}
    BY <1>3, <2>2 DEF D!ReadEvent
  <2>8. \A x : Answered(x)' <=> Answered(x)
    BY <2>1 DEF Answered
  <2>9. QED
    BY <2>1, <2>4, <2>5, <2>6, <2>7, <2>8 DEF EventsFollow
<1>4. CASE D!ReadEnd
  <2>1. Calm /\ D!FailPending /\ reader.at = "reading" /\ UNCHANGED <<toClient, handling, seen>>
    BY <1>4 DEF D!ReadEnd, D!history, D!serverVars, D!socket, Calm
  <2>2. \A x \in Sends : slot[x] # D!Empty => slot'[x] # D!Empty
    BY <2>1, FailFacts
  <2>3. \A x \in Sends : Answered(x) => Answered(x)'
    BY <2>1, <2>2 DEF Answered
  <2>4. QED
    BY <2>1, <2>2, <2>3 DEF EventsFollow, Acked, HandlerHasACommand, Types
<1>5. CASE D!CloseFlag \/ D!CloseSocket
  BY <1>5 DEF D!CloseFlag, D!CloseSocket, Calm
<1>6. CASE D!Take
  BY <1>6 DEF D!Take, D!clientVars, D!history, Calm, EventsFollow, Answered
<1>7. CASE D!WriteAck
  <2>1. Calm /\ UNCHANGED <<slot, reader, seen>>
    BY <1>7 DEF D!WriteAck, D!clientVars, D!history, Calm
  <2>2. handling.cmd \in Sends /\ (handling'.at = "event" => handling'.cmd = handling.cmd)
    BY <1>7, HandlingKinds DEF D!WriteAck, HandlerHasACommand, Types
  <2>3. \A x \in Sends : Early(toClient', D!Ack(x), D!Event(x)) => Early(toClient, D!Ack(x), D!Event(x))
    BY <1>7, AckFacts, Kinds
  <2>4. In(toClient', D!Ack(handling.cmd))
    BY <1>7, AckFacts
  <2>5. QED
    BY <2>1, <2>2, <2>3, <2>4 DEF EventsFollow, Answered, Acked
<1>8. CASE D!WriteEvent
  <2>1. Calm /\ UNCHANGED <<slot, reader, seen>> /\ handling'.at # "event"
    BY <1>8, HandlingKinds DEF D!WriteEvent, D!clientVars, D!history, Calm, Types
  <2>2. handling.cmd \in Dnd /\ (Acked(handling.cmd) \/ Answered(handling.cmd))
    BY <1>8, <2>1 DEF D!WriteEvent, HandlerHasACommand, EventsFollow
  <2>3. ASSUME NEW x \in Sends, Early(toClient', D!Ack(x), D!Event(x))
        PROVE  Early(toClient, D!Ack(x), D!Event(x)) \/ Answered(x)
    <3>1. CASE toClient' = toClient
      BY <2>3, <3>1
    <3>2. CASE toClient' # toClient
      <4>1. Early(toClient, D!Ack(x), D!Event(x)) \/ (D!Event(x) = D!Event(handling.cmd) /\ ~ In(toClient, D!Ack(x)))
        BY <1>8, <2>3, <3>2, EventFacts
      <4>2. D!Event(x) = D!Event(handling.cmd) => x = handling.cmd
        BY DEF D!Event
      <4>3. QED
        BY <2>2, <4>1, <4>2 DEF Acked
    <3>3. QED
      BY <3>1, <3>2
  <2>4. QED
    BY <2>1, <2>3 DEF EventsFollow, Answered
<1>9. CASE D!ServerEnds
  BY <1>9, HandlingKinds DEF D!ServerEnds, D!clientVars, D!socket, D!history, Calm, EventsFollow, Answered,
     Acked, Types
<1>10. ASSUME NEW x \in Sends, D!SendStep(x)
       PROVE  EventsFollow'
  BY <1>0, <1>10 DEF D!SendStep, D!SendBegin, D!SendWrite, D!SendBroken, D!SendRaises, D!SendReturns,
                     D!SendTimeout, D!SendForget, D!serverVars, D!socket, D!history, Calm
<1>11. CASE UNCHANGED D!vars
  BY <1>0, <1>11 DEF D!clientVars, D!serverVars, D!socket, D!history, D!vars
<1>12. QED
  BY <1>1, <1>2, <1>3, <1>4, <1>5, <1>6, <1>7, <1>8, <1>9, <1>10, <1>11
  DEF D!Next, D!ReaderStep, D!ServerStep

LEMMA ForgottenStep ==
    ASSUME Types, SlotsAreSingle, NobodyIsForgotten, [D!Next]_D!vars
    PROVE  NobodyIsForgotten'
<1>1. ASSUME NEW x \in Sends, D!SendStep(x), NEW y \in Sends, pc'[y] \in {"write", "wait"}
      PROVE  (Queued(y) \/ Answered(y))'
  <2>1. UNCHANGED <<slot, reader>>
    BY <1>1 DEF D!SendStep, D!SendBegin, D!SendWrite, D!SendBroken, D!SendRaises, D!SendReturns, D!SendTimeout,
                D!SendForget
  <2>2. CASE D!SendBegin(x)
    <3>1. In(pending', y) <=> In(pending, y) \/ y = x
      BY <2>2, BeginFacts
    <3>2. y # x => pc'[y] = pc[y]
      BY <2>2 DEF D!SendBegin, D!To, Types
    <3>3. QED
      BY <1>1, <2>1, <3>1, <3>2 DEF NobodyIsForgotten, Queued, Answered
  <2>3. CASE D!SendBroken(x) \/ D!SendForget(x)
    <3>1. In(pending', y) <=> In(pending, y) /\ y # x
      BY <2>3, RemovedFacts
    <3>2. pc'[x] \notin {"write", "wait"} /\ (y # x => pc'[y] = pc[y])
      BY <2>3 DEF D!SendBroken, D!SendForget, D!To, Types
    <3>3. QED
      BY <1>1, <2>1, <3>1, <3>2 DEF NobodyIsForgotten, Queued, Answered
  <2>4. CASE D!SendWrite(x) \/ D!SendRaises(x) \/ D!SendReturns(x) \/ D!SendTimeout(x)
    <3>1. UNCHANGED pending /\ pc[y] \in {"write", "wait"}
      BY <1>1, <2>4 DEF D!SendWrite, D!SendRaises, D!SendReturns, D!SendTimeout, D!To, Types
    <3>2. QED
      BY <2>1, <3>1 DEF NobodyIsForgotten, Queued, Answered
  <2>5. QED
    BY <1>1, <2>2, <2>3, <2>4 DEF D!SendStep
<1>2. CASE D!ReadAck
  <2>1. CASE pending = <<>>
    BY <1>2, <2>1 DEF D!ReadAck, NobodyIsForgotten, Queued, Answered
  <2>2. CASE pending # <<>>
    <3>1. /\ reader.at = "reading" /\ UNCHANGED <<pc, slot>>
          /\ reader'.at = "put" /\ reader'.slot = Head(pending)
      BY <1>2, <2>2 DEF D!ReadAck
    <3>2. \A y : In(pending, y) <=> y = Head(pending) \/ In(pending', y)
      BY <1>2, <2>2, PoppedFacts
    <3>3. QED
      BY <3>1, <3>2 DEF NobodyIsForgotten, Queued, Answered
  <2>3. QED
    BY <2>1, <2>2
<1>3. CASE D!ReadPut
  <2>1. reader.slot \in Sends /\ UNCHANGED <<pc, pending>>
    BY <1>3, ReaderKinds DEF D!ReadPut, Types
  <2>2. \A x \in Sends : slot'[x] = IF x = reader.slot THEN D!Ack(reader.ack) ELSE slot[x]
    BY <1>3, <2>1 DEF D!ReadPut, Types
  <2>3. \A x \in Sends : Answered(x) => slot'[x] # D!Empty
    BY <2>2, Kinds DEF Answered
  <2>4. QED
    BY <2>1, <2>3 DEF NobodyIsForgotten, Queued, Answered
<1>4. CASE D!ReadEnd \/ D!CloseFlag
  <2>1. D!FailPending /\ UNCHANGED pc /\ (reader' = reader \/ reader.at = "reading")
    BY <1>4 DEF D!ReadEnd, D!CloseFlag
  <2>2. \A x \in Sends : /\ Queued(x) => slot'[x] # D!Empty
                         /\ slot[x] # D!Empty => slot'[x] # D!Empty
    BY <2>1, FailFacts, Kinds
  <2>3. ASSUME NEW x \in Sends, Queued(x) \/ Answered(x)
        PROVE  Answered(x)'
    <3>1. CASE Queued(x) \/ slot[x] # D!Empty
      BY <2>2, <3>1 DEF Answered
    <3>2. CASE reader.at = "put" /\ reader.slot = x
      BY <2>1, <3>2 DEF Answered
    <3>3. QED
      BY <2>3, <3>1, <3>2 DEF Answered
  <2>4. QED
    BY <2>1, <2>3 DEF NobodyIsForgotten
<1>5. CASE UNCHANGED <<pc, pending, slot, reader>>
  BY <1>5 DEF NobodyIsForgotten, Queued, Answered
<1>6. CASE D!ReadEvent \/ D!CloseSocket \/ D!ServerStep \/ D!ServerEnds \/ UNCHANGED D!vars
  BY <1>5, <1>6 DEF D!ReadEvent, D!CloseSocket, D!ServerStep, D!Take, D!WriteAck, D!WriteEvent, D!ServerEnds,
                    D!clientVars, D!vars
<1>7. ASSUME NEW x \in Sends, D!SendStep(x)
      PROVE  NobodyIsForgotten'
  BY <1>1, <1>7 DEF NobodyIsForgotten
<1>8. QED
  BY <1>2, <1>3, <1>4, <1>6, <1>7 DEF D!Next, D!ReaderStep

\* What wakes those who wait when the reader ends.
LEMMA EndWakesAll ==
    ASSUME SocketInv, [D!Next]_D!vars, reader.at # "ended", reader'.at = "ended",
           NEW x \in Sends, pc[x] = "wait"
    PROVE  slot'[x] # D!Empty
<1>1. Types
  BY TypeOKIsTypes DEF SocketInv
<1>2. D!ReadEnd
  <2>1. ~ UNCHANGED reader
    OBVIOUS
  <2>2. ~ \E y \in Sends : D!SendStep(y)
    BY <2>1 DEF D!SendStep, D!SendBegin, D!SendWrite, D!SendBroken, D!SendRaises, D!SendReturns, D!SendTimeout,
                D!SendForget
  <2>3. ~ (D!ReadEvent \/ D!CloseFlag \/ D!CloseSocket \/ D!ServerStep \/ D!ServerEnds \/ UNCHANGED D!vars)
    BY <2>1 DEF D!ReadEvent, D!CloseFlag, D!CloseSocket, D!ServerStep, D!Take, D!WriteAck, D!WriteEvent,
                D!ServerEnds, D!clientVars, D!vars
  <2>4. ~ D!ReadPut
    BY DEF D!ReadPut, D!Reading
  <2>5. ~ D!ReadAck
    <3>1. CASE pending = <<>>
      BY <2>1, <3>1 DEF D!ReadAck
    <3>2. CASE pending # <<>>
      BY <3>2 DEF D!ReadAck
    <3>3. QED
      BY <3>1, <3>2
  <2>6. QED
    BY <2>2, <2>3, <2>4, <2>5 DEF D!Next, D!ReaderStep
<1>3. D!FailPending /\ reader.at = "reading"
  BY <1>2 DEF D!ReadEnd
<1>4. Queued(x) \/ slot[x] # D!Empty
  BY <1>3 DEF SocketInv, NobodyIsForgotten, Answered
<1>5. QED
  BY <1>1, <1>3, <1>4, FailFacts, Kinds

----------------------------------------------------------------------------
(* The theorems.                                                            *)

\* What is queued on the console's side and what is under way on the socket stay in the
\* same order (DaemonProxy.send, _read_loop, _RequestHandler.handle), however many sends
\* there are and whichever end closes.
THEOREM SocketInvSpec == D!Spec => []SocketInv
<1>1. SocketInv /\ [D!Next]_D!vars => SocketInv'
  <2> SUFFICES ASSUME SocketInv, [D!Next]_D!vars
               PROVE  SocketInv'
    OBVIOUS
  <2>1. Types
    BY TypeOKIsTypes DEF SocketInv
  <2>2. Types'
    BY <2>1, TypesStep DEF SocketInv
  <2>3. D!TypeOK'
    BY <2>2 DEF D!TypeOK, Types, Stages, Fillings, Hands, Messages, Progress
  <2>4. HandlerHasACommand' /\ SlotsAreSingle' /\ UnwrittenIsNowhere'
    BY <2>1, HandlerStep, SlotsStep, UnwrittenStep DEF SocketInv
  <2>5. AcksAreInOrder' /\ CommandsAreInOrder'
    BY <2>1, AcksStep, CommandsStep DEF SocketInv
  <2>6. SlotsAreOwn' /\ EventsFollow'
    BY <2>1, OwnStep, EventsStep DEF SocketInv
  <2>7. NobodyIsForgotten'
    BY <2>1, ForgottenStep DEF SocketInv
  <2>8. QED
    BY <2>3, <2>4, <2>5, <2>6, <2>7 DEF SocketInv
<1>2. QED
  BY InitSocketInv, <1>1, PTL DEF D!Spec

\* Until a send gives up, every ack reaches the send it answers, and the reader never
\* waits for a slot to be emptied.
THEOREM AcksReachTheirSends == D!Spec => []AcksAreOwn
<1>1. SocketInv => D!AcksAreOwn
  BY DEF SocketInv, SlotsAreOwn, SlotsAreSingle, Calm, D!AcksAreOwn, D!AckIsOwnUntilTimeout, D!AckIsOwn,
         D!OwnAcks, D!ReaderNeverBlocks
<1>2. QED
  BY <1>1, SocketInvSpec, PTL DEF AcksAreOwn

\* A console has the ack of its own command before the event about it.
THEOREM EventComesAfterAck == D!Spec => []EventAfterAck
<1>1. SocketInv => D!EventAfterAck
  BY DEF SocketInv, EventsFollow, Calm, D!EventAfterAck
<1>2. QED
  BY <1>1, SocketInvSpec, PTL DEF EventAfterAck

\* When the connection ends, whoever waits for an ack is woken at once (_fail_pending).
THEOREM WaitersAreWoken == D!Spec => D!WokenAtTheEnd
<1>1. SocketInv /\ [D!Next]_D!vars
        => [(reader.at # "ended" /\ reader'.at = "ended")
             => \A x \in Sends : pc[x] = "wait" => slot'[x] # D!Empty]_D!vars
  BY EndWakesAll
<1>2. QED
  BY <1>1, SocketInvSpec, PTL DEF D!Spec, D!WokenAtTheEnd
===============================================================================
