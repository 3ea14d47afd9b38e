------------------------------ MODULE Proactive ------------------------------
(***************************************************************************)
(* Proactive notifications.  The daemon's MessageEventSource and the       *)
(* calendar watcher enqueue items in the store; the console's              *)
(* ProactiveDelivery looks at the store on every tick and speaks, shows a  *)
(* badge or waits, and the operator cycles through the items with [n].     *)
(* Speech is synthesised and played by a worker thread, after the tick     *)
(* that decided on it.                                                     *)
(*                                                                         *)
(* Time is kept as the timers the code compares it with: the cooldown, the *)
(* ten seconds an item is shown and an item's time to live elapse at some  *)
(* moment; a tick finds the silence gap and the hour between prunes over,  *)
(* or not.                                                                 *)
(* proactive_enabled is on (off, a tick does nothing).                     *)
(***************************************************************************)
EXTENDS Naturals, FiniteSets, Sequences

CONSTANTS
    Meetings,       \* calendar events
    Classes,        \* cfg.proactive_classes
    MinPriority,    \* cfg.proactive_min_priority
    MaxItems,       \* bound: items ever enqueued
    MaxFaults       \* bound: failing writes and watcher crashes

VARIABLES
    items,          \* the table proactive_queue, by id
    cooling,        \* less than the cooldown has passed since last_delivered
    shownId, shownLong,     \* _shown_id, and ten seconds have passed since _shown_at
    fresh,          \* the last badge event that waits to be drained, or NoEvent
    badge, current, \* the item of _proactive_badge, _current_notification_id
    workers,        \* items whose speech is being prepared
    meeting,        \* each meeting is "later", "near" (in the nudge window) or "past"
    cache,          \* NUDGE_CACHE
    polling,        \* the watcher's loop between its two writes: a meeting, or Idle
    faults,
    spoken,         \* history: how often each item was spoken or notified
    cycled          \* history: items the operator cycled away from while shown

delivery == <<cooling, shownId, shownLong, fresh, workers>>
screen == <<badge, current>>
watcher == <<cache, polling>>
history == <<spoken, cycled>>
vars == <<items, delivery, screen, meeting, watcher, faults, history>>

None == 0
NoEvent == MaxItems + 1
Idle == "idle"
Ids == 1 .. MaxItems
Item == [class : {"ancs", "calendar_nudge"}, of : Meetings \cup {None},
         is : {"pending", "delivered", "pruned"}, dismissed : BOOLEAN, expired : BOOLEAN]
Priority(i) == IF items[i].class = "calendar_nudge" THEN 1 ELSE 2

TypeOK ==
    /\ items \in Seq(Item) /\ Len(items) <= MaxItems
    /\ {cooling, shownLong} \subseteq BOOLEAN
    /\ {shownId, badge, current} \subseteq 0 .. MaxItems /\ fresh \in 0 .. NoEvent
    /\ workers \subseteq Ids
    /\ meeting \in [Meetings -> {"later", "near", "past"}]
    /\ cache \subseteq Meetings /\ polling \in Meetings \cup {Idle}
    /\ faults \in 0 .. MaxFaults
    /\ spoken \in [Ids -> Nat] /\ cycled \subseteq Ids

Init ==
    /\ items = <<>>
    /\ cooling = FALSE
    /\ shownId = None /\ shownLong = FALSE
    /\ fresh = NoEvent /\ badge = None /\ current = None
    /\ workers = {}
    /\ meeting = [m \in Meetings |-> "later"]
    /\ cache = {} /\ polling = Idle
    /\ faults = 0
    /\ spoken = [i \in Ids |-> 0] /\ cycled = {}

Fault == faults < MaxFaults /\ faults' = faults + 1

----------------------------------------------------------------------------
(* ProactiveStore.                                                           *)

Enqueue(class, m) ==
    /\ Len(items) < MaxItems
    /\ items' = Append(items, [class |-> class, of |-> m, is |-> "pending",
                               dismissed |-> FALSE, expired |-> FALSE])

Pending(q) ==
    {i \in DOMAIN q : q[i].is = "pending" /\ ~q[i].dismissed /\ ~q[i].expired}

\* mutant: strictly more urgent than the configured priority
MoreUrgent(i) == Priority(i) < MinPriority

UrgentEnough(i) == Priority(i) <= MinPriority

\* mutant: next_pending without "delivered_at IS NULL"
EvenDelivered(q) ==
    {i \in DOMAIN q : q[i].is # "pruned" /\ ~q[i].dismissed /\ ~q[i].expired
                      /\ q[i].class \in Classes /\ UrgentEnough(i)}

Wanted(q) == {i \in Pending(q) : q[i].class \in Classes /\ UrgentEnough(i)}

\* next_pending: the most urgent one, and of those the oldest
NextPending(q) ==
    LET wanted == Wanted(q) IN
    IF wanted = {} THEN None
    ELSE CHOOSE i \in wanted : \A j \in wanted :
            Priority(i) < Priority(j) \/ (Priority(i) = Priority(j) /\ i <= j)

Least(S) == IF S = {} THEN None ELSE CHOOSE i \in S : \A j \in S : i <= j

\* mutant: "id >= ?"
FromHere(after) == {i \in Pending(items) : i >= after}

Beyond(after) == {i \in Pending(items) : i > after}

\* cycle_next: the next id, or the first one again; None counts as before the first
CycleNext(after) ==
    IF Beyond(after) # {} THEN Least(Beyond(after)) ELSE Least(Pending(items))

Pruned(q) ==
    [i \in DOMAIN q |->
        IF q[i].expired \/ (q[i].dismissed /\ q[i].is = "delivered")
        THEN [q[i] EXCEPT !.is = "pruned"] ELSE q[i]]

----------------------------------------------------------------------------
(* The producers.                                                            *)

\* MessageEventSource._on_notification, in the daemon
OnNotification ==
    /\ Enqueue("ancs", None)
    /\ UNCHANGED <<delivery, screen, meeting, watcher, faults, history>>

\* mutant: rows are pruned whatever their age
ForgetAll == {}

\* Rows older than 48 hours, which are of meetings long past.
Remembered == {m \in cache : meeting[m] # "past"}

\* _poll_once: the nudge is enqueued, and then the meeting is cached.
PollEnqueues(m) ==
    /\ polling = Idle
    /\ meeting[m] = "near" /\ m \notin Remembered
    /\ Enqueue("calendar_nudge", m)
    /\ cache' = Remembered
    /\ polling' = m
    /\ UNCHANGED <<delivery, screen, meeting, faults, history>>

PollCaches ==
    /\ polling # Idle
    /\ cache' = cache \cup {polling}
    /\ polling' = Idle
    /\ UNCHANGED <<items, delivery, screen, meeting, faults, history>>

\* The watcher ends, between its writes or not, and starts again.  Its cache is in
\* memory unless it is given a file.
WatcherRestarts ==
    /\ Fault
    /\ cache' \in {cache, {}}
    /\ polling' = Idle
    /\ UNCHANGED <<items, delivery, screen, meeting, history>>

----------------------------------------------------------------------------
(* ProactiveDelivery.tick, on the UI thread.                                 *)

AutoDismissed ==
    IF shownId # None /\ shownLong THEN [items EXCEPT ![shownId].dismissed = TRUE] ELSE items
StillShown == IF shownLong THEN None ELSE shownId
\* The badge event of the auto-dismissal, unless another one follows.
Cleared == IF shownId # None /\ shownLong THEN None ELSE fresh

\* An hour may have passed since _last_prune or not.
Looks(i, cleaned) ==
    /\ cleaned \in {AutoDismissed, Pruned(AutoDismissed)}
    /\ i = NextPending(cleaned)

\* Nothing to tell, or not yet.
TickWaits ==
    \E i \in 0 .. MaxItems, cleaned \in {AutoDismissed, Pruned(AutoDismissed)} :
        /\ Looks(i, cleaned) /\ (i = None \/ cooling)
        /\ items' = cleaned
        /\ shownId' = StillShown /\ shownLong' = FALSE
        /\ fresh' = Cleared
        /\ UNCHANGED <<cooling, workers, screen, meeting, watcher, faults, history>>

\* The console gives no iris_mode_fn.  Its mode_fn may say "far", and the silence tracker
\* may have heard the operator, at any tick: then TickBadges, and else TickTells.
TickTells(i) ==
    /\ \E cleaned \in {AutoDismissed, Pruned(AutoDismissed)} :
        /\ Looks(i, cleaned) /\ ~cooling
        /\ items' = [cleaned EXCEPT ![i].is = "delivered"]
    /\ workers' = workers \cup {i}
    /\ fresh' = i
    /\ shownId' = i /\ shownLong' = FALSE
    /\ cooling' = TRUE
    /\ UNCHANGED <<screen, meeting, watcher, faults, history>>

\* In mode "far", and before the silence.
TickBadges(i) ==
    /\ \E cleaned \in {AutoDismissed, Pruned(AutoDismissed)} :
        /\ Looks(i, cleaned) /\ ~cooling
        /\ items' = cleaned
    /\ fresh' = i
    /\ shownId' = StillShown /\ shownLong' = FALSE
    /\ UNCHANGED <<cooling, workers, screen, meeting, watcher, faults, history>>

\* mark_delivered raises after the speech was dispatched: the console ends and is
\* started again, with nothing shown and no cooldown.
MarkFails(i) ==
    /\ Fault
    /\ \E cleaned \in {AutoDismissed, Pruned(AutoDismissed)} :
        /\ Looks(i, cleaned) /\ ~cooling
        /\ items' = cleaned
    /\ workers' = workers \cup {i}
    /\ cooling' = FALSE /\ shownId' = None /\ shownLong' = FALSE
    /\ fresh' = NoEvent /\ badge' = None /\ current' = None
    /\ UNCHANGED <<meeting, watcher, history>>

\* The worker: synthesis, then the endpoint of this moment.
SpeechBegins(i) ==
    /\ i \in workers
    /\ workers' = workers \ {i}
    /\ spoken' = [spoken EXCEPT ![i] = @ + 1]
    /\ UNCHANGED <<items, cooling, shownId, shownLong, fresh, screen, meeting, watcher, faults,
                   cycled>>

----------------------------------------------------------------------------
(* The console.                                                              *)

\* proactive_badge events; each replaces the badge.
DrainBadge ==
    /\ fresh # NoEvent
    /\ badge' = fresh /\ fresh' = NoEvent
    /\ UNCHANGED <<items, cooling, shownId, shownLong, workers, current, meeting,
                   watcher, faults, history>>

\* mutant: [n] leaves the auto-dismissal running
LeaveShown == UNCHANGED <<shownId, shownLong>>

ResetShown == shownId' = None /\ shownLong' = FALSE

\* [n], which is there while there is a badge (check_action)
KeyNotification ==
    /\ badge # None
    /\ badge' = CycleNext(current) /\ current' = badge'
    /\ ResetShown
    /\ cycled' = IF shownId # None THEN cycled \cup {shownId} ELSE cycled
    /\ UNCHANGED <<items, cooling, fresh, workers, meeting, watcher, faults, spoken>>

----------------------------------------------------------------------------
(* Time.                                                                     *)

CoolsDown ==
    /\ cooling /\ cooling' = FALSE
    /\ UNCHANGED <<items, shownId, shownLong, fresh, workers, screen, meeting, watcher,
                   faults, history>>

TenSeconds ==
    /\ shownId # None /\ ~shownLong /\ shownLong' = TRUE
    /\ UNCHANGED <<items, cooling, shownId, fresh, workers, screen, meeting, watcher,
                   faults, history>>

\* The oldest item first, a day after it was enqueued.
Expires(i) ==
    /\ i \in DOMAIN items /\ ~items[i].expired
    /\ \A j \in 1 .. i - 1 : items[j].expired
    /\ ~cooling /\ (shownId = i => shownLong) /\ i \notin workers
    /\ items' = [items EXCEPT ![i].expired = TRUE]
    /\ UNCHANGED <<delivery, screen, meeting, watcher, faults, history>>

MeetingNears(m) ==
    /\ \/ meeting[m] = "later" /\ meeting' = [meeting EXCEPT ![m] = "near"]
       \/ meeting[m] = "near" /\ meeting' = [meeting EXCEPT ![m] = "past"]
    /\ UNCHANGED <<items, delivery, screen, watcher, faults, history>>

----------------------------------------------------------------------------
Tick == TickWaits \/ \E i \in DOMAIN items : TickTells(i) \/ TickBadges(i)

Next ==
    \/ OnNotification
    \/ \E m \in Meetings : PollEnqueues(m) \/ MeetingNears(m)
    \/ PollCaches \/ WatcherRestarts
    \/ Tick
    \/ \E i \in DOMAIN items : MarkFails(i) \/ SpeechBegins(i) \/ Expires(i)
    \/ DrainBadge \/ KeyNotification
    \/ CoolsDown \/ TenSeconds

\* The console's timers tick, its queue is drained, and the cooldown ends.
Fairness == WF_vars(Tick) /\ WF_vars(DrainBadge) /\ WF_vars(CoolsDown)

Spec == Init /\ [][Next]_vars /\ Fairness

----------------------------------------------------------------------------
(* Properties.                                                               *)

\* An item is told once: restarted watchers, cooldowns, [n] and late speech do not
\* repeat it, only a console that could not mark it delivered does.
ToldOnce == \A i \in Ids : spoken[i] + Cardinality({i} \cap workers) <= 1 + faults

\* A meeting is nudged about once, unless the watcher restarts (NUDGE_CACHE).
NudgedOnce ==
    \A m \in Meetings :
        Cardinality({i \in DOMAIN items : items[i].of = m}) <= 1 + faults

\* An item the operator has cycled away from while it was shown is not dismissed
\* behind their back (reset_shown, "delivered but not cycled away").
CycledStays == \A i \in cycled : ~items[i].dismissed

\* [n], pressed again and again, visits every pending item, from wherever it is.
CycleVisitsAll ==
    \A from \in 0 .. Len(items) :
        LET visit[k \in 0 .. Len(items)] == IF k = 0 THEN from ELSE CycleNext(visit[k - 1])
            pending == {i \in DOMAIN items : items[i].is = "pending" /\ ~items[i].dismissed
                                             /\ ~items[i].expired}
        IN  {visit[k] : k \in 1 .. Cardinality(pending)} = pending

Waiting(i) ==
    /\ i \in Pending(items)
    /\ items[i].class \in Classes /\ Priority(i) <= MinPriority

\* A wanted item becomes a badge, at the latest after the cooldown, or it is told,
\* dismissed or expires first: nothing waits in the store unnoticed.
WantedIsNoticed == \A i \in Ids : Waiting(i) ~> (badge # None \/ ~Waiting(i))

\* Nothing is announced twice, be it an item or the meeting it is about.
NothingIsToldTwice == ToldOnce /\ NudgedOnce

\* Cycling through the items visits them all and takes none of them away.
CyclingLosesNothing == CycleVisitsAll /\ CycledStays
=============================================================================
