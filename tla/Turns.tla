-------------------------------- MODULE Turns --------------------------------
(***************************************************************************)
(* Turns of the Brain: what is said to Iris is routed to a lane, the lane  *)
(* proposes a skill, the gate authorises it, the skill runs, its answer is *)
(* heard.  Skills that change something come as a trio with a shared       *)
(* holder: one stages an action and asks, one confirms, one cancels        *)
(* (roster, email, dial, delegate).                                        *)
(*                                                                         *)
(* A Brain lives in two hosts, and a behaviour is one of either.  In the   *)
(* daemon BrainHost.async_turn runs respond_stream, one turn at a time.    *)
(* In the console Conductor.respond_to runs respond, which leaves a lane   *)
(* that is late to itself: the turns of a console may overlap, after a     *)
(* deadline, an interrupt, or two workers passing the guard together (that *)
(* is modelled in Conductor).                                              *)
(*                                                                         *)
(* A staged action is named by the turn that staged it.  What the lane's   *)
(* model makes of the words is arbitrary, and so is whether a skill finds  *)
(* what it needs or raises.                                                *)
(***************************************************************************)
EXTENDS Naturals, FiniteSets

CONSTANTS
    MaxTurns,    \* turns of a behaviour, numbered in the order they are made
    Trios,       \* the trios of skills that are registered
    Privileged,  \* those that are operator_only
    Registries,  \* the registries to try: the trios that have the attribute params
    MaxCalls,    \* calls with a known contact that begin and end meanwhile
    MaxLive      \* threads of the console that are under way together

ASSUME TurnsAssumption ==
    /\ MaxTurns \in Nat \ {0}
    /\ MaxCalls \in Nat /\ MaxLive \in Nat \ {0}
    /\ Privileged \subseteq Trios
    /\ Registries \subseteq SUBSET Trios

Turns == 1..MaxTurns
NoTurn == 0
TurnOrNone == Turns \cup {NoTurn}
Hosts == {"daemon", "console"}
Speakers == {"operator", "far", "unknown"}  \* unknown is the empty string
Proposals == [trio : Trios, role : {"stage", "confirm", "cancel"}]
NoProposal == [trio |-> "none", role |-> "none"]

\* Where the thread of a turn stands.
Places == {"off", "announced", "running", "gate", "execute", "reply",
           "unrouted", "raised", "release", "over"}

VARIABLES
    host,       \* whose Brain this is
    declared,   \* the trios in its registry whose skills have the attribute params
    context,    \* brain.call_context is not empty
    calls,      \* how many calls have set it
    turn,       \* the turns: where each stands and what it holds
    lock,       \* holder of BrainHost._turn_lock
    staged,     \* per trio: its holder
    \* history
    asked,      \* per trio: the action the operator was last asked about
    executed,   \* per action: how often it was executed
    disturbed   \* two turns were under way together, or one was abandoned

vars == <<host, declared, context, calls, turn, lock, staged, asked, executed,
          disturbed>>
calling == <<host, declared, context, calls>>
history == <<asked, executed, disturbed>>

\* proposal: what the lane has proposed.  taken: the staged action that a
\* confirming skill has taken out.  prompts: the answer asks for a
\* confirmation.  late: nobody waits for the answer.  As history, agreed:
\* what had been asked when the turn was accepted; through: the turn is in a
\* known call and has been since it was made.
Thread == [at : Places, speaker : Speakers, proposal : Proposals \cup {NoProposal},
           taken : TurnOrNone, prompts : BOOLEAN, late : BOOLEAN,
           agreed : [Trios -> TurnOrNone], through : BOOLEAN]

NothingAsked == [k \in Trios |-> NoTurn]

Blank(place) ==
    [at |-> place, speaker |-> "operator", proposal |-> NoProposal,
     taken |-> NoTurn, prompts |-> FALSE, late |-> FALSE,
     agreed |-> NothingAsked, through |-> FALSE]

At(t, place) == turn[t].at = place
Live(t) == turn[t].at \notin {"off", "announced", "over"}
Goto(t, place) == turn' = [turn EXCEPT ![t].at = place]
Over(t) == turn' = [turn EXCEPT ![t] = Blank("over")]
TrioOf(t) == turn[t].proposal.trio

-----------------------------------------------------------------------------
(* The principal and the gate *)

\* mutant: _resolve_is_operator open by default
IsOperatorUnlessFar(who) == who # "far"

\* Brain._resolve_is_operator: a speaker who is not known is the operator
\* when there is no call.
IsOperator(who) == who = "operator" \/ (who = "unknown" /\ ~ context)

\* Authorizer.authorize.
Authorized(k, who) == k \notin Privileged \/ IsOperator(who)

\* SkillRegistry._visible_to: what a speaker is offered.
VisibleTo(who) == IF who = "far" THEN Trios \ Privileged ELSE Trios

\* Tier1Qwen.dispatch proposes a skill only if there is one to offer.
Offered(who) == VisibleTo(who) # {}

\* SkillRegistry.manifest reads the attribute params of every skill it
\* offers; where one has none, it raises.
ManifestRaises(who) == ~ (VisibleTo(who) \subseteq declared)

-----------------------------------------------------------------------------
Init ==
    /\ host \in Hosts /\ declared \in Registries
    /\ context = FALSE /\ calls = 0
    /\ turn = [t \in Turns |-> Blank("off")]
    /\ lock = NoTurn
    /\ staged = NothingAsked
    /\ asked = NothingAsked
    /\ executed = [t \in Turns |-> 0]
    /\ disturbed = FALSE

\* Somebody speaks; turns are made in the order of their numbers.
Made(t, who, place) ==
    /\ At(t, "off") /\ \A u \in 1..(t - 1) : ~ At(u, "off")
    /\ turn' = [turn EXCEPT ![t] = [Blank(place) EXCEPT
                    !.speaker = who, !.agreed = asked, !.through = context]]

\* A turn command: async_turn broadcasts brain_turn_started and then tries
\* the lock.
Announce(t, who) ==
    /\ host = "daemon"
    /\ Made(t, who, "announced")
    /\ UNCHANGED <<calling, lock, staged, history>>

\* mutant: async_turn without its lock
TakeNoLock(t) ==
    /\ At(t, "announced")
    /\ lock' = t
    /\ turn' = [turn EXCEPT ![t].at = "running", ![t].agreed = asked]
    /\ UNCHANGED <<calling, staged, history>>

\* The lock is free: the ack says ok, a thread runs the turn.  What counts as
\* agreed to is what has been asked by now.  (A question asked between the
\* words and the lock is answered by them, although they were not meant for
\* it: nothing in async_turn ties a confirmation to its question.)
TakeLock(t) ==
    /\ At(t, "announced")
    /\ lock = NoTurn
    /\ lock' = t
    /\ turn' = [turn EXCEPT ![t].at = "running", ![t].agreed = asked]
    /\ UNCHANGED <<calling, staged, history>>

\* mutant: a turn that finds the lock held is queued
BusyQueue(t) ==
    /\ At(t, "announced")
    /\ lock # NoTurn
    /\ Goto(t, "queued")
    /\ UNCHANGED <<calling, lock, staged, history>>

\* The lock is held: the ack says busy.
Busy(t) ==
    /\ At(t, "announced")
    /\ lock # NoTurn
    /\ Over(t)
    /\ UNCHANGED <<calling, lock, staged, history>>

\* The thread cannot be started: the lock is released, and the exception
\* ends the client's connection.
CannotStart(t) ==
    /\ At(t, "running") /\ lock = t
    /\ lock' = NoTurn
    /\ Over(t)
    /\ UNCHANGED <<calling, staged, history>>

\* The conductor calls respond on one of its workers.
Begin(t, who) ==
    /\ host = "console"
    /\ Cardinality({u \in Turns : Live(u)}) < MaxLive
    /\ Made(t, who, "running")
    /\ disturbed' = (disturbed \/ \E u \in Turns : Live(u))
    /\ UNCHANGED <<calling, lock, staged, asked, executed>>

-----------------------------------------------------------------------------
(* Routing *)

\* Tier 0 knows the words ("cancel" and "never mind" among them: it says
\* that it stands down, and the holders are left as they are); or it is a
\* conversation: the far party without a grant, Haiku, or the lane's model
\* chose no skill.
Talk(t) ==
    /\ At(t, "running")
    /\ Goto(t, "reply")
    /\ UNCHANGED <<calling, lock, staged, history>>

\* Tier1Qwen.dispatch: the lane proposes a skill.  Its grammar is scoped to
\* what the speaker is offered, but that is not what the gate relies on.
\* Whether the far party has a grant is left open (the daemon assumes it).
Propose(t, p) ==
    /\ At(t, "running")
    /\ Offered(turn[t].speaker) /\ ~ ManifestRaises(turn[t].speaker)
    /\ turn' = [turn EXCEPT ![t].at = "gate", ![t].proposal = p]
    /\ UNCHANGED <<calling, lock, staged, history>>

\* The prompt of the dispatch cannot be built.
Unrouted(t) ==
    /\ At(t, "running")
    /\ ManifestRaises(turn[t].speaker)
    /\ Goto(t, "unrouted")
    /\ UNCHANGED <<calling, lock, staged, history>>

\* authorize, and the skill is run at once if it allows ...
Allowed(t) == At(t, "gate") /\ Authorized(TrioOf(t), turn[t].speaker)

\* ... and else a refusal is said.
Deny(t) ==
    /\ At(t, "gate") /\ ~ Allowed(t)
    /\ Goto(t, "reply")
    /\ UNCHANGED <<calling, lock, staged, history>>

\* The lane's model cannot be reached, or a skill raises.
Raise(t) ==
    /\ At(t, "running") \/ Allowed(t)
    /\ Goto(t, "raised")
    /\ UNCHANGED <<calling, lock, staged, history>>

-----------------------------------------------------------------------------
(* The skills of a trio *)

Runs(t, role) == Allowed(t) /\ turn[t].proposal.role = role

\* Something is missing or not found, or several are: nothing is staged.
Decline(t) ==
    /\ Runs(t, "stage")
    /\ Goto(t, "reply")
    /\ UNCHANGED <<calling, lock, staged, history>>

\* stage: the action replaces what the holder held, the prompt is returned.
Stage(t) ==
    /\ Runs(t, "stage")
    /\ staged' = [staged EXCEPT ![TrioOf(t)] = t]
    /\ turn' = [turn EXCEPT ![t].at = "reply", ![t].prompts = TRUE]
    /\ UNCHANGED <<calling, lock, history>>

Cancel(t) ==
    /\ Runs(t, "cancel")
    /\ staged' = [staged EXCEPT ![TrioOf(t)] = NoTurn]
    /\ Goto(t, "reply")
    /\ UNCHANGED <<calling, lock, history>>

\* mutant: confirm leaves the action in the holder
ConfirmPeek(t) ==
    LET action == staged[TrioOf(t)] IN
    /\ Runs(t, "confirm")
    /\ turn' = [turn EXCEPT ![t].taken = action,
                    ![t].at = IF action = NoTurn THEN "reply" ELSE "execute"]
    /\ UNCHANGED <<calling, lock, staged, history>>

\* confirm takes the action out of the holder, if there is one (a few
\* accesses: two threads of a console could both come by it, where nothing
\* is claimed of it) ...
ConfirmTake(t) ==
    LET action == staged[TrioOf(t)] IN
    /\ Runs(t, "confirm")
    /\ staged' = [staged EXCEPT ![TrioOf(t)] = NoTurn]
    /\ turn' = [turn EXCEPT ![t].taken = action,
                    ![t].at = IF action = NoTurn THEN "reply" ELSE "execute"]
    /\ UNCHANGED <<calling, lock, history>>

\* ... and executes the action, which may raise after it has had its effect.
ConfirmExecute(t) ==
    /\ At(t, "execute")
    /\ executed' = [executed EXCEPT ![turn[t].taken] = @ + 1]
    /\ \E place \in {"reply", "raised"} : Goto(t, place)
    /\ UNCHANGED <<calling, lock, staged, asked, disturbed>>

-----------------------------------------------------------------------------
(* Answering *)

\* The thread has answered: async_turn has the lock to release, the console
\* nothing left to do.
Answered(t) == IF host = "daemon" THEN Goto(t, "release") ELSE Over(t)

\* What the operator hears: in the daemon the chunks and brain_reply are
\* broadcast; in the console the conductor speaks the reply, unless nobody
\* waits for it any more.
Reply(t) ==
    /\ At(t, "reply")
    /\ Answered(t)
    /\ asked' = IF turn[t].prompts /\ ~ turn[t].late
                THEN [asked EXCEPT ![TrioOf(t)] = t] ELSE asked
    /\ UNCHANGED <<calling, lock, staged, executed, disturbed>>

\* mutant: the release comes after the broadcast, and not in a finally
TellErrorKeepingLock(t) ==
    /\ At(t, "unrouted") \/ At(t, "raised")
    /\ Over(t)
    /\ UNCHANGED <<calling, lock, staged, history>>

\* An exception: in the daemon an error event, in the console a reply that
\* says so.
TellError(t) ==
    /\ At(t, "unrouted") \/ At(t, "raised")
    /\ Answered(t)
    /\ UNCHANGED <<calling, lock, staged, history>>

\* async_turn's finally.
Release(t) ==
    /\ At(t, "release")
    /\ lock' = NoTurn
    /\ Over(t)
    /\ UNCHANGED <<calling, staged, history>>

\* run_with_masking's deadline passes, and the fallback is said; or the
\* operator interrupts, and the result will be dropped.  The thread of the
\* lane is not stopped.
Abandon(t) ==
    /\ host = "console"
    /\ Live(t) /\ ~ turn[t].late
    /\ turn' = [turn EXCEPT ![t].late = TRUE]
    /\ disturbed' = TRUE
    /\ UNCHANGED <<calling, lock, staged, asked, executed>>

-----------------------------------------------------------------------------
(* Calls.  The engine sets the context when a call with a known contact is *)
(* connected (see CallHandling): only in the daemon, in the console nobody *)
(* does.  Any other call leaves no trace in the Brain.                     *)

CallBegins ==
    /\ host = "daemon"
    /\ ~ context /\ calls < MaxCalls
    /\ context' = TRUE
    /\ calls' = calls + 1
    /\ UNCHANGED <<host, declared, turn, lock, staged, history>>

CallEnds ==
    /\ context
    /\ context' = FALSE
    /\ turn' = [t \in Turns |-> [turn[t] EXCEPT !.through = FALSE]]
    /\ UNCHANGED <<host, declared, calls, lock, staged, history>>

-----------------------------------------------------------------------------
\* The steps of a turn once it has been made.
TurnStep(t) ==
    \/ TakeLock(t) \/ Busy(t) \/ CannotStart(t)
    \/ Talk(t) \/ Unrouted(t) \/ Deny(t) \/ Raise(t)
    \/ \E p \in Proposals : Propose(t, p)
    \/ Decline(t) \/ Stage(t) \/ Cancel(t)
    \/ ConfirmTake(t) \/ ConfirmExecute(t)
    \/ Reply(t) \/ TellError(t) \/ Release(t)

Next ==
    \/ \E t \in Turns, who \in Speakers : Announce(t, who) \/ Begin(t, who)
    \/ \E t \in Turns : TurnStep(t) \/ Abandon(t)
    \/ CallBegins \/ CallEnds

\* Threads run; the model, the roster, the mail server and tincand answer or
\* raise.  Every call the lanes make has a timeout, except the subprocess of
\* the delegation: of that one it is assumed.
Fairness == WF_vars(\E t \in Turns : TurnStep(t))

Spec == Init /\ [][Next]_vars /\ Fairness

-----------------------------------------------------------------------------
TypeOK ==
    /\ host \in Hosts /\ declared \in Registries
    /\ context \in BOOLEAN /\ calls \in 0..MaxCalls
    /\ turn \in [Turns -> Thread]
    /\ lock \in TurnOrNone
    /\ staged \in [Trios -> TurnOrNone]
    /\ asked \in [Trios -> TurnOrNone]
    /\ executed \in [Turns -> Nat]
    /\ disturbed \in BOOLEAN

\* In the daemon always; in the console as long as no turn is left to itself
\* and none overlaps another.
OneAtATime == host = "daemon" \/ ~ disturbed

\* Nothing is executed that was not agreed to: the action a confirmation
\* executes is the one the operator was asked about last before his turn was
\* accepted.  It rests on the turn lock, and on the answers being heard
\* before the next turn begins.
ConfirmsWhatWasAsked ==
    \A t \in Turns :
        At(t, "execute") /\ OneAtATime => turn[t].taken = turn[t].agreed[TrioOf(t)]

\* A staged action is executed once at most, although confirming is several
\* accesses to the holder and the execution may fail half way.
ExecutedOnce == OneAtATime => \A t \in Turns : executed[t] <= 1

\* The holder of a privileged trio is changed for the operator only, be it
\* to stage, to confirm or to cancel: never for the far party, and for an
\* unknown speaker only if the known call in which he spoke is over or there
\* was none.
OperatorActs ==
    [][\A k \in Privileged, t \in Turns :
           (staged'[k] # staged[k] /\ turn'[t] # turn[t]) =>
               /\ turn[t].speaker # "far"
               /\ turn[t].speaker = "unknown" => ~ turn[t].through]_vars

\* Turns come to their end, whatever raises: at some time nothing is under
\* way and the lock is free again.  (It is the turn that takes the lock and
\* keeps it that would end all conversation with the daemon.)
EveryTurnEnds ==
    []<>(lock = NoTurn /\ \A t \in Turns : At(t, "off") \/ At(t, "over"))

\* What is executed was asked, agreed to, and is executed once.
ConfirmedOnceAsAsked == ConfirmsWhatWasAsked /\ ExecutedOnce
=============================================================================
