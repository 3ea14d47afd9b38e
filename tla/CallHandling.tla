---------------------------- MODULE CallHandling ----------------------------
(***************************************************************************)
(* How the daemon follows a telephone call: tincand's signals, the         *)
(* HandlingEngine with its AttentionLock and PolicyResolver, the call      *)
(* context BrainHost gives the Brain and keeps in roster.db, the one call  *)
(* card session, and the dial_confirm skill that waits for CallConnected.  *)
(*                                                                         *)
(* tincand's signals carry no call id, so the engine pairs IncomingCall,   *)
(* CallConnected and CallEnded by their order alone; calls are told apart  *)
(* here only in history variables and on tincand's own side.  One D-Bus    *)
(* thread runs the handlers, one at a time; the skill runs on a brain turn *)
(* and the daemon may stop and start at any point.                         *)
(***************************************************************************)
EXTENDS Integers, Sequences, FiniteSets

CONSTANTS
    Calls,          \* telephone calls, each used once
    Contacts,       \* the roster
    Rule,           \* contacts.handling_rule
    NoContact,      \* no roster entry, and None
    NoCall,         \* None, where a call is kept
    MaxStops        \* bound: times the daemon is stopped

Verbs == {"ring_with_announcement", "ring_through", "screen", "take_message", "ignore"}

ASSUME RuleAssumption == Rule \in [Contacts -> Verbs]
ASSUME StopsAssumption == MaxStops \in Nat
ASSUME NoneAssumption == NoContact \notin Contacts /\ NoCall \notin Calls

VARIABLES
    line,       \* tincand's calls: phase and caller or callee
    signals,    \* D-Bus signals the daemon has not handled
    running,    \* the daemon process
    owner,      \* AttentionLock._active_call_id
    pending,    \* HandlingEngine._pending_contact
    ctx,        \* Brain.call_context and BrainHost._ctx
    row,        \* the brain_context rows
    session,    \* CallCardHost._session: history of its call, its contact
    dnd,        \* PostureManager.effective()["dnd"]
    dialling,   \* the call ConfirmDialSkill waits for
    heard,      \* DialVoiceSkills._connected
    stops,
    treatment,  \* history: what the engine did with each caller
    connected,  \* history: calls whose CallConnected was handled
    overlapped, \* history: two calls since the line was last quiet
    lost,       \* history: signals lost on a stopped daemon since a CallEnded
    failed      \* history: a database write raised since the last CallEnded

phone == <<line, signals, overlapped>>
context == <<ctx, row, failed>>
skill == <<dialling, heard>>
history == <<treatment, connected, lost>>
vars == <<phone, context, skill, history, running, owner, pending, session, dnd, stops>>

NoSession == [call |-> NoCall, who |-> NoContact]
Someone == Contacts \cup {NoContact}
InProgress(k) == line[k].phase \in {"ringing", "up"}

TypeOK ==
    /\ line \in [Calls -> [phase : {"idle", "ringing", "up", "over"}, who : Someone]]
    /\ signals \in Seq([kind : {"incoming", "connected", "ended"}, call : Calls])
    /\ owner \in Calls \cup {NoCall}
    /\ {pending, ctx, row} \subseteq Someone
    /\ session \in [call : Calls, who : Someone] \cup {NoSession}
    /\ dialling \in Calls \cup {NoCall}
    /\ {running, dnd, heard, overlapped, lost, failed} \subseteq BOOLEAN
    /\ treatment \in [Calls -> {"none", "offered", "missed", "ignored", "dropped"}]
    /\ connected \subseteq Calls
    /\ stops \in 0 .. MaxStops

Init ==
    /\ line = [k \in Calls |-> [phase |-> "idle", who |-> NoContact]]
    /\ signals = <<>>
    /\ running = TRUE
    /\ owner = NoCall
    /\ pending = NoContact /\ ctx = NoContact /\ row = NoContact
    /\ session = NoSession
    /\ dnd \in BOOLEAN
    /\ dialling = NoCall
    /\ heard = FALSE
    /\ stops = 0
    /\ treatment = [k \in Calls |-> "none"]
    /\ connected = {}
    /\ overlapped = FALSE /\ lost = FALSE /\ failed = FALSE

----------------------------------------------------------------------------
(* tincand.  A signal to a daemon that is not running is lost.               *)

Emitted(kinds, k) == [i \in DOMAIN kinds |-> [kind |-> kinds[i], call |-> k]]

Emit(kind, k) ==
    IF running THEN signals' = Append(signals, [kind |-> kind, call |-> k]) /\ UNCHANGED lost
               ELSE lost' = TRUE /\ UNCHANGED signals

Begin(k, who) ==
    /\ line[k].phase = "idle"
    /\ line' = [line EXCEPT ![k] = [phase |-> "ringing", who |-> who]]
    /\ overlapped' = \/ \E j \in Calls : InProgress(j)
                     \/ overlapped /\ signals # <<>>

Ring(k, who) ==
    /\ Begin(k, who)
    /\ Emit("incoming", k)
    /\ UNCHANGED <<context, skill, treatment, connected, running, owner, pending,
                   session, dnd, stops>>

\* Somebody picks up, at either end and on whatever device.
PickUp(k) ==
    /\ line[k].phase = "ringing"
    /\ line' = [line EXCEPT ![k].phase = "up"]
    /\ Emit("connected", k)
    /\ UNCHANGED <<context, skill, treatment, connected, overlapped, running, owner,
                   pending, session, dnd, stops>>

End(k) ==
    /\ InProgress(k)
    /\ line' = [line EXCEPT ![k].phase = "over"]
    /\ Emit("ended", k)
    /\ UNCHANGED <<context, skill, treatment, connected, overlapped, running, owner,
                   pending, session, dnd, stops>>

\* Answer(call_id) and Hangup(call_id) with the engine's own uuid: tincand may
\* act on its only call, or refuse an id it does not know.
Asked(k, outcomes) ==
    \E kinds \in (IF line[k].phase = "ringing" THEN outcomes ELSE {<<>>}) :
        /\ signals' = Tail(signals) \o Emitted(kinds, k)
        /\ line' = IF kinds = <<>> THEN line
                   ELSE [line EXCEPT ![k].phase =
                            IF kinds[Len(kinds)] = "ended" THEN "over" ELSE "up"]

NotAsked == signals' = Tail(signals) /\ UNCHANGED line
AnswerOutcomes == {<<>>, <<"connected">>}
IgnoreOutcomes == AnswerOutcomes \cup {<<"ended">>, <<"connected", "ended">>}

----------------------------------------------------------------------------
(* The wiring of TincanCallControl.emit in main(): building the Brain wraps  *)
(* it, and main() then assigns it.                                           *)

BrainWiring(emit) == emit \cup {"dial"}
MainWiring(emit) == {"engine"}
EmitTargets == MainWiring(BrainWiring({}))

(* PolicyResolver.resolve.                                                   *)

Degrade(verb) ==
    CASE verb = "ring_through" -> "screen"
      [] verb = "screen"       -> "take_message"
      [] OTHER                 -> verb

Resolve(who) ==
    LET base == IF who = NoContact THEN "screen" ELSE Rule[who]
    IN  IF dnd THEN Degrade(base) ELSE base

Delivered(kind, k) ==
    /\ running
    /\ signals # <<>>
    /\ Head(signals) = [kind |-> kind, call |-> k]

----------------------------------------------------------------------------
(* HandlingEngine.on_incoming_call, a branch an action.                      *)

\* A caller who finds the lock held: a notification, no choice set.
IncomingWhileBusy(k) ==
    /\ Delivered("incoming", k)
    /\ owner # NoCall
    /\ treatment' = [treatment EXCEPT ![k] = "missed"]
    /\ NotAsked
    /\ UNCHANGED <<context, skill, connected, lost, overlapped, running, owner, pending,
                   session, dnd, stops>>

IncomingIgnored(k) ==
    /\ Delivered("incoming", k)
    /\ owner = NoCall
    /\ Resolve(line[k].who) = "ignore"
    /\ pending' = line[k].who
    /\ treatment' = [treatment EXCEPT ![k] = "ignored"]
    /\ Asked(k, IgnoreOutcomes)
    /\ UNCHANGED <<context, skill, connected, lost, overlapped, running, owner,
                   session, dnd, stops>>

\* mutant: on_incoming_call without its is_busy branch
OfferWithoutLooking(k) ==
    /\ Delivered("incoming", k)
    /\ Resolve(line[k].who) # "ignore"
    /\ pending' = line[k].who
    /\ owner' = IF owner = NoCall THEN k ELSE owner
    /\ treatment' = [treatment EXCEPT ![k] = IF owner = NoCall THEN "offered" ELSE "dropped"]
    /\ NotAsked
    /\ UNCHANGED <<context, skill, connected, lost, overlapped, running,
                   session, dnd, stops>>

\* Everyone else: acquire() (a refusal would drop the caller with a warning),
\* the choice set to the consoles, and Answer() when the verb takes the call.
IncomingOffered(k) ==
    /\ Delivered("incoming", k)
    /\ owner = NoCall
    /\ Resolve(line[k].who) # "ignore"
    /\ pending' = line[k].who
    /\ owner' = k
    /\ treatment' = [treatment EXCEPT ![k] = "offered"]
    /\ IF Resolve(line[k].who) \in {"screen", "take_message"}
         THEN Asked(k, AnswerOutcomes)
         ELSE NotAsked
    /\ UNCHANGED <<context, skill, connected, lost, overlapped, running,
                   session, dnd, stops>>

----------------------------------------------------------------------------
(* CallConnected and CallEnded.                                              *)

\* _write_context: one transaction; an sqlite3 error propagates.
Write(who, raised) == row' = IF raised THEN row ELSE who

\* start_session: a second session is refused.
StartSession(k) ==
    session' = IF session = NoSession THEN [call |-> k, who |-> pending] ELSE session

\* mutant: the early return for an unknown contact comes before start_session
OnConnectedKnownOnly(k) ==
    /\ Delivered("connected", k)
    /\ NotAsked
    /\ IF pending # NoContact
         THEN ctx' = pending /\ Write(pending, FALSE) /\ StartSession(k)
         ELSE UNCHANGED <<ctx, row, session>>
    /\ UNCHANGED failed
    /\ heard' = (heard \/ "dial" \in EmitTargets)
    /\ connected' = connected \cup {k}
    /\ UNCHANGED <<treatment, lost, overlapped, dialling, running, owner, pending, dnd, stops>>

\* on_call_connected: the context of a known caller, then the call card; if
\* writing the context or the card's own row raises, no session is started.
OnConnected(k) ==
    /\ Delivered("connected", k)
    /\ NotAsked
    /\ \E raised \in {"nowhere", "context", "card"} :
          /\ IF pending = NoContact
               THEN raised # "context" /\ UNCHANGED <<ctx, row>>
               ELSE ctx' = pending /\ Write(pending, raised = "context")
          /\ IF raised = "nowhere" THEN StartSession(k) ELSE UNCHANGED session
          /\ failed' = (failed \/ raised # "nowhere")
    /\ heard' = (heard \/ "dial" \in EmitTargets)
    /\ connected' = connected \cup {k}
    /\ UNCHANGED <<treatment, lost, overlapped, dialling, running, owner, pending, dnd, stops>>

\* mutant: release() stores the id it is given
ReleaseTo(id) == owner' = IF owner = id THEN NoCall ELSE id

\* AttentionLock.release: only the id that holds it.  CallEnded has none.
Release(id) == owner' = IF owner = id THEN NoCall ELSE owner
CallEndedId == ""

\* mutant: the row of the context is left for the next call to overwrite
ClearInMemory(raised) ==
    /\ ctx' = NoContact
    /\ UNCHANGED row

ClearContext(raised) ==
    /\ ctx' = NoContact
    /\ Write(NoContact, raised)

\* mutant: on_call_ended forgets the pending contact's reset
OnEndedKeepingCaller(k) ==
    /\ Delivered("ended", k)
    /\ NotAsked
    /\ session' = NoSession
    /\ Release(CallEndedId)
    /\ ClearContext(FALSE)
    /\ failed' = FALSE
    /\ lost' = FALSE
    /\ UNCHANGED <<skill, treatment, connected, overlapped, running, pending, dnd, stops>>

\* on_call_ended: stop_session(""), which is whatever session there is, release,
\* and the context.  If marking the card as ended raises, that is all.
OnEnded(k) ==
    /\ Delivered("ended", k)
    /\ NotAsked
    /\ session' = NoSession
    /\ \/ \E raised \in BOOLEAN :
             /\ Release(CallEndedId)
             /\ pending' = NoContact
             /\ ClearContext(raised)
             /\ failed' = raised
             /\ lost' = FALSE
       \/ /\ session # NoSession
          /\ failed' = TRUE
          /\ UNCHANGED <<owner, pending, ctx, row, lost>>
    /\ UNCHANGED <<skill, treatment, connected, overlapped, running, dnd, stops>>

----------------------------------------------------------------------------
(* ConfirmDialSkill, on a brain turn; TurnLock allows one at a time.         *)

\* Pop the staged contact, clear the event, Dial.  (When the D-Bus call fails the
\* skill says so at once and nothing changes here.)
DialConfirm(k, who) ==
    /\ running
    /\ dialling = NoCall
    /\ Begin(k, who)
    /\ heard' = FALSE
    /\ dialling' = k
    /\ UNCHANGED <<context, history, signals, running, owner, pending, session, dnd, stops>>

\* wait() returns: at once when the event is set, or FALSE after 15 s, and then
\* the operator hears "I couldn't connect the call."
DialReturns ==
    /\ dialling # NoCall
    /\ dialling' = NoCall
    /\ UNCHANGED <<phone, context, history, heard, running, owner, pending, session, dnd, stops>>

----------------------------------------------------------------------------
SetPosture ==
    /\ dnd' = ~dnd
    /\ UNCHANGED <<phone, context, skill, history, running, owner, pending, session, stops>>

\* The process stops, between two handlers or inside one.
Stop ==
    /\ running
    /\ stops < MaxStops
    /\ stops' = stops + 1
    /\ running' = FALSE
    /\ lost' = (lost \/ signals # <<>>)
    /\ signals' = <<>>
    /\ owner' = NoCall
    /\ pending' = NoContact
    /\ ctx' = NoContact
    /\ session' = NoSession
    /\ dialling' = NoCall
    /\ heard' = FALSE
    /\ treatment' = [k \in Calls |-> "none"]
    /\ connected' = {}
    /\ UNCHANGED <<line, overlapped, row, failed, dnd>>

\* _restore_context: whoever the rows say is in the call.
Start ==
    /\ ~running
    /\ running' = TRUE
    /\ ctx' = row
    /\ UNCHANGED <<phone, row, failed, skill, history, owner, pending, session, dnd, stops>>

Incoming(k) == IncomingWhileBusy(k) \/ IncomingIgnored(k) \/ IncomingOffered(k)

Next ==
    \/ \E k \in Calls, who \in Someone : Ring(k, who)
    \/ \E k \in Calls, who \in Contacts : DialConfirm(k, who)
    \/ \E k \in Calls :
          PickUp(k) \/ End(k) \/ Incoming(k) \/ OnConnected(k) \/ OnEnded(k)
    \/ DialReturns
    \/ SetPosture
    \/ Stop
    \/ Start

Spec == Init /\ [][Next]_vars

----------------------------------------------------------------------------
(* Properties.                                                             *)

\* The line is quiet and the daemon has caught up with it.
Drained == running /\ signals = <<>> /\ \A k \in Calls : ~InProgress(k)

EndQueued(k) == \E i \in DOMAIN signals : signals[i] = [kind |-> "ended", call |-> k]

\* Every caller is offered to the operator, reported missed or ignored as the
\* roster says; the return of on_incoming_call that only logs an "AttentionLock
\* race" is never taken, because one D-Bus thread runs the handlers.
EveryCallerIsTreated == \A k \in Calls : treatment[k] # "dropped"

\* While calls come one at a time, a connected call is recorded until it ends, in
\* a session of its own and under no other caller's name, although the signals
\* do not say which call they are about.  (A write that raised skips the session,
\* or leaves the last caller pending.)
RecordsTheCall ==
    (~overlapped /\ ~failed) =>
        /\ \A k \in connected : (InProgress(k) \/ EndQueued(k)) => session.call = k
        /\ session.who # NoContact => session.who = line[session.call].who

\* While calls come one at a time and nothing is lost, the Brain answers with the
\* preferences of a contact only during that contact's call; also after a
\* restart, which takes the contact from the database.
ContextOnlyInItsCall ==
    (ctx # NoContact /\ ~overlapped /\ ~lost /\ ~failed) =>
        \E k \in Calls : line[k].who = ctx /\ (InProgress(k) \/ EndQueued(k))

\* Once the line is quiet nothing of a call is left, in memory or in the
\* database, whatever overlapped or was restarted before.
DrainedMeansClear ==
    (Drained /\ ~lost /\ ~failed) =>
        pending = NoContact /\ ctx = NoContact /\ row = NoContact /\ session = NoSession

\* AttentionLock's docstring: release() must be called when the call ends.  The
\* lock is free once the line is quiet.
AttentionFreed == Drained => owner = NoCall

\* The Brain answers for the caller on the line, and for nobody when there is none.
ContextIsTheCallers == ContextOnlyInItsCall /\ DrainedMeansClear

\* Nobody who calls is overlooked, and who is put through is recorded as who he is.
CallersAreServed == EveryCallerIsTreated /\ RecordsTheCall
=============================================================================
