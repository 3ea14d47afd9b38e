------------------------------ MODULE RideAlong ------------------------------
(***************************************************************************)
(* The console riding along on phone calls without a daemon (direct mode). *)
(* tincand's signals reach TincanCallControl on the D-Bus thread, which    *)
(* keeps the call's audio endpoint and queues events; the UI thread drains *)
(* the queue: it adopts the endpoint, announces Iris to the far party in a *)
(* worker thread, and opens far-party transcription when the announcement  *)
(* has been played.  The operator's keys go in between.  Between a signal, *)
(* the handling of its event and the end of an announcement the line moves *)
(* on: calls end and others begin.                                         *)
(*                                                                         *)
(* Speech models are installed (otherwise no transcriber starts).  Left to *)
(* the module Conductor: mute, the operator's own transcription, turns.    *)
(***************************************************************************)
EXTENDS Naturals, FiniteSets, Sequences

CONSTANTS
    Monitor,        \* iris_ear.monitor, when the endpoint has no far source
    Default,        \* where pw-record falls back to: the operator's microphone
    MaxCalls,       \* bound: calls on the line, one after the other
    MaxKeys         \* bound: keys the operator presses

ASSUME BoundsAssumption == MaxCalls \in Nat /\ MaxKeys \in Nat
ASSUME SourcesAssumption == Monitor # Default /\ {Monitor, Default} \cap Nat = {}

VARIABLES
    line,           \* tincand: the last call, ringing, up or over
    signals,        \* signals the D-Bus thread has not handled yet
    endpoint,       \* TincanCallControl.endpoint, Local when there is none
    home,           \* _local_mic: the endpoint the console came up with
    events,         \* IrisConsole.events
    open,           \* the console runs
    inCall, farAnnounced,       \* _in_call, _far_announced
    mic,            \* IrisConsole.mic and Conductor.mic
    farRef,         \* _far_stream: a far-party transcriber, by its number
    far,            \* the far-party transcribers, in the order they were started
    workers,        \* announcement workers, in the order they were spawned
    armed, trust,   \* Conductor: trust armed, far-party trust mode
    keys,           \* keys pressed so far
    heard,          \* history: calls whose far party heard an announcement
    misplayed,      \* history: calls in which the player of an announcement failed
    failed,         \* history: calls an announcement to which raised, or never began
    gateBy,         \* history: what the announcement that last opened the gate was played to
    doubled         \* history: an announcement was under way when another one was
                    \* begun or the far stream was opened without it

phone == <<line, signals, endpoint, home>>
audio == <<mic, farRef, far>>
trustState == <<armed, trust>>
gate == <<heard, misplayed, failed, gateBy, doubled>>
console == <<open, inCall, farAnnounced, audio, trustState>>
vars == <<phone, events, console, workers, keys, gate>>

Calls == 1 .. MaxCalls
None == 0
Local == [call |-> None, ear |-> FALSE]
Endpoints == [call : Calls, ear : BOOLEAN] \cup {Local}
TrustModes == {"none", "local", "both"}

Up(call) == line = [call |-> call, at |-> "up"]
UpCall == IF line.at = "up" THEN line.call ELSE None
Quiet == signals = <<>> /\ events = <<>>
Done == [at |-> "over", into |-> Local]
Stop == [on |-> FALSE, source |-> Monitor, by |-> Local]
\* A far stream that is opened while _in_call is FALSE: by no announcement.
Ungated == [call |-> None, ear |-> TRUE]
\* An announcement is being played, or its event waits to be drained.
UnderWay ==
    \/ \E w \in DOMAIN workers : workers[w] # Done
    \/ \E i \in DOMAIN events : events[i].kind = "announced" /\ events[i].ok

TypeOK ==
    /\ line \in [call : 0 .. MaxCalls, at : {"over", "ringing", "up"}]
    /\ signals \in Seq([kind : {"incoming", "connected", "ended"}, call : Calls])
    /\ {endpoint, home, mic} \subseteq Endpoints
    /\ \A i \in DOMAIN events :
          events[i].kind \in {"incoming", "connected", "ended", "announced"}
    /\ {open, inCall, farAnnounced, armed, doubled} \subseteq BOOLEAN
    /\ farRef \in {None} \cup DOMAIN far
    /\ far \in Seq([on : BOOLEAN, source : Calls \cup {Monitor, Default}, by : Endpoints \cup {Ungated}])
    /\ workers \in Seq([at : {"begin", "play", "over"}, into : Endpoints])
    /\ trust \in TrustModes
    /\ keys \in 0 .. MaxKeys
    /\ heard \subseteq Calls /\ misplayed \subseteq Calls /\ failed \subseteq Calls
    /\ gateBy \in Endpoints

\* on_mount, without a daemon: ctrl.start().  The console may be started while a call is
\* up; then, if it is told to (IRIS_AUDIO=tincan-sco), on the nodes of that call.
Init ==
    /\ \/ line = [call |-> 0, at |-> "over"] /\ home = Local
       \/ /\ line = [call |-> 1, at |-> "up"] /\ MaxCalls > 0
          /\ home \in {Local} \cup [call : {1}, ear : BOOLEAN]
    /\ signals = <<>> /\ endpoint = Local
    /\ events = <<>>
    /\ open = TRUE /\ inCall = FALSE /\ farAnnounced = FALSE
    /\ mic = home /\ farRef = None /\ far = <<>>
    /\ workers = <<>>
    /\ armed = FALSE /\ trust = "none"
    /\ keys = 0
    /\ heard = {} /\ misplayed = {} /\ failed = {} /\ gateBy = Local /\ doubled = FALSE

----------------------------------------------------------------------------
(* tincand: one line, incoming and outgoing calls.  When a call ends its     *)
(* nodes vanish and the session manager feeds their recorders from the       *)
(* default source.                                                           *)

Signal(kind, call) == signals' = Append(signals, [kind |-> kind, call |-> call])
Rerouted(call) ==
    [f \in DOMAIN far |-> IF far[f].source = call THEN [far[f] EXCEPT !.source = Default]
                                                  ELSE far[f]]

Ring ==
    /\ line.at = "over" /\ line.call < MaxCalls
    /\ line' = [call |-> line.call + 1, at |-> "ringing"]
    /\ Signal("incoming", line.call + 1)
    /\ UNCHANGED <<endpoint, home, events, console, workers, keys, gate>>

Connect ==
    /\ \/ line.at = "ringing" /\ line' = [line EXCEPT !.at = "up"]
       \/ line.at = "over" /\ line.call < MaxCalls      \* the operator dials
             /\ line' = [call |-> line.call + 1, at |-> "up"]
    /\ Signal("connected", line'.call)
    /\ UNCHANGED <<endpoint, home, events, console, workers, keys, gate>>

LineEnds ==
    /\ line.at # "over"
    /\ line' = [line EXCEPT !.at = "over"]
    /\ Signal("ended", line.call)
    /\ far' = Rerouted(line.call)
    /\ UNCHANGED <<endpoint, home, events, open, inCall, farAnnounced, mic, farRef, workers,
                   trustState, keys, gate>>

----------------------------------------------------------------------------
(* The D-Bus thread, one signal at a time.                                   *)

Emit(event) == events' = Append(events, event)
Handling(kind) == signals # <<>> /\ Head(signals).kind = kind /\ signals' = Tail(signals)

\* auto_answer is off in the console.
OnIncoming ==
    /\ Handling("incoming")
    /\ Emit(Head(signals))
    /\ UNCHANGED <<line, endpoint, home, console, workers, keys, gate>>

\* _on_connected: the nodes of whatever call is up by now, if they are found
\* within the retries; without a sink the endpoint stays as it is.
OnConnected ==
    /\ Handling("connected")
    /\ \/ UNCHANGED endpoint
       \/ UpCall # None /\ \E ear \in BOOLEAN : endpoint' = [call |-> UpCall, ear |-> ear]
    /\ Emit(Head(signals))
    /\ UNCHANGED <<line, home, console, workers, keys, gate>>

OnEnded ==
    /\ Handling("ended")
    /\ endpoint' = Local
    /\ Emit(Head(signals))
    /\ UNCHANGED <<line, home, console, workers, keys, gate>>

----------------------------------------------------------------------------
(* _announce_then_hear_far, from the UI thread, and its worker.              *)

\* mutant: no announcement is begun while another one is under way
AnnounceUnlessBusy(m) ==
    /\ workers' = IF m.ear /\ ~UnderWay THEN Append(workers, [at |-> "begin", into |-> Local])
                                        ELSE workers
    /\ doubled' = (doubled \/ (m.ear /\ UnderWay))

\* Without a far source it fails closed: nothing is announced.
Announce(m) ==
    /\ workers' = IF m.ear THEN Append(workers, [at |-> "begin", into |-> Local])
                           ELSE workers
    /\ doubled' = (doubled \/ (m.ear /\ UnderWay))

\* self.mic is read first, then the phrase is synthesised and played into it.
Play(w) ==
    /\ workers[w].at = "begin"
    /\ workers' = [workers EXCEPT ![w] = [at |-> "play", into |-> mic]]
    /\ UNCHANGED <<phone, events, console, keys, gate>>

\* The far party of a call that is still up.
AtTheOtherEnd(w) == {workers[w].into.call} \cap {UpCall} \cap Calls

\* The player ended.  Its exit status is not looked at: it counts as played whether or not
\* the line was up to the end, and whether or not the player failed.
Played(w) ==
    /\ workers[w].at = "play"
    /\ workers' = [workers EXCEPT ![w] = Done]
    /\ \/ heard' = heard \cup AtTheOtherEnd(w) /\ UNCHANGED misplayed
       \/ misplayed' = misplayed \cup AtTheOtherEnd(w) /\ UNCHANGED heard
    /\ Emit([kind |-> "announced", ok |-> TRUE, into |-> workers[w].into])
    /\ UNCHANGED <<phone, console, keys, failed, gateBy, doubled>>

\* Synthesis or the player's start raised.
PlayFails(w) ==
    /\ workers[w].at = "play"
    /\ workers' = [workers EXCEPT ![w] = Done]
    /\ failed' = failed \cup ({workers[w].into.call} \cap Calls)
    /\ Emit([kind |-> "announced", ok |-> FALSE, into |-> workers[w].into])
    /\ UNCHANGED <<phone, console, keys, heard, misplayed, gateBy, doubled>>

\* A worker that has not begun is cancelled by an exclusive one of its group, such as that
\* of a command to Iris.
Overtaken(w) ==
    /\ open /\ workers[w].at = "begin"
    /\ workers' = [workers EXCEPT ![w] = Done]
    /\ failed' = failed \cup ({mic.call} \cap Calls)
    /\ UNCHANGED <<phone, events, console, keys, heard, misplayed, gateBy, doubled>>

----------------------------------------------------------------------------
(* The UI thread: one event of _drain.                                       *)

Drain(kind) == open /\ events # <<>> /\ Head(events).kind = kind /\ events' = Tail(events)

Stopped(f) == [g \in DOMAIN far |-> IF g = f THEN Stop ELSE far[g]]

\* _start_far_stream: the endpoint's far source at this moment, whatever
\* _far_stream holds.
FarSource == IF ~mic.ear THEN Monitor ELSE IF Up(mic.call) THEN mic.call ELSE Default
StartFar(by) ==
    /\ far' = Append(far, [on |-> TRUE, source |-> FarSource, by |-> by])
    /\ farRef' = Len(far')

\* Only names are kept: whom the card and the consent log will show.
DrainIncoming ==
    /\ Drain("incoming")
    /\ UNCHANGED <<phone, console, workers, keys, gate>>

\* mutant: the far stream of the call before is kept
KeepStaleFar == UNCHANGED <<far, farRef>>

DropStaleFar == far' = Stopped(farRef) /\ farRef' = None

\* _attach_call_audio takes the endpoint of the control object at this moment;
\* _begin_ride_along announces.
DrainConnected ==
    /\ Drain("connected")
    /\ inCall' = TRUE
    /\ DropStaleFar
    /\ mic' = IF endpoint = Local THEN mic ELSE endpoint
    /\ farAnnounced' = FALSE
    /\ Announce(mic')
    /\ UNCHANGED <<phone, open, trustState, keys, heard, misplayed, failed, gateBy>>

\* mutant: the call's audio is kept while a far-party transcriber is there
DetachWhenFarIsOff == mic' = IF farRef = None THEN home ELSE mic

DetachCallAudio == mic' = home

\* The far stream and the trust stay as they are.
DrainEnded ==
    /\ Drain("ended")
    /\ inCall' = FALSE
    /\ DetachCallAudio
    /\ farAnnounced' = FALSE
    /\ UNCHANGED <<phone, open, farRef, far, workers, trustState, keys, gate>>

\* mutant: the gate opens whether or not the announcement was played
AcceptAny == TRUE

Accepted == Head(events).ok

DrainAnnounced ==
    /\ Drain("announced")
    /\ IF Accepted
         THEN /\ farAnnounced' = TRUE
              /\ gateBy' = Head(events).into
              /\ StartFar(Head(events).into)
         ELSE UNCHANGED <<farAnnounced, gateBy, far, farRef>>
    /\ UNCHANGED <<phone, open, inCall, mic, workers, trustState, keys, heard, misplayed,
                   failed, doubled>>

----------------------------------------------------------------------------
(* The operator.                                                             *)

Press == open /\ keys < MaxKeys /\ keys' = keys + 1

\* [f]: off, with the far party's grant; or on, after an announcement when in a call that
\* began under the console.
KeyFar ==
    /\ Press
    /\ IF farRef # None
         THEN /\ far' = Stopped(farRef)
              /\ farRef' = None
              /\ trust' = IF trust = "both" THEN "local" ELSE trust
              /\ UNCHANGED <<workers, doubled>>
         ELSE /\ UNCHANGED trust
              /\ IF inCall /\ ~farAnnounced
                   THEN Announce(mic) /\ UNCHANGED <<far, farRef>>
                   ELSE /\ StartFar(IF inCall THEN gateBy ELSE Ungated)
                        /\ doubled' = (doubled \/ UnderWay)
                        /\ UNCHANGED workers
    /\ UNCHANGED <<phone, events, open, inCall, farAnnounced, mic, armed,
                   heard, misplayed, failed, gateBy>>

\* The button of the ActiveCallCard, which is shown during a call.
ArmTrust ==
    /\ Press
    /\ inCall /\ ~armed
    /\ armed' = TRUE
    /\ UNCHANGED <<phone, events, open, inCall, farAnnounced, audio, trust, workers,
                   gate>>

GrantCycle == [none |-> "local", local |-> "both", both |-> "none"]

\* [g], a no-op when not armed
KeyGrant ==
    /\ Press
    /\ armed
    /\ trust' = GrantCycle[trust]
    /\ UNCHANGED <<phone, events, open, inCall, farAnnounced, audio, armed, workers, gate>>

\* on_unmount
Quit ==
    /\ open
    /\ open' = FALSE
    /\ far' = Stopped(farRef)
    /\ UNCHANGED <<phone, events, inCall, farAnnounced, mic, farRef, trustState, workers, keys,
                   gate>>

----------------------------------------------------------------------------
Tincand == Ring \/ Connect \/ LineEnds
DBusThread == OnIncoming \/ OnConnected \/ OnEnded
Announcer(w) == Play(w) \/ Played(w) \/ PlayFails(w) \/ Overtaken(w)
UI == DrainIncoming \/ DrainConnected \/ DrainEnded \/ DrainAnnounced
Operator == KeyFar \/ ArmTrust \/ KeyGrant \/ Quit

Next ==
    \/ Tincand
    \/ DBusThread
    \/ \E w \in DOMAIN workers : Announcer(w)
    \/ UI
    \/ Operator

\* The D-Bus loop, the drain timer and the workers, of which each takes two steps at most,
\* go on by themselves.
Fairness ==
    /\ WF_vars(DBusThread)
    /\ WF_vars(UI)
    /\ WF_vars(\E w \in DOMAIN workers : Announcer(w))

Spec == Init /\ [][Next]_vars /\ Fairness

----------------------------------------------------------------------------
(* Properties.                                                             *)

Running == {f \in DOMAIN far : far[f].on}

\* The far party is never captured without an announcement
\* (_announce_then_hear_far): whoever is captured has heard one in this very
\* call.  Except in a call in which the player failed and was taken to have played; behind a
\* gate that an announcement played elsewhere has opened, late, after its own call was over;
\* and in the call in the middle of which the console was started on the call's own nodes.
CapturedHasHeard ==
    \A f \in Running : far[f].source \in Calls =>
        \/ far[f].source \in heard \cup misplayed
        \/ far[f].by \in Endpoints /\ far[f].by.call # far[f].source
        \/ far[f].by = Ungated /\ home.call = far[f].source

\* A far-party transcriber that runs is the one the console knows and will stop,
\* and none outlives the console, unless announcements overlapped.
FarIsKnown ==
    \/ doubled
    \/ \A f \in Running : f = farRef /\ open

\* Once the line is quiet and the events are drained the console is back on the endpoint it
\* came up with and no call is in progress, however signals, events and
\* announcements interleaved before (_detach_call_audio).
QuietIsLocal == (line.at = "over" /\ Quiet) => mic = home /\ ~inCall

\* A call whose audio has been adopted is announced to, or the announcement fails or is
\* cancelled, or the call or the console ends first (_begin_ride_along).
CallIsAnnounced ==
    \A call \in Calls :
        (Up(call) /\ inCall /\ mic = [call |-> call, ear |-> TRUE] /\ Quiet)
            ~> (call \in heard \cup misplayed \cup failed \/ ~Up(call) \/ ~open)

\* Nothing of a call outlives it: neither a transcriber nobody knows of, nor the call's
\* audio as the console's microphone.
NothingOutlivesTheCall == FarIsKnown /\ QuietIsLocal
=============================================================================
