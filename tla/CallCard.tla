------------------------------ MODULE CallCard ------------------------------
(***************************************************************************)
(* The live half of the Call Card: CallCardHost owns one CaptureSession    *)
(* for the duration of a call, the session owns an operator and a far      *)
(* StreamingTranscriber, and the far one may only be opened after the      *)
(* operator has acknowledged the AI disclosure (disclosure_ack).           *)
(*                                                                         *)
(* Four kinds of thread touch this state, and none of them holds           *)
(* CallCardHost._lock while it talks to PipeWire:                          *)
(*   - the tincan-dbus thread (start_session, stop_session);               *)
(*   - one DaemonAPI handler thread per connected console (disclosure_ack, *)
(*     disclosure_skip);                                                   *)
(*   - the far-watchdog thread that every start_far() spawns;              *)
(*   - the reader thread of every pipeline StreamingTranscriber.start()    *)
(*     launches.                                                           *)
(*                                                                         *)
(* A pipeline is the recorder and worker process pair plus its reader; the *)
(* k-th command, if it is an acknowledgement, launches pipeline k.  The    *)
(* operator's channel has one pipeline and no watchdog.  start() and       *)
(* stop() of a transcriber are one step each: a start() that comes while   *)
(* stop() waits for the processes it has terminated is the second one of   *)
(* its session (StartedTwice), and the properties say nothing of the       *)
(* pipelines that a second start() loses hold of.                          *)
(***************************************************************************)
EXTENDS Naturals

CONSTANTS
    Sessions,       \* session ids: start_session mints a fresh one per call
    Clients,        \* connected consoles, one DaemonAPI handler thread each
    NoSession,      \* "no session": CallCardHost._session is None
    MaxCommands     \* bound: disclosure commands sent in a behaviour

ASSUME NoSessionAssumption == NoSession \notin Sessions
ASSUME MaxCommandsAssumption == MaxCommands \in Nat \ {0}

VARIABLES
    active,     \* CallCardHost._session / _session_id
    card,       \* the call_cards row of each session
    dbus,       \* where the tincan-dbus thread stands
    handler,    \* where each console's handler thread stands
    op,         \* the operator transcriber of each session
    pipe,       \* every far pipeline ever launched, per session
    cur,        \* the far transcriber's _rec/_worker: a pipeline, or 0
    stopReq,    \* the far transcriber's _stop_requested
    watchdogs,  \* live far-watchdog threads of each session
    wdStop,     \* CaptureSession._far_watchdog_stop
    lost,       \* CaptureSession._far_lost_reported
    looked,     \* threads in _report_far_lost that have found that flag unset ...
    claimed,    \* ... and those that have set it and are yet to stop the channel
    commands    \* how many disclosure commands there have been

farVars == <<pipe, cur, stopReq>>
watchVars == <<watchdogs, wdStop, lost, looked, claimed>>
vars == <<active, card, dbus, handler, op, farVars, watchVars, commands>>

Pipes == 1 .. MaxCommands
Up == {"sco", "mic"}                       \* processes running
PipeStates == Up \cup {"unused", "eof", "done"}

IdleHandler == [at |-> "idle", sid |-> NoSession, num |-> 0]
IdleDbus == [at |-> "idle", sid |-> NoSession]
FreshCard == [state |-> "none", ack |-> FALSE, ended |-> FALSE]

Cards == [state : {"none", "pending", "disclosed", "skipped"}, ack : BOOLEAN, ended : BOOLEAN]
DbusStates == [at : {"idle", "start_op", "stop"}, sid : Sessions \cup {NoSession}]
HandlerStates ==
    [at : {"idle", "lookup", "start", "watch", "recheck", "stop"},
     sid : Sessions \cup {NoSession}, num : 0 .. MaxCommands]

TypeOK ==
    /\ active \in Sessions \cup {NoSession}
    /\ card \in [Sessions -> Cards]
    /\ dbus \in DbusStates
    /\ handler \in [Clients -> HandlerStates]
    /\ op \in [Sessions -> {"idle", "up", "stopped"}]
    /\ pipe \in [Sessions -> [Pipes -> PipeStates]]
    /\ cur \in [Sessions -> 0 .. MaxCommands]
    /\ stopReq \in [Sessions -> BOOLEAN]
    /\ watchdogs \in [Sessions -> SUBSET Pipes]
    /\ wdStop \in [Sessions -> BOOLEAN]
    /\ lost \in [Sessions -> BOOLEAN]
    /\ looked \in [Sessions -> Nat]
    /\ claimed \in [Sessions -> Nat]
    /\ commands \in 0 .. MaxCommands

Init ==
    /\ active = NoSession
    /\ card = [s \in Sessions |-> FreshCard]
    /\ dbus = IdleDbus
    /\ handler = [c \in Clients |-> IdleHandler]
    /\ op = [s \in Sessions |-> "idle"]
    /\ pipe = [s \in Sessions |-> [k \in Pipes |-> "unused"]]
    /\ cur = [s \in Sessions |-> 0]
    /\ stopReq = [s \in Sessions |-> FALSE]
    /\ watchdogs = [s \in Sessions |-> {}]
    /\ wdStop = [s \in Sessions |-> FALSE]
    /\ lost = [s \in Sessions |-> FALSE]
    /\ looked = [s \in Sessions |-> 0]
    /\ claimed = [s \in Sessions |-> 0]
    /\ commands = 0

----------------------------------------------------------------------------
(* StreamingTranscriber of the far channel.                                *)

\* start() replaces _rec, _worker and _reader without looking at the old ones:
\* a pipeline that is still running stays running, and nothing refers to it.
\* pw-record falls back to the default mic when its target has gone meanwhile.
FarStart(s, k) ==
    /\ stopReq' = [stopReq EXCEPT ![s] = FALSE]
    /\ \E bound \in Up : pipe' = [pipe EXCEPT ![s][k] = bound]
    /\ cur' = [cur EXCEPT ![s] = k]

\* stop() terminates the processes it still refers to; the reader then meets EOF.
FarStop(s) ==
    /\ stopReq' = [stopReq EXCEPT ![s] = TRUE]
    /\ pipe' = [pipe EXCEPT ![s] =
                   [k \in Pipes |-> IF k = cur[s] /\ @[k] \in Up THEN "eof" ELSE @[k]]]
    /\ cur' = [cur EXCEPT ![s] = 0]

\* CaptureSession.stop(): stop the watchdog, then both channels.
SessionStop(s) ==
    /\ wdStop' = [wdStop EXCEPT ![s] = TRUE]
    /\ op' = [op EXCEPT ![s] = "stopped"]
    /\ FarStop(s)
    /\ UNCHANGED <<watchdogs, lost, looked, claimed>>

----------------------------------------------------------------------------
(* The tincan-dbus thread.                                                 *)

\* mutant: a second call replaces the session of the first
CallReplaces(s) ==
    /\ dbus.at = "idle"
    /\ card[s].state = "none"
    /\ active' = s
    /\ card' = [card EXCEPT ![s] = [@ EXCEPT !.state = "pending"]]
    /\ dbus' = [at |-> "start_op", sid |-> s]
    /\ UNCHANGED <<handler, op, farVars, watchVars, commands>>

\* start_session, under the lock: refuse if a session is active, otherwise
\* install the new one and create its card.
CallConnected(s) ==
    /\ dbus.at = "idle"
    /\ active = NoSession
    /\ card[s].state = "none"
    /\ active' = s
    /\ card' = [card EXCEPT ![s] = [@ EXCEPT !.state = "pending"]]
    /\ dbus' = [at |-> "start_op", sid |-> s]
    /\ UNCHANGED <<handler, op, farVars, watchVars, commands>>

\* mutant: session.start() instead of session.start_operator()
StartBothChannels ==
    /\ dbus.at = "start_op"
    /\ op' = [op EXCEPT ![dbus.sid] = "up"]
    /\ FarStart(dbus.sid, 1)
    /\ dbus' = IdleDbus
    /\ UNCHANGED <<active, card, handler, watchVars, commands>>

\* start_session, after the lock: the operator's channel only, then the
\* call_card_started and call_card_disclosure_needed events.
StartOperator ==
    /\ dbus.at = "start_op"
    /\ op' = [op EXCEPT ![dbus.sid] = "up"]
    /\ dbus' = IdleDbus
    /\ UNCHANGED <<active, card, handler, farVars, watchVars, commands>>

\* stop_session, under the lock: an empty id means the active session, an id
\* that does not match it is only logged.
CallEnded(id) ==
    LET s == IF id = NoSession THEN active ELSE id IN
    /\ dbus.at = "idle"
    /\ active # NoSession
    /\ s = active
    /\ active' = NoSession
    /\ dbus' = [at |-> "stop", sid |-> s]
    /\ UNCHANGED <<card, handler, op, farVars, watchVars, commands>>

\* stop_session, after the lock: session.stop(), whose join gives up on a reader
\* after 5 s, then mark_ended, the call_card_ended event, the enrichment thread.
StopSession ==
    /\ dbus.at = "stop"
    /\ SessionStop(dbus.sid)
    /\ card' = [card EXCEPT ![dbus.sid] = [@ EXCEPT !.ended = TRUE]]
    /\ dbus' = IdleDbus
    /\ UNCHANGED <<active, handler, commands>>

----------------------------------------------------------------------------
(* A console's handler thread.                                             *)

\* disclosure_ack, first step: record it, whether or not the session is live.
DisclosureAck(c, s) ==
    /\ handler[c].at = "idle"
    /\ card[s].state # "none"
    /\ commands < MaxCommands
    /\ commands' = commands + 1
    /\ card' = [card EXCEPT ![s] = [@ EXCEPT !.ack = TRUE, !.state = "disclosed"]]
    /\ handler' = [handler EXCEPT ![c] = [at |-> "lookup", sid |-> s, num |-> commands + 1]]
    /\ UNCHANGED <<active, dbus, op, farVars, watchVars>>

\* disclosure_skip records the refusal and does nothing else.
DisclosureSkip(c, s) ==
    /\ handler[c].at = "idle"
    /\ card[s].state # "none"
    /\ commands < MaxCommands
    /\ commands' = commands + 1
    /\ card' = [card EXCEPT ![s] = [@ EXCEPT !.state = "skipped"]]
    /\ UNCHANGED <<active, dbus, handler, op, farVars, watchVars>>

\* Second step: re-read the active session under the lock; if it matches,
\* start_far looks for the SCO downlink, and without one it starts nothing.
LookupSession(c) ==
    /\ handler[c].at = "lookup"
    /\ \E next \in {"start", "recheck"} :
          handler' = [handler EXCEPT ![c] =
                         IF active = @.sid THEN [@ EXCEPT !.at = next] ELSE IdleHandler]
    /\ UNCHANGED <<active, card, dbus, op, farVars, watchVars, commands>>

\* mutant: start_far() without its watchdog
StartFarUnwatched(c) ==
    /\ handler[c].at = "start"
    /\ FarStart(handler[c].sid, handler[c].num)
    /\ handler' = [handler EXCEPT ![c] = [@ EXCEPT !.at = "recheck"]]
    /\ UNCHANGED <<active, card, dbus, op, watchVars, commands>>

StartFar(c) ==
    /\ handler[c].at = "start"
    /\ FarStart(handler[c].sid, handler[c].num)
    /\ handler' = [handler EXCEPT ![c] = [@ EXCEPT !.at = "watch"]]
    /\ UNCHANGED <<active, card, dbus, op, watchVars, commands>>

SpawnWatchdog(c) ==
    LET s == handler[c].sid IN
    /\ handler[c].at = "watch"
    /\ wdStop' = [wdStop EXCEPT ![s] = FALSE]
    /\ watchdogs' = [watchdogs EXCEPT ![s] = @ \cup {handler[c].num}]
    /\ handler' = [handler EXCEPT ![c] = [@ EXCEPT !.at = "recheck"]]
    /\ UNCHANGED <<active, card, dbus, op, farVars, lost, looked, claimed, commands>>

\* mutant: start_far() returns and nobody looks whether the call is still there
NoRecheck(c) ==
    /\ handler[c].at = "recheck"
    /\ handler' = [handler EXCEPT ![c] = IdleHandler]
    /\ UNCHANGED <<active, card, dbus, op, farVars, watchVars, commands>>

\* disclosure_ack, after start_far: was the session torn down meanwhile?
Recheck(c) ==
    /\ handler[c].at = "recheck"
    /\ handler' = [handler EXCEPT ![c] =
                      IF active = @.sid THEN IdleHandler ELSE [@ EXCEPT !.at = "stop"]]
    /\ UNCHANGED <<active, card, dbus, op, farVars, watchVars, commands>>

StopOrphan(c) ==
    /\ handler[c].at = "stop"
    /\ SessionStop(handler[c].sid)
    /\ handler' = [handler EXCEPT ![c] = IdleHandler]
    /\ UNCHANGED <<active, card, dbus, commands>>

----------------------------------------------------------------------------
(* The watchdog and reader threads, and the world they watch.              *)

\* The call leaves the SCO route: the recorder is silently fed by the mic.
Reroute(s, k) ==
    /\ pipe[s][k] = "sco"
    /\ pipe' = [pipe EXCEPT ![s][k] = "mic"]
    /\ UNCHANGED <<active, card, dbus, handler, op, cur, stopReq, watchVars, commands>>

\* The recorder or the worker dies.
PipelineDies(s, k) ==
    /\ pipe[s][k] \in Up
    /\ pipe' = [pipe EXCEPT ![s][k] = "eof"]
    /\ UNCHANGED <<active, card, dbus, handler, op, cur, stopReq, watchVars, commands>>

\* _report_far_lost, its first look: who finds the flag set returns.  Nothing
\* keeps a second thread from looking before the first has set it.
BeginReport(s) == looked' = [looked EXCEPT ![s] = IF lost[s] THEN @ ELSE @ + 1]

ClaimReport(s) ==
    /\ looked[s] > 0
    /\ looked' = [looked EXCEPT ![s] = @ - 1]
    /\ claimed' = [claimed EXCEPT ![s] = @ + 1]
    /\ lost' = [lost EXCEPT ![s] = TRUE]
    /\ wdStop' = [wdStop EXCEPT ![s] = TRUE]
    /\ UNCHANGED <<active, card, dbus, handler, op, farVars, watchdogs, commands>>

\* Then it stops the channel, whatever pipeline that has by now, and sends
\* call_card_far_lost.
FinishReport(s) ==
    /\ claimed[s] > 0
    /\ claimed' = [claimed EXCEPT ![s] = @ - 1]
    /\ FarStop(s)
    /\ UNCHANGED <<active, card, dbus, handler, op, watchdogs, wdStop, lost, looked, commands>>

\* verify_target_bound looks every link of the stream's node name up, and all
\* pipelines of one transcriber carry that name.
BadlyBound(s) ==
    \/ \E k \in Pipes : pipe[s][k] = "mic"
    \/ \A k \in Pipes : pipe[s][k] \notin Up

\* A bad verdict reports the loss and ends the watchdog.
BadVerdict(s, k) ==
    /\ k \in watchdogs[s]
    /\ ~wdStop[s]
    /\ watchdogs' = [watchdogs EXCEPT ![s] = @ \ {k}]
    /\ BeginReport(s)
    /\ UNCHANGED <<active, card, dbus, handler, op, farVars, wdStop, lost, claimed, commands>>

\* One look of the watchdog; a good verdict changes nothing, and a missing link
\* is forgiven for 4 s.
WatchdogCheck(s, k) == k \in watchdogs[s] /\ BadlyBound(s) /\ BadVerdict(s, k)

\* pw-link is not there or has nothing to say: a bad verdict, whatever is bound.
LinksUnknown(s, k) == BadVerdict(s, k)

WatchdogExit(s, k) ==
    /\ k \in watchdogs[s]
    /\ wdStop[s]
    /\ watchdogs' = [watchdogs EXCEPT ![s] = @ \ {k}]
    /\ UNCHANGED <<active, card, dbus, handler, op, farVars, wdStop, lost, looked, claimed, commands>>

\* End of _read_loop: an end nobody asked for is a lost channel.
ReaderExit(s, k) ==
    /\ pipe[s][k] = "eof"
    /\ pipe' = [pipe EXCEPT ![s][k] = "done"]
    /\ IF stopReq[s] THEN UNCHANGED looked ELSE BeginReport(s)
    /\ UNCHANGED <<active, card, dbus, handler, op, cur, stopReq, watchdogs, wdStop,
                   lost, claimed, commands>>

----------------------------------------------------------------------------
DbusStep ==
    \/ \E s \in Sessions : CallConnected(s)
    \/ StartOperator
    \/ \E id \in Sessions \cup {NoSession} : CallEnded(id)
    \/ StopSession

HandlerStep(c) ==
    \/ LookupSession(c) \/ StartFar(c) \/ SpawnWatchdog(c)
    \/ Recheck(c) \/ StopOrphan(c)

Command(c) == \E s \in Sessions : DisclosureAck(c, s) \/ DisclosureSkip(c, s)

WatcherStep(s) ==
    \/ ClaimReport(s) \/ FinishReport(s)
    \/ \E k \in Pipes : WatchdogCheck(s, k) \/ WatchdogExit(s, k) \/ ReaderExit(s, k)

World(s) == \E k \in Pipes : Reroute(s, k) \/ PipelineDies(s, k) \/ LinksUnknown(s, k)

Next ==
    \/ DbusStep
    \/ \E c \in Clients : HandlerStep(c) \/ Command(c)
    \/ \E s \in Sessions : WatcherStep(s) \/ World(s)

\* Threads that are runnable get to run; calls, commands and faults may never come.
Fairness ==
    /\ WF_vars(StartOperator \/ StopSession)
    /\ \A c \in Clients : WF_vars(HandlerStep(c))
    /\ \A s \in Sessions : WF_vars(WatcherStep(s))

Spec == Init /\ [][Next]_vars /\ Fairness

----------------------------------------------------------------------------
(* Properties.                                                             *)

\* disclosure_ack is the only way to far capture (call_card_host.py, the hard
\* gate of start_session): a far pipeline was only ever launched for a session
\* whose own acknowledgement is on record, whichever calls and threads
\* interleaved with it.
FarOnlyAfterAck ==
    \A s \in Sessions : (\E k \in Pipes : pipe[s][k] # "unused") => card[s].ack

\* A thread is yet to stop session s.
Settling(s) ==
    \/ dbus.at = "stop" /\ dbus.sid = s
    \/ \E c \in Clients : handler[c].sid = s /\ handler[c].at \in {"watch", "recheck", "stop"}

\* Two acknowledgements of one call were acted upon: the second start() loses
\* hold of what the first has launched.
StartedTwice(s) == \E j, k \in Pipes : j # k /\ pipe[s][j] # "unused" /\ pipe[s][k] # "unused"

\* A call is heard as long as any pipeline that was launched for it is running.
Heard(s) == \E k \in Pipes : pipe[s][k] \in Up

\* The re-validation after start_far() is enough (disclosure_ack, superseded): of
\* a session that is no longer the active one neither the microphone nor any far
\* pipeline ever launched is running, unless a thread is on its way to stop it or
\* a second acknowledgement replaced the pipeline.
NoOrphanCapture ==
    \A s \in Sessions \ {active} :
        (op[s] = "up" \/ (Heard(s) /\ ~StartedTwice(s))) => Settling(s)

\* A thread has found the far channel lost and is yet to stop it.
Reporting(s) == looked[s] + claimed[s] > 0

\* The far stream of the live call is never left unwatched (start_far: "keep
\* watching it for the whole call"), as long as no loss has been reported yet.
FarIsWatched ==
    \A s \in Sessions :
        (active = s /\ cur[s] # 0 /\ ~lost[s]) =>
            \/ watchdogs[s] # {} /\ ~wdStop[s]
            \/ Reporting(s)
            \/ \E c \in Clients : handler[c].sid = s /\ handler[c].at = "watch"

\* A far channel that must not run: its call is over, or it is the operator's
\* room that it hears (and the one loss this session can report is not spent).
Offending(s) ==
    /\ cur[s] # 0
    /\ \/ active # s
       \/ pipe[s][cur[s]] = "mic" /\ (lost[s] => Reporting(s))

\* Such a channel is eventually stopped: the corrective stop of disclosure_ack and
\* the watchdog ("transcribing from the wrong source is worse than silence") are
\* carried out whatever else goes on.
OffendingFarIsCut ==
    \A s \in Sessions : Offending(s) ~> ~Offending(s)

\* CaptureGate, in the terms of this module.
Gate == INSTANCE CaptureGate WITH
            begun   <- {s \in Sessions : card[s].state # "none"},
            live    <- active,
            agreed  <- {s \in Sessions : card[s].ack},
            hearing <- {s \in Sessions : Heard(s)},
            doubled <- {s \in Sessions : StartedTwice(s)}

\* The host, its session, the handlers and the watchdogs together keep what
\* CaptureGate promises: every step of any of these threads is a step of the gate
\* or none, so the far side of a call is captured after that call's own
\* acknowledgement only, and once the call is over no pipeline of it goes on for
\* good, unless a second acknowledgement has launched another: nothing in the code
\* stops the one that was replaced.  The channel that the transcriber refers to
\* goes down even then, and also when it hears the operator's room.
GateIsKept == Gate!Spec /\ OffendingFarIsCut
=============================================================================
