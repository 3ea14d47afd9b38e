------------------------------ MODULE Conductor ------------------------------
(***************************************************************************)
(* The console's voice loop: Conductor's state, its cancel event, the one  *)
(* recording and the one playback it knows of, driven by the UI thread and *)
(* by worker threads.  Nothing here is locked: a worker (a call of         *)
(* stop_and_respond, respond_to or say) and the UI thread interleave       *)
(* between any two accesses to the shared fields.  A worker that the UI    *)
(* replaces (run_worker's exclusive) is a thread and runs on.              *)
(***************************************************************************)
EXTENDS Naturals, FiniteSets

CONSTANTS
    Workers,    \* worker threads, each runs one call
    None,       \* no recording, no playback
    MaxTakes    \* bound: recordings started

ASSUME NoneAssumption == None \notin Workers
ASSUME TakesAssumption == MaxTakes \in Nat

VARIABLES
    state,      \* Conductor.state
    cancel,     \* _cancel
    muted,      \* muted
    rec,        \* _rec: a recording, by its number
    play,       \* _play: a playback, by its worker
    ui,         \* the UI thread, inside start_recording or interrupt or outside
    at,         \* each worker's place
    takes,      \* recordings started so far
    recorders,  \* the recorder processes that run
    playing,    \* the playback processes that run
    cut,        \* history: workers in flight when an interrupt set cancel
    revived,    \* history: of those, the ones in flight when cancel was cleared
    slipped,    \* history: of those, the ones past their check of cancel
    through,    \* history: when muted was set, workers past their check of it
    mixed       \* history: a recording was begun while a worker was in flight

shared == <<state, cancel, muted, rec, play>>
processes == <<takes, recorders, playing>>
history == <<cut, revived, slipped, through, mixed>>
vars == <<shared, ui, at, processes, history>>

IDLE == "idle"
States == {IDLE, "recording", "transcribing", "thinking", "speaking"}
Takes == 1 .. MaxTakes

\* Where a worker can be: not spawned; before the guard of its method; and so on.
Places == {"free", "stop", "stopped", "transcribe", "stt", "respond", "begin", "brain",
           "reply", "say", "speak", "synth", "wait", "done"}
InFlight == {w \in Workers : at[w] \notin {"free", "done"}}
\* No check of cancel is ahead of them (say has none).
PastCheck == {w \in Workers : at[w] \in {"say", "speak", "synth", "wait"}}

TypeOK ==
    /\ state \in States
    /\ cancel \in BOOLEAN /\ muted \in BOOLEAN /\ mixed \in BOOLEAN
    /\ rec \in Takes \cup {None}
    /\ play \in Workers \cup {None}
    /\ ui \in {"free", "starting", "recording", "interrupting"}
    /\ at \in [Workers -> Places]
    /\ takes \in 0 .. MaxTakes
    /\ recorders \subseteq 1 .. takes
    /\ playing \subseteq Workers
    /\ revived \subseteq cut /\ slipped \subseteq cut
    /\ {cut, through} \subseteq SUBSET Workers

Init ==
    /\ state = IDLE
    /\ cancel = FALSE
    /\ muted = FALSE
    /\ rec = None
    /\ play = None
    /\ ui = "free"
    /\ at = [w \in Workers |-> "free"]
    /\ takes = 0
    /\ recorders = {}
    /\ playing = {}
    /\ cut = {} /\ revived = {} /\ slipped = {} /\ through = {}
    /\ mixed = FALSE

----------------------------------------------------------------------------
(* The UI thread.                                                            *)

\* _cancel.clear(): the turns an interrupt has cut no longer see it.
ClearCancel ==
    /\ cancel' = FALSE
    /\ revived' = revived \cup (cut \cap InFlight)

\* start_recording: the guard and clear(); start_capture; the state.
StartRecording ==
    /\ ui = "free"
    /\ state = IDLE
    /\ takes < MaxTakes
    /\ ui' = "starting"
    /\ ClearCancel
    /\ mixed' = (mixed \/ InFlight # {})
    /\ UNCHANGED <<state, muted, rec, play, at, processes, cut, slipped, through>>

StartCapture ==
    /\ ui = "starting"
    /\ ui' = "recording"
    /\ takes' = takes + 1
    /\ recorders' = recorders \cup {takes'}
    /\ rec' = takes'
    /\ UNCHANGED <<state, cancel, muted, play, at, playing, history>>

SetRecording ==
    /\ ui = "recording"
    /\ ui' = "free"
    /\ state' = "recording"
    /\ UNCHANGED <<cancel, muted, rec, play, at, processes, history>>

\* interrupt: set cancel and stop the playback; stop the recording, and the state.
Interrupt ==
    /\ ui = "free"
    /\ ui' = "interrupting"
    /\ cancel' = TRUE
    /\ playing' = playing \ {play}
    /\ cut' = cut \cup InFlight
    /\ slipped' = slipped \cup PastCheck
    /\ UNCHANGED <<state, muted, rec, play, at, takes, recorders, revived, through, mixed>>

\* mutant: the recording is forgotten, not stopped
ForgetRecording ==
    /\ ui = "interrupting"
    /\ ui' = "free"
    /\ rec' = None
    /\ state' = IDLE
    /\ UNCHANGED <<cancel, muted, play, at, processes, history>>

InterruptRecording ==
    /\ ui = "interrupting"
    /\ ui' = "free"
    /\ recorders' = recorders \ {rec}
    /\ rec' = None
    /\ state' = IDLE
    /\ UNCHANGED <<cancel, muted, play, at, takes, playing, history>>

\* Another playback may have taken the place of theirs in _play.
PastMute == {w \in Workers : at[w] = "synth" \/ (w \in playing /\ w # play)}

\* mutant: a playback that has begun is left to finish
MuteNextOnly ==
    /\ ui = "free"
    /\ muted' = ~muted
    /\ through' = IF muted' THEN PastMute ELSE {}
    /\ UNCHANGED <<state, cancel, rec, play, ui, at, processes, cut, revived, slipped, mixed>>

\* toggle_mute: muting cuts the current utterance.
ToggleMute ==
    /\ ui = "free"
    /\ muted' = ~muted
    /\ playing' = IF muted' THEN playing \ {play} ELSE playing
    /\ through' = IF muted' THEN PastMute ELSE {}
    /\ UNCHANGED <<state, cancel, rec, play, ui, at, takes, recorders,
                   cut, revived, slipped, mixed>>

\* The console's handlers: what they spawn depends on the state they read.
Spawn(w) ==
    /\ ui = "free"
    /\ at[w] = "free"
    /\ \/ state = IDLE /\ at' = [at EXCEPT ![w] = "respond"]          \* _dispatch
       \/ state = IDLE /\ at' = [at EXCEPT ![w] = "say"]              \* mayor_reply, "Yes?"
       \/ state = "recording" /\ at' = [at EXCEPT ![w] = "stop"]      \* action_talk
    /\ UNCHANGED <<shared, ui, processes, history>>

----------------------------------------------------------------------------
(* Workers.                                                                  *)

Go(w, place) == at' = [at EXCEPT ![w] = place]
Leave(w) == Go(w, "done") /\ UNCHANGED state
EndIdle(w) == Go(w, "done") /\ state' = IDLE

\* stop_and_respond: its guard, and _rec.stop(), which may take seconds; then _rec
\* is forgotten, whichever recording it is by now; then the state.
StopRecording(w) ==
    /\ at[w] = "stop"
    /\ IF state # "recording" \/ rec = None
         THEN Leave(w) /\ UNCHANGED recorders
         ELSE /\ recorders' = recorders \ {rec}
              /\ Go(w, "stopped")
              /\ UNCHANGED state
    /\ UNCHANGED <<cancel, muted, rec, play, ui, takes, playing, history>>

ForgetTake(w) ==
    /\ at[w] = "stopped"
    /\ rec' = None
    /\ Go(w, "transcribe")
    /\ UNCHANGED <<state, cancel, muted, play, ui, processes, history>>

\* mutant: the state is named after the stage, a name the window does not know
SetStage(w) ==
    /\ at[w] = "transcribe"
    /\ state' = "stt"
    /\ Go(w, "stt")
    /\ UNCHANGED <<cancel, muted, rec, play, ui, processes, history>>

SetTranscribing(w) ==
    /\ at[w] = "transcribe"
    /\ state' = "transcribing"
    /\ Go(w, "stt")
    /\ UNCHANGED <<cancel, muted, rec, play, ui, processes, history>>

\* stt.transcribe has returned: an error, an interrupt in the meantime, or no
\* words, and the state is idle; otherwise respond_to.
Transcribed(w) ==
    /\ at[w] = "stt"
    /\ \/ EndIdle(w)
       \/ ~cancel /\ Go(w, "respond") /\ UNCHANGED state
    /\ UNCHANGED <<cancel, muted, rec, play, ui, processes, history>>

\* respond_to: its guard, then clear() and the state.
Respond(w) ==
    /\ at[w] = "respond"
    /\ IF state \in {"thinking", "speaking"} THEN Leave(w)
                                             ELSE Go(w, "begin") /\ UNCHANGED state
    /\ UNCHANGED <<cancel, muted, rec, play, ui, processes, history>>

BeginThinking(w) ==
    /\ at[w] = "begin"
    /\ ClearCancel
    /\ state' = "thinking"
    /\ Go(w, "brain")
    /\ UNCHANGED <<muted, rec, play, ui, processes, cut, slipped, through, mixed>>

\* mutant: an exception of the brain leaves the state as it is
BrainFailsThinking(w) ==
    /\ at[w] = "brain"
    /\ Leave(w) \/ (Go(w, "reply") /\ UNCHANGED state)
    /\ UNCHANGED <<cancel, muted, rec, play, ui, processes, history>>

\* brain.respond returns or raises.
BrainReturns(w) ==
    /\ at[w] = "brain"
    /\ EndIdle(w) \/ (Go(w, "reply") /\ UNCHANGED state)
    /\ UNCHANGED <<cancel, muted, rec, play, ui, processes, history>>

\* mutant: cancel is not looked at again
ReplyAnyway(w) ==
    /\ at[w] = "reply"
    /\ Go(w, "speak")
    /\ UNCHANGED <<shared, ui, processes, history>>

\* The check of cancel; the reply goes to the transcript.
Reply(w) ==
    /\ at[w] = "reply"
    /\ IF cancel THEN EndIdle(w) ELSE Go(w, "speak") /\ UNCHANGED state
    /\ UNCHANGED <<cancel, muted, rec, play, ui, processes, history>>

SpeakUnlessMuted(w) ==
    /\ at[w] = "speak"
    /\ IF muted THEN EndIdle(w) ELSE state' = "speaking" /\ Go(w, "synth")
    /\ UNCHANGED <<cancel, muted, rec, play, ui, processes, history>>

\* say: its guard, then the state and the same playback.
Say(w) ==
    /\ at[w] = "say"
    /\ IF muted \/ state # IDLE THEN Leave(w) ELSE Go(w, "speak") /\ UNCHANGED state
    /\ UNCHANGED <<cancel, muted, rec, play, ui, processes, history>>

\* tts.synth and start_playback, or an exception of either.
StartPlayback(w) ==
    /\ at[w] = "synth"
    /\ \/ /\ playing' = playing \cup {w}
          /\ play' = w
          /\ Go(w, "wait")
          /\ UNCHANGED state
       \/ play' = None /\ EndIdle(w) /\ UNCHANGED playing
    /\ UNCHANGED <<cancel, muted, rec, ui, takes, recorders, history>>

PlaybackEnds(w) ==
    /\ w \in playing
    /\ playing' = playing \ {w}
    /\ UNCHANGED <<shared, ui, at, takes, recorders, history>>

\* wait() returns: _play is forgotten, whosever it is, and the state is idle.
Waited(w) ==
    /\ at[w] = "wait"
    /\ w \notin playing
    /\ play' = None
    /\ EndIdle(w)
    /\ UNCHANGED <<cancel, muted, rec, ui, processes, history>>

WorkerStep(w) ==
    \/ StopRecording(w) \/ ForgetTake(w) \/ SetTranscribing(w) \/ Transcribed(w)
    \/ Respond(w) \/ BeginThinking(w) \/ BrainReturns(w) \/ Reply(w)
    \/ SpeakUnlessMuted(w) \/ Say(w) \/ StartPlayback(w) \/ PlaybackEnds(w) \/ Waited(w)

Next ==
    \/ StartRecording \/ StartCapture \/ SetRecording
    \/ Interrupt \/ InterruptRecording
    \/ ToggleMute
    \/ \E w \in Workers : Spawn(w) \/ WorkerStep(w)

Spec == Init /\ [][Next]_vars

----------------------------------------------------------------------------
(* Properties.                                                             *)

\* The speaking gate opens again: when no call is in flight the state is idle or
\* recording, however calls and interrupts crossed and whatever raised.  (While
\* it is thinking or speaking the console does not hear the operator at all.)
QuietIsIdle ==
    (InFlight = {} /\ ui = "free") => state \in {IDLE, "recording"}

\* Of the calls that were interrupted only two kinds speak: those past their check
\* of cancel, and those whose cancel the next turn or recording has cleared.
InterruptedIsSilentUnless == cut \cap playing \subseteq revived \cup slipped

\* No recorder process outlives the conductor's knowledge of it, and goes on
\* recording: unless a recording was begun while a worker was in flight, it is in
\* _rec, where interrupt and stop_and_respond find it.
RecorderIsKnown == ~mixed => recorders \subseteq {rec}

\* While muted nothing is heard ("muting mid-speech cuts the current utterance
\* too"), but of a call past its check of muted, or one whose playback another
\* call's has replaced in _play.
MutedIsSilentUnless == muted => playing \subseteq through

\* Calls leave nothing behind, neither a state that shuts the microphone out nor a
\* recorder that nobody would stop.
NothingIsLeftBehind == QuietIsIdle /\ RecorderIsKnown

\* What may still be heard after an interrupt or while muted.
SilentUnless == InterruptedIsSilentUnless /\ MutedIsSilentUnless
=============================================================================
