--------------------------- MODULE Conductor_proofs ---------------------------
(***************************************************************************)
(* Proofs about Conductor, for any set of workers and number of            *)
(* recordings: however calls, interrupts, recordings and mutes cross,      *)
(* the state comes back to idle, no recorder is forgotten, and what may    *)
(* still be heard after an interrupt or while muted is known.  And about   *)
(* Context, for any topics, any window of at least one turn, any number of *)
(* turns and of gist threads that overlap: a turn that was said is lost in *)
(* one of the two ways the code allows, or not at all.                     *)
(*                                                                         *)
(* And about Memory, for any contacts, calls and archives that overlap:    *)
(* what is archived of a call is its own, all that had left the window and *)
(* stays as it was, unless the next call overtook it.                      *)
(***************************************************************************)
EXTENDS VoiceLoop, CallMemory, SequenceTheorems, TLAPS

\* Where a worker has the words before it, and where it has them behind it.
Hearing == {"stt", "respond", "begin"}
Answering == {"brain", "reply", "speak", "synth", "wait"}

\* Whoever shut the microphone out is still at work, and has the state ahead of it.
SomebodyWillEnd ==
    /\ state = "transcribing" => \E w \in Workers : at[w] \in Hearing
    /\ state \in {"thinking", "speaking"} => \E w \in Workers : at[w] \in Answering

\* A recording belongs to the state recording, or to the UI thread that is about to
\* set it; a worker that has stopped it leaves none.
RecordingsAreOrderly ==
    ~mixed =>
        /\ recorders \subseteq {rec}
        /\ recorders # {} => \A w \in Workers : at[w] \in {"free", "stop", "done"}
        /\ ui \in {"starting", "recording"} => InFlight = {}
        /\ ui = "starting" => recorders = {}
        /\ (ui # "recording" /\ recorders # {}) => state = "recording"

\* Before the check of cancel.
Early == {"stop", "stopped", "transcribe", "stt", "respond", "begin", "brain", "reply"}

\* A call that was cut has ended, or has the check ahead of it with cancel still set.
CutCallsWillSee ==
    \A w \in cut \ (revived \cup slipped) : at[w] = "done" \/ (cancel /\ at[w] \in Early)

\* Who plays is waited for.
PlaybacksAreWaitedFor == \A w \in playing : at[w] = "wait"

\* Who synthesises while it is muted was past the check of muted before.
SynthesesAreKnown == muted => \A w \in Workers : at[w] = "synth" => w \in through

\* The bound was looked at when the recording was begun.
TakeIsLeft == ui = "starting" => takes < MaxTakes

\* The inductive invariant.
IInv ==
    /\ TypeOK
    /\ TakeIsLeft
    /\ SomebodyWillEnd
    /\ RecordingsAreOrderly
    /\ CutCallsWillSee
    /\ PlaybacksAreWaitedFor
    /\ SynthesesAreKnown
    /\ MutedIsSilentUnless

USE NoneAssumption, TakesAssumption

----------------------------------------------------------------------------
\* Initially nobody is at work.
LEMMA InitIInv == Init => IInv
<1> SUFFICES ASSUME Init
             PROVE  IInv
  OBVIOUS
<1> USE DEF Init, IDLE
<1>1. TypeOK
  <2>1. at \in [Workers -> Places] /\ state \in States /\ takes \in 0 .. MaxTakes
    BY DEF States, Places
  <2>2. recorders \subseteq 1 .. takes /\ {cut, through} \subseteq SUBSET Workers
    OBVIOUS
  <2>3. revived \subseteq cut /\ slipped \subseteq cut /\ playing \subseteq Workers
    OBVIOUS
  <2>4. QED
    BY <2>1, <2>2, <2>3 DEF TypeOK
<1>2. TakeIsLeft /\ SomebodyWillEnd /\ CutCallsWillSee /\ SynthesesAreKnown
  BY DEF TakeIsLeft, SomebodyWillEnd, CutCallsWillSee, SynthesesAreKnown
<1>3. RecordingsAreOrderly
  BY DEF RecordingsAreOrderly
<1>4. PlaybacksAreWaitedFor /\ MutedIsSilentUnless
  BY DEF PlaybacksAreWaitedFor, MutedIsSilentUnless
<1>5. QED
  BY <1>1, <1>2, <1>3, <1>4 DEF IInv

\* Every step keeps the types.
LEMMA TypeStep ==
    ASSUME TypeOK, TakeIsLeft, [Next]_vars
    PROVE  TypeOK' /\ TakeIsLeft'
<1> USE DEF TypeOK, TakeIsLeft, shared, processes, history, States, IDLE, Places, Takes
<1>1. CASE StartRecording \/ StartCapture \/ SetRecording
  <2>1. CASE StartRecording
    BY <2>1 DEF StartRecording, ClearCancel
  <2>2. CASE StartCapture
    BY <2>2 DEF StartCapture
  <2>3. CASE SetRecording
    BY <2>3 DEF SetRecording
  <2>4. QED
    BY <1>1, <2>1, <2>2, <2>3
<1>2. CASE Interrupt
  BY <1>2 DEF Interrupt, InFlight, PastCheck
<1>3. CASE InterruptRecording
  BY <1>3 DEF InterruptRecording
<1>4. CASE ToggleMute
  BY <1>4 DEF ToggleMute, PastMute
<1>5. ASSUME NEW w \in Workers, Spawn(w) \/ StopRecording(w) \/ ForgetTake(w)
      PROVE  TypeOK' /\ TakeIsLeft'
  <2>1. CASE Spawn(w)
    BY <2>1 DEF Spawn, Go
  <2>2. CASE StopRecording(w)
    <3>1. UNCHANGED <<state, cancel, muted, rec, play, ui, takes, playing, history>>
      BY <2>2 DEF StopRecording, Leave
    <3>2. \E place \in Places : at' = [at EXCEPT ![w] = place]
      BY <2>2 DEF StopRecording, Go, Leave
    <3>3. at' \in [Workers -> Places]
      BY <3>2
    <3>4. recorders' \subseteq recorders
      BY <2>2 DEF StopRecording
    <3>5. QED
      BY <3>1, <3>3, <3>4
  <2>3. CASE ForgetTake(w)
    BY <2>3 DEF ForgetTake, Go, Leave
  <2>4. QED
    BY <1>5, <2>1, <2>2, <2>3
<1>6. ASSUME NEW w \in Workers,
             SetTranscribing(w) \/ Transcribed(w) \/ Respond(w) \/ BrainReturns(w) \/ Reply(w)
      PROVE  TypeOK' /\ TakeIsLeft'
  <2>0. CASE SetTranscribing(w)
    BY <2>0 DEF SetTranscribing, Go, Leave, EndIdle
  <2>1. CASE Transcribed(w)
    BY <2>1 DEF Transcribed, Go, Leave, EndIdle
  <2>2. CASE Respond(w)
    BY <2>2 DEF Respond, Go, Leave, EndIdle
  <2>3. CASE BrainReturns(w)
    BY <2>3 DEF BrainReturns, Go, Leave, EndIdle
  <2>4. CASE Reply(w)
    BY <2>4 DEF Reply, Go, Leave, EndIdle
  <2>5. QED
    BY <1>6, <2>0, <2>1, <2>2, <2>3, <2>4
<1>7. ASSUME NEW w \in Workers, BeginThinking(w)
      PROVE  TypeOK' /\ TakeIsLeft'
  BY <1>7 DEF BeginThinking, ClearCancel, Go
<1>8. ASSUME NEW w \in Workers, SpeakUnlessMuted(w) \/ Say(w) \/ StartPlayback(w)
      PROVE  TypeOK' /\ TakeIsLeft'
  <2>1. CASE SpeakUnlessMuted(w)
    BY <2>1 DEF SpeakUnlessMuted, Go, Leave, EndIdle
  <2>2. CASE Say(w)
    BY <2>2 DEF Say, Go, Leave, EndIdle
  <2>3. CASE StartPlayback(w)
    BY <2>3 DEF StartPlayback, Go, Leave, EndIdle
  <2>4. QED
    BY <1>8, <2>1, <2>2, <2>3
<1>9. ASSUME NEW w \in Workers, PlaybackEnds(w) \/ Waited(w)
      PROVE  TypeOK' /\ TakeIsLeft'
  BY <1>9 DEF PlaybackEnds, Waited, Go, EndIdle
<1>10. CASE UNCHANGED vars
  BY <1>10 DEF vars
<1>11. QED
  BY <1>1, <1>2, <1>3, <1>4, <1>5, <1>6, <1>7, <1>8, <1>9, <1>10 DEF Next, WorkerStep

\* Whoever sets a state that shuts the microphone out goes on to end it.
LEMMA WillEndStep ==
    ASSUME TypeOK, SomebodyWillEnd, [Next]_vars
    PROVE  SomebodyWillEnd'
<1> USE DEF TypeOK, SomebodyWillEnd, Hearing, Answering, shared, IDLE
<1>1. CASE StartRecording \/ StartCapture \/ SetRecording \/ Interrupt \/ InterruptRecording
           \/ ToggleMute \/ UNCHANGED vars
  BY <1>1 DEF StartRecording, StartCapture, SetRecording, Interrupt, InterruptRecording,
              ToggleMute, vars
<1>2. ASSUME NEW w \in Workers, Spawn(w) \/ StopRecording(w) \/ ForgetTake(w) \/ PlaybackEnds(w)
      PROVE  SomebodyWillEnd'
  BY <1>2 DEF Spawn, StopRecording, ForgetTake, PlaybackEnds, Go, Leave
<1>3. ASSUME NEW w \in Workers, SetTranscribing(w) \/ Transcribed(w) \/ Respond(w)
      PROVE  SomebodyWillEnd'
  BY <1>3 DEF SetTranscribing, Transcribed, Respond, Go, Leave, EndIdle
<1>4. ASSUME NEW w \in Workers, BeginThinking(w) \/ BrainReturns(w) \/ Reply(w)
      PROVE  SomebodyWillEnd'
  BY <1>4 DEF BeginThinking, BrainReturns, Reply, Go, EndIdle
<1>5. ASSUME NEW w \in Workers,
             SpeakUnlessMuted(w) \/ Say(w) \/ StartPlayback(w) \/ Waited(w)
      PROVE  SomebodyWillEnd'
  BY <1>5 DEF SpeakUnlessMuted, Say, StartPlayback, Waited, Go, Leave, EndIdle
<1>6. QED
  BY <1>1, <1>2, <1>3, <1>4, <1>5 DEF Next, WorkerStep

\* No recorder is left to itself, unless a recording was begun over a call.
LEMMA RecordingsStep ==
    ASSUME TypeOK, RecordingsAreOrderly, [Next]_vars
    PROVE  RecordingsAreOrderly'
<1> USE DEF TypeOK, RecordingsAreOrderly, InFlight, shared, processes, history, IDLE
<1>1. CASE StartRecording
  BY <1>1 DEF StartRecording, ClearCancel
<1>2. CASE StartCapture
  BY <1>2 DEF StartCapture
<1>3. CASE SetRecording
  BY <1>3 DEF SetRecording
<1>4. CASE Interrupt
  BY <1>4 DEF Interrupt
<1>5. CASE InterruptRecording
  BY <1>5 DEF InterruptRecording
<1>6. CASE ToggleMute
  BY <1>6 DEF ToggleMute
<1>7. ASSUME NEW w \in Workers, Spawn(w)
      PROVE  RecordingsAreOrderly'
  BY <1>7 DEF Spawn
<1>8. ASSUME NEW w \in Workers, StopRecording(w)
      PROVE  RecordingsAreOrderly'
  BY <1>8 DEF StopRecording, Go, Leave
<1>9. ASSUME NEW w \in Workers,
             ForgetTake(w) \/ SetTranscribing(w) \/ Transcribed(w) \/ Respond(w)
      PROVE  RecordingsAreOrderly'
  BY <1>9 DEF ForgetTake, SetTranscribing, Transcribed, Respond, Go, Leave, EndIdle
<1>10. ASSUME NEW w \in Workers, BeginThinking(w) \/ BrainReturns(w) \/ Reply(w)
       PROVE  RecordingsAreOrderly'
  BY <1>10 DEF BeginThinking, ClearCancel, BrainReturns, Reply, Go, EndIdle
<1>11. ASSUME NEW w \in Workers,
              SpeakUnlessMuted(w) \/ Say(w) \/ StartPlayback(w) \/ Waited(w)
       PROVE  RecordingsAreOrderly'
  BY <1>11 DEF SpeakUnlessMuted, Say, StartPlayback, Waited, Go, Leave, EndIdle
<1>12. ASSUME NEW w \in Workers, PlaybackEnds(w)
       PROVE  RecordingsAreOrderly'
  BY <1>12 DEF PlaybackEnds
<1>13. CASE UNCHANGED vars
  BY <1>13 DEF vars
<1>14. QED
  BY <1>1, <1>2, <1>3, <1>4, <1>5, <1>6, <1>7, <1>8, <1>9, <1>10, <1>11, <1>12, <1>13
     DEF Next, WorkerStep

\* A call that was cut comes to its check before it speaks, with cancel as it was, or
\* it is noted why not.
LEMMA CutStep ==
    ASSUME TypeOK, CutCallsWillSee, [Next]_vars
    PROVE  CutCallsWillSee'
<1> USE DEF TypeOK, CutCallsWillSee, Early, shared, processes, history
<1>1. CASE StartRecording
  BY <1>1 DEF StartRecording, ClearCancel, InFlight
<1>2. CASE StartCapture \/ SetRecording \/ InterruptRecording
  BY <1>2 DEF StartCapture, SetRecording, InterruptRecording
<1>3. CASE Interrupt
  <2>1. cancel' /\ at' = at /\ cut' = cut \cup InFlight /\ slipped' = slipped \cup PastCheck
        /\ revived' = revived
    BY <1>3 DEF Interrupt
  <2>2. \A w \in InFlight \ PastCheck : at[w] \in Early
    BY DEF InFlight, PastCheck, Places
  <2>3. QED
    BY <2>1, <2>2
<1>4. CASE ToggleMute
  BY <1>4 DEF ToggleMute
<1>5. ASSUME NEW w \in Workers, Spawn(w)
      PROVE  CutCallsWillSee'
  BY <1>5 DEF Spawn
<1>6. ASSUME NEW w \in Workers,
             StopRecording(w) \/ ForgetTake(w) \/ SetTranscribing(w) \/ Transcribed(w)
      PROVE  CutCallsWillSee'
  BY <1>6 DEF StopRecording, ForgetTake, SetTranscribing, Transcribed, Go, Leave, EndIdle
<1>7. ASSUME NEW w \in Workers, Respond(w) \/ BrainReturns(w) \/ Reply(w)
      PROVE  CutCallsWillSee'
  BY <1>7 DEF Respond, BrainReturns, Reply, Go, Leave, EndIdle
<1>8. ASSUME NEW w \in Workers, BeginThinking(w)
      PROVE  CutCallsWillSee'
  BY <1>8 DEF BeginThinking, ClearCancel, InFlight, Go
<1>9. ASSUME NEW w \in Workers,
             SpeakUnlessMuted(w) \/ Say(w) \/ StartPlayback(w) \/ Waited(w)
      PROVE  CutCallsWillSee'
  BY <1>9 DEF SpeakUnlessMuted, Say, StartPlayback, Waited, Go, Leave, EndIdle
<1>10. ASSUME NEW w \in Workers, PlaybackEnds(w)
       PROVE  CutCallsWillSee'
  BY <1>10 DEF PlaybackEnds
<1>11. CASE UNCHANGED vars
  BY <1>11 DEF vars
<1>12. QED
  BY <1>1, <1>2, <1>3, <1>4, <1>5, <1>6, <1>7, <1>8, <1>9, <1>10, <1>11 DEF Next, WorkerStep

\* A playback is stopped or ends before its worker goes on.
LEMMA PlaybackStep ==
    ASSUME TypeOK, PlaybacksAreWaitedFor, [Next]_vars
    PROVE  PlaybacksAreWaitedFor'
<1> USE DEF TypeOK, PlaybacksAreWaitedFor, shared, processes, history
<1>1. CASE StartRecording \/ StartCapture \/ SetRecording \/ Interrupt \/ InterruptRecording
           \/ ToggleMute \/ UNCHANGED vars
  BY <1>1 DEF StartRecording, StartCapture, SetRecording, Interrupt, InterruptRecording,
              ToggleMute, vars
<1>2. ASSUME NEW w \in Workers, Spawn(w)
      PROVE  PlaybacksAreWaitedFor'
  BY <1>2 DEF Spawn
<1>3. ASSUME NEW w \in Workers, NEW place \in Places, at[w] # "wait" \/ w \notin playing,
             at' = [at EXCEPT ![w] = place], playing' \subseteq playing
      PROVE  PlaybacksAreWaitedFor'
  BY <1>3
<1>4. ASSUME NEW w \in Workers, StartPlayback(w)
      PROVE  PlaybacksAreWaitedFor'
  BY <1>4 DEF StartPlayback, Go, EndIdle
<1>5. ASSUME NEW w \in Workers, PlaybackEnds(w)
      PROVE  PlaybacksAreWaitedFor'
  BY <1>5 DEF PlaybackEnds
<1>6. ASSUME NEW w \in Workers,
             \/ StopRecording(w) \/ ForgetTake(w) \/ SetTranscribing(w) \/ Transcribed(w)
             \/ Respond(w) \/ BeginThinking(w) \/ BrainReturns(w) \/ Reply(w)
             \/ SpeakUnlessMuted(w) \/ Say(w) \/ Waited(w)
      PROVE  PlaybacksAreWaitedFor'
  BY <1>3, <1>6
     DEF StopRecording, ForgetTake, SetTranscribing, Transcribed, Respond, BeginThinking,
         BrainReturns, Reply, SpeakUnlessMuted, Say, Waited, Go, Leave, EndIdle, Places
<1>7. QED
  BY <1>1, <1>2, <1>4, <1>5, <1>6 DEF Next, WorkerStep

\* While muted, what plays and what is about to play was through when it was muted.
LEMMA MuteStep ==
    ASSUME TypeOK, SynthesesAreKnown, MutedIsSilentUnless, [Next]_vars
    PROVE  SynthesesAreKnown' /\ MutedIsSilentUnless'
<1> USE DEF TypeOK, SynthesesAreKnown, MutedIsSilentUnless, shared, processes, history
<1>1. CASE StartRecording \/ StartCapture \/ SetRecording \/ Interrupt \/ InterruptRecording
           \/ UNCHANGED vars
  BY <1>1 DEF StartRecording, StartCapture, SetRecording, Interrupt, InterruptRecording, vars
<1>2. CASE ToggleMute
  BY <1>2 DEF ToggleMute, PastMute
<1>3. ASSUME NEW w \in Workers, Spawn(w)
      PROVE  SynthesesAreKnown' /\ MutedIsSilentUnless'
  BY <1>3 DEF Spawn
<1>4. ASSUME NEW w \in Workers, SpeakUnlessMuted(w)
      PROVE  SynthesesAreKnown' /\ MutedIsSilentUnless'
  BY <1>4 DEF SpeakUnlessMuted, Go, EndIdle
<1>5. ASSUME NEW w \in Workers, StartPlayback(w)
      PROVE  SynthesesAreKnown' /\ MutedIsSilentUnless'
  BY <1>5 DEF StartPlayback, Go, EndIdle
<1>6. ASSUME NEW w \in Workers, PlaybackEnds(w)
      PROVE  SynthesesAreKnown' /\ MutedIsSilentUnless'
  BY <1>6 DEF PlaybackEnds
<1>7. ASSUME NEW w \in Workers, NEW place \in Places \ {"synth"},
             at' = [at EXCEPT ![w] = place], UNCHANGED <<muted, playing, through>>
      PROVE  SynthesesAreKnown' /\ MutedIsSilentUnless'
  BY <1>7
<1>8. ASSUME NEW w \in Workers,
             \/ StopRecording(w) \/ ForgetTake(w) \/ SetTranscribing(w) \/ Transcribed(w)
             \/ Respond(w) \/ BeginThinking(w) \/ BrainReturns(w) \/ Reply(w) \/ Say(w)
             \/ Waited(w)
      PROVE  SynthesesAreKnown' /\ MutedIsSilentUnless'
  BY <1>7, <1>8
     DEF StopRecording, ForgetTake, SetTranscribing, Transcribed, Respond, BeginThinking,
         BrainReturns, Reply, Say, Waited, Go, Leave, EndIdle, Places
<1>9. QED
  BY <1>1, <1>2, <1>3, <1>4, <1>5, <1>6, <1>8 DEF Next, WorkerStep

\* The inductive invariant holds throughout.
THEOREM IInvSpec == Spec => []IInv
<1>1. IInv /\ [Next]_vars => IInv'
  BY TypeStep, WillEndStep, RecordingsStep, CutStep, PlaybackStep, MuteStep DEF IInv
<1>2. QED
  BY InitIInv, <1>1, PTL DEF Spec

\* Type correctness, for any workers and recordings.
THEOREM TypeCorrect == Spec => []TypeOK
BY IInvSpec, PTL DEF IInv

\* When no call is in flight the microphone is open again, and no recorder runs that
\* interrupt and stop_and_respond would not find (unless one was begun over a call).
THEOREM NothingLeft == Spec => []NothingIsLeftBehind
<1>1. IInv => QuietIsIdle
  BY DEF IInv, TypeOK, SomebodyWillEnd, QuietIsIdle, Hearing, Answering, InFlight, States
<1>2. IInv => RecorderIsKnown
  BY DEF IInv, RecordingsAreOrderly, RecorderIsKnown
<1>3. QED
  BY IInvSpec, <1>1, <1>2, PTL DEF NothingIsLeftBehind

\* Of the calls that were interrupted only those speak that were past their check of
\* cancel, or whose cancel was cleared; and while muted only those past that check.
THEOREM Silent == Spec => []SilentUnless
<1>1. IInv => InterruptedIsSilentUnless
  BY DEF IInv, CutCallsWillSee, PlaybacksAreWaitedFor, InterruptedIsSilentUnless, Early
<1>2. IInv => MutedIsSilentUnless
  BY DEF IInv
<1>3. QED
  BY IInvSpec, <1>1, <1>2, PTL DEF SilentUnless
----------------------------------------------------------------------------
(* The memory of a conversation.                                            *)

\* What the variables are.
ContextTypes ==
    /\ window \in Seq(Nat) /\ about \in Seq(Topics)
    /\ active \in BOOLEAN
    /\ base = [t \in C!Asking |-> base[t]]

\* A gist nobody wrote is empty.
NoGistYet == ~active => gist = {}

\* What one thread read and the gist or another thread lacks was written while
\* some thread was at work, so that its loss is accounted for.
ReadingsAgree ==
    /\ \A t \in C!Asking : gist \subseteq base[t] \cup raced
    /\ \A t \in C!Asking : base[t] \subseteq gist \cup raced
    /\ \A t, u \in C!Asking : base[t] \subseteq base[u] \cup raced

\* The inductive invariant.
ContextInv ==
    /\ ContextTypes
    /\ NoGistYet
    /\ ReadingsAgree
    /\ C!SaidIsFound

\* What is in a window stays in it or is in front when a turn is pushed.
LEMMA PushedElements ==
    ASSUME WindowMaxlen \in Nat \ {0}, NEW w \in Seq(Nat), NEW t \in Nat
    PROVE  /\ C!Pushed(w, t) \in Seq(Nat)
           /\ t \in C!Elements(C!Pushed(w, t))
           /\ Len(w) < WindowMaxlen => C!Elements(w) \subseteq C!Elements(C!Pushed(w, t))
           /\ Len(w) >= WindowMaxlen =>
                 C!Elements(w) \subseteq C!Elements(C!Pushed(w, t)) \cup {w[1]}
<1>1. CASE Len(w) < WindowMaxlen
  <2>1. C!Pushed(w, t) = Append(w, t)
    BY <1>1 DEF C!Pushed
  <2>2. Append(w, t)[Len(w) + 1] = t /\ \A i \in 1 .. Len(w) : Append(w, t)[i] = w[i]
    OBVIOUS
  <2>3. /\ Append(w, t) \in Seq(Nat)
        /\ DOMAIN w = 1 .. Len(w) /\ DOMAIN Append(w, t) = 1 .. Len(w) + 1 /\ Len(w) \in Nat
    OBVIOUS
  <2>4. C!Elements(w) \subseteq C!Elements(Append(w, t)) /\ t \in C!Elements(Append(w, t))
    BY <2>2, <2>3 DEF C!Elements
  <2>5. QED
    BY <1>1, <2>1, <2>3, <2>4
<1>2. CASE Len(w) >= WindowMaxlen
  <2>1. Len(w) \in Nat /\ Len(w) > 0 /\ w # <<>>
    BY <1>2
  <2>2. C!Pushed(w, t) = Append(Tail(w), t)
    BY <1>2 DEF C!Pushed
  <2>3. /\ Tail(w) \in Seq(Nat) /\ Len(Tail(w)) = Len(w) - 1
        /\ \A i \in 1 .. Len(w) - 1 : Tail(w)[i] = w[i + 1]
    BY <2>1
  <2>4. /\ Append(Tail(w), t) \in Seq(Nat) /\ Len(Append(Tail(w), t)) = Len(w)
        /\ Append(Tail(w), t)[Len(w)] = t
        /\ \A i \in 1 .. Len(w) - 1 : Append(Tail(w), t)[i] = w[i + 1]
    BY <2>1, <2>3
  <2>5. \A i \in 1 .. Len(w) : Append(Tail(w), t)[i] \in C!Elements(Append(Tail(w), t))
    <3>1. DOMAIN Append(Tail(w), t) = 1 .. Len(w)
      BY <2>4
    <3>2. QED
      BY <3>1 DEF C!Elements
  <2>6. ASSUME NEW i \in 1 .. Len(w)
        PROVE  w[i] \in C!Elements(Append(Tail(w), t)) \cup {w[1]}
    <3>1. CASE i = 1
      BY <3>1
    <3>2. CASE i # 1
      <4>1. i - 1 \in 1 .. Len(w) - 1 /\ i - 1 \in 1 .. Len(w)
        BY <2>1, <3>2
      <4>2. Append(Tail(w), t)[i - 1] = w[i]
        BY <2>4, <4>1
      <4>3. QED
        BY <2>5, <4>1, <4>2
    <3>3. QED
      BY <3>1, <3>2
  <2>7. C!Elements(w) \subseteq C!Elements(Append(Tail(w), t)) \cup {w[1]}
    <3>1. C!Elements(w) = {w[i] : i \in 1 .. Len(w)}
      BY DEF C!Elements
    <3>2. QED
      BY <2>6, <3>1
  <2>8. t \in C!Elements(Append(Tail(w), t))
    <3>1. Len(w) \in 1 .. Len(w)
      BY <2>1
    <3>2. QED
      BY <2>4, <2>5, <3>1
  <2>9. QED
    BY <1>2, <2>1, <2>2, <2>4, <2>7, <2>8
<1>3. QED
  BY <1>1, <1>2

\* Initially nothing was said.
LEMMA InitContextInv == C!Init => ContextInv
<1> SUFFICES ASSUME C!Init
             PROVE  ContextInv
  OBVIOUS
<1>1. C!Asking = {}
  BY DEF C!Init, C!Asking
<1>2. ContextTypes
  <2>1. base = [t \in {} |-> base[t]]
    BY DEF C!Init
  <2>2. base = [t \in C!Asking |-> base[t]]
    BY <1>1, <2>1
  <2>3. <<>> \in Seq(Nat) /\ <<>> \in Seq(Topics)
    OBVIOUS
  <2>4. QED
    BY <2>2, <2>3 DEF C!Init, ContextTypes
<1>3. C!SaidIsFound
  BY DEF C!Init, C!SaidIsFound, C!Turns, C!Silence
<1>4. QED
  BY <1>1, <1>2, <1>3 DEF C!Init, ContextInv, NoGistYet, ReadingsAgree

\* A turn that is added is in the window, and the one that leaves has its thread.
LEMMA AddStep ==
    ASSUME WindowMaxlen \in Nat \ {0}, ContextInv, C!Add
    PROVE  ContextInv'
<1> USE DEF ContextInv
<1> DEFINE t == Len(about) + 1
<1>1. t \in Nat /\ window' = C!Pushed(window, t) /\ about' \in Seq(Topics) /\ C!Turns' = C!Turns \cup {t}
  BY DEF C!Add, ContextTypes, C!Turns
<1>2. window' \in Seq(Nat) /\ t \in C!Elements(window')
  BY <1>1, PushedElements DEF ContextTypes
<1>3. C!Elements(window) \subseteq C!Elements(window') \cup started'
  <2>1. CASE Len(window) < WindowMaxlen
    BY <1>1, <2>1, PushedElements DEF ContextTypes
  <2>2. CASE Len(window) >= WindowMaxlen
    <3>1. C!Elements(window) \subseteq C!Elements(window') \cup {window[1]}
      BY <1>1, <2>2, PushedElements DEF ContextTypes
    <3>2. window[1] \in started'
      BY <2>2 DEF C!Add, C!Full
    <3>3. QED
      BY <3>1, <3>2
  <2>3. QED
    BY <2>1, <2>2 DEF ContextTypes
<1>4. started \subseteq started'
  BY DEF C!Add
<1>5. C!SaidIsFound'
  BY <1>1, <1>2, <1>3, <1>4 DEF C!SaidIsFound, C!Excused, C!Asking, C!Add
<1>6. QED
  BY <1>1, <1>2, <1>5 DEF C!Add, ContextTypes, NoGistYet, ReadingsAgree, C!Asking

\* Every step keeps the invariant.
LEMMA ContextStep ==
    ASSUME WindowMaxlen \in Nat \ {0}, ContextInv, [C!Next]_C!contextVars
    PROVE  ContextInv'
<1> USE DEF ContextInv
<1>1. CASE C!Add
  BY <1>1, AddStep
<1>2. ASSUME NEW t \in C!Turns, C!ReadGist(t)
      PROVE  ContextInv'
  <2>1. /\ C!Asking' = C!Asking \cup {t} /\ base'[t] = gist
        /\ \A u \in C!Asking : u # t => base'[u] = base[u]
    BY <1>2 DEF C!ReadGist, C!Asking
  <2>2. C!SaidIsFound'
    BY <1>2, <2>1 DEF C!SaidIsFound, C!Turns, C!Elements, C!Excused, C!ReadGist
  <2>3. ReadingsAgree'
    <3>1. /\ \A u \in C!Asking' : gist \subseteq base'[u] \cup raced
          /\ \A u \in C!Asking' : base'[u] \subseteq gist \cup raced
      BY <2>1 DEF ReadingsAgree
    <3>2. \A u, v \in C!Asking' : base'[u] \subseteq base'[v] \cup raced
      BY <2>1, <3>1 DEF ReadingsAgree
    <3>3. QED
      BY <1>2, <3>1, <3>2 DEF ReadingsAgree, C!ReadGist
  <2>4. ContextTypes'
    BY <1>2, <2>1 DEF C!ReadGist, ContextTypes, C!Asking
  <2>5. QED
    BY <1>2, <2>2, <2>3, <2>4 DEF C!ReadGist, NoGistYet
<1>3. ASSUME NEW t \in C!Turns, C!WriteGist(t)
      PROVE  ContextInv'
  <2>1. /\ t \in C!Asking /\ C!Asking' = C!Asking \ {t} /\ \A u \in C!Asking' : base'[u] = base[u]
    BY <1>3 DEF C!WriteGist, C!Over, C!Asking
  <2>2. gist' = base[t] \cup {t} /\ raced \subseteq raced'
    BY <1>3 DEF C!WriteGist
  <2>3. C!Asking' # {} => t \in raced'
    BY <1>3, <2>1 DEF C!WriteGist
  <2>4. ReadingsAgree'
    BY <2>1, <2>2, <2>3 DEF ReadingsAgree
  <2>5. C!SaidIsFound'
    BY <1>3, <2>1, <2>2 DEF C!SaidIsFound, ReadingsAgree, C!Turns, C!Elements, C!Excused, C!WriteGist
  <2>6. QED
    BY <1>3, <2>1, <2>4, <2>5 DEF C!WriteGist, C!Over, ContextTypes, NoGistYet, C!Asking
<1>4. ASSUME NEW t \in C!Turns, C!CompressFails(t)
      PROVE  ContextInv'
  <2>1. /\ t \in C!Asking /\ C!Asking' = C!Asking \ {t} /\ \A u \in C!Asking' : base'[u] = base[u]
    BY <1>4 DEF C!CompressFails, C!Over, C!Asking
  <2>2. C!SaidIsFound'
    BY <1>4, <2>1 DEF C!SaidIsFound, C!Turns, C!Elements, C!Excused, C!CompressFails
  <2>3. QED
    BY <1>4, <2>1, <2>2 DEF C!CompressFails, C!Over, ContextTypes, NoGistYet, ReadingsAgree, C!Asking
<1>5. ASSUME NEW topic \in Topics, C!Lookup(topic)
      PROVE  ContextInv'
  <2>1. answer'.denied \subseteq answer'.excused
    <3>1. CASE C!InWindow(topic) \/ C!InGist(topic)
      BY <1>5, <3>1 DEF C!Lookup, C!Answered
    <3>2. CASE ~C!InWindow(topic) /\ ~C!InGist(topic)
      <4>1. C!Matching(C!Turns, topic) \subseteq C!Excused
        BY <3>2 DEF C!InWindow, C!InGist, C!Matching, NoGistYet, C!SaidIsFound
      <4>2. QED
        BY <1>5, <3>2, <4>1 DEF C!Lookup, C!FromTranscript, C!Answered
    <3>3. QED
      BY <3>1, <3>2
  <2>2. C!SaidIsFound'
    BY <1>5, <2>1 DEF C!SaidIsFound, C!Turns, C!Elements, C!Excused, C!Asking, C!Lookup
  <2>3. QED
    BY <1>5, <2>2 DEF C!Lookup, ContextTypes, NoGistYet, ReadingsAgree, C!Asking
<1>6. CASE C!ReadNotes
  <2>1. answer'.denied \subseteq answer'.excused
    BY <1>6 DEF C!ReadNotes, C!Answered
  <2>2. C!SaidIsFound'
    BY <1>6, <2>1 DEF C!SaidIsFound, C!Turns, C!Elements, C!Excused, C!Asking, C!ReadNotes
  <2>3. QED
    BY <1>6, <2>2 DEF C!ReadNotes, ContextTypes, NoGistYet, ReadingsAgree, C!Asking
<1>7. CASE UNCHANGED C!contextVars
  BY <1>7 DEF C!contextVars, ContextTypes, NoGistYet, ReadingsAgree, C!SaidIsFound, C!Turns, C!Elements,
              C!Excused, C!Asking
<1>8. QED
  BY <1>1, <1>2, <1>3, <1>4, <1>5, <1>6, <1>7 DEF C!Next

\* A turn that was said is in the window, in the gist or on its way there, unless
\* its compression failed or it was written while another thread was at the gist,
\* and Iris denies no other turn: however many threads overlap.
THEOREM NothingElseIsLost == WindowMaxlen \in Nat \ {0} => (C!Spec => []SaidIsFound)
<1> SUFFICES ASSUME WindowMaxlen \in Nat \ {0}
             PROVE  C!Spec => []SaidIsFound
  OBVIOUS
<1>1. ContextInv /\ [C!Next]_C!contextVars => ContextInv'
  BY ContextStep
<1>2. ContextInv => SaidIsFound
  BY DEF ContextInv, SaidIsFound
<1>3. QED
  BY InitContextInv, <1>1, <1>2, PTL DEF C!Spec

----------------------------------------------------------------------------
(* What is remembered of calls.                                             *)

\* Where an archive is, what it has read, and what a session holds.
ArchivePlaces == {"none", "over", "check", "contact", "close", "shutdown", "join", "read",
                  "end", "embed", "notes"}
Archives == [at : ArchivePlaces, of : 0 .. MaxBegun, contact : M!Whom \cup {M!Sentinel},
             worker : 0 .. MaxBegun, gist : SUBSET M!Turns]
Sessions == [contact : M!Whom \cup {M!Sentinel}, ended : BOOLEAN, gist : SUBSET M!Turns]

\* Turn n of call k is in the call's window, in its gist, or known to be lost.
Remembered(k, n) == n \in M!Range(recent[k]) \/ n \in summary[k] \/ n \in forgotten[k]

\* It is on its way into the gist.
OnItsWay(k, n) == \E i \in DOMAIN inbox[k] : n \in inbox[k][i]

Works(t) == archive[t].at \notin {"none", "over"}
HasShutDown(t) == archive[t].at \in {"join", "read", "end", "embed", "notes"}

\* What the variables are.
MemoryTypes ==
    /\ begun \in 0 .. MaxBegun /\ onCall \in {0, begun} /\ lastBegun = begun
    /\ identity \in M!Whom \cup {M!Sentinel}
    /\ said \in [M!Numbers -> 0 .. MaxTurns] /\ recent \in [M!Numbers -> Seq(M!Turns)]
    /\ bound \in [M!Numbers -> M!Whom]
    /\ inbox \in [M!Numbers -> Seq(SUBSET M!Turns)] /\ worker \in [M!Numbers -> BOOLEAN]
    /\ summary \in [M!Numbers -> SUBSET M!Turns] /\ notes \in [M!Numbers -> BOOLEAN]
    /\ archived \in [M!Numbers -> Sessions]
    /\ archive \in [Threads -> Archives]
    /\ forgotten \in [M!Numbers -> SUBSET M!Turns]

\* Whose call is archived has ended; the archive knows the contact the session was rebound to
\* last, and stops the worker of its own call, unless another has begun.
IsOfTheEnded(t) ==
    Works(t) =>
        /\ archive[t].of \in 1 .. begun /\ archive[t].of # onCall
        /\ archive[t].of = begun \/ archive[t].of \in overtaken
        /\ archive[t].at \notin {"check", "contact"} =>
              archived[archive[t].of].contact = archive[t].contact
        /\ archive[t].at = "close" => ~ M!IsArchived(archive[t].contact)
        /\ archive[t].at \notin {"check", "contact", "close"} => M!IsArchived(archive[t].contact)
        /\ HasShutDown(t) => archive[t].worker = archive[t].of \/ archive[t].of \in overtaken

\* A session ends once its call has.
EndedAreOver == \A k \in M!Numbers : archived[k].ended => k <= begun /\ k # onCall

\* A call that has not come has said nothing.
NothingSaidBefore ==
    \A k \in M!Numbers : k > begun => said[k] = 0 /\ inbox[k] = <<>> /\ ~ archived[k].ended

\* Every turn is somewhere.
EveryTurnIsSomewhere ==
    \A k \in M!Numbers : \A n \in 1 .. said[k] : Remembered(k, n) \/ OnItsWay(k, n)

\* A worker is stopped by the last that is put in its inbox.
StoppedLast ==
    \A k \in M!Numbers : k \notin overtaken =>
        /\ \A i \in DOMAIN inbox[k] : inbox[k][i] = {} =>
              k # onCall /\ \A j \in DOMAIN inbox[k] : i < j => inbox[k][j] = {}
        /\ k <= begun /\ ~ worker[k] =>
              k # onCall /\ \A i \in DOMAIN inbox[k] : inbox[k][i] = {}

\* What an archive has waited for, and what it has read.
HasAll(t) ==
    Works(t) /\ archive[t].of \notin overtaken =>
        /\ archive[t].at = "read" =>
              \A n \in 1 .. said[archive[t].of] : Remembered(archive[t].of, n)
        /\ archive[t].at = "end" =>
              \A n \in 1 .. said[archive[t].of] :
                  \/ n \in M!Range(recent[archive[t].of])
                  \/ n \in archive[t].gist \cup forgotten[archive[t].of]

\* What was stored is of a call that is over, and its own.
StoredIsOwn ==
    \A r \in rows : r[3] # "turn" =>
        /\ r[1] \in 1 .. begun /\ r[1] # onCall
        /\ archived[r[1]].contact \in People
        /\ r[4] = r[1] \/ r[1] \in overtaken

\* What had left the window when a call was archived is in its final gist, or was lost.
FinalGistHasAll ==
    \A k \in M!Numbers :
      archived[k].ended /\ k \notin overtaken /\ M!IsArchived(archived[k].contact) =>
        \A n \in 1 .. said[k] :
            n \in M!Range(recent[k]) \/ n \in archived[k].gist \/ n \in forgotten[k]

\* The inductive invariant.
MemoryInv ==
    /\ MemoryTypes /\ (\A t \in Threads : IsOfTheEnded(t) /\ HasAll(t))
    /\ EndedAreOver /\ NothingSaidBefore /\ EveryTurnIsSomewhere /\ StoppedLast
    /\ StoredIsOwn /\ FinalGistHasAll

----------------------------------------------------------------------------
(* Lemmas.                                                                  *)

USE MemoryBounds

\* The record of an archive, as its steps change it.
LEMMA ArchiveKinds ==
    ASSUME NEW a \in Archives, NEW p \in ArchivePlaces, NEW w \in 0 .. MaxBegun,
           NEW g \in SUBSET M!Turns,
           NEW c \in M!Whom \cup {M!Sentinel}
    PROVE  /\ [a EXCEPT !.at = p] \in Archives /\ [a EXCEPT !.at = p].at = p
           /\ [a EXCEPT !.at = p].of = a.of /\ [a EXCEPT !.at = p].contact = a.contact
           /\ [a EXCEPT !.at = p].worker = a.worker /\ [a EXCEPT !.at = p].gist = a.gist
           /\ [a EXCEPT !.at = p, !.contact = c] \in Archives
                /\ [a EXCEPT !.at = p, !.contact = c].at = p
           /\ [a EXCEPT !.at = p, !.contact = c].of = a.of
           /\ [a EXCEPT !.at = p, !.contact = c].contact = c
           /\ [a EXCEPT !.at = p, !.worker = w] \in Archives
                /\ [a EXCEPT !.at = p, !.worker = w].at = p
           /\ [a EXCEPT !.at = p, !.worker = w].of = a.of
           /\ [a EXCEPT !.at = p, !.worker = w].contact = a.contact
           /\ [a EXCEPT !.at = p, !.worker = w].worker = w
           /\ [a EXCEPT !.at = p, !.gist = g, !.worker = w] \in Archives
           /\ [a EXCEPT !.at = p, !.gist = g, !.worker = w].at = p
           /\ [a EXCEPT !.at = p, !.gist = g, !.worker = w].of = a.of
           /\ [a EXCEPT !.at = p, !.gist = g, !.worker = w].contact = a.contact
           /\ [a EXCEPT !.at = p, !.gist = g, !.worker = w].worker = w
           /\ [a EXCEPT !.at = p, !.gist = g, !.worker = w].gist = g
BY DEF Archives

LEMMA IdleAndOver ==
    /\ M!Idle \in Archives /\ M!Idle.at = "none" /\ M!Over \in Archives /\ M!Over.at = "over"
    /\ \A k \in 0 .. MaxBegun : M!Begins(k) \in Archives /\ M!Begins(k).at = "check"
         /\ M!Begins(k).of = k
<1>1. M!Idle \in Archives /\ M!Idle.at = "none"
  BY DEF M!Idle, Archives, ArchivePlaces, M!None, M!Unidentified, M!Whom
<1>2. \A a \in Archives : [a EXCEPT !.at = "over"] \in Archives
        /\ [a EXCEPT !.at = "over"].at = "over"
  BY DEF Archives, ArchivePlaces
<1>3. ASSUME NEW a \in Archives, NEW k \in 0 .. MaxBegun
      PROVE  /\ [a EXCEPT !.at = "check", !.of = k] \in Archives
             /\ [a EXCEPT !.at = "check", !.of = k].at = "check"
             /\ [a EXCEPT !.at = "check", !.of = k].of = k
  BY DEF Archives, ArchivePlaces
<1>4. QED
  BY <1>1, <1>2, <1>3 DEF M!Over, M!Begins

\* Only contacts are archived.
LEMMA ArchivedAreContacts ==
    \A who \in M!Whom \cup {M!Sentinel} : M!IsArchived(who) => who \in People
BY DEF M!IsArchived, M!Whom

\* Sessions.
LEMMA SessionKinds ==
    ASSUME NEW s \in Sessions, NEW c \in M!Whom \cup {M!Sentinel}, NEW b \in BOOLEAN,
           NEW g \in SUBSET M!Turns
    PROVE  /\ [s EXCEPT !.contact = c] \in Sessions /\ [s EXCEPT !.contact = c].contact = c
           /\ [s EXCEPT !.contact = c].ended = s.ended /\ [s EXCEPT !.contact = c].gist = s.gist
           /\ [s EXCEPT !.ended = b] \in Sessions /\ [s EXCEPT !.ended = b].contact = s.contact
           /\ [s EXCEPT !.ended = b].ended = b /\ [s EXCEPT !.ended = b].gist = s.gist
           /\ M!EndWithGist(s, g) \in Sessions /\ M!EndWithGist(s, g).contact = s.contact
           /\ M!EndWithGist(s, g).ended = TRUE
           /\ M!EndWithGist(s, g).gist = IF s.ended THEN s.gist ELSE g
BY DEF Sessions, M!EndWithGist

\* What is appended to a list.
LEMMA Appended ==
    ASSUME NEW S, NEW q \in Seq(S), NEW x \in S
    PROVE  /\ Append(q, x) \in Seq(S) /\ DOMAIN Append(q, x) = 1 .. (Len(q) + 1)
           /\ DOMAIN q = 1 .. Len(q) /\ Len(q) \in Nat
           /\ \A i \in 1 .. Len(q) : Append(q, x)[i] = q[i]
           /\ Append(q, x)[Len(q) + 1] = x
OBVIOUS

LEMMA InitMemoryInv == M!Init => MemoryInv
<1> SUFFICES ASSUME M!Init
             PROVE  MemoryInv
  OBVIOUS
<1>1. \A k \in M!Numbers : /\ said[k] = 0 /\ recent[k] = <<>> /\ inbox[k] = <<>>
                           /\ archived[k] = M!NoRow /\ worker[k] = FALSE
  BY DEF M!Init
<1>2. M!NoRow \in Sessions /\ M!NoRow.ended = FALSE
  BY DEF M!NoRow, Sessions, M!Whom
<1>3. MemoryTypes
  BY <1>2, IdleAndOver DEF M!Init, MemoryTypes, M!None, M!Whom
<1>4. \A t \in Threads : ~ Works(t)
  BY IdleAndOver DEF M!Init, Works
<1>5. \A t \in Threads : IsOfTheEnded(t) /\ HasAll(t)
  BY <1>4 DEF IsOfTheEnded, HasAll
<1>6. EndedAreOver /\ NothingSaidBefore /\ FinalGistHasAll
  BY <1>1, <1>2 DEF EndedAreOver, NothingSaidBefore, FinalGistHasAll
<1>7. EveryTurnIsSomewhere /\ StoredIsOwn
  BY <1>1 DEF M!Init, EveryTurnIsSomewhere, StoredIsOwn
<1>8. StoppedLast
  <2>1. \A k \in M!Numbers : k > begun /\ DOMAIN inbox[k] = {}
    BY <1>1 DEF M!Init, M!Numbers
  <2>2. QED
    BY <2>1 DEF StoppedLast, M!Init, M!Numbers
<1>9. QED
  BY <1>3, <1>5, <1>6, <1>7, <1>8 DEF MemoryInv

----------------------------------------------------------------------------
(* The steps of a call.                                                     *)

LEMMA NumbersAreNumbers ==
    ASSUME MemoryInv
    PROVE  /\ begun \in Nat /\ onCall \in Nat /\ begun <= MaxBegun /\ lastBegun = begun
           /\ \A k \in M!Numbers : k \in Nat /\ k >= 1 /\ k <= MaxBegun
           /\ onCall # M!None => onCall \in M!Numbers /\ onCall = begun
           /\ begun # 0 => begun \in M!Numbers
           /\ \A k \in 1 .. begun : k \in M!Numbers
BY DEF MemoryInv, MemoryTypes, M!Numbers, M!None

LEMMA CallStartStep ==
    ASSUME MemoryInv, NEW who \in M!Whom, M!CallStart(who)
    PROVE  MemoryInv'
<1>0. MemoryInv
  OBVIOUS
<1>1. /\ onCall = M!None /\ begun < MaxBegun
      /\ begun' = begun + 1 /\ onCall' = begun + 1 /\ lastBegun' = begun + 1 /\ identity' = who
      /\ overtaken' = overtaken \cup M!Archiving
      /\ UNCHANGED <<said, recent, inbox, summary, notes, rows, archive, fails, forgotten>>
  BY DEF M!CallStart
<1>2. PICK k : k = begun + 1
  OBVIOUS
<1>3. /\ k \in M!Numbers /\ begun \in Nat /\ k > begun /\ begun' = k /\ onCall' = k
           /\ lastBegun' = k
      /\ \A j \in M!Numbers : j \in Nat
  BY <1>0, <1>1, <1>2, NumbersAreNumbers DEF M!Numbers
<1>4. /\ archived' = [archived EXCEPT ![k].contact = who] /\ bound' = [bound EXCEPT ![k] = who]
      /\ worker' = [worker EXCEPT ![k] = TRUE]
  BY <1>2 DEF M!CallStart, M!StartSession
<1>5. /\ archived \in [M!Numbers -> Sessions] /\ bound \in [M!Numbers -> M!Whom]
      /\ worker \in [M!Numbers -> BOOLEAN]
  BY <1>0 DEF MemoryInv, MemoryTypes
<1>6. /\ archived' \in [M!Numbers -> Sessions] /\ archived'[k].ended = archived[k].ended
      /\ \A j \in M!Numbers : j # k => archived'[j] = archived[j]
  <2>1. PICK s \in Sessions : s = [archived[k] EXCEPT !.contact = who]
    BY <1>3, <1>5, SessionKinds
  <2>2. s.ended = archived[k].ended
    BY <1>3, <1>5, <2>1, SessionKinds
  <2>3. archived' = [archived EXCEPT ![k] = s]
    BY <1>4, <2>1
  <2>4. QED
    BY <1>3, <1>5, <2>2, <2>3
<1>7. said[k] = 0 /\ inbox[k] = <<>> /\ ~ archived[k].ended
  BY <1>0, <1>3 DEF MemoryInv, NothingSaidBefore
<1>8. \A j \in M!Numbers : j > begun' => j > begun /\ j # k
  BY <1>1, <1>2, <1>3
<1>9. MemoryTypes'
  <2>1. bound' \in [M!Numbers -> M!Whom] /\ worker' \in [M!Numbers -> BOOLEAN]
    BY <1>3, <1>4, <1>5
  <2>2. begun' \in 0 .. MaxBegun
    BY <1>1, <1>3 DEF M!Numbers
  <2>3. QED
    BY <1>0, <1>1, <1>3, <1>6, <2>1, <2>2 DEF MemoryInv, MemoryTypes
<1>10. ASSUME NEW t \in Threads
       PROVE  (IsOfTheEnded(t) /\ HasAll(t))'
  <2>1. archive'[t] = archive[t] /\ (Works(t)' <=> Works(t)) /\ (HasShutDown(t)' <=> HasShutDown(t))
    BY <1>1 DEF Works, HasShutDown
  <2>2. Works(t) => archive[t].of \in M!Archiving
    BY DEF Works, M!Archiving
  <2>3. IsOfTheEnded(t) /\ HasAll(t)
    BY <1>0 DEF MemoryInv
  <2>4. ASSUME Works(t)
        PROVE  /\ archive[t].of \in 1 .. begun /\ archive[t].of \in M!Numbers
               /\ archive[t].of \in overtaken' /\ archive[t].of # k
    <3>1. archive[t].of \in 1 .. begun
      BY <2>3, <2>4 DEF IsOfTheEnded
    <3>2. archive[t].of \in M!Numbers /\ archive[t].of # k
      BY <1>2, <1>3, <3>1 DEF M!Numbers
    <3>3. QED
      BY <1>1, <2>2, <2>4, <3>1, <3>2
  <2>5. IsOfTheEnded(t)'
    <3>1. Works(t) => archive[t].of \in 1 .. begun'
            /\ archived'[archive[t].of] = archived[archive[t].of]
      BY <1>1, <1>3, <1>6, <2>4
    <3>2. QED
      BY <1>3, <2>1, <2>3, <2>4, <3>1 DEF IsOfTheEnded
  <2>6. HasAll(t)'
    BY <2>1, <2>4 DEF HasAll
  <2>7. QED
    BY <2>5, <2>6
<1>11. EndedAreOver'
  <2>1. ASSUME NEW j \in M!Numbers, archived'[j].ended
        PROVE  j <= begun' /\ j # onCall'
    <3>1. j # k /\ archived[j].ended
      BY <1>6, <1>7, <2>1
    <3>2. j <= begun
      BY <1>0, <3>1 DEF MemoryInv, EndedAreOver
    <3>3. QED
      BY <1>1, <1>3, <3>1, <3>2
  <2>2. QED
    BY <2>1 DEF EndedAreOver
<1>12. NothingSaidBefore'
  BY <1>0, <1>1, <1>6, <1>8 DEF MemoryInv, NothingSaidBefore
<1>13. EveryTurnIsSomewhere'
  BY <1>0, <1>1 DEF MemoryInv, EveryTurnIsSomewhere, Remembered, OnItsWay
<1>14. StoppedLast'
  <2>1. ASSUME NEW j \in M!Numbers, j \notin overtaken', j # k
        PROVE  /\ \A i \in DOMAIN inbox'[j] : inbox'[j][i] = {} =>
                     j # onCall' /\ \A m \in DOMAIN inbox'[j] : i < m => inbox'[j][m] = {}
               /\ j <= begun' /\ ~ worker'[j] =>
                     j # onCall' /\ \A i \in DOMAIN inbox'[j] : inbox'[j][i] = {}
    <3>1. j \notin overtaken /\ worker'[j] = worker[j] /\ inbox'[j] = inbox[j] /\ j # onCall'
      BY <1>1, <1>3, <1>4, <1>5, <2>1
    <3>2. j <= begun' => j <= begun
      <4>1. j \in Nat /\ begun \in Nat /\ begun' = begun + 1 /\ j # begun + 1
        BY <1>1, <1>2, <1>3, <2>1
      <4>2. QED
        BY <4>1
    <3>3. QED
      BY <1>0, <3>1, <3>2 DEF MemoryInv, StoppedLast
  <2>2. worker'[k] /\ DOMAIN inbox'[k] = {}
    BY <1>1, <1>3, <1>4, <1>5, <1>7
  <2>3. QED
    BY <2>1, <2>2 DEF StoppedLast
<1>15. StoredIsOwn'
  <2>1. ASSUME NEW r \in rows, r[3] # "turn"
        PROVE  /\ r[1] \in 1 .. begun' /\ r[1] # onCall'
               /\ archived'[r[1]].contact \in People
               /\ r[4] = r[1] \/ r[1] \in overtaken'
    <3>1. /\ r[1] \in 1 .. begun /\ archived[r[1]].contact \in People
          /\ r[4] = r[1] \/ r[1] \in overtaken
      BY <1>0, <2>1 DEF MemoryInv, StoredIsOwn
    <3>2. r[1] \in M!Numbers /\ r[1] # k /\ r[1] \in 1 .. begun'
      BY <1>1, <1>2, <1>3, <3>1 DEF M!Numbers
    <3>3. QED
      BY <1>1, <1>3, <1>6, <3>1, <3>2
  <2>2. QED
    BY <1>1, <2>1 DEF StoredIsOwn
<1>16. FinalGistHasAll'
  BY <1>0, <1>1, <1>6, <1>7 DEF MemoryInv, FinalGistHasAll
<1>17. QED
  BY <1>9, <1>10, <1>11, <1>12, <1>13, <1>14, <1>15, <1>16 DEF MemoryInv

\* A sequence that is cut in two, the way the window is.
LEMMA CutInTwo ==
    ASSUME NEW w \in Seq(M!Turns), Len(w) = WindowMax, NEW n \in M!Turns
    PROVE  /\ SubSeq(w, EvictBatch + 1, WindowMax) \in Seq(M!Turns)
           /\ {w[i] : i \in 1 .. EvictBatch} \in SUBSET M!Turns
           /\ {w[i] : i \in 1 .. EvictBatch} # {}
           /\ n \in M!Range(w) => \/ n \in {w[i] : i \in 1 .. EvictBatch}
                                \/ n \in M!Range(SubSeq(w, EvictBatch + 1, WindowMax))
<1>1. /\ EvictBatch \in Nat /\ WindowMax \in Nat /\ 0 < EvictBatch /\ EvictBatch <= WindowMax
      /\ DOMAIN w = 1 .. WindowMax
  OBVIOUS
<1>2. PICK u : u = SubSeq(w, EvictBatch + 1, WindowMax)
  OBVIOUS
<1>3. /\ u \in Seq(M!Turns) /\ Len(u) = WindowMax - EvictBatch
      /\ \A i \in 1 .. (WindowMax - EvictBatch) : u[i] = w[EvictBatch + i]
  <2>1. \A i \in (EvictBatch + 1) .. WindowMax : w[i] \in M!Turns
    BY <1>1
  <2>2. QED
    BY <1>1, <1>2, <2>1, SubSeqProperties
<1>4. {w[i] : i \in 1 .. EvictBatch} \in SUBSET M!Turns
  BY <1>1
<1>5. {w[i] : i \in 1 .. EvictBatch} # {}
  <2>1. 1 \in 1 .. EvictBatch
    BY <1>1
  <2>2. w[1] \in {w[i] : i \in 1 .. EvictBatch}
    BY <2>1
  <2>3. QED
    BY <2>2
<1>6. ASSUME n \in M!Range(w), n \notin {w[i] : i \in 1 .. EvictBatch}
      PROVE  n \in M!Range(u)
  <2>1. PICK i \in 1 .. WindowMax : n = w[i]
    BY <1>1, <1>6 DEF M!Range
  <2>2. i > EvictBatch
    BY <1>1, <1>6, <2>1
  <2>3. PICK j : j = i - EvictBatch
    OBVIOUS
  <2>4. j \in 1 .. (WindowMax - EvictBatch) /\ EvictBatch + j = i
    BY <1>1, <2>2, <2>3
  <2>5. u[j] = w[EvictBatch + j]
    BY <1>3, <2>4
  <2>6. j \in DOMAIN u
    BY <1>1, <1>3, <2>4
  <2>7. QED
    BY <2>1, <2>4, <2>5, <2>6 DEF M!Range
<1>7. QED
  BY <1>2, <1>3, <1>4, <1>5, <1>6

\* What a turn does to the window and the inbox of its call.
LEMMA TurnGoesIn ==
    ASSUME MemoryInv, M!AppendTurn
    PROVE  /\ onCall \in M!Numbers /\ onCall = begun
           /\ said' \in [M!Numbers -> 0 .. MaxTurns] /\ recent' \in [M!Numbers -> Seq(M!Turns)]
           /\ inbox' \in [M!Numbers -> Seq(SUBSET M!Turns)]
           /\ \A j \in M!Numbers : j # onCall =>
                 said'[j] = said[j] /\ recent'[j] = recent[j] /\ inbox'[j] = inbox[j]
           /\ \A n \in 1 .. said'[onCall] :
                 (n \in 1 .. said[onCall] => Remembered(onCall, n) \/ OnItsWay(onCall, n)) =>
                 (Remembered(onCall, n) \/ OnItsWay(onCall, n))'
           /\ \A i \in DOMAIN inbox'[onCall] : inbox'[onCall][i] = {} =>
                 i \in DOMAIN inbox[onCall] /\ inbox[onCall][i] = {}
<1>0. MemoryInv
  OBVIOUS
<1>1. PICK k : k = onCall
  OBVIOUS
<1>2. PICK turn : turn = said[k] + 1
  OBVIOUS
<1>3. /\ k # M!None /\ turn \in M!Turns /\ said' = [said EXCEPT ![k] = turn]
      /\ UNCHANGED <<onCall, summary, forgotten>>
  BY <1>1, <1>2 DEF M!AppendTurn, M!call
<1>4. k \in M!Numbers /\ onCall = begun
  BY <1>0, <1>1, <1>3, NumbersAreNumbers
<1>5. /\ said \in [M!Numbers -> 0 .. MaxTurns] /\ recent \in [M!Numbers -> Seq(M!Turns)]
      /\ inbox \in [M!Numbers -> Seq(SUBSET M!Turns)]
  BY <1>0 DEF MemoryInv, MemoryTypes
<1>6. PICK w \in Seq(M!Turns) : w = recent[k]
  BY <1>4, <1>5
<1>7. PICK q \in Seq(SUBSET M!Turns) : q = inbox[k]
  BY <1>4, <1>5
<1>8. DEFINE kept == IF Len(w) = WindowMax THEN SubSeq(w, EvictBatch + 1, WindowMax) ELSE w
             batch == {w[i] : i \in 1 .. EvictBatch}
             left == IF Len(w) = WindowMax THEN Append(q, batch) ELSE q
<1>9. recent' = [recent EXCEPT ![k] = Append(kept, turn)] /\ inbox' = [inbox EXCEPT ![k] = left]
  <2>1. recent' = [recent EXCEPT ![k] = Append(kept, turn)]
    BY <1>1, <1>2, <1>6 DEF M!AppendTurn
  <2>2. inbox' = IF Len(w) = WindowMax THEN [inbox EXCEPT ![k] = Append(inbox[k], batch)] ELSE inbox
    BY <1>1, <1>6 DEF M!AppendTurn
  <2>3. CASE Len(w) = WindowMax
    <3>1. left = Append(inbox[k], batch)
      BY <1>7, <2>3
    <3>. HIDE DEF kept, batch, left
    <3>2. inbox' = [inbox EXCEPT ![k] = left]
      BY <2>2, <2>3, <3>1
    <3>3. QED
      BY <2>1, <3>2
  <2>4. CASE Len(w) # WindowMax
    <3>1. left = inbox[k]
      BY <1>7, <2>4
    <3>. HIDE DEF kept, batch, left
    <3>2. inbox' = [inbox EXCEPT ![k] = left]
      BY <1>4, <1>5, <2>2, <2>4, <3>1
    <3>3. QED
      BY <2>1, <3>2
  <2>5. QED
    BY <2>3, <2>4
<1>10. /\ kept \in Seq(M!Turns) /\ left \in Seq(SUBSET M!Turns) /\ batch # {}
       /\ \A n \in M!Turns : n \in M!Range(w)
          => n \in M!Range(kept) \/ \E i \in DOMAIN left : n \in left[i]
       /\ \A n : (\E i \in DOMAIN q : n \in q[i]) => \E i \in DOMAIN left : n \in left[i]
       /\ \A i \in DOMAIN left : left[i] = {} => i \in DOMAIN q /\ q[i] = {}
  <2>1. batch # {}
    <3>1. 1 \in 1 .. EvictBatch
      OBVIOUS
    <3>2. QED
      BY <3>1
  <2>2. CASE Len(w) = WindowMax
    <3>1. /\ SubSeq(w, EvictBatch + 1, WindowMax) \in Seq(M!Turns) /\ batch \in SUBSET M!Turns
          /\ \A n \in M!Turns : n \in M!Range(w) =>
                n \in batch \/ n \in M!Range(SubSeq(w, EvictBatch + 1, WindowMax))
      <4>1. ASSUME NEW n \in M!Turns
            PROVE  /\ SubSeq(w, EvictBatch + 1, WindowMax) \in Seq(M!Turns)
                        /\ batch \in SUBSET M!Turns
                   /\ n \in M!Range(w)
                      => n \in batch \/ n \in M!Range(SubSeq(w, EvictBatch + 1, WindowMax))
        BY <2>2, CutInTwo
      <4>2. QED
        BY <1>3, <4>1
    <3>2. kept = SubSeq(w, EvictBatch + 1, WindowMax) /\ left = Append(q, batch)
      BY <2>2
    <3>. HIDE DEF kept, batch, left
    <3>3. /\ left \in Seq(SUBSET M!Turns) /\ DOMAIN left = 1 .. (Len(q) + 1)
          /\ DOMAIN q = 1 .. Len(q) /\ Len(q) \in Nat
          /\ \A i \in 1 .. Len(q) : left[i] = q[i]
          /\ left[Len(q) + 1] = batch
      BY <3>1, <3>2, Appended
    <3>4. \A i \in DOMAIN left : i = Len(q) + 1 \/ i \in DOMAIN q
      BY <3>3
    <3>5. kept \in Seq(M!Turns) /\ left \in Seq(SUBSET M!Turns) /\ batch # {}
      BY <2>1, <3>1, <3>2, <3>3
    <3>6. Len(q) + 1 \in DOMAIN left
      BY <3>3
    <3>7. \A n \in M!Turns : n \in M!Range(w)
          => n \in M!Range(kept) \/ \E i \in DOMAIN left : n \in left[i]
      BY <3>1, <3>2, <3>3, <3>6
    <3>8. \A n : (\E i \in DOMAIN q : n \in q[i]) => \E i \in DOMAIN left : n \in left[i]
      <4>1. \A i \in DOMAIN q : i \in DOMAIN left /\ left[i] = q[i]
        BY <3>3
      <4>2. QED
        BY <4>1
    <3>9. \A i \in DOMAIN left : left[i] = {} => i \in DOMAIN q /\ q[i] = {}
      BY <2>1, <3>3, <3>4
    <3>10. QED
      BY <3>5, <3>7, <3>8, <3>9
  <2>3. CASE Len(w) # WindowMax
    <3>1. kept = w /\ left = q
      BY <2>3
    <3>. HIDE DEF kept, batch, left
    <3>2. QED
      BY <2>1, <3>1
  <2>4. QED
    BY <2>2, <2>3
<1>. HIDE DEF kept, batch, left
<1>11. PICK v \in Seq(M!Turns) : /\ v = Append(kept, turn) /\ turn \in M!Range(v)
                                 /\ \A n \in M!Range(kept) : n \in M!Range(v)
  <2>1. /\ Append(kept, turn) \in Seq(M!Turns) /\ DOMAIN Append(kept, turn) = 1 .. (Len(kept) + 1)
        /\ DOMAIN kept = 1 .. Len(kept) /\ Len(kept) \in Nat
        /\ \A i \in 1 .. Len(kept) : Append(kept, turn)[i] = kept[i]
        /\ Append(kept, turn)[Len(kept) + 1] = turn
    BY <1>3, <1>10, Appended
  <2>2. turn \in M!Range(Append(kept, turn))
    <3>1. Len(kept) + 1 \in DOMAIN Append(kept, turn)
      BY <2>1
    <3>2. QED
      BY <2>1, <3>1 DEF M!Range
  <2>3. ASSUME NEW n \in M!Range(kept)
        PROVE  n \in M!Range(Append(kept, turn))
    <3>1. PICK i \in 1 .. Len(kept) : n = kept[i]
      BY <2>1 DEF M!Range
    <3>2. i \in DOMAIN Append(kept, turn) /\ Append(kept, turn)[i] = n
      BY <2>1, <3>1
    <3>3. QED
      BY <3>2 DEF M!Range
  <2>4. QED
    BY <2>1, <2>2, <2>3
<1>12. /\ recent' \in [M!Numbers -> Seq(M!Turns)] /\ recent'[k] = v
       /\ inbox' \in [M!Numbers -> Seq(SUBSET M!Turns)] /\ inbox'[k] = left
       /\ said' \in [M!Numbers -> 0 .. MaxTurns] /\ said'[k] = turn
       /\ \A j \in M!Numbers : j # k => said'[j] = said[j] /\ recent'[j] = recent[j]
            /\ inbox'[j] = inbox[j]
  <2>1. turn \in 0 .. MaxTurns
    BY <1>3 DEF M!Turns
  <2>2. recent' = [recent EXCEPT ![k] = v]
    BY <1>9, <1>11
  <2>3. QED
    BY <1>3, <1>4, <1>5, <1>9, <1>10, <2>1, <2>2
<1>13. ASSUME NEW n \in 1 .. said'[k],
              n \in 1 .. said[k] => Remembered(k, n) \/ OnItsWay(k, n)
       PROVE  (Remembered(k, n) \/ OnItsWay(k, n))'
  <2>1. /\ n \in M!Turns /\ (n = turn \/ n \in 1 .. said[k])
    <3>1. said[k] \in Nat /\ turn = said[k] + 1 /\ turn \in 1 .. MaxTurns
      BY <1>2, <1>3, <1>4, <1>5 DEF M!Turns
    <3>2. QED
      BY <1>12, <1>13, <3>1 DEF M!Turns
  <2>2. CASE n = turn
    BY <1>11, <1>12, <2>2 DEF Remembered
  <2>3. CASE n \in summary[k] \/ n \in forgotten[k]
    BY <1>3, <2>3 DEF Remembered
  <2>4. CASE n \in M!Range(recent[k])
    <3>1. n \in M!Range(v) \/ \E i \in DOMAIN left : n \in left[i]
      BY <1>6, <1>10, <1>11, <2>1, <2>4
    <3>2. QED
      BY <1>12, <3>1 DEF Remembered, OnItsWay
  <2>5. CASE OnItsWay(k, n)
    <3>1. \E i \in DOMAIN left : n \in left[i]
      BY <1>7, <1>10, <2>5 DEF OnItsWay
    <3>2. QED
      BY <1>12, <3>1 DEF OnItsWay
  <2>6. QED
    BY <1>13, <2>1, <2>2, <2>3, <2>4, <2>5 DEF Remembered
<1>14. \A i \in DOMAIN inbox'[k] : inbox'[k][i] = {} => i \in DOMAIN inbox[k] /\ inbox[k][i] = {}
  BY <1>7, <1>10, <1>12
<1>15. ASSUME NEW n \in 1 .. said'[onCall],
              n \in 1 .. said[onCall] => Remembered(onCall, n) \/ OnItsWay(onCall, n)
       PROVE  (Remembered(onCall, n) \/ OnItsWay(onCall, n))'
  <2>1. n \in 1 .. said'[k] /\ (n \in 1 .. said[k] => Remembered(k, n) \/ OnItsWay(k, n))
    BY <1>1, <1>15
  <2>2. (Remembered(k, n) \/ OnItsWay(k, n))'
    BY <1>13, <2>1
  <2>3. onCall' = k
    BY <1>1, <1>3
  <2>4. QED
    BY <2>2, <2>3 DEF Remembered, OnItsWay
<1>16. \A j \in M!Numbers : j # onCall =>
          said'[j] = said[j] /\ recent'[j] = recent[j] /\ inbox'[j] = inbox[j]
  BY <1>1, <1>12
<1>17. \A i \in DOMAIN inbox'[onCall] : inbox'[onCall][i] = {} =>
          i \in DOMAIN inbox[onCall] /\ inbox[onCall][i] = {}
  BY <1>1, <1>14
<1>18. QED
  BY <1>1, <1>4, <1>12, <1>15, <1>16, <1>17

LEMMA AppendTurnStep ==
    ASSUME MemoryInv, M!AppendTurn
    PROVE  MemoryInv'
<1>0. MemoryInv
  OBVIOUS
<1>1. /\ onCall \in M!Numbers /\ onCall = begun
      /\ said' \in [M!Numbers -> 0 .. MaxTurns] /\ recent' \in [M!Numbers -> Seq(M!Turns)]
      /\ inbox' \in [M!Numbers -> Seq(SUBSET M!Turns)]
      /\ \A j \in M!Numbers : j # onCall =>
            said'[j] = said[j] /\ recent'[j] = recent[j] /\ inbox'[j] = inbox[j]
      /\ \A i \in DOMAIN inbox'[onCall] : inbox'[onCall][i] = {} =>
            i \in DOMAIN inbox[onCall] /\ inbox[onCall][i] = {}
  BY TurnGoesIn
<1>2. /\ UNCHANGED <<begun, onCall, identity, lastBegun, bound, worker, summary, notes, archived,
         archive,
                     fails, overtaken, forgotten>>
      /\ rows' = rows \/ rows' = rows \cup {<<onCall, bound[onCall], "turn", onCall>>}
  BY DEF M!AppendTurn, M!call, M!InsertEmbedding
<1>3. MemoryTypes'
  BY <1>0, <1>1, <1>2 DEF MemoryInv, MemoryTypes
<1>4. ASSUME NEW t \in Threads
      PROVE  (IsOfTheEnded(t) /\ HasAll(t))'
  <2>1. IsOfTheEnded(t) /\ HasAll(t) /\ (Works(t)' <=> Works(t))
          /\ (HasShutDown(t)' <=> HasShutDown(t))
    BY <1>0, <1>2 DEF MemoryInv, Works, HasShutDown
  <2>2. IsOfTheEnded(t)'
    BY <1>2, <2>1 DEF IsOfTheEnded
  <2>3. ASSUME Works(t)
        PROVE  said'[archive[t].of] = said[archive[t].of]
                 /\ recent'[archive[t].of] = recent[archive[t].of]
    <3>1. archive[t].of \in 1 .. begun /\ archive[t].of # onCall
      BY <2>1, <2>3 DEF IsOfTheEnded
    <3>2. archive[t].of \in M!Numbers
      BY <1>0, <3>1, NumbersAreNumbers
    <3>3. QED
      BY <1>1, <3>1, <3>2
  <2>4. HasAll(t)'
    BY <1>2, <2>1, <2>3 DEF HasAll, Remembered
  <2>5. QED
    BY <2>2, <2>4
<1>5. EndedAreOver'
  BY <1>0, <1>2 DEF MemoryInv, EndedAreOver
<1>6. NothingSaidBefore'
  <2>1. \A k \in M!Numbers : k > begun => k # onCall
    BY <1>0, <1>1, NumbersAreNumbers
  <2>2. QED
    BY <1>0, <1>1, <1>2, <2>1 DEF MemoryInv, NothingSaidBefore
<1>7. EveryTurnIsSomewhere'
  <2>1. ASSUME NEW j \in M!Numbers, j # onCall, NEW n \in 1 .. said'[j]
        PROVE  (Remembered(j, n) \/ OnItsWay(j, n))'
    <3>1. Remembered(j, n) \/ OnItsWay(j, n)
      BY <1>0, <1>1, <2>1 DEF MemoryInv, EveryTurnIsSomewhere
    <3>2. QED
      BY <1>1, <1>2, <2>1, <3>1 DEF Remembered, OnItsWay
  <2>2. ASSUME NEW n \in 1 .. said'[onCall]
        PROVE  (Remembered(onCall, n) \/ OnItsWay(onCall, n))'
    <3>1. n \in 1 .. said[onCall] => Remembered(onCall, n) \/ OnItsWay(onCall, n)
      BY <1>0, <1>1 DEF MemoryInv, EveryTurnIsSomewhere
    <3>2. QED
      BY <2>2, <3>1, TurnGoesIn
  <2>3. ASSUME NEW j \in M!Numbers, NEW n \in 1 .. said'[j]
        PROVE  (Remembered(j, n) \/ OnItsWay(j, n))'
    <3>1. CASE j # onCall
      BY <2>1, <2>3, <3>1
    <3>2. CASE j = onCall
      <4>1. (Remembered(onCall, n) \/ OnItsWay(onCall, n))'
        BY <2>2, <2>3, <3>2
      <4>2. QED
        BY <1>2, <3>2, <4>1 DEF Remembered, OnItsWay
    <3>3. QED
      BY <3>1, <3>2
  <2>4. QED
    BY <2>3 DEF EveryTurnIsSomewhere
<1>8. StoppedLast'
  <2>1. ASSUME NEW j \in M!Numbers, j \notin overtaken
        PROVE  /\ \A i \in DOMAIN inbox'[j] : inbox'[j][i] = {} =>
                     j # onCall /\ \A m \in DOMAIN inbox'[j] : i < m => inbox'[j][m] = {}
               /\ j <= begun /\ ~ worker[j] =>
                     j # onCall /\ \A i \in DOMAIN inbox'[j] : inbox'[j][i] = {}
    <3>1. /\ \A i \in DOMAIN inbox[j] : inbox[j][i] = {} =>
                j # onCall /\ \A m \in DOMAIN inbox[j] : i < m => inbox[j][m] = {}
          /\ j <= begun /\ ~ worker[j] =>
                j # onCall /\ \A i \in DOMAIN inbox[j] : inbox[j][i] = {}
      BY <1>0, <2>1 DEF MemoryInv, StoppedLast
    <3>2. CASE j # onCall
      BY <1>1, <3>1, <3>2
    <3>3. CASE j = onCall
      BY <1>1, <3>1, <3>3
    <3>4. QED
      BY <3>2, <3>3
  <2>2. QED
    BY <1>2, <2>1 DEF StoppedLast
<1>9. StoredIsOwn'
  BY <1>0, <1>2 DEF MemoryInv, StoredIsOwn
<1>10. FinalGistHasAll'
  <2>1. \A j \in M!Numbers : archived[j].ended => j # onCall
    BY <1>0 DEF MemoryInv, EndedAreOver
  <2>2. QED
    BY <1>0, <1>1, <1>2, <2>1 DEF MemoryInv, FinalGistHasAll
<1>11. QED
  BY <1>3, <1>4, <1>5, <1>6, <1>7, <1>8, <1>9, <1>10 DEF MemoryInv

\* A step that rebinds the call there is, to a contact or as private.
LEMMA RebindStep ==
    ASSUME MemoryInv, NEW who \in People \cup {M!Sentinel}, onCall # M!None, M!Rebind(onCall, who),
           identity' = who,
           UNCHANGED <<begun, onCall, lastBegun, M!layers, rows, archive, fails, overtaken,
                       forgotten>>
    PROVE  /\ MemoryInv'
           /\ \A k \in M!Numbers : archived[k].ended => archived'[k] = archived[k]
<1>0. MemoryInv
  OBVIOUS
<1>1. UNCHANGED <<begun, onCall, lastBegun, said, recent, bound, inbox, worker, summary, notes,
                  rows,
                  archive, fails, overtaken, forgotten>>
  BY DEF M!layers
<1>2. PICK k \in M!Numbers : k = onCall
  BY <1>0, NumbersAreNumbers
<1>3. archived' = [archived EXCEPT ![k].contact = who] /\ archived \in [M!Numbers -> Sessions]
  BY <1>0, <1>2 DEF M!Rebind, MemoryInv, MemoryTypes
<1>4. PICK s \in Sessions : s = [archived[k] EXCEPT !.contact = who] /\ s.ended = archived[k].ended
  <2>1. PICK z \in Sessions : z = archived[k]
    BY <1>2, <1>3
  <2>2. PICK c \in M!Whom \cup {M!Sentinel} : c = who
    BY DEF M!Whom
  <2>3. [z EXCEPT !.contact = c] \in Sessions
    BY SessionKinds
  <2>4. [z EXCEPT !.contact = c].ended = z.ended
    BY SessionKinds
  <2>5. QED
    BY <2>1, <2>2, <2>3, <2>4
<1>5. /\ archived' \in [M!Numbers -> Sessions] /\ archived'[k].ended = archived[k].ended
      /\ \A j \in M!Numbers : j # k => archived'[j] = archived[j]
  <2>1. archived' = [archived EXCEPT ![k] = s]
    BY <1>3, <1>4
  <2>2. QED
    BY <1>2, <1>3, <1>4, <2>1
<1>6. \A j \in M!Numbers : archived'[j].ended <=> archived[j].ended
  BY <1>5
<1>7. \A j \in M!Numbers : archived[j].ended => j # k
  BY <1>0, <1>2 DEF MemoryInv, EndedAreOver
<1>8. MemoryTypes'
  BY <1>0, <1>1, <1>5 DEF MemoryInv, MemoryTypes, M!Whom
<1>9. ASSUME NEW t \in Threads
      PROVE  (IsOfTheEnded(t) /\ HasAll(t))'
  <2>1. IsOfTheEnded(t) /\ HasAll(t) /\ (Works(t)' <=> Works(t))
          /\ (HasShutDown(t)' <=> HasShutDown(t))
    BY <1>0, <1>1 DEF MemoryInv, Works, HasShutDown
  <2>2. Works(t) => archived'[archive[t].of] = archived[archive[t].of]
    <3>1. Works(t) => archive[t].of \in 1 .. begun /\ archive[t].of # k
      BY <1>2, <2>1 DEF IsOfTheEnded
    <3>2. Works(t) => archive[t].of \in M!Numbers
      BY <1>0, <3>1, NumbersAreNumbers
    <3>3. QED
      BY <1>5, <3>1, <3>2
  <2>3. IsOfTheEnded(t)'
    BY <1>1, <2>1, <2>2 DEF IsOfTheEnded
  <2>4. HasAll(t)'
    BY <1>1, <2>1 DEF HasAll, Remembered
  <2>5. QED
    BY <2>3, <2>4
<1>10. EndedAreOver' /\ NothingSaidBefore'
  BY <1>0, <1>1, <1>6 DEF MemoryInv, EndedAreOver, NothingSaidBefore
<1>11. EveryTurnIsSomewhere' /\ StoppedLast'
  BY <1>0, <1>1 DEF MemoryInv, EveryTurnIsSomewhere, StoppedLast, Remembered, OnItsWay
<1>12. StoredIsOwn'
  <2>1. ASSUME NEW r \in rows, r[3] # "turn"
        PROVE  archived'[r[1]] = archived[r[1]]
    <3>1. r[1] \in 1 .. begun /\ r[1] # k
      BY <1>0, <1>2, <2>1 DEF MemoryInv, StoredIsOwn
    <3>2. r[1] \in M!Numbers
      BY <1>0, <3>1, NumbersAreNumbers
    <3>3. QED
      BY <1>5, <3>1, <3>2
  <2>2. QED
    BY <1>0, <1>1, <2>1 DEF MemoryInv, StoredIsOwn
<1>13. FinalGistHasAll'
  BY <1>0, <1>1, <1>5, <1>6, <1>7 DEF MemoryInv, FinalGistHasAll
<1>14. MemoryInv'
  BY <1>8, <1>9, <1>10, <1>11, <1>12, <1>13 DEF MemoryInv
<1>15. QED
  BY <1>5, <1>7, <1>14

\* The end of a call.
LEMMA CallEndStep ==
    ASSUME MemoryInv, NEW t \in Threads, M!CallEnd(t)
    PROVE  MemoryInv'
<1>0. MemoryInv
  OBVIOUS
<1>1. /\ begun # 0 /\ onCall' = 0 /\ identity' = M!Unidentified
      /\ archive' = [archive EXCEPT ![t] = M!Begins(begun)]
      /\ UNCHANGED <<begun, lastBegun, said, recent, bound, inbox, worker, summary, notes,
         archived, rows,
                     fails, overtaken, forgotten>>
  BY DEF M!CallEnd, M!None, M!layers, M!store
<1>2. PICK b \in Archives : b = M!Begins(begun) /\ b.at = "check" /\ b.of = begun
  BY <1>0, IdleAndOver DEF MemoryInv, MemoryTypes
<1>3. archive' \in [Threads -> Archives] /\ archive'[t] = b
      /\ \A u \in Threads : u # t => archive'[u] = archive[u]
  BY <1>0, <1>1, <1>2 DEF MemoryInv, MemoryTypes
<1>4. \A k \in M!Numbers : k # onCall'
  BY <1>1 DEF M!Numbers
<1>5. MemoryTypes'
  BY <1>0, <1>1, <1>3 DEF MemoryInv, MemoryTypes, M!Whom
<1>6. ASSUME NEW u \in Threads
      PROVE  (IsOfTheEnded(u) /\ HasAll(u))'
  <2>1. CASE u = t
    <3>1. begun \in 1 .. begun /\ begun # 0
      BY <1>0, <1>1, NumbersAreNumbers
    <3>2. archive'[u].at = "check" /\ archive'[u].of = begun /\ ~ HasShutDown(u)'
      BY <1>2, <1>3, <2>1 DEF HasShutDown
    <3>3. QED
      BY <1>1, <3>1, <3>2 DEF IsOfTheEnded, HasAll
  <2>2. CASE u # t
    <3>1. /\ IsOfTheEnded(u) /\ HasAll(u) /\ archive'[u] = archive[u]
          /\ (Works(u)' <=> Works(u)) /\ (HasShutDown(u)' <=> HasShutDown(u))
      BY <1>0, <1>3, <2>2 DEF MemoryInv, Works, HasShutDown
    <3>2. Works(u) => archive[u].of # 0
      BY <3>1 DEF IsOfTheEnded
    <3>3. IsOfTheEnded(u)'
      BY <1>1, <3>1, <3>2 DEF IsOfTheEnded
    <3>4. HasAll(u)'
      BY <1>1, <3>1 DEF HasAll, Remembered
    <3>5. QED
      BY <3>3, <3>4
  <2>3. QED
    BY <2>1, <2>2
<1>7. EndedAreOver' /\ NothingSaidBefore'
  BY <1>0, <1>1, <1>4 DEF MemoryInv, EndedAreOver, NothingSaidBefore
<1>8. EveryTurnIsSomewhere'
  BY <1>0, <1>1 DEF MemoryInv, EveryTurnIsSomewhere, Remembered, OnItsWay
<1>9. StoppedLast'
  BY <1>0, <1>1, <1>4 DEF MemoryInv, StoppedLast
<1>10. StoredIsOwn'
  <2>1. \A r \in rows : r[3] # "turn" => r[1] # 0
    BY <1>0 DEF MemoryInv, StoredIsOwn
  <2>2. QED
    BY <1>0, <1>1, <2>1 DEF MemoryInv, StoredIsOwn
<1>11. FinalGistHasAll'
  BY <1>0, <1>1 DEF MemoryInv, FinalGistHasAll
<1>12. QED
  BY <1>5, <1>6, <1>7, <1>8, <1>9, <1>10, <1>11 DEF MemoryInv

----------------------------------------------------------------------------
(* The steps of the workers and of the archives.                            *)

\* Nothing is forgotten that was not, and no call comes or goes.
GoesOn ==
    /\ UNCHANGED <<begun, onCall, lastBegun, said, recent>>
    /\ overtaken \subseteq overtaken'
    /\ \A k \in M!Numbers : summary[k] \subseteq summary'[k] /\ forgotten[k] \subseteq forgotten'[k]
    /\ \A k \in M!Numbers : archived'[k].contact = archived[k].contact

\* The other archives are where they were.
LEMMA OthersGoOn ==
    ASSUME MemoryInv, GoesOn, NEW u \in Threads, archive'[u] = archive[u]
    PROVE  (IsOfTheEnded(u) /\ HasAll(u))'
<1>0. MemoryInv
  OBVIOUS
<1>1. /\ IsOfTheEnded(u) /\ HasAll(u) /\ (Works(u)' <=> Works(u))
      /\ (HasShutDown(u)' <=> HasShutDown(u))
  BY <1>0 DEF MemoryInv, Works, HasShutDown
<1>2. Works(u) => archive[u].of \in M!Numbers
  <2>1. Works(u) => archive[u].of \in 1 .. begun
    BY <1>1 DEF IsOfTheEnded
  <2>2. QED
    BY <1>0, <2>1, NumbersAreNumbers
<1>3. IsOfTheEnded(u)'
  BY <1>1, <1>2 DEF IsOfTheEnded, GoesOn
<1>4. ASSUME Works(u), archive[u].of \notin overtaken
      PROVE  HasAll(u)'
  <2>1. PICK k \in M!Numbers : k = archive[u].of
    BY <1>2, <1>4
  <2>2. /\ archive[u].at = "read" => \A n \in 1 .. said[k] : Remembered(k, n)
        /\ archive[u].at = "end" => \A n \in 1 .. said[k] :
              n \in M!Range(recent[k]) \/ n \in archive[u].gist \cup forgotten[k]
    BY <1>1, <1>4, <2>1 DEF HasAll
  <2>3. said' = said /\ recent' = recent /\ summary[k] \subseteq summary'[k]
          /\ forgotten[k] \subseteq forgotten'[k]
    BY DEF GoesOn
  <2>4. archive'[u].of = k
    BY <2>1
  <2>5. /\ archive'[u].at = "read" => \A n \in 1 .. said'[k] : Remembered(k, n)'
        /\ archive'[u].at = "end" => \A n \in 1 .. said'[k] :
              n \in M!Range(recent'[k]) \/ n \in archive'[u].gist \cup forgotten'[k]
    BY <2>2, <2>3 DEF Remembered
  <2>6. QED
    BY <2>4, <2>5 DEF HasAll, Remembered
<1>5. QED
  BY <1>1, <1>3, <1>4 DEF HasAll, GoesOn

\* What else stays, if the inboxes, the sessions or the rows do.
LEMMA InboxesKept ==
    ASSUME MemoryInv, GoesOn, UNCHANGED <<inbox, worker>>
    PROVE  EveryTurnIsSomewhere' /\ StoppedLast'
<1>0. MemoryInv
  OBVIOUS
<1>1. EveryTurnIsSomewhere'
  <2>1. ASSUME NEW k \in M!Numbers, NEW n \in 1 .. said[k]
        PROVE  (Remembered(k, n) \/ OnItsWay(k, n))'
    <3>1. Remembered(k, n) \/ OnItsWay(k, n)
      BY <1>0 DEF MemoryInv, EveryTurnIsSomewhere
    <3>2. QED
      BY <3>1 DEF Remembered, OnItsWay, GoesOn
  <2>2. said' = said
    BY DEF GoesOn
  <2>3. QED
    BY <2>1, <2>2 DEF EveryTurnIsSomewhere
<1>2. StoppedLast'
  BY <1>0 DEF MemoryInv, StoppedLast, GoesOn
<1>3. QED
  BY <1>1, <1>2

LEMMA SessionsKept ==
    ASSUME MemoryInv, GoesOn, UNCHANGED archived
    PROVE  EndedAreOver' /\ FinalGistHasAll'
<1>0. MemoryInv
  OBVIOUS
<1>1. EndedAreOver'
  BY <1>0 DEF MemoryInv, EndedAreOver, GoesOn
<1>2. FinalGistHasAll'
  <2>1. ASSUME NEW k \in M!Numbers, archived[k].ended, k \notin overtaken',
               M!IsArchived(archived[k].contact),
               NEW n \in 1 .. said[k]
        PROVE  n \in M!Range(recent[k]) \/ n \in archived[k].gist \/ n \in forgotten'[k]
    <3>1. n \in M!Range(recent[k]) \/ n \in archived[k].gist \/ n \in forgotten[k]
      BY <1>0, <2>1 DEF MemoryInv, FinalGistHasAll, GoesOn
    <3>2. QED
      BY <3>1 DEF GoesOn
  <2>2. said' = said /\ recent' = recent
    BY DEF GoesOn
  <2>3. QED
    BY <2>1, <2>2 DEF FinalGistHasAll
<1>3. QED
  BY <1>1, <1>2

LEMMA RowsKept ==
    ASSUME MemoryInv, GoesOn, UNCHANGED rows
    PROVE  StoredIsOwn'
<1>0. MemoryInv
  OBVIOUS
<1>1. ASSUME NEW r \in rows, r[3] # "turn"
      PROVE  /\ r[1] \in 1 .. begun' /\ r[1] # onCall'
             /\ archived'[r[1]].contact \in People
             /\ r[4] = r[1] \/ r[1] \in overtaken'
  <2>1. /\ r[1] \in 1 .. begun /\ r[1] # onCall /\ archived[r[1]].contact \in People
        /\ r[4] = r[1] \/ r[1] \in overtaken
    BY <1>0, <1>1 DEF MemoryInv, StoredIsOwn
  <2>2. r[1] \in M!Numbers
    BY <1>0, <2>1, NumbersAreNumbers
  <2>3. QED
    BY <2>1, <2>2 DEF GoesOn
<1>2. QED
  BY <1>1 DEF StoredIsOwn

\* A step of one archive that leaves the calls, their layers and the store alone.
LEMMA ArchiveMoves ==
    ASSUME MemoryInv, NEW t \in Threads, NEW a \in Archives, archive' = [archive EXCEPT ![t] = a],
           (IsOfTheEnded(t) /\ HasAll(t))',
           UNCHANGED <<M!call, M!layers, M!store>>, UNCHANGED overtaken,
           forgotten' \in [M!Numbers -> SUBSET M!Turns],
           \A k \in M!Numbers : forgotten[k] \subseteq forgotten'[k]
    PROVE  MemoryInv'
<1>0. MemoryInv
  OBVIOUS
<1>1. /\ UNCHANGED <<begun, onCall, identity, lastBegun, said, recent, bound, inbox, worker,
         summary, notes,
                     archived, rows, overtaken>>
  BY DEF M!call, M!layers, M!store
<1>2. GoesOn
  BY <1>1 DEF GoesOn
<1>3. archive \in [Threads -> Archives]
  BY <1>0 DEF MemoryInv, MemoryTypes
<1>4. archive' \in [Threads -> Archives] /\ \A u \in Threads : u # t => archive'[u] = archive[u]
  BY <1>3
<1>5. MemoryTypes'
  BY <1>0, <1>1, <1>4 DEF MemoryInv, MemoryTypes
<1>6. \A u \in Threads : (IsOfTheEnded(u) /\ HasAll(u))'
  BY <1>0, <1>2, <1>4, OthersGoOn
<1>7. NothingSaidBefore'
  BY <1>0, <1>1 DEF MemoryInv, NothingSaidBefore
<1>8. QED
  BY <1>0, <1>1, <1>2, <1>5, <1>6, <1>7, InboxesKept, SessionsKept, RowsKept DEF MemoryInv

\* An archive knows its call.
LEMMA OfACall ==
    ASSUME MemoryInv, NEW t \in Threads, Works(t)
    PROVE  /\ archive[t] \in Archives /\ archive[t].of \in M!Numbers
           /\ archive[t].of \in 1 .. begun /\ archive[t].of # onCall
           /\ archive[t].of = begun \/ archive[t].of \in overtaken
           /\ begun \in M!Numbers /\ lastBegun = begun
           /\ archived[archive[t].of] \in Sessions
<1>0. MemoryInv
  OBVIOUS
<1>1. /\ archive[t].of \in 1 .. begun /\ archive[t].of # onCall
      /\ archive[t].of = begun \/ archive[t].of \in overtaken
  BY <1>0 DEF MemoryInv, IsOfTheEnded
<1>2. archive[t].of \in M!Numbers /\ begun # 0
  BY <1>0, <1>1, NumbersAreNumbers
<1>3. begun \in M!Numbers /\ lastBegun = begun
  BY <1>0, <1>2, NumbersAreNumbers
<1>4. archive[t] \in Archives /\ archived \in [M!Numbers -> Sessions]
  BY <1>0 DEF MemoryInv, MemoryTypes
<1>5. QED
  BY <1>1, <1>2, <1>3, <1>4

LEMMA CheckStep ==
    ASSUME MemoryInv, NEW t \in Threads, M!Check(t)
    PROVE  MemoryInv'
<1>0. MemoryInv /\ Works(t)
  BY DEF M!Check, M!At, Works
<1>1. PICK a \in Archives : a = archive[t] /\ a.at = "check"
  BY <1>0, OfACall DEF M!Check, M!At
<1>2. PICK b \in Archives :
         /\ archive' = [archive EXCEPT ![t] = b]
         /\ b.at = "over" \/ (b.at = "contact" /\ b.of = a.of)
  <2>1. CASE archived[archive[t].of].ended
    BY <2>1, IdleAndOver DEF M!Check, M!Goes
  <2>2. CASE ~ archived[archive[t].of].ended
    <3>1. PICK b : b = [a EXCEPT !.at = "contact"]
      OBVIOUS
    <3>2. b \in Archives /\ b.at = "contact" /\ b.of = a.of
      BY <3>1 DEF Archives, ArchivePlaces
    <3>3. archive' = [archive EXCEPT ![t] = b]
      BY <1>1, <2>2, <3>1 DEF M!Check, M!Goes, M!GoesTo
    <3>4. QED
      BY <3>2, <3>3
  <2>3. QED
    BY <2>1, <2>2
<1>3. UNCHANGED <<M!call, M!layers, M!store>> /\ UNCHANGED <<fails, overtaken, forgotten>>
  BY DEF M!Check, M!NoMore
<1>4. archive'[t] = b
  BY <1>0, <1>2 DEF MemoryInv, MemoryTypes
<1>5. UNCHANGED <<begun, onCall>>
  BY <1>3 DEF M!call
<1>6. a.of \in 1 .. begun /\ a.of # onCall /\ (a.of = begun \/ a.of \in overtaken)
  BY <1>0, <1>1, OfACall
<1>7. (IsOfTheEnded(t) /\ HasAll(t))'
  BY <1>2, <1>3, <1>4, <1>5, <1>6 DEF IsOfTheEnded, HasAll, Works, HasShutDown
<1>8. forgotten' \in [M!Numbers -> SUBSET M!Turns]
        /\ \A k \in M!Numbers : forgotten[k] \subseteq forgotten'[k]
  BY <1>0, <1>3 DEF MemoryInv, MemoryTypes
<1>9. QED
  BY <1>0, <1>2, <1>3, <1>7, <1>8, ArchiveMoves

LEMMA ReadContactStep ==
    ASSUME MemoryInv, NEW t \in Threads, M!ReadContact(t)
    PROVE  MemoryInv'
<1>0. MemoryInv /\ Works(t)
  BY DEF M!ReadContact, M!At, Works
<1>1. PICK a \in Archives : a = archive[t] /\ a.at = "contact"
  BY <1>0, OfACall DEF M!ReadContact, M!At
<1>2. PICK who \in M!Whom \cup {M!Sentinel} : who = archived[a.of].contact
  <2>1. archived[a.of] \in Sessions
    BY <1>0, <1>1, OfACall
  <2>2. QED
    BY <2>1 DEF Sessions
<1>3. PICK p \in {"shutdown", "close"} : p = IF M!IsArchived(who) THEN "shutdown" ELSE "close"
  OBVIOUS
<1>4. PICK b \in Archives : /\ archive' = [archive EXCEPT ![t] = b]
                        /\ b.at = p /\ b.of = a.of /\ b.contact = who
  <2>1. PICK b : b = [a EXCEPT !.at = p, !.contact = who]
    OBVIOUS
  <2>2. b \in Archives /\ b.at = p /\ b.of = a.of /\ b.contact = who
    BY <1>3, <2>1 DEF Archives, ArchivePlaces
  <2>3. archive' = [archive EXCEPT ![t] = b]
    BY <1>1, <1>2, <1>3, <2>1 DEF M!ReadContact, M!Goes
  <2>4. QED
    BY <2>2, <2>3
<1>5. UNCHANGED <<M!call, M!layers, M!store>> /\ UNCHANGED <<fails, overtaken, forgotten>>
  BY DEF M!ReadContact, M!NoMore
<1>6. archive'[t] = b
  BY <1>0, <1>4 DEF MemoryInv, MemoryTypes
<1>7. UNCHANGED <<begun, onCall, archived>>
  BY <1>5 DEF M!call, M!store
<1>8. a.of \in 1 .. begun /\ a.of # onCall /\ (a.of = begun \/ a.of \in overtaken)
  BY <1>0, <1>1, OfACall
<1>9. IsOfTheEnded(t)'
  <2>1. /\ b.at = "close" => ~ M!IsArchived(who)
        /\ b.at # "close" => M!IsArchived(who)
        /\ b.at \in {"shutdown", "close"}
    BY <1>3, <1>4
  <2>2. ~ HasShutDown(t)'
    BY <1>6, <2>1 DEF HasShutDown
  <2>3. QED
    BY <1>2, <1>4, <1>5, <1>6, <1>7, <1>8, <2>1, <2>2 DEF IsOfTheEnded
<1>10. HasAll(t)'
  BY <1>3, <1>4, <1>6 DEF HasAll
<1>11. forgotten' \in [M!Numbers -> SUBSET M!Turns]
         /\ \A k \in M!Numbers : forgotten[k] \subseteq forgotten'[k]
  BY <1>0, <1>5 DEF MemoryInv, MemoryTypes
<1>12. QED
  BY <1>0, <1>4, <1>5, <1>9, <1>10, <1>11, ArchiveMoves

\* A thread that goes on to another place of the same archive.
LEMMA StaysOfTheEnded ==
    ASSUME MemoryInv, GoesOn, NEW t \in Threads, HasShutDown(t),
           archive'[t].of = archive[t].of, archive'[t].contact = archive[t].contact,
           archive'[t].at \in {"join", "read", "end", "embed", "notes"},
           archive'[t].worker = archive[t].worker \/ archive'[t].worker = lastBegun
    PROVE  IsOfTheEnded(t)'
<1>0. MemoryInv /\ Works(t)
  BY DEF HasShutDown, Works
<1>1. /\ archive[t].of \in 1 .. begun /\ archive[t].of # onCall
      /\ archive[t].of = begun \/ archive[t].of \in overtaken
      /\ archived[archive[t].of].contact = archive[t].contact
      /\ M!IsArchived(archive[t].contact)
      /\ archive[t].worker = archive[t].of \/ archive[t].of \in overtaken
  BY <1>0 DEF MemoryInv, IsOfTheEnded, HasShutDown
<1>2. archive[t].of \in M!Numbers /\ lastBegun = begun
  BY <1>0, OfACall
<1>3. /\ begun' = begun /\ onCall' = onCall /\ overtaken \subseteq overtaken'
      /\ archived'[archive[t].of].contact = archived[archive[t].of].contact
  BY <1>2 DEF GoesOn
<1>4. QED
  BY <1>1, <1>2, <1>3 DEF IsOfTheEnded

LEMMA JoinStep ==
    ASSUME MemoryInv, NEW t \in Threads, M!Join(t)
    PROVE  MemoryInv'
<1>0. MemoryInv /\ Works(t) /\ HasShutDown(t)
  BY DEF M!Join, M!At, Works, HasShutDown
<1>1. PICK a \in Archives : a = archive[t] /\ a.at = "join"
  BY <1>0, OfACall DEF M!Join, M!At
<1>2. PICK b \in Archives : /\ archive' = [archive EXCEPT ![t] = b]
                        /\ b.at = "read" /\ b.of = a.of /\ b.contact = a.contact
                             /\ b.worker = a.worker
  <2>1. PICK b : b = [a EXCEPT !.at = "read"]
    OBVIOUS
  <2>2. b \in Archives /\ b.at = "read" /\ b.of = a.of /\ b.contact = a.contact
          /\ b.worker = a.worker
    BY <2>1 DEF Archives, ArchivePlaces
  <2>3. archive' = [archive EXCEPT ![t] = b]
    BY <1>1, <2>1 DEF M!Join, M!Goes, M!GoesTo
  <2>4. QED
    BY <2>2, <2>3
<1>3. UNCHANGED <<M!call, M!layers, M!store>> /\ UNCHANGED overtaken
  BY DEF M!Join
<1>4. archive'[t] = b /\ forgotten \in [M!Numbers -> SUBSET M!Turns]
  BY <1>0, <1>2 DEF MemoryInv, MemoryTypes
<1>5. UNCHANGED <<begun, onCall, lastBegun, said, recent, inbox, worker, summary, archived>>
  BY <1>3 DEF M!call, M!layers, M!store
<1>6. \/ ~ worker[a.worker] /\ forgotten' = forgotten
      \/ forgotten' = [forgotten EXCEPT ![a.worker] = M!Turns]
  BY <1>1 DEF M!Join, M!Stopped
<1>7. forgotten' \in [M!Numbers -> SUBSET M!Turns]
        /\ \A k \in M!Numbers : forgotten[k] \subseteq forgotten'[k]
  BY <1>4, <1>6
<1>8. GoesOn
  BY <1>3, <1>5, <1>7 DEF GoesOn
<1>9. IsOfTheEnded(t)'
  BY <1>0, <1>1, <1>2, <1>4, <1>8, StaysOfTheEnded
<1>10. HasAll(t)'
  <2>1. ASSUME a.of \notin overtaken
        PROVE  \A n \in 1 .. said[a.of] : Remembered(a.of, n)'
    <3>1. PICK k \in M!Numbers : k = a.of /\ k <= begun
      BY <1>0, <1>1, OfACall
    <3>2. a.worker = k
      BY <1>0, <1>1, <2>1, <3>1 DEF MemoryInv, IsOfTheEnded
    <3>3. CASE ~ worker[k] /\ forgotten' = forgotten
      <4>1. \A i \in DOMAIN inbox[k] : inbox[k][i] = {}
        BY <1>0, <2>1, <3>1, <3>3 DEF MemoryInv, StoppedLast
      <4>2. \A n \in 1 .. said[k] : Remembered(k, n)
        BY <1>0, <4>1 DEF MemoryInv, EveryTurnIsSomewhere, OnItsWay
      <4>3. QED
        BY <1>5, <3>1, <3>3, <4>2 DEF Remembered
    <3>4. CASE forgotten' = [forgotten EXCEPT ![k] = M!Turns]
      <4>1. forgotten'[k] = M!Turns
        BY <1>4, <3>4
      <4>2. \A n \in 1 .. said[k] : n \in M!Turns
        <5>1. said[k] \in 0 .. MaxTurns
          BY <1>0 DEF MemoryInv, MemoryTypes
        <5>2. QED
          BY <5>1 DEF M!Turns
      <4>3. QED
        BY <3>1, <4>1, <4>2 DEF Remembered
    <3>5. QED
      BY <1>6, <3>2, <3>3, <3>4
  <2>2. archive'[t].of = a.of /\ archive'[t].at = "read" /\ said' = said
    BY <1>2, <1>4, <1>5
  <2>3. a.of \notin overtaken => \A n \in 1 .. said'[archive'[t].of] : Remembered(archive[t].of, n)'
    <3>1. ASSUME a.of \notin overtaken, NEW n \in 1 .. said[a.of]
          PROVE  Remembered(archive[t].of, n)'
      BY <2>1, <2>2, <3>1 DEF Remembered
    <3>2. QED
      BY <2>2, <3>1
  <2>4. QED
    BY <1>3, <2>2, <2>3 DEF HasAll
<1>11. QED
  BY <1>0, <1>2, <1>3, <1>7, <1>9, <1>10, ArchiveMoves

LEMMA ReadStep ==
    ASSUME MemoryInv, NEW t \in Threads, M!Read(t)
    PROVE  MemoryInv'
<1>0. MemoryInv /\ Works(t) /\ HasShutDown(t)
  BY DEF M!Read, M!At, Works, HasShutDown
<1>1. PICK a \in Archives : a = archive[t] /\ a.at = "read"
  BY <1>0, OfACall DEF M!Read, M!At
<1>2. PICK k \in M!Numbers : k = lastBegun /\ k = begun
  BY <1>0, OfACall
<1>3. PICK g \in SUBSET M!Turns : g = summary[lastBegun] \cup M!Last(recent[lastBegun], EvictBatch)
  <2>1. summary[k] \in SUBSET M!Turns /\ recent[k] \in Seq(M!Turns)
    BY <1>0 DEF MemoryInv, MemoryTypes
  <2>2. M!Last(recent[k], EvictBatch) \subseteq M!Turns
    <3>1. \A i \in DOMAIN recent[k] : recent[k][i] \in M!Turns
      BY <2>1
    <3>2. QED
      BY <3>1 DEF M!Last
  <2>3. QED
    BY <1>2, <2>1, <2>2
<1>4. PICK b \in Archives : /\ archive' = [archive EXCEPT ![t] = b]
                        /\ b.at = "end" /\ b.of = a.of /\ b.contact = a.contact /\ b.worker = k
                             /\ b.gist = g
  <2>1. PICK b : b = [a EXCEPT !.at = "end", !.gist = g, !.worker = k]
    OBVIOUS
  <2>2. k \in 0 .. MaxBegun
    BY DEF M!Numbers
  <2>3. b \in Archives /\ b.at = "end" /\ b.of = a.of /\ b.contact = a.contact /\ b.worker = k
          /\ b.gist = g
    BY <2>1, <2>2 DEF Archives, ArchivePlaces
  <2>4. archive' = [archive EXCEPT ![t] = b]
    BY <1>1, <1>2, <1>3, <2>1 DEF M!Read, M!Goes
  <2>5. QED
    BY <2>3, <2>4
<1>5. UNCHANGED <<M!call, M!layers, M!store>> /\ UNCHANGED <<fails, overtaken, forgotten>>
  BY DEF M!Read, M!NoMore
<1>6. archive'[t] = b
  BY <1>0, <1>4 DEF MemoryInv, MemoryTypes
<1>7. UNCHANGED <<begun, onCall, lastBegun, said, recent, summary, archived>>
  BY <1>5 DEF M!call, M!layers, M!store
<1>8. forgotten' \in [M!Numbers -> SUBSET M!Turns]
        /\ \A j \in M!Numbers : forgotten[j] \subseteq forgotten'[j]
  BY <1>0, <1>5 DEF MemoryInv, MemoryTypes
<1>9. GoesOn
  BY <1>5, <1>7, <1>8 DEF GoesOn
<1>10. IsOfTheEnded(t)'
  BY <1>0, <1>1, <1>2, <1>4, <1>6, <1>9, StaysOfTheEnded
<1>11. HasAll(t)'
  <2>1. ASSUME a.of \notin overtaken, NEW n \in 1 .. said[k]
        PROVE  a.of = k /\ (n \in M!Range(recent[k]) \/ n \in g \cup forgotten[k])
    <3>1. a.of = k
      BY <1>0, <1>1, <1>2, <2>1, OfACall
    <3>2. Remembered(k, n)
      BY <1>0, <1>1, <2>1, <3>1 DEF MemoryInv, HasAll
    <3>3. QED
      BY <1>2, <1>3, <3>1, <3>2 DEF Remembered
  <2>2. a.of \notin overtaken => a.of = k
    BY <1>0, <1>1, <1>2, OfACall
  <2>3. /\ archive'[t].of = a.of /\ archive'[t].at = "end" /\ archive'[t].gist = g
        /\ said' = said /\ recent' = recent /\ forgotten' = forgotten /\ overtaken' = overtaken
    BY <1>4, <1>5, <1>6, <1>7
  <2>4. QED
    BY <2>1, <2>2, <2>3 DEF HasAll
<1>12. QED
  BY <1>0, <1>4, <1>5, <1>8, <1>10, <1>11, ArchiveMoves

\* A step of an archive that ends a session.
LEMMA SessionEnds ==
    ASSUME MemoryInv, NEW t \in Threads, Works(t), NEW b \in Archives, NEW s \in Sessions,
           archive' = [archive EXCEPT ![t] = b],
           archived' = [archived EXCEPT ![archive[t].of] = s],
           s.contact = archived[archive[t].of].contact,
           archived[archive[t].of].ended => s = archived[archive[t].of],
           (IsOfTheEnded(t) /\ HasAll(t))',
           ~ archived[archive[t].of].ended /\ archive[t].of \notin overtaken
           /\ M!IsArchived(s.contact) =>
               \A n \in 1 .. said[archive[t].of] :
                   n \in M!Range(recent[archive[t].of]) \/ n \in s.gist \/ n \in forgotten'[archive[t].of],
           UNCHANGED <<M!call, M!layers, rows, overtaken>>,
           forgotten' \in [M!Numbers -> SUBSET M!Turns],
           \A k \in M!Numbers : forgotten[k] \subseteq forgotten'[k]
    PROVE  /\ MemoryInv'
           /\ \A k \in M!Numbers : archived[k].ended => archived'[k] = archived[k]
<1>0. MemoryInv
  OBVIOUS
<1>1. UNCHANGED <<begun, onCall, identity, lastBegun, said, recent, bound, inbox, worker, summary,
                  notes,
                  rows, overtaken>>
  BY DEF M!call, M!layers
<1>2. PICK k \in M!Numbers : k = archive[t].of /\ k <= begun /\ k # onCall
  BY OfACall
<1>3. archived \in [M!Numbers -> Sessions] /\ archive \in [Threads -> Archives]
  BY <1>0 DEF MemoryInv, MemoryTypes
<1>4. /\ archived' \in [M!Numbers -> Sessions] /\ archived'[k] = s
      /\ \A j \in M!Numbers : j # k => archived'[j] = archived[j]
  BY <1>2, <1>3
<1>5. \A j \in M!Numbers : archived'[j].contact = archived[j].contact
  BY <1>2, <1>4
<1>6. \A j \in M!Numbers : archived[j].ended => archived'[j] = archived[j]
  BY <1>2, <1>4
<1>7. GoesOn
  BY <1>1, <1>5 DEF GoesOn
<1>8. archive' \in [Threads -> Archives] /\ \A u \in Threads : u # t => archive'[u] = archive[u]
  BY <1>3
<1>9. MemoryTypes'
  BY <1>0, <1>1, <1>4, <1>8 DEF MemoryInv, MemoryTypes
<1>10. \A u \in Threads : (IsOfTheEnded(u) /\ HasAll(u))'
  BY <1>0, <1>7, <1>8, OthersGoOn
<1>11. EndedAreOver'
  <2>1. ASSUME NEW j \in M!Numbers, archived'[j].ended
        PROVE  j <= begun /\ j # onCall
    <3>1. CASE j = k
      BY <1>2, <3>1
    <3>2. CASE j # k
      BY <1>0, <1>4, <2>1, <3>2 DEF MemoryInv, EndedAreOver
    <3>3. QED
      BY <3>1, <3>2
  <2>2. QED
    BY <1>1, <2>1 DEF EndedAreOver
<1>12. NothingSaidBefore'
  <2>1. \A j \in M!Numbers : j > begun => j # k
    BY <1>0, <1>2, NumbersAreNumbers
  <2>2. QED
    BY <1>0, <1>1, <1>4, <2>1 DEF MemoryInv, NothingSaidBefore
<1>13. FinalGistHasAll'
  <2>1. ASSUME NEW j \in M!Numbers, archived'[j].ended, j \notin overtaken,
               M!IsArchived(archived'[j].contact),
               NEW n \in 1 .. said[j]
        PROVE  n \in M!Range(recent[j]) \/ n \in archived'[j].gist \/ n \in forgotten'[j]
    <3>1. CASE archived[j].ended
      <4>1. archived'[j] = archived[j]
        BY <1>6, <3>1
      <4>2. n \in M!Range(recent[j]) \/ n \in archived[j].gist \/ n \in forgotten[j]
        BY <1>0, <2>1, <3>1, <4>1 DEF MemoryInv, FinalGistHasAll
      <4>3. QED
        BY <4>1, <4>2
    <3>2. CASE ~ archived[j].ended
      <4>1. j = k
        BY <1>4, <2>1, <3>2
      <4>2. QED
        BY <1>2, <1>4, <2>1, <3>2, <4>1
    <3>3. QED
      BY <3>1, <3>2
  <2>2. QED
    BY <1>1, <2>1 DEF FinalGistHasAll
<1>14. MemoryInv'
  BY <1>0, <1>1, <1>7, <1>9, <1>10, <1>11, <1>12, <1>13, InboxesKept, RowsKept DEF MemoryInv
<1>15. QED
  BY <1>6, <1>14

LEMMA CloseStep ==
    ASSUME MemoryInv, NEW t \in Threads, M!Close(t)
    PROVE  /\ MemoryInv'
           /\ \A k \in M!Numbers : archived[k].ended => archived'[k].ended
                /\ archived'[k].gist = archived[k].gist
<1>0. MemoryInv /\ Works(t)
  BY DEF M!Close, M!At, Works
<1>1. PICK k \in M!Numbers : k = archive[t].of /\ archived[k] \in Sessions
  BY <1>0, OfACall
<1>2. PICK z \in Sessions : z = archived[k]
  BY <1>1
<1>3. PICK b \in BOOLEAN : b = (z.ended \/ M!HasSession(k))
  OBVIOUS
<1>4. PICK s : s = [z EXCEPT !.ended = b]
  OBVIOUS
<1>5. /\ s \in Sessions /\ s.contact = z.contact /\ s.gist = z.gist /\ s.ended = b
      /\ z.ended => s = z
  <2>1. z = [contact |-> z.contact, ended |-> z.ended, gist |-> z.gist] /\ z.ended \in BOOLEAN
    BY DEF Sessions
  <2>2. s \in Sessions /\ s.contact = z.contact /\ s.gist = z.gist /\ s.ended = b
    BY <1>4 DEF Sessions
  <2>3. s = [contact |-> z.contact, ended |-> b, gist |-> z.gist]
    BY <1>4, <2>1
  <2>4. z.ended => b = z.ended
    BY <1>3, <2>1
  <2>5. QED
    BY <2>1, <2>2, <2>3, <2>4
<1>6. archived' = [archived EXCEPT ![k] = s] /\ archive' = [archive EXCEPT ![t] = M!Over]
  <2>1. archived' = [archived EXCEPT ![k].ended = archived[k].ended \/ M!HasSession(k)]
    BY <1>1 DEF M!Close, M!EndSession
  <2>2. (archived[k].ended \/ M!HasSession(k)) = b
    BY <1>2, <1>3
  <2>3. archived' = [archived EXCEPT ![k].ended = b]
    BY <2>1, <2>2
  <2>4. QED
    BY <1>2, <1>4, <2>3 DEF M!Close, M!Goes
<1>7. UNCHANGED <<M!call, M!layers, rows>> /\ UNCHANGED <<fails, overtaken, forgotten>>
  BY DEF M!Close, M!NoMore
<1>8. ~ M!IsArchived(s.contact)
  <2>1. ~ M!IsArchived(archive[t].contact) /\ archived[k].contact = archive[t].contact
    BY <1>0, <1>1 DEF MemoryInv, IsOfTheEnded, M!Close, M!At
  <2>2. QED
    BY <1>2, <1>5, <2>1
<1>9. archive'[t] = M!Over /\ M!Over \in Archives /\ M!Over.at = "over"
  BY <1>0, <1>6, IdleAndOver DEF MemoryInv, MemoryTypes
<1>10. (IsOfTheEnded(t) /\ HasAll(t))'
  BY <1>9 DEF IsOfTheEnded, HasAll, Works
<1>11. forgotten' \in [M!Numbers -> SUBSET M!Turns]
         /\ \A j \in M!Numbers : forgotten[j] \subseteq forgotten'[j]
  BY <1>0, <1>7 DEF MemoryInv, MemoryTypes
<1>12. /\ MemoryInv'
       /\ \A j \in M!Numbers : archived[j].ended => archived'[j] = archived[j]
  BY <1>0, <1>1, <1>2, <1>5, <1>6, <1>7, <1>8, <1>9, <1>10, <1>11, SessionEnds
<1>13. QED
  BY <1>12

LEMMA EndStep ==
    ASSUME MemoryInv, NEW t \in Threads, M!End(t)
    PROVE  /\ MemoryInv'
           /\ \A k \in M!Numbers : archived[k].ended => archived'[k].ended
                /\ archived'[k].gist = archived[k].gist
<1>0. MemoryInv /\ Works(t) /\ HasShutDown(t)
  BY DEF M!End, M!At, Works, HasShutDown
<1>1. PICK a \in Archives : a = archive[t] /\ a.at = "end"
  BY <1>0, OfACall DEF M!End, M!At
<1>2. PICK k \in M!Numbers : k = a.of
  BY <1>0, <1>1, OfACall
<1>3. PICK z \in Sessions : z = archived[k]
  BY <1>0, <1>1, <1>2, OfACall
<1>4. PICK g \in SUBSET M!Turns, p \in {"embed", "notes"} :
         /\ archived' = [archived EXCEPT ![k] = M!EndWithGist(z, g)]
         /\ archive' = [archive EXCEPT ![t] = [a EXCEPT !.at = p]]
         /\ \/ g = a.gist /\ forgotten' = forgotten
            \/ forgotten' = [forgotten EXCEPT ![k] = M!Turns]
  <2>1. /\ archived' = [archived EXCEPT ![k] = M!EndWithGist(z, a.gist)]
        /\ archive' = [archive EXCEPT ![t] = [a EXCEPT !.at = "embed"]] /\ forgotten' = forgotten
        \/ /\ archived' = [archived EXCEPT ![k] = M!EndWithGist(z, {})]
           /\ archive' = [archive EXCEPT ![t] = [a EXCEPT !.at = "notes"]]
           /\ forgotten' = [forgotten EXCEPT ![k] = M!Turns]
    BY <1>1, <1>2, <1>3 DEF M!End, M!Goes, M!GoesTo
  <2>2. a.gist \in SUBSET M!Turns
    BY DEF Archives
  <2>3. QED
    BY <2>1, <2>2
<1>5. PICK s : s = M!EndWithGist(z, g)
  OBVIOUS
<1>6. /\ s \in Sessions /\ s.contact = z.contact /\ (z.ended => s = z) /\ (~ z.ended => s.gist = g)
      /\ s.ended
  BY <1>5 DEF Sessions, M!EndWithGist
<1>7. PICK b : b = [a EXCEPT !.at = p]
  OBVIOUS
<1>8. b \in Archives /\ b.at = p /\ b.of = k /\ b.contact = a.contact /\ b.worker = a.worker
  BY <1>2, <1>7 DEF Archives, ArchivePlaces
<1>9. /\ archived' = [archived EXCEPT ![k] = s] /\ archive' = [archive EXCEPT ![t] = b]
      /\ UNCHANGED <<M!call, M!layers, rows, overtaken>>
  BY <1>4, <1>5, <1>7 DEF M!End
<1>10. archive'[t] = b /\ forgotten \in [M!Numbers -> SUBSET M!Turns]
         /\ archived \in [M!Numbers -> Sessions]
  BY <1>0, <1>9 DEF MemoryInv, MemoryTypes
<1>11. forgotten' \in [M!Numbers -> SUBSET M!Turns]
         /\ \A j \in M!Numbers : forgotten[j] \subseteq forgotten'[j]
  BY <1>4, <1>10
<1>12. \A j \in M!Numbers : archived'[j].contact = archived[j].contact
  BY <1>3, <1>6, <1>9, <1>10
<1>13. GoesOn
  BY <1>9, <1>11, <1>12 DEF GoesOn, M!call, M!layers
<1>14. IsOfTheEnded(t)'
  BY <1>0, <1>1, <1>2, <1>8, <1>10, <1>13, StaysOfTheEnded
<1>15. HasAll(t)'
  BY <1>8, <1>10 DEF HasAll
<1>16. ASSUME ~ z.ended, k \notin overtaken, NEW n \in 1 .. said[k]
       PROVE  n \in M!Range(recent[k]) \/ n \in s.gist \/ n \in forgotten'[k]
  <2>1. CASE g = a.gist /\ forgotten' = forgotten
    BY <1>0, <1>1, <1>2, <1>6, <1>16, <2>1 DEF MemoryInv, HasAll
  <2>2. CASE forgotten' = [forgotten EXCEPT ![k] = M!Turns]
    <3>1. said[k] \in 0 .. MaxTurns
      BY <1>0 DEF MemoryInv, MemoryTypes
    <3>2. n \in M!Turns
      BY <1>16, <3>1 DEF M!Turns
    <3>3. QED
      BY <1>10, <2>2, <3>2
  <2>3. QED
    BY <1>4, <2>1, <2>2
<1>17. k = archive[t].of /\ z = archived[archive[t].of]
  BY <1>1, <1>2, <1>3
<1>18. /\ MemoryInv'
       /\ \A j \in M!Numbers : archived[j].ended => archived'[j] = archived[j]
  BY <1>0, <1>6, <1>8, <1>9, <1>11, <1>14, <1>15, <1>16, <1>17, SessionEnds
<1>19. QED
  BY <1>18

\* A step of an archive that stores something of its call.
LEMMA Stores ==
    ASSUME MemoryInv, NEW t \in Threads, HasShutDown(t), NEW b \in Archives, NEW kind, NEW from,
           archive' = [archive EXCEPT ![t] = b],
           (IsOfTheEnded(t) /\ HasAll(t))',
           rows' = rows \/ rows' = rows \cup {<<archive[t].of, archive[t].contact, kind, from>>},
           from = archive[t].of \/ archive[t].of \in overtaken,
           UNCHANGED <<M!call, M!layers, archived>>, UNCHANGED <<overtaken, forgotten>>
    PROVE  MemoryInv'
<1>0. MemoryInv /\ Works(t)
  BY DEF Works, HasShutDown
<1>1. UNCHANGED <<begun, onCall, identity, lastBegun, said, recent, bound, inbox, worker, summary,
                  notes,
                  archived>>
  BY DEF M!call, M!layers
<1>2. GoesOn
  BY <1>1 DEF GoesOn
<1>3. archive \in [Threads -> Archives]
  BY <1>0 DEF MemoryInv, MemoryTypes
<1>4. archive' \in [Threads -> Archives] /\ \A u \in Threads : u # t => archive'[u] = archive[u]
  BY <1>3
<1>5. MemoryTypes'
  BY <1>0, <1>1, <1>4 DEF MemoryInv, MemoryTypes
<1>6. \A u \in Threads : (IsOfTheEnded(u) /\ HasAll(u))'
  BY <1>0, <1>2, <1>4, OthersGoOn
<1>7. NothingSaidBefore'
  BY <1>0, <1>1 DEF MemoryInv, NothingSaidBefore
<1>8. StoredIsOwn'
  <2>1. /\ archive[t].of \in 1 .. begun /\ archive[t].of # onCall
        /\ archived[archive[t].of].contact = archive[t].contact /\ M!IsArchived(archive[t].contact)
    BY <1>0 DEF MemoryInv, IsOfTheEnded, HasShutDown
  <2>2. archive[t].contact \in People
    <3>1. archive[t] \in Archives
      BY <1>3
    <3>2. archive[t].contact \in M!Whom \cup {M!Sentinel}
      BY <3>1 DEF Archives
    <3>3. QED
      BY <2>1, <3>2, ArchivedAreContacts
  <2>3. PICK r : r = <<archive[t].of, archive[t].contact, kind, from>>
    OBVIOUS
  <2>4. r[1] = archive[t].of /\ r[4] = from
    BY <2>3
  <2>5. /\ r[1] \in 1 .. begun /\ r[1] # onCall /\ archived[r[1]].contact \in People
        /\ r[4] = r[1] \/ r[1] \in overtaken
    BY <2>1, <2>2, <2>4
  <2>6. \A x \in rows' : x \in rows \/ x = r
    BY <2>3
  <2>7. QED
    BY <1>0, <1>1, <2>5, <2>6 DEF MemoryInv, StoredIsOwn
<1>9. QED
  BY <1>0, <1>1, <1>2, <1>5, <1>6, <1>7, <1>8, InboxesKept, SessionsKept DEF MemoryInv

LEMMA EmbedGistStep ==
    ASSUME MemoryInv, NEW t \in Threads, M!EmbedGist(t)
    PROVE  MemoryInv'
<1>0. MemoryInv /\ Works(t) /\ HasShutDown(t)
  BY DEF M!EmbedGist, M!At, Works, HasShutDown
<1>1. PICK a \in Archives : a = archive[t]
  BY <1>0, OfACall
<1>2. PICK b \in Archives : /\ archive' = [archive EXCEPT ![t] = b]
                        /\ b.at = "notes" /\ b.of = a.of /\ b.contact = a.contact
                             /\ b.worker = a.worker
  <2>1. PICK b : b = [a EXCEPT !.at = "notes"]
    OBVIOUS
  <2>2. b \in Archives /\ b.at = "notes" /\ b.of = a.of /\ b.contact = a.contact
          /\ b.worker = a.worker
    BY <2>1 DEF Archives, ArchivePlaces
  <2>3. archive' = [archive EXCEPT ![t] = b]
    BY <1>1, <2>1 DEF M!EmbedGist, M!Goes, M!GoesTo
  <2>4. QED
    BY <2>2, <2>3
<1>3. /\ rows' = rows \cup {<<archive[t].of, archive[t].contact, "gist", archive[t].worker>>}
      /\ UNCHANGED <<M!call, M!layers, archived>> /\ UNCHANGED <<overtaken, forgotten>>
  BY DEF M!EmbedGist, M!NoMore, M!Insert, M!InsertEmbedding
<1>4. archive'[t] = b
  BY <1>0, <1>2 DEF MemoryInv, MemoryTypes
<1>5. GoesOn
  BY <1>3 DEF GoesOn, M!call, M!layers
<1>6. IsOfTheEnded(t)'
  BY <1>0, <1>1, <1>2, <1>4, <1>5, StaysOfTheEnded
<1>7. HasAll(t)'
  BY <1>2, <1>4 DEF HasAll
<1>8. archive[t].worker = archive[t].of \/ archive[t].of \in overtaken
  BY <1>0 DEF MemoryInv, IsOfTheEnded
<1>9. QED
  BY <1>0, <1>2, <1>3, <1>6, <1>7, <1>8, Stores

LEMMA EmbedNotesStep ==
    ASSUME MemoryInv, NEW t \in Threads, M!EmbedNotes(t)
    PROVE  MemoryInv'
<1>0. MemoryInv /\ Works(t) /\ HasShutDown(t)
  BY DEF M!EmbedNotes, M!At, Works, HasShutDown
<1>1. /\ archive' = [archive EXCEPT ![t] = M!Over]
      /\ rows' = rows \/ rows' = rows \cup {<<archive[t].of, archive[t].contact, "note",
         lastBegun>>}
      /\ UNCHANGED <<M!call, M!layers, archived>> /\ UNCHANGED <<overtaken, forgotten>>
  BY DEF M!EmbedNotes, M!NoMore, M!Insert, M!InsertEmbedding, M!Goes
<1>2. archive'[t] = M!Over /\ M!Over \in Archives /\ M!Over.at = "over"
  BY <1>0, <1>1, IdleAndOver DEF MemoryInv, MemoryTypes
<1>3. (IsOfTheEnded(t) /\ HasAll(t))'
  BY <1>2 DEF IsOfTheEnded, HasAll, Works
<1>4. lastBegun = archive[t].of \/ archive[t].of \in overtaken
  BY <1>0, OfACall
<1>5. QED
  BY <1>0, <1>1, <1>2, <1>3, <1>4, Stores

LEMMA ShutdownStep ==
    ASSUME MemoryInv, NEW t \in Threads, M!Shutdown(t)
    PROVE  MemoryInv'
<1>0. MemoryInv /\ Works(t)
  BY DEF M!Shutdown, M!At, Works
<1>1. PICK a \in Archives : a = archive[t] /\ a.at = "shutdown"
  BY <1>0, OfACall DEF M!Shutdown, M!At
<1>2. PICK k \in M!Numbers : k = lastBegun /\ k = begun
  BY <1>0, OfACall
<1>3. PICK q \in Seq(SUBSET M!Turns) : q = inbox[k]
  BY <1>0 DEF MemoryInv, MemoryTypes
<1>4. PICK p \in Seq(SUBSET M!Turns) :
         /\ p = Append(q, {}) /\ DOMAIN p = 1 .. (Len(q) + 1)
         /\ DOMAIN q = 1 .. Len(q) /\ Len(q) \in Nat
         /\ \A i \in 1 .. Len(q) : p[i] = q[i]
         /\ p[Len(q) + 1] = {}
  <2>1. PICK e \in SUBSET M!Turns : e = {}
    OBVIOUS
  <2>2. PICK p : p = Append(q, e)
    OBVIOUS
  <2>3. /\ p \in Seq(SUBSET M!Turns) /\ DOMAIN p = 1 .. (Len(q) + 1)
        /\ DOMAIN q = 1 .. Len(q) /\ Len(q) \in Nat
    BY <2>2, Appended
  <2>4. (\A i \in 1 .. Len(q) : p[i] = q[i]) /\ p[Len(q) + 1] = e
    BY <2>2, Appended
  <2>5. QED
    BY <2>1, <2>2, <2>3, <2>4
<1>5. PICK b \in Archives : /\ archive' = [archive EXCEPT ![t] = b]
                        /\ b.at = "join" /\ b.of = a.of /\ b.contact = a.contact /\ b.worker = k
  <2>1. PICK b : b = [a EXCEPT !.at = "join", !.worker = k]
    OBVIOUS
  <2>2. k \in 0 .. MaxBegun
    BY DEF M!Numbers
  <2>3. b \in Archives /\ b.at = "join" /\ b.of = a.of /\ b.contact = a.contact /\ b.worker = k
    BY <2>1, <2>2 DEF Archives, ArchivePlaces
  <2>4. archive' = [archive EXCEPT ![t] = b]
    BY <1>1, <1>2, <2>1 DEF M!Shutdown, M!Goes
  <2>5. QED
    BY <2>3, <2>4
<1>6. /\ inbox' = [inbox EXCEPT ![k] = p] /\ overtaken' = overtaken \cup ({k} \ {a.of})
      /\ UNCHANGED <<M!call, said, recent, bound, worker, summary, notes, M!store, fails,
         forgotten>>
  BY <1>1, <1>2, <1>3, <1>4 DEF M!Shutdown
<1>7. UNCHANGED <<begun, onCall, identity, lastBegun, archived, rows>>
  BY <1>6 DEF M!call, M!store
<1>8. /\ archive' \in [Threads -> Archives] /\ archive'[t] = b
      /\ \A u \in Threads : u # t => archive'[u] = archive[u]
      /\ inbox' \in [M!Numbers -> Seq(SUBSET M!Turns)] /\ inbox'[k] = p
      /\ \A j \in M!Numbers : j # k => inbox'[j] = inbox[j]
  BY <1>0, <1>5, <1>6 DEF MemoryInv, MemoryTypes
<1>9. GoesOn
  BY <1>6, <1>7 DEF GoesOn
<1>10. /\ a.of \in 1 .. begun /\ a.of # onCall /\ (a.of = k \/ a.of \in overtaken)
       /\ archived[a.of].contact = a.contact /\ M!IsArchived(a.contact)
  BY <1>0, <1>1, <1>2 DEF MemoryInv, IsOfTheEnded
<1>11. MemoryTypes'
  BY <1>0, <1>6, <1>7, <1>8 DEF MemoryInv, MemoryTypes
<1>12. ASSUME NEW u \in Threads
       PROVE  (IsOfTheEnded(u) /\ HasAll(u))'
  <2>1. CASE u # t
    BY <1>0, <1>8, <1>9, <2>1, OthersGoOn
  <2>2. CASE u = t
    <3>1. IsOfTheEnded(u)'
      BY <1>2, <1>5, <1>6, <1>7, <1>8, <1>10, <2>2 DEF IsOfTheEnded
    <3>2. HasAll(u)'
      BY <1>5, <1>8, <2>2 DEF HasAll
    <3>3. QED
      BY <3>1, <3>2
  <2>3. QED
    BY <2>1, <2>2
<1>13. NothingSaidBefore'
  <2>1. \A j \in M!Numbers : j > begun => j # k
    BY <1>0, <1>2, NumbersAreNumbers
  <2>2. QED
    BY <1>0, <1>6, <1>7, <1>8, <2>1 DEF MemoryInv, NothingSaidBefore
<1>14. EveryTurnIsSomewhere'
  <2>1. ASSUME NEW j \in M!Numbers, NEW n \in 1 .. said[j]
        PROVE  (Remembered(j, n) \/ OnItsWay(j, n))'
    <3>1. Remembered(j, n) \/ OnItsWay(j, n)
      BY <1>0 DEF MemoryInv, EveryTurnIsSomewhere
    <3>2. OnItsWay(j, n) => OnItsWay(j, n)'
      <4>1. CASE j # k
        BY <1>8, <4>1 DEF OnItsWay
      <4>2. CASE j = k
        <5>1. \A i \in DOMAIN q : i \in DOMAIN p /\ p[i] = q[i]
          BY <1>4
        <5>2. QED
          BY <1>3, <1>8, <4>2, <5>1 DEF OnItsWay
      <4>3. QED
        BY <4>1, <4>2
    <3>3. QED
      BY <1>6, <3>1, <3>2 DEF Remembered
  <2>2. QED
    BY <1>6, <2>1 DEF EveryTurnIsSomewhere
<1>15. StoppedLast'
  <2>1. ASSUME NEW j \in M!Numbers, j \notin overtaken'
        PROVE  /\ \A i \in DOMAIN inbox'[j] : inbox'[j][i] = {} =>
                     j # onCall /\ \A m \in DOMAIN inbox'[j] : i < m => inbox'[j][m] = {}
               /\ j <= begun /\ ~ worker[j] =>
                     j # onCall /\ \A i \in DOMAIN inbox'[j] : inbox'[j][i] = {}
    <3>1. /\ \A i \in DOMAIN inbox[j] : inbox[j][i] = {} =>
                j # onCall /\ \A m \in DOMAIN inbox[j] : i < m => inbox[j][m] = {}
          /\ j <= begun /\ ~ worker[j] =>
                j # onCall /\ \A i \in DOMAIN inbox[j] : inbox[j][i] = {}
      BY <1>0, <1>6, <2>1 DEF MemoryInv, StoppedLast
    <3>2. CASE j # k
      BY <1>8, <3>1, <3>2
    <3>3. CASE j = k
      <4>1. j # onCall
        BY <1>6, <1>10, <2>1, <3>3
      <4>2. \A m \in DOMAIN p : (m \in DOMAIN q /\ p[m] = q[m]) \/ m = Len(q) + 1
        BY <1>4
      <4>3. ASSUME NEW i \in DOMAIN p, p[i] = {}, NEW m \in DOMAIN p, i < m
            PROVE  p[m] = {}
        <5>1. CASE m = Len(q) + 1
          BY <1>4, <5>1
        <5>2. CASE m # Len(q) + 1
          <6>1. i # Len(q) + 1 /\ m \in DOMAIN q
            BY <1>4, <4>2, <4>3, <5>2
          <6>2. i \in DOMAIN q /\ p[i] = q[i] /\ p[m] = q[m]
            BY <4>2, <4>3, <5>2, <6>1
          <6>3. QED
            BY <1>3, <3>1, <3>3, <4>3, <6>1, <6>2
        <5>3. QED
          BY <5>1, <5>2
      <4>4. j <= begun /\ ~ worker[j] => \A i \in DOMAIN p : p[i] = {}
        <5>1. j <= begun /\ ~ worker[j] => \A i \in DOMAIN q : q[i] = {}
          BY <1>3, <3>1, <3>3
        <5>2. QED
          BY <1>4, <4>2, <5>1
      <4>5. QED
        BY <1>8, <3>3, <4>1, <4>3, <4>4
    <3>4. QED
      BY <3>2, <3>3
  <2>2. QED
    BY <1>6, <1>7, <2>1 DEF StoppedLast
<1>16. QED
  BY <1>0, <1>7, <1>9, <1>11, <1>12, <1>13, <1>14, <1>15, SessionsKept, RowsKept DEF MemoryInv

LEMMA TailElements ==
    ASSUME NEW S, NEW q \in Seq(S), q # <<>>
    PROVE  /\ Tail(q) \in Seq(S) /\ DOMAIN q = 1 .. Len(q) /\ Len(q) \in Nat
           /\ 1 \in DOMAIN q /\ DOMAIN Tail(q) = 1 .. (Len(q) - 1)
           /\ \A i \in DOMAIN Tail(q) : i + 1 \in DOMAIN q /\ Tail(q)[i] = q[i + 1]
<1>1. DOMAIN q = 1 .. Len(q) /\ Len(q) \in Nat /\ Len(q) # 0
  OBVIOUS
<1>2. Tail(q) \in Seq(S) /\ Len(Tail(q)) = Len(q) - 1
  OBVIOUS
<1>3. DOMAIN Tail(q) = 1 .. (Len(q) - 1)
  BY <1>2
<1>4. ASSUME NEW i \in DOMAIN Tail(q)
      PROVE  i + 1 \in DOMAIN q /\ Tail(q)[i] = q[i + 1]
  <2>1. i \in 1 .. (Len(q) - 1)
    BY <1>3
  <2>2. i + 1 \in 1 .. Len(q)
    BY <1>1, <2>1
  <2>3. QED
    BY <1>1, <2>1, <2>2
<1>5. QED
  BY <1>1, <1>2, <1>3, <1>4

LEMMA SummariseStep ==
    ASSUME MemoryInv, NEW k \in M!Numbers, M!Summarise(k)
    PROVE  MemoryInv'
<1>0. MemoryInv
  OBVIOUS
<1>1. PICK q \in Seq(SUBSET M!Turns) : q = inbox[k] /\ q # <<>>
  BY <1>0 DEF M!Summarise, MemoryInv, MemoryTypes
<1>2. PICK p \in Seq(SUBSET M!Turns) :
         /\ p = Tail(q) /\ DOMAIN q = 1 .. Len(q) /\ Len(q) \in Nat /\ 1 \in DOMAIN q
         /\ DOMAIN p = 1 .. (Len(q) - 1)
         /\ \A i \in DOMAIN p : i + 1 \in DOMAIN q /\ p[i] = q[i + 1]
  <2>1. PICK p : p = Tail(q)
    OBVIOUS
  <2>2. /\ p \in Seq(SUBSET M!Turns) /\ DOMAIN q = 1 .. Len(q) /\ Len(q) \in Nat
        /\ 1 \in DOMAIN q /\ DOMAIN p = 1 .. (Len(q) - 1)
    BY <1>1, <2>1, TailElements
  <2>3. \A i \in DOMAIN p : i + 1 \in DOMAIN q /\ p[i] = q[i + 1]
    BY <1>1, <2>1, TailElements
  <2>4. QED
    BY <2>1, <2>2, <2>3
<1>3. PICK batch \in SUBSET M!Turns : batch = q[1] /\ batch = Head(q)
  BY <1>1, <1>2
<1>4. /\ worker[k] /\ inbox' = [inbox EXCEPT ![k] = p]
      /\ \/ batch = {} /\ worker' = [worker EXCEPT ![k] = FALSE] /\ summary' = summary
              /\ forgotten' = forgotten
         \/ /\ batch # {} /\ worker' = worker
            /\ \/ summary' = [summary EXCEPT ![k] = summary[k] \cup batch] /\ forgotten' = forgotten
               \/ summary' = summary
                    /\ forgotten' = [forgotten EXCEPT ![k] = forgotten[k] \cup batch]
      /\ UNCHANGED <<M!call, said, recent, bound, notes, M!store, archive, overtaken>>
  BY <1>1, <1>2, <1>3 DEF M!Summarise
<1>5. UNCHANGED <<begun, onCall, identity, lastBegun, archived, rows>>
  BY <1>4 DEF M!call, M!store
<1>6. /\ inbox \in [M!Numbers -> Seq(SUBSET M!Turns)] /\ worker \in [M!Numbers -> BOOLEAN]
      /\ summary \in [M!Numbers -> SUBSET M!Turns] /\ forgotten \in [M!Numbers -> SUBSET M!Turns]
  BY <1>0 DEF MemoryInv, MemoryTypes
<1>7. /\ inbox' \in [M!Numbers -> Seq(SUBSET M!Turns)] /\ inbox'[k] = p
      /\ \A j \in M!Numbers : j # k => inbox'[j] = inbox[j] /\ worker'[j] = worker[j]
      /\ worker' \in [M!Numbers -> BOOLEAN] /\ (batch # {} => worker'[k])
  BY <1>4, <1>6
<1>8. /\ summary' \in [M!Numbers -> SUBSET M!Turns] /\ forgotten' \in [M!Numbers -> SUBSET M!Turns]
      /\ \A j \in M!Numbers : summary[j] \subseteq summary'[j]
           /\ forgotten[j] \subseteq forgotten'[j]
      /\ \A n \in batch : n \in summary'[k] \/ n \in forgotten'[k]
  BY <1>4, <1>6
<1>9. GoesOn
  BY <1>4, <1>5, <1>8 DEF GoesOn
<1>10. MemoryTypes'
  BY <1>0, <1>4, <1>5, <1>7, <1>8 DEF MemoryInv, MemoryTypes
<1>11. \A u \in Threads : (IsOfTheEnded(u) /\ HasAll(u))'
  BY <1>0, <1>4, <1>9, OthersGoOn
<1>12. NothingSaidBefore'
  <2>1. \A j \in M!Numbers : j > begun => j # k
    BY <1>0, <1>1 DEF MemoryInv, NothingSaidBefore
  <2>2. QED
    BY <1>0, <1>4, <1>5, <1>7, <2>1 DEF MemoryInv, NothingSaidBefore
<1>13. EveryTurnIsSomewhere'
  <2>1. ASSUME NEW j \in M!Numbers, NEW n \in 1 .. said[j]
        PROVE  (Remembered(j, n) \/ OnItsWay(j, n))'
    <3>1. Remembered(j, n) \/ OnItsWay(j, n)
      BY <1>0 DEF MemoryInv, EveryTurnIsSomewhere
    <3>2. CASE Remembered(j, n)
      BY <1>4, <1>8, <3>2 DEF Remembered
    <3>3. CASE OnItsWay(j, n) /\ j # k
      BY <1>7, <3>3 DEF OnItsWay
    <3>4. CASE OnItsWay(j, n) /\ j = k
      <4>1. PICK i \in DOMAIN q : n \in q[i]
        BY <1>1, <3>4 DEF OnItsWay
      <4>2. CASE i = 1
        <5>1. n \in summary'[k] \/ n \in forgotten'[k]
          BY <1>3, <1>8, <4>1, <4>2
        <5>2. QED
          BY <3>4, <5>1 DEF Remembered
      <4>3. CASE i # 1
        <5>1. i - 1 \in DOMAIN p /\ p[i - 1] = q[i]
          BY <1>2, <4>1, <4>3
        <5>2. QED
          BY <1>7, <3>4, <4>1, <5>1 DEF OnItsWay
      <4>4. QED
        BY <4>2, <4>3
    <3>5. QED
      BY <3>1, <3>2, <3>3, <3>4
  <2>2. QED
    BY <1>4, <2>1 DEF EveryTurnIsSomewhere
<1>14. StoppedLast'
  <2>1. ASSUME NEW j \in M!Numbers, j \notin overtaken
        PROVE  /\ \A i \in DOMAIN inbox'[j] : inbox'[j][i] = {} =>
                     j # onCall /\ \A m \in DOMAIN inbox'[j] : i < m => inbox'[j][m] = {}
               /\ j <= begun /\ ~ worker'[j] =>
                     j # onCall /\ \A i \in DOMAIN inbox'[j] : inbox'[j][i] = {}
    <3>1. /\ \A i \in DOMAIN inbox[j] : inbox[j][i] = {} =>
                j # onCall /\ \A m \in DOMAIN inbox[j] : i < m => inbox[j][m] = {}
          /\ j <= begun /\ ~ worker[j] =>
                j # onCall /\ \A i \in DOMAIN inbox[j] : inbox[j][i] = {}
      BY <1>0, <2>1 DEF MemoryInv, StoppedLast
    <3>2. CASE j # k
      BY <1>7, <3>1, <3>2
    <3>3. CASE j = k
      <4>1. \A i \in DOMAIN q : q[i] = {} =>
               j # onCall /\ \A m \in DOMAIN q : i < m => q[m] = {}
        BY <1>1, <3>1, <3>3
      <4>2. ASSUME NEW i \in DOMAIN p, p[i] = {}
            PROVE  j # onCall /\ \A m \in DOMAIN p : i < m => p[m] = {}
        <5>1. i + 1 \in DOMAIN q /\ q[i + 1] = {}
          BY <1>2, <4>2
        <5>2. \A m \in DOMAIN p : i < m => m + 1 \in DOMAIN q /\ p[m] = q[m + 1] /\ i + 1 < m + 1
          BY <1>2
        <5>3. QED
          BY <4>1, <5>1, <5>2
      <4>3. ~ worker'[k] => j # onCall /\ \A i \in DOMAIN p : p[i] = {}
        <5>1. CASE batch = {}
          <6>1. q[1] = {} /\ 1 \in DOMAIN q
            BY <1>2, <1>3, <5>1
          <6>2. j # onCall /\ \A m \in DOMAIN q : 1 < m => q[m] = {}
            BY <4>1, <6>1
          <6>3. \A i \in DOMAIN p : i + 1 \in DOMAIN q /\ p[i] = q[i + 1] /\ 1 < i + 1
            BY <1>2
          <6>4. QED
            BY <6>2, <6>3
        <5>2. QED
          BY <1>7, <5>1
      <4>4. QED
        BY <1>7, <3>3, <4>2, <4>3
    <3>4. QED
      BY <3>2, <3>3
  <2>2. QED
    BY <1>4, <1>5, <2>1 DEF StoppedLast
<1>15. QED
  BY <1>0, <1>5, <1>9, <1>10, <1>11, <1>12, <1>13, <1>14, SessionsKept, RowsKept DEF MemoryInv

\* A note, and a step of something else.
LEMMA OnlyNotes ==
    ASSUME MemoryInv, notes' \in [M!Numbers -> BOOLEAN],
           UNCHANGED <<M!call, said, recent, bound, inbox, worker, summary, M!store, archive,
                       overtaken,
                       forgotten>>
    PROVE  MemoryInv'
<1>0. MemoryInv
  OBVIOUS
<1>1. UNCHANGED <<begun, onCall, identity, lastBegun, archived, rows>>
  BY DEF M!call, M!store
<1>2. GoesOn
  BY <1>1 DEF GoesOn
<1>3. MemoryTypes' /\ NothingSaidBefore'
  BY <1>0, <1>1 DEF MemoryInv, MemoryTypes, NothingSaidBefore
<1>4. \A u \in Threads : (IsOfTheEnded(u) /\ HasAll(u))'
  BY <1>0, <1>2, OthersGoOn
<1>5. QED
  BY <1>0, <1>1, <1>2, <1>3, <1>4, InboxesKept, SessionsKept, RowsKept DEF MemoryInv

----------------------------------------------------------------------------
\* An ended session stays as it is.
EndedStays == \A k \in M!Numbers : archived[k].ended => archived'[k].ended
                /\ archived'[k].gist = archived[k].gist

LEMMA MemoryStep ==
    ASSUME MemoryInv, [M!Next]_M!vars
    PROVE  MemoryInv' /\ EndedStays
<1>0. MemoryInv
  OBVIOUS
<1>1. ASSUME NEW who \in M!Whom, M!CallStart(who)
      PROVE  MemoryInv' /\ EndedStays
  <2>1. MemoryInv'
    BY <1>1, CallStartStep
  <2>2. archived' = [archived EXCEPT ![begun + 1].contact = who]
          /\ archived \in [M!Numbers -> Sessions]
    BY <1>0, <1>1 DEF M!CallStart, M!StartSession, MemoryInv, MemoryTypes
  <2>3. \A k \in M!Numbers : archived[k].ended => k # begun + 1
    <3>1. \A k \in M!Numbers : archived[k].ended => k <= begun /\ k \in Nat /\ begun \in Nat
      BY <1>0, NumbersAreNumbers DEF MemoryInv, EndedAreOver
    <3>2. QED
      BY <3>1
  <2>4. QED
    BY <2>1, <2>2, <2>3 DEF EndedStays
<1>2. CASE M!AppendTurn
  BY <1>0, <1>2, AppendTurnStep DEF M!AppendTurn, EndedStays
<1>3. CASE M!AddNote
  <2>1. notes' \in [M!Numbers -> BOOLEAN]
    BY <1>0, <1>3 DEF M!AddNote, MemoryInv, MemoryTypes
  <2>2. UNCHANGED <<M!call, said, recent, bound, inbox, worker, summary, M!store, archive,
                    overtaken, forgotten>>
    BY <1>3 DEF M!AddNote
  <2>3. QED
    BY <1>0, <2>1, <2>2, OnlyNotes DEF EndedStays, M!store
<1>4. ASSUME NEW who \in People \cup {M!Sentinel},
             (M!MakePrivate /\ who = M!Sentinel) \/ M!Bind(who)
      PROVE  MemoryInv' /\ EndedStays
  <2>1. /\ onCall # M!None /\ M!Rebind(onCall, who) /\ identity' = who
        /\ UNCHANGED <<begun, onCall, lastBegun, M!layers, rows, archive, fails, overtaken,
           forgotten>>
    BY <1>4 DEF M!MakePrivate, M!Bind
  <2>2. QED
    BY <1>0, <2>1, RebindStep DEF EndedStays
<1>5. ASSUME NEW k \in M!Numbers, M!Summarise(k)
      PROVE  MemoryInv' /\ EndedStays
  BY <1>0, <1>5, SummariseStep DEF M!Summarise, EndedStays, M!store
<1>6. ASSUME NEW t \in Threads, M!CallEnd(t)
      PROVE  MemoryInv' /\ EndedStays
  BY <1>0, <1>6, CallEndStep DEF M!CallEnd, EndedStays, M!store
<1>7. ASSUME NEW t \in Threads, M!Archive(t)
      PROVE  MemoryInv' /\ EndedStays
  <2>1. CASE M!Check(t)
    BY <1>0, <2>1, CheckStep DEF M!Check, EndedStays, M!store
  <2>2. CASE M!ReadContact(t)
    BY <1>0, <2>2, ReadContactStep DEF M!ReadContact, EndedStays, M!store
  <2>3. CASE M!Close(t)
    BY <1>0, <2>3, CloseStep DEF EndedStays
  <2>4. CASE M!Shutdown(t)
    BY <1>0, <2>4, ShutdownStep DEF M!Shutdown, EndedStays, M!store
  <2>5. CASE M!Join(t)
    BY <1>0, <2>5, JoinStep DEF M!Join, EndedStays, M!store
  <2>6. CASE M!Read(t)
    BY <1>0, <2>6, ReadStep DEF M!Read, EndedStays, M!store
  <2>7. CASE M!End(t)
    BY <1>0, <2>7, EndStep DEF EndedStays
  <2>8. CASE M!EmbedGist(t)
    BY <1>0, <2>8, EmbedGistStep DEF M!EmbedGist, EndedStays
  <2>9. CASE M!EmbedNotes(t)
    BY <1>0, <2>9, EmbedNotesStep DEF M!EmbedNotes, EndedStays
  <2>10. QED
    BY <1>7, <2>1, <2>2, <2>3, <2>4, <2>5, <2>6, <2>7, <2>8, <2>9 DEF M!Archive
<1>8. CASE UNCHANGED M!vars
  <2>1. UNCHANGED <<M!call, said, recent, bound, inbox, worker, summary, notes, M!store, archive,
                    overtaken,
                    forgotten>>
    BY <1>8 DEF M!vars, M!layers
  <2>2. notes' \in [M!Numbers -> BOOLEAN]
    BY <1>0, <2>1 DEF MemoryInv, MemoryTypes
  <2>3. QED
    BY <1>0, <2>1, <2>2, OnlyNotes DEF EndedStays, M!store
<1>9. QED
  BY <1>1, <1>2, <1>3, <1>4, <1>5, <1>6, <1>7, <1>8 DEF M!Next

\* What a conversation, its worker and its archive hold of a call, whenever the next call
\* begins and whatever fails (MemoryManager, RollingWindow, GistWorker).
THEOREM MemoryInvSpec == M!Spec => []MemoryInv
<1>1. M!Init => MemoryInv
  BY InitMemoryInv
<1>2. MemoryInv /\ [M!Next]_M!vars => MemoryInv'
  BY MemoryStep
<1>3. QED
  BY <1>1, <1>2, PTL DEF M!Spec

\* What is archived of a call is its own and stays as it was, nothing but turns is stored of
\* a call that ended unidentified or private, and the final gist covers what had left the
\* window, unless the next call overtook the archive or a summary was lost
\* (MemoryManager._archive, TranscriptStore.end_session_with_gist).
THEOREM ArchivesAreOwn == M!Spec => ArchiveIsOfItsCall
<1>1. MemoryInv => M!ArchiveIsOfItsCall
  <2> SUFFICES ASSUME MemoryInv
               PROVE  M!ArchiveIsOfItsCall
    OBVIOUS
  <2>1. \A r \in rows : r[3] # "turn" =>
           archived[r[1]].contact \in People /\ (r[4] = r[1] \/ r[1] \in overtaken)
    BY DEF MemoryInv, StoredIsOwn
  <2>2. ASSUME NEW k \in M!Numbers, archived[k].ended, k \notin overtaken,
               M!IsArchived(archived[k].contact),
               NEW n \in (M!Turns \ M!Range(recent[k])) \cap (1 .. said[k])
        PROVE  n \in archived[k].gist \cup forgotten[k]
    BY <2>2 DEF MemoryInv, FinalGistHasAll
  <2>3. QED
    BY <2>1, <2>2 DEF M!ArchiveIsOfItsCall
<1>2. ASSUME MemoryInv, [M!Next]_M!vars
      PROVE  [\A k \in M!Numbers : archived[k].ended =>
                 archived'[k].ended /\ archived'[k].gist = archived[k].gist]_M!vars
  BY <1>2, MemoryStep DEF EndedStays
<1>3. MemoryInv' => (M!ArchiveIsOfItsCall)'
  BY <1>1, PTL
<1>4. ASSUME MemoryInv, [M!Next]_M!vars
      PROVE  [(M!ArchiveIsOfItsCall)']_memory
  BY <1>3, <1>4, MemoryStep
<1>5. QED
  BY <1>2, <1>4, MemoryInvSpec, PTL DEF M!Spec, M!ArchivedOnce, ArchiveIsOfItsCall
===============================================================================
