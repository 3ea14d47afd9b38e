------------------------------ MODULE Screening ------------------------------
(***************************************************************************)
(* The dialogues Iris holds with a caller it has answered: ScreenCallFlow, *)
(* TakeMessageFlow, and ScreenPivotFlow, which takes the message of a      *)
(* caller that was screened.  Each runs once, on a thread of its own, and  *)
(* hears nothing of the call but what it captures: a caller may hang up,   *)
(* and the next one be answered, while a flow is still in its dialogue.    *)
(* What a flow hangs up is whatever is on the line.                        *)
(*                                                                         *)
(* The engine that would start the flows only answers the call as yet, so  *)
(* Start and Pivot are what the classes' docstrings and tests ask for.     *)
(***************************************************************************)
EXTENDS Naturals, Sequences

CONSTANTS
    MaxCalls,       \* bound: calls, one after the other
    MaxRaises       \* bound: steps that raise

VARIABLES
    calls,      \* how many calls there have been
    line,       \* the call on the line, or 0
    flow,       \* per call: what its flow has yet to do, and what it has heard
    raises,
    queue,      \* IrisConsole.events
    messages,   \* MessageStore: calls a message was stored of
    \* history
    told,       \* calls that heard the disclosure
    recorded,   \* <<flow, call>>: whom a flow recorded who had not heard it
    spoken,     \* <<flow, part>>: what a flow captured somebody saying
    emitted,    \* every event there was
    through,    \* <<flow, call>>: whom a flow put through to the operator
    raised,     \* calls whose flow raised
    stranded,   \* calls whose flow raised, and failed to hang up too
    hungUp      \* <<flow, call>>: whom a flow hung up on

dialogue == <<line, flow, raises>>
console == <<queue, messages>>
history == <<told, recorded, spoken, emitted, through, raised, stranded, hungUp>>
vars == <<calls, dialogue, console, history>>

Numbers == 1 .. MaxCalls
Nobody == 0

(* The scripts.  A listening step goes on by what it hears.                  *)
Goodbye == <<"say", "declined", "hang up">>
\* mutant: the first question comes before the disclosure
Hasty == <<"say", "intro", "disclose">>
Screen == <<"disclose", "say", "intro">>
ReAsk == <<"say", "intro again">>
Relay == <<"relay", "decide">>
Message == <<"disclose", "say", "name", "say", "message">>
AskAgain == <<"say", "message again">>
Confirm == <<"say", "addition", "say", "done", "hang up">>
PivotScript == <<"say", "addition", "say", "done", "hang up">>
\* mutant: run goes on to the end after it put the call through
NoReturn == <<"connect", "through", "hang up">>
PutThrough == <<"connect", "through">>

Parts == {"intro", "name", "message", "addition"}
Steps == {"disclose", "say", "intro", "intro again", "relay", "decide", "connect", "name",
          "message", "message again", "addition", "declined", "through", "pivot", "done",
          "hang up", "clean up"}
Events == [kind : {"declined", "through", "pivot", "done"}, of : Numbers, text : SUBSET Parts]
NotStarted == [rest |-> <<"none">>, heard |-> {}]

TypeOK ==
    /\ calls \in 0 .. MaxCalls /\ line \in 0 .. MaxCalls
    /\ flow \in [Numbers -> [rest : Seq(Steps \cup {"none"}), heard : SUBSET Parts]]
    /\ queue \in Seq(Events) /\ emitted \subseteq Events
    /\ raises \in 0 .. MaxRaises
    /\ {messages, told, raised, stranded} \subseteq SUBSET Numbers
    /\ spoken \subseteq Numbers \X Parts
    /\ recorded \cup through \cup hungUp \subseteq Numbers \X Numbers

Init ==
    /\ calls = 0 /\ line = Nobody
    /\ flow = [k \in Numbers |-> NotStarted]
    /\ raises = 0
    /\ queue = <<>> /\ messages = {}
    /\ told = {} /\ recorded = {} /\ spoken = {} /\ emitted = {} /\ through = {} /\ raised = {}
    /\ stranded = {} /\ hungUp = {}

----------------------------------------------------------------------------
(* The line.                                                                 *)

\* A call is answered, to be screened or for a message to be taken.
Start(script) ==
    /\ line = Nobody /\ calls < MaxCalls
    /\ calls' = calls + 1 /\ line' = calls'
    /\ flow' = [flow EXCEPT ![calls'].rest = script]
    /\ UNCHANGED <<raises, console, history>>

\* The caller, or the operator it was put through to, hangs up.
CallEnds ==
    /\ line # Nobody /\ line' = Nobody
    /\ UNCHANGED <<calls, flow, raises, console, history>>

Step(k) == Head(flow[k].rest)
Runs(k) == flow[k].rest # <<>> /\ Step(k) # "none"
Does(k, rest) == flow' = [flow EXCEPT ![k].rest = rest]
Rest(k) == Tail(flow[k].rest)

----------------------------------------------------------------------------
(* The flows.                                                                *)

\* _play_disclosure, of the WAV or synthesised
Disclose(k) ==
    /\ Runs(k) /\ Step(k) = "disclose"
    /\ Does(k, Rest(k))
    /\ told' = told \cup ({line} \ {Nobody})
    /\ UNCHANGED <<calls, line, raises, console, recorded, spoken, emitted, through, raised,
                   stranded, hungUp>>

\* _speak, and relay_fn
Say(k) ==
    /\ Runs(k) /\ Step(k) \in {"say", "relay"}
    /\ Does(k, Rest(k))
    /\ UNCHANGED <<calls, line, raises, console, history>>

\* What the flow goes on with after a capture, in which it heard something or not.
GoesOn(k, heard) ==
    CASE Step(k) \in {"intro", "intro again"} /\ heard -> Relay
      [] Step(k) = "intro" /\ ~heard -> ReAsk
      [] Step(k) = "intro again" /\ ~heard -> Goodbye
      [] Step(k) = "message" -> IF heard THEN Confirm ELSE AskAgain
      [] Step(k) = "message again" -> Confirm
      [] OTHER -> Rest(k)

Part(k) == CASE Step(k) = "intro again" -> "intro"
             [] Step(k) = "message again" -> "message"
             [] OTHER -> Step(k)

\* mutant: what is added takes the place of the message
Replaced(k) == {Part(k)}

Kept(k) == flow[k].heard \cup {Part(k)}

\* _listen and _capture_utt1, of whoever is on the line
Listen(k, heard) ==
    /\ Runs(k) /\ Step(k) \in {"intro", "intro again", "name", "message", "message again",
                               "addition"}
    /\ heard => line # Nobody
    /\ flow' = [flow EXCEPT ![k] = [rest |-> GoesOn(k, heard),
                                    heard |-> IF heard THEN Kept(k) ELSE @.heard]]
    /\ recorded' = recorded \cup ({k} \X ({line} \ (told \cup {Nobody})))
    /\ spoken' = IF heard THEN spoken \cup {<<k, Part(k)>>} ELSE spoken
    /\ UNCHANGED <<calls, line, raises, console, told, emitted, through, raised, stranded,
                   hungUp>>

\* get_decision: the operator's, or none in time, which is as "take_message"
Decide(k) ==
    /\ Runs(k) /\ Step(k) = "decide"
    /\ \E next \in {PutThrough, Goodbye, <<"pivot">>} : Does(k, next)
    /\ UNCHANGED <<calls, line, raises, console, history>>

Connect(k) ==
    /\ Runs(k) /\ Step(k) = "connect"
    /\ Does(k, Rest(k))
    /\ through' = through \cup ({k} \X ({line} \ {Nobody}))
    /\ UNCHANGED <<calls, line, raises, console, told, recorded, spoken, emitted, raised, stranded,
                   hungUp>>

Emit(k) ==
    LET event == [kind |-> Step(k), of |-> k, text |-> flow[k].heard] IN
    /\ Runs(k) /\ Step(k) \in {"declined", "through", "pivot", "done"}
    /\ Does(k, Rest(k))
    /\ queue' = Append(queue, event) /\ emitted' = emitted \cup {event}
    /\ UNCHANGED <<calls, line, raises, messages, told, recorded, spoken, through, raised,
                   stranded, hungUp>>

\* The last step of a script, and what run does when one raised.
HangUp(k) ==
    /\ Runs(k) /\ Step(k) \in {"hang up", "clean up"}
    /\ line' = Nobody
    /\ hungUp' = hungUp \cup ({k} \X ({line} \ {Nobody}))
    /\ Does(k, <<>>)
    /\ UNCHANGED <<calls, raises, console, told, recorded, spoken, emitted, through, raised,
                   stranded>>

\* mutant: run only logs
LogOnly(k) == <<>>

CleansUp(k) == <<"clean up">>

\* A step raises: synthesis, playback, capture, transcription, or a callback.  run
\* hangs up, and gives up if that raises too.
Raises(k) ==
    /\ Runs(k) /\ raises < MaxRaises
    /\ raises' = raises + 1
    /\ IF Step(k) = "clean up" THEN Does(k, <<>>) /\ stranded' = stranded \cup {k}
       ELSE Does(k, CleansUp(k)) /\ UNCHANGED stranded
    /\ raised' = raised \cup {k}
    /\ UNCHANGED <<calls, line, console, told, recorded, spoken, emitted, through, hungUp>>

\* The pivot of a call that is still on the line.
Pivot(k) ==
    /\ flow[k].rest = <<>> /\ line = k
    /\ \E e \in emitted : e.of = k /\ e.kind = "pivot"
    /\ ~\E e \in emitted : e.of = k /\ e.kind = "done"
    /\ k \notin raised
    /\ flow' = [flow EXCEPT ![k].rest = PivotScript]
    /\ UNCHANGED <<calls, line, raises, console, history>>

----------------------------------------------------------------------------
(* The console, which keeps its messages in memory.                          *)

Drain ==
    /\ queue # <<>> /\ queue' = Tail(queue)
    /\ messages' = IF Head(queue).kind = "done" THEN messages \cup {Head(queue).of} ELSE messages
    /\ UNCHANGED <<calls, dialogue, history>>

----------------------------------------------------------------------------
Next ==
    \/ \E script \in {Screen, Message} : Start(script)
    \/ CallEnds
    \/ \E k \in Numbers :
          \/ Disclose(k) \/ Say(k) \/ Decide(k) \/ Connect(k) \/ Emit(k) \/ HangUp(k)
          \/ Raises(k) \/ Pivot(k)
          \/ \E heard \in BOOLEAN : Listen(k, heard)
    \/ Drain

Spec == Init /\ [][Next]_vars

----------------------------------------------------------------------------
(* Properties.                                                               *)

Over(k) == flow[k].rest = <<>>

\* A caller is recorded only after the disclosure, unless it is by the flow of an
\* earlier call, which goes on listening to a line it no longer has (_run).
ToldBeforeRecorded == \A pair \in recorded : pair[1] # pair[2]

\* What a caller said is all in an event, unless a step of the flow raised, and a
\* message taken is stored or on its way to be, as long as the console runs (the events
\* of _run, full_message, app.py's drain of take_message_done).
WordsAreKept ==
    /\ \A k \in Numbers : Over(k) /\ k \notin raised =>
          \E e \in emitted : e.of = k /\ e.text = {p \in Parts : <<k, p>> \in spoken}
    /\ \A e \in emitted : e.kind = "done" =>
          e.of \in messages \/ \E i \in DOMAIN queue : queue[i] = e

\* A call whose flow is over is not left on the line, unless it was put through, waits
\* for a pivot, or could not be hung up; one that was put through is hung up by its
\* flow only if that raised, which emit may (run, _run).
EndsAsDecided ==
    /\ \A k \in Numbers : Over(k) /\ line = k =>
          \/ k \in stranded \/ \E j \in Numbers : <<j, k>> \in through
          \/ \E e \in emitted : e.of = k /\ e.kind = "pivot"
    /\ \A k \in Numbers : <<k, k>> \in through \cap hungUp => k \in raised
=============================================================================
