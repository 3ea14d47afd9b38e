--------------------------- MODULE RideAlong_proofs ---------------------------
(***************************************************************************)
(* Proofs about RideAlong, for any number of calls and keys: whoever is    *)
(* captured has heard an announcement in this call, with three exceptions  *)
(* (a failed player, a gate that was opened elsewhere, a console started   *)
(* on the nodes of the call); a far-party transcriber that runs is known   *)
(* to the console unless announcements overlapped; and a quiet line leaves *)
(* the console on the endpoint it came up with.  And about Cards, for any  *)
(* calls, facts and items: the daemon records what the operator answered in that  *)
(* call, and what a call has brought up is not lost on its way to a        *)
(* decision and into the store.  And about Lists, for any sessions, texts  *)
(* and lookups: a call has one active list, and what an item says of its   *)
(* lookup is so.                                                           *)
(***************************************************************************)
EXTENDS ConsoleCalls, SequenceTheorems, WellFoundedInduction, TLAPS

Signals == [kind : {"incoming", "connected", "ended"}, call : Calls]
Announcements == [kind : {"announced"}, ok : BOOLEAN, into : Endpoints]
Events == Signals \cup Announcements
Far == [on : BOOLEAN, source : Calls \cup {Monitor, Default}, by : Endpoints \cup {Ungated}]
Worker == [at : {"begin", "play", "over"}, into : Endpoints]

EventsAreTyped == events \in Seq(Events)

----------------------------------------------------------------------------
(* Who is captured *)

\* The calls that have been up, and those that are over for good; before the first
\* call there is none.
WasUp ==
    {call \in 0..MaxCalls : call < line.call \/ (call = line.call /\ line.at # "ringing")}
Past ==
    {call \in 0..MaxCalls : call < line.call \/ (call = line.call /\ line.at = "over")}

NoCallIsPast == None \in Past

\* Whose audio is adopted, and into what is announced, has been up.
AdoptedWasUp ==
    /\ endpoint.call \in WasUp /\ mic.call \in WasUp /\ home.call \in WasUp
    /\ \A w \in 1..Len(workers) : workers[w].into.call \in WasUp

\* Outside of calls that began under the console its microphone is the one it came up with.
OutsideAtHome == ~ inCall => mic = home

\* An announcement that was played into a call that goes on was heard in it, or its player
\* failed.
Heard == heard \cup misplayed \cup Past
Announced(e) == e.kind = "announced" /\ e.ok

GateWasHeard ==
    /\ gateBy.call \in Heard
    /\ \A i \in 1..Len(events) : Announced(events[i]) => events[i].into.call \in Heard

----------------------------------------------------------------------------
(* Which transcribers run *)

\* The announcements that are being played, and those whose event waits to be drained.
Playing == {w \in 1..Len(workers) : workers[w] # Done}
Waiting == {i \in 1..Len(events) : Announced(events[i])}

\* Announcements do not overlap unless that is noted, ...
OneAnnouncement ==
    ~ doubled => /\ \A v, w \in Playing : v = w
                 /\ \A i, j \in Waiting : i = j
                 /\ Playing = {} \/ Waiting = {}

\* ... and nobody is captured while one is under way.
SilentWhileUnderWay ==
    (~ doubled /\ open /\ (Playing # {} \/ Waiting # {})) => farRef = None

----------------------------------------------------------------------------
(* What a quiet line leaves *)

NoneConnected(q) == \A i \in 1..Len(q) : q[i].kind # "connected"
EndsLast(q) ==
    \E i \in 1..Len(q) : /\ q[i].kind = "ended"
                         /\ \A j \in (i + 1)..Len(q) : q[j].kind # "connected"

\* When no call goes on, the console has been told so or will be: the last of the
\* signals and events that matter is an end.
TheEndIsTold ==
    line.at = "over" =>
        \/ EndsLast(signals)
        \/ /\ NoneConnected(signals)
           /\ \/ EndsLast(events)
              \/ NoneConnected(events) /\ mic = home /\ ~ inCall

IInv ==
    /\ TypeOK /\ EventsAreTyped
    /\ NoCallIsPast /\ AdoptedWasUp /\ OutsideAtHome /\ GateWasHeard /\ CapturedHasHeard
    /\ OneAnnouncement /\ SilentWhileUnderWay /\ FarIsKnown
    /\ TheEndIsTold

----------------------------------------------------------------------------
(* Lemmas about sequences *)

LEMMA TailEffect ==
    ASSUME NEW S, NEW q \in Seq(S), q # <<>>
    PROVE  /\ Len(q) \in Nat \ {0} /\ Head(q) = q[1] /\ q[1] \in S
           /\ Tail(q) \in Seq(S) /\ Len(Tail(q)) = Len(q) - 1
           /\ \A i \in 1..Len(Tail(q)) : Tail(q)[i] = q[i + 1] /\ i + 1 \in 1..Len(q)
  OBVIOUS

LEMMA AppendEffect ==
    ASSUME NEW S, NEW q \in Seq(S), NEW e \in S
    PROVE  /\ Append(q, e) \in Seq(S)
           /\ Len(q) \in Nat /\ Len(Append(q, e)) = Len(q) + 1
           /\ \A i \in 1..Len(q) : Append(q, e)[i] = q[i]
           /\ Append(q, e)[Len(q) + 1] = e
  OBVIOUS

LEMMA SeqFacts ==
    ASSUME NEW S, NEW q \in Seq(S)
    PROVE  /\ Len(q) \in Nat /\ DOMAIN q = 1..Len(q)
           /\ \A i \in 1..Len(q) : q[i] \in S
  OBVIOUS

\* A function on the positions of a sequence is a sequence of that length.
LEMMA MapIsSeq ==
    ASSUME NEW S, NEW n \in Nat, NEW q \in [1..n -> S]
    PROVE  /\ q \in Seq(S) /\ Len(q) = n
<1>1. q \in Seq(S)
  BY SeqDef
<1>2. QED
  BY <1>1, LenProperties

\* One element is replaced.
LEMMA ReplaceEffect ==
    ASSUME NEW S, NEW q \in Seq(S), NEW i \in DOMAIN q, NEW e \in S
    PROVE  /\ [q EXCEPT ![i] = e] \in Seq(S)
           /\ Len([q EXCEPT ![i] = e]) = Len(q)
           /\ \A j \in 1..Len(q) : [q EXCEPT ![i] = e][j] = IF j = i THEN e ELSE q[j]
<1>1. /\ Len(q) \in Nat /\ DOMAIN q = 1..Len(q)
      /\ [q EXCEPT ![i] = e] \in [1..Len(q) -> S]
  BY SeqFacts
<1>2. QED
  BY <1>1, MapIsSeq

----------------------------------------------------------------------------
(* Lemmas about the transcribers *)

LEMMA StoppedEffect ==
    ASSUME far \in Seq(Far), NEW f
    PROVE  /\ Stopped(f) \in Seq(Far) /\ Len(Stopped(f)) = Len(far)
           /\ \A g \in 1..Len(far) : Stopped(f)[g] = IF g = f THEN Stop ELSE far[g]
<1>1. Len(far) \in Nat /\ DOMAIN far = 1..Len(far) /\ \A g \in 1..Len(far) : far[g] \in Far
  BY SeqFacts
<1>2. Stop \in Far
  BY DEF Stop, Far, Local, Endpoints
<1>3. Stopped(f) \in [1..Len(far) -> Far]
  BY <1>1, <1>2 DEF Stopped
<1>4. QED
  BY <1>1, <1>3, MapIsSeq DEF Stopped

LEMMA ReroutedEffect ==
    ASSUME far \in Seq(Far), NEW call
    PROVE  /\ Rerouted(call) \in Seq(Far) /\ Len(Rerouted(call)) = Len(far)
           /\ \A g \in 1..Len(far) :
                 /\ Rerouted(call)[g].on = far[g].on /\ Rerouted(call)[g].by = far[g].by
                 /\ Rerouted(call)[g].source
                       = IF far[g].source = call THEN Default ELSE far[g].source
<1>1. Len(far) \in Nat /\ DOMAIN far = 1..Len(far) /\ \A g \in 1..Len(far) : far[g] \in Far
  BY SeqFacts
<1>2. \A g \in 1..Len(far) : [far[g] EXCEPT !.source = Default] \in Far
  BY <1>1 DEF Far
<1>3. Rerouted(call) \in [1..Len(far) -> Far]
  BY <1>1, <1>2 DEF Rerouted
<1>4. \A g \in 1..Len(far) :
         /\ Rerouted(call)[g].on = far[g].on /\ Rerouted(call)[g].by = far[g].by
         /\ Rerouted(call)[g].source
               = IF far[g].source = call THEN Default ELSE far[g].source
  BY <1>1 DEF Rerouted, Far
<1>5. QED
  BY <1>1, <1>3, <1>4, MapIsSeq

\* A transcriber is started.
LEMMA StartEffect ==
    ASSUME TypeOK, NEW by \in Endpoints \cup {Ungated}, StartFar(by)
    PROVE  /\ far' \in Seq(Far) /\ Len(far) \in Nat /\ Len(far') = Len(far) + 1
           /\ farRef' = Len(far) + 1
           /\ \A f \in 1..Len(far) : far'[f] = far[f]
           /\ far'[farRef'] = [on |-> TRUE, source |-> FarSource, by |-> by]
<1>1. far \in Seq(Far) /\ mic \in Endpoints /\ line.call \in 0..MaxCalls
  BY DEF TypeOK, Far
<1>2. FarSource \in Calls \cup {Monitor, Default}
  BY <1>1 DEF FarSource, Endpoints, Local
<1>3. [on |-> TRUE, source |-> FarSource, by |-> by] \in Far
  BY <1>2 DEF Far
<1> DEFINE new == [on |-> TRUE, source |-> FarSource, by |-> by]
<1>4. far' = Append(far, new) /\ farRef' = Len(far')
  BY DEF StartFar
<1> HIDE DEF new
<1>5. new \in Far
  BY <1>3 DEF new
<1>6. /\ far' \in Seq(Far) /\ Len(far) \in Nat /\ Len(far') = Len(far) + 1
      /\ \A f \in 1..Len(far) : far'[f] = far[f]
      /\ far'[Len(far) + 1] = new
  BY <1>1, <1>4, <1>5, AppendEffect
<1>7. QED
  BY <1>4, <1>6 DEF new

----------------------------------------------------------------------------
(* Types *)

LEMMA Typed ==
    ASSUME TypeOK, EventsAreTyped
    PROVE  /\ signals \in Seq(Signals) /\ events \in Seq(Events)
           /\ far \in Seq(Far) /\ workers \in Seq(Worker)
           /\ endpoint \in Endpoints /\ home \in Endpoints /\ mic \in Endpoints
           /\ gateBy \in Endpoints
           /\ line.call \in 0..MaxCalls /\ line.at \in {"over", "ringing", "up"}
           /\ farRef \in 0..Len(far)
<1>1. DOMAIN far = 1..Len(far) /\ Len(far) \in Nat
  BY SeqFacts DEF TypeOK
<1>2. QED
  BY <1>1 DEF TypeOK, EventsAreTyped, Signals, Far, Worker, None

\* A signal is handled, or one is sent.
LEMMA SignalTaken ==
    ASSUME TypeOK, EventsAreTyped, NEW kind, Handling(kind)
    PROVE  /\ signals' \in Seq(Signals) /\ Head(signals) \in Events
           /\ Head(signals).kind = kind /\ kind # "announced"
           /\ signals # <<>> /\ signals' = Tail(signals)
<1>1. signals \in Seq(Signals)
  BY Typed
<1>2. signals' \in Seq(Signals) /\ Head(signals) \in Signals
  BY <1>1, TailEffect DEF Handling
<1>3. QED
  BY <1>2 DEF Handling, Events, Signals

\* An event is handled.
LEMMA EventTaken ==
    ASSUME TypeOK, EventsAreTyped, NEW kind, Drain(kind)
    PROVE  /\ events' \in Seq(Events) /\ Head(events) \in Events /\ Head(events) = events[1]
           /\ Head(events).kind = kind /\ open /\ Len(events) \in Nat \ {0}
           /\ Len(events') = Len(events) - 1
           /\ \A i \in 1..Len(events') : events'[i] = events[i + 1] /\ i + 1 \in 1..Len(events)
           /\ events # <<>> /\ events' = Tail(events)
           /\ kind = "announced" => Head(events) \in Announcements
<1>1. events \in Seq(Events)
  BY Typed
<1>2. Drain(kind)
  OBVIOUS
<1>3. events # <<>> /\ events' = Tail(events) /\ open /\ Head(events).kind = kind
  BY <1>2 DEF Drain
<1>4. QED
  BY <1>1, <1>3, TailEffect DEF Events, Signals, Announcements

\* An event is queued.
LEMMA EventEmitted ==
    ASSUME TypeOK, EventsAreTyped, NEW e \in Events, Emit(e)
    PROVE  /\ events' \in Seq(Events) /\ Len(events) \in Nat
           /\ Len(events') = Len(events) + 1
           /\ \A i \in 1..Len(events) : events'[i] = events[i]
           /\ events'[Len(events) + 1] = e
<1>1. events \in Seq(Events)
  BY Typed
<1>2. QED
  BY <1>1, AppendEffect DEF Emit

\* A worker goes on to state s.
LEMMA WorkerGoesOn ==
    ASSUME TypeOK, EventsAreTyped, NEW w \in DOMAIN workers, NEW s \in Worker,
           workers' = [workers EXCEPT ![w] = s]
    PROVE  /\ workers' \in Seq(Worker) /\ Len(workers') = Len(workers)
           /\ w \in 1..Len(workers) /\ workers[w] \in Worker
           /\ \A v \in 1..Len(workers) : workers'[v] = IF v = w THEN s ELSE workers[v]
<1>1. workers \in Seq(Worker)
  BY Typed
<1>2. QED
  BY <1>1, ReplaceEffect, SeqFacts

LEMMA DoneIsWorker ==
    Done \in Worker /\ [at |-> "begin", into |-> Local] \in Worker
BY DEF Done, Worker, Local, Endpoints

\* An announcement is begun, in the mode m.
LEMMA AnnounceEffect ==
    ASSUME TypeOK, EventsAreTyped, NEW m \in Endpoints, Announce(m)
    PROVE  /\ workers' \in Seq(Worker) /\ Len(workers) \in Nat /\ doubled' \in BOOLEAN
           /\ \A w \in 1..Len(workers) : workers'[w] = workers[w]
           /\ \/ Len(workers') = Len(workers)
              \/ /\ Len(workers') = Len(workers) + 1
                 /\ workers'[Len(workers) + 1] = [at |-> "begin", into |-> Local]
                 /\ doubled' \/ ~ UnderWay
           /\ doubled => doubled'
<1>1. workers \in Seq(Worker)
  BY Typed
<1>2. [at |-> "begin", into |-> Local] \in Worker
  BY DoneIsWorker
<1>3. m.ear \in BOOLEAN
  <2>1. CASE m \in [call : Calls, ear : BOOLEAN]
    BY <2>1
  <2>2. CASE m = Local
    BY <2>2 DEF Local
  <2>3. QED
    BY <2>1, <2>2 DEF Endpoints
<1>3a. doubled \in BOOLEAN
  BY DEF TypeOK
<1>4. doubled' <=> (doubled \/ (m.ear /\ UnderWay))
  BY <1>3, <1>3a DEF Announce
<1>4a. doubled' \in BOOLEAN
  BY <1>3, <1>3a DEF Announce
<1>5. CASE m.ear
  <2> DEFINE new == [at |-> "begin", into |-> Local]
  <2>1. workers' = Append(workers, new)
    BY <1>5 DEF Announce
  <2> HIDE DEF new
  <2>2. new \in Worker
    BY <1>2 DEF new
  <2>3. /\ workers' \in Seq(Worker) /\ Len(workers) \in Nat
        /\ Len(workers') = Len(workers) + 1
        /\ \A w \in 1..Len(workers) : workers'[w] = workers[w]
        /\ workers'[Len(workers) + 1] = new
    BY <1>1, <2>1, <2>2, AppendEffect
  <2>4. QED
    BY <1>4, <1>4a, <1>5, <2>3 DEF new
<1>6. CASE ~ m.ear
  BY <1>1, <1>4, <1>4a, <1>6, SeqFacts DEF Announce
<1>7. QED
  BY <1>3, <1>5, <1>6

\* What TypeOK says of a variable, of its next value.
Typing ==
    /\ line \in [call : 0 .. MaxCalls, at : {"over", "ringing", "up"}]
    /\ {endpoint, home, mic} \subseteq Endpoints
    /\ {open, inCall, farAnnounced, armed, doubled} \subseteq BOOLEAN
    /\ trust \in TrustModes
    /\ keys \in 0 .. MaxKeys
    /\ heard \subseteq Calls /\ misplayed \subseteq Calls /\ failed \subseteq Calls
    /\ gateBy \in Endpoints

Queues ==
    /\ signals \in Seq(Signals) /\ events \in Seq(Events)
    /\ workers \in Seq(Worker)
    /\ far \in Seq(Far) /\ farRef \in 0..Len(far)

LEMMA TypedAsParts ==
    TypeOK /\ EventsAreTyped <=> Typing /\ Queues
<1>1. ASSUME TypeOK, EventsAreTyped
      PROVE  Typing /\ Queues
  BY <1>1, Typed DEF TypeOK, Typing, Queues
<1>2. ASSUME Typing, Queues
      PROVE  TypeOK /\ EventsAreTyped
  <2>1. /\ \A i \in DOMAIN events : events[i] \in Events
        /\ DOMAIN far = 1..Len(far) /\ Len(far) \in Nat
    BY <1>2, SeqFacts DEF Queues
  <2>2. QED
    BY <1>2, <2>1
    DEF Typing, Queues, TypeOK, EventsAreTyped, Signals, Far, Worker, Events, Announcements, None
<1>3. QED
  BY <1>1, <1>2

LEMMA TypeStep ==
    ASSUME TypeOK, EventsAreTyped, NoCallIsPast, [Next]_vars
    PROVE  TypeOK' /\ EventsAreTyped'
<1> USE BoundsAssumption
<1>1. Typing /\ Queues
  BY TypedAsParts
<1>2. Typing' /\ Queues' => TypeOK' /\ EventsAreTyped'
  BY TypedAsParts, PTL
<1> SUFFICES Typing' /\ Queues'
  BY <1>2
<1>3. Local \in Endpoints /\ \A call \in Calls, ear \in BOOLEAN :
         [call |-> call, ear |-> ear] \in Endpoints
  BY DEF Local, Endpoints
<1>4. line.call \in Nat /\ line.call <= MaxCalls
  BY <1>1 DEF Typing
<1>5. /\ line.at # "over" => line.call \in Calls
      /\ line.call < MaxCalls => line.call + 1 \in Calls
  BY <1>4 DEF NoCallIsPast, Past, None, Calls
<1>a. CASE Ring
  <2>1. [kind |-> "incoming", call |-> line.call + 1] \in Signals
    BY <1>4, <1>a DEF Ring, Signals, Calls
  <2>2. signals' \in Seq(Signals)
    BY <1>1, <1>a, <2>1, AppendEffect DEF Ring, Signal, Queues
  <2>3. line' \in [call : 0 .. MaxCalls, at : {"over", "ringing", "up"}]
    BY <1>4, <1>a DEF Ring
  <2>4. QED
    BY <1>1, <1>a, <2>2, <2>3 DEF Ring, Typing, Queues, console, audio, trustState, gate
<1>b. CASE Connect
  <2>1. /\ line' \in [call : 0 .. MaxCalls, at : {"over", "ringing", "up"}]
        /\ line'.call \in Calls
    BY <1>1, <1>4, <1>5, <1>b DEF Connect, Typing
  <2>2. [kind |-> "connected", call |-> line'.call] \in Signals
    BY <2>1 DEF Signals
  <2>3. signals' \in Seq(Signals)
    BY <1>1, <1>b, <2>2, AppendEffect DEF Connect, Signal, Queues
  <2>4. QED
    BY <1>1, <1>b, <2>1, <2>3 DEF Connect, Typing, Queues, console, audio, trustState, gate
<1>c. CASE LineEnds
  <2>1. line' \in [call : 0 .. MaxCalls, at : {"over", "ringing", "up"}]
    BY <1>1, <1>c DEF LineEnds, Typing
  <2>2. far' \in Seq(Far) /\ Len(far') = Len(far)
    BY <1>1, <1>c, ReroutedEffect DEF LineEnds, Queues
  <2>3. [kind |-> "ended", call |-> line.call] \in Signals
    BY <1>5, <1>c DEF LineEnds, Signals
  <2>4. signals' \in Seq(Signals)
    BY <1>1, <1>c, <2>3, AppendEffect DEF LineEnds, Signal, Queues
  <2>5. QED
    BY <1>1, <1>c, <2>1, <2>2, <2>4 DEF LineEnds, Typing, Queues, trustState, gate
<1>d. CASE OnIncoming
  <2>1. signals' \in Seq(Signals) /\ Head(signals) \in Events
    BY <1>d, SignalTaken DEF OnIncoming
  <2>2. events' \in Seq(Events)
    BY <1>d, <2>1, EventEmitted DEF OnIncoming
  <2>3. QED
    BY <1>1, <1>d, <2>1, <2>2
    DEF OnIncoming, Typing, Queues, console, audio, trustState, gate
<1>e. CASE OnConnected
  <2>1. signals' \in Seq(Signals) /\ Head(signals) \in Events
    BY <1>e, SignalTaken DEF OnConnected
  <2>2. events' \in Seq(Events)
    BY <1>e, <2>1, EventEmitted DEF OnConnected
  <2>3. UpCall # None => UpCall \in Calls
    BY <1>5 DEF UpCall
  <2>4. endpoint' \in Endpoints
    BY <1>1, <1>3, <1>e, <2>3 DEF OnConnected, Typing
  <2>5. QED
    BY <1>1, <1>e, <2>1, <2>2, <2>4
    DEF OnConnected, Typing, Queues, console, audio, trustState, gate
<1>f. CASE OnEnded
  <2>1. signals' \in Seq(Signals) /\ Head(signals) \in Events
    BY <1>f, SignalTaken DEF OnEnded
  <2>2. events' \in Seq(Events)
    BY <1>f, <2>1, EventEmitted DEF OnEnded
  <2>3. QED
    BY <1>1, <1>3, <1>f, <2>1, <2>2
    DEF OnEnded, Typing, Queues, console, audio, trustState, gate
<1>g. ASSUME NEW w \in DOMAIN workers, Play(w)
      PROVE  Typing' /\ Queues'
  <2>1. [at |-> "play", into |-> mic] \in Worker
    BY <1>1 DEF Worker, Typing
  <2>2. workers' \in Seq(Worker)
    BY <1>g, <2>1, WorkerGoesOn DEF Play
  <2>3. QED
    BY <1>1, <1>g, <2>2
    DEF Play, Typing, Queues, phone, console, audio, trustState, gate
<1>h. ASSUME NEW w \in DOMAIN workers, Played(w)
      PROVE  Typing' /\ Queues'
  <2>1. workers' \in Seq(Worker) /\ workers[w].into \in Endpoints
    BY <1>h, DoneIsWorker, WorkerGoesOn DEF Played, Worker
  <2>2. [kind |-> "announced", ok |-> TRUE, into |-> workers[w].into] \in Events
    BY <2>1 DEF Events, Announcements
  <2>3. events' \in Seq(Events)
    BY <1>h, <2>2, EventEmitted DEF Played
  <2>4. heard' \subseteq Calls /\ misplayed' \subseteq Calls
    BY <1>1, <1>h DEF Played, Typing, AtTheOtherEnd
  <2>5. QED
    BY <1>1, <1>h, <2>1, <2>3, <2>4
    DEF Played, Typing, Queues, phone, console, audio, trustState
<1>i. ASSUME NEW w \in DOMAIN workers, PlayFails(w)
      PROVE  Typing' /\ Queues'
  <2>1. workers' \in Seq(Worker) /\ workers[w].into \in Endpoints
    BY <1>i, DoneIsWorker, WorkerGoesOn DEF PlayFails, Worker
  <2>2. [kind |-> "announced", ok |-> FALSE, into |-> workers[w].into] \in Events
    BY <2>1 DEF Events, Announcements
  <2>3. events' \in Seq(Events)
    BY <1>i, <2>2, EventEmitted DEF PlayFails
  <2>4. failed' \subseteq Calls
    BY <1>1, <1>i DEF PlayFails, Typing
  <2>5. QED
    BY <1>1, <1>i, <2>1, <2>3, <2>4
    DEF PlayFails, Typing, Queues, phone, console, audio, trustState
<1>v. ASSUME NEW w \in DOMAIN workers, Overtaken(w)
      PROVE  Typing' /\ Queues'
  <2>1. workers' \in Seq(Worker)
    BY <1>v, DoneIsWorker, WorkerGoesOn DEF Overtaken
  <2>2. failed' \subseteq Calls
    BY <1>1, <1>v DEF Overtaken, Typing
  <2>3. QED
    BY <1>1, <1>v, <2>1, <2>2
    DEF Overtaken, Typing, Queues, phone, console, audio, trustState
<1>j. CASE DrainIncoming
  BY <1>1, <1>j, EventTaken
  DEF DrainIncoming, Typing, Queues, phone, console, audio, trustState, gate
<1>6. \A f : Stopped(f) \in Seq(Far) /\ Len(Stopped(f)) = Len(far) /\ Len(far) \in Nat
  BY <1>1, StoppedEffect, SeqFacts DEF Queues
<1>8. ASSUME NEW by \in Endpoints \cup {Ungated}, StartFar(by)
      PROVE  far' \in Seq(Far) /\ farRef' \in 0..Len(far')
  <2>1. far' \in Seq(Far) /\ Len(far) \in Nat /\ Len(far') = Len(far) + 1 /\ farRef' = Len(far) + 1
    BY <1>8, StartEffect
  <2>2. QED
    BY <2>1
<1>k. CASE DrainConnected
  <2>1. events' \in Seq(Events)
    BY <1>k, EventTaken DEF DrainConnected
  <2>2. far' \in Seq(Far) /\ farRef' \in 0..Len(far')
    BY <1>6, <1>k DEF DrainConnected, DropStaleFar, None
  <2>3. mic' \in Endpoints
    BY <1>1, <1>k DEF DrainConnected, Typing
  <2>4. workers' \in Seq(Worker) /\ doubled' \in BOOLEAN
    BY <1>k, <2>3, AnnounceEffect DEF DrainConnected
  <2>5. QED
    BY <1>1, <1>k, <2>1, <2>2, <2>3, <2>4
    DEF DrainConnected, Typing, Queues, phone, trustState
<1>l. CASE DrainEnded
  BY <1>1, <1>3, <1>l, EventTaken
  DEF DrainEnded, DetachCallAudio, Typing, Queues, phone, trustState, gate
<1>m. CASE DrainAnnounced
  <2>1. events' \in Seq(Events) /\ Head(events).into \in Endpoints
    BY <1>m, EventTaken DEF DrainAnnounced, Announcements
  <2>2. CASE Accepted
    <3>1. far' \in Seq(Far) /\ farRef' \in 0..Len(far')
      BY <1>8, <1>m, <2>1, <2>2 DEF DrainAnnounced
    <3>2. QED
      BY <1>1, <1>m, <2>1, <2>2, <3>1 DEF DrainAnnounced, Typing, Queues, phone, trustState
  <2>3. CASE ~ Accepted
    BY <1>1, <1>m, <2>1, <2>3 DEF DrainAnnounced, Typing, Queues, phone, trustState
  <2>4. QED
    BY <2>2, <2>3
<1>7. Press => keys' \in 0..MaxKeys
  BY <1>1 DEF Press, Typing
<1>n. CASE KeyFar
  <2>1. far' \in Seq(Far) /\ farRef' \in 0..Len(far')
    <3>1. CASE farRef # None
      BY <1>6, <1>n, <3>1 DEF KeyFar, None
    <3>2. CASE farRef = None /\ inCall /\ ~ farAnnounced
      BY <1>1, <1>n, <3>2 DEF KeyFar, Queues
    <3>3. CASE farRef = None /\ ~ (inCall /\ ~ farAnnounced)
      BY <1>1, <1>8, <1>n, <3>3 DEF KeyFar, Typing
    <3>4. QED
      BY <3>1, <3>2, <3>3
  <2>2. workers' \in Seq(Worker) /\ doubled' \in BOOLEAN
    <3>1. CASE farRef # None
      BY <1>1, <1>n, <3>1 DEF KeyFar, Typing, Queues
    <3>2. CASE farRef = None /\ inCall /\ ~ farAnnounced
      BY <1>1, <1>n, <3>2, AnnounceEffect DEF KeyFar, Typing
    <3>3. CASE farRef = None /\ ~ (inCall /\ ~ farAnnounced)
      BY <1>1, <1>n, <3>3 DEF KeyFar, Typing, Queues
    <3>4. QED
      BY <3>1, <3>2, <3>3
  <2>3. trust' \in TrustModes
    BY <1>1, <1>n DEF KeyFar, Typing, TrustModes
  <2>4. QED
    BY <1>1, <1>7, <1>n, <2>1, <2>2, <2>3 DEF KeyFar, Typing, Queues, phone
<1>o. CASE ArmTrust
  BY <1>1, <1>7, <1>o DEF ArmTrust, Typing, Queues, phone, audio, gate
<1>p. CASE KeyGrant
  <2>1. trust' \in TrustModes
    BY <1>1, <1>p DEF KeyGrant, Typing, TrustModes, GrantCycle
  <2>2. QED
    BY <1>1, <1>7, <1>p, <2>1 DEF KeyGrant, Typing, Queues, phone, audio, gate
<1>q. CASE Quit
  BY <1>1, <1>6, <1>q DEF Quit, Typing, Queues, phone, trustState, gate
<1>r. CASE UNCHANGED vars
  BY <1>1, <1>r DEF vars, Typing, Queues, phone, console, audio, trustState, gate
<1>s. QED
  BY <1>a, <1>b, <1>c, <1>d, <1>e, <1>f, <1>g, <1>h, <1>i, <1>j, <1>k, <1>l, <1>m, <1>n,
     <1>o, <1>p, <1>q, <1>r, <1>v
  DEF Next, Tincand, DBusThread, Announcer, UI, Operator

----------------------------------------------------------------------------
(* Who is captured *)

\* What has been up or is past stays so.
LEMMA PastIsPast ==
    ASSUME TypeOK, [Next]_vars
    PROVE  Past \subseteq Past' /\ WasUp \subseteq WasUp' /\ Heard \subseteq Heard'
<1>1. /\ line \in [call : 0 .. MaxCalls, at : {"over", "ringing", "up"}]
      /\ line.call \in Nat /\ 0..MaxCalls \subseteq Nat
  BY BoundsAssumption DEF TypeOK
<1>2. \/ Ring \/ Connect \/ LineEnds
      \/ line' = line
  BY DEF Next, Tincand, DBusThread, Announcer, UI, Operator, OnIncoming, OnConnected, OnEnded,
         Play, Played, PlayFails, Overtaken, DrainIncoming, DrainConnected, DrainEnded, DrainAnnounced,
         KeyFar, ArmTrust, KeyGrant, Quit, vars, phone
<1>3. Past \subseteq Past' /\ WasUp \subseteq WasUp'
  <2>1. CASE Ring
    BY <1>1, <2>1 DEF Ring, Past, WasUp
  <2>2. CASE Connect
    <3>1. CASE line.at = "ringing" /\ line' = [line EXCEPT !.at = "up"]
      BY <1>1, <3>1 DEF Past, WasUp
    <3>2. CASE line.at = "over" /\ line' = [call |-> line.call + 1, at |-> "up"]
      BY <1>1, <3>2 DEF Past, WasUp
    <3>3. QED
      BY <2>2, <3>1, <3>2 DEF Connect
  <2>3. CASE LineEnds
    BY <1>1, <2>3 DEF LineEnds, Past, WasUp
  <2>4. CASE line' = line
    BY <2>4 DEF Past, WasUp
  <2>5. QED
    BY <1>2, <2>1, <2>2, <2>3, <2>4
<1>4. heard \subseteq heard' /\ misplayed \subseteq misplayed'
  BY DEF Next, Tincand, DBusThread, Announcer, UI, Operator, OnIncoming, OnConnected, OnEnded,
         Play, Played, PlayFails, Overtaken, DrainIncoming, DrainConnected, DrainEnded, DrainAnnounced,
         KeyFar, ArmTrust, KeyGrant, Quit, vars, gate, Ring, Connect, LineEnds
<1>5. QED
  BY <1>3, <1>4 DEF Heard

\* Who hears the end of an announcement: whom it was played to, unless that call is
\* over by now.
LEMMA PlayedIsHeard ==
    ASSUME TypeOK, NoCallIsPast, NEW w \in DOMAIN workers, Played(w),
           workers[w].into \in Endpoints, workers[w].into.call \in WasUp
    PROVE  workers[w].into.call \in Heard'
<1> DEFINE call == workers[w].into.call
<1>1. /\ line.call \in Nat /\ line.at \in {"over", "ringing", "up"}
      /\ call \in Calls \cup {None} /\ 0..MaxCalls \subseteq Nat
  <2>1. call \in Calls \cup {None}
    BY DEF Endpoints, Local
  <2>2. QED
    BY <2>1, BoundsAssumption DEF TypeOK
<1>2. line' = line /\ {call} \cap {UpCall} \cap Calls \subseteq heard' \cup misplayed'
  BY DEF Played, phone, AtTheOtherEnd
<1>3. call \in WasUp /\ Past' = Past /\ None \in Past
  BY <1>2 DEF Past, NoCallIsPast
<1> HIDE DEF call
<1>4. CASE call = None
  BY <1>3, <1>4 DEF Heard, call
<1>5. CASE call = UpCall /\ call \in Calls
  BY <1>2, <1>5 DEF Heard, call
<1>6. CASE call # UpCall /\ call \in Calls
  <2>1. call \in Past
    BY <1>1, <1>3, <1>6 DEF Past, WasUp, UpCall
  <2>2. QED
    BY <1>3, <2>1 DEF Heard, call
<1>7. QED
  BY <1>1, <1>4, <1>5, <1>6

LEMMA AdoptedStep ==
    ASSUME TypeOK, EventsAreTyped, NoCallIsPast, AdoptedWasUp, [Next]_vars
    PROVE  AdoptedWasUp'
<1>1. Past \subseteq Past' /\ WasUp \subseteq WasUp'
  BY PastIsPast
<1>2. /\ mic.call \in WasUp' /\ endpoint.call \in WasUp' /\ home.call \in WasUp'
      /\ Local.call \in WasUp'
      /\ \A w \in 1..Len(workers) : workers[w].into.call \in WasUp'
  <2>1. Local.call \in WasUp
    BY DEF Local, NoCallIsPast, Past, WasUp, None
  <2>2. QED
    BY <1>1, <2>1 DEF AdoptedWasUp
<1>3. \A s : s \in Worker /\ s.into \in {Local, mic} => s.into.call \in WasUp'
  BY <1>2
<1>4. mic' \in {mic, endpoint, home} /\ mic' \in Endpoints /\ home' = home
  <2>1. mic' \in {mic, endpoint, home} /\ home' = home
    BY DEF Next, Tincand, DBusThread, Announcer, UI, Operator, OnIncoming, OnConnected, OnEnded,
           Play, Played, PlayFails, Overtaken, DrainIncoming, DrainConnected, DrainEnded, DrainAnnounced,
           KeyFar, ArmTrust, KeyGrant, Quit, vars, console, audio, Ring, Connect, LineEnds,
           DetachCallAudio, phone
  <2>2. QED
    BY <2>1, Typed DEF Endpoints
<1>5. \A w \in 1..Len(workers') : workers'[w].into.call \in WasUp'
  <2>1. CASE workers' = workers
    BY <1>2, <2>1
  <2>2. ASSUME NEW w \in DOMAIN workers, Play(w)
        PROVE  \A v \in 1..Len(workers') : workers'[v].into.call \in WasUp'
    <3>1. [at |-> "play", into |-> mic] \in Worker
      BY Typed DEF Worker
    <3>2. /\ Len(workers') = Len(workers)
          /\ \A v \in 1..Len(workers) :
                workers'[v] = IF v = w THEN [at |-> "play", into |-> mic] ELSE workers[v]
      BY <2>2, <3>1, WorkerGoesOn DEF Play
    <3>3. QED
      BY <1>2, <3>2
  <2>3. ASSUME NEW w \in DOMAIN workers, Played(w) \/ PlayFails(w) \/ Overtaken(w)
        PROVE  \A v \in 1..Len(workers') : workers'[v].into.call \in WasUp'
    <3>1. workers' = [workers EXCEPT ![w] = Done]
      BY <2>3 DEF Played, PlayFails, Overtaken
    <3>2. /\ Len(workers') = Len(workers)
          /\ \A v \in 1..Len(workers) : workers'[v] = IF v = w THEN Done ELSE workers[v]
      BY <3>1, DoneIsWorker, WorkerGoesOn
    <3>3. QED
      BY <1>2, <3>2 DEF Done
  <2>4. ASSUME NEW m \in Endpoints, Announce(m)
        PROVE  \A v \in 1..Len(workers') : workers'[v].into.call \in WasUp'
    <3>1. /\ Len(workers) \in Nat
          /\ \A w \in 1..Len(workers) : workers'[w] = workers[w]
          /\ \/ Len(workers') = Len(workers)
             \/ /\ Len(workers') = Len(workers) + 1
                /\ workers'[Len(workers) + 1] = [at |-> "begin", into |-> Local]
      BY <2>4, AnnounceEffect
    <3>2. QED
      BY <1>2, <3>1
  <2>5. \/ workers' = workers
        \/ Announce(mic) \/ Announce(mic')
        \/ \E w \in DOMAIN workers : Play(w) \/ Played(w) \/ PlayFails(w) \/ Overtaken(w)
    BY DEF Next, Tincand, DBusThread, Announcer, UI, Operator, OnIncoming, OnConnected, OnEnded,
           DrainIncoming, DrainConnected, DrainEnded, DrainAnnounced,
           KeyFar, ArmTrust, KeyGrant, Quit, vars, Ring, Connect, LineEnds
  <2>6. QED
    BY <1>4, <2>1, <2>2, <2>3, <2>4, <2>5, Typed
<1>6. endpoint'.call \in WasUp'
  <2>1. \/ endpoint' \in {endpoint, Local}
        \/ UpCall # None /\ line' = line /\ \E ear \in BOOLEAN : endpoint' = [call |-> UpCall, ear |-> ear]
    BY DEF Next, Tincand, DBusThread, Announcer, UI, Operator, OnIncoming, OnConnected, OnEnded,
           Play, Played, PlayFails, Overtaken, DrainIncoming, DrainConnected, DrainEnded, DrainAnnounced,
           KeyFar, ArmTrust, KeyGrant, Quit, vars, phone, Ring, Connect, LineEnds
  <2>2. UpCall # None => UpCall \in WasUp
    BY Typed, BoundsAssumption DEF UpCall, WasUp
  <2>3. QED
    BY <1>1, <1>2, <2>1, <2>2
<1>7. QED
  BY <1>2, <1>4, <1>5, <1>6 DEF AdoptedWasUp

LEMMA OutsideStep ==
    ASSUME OutsideAtHome, [Next]_vars
    PROVE  OutsideAtHome'
<1>1. CASE inCall' = inCall /\ mic' = mic /\ home' = home
  BY <1>1 DEF OutsideAtHome
<1>2. CASE DrainConnected \/ DrainEnded
  BY <1>2 DEF DrainConnected, DrainEnded, DetachCallAudio, phone, OutsideAtHome
<1>3. QED
  BY <1>1, <1>2
  DEF Next, Tincand, DBusThread, Announcer, UI, Operator, OnIncoming, OnConnected, OnEnded,
      Play, Played, PlayFails, Overtaken, DrainIncoming, DrainAnnounced,
      KeyFar, ArmTrust, KeyGrant, Quit, vars, phone, console, audio, Ring, Connect, LineEnds

LEMMA GateStep ==
    ASSUME TypeOK, EventsAreTyped, NoCallIsPast, AdoptedWasUp, GateWasHeard, [Next]_vars
    PROVE  NoCallIsPast' /\ GateWasHeard'
<1>1. Past \subseteq Past' /\ Heard \subseteq Heard'
  BY PastIsPast
<1>2. /\ gateBy.call \in Heard'
      /\ \A i \in 1..Len(events) : Announced(events[i]) => events[i].into.call \in Heard'
  BY <1>1 DEF GateWasHeard
<1>3. gateBy'.call \in Heard'
  <2>1. \/ gateBy' = gateBy
        \/ Drain("announced") /\ Accepted /\ gateBy' = Head(events).into
    BY DEF Next, Tincand, DBusThread, Announcer, UI, Operator, OnIncoming, OnConnected, OnEnded,
           Play, Played, PlayFails, Overtaken, DrainIncoming, DrainConnected, DrainEnded, DrainAnnounced,
           KeyFar, ArmTrust, KeyGrant, Quit, vars, gate, Ring, Connect, LineEnds
  <2>2. Drain("announced") =>
            Len(events) \in Nat \ {0} /\ Head(events) = events[1]
            /\ Head(events).kind = "announced"
    BY EventTaken
  <2>3. QED
    BY <1>2, <2>1, <2>2 DEF Accepted, Announced
<1>4. \A i \in 1..Len(events') : Announced(events'[i]) => events'[i].into.call \in Heard'
  <2>1. CASE events' = events
    BY <1>2, <2>1
  <2>2. ASSUME NEW kind, Drain(kind)
        PROVE  \A i \in 1..Len(events') : Announced(events'[i]) => events'[i].into.call \in Heard'
    <3>1. \A i \in 1..Len(events') : events'[i] = events[i + 1] /\ i + 1 \in 1..Len(events)
      BY <2>2, EventTaken
    <3>2. QED
      BY <1>2, <3>1
  <2>3. ASSUME NEW e \in Events, Emit(e), Announced(e) => e.into.call \in Heard'
        PROVE  \A i \in 1..Len(events') : Announced(events'[i]) => events'[i].into.call \in Heard'
    <3>1. /\ Len(events) \in Nat /\ Len(events') = Len(events) + 1
          /\ \A i \in 1..Len(events) : events'[i] = events[i]
          /\ events'[Len(events) + 1] = e
      BY <2>3, EventEmitted
    <3>2. QED
      BY <1>2, <2>3, <3>1
  <2>4. ASSUME NEW kind, Handling(kind), Emit(Head(signals))
        PROVE  \A i \in 1..Len(events') : Announced(events'[i]) => events'[i].into.call \in Heard'
    <3>1. Head(signals) \in Events /\ ~ Announced(Head(signals))
      BY <2>4, SignalTaken DEF Announced
    <3>2. QED
      BY <2>3, <2>4, <3>1
  <2>5. ASSUME NEW w \in DOMAIN workers, Played(w)
        PROVE  \A i \in 1..Len(events') : Announced(events'[i]) => events'[i].into.call \in Heard'
    <3> DEFINE e == [kind |-> "announced", ok |-> TRUE, into |-> workers[w].into]
    <3>1. w \in 1..Len(workers) /\ workers[w] \in Worker
      BY Typed, SeqFacts
    <3>2. workers[w].into \in Endpoints /\ workers[w].into.call \in WasUp
      BY <3>1 DEF Worker, AdoptedWasUp
    <3>3. workers[w].into.call \in Heard'
      BY <2>5, <3>2, PlayedIsHeard
    <3>4. e \in Events /\ Emit(e) /\ e.into.call \in Heard'
      BY <2>5, <3>2, <3>3 DEF Events, Announcements, Played
    <3> HIDE DEF e
    <3>5. QED
      BY <2>3, <3>4
  <2>6. ASSUME NEW w \in DOMAIN workers, PlayFails(w)
        PROVE  \A i \in 1..Len(events') : Announced(events'[i]) => events'[i].into.call \in Heard'
    <3> DEFINE e == [kind |-> "announced", ok |-> FALSE, into |-> workers[w].into]
    <3>1. w \in 1..Len(workers) /\ workers[w] \in Worker
      BY Typed, SeqFacts
    <3>2. e \in Events /\ Emit(e) /\ ~ Announced(e)
      BY <2>6, <3>1 DEF Events, Announcements, PlayFails, Announced, Worker
    <3> HIDE DEF e
    <3>3. QED
      BY <2>3, <3>2
  <2>7. QED
    BY <2>1, <2>2, <2>4, <2>5, <2>6
    DEF Next, Tincand, DBusThread, Announcer, UI, Operator, OnIncoming, OnConnected, OnEnded,
        Play, Overtaken, DrainIncoming, DrainConnected, DrainEnded, DrainAnnounced,
        KeyFar, ArmTrust, KeyGrant, Quit, vars, Ring, Connect, LineEnds
<1>5. NoCallIsPast'
  BY <1>1 DEF NoCallIsPast, None
<1>6. QED
  BY <1>3, <1>4, <1>5 DEF GateWasHeard

\* Somebody is captured by a transcriber that ran before, or that is started behind a
\* gate that has been opened.
LEMMA CapturedStep ==
    ASSUME TypeOK, EventsAreTyped, NoCallIsPast, OutsideAtHome, GateWasHeard,
           CapturedHasHeard, [Next]_vars
    PROVE  CapturedHasHeard'
<1>1. far \in Seq(Far) /\ Len(far) \in Nat /\ DOMAIN far = 1..Len(far)
  BY Typed, SeqFacts
<1>2. heard \subseteq heard' /\ misplayed \subseteq misplayed' /\ home' = home
  BY DEF Next, Tincand, DBusThread, Announcer, UI, Operator, OnIncoming, OnConnected, OnEnded,
         Play, Played, PlayFails, Overtaken, DrainIncoming, DrainConnected, DrainEnded, DrainAnnounced,
         KeyFar, ArmTrust, KeyGrant, Quit, vars, phone, gate, Ring, Connect, LineEnds
<1> DEFINE Excused(source, by) == \/ source \in heard' \cup misplayed'
                                  \/ by \in Endpoints /\ by.call # source
                                  \/ by = Ungated /\ home'.call = source
<1>3. \A f \in 1..Len(far) :
          far[f].on /\ far[f].source \in Calls => Excused(far[f].source, far[f].by)
  BY <1>1, <1>2 DEF CapturedHasHeard, Running
<1>4. Monitor \notin Calls /\ Default \notin Calls
  BY SourcesAssumption DEF Calls
<1>5. SUFFICES \A f \in 1..Len(far') :
          far'[f].on /\ far'[f].source \in Calls => Excused(far'[f].source, far'[f].by)
  <2>1. far' \in Seq(Far)
    BY TypeStep DEF TypeOK, Far
  <2>2. DOMAIN far' = 1..Len(far')
    BY <2>1, SeqFacts
  <2>3. QED
    BY <2>2 DEF CapturedHasHeard, Running
<1> HIDE DEF Excused
<1>a. CASE far' = far
  BY <1>3, <1>a
<1>b. CASE far' = Rerouted(line.call)
  <2>1. /\ Len(far') = Len(far)
        /\ \A g \in 1..Len(far) :
              /\ far'[g].on = far[g].on /\ far'[g].by = far[g].by
              /\ far'[g].source = IF far[g].source = line.call THEN Default ELSE far[g].source
    BY <1>1, <1>b, ReroutedEffect
  <2>2. QED
    BY <1>3, <1>4, <2>1
<1>c. CASE far' = Stopped(farRef)
  <2>1. /\ Len(far') = Len(far)
        /\ \A g \in 1..Len(far) : far'[g] = IF g = farRef THEN Stop ELSE far[g]
    BY <1>1, <1>c, StoppedEffect
  <2>2. QED
    BY <1>3, <2>1 DEF Stop
<1>d. ASSUME NEW by \in Endpoints \cup {Ungated}, StartFar(by),
             FarSource \in Calls => Excused(FarSource, by)
      PROVE  \A f \in 1..Len(far') :
                 far'[f].on /\ far'[f].source \in Calls => Excused(far'[f].source, far'[f].by)
  <2>1. /\ Len(far') = Len(far) + 1 /\ farRef' = Len(far) + 1
        /\ \A f \in 1..Len(far) : far'[f] = far[f]
        /\ far'[farRef'] = [on |-> TRUE, source |-> FarSource, by |-> by]
    BY <1>d, StartEffect
  <2>2. QED
    BY <1>1, <1>3, <1>d, <2>1
\* The gate was opened by an announcement that was heard, or to a call that is over, ...
<1>e. ASSUME NEW by \in Endpoints, by.call \in Heard, FarSource \in Calls
      PROVE  Excused(FarSource, by)
  <2>1. Up(FarSource)
    BY <1>4, <1>e DEF FarSource
  <2>2. FarSource \notin Past
    BY <2>1, Typed, BoundsAssumption DEF Past, Up
  <2>3. QED
    BY <1>2, <1>e, <2>2 DEF Heard, Excused
\* ... and without a gate there is only the call of the console's own endpoint.
<1>f. ASSUME ~ inCall, FarSource \in Calls
      PROVE  Excused(FarSource, Ungated)
  <2>1. FarSource = mic.call
    BY <1>4, <1>f DEF FarSource
  <2>2. QED
    BY <1>2, <1>f, <2>1 DEF OutsideAtHome, Excused
<1>6. Drain("announced") /\ Accepted =>
          Head(events).into \in Endpoints /\ Head(events).into.call \in Heard
  <2>1. SUFFICES ASSUME Drain("announced"), Accepted
                 PROVE  Head(events).into \in Endpoints /\ Head(events).into.call \in Heard
    OBVIOUS
  <2>2. /\ Head(events) \in Announcements /\ Head(events) = events[1]
        /\ Len(events) \in Nat \ {0}
    BY <2>1, EventTaken
  <2>3. QED
    BY <2>1, <2>2 DEF Announcements, Announced, Accepted, GateWasHeard
<1>7. gateBy \in Endpoints /\ gateBy.call \in Heard
  BY Typed DEF GateWasHeard
<1>8. \/ far' = far \/ far' = Rerouted(line.call) \/ far' = Stopped(farRef)
      \/ StartFar(gateBy)
      \/ ~ inCall /\ StartFar(Ungated)
      \/ Drain("announced") /\ Accepted /\ StartFar(Head(events).into)
  BY DEF Next, Tincand, DBusThread, Announcer, UI, Operator, OnIncoming, OnConnected, OnEnded,
         Play, Played, PlayFails, Overtaken, DrainIncoming, DrainConnected, DrainEnded, DrainAnnounced,
         KeyFar, ArmTrust, KeyGrant, Quit, vars, console, audio, Ring, Connect, LineEnds,
         DropStaleFar
<1>9. QED
  BY <1>6, <1>7, <1>8, <1>a, <1>b, <1>c, <1>d, <1>e, <1>f

----------------------------------------------------------------------------
(* Which transcribers run *)

LEMMA WhatIsUnderWay ==
    ASSUME TypeOK, EventsAreTyped
    PROVE  UnderWay <=> Playing # {} \/ Waiting # {}
<1>1. DOMAIN workers = 1..Len(workers) /\ DOMAIN events = 1..Len(events)
  BY Typed, SeqFacts
<1>2. QED
  BY <1>1 DEF UnderWay, Announced, Playing, Waiting

\* An event is handled: those that wait move up.
LEMMA WaitingMovesUp ==
    ASSUME TypeOK, EventsAreTyped, NEW kind, Drain(kind)
    PROVE  /\ Len(events) \in Nat \ {0}
           /\ \A i \in Waiting' : i \in Nat \ {0} /\ i + 1 \in Waiting
           /\ 1 \in Waiting <=> Announced(Head(events))
<1>1. /\ Len(events) \in Nat \ {0} /\ Head(events) = events[1]
      /\ Len(events') = Len(events) - 1
      /\ \A i \in 1..Len(events') : events'[i] = events[i + 1] /\ i + 1 \in 1..Len(events)
  BY EventTaken
<1>2. QED
  BY <1>1 DEF Waiting

\* An event is queued.
LEMMA WaitingGrows ==
    ASSUME TypeOK, EventsAreTyped, NEW e \in Events, Emit(e)
    PROVE  Waiting' = IF Announced(e) THEN Waiting \cup {Len(events) + 1} ELSE Waiting
<1>1. /\ Len(events) \in Nat /\ Len(events') = Len(events) + 1
      /\ \A i \in 1..Len(events) : events'[i] = events[i]
      /\ events'[Len(events) + 1] = e
  BY EventEmitted
<1>2. 1..Len(events') = 1..Len(events) \cup {Len(events) + 1}
  BY <1>1
<1>3. Len(events) + 1 \notin 1..Len(events)
  BY <1>1
<1>4. \A i \in 1..Len(events') :
          i \in Waiting' <=> i \in Waiting \/ (i = Len(events) + 1 /\ Announced(e))
  BY <1>1, <1>2, <1>3 DEF Waiting
<1>5. Waiting \subseteq 1..Len(events) /\ Waiting' \subseteq 1..Len(events')
  BY DEF Waiting
<1>6. QED
  BY <1>2, <1>4, <1>5

LEMMA SignalWaits ==
    ASSUME TypeOK, EventsAreTyped, NEW kind, Handling(kind), Emit(Head(signals))
    PROVE  Waiting' = Waiting
<1>1. Head(signals) \in Events /\ ~ Announced(Head(signals))
  BY SignalTaken DEF Announced
<1>2. QED
  BY <1>1, WaitingGrows

\* A worker plays, or is done.
LEMMA PlayingGoesOn ==
    ASSUME TypeOK, EventsAreTyped, NEW w \in DOMAIN workers
    PROVE  /\ Play(w) => Playing' = Playing /\ Waiting' = Waiting
           /\ Played(w) => /\ w \in Playing /\ Playing' = Playing \ {w}
                           /\ Waiting' = Waiting \cup {Len(events) + 1}
           /\ PlayFails(w) \/ Overtaken(w) => /\ w \in Playing /\ Playing' = Playing \ {w}
                                              /\ Waiting' = Waiting
<1>1. w \in 1..Len(workers) /\ workers[w] \in Worker
  BY Typed, SeqFacts
<1>2. ASSUME Play(w)
      PROVE  Playing' = Playing /\ Waiting' = Waiting
  <2> DEFINE new == [at |-> "play", into |-> mic]
  <2>1. new \in Worker /\ new # Done
    BY Typed DEF Worker, Done
  <2>2. workers[w] # Done /\ workers' = [workers EXCEPT ![w] = new] /\ events' = events
    BY <1>2 DEF Play, Done
  <2> HIDE DEF new
  <2>3. /\ Len(workers') = Len(workers)
        /\ \A v \in 1..Len(workers) : workers'[v] = IF v = w THEN new ELSE workers[v]
    BY <2>1, <2>2, WorkerGoesOn
  <2>4. QED
    BY <2>1, <2>2, <2>3 DEF Playing, Waiting
<1>3. ASSUME Played(w) \/ PlayFails(w) \/ Overtaken(w)
      PROVE  w \in Playing /\ Playing' = Playing \ {w}
  <2>1. workers[w] # Done /\ workers' = [workers EXCEPT ![w] = Done]
    BY <1>3 DEF Played, PlayFails, Overtaken, Done
  <2>2. /\ Len(workers') = Len(workers)
        /\ \A v \in 1..Len(workers) : workers'[v] = IF v = w THEN Done ELSE workers[v]
    BY <2>1, DoneIsWorker, WorkerGoesOn
  <2>3. QED
    BY <1>1, <2>1, <2>2 DEF Playing
<1>4. ASSUME NEW ok \in BOOLEAN, Emit([kind |-> "announced", ok |-> ok, into |-> workers[w].into])
      PROVE  Waiting' = IF ok THEN Waiting \cup {Len(events) + 1} ELSE Waiting
  <2> DEFINE e == [kind |-> "announced", ok |-> ok, into |-> workers[w].into]
  <2>1. e \in Events /\ Emit(e) /\ (Announced(e) <=> ok)
    BY <1>1, <1>4 DEF Worker, Events, Announcements, Announced
  <2> HIDE DEF e
  <2>2. QED
    BY <2>1, WaitingGrows
<1>5. Overtaken(w) => Waiting' = Waiting
  BY DEF Overtaken, Waiting
<1>6. QED
  BY <1>2, <1>3, <1>4, <1>5 DEF Played, PlayFails

\* An announcement is begun.
LEMMA AnnouncePlays ==
    ASSUME TypeOK, EventsAreTyped, NEW m \in Endpoints, Announce(m)
    PROVE  /\ doubled => doubled'
           /\ \/ Playing' = Playing
              \/ /\ Playing' = Playing \cup {Len(workers) + 1}
                 /\ doubled' \/ (Playing = {} /\ Waiting = {})
<1>1. /\ Len(workers) \in Nat
      /\ \A w \in 1..Len(workers) : workers'[w] = workers[w]
      /\ doubled => doubled'
      /\ \/ Len(workers') = Len(workers)
         \/ /\ Len(workers') = Len(workers) + 1
            /\ workers'[Len(workers) + 1] = [at |-> "begin", into |-> Local]
            /\ doubled' \/ ~ UnderWay
  BY AnnounceEffect
<1>2. CASE Len(workers') = Len(workers)
  BY <1>1, <1>2 DEF Playing
<1>3. CASE /\ Len(workers') = Len(workers) + 1
           /\ workers'[Len(workers) + 1] = [at |-> "begin", into |-> Local]
           /\ doubled' \/ ~ UnderWay
  <2>1. /\ 1..Len(workers') = 1..Len(workers) \cup {Len(workers) + 1}
        /\ workers'[Len(workers) + 1] # Done
    BY <1>1, <1>3 DEF Done
  <2>2. Playing' = Playing \cup {Len(workers) + 1}
    BY <1>1, <2>1 DEF Playing
  <2>3. QED
    BY <1>1, <1>3, <2>2, WhatIsUnderWay
<1>4. QED
  BY <1>1, <1>2, <1>3

\* What the queue and the workers do in a step, and what is noted of it.
LEMMA AnnouncementStep ==
    ASSUME TypeOK, EventsAreTyped, OneAnnouncement, SilentWhileUnderWay, [Next]_vars
    PROVE  OneAnnouncement' /\ SilentWhileUnderWay'
<1> DEFINE MovesUp == \A i \in Waiting' : i \in Nat \ {0} /\ i + 1 \in Waiting
<1>1. \A i, j \in Nat : i + 1 = j + 1 => i = j
  OBVIOUS
<1>2. \A kind : Drain(kind) => MovesUp
  BY WaitingMovesUp
\* Nothing is added and no transcriber is started,
<1>3. ASSUME doubled => doubled', open' => open, farRef' \in {farRef, None},
             Playing' \subseteq Playing, Waiting' = Waiting \/ MovesUp
      PROVE  OneAnnouncement' /\ SilentWhileUnderWay'
  BY <1>1, <1>3 DEF OneAnnouncement, SilentWhileUnderWay
\* ... or a worker's announcement becomes an event,
<1>4. ASSUME NEW w \in DOMAIN workers, Played(w)
      PROVE  OneAnnouncement' /\ SilentWhileUnderWay'
  <2>1. /\ doubled' = doubled /\ open' = open /\ farRef' = farRef
        /\ w \in Playing /\ Playing' = Playing \ {w}
        /\ Waiting' = Waiting \cup {Len(events) + 1}
    BY <1>4, PlayingGoesOn DEF Played, console, audio
  <2>2. QED
    BY <2>1 DEF OneAnnouncement, SilentWhileUnderWay
\* ... or an announcement is begun,
<1>5. ASSUME NEW m \in Endpoints, Announce(m), farRef' = None, Waiting' = Waiting \/ MovesUp
      PROVE  OneAnnouncement' /\ SilentWhileUnderWay'
  <2>1. CASE Playing' = Playing
    <3>1. Playing' = Playing /\ (doubled => doubled')
      BY <1>5, <2>1, AnnouncePlays
    <3>2. QED
      BY <1>1, <1>5, <3>1 DEF OneAnnouncement, SilentWhileUnderWay
  <2>2. CASE /\ Playing' = Playing \cup {Len(workers) + 1}
             /\ doubled' \/ (Playing = {} /\ Waiting = {})
    <3>1. doubled' \/ (Waiting' = {} /\ Playing' = {Len(workers) + 1})
      BY <1>5, <2>2
    <3>2. QED
      BY <1>5, <3>1 DEF OneAnnouncement, SilentWhileUnderWay
  <2>3. QED
    BY <1>5, <2>1, <2>2, AnnouncePlays
\* ... or a transcriber is started by the operator, ...
<1>6. ASSUME Playing' = Playing, Waiting' = Waiting, doubled' <=> (doubled \/ UnderWay)
      PROVE  OneAnnouncement' /\ SilentWhileUnderWay'
  <2>1. doubled' <=> (doubled \/ Playing # {} \/ Waiting # {})
    BY <1>6, WhatIsUnderWay
  <2>2. QED
    BY <1>6, <2>1 DEF OneAnnouncement, SilentWhileUnderWay
\* ... or by the only announcement there was.
<1>7. ASSUME Drain("announced"), Accepted, Playing' = Playing, doubled' = doubled
      PROVE  OneAnnouncement' /\ SilentWhileUnderWay'
  <2>1. 1 \in Waiting /\ MovesUp
    <3>1. Head(events).kind = "announced" /\ Head(events).ok
      BY <1>7 DEF Drain, Accepted
    <3>2. QED
      BY <1>2, <1>7, <3>1, WaitingMovesUp DEF Announced
  <2>2. ~ doubled => Waiting' = {} /\ Playing' = {}
    <3>1. SUFFICES ASSUME ~ doubled
                   PROVE  Waiting' = {} /\ Playing' = {}
      OBVIOUS
    <3>2. Playing = {} /\ \A i \in Waiting : i = 1
      BY <2>1, <3>1 DEF OneAnnouncement
    <3>3. QED
      BY <1>7, <2>1, <3>2
  <2>3. QED
    BY <1>7, <2>2 DEF OneAnnouncement, SilentWhileUnderWay
<1> HIDE DEF MovesUp
<1>a. CASE Ring \/ Connect \/ LineEnds \/ UNCHANGED vars
  <2>1. /\ doubled' = doubled /\ open' = open /\ farRef' = farRef
        /\ workers' = workers /\ events' = events
    BY <1>a DEF Ring, Connect, LineEnds, vars, console, audio, gate
  <2>2. QED
    BY <1>3, <2>1 DEF Playing, Waiting
<1>b. CASE DBusThread
  <2>1. /\ doubled' = doubled /\ open' = open /\ farRef' = farRef /\ workers' = workers
        /\ \E kind : Handling(kind) /\ Emit(Head(signals))
    BY <1>b DEF DBusThread, OnIncoming, OnConnected, OnEnded, console, audio, gate
  <2>2. Waiting' = Waiting /\ Playing' = Playing
    BY <2>1, SignalWaits DEF Playing
  <2>3. QED
    BY <1>3, <2>1, <2>2
<1>c. ASSUME NEW w \in DOMAIN workers, Announcer(w)
      PROVE  OneAnnouncement' /\ SilentWhileUnderWay'
  <2>1. CASE Played(w)
    BY <1>4, <2>1
  <2>2. CASE Play(w) \/ PlayFails(w) \/ Overtaken(w)
    <3>1. doubled' = doubled /\ open' = open /\ farRef' = farRef
      BY <2>2 DEF Play, PlayFails, Overtaken, console, audio, gate
    <3>2. Playing' \subseteq Playing /\ Waiting' = Waiting
      BY <2>2, PlayingGoesOn
    <3>3. QED
      BY <1>3, <3>1, <3>2
  <2>3. QED
    BY <1>c, <2>1, <2>2 DEF Announcer
<1>d. CASE DrainIncoming \/ DrainEnded \/ (DrainAnnounced /\ ~ Accepted)
  <2>1. /\ doubled' = doubled /\ open' = open /\ farRef' = farRef /\ workers' = workers
        /\ \E kind : Drain(kind)
    BY <1>d DEF DrainIncoming, DrainEnded, DrainAnnounced, console, audio, gate
  <2>2. MovesUp /\ Playing' = Playing
    BY <1>2, <2>1 DEF Playing
  <2>3. QED
    BY <1>3, <2>1, <2>2
<1>e. CASE DrainConnected
  <2>1. Announce(mic') /\ farRef' = None /\ Drain("connected") /\ mic' \in {mic, endpoint}
    BY <1>e DEF DrainConnected, DropStaleFar
  <2>2. mic' \in Endpoints
    BY <2>1, Typed
  <2>3. QED
    BY <1>2, <1>5, <2>1, <2>2
<1>f. CASE DrainAnnounced /\ Accepted
  <2>1. Drain("announced") /\ Accepted /\ Playing' = Playing /\ doubled' = doubled
    BY <1>f DEF DrainAnnounced, Playing
  <2>2. QED
    BY <1>7, <2>1
<1>g. CASE KeyFar
  <2>0. open' = open /\ events' = events
    BY <1>g DEF KeyFar
  <2>1. CASE farRef # None
    <3>1. farRef' = None /\ workers' = workers /\ doubled' = doubled
      BY <1>g, <2>1 DEF KeyFar
    <3>2. QED
      BY <1>3, <2>0, <3>1 DEF Playing, Waiting
  <2>2. CASE farRef = None /\ inCall /\ ~ farAnnounced
    <3>1. farRef' = None /\ Announce(mic) /\ mic \in Endpoints
      BY <1>g, <2>2, Typed DEF KeyFar
    <3>2. QED
      BY <1>5, <2>0, <3>1 DEF Waiting
  <2>3. CASE farRef = None /\ ~ (inCall /\ ~ farAnnounced)
    <3>1. workers' = workers /\ doubled' = (doubled \/ UnderWay)
      BY <1>g, <2>3 DEF KeyFar
    <3>2. QED
      BY <1>6, <2>0, <3>1 DEF Playing, Waiting
  <2>4. QED
    BY <2>1, <2>2, <2>3
<1>h. CASE ArmTrust \/ KeyGrant \/ Quit
  <2>1. /\ doubled' = doubled /\ (open' => open) /\ farRef' = farRef
        /\ workers' = workers /\ events' = events
    BY <1>h DEF ArmTrust, KeyGrant, Quit, audio, gate
  <2>2. QED
    BY <1>3, <2>1 DEF Playing, Waiting
<1>8. QED
  BY <1>a, <1>b, <1>c, <1>d, <1>e, <1>f, <1>g, <1>h DEF Next, Tincand, UI, Operator

LEMMA KnownStep ==
    ASSUME TypeOK, EventsAreTyped, NoCallIsPast, SilentWhileUnderWay, FarIsKnown, [Next]_vars
    PROVE  FarIsKnown'
<1>1. far \in Seq(Far) /\ Len(far) \in Nat /\ DOMAIN far = 1..Len(far) /\ farRef \in 0..Len(far)
  BY Typed, SeqFacts
<1>2. DOMAIN far' = 1..Len(far')
  <2>1. far' \in Seq(Far)
    BY TypeStep DEF TypeOK, Far
  <2>2. QED
    BY <2>1, SeqFacts
<1>3. doubled => doubled'
  <2>1. \A m \in Endpoints : Announce(m) => (doubled => doubled')
    BY AnnouncePlays
  <2>2. mic \in Endpoints /\ (DrainConnected => mic' \in Endpoints)
    BY Typed DEF DrainConnected
  <2>3. \/ doubled' = doubled \/ doubled' = (doubled \/ UnderWay)
        \/ Announce(mic) \/ (DrainConnected /\ Announce(mic'))
    BY DEF Next, Tincand, DBusThread, Announcer, UI, Operator, OnIncoming, OnConnected, OnEnded,
           Play, Played, PlayFails, Overtaken, DrainIncoming, DrainConnected, DrainEnded, DrainAnnounced,
           KeyFar, ArmTrust, KeyGrant, Quit, vars, gate, Ring, Connect, LineEnds
  <2>4. QED
    BY <2>1, <2>2, <2>3
<1> SUFFICES ASSUME ~ doubled'
             PROVE  \A f \in 1..Len(far') : far'[f].on => f = farRef' /\ open'
  BY <1>2 DEF FarIsKnown, Running
<1>4. \A f \in 1..Len(far) : far[f].on => f = farRef /\ open
  BY <1>1, <1>3 DEF FarIsKnown, Running
<1>5. ASSUME NEW by \in Endpoints \cup {Ungated}, StartFar(by), open', farRef = None
      PROVE  \A f \in 1..Len(far') : far'[f].on => f = farRef' /\ open'
  <2>1. /\ Len(far') = Len(far) + 1 /\ farRef' = Len(far) + 1
        /\ \A f \in 1..Len(far) : far'[f] = far[f]
    BY <1>5, StartEffect
  <2>2. QED
    BY <1>1, <1>4, <1>5, <2>1 DEF None
<1>6. ASSUME far' = Stopped(farRef)
      PROVE  \A f \in 1..Len(far') : far'[f].on => f = farRef' /\ open'
  <2>1. /\ Len(far') = Len(far)
        /\ \A g \in 1..Len(far) : far'[g] = IF g = farRef THEN Stop ELSE far[g]
    BY <1>1, <1>6, StoppedEffect
  <2>2. QED
    BY <1>4, <2>1 DEF Stop
<1>a. CASE far' = far /\ farRef' = farRef /\ open' = open
  BY <1>4, <1>a
<1>b. CASE LineEnds
  <2>1. /\ Len(far') = Len(far) /\ farRef' = farRef /\ open' = open
        /\ \A g \in 1..Len(far) : far'[g].on = far[g].on
    BY <1>1, <1>b, ReroutedEffect DEF LineEnds
  <2>2. QED
    BY <1>4, <2>1
<1>c. CASE DrainAnnounced /\ Accepted
  <2>1. Drain("announced") /\ Accepted /\ StartFar(Head(events).into) /\ doubled' = doubled
        /\ open' = open
    BY <1>c DEF DrainAnnounced
  <2>2. /\ open /\ Head(events) \in Announcements
        /\ 1 \in Waiting
    BY <2>1, EventTaken, WaitingMovesUp DEF Announced, Accepted
  <2>3. farRef = None
    BY <2>1, <2>2 DEF SilentWhileUnderWay
  <2>4. Head(events).into \in Endpoints
    BY <2>2 DEF Announcements
  <2>5. QED
    BY <1>5, <2>1, <2>2, <2>3, <2>4
<1>d. CASE KeyFar
  <2>1. CASE farRef # None
    BY <1>6, <1>d, <2>1 DEF KeyFar
  <2>2. CASE farRef = None /\ inCall /\ ~ farAnnounced
    BY <1>a, <1>d, <2>2 DEF KeyFar
  <2>3. CASE farRef = None /\ ~ (inCall /\ ~ farAnnounced)
    <3>1. (StartFar(gateBy) \/ StartFar(Ungated)) /\ open' /\ gateBy \in Endpoints
      BY <1>d, <2>3, Typed DEF KeyFar, Press
    <3>2. QED
      BY <1>5, <2>3, <3>1
  <2>4. QED
    BY <2>1, <2>2, <2>3
<1>e. CASE DrainConnected \/ Quit
  BY <1>6, <1>e DEF DrainConnected, DropStaleFar, Quit
<1>7. QED
  BY <1>a, <1>b, <1>c, <1>d, <1>e
  DEF Next, Tincand, DBusThread, Announcer, UI, Operator, OnIncoming, OnConnected, OnEnded,
      Play, Played, PlayFails, Overtaken, DrainIncoming, DrainEnded, DrainAnnounced,
      ArmTrust, KeyGrant, vars, console, audio, Ring, Connect

----------------------------------------------------------------------------
(* What a quiet line leaves *)

\* An end stays the last of what matters in a queue until it is handled.
LEMMA HandledInOrder ==
    ASSUME NEW S, NEW q \in Seq(S), q # <<>>
    PROVE  /\ NoneConnected(q) => NoneConnected(Tail(q)) /\ Head(q).kind # "connected"
           /\ EndsLast(q) => \/ EndsLast(Tail(q))
                             \/ Head(q).kind = "ended" /\ NoneConnected(Tail(q))
<1> DEFINE p == Tail(q)
<1>1. /\ Len(q) \in Nat \ {0} /\ Head(q) = q[1] /\ Len(p) = Len(q) - 1
      /\ \A i \in 1..Len(p) : p[i] = q[i + 1] /\ i + 1 \in 1..Len(q)
  BY TailEffect
<1> HIDE DEF p
<1>2. NoneConnected(q) => NoneConnected(p) /\ Head(q).kind # "connected"
  BY <1>1 DEF NoneConnected
<1>3. ASSUME NEW i \in 1..Len(q), q[i].kind = "ended",
             \A j \in (i + 1)..Len(q) : q[j].kind # "connected"
      PROVE  EndsLast(p) \/ (Head(q).kind = "ended" /\ NoneConnected(p))
  <2>1. CASE i = 1
    <3>1. \A j \in 1..Len(p) : p[j].kind # "connected"
      BY <1>1, <1>3, <2>1
    <3>2. QED
      BY <1>1, <1>3, <2>1, <3>1 DEF NoneConnected
  <2>2. CASE i # 1
    <3>1. i - 1 \in 1..Len(p) /\ p[i - 1] = q[i]
      BY <1>1, <2>2
    <3>2. \A j \in ((i - 1) + 1)..Len(p) : p[j] = q[j + 1] /\ j + 1 \in (i + 1)..Len(q)
      BY <1>1, <2>2
    <3>3. QED
      BY <1>3, <3>1, <3>2 DEF EndsLast
  <2>3. QED
    BY <2>1, <2>2
<1>4. QED
  BY <1>2, <1>3 DEF EndsLast, p

LEMMA QueuedInOrder ==
    ASSUME NEW S, NEW q \in Seq(S), NEW e \in S
    PROVE  /\ e.kind # "connected" /\ NoneConnected(q) => NoneConnected(Append(q, e))
           /\ e.kind # "connected" /\ EndsLast(q) => EndsLast(Append(q, e))
           /\ e.kind = "ended" => EndsLast(Append(q, e))
<1> DEFINE p == Append(q, e)
<1>1. /\ Len(q) \in Nat /\ Len(p) = Len(q) + 1
      /\ \A i \in 1..Len(q) : p[i] = q[i]
      /\ p[Len(q) + 1] = e
  BY AppendEffect
<1> HIDE DEF p
<1>2. ASSUME e.kind # "connected", NoneConnected(q)
      PROVE  NoneConnected(p)
  BY <1>1, <1>2 DEF NoneConnected
<1>3. ASSUME e.kind # "connected", NEW i \in 1..Len(q), q[i].kind = "ended",
             \A j \in (i + 1)..Len(q) : q[j].kind # "connected"
      PROVE  EndsLast(p)
  <2>1. i \in 1..Len(p) /\ p[i].kind = "ended"
    BY <1>1, <1>3
  <2>2. \A j \in (i + 1)..Len(p) : p[j].kind # "connected"
    BY <1>1, <1>3
  <2>3. QED
    BY <2>1, <2>2 DEF EndsLast
<1>4. ASSUME e.kind = "ended"
      PROVE  EndsLast(p)
  <2>1. /\ Len(p) \in 1..Len(p) /\ p[Len(p)].kind = "ended"
        /\ \A j \in (Len(p) + 1)..Len(p) : p[j].kind # "connected"
    BY <1>1, <1>4
  <2>2. QED
    BY <2>1 DEF EndsLast
<1>5. QED
  BY <1>2, <1>3, <1>4 DEF EndsLast, p

LEMMA EndStep ==
    ASSUME TypeOK, EventsAreTyped, NoCallIsPast, TheEndIsTold, [Next]_vars
    PROVE  TheEndIsTold'
<1>0. signals \in Seq(Signals) /\ events \in Seq(Events)
  BY Typed
<1>h. home' = home
  BY DEF Next, Tincand, DBusThread, Announcer, UI, Operator, OnIncoming, OnConnected, OnEnded,
         Play, Played, PlayFails, Overtaken, DrainIncoming, DrainConnected, DrainEnded,
         DrainAnnounced, KeyFar, ArmTrust, KeyGrant, Quit, vars, phone, Ring, Connect, LineEnds
<1> SUFFICES ASSUME line'.at = "over"
             PROVE  \/ EndsLast(signals')
                    \/ /\ NoneConnected(signals')
                       /\ \/ EndsLast(events')
                          \/ NoneConnected(events') /\ mic' = home /\ ~ inCall'
  BY <1>h DEF TheEndIsTold, EndsLast, NoneConnected
<1> DEFINE Goal == \/ EndsLast(signals')
                   \/ /\ NoneConnected(signals')
                      /\ \/ EndsLast(events')
                         \/ NoneConnected(events') /\ mic' = home /\ ~ inCall'
           Was == \/ EndsLast(signals)
                  \/ /\ NoneConnected(signals)
                     /\ \/ EndsLast(events)
                        \/ NoneConnected(events) /\ mic = home /\ ~ inCall
<1>1. line.at = "over" => Was
  BY DEF TheEndIsTold
<1>a. CASE Ring \/ Connect
  <2>1. line \in [call : 0 .. MaxCalls, at : {"over", "ringing", "up"}]
    BY DEF TypeOK
  <2>2. line'.at # "over"
    BY <1>a, <2>1 DEF Ring, Connect
  <2>3. QED
    BY <2>2
<1>b. CASE LineEnds
  <2> DEFINE e == [kind |-> "ended", call |-> line.call]
  <2>1. line.call \in Calls
    BY <1>b, Typed, BoundsAssumption DEF LineEnds, NoCallIsPast, Past, None, Calls
  <2>2. e \in Signals /\ e.kind = "ended" /\ signals' = Append(signals, e)
    BY <1>b, <2>1 DEF LineEnds, Signal, Signals
  <2> HIDE DEF e
  <2>3. EndsLast(signals')
    BY <1>0, <2>2, QueuedInOrder
  <2>4. QED
    BY <2>3
\* The other steps leave the line alone.
<1>2. CASE line' = line
  <2>0. Was
    BY <1>1, <1>2
  <2>1. ASSUME NEW kind, Handling(kind), Emit(Head(signals)), mic' = mic, inCall' = inCall
        PROVE  Goal
    <3>1. /\ Head(signals) \in Events /\ signals # <<>> /\ signals' = Tail(signals)
          /\ events' = Append(events, Head(signals))
      BY <2>1, SignalTaken DEF Emit
    <3>2. /\ NoneConnected(signals) =>
                NoneConnected(signals') /\ Head(signals).kind # "connected"
          /\ EndsLast(signals) =>
                \/ EndsLast(signals')
                \/ Head(signals).kind = "ended" /\ NoneConnected(signals')
      BY <1>0, <3>1, HandledInOrder
    <3>3. /\ Head(signals).kind # "connected" /\ NoneConnected(events) => NoneConnected(events')
          /\ Head(signals).kind # "connected" /\ EndsLast(events) => EndsLast(events')
          /\ Head(signals).kind = "ended" => EndsLast(events')
      BY <1>0, <3>1, QueuedInOrder
    <3>4. QED
      BY <2>0, <2>1, <3>2, <3>3
  <2>2. ASSUME NEW e \in Announcements, Emit(e), signals' = signals, mic' = mic, inCall' = inCall
        PROVE  Goal
    <3>1. e \in Events /\ e.kind # "connected" /\ events' = Append(events, e)
      BY <2>2 DEF Events, Announcements, Emit
    <3>2. /\ NoneConnected(events) => NoneConnected(events')
          /\ EndsLast(events) => EndsLast(events')
      BY <1>0, <3>1, QueuedInOrder
    <3>3. QED
      BY <2>0, <2>2, <3>2
  <2>3. ASSUME NEW kind, Drain(kind), signals' = signals,
               kind \notin {"connected", "ended"} => mic' = mic /\ inCall' = inCall,
               kind = "ended" => mic' = home /\ ~ inCall'
        PROVE  Goal
    <3>1. events # <<>> /\ events' = Tail(events) /\ Head(events).kind = kind
      BY <2>3, EventTaken
    <3>2. /\ NoneConnected(events) => NoneConnected(events') /\ kind # "connected"
          /\ EndsLast(events) => EndsLast(events') \/ (kind = "ended" /\ NoneConnected(events'))
      BY <1>0, <3>1, HandledInOrder
    <3>3. QED
      BY <2>0, <2>3, <3>2
  <2>4. CASE DBusThread
    <3>1. \E kind : Handling(kind) /\ Emit(Head(signals)) /\ mic' = mic /\ inCall' = inCall
      BY <2>4 DEF DBusThread, OnIncoming, OnConnected, OnEnded, console, audio
    <3>2. QED
      BY <2>1, <3>1
  <2>5. ASSUME NEW w \in DOMAIN workers, Played(w) \/ PlayFails(w)
        PROVE  Goal
    <3>0. workers[w] \in Worker
      BY Typed, SeqFacts
    <3>1. workers[w].into \in Endpoints
      BY <3>0 DEF Worker
    <3>2. \E ok \in BOOLEAN : Emit([kind |-> "announced", ok |-> ok, into |-> workers[w].into])
      BY <2>5 DEF Played, PlayFails
    <3>3. \E e \in Announcements : Emit(e)
      BY <3>1, <3>2 DEF Announcements
    <3>4. signals' = signals /\ mic' = mic /\ inCall' = inCall
      BY <2>5 DEF Played, PlayFails, phone, console, audio
    <3>5. QED
      BY <2>2, <3>3, <3>4
  <2>6. CASE DrainIncoming \/ DrainConnected \/ DrainEnded \/ DrainAnnounced
    <3>1. /\ signals' = signals
          /\ \E kind : /\ Drain(kind)
                       /\ kind \notin {"connected", "ended"} => mic' = mic /\ inCall' = inCall
                       /\ kind = "ended" => mic' = home /\ ~ inCall'
      BY <2>6
      DEF DrainIncoming, DrainConnected, DrainEnded, DrainAnnounced, DetachCallAudio, phone,
          console, audio
    <3>2. QED
      BY <2>3, <3>1
  <2>7. CASE signals' = signals /\ events' = events /\ mic' = mic /\ inCall' = inCall
    BY <2>0, <2>7
  <2>8. CASE UNCHANGED vars \/ Operator \/ \E w \in DOMAIN workers : Play(w) \/ Overtaken(w)
    BY <2>7, <2>8
    DEF vars, Operator, Play, Overtaken, KeyFar, ArmTrust, KeyGrant, Quit, phone, console, audio
  <2>9. CASE Ring \/ Connect \/ LineEnds
    BY <1>a, <1>b, <2>9
  <2>10. QED
    BY <2>4, <2>5, <2>6, <2>8, <2>9 DEF Next, Tincand, Announcer, UI
<1>3. \/ Ring \/ Connect \/ LineEnds
      \/ line' = line
  BY DEF Next, Tincand, DBusThread, Announcer, UI, Operator, OnIncoming, OnConnected, OnEnded,
         Play, Played, PlayFails, Overtaken, DrainIncoming, DrainConnected, DrainEnded, DrainAnnounced,
         KeyFar, ArmTrust, KeyGrant, Quit, vars, phone
<1>4. QED
  BY <1>2, <1>3, <1>a, <1>b

----------------------------------------------------------------------------
(* The theorems *)

LEMMA IInvInit == Init => IInv
<1> SUFFICES ASSUME Init
             PROVE  IInv
  OBVIOUS
<1>1. TypeOK /\ EventsAreTyped
  <2>1. Queues
    BY DEF Init, Queues, None
  <2>2. Typing
    <3>1. /\ 0 \in 0..MaxCalls /\ 0 \in 0..MaxKeys
          /\ Local \in Endpoints /\ "none" \in TrustModes
      BY BoundsAssumption DEF Endpoints, TrustModes
    <3>2. {open, inCall, farAnnounced, armed, doubled} \subseteq BOOLEAN
      BY DEF Init
    <3>3. line \in [call : 0 .. MaxCalls, at : {"over", "ringing", "up"}]
      BY BoundsAssumption DEF Init
    <3>4. home \in Endpoints
      <4>1. MaxCalls > 0 => 1 \in Calls
        BY BoundsAssumption DEF Calls
      <4>2. QED
        BY <3>1, <4>1 DEF Init, Endpoints
    <3>5. QED
      BY <3>1, <3>2, <3>3, <3>4 DEF Init, Typing
  <2>3. QED
    BY <2>1, <2>2, TypedAsParts
<1>2. /\ 0 \in 0..MaxCalls
      /\ \/ line = [call |-> 0, at |-> "over"]
         \/ line = [call |-> 1, at |-> "up"] /\ 1 \in 0..MaxCalls
  BY BoundsAssumption DEF Init
<1>3. NoCallIsPast /\ 0 \in WasUp /\ 0 \in Heard
  BY <1>2 DEF NoCallIsPast, Past, WasUp, Heard, None
<1>4. Len(workers) = 0 /\ Len(events) = 0 /\ Len(signals) = 0 /\ DOMAIN far = {}
  BY DEF Init
<1>5. AdoptedWasUp /\ OutsideAtHome /\ GateWasHeard
  <2>1. home.call \in WasUp /\ mic = home
    <3>1. home = Local \/ (line = [call |-> 1, at |-> "up"] /\ home \in [call : {1}, ear : BOOLEAN])
      BY DEF Init
    <3>2. line = [call |-> 1, at |-> "up"] => 1 \in WasUp
      BY <1>2 DEF WasUp
    <3>3. QED
      BY <1>3, <3>1, <3>2 DEF Init, Local, None
  <2>2. QED
    BY <1>3, <1>4, <2>1 DEF Init, AdoptedWasUp, OutsideAtHome, GateWasHeard, Local, None
<1>6. CapturedHasHeard /\ FarIsKnown
  BY <1>4 DEF CapturedHasHeard, FarIsKnown, Running
<1>7. OneAnnouncement /\ SilentWhileUnderWay
  BY <1>4 DEF OneAnnouncement, SilentWhileUnderWay, Playing, Waiting
<1>8. TheEndIsTold
  BY <1>4 DEF Init, TheEndIsTold, NoneConnected
<1>9. QED
  BY <1>1, <1>3, <1>5, <1>6, <1>7, <1>8 DEF IInv

\* What the proofs rest on holds in every state.
THEOREM IInvSpec == Spec => []IInv
<1>1. Init => IInv
  BY IInvInit
<1>2. IInv /\ [Next]_vars => IInv'
  BY TypeStep, AdoptedStep, OutsideStep, GateStep, CapturedStep, AnnouncementStep, KnownStep, EndStep
  DEF IInv
<1>3. QED
  BY <1>1, <1>2, PTL DEF Spec

\* Every variable has its type, the queues and the transcribers of any length.
THEOREM TypeCorrect == Spec => []TypeOK
<1>1. IInv => TypeOK
  BY DEF IInv
<1>2. QED
  BY <1>1, IInvSpec, PTL

\* However signals, events, announcements and keys interleave over any number of calls,
\* nobody is captured in a call without having heard an announcement in it, except in the
\* three cases that CapturedHasHeard names: the player of one failed and was taken to have
\* played, the gate was opened by an announcement played elsewhere, or the console was
\* started in the middle of this very call, on its nodes.
THEOREM Captured == Spec => []CapturedHasHeard
<1>1. IInv => CapturedHasHeard
  BY DEF IInv
<1>2. QED
  BY <1>1, IInvSpec, PTL

\* No transcriber runs that the console does not know, unless announcements overlapped,
\* and a line that is quiet has left the console on the endpoint it came up with.
THEOREM NothingOutlives == Spec => []NothingOutlivesTheCall
<1>1. TheEndIsTold => QuietIsLocal
  <2>1. SUFFICES ASSUME TheEndIsTold, line.at = "over", signals = <<>>, events = <<>>
                 PROVE  mic = home /\ ~ inCall
    BY DEF QuietIsLocal, Quiet
  <2>2. ~ EndsLast(signals) /\ ~ EndsLast(events)
    BY <2>1 DEF EndsLast
  <2>3. QED
    BY <2>1, <2>2 DEF TheEndIsTold
<1>2. IInv => NothingOutlivesTheCall
  BY <1>1 DEF IInv, NothingOutlivesTheCall
<1>3. QED
  BY <1>2, IInvSpec, PTL

----------------------------------------------------------------------------
(* Cards: the call cards that the console shows with a daemon.              *)

\* Events of, and messages about, a fact or an action item.
FindKinds == {"fact", "action_item"}
DecisionKinds == {"confirm", "dismiss", "override"}

\* What is recorded, or on its way to be, the operator has answered in that call, and only
\* the party of the call on the line is captured.
AnswersArePressed ==
    /\ \A c \in P!Calls : recorded[c] \in P!Answers => recorded[c] \in pressed[c]
    /\ \A i \in DOMAIN wire : wire[i].kind \in pressed[wire[i].of]
    /\ \A i \in DOMAIN posted :
          posted[i].kind \in P!Answers => posted[i].kind \in pressed[posted[i].of]
    /\ farOn => active # P!None /\ "disclosed" \in pressed[active]
    /\ active # P!None => onLine # P!None

\* The events that tell of a fact or an item, and the messages that decide it.
EventsOf(f) == {i \in DOMAIN queue : queue[i].kind \in FindKinds /\ queue[i].of = f}
DecisionsOn(f) == {i \in DOMAIN posted : posted[i].kind \in DecisionKinds /\ posted[i].of = f}

\* It is found once, and in one place at a time: in an event, on the panel, in a message,
\* in the store, or lost on the way when the console was closed.
FoundOnce(f) ==
    /\ \A i, j \in EventsOf(f) : i = j
    /\ EventsOf(f) # {} => feed[f].at = "none"
    /\ (EventsOf(f) # {} \/ feed[f].at # "none") =>
          row[f].is = "open" /\ row[f].call # P!None /\ DecisionsOn(f) = {}
    /\ row[f].call = P!None => row[f].is = "open"

\* It is decided once, in the words that the operator agreed to last.
DecidedOnce(f) ==
    /\ \A i, j \in DecisionsOn(f) : i = j
    /\ \A i \in DecisionsOn(f) :
          /\ row[f].is = "open" /\ row[f].call # P!None
          /\ agreed[f] =
                [is |-> IF posted[i].kind = "dismiss" THEN "dismissed" ELSE "confirmed",
                 text |-> posted[i].as.text, due |-> posted[i].as.due]
          /\ posted[i].kind = "confirm" => posted[i].as = P!NotEdited
    /\ row[f].is = "open" => row[f].text = "said" /\ row[f].due = "said"

\* What was shown and is not on the panel any more is decided, or about to be.
ShownIsThere(f) ==
    f \in shown => feed[f].at # "none" \/ row[f].is # "open" \/ DecisionsOn(f) # {}

IsKept(f) ==
    row[f].is = "confirmed" =>
        /\ agreed[f].is = "confirmed"
        /\ row[f].text = agreed[f].text
        /\ agreed[f].due # "" => row[f].due = agreed[f].due

FindIsSound(f) == FoundOnce(f) /\ DecidedOnce(f) /\ ShownIsThere(f) /\ IsKept(f)

\* The inductive invariant.
CardsInv ==
    /\ P!TypeOK
    /\ AnswersArePressed
    /\ \A f \in P!Finds : FindIsSound(f)


----------------------------------------------------------------------------
(* Queues.                                                                  *)

\* What is in a queue, when something is taken from it or added.
LEMMA TailElements ==
    ASSUME NEW S, NEW s \in Seq(S), s # <<>>
    PROVE  /\ Head(s) \in S /\ Tail(s) \in Seq(S)
           /\ 1 \in DOMAIN s /\ Head(s) = s[1]
           /\ \A i \in DOMAIN Tail(s) : /\ i + 1 \in DOMAIN s /\ Tail(s)[i] = s[i + 1]
                                        /\ i + 1 # 1 /\ i \in Nat
           /\ \A j \in DOMAIN s : j # 1 => \E i \in DOMAIN Tail(s) : j = i + 1
<1>1. Len(s) \in Nat /\ Len(s) >= 1 /\ Len(Tail(s)) = Len(s) - 1
  OBVIOUS
<1>2. Head(s) \in S /\ Tail(s) \in Seq(S) /\ Head(s) = s[1]
  OBVIOUS
<1>3. DOMAIN s = 1 .. Len(s) /\ DOMAIN Tail(s) = 1 .. (Len(s) - 1)
  BY <1>1, <1>2
<1>4. \A i \in 1 .. (Len(s) - 1) : /\ i + 1 \in 1 .. Len(s) /\ Tail(s)[i] = s[i + 1]
                                  /\ i + 1 # 1 /\ i \in Nat
  BY <1>1
<1>5. \A j \in 1 .. Len(s) : j # 1 => j - 1 \in 1 .. (Len(s) - 1) /\ j = (j - 1) + 1
  BY <1>1
<1>6. \A j \in DOMAIN s : j # 1 => \E i \in DOMAIN Tail(s) : j = i + 1
  <2> SUFFICES ASSUME NEW j \in DOMAIN s, j # 1
               PROVE  \E i \in DOMAIN Tail(s) : j = i + 1
    OBVIOUS
  <2>1. j - 1 \in DOMAIN Tail(s) /\ j = (j - 1) + 1
    BY <1>3, <1>5
  <2>2. QED
    BY <2>1
<1>7. 1 \in DOMAIN s
  BY <1>1, <1>3
<1>8. QED
  BY <1>2, <1>3, <1>4, <1>6, <1>7

LEMMA AppendElements ==
    ASSUME NEW S, NEW s \in Seq(S), NEW e \in S
    PROVE  /\ Append(s, e) \in Seq(S)
           /\ Len(s) + 1 \in DOMAIN Append(s, e) /\ Append(s, e)[Len(s) + 1] = e
           /\ \A i \in DOMAIN s : i \in DOMAIN Append(s, e) /\ Append(s, e)[i] = s[i]
           /\ \A i \in DOMAIN Append(s, e) : i \in DOMAIN s \/ i = Len(s) + 1
           /\ Len(s) + 1 \notin DOMAIN s
<1>1. Len(s) \in Nat /\ DOMAIN s = 1 .. Len(s) /\ DOMAIN Append(s, e) = 1 .. (Len(s) + 1)
  OBVIOUS
<1>2. Append(s, e) \in Seq(S) /\ Append(s, e)[Len(s) + 1] = e
  OBVIOUS
<1>3. \A i \in 1 .. Len(s) : Append(s, e)[i] = s[i]
  OBVIOUS
<1>4. QED
  BY <1>1, <1>2, <1>3

LEMMA AppendTwo ==
    ASSUME NEW S, NEW s \in Seq(S), NEW d \in S, NEW e \in S
    PROVE  s \o <<d, e>> = Append(Append(s, d), e)
OBVIOUS

----------------------------------------------------------------------------
(* The types, in parts.                                                     *)

Commands == [kind : P!Answers, of : P!Calls]

LineTypes ==
    /\ calls \in 0 .. MaxCalls /\ onLine \in {P!None, calls} /\ active \in {P!None, calls}
    /\ daemonUp \in BOOLEAN /\ farOn \in BOOLEAN /\ link \in BOOLEAN /\ riding \in BOOLEAN
    /\ faults \in 0 .. MaxFaults

StoreTypes ==
    /\ recorded \in [P!Calls -> {"none", "pending"} \cup P!Answers]
    /\ row \in [P!Finds -> [call : 0 .. MaxCalls, text : P!Texts, due : P!Texts, is : P!Decisions]]

QueueTypes == wire \in Seq(Commands) /\ queue \in Seq(P!Events) /\ posted \in Seq(P!Messages)

ScreenTypes ==
    /\ mode \in {"proxy", "direct", "closed"}
    /\ panelCall \in 0 .. MaxCalls
    /\ disclosure \in [P!Calls -> {"none", "expanded"} \cup P!Answers]
    /\ feed \in [P!Finds -> [at : {"none", "shown", "edit"}, text : P!Texts, due : P!Texts]]
    /\ disk \in [P!Calls -> {"none"} \cup P!Answers]
    /\ waiting \in 0 .. MaxCalls

HistoryTypes ==
    /\ pressed \in [P!Calls -> SUBSET P!Answers] /\ untold \subseteq P!Calls
    /\ agreed \in [P!Finds -> [is : P!Decisions, text : P!Texts, due : P!Texts]]
    /\ shown \subseteq P!Finds

LEMMA TypesOfParts ==
    /\ P!TypeOK => LineTypes /\ StoreTypes /\ QueueTypes /\ ScreenTypes /\ HistoryTypes
    /\ LineTypes' /\ StoreTypes' /\ QueueTypes' /\ ScreenTypes' /\ HistoryTypes' => P!TypeOK'
BY DEF P!TypeOK, LineTypes, StoreTypes, QueueTypes, ScreenTypes, HistoryTypes, Commands

\* Events and messages are of calls, or of facts and items.
LEMMA EventTypes ==
    /\ \A c \in P!Calls, k \in {"started", "disclosure_needed", "far_lost", "ended"} :
          /\ [kind |-> k, of |-> c] \in P!Events
          /\ [kind |-> k, of |-> c].kind \notin FindKinds
    /\ \A f \in P!Finds, k \in FindKinds : [kind |-> k, of |-> f] \in P!Events
    /\ [kind |-> "disconnected", of |-> P!None] \in P!Events
    /\ \A e \in P!Events : /\ e.kind \in {"started", "disclosure_needed"} => e.of \in P!Calls
                           /\ e.kind \in FindKinds => e.of \in P!Finds
BY DEF P!Events, FindKinds

LEMMA MessageTypes ==
    /\ \A c \in P!Calls, k \in P!Answers : [kind |-> k, of |-> c] \in P!Messages
    /\ \A f \in P!Finds, k \in DecisionKinds, e \in P!Edits :
          [kind |-> k, of |-> f, as |-> e] \in P!Messages
    /\ \A m \in P!Messages :
          /\ m.kind \in P!Answers \cup DecisionKinds
          /\ m.kind \in P!Answers => m.of \in P!Calls
          /\ m.kind \in DecisionKinds => m.of \in P!Finds /\ m.as \in P!Edits
    /\ P!Answers \cap DecisionKinds = {} /\ P!Answers \cap {"none", "pending"} = {}
BY DEF P!Messages, P!Answers, DecisionKinds

LEMMA EditTypes ==
    /\ P!NotEdited \in P!Edits
    /\ \A e \in P!Edits : e.text \in P!Texts /\ e.due \in P!Texts
    /\ \A e \in P!Edits, a \in {"none", "shown", "edit"} :
          /\ P!Card(a, e) \in [at : {"none", "shown", "edit"}, text : P!Texts, due : P!Texts]
          /\ P!Card(a, e).at = a
    /\ P!NotEdited.text = "said" /\ P!NotEdited.due = "said"
BY DEF P!NotEdited, P!Edits, P!Texts, P!Card

----------------------------------------------------------------------------
(* The steps.                                                               *)

Ends ==
    P!Close \/ P!StoreFails \/ \E c \in P!Calls, answer \in P!Answers : P!SaveFails(c, answer)

LEMMA NextSteps ==
    ASSUME [P!Next]_P!vars
    PROVE  \/ UNCHANGED P!vars
           \/ P!CallConnected \/ P!FarLost \/ P!CallEnded \/ P!HandleCommand \/ P!HandlerFails
           \/ P!DaemonDies \/ P!DaemonStarts
           \/ \E f \in P!Finds : P!Found(f) \/ P!Keys(f)
           \/ P!Drain \/ \E c \in P!Calls, answer \in P!Answers : P!Answer(c, answer)
           \/ P!SendAnswer \/ P!StoreDecision \/ P!AckTimesOut
           \/ Ends \/ P!Open
BY Zenon DEF P!Next, P!Daemon, P!Handlers, Ends

\* What the operator decides about a card goes out in one message; otherwise the card
\* stays.
DecidesAs(f, kind, edit) ==
    /\ kind = "confirm" => edit = P!NotEdited
    /\ feed' = [feed EXCEPT ![f] = P!Card("none", P!NotEdited)]
    /\ posted' = Append(posted, [kind |-> kind, of |-> f, as |-> edit])
    /\ agreed' = [agreed EXCEPT ![f] =
           [is |-> IF kind = "dismiss" THEN "dismissed" ELSE "confirmed",
            text |-> edit.text, due |-> edit.due]]

Decides(f) == \E kind \in DecisionKinds, edit \in P!Edits : DecidesAs(f, kind, edit)

ConsidersAs(f, at, edit) ==
    feed' = [feed EXCEPT ![f] = P!Card(at, edit)] /\ UNCHANGED <<posted, agreed>>

Considers(f) == \E at \in {"shown", "edit"}, edit \in P!Edits : ConsidersAs(f, at, edit)

LEMMA KeysEffect ==
    ASSUME ScreenTypes, NEW f \in P!Finds, P!Keys(f)
    PROVE  /\ feed[f].at # "none" /\ (Decides(f) \/ Considers(f))
           /\ UNCHANGED <<calls, onLine, daemonUp, active, farOn, recorded, row>>
           /\ UNCHANGED <<link, wire, queue, mode, riding, panelCall, disclosure, disk>>
           /\ UNCHANGED <<waiting, faults, pressed, untold, shown>>
<1>1. feed[f].at # "none" /\ P!Keep
  BY DEF P!Keys, P!Confirm, P!Dismiss, P!Edit, P!Escape, P!Commit, P!Operator
<1>2. P!NotEdited \in P!Edits /\ {"confirm", "dismiss", "override"} = DecisionKinds
  BY EditTypes DEF DecisionKinds
<1>3. ASSUME P!Confirm(f)
      PROVE  Decides(f)
  <2>1. DecidesAs(f, "confirm", P!NotEdited)
    BY <1>3 DEF P!Confirm, P!Decide, P!Left, P!Post, DecidesAs
  <2>2. QED
    BY <1>2, <2>1 DEF Decides
<1>4. ASSUME P!Dismiss(f)
      PROVE  Decides(f)
  <2>1. DecidesAs(f, "dismiss", P!NotEdited)
    BY <1>4 DEF P!Dismiss, P!Decide, P!Left, P!Post, DecidesAs
  <2>2. QED
    BY <1>2, <2>1 DEF Decides
<1>5. ASSUME P!Edit(f)
      PROVE  Considers(f)
  <2>1. \E edit \in P!Edits : ConsidersAs(f, "edit", edit)
    BY <1>5 DEF P!Edit, ConsidersAs
  <2>2. QED
    BY <2>1 DEF Considers
<1>6. ASSUME P!Escape(f)
      PROVE  Considers(f)
  <2>1. ConsidersAs(f, "shown", P!NotEdited)
    BY <1>6 DEF P!Escape, P!Left, ConsidersAs
  <2>2. QED
    BY <1>2, <2>1 DEF Considers
<1>7. ASSUME P!Commit(f)
      PROVE  Decides(f) \/ Considers(f)
  <2>1. CASE f \in Facts /\ P!Buffer(f).text = ""
    <3>1. ConsidersAs(f, "shown", P!NotEdited)
      BY <1>7, <2>1 DEF P!Commit, P!EmptyCancels, P!Left, ConsidersAs
    <3>2. QED
      BY <1>2, <3>1 DEF Considers
  <2>2. CASE ~ (f \in Facts /\ P!Buffer(f).text = "")
    <3> DEFINE edit == [P!Buffer(f) EXCEPT !.text = IF @ = "" THEN "said" ELSE @]
    <3>1. P!CommitText(f)
      BY <1>7, <2>2 DEF P!Commit
    <3>2. P!Buffer(f) \in P!Edits
      BY DEF P!Buffer, P!Edits, ScreenTypes
    <3>3. edit \in P!Edits
      BY <3>2 DEF P!Edits, P!Texts
    <3>4. P!Decide(f, "override", edit, "confirmed")
      BY <3>1 DEF P!CommitText
    <3> HIDE DEF edit
    <3>5. DecidesAs(f, "override", edit)
      BY <3>4 DEF P!Decide, P!Left, P!Post, DecidesAs
    <3>6. QED
      BY <1>2, <3>3, <3>5 DEF Decides
  <2>3. QED
    BY <2>1, <2>2
<1>8. Decides(f) \/ Considers(f)
  BY <1>3, <1>4, <1>5, <1>6, <1>7 DEF P!Keys
<1>9. QED
  BY <1>1, <1>8 DEF P!Keep, P!daemon, P!store, P!socket

\* A console that ends takes with it what it had shown, been told and not yet done.
LEMMA EndsEffect ==
    ASSUME Ends
    PROVE  /\ P!Closed /\ P!Fault
           /\ UNCHANGED <<calls, onLine, daemonUp, active, farOn, recorded, row, wire>>
           /\ UNCHANGED <<disk, pressed, untold, agreed>>
BY DEF Ends, P!Close, P!StoreFails, P!SaveFails, P!daemon, P!store

\* What the daemon tells of a call is added behind what it told before.
LEMMA ToldTypes ==
    ASSUME QueueTypes
    PROVE  /\ \A e \in P!Events : P!Told(<<e>>) \in Seq(P!Events) /\ Append(queue, e) \in Seq(P!Events)
           /\ \A d, e \in P!Events : P!Told(<<d, e>>) \in Seq(P!Events)
<1>1. queue \in Seq(P!Events)
  BY DEF QueueTypes
<1>2. \A e \in P!Events : queue \o <<e>> = Append(queue, e) /\ Append(queue, e) \in Seq(P!Events)
  BY <1>1, AppendElements, AppendIsConcat
<1>3. ASSUME NEW d \in P!Events, NEW e \in P!Events
      PROVE  queue \o <<d, e>> \in Seq(P!Events)
  BY <1>1
<1>4. QED
  BY <1>1, <1>2, <1>3 DEF P!Told

----------------------------------------------------------------------------
(* Every step keeps the types.                                              *)

\* A call that begins is one of those there may be.
LEMMA NextCall ==
    ASSUME MaxCalls \in Nat, LineTypes, P!CallConnected
    PROVE  calls' \in P!Calls /\ calls' = calls + 1 /\ onLine' = calls' /\ onLine' # P!None
<1>1. calls \in Nat /\ calls < MaxCalls /\ calls' = calls + 1 /\ onLine' = calls'
  BY DEF LineTypes, P!CallConnected
<1>2. QED
  BY <1>1 DEF P!Calls, P!None

LEMMA FaultTypes ==
    ASSUME MaxFaults \in Nat, faults \in 0 .. MaxFaults, P!Fault
    PROVE  faults' \in 0 .. MaxFaults
BY DEF P!Fault

LEMMA LineStep ==
    ASSUME MaxCalls \in Nat, MaxFaults \in Nat, LineTypes, ScreenTypes, active # P!None => onLine # P!None,
           [P!Next]_P!vars
    PROVE  LineTypes' /\ (active' # P!None => onLine' # P!None)
<1> USE DEF P!daemon, P!store, P!socket, P!screen, P!history
<1> DEFINE Same == UNCHANGED <<calls, onLine, daemonUp, active, farOn, link, riding, faults>>
<1>1. Same => LineTypes' /\ (active' # P!None => onLine' # P!None)
  BY DEF LineTypes
<1>2. CASE UNCHANGED P!vars
  BY <1>1, <1>2 DEF P!vars
<1>3. CASE P!CallConnected
  <2>1. /\ active' \in {P!None, calls'} /\ riding' \in BOOLEAN
        /\ UNCHANGED <<daemonUp, farOn, link, faults>>
    BY <1>3 DEF P!CallConnected
  <2>2. calls' \in 0 .. MaxCalls /\ onLine' = calls' /\ onLine' # P!None
    BY <1>3, NextCall DEF P!Calls
  <2>3. QED
    BY <2>1, <2>2 DEF LineTypes
<1>4. CASE P!FarLost \/ P!CallEnded
  BY <1>4 DEF P!FarLost, P!CallEnded, LineTypes
<1>5. CASE P!HandleCommand \/ P!DaemonStarts
  <2>1. UNCHANGED <<calls, onLine, active, link, riding, faults>>
        /\ farOn' \in BOOLEAN /\ daemonUp' \in BOOLEAN
    BY <1>5 DEF P!HandleCommand, P!DaemonStarts, LineTypes
  <2>2. QED
    BY <2>1 DEF LineTypes
<1>6. CASE P!HandlerFails \/ P!DaemonDies
  <2>1. /\ faults' \in 0 .. MaxFaults /\ UNCHANGED <<calls, onLine, riding>>
        /\ active' \in {P!None, active} /\ farOn' \in BOOLEAN /\ daemonUp' \in BOOLEAN
        /\ link' \in BOOLEAN
    BY <1>6, FaultTypes DEF P!HandlerFails, P!DaemonDies, LineTypes
  <2>2. QED
    BY <2>1 DEF LineTypes
<1>7. ASSUME NEW f \in P!Finds, P!Found(f)
      PROVE  Same
  BY <1>7 DEF P!Found
<1>8. ASSUME NEW f \in P!Finds, P!Keys(f)
      PROVE  Same
  BY <1>8, KeysEffect
<1>9. CASE P!Drain
  BY <1>1, <1>9 DEF P!Drain
<1>10. ASSUME NEW c \in P!Calls, NEW answer \in P!Answers, P!Answer(c, answer)
       PROVE  Same
  BY <1>10 DEF P!Answer
<1>11. CASE P!SendAnswer \/ P!StoreDecision \/ P!AckTimesOut
  BY <1>1, <1>11 DEF P!SendAnswer, P!StoreDecision, P!AckTimesOut
<1>12. CASE Ends
  <2>1. /\ faults' \in 0 .. MaxFaults /\ UNCHANGED <<calls, onLine, daemonUp, active, farOn>>
        /\ link' = FALSE /\ riding' = FALSE
    BY <1>12, EndsEffect, FaultTypes DEF LineTypes, P!Closed
  <2>2. QED
    BY <2>1 DEF LineTypes
<1>13. CASE P!Open
  BY <1>13 DEF P!Open, LineTypes
<1>14. QED
  BY <1>1, <1>2, <1>3, <1>4, <1>5, <1>6, <1>7, <1>8, <1>9, <1>10, <1>11, <1>12, <1>13, NextSteps

\* A command in the socket, and an event in the queue.
LEMMA HeadTypes ==
    ASSUME QueueTypes
    PROVE  /\ wire # <<>> => /\ Head(wire) \in Commands /\ Tail(wire) \in Seq(Commands)
                             /\ Head(wire).kind \in P!Answers /\ Head(wire).of \in P!Calls
           /\ queue # <<>> => Head(queue) \in P!Events /\ Tail(queue) \in Seq(P!Events)
           /\ posted # <<>> => Head(posted) \in P!Messages /\ Tail(posted) \in Seq(P!Messages)
<1>1. wire # <<>> => Head(wire) \in Commands /\ Tail(wire) \in Seq(Commands)
  BY TailElements DEF QueueTypes
<1>2. Head(wire) \in Commands => Head(wire).kind \in P!Answers /\ Head(wire).of \in P!Calls
  BY DEF Commands
<1>3. QED
  BY <1>1, <1>2, TailElements DEF QueueTypes

\* The row of what is decided.
LEMMA RowDecided ==
    ASSUME NEW r \in [call : 0 .. MaxCalls, text : P!Texts, due : P!Texts, is : P!Decisions],
           NEW msg \in P!Messages, msg.kind \in DecisionKinds
    PROVE  /\ P!Stored(r, msg) \in [call : 0 .. MaxCalls, text : P!Texts, due : P!Texts, is : P!Decisions]
           /\ P!Stored(r, msg).call = r.call
           /\ P!Stored(r, msg).is = (IF msg.kind = "dismiss" THEN "dismissed" ELSE "confirmed")
           /\ P!Stored(r, msg).text = (IF msg.kind = "override" THEN msg.as.text ELSE r.text)
           /\ P!Stored(r, msg).due = (IF msg.kind = "override" /\ msg.as.due # "" THEN msg.as.due
                                    ELSE r.due)
<1>1. msg.as.text \in P!Texts /\ msg.as.due \in P!Texts
  BY MessageTypes, EditTypes
<1>2. {"dismissed", "confirmed"} \subseteq P!Decisions
  BY DEF P!Decisions
<1>3. QED
  BY <1>1, <1>2 DEF P!Stored

LEMMA StoreStep ==
    ASSUME MaxCalls \in Nat, LineTypes, StoreTypes, QueueTypes, ScreenTypes, [P!Next]_P!vars
    PROVE  StoreTypes'
<1> USE DEF P!daemon, P!store, P!socket, P!screen, P!history
<1>1. UNCHANGED <<recorded, row>> => StoreTypes'
  BY DEF StoreTypes
<1>2. CASE UNCHANGED P!vars
  BY <1>1, <1>2 DEF P!vars
<1>3. CASE P!CallConnected
  BY <1>3, NextCall DEF P!CallConnected, StoreTypes
<1>4. CASE P!FarLost \/ P!CallEnded \/ P!DaemonDies \/ P!DaemonStarts
  BY <1>1, <1>4 DEF P!FarLost, P!CallEnded, P!DaemonDies, P!DaemonStarts
<1>5. CASE P!HandleCommand \/ P!HandlerFails
  <2>1. /\ UNCHANGED row
        /\ recorded' = recorded \/ recorded' = [recorded EXCEPT ![Head(wire).of] = Head(wire).kind]
        /\ Head(wire).kind \in P!Answers /\ Head(wire).of \in P!Calls
    BY <1>5, HeadTypes DEF P!HandleCommand, P!HandlerFails
  <2>2. QED
    BY <2>1 DEF StoreTypes
<1>6. ASSUME NEW f \in P!Finds, P!Found(f)
      PROVE  StoreTypes'
  <2>1. active \in 0 .. MaxCalls
    BY <1>6 DEF P!Found, LineTypes, P!None
  <2>2. row' = [row EXCEPT ![f] = [row[f] EXCEPT !.call = active]] /\ UNCHANGED recorded
    BY <1>6 DEF P!Found, StoreTypes
  <2>3. QED
    BY <2>1, <2>2 DEF StoreTypes
<1>7. ASSUME NEW f \in P!Finds, P!Keys(f)
      PROVE  UNCHANGED <<recorded, row>>
  BY <1>7, KeysEffect
<1>8. CASE P!Drain \/ P!SendAnswer \/ P!AckTimesOut \/ P!Open
  BY <1>1, <1>8 DEF P!Drain, P!SendAnswer, P!AckTimesOut, P!Open
<1>9. ASSUME NEW c \in P!Calls, NEW answer \in P!Answers, P!Answer(c, answer)
      PROVE  UNCHANGED <<recorded, row>>
  BY <1>9 DEF P!Answer
<1>10. CASE P!StoreDecision
  <2> DEFINE msg == Head(posted)
  <2>1. /\ msg \in P!Messages /\ msg.kind \in DecisionKinds /\ UNCHANGED recorded
        /\ row' = [row EXCEPT ![msg.of] = P!Stored(row[msg.of], msg)]
    BY <1>10, HeadTypes DEF P!StoreDecision, P!Handling, DecisionKinds, StoreTypes
  <2>2. msg.of \in P!Finds
    BY <2>1, MessageTypes
  <2>3. P!Stored(row[msg.of], msg) \in [call : 0 .. MaxCalls, text : P!Texts, due : P!Texts, is : P!Decisions]
    BY <2>1, <2>2, RowDecided DEF StoreTypes
  <2>4. QED
    BY <2>1, <2>2, <2>3 DEF StoreTypes
<1>11. CASE Ends
  BY <1>1, <1>11, EndsEffect
<1>12. QED
  BY <1>1, <1>2, <1>3, <1>4, <1>5, <1>6, <1>7, <1>8, <1>9, <1>10, <1>11, NextSteps

LEMMA QueueStep ==
    ASSUME MaxCalls \in Nat, LineTypes, QueueTypes, ScreenTypes, farOn => active # P!None,
           [P!Next]_P!vars
    PROVE  QueueTypes'
<1> USE DEF P!daemon, P!store, P!socket, P!screen, P!history
<1>0. /\ queue \in Seq(P!Events) /\ wire \in Seq(Commands) /\ posted \in Seq(P!Messages)
      /\ <<>> \in Seq(P!Events) /\ <<>> \in Seq(Commands) /\ <<>> \in Seq(P!Messages)
  BY DEF QueueTypes
<1>1. CASE UNCHANGED P!vars
  BY <1>1 DEF P!vars, QueueTypes
<1>2. CASE P!CallConnected
  <2>1. /\ [kind |-> "started", of |-> calls'] \in P!Events
        /\ [kind |-> "disclosure_needed", of |-> calls'] \in P!Events
    BY <1>2, NextCall, EventTypes
  <2>2. P!Told(<<[kind |-> "started", of |-> calls'], [kind |-> "disclosure_needed", of |-> calls']>>)
            \in Seq(P!Events)
    BY <2>1, ToldTypes
  <2>3. queue' \in Seq(P!Events) /\ UNCHANGED <<wire, posted>>
    BY <1>0, <1>2, <2>2 DEF P!CallConnected
  <2>4. QED
    BY <1>0, <2>3 DEF QueueTypes
<1>3. CASE P!FarLost \/ P!CallEnded
  <2>1. active # P!None => active \in P!Calls
    BY DEF LineTypes, P!Calls, P!None
  <2>2. active # P!None => /\ P!Told(<<[kind |-> "far_lost", of |-> active]>>) \in Seq(P!Events)
                           /\ P!Told(<<[kind |-> "ended", of |-> active]>>) \in Seq(P!Events)
    BY <2>1, ToldTypes, EventTypes
  <2>3. queue' \in Seq(P!Events) /\ UNCHANGED <<wire, posted>>
    BY <1>0, <1>3, <2>2 DEF P!FarLost, P!CallEnded
  <2>4. QED
    BY <1>0, <2>3 DEF QueueTypes
<1>4. CASE P!HandleCommand
  <2>1. wire' \in Seq(Commands) /\ UNCHANGED <<queue, posted>>
    BY <1>4, HeadTypes DEF P!HandleCommand
  <2>2. QED
    BY <1>0, <2>1 DEF QueueTypes
<1>5. CASE P!HandlerFails \/ P!DaemonDies
  <2>1. wire' = <<>> /\ UNCHANGED posted
        /\ queue' \in {queue, Append(queue, [kind |-> "disconnected", of |-> P!None])}
    BY <1>5 DEF P!HandlerFails, P!DaemonDies, P!Disconnected
  <2>2. queue' \in Seq(P!Events)
    BY <1>0, <2>1, ToldTypes, EventTypes
  <2>3. QED
    BY <1>0, <2>1, <2>2 DEF QueueTypes
<1>6. ASSUME NEW f \in P!Finds, P!Found(f)
      PROVE  QueueTypes'
  <2>1. \E k \in FindKinds : queue' = P!Told(<<[kind |-> k, of |-> f]>>)
    BY <1>6 DEF P!Found, FindKinds
  <2>2. queue' \in Seq(P!Events) /\ UNCHANGED <<wire, posted>>
    BY <1>6, <2>1, ToldTypes, EventTypes DEF P!Found
  <2>3. QED
    BY <1>0, <2>2 DEF QueueTypes
<1>7. ASSUME NEW f \in P!Finds, P!Keys(f)
      PROVE  QueueTypes'
  <2>1. CASE Decides(f)
    <3>1. PICK kind \in DecisionKinds, edit \in P!Edits :
             posted' = Append(posted, [kind |-> kind, of |-> f, as |-> edit])
      BY <2>1 DEF Decides, DecidesAs
    <3>2. [kind |-> kind, of |-> f, as |-> edit] \in P!Messages
      BY MessageTypes
    <3>3. posted' \in Seq(P!Messages)
      BY <1>0, <3>1, <3>2, AppendElements
    <3>4. QED
      BY <1>0, <1>7, <3>3, KeysEffect DEF QueueTypes
  <2>2. CASE Considers(f)
    <3>1. UNCHANGED posted
      BY <2>2 DEF Considers, ConsidersAs
    <3>2. QED
      BY <1>0, <1>7, <3>1, KeysEffect DEF QueueTypes
  <2>3. QED
    BY <1>7, <2>1, <2>2, KeysEffect
<1>8. CASE P!Drain
  <2>1. queue' \in Seq(P!Events) /\ UNCHANGED <<wire, posted>>
    BY <1>8, HeadTypes DEF P!Drain
  <2>2. QED
    BY <1>0, <2>1 DEF QueueTypes
<1>9. ASSUME NEW c \in P!Calls, NEW answer \in P!Answers, P!Answer(c, answer)
      PROVE  QueueTypes'
  <2>1. posted' = Append(posted, [kind |-> answer, of |-> c]) /\ UNCHANGED <<queue, wire>>
    BY <1>9 DEF P!Answer, P!Post
  <2>2. posted' \in Seq(P!Messages)
    BY <1>0, <2>1, AppendElements, MessageTypes
  <2>3. QED
    BY <1>0, <2>1, <2>2 DEF QueueTypes
<1>10. CASE P!SendAnswer
  <2> DEFINE cmd == P!Command(Head(posted))
  <2>1. /\ posted' \in Seq(P!Messages) /\ UNCHANGED queue
        /\ Head(posted) \in P!Messages /\ Head(posted).kind \in P!Answers
        /\ wire' = wire \/ wire' = wire \o <<cmd>>
    BY <1>10, HeadTypes DEF P!SendAnswer, P!Handling, P!ToSend
  <2>2. cmd \in Commands
    BY <2>1, MessageTypes DEF P!Command, Commands
  <2> HIDE DEF cmd
  <2>3. wire \o <<cmd>> \in Seq(Commands)
    BY <1>0, <2>2
  <2>4. QED
    BY <1>0, <2>1, <2>3 DEF QueueTypes
<1>11. CASE P!StoreDecision
  <2>1. posted' \in Seq(P!Messages) /\ UNCHANGED <<queue, wire>>
    BY <1>11, HeadTypes DEF P!StoreDecision, P!Handling
  <2>2. QED
    BY <1>0, <2>1 DEF QueueTypes
<1>12. CASE P!AckTimesOut \/ P!DaemonStarts
  BY <1>12 DEF P!AckTimesOut, P!DaemonStarts, QueueTypes
<1>13. CASE Ends
  <2>1. queue' = <<>> /\ posted' = <<>> /\ UNCHANGED wire
    BY <1>13, EndsEffect DEF P!Closed
  <2>2. QED
    BY <1>0, <2>1 DEF QueueTypes
<1>14. CASE P!Open
  BY <1>0, <1>14 DEF P!Open, QueueTypes
<1>15. QED
  BY <1>1, <1>2, <1>3, <1>4, <1>5, <1>6, <1>7, <1>8, <1>9, <1>10, <1>11, <1>12, <1>13, <1>14,
     NextSteps

LEMMA ScreenStep ==
    ASSUME MaxCalls \in Nat, LineTypes, QueueTypes, ScreenTypes, [P!Next]_P!vars
    PROVE  ScreenTypes'
<1> USE DEF P!daemon, P!store, P!socket, P!screen, P!history
<1> DEFINE Same == UNCHANGED <<mode, panelCall, disclosure, feed, disk>>
<1>0. (Same /\ waiting' \in 0 .. MaxCalls) => ScreenTypes'
  BY DEF ScreenTypes
<1>1. waiting \in 0 .. MaxCalls /\ P!None \in 0 .. MaxCalls /\ P!Calls \subseteq 0 .. MaxCalls
  BY DEF ScreenTypes, P!None, P!Calls
<1>2. CASE UNCHANGED P!vars
  BY <1>0, <1>1, <1>2 DEF P!vars
<1>3. CASE P!CallConnected \/ P!FarLost \/ P!CallEnded \/ P!DaemonStarts
  BY <1>0, <1>1, <1>3 DEF P!CallConnected, P!FarLost, P!CallEnded, P!DaemonStarts
<1>4. CASE P!HandleCommand \/ P!HandlerFails \/ P!DaemonDies
  BY <1>0, <1>1, <1>4 DEF P!HandleCommand, P!HandlerFails, P!DaemonDies
<1>5. ASSUME NEW f \in P!Finds, P!Found(f)
      PROVE  ScreenTypes'
  BY <1>0, <1>1, <1>5 DEF P!Found
<1>6. ASSUME NEW f \in P!Finds, P!Keys(f)
      PROVE  ScreenTypes'
  <2>1. UNCHANGED <<mode, panelCall, disclosure, disk, waiting>>
    BY <1>6, KeysEffect
  <2>2. \E a \in {"none", "shown", "edit"}, e \in P!Edits : feed' = [feed EXCEPT ![f] = P!Card(a, e)]
    <3>1. CASE Decides(f)
      BY <3>1, EditTypes DEF Decides, DecidesAs
    <3>2. CASE Considers(f)
      BY <3>2 DEF Considers, ConsidersAs
    <3>3. QED
      BY <1>6, <3>1, <3>2, KeysEffect
  <2>3. feed' \in [P!Finds -> [at : {"none", "shown", "edit"}, text : P!Texts, due : P!Texts]]
    BY <2>2, EditTypes DEF ScreenTypes
  <2>4. QED
    BY <2>1, <2>3 DEF ScreenTypes
<1>7. CASE P!Drain
  <2> DEFINE ev == Head(queue)
  <2>1. ev \in P!Events /\ UNCHANGED <<disk, waiting>>
    BY <1>7, HeadTypes DEF P!Drain
  <2>2. CASE /\ ev.kind \in {"started", "disclosure_needed"} /\ panelCall' = ev.of
             /\ IF ev.kind = "started" THEN UNCHANGED disclosure
                ELSE P!Show(ev.of, IF disk[ev.of] = "none" THEN "expanded" ELSE disk[ev.of])
             /\ UNCHANGED <<feed, mode>>
    <3>1. ev.of \in P!Calls
      BY <2>1, <2>2, EventTypes
    <3>2. disclosure' \in [P!Calls -> {"none", "expanded"} \cup P!Answers]
      BY <2>2, <3>1 DEF P!Show, ScreenTypes
    <3>3. QED
      BY <1>1, <2>1, <2>2, <3>1, <3>2 DEF ScreenTypes
  <2>3. CASE /\ ev.kind \in FindKinds /\ feed' = [feed EXCEPT ![ev.of] = P!Card("shown", P!NotEdited)]
             /\ UNCHANGED <<panelCall, disclosure, mode>>
    <3>1. P!Card("shown", P!NotEdited) \in [at : {"none", "shown", "edit"}, text : P!Texts, due : P!Texts]
      BY EditTypes
    <3>2. QED
      BY <2>1, <2>3, <3>1 DEF ScreenTypes
  <2>4. CASE UNCHANGED P!screen /\ mode' \in {mode, "direct"}
    BY <2>1, <2>4 DEF ScreenTypes
  <2>5. QED
    BY <1>7, <2>2, <2>3, <2>4 DEF P!Drain, FindKinds
<1>8. ASSUME NEW c \in P!Calls, NEW answer \in P!Answers, P!Answer(c, answer)
      PROVE  ScreenTypes'
  BY <1>8 DEF P!Answer, P!Show, ScreenTypes
<1>9. CASE P!SendAnswer
  <2>1. Head(posted) \in P!Messages /\ Head(posted).kind \in P!Answers
    BY <1>9, HeadTypes DEF P!SendAnswer, P!Handling
  <2>2. waiting' \in {P!None, waiting, Head(posted).of} /\ Same
    BY <1>9 DEF P!SendAnswer
  <2>3. QED
    BY <1>0, <1>1, <2>1, <2>2, MessageTypes
<1>10. CASE P!StoreDecision \/ P!AckTimesOut
  BY <1>0, <1>1, <1>10 DEF P!StoreDecision, P!AckTimesOut
<1>11. CASE Ends
  <2>1. P!Closed /\ UNCHANGED disk
    BY <1>11, EndsEffect
  <2>2. P!Card("none", P!NotEdited) \in [at : {"none", "shown", "edit"}, text : P!Texts, due : P!Texts]
    BY EditTypes
  <2>3. QED
    BY <1>1, <2>1, <2>2 DEF P!Closed, ScreenTypes
<1>12. CASE P!Open
  BY <1>12 DEF P!Open, ScreenTypes
<1>13. QED
  BY <1>2, <1>3, <1>4, <1>5, <1>6, <1>7, <1>8, <1>9, <1>10, <1>11, <1>12, NextSteps

LEMMA HistoryStep ==
    ASSUME MaxCalls \in Nat, QueueTypes, ScreenTypes, HistoryTypes, [P!Next]_P!vars
    PROVE  HistoryTypes'
<1> USE DEF P!daemon, P!store, P!socket, P!screen, P!history
<1>1. CASE UNCHANGED P!vars
  BY <1>1 DEF P!vars, HistoryTypes
<1>2. CASE P!CallConnected \/ P!FarLost \/ P!CallEnded \/ P!HandleCommand \/ P!DaemonStarts \/ P!Open
  BY <1>2 DEF P!CallConnected, P!FarLost, P!CallEnded, P!HandleCommand, P!DaemonStarts, P!Open, HistoryTypes
<1>3. CASE P!HandlerFails \/ P!DaemonDies \/ P!AckTimesOut
  <2>1. /\ untold' \subseteq P!Calls \/ P!AckTimesOut
        /\ UNCHANGED <<pressed, agreed, shown>>
    BY <1>3 DEF P!HandlerFails, P!DaemonDies, P!AckTimesOut, HistoryTypes
  <2>2. P!AckTimesOut => untold' \subseteq P!Calls
    <3>1. (waiting \in 0 .. MaxCalls /\ waiting # P!None) => waiting \in P!Calls
      BY DEF P!Calls, P!None
    <3>2. QED
      BY <3>1 DEF P!AckTimesOut, HistoryTypes, ScreenTypes
  <2>3. QED
    BY <2>1, <2>2 DEF HistoryTypes
<1>4. ASSUME NEW f \in P!Finds, P!Found(f)
      PROVE  HistoryTypes'
  BY <1>4 DEF P!Found, HistoryTypes
<1>5. ASSUME NEW f \in P!Finds, P!Keys(f)
      PROVE  HistoryTypes'
  <2>1. UNCHANGED <<pressed, untold, shown>>
    BY <1>5, KeysEffect
  <2>2. CASE Decides(f)
    <3>1. PICK kind \in DecisionKinds, edit \in P!Edits :
             agreed' = [agreed EXCEPT ![f] =
                 [is |-> IF kind = "dismiss" THEN "dismissed" ELSE "confirmed",
                  text |-> edit.text, due |-> edit.due]]
      BY <2>2 DEF Decides, DecidesAs
    <3>2. edit.text \in P!Texts /\ edit.due \in P!Texts
      BY EditTypes
    <3>3. agreed' \in [P!Finds -> [is : P!Decisions, text : P!Texts, due : P!Texts]]
      BY <3>1, <3>2 DEF HistoryTypes, P!Decisions
    <3>4. QED
      BY <2>1, <3>3 DEF HistoryTypes
  <2>3. CASE Considers(f)
    BY <2>1, <2>3 DEF Considers, ConsidersAs, HistoryTypes
  <2>4. QED
    BY <1>5, <2>2, <2>3, KeysEffect
<1>6. CASE P!Drain
  <2>1. Head(queue) \in P!Events /\ UNCHANGED <<pressed, untold, agreed>>
    BY <1>6, HeadTypes DEF P!Drain
  <2>2. shown' = shown \/ (Head(queue).kind \in FindKinds /\ shown' = shown \cup {Head(queue).of})
    BY <1>6 DEF P!Drain, FindKinds
  <2>3. shown' \subseteq P!Finds
    BY <2>1, <2>2, EventTypes DEF HistoryTypes
  <2>4. QED
    BY <2>1, <2>3 DEF HistoryTypes
<1>7. ASSUME NEW c \in P!Calls, NEW answer \in P!Answers, P!Answer(c, answer)
      PROVE  HistoryTypes'
  <2>1. pressed' = [pressed EXCEPT ![c] = pressed[c] \cup {answer}] /\ UNCHANGED <<untold, agreed, shown>>
    BY <1>7 DEF P!Answer, HistoryTypes
  <2>2. QED
    BY <2>1 DEF HistoryTypes
<1>8. CASE P!SendAnswer
  <2>1. Head(posted).of \in P!Calls
    BY <1>8, HeadTypes, MessageTypes DEF P!SendAnswer, P!Handling
  <2>2. untold' \in {untold, untold \cup {Head(posted).of}} /\ UNCHANGED <<pressed, agreed, shown>>
    BY <1>8 DEF P!SendAnswer
  <2>3. QED
    BY <2>1, <2>2 DEF HistoryTypes
<1>9. CASE P!StoreDecision
  BY <1>9 DEF P!StoreDecision, HistoryTypes
<1>10. CASE Ends
  BY <1>10, EndsEffect DEF P!Closed, HistoryTypes
<1>11. QED
  BY <1>1, <1>2, <1>3, <1>4, <1>5, <1>6, <1>7, <1>8, <1>9, <1>10, NextSteps

\* What is in the queues.
LEMMA ElementTypes ==
    ASSUME QueueTypes
    PROVE  /\ \A i \in DOMAIN wire : wire[i].of \in P!Calls /\ wire[i].kind \in P!Answers
           /\ \A i \in DOMAIN posted :
                 /\ posted[i] \in P!Messages
                 /\ posted[i].kind \in P!Answers => posted[i].of \in P!Calls
                 /\ posted[i].kind \in DecisionKinds =>
                       posted[i].of \in P!Finds /\ posted[i].as \in P!Edits
           /\ \A i \in DOMAIN queue :
                 /\ queue[i] \in P!Events
                 /\ queue[i].kind \in FindKinds => queue[i].of \in P!Finds
<1>1. /\ \A i \in DOMAIN wire : wire[i] \in Commands
      /\ \A i \in DOMAIN posted : posted[i] \in P!Messages
      /\ \A i \in DOMAIN queue : queue[i] \in P!Events
  BY DEF QueueTypes
<1>2. \A c \in Commands : c.of \in P!Calls /\ c.kind \in P!Answers
  BY DEF Commands
<1>3. QED
  BY <1>1, <1>2, MessageTypes, EventTypes

\* Every step keeps the types.
LEMMA CardTypesStep ==
    ASSUME MaxCalls \in Nat, MaxFaults \in Nat, P!TypeOK, active # P!None => onLine # P!None,
           farOn => active # P!None, [P!Next]_P!vars
    PROVE  P!TypeOK' /\ (active' # P!None => onLine' # P!None)
<1>1. LineTypes /\ StoreTypes /\ QueueTypes /\ ScreenTypes /\ HistoryTypes
  BY TypesOfParts
<1>2. LineTypes' /\ (active' # P!None => onLine' # P!None)
  BY <1>1, LineStep
<1>3. StoreTypes' /\ QueueTypes' /\ ScreenTypes' /\ HistoryTypes'
  BY <1>1, StoreStep, QueueStep, ScreenStep, HistoryStep
<1>4. QED
  BY <1>2, <1>3, TypesOfParts

----------------------------------------------------------------------------
(* The operator's answers.                                                  *)

LEMMA PressedStep ==
    ASSUME P!TypeOK, MaxCalls \in Nat, [P!Next]_P!vars
    PROVE  \A c \in P!Calls : pressed[c] \subseteq pressed'[c]
<1> USE DEF P!daemon, P!store, P!socket, P!screen, P!history
<1>0. ScreenTypes /\ HistoryTypes
  BY TypesOfParts
<1>1. ASSUME NEW c \in P!Calls, NEW answer \in P!Answers, P!Answer(c, answer)
      PROVE  \A d \in P!Calls : pressed[d] \subseteq pressed'[d]
  <2>1. pressed' = [pressed EXCEPT ![c] = pressed[c] \cup {answer}]
    BY <1>0, <1>1 DEF P!Answer, HistoryTypes
  <2>2. QED
    BY <1>0, <2>1 DEF HistoryTypes
<1>2. CASE UNCHANGED P!vars \/ P!CallConnected \/ P!FarLost \/ P!CallEnded \/ P!HandleCommand
           \/ P!DaemonStarts
  BY <1>2 DEF P!vars, P!CallConnected, P!FarLost, P!CallEnded, P!HandleCommand, P!DaemonStarts
<1>3. CASE P!HandlerFails \/ P!DaemonDies \/ P!AckTimesOut \/ P!Open \/ P!Drain
  BY <1>3 DEF P!HandlerFails, P!DaemonDies, P!AckTimesOut, P!Open, P!Drain
<1>4. CASE P!SendAnswer \/ P!StoreDecision \/ Ends
  BY <1>4, EndsEffect DEF P!SendAnswer, P!StoreDecision
<1>5. ASSUME NEW f \in P!Finds, P!Found(f) \/ P!Keys(f)
      PROVE  UNCHANGED pressed
  BY <1>0, <1>5, KeysEffect DEF P!Found
<1>6. QED
  BY <1>1, <1>2, <1>3, <1>4, <1>5, NextSteps

\* Whatever is sent, posted or recorded was pressed.
Pressed ==
    /\ \A c \in P!Calls : recorded[c] \in P!Answers => recorded[c] \in pressed[c]
    /\ \A i \in DOMAIN wire : wire[i].kind \in pressed[wire[i].of]
    /\ \A i \in DOMAIN posted :
          posted[i].kind \in P!Answers => posted[i].kind \in pressed[posted[i].of]
    /\ farOn => active # P!None /\ "disclosed" \in pressed[active]

LEMMA PressedStays ==
    ASSUME P!TypeOK, Pressed, MaxCalls \in Nat, [P!Next]_P!vars,
           \A c \in P!Calls : recorded'[c] \in P!Answers => recorded'[c] \in pressed'[c],
           farOn' => active' # P!None /\ "disclosed" \in pressed'[active'],
           wire' = wire \/ wire' = <<>>, posted' = posted \/ posted' = <<>>
    PROVE  Pressed'
<1>1. \A c \in P!Calls : pressed[c] \subseteq pressed'[c]
  BY PressedStep
<1>2. /\ \A i \in DOMAIN wire : wire[i].of \in P!Calls
      /\ \A i \in DOMAIN posted : posted[i].kind \in P!Answers => posted[i].of \in P!Calls
  BY TypesOfParts, ElementTypes
<1>3. DOMAIN <<>> = {}
  OBVIOUS
<1>4. \A i \in DOMAIN wire' : i \in DOMAIN wire /\ wire'[i] = wire[i]
  BY <1>3
<1>5. \A i \in DOMAIN posted' : i \in DOMAIN posted /\ posted'[i] = posted[i]
  BY <1>3
<1>6. QED
  BY <1>1, <1>2, <1>4, <1>5 DEF Pressed

LEMMA AnswersStep ==
    ASSUME P!TypeOK, AnswersArePressed, MaxCalls \in Nat, MaxFaults \in Nat, [P!Next]_P!vars
    PROVE  AnswersArePressed'
<1> USE DEF P!daemon, P!store, P!socket, P!screen, P!history
<1>0. /\ LineTypes /\ StoreTypes /\ QueueTypes /\ ScreenTypes /\ HistoryTypes /\ Pressed
      /\ active # P!None => onLine # P!None /\ active \in P!Calls
  BY TypesOfParts DEF AnswersArePressed, Pressed, LineTypes, P!Calls, P!None
<1>1. active' # P!None => onLine' # P!None
  BY <1>0, LineStep
<1>2. Pressed' => AnswersArePressed'
  BY <1>1 DEF AnswersArePressed, Pressed
<1>3. \A c \in P!Calls : pressed[c] \subseteq pressed'[c]
  BY PressedStep
<1>4. ASSUME UNCHANGED <<recorded, farOn, active>>, wire' = wire \/ wire' = <<>>,
             posted' = posted \/ posted' = <<>>
      PROVE  Pressed'
  BY <1>0, <1>3, <1>4, PressedStays DEF Pressed
<1>5. CASE UNCHANGED P!vars \/ P!DaemonStarts \/ P!AckTimesOut \/ P!Open \/ P!Drain
  <2>1. UNCHANGED <<recorded, farOn, active>> /\ (wire' = wire \/ wire' = <<>>) /\ UNCHANGED posted
    BY <1>5 DEF P!vars, P!DaemonStarts, P!AckTimesOut, P!Open, P!Drain
  <2>2. QED
    BY <1>2, <1>4, <2>1
<1>6. CASE P!CallConnected
  <2>1. UNCHANGED <<wire, posted, farOn>> /\ recorded' \in {recorded, [recorded EXCEPT ![calls'] = "pending"]}
    BY <1>6 DEF P!CallConnected
  <2>2. ~ farOn
    BY <1>0, <1>6 DEF P!CallConnected, Pressed
  <2>3. \A c \in P!Calls : recorded'[c] \in P!Answers => recorded'[c] = recorded[c]
    BY <1>0, <2>1, MessageTypes DEF StoreTypes
  <2>4. Pressed'
    BY <1>0, <1>3, <2>1, <2>2, <2>3, PressedStays DEF Pressed
  <2>5. QED
    BY <1>2, <2>4
<1>7. CASE P!FarLost \/ P!CallEnded \/ P!DaemonDies
  <2>1. /\ farOn' = FALSE /\ UNCHANGED <<recorded, posted>>
        /\ wire' = wire \/ wire' = <<>>
    BY <1>7 DEF P!FarLost, P!CallEnded, P!DaemonDies
  <2>2. Pressed'
    BY <1>0, <1>3, <2>1, PressedStays DEF Pressed
  <2>3. QED
    BY <1>2, <2>2
<1>8. CASE P!HandleCommand
  <2> DEFINE cmd == Head(wire)
  <2>1. /\ wire # <<>> /\ wire' = Tail(wire) /\ UNCHANGED <<posted, active>>
        /\ recorded' = [recorded EXCEPT ![cmd.of] = cmd.kind]
        /\ farOn' = (farOn \/ (cmd.kind = "disclosed" /\ active = cmd.of))
    BY <1>8 DEF P!HandleCommand
  <2>2. /\ cmd \in Commands /\ cmd.of \in P!Calls /\ 1 \in DOMAIN wire /\ cmd = wire[1]
        /\ \A i \in DOMAIN wire' : i + 1 \in DOMAIN wire /\ wire'[i] = wire[i + 1]
    BY <1>0, <2>1, HeadTypes, TailElements DEF QueueTypes
  <2>3. cmd.kind \in pressed[cmd.of]
    BY <1>0, <2>2 DEF Pressed
  <2>4. /\ \A i \in DOMAIN wire : wire[i].of \in P!Calls
        /\ \A i \in DOMAIN posted : posted[i].kind \in P!Answers => posted[i].of \in P!Calls
    BY <1>0, ElementTypes
  <2>5. \A c \in P!Calls : recorded'[c] \in P!Answers => recorded'[c] \in pressed'[c]
    <3>1. \A c \in P!Calls : recorded'[c] = IF c = cmd.of THEN cmd.kind ELSE recorded[c]
      BY <1>0, <2>1 DEF StoreTypes
    <3>2. QED
      BY <1>0, <1>3, <2>2, <2>3, <3>1 DEF Pressed
  <2>6. \A i \in DOMAIN wire' : wire'[i].kind \in pressed'[wire'[i].of]
    BY <1>0, <1>3, <2>2, <2>4 DEF Pressed
  <2>7. \A i \in DOMAIN posted' :
           posted'[i].kind \in P!Answers => posted'[i].kind \in pressed'[posted'[i].of]
    BY <1>0, <1>3, <2>1, <2>4 DEF Pressed
  <2>8. farOn' => active' # P!None /\ "disclosed" \in pressed'[active']
    <3>1. cmd.of # P!None
      BY <2>2 DEF P!Calls, P!None
    <3>2. QED
      BY <1>0, <1>3, <2>1, <2>2, <2>3, <3>1 DEF Pressed
  <2>9. QED
    BY <1>2, <2>5, <2>6, <2>7, <2>8 DEF Pressed
<1>9. CASE P!HandlerFails
  <2>1. /\ UNCHANGED <<posted, active, farOn>> /\ wire # <<>> /\ wire' = <<>>
        /\ recorded' = recorded \/ recorded' = [recorded EXCEPT ![Head(wire).of] = Head(wire).kind]
    BY <1>9 DEF P!HandlerFails
  <2>2. Head(wire).of \in P!Calls /\ 1 \in DOMAIN wire /\ Head(wire) = wire[1]
    BY <1>0, <2>1, HeadTypes, TailElements DEF QueueTypes
  <2>3. Head(wire).kind \in pressed[Head(wire).of]
    BY <1>0, <2>2 DEF Pressed
  <2>4. \A c \in P!Calls : recorded'[c] \in P!Answers => recorded'[c] \in pressed'[c]
    BY <1>0, <1>3, <2>1, <2>2, <2>3 DEF StoreTypes, Pressed
  <2>5. Pressed'
    BY <1>0, <1>3, <2>1, <2>4, PressedStays DEF Pressed
  <2>6. QED
    BY <1>2, <2>5
<1>10. ASSUME NEW f \in P!Finds, P!Found(f)
       PROVE  Pressed'
  <2>1. UNCHANGED <<recorded, farOn, active, wire, posted>>
    BY <1>10 DEF P!Found
  <2>2. QED
    BY <1>4, <2>1
<1>11. ASSUME NEW f \in P!Finds, P!Keys(f)
       PROVE  Pressed'
  <2>1. UNCHANGED <<recorded, farOn, active, wire, pressed>>
    BY <1>0, <1>11, KeysEffect
  <2>2. CASE Considers(f)
    BY <1>4, <2>1, <2>2 DEF Considers, ConsidersAs
  <2>3. CASE Decides(f)
    <3>1. PICK m \in P!Messages : m.kind \notin P!Answers /\ posted' = Append(posted, m)
      <4>1. PICK kind \in DecisionKinds, edit \in P!Edits :
               posted' = Append(posted, [kind |-> kind, of |-> f, as |-> edit])
        BY <2>3 DEF Decides, DecidesAs
      <4>2. [kind |-> kind, of |-> f, as |-> edit] \in P!Messages /\ kind \notin P!Answers
        BY MessageTypes
      <4>3. QED
        BY <4>1, <4>2
    <3>2. \A i \in DOMAIN posted' : \/ i \in DOMAIN posted /\ posted'[i] = posted[i]
                                    \/ posted'[i].kind \notin P!Answers
      BY <1>0, <3>1, AppendElements DEF QueueTypes
    <3>3. QED
      BY <1>0, <2>1, <3>2 DEF Pressed
  <2>4. QED
    BY <1>0, <1>11, <2>2, <2>3, KeysEffect
<1>12. ASSUME NEW c \in P!Calls, NEW answer \in P!Answers, P!Answer(c, answer)
       PROVE  Pressed'
  <2>1. /\ UNCHANGED <<recorded, farOn, active, wire>>
        /\ posted' = Append(posted, [kind |-> answer, of |-> c])
        /\ pressed' = [pressed EXCEPT ![c] = pressed[c] \cup {answer}]
    BY <1>0, <1>12 DEF P!Answer, P!Post, HistoryTypes
  <2>2. answer \in pressed'[c]
    BY <1>0, <2>1 DEF HistoryTypes
  <2>3. /\ \A i \in DOMAIN wire : wire[i].of \in P!Calls
        /\ \A i \in DOMAIN posted : posted[i].kind \in P!Answers => posted[i].of \in P!Calls
    BY <1>0, ElementTypes
  <2>4. \A i \in DOMAIN posted' : \/ i \in DOMAIN posted /\ posted'[i] = posted[i]
                                  \/ posted'[i].kind = answer /\ posted'[i].of = c
    BY <1>0, <2>1, AppendElements, MessageTypes DEF QueueTypes
  <2>5. QED
    BY <1>0, <1>3, <2>1, <2>2, <2>3, <2>4 DEF Pressed
<1>13. CASE P!SendAnswer
  <2> DEFINE msg == Head(posted)
  <2>1. /\ UNCHANGED <<recorded, farOn, active, pressed>>
        /\ posted # <<>> /\ posted' = Tail(posted) /\ msg.kind \in P!Answers
        /\ wire' = wire \/ wire' = wire \o <<P!Command(msg)>>
    BY <1>13 DEF P!SendAnswer, P!Handling, P!ToSend
  <2>2. /\ msg \in P!Messages /\ msg.of \in P!Calls /\ 1 \in DOMAIN posted /\ msg = posted[1]
        /\ \A i \in DOMAIN posted' : i + 1 \in DOMAIN posted /\ posted'[i] = posted[i + 1]
    BY <1>0, <2>1, HeadTypes, TailElements, MessageTypes DEF QueueTypes
  <2>3. P!Command(msg).kind = msg.kind /\ P!Command(msg).of = msg.of /\ P!Command(msg) \in Commands
    BY <2>1, <2>2 DEF P!Command, Commands
  <2>4. msg.kind \in pressed[msg.of]
    BY <1>0, <2>1, <2>2 DEF Pressed
  <2>5. \A i \in DOMAIN wire' : \/ i \in DOMAIN wire /\ wire'[i] = wire[i]
                                \/ wire'[i] = P!Command(msg)
    <3>1. wire \in Seq(Commands)
      BY <1>0 DEF QueueTypes
    <3>2. wire \o <<P!Command(msg)>> = Append(wire, P!Command(msg))
      BY <2>3, <3>1, AppendIsConcat
    <3>3. \A i \in DOMAIN Append(wire, P!Command(msg)) :
             \/ i \in DOMAIN wire /\ Append(wire, P!Command(msg))[i] = wire[i]
             \/ Append(wire, P!Command(msg))[i] = P!Command(msg)
      BY <2>3, <3>1, AppendElements
    <3>4. QED
      BY <2>1, <3>2, <3>3
  <2>6. \A i \in DOMAIN wire' : wire'[i].kind \in pressed'[wire'[i].of]
    BY <1>0, <2>1, <2>3, <2>4, <2>5 DEF Pressed
  <2>7. \A i \in DOMAIN posted' :
           posted'[i].kind \in P!Answers => posted'[i].kind \in pressed'[posted'[i].of]
    BY <1>0, <2>1, <2>2 DEF Pressed
  <2>8. \A c \in P!Calls : recorded'[c] \in P!Answers => recorded'[c] \in pressed'[c]
    BY <1>0, <2>1 DEF Pressed
  <2>9. farOn' => active' # P!None /\ "disclosed" \in pressed'[active']
    BY <1>0, <2>1 DEF Pressed
  <2>10. QED
    BY <1>2, <2>6, <2>7, <2>8, <2>9 DEF Pressed
<1>14. CASE P!StoreDecision
  <2>1. /\ UNCHANGED <<recorded, farOn, active, wire, pressed>>
        /\ posted # <<>> /\ posted' = Tail(posted)
    BY <1>14 DEF P!StoreDecision, P!Handling
  <2>2. \A i \in DOMAIN posted' : i + 1 \in DOMAIN posted /\ posted'[i] = posted[i + 1]
    BY <1>0, <2>1, TailElements DEF QueueTypes
  <2>3. \A i \in DOMAIN posted' :
           posted'[i].kind \in P!Answers => posted'[i].kind \in pressed'[posted'[i].of]
    BY <1>0, <2>1, <2>2 DEF Pressed
  <2>4. \A i \in DOMAIN wire' : wire'[i].kind \in pressed'[wire'[i].of]
    BY <1>0, <2>1 DEF Pressed
  <2>5. \A c \in P!Calls : recorded'[c] \in P!Answers => recorded'[c] \in pressed'[c]
    BY <1>0, <2>1 DEF Pressed
  <2>6. farOn' => active' # P!None /\ "disclosed" \in pressed'[active']
    BY <1>0, <2>1 DEF Pressed
  <2>7. QED
    BY <1>2, <2>3, <2>4, <2>5, <2>6 DEF Pressed
<1>15. CASE Ends
  BY <1>2, <1>4, <1>15, EndsEffect DEF P!Closed
<1>16. QED
  BY <1>2, <1>5, <1>6, <1>7, <1>8, <1>9, <1>10, <1>11, <1>12, <1>13, <1>14, <1>15, NextSteps

----------------------------------------------------------------------------
(* The way of a fact or an action item.                                     *)

\* The events of f are what they were, up to the place in the queue, and so are the
\* decisions on it.
SameEvents(f, d) ==
    /\ \A i \in EventsOf(f)' : i + d \in EventsOf(f) /\ i \in Nat
    /\ \A j \in EventsOf(f) : \E i \in EventsOf(f)' : j = i + d

SameDecisions(f, d) ==
    /\ \A i \in DecisionsOn(f)' :
          i + d \in DecisionsOn(f) /\ i \in Nat /\ posted'[i] = posted[i + d]
    /\ \A j \in DecisionsOn(f) : \E i \in DecisionsOn(f)' : j = i + d

LEMMA EventsStay ==
    ASSUME QueueTypes, NEW f,
           \/ UNCHANGED queue
           \/ \E e \in P!Events : /\ queue' = Append(queue, e)
                                  /\ ~ (e.kind \in FindKinds /\ e.of = f)
           \/ /\ queue # <<>> /\ queue' = Tail(queue)
              /\ ~ (Head(queue).kind \in FindKinds /\ Head(queue).of = f)
    PROVE  \E d \in {0, 1} : SameEvents(f, d)
<1>1. queue \in Seq(P!Events) /\ DOMAIN queue \subseteq Nat
  BY DEF QueueTypes
<1>2. \A i \in Nat : i + 0 = i
  OBVIOUS
<1>3. CASE UNCHANGED queue
  <2>1. SameEvents(f, 0)
    BY <1>1, <1>2, <1>3 DEF SameEvents, EventsOf
  <2>2. QED
    BY <2>1
<1>4. ASSUME NEW e \in P!Events, queue' = Append(queue, e), ~ (e.kind \in FindKinds /\ e.of = f)
      PROVE  SameEvents(f, 0)
  <2>1. /\ \A i \in DOMAIN queue : i \in DOMAIN queue' /\ queue'[i] = queue[i]
        /\ \A i \in DOMAIN queue' : i \in DOMAIN queue \/ queue'[i] = e
    BY <1>1, <1>4, AppendElements
  <2>2. EventsOf(f)' = EventsOf(f)
    BY <1>4, <2>1 DEF EventsOf
  <2>3. EventsOf(f) \subseteq Nat
    BY <1>1 DEF EventsOf
  <2>4. QED
    BY <1>2, <2>2, <2>3 DEF SameEvents
<1>5. CASE /\ queue # <<>> /\ queue' = Tail(queue)
           /\ ~ (Head(queue).kind \in FindKinds /\ Head(queue).of = f)
  <2>1. /\ Head(queue) = queue[1]
        /\ \A i \in DOMAIN queue' : i + 1 \in DOMAIN queue /\ queue'[i] = queue[i + 1] /\ i \in Nat
        /\ \A j \in DOMAIN queue : j # 1 => \E i \in DOMAIN queue' : j = i + 1
    BY <1>1, <1>5, TailElements
  <2>2. \A i \in EventsOf(f)' : i + 1 \in EventsOf(f) /\ i \in Nat
    BY <2>1 DEF EventsOf
  <2>3. 1 \notin EventsOf(f)
    BY <1>5, <2>1 DEF EventsOf
  <2>4. \A j \in EventsOf(f) : \E i \in EventsOf(f)' : j = i + 1
    BY <2>1, <2>3 DEF EventsOf
  <2>5. SameEvents(f, 1)
    BY <2>2, <2>4 DEF SameEvents
  <2>6. QED
    BY <2>5
<1>6. QED
  BY <1>3, <1>4, <1>5

LEMMA DecisionsStay ==
    ASSUME QueueTypes, NEW f,
           \/ UNCHANGED posted
           \/ \E m \in P!Messages : /\ posted' = Append(posted, m)
                                    /\ ~ (m.kind \in DecisionKinds /\ m.of = f)
           \/ /\ posted # <<>> /\ posted' = Tail(posted)
              /\ ~ (Head(posted).kind \in DecisionKinds /\ Head(posted).of = f)
    PROVE  \E d \in {0, 1} : SameDecisions(f, d)
<1>1. posted \in Seq(P!Messages) /\ DOMAIN posted \subseteq Nat
  BY DEF QueueTypes
<1>2. \A i \in Nat : i + 0 = i
  OBVIOUS
<1>3. CASE UNCHANGED posted
  <2>1. SameDecisions(f, 0)
    BY <1>1, <1>2, <1>3 DEF SameDecisions, DecisionsOn
  <2>2. QED
    BY <2>1
<1>4. ASSUME NEW m \in P!Messages, posted' = Append(posted, m),
             ~ (m.kind \in DecisionKinds /\ m.of = f)
      PROVE  SameDecisions(f, 0)
  <2>1. /\ \A i \in DOMAIN posted : i \in DOMAIN posted' /\ posted'[i] = posted[i]
        /\ \A i \in DOMAIN posted' : i \in DOMAIN posted \/ posted'[i] = m
    BY <1>1, <1>4, AppendElements
  <2>2. DecisionsOn(f)' = DecisionsOn(f)
    BY <1>4, <2>1 DEF DecisionsOn
  <2>3. \A i \in DecisionsOn(f) : i \in Nat /\ posted'[i] = posted[i]
    BY <1>1, <2>1 DEF DecisionsOn
  <2>4. QED
    BY <1>2, <2>2, <2>3 DEF SameDecisions
<1>5. CASE /\ posted # <<>> /\ posted' = Tail(posted)
           /\ ~ (Head(posted).kind \in DecisionKinds /\ Head(posted).of = f)
  <2>1. /\ Head(posted) = posted[1]
        /\ \A i \in DOMAIN posted' :
              i + 1 \in DOMAIN posted /\ posted'[i] = posted[i + 1] /\ i \in Nat
        /\ \A j \in DOMAIN posted : j # 1 => \E i \in DOMAIN posted' : j = i + 1
    BY <1>1, <1>5, TailElements
  <2>2. \A i \in DecisionsOn(f)' :
           i + 1 \in DecisionsOn(f) /\ i \in Nat /\ posted'[i] = posted[i + 1]
    BY <2>1 DEF DecisionsOn
  <2>3. 1 \notin DecisionsOn(f)
    BY <1>5, <2>1 DEF DecisionsOn
  <2>4. \A j \in DecisionsOn(f) : \E i \in DecisionsOn(f)' : j = i + 1
    BY <2>1, <2>3 DEF DecisionsOn
  <2>5. SameDecisions(f, 1)
    BY <2>2, <2>4 DEF SameDecisions
  <2>6. QED
    BY <2>5
<1>6. QED
  BY <1>3, <1>4, <1>5

\* What a step does not touch stays sound.
LEMMA Untouched ==
    ASSUME NEW f, FindIsSound(f),
           feed'[f] = feed[f], row'[f] = row[f], agreed'[f] = agreed[f],
           f \in shown' => f \in shown,
           \E d \in {0, 1} : SameEvents(f, d), \E d \in {0, 1} : SameDecisions(f, d)
    PROVE  FindIsSound(f)'
<1>1. PICK d \in {0, 1} : SameEvents(f, d)
  OBVIOUS
<1>2. PICK e \in {0, 1} : SameDecisions(f, e)
  OBVIOUS
<1>3. \A i, j \in Nat : (i + d = j + d => i = j) /\ (i + e = j + e => i = j)
  BY <1>1, <1>2
<1>4. /\ EventsOf(f)' # {} => EventsOf(f) # {}
      /\ \A i, j \in EventsOf(f)' : i \in Nat /\ j \in Nat /\ i + d \in EventsOf(f) /\ j + d \in EventsOf(f)
  BY <1>1 DEF SameEvents
<1>5. /\ DecisionsOn(f)' = {} <=> DecisionsOn(f) = {}
      /\ \A i, j \in DecisionsOn(f)' :
            /\ i \in Nat /\ j \in Nat /\ i + e \in DecisionsOn(f) /\ j + e \in DecisionsOn(f)
            /\ posted'[i] = posted[i + e]
  BY <1>2 DEF SameDecisions
<1>6. FoundOnce(f)'
  BY <1>3, <1>4, <1>5 DEF FindIsSound, FoundOnce
<1>7. DecidedOnce(f)'
  BY <1>3, <1>5 DEF FindIsSound, DecidedOnce
<1>8. ShownIsThere(f)' /\ IsKept(f)'
  BY <1>5 DEF FindIsSound, ShownIsThere, IsKept
<1>9. QED
  BY <1>6, <1>7, <1>8 DEF FindIsSound

LEMMA EndIsSound ==
    ASSUME NEW f \in P!Finds, FindIsSound(f), Ends
    PROVE  FindIsSound(f)'
<1>1. /\ queue' = <<>> /\ posted' = <<>> /\ shown' = {} /\ UNCHANGED <<row, agreed>>
      /\ feed' = [g \in P!Finds |-> P!Card("none", P!NotEdited)]
  BY EndsEffect DEF P!Closed
<1>2. feed'[f].at = "none"
  BY <1>1, EditTypes
<1>3. EventsOf(f)' = {} /\ DecisionsOn(f)' = {}
  <2>1. DOMAIN <<>> = {}
    OBVIOUS
  <2>2. QED
    BY <1>1, <2>1 DEF EventsOf, DecisionsOn
<1>4. QED
  BY <1>1, <1>2, <1>3 DEF FindIsSound, FoundOnce, DecidedOnce, ShownIsThere, IsKept

\* A fact or an item is found.
LEMMA FoundIsSound ==
    ASSUME P!TypeOK, NEW f \in P!Finds, P!Found(f), NEW g \in P!Finds, FindIsSound(g)
    PROVE  FindIsSound(g)'
<1> USE DEF P!daemon, P!store, P!socket, P!screen, P!history
<1>0. StoreTypes /\ QueueTypes
  BY TypesOfParts
<1>1. PICK k \in FindKinds : queue' = P!Told(<<[kind |-> k, of |-> f]>>)
  BY DEF P!Found, FindKinds
<1> DEFINE e == [kind |-> k, of |-> f]
<1>2. e \in P!Events /\ queue \in Seq(P!Events) /\ e.kind \in FindKinds /\ e.of = f
  BY <1>0, EventTypes DEF QueueTypes
<1>3. queue' = queue \/ queue' = Append(queue, e)
  BY <1>1, <1>2, AppendIsConcat DEF P!Told
<1>4. /\ UNCHANGED <<feed, posted, agreed, shown>> /\ active # P!None /\ row[f].call = P!None
      /\ row' = [row EXCEPT ![f] = [row[f] EXCEPT !.call = active]]
  BY <1>0 DEF P!Found, StoreTypes
<1> HIDE DEF e
<1>5. \E d \in {0, 1} : SameDecisions(g, d)
  BY <1>0, <1>4, DecisionsStay
<1>6. CASE g # f
  <2>1. \E d \in {0, 1} : SameEvents(g, d)
    BY <1>0, <1>2, <1>3, <1>6, EventsStay
  <2>2. row'[g] = row[g]
    BY <1>0, <1>4, <1>6 DEF StoreTypes
  <2>3. QED
    BY <1>4, <1>5, <2>1, <2>2, Untouched
<1>7. CASE g = f
  <2>1. EventsOf(f) = {} /\ feed[f].at = "none" /\ DecisionsOn(f) = {} /\ row[f].is = "open"
    BY <1>4, <1>7 DEF FindIsSound, FoundOnce, DecidedOnce
  <2>2. /\ row'[f].is = row[f].is /\ row'[f].text = row[f].text /\ row'[f].due = row[f].due
        /\ row'[f].call # P!None
    BY <1>0, <1>4 DEF StoreTypes
  <2>3. DecisionsOn(f)' = DecisionsOn(f)
    BY <1>4 DEF DecisionsOn
  <2>4. \A i, j \in EventsOf(f)' : i = j
    <3>1. CASE queue' = queue
      BY <2>1, <3>1 DEF EventsOf
    <3>2. CASE queue' = Append(queue, e)
      <4>1. \A i \in DOMAIN queue' : /\ i \in DOMAIN queue \/ i = Len(queue) + 1
                                     /\ i \in DOMAIN queue => queue'[i] = queue[i]
        BY <1>2, <3>2, AppendElements
      <4>2. \A i \in EventsOf(f)' : i = Len(queue) + 1
        BY <2>1, <4>1 DEF EventsOf
      <4>3. QED
        BY <4>2
    <3>3. QED
      BY <1>3, <3>1, <3>2
  <2>5. FoundOnce(f)'
    BY <1>4, <2>1, <2>2, <2>3, <2>4 DEF FoundOnce
  <2>6. DecidedOnce(f)'
    BY <1>7, <2>1, <2>2, <2>3 DEF FindIsSound, DecidedOnce
  <2>7. ShownIsThere(f)' /\ IsKept(f)'
    BY <1>4, <1>7, <2>1, <2>2, <2>3 DEF FindIsSound, ShownIsThere, IsKept
  <2>8. QED
    BY <1>7, <2>5, <2>6, <2>7 DEF FindIsSound
<1>8. QED
  BY <1>6, <1>7

\* The operator works on a card.
LEMMA KeysAreSound ==
    ASSUME P!TypeOK, NEW f \in P!Finds, P!Keys(f), NEW g \in P!Finds, FindIsSound(g)
    PROVE  FindIsSound(g)'
<1>0. ScreenTypes /\ QueueTypes /\ HistoryTypes
  BY TypesOfParts
<1>1. feed[f].at # "none" /\ UNCHANGED <<queue, row, shown>>
  BY <1>0, KeysEffect
<1>2. \E d \in {0, 1} : SameEvents(g, d)
  BY <1>0, <1>1, EventsStay
<1>3. CASE Considers(f)
  <2>1. PICK at \in {"shown", "edit"}, edit \in P!Edits : ConsidersAs(f, at, edit)
    BY <1>3 DEF Considers
  <2>2. /\ UNCHANGED <<posted, agreed>> /\ feed' = [feed EXCEPT ![f] = P!Card(at, edit)]
        /\ P!Card(at, edit).at # "none"
    BY <2>1, EditTypes DEF ConsidersAs
  <2>3. \E d \in {0, 1} : SameDecisions(g, d)
    BY <1>0, <2>2, DecisionsStay
  <2>4. CASE g # f
    <3>1. feed'[g] = feed[g]
      BY <1>0, <2>2, <2>4 DEF ScreenTypes
    <3>2. QED
      BY <1>1, <1>2, <2>2, <2>3, <3>1, Untouched
  <2>5. CASE g = f
    <3>1. feed'[f].at # "none"
      BY <1>0, <2>2 DEF ScreenTypes
    <3>2. EventsOf(f)' = EventsOf(f) /\ DecisionsOn(f)' = DecisionsOn(f)
      BY <1>1, <2>2 DEF EventsOf, DecisionsOn
    <3>3. FoundOnce(f)' /\ ShownIsThere(f)' /\ IsKept(f)'
      BY <1>1, <2>2, <2>5, <3>1, <3>2 DEF FindIsSound, FoundOnce, ShownIsThere, IsKept
    <3>4. DecidedOnce(f)'
      BY <1>1, <2>2, <2>5, <3>2 DEF FindIsSound, DecidedOnce
    <3>5. QED
      BY <2>5, <3>3, <3>4 DEF FindIsSound
  <2>6. QED
    BY <2>4, <2>5
<1>4. CASE Decides(f)
  <2>1. PICK kind \in DecisionKinds, edit \in P!Edits : DecidesAs(f, kind, edit)
    BY <1>4 DEF Decides
  <2> DEFINE m == [kind |-> kind, of |-> f, as |-> edit]
             end == [is |-> IF kind = "dismiss" THEN "dismissed" ELSE "confirmed",
                     text |-> edit.text, due |-> edit.due]
  <2>2. /\ posted' = Append(posted, m) /\ feed' = [feed EXCEPT ![f] = P!Card("none", P!NotEdited)]
        /\ agreed' = [agreed EXCEPT ![f] = end]
        /\ kind = "confirm" => edit = P!NotEdited
    BY <2>1 DEF DecidesAs
  <2>3. m \in P!Messages /\ m.kind = kind /\ m.of = f /\ m.as = edit
    BY MessageTypes
  <2> HIDE DEF m
  <2>4. CASE g # f
    <3>1. feed'[g] = feed[g] /\ agreed'[g] = agreed[g]
      BY <1>0, <2>2, <2>4 DEF ScreenTypes, HistoryTypes
    <3>2. \E d \in {0, 1} : SameDecisions(g, d)
      BY <1>0, <2>2, <2>3, <2>4, DecisionsStay
    <3>3. QED
      BY <1>1, <1>2, <3>1, <3>2, Untouched
  <2>5. CASE g = f
    <3>1. /\ row[f].is = "open" /\ row[f].call # P!None
          /\ EventsOf(f) = {} /\ DecisionsOn(f) = {}
      BY <1>1, <2>5 DEF FindIsSound, FoundOnce
    <3>2. feed'[f].at = "none" /\ agreed'[f] = end
      BY <1>0, <2>2, EditTypes DEF ScreenTypes, HistoryTypes
    <3>3. EventsOf(f)' = {}
      BY <1>1, <3>1 DEF EventsOf
    <3>4. \A i \in DOMAIN posted' : /\ i \in DOMAIN posted \/ i = Len(posted) + 1
                                    /\ i \in DOMAIN posted => posted'[i] = posted[i]
      BY <1>0, <2>2, <2>3, AppendElements DEF QueueTypes
    <3>5. Len(posted) + 1 \in DOMAIN posted' /\ posted'[Len(posted) + 1] = m
      BY <1>0, <2>2, <2>3, AppendElements DEF QueueTypes
    <3>6. DecisionsOn(f)' = {Len(posted) + 1}
      <4>1. \A i \in DecisionsOn(f)' : i = Len(posted) + 1
        BY <3>1, <3>4 DEF DecisionsOn
      <4>2. Len(posted) + 1 \in DecisionsOn(f)'
        BY <2>3, <3>5 DEF DecisionsOn
      <4>3. QED
        BY <4>1, <4>2
    <3>7. FoundOnce(f)'
      BY <1>1, <2>5, <3>1, <3>2, <3>3 DEF FindIsSound, FoundOnce
    <3>8. DecidedOnce(f)'
      <4>1. \A i \in DecisionsOn(f)' : posted'[i] = m
        BY <3>5, <3>6
      <4>2. row'[f].is = "open" /\ row'[f].call # P!None
        BY <1>1, <3>1
      <4>3. row'[f].text = "said" /\ row'[f].due = "said"
        BY <1>1, <2>5, <3>1 DEF FindIsSound, DecidedOnce
      <4>4. QED
        BY <2>2, <2>3, <3>2, <3>6, <4>1, <4>2, <4>3 DEF DecidedOnce
    <3>9. ShownIsThere(f)' /\ IsKept(f)'
      BY <1>1, <3>1, <3>6 DEF ShownIsThere, IsKept
    <3>10. QED
      BY <2>5, <3>7, <3>8, <3>9 DEF FindIsSound
  <2>6. QED
    BY <2>4, <2>5
<1>5. QED
  BY <1>0, <1>3, <1>4, KeysEffect

\* An event is taken from the queue: a fact or an item that is told of is shown.
LEMMA DrainIsSound ==
    ASSUME P!TypeOK, P!Drain, NEW g \in P!Finds, FindIsSound(g)
    PROVE  FindIsSound(g)'
<1> USE DEF P!daemon, P!store, P!socket, P!screen, P!history
<1> DEFINE ev == Head(queue)
<1>0. ScreenTypes /\ QueueTypes
  BY TypesOfParts
<1>1. /\ queue # <<>> /\ queue' = Tail(queue) /\ UNCHANGED <<row, posted, agreed>>
      /\ ev \in P!Events
  BY <1>0, HeadTypes DEF P!Drain
<1>2. \/ UNCHANGED <<feed, shown>> /\ ev.kind \notin FindKinds
      \/ /\ ev.kind \in FindKinds
         /\ feed' = [feed EXCEPT ![ev.of] = P!Card("shown", P!NotEdited)]
         /\ shown' = shown \cup {ev.of}
  BY DEF P!Drain, FindKinds
<1>3. \E d \in {0, 1} : SameDecisions(g, d)
  BY <1>0, <1>1, DecisionsStay
<1>4. CASE ~ (ev.kind \in FindKinds /\ ev.of = g)
  <2>1. \E d \in {0, 1} : SameEvents(g, d)
    BY <1>0, <1>1, <1>4, EventsStay
  <2>2. feed'[g] = feed[g] /\ (g \in shown' => g \in shown)
    BY <1>0, <1>2, <1>4 DEF ScreenTypes
  <2>3. QED
    BY <1>1, <1>3, <2>1, <2>2, Untouched
<1>5. CASE ev.kind \in FindKinds /\ ev.of = g
  <2>1. /\ ev = queue[1] /\ 1 \in DOMAIN queue
        /\ \A i \in DOMAIN queue' : i + 1 \in DOMAIN queue /\ queue'[i] = queue[i + 1] /\ i + 1 # 1
    BY <1>0, <1>1, TailElements DEF QueueTypes
  <2>2. 1 \in EventsOf(g)
    BY <1>5, <2>1 DEF EventsOf
  <2>3. \A i \in EventsOf(g)' : i + 1 \in EventsOf(g) /\ i + 1 # 1
    BY <2>1 DEF EventsOf
  <2>4. EventsOf(g)' = {}
    BY <2>2, <2>3 DEF FindIsSound, FoundOnce
  <2>5. row[g].is = "open" /\ row[g].call # P!None /\ DecisionsOn(g) = {}
    BY <2>2 DEF FindIsSound, FoundOnce
  <2>6. DecisionsOn(g)' = DecisionsOn(g)
    BY <1>1 DEF DecisionsOn
  <2>7. feed'[g].at = "shown"
    BY <1>0, <1>2, <1>5, EditTypes DEF ScreenTypes
  <2>8. FoundOnce(g)' /\ ShownIsThere(g)' /\ IsKept(g)'
    BY <1>1, <2>4, <2>5, <2>6, <2>7 DEF FindIsSound, FoundOnce, ShownIsThere, IsKept
  <2>9. DecidedOnce(g)'
    BY <1>1, <2>5, <2>6 DEF FindIsSound, DecidedOnce
  <2>10. QED
    BY <2>8, <2>9 DEF FindIsSound
<1>6. QED
  BY <1>4, <1>5

\* The app writes what was decided.
LEMMA DecisionIsSound ==
    ASSUME P!TypeOK, P!StoreDecision, NEW g \in P!Finds, FindIsSound(g)
    PROVE  FindIsSound(g)'
<1> USE DEF P!daemon, P!store, P!socket, P!screen, P!history
<1> DEFINE msg == Head(posted)
<1>0. StoreTypes /\ ScreenTypes /\ QueueTypes
  BY TypesOfParts
<1>1. /\ posted # <<>> /\ posted' = Tail(posted) /\ msg.kind \in DecisionKinds
      /\ UNCHANGED <<queue, feed, agreed, shown>>
      /\ row' = [row EXCEPT ![msg.of] = P!Stored(row[msg.of], msg)]
  BY <1>0 DEF P!StoreDecision, P!Handling, DecisionKinds, StoreTypes
<1>2. msg \in P!Messages /\ msg.of \in P!Finds
  BY <1>0, <1>1, HeadTypes, MessageTypes
<1>3. \E d \in {0, 1} : SameEvents(g, d)
  BY <1>0, <1>1, EventsStay
<1>4. CASE msg.of # g
  <2>1. \E d \in {0, 1} : SameDecisions(g, d)
    BY <1>0, <1>1, <1>4, DecisionsStay
  <2>2. row'[g] = row[g]
    BY <1>0, <1>1, <1>4 DEF StoreTypes
  <2>3. QED
    BY <1>1, <1>3, <2>1, <2>2, Untouched
<1>5. CASE msg.of = g
  <2>1. /\ msg = posted[1] /\ 1 \in DOMAIN posted
        /\ \A i \in DOMAIN posted' :
              i + 1 \in DOMAIN posted /\ posted'[i] = posted[i + 1] /\ i + 1 # 1
    BY <1>0, <1>1, TailElements DEF QueueTypes
  <2>2. 1 \in DecisionsOn(g)
    BY <1>1, <1>5, <2>1 DEF DecisionsOn
  <2>3. \A i \in DecisionsOn(g)' : i + 1 \in DecisionsOn(g) /\ i + 1 # 1
    BY <2>1 DEF DecisionsOn
  <2>4. DecisionsOn(g)' = {}
    BY <2>2, <2>3 DEF FindIsSound, DecidedOnce
  <2>5. /\ row[g].is = "open" /\ row[g].call # P!None
        /\ row[g].text = "said" /\ row[g].due = "said"
        /\ agreed[g] = [is |-> IF msg.kind = "dismiss" THEN "dismissed" ELSE "confirmed",
                        text |-> msg.as.text, due |-> msg.as.due]
        /\ msg.kind = "confirm" => msg.as = P!NotEdited
    BY <2>1, <2>2 DEF FindIsSound, DecidedOnce
  <2>6. feed[g].at = "none" /\ EventsOf(g) = {}
    BY <2>2 DEF FindIsSound, FoundOnce
  <2>7. EventsOf(g)' = {}
    BY <1>1, <2>6 DEF EventsOf
  <2>8. row[g] \in [call : 0 .. MaxCalls, text : P!Texts, due : P!Texts, is : P!Decisions]
    BY <1>0 DEF StoreTypes
  <2>9. row'[g] = P!Stored(row[g], msg)
    BY <1>0, <1>1, <1>5 DEF StoreTypes
  <2>10. /\ row'[g].call # P!None
         /\ row'[g].is = (IF msg.kind = "dismiss" THEN "dismissed" ELSE "confirmed")
         /\ row'[g].text = (IF msg.kind = "override" THEN msg.as.text ELSE "said")
         /\ row'[g].due = (IF msg.kind = "override" /\ msg.as.due # "" THEN msg.as.due
                           ELSE "said")
    <3> DEFINE r == row[g]
    <3>1. /\ P!Stored(r, msg).call = r.call
          /\ P!Stored(r, msg).is = (IF msg.kind = "dismiss" THEN "dismissed" ELSE "confirmed")
          /\ P!Stored(r, msg).text = (IF msg.kind = "override" THEN msg.as.text ELSE r.text)
          /\ P!Stored(r, msg).due = (IF msg.kind = "override" /\ msg.as.due # "" THEN msg.as.due
                                   ELSE r.due)
      BY <1>1, <1>2, <2>8, RowDecided
    <3>2. QED
      BY <2>5, <2>9, <3>1
  <2>11. FoundOnce(g)'
    BY <1>1, <2>6, <2>7, <2>10 DEF FoundOnce
  <2>12. DecidedOnce(g)' /\ ShownIsThere(g)'
    BY <2>4, <2>10 DEF DecidedOnce, ShownIsThere
  <2>13. IsKept(g)'
    <3>1. agreed'[g] = agreed[g]
      BY <1>1
    <3>2. CASE msg.kind = "dismiss"
      BY <2>10, <3>2 DEF IsKept
    <3>3. CASE msg.kind = "confirm"
      <4>1. agreed[g].is = "confirmed" /\ agreed[g].text = "said" /\ agreed[g].due = "said"
        BY <2>5, <3>3, EditTypes
      <4>2. row'[g].text = "said" /\ row'[g].due = "said"
        BY <2>10, <3>3
      <4>3. QED
        BY <3>1, <4>1, <4>2 DEF IsKept
    <3>4. CASE msg.kind = "override"
      <4>1. /\ agreed[g].is = "confirmed" /\ agreed[g].text = msg.as.text
            /\ agreed[g].due = msg.as.due
        BY <2>5, <3>4
      <4>2. row'[g].text = msg.as.text /\ (msg.as.due # "" => row'[g].due = msg.as.due)
        BY <2>10, <3>4
      <4>3. QED
        BY <3>1, <4>1, <4>2 DEF IsKept
    <3>5. QED
      BY <1>1, <3>2, <3>3, <3>4 DEF DecisionKinds
  <2>14. QED
    BY <2>11, <2>12, <2>13 DEF FindIsSound
<1>6. QED
  BY <1>4, <1>5

\* Events about calls, and answers about disclosure, leave facts and items alone.
LEMMA OthersAreSound ==
    ASSUME P!TypeOK, MaxCalls \in Nat, farOn => active # P!None, NEW g \in P!Finds, FindIsSound(g),
           \/ UNCHANGED P!vars \/ P!CallConnected \/ P!FarLost \/ P!CallEnded \/ P!HandleCommand
           \/ P!HandlerFails \/ P!DaemonDies \/ P!DaemonStarts
           \/ \E c \in P!Calls, answer \in P!Answers : P!Answer(c, answer)
           \/ P!SendAnswer \/ P!AckTimesOut \/ P!Open
    PROVE  FindIsSound(g)'
<1> USE DEF P!daemon, P!store, P!socket, P!screen, P!history
<1>0. LineTypes /\ QueueTypes /\ queue \in Seq(P!Events)
  BY TypesOfParts DEF QueueTypes
<1>1. ASSUME UNCHANGED <<feed, row, agreed, shown>>, \E d \in {0, 1} : SameEvents(g, d),
             \E d \in {0, 1} : SameDecisions(g, d)
      PROVE  FindIsSound(g)'
  BY <1>1, Untouched
<1>2. CASE UNCHANGED P!vars \/ P!HandleCommand \/ P!DaemonStarts \/ P!AckTimesOut \/ P!Open
  <2>1. UNCHANGED <<queue, posted, feed, row, agreed, shown>>
    BY <1>2 DEF P!vars, P!HandleCommand, P!DaemonStarts, P!AckTimesOut, P!Open
  <2>2. QED
    BY <1>0, <1>1, <2>1, EventsStay, DecisionsStay
<1>3. CASE P!CallConnected
  <2> DEFINE d == [kind |-> "started", of |-> calls']
             e == [kind |-> "disclosure_needed", of |-> calls']
  <2>1. /\ UNCHANGED <<posted, feed, row, agreed, shown>>
        /\ queue' = queue \/ queue' = queue \o <<d, e>>
    BY <1>3 DEF P!CallConnected, P!Told
  <2>2. /\ d \in P!Events /\ e \in P!Events
        /\ d.kind \notin FindKinds /\ e.kind \notin FindKinds
    BY <1>0, <1>3, NextCall, EventTypes
  <2> HIDE DEF d, e
  <2>3. queue' = queue \/ queue' = Append(Append(queue, d), e)
    BY <1>0, <2>1, <2>2, AppendTwo
  <2>4. CASE queue' = queue
    BY <1>0, <1>1, <2>1, <2>4, EventsStay, DecisionsStay
  <2>5. CASE queue' = Append(Append(queue, d), e)
    <3>1. /\ Append(queue, d) \in Seq(P!Events)
          /\ \A i \in DOMAIN queue : /\ i \in DOMAIN Append(queue, d)
                                     /\ Append(queue, d)[i] = queue[i]
          /\ \A i \in DOMAIN Append(queue, d) : \/ i \in DOMAIN queue
                                                \/ Append(queue, d)[i] = d
      BY <1>0, <2>2, AppendElements
    <3>2. /\ \A i \in DOMAIN Append(queue, d) : /\ i \in DOMAIN queue'
                                                /\ queue'[i] = Append(queue, d)[i]
          /\ \A i \in DOMAIN queue' : \/ i \in DOMAIN Append(queue, d)
                                      \/ queue'[i] = e
      BY <2>2, <2>5, <3>1, AppendElements
    <3>3. EventsOf(g)' = EventsOf(g)
      BY <2>2, <3>1, <3>2 DEF EventsOf
    <3>4. DecisionsOn(g)' = DecisionsOn(g)
      BY <2>1 DEF DecisionsOn
    <3>5. QED
      BY <2>1, <3>3, <3>4 DEF FindIsSound, FoundOnce, DecidedOnce, ShownIsThere, IsKept
  <2>6. QED
    BY <2>3, <2>4, <2>5
<1>4. ASSUME NEW e \in P!Events, e.kind \notin FindKinds,
             queue' = queue \/ queue' = Append(queue, e),
             UNCHANGED <<posted, feed, row, agreed, shown>>
      PROVE  FindIsSound(g)'
  BY <1>0, <1>1, <1>4, EventsStay, DecisionsStay
<1>5. CASE P!FarLost \/ P!CallEnded
  <2>1. /\ UNCHANGED <<posted, feed, row, agreed, shown>>
        /\ \/ UNCHANGED queue
           \/ /\ active # P!None
              /\ \E k \in {"far_lost", "ended"} : queue' = P!Told(<<[kind |-> k, of |-> active]>>)
    BY <1>5 DEF P!FarLost, P!CallEnded
  <2>2. active # P!None => active \in P!Calls
    BY <1>0 DEF LineTypes, P!Calls, P!None
  <2>3. CASE UNCHANGED queue
    BY <1>0, <1>1, <2>1, <2>3, EventsStay, DecisionsStay
  <2>4. ASSUME active # P!None, NEW k \in {"far_lost", "ended"},
               queue' = P!Told(<<[kind |-> k, of |-> active]>>)
        PROVE  FindIsSound(g)'
    <3> DEFINE e == [kind |-> k, of |-> active]
    <3>1. e \in P!Events /\ e.kind \notin FindKinds
      BY <2>2, <2>4, EventTypes
    <3>2. queue' = queue \/ queue' = queue \o <<e>>
      BY <2>4 DEF P!Told
    <3> HIDE DEF e
    <3>3. QED
      BY <1>0, <1>4, <2>1, <3>1, <3>2, AppendIsConcat
  <2>5. QED
    BY <2>1, <2>3, <2>4
<1>6. CASE P!HandlerFails \/ P!DaemonDies
  <2> DEFINE e == [kind |-> "disconnected", of |-> P!None]
  <2>1. /\ UNCHANGED <<posted, feed, row, agreed, shown>>
        /\ queue' = queue \/ queue' = Append(queue, e)
    BY <1>6 DEF P!HandlerFails, P!DaemonDies, P!Disconnected
  <2>2. e \in P!Events /\ e.kind \notin FindKinds
    BY EventTypes DEF FindKinds
  <2> HIDE DEF e
  <2>3. QED
    BY <1>4, <2>1, <2>2
<1>7. ASSUME NEW c \in P!Calls, NEW answer \in P!Answers, P!Answer(c, answer)
      PROVE  FindIsSound(g)'
  <2> DEFINE m == [kind |-> answer, of |-> c]
  <2>1. UNCHANGED <<queue, feed, row, agreed, shown>> /\ posted' = Append(posted, m)
    BY <1>7 DEF P!Answer, P!Post
  <2>2. m \in P!Messages /\ m.kind \notin DecisionKinds
    BY MessageTypes
  <2> HIDE DEF m
  <2>3. QED
    BY <1>0, <1>1, <2>1, <2>2, EventsStay, DecisionsStay
<1>8. CASE P!SendAnswer
  <2>1. /\ UNCHANGED <<queue, feed, row, agreed, shown>>
        /\ posted # <<>> /\ posted' = Tail(posted) /\ Head(posted).kind \in P!Answers
    BY <1>8 DEF P!SendAnswer, P!Handling
  <2>2. Head(posted).kind \notin DecisionKinds
    BY <2>1, MessageTypes
  <2>3. QED
    BY <1>0, <1>1, <2>1, <2>2, EventsStay, DecisionsStay
<1>9. QED
  BY <1>2, <1>3, <1>5, <1>6, <1>7, <1>8

----------------------------------------------------------------------------
(* The invariant.                                                           *)

LEMMA InitInv ==
    ASSUME MaxCalls \in Nat, MaxFaults \in Nat, P!Init
    PROVE  CardsInv
<1>1. /\ wire = <<>> /\ queue = <<>> /\ posted = <<>> /\ farOn = FALSE /\ active = P!None
      /\ shown = {} /\ row = [f \in P!Finds |-> [call |-> P!None, text |-> "said", due |-> "said",
                                              is |-> "open"]]
      /\ feed = [f \in P!Finds |-> P!Card("none", P!NotEdited)]
      /\ recorded = [c \in P!Calls |-> "none"]
  BY DEF P!Init
<1>2. DOMAIN <<>> = {}
  OBVIOUS
<1>3. LineTypes /\ StoreTypes
  <2>1. 0 \in 0 .. MaxCalls /\ 0 \in 0 .. MaxFaults
    OBVIOUS
  <2>2. LineTypes
    BY <2>1 DEF P!Init, LineTypes, P!None
  <2>3. StoreTypes
    BY <1>1, <2>1 DEF StoreTypes, P!Texts, P!Decisions, P!None
  <2>4. QED
    BY <2>2, <2>3
<1>4. QueueTypes
  BY <1>1 DEF QueueTypes
<1>5. ScreenTypes
  <2>1. P!Card("none", P!NotEdited) \in [at : {"none", "shown", "edit"}, text : P!Texts, due : P!Texts]
    BY EditTypes
  <2>2. QED
    BY <2>1 DEF P!Init, ScreenTypes, P!None
<1>6. HistoryTypes
  BY DEF P!Init, HistoryTypes, P!Texts, P!Decisions
<1>7. P!TypeOK
  BY <1>3, <1>4, <1>5, <1>6 DEF P!TypeOK, LineTypes, StoreTypes, QueueTypes, ScreenTypes,
     HistoryTypes, Commands
<1>8. AnswersArePressed
  BY <1>1, <1>2 DEF AnswersArePressed, P!Answers
<1>9. ASSUME NEW f \in P!Finds
      PROVE  FindIsSound(f)
  <2>1. EventsOf(f) = {} /\ DecisionsOn(f) = {}
    BY <1>1, <1>2 DEF EventsOf, DecisionsOn
  <2>2. feed[f].at = "none"
    BY <1>1, EditTypes
  <2>3. QED
    BY <1>1, <2>1, <2>2 DEF FindIsSound, FoundOnce, DecidedOnce, ShownIsThere, IsKept
<1>10. QED
  BY <1>7, <1>8, <1>9 DEF CardsInv

LEMMA NextInv ==
    ASSUME MaxCalls \in Nat, MaxFaults \in Nat, CardsInv, [P!Next]_P!vars
    PROVE  CardsInv'
<1>1. /\ P!TypeOK
      /\ AnswersArePressed
      /\ farOn => active # P!None
      /\ active # P!None => onLine # P!None
  BY DEF CardsInv, AnswersArePressed
<1>2. P!TypeOK'
  BY <1>1, CardTypesStep
<1>3. AnswersArePressed'
  BY <1>1, AnswersStep
<1>4. ASSUME NEW g \in P!Finds
      PROVE  FindIsSound(g)'
  <2>1. FindIsSound(g)
    BY DEF CardsInv
  <2>2. CASE Ends
    BY <2>1, <2>2, EndIsSound
  <2>3. ASSUME NEW f \in P!Finds, P!Found(f)
        PROVE  FindIsSound(g)'
    BY <1>1, <2>1, <2>3, FoundIsSound
  <2>4. ASSUME NEW f \in P!Finds, P!Keys(f)
        PROVE  FindIsSound(g)'
    BY <1>1, <2>1, <2>4, KeysAreSound
  <2>5. CASE P!Drain
    BY <1>1, <2>1, <2>5, DrainIsSound
  <2>6. CASE P!StoreDecision
    BY <1>1, <2>1, <2>6, DecisionIsSound
  <2>7. QED
    BY <1>1, <2>1, <2>2, <2>3, <2>4, <2>5, <2>6, NextSteps, OthersAreSound
<1>5. QED
  BY <1>2, <1>3, <1>4 DEF CardsInv

LEMMA CardsInvSpec ==
    ASSUME MaxCalls \in Nat, MaxFaults \in Nat
    PROVE  P!Spec => []CardsInv
<1>1. ASSUME CardsInv, [P!Next]_P!vars
      PROVE  CardsInv'
  BY <1>1, NextInv
<1>2. QED
  BY InitInv, <1>1, PTL DEF P!Spec

\* In every run, what the daemon records for a call and its capture of the far party are
\* what the operator answered in that call's card: the answer never reaches another call,
\* and no capture outlives the answer it was started for.
THEOREM OnlyWhatWasAnswered == P!Spec => []AnswersAreTheOperators
<1> USE BoundsAssumption, FindBoundsAssumption
<1>0. P!Spec => []CardsInv
  BY CardsInvSpec
<1>1. CardsInv => P!AnswersAreTheOperators
  BY DEF CardsInv, AnswersArePressed, P!AnswersAreTheOperators
<1>2. QED
  BY <1>0, <1>1, PTL DEF AnswersAreTheOperators

\* In every run, no fact or action item that the console has shown leaves the panel
\* undecided, and what was agreed to is in the store in the words agreed to.
THEOREM NothingAgreedIsLost == P!Spec => []FindsAreKept
<1> USE BoundsAssumption, FindBoundsAssumption
<1>0. P!Spec => []CardsInv
  BY CardsInvSpec
<1>1. ASSUME CardsInv
      PROVE  P!FindsAreKept
  <2>1. P!KeptAsAgreed
    BY <1>1 DEF CardsInv, FindIsSound, IsKept, P!KeptAsAgreed
  <2>2. ASSUME NEW f \in shown
        PROVE  \/ feed[f].at # "none" \/ row[f].is # "open"
               \/ \E i \in DOMAIN posted : posted[i].of = f
    <3>1. f \in P!Finds
      BY <1>1 DEF CardsInv, P!TypeOK
    <3>2. ShownIsThere(f)
      BY <1>1, <3>1 DEF CardsInv, FindIsSound
    <3>3. QED
      BY <3>2 DEF ShownIsThere, DecisionsOn
  <2>3. QED
    BY <2>1, <2>2 DEF P!FindsAreKept, P!NothingFallsOffThePanel
<1>2. QED
  BY <1>0, <1>1, PTL DEF FindsAreKept

----------------------------------------------------------------------------
(* Lists: the call lists.                                                   *)

\* What the skill is about to write is about a list or an item there has been, and the
\* list it is about to create is the call's only one.
SkillIsSound ==
    /\ skill.do \in {"start", "create"} => skill.text \in Sessions
    /\ skill.do = "start" =>
          skill.on \in L!ListIds /\ lists[skill.on] = [of |-> skill.text, status |-> "active"]
    /\ skill.do = "create" =>
          \A l \in L!ListIds : lists[l] # [of |-> skill.text, status |-> "active"]
    /\ skill.do = "add" => skill.on \in L!ListIds /\ skill.text \in ItemTexts
    /\ skill.do \in {"remove", "check"} => skill.on \in L!ItemIds

\* Some thread has yet to ask for an item that is "pending", and some to store the result
\* of one that is "done" and has none.
IsUnderWay(i) ==
    L!Exists(i) /\ i \notin stuck =>
        /\ items[i].lookup = "pending" => \E t \in Lookups : lookup[t] = [item |-> i, at |-> "asks"]
        /\ items[i].lookup = "done" =>
              i \in results \/ \E t \in Lookups : lookup[t] = [item |-> i, at |-> "done"]

\* A lookup thread at work has an item.
LookupsHaveItems == \A t \in Lookups : lookup[t].at # "none" => lookup[t].item \in L!ItemIds

\* The inductive invariant.
ListsInv ==
    /\ L!TypeOK
    /\ SkillIsSound
    /\ LookupsHaveItems
    /\ L!OneActiveList
    /\ \A i \in L!ItemIds : IsUnderWay(i)

----------------------------------------------------------------------------
\* First is in a set of numbers.
LEMMA FirstIsIn ==
    ASSUME NEW S \in SUBSET Nat, S # {}
    PROVE  L!First(S) \in S
<1>1. IsWellFoundedOn(OpToRel(<, Nat), Nat)
  BY NatLessThanWellFounded
<1>2. PICK i \in S : \A j \in S : ~ (<<j, i>> \in OpToRel(<, Nat))
  BY <1>1, WFMin
<1>3. i \in Nat /\ \A j \in S : j \in Nat /\ ~ (j < i)
  BY <1>2 DEF OpToRel
<1>4. \A j \in S : i <= j
  BY <1>3
<1>5. QED
  BY <1>4 DEF L!First

\* The next id has not been issued.
LEMMA NewListIsFree ==
    ASSUME L!NewList \in L!ListIds
    PROVE  lists[L!NewList] = L!NoList
<1> DEFINE S == {l \in L!ListIds : lists[l] = L!NoList} \cup {MaxLists + 1}
<1>1. S \subseteq Nat /\ S # {} /\ MaxLists + 1 \notin L!ListIds
  BY ListBounds DEF L!ListIds
<1>2. L!First(S) \in S
  BY <1>1, FirstIsIn
<1>3. QED
  BY <1>1, <1>2 DEF L!NewList

LEMMA NewItemIsFree ==
    ASSUME L!NewItem \in L!ItemIds
    PROVE  ~ items[L!NewItem].ever
<1> DEFINE S == {i \in L!ItemIds : ~ items[i].ever} \cup {MaxItems + 1}
<1>1. S \subseteq Nat /\ S # {} /\ MaxItems + 1 \notin L!ItemIds
  BY ListBounds DEF L!ItemIds
<1>2. L!First(S) \in S
  BY <1>1, FirstIsIn
<1>3. QED
  BY <1>1, <1>2 DEF L!NewItem

\* Active finds the active list of a call, where there is one.
LEMMA ActiveIsActive ==
    ASSUME L!OneActiveList, NEW s \in Sessions
    PROVE  /\ L!Active(s) # L!None =>
                 L!Active(s) \in L!ListIds /\ lists[L!Active(s)] = [of |-> s, status |-> "active"]
           /\ L!Active(s) = L!None =>
                 \A l \in L!ListIds : lists[l] # [of |-> s, status |-> "active"]
<1> DEFINE found == {l \in L!ListIds : lists[l] = [of |-> s, status |-> "active"]}
<1>1. CASE found = {}
  BY <1>1 DEF L!Active
<1>2. CASE found # {}
  <2>1. PICK l \in found : TRUE
    BY <1>2
  <2>2. \A j \in found : j = l /\ j \in Nat /\ j # L!None
    BY <2>1 DEF L!OneActiveList, L!ListIds, L!None
  <2>3. \A j \in found : j <= l
    BY <2>2
  <2>4. L!Last(found) \in found
    BY <2>1, <2>3 DEF L!Last
  <2>5. L!Active(s) = L!Last(found)
    BY <1>2 DEF L!Active
  <2>6. QED
    BY <2>2, <2>4, <2>5
<1>3. QED
  BY <1>1, <1>2

LEMMA IdsAreSome == L!None \notin L!ListIds /\ L!None \notin L!ItemIds
BY DEF L!None, L!ListIds, L!ItemIds

LEMMA InitListsInv == L!Init => ListsInv
<1> SUFFICES ASSUME L!Init
             PROVE  ListsInv
  OBVIOUS
<1>1. L!TypeOK
  BY DEF L!Init, L!TypeOK, L!NoList, L!NoItem, L!Quiet, L!Closed, L!NoLookup, L!None
<1>2. SkillIsSound
  BY DEF L!Init, SkillIsSound, L!Quiet
<1>3. L!OneActiveList /\ LookupsHaveItems
  BY DEF L!Init, L!OneActiveList, L!NoList, LookupsHaveItems, L!NoLookup
<1>4. \A i \in L!ItemIds : IsUnderWay(i)
  BY DEF L!Init, IsUnderWay, L!Exists, L!NoItem
<1>5. QED
  BY <1>1, <1>2, <1>3, <1>4 DEF ListsInv

----------------------------------------------------------------------------
(* Types.                                                                   *)

ListRows == [of : Sessions, status : {"active", "complete"}] \cup {L!NoList}
ItemRows == [list : L!ListIds \cup {L!None}, text : ItemTexts \cup {""}, checked : BOOLEAN,
             lookup : {"none", "pending", "done"}, ever : BOOLEAN]
Tasks == [do : {"none", "start", "create", "autocreate", "add", "remove", "check"},
          on : Nat, text : ItemTexts \cup Sessions \cup {""}, lookup : BOOLEAN]
Views == [list : L!ListIds \cup {L!None}, rows : SUBSET L!ItemIds,
          toggles : L!ItemIds \cup {L!None}, to : BOOLEAN]
Searches == [item : L!ItemIds \cup {L!None}, at : {"none", "asks", "done"}]

LEMMA ListTypesOfParts ==
    /\ L!TypeOK <=> /\ lists \in [L!ListIds -> ListRows]
                    /\ items \in [L!ItemIds -> ItemRows]
                    /\ results \subseteq L!ItemIds /\ stuck \subseteq L!ItemIds
                    /\ skill \in Tasks /\ view \in Views
                    /\ lookup \in [Lookups -> Searches]
    /\ L!TypeOK' <=> /\ lists' \in [L!ListIds -> ListRows]
                     /\ items' \in [L!ItemIds -> ItemRows]
                     /\ results' \subseteq L!ItemIds /\ stuck' \subseteq L!ItemIds
                     /\ skill' \in Tasks /\ view' \in Views
                     /\ lookup' \in [Lookups -> Searches]
BY DEF L!TypeOK, ListRows, ItemRows, Tasks, Views, Searches

LEMMA NothingIsTyped ==
    /\ L!NoList \in ListRows /\ L!NoItem \in ItemRows /\ L!Quiet \in Tasks
    /\ L!Closed \in Views /\ L!NoLookup \in Searches
BY DEF ListRows, ItemRows, Tasks, Views, Searches, L!NoList, L!NoItem, L!Quiet, L!Closed, L!NoLookup, L!None

LEMMA TaskTyped ==
    ASSUME NEW what \in {"none", "start", "create", "autocreate", "add", "remove", "check"},
           NEW on \in Nat, NEW text \in ItemTexts \cup Sessions, NEW looks \in BOOLEAN,
           L!Does(what, on, text, looks)
    PROVE  skill' \in Tasks
BY DEF L!Does, Tasks

LEMMA CreateTypes ==
    ASSUME lists \in [L!ListIds -> ListRows], NEW s \in Sessions, L!CreateList(s)
    PROVE  lists' \in [L!ListIds -> ListRows]
BY DEF L!CreateList, ListRows

LEMMA StatusTypes ==
    ASSUME items \in [L!ItemIds -> ItemRows], NEW i \in L!ItemIds,
           NEW status \in {"pending", "done"}, L!SetStatus(i, status)
    PROVE  items' \in [L!ItemIds -> ItemRows]
<1>1. [items[i] EXCEPT !.lookup = status] \in ItemRows
  BY DEF ItemRows
<1>2. QED
  BY <1>1 DEF L!SetStatus

LEMMA RemoveTypes ==
    ASSUME items \in [L!ItemIds -> ItemRows], NEW i \in L!ItemIds, L!RemoveItem(i)
    PROVE  items' \in [L!ItemIds -> ItemRows]
<1>1. [L!NoItem EXCEPT !.ever = items[i].ever] \in ItemRows
  BY DEF ItemRows, L!NoItem
<1>2. QED
  BY <1>1 DEF L!RemoveItem

LEMMA CheckTypes ==
    ASSUME items \in [L!ItemIds -> ItemRows], NEW i \in L!ItemIds, NEW checked \in BOOLEAN,
           L!CheckItem(i, checked)
    PROVE  items' \in [L!ItemIds -> ItemRows]
<1>1. [items[i] EXCEPT !.checked = checked] \in ItemRows
  BY DEF ItemRows
<1>2. QED
  BY <1>1 DEF L!CheckItem

LEMMA LookupTypes ==
    ASSUME lookup \in [Lookups -> Searches], NEW i \in L!ItemIds, L!StartLookup(i)
    PROVE  lookup' \in [Lookups -> Searches]
BY DEF L!StartLookup, Searches

LEMMA GoesTypes ==
    ASSUME lookup \in [Lookups -> Searches], NEW t \in Lookups, NEW place \in {"none", "done"},
           L!Goes(t, place)
    PROVE  lookup' \in [Lookups -> Searches]
<1>1. [lookup[t] EXCEPT !.at = place] \in Searches /\ L!NoLookup \in Searches
  BY NothingIsTyped DEF Searches
<1>2. QED
  BY <1>1 DEF L!Goes

\* What is found are items.
LEMMA FirstOfFound ==
    ASSUME NEW l, NEW text, L!Matching(l, text) # {}
    PROVE  L!First(L!Matching(l, text)) \in L!ItemIds
<1>1. L!Matching(l, text) \subseteq L!ItemIds /\ L!ItemIds \subseteq Nat
  BY DEF L!Matching, L!ItemsOf, L!ItemIds
<1>2. QED
  BY <1>1, FirstIsIn

\* Every step keeps the types.
LEMMA ListTypesStep ==
    ASSUME L!TypeOK, SkillIsSound, LookupsHaveItems, L!OneActiveList, [L!Next]_L!vars
    PROVE  L!TypeOK'
<1> USE ListTypesOfParts, NothingIsTyped
<1>0. L!ListIds \subseteq Nat /\ L!ItemIds \subseteq Nat /\ L!None \in Nat
  BY DEF L!ListIds, L!ItemIds, L!None
<1>1. ASSUME NEW s \in Sessions, NEW replace \in BOOLEAN, L!Start(s, replace)
      PROVE  L!TypeOK'
  <2>1. L!Active(s) \in Nat
    BY <1>0, ActiveIsActive
  <2>2. skill' \in Tasks
    BY <1>1, <2>1, TaskTyped DEF L!Start
  <2>3. QED
    BY <1>1, <2>2 DEF L!Start, L!tables
<1>2. ASSUME NEW s \in Sessions, NEW text \in ItemTexts, NEW looks \in BOOLEAN, L!Add(s, text, looks)
      PROVE  L!TypeOK'
  <2>1. CASE L!Active(s) # L!None
    <3>1. L!Active(s) \in Nat
      BY <1>0, ActiveIsActive
    <3>2. skill' \in Tasks
      BY <1>2, <2>1, <3>1, TaskTyped DEF L!Add
    <3>3. QED
      BY <1>2, <2>1, <3>2 DEF L!Add, L!tables
  <2>2. CASE L!Active(s) = L!None
    <3>1. L!CreateList(s) /\ L!NewList \in Nat /\ L!Does("add", L!NewList, text, looks)
      BY <1>0, <1>2, <2>2 DEF L!Add, L!CreateList
    <3>2. skill' \in Tasks /\ lists' \in [L!ListIds -> ListRows]
      BY <3>1, TaskTyped, CreateTypes
    <3>3. QED
      BY <1>2, <3>1, <3>2 DEF L!Add, L!CreateList
  <2>3. QED
    BY <2>1, <2>2
<1>3. ASSUME NEW s \in Sessions, NEW text \in ItemTexts, NEW what \in {"remove", "check"},
             L!Find(s, text, what)
      PROVE  L!TypeOK'
  <2>1. L!First(L!Matching(L!Active(s), text)) \in Nat
    BY <1>0, <1>3, FirstOfFound DEF L!Find
  <2>2. skill' \in Tasks
    BY <1>3, <2>1, TaskTyped DEF L!Find
  <2>3. QED
    BY <1>3, <2>2 DEF L!Find, L!tables
<1>4. ASSUME NEW s \in Sessions, L!Open(s)
      PROVE  L!TypeOK'
  <2>1. L!Active(s) \in L!ListIds
    BY <1>4, ActiveIsActive DEF L!Open
  <2>2. view' \in Views
    BY <1>4, <2>1 DEF L!Open, Views, L!Closed, L!ItemsOf, L!None
  <2>3. QED
    BY <1>4, <2>2 DEF L!Open, L!tables
<1>5. CASE L!Complete
  <2>1. [lists[skill.on] EXCEPT !.status = "complete"] \in ListRows
    BY <1>5 DEF L!Complete, SkillIsSound, ListRows
  <2>2. lists' \in [L!ListIds -> ListRows]
    BY <1>5, <2>1 DEF L!Complete
  <2>3. skill' \in Tasks
    BY <1>0, <1>5, TaskTyped DEF L!Complete, SkillIsSound
  <2>4. QED
    BY <1>5, <2>2, <2>3 DEF L!Complete
<1>6. CASE L!Create
  <2>1. lists' \in [L!ListIds -> ListRows]
    BY <1>6, CreateTypes DEF L!Create, SkillIsSound
  <2>2. QED
    BY <1>6, <2>1 DEF L!Create, L!CreateList
<1>7. CASE L!AddItem
  <2>1. [list |-> skill.on, text |-> skill.text, checked |-> FALSE, ever |-> TRUE,
         lookup |-> IF skill.lookup THEN "pending" ELSE "none"] \in ItemRows
    BY <1>7 DEF L!AddItem, SkillIsSound, ItemRows
  <2>2. items' \in [L!ItemIds -> ItemRows] /\ stuck' \subseteq L!ItemIds
    BY <1>7, <2>1 DEF L!AddItem
  <2>3. lookup' \in [Lookups -> Searches]
    BY <1>7, LookupTypes DEF L!AddItem
  <2>4. QED
    BY <1>7, <2>2, <2>3 DEF L!AddItem
<1>8. CASE L!Write
  <2>1. skill.on \in L!ItemIds
    BY <1>8 DEF L!Write, SkillIsSound
  <2>2. items' \in [L!ItemIds -> ItemRows]
    BY <1>8, <2>1, RemoveTypes, CheckTypes DEF L!Write
  <2>3. results' \subseteq L!ItemIds
    BY <1>8 DEF L!Write, L!RemoveItem, L!CheckItem
  <2>4. QED
    BY <1>8, <2>2, <2>3 DEF L!Write, L!RemoveItem, L!CheckItem
<1>9. ASSUME NEW t \in Lookups, L!Answer(t) \/ L!Store(t) \/ L!Fail(t)
      PROVE  L!TypeOK'
  <2>1. lookup' \in [Lookups -> Searches]
    BY <1>9, GoesTypes DEF L!Answer, L!Store, L!Fail
  <2>2. lookup[t].item \in L!ItemIds
    BY <1>9 DEF L!Answer, L!Store, L!Fail, LookupsHaveItems
  <2>3. items' \in [L!ItemIds -> ItemRows]
    BY <1>9, <2>2, StatusTypes DEF L!Answer, L!Store, L!Fail, L!tables
  <2>4. results' \subseteq L!ItemIds /\ stuck' \subseteq L!ItemIds
    BY <1>9, <2>2 DEF L!Answer, L!Store, L!Fail, L!SetStatus, L!tables
  <2>5. QED
    BY <1>9, <2>1, <2>3, <2>4 DEF L!Answer, L!Store, L!Fail, L!SetStatus, L!tables
<1>10. CASE L!Close
  BY <1>10 DEF L!Close, L!tables
<1>11. CASE L!Toggled
  <2>1. view.toggles \in L!ItemIds /\ view.to \in BOOLEAN
    BY <1>11 DEF L!Toggled, Views
  <2>2. items' \in [L!ItemIds -> ItemRows]
    BY <1>11, <2>1, CheckTypes DEF L!Toggled
  <2>3. view' \in Views
    BY <1>11 DEF L!Toggled, Views, L!ItemsOf, L!None
  <2>4. QED
    BY <1>11, <2>2, <2>3 DEF L!Toggled, L!CheckItem
<1>12. ASSUME NEW i \in L!ItemIds, L!Toggle(i)
      PROVE  L!TypeOK'
  <2>1. view' \in Views
    BY <1>12 DEF L!Toggle, Views, ItemRows
  <2>2. QED
    BY <1>12, <2>1 DEF L!Toggle, L!tables
<1>13. ASSUME NEW i \in L!ItemIds, L!Delete(i)
      PROVE  L!TypeOK'
  <2>1. items' \in [L!ItemIds -> ItemRows]
    BY <1>13, RemoveTypes DEF L!Delete
  <2>2. view' \in Views
    BY <1>13 DEF L!Delete, Views, L!ItemsOf
  <2>3. QED
    BY <1>13, <2>1, <2>2 DEF L!Delete, L!RemoveItem
<1>14. ASSUME NEW i \in L!ItemIds, L!LookUp(i)
      PROVE  L!TypeOK'
  BY <1>14, StatusTypes, LookupTypes DEF L!LookUp, L!SetStatus
<1>15. CASE UNCHANGED L!vars
  BY <1>15 DEF L!vars
<1>16. QED
  BY <1>1, <1>2, <1>3, <1>4, <1>5, <1>6, <1>7, <1>8, <1>9, <1>10, <1>11, <1>12, <1>13, <1>14, <1>15
     DEF L!Next

----------------------------------------------------------------------------
(* The lists.                                                               *)

\* A list is created for a call that has none that is active.
LEMMA CreateKeeps ==
    ASSUME L!TypeOK, L!OneActiveList, NEW s \in Sessions, L!CreateList(s),
           \A l \in L!ListIds : lists[l] # [of |-> s, status |-> "active"]
    PROVE  L!OneActiveList'
<1>1. \A l \in L!ListIds : ~ (lists[l].status = "active" /\ lists[l].of = s)
  <2> SUFFICES ASSUME NEW l \in L!ListIds, lists[l].status = "active", lists[l].of = s
               PROVE  lists[l] = [of |-> s, status |-> "active"]
    OBVIOUS
  <2>1. lists[l] \in ListRows /\ L!NoList.status # "active"
    BY ListTypesOfParts DEF L!NoList
  <2>2. lists[l] \in [of : Sessions, status : {"active", "complete"}]
    BY <2>1 DEF ListRows
  <2>3. QED
    BY <2>2
<1>2. lists' \in [L!ListIds -> ListRows]
  BY CreateTypes, ListTypesOfParts
<1>3. \A l \in L!ListIds : lists'[l] = IF l = L!NewList THEN [of |-> s, status |-> "active"] ELSE lists[l]
  BY DEF L!CreateList, L!TypeOK
<1>4. QED
  BY <1>1, <1>3 DEF L!OneActiveList

\* What is about to be written stays as it was read: nobody else creates lists or
\* completes them.
LEMMA SkillStep ==
    ASSUME L!TypeOK, SkillIsSound, LookupsHaveItems, L!OneActiveList, [L!Next]_L!vars
    PROVE  SkillIsSound' /\ L!OneActiveList'
<1> USE DEF SkillIsSound
<1>0. L!ListIds \subseteq Nat /\ L!ItemIds \subseteq Nat /\ L!None \notin L!ListIds
  BY IdsAreSome DEF L!ListIds, L!ItemIds
<1>1. ASSUME NEW s \in Sessions, NEW replace \in BOOLEAN, L!Start(s, replace)
      PROVE  SkillIsSound' /\ L!OneActiveList'
  <2>1. lists' = lists /\ L!OneActiveList'
    BY <1>1 DEF L!Start, L!tables, L!OneActiveList
  <2>2. CASE L!Active(s) = L!None
    <3>1. skill' = [do |-> "create", on |-> L!None, text |-> s, lookup |-> FALSE]
      BY <1>1, <2>2 DEF L!Start, L!Does
    <3>2. \A l \in L!ListIds : lists[l] # [of |-> s, status |-> "active"]
      BY <2>2, ActiveIsActive
    <3>3. QED
      BY <2>1, <3>1, <3>2
  <2>3. CASE L!Active(s) # L!None
    <3>1. skill' = [do |-> "start", on |-> L!Active(s), text |-> s, lookup |-> FALSE]
      BY <1>1, <2>3 DEF L!Start, L!Does
    <3>2. L!Active(s) \in L!ListIds /\ lists[L!Active(s)] = [of |-> s, status |-> "active"]
      BY <2>3, ActiveIsActive
    <3>3. QED
      BY <2>1, <3>1, <3>2
  <2>4. QED
    BY <2>2, <2>3
<1>2. ASSUME NEW s \in Sessions, NEW text \in ItemTexts, NEW looks \in BOOLEAN, L!Add(s, text, looks)
      PROVE  SkillIsSound' /\ L!OneActiveList'
  <2>1. CASE L!Active(s) # L!None
    <3>1. skill' = [do |-> "add", on |-> L!Active(s), text |-> text, lookup |-> looks] /\ lists' = lists
      BY <1>2, <2>1 DEF L!Add, L!Does, L!tables
    <3>2. L!Active(s) \in L!ListIds
      BY <2>1, ActiveIsActive
    <3>3. QED
      BY <3>1, <3>2 DEF L!OneActiveList
  <2>2. CASE L!Active(s) = L!None
    <3>1. L!CreateList(s) /\ skill' = [do |-> "add", on |-> L!NewList, text |-> text, lookup |-> looks]
      BY <1>2, <2>2 DEF L!Add, L!Does
    <3>2. L!NewList \in L!ListIds
      BY <3>1 DEF L!CreateList
    <3>3. L!OneActiveList'
      BY <2>2, <3>1, ActiveIsActive, CreateKeeps
    <3>4. QED
      BY <3>1, <3>2, <3>3
  <2>3. QED
    BY <2>1, <2>2
<1>3. ASSUME NEW s \in Sessions, NEW text \in ItemTexts, NEW what \in {"remove", "check"},
             L!Find(s, text, what)
      PROVE  SkillIsSound' /\ L!OneActiveList'
  <2>1. L!First(L!Matching(L!Active(s), text)) \in L!ItemIds
    BY <1>3, FirstOfFound DEF L!Find
  <2>2. /\ skill' = [do |-> what, on |-> L!First(L!Matching(L!Active(s), text)), text |-> text, lookup |-> FALSE]
        /\ lists' = lists
    BY <1>3 DEF L!Find, L!Does, L!tables
  <2>3. QED
    BY <2>1, <2>2 DEF L!OneActiveList
<1>5. CASE L!Complete
  <2>1. /\ skill.on \in L!ListIds /\ lists[skill.on] = [of |-> skill.text, status |-> "active"]
        /\ skill.text \in Sessions
        /\ skill' = [do |-> "create", on |-> L!None, text |-> skill.text, lookup |-> FALSE]
    BY <1>5 DEF L!Complete, L!Does
  <2>2. \A l \in L!ListIds : lists'[l] = IF l = skill.on THEN [lists[l] EXCEPT !.status = "complete"]
                                         ELSE lists[l]
    BY <1>5, <2>1 DEF L!Complete, L!TypeOK
  <2>3. lists'[skill.on].status = "complete"
    BY <2>1, <2>2
  <2>4. L!OneActiveList'
    <3>1. ASSUME NEW l \in L!ListIds, lists'[l].status = "active"
          PROVE  lists'[l] = lists[l]
      BY <2>2, <2>3, <3>1
    <3>2. QED
      BY <3>1 DEF L!OneActiveList
  <2>5. ASSUME NEW l \in L!ListIds, lists'[l] = [of |-> skill.text, status |-> "active"]
        PROVE  FALSE
    <3>1. lists'[l].status = "active" /\ l # skill.on
      BY <2>3, <2>5
    <3>2. lists[l] = [of |-> skill.text, status |-> "active"]
      BY <2>2, <2>5, <3>1
    <3>3. lists[l].status = "active" /\ lists[l].of = skill.text
      BY <3>2
    <3>4. lists[skill.on].status = "active" /\ lists[skill.on].of = skill.text
      BY <2>1
    <3>5. QED
      BY <2>1, <3>1, <3>3, <3>4 DEF L!OneActiveList
  <2>6. QED
    BY <2>1, <2>4, <2>5
<1>6. CASE L!Create
  <2>1. L!OneActiveList'
    BY <1>6, CreateKeeps DEF L!Create
  <2>2. QED
    BY <1>6, <2>1 DEF L!Create, L!Quiet
<1>7. CASE L!AddItem \/ L!Write
  <2>1. lists' = lists /\ skill' = L!Quiet
    BY <1>7 DEF L!AddItem, L!Write, L!RemoveItem, L!CheckItem
  <2>2. QED
    BY <2>1 DEF L!Quiet, L!OneActiveList
<1>8. ASSUME UNCHANGED <<lists, skill>>
      PROVE  SkillIsSound' /\ L!OneActiveList'
  BY <1>8 DEF L!OneActiveList
<1>9. ASSUME NEW t \in Lookups, L!Answer(t) \/ L!Store(t) \/ L!Fail(t)
      PROVE  UNCHANGED <<lists, skill>>
  BY <1>9 DEF L!Answer, L!Store, L!Fail, L!SetStatus, L!tables
<1>10. ASSUME \/ \E s \in Sessions : L!Open(s)
              \/ L!Close \/ L!Toggled
              \/ \E i \in L!ItemIds : L!Toggle(i) \/ L!Delete(i) \/ L!LookUp(i)
              \/ UNCHANGED L!vars
      PROVE  UNCHANGED <<lists, skill>>
  BY <1>10 DEF L!Open, L!Close, L!Toggled, L!CheckItem, L!Toggle, L!Delete, L!RemoveItem, L!LookUp, L!SetStatus, L!tables,
               L!vars
<1>11. QED
  BY <1>1, <1>2, <1>3, <1>5, <1>6, <1>7, <1>8, <1>9, <1>10 DEF L!Next

----------------------------------------------------------------------------
(* The lookups.                                                             *)

LEMMA LookupsStep ==
    ASSUME L!TypeOK, SkillIsSound, LookupsHaveItems, \A i \in L!ItemIds : IsUnderWay(i), [L!Next]_L!vars
    PROVE  LookupsHaveItems' /\ \A i \in L!ItemIds : IsUnderWay(i)'
<1>1. ASSUME UNCHANGED <<items, results, lookup, stuck>>
      PROVE  LookupsHaveItems' /\ \A i \in L!ItemIds : IsUnderWay(i)'
  BY <1>1 DEF LookupsHaveItems, IsUnderWay, L!Exists
<1>2. ASSUME \/ \E s \in Sessions :
                    \/ \E replace \in BOOLEAN : L!Start(s, replace)
                    \/ \E text \in ItemTexts :
                          \/ \E looks \in BOOLEAN : L!Add(s, text, looks)
                          \/ \E what \in {"remove", "check"} : L!Find(s, text, what)
                    \/ L!Open(s)
             \/ L!Complete \/ L!Create \/ L!Close
             \/ \E i \in L!ItemIds : L!Toggle(i)
             \/ UNCHANGED L!vars
      PROVE  UNCHANGED <<items, results, lookup, stuck>>
  BY <1>2 DEF L!Start, L!Add, L!CreateList, L!Find, L!Open, L!Complete, L!Create, L!Close, L!Toggle, L!tables, L!vars
\* Another lookup of an item, or of none.
<1>3. ASSUME NEW i \in L!ItemIds, L!StartLookup(i)
      PROVE  /\ LookupsHaveItems'
             /\ \E t \in Lookups : lookup'[t] = [item |-> i, at |-> "asks"]
             /\ \A t \in Lookups : lookup[t].at # "none" => lookup'[t] = lookup[t]
  <2>1. PICK t \in Lookups : /\ lookup[t] = L!NoLookup
                              /\ lookup' = [lookup EXCEPT ![t] = [item |-> i, at |-> "asks"]]
    BY <1>3 DEF L!StartLookup
  <2>2. /\ lookup'[t] = [item |-> i, at |-> "asks"]
        /\ \A u \in Lookups \ {t} : lookup'[u] = lookup[u]
    BY <2>1 DEF L!TypeOK
  <2>3. lookup[t].at = "none"
    BY <2>1 DEF L!NoLookup
  <2>4. QED
    BY <1>3, <2>2, <2>3 DEF LookupsHaveItems
<1>4. CASE L!AddItem
  <2>0. PICK n \in L!ItemIds : n = L!NewItem
    BY <1>4 DEF L!AddItem
  <2>1. LookupsHaveItems'
    BY <1>3, <1>4 DEF L!AddItem, LookupsHaveItems
  <2>2. \A t \in Lookups : lookup[t].at # "none" => lookup'[t] = lookup[t]
    BY <1>3, <1>4 DEF L!AddItem
  <2>3. \A i \in L!ItemIds \ {n} : items'[i] = items[i]
    BY <1>4, <2>0 DEF L!AddItem, L!TypeOK
  <2>4. items'[n].lookup = IF skill.lookup THEN "pending" ELSE "none"
    BY <1>4, <2>0 DEF L!AddItem, L!TypeOK
  <2>5. skill.lookup => n \in stuck' \/ \E t \in Lookups : lookup'[t] = [item |-> n, at |-> "asks"]
    BY <1>3, <1>4, <2>0 DEF L!AddItem
  <2>6. stuck \subseteq stuck' /\ results' = results
    BY <1>4 DEF L!AddItem
  <2>7. ASSUME NEW i \in L!ItemIds, i # n
        PROVE  IsUnderWay(i)'
    <3>1. \A a \in {"asks", "done"}, t \in Lookups :
             lookup[t] = [item |-> i, at |-> a] => lookup'[t] = [item |-> i, at |-> a]
      BY <2>2
    <3>2. IsUnderWay(i) /\ items'[i] = items[i]
      BY <2>3, <2>7
    <3>3. QED
      BY <2>6, <3>1, <3>2 DEF IsUnderWay, L!Exists
  <2>8. IsUnderWay(n)'
    BY <2>4, <2>5 DEF IsUnderWay
  <2>9. QED
    BY <2>1, <2>7, <2>8
\* An item is removed, with its result, or checked.
<1>5. ASSUME NEW i \in L!ItemIds, L!RemoveItem(i) \/ (\E checked \in BOOLEAN : L!CheckItem(i, checked)),
             UNCHANGED <<lookup, stuck>>
      PROVE  LookupsHaveItems' /\ \A j \in L!ItemIds : IsUnderWay(j)'
  <2>1. LookupsHaveItems'
    BY <1>5 DEF LookupsHaveItems
  <2>2. CASE L!RemoveItem(i)
    <3>1. ~ L!Exists(i)'
      BY <2>2 DEF L!RemoveItem, L!Exists, L!NoItem, L!None, L!TypeOK
    <3>2. \A j \in L!ItemIds \ {i} : items'[j] = items[j] /\ (j \in results => j \in results')
      BY <2>2 DEF L!RemoveItem, L!TypeOK
    <3>3. \A j \in L!ItemIds \ {i} : IsUnderWay(j)'
      BY <1>5, <3>2 DEF IsUnderWay, L!Exists
    <3>4. QED
      BY <2>1, <3>1, <3>3 DEF IsUnderWay
  <2>3. CASE \E checked \in BOOLEAN : L!CheckItem(i, checked)
    <3>0. items \in [L!ItemIds -> ItemRows]
      BY ListTypesOfParts
    <3>1. /\ \A j \in L!ItemIds : items'[j].lookup = items[j].lookup /\ items'[j].list = items[j].list
          /\ results' = results
      <4>1. PICK checked \in BOOLEAN : L!CheckItem(i, checked)
        BY <2>3
      <4>2. \A j \in L!ItemIds \ {i} : items'[j] = items[j]
        BY <3>0, <4>1 DEF L!CheckItem
      <4>3. items'[i] = items[i] \/ items'[i] = [items[i] EXCEPT !.checked = checked]
        BY <3>0, <4>1 DEF L!CheckItem
      <4>4. items[i] \in ItemRows
        BY <3>0
      <4>5. items'[i].lookup = items[i].lookup /\ items'[i].list = items[i].list
        BY <4>3, <4>4 DEF ItemRows
      <4>6. QED
        BY <4>1, <4>2, <4>5 DEF L!CheckItem
    <3>2. QED
      BY <1>5, <2>1, <3>1 DEF IsUnderWay, L!Exists
  <2>4. QED
    BY <1>5, <2>2, <2>3
<1>6. CASE L!Write
  <2>1. skill.on \in L!ItemIds
    BY <1>6 DEF L!Write, SkillIsSound
  <2>2. QED
    BY <1>5, <1>6, <2>1 DEF L!Write
<1>7. CASE L!Toggled
  <2>1. view.toggles \in L!ItemIds /\ view.to \in BOOLEAN
    BY <1>7 DEF L!Toggled, L!TypeOK
  <2>2. QED
    BY <1>5, <1>7, <2>1 DEF L!Toggled
<1>8. ASSUME NEW i \in L!ItemIds, L!Delete(i)
      PROVE  LookupsHaveItems' /\ \A j \in L!ItemIds : IsUnderWay(j)'
  BY <1>5, <1>8 DEF L!Delete
<1>9. ASSUME NEW t \in Lookups, L!Answer(t)
      PROVE  LookupsHaveItems' /\ \A j \in L!ItemIds : IsUnderWay(j)'
  <2>0. items \in [L!ItemIds -> ItemRows] /\ lookup \in [Lookups -> Searches]
    BY ListTypesOfParts
  <2>1. PICK i \in L!ItemIds : i = lookup[t].item
    BY <1>9 DEF L!Answer, LookupsHaveItems
  <2>2. /\ lookup'[t] = [item |-> i, at |-> "done"]
        /\ \A u \in Lookups \ {t} : lookup'[u] = lookup[u]
    BY <1>9, <2>0, <2>1 DEF L!Answer, L!Goes, Searches
  <2>3. \A j \in L!ItemIds \ {i} : items'[j] = items[j]
    BY <1>9, <2>0, <2>1 DEF L!Answer, L!SetStatus
  <2>4. L!Exists(i)' => items'[i].lookup = "done"
    BY <1>9, <2>0, <2>1 DEF L!Answer, L!SetStatus, ItemRows, L!Exists
  <2>5. results' = results /\ stuck' = stuck
    BY <1>9 DEF L!Answer, L!SetStatus
  <2>6. LookupsHaveItems'
    BY <2>1, <2>2 DEF LookupsHaveItems
  <2>7. \A j \in L!ItemIds \ {i} : IsUnderWay(j)'
    <3> SUFFICES ASSUME NEW j \in L!ItemIds \ {i}
                 PROVE  IsUnderWay(j)'
      OBVIOUS
    <3>1. \A a \in {"asks", "done"}, u \in Lookups :
             lookup[u] = [item |-> j, at |-> a] => lookup'[u] = [item |-> j, at |-> a]
      BY <2>1, <2>2
    <3>2. QED
      BY <2>3, <2>5, <3>1 DEF IsUnderWay, L!Exists
  <2>8. IsUnderWay(i)'
    BY <2>2, <2>4 DEF IsUnderWay
  <2>9. QED
    BY <2>6, <2>7, <2>8
<1>10. ASSUME NEW t \in Lookups, L!Store(t) \/ L!Fail(t)
       PROVE  LookupsHaveItems' /\ \A j \in L!ItemIds : IsUnderWay(j)'
  <2>1. lookup'[t] = L!NoLookup /\ \A u \in Lookups \ {t} : lookup'[u] = lookup[u]
    BY <1>10 DEF L!Store, L!Fail, L!Goes, L!TypeOK
  <2>2. LookupsHaveItems'
    BY <2>1 DEF LookupsHaveItems, L!NoLookup
  <2>3. items' = items /\ stuck \subseteq stuck' /\ results \subseteq results'
    BY <1>10 DEF L!Store, L!Fail, L!tables
  <2>4. ASSUME NEW j \in L!ItemIds
        PROVE  IsUnderWay(j)'
    <3>1. CASE L!Store(t)
      <4>1. lookup[t].at = "done" /\ (lookup[t].item = j /\ L!Exists(j) => j \in results')
        BY <3>1 DEF L!Store
      <4>2. QED
        BY <2>1, <2>3, <4>1 DEF IsUnderWay, L!Exists
    <3>2. CASE L!Fail(t)
      <4>1. lookup[t].at = "asks" /\ (lookup[t].item = j /\ L!Exists(j) => j \in stuck')
        BY <3>2 DEF L!Fail
      <4>2. QED
        BY <2>1, <2>3, <4>1 DEF IsUnderWay, L!Exists
    <3>3. QED
      BY <1>10, <3>1, <3>2
  <2>5. QED
    BY <2>2, <2>4
<1>11. ASSUME NEW i \in L!ItemIds, L!LookUp(i)
       PROVE  LookupsHaveItems' /\ \A j \in L!ItemIds : IsUnderWay(j)'
  <2>1. /\ LookupsHaveItems'
        /\ \E t \in Lookups : lookup'[t] = [item |-> i, at |-> "asks"]
        /\ \A t \in Lookups : lookup[t].at # "none" => lookup'[t] = lookup[t]
    BY <1>3, <1>11 DEF L!LookUp
  <2>0. items \in [L!ItemIds -> ItemRows]
    BY ListTypesOfParts
  <2>2. /\ \A j \in L!ItemIds \ {i} : items'[j] = items[j]
        /\ L!Exists(i)' => items'[i].lookup = "pending"
        /\ results' = results /\ stuck' = stuck
    BY <1>11, <2>0 DEF L!LookUp, L!SetStatus, ItemRows, L!Exists
  <2>3. ASSUME NEW j \in L!ItemIds, j # i
        PROVE  IsUnderWay(j)'
    <3>1. \A a \in {"asks", "done"}, t \in Lookups :
             lookup[t] = [item |-> j, at |-> a] => lookup'[t] = [item |-> j, at |-> a]
      BY <2>1
    <3>2. IsUnderWay(j) /\ items'[j] = items[j]
      BY <2>2, <2>3
    <3>3. QED
      BY <2>2, <3>1, <3>2 DEF IsUnderWay, L!Exists
  <2>4. IsUnderWay(i)'
    BY <2>1, <2>2 DEF IsUnderWay
  <2>5. QED
    BY <2>1, <2>3, <2>4
<1>12. QED
  BY <1>1, <1>2, <1>4, <1>6, <1>7, <1>8, <1>9, <1>10, <1>11 DEF L!Next

----------------------------------------------------------------------------
\* ListsInv is an invariant of the call lists.
THEOREM ListsInvSpec == L!Spec => []ListsInv
<1>1. ASSUME ListsInv, [L!Next]_L!vars
      PROVE  ListsInv'
  BY <1>1, ListTypesStep, SkillStep, LookupsStep DEF ListsInv
<1>2. QED
  BY InitListsInv, <1>1, PTL DEF L!Spec

\* A call has one active list, and what an item says of its lookup is so: CallListStore,
\* ListSkill and PostCallListView with their lookup threads.
THEOREM ListsTellTheTruth == L!Spec => []ListsAreTrue
<1>1. ASSUME ListsInv
      PROVE  L!ListsAreTrue
  <2>1. ASSUME NEW i \in L!ItemIds, L!Exists(i) /\ i \notin stuck
        PROVE  /\ items[i].lookup = "pending" => \E t \in Lookups : lookup[t].item = i
               /\ items[i].lookup = "done" =>
                     i \in results \/ \E t \in Lookups : lookup[t].item = i
    <3>1. IsUnderWay(i)
      BY <1>1 DEF ListsInv
    <3>2. \A a \in {"asks", "done"}, t \in Lookups :
             lookup[t] = [item |-> i, at |-> a] => lookup[t].item = i
      OBVIOUS
    <3>3. QED
      BY <2>1, <3>1, <3>2 DEF IsUnderWay
  <2>2. QED
    BY <1>1, <2>1 DEF ListsInv, L!ListsAreTrue, L!LookupsAreTrue
<1>2. QED
  BY <1>1, ListsInvSpec, PTL DEF ListsAreTrue
===============================================================================
