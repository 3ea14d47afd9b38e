-------------------------- MODULE CallHandling_proofs --------------------------
(***************************************************************************)
(* Proofs about CallHandling, for any number of calls, contacts and stops: *)
(* although tincand's signals do not say which call they are about, nobody *)
(* is recorded or answered for under another caller's name while calls     *)
(* come one at a time, and nothing of a call is left once the line is      *)
(* quiet.                                                                  *)
(*                                                                         *)
(* The phone's side of the invariant is stated of any queue q of signals   *)
(* and any line ln, for a step may take a signal from the queue and add    *)
(* some, with the line changing under it: the lemmas about each of these   *)
(* are put together for the step.                                          *)
(*                                                                         *)
(* And about Lifecycle, for any number of processes, commands and crashes: *)
(* no two daemons serve at once but for a race that the lock file allows,  *)
(* the files name the one that does, and who says that it has started it   *)
(* has.                                                                    *)
(*                                                                         *)
(* And about Screening, for any number of calls and exceptions: whom a     *)
(* dialogue records was told before, nothing that was said is lost, and    *)
(* nobody is left on the line.                                             *)
(***************************************************************************)
EXTENDS DaemonProcess, CallerDialogues, WellFoundedInduction, SequenceTheorems, TLAPS

Phone == [phase : {"idle", "ringing", "up", "over"}, who : Someone]
Signal == [kind : {"incoming", "connected", "ended"}, call : Calls]

----------------------------------------------------------------------------
(* Queues and lines *)

Under(ln, k) == ln[k].phase \in {"ringing", "up"}
IsEnd(signal, k) == signal.kind = "ended" /\ signal.call = k
EndIn(q, k) == \E i \in 1..Len(q) : IsEnd(q[i], k)

\* The call goes on, or its end has not been handled.
Alive(q, ln, k) == Under(ln, k) \/ EndIn(q, k)

\* What is in the queue before the end of the call is the call's.
First(q, k) ==
    \A i \in 1..Len(q) : q[i].call # k => \E m \in 1..(i - 1) : IsEnd(q[m], k)

\* A call of which there is a signal goes on, or its end comes later in the queue.
Ending(q, ln) ==
    \A i \in 1..Len(q) : q[i].kind # "ended" =>
        Under(ln, q[i].call) \/ \E j \in (i + 1)..Len(q) : IsEnd(q[j], q[i].call)

\* The end of a call is its last signal.
LastIsEnd(q, ln) ==
    \A i \in 1..Len(q) : q[i].kind = "ended" =>
        /\ ln[q[i].call].phase = "over"
        /\ \A j \in (i + 1)..Len(q) : q[j].call # q[i].call

\* One call goes on at a time, ...
OneUnder(ln) == \A j, k \in Calls : Under(ln, j) /\ Under(ln, k) => j = k

\* ... and its signals come after the last call's end.
InOrder(q) ==
    \A i, j \in 1..Len(q) : i < j /\ q[i].call # q[j].call =>
        \E m \in i..(j - 1) : IsEnd(q[m], q[i].call)

PhoneOK(q, ln, over) ==
    /\ q \in Seq(Signal) /\ ln \in [Calls -> Phone]
    /\ Ending(q, ln) /\ LastIsEnd(q, ln)
    /\ ~ over => OneUnder(ln) /\ InOrder(q)

----------------------------------------------------------------------------
(* The inductive invariant *)

Going(k) == Alive(signals, line, k)

\* A daemon that does not run has nothing in memory, and gets no signals.
StoppedIsEmpty ==
    ~ running =>
        /\ signals = <<>> /\ session = NoSession /\ pending = NoContact
        /\ ctx = NoContact /\ connected = {}

\* A session is that of a call that has not ended, and the next end is its end.
SessionIsGoing ==
    session # NoSession =>
        /\ Going(session.call)
        /\ ~ overlapped => First(signals, session.call)

\* It has the name of its caller, or none.
SessionIsTheCallers ==
    (~ overlapped /\ ~ failed /\ session.who # NoContact) =>
        session.who = line[session.call].who

\* The pending contact is the caller of a call that has not ended.
PendingIsGoing ==
    (~ failed /\ pending # NoContact) =>
        \E k \in Calls : /\ Going(k) /\ line[k].who = pending
                         /\ ~ overlapped => First(signals, k)

\* So is the contact of the context, and the one of its row.
ContextIsGoing ==
    (~ lost /\ ~ failed) =>
        \A who \in {ctx, row} \ {NoContact} :
            \E k \in Calls : Going(k) /\ (~ overlapped => line[k].who = who)

\* A call that is connected and has not ended is the one that is recorded.
ConnectedIsRecorded ==
    \A k \in connected :
        /\ line[k].phase # "idle"
        /\ ~ overlapped /\ Going(k) =>
              First(signals, k) /\ (~ failed => session.call = k)

IInv ==
    /\ TypeOK
    /\ PhoneOK(signals, line, overlapped)
    /\ StoppedIsEmpty
    /\ SessionIsGoing
    /\ SessionIsTheCallers
    /\ PendingIsGoing
    /\ ContextIsGoing
    /\ ConnectedIsRecorded
    /\ EveryCallerIsTreated

----------------------------------------------------------------------------
(* Lemmas about queues *)

\* Taking the first signal, and adding one.
LEMMA TailEffect ==
    ASSUME NEW q \in Seq(Signal), q # <<>>
    PROVE  /\ Len(q) \in Nat \ {0} /\ Head(q) = q[1] /\ q[1] \in Signal
           /\ Tail(q) \in Seq(Signal) /\ Len(Tail(q)) = Len(q) - 1
           /\ \A i \in 1..Len(Tail(q)) : Tail(q)[i] = q[i + 1] /\ i + 1 \in 1..Len(q)
  OBVIOUS

LEMMA AppendEffect ==
    ASSUME NEW q \in Seq(Signal), NEW e \in Signal
    PROVE  /\ Append(q, e) \in Seq(Signal)
           /\ Len(q) \in Nat /\ Len(Append(q, e)) = Len(q) + 1
           /\ \A i \in 1..Len(q) : Append(q, e)[i] = q[i]
           /\ Append(q, e)[Len(q) + 1] = e
  OBVIOUS

\* Every signal of a queue is one.
LEMMA SignalType ==
    ASSUME NEW q \in Seq(Signal)
    PROVE  /\ Len(q) \in Nat
           /\ \A i \in 1..Len(q) : /\ q[i] \in Signal /\ q[i].call \in Calls
                                   /\ q[i].kind \in {"incoming", "connected", "ended"}
<1>1. Len(q) \in Nat /\ \A i \in 1..Len(q) : q[i] \in Signal
  OBVIOUS
<1>2. QED
  BY <1>1 DEF Signal

\* What the module says of queued ends, and what is said here.
LEMMA EndsAreQueued ==
    ASSUME signals \in Seq(Signal), line \in [Calls -> Phone], NEW k \in Calls
    PROVE  /\ EndQueued(k) <=> EndIn(signals, k)
           /\ InProgress(k) <=> Under(line, k)
           /\ Going(k) <=> InProgress(k) \/ EndQueued(k)
<1>1. DOMAIN signals = 1..Len(signals)
  OBVIOUS
<1>2. \A i \in 1..Len(signals) :
         signals[i] = [kind |-> "ended", call |-> k] <=> IsEnd(signals[i], k)
  <2> SUFFICES ASSUME NEW e \in Signal
               PROVE  e = [kind |-> "ended", call |-> k] <=> IsEnd(e, k)
    BY SignalType
  <2>1. QED
    BY DEF Signal, IsEnd
<1>3. QED
  BY <1>1, <1>2 DEF EndQueued, EndIn, InProgress, Under, Going, Alive

----------------------------------------------------------------------------
(* Lemmas about the phone *)

\* In a later queue and line, the same calls go on or are ending, and the signals
\* before the end of each are its own if they were.
Follows(q, ln, q2, ln2, over) ==
    \A k \in Calls :
        /\ Alive(q2, ln2, k) <=> Alive(q, ln, k)
        /\ ln2[k].who = ln[k].who
        /\ ln2[k].phase = "idle" <=> ln[k].phase = "idle"
        /\ ~ over /\ Alive(q, ln, k) /\ First(q, k) => First(q2, k)

LEMMA FollowsTwice ==
    ASSUME NEW q1, NEW q2, NEW q3, NEW ln1, NEW ln2, NEW ln3, NEW over,
           Follows(q1, ln1, q2, ln2, over), Follows(q2, ln2, q3, ln3, over)
    PROVE  Follows(q1, ln1, q3, ln3, over)
BY DEF Follows

LEMMA FollowsNone ==
    ASSUME NEW q, NEW ln, NEW over
    PROVE  Follows(q, ln, q, ln, over)
BY DEF Follows

\* The phone's part of the invariant stays when a signal is handled.
LEMMA TakeKeeps ==
    ASSUME NEW q, NEW ln, NEW over, PhoneOK(q, ln, over), q # <<>>
    PROVE  PhoneOK(Tail(q), ln, over)
<1> DEFINE p == Tail(q)
<1>1. q \in Seq(Signal)
  BY DEF PhoneOK
<1>2. /\ Len(q) \in Nat \ {0} /\ p \in Seq(Signal) /\ Len(p) = Len(q) - 1
      /\ \A i \in 1..Len(p) : p[i] = q[i + 1] /\ i + 1 \in 1..Len(q)
  BY <1>1, TailEffect
<1>3. \A i \in 2..Len(q) : i - 1 \in 1..Len(p) /\ p[i - 1] = q[i]
  BY <1>2
<1> HIDE DEF p
<1>4. Ending(p, ln)
  <2> SUFFICES ASSUME NEW i \in 1..Len(p), p[i].kind # "ended", ~ Under(ln, p[i].call)
               PROVE  \E j \in (i + 1)..Len(p) : IsEnd(p[j], p[i].call)
    BY DEF Ending
  <2>1. PICK j \in (i + 2)..Len(q) : IsEnd(q[j], q[i + 1].call)
    BY <1>2 DEF PhoneOK, Ending
  <2>2. j - 1 \in (i + 1)..Len(p) /\ p[j - 1] = q[j]
    BY <1>2, <1>3, <2>1
  <2>3. QED
    BY <1>2, <2>1, <2>2
<1>5. LastIsEnd(p, ln)
  <2> SUFFICES ASSUME NEW i \in 1..Len(p), p[i].kind = "ended"
               PROVE  /\ ln[p[i].call].phase = "over"
                      /\ \A j \in (i + 1)..Len(p) : p[j].call # p[i].call
    BY DEF LastIsEnd
  <2>1. /\ ln[q[i + 1].call].phase = "over"
        /\ \A j \in (i + 2)..Len(q) : q[j].call # q[i + 1].call
    BY <1>2 DEF PhoneOK, LastIsEnd
  <2>2. \A j \in (i + 1)..Len(p) : j + 1 \in (i + 2)..Len(q) /\ p[j] = q[j + 1]
    BY <1>2
  <2>3. QED
    BY <1>2, <2>1, <2>2
<1>6. ~ over => InOrder(p)
  <2> SUFFICES ASSUME ~ over, NEW i \in 1..Len(p), NEW j \in 1..Len(p), i < j,
                      p[i].call # p[j].call
               PROVE  \E m \in i..(j - 1) : IsEnd(p[m], p[i].call)
    BY DEF InOrder
  <2>0. /\ i + 1 \in 1..Len(q) /\ j + 1 \in 1..Len(q) /\ i + 1 < j + 1 /\ (j + 1) - 1 = j
        /\ q[i + 1].call # q[j + 1].call
    BY <1>2
  <2>1. PICK m \in (i + 1)..j : IsEnd(q[m], q[i + 1].call)
    BY <2>0 DEF PhoneOK, InOrder
  <2>2. m - 1 \in i..(j - 1) /\ p[m - 1] = q[m]
    BY <1>2, <1>3, <2>1
  <2>3. QED
    BY <1>2, <2>1, <2>2
<1>7. QED
  BY <1>2, <1>4, <1>5, <1>6 DEF PhoneOK, p

\* What is in the queue before the end of the first signal's call is its own.
HeadIsFirst(q, over) == ~ over => First(q, q[1].call)

\* A signal that is not an end is handled.
LEMMA TakeSignal ==
    ASSUME NEW q, NEW ln, NEW over, PhoneOK(q, ln, over), q # <<>>, q[1].kind # "ended"
    PROVE  /\ PhoneOK(Tail(q), ln, over)
           /\ Follows(q, ln, Tail(q), ln, over)
           /\ Alive(q, ln, q[1].call)
           /\ HeadIsFirst(q, over)
<1> DEFINE p == Tail(q)
<1>1. q \in Seq(Signal)
  BY DEF PhoneOK
<1>2. /\ Len(q) \in Nat \ {0} /\ p \in Seq(Signal) /\ Len(p) = Len(q) - 1
      /\ \A i \in 1..Len(p) : p[i] = q[i + 1] /\ i + 1 \in 1..Len(q)
  BY <1>1, TailEffect
<1>3. \A i \in 2..Len(q) : i - 1 \in 1..Len(p) /\ p[i - 1] = q[i]
  BY <1>2
<1>7. PhoneOK(p, ln, over)
  BY TakeKeeps
<1> HIDE DEF p
<1>8. \A k \in Calls : EndIn(p, k) <=> EndIn(q, k)
  <2>1. \A k \in Calls : EndIn(p, k) => EndIn(q, k)
    BY <1>2 DEF EndIn
  <2>2. ASSUME NEW k \in Calls, EndIn(q, k)
        PROVE  EndIn(p, k)
    <3>1. PICK i \in 1..Len(q) : IsEnd(q[i], k)
      BY <2>2 DEF EndIn
    <3>2. i \in 2..Len(q)
      BY <1>2, <3>1 DEF IsEnd
    <3>3. QED
      BY <1>3, <3>1, <3>2 DEF EndIn
  <2>3. QED
    BY <2>1, <2>2
<1>9. \A k \in Calls : First(q, k) => First(p, k)
  <2> SUFFICES ASSUME NEW k \in Calls, First(q, k), NEW i \in 1..Len(p), p[i].call # k
               PROVE  \E m \in 1..(i - 1) : IsEnd(p[m], k)
    BY DEF First
  <2>1. /\ i \in Nat /\ i + 1 \in 1..Len(q) /\ (i + 1) - 1 = i
        /\ q[i + 1].call # k
    BY <1>2
  <2>2. PICK m \in 1..i : IsEnd(q[m], k)
    BY <2>1 DEF First
  <2>3. m \in 2..i
    BY <2>1, <2>2 DEF IsEnd
  <2>4. m - 1 \in 1..(i - 1) /\ p[m - 1] = q[m]
    BY <1>2, <1>3, <2>3
  <2>5. QED
    BY <2>2, <2>4
<1>10. Follows(q, ln, p, ln, over)
  BY <1>8, <1>9 DEF Follows, Alive
<1>11. Alive(q, ln, q[1].call)
  <2>1. 1 \in 1..Len(q) /\ \A j \in 2..Len(q) : j \in 1..Len(q)
    BY <1>2
  <2>2. QED
    BY <2>1 DEF PhoneOK, Ending, Alive, EndIn
<1>12. HeadIsFirst(q, over)
  <2> SUFFICES ASSUME ~ over, NEW i \in 1..Len(q), q[i].call # q[1].call
               PROVE  \E m \in 1..(i - 1) : IsEnd(q[m], q[1].call)
    BY DEF HeadIsFirst, First
  <2>1. i > 1 /\ 1 \in 1..Len(q)
    BY <1>2
  <2>2. QED
    BY <2>1 DEF PhoneOK, InOrder
<1>13. QED
  BY <1>7, <1>10, <1>11, <1>12 DEF p

\* The end of a call is handled: it was the call that goes on, if any of those whose
\* signals come first, and it is over.
LEMMA TakeEnd ==
    ASSUME NEW q, NEW ln, NEW over, PhoneOK(q, ln, over), q # <<>>, q[1].kind = "ended"
    PROVE  /\ PhoneOK(Tail(q), ln, over)
           /\ \A k \in Calls : Alive(Tail(q), ln, k) => Alive(q, ln, k)
           /\ \A k \in Calls : First(q, k) => k = q[1].call
           /\ ~ Alive(Tail(q), ln, q[1].call)
<1> DEFINE p == Tail(q)
<1>1. q \in Seq(Signal)
  BY DEF PhoneOK
<1>2. /\ Len(q) \in Nat \ {0} /\ p \in Seq(Signal) /\ Len(p) = Len(q) - 1
      /\ \A i \in 1..Len(p) : p[i] = q[i + 1] /\ i + 1 \in 1..Len(q)
  BY <1>1, TailEffect
<1>3. \A i \in 2..Len(q) : i - 1 \in 1..Len(p) /\ p[i - 1] = q[i]
  BY <1>2
<1>7. PhoneOK(p, ln, over)
  BY TakeKeeps
<1> HIDE DEF p
<1>8. \A k \in Calls : EndIn(p, k) => EndIn(q, k)
  BY <1>2 DEF EndIn
<1>9. \A k \in Calls : First(q, k) => k = q[1].call
  BY <1>2 DEF First
<1>10. ~ Alive(p, ln, q[1].call)
  <2>1. ~ Under(ln, q[1].call) /\ \A j \in 2..Len(q) : q[j].call # q[1].call
    BY <1>2 DEF PhoneOK, LastIsEnd, Under
  <2>2. \A i \in 1..Len(p) : i + 1 \in 2..Len(q) /\ p[i] = q[i + 1]
    BY <1>2
  <2>3. QED
    BY <2>1, <2>2 DEF Alive, EndIn, IsEnd
<1>11. QED
  BY <1>7, <1>8, <1>9, <1>10 DEF p, Alive

\* A call that goes on, or has just begun, gives a signal.
LEMMA GiveSignal ==
    ASSUME NEW q, NEW ln, NEW over, PhoneOK(q, ln, over),
           NEW c \in Calls, Under(ln, c), NEW kind \in {"incoming", "connected", "ended"},
           NEW ln2 \in [Calls -> Phone],
           \A k \in Calls \ {c} : ln2[k] = ln[k],
           ln2[c].who = ln[c].who,
           ln2[c].phase \in IF kind = "ended" THEN {"over"} ELSE {"ringing", "up"}
    PROVE  LET q2 == Append(q, [kind |-> kind, call |-> c])
           IN  PhoneOK(q2, ln2, over) /\ Follows(q, ln, q2, ln2, over)
<1> DEFINE e == [kind |-> kind, call |-> c]
           p == Append(q, e)
           n == Len(q) + 1
<1>1. q \in Seq(Signal) /\ e \in Signal
  BY DEF PhoneOK, Signal
<1>2. /\ p \in Seq(Signal) /\ Len(q) \in Nat /\ Len(p) = n
      /\ \A i \in 1..Len(q) : p[i] = q[i]
      /\ p[n] = e
  BY <1>1, AppendEffect
<1>3. e.kind = kind /\ e.call = c
  OBVIOUS
<1> HIDE DEF e, p
<1>4. \A i \in 1..Len(p) : i \in 1..Len(q) \/ i = n
  BY <1>2
\* No end of c is queued yet.
<1>5. \A i \in 1..Len(q) : ~ IsEnd(q[i], c)
  BY DEF PhoneOK, LastIsEnd, IsEnd, Under
<1>6. Under(ln2, c) <=> kind # "ended"
  BY DEF Under
<1>7. \A k \in Calls \ {c} : Under(ln2, k) <=> Under(ln, k)
  BY DEF Under
<1>8. \A i \in 1..Len(q) : q[i].call \in Calls
  BY <1>1, SignalType
<1>9. Ending(p, ln2)
  <2> SUFFICES ASSUME NEW i \in 1..Len(p), p[i].kind # "ended", ~ Under(ln2, p[i].call)
               PROVE  \E j \in (i + 1)..Len(p) : IsEnd(p[j], p[i].call)
    BY DEF Ending
  <2>1. i \in 1..Len(q) /\ p[i] = q[i]
    BY <1>2, <1>3, <1>4, <1>6
  <2>2. CASE q[i].call = c
    <3>1. kind = "ended" /\ n \in (i + 1)..Len(p) /\ IsEnd(p[n], c)
      BY <1>2, <1>3, <1>6, <2>1, <2>2 DEF IsEnd
    <3>2. QED
      BY <2>1, <2>2, <3>1
  <2>3. CASE q[i].call # c
    <3>1. ~ Under(ln, q[i].call)
      BY <1>7, <1>8, <2>1, <2>3
    <3>2. PICK j \in (i + 1)..Len(q) : IsEnd(q[j], q[i].call)
      BY <2>1, <3>1 DEF PhoneOK, Ending
    <3>3. j \in (i + 1)..Len(p) /\ p[j] = q[j]
      BY <1>2, <2>1, <3>2
    <3>4. QED
      BY <2>1, <3>2, <3>3
  <2>4. QED
    BY <2>2, <2>3
<1>10. LastIsEnd(p, ln2)
  <2> SUFFICES ASSUME NEW i \in 1..Len(p), p[i].kind = "ended"
               PROVE  /\ ln2[p[i].call].phase = "over"
                      /\ \A j \in (i + 1)..Len(p) : p[j].call # p[i].call
    BY DEF LastIsEnd
  <2>1. CASE i \in 1..Len(q)
    <3>1. /\ p[i] = q[i] /\ ln[q[i].call].phase = "over" /\ q[i].call # c
          /\ \A j \in (i + 1)..Len(q) : q[j].call # q[i].call
      BY <1>2, <1>5, <2>1 DEF PhoneOK, LastIsEnd, IsEnd
    <3>2. \A j \in (i + 1)..Len(p) : (j \in (i + 1)..Len(q) /\ p[j] = q[j]) \/ j = n
      BY <1>2, <2>1
    <3>3. QED
      BY <1>2, <1>3, <1>8, <2>1, <3>1, <3>2
  <2>2. CASE i = n
    BY <1>2, <1>3, <2>2
  <2>3. QED
    BY <1>4, <2>1, <2>2
<1>11. ASSUME ~ over
       PROVE  OneUnder(ln2) /\ InOrder(p)
  <2>1. OneUnder(ln2)
    BY <1>7, <1>11 DEF PhoneOK, OneUnder
  <2>2. InOrder(p)
    <3> SUFFICES ASSUME NEW i \in 1..Len(p), NEW j \in 1..Len(p), i < j,
                        p[i].call # p[j].call
                 PROVE  \E m \in i..(j - 1) : IsEnd(p[m], p[i].call)
      BY DEF InOrder
    <3>1. i \in 1..Len(q) /\ p[i] = q[i] /\ q[i].call \in Calls
      BY <1>2, <1>4, <1>8
    <3>2. CASE j \in 1..Len(q)
      <4>1. PICK m \in i..(j - 1) : IsEnd(q[m], q[i].call)
        BY <1>2, <1>11, <3>1, <3>2 DEF PhoneOK, InOrder
      <4>2. m \in 1..Len(q)
        BY <1>2, <3>1, <3>2, <4>1
      <4>3. QED
        BY <1>2, <3>1, <4>1, <4>2
    <3>3. CASE j = n
      <4>1. q[i].call # c
        BY <1>2, <1>3, <3>1, <3>3
      <4>2. ~ Under(ln, q[i].call)
        BY <1>11, <3>1, <4>1 DEF PhoneOK, OneUnder
      <4>3. \E m \in i..Len(q) : IsEnd(q[m], q[i].call)
        <5>1. CASE q[i].kind = "ended"
          BY <1>2, <3>1, <5>1 DEF IsEnd
        <5>2. CASE q[i].kind # "ended"
          <6>1. PICK m \in (i + 1)..Len(q) : IsEnd(q[m], q[i].call)
            BY <3>1, <4>2, <5>2 DEF PhoneOK, Ending
          <6>2. m \in i..Len(q)
            BY <1>2, <3>1, <6>1
          <6>3. QED
            BY <6>1, <6>2
        <5>3. QED
          BY <5>1, <5>2
      <4>4. PICK m \in i..Len(q) : IsEnd(q[m], q[i].call)
        BY <4>3
      <4>5. m \in 1..Len(q) /\ m \in i..(j - 1) /\ p[m] = q[m]
        BY <1>2, <3>1, <3>3, <4>4
      <4>6. QED
        BY <3>1, <4>4, <4>5
    <3>4. QED
      BY <1>4, <3>2, <3>3
  <2>3. QED
    BY <2>1, <2>2
<1>12. PhoneOK(p, ln2, over)
  BY <1>2, <1>9, <1>10, <1>11 DEF PhoneOK
<1>13. \A k \in Calls : Alive(p, ln2, k) <=> Alive(q, ln, k)
  <2>1. \A k \in Calls \ {c} : EndIn(p, k) <=> EndIn(q, k)
    BY <1>2, <1>3, <1>4 DEF EndIn, IsEnd
  <2>2. kind = "ended" => EndIn(p, c)
    BY <1>2, <1>3 DEF EndIn, IsEnd
  <2>3. QED
    BY <1>6, <1>7, <2>1, <2>2 DEF Alive
<1>14. ASSUME NEW k \in Calls, ~ over, Alive(q, ln, k), First(q, k)
       PROVE  First(p, k)
  <2> SUFFICES ASSUME NEW i \in 1..Len(p), p[i].call # k
               PROVE  \E m \in 1..(i - 1) : IsEnd(p[m], k)
    BY DEF First
  <2>1. CASE i \in 1..Len(q)
    <3>1. PICK m \in 1..(i - 1) : IsEnd(q[m], k)
      BY <1>2, <1>14, <2>1 DEF First
    <3>2. p[m] = q[m]
      BY <1>2, <2>1, <3>1
    <3>3. QED
      BY <3>1, <3>2
  <2>2. CASE i = n
    <3>1. k # c /\ ~ Under(ln, k)
      BY <1>2, <1>3, <1>14, <2>2 DEF PhoneOK, OneUnder
    <3>2. PICK m \in 1..Len(q) : IsEnd(q[m], k)
      BY <1>14, <3>1 DEF Alive, EndIn
    <3>3. p[m] = q[m] /\ m \in 1..(i - 1)
      BY <1>2, <2>2, <3>2
    <3>4. QED
      BY <3>2, <3>3
  <2>3. QED
    BY <1>4, <2>1, <2>2
<1>15. \A k \in Calls : ln2[k].who = ln[k].who /\ (ln2[k].phase = "idle" <=> ln[k].phase = "idle")
  BY DEF Under
<1>16. Follows(q, ln, p, ln2, over)
  BY <1>13, <1>14, <1>15 DEF Follows
<1>17. QED
  BY <1>12, <1>16 DEF p, e

\* A call begins: what is said of the other calls stays, and where it is only now that
\* calls come one at a time, nothing of another was left.
Begun(q, ln, over, q2, ln2, over2, c) ==
    /\ ~ Alive(q, ln, c) /\ ln[c].phase = "idle"
    /\ \A k \in Calls \ {c} : /\ ln2[k] = ln[k]
                              /\ Alive(q2, ln2, k) <=> Alive(q, ln, k)
                              /\ ~ over2 /\ Alive(q, ln, k) /\ First(q, k) => First(q2, k)
    /\ ~ over2 => ~ over \/ \A k \in Calls : ~ Alive(q, ln, k)

LEMMA AliveIsNotIdle ==
    ASSUME NEW q, NEW ln, NEW over, PhoneOK(q, ln, over), NEW k \in Calls, Alive(q, ln, k)
    PROVE  ln[k].phase # "idle"
BY DEF Alive, Under, EndIn, IsEnd, PhoneOK, LastIsEnd

LEMMA BeginCall ==
    ASSUME NEW q, NEW ln, NEW over, PhoneOK(q, ln, over),
           NEW c \in Calls, ln[c].phase = "idle",
           NEW ln2 \in [Calls -> Phone], ln2[c].phase = "ringing",
           \A k \in Calls \ {c} : ln2[k] = ln[k],
           NEW over2, over2 <=> (\E j \in Calls : Under(ln, j)) \/ (over /\ q # <<>>)
    PROVE  /\ PhoneOK(q, ln2, over2)
           /\ Begun(q, ln, over, q, ln2, over2, c)
           /\ Under(ln2, c)
<1>1. q \in Seq(Signal) /\ ln \in [Calls -> Phone]
  BY DEF PhoneOK
<1>2. /\ \A k \in Calls \ {c} : Under(ln2, k) <=> Under(ln, k)
      /\ Under(ln2, c) /\ ~ Under(ln, c)
  BY <1>1 DEF Under
<1>3. ~ Alive(q, ln, c)
  BY AliveIsNotIdle
<1>4. \A i \in 1..Len(q) : q[i].call \in Calls /\ ~ IsEnd(q[i], c)
  BY <1>1, <1>3, SignalType DEF Alive, EndIn
<1>5. Ending(q, ln2)
  BY <1>1, <1>2, <1>4 DEF PhoneOK, Ending
<1>6. LastIsEnd(q, ln2)
  BY <1>1, <1>4 DEF PhoneOK, LastIsEnd, IsEnd
<1>7. ~ over2 => OneUnder(ln2)
  BY <1>2 DEF OneUnder
<1>8. ~ over2 => InOrder(q)
  <2>1. CASE q = <<>>
    BY <2>1 DEF InOrder
  <2>2. CASE q # <<>>
    BY <2>2 DEF PhoneOK
  <2>3. QED
    BY <2>1, <2>2
<1>9. ~ over2 => ~ over \/ \A k \in Calls : ~ Alive(q, ln, k)
  <2>1. q = <<>> => \A k \in Calls : ~ EndIn(q, k)
    BY DEF EndIn
  <2>2. QED
    BY <2>1 DEF Alive
<1>10. PhoneOK(q, ln2, over2)
  BY <1>1, <1>5, <1>6, <1>7, <1>8 DEF PhoneOK
<1>11. Begun(q, ln, over, q, ln2, over2, c)
  BY <1>1, <1>2, <1>3, <1>9 DEF Begun, Alive
<1>12. QED
  BY <1>2, <1>10, <1>11

\* Whose signals come first is whose signal is first.
LEMMA FirstIsHead ==
    ASSUME NEW q \in Seq(Signal), q # <<>>, NEW k \in Calls, First(q, k)
    PROVE  q[1].call = k
<1>1. 1 \in 1..Len(q)
  BY TailEffect
<1>2. QED
  BY <1>1 DEF First

\* Nothing is queued.
LEMMA EmptyQueue ==
    ASSUME NEW ln \in [Calls -> Phone], NEW over, ~ over => OneUnder(ln)
    PROVE  /\ PhoneOK(<<>>, ln, over)
           /\ \A k \in Calls : (Alive(<<>>, ln, k) <=> Under(ln, k)) /\ First(<<>>, k)
<1>1. <<>> \in Seq(Signal) /\ Len(<<>>) = 0
  OBVIOUS
<1>2. QED
  BY <1>1 DEF PhoneOK, Ending, LastIsEnd, InOrder, Alive, EndIn, First

----------------------------------------------------------------------------
(* The steps of the phone *)

\* The calls that go on and their callers stay.
PhoneMoves ==
    /\ PhoneOK(signals, line, overlapped)'
    /\ overlapped' = overlapped
    /\ Follows(signals, line, signals', line', overlapped)

LEMMA DeliveredHead ==
    ASSUME PhoneOK(signals, line, overlapped), NEW k \in Calls,
           NEW kind \in {"incoming", "connected", "ended"}, Delivered(kind, k)
    PROVE  /\ running /\ signals # <<>>
           /\ signals \in Seq(Signal)
           /\ signals[1].kind = kind /\ signals[1].call = k
<1>1. running /\ signals # <<>> /\ signals \in Seq(Signal)
  BY DEF Delivered, PhoneOK
<1>2. signals[1] = [kind |-> kind, call |-> k]
  BY <1>1, TailEffect DEF Delivered
<1>3. QED
  BY <1>1, <1>2

LEMMA NotAskedMoves ==
    ASSUME PhoneOK(signals, line, overlapped), NEW k \in Calls,
           NEW kind \in {"incoming", "connected"}, Delivered(kind, k),
           NotAsked, overlapped' = overlapped
    PROVE  PhoneMoves
BY DeliveredHead, TakeSignal DEF NotAsked, PhoneMoves

LEMMA EmittedSignals ==
    ASSUME NEW k \in Calls, NEW q \in Seq(Signal)
    PROVE  /\ q \o Emitted(<<>>, k) = q
           /\ \A kind \in {"connected", "ended"} :
                 q \o Emitted(<<kind>>, k) = Append(q, [kind |-> kind, call |-> k])
           /\ q \o Emitted(<<"connected", "ended">>, k)
                 = Append(Append(q, [kind |-> "connected", call |-> k]),
                          [kind |-> "ended", call |-> k])
<1>1. Emitted(<<>>, k) = <<>>
  BY DEF Emitted
<1>2. \A kind \in {"connected", "ended"} :
         Emitted(<<kind>>, k) = <<[kind |-> kind, call |-> k]>>
  BY DEF Emitted
<1>3. Emitted(<<"connected", "ended">>, k)
         = <<[kind |-> "connected", call |-> k], [kind |-> "ended", call |-> k]>>
  BY DEF Emitted
<1>4. q \o <<>> = q
  OBVIOUS
<1>5. \A e \in Signal : q \o <<e>> = Append(q, e)
  OBVIOUS
<1>6. \A e, f \in Signal : q \o <<e, f>> = Append(Append(q, e), f)
  OBVIOUS
<1>7. \A kind \in {"connected", "ended"} : [kind |-> kind, call |-> k] \in Signal
  BY DEF Signal
<1>8. QED
  BY <1>1, <1>2, <1>3, <1>4, <1>5, <1>6, <1>7

\* tincand answers or hangs up: the call is connected and may end at once.
LEMMA AskedMoves ==
    ASSUME PhoneOK(signals, line, overlapped), NEW k \in Calls, Delivered("incoming", k),
           Asked(k, IgnoreOutcomes) \/ Asked(k, AnswerOutcomes), overlapped' = overlapped
    PROVE  PhoneMoves
<1> DEFINE q == Tail(signals)
           c == [kind |-> "connected", call |-> k]
           e == [kind |-> "ended", call |-> k]
           To(phase) == [line EXCEPT ![k].phase = phase]
<1>1. PICK kinds \in {<<>>, <<"connected">>, <<"ended">>, <<"connected", "ended">>} :
         /\ kinds # <<>> => line[k].phase = "ringing"
         /\ signals' = q \o Emitted(kinds, k)
         /\ line' = IF kinds = <<>> THEN line
                    ELSE To(IF kinds[Len(kinds)] = "ended" THEN "over" ELSE "up")
  BY DEF Asked, IgnoreOutcomes, AnswerOutcomes
<1>2. PhoneOK(q, line, overlapped) /\ Follows(signals, line, q, line, overlapped)
  BY DeliveredHead, TakeSignal
<1>3. q \in Seq(Signal) /\ line \in [Calls -> Phone]
  BY <1>2 DEF PhoneOK
<1>4. \A phase \in {"up", "over"} :
         /\ To(phase) \in [Calls -> Phone]
         /\ To(phase)[k].phase = phase /\ To(phase)[k].who = line[k].who
         /\ \A j \in Calls \ {k} : To(phase)[j] = line[j]
  BY <1>3 DEF Phone
<1>5. line[k].phase = "ringing" => Under(line, k)
  BY DEF Under
<1> HIDE DEF q, To
<1>6. CASE kinds = <<>>
  BY <1>1, <1>2, <1>3, <1>6, EmittedSignals DEF PhoneMoves
<1>7. CASE kinds = <<"connected">>
  <2>1. signals' = Append(q, c) /\ line' = To("up") /\ Under(line, k)
    BY <1>1, <1>3, <1>5, <1>7, EmittedSignals
  <2>2. PhoneOK(Append(q, c), To("up"), overlapped)
        /\ Follows(q, line, Append(q, c), To("up"), overlapped)
    BY <1>2, <1>4, <2>1, GiveSignal
  <2>3. QED
    BY <1>2, <2>1, <2>2, FollowsTwice DEF PhoneMoves
<1>8. CASE kinds = <<"ended">>
  <2>1. signals' = Append(q, e) /\ line' = To("over") /\ Under(line, k)
    BY <1>1, <1>3, <1>5, <1>8, EmittedSignals
  <2>2. PhoneOK(Append(q, e), To("over"), overlapped)
        /\ Follows(q, line, Append(q, e), To("over"), overlapped)
    BY <1>2, <1>4, <2>1, GiveSignal
  <2>3. QED
    BY <1>2, <2>1, <2>2, FollowsTwice DEF PhoneMoves
<1>9. CASE kinds = <<"connected", "ended">>
  <2> DEFINE q1 == Append(q, c)
             q2 == Append(q1, e)
  <2>1. signals' = q2 /\ line' = To("over") /\ Under(line, k)
    BY <1>1, <1>3, <1>5, <1>9, EmittedSignals
  <2>2. PhoneOK(q1, To("up"), overlapped) /\ Follows(q, line, q1, To("up"), overlapped)
    BY <1>2, <1>4, <2>1, GiveSignal
  <2>3. Under(To("up"), k)
    BY <1>4 DEF Under
  <2> HIDE DEF q1
  <2>4. PhoneOK(q2, To("over"), overlapped)
        /\ Follows(q1, To("up"), q2, To("over"), overlapped)
    BY <1>4, <2>2, <2>3, GiveSignal
  <2>5. Follows(q, line, q2, To("over"), overlapped)
    BY <2>2, <2>4, FollowsTwice
  <2>6. QED
    BY <1>2, <2>1, <2>4, <2>5, FollowsTwice DEF PhoneMoves
<1>10. QED
  BY <1>1, <1>6, <1>7, <1>8, <1>9

\* Somebody picks up or hangs up, and the daemon is told ...
LEMMA ToldMoves ==
    ASSUME PhoneOK(signals, line, overlapped), NEW k \in Calls, running,
           PickUp(k) \/ End(k)
    PROVE  PhoneMoves
<1>1. line \in [Calls -> Phone] /\ overlapped' = overlapped
  BY DEF PhoneOK, PickUp, End
<1>2. CASE PickUp(k)
  <2>1. /\ line' = [line EXCEPT ![k].phase = "up"] /\ line[k].phase = "ringing"
        /\ signals' = Append(signals, [kind |-> "connected", call |-> k])
    BY <1>2 DEF PickUp, Emit
  <2>2. /\ line' \in [Calls -> Phone] /\ line'[k].phase = "up"
        /\ line'[k].who = line[k].who /\ Under(line, k)
        /\ \A j \in Calls \ {k} : line'[j] = line[j]
    BY <1>1, <2>1 DEF Phone, Under
  <2>3. LET q == Append(signals, [kind |-> "connected", call |-> k])
        IN  PhoneOK(q, line', overlapped) /\ Follows(signals, line, q, line', overlapped)
    BY <2>2, GiveSignal
  <2>4. QED
    BY <1>1, <2>1, <2>3 DEF PhoneMoves
<1>3. CASE End(k)
  <2>1. /\ line' = [line EXCEPT ![k].phase = "over"] /\ InProgress(k)
        /\ signals' = Append(signals, [kind |-> "ended", call |-> k])
    BY <1>3 DEF End, Emit
  <2>2. /\ line' \in [Calls -> Phone] /\ line'[k].phase = "over"
        /\ line'[k].who = line[k].who /\ Under(line, k)
        /\ \A j \in Calls \ {k} : line'[j] = line[j]
    BY <1>1, <2>1 DEF Phone, Under, InProgress
  <2>3. LET q == Append(signals, [kind |-> "ended", call |-> k])
        IN  PhoneOK(q, line', overlapped) /\ Follows(signals, line, q, line', overlapped)
    BY <2>2, GiveSignal
  <2>4. QED
    BY <1>1, <2>1, <2>3 DEF PhoneMoves
<1>4. QED
  BY <1>2, <1>3

\* ... or does not run.
LEMMA UntoldMoves ==
    ASSUME PhoneOK(signals, line, overlapped), NEW k \in Calls, ~ running,
           signals = <<>>, PickUp(k) \/ End(k)
    PROVE  PhoneOK(signals, line, overlapped)' /\ signals' = signals /\ lost' = TRUE
<1>1. /\ line \in [Calls -> Phone] /\ overlapped' = overlapped
      /\ signals' = <<>> /\ lost' = TRUE
  BY DEF PhoneOK, PickUp, End, Emit
<1>2. line' \in [Calls -> Phone] /\ \A j \in Calls : Under(line', j) => Under(line, j)
  BY <1>1 DEF PickUp, End, Phone, Under, InProgress
<1>3. ~ overlapped => OneUnder(line')
  BY <1>2 DEF PhoneOK, OneUnder
<1>4. PhoneOK(<<>>, line', overlapped)
  BY <1>2, <1>3, EmptyQueue
<1>5. QED
  BY <1>1, <1>4

\* A call begins, incoming or dialled.
LEMMA BeginMoves ==
    ASSUME PhoneOK(signals, line, overlapped), ~ running => signals = <<>>,
           NEW k \in Calls, NEW who \in Someone, Ring(k, who) \/ DialConfirm(k, who)
    PROVE  /\ PhoneOK(signals, line, overlapped)'
           /\ Begun(signals, line, overlapped, signals', line', overlapped', k)
           /\ lost => lost'
           /\ ~ running => signals' = <<>>
<1>1. Begin(k, who)
  BY DEF Ring, DialConfirm, Begin
<1>2. /\ line[k].phase = "idle"
      /\ line' \in [Calls -> Phone] /\ line'[k].phase = "ringing"
      /\ \A j \in Calls \ {k} : line'[j] = line[j]
      /\ overlapped' <=> (\E j \in Calls : Under(line, j)) \/ (overlapped /\ signals # <<>>)
  BY <1>1 DEF Begin, InProgress, Under, PhoneOK, Phone
<1>3. /\ PhoneOK(signals, line', overlapped')
      /\ Begun(signals, line, overlapped, signals, line', overlapped', k)
      /\ Under(line', k)
  BY <1>2, BeginCall
<1>4. CASE signals' = signals
  BY <1>3, <1>4 DEF Ring, DialConfirm, Emit, history
<1>5. CASE signals' # signals
  <2> DEFINE q == Append(signals, [kind |-> "incoming", call |-> k])
  <2>1. signals' = q /\ running /\ lost' = lost
    BY <1>5 DEF Ring, DialConfirm, Emit
  <2>2. line' \in [Calls -> Phone] /\ line'[k].phase \in {"ringing", "up"}
    BY <1>3 DEF PhoneOK, Under
  <2>3. /\ PhoneOK(q, line', overlapped')
        /\ Follows(signals, line', q, line', overlapped')
    BY <1>3, <2>2, GiveSignal
  <2> HIDE DEF q
  <2>4. Begun(signals, line, overlapped, q, line', overlapped', k)
    <3>1. ASSUME NEW j \in Calls \ {k}
          PROVE  /\ line'[j] = line[j]
                 /\ Alive(q, line', j) <=> Alive(signals, line, j)
                 /\ ~ overlapped' /\ Alive(signals, line, j) /\ First(signals, j)
                       => First(q, j)
      BY <1>3, <2>3 DEF Begun, Follows
    <3>2. QED
      BY <1>3, <3>1 DEF Begun
  <2>5. QED
    BY <2>1, <2>3, <2>4
<1>6. QED
  BY <1>4, <1>5

----------------------------------------------------------------------------
(* What the daemon keeps of its calls, when the phone moves *)

Books == SessionIsGoing /\ SessionIsTheCallers /\ PendingIsGoing /\ ContextIsGoing
            /\ ConnectedIsRecorded

\* A daemon that is told keeps what it knows as true as it was, part by part.
LEMMA SessionKept ==
    ASSUME TypeOK, PhoneMoves, SessionIsGoing, SessionIsTheCallers, session' = session,
           ~ failed' => ~ failed
    PROVE  SessionIsGoing' /\ SessionIsTheCallers'
<1>1. session # NoSession => session.call \in Calls
  BY DEF TypeOK
<1>2. session.who # NoContact => session # NoSession
  BY DEF NoSession
<1>3. SessionIsGoing'
  BY <1>1 DEF SessionIsGoing, PhoneMoves, Follows, Going
<1>4. SessionIsTheCallers'
  BY <1>1, <1>2 DEF SessionIsTheCallers, PhoneMoves, Follows
<1>5. QED
  BY <1>3, <1>4

LEMMA PendingKept ==
    ASSUME PhoneMoves, PendingIsGoing, pending' = pending, ~ failed' => ~ failed
    PROVE  PendingIsGoing'
BY DEF PendingIsGoing, PhoneMoves, Follows, Going

LEMMA ContextKept ==
    ASSUME PhoneMoves, ContextIsGoing, {ctx', row'} \subseteq {ctx, row, NoContact},
           ~ failed' => ~ failed, ~ lost' => ~ lost
    PROVE  ContextIsGoing'
BY DEF ContextIsGoing, PhoneMoves, Follows, Going

LEMMA ConnectedKept ==
    ASSUME TypeOK, PhoneMoves, ConnectedIsRecorded, connected' = connected,
           session' = session, ~ failed' => ~ failed
    PROVE  ConnectedIsRecorded'
<1>1. connected \subseteq Calls
  BY DEF TypeOK
<1>2. QED
  BY <1>1 DEF ConnectedIsRecorded, PhoneMoves, Follows, Going

LEMMA BooksKept ==
    ASSUME TypeOK, PhoneMoves, Books, ~ lost' => ~ lost,
           UNCHANGED <<session, pending, ctx, row, connected, failed>>
    PROVE  Books'
BY SessionKept, PendingKept, ContextKept, ConnectedKept DEF Books

\* A new call does not change what is known of the others.
LEMMA BooksAtBegin ==
    ASSUME TypeOK, PhoneOK(signals, line, overlapped), Books, NEW k \in Calls,
           Begun(signals, line, overlapped, signals', line', overlapped', k),
           ~ lost' => ~ lost, UNCHANGED <<session, pending, ctx, row, connected, failed>>
    PROVE  Books'
<1> USE DEF Begun, Going
<1>1. \A j \in Calls : Going(j) =>
         /\ j # k /\ line'[j] = line[j] /\ Going(j)'
         /\ ~ overlapped' => ~ overlapped
         /\ ~ overlapped' /\ First(signals, j) => First(signals', j)
  OBVIOUS
<1>2. \A j \in Calls : line[j].phase # "idle" =>
         j # k /\ line'[j] = line[j] /\ (Going(j)' => Going(j))
  OBVIOUS
<1> HIDE DEF Begun, Going
<1>3. (session # NoSession => session.call \in Calls) /\ connected \subseteq Calls
  BY DEF TypeOK
<1>4. SessionIsGoing'
  BY <1>1, <1>3 DEF Books, SessionIsGoing
<1>5. SessionIsTheCallers'
  <2>1. session.who # NoContact => session # NoSession
    BY DEF NoSession
  <2>2. QED
    BY <1>1, <1>3, <2>1 DEF Books, SessionIsGoing, SessionIsTheCallers
<1>6. PendingIsGoing'
  BY <1>1 DEF Books, PendingIsGoing
<1>7. ContextIsGoing'
  BY <1>1 DEF Books, ContextIsGoing
<1>8. ConnectedIsRecorded'
  <2> SUFFICES ASSUME NEW j \in connected
               PROVE  /\ line'[j].phase # "idle"
                      /\ ~ overlapped' /\ Going(j)' =>
                            First(signals', j) /\ (~ failed => session.call = j)
    BY DEF ConnectedIsRecorded
  <2>1. j \in Calls /\ line[j].phase # "idle"
    BY <1>3 DEF Books, ConnectedIsRecorded
  <2>2. QED
    BY <1>1, <1>2, <2>1 DEF Books, ConnectedIsRecorded
<1>9. QED
  BY <1>4, <1>5, <1>6, <1>7, <1>8 DEF Books

\* IncomingCall: the caller becomes the pending contact.
LEMMA BooksAtIncoming ==
    ASSUME TypeOK, PhoneOK(signals, line, overlapped), PhoneMoves, Books,
           NEW k \in Calls, Delivered("incoming", k), pending' = line[k].who,
           ~ lost' => ~ lost, UNCHANGED <<session, ctx, row, connected, failed>>
    PROVE  Books'
<1>1. /\ Going(k)
      /\ ~ overlapped => First(signals, k)
  <2>1. signals # <<>> /\ signals[1].kind # "ended" /\ signals[1].call = k
    BY DeliveredHead
  <2>2. Alive(signals, line, signals[1].call) /\ HeadIsFirst(signals, overlapped)
    BY <2>1, TakeSignal
  <2>3. QED
    BY <2>1, <2>2 DEF Going, HeadIsFirst
<1>2. PendingIsGoing'
  BY <1>1 DEF PendingIsGoing, PhoneMoves, Follows, Going
<1>3. QED
  BY <1>2, SessionKept, ContextKept, ConnectedKept DEF Books

\* CallConnected: the context and the session are the pending contact's.
LEMMA BooksAtConnected ==
    ASSUME TypeOK, PhoneOK(signals, line, overlapped), Books,
           NEW k \in Calls, OnConnected(k)
    PROVE  PhoneMoves /\ Books'
<1>1. /\ Delivered("connected", k) /\ NotAsked
      /\ UNCHANGED <<lost, overlapped, pending>>
      /\ connected' = connected \cup {k}
      /\ ~ failed' => ~ failed
  BY DEF OnConnected
<1>2. PhoneMoves
  BY <1>1, NotAskedMoves
<1>3. /\ Going(k) /\ line[k].phase # "idle"
      /\ ~ overlapped => First(signals, k)
  <2>1. signals # <<>> /\ signals[1].kind # "ended" /\ signals[1].call = k
    BY <1>1, DeliveredHead
  <2>2. Alive(signals, line, signals[1].call) /\ HeadIsFirst(signals, overlapped)
    BY <2>1, TakeSignal
  <2>3. QED
    BY <2>1, <2>2, AliveIsNotIdle DEF Going, HeadIsFirst
<1>4. \A j \in Calls : First(signals, j) => j = k
  BY <1>1, DeliveredHead, FirstIsHead
<1>5. /\ Going(k)' /\ line'[k].phase # "idle" /\ line'[k].who = line[k].who
      /\ ~ overlapped' => First(signals', k)
  BY <1>2, <1>3 DEF PhoneMoves, Follows, Going
<1>6. /\ session' = session \/ session' = [call |-> k, who |-> pending]
      /\ ~ failed' => session' = IF session = NoSession THEN [call |-> k, who |-> pending]
                                ELSE session
  BY DEF OnConnected, StartSession
<1>7. {ctx', row'} \subseteq {ctx, row, pending}
  BY DEF OnConnected, Write
<1>8. ~ overlapped /\ ~ failed /\ pending # NoContact => line[k].who = pending
  BY <1>4 DEF Books, PendingIsGoing
<1>9. SessionIsGoing' /\ SessionIsTheCallers'
  <2>1. CASE session' = session
    BY <1>1, <1>2, <2>1, SessionKept DEF Books
  <2>2. CASE session' = [call |-> k, who |-> pending]
    <3>1. session'.call = k /\ session'.who = pending
      BY <2>2
    <3>2. SessionIsGoing'
      BY <1>5, <3>1 DEF SessionIsGoing
    <3>3. SessionIsTheCallers'
      BY <1>1, <1>5, <1>8, <3>1 DEF SessionIsTheCallers
    <3>4. QED
      BY <3>2, <3>3
  <2>3. QED
    BY <1>6, <2>1, <2>2
<1>10. PendingIsGoing'
  BY <1>1, <1>2, PendingKept DEF Books
<1>11. ContextIsGoing'
  <2> SUFFICES ASSUME ~ lost', ~ failed', NEW who \in {ctx, row, pending} \ {NoContact}
               PROVE  \E j \in Calls : Going(j)' /\ (~ overlapped' => line'[j].who = who)
    BY <1>7 DEF ContextIsGoing
  <2>1. PICK j \in Calls : Going(j) /\ (~ overlapped => line[j].who = who)
    BY <1>1 DEF Books, ContextIsGoing, PendingIsGoing
  <2>2. QED
    BY <1>2, <2>1 DEF PhoneMoves, Follows, Going
<1>12. ConnectedIsRecorded'
  <2> SUFFICES ASSUME NEW j \in connected'
               PROVE  /\ line'[j].phase # "idle"
                      /\ ~ overlapped' /\ Going(j)' =>
                            First(signals', j) /\ (~ failed' => session'.call = j)
    BY DEF ConnectedIsRecorded
  <2>1. line'[j].phase # "idle" /\ j \in Calls
    <3>1. j \in Calls /\ line[j].phase # "idle"
      BY <1>1, <1>3 DEF Books, ConnectedIsRecorded, TypeOK
    <3>2. QED
      BY <1>2, <3>1 DEF PhoneMoves, Follows
  <2>2. ASSUME ~ overlapped', Going(j)'
        PROVE  j = k
    <3>1. Going(j) /\ ~ overlapped
      BY <1>1, <1>2, <2>1, <2>2 DEF PhoneMoves, Follows, Going
    <3>2. QED
      BY <1>1, <1>4, <2>1, <3>1 DEF Books, ConnectedIsRecorded
  <2>3. ASSUME ~ overlapped', ~ failed'
        PROVE  session'.call = k
    <3>1. CASE session = NoSession
      BY <1>6, <2>3, <3>1
    <3>2. CASE session # NoSession
      <4>1. session.call \in Calls /\ First(signals, session.call)
        BY <1>1, <2>3, <3>2 DEF Books, SessionIsGoing, TypeOK
      <4>2. QED
        BY <1>4, <1>6, <2>3, <3>2, <4>1
    <3>3. QED
      BY <3>1, <3>2
  <2>4. QED
    BY <1>5, <2>1, <2>2, <2>3
<1>13. QED
  BY <1>2, <1>9, <1>10, <1>11, <1>12 DEF Books

\* CallEnded: session, pending contact and context are dropped, or something raised.
LEMMA BooksAtEnded ==
    ASSUME TypeOK, PhoneOK(signals, line, overlapped), Books, NEW k \in Calls, OnEnded(k)
    PROVE  PhoneOK(signals, line, overlapped)' /\ Books'
<1>1. /\ Delivered("ended", k) /\ signals' = Tail(signals)
      /\ UNCHANGED <<line, overlapped, connected>>
      /\ session' = NoSession
      /\ ~ failed' => pending' = NoContact /\ ctx' = NoContact /\ row' = NoContact
  BY DEF OnEnded, NotAsked, ClearContext, Write
<1>2. /\ PhoneOK(Tail(signals), line, overlapped)
      /\ \A j \in Calls : Alive(Tail(signals), line, j) => Alive(signals, line, j)
      /\ \A j \in Calls : First(signals, j) => j = k
      /\ ~ Alive(Tail(signals), line, k)
  BY <1>1, DeliveredHead, TakeEnd
<1>3. SessionIsGoing' /\ SessionIsTheCallers' /\ PendingIsGoing' /\ ContextIsGoing'
  BY <1>1 DEF SessionIsGoing, SessionIsTheCallers, PendingIsGoing, ContextIsGoing, NoSession
<1>4. ConnectedIsRecorded'
  <2> SUFFICES ASSUME NEW j \in connected
               PROVE  /\ line[j].phase # "idle"
                      /\ ~ (~ overlapped /\ Alive(Tail(signals), line, j))
    BY <1>1 DEF ConnectedIsRecorded, Going
  <2>1. j \in Calls
    BY DEF TypeOK
  <2>2. QED
    BY <1>2, <2>1 DEF Books, ConnectedIsRecorded, Going
<1>5. QED
  BY <1>1, <1>2, <1>3, <1>4 DEF Books

\* The daemon stops: what was not handled is lost, and only the row is left.
LEMMA BooksAtStop ==
    ASSUME PhoneOK(signals, line, overlapped), Books, Stop
    PROVE  PhoneOK(signals, line, overlapped)' /\ Books'
<1>1. /\ signals' = <<>> /\ UNCHANGED <<line, overlapped, row, failed>>
      /\ session' = NoSession /\ pending' = NoContact /\ ctx' = NoContact /\ connected' = {}
      /\ ~ lost' => ~ lost /\ signals = <<>>
  BY DEF Stop
<1>2. PhoneOK(<<>>, line, overlapped)
  BY EmptyQueue DEF PhoneOK
<1>3. /\ SessionIsGoing' /\ SessionIsTheCallers' /\ PendingIsGoing'
      /\ ConnectedIsRecorded'
  BY <1>1 DEF SessionIsGoing, SessionIsTheCallers, PendingIsGoing, ConnectedIsRecorded,
     NoSession
<1>4. ContextIsGoing'
  BY <1>1 DEF Books, ContextIsGoing, Going
<1>5. QED
  BY <1>1, <1>2, <1>3, <1>4 DEF Books

----------------------------------------------------------------------------
(* Every step keeps the invariant. *)

LEMMA InitIInv == Init => IInv
<1> SUFFICES ASSUME Init
             PROVE  IInv
  OBVIOUS
<1> USE DEF Init
<1>1. line \in [Calls -> Phone] /\ \A k \in Calls : ~ Under(line, k) /\ line[k].phase = "idle"
  BY DEF Phone, Someone, Under
<1>2. PhoneOK(signals, line, overlapped)
  BY <1>1, EmptyQueue DEF OneUnder
<1>3. TypeOK
  <2>1. signals \in Seq([kind : {"incoming", "connected", "ended"}, call : Calls])
    OBVIOUS
  <2>2. stops \in 0 .. MaxStops
    BY StopsAssumption
  <2>3. QED
    BY <1>1, <2>1, <2>2 DEF TypeOK, Phone, Someone
<1>4. SessionIsGoing /\ SessionIsTheCallers /\ PendingIsGoing /\ ContextIsGoing
      /\ ConnectedIsRecorded
  BY DEF SessionIsGoing, SessionIsTheCallers, PendingIsGoing, ContextIsGoing,
     ConnectedIsRecorded, NoSession
<1>5. StoppedIsEmpty /\ EveryCallerIsTreated
  BY DEF StoppedIsEmpty, EveryCallerIsTreated
<1>6. QED
  BY <1>2, <1>3, <1>4, <1>5 DEF IInv

\* The types but for the phone's, which its own lemmas give.
LEMMA TypeStep ==
    ASSUME TypeOK, [Next]_vars, PhoneOK(signals, line, overlapped)'
    PROVE  TypeOK'
<1> USE DEF TypeOK, phone, context, skill, history
<1>1. /\ line' \in [Calls -> [phase : {"idle", "ringing", "up", "over"}, who : Someone]]
      /\ signals' \in Seq([kind : {"incoming", "connected", "ended"}, call : Calls])
  BY DEF PhoneOK, Phone, Signal
<1>2. ASSUME NEW k \in Calls, NEW who \in Someone, Ring(k, who)
      PROVE  TypeOK'
  <2>1. overlapped' \in BOOLEAN /\ lost' \in BOOLEAN
    BY <1>2 DEF Ring, Begin, Emit
  <2>2. QED
    BY <1>1, <1>2, <2>1 DEF Ring
<1>3. ASSUME NEW k \in Calls, NEW who \in Contacts, DialConfirm(k, who)
      PROVE  TypeOK'
  <2>1. overlapped' \in BOOLEAN
    BY <1>3 DEF DialConfirm, Begin
  <2>2. QED
    BY <1>1, <1>3, <2>1 DEF DialConfirm
<1>4. ASSUME NEW k \in Calls, PickUp(k) \/ End(k)
      PROVE  TypeOK'
  <2>1. lost' \in BOOLEAN
    BY <1>4 DEF PickUp, End, Emit
  <2>2. QED
    BY <1>1, <1>4, <2>1 DEF PickUp, End
<1>5. ASSUME NEW k \in Calls, Incoming(k)
      PROVE  TypeOK'
  <2> USE DEF Incoming, IncomingWhileBusy, IncomingIgnored, IncomingOffered
  <2>1. pending' \in Someone /\ owner' \in Calls \cup {NoCall}
    BY <1>5
  <2>2. treatment' \in [Calls -> {"none", "offered", "missed", "ignored", "dropped"}]
    BY <1>5
  <2>3. UNCHANGED <<context, skill, connected, lost, overlapped, running, session, dnd, stops>>
    BY <1>5
  <2>4. QED
    BY <1>1, <2>1, <2>2, <2>3
<1>6. ASSUME NEW k \in Calls, OnConnected(k)
      PROVE  TypeOK'
  <2>1. heard' \in BOOLEAN /\ failed' \in BOOLEAN /\ connected' \subseteq Calls
    BY <1>6 DEF OnConnected
  <2>2. {ctx', row'} \subseteq Someone
    BY <1>6 DEF OnConnected, Write
  <2>3. session' \in [call : Calls, who : Someone] \cup {NoSession}
    BY <1>6 DEF OnConnected, StartSession
  <2>4. QED
    BY <1>1, <1>6, <2>1, <2>2, <2>3 DEF OnConnected
<1>7. ASSUME NEW k \in Calls, OnEnded(k)
      PROVE  TypeOK'
  <2>1. failed' \in BOOLEAN /\ lost' \in BOOLEAN
    BY <1>7 DEF OnEnded
  <2>2. {pending', ctx', row'} \subseteq Someone /\ owner' \in Calls \cup {NoCall}
    BY <1>7 DEF OnEnded, ClearContext, Write, Release, Someone
  <2>3. QED
    BY <1>1, <1>7, <2>1, <2>2 DEF OnEnded
<1>8. CASE DialReturns
  BY <1>1, <1>8 DEF DialReturns
<1>9. CASE SetPosture
  BY <1>1, <1>9 DEF SetPosture
<1>10. CASE Stop
  <2>1. stops' \in 0 .. MaxStops
    BY <1>10, StopsAssumption DEF Stop
  <2>2. lost' \in BOOLEAN
    BY <1>10 DEF Stop
  <2>3. QED
    BY <1>1, <1>10, <2>1, <2>2 DEF Stop, Someone
<1>11. CASE Start
  BY <1>1, <1>11 DEF Start
<1>12. CASE UNCHANGED vars
  BY <1>12 DEF vars
<1>13. QED
  BY <1>2, <1>3, <1>4, <1>5, <1>6, <1>7, <1>8, <1>9, <1>10, <1>11, <1>12 DEF Next

\* The phone, and what is kept of its calls.
LEMMA BooksStep ==
    ASSUME TypeOK, PhoneOK(signals, line, overlapped), StoppedIsEmpty, Books, [Next]_vars
    PROVE  PhoneOK(signals, line, overlapped)' /\ Books'
<1> DEFINE I == PhoneOK(signals, line, overlapped)' /\ Books'
<1> USE DEF phone, context, skill, history
<1>1. ASSUME NEW k \in Calls, NEW who \in Someone, Ring(k, who) \/ DialConfirm(k, who)
      PROVE  I
  <2>1. UNCHANGED <<session, pending, ctx, row, connected, failed>>
    BY <1>1 DEF Ring, DialConfirm
  <2>2. /\ PhoneOK(signals, line, overlapped)'
        /\ Begun(signals, line, overlapped, signals', line', overlapped', k)
        /\ lost => lost'
    BY <1>1, BeginMoves DEF StoppedIsEmpty
  <2>3. QED
    BY <2>1, <2>2, BooksAtBegin
<1>2. ASSUME NEW k \in Calls, PickUp(k) \/ End(k)
      PROVE  I
  <2>1. UNCHANGED <<session, pending, ctx, row, connected, failed>>
    BY <1>2 DEF PickUp, End
  <2>2. CASE running
    <3>1. PhoneMoves /\ lost' = lost
      BY <1>2, <2>2, ToldMoves DEF PickUp, End, Emit
    <3>2. QED
      BY <2>1, <3>1, BooksKept DEF PhoneMoves
  <2>3. CASE ~ running
    <3>1. PhoneOK(signals, line, overlapped)' /\ lost' = TRUE
      BY <1>2, <2>3, UntoldMoves DEF StoppedIsEmpty
    <3>2. Books'
      BY <2>1, <2>3, <3>1 DEF StoppedIsEmpty, Books, SessionIsGoing, SessionIsTheCallers,
         PendingIsGoing, ContextIsGoing, ConnectedIsRecorded, NoSession
    <3>3. QED
      BY <3>1, <3>2
  <2>4. QED
    BY <2>2, <2>3
<1>3. ASSUME NEW k \in Calls, IncomingWhileBusy(k)
      PROVE  I
  <2>1. PhoneMoves
    BY <1>3, NotAskedMoves DEF IncomingWhileBusy
  <2>2. QED
    BY <1>3, <2>1, BooksKept DEF IncomingWhileBusy, PhoneMoves
<1>4. ASSUME NEW k \in Calls, IncomingIgnored(k) \/ IncomingOffered(k)
      PROVE  I
  <2>1. /\ Delivered("incoming", k) /\ pending' = line[k].who
        /\ UNCHANGED <<session, ctx, row, connected, failed, lost, overlapped>>
        /\ Asked(k, IgnoreOutcomes) \/ Asked(k, AnswerOutcomes) \/ NotAsked
    BY <1>4 DEF IncomingIgnored, IncomingOffered
  <2>2. PhoneMoves
    BY <2>1, AskedMoves, NotAskedMoves
  <2>3. QED
    BY <2>1, <2>2, BooksAtIncoming DEF PhoneMoves
<1>5. ASSUME NEW k \in Calls, OnConnected(k)
      PROVE  I
  BY <1>5, BooksAtConnected DEF PhoneMoves
<1>6. ASSUME NEW k \in Calls, OnEnded(k)
      PROVE  I
  BY <1>6, BooksAtEnded
<1>7. ASSUME UNCHANGED <<phone, session, pending, ctx, row, connected, failed, lost>>
      PROVE  I
  <2>1. PhoneMoves
    BY <1>7, FollowsNone DEF PhoneMoves
  <2>2. QED
    BY <1>7, <2>1, BooksKept DEF PhoneMoves
<1>8. CASE DialReturns \/ SetPosture \/ UNCHANGED vars
  BY <1>7, <1>8 DEF DialReturns, SetPosture, vars
<1>9. CASE Stop
  BY <1>9, BooksAtStop
<1>10. CASE Start
  <2>1. /\ UNCHANGED <<phone, row, failed, lost, connected, pending, session>>
        /\ ctx' = row
    BY <1>10 DEF Start
  <2>2. PhoneMoves
    BY <2>1, FollowsNone DEF PhoneMoves
  <2>3. QED
    BY <2>1, <2>2, SessionKept, PendingKept, ContextKept, ConnectedKept
       DEF Books, PhoneMoves
<1>11. QED
  <2>1. Contacts \subseteq Someone
    BY DEF Someone
  <2>2. QED
    BY <1>1, <1>2, <1>3, <1>4, <1>5, <1>6, <1>8, <1>9, <1>10, <2>1 DEF Next, Incoming

\* Signals and calls reach only a daemon that runs.
LEMMA StoppedStep ==
    ASSUME StoppedIsEmpty, [Next]_vars
    PROVE  StoppedIsEmpty'
<1> USE DEF StoppedIsEmpty, phone, context, skill, history
<1>1. ASSUME NEW k \in Calls, NEW who \in Someone, Ring(k, who)
      PROVE  StoppedIsEmpty'
  BY <1>1 DEF Ring, Emit
<1>2. ASSUME NEW k \in Calls, NEW who \in Contacts, DialConfirm(k, who)
      PROVE  StoppedIsEmpty'
  BY <1>2 DEF DialConfirm
<1>3. ASSUME NEW k \in Calls, PickUp(k) \/ End(k)
      PROVE  StoppedIsEmpty'
  BY <1>3 DEF PickUp, End, Emit
<1>4. ASSUME NEW k \in Calls, Incoming(k) \/ OnConnected(k) \/ OnEnded(k)
      PROVE  StoppedIsEmpty'
  BY <1>4 DEF Incoming, IncomingWhileBusy, IncomingIgnored, IncomingOffered, OnConnected,
     OnEnded, Delivered
<1>5. CASE DialReturns \/ SetPosture \/ Stop \/ Start \/ UNCHANGED vars
  BY <1>5 DEF DialReturns, SetPosture, Stop, Start, vars
<1>6. QED
  BY <1>1, <1>2, <1>3, <1>4, <1>5 DEF Next

LEMMA TreatedStep ==
    ASSUME TypeOK, EveryCallerIsTreated, [Next]_vars
    PROVE  EveryCallerIsTreated'
<1> USE DEF EveryCallerIsTreated, TypeOK, phone, context, skill, history
<1>1. ASSUME NEW k \in Calls, Incoming(k)
      PROVE  EveryCallerIsTreated'
  BY <1>1 DEF Incoming, IncomingWhileBusy, IncomingIgnored, IncomingOffered
<1>2. CASE Stop
  BY <1>2 DEF Stop
<1>3. CASE treatment' = treatment
  BY <1>3
<1>4. QED
  BY <1>1, <1>2, <1>3 DEF Next, Ring, DialConfirm, PickUp, End, OnConnected, OnEnded,
     DialReturns, SetPosture, Start, vars

LEMMA StepIInv == IInv /\ [Next]_vars => IInv'
BY BooksStep, TypeStep, StoppedStep, TreatedStep DEF IInv, Books

-----------------------------------------------------------------------------
(* The theorems *)

\* The invariant holds in every behaviour.
THEOREM IInvSpec == Spec => []IInv
BY InitIInv, StepIInv, PTL DEF Spec

\* Every variable keeps its type.
THEOREM TypeCorrect == Spec => []TypeOK
<1>1. IInv => TypeOK
  BY DEF IInv
<1>2. QED
  BY <1>1, IInvSpec, PTL

\* HandlingEngine and CallCardHost: nobody who calls is dropped, and while calls come one
\* at a time a connected call is recorded until it ends, in its own session and under its
\* own caller's name.
THEOREM Served == Spec => []CallersAreServed
<1>1. ASSUME IInv
      PROVE  CallersAreServed
  <2>1. EveryCallerIsTreated
    BY <1>1 DEF IInv
  <2>2. \A k \in connected : k \in Calls /\ (InProgress(k) \/ EndQueued(k) => Going(k))
    BY <1>1, EndsAreQueued DEF IInv, TypeOK, PhoneOK
  <2>3. RecordsTheCall
    BY <1>1, <2>2 DEF IInv, RecordsTheCall, ConnectedIsRecorded, SessionIsTheCallers
  <2>4. QED
    BY <2>1, <2>3 DEF CallersAreServed
<1>2. QED
  BY <1>1, IInvSpec, PTL

\* BrainHost's context, in memory and in the database: it is the contact's whose call it
\* is, while calls come one at a time; and once the line is quiet nothing of a call is
\* left, whatever overlapped or was restarted.
THEOREM ContextTheirs == Spec => []ContextIsTheCallers
<1>1. ASSUME IInv
      PROVE  ContextIsTheCallers
  <2>1. \A k \in Calls : Going(k) <=> InProgress(k) \/ EndQueued(k)
    BY <1>1, EndsAreQueued DEF IInv, PhoneOK
  <2>2. ContextOnlyInItsCall
    BY <1>1, <2>1 DEF IInv, ContextIsGoing, ContextOnlyInItsCall
  <2>3. DrainedMeansClear
    <3> SUFFICES ASSUME Drained, ~ lost, ~ failed
                 PROVE  /\ pending = NoContact /\ ctx = NoContact /\ row = NoContact
                        /\ session = NoSession
      BY DEF DrainedMeansClear
    <3>1. \A k \in Calls : ~ Going(k)
      BY <2>1 DEF Drained, EndQueued
    <3>2. session # NoSession => session.call \in Calls
      BY <1>1 DEF IInv, TypeOK
    <3>3. QED
      BY <1>1, <3>1, <3>2 DEF IInv, PendingIsGoing, ContextIsGoing, SessionIsGoing
  <2>4. QED
    BY <2>2, <2>3 DEF ContextIsTheCallers
<1>2. QED
  BY <1>1, IInvSpec, PTL

----------------------------------------------------------------------------
(* Lifecycle: how the daemon comes to run and to end.                       *)

\* Between the lock and the removal of the files, and from the pid on.
Working == L!Locked \ {"removed"}
Named == Working \ {"locked"}

\* The lock that a daemon at work holds is the one at the path, it is one's own file that
\* nobody else has before it is opened, and no two hold the same.
LocksAreOrderly ==
    /\ \A p, q \in L!Procs :
          (at[p] \in L!Locked /\ at[q] \in L!Locked /\ file[p] = file[q]) => p = q
    /\ \A p \in L!Procs : at[p] \in {"opened"} \cup L!Locked => file[p] # L!None
    /\ \A p \in L!Procs : at[p] = "spawned" => lockPath # p /\ \A q \in L!Procs : file[q] # p
    /\ ~ raced => \A p \in L!Procs : at[p] \in Working => file[p] = lockPath

\* The pid file and the socket are those of the daemon at work.
NamesAreOrderly ==
    ~ raced => \A p \in L!Procs : /\ at[p] \in Named => text = p
                                  /\ at[p] \in L!Up => socket = p

\* As long as every daemon removes its files, whoever is named is a daemon at work, and no
\* number went to another process.
NamedAreAtWork ==
    ~ raced /\ ~ unclean => /\ text # L!None => at[text] \in Named
                            /\ \A p \in L!Procs : at[p] # "other"

\* A command that waits for a process, or is to stop one, knows which.
PidsAreKnown == \A c \in L!Commands : cmd[c].at \in {"wait", "kill"} => cmd[c].pid # L!None

\* The inductive invariant.
LifecycleInv ==
    /\ L!TypeOK
    /\ LocksAreOrderly
    /\ NamesAreOrderly
    /\ NamedAreAtWork
    /\ PidsAreKnown
    /\ L!OnlyDaemonsAreStopped

----------------------------------------------------------------------------
\* The least of the numbers that are free is one of them.
LEMMA NextFreeIsFree ==
    ASSUME MaxProcs \in Nat, \E p \in L!Procs : L!Free(p)
    PROVE  L!NextFree \in L!Procs /\ L!Free(L!NextFree)
<1> DEFINE F == {p \in L!Procs : L!Free(p)}
<1>1. F \subseteq Nat /\ F # {}
  BY DEF L!Procs
<1>2. IsWellFoundedOn(OpToRel(<, Nat), Nat)
  BY NatLessThanWellFounded
<1>3. PICK p \in F : \A q \in F : ~ (<<q, p>> \in OpToRel(<, Nat))
  BY <1>1, <1>2, WFMin
<1>4. \A q \in F : ~ (q < p)
  BY <1>1, <1>3 DEF OpToRel
<1>5. \A q \in F : p <= q
  BY <1>1, <1>4
<1>6. p \in L!Procs /\ L!Free(p) /\ \A q \in L!Procs : L!Free(q) => p <= q
  BY <1>5
<1>7. QED
  BY <1>6 DEF L!NextFree

LEMMA ProcsAreSome == ASSUME NEW p \in L!Procs PROVE p # L!None
BY DEF L!Procs, L!None

LEMMA SomeAreProcs ==
    ASSUME MaxProcs \in Nat, NEW p \in 0 .. MaxProcs, p # L!None
    PROVE  p \in L!Procs
<1>1. p \in Nat /\ p <= MaxProcs /\ p # 0
  BY DEF L!None
<1>2. QED
  BY <1>1 DEF L!Procs

\* Initially there is no daemon, or one that has it all.
LEMMA InitLifecycleInv ==
    ASSUME MaxProcs \in Nat \ {0}, MaxFaults \in Nat
    PROVE  L!Init => LifecycleInv
<1> SUFFICES ASSUME L!Init
             PROVE  LifecycleInv
  OBVIOUS
<1>1. PICK runs \in SUBSET {1} :
          /\ at = [p \in L!Procs |-> IF p \in runs THEN "ready" ELSE "none"]
          /\ file = [p \in L!Procs |-> IF p \in runs THEN p ELSE L!None]
          /\ level \in [L!Procs -> {"none", "green"}]
          /\ lockPath = file[1] /\ text = file[1] /\ socket = file[1]
          /\ main \in {L!None, file[1]}
          /\ unit \in IF main # L!None THEN {"on"}
                      ELSE IF runs = {} THEN {"absent", "off"} ELSE {"absent", "off", "waiting"}
  BY DEF L!Init
<1>2. 1 \in L!Procs /\ L!Procs \subseteq 0 .. MaxProcs /\ L!None \in 0 .. MaxProcs
  BY DEF L!Procs, L!None
<1>3. L!TypeOK
  <2>1. file \in [L!Procs -> 0 .. MaxProcs] /\ {lockPath, text, socket, main} \subseteq 0 .. MaxProcs
    BY <1>1, <1>2
  <2>2. cmd \in [L!Commands -> [is : {"none"} \cup L!Kinds,
                              at : {"new", "wait", "kill", "brain", "probe"} \cup L!Results,
                              pid : 0 .. MaxProcs]]
    BY <1>2 DEF L!Init, L!Idle
  <2>3. at \in [L!Procs -> {"none", "other", "spawned", "opened"} \cup L!Locked]
        /\ level \in [L!Procs -> {"none"} \cup L!Levels] /\ told \subseteq L!Procs
    BY <1>1 DEF L!Init, L!Locked, L!Levels
  <2>4. unit \in {"absent", "off", "on", "waiting"}
    BY <1>1
  <2>5. faults \in 0 .. MaxFaults
    BY DEF L!Init
  <2>6. {raced, unclean, stray} \subseteq BOOLEAN
    BY DEF L!Init
  <2>7. QED
    BY <2>1, <2>2, <2>3, <2>4, <2>5, <2>6 DEF L!TypeOK
<1>4. \A p \in L!Procs : at[p] # "none" => at[p] = "ready" /\ p = 1 /\ runs = {1}
  BY <1>1
<1>5. runs = {1} => file[1] = 1 /\ at[1] = "ready"
  BY <1>1, <1>2
<1>6. runs # {1} => file[1] = L!None
  <2>1. runs # {1} => 1 \notin runs
    BY <1>1
  <2>2. file[1] = IF 1 \in runs THEN 1 ELSE L!None
    BY <1>1, <1>2, Zenon
  <2>3. QED
    BY <2>1, <2>2
<1>7. LocksAreOrderly
  <2>1. \A p \in L!Procs : at[p] \in {"opened"} \cup L!Locked => p = 1 /\ file[1] = 1 /\ lockPath = 1
    BY <1>1, <1>4, <1>5 DEF L!Locked
  <2>2. \A p \in L!Procs : at[p] # "spawned"
    BY <1>4
  <2>3. QED
    BY <1>2, <2>1, <2>2, ProcsAreSome DEF LocksAreOrderly, L!Locked, Working
<1>8. NamesAreOrderly /\ NamedAreAtWork
  BY <1>1, <1>4, <1>5, <1>6 DEF NamesAreOrderly, NamedAreAtWork, Named, Working, L!Locked, L!Up
<1>9. PidsAreKnown /\ L!OnlyDaemonsAreStopped
  BY DEF L!Init, L!Idle, PidsAreKnown, L!OnlyDaemonsAreStopped
<1>10. QED
  BY <1>3, <1>7, <1>8, <1>9 DEF LifecycleInv

----------------------------------------------------------------------------
(* What the commands do to the processes.                                   *)

\* Nothing, or a process is begun, or one is sent SIGTERM.
Rests == UNCHANGED <<L!process, L!paths, faults, L!history>>

Spawns ==
    \E n \in L!Procs : /\ L!Free(n) /\ at' = [at EXCEPT ![n] = "spawned"]
                       /\ UNCHANGED <<file, told, level, L!paths, faults, L!history>>

Signals ==
    \E p \in L!Procs : at[p] # "none" /\ L!Terminate(p) /\ UNCHANGED <<L!paths, faults, raced>>

\* What the unit and the main process may be.
SystemdTypes == unit \in {"absent", "off", "on", "waiting"} /\ main \in 0 .. MaxProcs

LEMMA UnitStep ==
    ASSUME L!TypeOK, MaxProcs \in Nat, L!StartUnit, UNCHANGED <<file, told, level, L!paths, faults, L!history>>
    PROVE  (Rests \/ Spawns) /\ SystemdTypes'
<1>1. CASE unit = "on"
  BY <1>1 DEF L!StartUnit, Rests, L!process, L!systemd, SystemdTypes, L!TypeOK
<1>2. CASE unit # "on"
  <2>1. /\ L!NextFree \in L!Procs /\ L!Free(L!NextFree)
        /\ unit' = "on" /\ main' = L!NextFree /\ at' = [at EXCEPT ![L!NextFree] = "spawned"]
    BY <1>2, NextFreeIsFree DEF L!StartUnit, L!Move
  <2>2. L!NextFree \in 0 .. MaxProcs
    BY <2>1 DEF L!Procs
  <2>3. Spawns
    BY <2>1 DEF Spawns
  <2>4. QED
    BY <2>1, <2>2, <2>3 DEF SystemdTypes
<1>3. QED
  BY <1>1, <1>2

\* A command goes on to where it has a process, or ends and has none.
LEMMA CommandTypes ==
    ASSUME L!TypeOK, PidsAreKnown, NEW c \in L!Commands, NEW to, NEW p \in 0 .. MaxProcs, L!Goes(c, to, p),
           to \in {"new", "wait", "kill", "brain", "probe"} \cup L!Results,
           to \in {"wait", "kill"} => p # L!None
    PROVE  cmd' \in [L!Commands -> [is : {"none"} \cup L!Kinds,
                                  at : {"new", "wait", "kill", "brain", "probe"} \cup L!Results,
                                  pid : 0 .. MaxProcs]] /\ PidsAreKnown'
<1> DEFINE Cs == [is : {"none"} \cup L!Kinds,
                  at : {"new", "wait", "kill", "brain", "probe"} \cup L!Results,
                  pid : 0 .. MaxProcs]
<1>1. cmd \in [L!Commands -> Cs]
  BY DEF L!TypeOK
<1>2. cmd' = [cmd EXCEPT ![c] = [[cmd[c] EXCEPT !.at = to] EXCEPT !.pid = p]]
  BY <1>1 DEF L!Goes
<1>3. [[cmd[c] EXCEPT !.at = to] EXCEPT !.pid = p] \in Cs
  BY <1>1
<1>4. cmd'[c].at = to /\ cmd'[c].pid = p /\ \A d \in L!Commands : d # c => cmd'[d] = cmd[d]
  BY <1>1, <1>2
<1>5. PidsAreKnown'
  BY <1>4 DEF PidsAreKnown
<1>6. QED
  BY <1>1, <1>2, <1>3, <1>5

\* What there is to be said of a step of a command.
CommandTyped ==
    /\ cmd' \in [L!Commands -> [is : {"none"} \cup L!Kinds,
                              at : {"new", "wait", "kill", "brain", "probe"} \cup L!Results,
                              pid : 0 .. MaxProcs]]
    /\ PidsAreKnown' /\ SystemdTypes'

LEMMA CommandStep ==
    ASSUME L!TypeOK, PidsAreKnown, MaxProcs \in Nat, NEW c \in L!Commands,
           L!Carries(c) \/ L!GivesUp(c) \/ \E is \in L!Kinds : L!Give(c, is)
    PROVE  (Rests \/ Spawns \/ Signals) /\ CommandTyped
<1> DEFINE Cs == [is : {"none"} \cup L!Kinds,
                  at : {"new", "wait", "kill", "brain", "probe"} \cup L!Results,
                  pid : 0 .. MaxProcs]
           Keeps == UNCHANGED <<unit, main>>
<1>0. /\ SystemdTypes /\ cmd \in [L!Commands -> Cs] /\ cmd[c] \in Cs /\ L!None \in 0 .. MaxProcs
      /\ socket \in 0 .. MaxProcs /\ text \in 0 .. MaxProcs
  BY DEF L!TypeOK, SystemdTypes, L!None
<1>1. ASSUME NEW res \in L!Results, L!Result(c, res)
      PROVE  cmd' \in [L!Commands -> Cs] /\ PidsAreKnown'
  <2>1. L!Goes(c, res, L!None) /\ res \notin {"wait", "kill"}
    BY <1>1 DEF L!Goes, L!Result, L!Results
  <2>2. QED
    BY <1>0, <2>1, CommandTypes
<1>2. ASSUME NEW to \in {"wait", "kill", "probe"}, NEW p \in 0 .. MaxProcs, p # L!None, L!Goes(c, to, p)
      PROVE  cmd' \in [L!Commands -> Cs] /\ PidsAreKnown'
  BY <1>2, CommandTypes
<1>3. ASSUME NEW to \in {"brain", "probe"}, L!Goes(c, to, L!None)
      PROVE  cmd' \in [L!Commands -> Cs] /\ PidsAreKnown'
  BY <1>0, <1>3, CommandTypes
<1>4. L!Probed \in 0 .. MaxProcs /\ L!Running \in 0 .. MaxProcs
  BY <1>0 DEF L!Probed, L!Running
<1>5. CASE L!StartProbes(c)
  <2>1. CASE L!Probed # L!None
    BY <1>0, <1>1, <1>5, <2>1
       DEF L!StartProbes, Rests, L!process, L!systemd, SystemdTypes, CommandTyped, L!Results
  <2>2. CASE L!Probed = L!None
    <3>1. /\ L!NextFree \in L!Procs /\ L!Free(L!NextFree) /\ L!Goes(c, "wait", L!NextFree)
          /\ at' = [at EXCEPT ![L!NextFree] = "spawned"]
          /\ UNCHANGED <<file, told, level, L!paths, unit, main, faults, L!history>>
      BY <1>5, <2>2, NextFreeIsFree DEF L!StartProbes, L!Move, L!systemd
    <3>2. L!NextFree \in 0 .. MaxProcs /\ L!NextFree # L!None
      BY <3>1 DEF L!Procs, L!None
    <3>3. QED
      BY <1>0, <1>2, <3>1, <3>2 DEF Spawns, CommandTyped, SystemdTypes
  <2>3. QED
    BY <2>1, <2>2
<1>6. CASE L!StartSees(c) \/ L!StopSees(c) \/ L!StatusAsks(c) \/ L!GivesUp(c) \/ L!UpConsole(c)
  <2>1. Rests /\ Keeps /\ \E res \in L!Results : L!Result(c, res)
    BY <1>6 DEF L!StartSees, L!Seen, L!StopSees, L!StatusAsks, L!GivesUp, L!UpConsole, Rests, L!systemd, L!Results
  <2>2. QED
    BY <1>0, <1>1, <2>1 DEF CommandTyped, SystemdTypes
<1>7. CASE L!StopReads(c) \/ L!StatusReads(c)
  <2>1. /\ Rests /\ Keeps
        /\ L!Result(c, "down") \/ (L!Running # L!None /\ \E to \in {"kill", "probe"} : L!Goes(c, to, L!Running))
    BY <1>7 DEF L!StopReads, L!StatusReads, Rests, L!systemd
  <2>2. QED
    BY <1>0, <1>1, <1>2, <1>4, <2>1 DEF CommandTyped, SystemdTypes, L!Results
<1>8. CASE L!StopKills(c)
  <2> DEFINE d == cmd[c].pid
  <2>1. d \in L!Procs /\ d # L!None /\ d \in 0 .. MaxProcs
    <3>1. d # L!None /\ d \in 0 .. MaxProcs
      BY <1>0, <1>8 DEF L!StopKills, L!IsAt, PidsAreKnown
    <3>2. QED
      BY <3>1, SomeAreProcs
  <2>2. CASE at[d] = "none"
    <3>1. L!Result(c, "stopped") /\ Rests /\ Keeps
      BY <1>8, <2>2 DEF L!StopKills, Rests, L!systemd, L!history
    <3>2. QED
      BY <1>0, <1>1, <3>1 DEF SystemdTypes, CommandTyped, L!Results
  <2>3. CASE at[d] # "none"
    <3>1. L!Goes(c, "wait", d) /\ L!Terminate(d) /\ UNCHANGED <<L!paths, faults, raced>>
      BY <1>8, <2>3 DEF L!StopKills
    <3>2. SystemdTypes'
      BY <1>0, <3>1 DEF L!Terminate, L!Ends, L!systemd, SystemdTypes
    <3>3. QED
      BY <1>2, <2>1, <2>3, <3>1, <3>2 DEF Signals, CommandTyped
  <2>4. QED
    BY <2>2, <2>3
<1>9. CASE L!UpServices(c)
  BY <1>0, <1>1, <1>3, <1>9 DEF L!UpServices, Rests, L!systemd, CommandTyped, SystemdTypes, L!Results
<1>10. CASE L!UpBrain(c)
  <2>1. /\ L!Goes(c, "probe", L!None) /\ UNCHANGED <<file, told, level, L!paths, faults, L!history>>
        /\ L!StartUnit \/ UNCHANGED <<at, unit, main>>
    BY <1>10 DEF L!UpBrain, L!systemd
  <2>2. QED
    BY <1>0, <1>3, <2>1, UnitStep DEF Rests, L!process, CommandTyped, SystemdTypes
<1>11. CASE L!InstallWrites(c)
  <2>1. /\ Rests /\ UNCHANGED main /\ unit' \in {unit, "off"}
        /\ L!Goes(c, "brain", L!None) \/ \E res \in L!Results : L!Result(c, res)
    BY <1>11 DEF L!InstallWrites, Rests, L!Results
  <2>2. QED
    BY <1>0, <1>1, <1>3, <2>1 DEF CommandTyped, SystemdTypes
<1>12. CASE L!InstallStarts(c)
  <2>1. /\ L!Result(c, "installed") /\ UNCHANGED <<file, told, level, L!paths, faults, L!history>>
        /\ L!StartUnit
    BY <1>12 DEF L!InstallStarts
  <2>2. QED
    BY <1>1, <2>1, UnitStep DEF CommandTyped, L!Results
<1>13. CASE \E is \in L!Kinds : L!Give(c, is)
  <2>1. PICK is \in L!Kinds : L!Give(c, is)
    BY <1>13
  <2>2. /\ Rests /\ Keeps /\ cmd' = [cmd EXCEPT ![c] = [cmd[c] EXCEPT !.is = is]]
    BY <1>0, <2>1 DEF L!Give, Rests, L!systemd
  <2>3. [cmd[c] EXCEPT !.is = is] \in Cs /\ [cmd[c] EXCEPT !.is = is].at = cmd[c].at
        /\ [cmd[c] EXCEPT !.is = is].pid = cmd[c].pid
    BY <1>0
  <2>4. cmd' \in [L!Commands -> Cs] /\ PidsAreKnown'
    BY <1>0, <2>2, <2>3 DEF PidsAreKnown
  <2>5. QED
    BY <1>0, <2>2, <2>4 DEF CommandTyped, SystemdTypes
<1>14. QED
  BY <1>5, <1>6, <1>7, <1>8, <1>9, <1>10, <1>11, <1>12, <1>13 DEF L!Carries

----------------------------------------------------------------------------
(* What a process does.                                                     *)

Acts(p) == L!Steps(p) \/ L!Beat(p) \/ L!Crash(p) \/ L!Recycle(p) \/ L!OtherEnds(p)

LEMMA NextSteps ==
    ASSUME L!TypeOK, PidsAreKnown, MaxProcs \in Nat, [L!Next]_L!vars
    PROVE  \/ UNCHANGED L!vars
           \/ \E p \in L!Procs : Acts(p)
           \/ Rests /\ CommandTyped
           \/ Spawns /\ CommandTyped
           \/ Signals /\ CommandTyped
<1>1. ASSUME L!Restart
      PROVE  Spawns /\ CommandTyped
  <2>1. L!NextFree \in L!Procs /\ L!Free(L!NextFree)
    BY <1>1, NextFreeIsFree DEF L!Restart
  <2>2. L!NextFree \in 0 .. MaxProcs
    BY <2>1 DEF L!Procs
  <2>3. /\ unit' = "on" /\ main' = L!NextFree /\ at' = [at EXCEPT ![L!NextFree] = "spawned"]
        /\ UNCHANGED <<file, told, level, L!paths, cmd, faults, L!history>>
    BY <1>1 DEF L!Restart, L!Move
  <2>4. Spawns
    BY <2>1, <2>3 DEF Spawns
  <2>5. QED
    BY <2>2, <2>3, <2>4 DEF CommandTyped, SystemdTypes, L!TypeOK, PidsAreKnown
<1>2. ASSUME NEW c \in L!Commands, L!Carries(c) \/ L!GivesUp(c) \/ \E is \in L!Kinds : L!Give(c, is)
      PROVE  (Rests \/ Spawns \/ Signals) /\ CommandTyped
  BY <1>2, CommandStep
<1>3. QED
  BY <1>1, <1>2, Zenon DEF L!Next, Acts

\* A process ends.
Over(p) ==
    /\ at' = [at EXCEPT ![p] = "none"] /\ file' = [file EXCEPT ![p] = L!None]
    /\ told' = told \ {p} /\ level' = [level EXCEPT ![p] = "none"]

LEMMA EndsIsOver ==
    ASSUME NEW p, NEW gaveUp, L!Ends(p, gaveUp)
    PROVE  Over(p)
BY DEF L!Ends, L!Move, Over

\* What a signal does: the process is told, or it ends.
LEMMA SignalEffect ==
    ASSUME L!TypeOK, Signals
    PROVE  \E p \in L!Procs :
              /\ UNCHANGED <<L!paths, faults, raced>>
              /\ \/ told' = told \cup {p} /\ UNCHANGED <<at, file, level, unclean, stray>>
                 \/ /\ Over(p) /\ at[p] \in {"other", "spawned", "opened", "locked", "starting"}
                    /\ unclean' = (unclean \/ at[p] # "other")
                    /\ stray' = (stray \/ at[p] = "other")
<1>1. PICK p \in L!Procs : at[p] # "none" /\ L!Terminate(p) /\ UNCHANGED <<L!paths, faults, raced>>
  BY DEF Signals
<1>2. at[p] \in {"none", "other", "spawned", "opened"} \cup L!Locked
  BY DEF L!TypeOK
<1>3. CASE at[p] \in {"binding", "closing", "removed"} \cup L!Up
  BY <1>1, <1>3 DEF L!Terminate
<1>4. CASE at[p] \notin {"binding", "closing", "removed"} \cup L!Up
  <2>1. Over(p) /\ at[p] \in {"other", "spawned", "opened", "locked", "starting"}
    BY <1>1, <1>2, <1>4, EndsIsOver DEF L!Terminate, L!Locked, L!Up
  <2>2. unclean' = (unclean \/ at[p] # "other") /\ stray' = (stray \/ at[p] = "other")
    BY <1>1, <1>4 DEF L!Terminate
  <2>3. QED
    BY <1>1, <2>1, <2>2
<1>5. QED
  BY <1>3, <1>4

----------------------------------------------------------------------------
(* The types.                                                               *)

ProcessTypes ==
    /\ at \in [L!Procs -> {"none", "other", "spawned", "opened"} \cup L!Locked]
    /\ file \in [L!Procs -> 0 .. MaxProcs] /\ told \subseteq L!Procs
    /\ level \in [L!Procs -> {"none"} \cup L!Levels]

SharedTypes ==
    /\ lockPath \in 0 .. MaxProcs /\ text \in 0 .. MaxProcs /\ socket \in 0 .. MaxProcs
    /\ faults \in 0 .. MaxFaults
    /\ raced \in BOOLEAN /\ unclean \in BOOLEAN /\ stray \in BOOLEAN

CommandTypesHold ==
    cmd \in [L!Commands -> [is : {"none"} \cup L!Kinds,
                          at : {"new", "wait", "kill", "brain", "probe"} \cup L!Results,
                          pid : 0 .. MaxProcs]]

LEMMA TypesOfParts ==
    /\ L!TypeOK => ProcessTypes /\ SharedTypes /\ SystemdTypes /\ CommandTypesHold
    /\ ProcessTypes' /\ SharedTypes' /\ SystemdTypes' /\ CommandTypesHold' => L!TypeOK'
BY DEF L!TypeOK, ProcessTypes, SharedTypes, SystemdTypes, CommandTypesHold

LEMMA OverTypes ==
    ASSUME ProcessTypes, NEW p \in L!Procs, Over(p), MaxProcs \in Nat
    PROVE  ProcessTypes'
<1>1. L!None \in 0 .. MaxProcs
  BY DEF L!None
<1>2. QED
  BY <1>1 DEF ProcessTypes, Over

LEMMA EndsTypes ==
    ASSUME SystemdTypes, ProcessTypes, NEW p \in L!Procs, NEW gaveUp \in BOOLEAN, L!Ends(p, gaveUp),
           MaxProcs \in Nat
    PROVE  SystemdTypes' /\ ProcessTypes'
<1>1. L!None \in 0 .. MaxProcs
  BY DEF L!None
<1>2. SystemdTypes'
  BY <1>1 DEF L!Ends, SystemdTypes
<1>3. QED
  BY <1>2, EndsIsOver, OverTypes

LEMMA BeatEffect ==
    ASSUME NEW p \in L!Procs, L!Beat(p)
    PROVE  /\ at[p] \in L!Up /\ L!Move(p, "ready")
           /\ \E l \in L!Levels : level' = [level EXCEPT ![p] = l]
           /\ UNCHANGED <<file, told, lockPath, text, socket, unit, main, cmd, faults>>
           /\ UNCHANGED <<raced, unclean, stray>>
BY DEF L!Beat, L!paths, L!systemd, L!history

LEMMA ActTypes ==
    ASSUME L!TypeOK, PidsAreKnown, MaxProcs \in Nat, MaxFaults \in Nat, NEW p \in L!Procs, Acts(p)
    PROVE  L!TypeOK' /\ PidsAreKnown'
<1> USE DEF L!process, L!paths, L!systemd, L!history
<1>0. /\ ProcessTypes /\ SharedTypes /\ SystemdTypes /\ CommandTypesHold
      /\ L!None \in 0 .. MaxProcs /\ p \in 0 .. MaxProcs
  BY TypesOfParts DEF L!None, L!Procs
<1>1. UNCHANGED cmd
  <2>1. CASE L!Open(p) \/ L!Lock(p) \/ L!WritePid(p) \/ L!UnlinkSocket(p) \/ L!Bind(p)
    BY <2>1 DEF L!Open, L!Lock, L!WritePid, L!UnlinkSocket, L!Bind
  <2>2. CASE L!CloseSocket(p) \/ L!RemovePid(p) \/ L!Exit(p)
    BY <2>2 DEF L!CloseSocket, L!RemovePid, L!Exit
  <2>3. CASE L!Crash(p) \/ L!Recycle(p) \/ L!OtherEnds(p)
    BY <2>3 DEF L!Crash, L!Recycle, L!OtherEnds
  <2>4. L!Beat(p) => UNCHANGED cmd
    BY BeatEffect
  <2>5. QED
    BY <2>1, <2>2, <2>3, <2>4 DEF Acts, L!Steps
<1>2. CommandTypesHold' /\ PidsAreKnown'
  BY <1>0, <1>1 DEF CommandTypesHold, PidsAreKnown
<1>3. ASSUME NEW x \in {"none", "other", "spawned", "opened"} \cup L!Locked, L!Move(p, x),
             UNCHANGED <<told, unit, main>>, level' = level \/ \E l \in L!Levels : level' = [level EXCEPT ![p] = l],
             file' = file \/ file' = [file EXCEPT ![p] = lockPath']
      PROVE  lockPath' \in 0 .. MaxProcs => ProcessTypes' /\ SystemdTypes'
  BY <1>0, <1>3 DEF ProcessTypes, SystemdTypes, L!Move
<1>4. CASE L!Open(p)
  <2>1. SharedTypes'
    BY <1>0, <1>4 DEF L!Open, SharedTypes
  <2>2. ProcessTypes' /\ SystemdTypes'
    BY <1>3, <1>4, <2>1 DEF L!Open, SharedTypes
  <2>3. QED
    BY <1>2, <2>1, <2>2, TypesOfParts
<1>5. CASE L!Lock(p)
  <2>1. SharedTypes'
    BY <1>0, <1>5 DEF L!Lock, SharedTypes
  <2>2. CASE L!Taken(p)
    <3>1. L!Ends(p, TRUE)
      BY <1>5, <2>2 DEF L!Lock
    <3>2. ProcessTypes' /\ SystemdTypes'
      BY <1>0, <3>1, EndsTypes
    <3>3. QED
      BY <1>2, <2>1, <3>2, TypesOfParts
  <2>3. CASE ~ L!Taken(p)
    <3>1. ProcessTypes' /\ SystemdTypes'
      BY <1>3, <1>5, <2>1, <2>3 DEF L!Lock, SharedTypes, L!Locked
    <3>2. QED
      BY <1>2, <2>1, <3>1, TypesOfParts
  <2>4. QED
    BY <2>2, <2>3
<1>6. CASE L!WritePid(p) \/ L!UnlinkSocket(p) \/ L!CloseSocket(p) \/ L!RemovePid(p)
  <2>1. SharedTypes'
    BY <1>0, <1>6 DEF L!WritePid, L!UnlinkSocket, L!CloseSocket, L!RemovePid, SharedTypes
  <2>2. /\ \E x \in L!Locked : L!Move(p, x)
        /\ UNCHANGED <<told, unit, main, level, file>>
    BY <1>6 DEF L!WritePid, L!UnlinkSocket, L!CloseSocket, L!RemovePid, L!Locked
  <2>3. ProcessTypes' /\ SystemdTypes'
    BY <1>3, <2>1, <2>2 DEF SharedTypes
  <2>4. QED
    BY <1>2, <2>1, <2>3, TypesOfParts
<1>7. CASE L!Bind(p)
  <2>1. SharedTypes'
    BY <1>0, <1>7 DEF L!Bind, SharedTypes
  <2>2. CASE socket = L!None
    <3>1. ProcessTypes' /\ SystemdTypes'
      BY <1>3, <1>7, <2>1, <2>2 DEF L!Bind, SharedTypes, L!Locked
    <3>2. QED
      BY <1>2, <2>1, <3>1, TypesOfParts
  <2>3. CASE socket # L!None
    <3>1. L!Ends(p, TRUE)
      BY <1>7, <2>3 DEF L!Bind
    <3>2. ProcessTypes' /\ SystemdTypes'
      BY <1>0, <3>1, EndsTypes
    <3>3. QED
      BY <1>2, <2>1, <3>2, TypesOfParts
  <2>4. QED
    BY <2>2, <2>3
<1>8. CASE L!Exit(p) \/ L!Crash(p)
  <2>1. SharedTypes'
    <3>1. faults' \in 0 .. MaxFaults
      <4>1. faults \in Nat /\ faults <= MaxFaults
        BY <1>0 DEF SharedTypes
      <4>2. faults' = faults \/ (faults < MaxFaults /\ faults' = faults + 1)
        BY <1>8 DEF L!Exit, L!Crash
      <4>3. faults' \in Nat /\ faults' <= MaxFaults
        BY <4>1, <4>2
      <4>4. QED
        BY <4>3
    <3>2. QED
      BY <1>0, <1>8, <3>1 DEF L!Exit, L!Crash, SharedTypes
  <2>2. \E gaveUp \in BOOLEAN : L!Ends(p, gaveUp)
    BY <1>8 DEF L!Exit, L!Crash
  <2>3. ProcessTypes' /\ SystemdTypes'
    BY <1>0, <2>2, EndsTypes
  <2>4. QED
    BY <1>2, <2>1, <2>3, TypesOfParts
<1>9. CASE L!Beat(p)
  <2>1. SharedTypes'
    BY <1>0, <1>9, BeatEffect DEF SharedTypes
  <2>2. /\ L!Move(p, "ready") /\ UNCHANGED <<told, unit, main, file>>
        /\ \E l \in L!Levels : level' = [level EXCEPT ![p] = l]
    BY <1>9, BeatEffect
  <2>3. ProcessTypes' /\ SystemdTypes'
    BY <1>3, <2>1, <2>2 DEF SharedTypes, L!Locked
  <2>4. QED
    BY <1>2, <2>1, <2>3, TypesOfParts
<1>10. CASE L!Recycle(p) \/ L!OtherEnds(p)
  <2>1. /\ L!Move(p, "other") \/ L!Move(p, "none")
        /\ UNCHANGED <<told, unit, main, file, level>>
    BY <1>0, <1>10 DEF L!Recycle, L!OtherEnds, SharedTypes
  <2>2. SharedTypes'
    BY <1>0, <1>10 DEF L!Recycle, L!OtherEnds, SharedTypes
  <2>3. ProcessTypes' /\ SystemdTypes'
    BY <1>3, <2>1, <2>2 DEF SharedTypes
  <2>4. QED
    BY <1>2, <2>2, <2>3, TypesOfParts
<1>11. QED
  BY <1>4, <1>5, <1>6, <1>7, <1>8, <1>9, <1>10 DEF Acts, L!Steps

LEMMA LifecycleTypes ==
    ASSUME L!TypeOK, PidsAreKnown, MaxProcs \in Nat, MaxFaults \in Nat, [L!Next]_L!vars
    PROVE  L!TypeOK' /\ PidsAreKnown'
<1> USE DEF L!process, L!paths, L!systemd, L!history
<1>0. ProcessTypes /\ SharedTypes /\ SystemdTypes /\ CommandTypesHold
  BY TypesOfParts
<1>1. CASE UNCHANGED L!vars
  BY <1>1 DEF L!vars, L!TypeOK, PidsAreKnown
<1>2. CASE Rests /\ CommandTyped
  <2>1. ProcessTypes' /\ SharedTypes'
    BY <1>0, <1>2 DEF Rests, ProcessTypes, SharedTypes
  <2>2. QED
    BY <1>2, <2>1, TypesOfParts DEF CommandTyped, CommandTypesHold
<1>3. CASE Spawns /\ CommandTyped
  <2>1. ProcessTypes' /\ SharedTypes'
    BY <1>0, <1>3 DEF Spawns, ProcessTypes, SharedTypes
  <2>2. QED
    BY <1>3, <2>1, TypesOfParts DEF CommandTyped, CommandTypesHold
<1>4. CASE Signals /\ CommandTyped
  <2>1. PICK p \in L!Procs :
              /\ UNCHANGED <<L!paths, faults, raced>>
              /\ \/ told' = told \cup {p} /\ UNCHANGED <<at, file, level, unclean, stray>>
                 \/ /\ Over(p)
                    /\ unclean' = (unclean \/ at[p] # "other")
                    /\ stray' = (stray \/ at[p] = "other")
    BY <1>4, SignalEffect
  <2>2. ProcessTypes'
    BY <1>0, <2>1, OverTypes DEF ProcessTypes
  <2>3. SharedTypes'
    BY <1>0, <2>1 DEF SharedTypes
  <2>4. QED
    BY <1>4, <2>2, <2>3, TypesOfParts DEF CommandTyped, CommandTypesHold
<1>5. QED
  BY <1>1, <1>2, <1>3, <1>4, NextSteps, ActTypes

----------------------------------------------------------------------------
(* The locks.                                                               *)

\* While no unlinked file was locked, one process is at work.
LEMMA OneAtWork ==
    ASSUME LocksAreOrderly, ~ raced, NEW p \in L!Procs, NEW q \in L!Procs,
           at[p] \in Working, at[q] \in Working
    PROVE  p = q /\ file[p] = lockPath
BY DEF LocksAreOrderly, Working

\* A process that goes on, and does not open or lock a file, leaves the locks in order.
LEMMA MoveKeepsLocks ==
    ASSUME ProcessTypes, LocksAreOrderly, NEW p \in L!Procs, NEW x,
           at' = [at EXCEPT ![p] = x], UNCHANGED <<file, lockPath, raced>>,
           x \in {"none", "other"} \/ (x \in L!Locked /\ at[p] \in Working)
    PROVE  LocksAreOrderly'
<1>1. \A q \in L!Procs :
         /\ at'[q] \in L!Locked => at[q] \in L!Locked
         /\ at'[q] \in Working => at[q] \in Working
         /\ at'[q] \in {"opened"} \cup L!Locked => at[q] \in {"opened"} \cup L!Locked
         /\ at'[q] = "spawned" => at[q] = "spawned"
  BY DEF ProcessTypes, L!Locked, Working
<1>2. QED
  BY <1>1 DEF LocksAreOrderly

\* So does one that ends, and one at work that unlinks the path.
LEMMA OverKeepsLocks ==
    ASSUME ProcessTypes, LocksAreOrderly, NEW p \in L!Procs, Over(p), UNCHANGED raced,
           lockPath' = lockPath \/ (lockPath' = L!None /\ at[p] \in Working)
    PROVE  LocksAreOrderly'
<1>1. \A q \in L!Procs :
         /\ at'[q] = IF q = p THEN "none" ELSE at[q]
         /\ file'[q] = IF q = p THEN L!None ELSE file[q]
  BY DEF Over, ProcessTypes
<1>2. \A q, r \in L!Procs :
         (at'[q] \in L!Locked /\ at'[r] \in L!Locked /\ file'[q] = file'[r]) => q = r
  BY <1>1 DEF LocksAreOrderly, L!Locked
<1>3. \A q \in L!Procs : at'[q] \in {"opened"} \cup L!Locked => file'[q] # L!None
  BY <1>1 DEF LocksAreOrderly, L!Locked
<1>4. \A q \in L!Procs : at'[q] = "spawned" => lockPath' # q /\ \A r \in L!Procs : file'[r] # q
  BY <1>1, ProcsAreSome DEF LocksAreOrderly
<1>5. ASSUME ~ raced, NEW q \in L!Procs, at'[q] \in Working
      PROVE  file'[q] = lockPath'
  <2>1. q # p /\ at[q] \in Working /\ file'[q] = file[q]
    BY <1>1, <1>5 DEF Working, L!Locked
  <2>2. lockPath' = lockPath
    BY <1>5, <2>1, OneAtWork
  <2>3. QED
    BY <1>5, <2>1, <2>2 DEF LocksAreOrderly
<1>6. QED
  BY <1>2, <1>3, <1>4, <1>5 DEF LocksAreOrderly

LEMMA LocksAct ==
    ASSUME ProcessTypes, LocksAreOrderly, NEW p \in L!Procs, Acts(p)
    PROVE  LocksAreOrderly'
<1> USE DEF L!paths, L!history
<1>1. CASE L!Open(p)
  <2>1. /\ at' = [at EXCEPT ![p] = "opened"] /\ file' = [file EXCEPT ![p] = lockPath']
        /\ at[p] = "spawned" /\ lockPath' = IF lockPath = L!None THEN p ELSE lockPath
        /\ UNCHANGED raced
    BY <1>1 DEF L!Open, L!Move
  <2>2. \A q \in L!Procs :
           /\ at'[q] = IF q = p THEN "opened" ELSE at[q]
           /\ file'[q] = IF q = p THEN lockPath' ELSE file[q]
    BY <2>1 DEF ProcessTypes
  <2>3. lockPath' # L!None
    BY <2>1, ProcsAreSome
  <2>4. \A q, r \in L!Procs :
           (at'[q] \in L!Locked /\ at'[r] \in L!Locked /\ file'[q] = file'[r]) => q = r
    BY <2>2 DEF LocksAreOrderly, L!Locked
  <2>5. \A q \in L!Procs : at'[q] \in {"opened"} \cup L!Locked => file'[q] # L!None
    BY <2>2, <2>3 DEF LocksAreOrderly
  <2>6. \A q \in L!Procs : at'[q] = "spawned" => lockPath' # q /\ \A r \in L!Procs : file'[r] # q
    BY <2>1, <2>2 DEF LocksAreOrderly
  <2>7. ASSUME ~ raced, NEW q \in L!Procs, at'[q] \in Working
        PROVE  file'[q] = lockPath'
    <3>1. q # p /\ at[q] \in Working /\ file'[q] = file[q]
      BY <2>2, <2>7 DEF Working, L!Locked
    <3>2. file[q] = lockPath /\ file[q] # L!None
      BY <2>7, <3>1 DEF LocksAreOrderly, Working
    <3>3. QED
      BY <2>1, <3>1, <3>2
  <2>8. QED
    BY <2>1, <2>4, <2>5, <2>6, <2>7 DEF LocksAreOrderly
<1>2. CASE L!Lock(p)
  <2>1. CASE L!Taken(p)
    BY <1>2, <2>1, EndsIsOver, OverKeepsLocks DEF L!Lock
  <2>2. CASE ~ L!Taken(p)
    <3>1. /\ at[p] = "opened" /\ at' = [at EXCEPT ![p] = "locked"]
          /\ raced' = (raced \/ file[p] # lockPath) /\ UNCHANGED <<file, lockPath>>
      BY <1>2, <2>2 DEF L!Lock, L!Move
    <3>2. \A q \in L!Procs : at'[q] = IF q = p THEN "locked" ELSE at[q]
      BY <3>1 DEF ProcessTypes
    <3>3. \A q \in L!Procs : at[q] \in L!Locked => file[q] # file[p]
      BY <2>2 DEF L!Taken, L!Holds
    <3>4. \A q, r \in L!Procs :
             (at'[q] \in L!Locked /\ at'[r] \in L!Locked /\ file'[q] = file'[r]) => q = r
      BY <3>1, <3>2, <3>3 DEF LocksAreOrderly
    <3>5. \A q \in L!Procs : at'[q] \in {"opened"} \cup L!Locked => file'[q] # L!None
      BY <3>1, <3>2 DEF LocksAreOrderly
    <3>6. \A q \in L!Procs : at'[q] = "spawned" => lockPath' # q /\ \A r \in L!Procs : file'[r] # q
      BY <3>1, <3>2 DEF LocksAreOrderly
    <3>7. ~ raced' => \A q \in L!Procs : at'[q] \in Working => file'[q] = lockPath'
      BY <3>1, <3>2 DEF LocksAreOrderly
    <3>8. QED
      BY <3>4, <3>5, <3>6, <3>7 DEF LocksAreOrderly
  <2>3. QED
    BY <2>1, <2>2
<1>3. CASE L!WritePid(p) \/ L!UnlinkSocket(p) \/ L!CloseSocket(p)
  <2>1. /\ at[p] \in Working /\ \E x \in L!Locked : at' = [at EXCEPT ![p] = x]
        /\ UNCHANGED <<file, lockPath, raced>>
    BY <1>3 DEF L!WritePid, L!UnlinkSocket, L!CloseSocket, L!Move, Working, L!Locked
  <2>2. QED
    BY <2>1, MoveKeepsLocks
<1>4. CASE L!Bind(p)
  <2>1. CASE socket = L!None
    <3>1. /\ at[p] \in Working /\ at' = [at EXCEPT ![p] = "serving"] /\ "serving" \in L!Locked
          /\ UNCHANGED <<file, lockPath, raced>>
      BY <1>4, <2>1 DEF L!Bind, L!Move, Working, L!Locked
    <3>2. QED
      BY <3>1, MoveKeepsLocks
  <2>2. CASE socket # L!None
    <3>1. Over(p) /\ lockPath' = L!None /\ UNCHANGED raced /\ at[p] \in Working
      BY <1>4, <2>2, EndsIsOver DEF L!Bind, Working, L!Locked
    <3>2. QED
      BY <3>1, OverKeepsLocks
  <2>3. QED
    BY <2>1, <2>2
<1>5. CASE L!RemovePid(p)
  <2>1. /\ at[p] = "closing" /\ at' = [at EXCEPT ![p] = "removed"]
        /\ lockPath' = L!None /\ UNCHANGED <<file, raced>>
    BY <1>5 DEF L!RemovePid, L!Move
  <2>2. \A q \in L!Procs : at'[q] = IF q = p THEN "removed" ELSE at[q]
    BY <2>1 DEF ProcessTypes
  <2>3. \A q, r \in L!Procs :
           (at'[q] \in L!Locked /\ at'[r] \in L!Locked /\ file'[q] = file'[r]) => q = r
    BY <2>1, <2>2 DEF LocksAreOrderly, L!Locked
  <2>4. \A q \in L!Procs : at'[q] \in {"opened"} \cup L!Locked => file'[q] # L!None
    BY <2>1, <2>2 DEF LocksAreOrderly, L!Locked
  <2>5. \A q \in L!Procs : at'[q] = "spawned" => lockPath' # q /\ \A r \in L!Procs : file'[r] # q
    BY <2>1, <2>2, ProcsAreSome DEF LocksAreOrderly
  <2>6. ASSUME ~ raced, NEW q \in L!Procs
        PROVE  at'[q] \notin Working
    BY <2>1, <2>2, <2>6, OneAtWork DEF Working, L!Locked
  <2>7. QED
    BY <2>1, <2>3, <2>4, <2>5, <2>6 DEF LocksAreOrderly
<1>6. CASE L!Exit(p) \/ L!Crash(p)
  <2>1. Over(p) /\ UNCHANGED <<lockPath, raced>>
    BY <1>6, EndsIsOver DEF L!Exit, L!Crash
  <2>2. QED
    BY <2>1, OverKeepsLocks
<1>7. CASE L!Beat(p)
  <2>1. /\ at[p] \in Working /\ at' = [at EXCEPT ![p] = "ready"] /\ "ready" \in L!Locked
        /\ UNCHANGED <<file, lockPath, raced>>
    BY <1>7, BeatEffect DEF L!Move, L!Up, Working, L!Locked
  <2>2. QED
    BY <2>1, MoveKeepsLocks
<1>8. CASE L!Recycle(p) \/ L!OtherEnds(p)
  <2>1. /\ \E x \in {"none", "other"} : at' = [at EXCEPT ![p] = x]
        /\ UNCHANGED <<file, lockPath, raced>>
    BY <1>8 DEF L!Recycle, L!OtherEnds, L!Move
  <2>2. QED
    BY <2>1, MoveKeepsLocks
<1>9. QED
  BY <1>1, <1>2, <1>3, <1>4, <1>5, <1>6, <1>7, <1>8 DEF Acts, L!Steps

LEMMA LocksStep ==
    ASSUME L!TypeOK, PidsAreKnown, MaxProcs \in Nat, LocksAreOrderly, [L!Next]_L!vars
    PROVE  LocksAreOrderly'
<1> USE DEF L!process, L!paths, L!history
<1>0. ProcessTypes
  BY TypesOfParts
<1>1. CASE UNCHANGED L!vars
  BY <1>1 DEF L!vars, LocksAreOrderly
<1>2. CASE Rests
  BY <1>2 DEF Rests, LocksAreOrderly
<1>3. CASE Spawns
  <2>1. PICK n \in L!Procs : /\ L!Free(n) /\ at' = [at EXCEPT ![n] = "spawned"]
                             /\ UNCHANGED <<file, lockPath, raced>>
    BY <1>3 DEF Spawns
  <2>2. \A q \in L!Procs : at'[q] = IF q = n THEN "spawned" ELSE at[q]
    BY <1>0, <2>1 DEF ProcessTypes
  <2>3. n # lockPath /\ \A q \in L!Procs : file[q] # n
    BY <2>1 DEF L!Free
  <2>4. QED
    BY <2>1, <2>2, <2>3 DEF LocksAreOrderly, L!Locked, Working
<1>4. CASE Signals
  <2>1. PICK p \in L!Procs :
              /\ UNCHANGED <<lockPath, raced>>
              /\ UNCHANGED <<at, file>> \/ Over(p)
    BY <1>4, SignalEffect
  <2>2. QED
    BY <1>0, <2>1, OverKeepsLocks DEF LocksAreOrderly
<1>5. QED
  BY <1>0, <1>1, <1>2, <1>3, <1>4, NextSteps, LocksAct

----------------------------------------------------------------------------
(* The names.                                                               *)

\* Where only one process has moved, and is no further than it was, the names are right if
\* they are left alone.
LEMMA NamesStay ==
    ASSUME ProcessTypes, NamesAreOrderly, NEW p \in L!Procs, NEW x,
           at' = [at EXCEPT ![p] = x], UNCHANGED <<text, socket, raced>>,
           x \in Named => at[p] \in Named, x \in L!Up => at[p] \in L!Up
    PROVE  NamesAreOrderly'
<1>1. \A q \in L!Procs : at'[q] = IF q = p THEN x ELSE at[q]
  BY DEF ProcessTypes
<1>2. \A q \in L!Procs : /\ at'[q] \in Named => at[q] \in Named
                         /\ at'[q] \in L!Up => at[q] \in L!Up
  BY <1>1
<1>3. QED
  BY <1>2 DEF NamesAreOrderly

\* A process that was not at work is not the one that is named.
LEMMA NamedStay ==
    ASSUME MaxProcs \in Nat, ProcessTypes, SharedTypes, NamedAreAtWork, NEW p \in L!Procs, NEW x,
           at' = [at EXCEPT ![p] = x], UNCHANGED <<text, raced>>, unclean' = TRUE \/ UNCHANGED unclean,
           x # "other", x \in Named \/ at[p] \notin Named
    PROVE  NamedAreAtWork'
<1> SUFFICES ASSUME ~ raced, ~ unclean
             PROVE  (text # L!None => at'[text] \in Named) /\ \A q \in L!Procs : at'[q] # "other"
  BY DEF NamedAreAtWork
<1>1. \A q \in L!Procs : at'[q] = IF q = p THEN x ELSE at[q]
  BY DEF ProcessTypes
<1>2. \A q \in L!Procs : at'[q] # "other"
  BY <1>1 DEF NamedAreAtWork
<1>3. ASSUME text # L!None
      PROVE  at'[text] \in Named
  <2>1. at[text] \in Named
    BY <1>3 DEF NamedAreAtWork
  <2>2. text \in L!Procs
    BY <1>3, SomeAreProcs DEF SharedTypes
  <2>3. QED
    BY <1>1, <2>1, <2>2
<1>4. QED
  BY <1>2, <1>3

LEMMA NamesAct ==
    ASSUME MaxProcs \in Nat, ProcessTypes, SharedTypes, LocksAreOrderly, NamesAreOrderly,
           NamedAreAtWork, NEW p \in L!Procs, Acts(p)
    PROVE  NamesAreOrderly' /\ NamedAreAtWork'
<1> USE DEF L!paths, L!history
<1>0. /\ "spawned" \notin Named /\ "opened" \notin Named /\ "locked" \notin Named
      /\ "removed" \notin Named /\ "none" \notin Named /\ "other" \notin Named
      /\ L!Up \subseteq Named /\ Named \subseteq Working
      /\ {"starting", "binding", "serving", "ready", "closing"} \subseteq Named
      /\ "locked" \in Working
  BY DEF Named, Working, L!Locked, L!Up
<1>1. CASE L!Open(p)
  <2>1. /\ at[p] = "spawned" /\ at' = [at EXCEPT ![p] = "opened"]
        /\ UNCHANGED <<text, socket, raced, unclean>>
    BY <1>1 DEF L!Open, L!Move
  <2>2. QED
    BY <1>0, <2>1, NamesStay, NamedStay
<1>2. CASE L!Lock(p)
  <2>1. CASE L!Taken(p)
    <3>1. /\ at[p] = "opened" /\ at' = [at EXCEPT ![p] = "none"]
          /\ UNCHANGED <<text, socket, raced, unclean>>
      BY <1>2, <2>1, EndsIsOver DEF L!Lock, Over
    <3>2. QED
      BY <1>0, <3>1, NamesStay, NamedStay
  <2>2. CASE ~ L!Taken(p)
    <3>1. /\ at[p] = "opened" /\ at' = [at EXCEPT ![p] = "locked"]
          /\ text' = IF file[p] = lockPath THEN L!None ELSE text
          /\ raced' = (raced \/ file[p] # lockPath) /\ UNCHANGED unclean
      BY <1>2, <2>2 DEF L!Lock, L!Move
    <3>2. \A q \in L!Procs : at'[q] = IF q = p THEN "locked" ELSE at[q]
      BY <3>1 DEF ProcessTypes
    <3>3. ASSUME ~ raced', NEW q \in L!Procs
          PROVE  at[q] \notin Named
      <4>1. file[p] = lockPath /\ ~ raced
        BY <3>1, <3>3
      <4>2. at[q] \in Named => at[q] \in L!Locked /\ file[q] = lockPath
        BY <1>0, <4>1 DEF LocksAreOrderly, Working
      <4>3. QED
        BY <2>2, <4>1, <4>2 DEF L!Taken, L!Holds
    <3>4. ~ raced' => text' = L!None /\ \A q \in L!Procs : at'[q] \notin Named
      BY <1>0, <3>1, <3>2, <3>3
    <3>5. NamesAreOrderly'
      BY <1>0, <3>4 DEF NamesAreOrderly
    <3>6. ~ raced' /\ ~ unclean' => \A q \in L!Procs : at'[q] # "other"
      <4>1. ~ raced' /\ ~ unclean' => ~ raced /\ ~ unclean
        BY <3>1 DEF SharedTypes
      <4>2. QED
        BY <3>2, <4>1 DEF NamedAreAtWork
    <3>7. QED
      BY <3>4, <3>5, <3>6 DEF NamedAreAtWork
  <2>3. QED
    BY <2>1, <2>2
<1>3. CASE L!WritePid(p)
  <2>1. /\ at[p] = "locked" /\ at' = [at EXCEPT ![p] = "starting"]
        /\ text' = IF file[p] = lockPath THEN p ELSE text
        /\ UNCHANGED <<socket, raced, unclean>>
    BY <1>3 DEF L!WritePid, L!Move
  <2>2. \A q \in L!Procs : at'[q] = IF q = p THEN "starting" ELSE at[q]
    BY <2>1 DEF ProcessTypes
  <2>3. ASSUME ~ raced
        PROVE  text' = p /\ \A q \in L!Procs : q # p => at[q] \notin Named
    BY <1>0, <2>1, <2>3, OneAtWork
  <2>4. NamesAreOrderly'
    <3>1. "starting" \notin L!Up
      BY DEF L!Up
    <3>2. QED
      BY <1>0, <2>1, <2>2, <2>3, <3>1 DEF NamesAreOrderly
  <2>5. NamedAreAtWork'
    BY <1>0, <2>1, <2>2, <2>3 DEF NamedAreAtWork
  <2>6. QED
    BY <2>4, <2>5
<1>4. CASE L!UnlinkSocket(p) \/ L!CloseSocket(p)
  <2>1. /\ at[p] \in Named /\ \E x \in {"binding", "closing"} : at' = [at EXCEPT ![p] = x]
        /\ UNCHANGED <<text, raced, unclean>>
    BY <1>0, <1>4 DEF L!UnlinkSocket, L!CloseSocket, L!Move
  <2>2. PICK x \in {"binding", "closing"} : at' = [at EXCEPT ![p] = x]
    BY <2>1
  <2>3. \A q \in L!Procs : at'[q] = IF q = p THEN x ELSE at[q]
    BY <2>2 DEF ProcessTypes
  <2>4. x \in Named /\ x \notin L!Up
    BY <1>0 DEF L!Up
  <2>5. ~ raced => \A q \in L!Procs : q # p => at[q] \notin Named
    BY <1>0, <2>1, OneAtWork
  <2>6. NamesAreOrderly'
    BY <1>0, <2>1, <2>3, <2>4, <2>5 DEF NamesAreOrderly
  <2>7. QED
    BY <2>1, <2>2, <2>4, <2>6, NamedStay, <1>0
<1>5. CASE L!Bind(p)
  <2>1. at[p] \in Named /\ UNCHANGED <<raced, unclean>>
    BY <1>0, <1>5 DEF L!Bind
  <2>2. ~ raced => \A q \in L!Procs : q # p => at[q] \notin Named
    BY <1>0, <2>1, OneAtWork
  <2>3. CASE socket = L!None
    <3>1. at' = [at EXCEPT ![p] = "serving"] /\ socket' = p /\ UNCHANGED text
      BY <1>5, <2>3 DEF L!Bind, L!Move
    <3>2. \A q \in L!Procs : at'[q] = IF q = p THEN "serving" ELSE at[q]
      BY <3>1 DEF ProcessTypes
    <3>3. NamesAreOrderly'
      BY <1>0, <2>1, <2>2, <3>1, <3>2 DEF NamesAreOrderly
    <3>4. QED
      BY <1>0, <2>1, <3>1, <3>3, NamedStay
  <2>4. CASE socket # L!None
    <3>1. at' = [at EXCEPT ![p] = "none"] /\ text' = L!None
      BY <1>5, <2>4, EndsIsOver DEF L!Bind, Over
    <3>2. \A q \in L!Procs : at'[q] = IF q = p THEN "none" ELSE at[q]
      BY <3>1 DEF ProcessTypes
    <3>3. NamesAreOrderly'
      BY <1>0, <2>1, <2>2, <3>2 DEF NamesAreOrderly
    <3>4. NamedAreAtWork'
      BY <2>1, <3>1, <3>2 DEF NamedAreAtWork
    <3>5. QED
      BY <3>3, <3>4
  <2>5. QED
    BY <2>3, <2>4
<1>6. CASE L!RemovePid(p)
  <2>1. /\ at[p] = "closing" /\ at' = [at EXCEPT ![p] = "removed"]
        /\ text' = L!None /\ UNCHANGED <<raced, unclean>>
    BY <1>6 DEF L!RemovePid, L!Move
  <2>2. \A q \in L!Procs : at'[q] = IF q = p THEN "removed" ELSE at[q]
    BY <2>1 DEF ProcessTypes
  <2>3. ~ raced => \A q \in L!Procs : q # p => at[q] \notin Named
    BY <1>0, <2>1, OneAtWork
  <2>4. NamesAreOrderly'
    BY <1>0, <2>1, <2>2, <2>3 DEF NamesAreOrderly
  <2>5. NamedAreAtWork'
    BY <2>1, <2>2 DEF NamedAreAtWork
  <2>6. QED
    BY <2>4, <2>5
<1>7. CASE L!Exit(p)
  <2>1. /\ at[p] = "removed" /\ at' = [at EXCEPT ![p] = "none"]
        /\ UNCHANGED <<text, socket, raced, unclean>>
    BY <1>7, EndsIsOver DEF L!Exit, Over
  <2>2. QED
    BY <1>0, <2>1, NamesStay, NamedStay
<1>8. CASE L!Crash(p)
  <2>1. at' = [at EXCEPT ![p] = "none"] /\ UNCHANGED <<text, socket, raced>> /\ unclean' = TRUE
    BY <1>8, EndsIsOver DEF L!Crash, Over
  <2>2. QED
    BY <1>0, <2>1, NamesStay DEF NamedAreAtWork
<1>9. CASE L!Beat(p)
  <2>1. /\ at[p] \in L!Up /\ at' = [at EXCEPT ![p] = "ready"] /\ "ready" \in L!Up
        /\ UNCHANGED <<text, socket, raced, unclean>>
    BY <1>9, BeatEffect DEF L!Move, L!Up
  <2>2. QED
    BY <1>0, <2>1, NamesStay, NamedStay
<1>10. CASE L!Recycle(p) \/ L!OtherEnds(p)
  <2>1. /\ \E x \in {"none", "other"} : at' = [at EXCEPT ![p] = x]
        /\ UNCHANGED <<text, socket, raced, unclean>>
        /\ (at[p] = "none" /\ text = p) \/ at[p] = "other"
    BY <1>10 DEF L!Recycle, L!OtherEnds, L!Move
  <2>2. raced \/ unclean
    BY <1>0, <2>1, ProcsAreSome DEF NamedAreAtWork
  <2>3. QED
    BY <1>0, <2>1, <2>2, NamesStay DEF NamedAreAtWork, L!Up
<1>11. QED
  BY <1>1, <1>2, <1>3, <1>4, <1>5, <1>6, <1>7, <1>8, <1>9, <1>10 DEF Acts, L!Steps

LEMMA NamesStep ==
    ASSUME L!TypeOK, PidsAreKnown, MaxProcs \in Nat, LocksAreOrderly, NamesAreOrderly,
           NamedAreAtWork, [L!Next]_L!vars
    PROVE  NamesAreOrderly' /\ NamedAreAtWork'
<1> USE DEF L!process, L!paths, L!history
<1>0. /\ ProcessTypes /\ SharedTypes
      /\ {"none", "other", "spawned", "opened", "locked"} \cap Named = {} /\ L!Up \subseteq Named
  BY TypesOfParts DEF Named, Working, L!Locked, L!Up
<1>1. CASE UNCHANGED L!vars
  BY <1>1 DEF L!vars, NamesAreOrderly, NamedAreAtWork
<1>2. CASE Rests
  BY <1>2 DEF Rests, NamesAreOrderly, NamedAreAtWork
<1>3. CASE Spawns
  <2>1. PICK n \in L!Procs : /\ at[n] = "none" /\ at' = [at EXCEPT ![n] = "spawned"]
                             /\ UNCHANGED <<text, socket, raced, unclean>>
    BY <1>3 DEF Spawns, L!Free
  <2>2. QED
    BY <1>0, <2>1, NamesStay, NamedStay
<1>4. CASE Signals
  <2>1. PICK p \in L!Procs :
              /\ UNCHANGED <<L!paths, raced>>
              /\ \/ UNCHANGED <<at, unclean>>
                 \/ /\ Over(p) /\ unclean' = (unclean \/ at[p] # "other")
                    /\ at[p] \in {"other", "spawned", "opened", "locked", "starting"}
    BY <1>4, SignalEffect
  <2>2. CASE UNCHANGED <<at, unclean>>
    BY <2>1, <2>2 DEF NamesAreOrderly, NamedAreAtWork
  <2>3. CASE Over(p) /\ unclean' = (unclean \/ at[p] # "other")
    <3>1. at' = [at EXCEPT ![p] = "none"] /\ UNCHANGED <<text, socket, raced>>
      BY <2>1, <2>3 DEF Over
    <3>2. NamesAreOrderly'
      BY <1>0, <3>1, NamesStay
    <3>3. raced' \/ unclean'
      BY <1>0, <2>3, <3>1 DEF NamedAreAtWork, SharedTypes
    <3>4. QED
      BY <3>2, <3>3 DEF NamedAreAtWork
  <2>4. QED
    BY <2>1, <2>2, <2>3
<1>5. QED
  BY <1>0, <1>1, <1>2, <1>3, <1>4, NextSteps, NamesAct

\* Who is no daemon is sent SIGTERM only where the number was taken from a file that was
\* left behind.
LEMMA StraysStep ==
    ASSUME L!TypeOK, PidsAreKnown, MaxProcs \in Nat, NamedAreAtWork, L!OnlyDaemonsAreStopped,
           [L!Next]_L!vars
    PROVE  L!OnlyDaemonsAreStopped'
<1> USE DEF L!process, L!paths, L!history
<1>0. SharedTypes
  BY TypesOfParts
<1>1. CASE UNCHANGED L!vars \/ Rests \/ Spawns
  BY <1>1 DEF L!vars, Rests, Spawns, L!OnlyDaemonsAreStopped
<1>2. ASSUME NEW p \in L!Procs, Acts(p)
      PROVE  L!OnlyDaemonsAreStopped'
  <2>1. UNCHANGED stray /\ (unclean => unclean') /\ (raced => raced')
    <3>1. CASE L!Beat(p)
      BY <3>1, BeatEffect
    <3>2. CASE L!Lock(p)
      BY <3>2 DEF L!Lock
    <3>3. CASE L!Crash(p)
      BY <3>3 DEF L!Crash
    <3>4. CASE L!Open(p) \/ L!WritePid(p) \/ L!UnlinkSocket(p) \/ L!Bind(p) \/ L!CloseSocket(p)
      <4>1. UNCHANGED <<stray, unclean, raced>>
        BY <3>4 DEF L!Open, L!WritePid, L!UnlinkSocket, L!Bind, L!CloseSocket
      <4>2. QED
        BY <4>1
    <3>5. CASE L!RemovePid(p) \/ L!Exit(p) \/ L!Recycle(p) \/ L!OtherEnds(p)
      <4>1. UNCHANGED <<stray, unclean, raced>>
        BY <3>5 DEF L!RemovePid, L!Exit, L!Recycle, L!OtherEnds
      <4>2. QED
        BY <4>1
    <3>6. QED
      BY <1>2, <3>1, <3>2, <3>3, <3>4, <3>5 DEF Acts, L!Steps
  <2>2. QED
    BY <2>1 DEF L!OnlyDaemonsAreStopped
<1>3. CASE Signals
  <2>1. PICK p \in L!Procs :
              /\ UNCHANGED raced
              /\ \/ UNCHANGED <<unclean, stray>>
                 \/ /\ unclean' = (unclean \/ at[p] # "other")
                    /\ stray' = (stray \/ at[p] = "other")
    BY <1>3, SignalEffect
  <2>2. CASE UNCHANGED <<unclean, stray>>
    BY <2>1, <2>2 DEF L!OnlyDaemonsAreStopped
  <2>3. CASE ~ UNCHANGED <<unclean, stray>>
    <3>1. raced' \/ unclean' \/ at[p] = "other"
      BY <2>1, <2>3
    <3>2. at[p] = "other" => raced \/ unclean
      BY DEF NamedAreAtWork
    <3>3. QED
      BY <1>0, <2>1, <2>3, <3>1, <3>2 DEF L!OnlyDaemonsAreStopped, SharedTypes
  <2>4. QED
    BY <2>2, <2>3
<1>4. QED
  BY <1>1, <1>2, <1>3, NextSteps

\* The invariant of all this.
LEMMA LifecycleInvSpec ==
    ASSUME MaxProcs \in Nat \ {0}, MaxFaults \in Nat
    PROVE  L!Spec => []LifecycleInv
<1>1. ASSUME LifecycleInv, [L!Next]_L!vars
      PROVE  LifecycleInv'
  BY <1>1, LifecycleTypes, LocksStep, NamesStep, StraysStep DEF LifecycleInv
<1>2. QED
  BY InitLifecycleInv, <1>1, PTL DEF L!Spec

\* However daemons, units and commands cross, crash and reuse each other's numbers, no two
\* daemons serve at once and the files name the one that does; SIGTERM reaches a stranger
\* only through a file left behind (_acquire_exclusive_lock, _daemon_stop).
THEOREM OneDaemon == L!Spec => []OneDaemonAndItsNames
<1> USE LifecycleBounds
<1>0. L!Spec => []LifecycleInv
  BY LifecycleInvSpec
<1>1. LifecycleInv => L!OneDaemonAndItsNames
  <2> SUFFICES ASSUME LifecycleInv
               PROVE  L!OneDaemonAndItsNames
    OBVIOUS
  <2>1. LocksAreOrderly /\ NamesAreOrderly /\ L!OnlyDaemonsAreStopped
    BY DEF LifecycleInv
  <2>2. /\ "ready" \in L!Up /\ L!Up \subseteq Named /\ Named \subseteq Working
        /\ "starting" \in Working /\ "binding" \in Working
    BY DEF Named, Working, L!Locked, L!Up
  <2>3. ASSUME ~ raced, NEW p \in L!Procs, L!Stays(p)
        PROVE  /\ socket = p /\ text = p
               /\ \A q \in L!Procs : at[q] \in {"starting", "binding"} \cup L!Up => q = p
    <3>1. at[p] = "ready"
      BY <2>3 DEF L!Stays
    <3>2. socket = p /\ text = p
      BY <2>1, <2>2, <2>3, <3>1 DEF NamesAreOrderly
    <3>3. \A q \in L!Procs : at[q] \in {"starting", "binding"} \cup L!Up => q = p
      BY <2>1, <2>2, <2>3, <3>1, OneAtWork
    <3>4. QED
      BY <3>2, <3>3
  <2>4. QED
    BY <2>1, <2>3 DEF L!OneDaemonAndItsNames, L!TheDaemonIsTheOneNamed
<1>2. QED
  BY <1>0, <1>1, PTL DEF OneDaemonAndItsNames

\* Where a command goes.
LEMMA GoesEffect ==
    ASSUME L!TypeOK, NEW d \in L!Commands, NEW to, NEW p, L!Goes(d, to, p)
    PROVE  cmd'[d].at = to /\ \A c \in L!Commands : c # d => cmd'[c] = cmd[c]
<1>1. cmd' = [cmd EXCEPT ![d] = [[cmd[d] EXCEPT !.at = to] EXCEPT !.pid = p]]
  BY DEF L!Goes, L!TypeOK
<1>2. [[cmd[d] EXCEPT !.at = to] EXCEPT !.pid = p].at = to
  BY DEF L!TypeOK
<1>3. QED
  BY <1>1, <1>2 DEF L!TypeOK

\* A command that waits and has started a daemon has just seen it answer.
LEMMA StartedStep ==
    ASSUME L!TypeOK, [L!Next]_L!vars, NEW c \in L!Commands,
           cmd'[c].at = "started", cmd[c].at = "wait"
    PROVE  socket = cmd[c].pid /\ at[cmd[c].pid] \in L!Up
<1>0. cmd'[c] # cmd[c]
  OBVIOUS
<1>1. ASSUME NEW d \in L!Commands, NEW to, NEW p, L!Goes(d, to, p)
      PROVE  d = c /\ to = "started"
  BY <1>0, <1>1, GoesEffect
<1>2. ASSUME NEW d \in L!Commands, NEW res, L!Result(d, res)
      PROVE  d = c /\ res = "started"
  BY <1>1, <1>2 DEF L!Goes, L!Result
<1>3. UNCHANGED cmd => FALSE
  BY <1>0
<1>4. ASSUME NEW p \in L!Procs, Acts(p)
      PROVE  FALSE
  <2>1. CASE L!Open(p) \/ L!Lock(p) \/ L!WritePid(p) \/ L!UnlinkSocket(p) \/ L!Bind(p)
    BY <1>3, <2>1 DEF L!Open, L!Lock, L!WritePid, L!UnlinkSocket, L!Bind
  <2>2. CASE L!CloseSocket(p) \/ L!RemovePid(p) \/ L!Exit(p)
    BY <1>3, <2>2 DEF L!CloseSocket, L!RemovePid, L!Exit
  <2>3. CASE L!Crash(p) \/ L!Recycle(p) \/ L!OtherEnds(p)
    BY <1>3, <2>3 DEF L!Crash, L!Recycle, L!OtherEnds
  <2>4. CASE L!Beat(p)
    BY <1>3, <2>4, BeatEffect
  <2>5. QED
    BY <1>4, <2>1, <2>2, <2>3, <2>4 DEF Acts, L!Steps
<1>5. ASSUME NEW d \in L!Commands, L!Carries(d) \/ L!GivesUp(d) \/ \E is \in L!Kinds : L!Give(d, is)
      PROVE  d = c /\ L!StartSees(d)
  <2>1. L!StartProbes(d) => FALSE
    BY <1>1, <1>2 DEF L!StartProbes, L!IsAt
  <2>2. L!StopReads(d) \/ L!StatusReads(d) \/ L!StatusAsks(d) => FALSE
    BY <1>1, <1>2 DEF L!StopReads, L!StatusReads, L!StatusAsks, L!IsAt
  <2>3. L!StopKills(d) \/ L!StopSees(d) \/ L!GivesUp(d) => FALSE
    BY <1>1, <1>2 DEF L!StopKills, L!StopSees, L!GivesUp, L!IsAt
  <2>4. L!UpServices(d) \/ L!UpBrain(d) \/ L!UpConsole(d) => FALSE
    BY <1>1, <1>2 DEF L!UpServices, L!UpBrain, L!UpConsole, L!IsAt
  <2>5. L!InstallWrites(d) \/ L!InstallStarts(d) => FALSE
    BY <1>1, <1>2 DEF L!InstallWrites, L!InstallStarts, L!IsAt
  <2>6. ASSUME NEW is \in L!Kinds, L!Give(d, is)
        PROVE  FALSE
    <3>1. cmd' = [cmd EXCEPT ![d] = [cmd[d] EXCEPT !.is = is]] /\ cmd[d] = L!Idle
      BY <2>6 DEF L!Give, L!TypeOK
    <3>2. [cmd[d] EXCEPT !.is = is].at = "new" /\ cmd[d].at = "new"
      BY <3>1 DEF L!Idle
    <3>3. QED
      BY <1>0, <3>1, <3>2 DEF L!TypeOK
  <2>7. L!StartSees(d) => d = c
    BY <1>2 DEF L!StartSees, L!Seen
  <2>8. QED
    BY <1>5, <2>1, <2>2, <2>3, <2>4, <2>5, <2>6, <2>7 DEF L!Carries
<1>6. CASE L!StartSees(c)
  <2>1. L!Probed # L!None /\ L!Probed = cmd[c].pid
    BY <1>2, <1>6 DEF L!StartSees, L!Seen
  <2>2. QED
    BY <2>1 DEF L!Probed
<1>7. CASE UNCHANGED L!vars \/ L!Restart
  BY <1>3, <1>7 DEF L!vars, L!Restart
<1>8. QED
  BY <1>4, <1>5, <1>6, <1>7 DEF L!Next, Acts

\* A command that says that it has started the daemon has seen its own process answer, not
\* another one that was quicker (_daemon_start).
THEOREM StartIsTrue == L!Spec => StartTellsTheTruth
<1> USE LifecycleBounds
<1>0. L!Spec => []LifecycleInv
  BY LifecycleInvSpec
<1>1. ASSUME LifecycleInv, [L!Next]_L!vars
      PROVE  [\A c \in L!Commands : cmd'[c].at = "started" /\ cmd[c].at = "wait" =>
                 socket = cmd[c].pid /\ at[cmd[c].pid] \in L!Up]_L!vars
  BY <1>1, StartedStep DEF LifecycleInv
<1>2. QED
  BY <1>0, <1>1, PTL DEF L!Spec, StartTellsTheTruth, L!StartTellsTheTruth

----------------------------------------------------------------------------
(* Screening: the dialogues with callers.                                   *)

----------------------------------------------------------------------------
(* The scripts, and what is left of them after some steps.                  *)

NotYet == <<"none">>
Done == <<>>
CleaningUp == <<"clean up">>
Screen1 == <<"say", "intro">>
Screen2 == <<"intro">>
ReAsk1 == <<"intro again">>
Relay1 == <<"decide">>
Message1 == <<"say", "name", "say", "message">>
Message2 == <<"name", "say", "message">>
Message3 == <<"say", "message">>
Message4 == <<"message">>
AskAgain1 == <<"message again">>
Confirm1 == <<"addition", "say", "done", "hang up">>
Confirm2 == <<"say", "done", "hang up">>
Confirm3 == <<"done", "hang up">>
Goodbye1 == <<"declined", "hang up">>
HangingUp == <<"hang up">>
PutThrough1 == <<"through">>
Pivoting == <<"pivot">>

\* Before the disclosure.
Undisclosed == {NotYet, S!Screen, S!Message}

\* A message is taken of a caller who was screened, or of one who was not.
Recording == {S!Confirm, Confirm1, Confirm2, Confirm3, HangingUp}

\* Steps that neither tell the console nor come after it was told.
Asking == {Screen1, Screen2, S!ReAsk, ReAsk1, S!Relay, Relay1, Message1, Message2, Message3,
           Message4, S!AskAgain, AskAgain1, S!Goodbye, Goodbye1, S!PutThrough, Pivoting}

Remainders == Undisclosed \cup Asking \cup Recording \cup {PutThrough1, CleaningUp, Done}

----------------------------------------------------------------------------
(* The invariant.                                                           *)

Types ==
    /\ calls \in 0 .. MaxCalls /\ onLine \in 0 .. calls
    /\ flow \in [S!Numbers -> [rest : Remainders, heard : SUBSET S!Parts]]
    /\ queue \in Seq(S!Events) /\ emitted \in SUBSET S!Events

Told(k, kind) == \E e \in emitted : e.of = k /\ e.kind = kind

\* A call that has not come has no flow, and nothing is known of it.
NothingBefore ==
    \A k \in S!Numbers : k > calls =>
        /\ flow[k] = S!NotStarted
        /\ k \notin raised
        /\ \A p \in S!Parts : <<k, p>> \notin spoken
        /\ \A e \in emitted : e.of # k
        /\ \A j \in S!Numbers : <<j, k>> \notin through /\ <<j, k>> \notin hungUp

HasStarted == \A k \in S!Numbers : flow[k].rest = NotYet => k > calls

\* A flow that is past the disclosure made it, or its caller has hung up since.
DisclosedFirst ==
    \A k \in S!Numbers : onLine = k /\ flow[k].rest \notin Undisclosed => k \in disclosed \/ k \in raised

\* A flow that raised cleans up, if it does anything.
RaisedCleansUp ==
    \A k \in S!Numbers : (k \in raised => flow[k].rest \in {CleaningUp, Done})
                        /\ (flow[k].rest = CleaningUp => k \in raised)

\* A flow knows what was captured, and has told it when it comes to its end.
HeardIsSpoken == \A k \in S!Numbers : flow[k].heard = {p \in S!Parts : <<k, p>> \in spoken}

HeardIsTold ==
    \A k \in S!Numbers : flow[k].rest \in {HangingUp, Done} /\ k \notin raised =>
        \E e \in emitted : e.of = k /\ e.text = flow[k].heard

MessagesArrive ==
    \A e \in emitted : e.kind = "done" =>
        e.of \in messages \/ \E i \in DOMAIN queue : queue[i] = e

\* Nobody is left on the line.
NobodyIsLeft ==
    \A k \in S!Numbers : onLine = k =>
        /\ flow[k].rest = Done =>
              \/ k \in stranded \/ \E j \in S!Numbers : <<j, k>> \in through
              \/ Told(k, "pivot")
        /\ flow[k].rest = PutThrough1 => <<k, k>> \in through
        /\ <<k, k>> \notin hungUp

\* A screened caller is put through, or asked for a message.
OneOrTheOther ==
    \A k \in S!Numbers :
        /\ Told(k, "pivot") => flow[k].rest \in Recording \cup {CleaningUp, Done}
        /\ <<k, k>> \in through /\ k \notin raised =>
              flow[k].rest \in {PutThrough1, Done} /\ ~ Told(k, "pivot")
        /\ <<k, k>> \in through \cap hungUp => k \in raised

ScreeningInv ==
    /\ Types /\ NothingBefore /\ HasStarted /\ DisclosedFirst /\ RaisedCleansUp
    /\ HeardIsSpoken /\ HeardIsTold /\ MessagesArrive /\ NobodyIsLeft /\ OneOrTheOther
    /\ S!ToldBeforeRecorded

----------------------------------------------------------------------------
(* Lemmas.                                                                  *)

USE DialogueBounds

\* A list of a few steps has a first one, and the rest.
LEMMA ListOf1 ==
    ASSUME NEW a
    PROVE  <<a>> # <<>> /\ Head(<<a>>) = a /\ Tail(<<a>>) = <<>>
OBVIOUS

LEMMA ListOf2 ==
    ASSUME NEW a, NEW b
    PROVE  <<a, b>> # <<>> /\ Head(<<a, b>>) = a /\ Tail(<<a, b>>) = <<b>>
OBVIOUS

LEMMA ListOf3 ==
    ASSUME NEW a, NEW b, NEW c
    PROVE  <<a, b, c>> # <<>> /\ Head(<<a, b, c>>) = a /\ Tail(<<a, b, c>>) = <<b, c>>
OBVIOUS

LEMMA ListOf4 ==
    ASSUME NEW a, NEW b, NEW c, NEW d
    PROVE  <<a, b, c, d>> # <<>> /\ Head(<<a, b, c, d>>) = a /\ Tail(<<a, b, c, d>>) = <<b, c, d>>
OBVIOUS

LEMMA ListOf5 ==
    ASSUME NEW a, NEW b, NEW c, NEW d, NEW e
    PROVE  <<a, b, c, d, e>> # <<>> /\ Head(<<a, b, c, d, e>>) = a /\ Tail(<<a, b, c, d, e>>) = <<b, c, d, e>>
OBVIOUS

\* What each script begins with, and goes on with.
LEMMA Scripts ==
    /\ Done = <<>>
    /\ NotYet # Done /\ Head(NotYet) = "none" /\ Tail(NotYet) = Done
    /\ CleaningUp # Done /\ Head(CleaningUp) = "clean up" /\ Tail(CleaningUp) = Done
    /\ S!Screen # Done /\ Head(S!Screen) = "disclose" /\ Tail(S!Screen) = Screen1
    /\ Screen1 # Done /\ Head(Screen1) = "say" /\ Tail(Screen1) = Screen2
    /\ Screen2 # Done /\ Head(Screen2) = "intro" /\ Tail(Screen2) = Done
    /\ S!ReAsk # Done /\ Head(S!ReAsk) = "say" /\ Tail(S!ReAsk) = ReAsk1
    /\ ReAsk1 # Done /\ Head(ReAsk1) = "intro again" /\ Tail(ReAsk1) = Done
    /\ S!Relay # Done /\ Head(S!Relay) = "relay" /\ Tail(S!Relay) = Relay1
    /\ Relay1 # Done /\ Head(Relay1) = "decide" /\ Tail(Relay1) = Done
    /\ S!Message # Done /\ Head(S!Message) = "disclose" /\ Tail(S!Message) = Message1
    /\ Message1 # Done /\ Head(Message1) = "say" /\ Tail(Message1) = Message2
    /\ Message2 # Done /\ Head(Message2) = "name" /\ Tail(Message2) = Message3
    /\ Message3 # Done /\ Head(Message3) = "say" /\ Tail(Message3) = Message4
    /\ Message4 # Done /\ Head(Message4) = "message" /\ Tail(Message4) = Done
    /\ S!AskAgain # Done /\ Head(S!AskAgain) = "say" /\ Tail(S!AskAgain) = AskAgain1
    /\ AskAgain1 # Done /\ Head(AskAgain1) = "message again" /\ Tail(AskAgain1) = Done
    /\ S!Confirm # Done /\ Head(S!Confirm) = "say" /\ Tail(S!Confirm) = Confirm1
    /\ Confirm1 # Done /\ Head(Confirm1) = "addition" /\ Tail(Confirm1) = Confirm2
    /\ Confirm2 # Done /\ Head(Confirm2) = "say" /\ Tail(Confirm2) = Confirm3
    /\ Confirm3 # Done /\ Head(Confirm3) = "done" /\ Tail(Confirm3) = HangingUp
    /\ S!Goodbye # Done /\ Head(S!Goodbye) = "say" /\ Tail(S!Goodbye) = Goodbye1
    /\ Goodbye1 # Done /\ Head(Goodbye1) = "declined" /\ Tail(Goodbye1) = HangingUp
    /\ HangingUp # Done /\ Head(HangingUp) = "hang up" /\ Tail(HangingUp) = Done
    /\ S!PutThrough # Done /\ Head(S!PutThrough) = "connect" /\ Tail(S!PutThrough) = PutThrough1
    /\ PutThrough1 # Done /\ Head(PutThrough1) = "through" /\ Tail(PutThrough1) = Done
    /\ Pivoting # Done /\ Head(Pivoting) = "pivot" /\ Tail(Pivoting) = Done
<1>1. NotYet # Done /\ Head(NotYet) = "none" /\ Tail(NotYet) = Done
  BY ListOf1 DEF NotYet, Done
<1>2. CleaningUp # Done /\ Head(CleaningUp) = "clean up" /\ Tail(CleaningUp) = Done
  BY ListOf1 DEF CleaningUp, Done
<1>3. S!Screen # Done /\ Head(S!Screen) = "disclose" /\ Tail(S!Screen) = Screen1
  BY ListOf3 DEF S!Screen, Done, Screen1
<1>4. Screen1 # Done /\ Head(Screen1) = "say" /\ Tail(Screen1) = Screen2
  BY ListOf2 DEF Screen1, Done, Screen2
<1>5. Screen2 # Done /\ Head(Screen2) = "intro" /\ Tail(Screen2) = Done
  BY ListOf1 DEF Screen2, Done
<1>6. S!ReAsk # Done /\ Head(S!ReAsk) = "say" /\ Tail(S!ReAsk) = ReAsk1
  BY ListOf2 DEF S!ReAsk, Done, ReAsk1
<1>7. ReAsk1 # Done /\ Head(ReAsk1) = "intro again" /\ Tail(ReAsk1) = Done
  BY ListOf1 DEF ReAsk1, Done
<1>8. S!Relay # Done /\ Head(S!Relay) = "relay" /\ Tail(S!Relay) = Relay1
  BY ListOf2 DEF S!Relay, Done, Relay1
<1>9. Relay1 # Done /\ Head(Relay1) = "decide" /\ Tail(Relay1) = Done
  BY ListOf1 DEF Relay1, Done
<1>10. S!Message # Done /\ Head(S!Message) = "disclose" /\ Tail(S!Message) = Message1
  BY ListOf5 DEF S!Message, Done, Message1
<1>11. Message1 # Done /\ Head(Message1) = "say" /\ Tail(Message1) = Message2
  BY ListOf4 DEF Message1, Done, Message2
<1>12. Message2 # Done /\ Head(Message2) = "name" /\ Tail(Message2) = Message3
  BY ListOf3 DEF Message2, Done, Message3
<1>13. Message3 # Done /\ Head(Message3) = "say" /\ Tail(Message3) = Message4
  BY ListOf2 DEF Message3, Done, Message4
<1>14. Message4 # Done /\ Head(Message4) = "message" /\ Tail(Message4) = Done
  BY ListOf1 DEF Message4, Done
<1>15. S!AskAgain # Done /\ Head(S!AskAgain) = "say" /\ Tail(S!AskAgain) = AskAgain1
  BY ListOf2 DEF S!AskAgain, Done, AskAgain1
<1>16. AskAgain1 # Done /\ Head(AskAgain1) = "message again" /\ Tail(AskAgain1) = Done
  BY ListOf1 DEF AskAgain1, Done
<1>17. S!Confirm # Done /\ Head(S!Confirm) = "say" /\ Tail(S!Confirm) = Confirm1
  <2>1. S!Confirm # Done
    BY ListOf5 DEF S!Confirm, Done
  <2>2. Head(S!Confirm) = "say"
    BY ListOf5 DEF S!Confirm
  <2>3. Tail(S!Confirm) = Confirm1
    <3>1. ASSUME NEW x PROVE Tail(<<"say", "addition", "say", "done", x>>) = <<"addition", "say", "done", x>>
      OBVIOUS
    <3>2. QED
      BY <3>1 DEF S!Confirm, Confirm1
  <2>4. QED
    BY <2>1, <2>2, <2>3
<1>18. Confirm1 # Done /\ Head(Confirm1) = "addition" /\ Tail(Confirm1) = Confirm2
  <2>1. Confirm1 # Done
    BY ListOf4 DEF Confirm1, Done
  <2>2. Head(Confirm1) = "addition"
    BY ListOf4 DEF Confirm1
  <2>3. Tail(Confirm1) = Confirm2
    <3>1. ASSUME NEW x PROVE Tail(<<"addition", "say", "done", x>>) = <<"say", "done", x>>
      OBVIOUS
    <3>2. QED
      BY <3>1 DEF Confirm1, Confirm2
  <2>4. QED
    BY <2>1, <2>2, <2>3
<1>19. Confirm2 # Done /\ Head(Confirm2) = "say" /\ Tail(Confirm2) = Confirm3
  BY ListOf3 DEF Confirm2, Done, Confirm3
<1>20. Confirm3 # Done /\ Head(Confirm3) = "done" /\ Tail(Confirm3) = HangingUp
  BY ListOf2 DEF Confirm3, Done, HangingUp
<1>21. S!Goodbye # Done /\ Head(S!Goodbye) = "say" /\ Tail(S!Goodbye) = Goodbye1
  BY ListOf3 DEF S!Goodbye, Done, Goodbye1
<1>22. Goodbye1 # Done /\ Head(Goodbye1) = "declined" /\ Tail(Goodbye1) = HangingUp
  BY ListOf2 DEF Goodbye1, Done, HangingUp
<1>23. HangingUp # Done /\ Head(HangingUp) = "hang up" /\ Tail(HangingUp) = Done
  BY ListOf1 DEF HangingUp, Done
<1>24. S!PutThrough # Done /\ Head(S!PutThrough) = "connect" /\ Tail(S!PutThrough) = PutThrough1
  BY ListOf2 DEF S!PutThrough, Done, PutThrough1
<1>25. PutThrough1 # Done /\ Head(PutThrough1) = "through" /\ Tail(PutThrough1) = Done
  BY ListOf1 DEF PutThrough1, Done
<1>26. Pivoting # Done /\ Head(Pivoting) = "pivot" /\ Tail(Pivoting) = Done
  BY ListOf1 DEF Pivoting, Done
<1>27. Done = <<>>
  BY DEF Done
<1>28. QED
  BY <1>1, <1>2, <1>3, <1>4, <1>5, <1>6, <1>7, <1>8, <1>9, <1>10, <1>11, <1>12, <1>13, <1>14, <1>15, <1>16, <1>17, <1>18, <1>19, <1>20, <1>21, <1>22, <1>23, <1>24, <1>25, <1>26, <1>27

\* What a flow may have left to do, by its next step.
LEMMA ByNextStep ==
    ASSUME NEW r \in Remainders, r # Done
    PROVE  /\ Head(r) = "disclose" => r \in {S!Screen, S!Message}
           /\ Head(r) \in {"say", "relay"} =>
                 r \in {Screen1, S!ReAsk, S!Relay, Message1, Message3, S!AskAgain, S!Confirm, Confirm2, S!Goodbye}
           /\ Head(r) = "intro" => r = Screen2
           /\ Head(r) = "intro again" => r = ReAsk1
           /\ Head(r) = "decide" => r = Relay1
           /\ Head(r) = "name" => r = Message2
           /\ Head(r) = "message" => r = Message4
           /\ Head(r) = "message again" => r = AskAgain1
           /\ Head(r) = "addition" => r = Confirm1
           /\ Head(r) = "connect" => r = S!PutThrough
           /\ Head(r) = "declined" => r = Goodbye1
           /\ Head(r) = "done" => r = Confirm3
           /\ Head(r) = "through" => r = PutThrough1
           /\ Head(r) = "pivot" => r = Pivoting
           /\ Head(r) = "hang up" => r = HangingUp
           /\ Head(r) = "clean up" => r = CleaningUp
           /\ Head(r) = "none" => r = NotYet
BY Scripts DEF Remainders, Undisclosed, Asking, Recording

Flows == [rest : Remainders, heard : SUBSET S!Parts]

LEMMA NotStartedIsNone ==
    /\ S!NotStarted \in Flows /\ S!NotStarted.rest = NotYet /\ S!NotStarted.heard = {}
BY DEF S!NotStarted, NotYet, Flows, Remainders, Undisclosed

\* Flow k has r left to do, and has heard no more; the others are where they were.
LEMMA DoesThat ==
    ASSUME flow \in [S!Numbers -> Flows], NEW k \in S!Numbers, NEW r \in Remainders, S!Does(k, r)
    PROVE  /\ flow' \in [S!Numbers -> Flows]
           /\ flow'[k].rest = r /\ flow'[k].heard = flow[k].heard
           /\ \A j \in S!Numbers : j # k => flow'[j] = flow[j]
<1>1. \A f \in Flows : /\ [f EXCEPT !.rest = r] \in Flows
                       /\ [f EXCEPT !.rest = r].rest = r
                       /\ [f EXCEPT !.rest = r].heard = f.heard
  BY DEF Flows
<1>2. flow[k] \in Flows
  OBVIOUS
<1>3. flow' = [flow EXCEPT ![k] = [flow[k] EXCEPT !.rest = r]]
  BY DEF S!Does
<1>4. PICK g \in Flows : g = [flow[k] EXCEPT !.rest = r]
  BY <1>1, <1>2
<1>5. g.rest = r /\ g.heard = flow[k].heard
  BY <1>1, <1>2, <1>4
<1>6. flow' = [flow EXCEPT ![k] = g]
  BY <1>3, <1>4
<1>7. flow'[k] = g /\ flow' \in [S!Numbers -> Flows] /\ \A j \in S!Numbers : j # k => flow'[j] = flow[j]
  BY <1>6
<1>8. QED
  BY <1>5, <1>7

\* What is left of a flow that has not begun, or is near its end.
Edges == {NotYet, HangingUp, Done, CleaningUp, PutThrough1}

\* Steps in the middle of a flow, and those that are not.
Middle == Asking \cup {S!Confirm, Confirm1, Confirm2, Confirm3}

LEMMA MiddleIsApart ==
    /\ \A r \in Middle : r \in Remainders /\ r \notin Edges \cup Undisclosed
    /\ \A r \in {S!Screen, S!Message} : r \in Remainders /\ r \notin Edges \cup Recording
    /\ \A r \in Recording : r \in Remainders /\ r # Done
          /\ (Head(r) \in {"say", "relay"} => r \in {S!Confirm, Confirm2})
          /\ Head(r) \notin {"intro", "intro again", "decide", "name", "message", "message again",
                             "connect", "through", "pivot", "declined"}
<1>1. \A r \in Asking :
         r # Done /\ Head(r) \notin {"none", "hang up", "clean up", "through", "disclose"}
  <2>1. \A r \in {Screen1, Screen2, S!ReAsk, ReAsk1} :
           r # Done /\ Head(r) \notin {"none", "hang up", "clean up", "through", "disclose"}
    BY Scripts
  <2>2. \A r \in {S!Relay, Relay1, Message1, Message2} :
           r # Done /\ Head(r) \notin {"none", "hang up", "clean up", "through", "disclose"}
    BY Scripts
  <2>3. \A r \in {Message3, Message4, S!AskAgain, AskAgain1} :
           r # Done /\ Head(r) \notin {"none", "hang up", "clean up", "through", "disclose"}
    BY Scripts
  <2>4. \A r \in {S!Goodbye, Goodbye1, S!PutThrough, Pivoting} :
           r # Done /\ Head(r) \notin {"none", "hang up", "clean up", "through", "disclose"}
    BY Scripts
  <2>5. QED
    BY <2>1, <2>2, <2>3, <2>4 DEF Asking
<1>2. \A r \in {S!Confirm, Confirm1, Confirm2, Confirm3} :
         r # Done /\ Head(r) \notin {"none", "hang up", "clean up", "through", "disclose"}
  BY Scripts
<1>3. \A r \in Edges \cup Undisclosed :
         r = Done \/ Head(r) \in {"none", "hang up", "clean up", "through", "disclose"}
  BY Scripts DEF Edges, Undisclosed
<1>4. \A r \in Middle : r \in Remainders /\ r \notin Edges \cup Undisclosed
  BY <1>1, <1>2, <1>3 DEF Middle, Remainders, Recording
<1>5. \A r \in {S!Screen, S!Message} : r # Done /\ Head(r) = "disclose"
  BY Scripts
<1>6. \A r \in Edges \cup Recording : r = Done \/ Head(r) # "disclose"
  BY Scripts DEF Edges, Recording
<1>7. \A r \in {S!Screen, S!Message} : r \in Remainders /\ r \notin Edges \cup Recording
  BY <1>5, <1>6 DEF Remainders, Undisclosed
<1>8. \A r \in Recording : r \in Remainders /\ r # Done
          /\ (Head(r) \in {"say", "relay"} => r \in {S!Confirm, Confirm2})
          /\ Head(r) \notin {"intro", "intro again", "decide", "name", "message", "message again",
                             "connect", "through", "pivot", "declined"}
  BY Scripts DEF Recording, Remainders
<1>9. QED
  BY <1>4, <1>7, <1>8

\* A flow goes on in its middle.
Proceeds(k) ==
    /\ flow' \in [S!Numbers -> Flows]
    /\ \A j \in S!Numbers : j # k => flow'[j] = flow[j]
    /\ flow[k].rest \notin Edges
    /\ flow'[k].rest \notin Edges \cup Undisclosed
    /\ flow[k].rest \in Recording => flow'[k].rest \in Recording

LEMMA ProceedsKeeps ==
    ASSUME ScreeningInv, NEW k \in S!Numbers, Proceeds(k),
           UNCHANGED <<calls, onLine, queue, messages, emitted, through, raised, stranded, hungUp>>
    PROVE  /\ Types' /\ HasStarted' /\ RaisedCleansUp' /\ HeardIsTold' /\ MessagesArrive'
           /\ NobodyIsLeft' /\ OneOrTheOther' /\ k <= calls
<1>0. ScreeningInv
  OBVIOUS
<1>1. Types'
  BY <1>0 DEF ScreeningInv, Types, Proceeds, Flows
<1>2. HasStarted'
  BY <1>0 DEF ScreeningInv, HasStarted, Proceeds, Edges
<1>3. RaisedCleansUp'
  BY <1>0 DEF ScreeningInv, RaisedCleansUp, Proceeds, Edges
<1>4. HeardIsTold'
  BY <1>0 DEF ScreeningInv, HeardIsTold, Proceeds, Edges
<1>5. MessagesArrive'
  BY <1>0 DEF ScreeningInv, MessagesArrive
<1>6. NobodyIsLeft'
  BY <1>0 DEF ScreeningInv, NobodyIsLeft, Proceeds, Edges, Told
<1>7. OneOrTheOther'
  <2>1. <<k, k>> \in through => k \in raised
    BY <1>0 DEF ScreeningInv, OneOrTheOther, Proceeds, Edges
  <2>2. k \notin raised
    BY <1>0 DEF ScreeningInv, RaisedCleansUp, Proceeds, Edges
  <2>3. Told(k, "pivot") => flow'[k].rest \in Recording \cup {CleaningUp, Done}
    BY <1>0 DEF ScreeningInv, OneOrTheOther, Proceeds, Edges
  <2>4. QED
    BY <1>0, <2>1, <2>2, <2>3 DEF ScreeningInv, OneOrTheOther, Proceeds, Told
<1>8. k <= calls
  <2>1. k > calls => flow[k].rest = NotYet
    BY <1>0, NotStartedIsNone DEF ScreeningInv, NothingBefore
  <2>2. k \in Nat /\ calls \in Nat
    BY <1>0 DEF S!Numbers, ScreeningInv, Types
  <2>3. QED
    BY <2>1, <2>2 DEF Proceeds, Edges
<1>9. QED
  BY <1>1, <1>2, <1>3, <1>4, <1>5, <1>6, <1>7, <1>8

LEMMA InitScreeningInv == S!Init => ScreeningInv
<1> SUFFICES ASSUME S!Init
             PROVE  ScreeningInv
  OBVIOUS
<1>1. \A k \in S!Numbers : flow[k] = S!NotStarted
  BY DEF S!Init
<1>2. Types
  BY NotStartedIsNone DEF S!Init, Types, S!Nobody, Flows
<1>3. NothingBefore /\ HasStarted
  BY <1>1 DEF S!Init, NothingBefore, HasStarted, S!Numbers
<1>4. DisclosedFirst /\ NobodyIsLeft
  BY <1>1 DEF S!Init, DisclosedFirst, NobodyIsLeft, S!Nobody, S!Numbers
<1>5. RaisedCleansUp /\ HeardIsTold
  BY <1>1, NotStartedIsNone, Scripts DEF S!Init, RaisedCleansUp, HeardIsTold
<1>6. HeardIsSpoken
  BY <1>1, NotStartedIsNone DEF S!Init, HeardIsSpoken
<1>7. MessagesArrive /\ OneOrTheOther /\ S!ToldBeforeRecorded
  BY DEF S!Init, MessagesArrive, OneOrTheOther, S!ToldBeforeRecorded, Told
<1>8. QED
  BY <1>2, <1>3, <1>4, <1>5, <1>6, <1>7 DEF ScreeningInv

----------------------------------------------------------------------------
(* The steps.                                                               *)

\* A flow that goes on with r has been at it, and cannot have come to an end.
LEMMA FlowRuns ==
    ASSUME ScreeningInv, NEW k \in S!Numbers, S!Runs(k)
    PROVE  /\ flow[k].rest \in Remainders /\ flow[k].rest # Done /\ flow[k].rest # NotYet
           /\ k <= calls /\ flow \in [S!Numbers -> Flows]
<1>0. ScreeningInv
  OBVIOUS
<1>1. flow \in [S!Numbers -> Flows] /\ calls \in Nat /\ k \in Nat
  BY <1>0 DEF ScreeningInv, Types, Flows, S!Numbers
<1>2. flow[k].rest \in Remainders /\ flow[k].rest # Done
  BY <1>1, Scripts DEF Flows, S!Runs
<1>3. flow[k].rest # NotYet
  BY Scripts DEF S!Runs, S!Step
<1>4. k > calls => flow[k].rest = NotYet
  BY <1>0, NotStartedIsNone DEF ScreeningInv, NothingBefore
<1>5. QED
  BY <1>1, <1>2, <1>3, <1>4

LEMMA DiscloseStep ==
    ASSUME ScreeningInv, NEW k \in S!Numbers, S!Disclose(k)
    PROVE  ScreeningInv'
<1>0. ScreeningInv
  OBVIOUS
<1>1. S!Runs(k) /\ S!Step(k) = "disclose" /\ S!Does(k, S!Rest(k))
  BY DEF S!Disclose
<1>2. flow[k].rest \in {S!Screen, S!Message} /\ flow \in [S!Numbers -> Flows]
  BY <1>0, <1>1, FlowRuns, ByNextStep DEF S!Step
<1>3. S!Rest(k) \in {Screen1, Message1}
  BY <1>2, Scripts DEF S!Rest
<1>4. PICK r \in {Screen1, Message1} : r = S!Rest(k)
  BY <1>3
<1>5. r \in Remainders /\ S!Does(k, r)
  BY <1>1, <1>4 DEF Remainders, Asking
<1>6. /\ flow' \in [S!Numbers -> Flows] /\ flow'[k].rest = r /\ flow'[k].heard = flow[k].heard
      /\ \A j \in S!Numbers : j # k => flow'[j] = flow[j]
  BY <1>2, <1>5, DoesThat
<1>7. Proceeds(k)
  <2>1. r \notin Edges \cup Undisclosed
    BY MiddleIsApart DEF Middle, Asking
  <2>2. flow[k].rest \notin Edges \cup Recording
    BY <1>2, MiddleIsApart
  <2>3. QED
    BY <1>6, <2>1, <2>2 DEF Proceeds
<1>8. /\ Types' /\ HasStarted' /\ RaisedCleansUp' /\ HeardIsTold' /\ MessagesArrive'
      /\ NobodyIsLeft' /\ OneOrTheOther' /\ k <= calls
  BY <1>0, <1>7, ProceedsKeeps DEF S!Disclose, S!console
<1>9. NothingBefore'
  BY <1>0, <1>6, <1>8 DEF ScreeningInv, NothingBefore, S!Disclose, S!Numbers, Types
<1>10. DisclosedFirst'
  <2>1. ASSUME NEW j \in S!Numbers, onLine' = j, flow'[j].rest \notin Undisclosed
        PROVE  j \in disclosed' \/ j \in raised'
    <3>1. CASE j = k
      BY <2>1, <3>1 DEF S!Disclose, S!Nobody, S!Numbers
    <3>2. CASE j # k
      BY <1>0, <1>6, <2>1, <3>2 DEF ScreeningInv, DisclosedFirst, S!Disclose
    <3>3. QED
      BY <3>1, <3>2
  <2>2. QED
    BY <2>1 DEF DisclosedFirst
<1>11. HeardIsSpoken'
  BY <1>0, <1>6 DEF ScreeningInv, HeardIsSpoken, S!Disclose
<1>12. S!ToldBeforeRecorded'
  BY <1>0 DEF ScreeningInv, S!ToldBeforeRecorded, S!Disclose
<1>13. QED
  BY <1>8, <1>9, <1>10, <1>11, <1>12 DEF ScreeningInv

\* Speaking, and what the operator decides, leave what is known as it is.
LEMMA ProceedsOnly ==
    ASSUME ScreeningInv, NEW k \in S!Numbers, NEW r \in Remainders, S!Runs(k), S!Does(k, r), Proceeds(k),
           flow[k].rest \notin Undisclosed,
           UNCHANGED <<calls, onLine, raises, S!console, S!history>>
    PROVE  ScreeningInv'
<1>0. ScreeningInv
  OBVIOUS
<1>1. flow \in [S!Numbers -> Flows]
  BY FlowRuns
<1>2. /\ flow' \in [S!Numbers -> Flows] /\ flow'[k].rest = r /\ flow'[k].heard = flow[k].heard
      /\ \A j \in S!Numbers : j # k => flow'[j] = flow[j]
  BY <1>1, DoesThat
<1>3. /\ Types' /\ HasStarted' /\ RaisedCleansUp' /\ HeardIsTold' /\ MessagesArrive'
      /\ NobodyIsLeft' /\ OneOrTheOther' /\ k <= calls
  BY ProceedsKeeps DEF S!console, S!history
<1>4. NothingBefore'
  BY <1>0, <1>2, <1>3 DEF ScreeningInv, NothingBefore, S!history, S!Numbers, Types
<1>5. DisclosedFirst'
  BY <1>0, <1>2 DEF ScreeningInv, DisclosedFirst, S!history
<1>6. HeardIsSpoken'
  BY <1>0, <1>2 DEF ScreeningInv, HeardIsSpoken, S!history
<1>7. S!ToldBeforeRecorded'
  BY <1>0 DEF ScreeningInv, S!ToldBeforeRecorded, S!history
<1>8. QED
  BY <1>3, <1>4, <1>5, <1>6, <1>7 DEF ScreeningInv

LEMMA SayStep ==
    ASSUME ScreeningInv, NEW k \in S!Numbers, S!Say(k)
    PROVE  ScreeningInv'
<1>1. S!Runs(k) /\ S!Step(k) \in {"say", "relay"} /\ S!Does(k, S!Rest(k))
      /\ UNCHANGED <<calls, onLine, raises, S!console, S!history>>
  BY DEF S!Say
<1>2. /\ flow[k].rest \in {Screen1, S!ReAsk, S!Relay, Message1, Message3, S!AskAgain, S!Confirm, Confirm2, S!Goodbye}
      /\ flow \in [S!Numbers -> Flows]
  BY <1>1, FlowRuns, ByNextStep DEF S!Step
<1>3. /\ S!Rest(k) \in {Screen2, ReAsk1, Relay1, Message2, Message4, AskAgain1, Confirm1, Confirm3, Goodbye1}
      /\ flow[k].rest \in Recording => S!Rest(k) \in Recording
      /\ flow[k].rest \notin Undisclosed \cup Edges
  <2>1. flow[k].rest \notin Undisclosed \cup Edges
    BY <1>2, MiddleIsApart DEF Middle, Asking
  <2>2. flow[k].rest \in Recording => flow[k].rest \in {S!Confirm, Confirm2}
    BY <1>1, MiddleIsApart DEF S!Step
  <2>3. QED
    BY <1>2, <2>1, <2>2, Scripts DEF S!Rest, Recording
<1>4. PICK r \in {Screen2, ReAsk1, Relay1, Message2, Message4, AskAgain1, Confirm1, Confirm3, Goodbye1} :
          r = S!Rest(k)
  BY <1>3
<1>5. r \in Remainders /\ S!Does(k, r)
  BY <1>1, <1>4 DEF Remainders, Asking, Recording
<1>6. /\ flow' \in [S!Numbers -> Flows] /\ flow'[k].rest = r /\ flow'[k].heard = flow[k].heard
      /\ \A j \in S!Numbers : j # k => flow'[j] = flow[j]
  BY <1>2, <1>5, DoesThat
<1>7. r \notin Edges \cup Undisclosed
  BY MiddleIsApart DEF Middle, Asking
<1>8. Proceeds(k)
  BY <1>3, <1>4, <1>6, <1>7 DEF Proceeds
<1>9. QED
  BY <1>1, <1>3, <1>5, <1>8, ProceedsOnly

LEMMA DecideStep ==
    ASSUME ScreeningInv, NEW k \in S!Numbers, S!Decide(k)
    PROVE  ScreeningInv'
<1>1. S!Runs(k) /\ S!Step(k) = "decide" /\ UNCHANGED <<calls, onLine, raises, S!console, S!history>>
  BY DEF S!Decide
<1>2. PICK r \in {S!PutThrough, S!Goodbye, Pivoting} : S!Does(k, r)
  BY DEF S!Decide, Pivoting
<1>3. flow[k].rest = Relay1 /\ flow \in [S!Numbers -> Flows]
  BY <1>1, FlowRuns, ByNextStep DEF S!Step
<1>4. r \in Remainders
  BY DEF Remainders, Asking
<1>5. /\ flow' \in [S!Numbers -> Flows] /\ flow'[k].rest = r /\ flow'[k].heard = flow[k].heard
      /\ \A j \in S!Numbers : j # k => flow'[j] = flow[j]
  BY <1>2, <1>3, <1>4, DoesThat
<1>6. r \notin Edges \cup Undisclosed /\ Relay1 \notin Edges \cup Undisclosed \cup Recording
  <2>1. Relay1 \in Middle /\ r \in Middle
    BY DEF Middle, Asking
  <2>2. Relay1 \notin Recording
    BY MiddleIsApart, Scripts
  <2>3. QED
    BY <2>1, <2>2, MiddleIsApart
<1>7. Proceeds(k)
  BY <1>3, <1>5, <1>6 DEF Proceeds
<1>8. QED
  BY <1>1, <1>2, <1>3, <1>4, <1>6, <1>7, ProceedsOnly

\* What a flow goes on with after it has listened.
LEMMA ListensOn ==
    ASSUME ScreeningInv, NEW k \in S!Numbers, NEW h \in BOOLEAN, S!Listen(k, h)
    PROVE  /\ flow[k].rest \in Middle /\ S!GoesOn(k, h) \in Middle /\ S!Part(k) \in S!Parts
           /\ flow[k].rest \in Recording => S!GoesOn(k, h) \in Recording
<1>1. S!Runs(k) /\ S!Step(k) \in {"intro", "intro again", "name", "message", "message again", "addition"}
  BY DEF S!Listen
<1>2. flow[k].rest \in Remainders /\ flow[k].rest # Done
  BY <1>1, FlowRuns
<1>3. S!Part(k) \in S!Parts
  BY <1>1 DEF S!Part, S!Parts
<1>4. /\ {Screen2, ReAsk1, S!Relay, S!ReAsk, S!Goodbye, Message2, Message3, Message4, S!Confirm, S!AskAgain,
          AskAgain1, Confirm1, Confirm2} \subseteq Middle
      /\ Confirm2 \in Recording
  BY DEF Middle, Asking, Recording
<1>5. ASSUME flow[k].rest \in Recording
      PROVE  flow[k].rest = Confirm1
  <2>1. S!Step(k) \in {"message again", "addition"}
    BY <1>1, <1>5, MiddleIsApart DEF S!Step
  <2>2. flow[k].rest \in {AskAgain1, Confirm1}
    BY <1>2, <2>1, ByNextStep DEF S!Step
  <2>3. AskAgain1 \notin Recording
    BY Scripts DEF Recording
  <2>4. QED
    BY <1>5, <2>2, <2>3
<1>6. CASE S!Step(k) = "intro"
  <2>1. flow[k].rest = Screen2 /\ Screen2 # Confirm1
    BY <1>2, <1>6, ByNextStep, Scripts DEF S!Step
  <2>2. S!GoesOn(k, h) \in {S!Relay, S!ReAsk}
    BY <1>6 DEF S!GoesOn
  <2>3. QED
    BY <1>3, <1>4, <1>5, <2>1, <2>2
<1>7. CASE S!Step(k) = "intro again"
  <2>1. flow[k].rest = ReAsk1 /\ ReAsk1 # Confirm1
    BY <1>2, <1>7, ByNextStep, Scripts DEF S!Step
  <2>2. S!GoesOn(k, h) \in {S!Relay, S!Goodbye}
    BY <1>7 DEF S!GoesOn
  <2>3. QED
    BY <1>3, <1>4, <1>5, <2>1, <2>2
<1>8. CASE S!Step(k) = "name"
  <2>1. flow[k].rest = Message2 /\ Message2 # Confirm1
    BY <1>2, <1>8, ByNextStep, Scripts DEF S!Step
  <2>2. S!GoesOn(k, h) = Message3
    BY <1>8, <2>1, Scripts DEF S!GoesOn, S!Rest
  <2>3. QED
    BY <1>3, <1>4, <1>5, <2>1, <2>2
<1>9. CASE S!Step(k) = "message"
  <2>1. flow[k].rest = Message4 /\ Message4 # Confirm1
    BY <1>2, <1>9, ByNextStep, Scripts DEF S!Step
  <2>2. S!GoesOn(k, h) \in {S!Confirm, S!AskAgain}
    BY <1>9 DEF S!GoesOn
  <2>3. QED
    BY <1>3, <1>4, <1>5, <2>1, <2>2
<1>10. CASE S!Step(k) = "message again"
  <2>1. flow[k].rest = AskAgain1 /\ AskAgain1 # Confirm1
    BY <1>2, <1>10, ByNextStep, Scripts DEF S!Step
  <2>2. S!GoesOn(k, h) = S!Confirm
    BY <1>10 DEF S!GoesOn
  <2>3. QED
    BY <1>3, <1>4, <1>5, <2>1, <2>2
<1>11. CASE S!Step(k) = "addition"
  <2>1. flow[k].rest = Confirm1
    BY <1>2, <1>11, ByNextStep DEF S!Step
  <2>2. S!GoesOn(k, h) = Confirm2
    BY <1>11, <2>1, Scripts DEF S!GoesOn, S!Rest
  <2>3. QED
    BY <1>3, <1>4, <2>1, <2>2
<1>12. QED
  BY <1>1, <1>6, <1>7, <1>8, <1>9, <1>10, <1>11

LEMMA ListenStep ==
    ASSUME ScreeningInv, NEW k \in S!Numbers, NEW h \in BOOLEAN, S!Listen(k, h)
    PROVE  ScreeningInv'
<1>0. ScreeningInv
  OBVIOUS
<1>1. /\ S!Runs(k) /\ UNCHANGED <<calls, onLine, raises, S!console, disclosed, emitted, through, raised, stranded,
                                  hungUp>>
      /\ recorded' = recorded \cup ({k} \X ({onLine} \ (disclosed \cup {S!Nobody})))
      /\ spoken' = IF h THEN spoken \cup {<<k, S!Part(k)>>} ELSE spoken
  BY DEF S!Listen
<1>2. flow \in [S!Numbers -> Flows]
  BY <1>1, FlowRuns
<1>3. PICK r \in Middle : r = S!GoesOn(k, h)
  BY ListensOn
<1>4. PICK p \in S!Parts : p = S!Part(k)
  BY ListensOn
<1>5. flow[k].heard \in SUBSET S!Parts
  BY <1>2 DEF Flows
<1>6. PICK d \in SUBSET S!Parts : d = IF h THEN flow[k].heard \cup {p} ELSE flow[k].heard
  BY <1>5
<1>7. flow' = [flow EXCEPT ![k] = [rest |-> r, heard |-> d]]
  BY <1>3, <1>4, <1>6 DEF S!Listen, S!Kept
<1>8. [rest |-> r, heard |-> d] \in Flows
  BY MiddleIsApart DEF Flows
<1>9. /\ flow' \in [S!Numbers -> Flows] /\ flow'[k].rest = r /\ flow'[k].heard = d
      /\ \A j \in S!Numbers : j # k => flow'[j] = flow[j]
  BY <1>2, <1>7, <1>8
<1>10. /\ flow[k].rest \notin Edges \cup Undisclosed /\ r \notin Edges \cup Undisclosed
       /\ flow[k].rest \in Recording => r \in Recording
  BY <1>3, ListensOn, MiddleIsApart
<1>11. Proceeds(k)
  BY <1>9, <1>10 DEF Proceeds
<1>12. /\ Types' /\ HasStarted' /\ RaisedCleansUp' /\ HeardIsTold' /\ MessagesArrive'
       /\ NobodyIsLeft' /\ OneOrTheOther' /\ k <= calls
  BY <1>0, <1>1, <1>11, ProceedsKeeps DEF S!console
<1>13. spoken' = IF h THEN spoken \cup {<<k, p>>} ELSE spoken
  BY <1>1, <1>4
<1>14. NothingBefore'
  <2>1. calls \in Nat /\ k \in Nat
    BY <1>0 DEF ScreeningInv, Types, S!Numbers
  <2>2. ASSUME NEW j \in S!Numbers, j > calls
        PROVE  j # k /\ flow'[j] = flow[j] /\ \A q \in S!Parts : <<j, q>> \notin spoken'
    <3>1. j # k /\ flow'[j] = flow[j]
      BY <1>9, <1>12, <2>1, <2>2 DEF S!Numbers
    <3>2. \A q \in S!Parts : <<j, q>> \notin spoken
      BY <1>0, <2>2 DEF ScreeningInv, NothingBefore
    <3>3. QED
      BY <1>13, <3>1, <3>2
  <2>3. QED
    BY <1>0, <1>1, <2>2 DEF ScreeningInv, NothingBefore
<1>15. DisclosedFirst'
  BY <1>0, <1>1, <1>9, <1>10 DEF ScreeningInv, DisclosedFirst
<1>16. HeardIsSpoken'
  <2>1. ASSUME NEW j \in S!Numbers
        PROVE  flow'[j].heard = {q \in S!Parts : <<j, q>> \in spoken'}
    <3>1. flow[j].heard = {q \in S!Parts : <<j, q>> \in spoken}
      BY <1>0 DEF ScreeningInv, HeardIsSpoken
    <3>2. CASE j = k
      BY <1>6, <1>9, <1>13, <3>1, <3>2
    <3>3. CASE j # k
      <4>1. {q \in S!Parts : <<j, q>> \in spoken'} = {q \in S!Parts : <<j, q>> \in spoken}
        BY <1>13, <3>3
      <4>2. QED
        BY <1>9, <3>1, <3>3, <4>1
    <3>4. QED
      BY <3>2, <3>3
  <2>2. QED
    BY <2>1 DEF HeardIsSpoken
<1>17. S!ToldBeforeRecorded'
  <2>1. ASSUME onLine = k
        PROVE  k \in disclosed
    <3>1. k \in disclosed \/ k \in raised
      BY <1>0, <1>10, <2>1 DEF ScreeningInv, DisclosedFirst
    <3>2. k \notin raised
      BY <1>0, <1>10 DEF ScreeningInv, RaisedCleansUp, Edges
    <3>3. QED
      BY <3>1, <3>2
  <2>2. ASSUME NEW pair \in recorded'
        PROVE  pair[1] # pair[2]
    <3>1. CASE pair \in recorded
      BY <1>0, <3>1 DEF ScreeningInv, S!ToldBeforeRecorded
    <3>2. CASE pair \in {k} \X ({onLine} \ (disclosed \cup {S!Nobody}))
      BY <2>1, <3>2
    <3>3. QED
      BY <1>1, <2>2, <3>1, <3>2
  <2>3. QED
    BY <2>2 DEF S!ToldBeforeRecorded
<1>18. QED
  BY <1>12, <1>14, <1>15, <1>16, <1>17 DEF ScreeningInv

LEMMA ConnectStep ==
    ASSUME ScreeningInv, NEW k \in S!Numbers, S!Connect(k)
    PROVE  ScreeningInv'
<1>0. ScreeningInv
  OBVIOUS
<1>1. /\ S!Runs(k) /\ S!Step(k) = "connect" /\ S!Does(k, S!Rest(k))
      /\ through' = through \cup ({k} \X ({onLine} \ {S!Nobody}))
      /\ UNCHANGED <<calls, onLine, raises, queue, messages, disclosed, recorded, spoken, emitted, raised,
                     stranded, hungUp>>
  BY DEF S!Connect, S!console
<1>2. flow[k].rest = S!PutThrough /\ k <= calls /\ flow \in [S!Numbers -> Flows]
  BY <1>0, <1>1, FlowRuns, ByNextStep DEF S!Step
<1>3. S!Does(k, PutThrough1)
  BY <1>1, <1>2, Scripts DEF S!Rest
<1>4. /\ flow' \in [S!Numbers -> Flows] /\ flow'[k].rest = PutThrough1
      /\ flow'[k].heard = flow[k].heard /\ \A j \in S!Numbers : j # k => flow'[j] = flow[j]
  <2>1. PutThrough1 \in Remainders
    BY DEF Remainders
  <2>2. QED
    BY <1>2, <1>3, <2>1, DoesThat
<1>5. S!PutThrough \notin Edges \cup Undisclosed \cup Recording
  <2>1. S!PutThrough \in Middle
    BY DEF Middle, Asking
  <2>2. S!PutThrough \notin Recording
    BY MiddleIsApart, Scripts
  <2>3. QED
    BY <2>1, <2>2, MiddleIsApart
<1>6. PutThrough1 \notin {NotYet, HangingUp, Done, CleaningUp}
  BY Scripts
<1>7. /\ calls \in Nat /\ onLine \in Nat /\ onLine <= calls /\ k \in Nat
      /\ \A j \in S!Numbers : j \in Nat
  BY <1>0 DEF ScreeningInv, Types, S!Numbers
<1>8. \A i, j \in S!Numbers : <<i, j>> \in through' <=> <<i, j>> \in through \/ (i = k /\ j = onLine)
  BY <1>1 DEF S!Nobody, S!Numbers
<1>9. k \notin raised /\ ~ Told(k, "pivot")
  BY <1>0, <1>2, <1>5 DEF ScreeningInv, RaisedCleansUp, OneOrTheOther, Edges
<1>10. Types'
  BY <1>0, <1>1, <1>4 DEF ScreeningInv, Types, Flows
<1>11. NothingBefore'
  <2>1. ASSUME NEW j \in S!Numbers, j > calls
        PROVE  flow'[j] = flow[j] /\ \A i \in S!Numbers : <<i, j>> \in through' <=> <<i, j>> \in through
    BY <1>2, <1>4, <1>7, <1>8, <2>1
  <2>2. QED
    BY <1>0, <1>1, <2>1 DEF ScreeningInv, NothingBefore
<1>12. HasStarted'
  BY <1>0, <1>1, <1>4, <1>6 DEF ScreeningInv, HasStarted
<1>13. DisclosedFirst'
  BY <1>0, <1>1, <1>2, <1>4, <1>5 DEF ScreeningInv, DisclosedFirst
<1>14. RaisedCleansUp'
  BY <1>0, <1>1, <1>4, <1>6, <1>9 DEF ScreeningInv, RaisedCleansUp
<1>15. HeardIsSpoken' /\ HeardIsTold'
  <2>1. HeardIsSpoken'
    BY <1>0, <1>1, <1>4 DEF ScreeningInv, HeardIsSpoken
  <2>2. HeardIsTold'
    BY <1>0, <1>1, <1>4, <1>6 DEF ScreeningInv, HeardIsTold
  <2>3. QED
    BY <2>1, <2>2
<1>16. MessagesArrive' /\ S!ToldBeforeRecorded'
  BY <1>0, <1>1 DEF ScreeningInv, MessagesArrive, S!ToldBeforeRecorded
<1>17. NobodyIsLeft'
  BY <1>0, <1>1, <1>4, <1>6, <1>8 DEF ScreeningInv, NobodyIsLeft, Told
<1>18. OneOrTheOther'
  <2>1. onLine = k => <<k, k>> \notin hungUp
    BY <1>0 DEF ScreeningInv, NobodyIsLeft
  <2>2. \A j \in S!Numbers : j # k => (<<j, j>> \in through' <=> <<j, j>> \in through)
    BY <1>8
  <2>3. <<k, k>> \in through' \cap hungUp => k \in raised
    BY <1>0, <1>8, <2>1 DEF ScreeningInv, OneOrTheOther
  <2>4. \A j \in S!Numbers : Told(j, "pivot")' <=> Told(j, "pivot")
    BY <1>1 DEF Told
  <2>5. QED
    BY <1>0, <1>1, <1>4, <1>9, <2>2, <2>3, <2>4 DEF ScreeningInv, OneOrTheOther
<1>19. QED
  BY <1>10, <1>11, <1>12, <1>13, <1>14, <1>15, <1>16, <1>17, <1>18 DEF ScreeningInv

\* An event goes to the end of the queue.
LEMMA Queued ==
    ASSUME NEW q \in Seq(S!Events), NEW e \in S!Events
    PROVE  /\ Append(q, e) \in Seq(S!Events)
           /\ \E i \in DOMAIN Append(q, e) : Append(q, e)[i] = e
           /\ \A x : (\E i \in DOMAIN q : q[i] = x) => \E i \in DOMAIN Append(q, e) : Append(q, e)[i] = x
<1>1. /\ Append(q, e) \in Seq(S!Events) /\ Len(Append(q, e)) = Len(q) + 1
      /\ \A i \in 1 .. Len(q) : Append(q, e)[i] = q[i]
      /\ Append(q, e)[Len(q) + 1] = e
  OBVIOUS
<1>2. DOMAIN q = 1 .. Len(q) /\ DOMAIN Append(q, e) = 1 .. (Len(q) + 1) /\ Len(q) \in Nat
  BY <1>1
<1>3. QED
  BY <1>1, <1>2

LEMMA EmitStep ==
    ASSUME ScreeningInv, NEW k \in S!Numbers, S!Emit(k)
    PROVE  ScreeningInv'
<1>0. ScreeningInv
  OBVIOUS
<1>1. /\ S!Runs(k) /\ S!Step(k) \in {"declined", "through", "pivot", "done"} /\ S!Does(k, S!Rest(k))
      /\ UNCHANGED <<calls, onLine, raises, messages, disclosed, recorded, spoken, through, raised,
                     stranded, hungUp>>
  BY DEF S!Emit
<1>2. PICK e : e = [kind |-> S!Step(k), of |-> k, text |-> flow[k].heard]
  OBVIOUS
<1>3. queue' = Append(queue, e) /\ emitted' = emitted \cup {e}
  BY <1>2 DEF S!Emit
<1>4. /\ flow \in [S!Numbers -> Flows] /\ k <= calls /\ calls \in Nat /\ k \in Nat
      /\ flow[k].rest \in Remainders /\ flow[k].rest # Done
  BY <1>0, <1>1, FlowRuns DEF ScreeningInv, Types, S!Numbers
<1>5. e \in S!Events /\ e.of = k /\ e.kind = S!Step(k) /\ e.text = flow[k].heard
  <2>1. flow[k].heard \in SUBSET S!Parts
    BY <1>4 DEF Flows
  <2>2. QED
    BY <1>1, <1>2, <2>1 DEF S!Events
<1>6. /\ S!Step(k) = "declined" => flow[k].rest = Goodbye1
      /\ S!Step(k) = "through" => flow[k].rest = PutThrough1
      /\ S!Step(k) = "pivot" => flow[k].rest = Pivoting
      /\ S!Step(k) = "done" => flow[k].rest = Confirm3
  BY <1>4, ByNextStep DEF S!Step
<1>7. PICK r \in {HangingUp, Done} : r = S!Rest(k)
  BY <1>1, <1>6, Scripts DEF S!Rest
<1>8. r \in Remainders /\ S!Does(k, r) /\ r \in Recording \cup {Done}
  BY <1>1, <1>7 DEF Remainders, Recording
<1>9. /\ flow' \in [S!Numbers -> Flows] /\ flow'[k].rest = r /\ flow'[k].heard = flow[k].heard
      /\ \A j \in S!Numbers : j # k => flow'[j] = flow[j]
  BY <1>4, <1>8, DoesThat
<1>10. flow[k].rest \notin {NotYet, HangingUp, Done, CleaningUp} \cup Undisclosed
  <2>1. flow[k].rest \in Middle \/ flow[k].rest = PutThrough1
    BY <1>1, <1>6 DEF Middle, Asking
  <2>2. PutThrough1 \notin {NotYet, HangingUp, Done, CleaningUp} \cup Undisclosed
    BY Scripts DEF Undisclosed
  <2>3. QED
    BY <2>1, <2>2, MiddleIsApart DEF Edges
<1>11. r \notin {NotYet, CleaningUp, PutThrough1}
  BY Scripts
<1>12. k \notin raised
  BY <1>0, <1>10 DEF ScreeningInv, RaisedCleansUp
<1>13. \A j \in S!Numbers :
          Told(j, "pivot")' <=> Told(j, "pivot") \/ (j = k /\ S!Step(k) = "pivot")
  BY <1>3, <1>5 DEF Told
<1>14. Types'
  <2>1. queue \in Seq(S!Events)
    BY <1>0 DEF ScreeningInv, Types
  <2>2. queue' \in Seq(S!Events)
    BY <1>3, <1>5, <2>1, Queued
  <2>3. QED
    BY <1>0, <1>1, <1>3, <1>5, <1>9, <2>2 DEF ScreeningInv, Types, Flows
<1>15. NothingBefore'
  <2>1. ASSUME NEW j \in S!Numbers, j > calls
        PROVE  flow'[j] = flow[j] /\ e.of # j
    BY <1>4, <1>5, <1>9, <2>1 DEF S!Numbers
  <2>2. QED
    BY <1>0, <1>1, <1>3, <2>1 DEF ScreeningInv, NothingBefore
<1>16. HasStarted' /\ DisclosedFirst'
  <2>1. HasStarted'
    BY <1>0, <1>1, <1>9, <1>11 DEF ScreeningInv, HasStarted
  <2>2. DisclosedFirst'
    BY <1>0, <1>1, <1>9, <1>10 DEF ScreeningInv, DisclosedFirst
  <2>3. QED
    BY <2>1, <2>2
<1>17. RaisedCleansUp'
  BY <1>0, <1>1, <1>9, <1>11, <1>12 DEF ScreeningInv, RaisedCleansUp
<1>18. HeardIsSpoken'
  BY <1>0, <1>1, <1>9 DEF ScreeningInv, HeardIsSpoken
<1>19. HeardIsTold'
  BY <1>0, <1>1, <1>3, <1>5, <1>9 DEF ScreeningInv, HeardIsTold
<1>20. MessagesArrive'
  <2>1. queue \in Seq(S!Events)
    BY <1>0 DEF ScreeningInv, Types
  <2>2. PICK q \in Seq(S!Events) : q = queue
    BY <2>1
  <2>3. queue' = Append(q, e)
    BY <1>3, <2>2
  <2>4. \E i \in DOMAIN queue' : queue'[i] = e
    BY <1>5, <2>3, Queued
  <2>5. \A x : (\E i \in DOMAIN q : q[i] = x) => \E i \in DOMAIN queue' : queue'[i] = x
    BY <1>5, <2>3, Queued
  <2>6. QED
    BY <1>0, <1>1, <1>3, <2>2, <2>4, <2>5 DEF ScreeningInv, MessagesArrive
<1>21. NobodyIsLeft'
  <2>1. ASSUME onLine = k
        PROVE  /\ r = Done => \/ \E j \in S!Numbers : <<j, k>> \in through
                              \/ Told(k, "pivot")'
               /\ <<k, k>> \notin hungUp
    <3>1. <<k, k>> \notin hungUp
      BY <1>0, <2>1 DEF ScreeningInv, NobodyIsLeft
    <3>2. CASE S!Step(k) = "through"
      BY <1>0, <1>6, <2>1, <3>1, <3>2 DEF ScreeningInv, NobodyIsLeft
    <3>3. CASE S!Step(k) = "pivot"
      BY <1>13, <3>1, <3>3
    <3>4. CASE S!Step(k) \in {"declined", "done"}
      <4>1. r = HangingUp /\ HangingUp # Done
        BY <1>6, <1>7, <3>4, Scripts DEF S!Rest
      <4>2. QED
        BY <3>1, <4>1
    <3>5. QED
      BY <1>1, <3>2, <3>3, <3>4
  <2>2. ASSUME NEW j \in S!Numbers, j # k
        PROVE  Told(j, "pivot")' <=> Told(j, "pivot")
    BY <1>13, <2>2
  <2>3. QED
    BY <1>0, <1>1, <1>9, <1>11, <2>1, <2>2 DEF ScreeningInv, NobodyIsLeft
<1>22. OneOrTheOther'
  <2>1. <<k, k>> \in through => r = Done /\ ~ Told(k, "pivot")'
    <3>1. ASSUME <<k, k>> \in through
          PROVE  r = Done /\ ~ Told(k, "pivot")'
      <4>1. flow[k].rest \in {PutThrough1, Done} /\ ~ Told(k, "pivot")
        BY <1>0, <1>12, <3>1 DEF ScreeningInv, OneOrTheOther
      <4>2. flow[k].rest = PutThrough1
        BY <1>4, <4>1
      <4>3. S!Step(k) = "through" /\ r = Done
        BY <1>7, <4>2, Scripts DEF S!Step, S!Rest
      <4>4. QED
        BY <1>13, <4>1, <4>3
    <3>2. QED
      BY <3>1
  <2>2. ASSUME NEW j \in S!Numbers, j # k
        PROVE  Told(j, "pivot")' <=> Told(j, "pivot")
    BY <1>13, <2>2
  <2>3. QED
    BY <1>0, <1>1, <1>8, <1>9, <2>1, <2>2 DEF ScreeningInv, OneOrTheOther
<1>23. S!ToldBeforeRecorded'
  BY <1>0, <1>1 DEF ScreeningInv, S!ToldBeforeRecorded
<1>24. QED
  BY <1>14, <1>15, <1>16, <1>17, <1>18, <1>19, <1>20, <1>21, <1>22, <1>23 DEF ScreeningInv

LEMMA HangUpStep ==
    ASSUME ScreeningInv, NEW k \in S!Numbers, S!HangUp(k)
    PROVE  ScreeningInv'
<1>0. ScreeningInv
  OBVIOUS
<1>1. /\ S!Runs(k) /\ S!Step(k) \in {"hang up", "clean up"} /\ S!Does(k, Done)
      /\ onLine' = S!Nobody /\ hungUp' = hungUp \cup ({k} \X ({onLine} \ {S!Nobody}))
      /\ UNCHANGED <<calls, raises, queue, messages, disclosed, recorded, spoken, emitted, through,
                     raised, stranded>>
  BY Scripts DEF S!HangUp, S!console
<1>2. flow[k].rest \in {HangingUp, CleaningUp} /\ k <= calls /\ flow \in [S!Numbers -> Flows]
  BY <1>0, <1>1, FlowRuns, ByNextStep DEF S!Step
<1>3. /\ flow' \in [S!Numbers -> Flows] /\ flow'[k].rest = Done /\ flow'[k].heard = flow[k].heard
      /\ \A j \in S!Numbers : j # k => flow'[j] = flow[j]
  <2>1. Done \in Remainders
    BY DEF Remainders
  <2>2. QED
    BY <1>1, <1>2, <2>1, DoesThat
<1>4. /\ calls \in Nat /\ onLine \in Nat /\ onLine <= calls /\ 0 \notin S!Numbers
      /\ \A j \in S!Numbers : j \in Nat
  BY <1>0 DEF ScreeningInv, Types, S!Numbers
<1>5. \A i, j \in S!Numbers : <<i, j>> \in hungUp' <=> <<i, j>> \in hungUp \/ (i = k /\ j = onLine)
  BY <1>1, <1>4 DEF S!Nobody
<1>6. flow[k].rest = HangingUp \/ k \in raised
  BY <1>0, <1>2 DEF ScreeningInv, RaisedCleansUp
<1>7. {HangingUp, CleaningUp} \cap {NotYet, PutThrough1, Done} = {}
      /\ Done \notin {NotYet, CleaningUp, PutThrough1} /\ HangingUp # CleaningUp
  BY Scripts
<1>8. Types'
  <2>1. onLine' \in 0 .. calls'
    <3>1. onLine' = 0 /\ calls' = calls
      BY <1>1 DEF S!Nobody
    <3>2. QED
      BY <1>4, <3>1
  <2>2. QED
    BY <1>0, <1>1, <1>3, <2>1 DEF ScreeningInv, Types, Flows
<1>9. NothingBefore'
  <2>1. ASSUME NEW j \in S!Numbers, j > calls
        PROVE  flow'[j] = flow[j] /\ \A i \in S!Numbers : <<i, j>> \in hungUp' <=> <<i, j>> \in hungUp
    BY <1>2, <1>3, <1>4, <1>5, <2>1
  <2>2. QED
    BY <1>0, <1>1, <2>1 DEF ScreeningInv, NothingBefore
<1>10. HasStarted'
  BY <1>0, <1>1, <1>3, <1>7 DEF ScreeningInv, HasStarted
<1>11. DisclosedFirst' /\ NobodyIsLeft'
  BY <1>1, <1>4 DEF DisclosedFirst, NobodyIsLeft, S!Nobody
<1>12. RaisedCleansUp'
  BY <1>0, <1>1, <1>3, <1>7 DEF ScreeningInv, RaisedCleansUp
<1>13. HeardIsSpoken'
  BY <1>0, <1>1, <1>3 DEF ScreeningInv, HeardIsSpoken
<1>14. HeardIsTold'
  <2>1. k \notin raised => \E e \in emitted : e.of = k /\ e.text = flow[k].heard
    BY <1>0, <1>6 DEF ScreeningInv, HeardIsTold
  <2>2. QED
    BY <1>0, <1>1, <1>3, <2>1 DEF ScreeningInv, HeardIsTold
<1>15. MessagesArrive' /\ S!ToldBeforeRecorded'
  BY <1>0, <1>1 DEF ScreeningInv, MessagesArrive, S!ToldBeforeRecorded
<1>16. OneOrTheOther'
  <2>1. <<k, k>> \in through => k \in raised
    BY <1>0, <1>2, <1>7 DEF ScreeningInv, OneOrTheOther
  <2>2. \A j \in S!Numbers : j # k => (<<j, j>> \in hungUp' <=> <<j, j>> \in hungUp)
    BY <1>5
  <2>3. \A j \in S!Numbers : Told(j, "pivot")' <=> Told(j, "pivot")
    BY <1>1 DEF Told
  <2>4. QED
    BY <1>0, <1>1, <1>3, <2>1, <2>2, <2>3 DEF ScreeningInv, OneOrTheOther
<1>17. QED
  BY <1>8, <1>9, <1>10, <1>11, <1>12, <1>13, <1>14, <1>15, <1>16 DEF ScreeningInv

LEMMA RaisesStep ==
    ASSUME ScreeningInv, NEW k \in S!Numbers, S!Raises(k)
    PROVE  ScreeningInv'
<1>0. ScreeningInv
  OBVIOUS
<1>1. /\ S!Runs(k) /\ raised' = raised \cup {k}
      /\ UNCHANGED <<calls, onLine, queue, messages, disclosed, recorded, spoken, emitted, through, hungUp>>
  BY DEF S!Raises, S!console
<1>2. PICK r \in {CleaningUp, Done} :
          S!Does(k, r) /\ (r = Done => k \in stranded') /\ stranded \subseteq stranded'
  <2>1. CASE S!Step(k) = "clean up"
    BY <2>1, Scripts DEF S!Raises
  <2>2. CASE S!Step(k) # "clean up"
    BY <2>2, Scripts DEF S!Raises, S!CleansUp, CleaningUp
  <2>3. QED
    BY <2>1, <2>2
<1>3. k <= calls /\ flow \in [S!Numbers -> Flows] /\ r \in Remainders
  BY <1>1, FlowRuns DEF Remainders
<1>4. /\ flow' \in [S!Numbers -> Flows] /\ flow'[k].rest = r /\ flow'[k].heard = flow[k].heard
      /\ \A j \in S!Numbers : j # k => flow'[j] = flow[j]
  <2>1. S!Does(k, r)
    BY <1>2
  <2>2. QED
    BY <1>3, <2>1, DoesThat
<1>5. r # NotYet /\ r # PutThrough1
  BY Scripts
<1>6. Types'
  BY <1>0, <1>1, <1>4 DEF ScreeningInv, Types, Flows
<1>7. NothingBefore'
  <2>1. ASSUME NEW j \in S!Numbers, j > calls
        PROVE  flow'[j] = flow[j] /\ (j \in raised' <=> j \in raised)
    <3>1. calls \in Nat /\ j \in Nat /\ k \in Nat
      BY <1>0 DEF ScreeningInv, Types, S!Numbers
    <3>2. QED
      BY <1>1, <1>3, <1>4, <2>1, <3>1
  <2>2. QED
    BY <1>0, <1>1, <2>1 DEF ScreeningInv, NothingBefore
<1>8. HasStarted'
  BY <1>0, <1>1, <1>4, <1>5 DEF ScreeningInv, HasStarted
<1>9. DisclosedFirst'
  BY <1>0, <1>1, <1>4 DEF ScreeningInv, DisclosedFirst
<1>10. RaisedCleansUp'
  BY <1>0, <1>1, <1>4 DEF ScreeningInv, RaisedCleansUp
<1>11. HeardIsSpoken'
  BY <1>0, <1>1, <1>4 DEF ScreeningInv, HeardIsSpoken
<1>12. HeardIsTold'
  BY <1>0, <1>1, <1>4 DEF ScreeningInv, HeardIsTold
<1>13. MessagesArrive' /\ S!ToldBeforeRecorded'
  BY <1>0, <1>1 DEF ScreeningInv, MessagesArrive, S!ToldBeforeRecorded
<1>14. NobodyIsLeft'
  <2>1. (r = Done => k \in stranded') /\ stranded \subseteq stranded'
    BY <1>2
  <2>2. \A j \in S!Numbers : Told(j, "pivot")' <=> Told(j, "pivot")
    BY <1>1 DEF Told
  <2>3. QED
    BY <1>0, <1>1, <1>4, <1>5, <2>1, <2>2 DEF ScreeningInv, NobodyIsLeft
<1>15. OneOrTheOther'
  <2>1. \A j \in S!Numbers : Told(j, "pivot")' <=> Told(j, "pivot")
    BY <1>1 DEF Told
  <2>2. k \in raised' /\ \A j \in S!Numbers : j # k => (j \in raised' <=> j \in raised)
    BY <1>1
  <2>3. QED
    BY <1>0, <1>1, <1>4, <2>1, <2>2 DEF ScreeningInv, OneOrTheOther
<1>16. QED
  BY <1>6, <1>7, <1>8, <1>9, <1>10, <1>11, <1>12, <1>13, <1>14, <1>15 DEF ScreeningInv

LEMMA PivotStep ==
    ASSUME ScreeningInv, NEW k \in S!Numbers, S!Pivot(k)
    PROVE  ScreeningInv'
<1>0. ScreeningInv
  OBVIOUS
<1>1. /\ flow[k].rest = Done /\ onLine = k /\ Told(k, "pivot") /\ k \notin raised
      /\ S!Does(k, S!PivotScript)
      /\ UNCHANGED <<calls, onLine, raises, queue, messages, disclosed, recorded, spoken, emitted, through,
                     raised, stranded, hungUp>>
  BY Scripts DEF S!Pivot, Told, S!Does, S!console, S!history
<1>2. flow \in [S!Numbers -> Flows] /\ calls \in Nat /\ k <= calls /\ S!Confirm \in Remainders
  <2>1. flow \in [S!Numbers -> Flows] /\ calls \in Nat /\ onLine \in 0 .. calls
    BY <1>0 DEF ScreeningInv, Types, Flows
  <2>2. S!Confirm \in Remainders
    BY MiddleIsApart DEF Middle
  <2>3. QED
    BY <1>1, <2>1, <2>2
<1>3. /\ flow' \in [S!Numbers -> Flows] /\ flow'[k].rest = S!Confirm /\ flow'[k].heard = flow[k].heard
      /\ \A j \in S!Numbers : j # k => flow'[j] = flow[j]
  <2>1. S!PivotScript = S!Confirm
    BY DEF S!PivotScript, S!Confirm
  <2>2. QED
    BY <1>1, <1>2, <2>1, DoesThat
<1>4. S!Confirm \in Recording /\ S!Confirm \notin Edges \cup Undisclosed /\ Done \notin Undisclosed
  <2>1. S!Confirm \in Middle /\ S!Confirm \in Recording
    BY DEF Middle, Recording
  <2>2. Done \notin Undisclosed
    BY Scripts DEF Undisclosed
  <2>3. QED
    BY <2>1, <2>2, MiddleIsApart
<1>5. Types' /\ HasStarted'
  BY <1>0, <1>1, <1>3, <1>4 DEF ScreeningInv, Types, Flows, HasStarted, Edges
<1>6. NothingBefore'
  BY <1>0, <1>1, <1>2, <1>3 DEF ScreeningInv, NothingBefore, S!Numbers
<1>7. DisclosedFirst'
  BY <1>0, <1>1, <1>3, <1>4 DEF ScreeningInv, DisclosedFirst
<1>8. RaisedCleansUp'
  BY <1>0, <1>1, <1>3, <1>4 DEF ScreeningInv, RaisedCleansUp, Edges
<1>9. HeardIsSpoken'
  BY <1>0, <1>1, <1>3 DEF ScreeningInv, HeardIsSpoken
<1>10. HeardIsTold'
  BY <1>0, <1>1, <1>3, <1>4 DEF ScreeningInv, HeardIsTold, Edges
<1>11. MessagesArrive' /\ S!ToldBeforeRecorded'
  BY <1>0, <1>1 DEF ScreeningInv, MessagesArrive, S!ToldBeforeRecorded
<1>12. NobodyIsLeft'
  BY <1>0, <1>1, <1>3, <1>4 DEF ScreeningInv, NobodyIsLeft, Edges, Told
<1>13. OneOrTheOther'
  <2>1. \A j \in S!Numbers : Told(j, "pivot")' <=> Told(j, "pivot")
    BY <1>1 DEF Told
  <2>2. <<k, k>> \notin through
    BY <1>0, <1>1 DEF ScreeningInv, OneOrTheOther
  <2>3. QED
    BY <1>0, <1>1, <1>3, <1>4, <2>1, <2>2 DEF ScreeningInv, OneOrTheOther
<1>14. QED
  BY <1>5, <1>6, <1>7, <1>8, <1>9, <1>10, <1>11, <1>12, <1>13 DEF ScreeningInv

LEMMA StartStep ==
    ASSUME ScreeningInv, NEW script \in {S!Screen, S!Message}, S!Start(script)
    PROVE  ScreeningInv'
<1>0. ScreeningInv
  OBVIOUS
<1>1. /\ calls < MaxCalls /\ calls' = calls + 1 /\ onLine' = calls'
      /\ UNCHANGED <<raises, queue, messages, disclosed, recorded, spoken, emitted, through,
                     raised, stranded, hungUp>>
  BY DEF S!Start, S!console, S!history
<1>2. PICK k : k = calls + 1
  OBVIOUS
<1>3. k \in S!Numbers /\ calls \in Nat /\ k > calls /\ calls' = k /\ onLine' = k
      /\ \A j \in S!Numbers : j \in Nat
  BY <1>0, <1>1, <1>2 DEF ScreeningInv, Types, S!Numbers
<1>4. S!Does(k, script)
  BY <1>1, <1>2 DEF S!Start, S!Does
<1>5. script \in Remainders /\ flow \in [S!Numbers -> Flows]
  BY <1>0, MiddleIsApart DEF ScreeningInv, Types, Flows
<1>6. /\ flow' \in [S!Numbers -> Flows] /\ flow'[k].rest = script /\ flow'[k].heard = flow[k].heard
      /\ \A j \in S!Numbers : j # k => flow'[j] = flow[j]
  BY <1>3, <1>4, <1>5, DoesThat
<1>7. /\ flow[k] = S!NotStarted /\ k \notin raised /\ \A p \in S!Parts : <<k, p>> \notin spoken
      /\ \A e \in emitted : e.of # k
      /\ <<k, k>> \notin through /\ <<k, k>> \notin hungUp
  BY <1>0, <1>3 DEF ScreeningInv, NothingBefore
<1>8. script \notin Edges \cup Recording /\ script \in Undisclosed
  BY MiddleIsApart DEF Undisclosed
<1>9. Types'
  <2>1. calls' \in 0 .. MaxCalls /\ onLine' \in 0 .. calls'
    BY <1>1, <1>3 DEF S!Numbers
  <2>2. QED
    BY <1>0, <1>1, <1>6, <2>1 DEF ScreeningInv, Types, Flows
<1>10. NothingBefore'
  <2>1. ASSUME NEW j \in S!Numbers, j > calls'
        PROVE  j > calls /\ j # k
    BY <1>3, <2>1
  <2>2. QED
    BY <1>0, <1>1, <1>6, <2>1 DEF ScreeningInv, NothingBefore
<1>11. HasStarted'
  <2>1. ASSUME NEW j \in S!Numbers, j # k, flow[j].rest = NotYet
        PROVE  j > calls'
    <3>1. j > calls
      BY <1>0, <2>1 DEF ScreeningInv, HasStarted
    <3>2. QED
      BY <1>1, <1>2, <1>3, <2>1, <3>1
  <2>2. QED
    BY <1>6, <1>8, <2>1 DEF HasStarted, Edges
<1>12. DisclosedFirst'
  BY <1>3, <1>6, <1>8 DEF DisclosedFirst
<1>13. RaisedCleansUp'
  BY <1>0, <1>1, <1>6, <1>7, <1>8 DEF ScreeningInv, RaisedCleansUp, Edges
<1>14. HeardIsSpoken'
  BY <1>0, <1>1, <1>6 DEF ScreeningInv, HeardIsSpoken
<1>15. HeardIsTold'
  BY <1>0, <1>1, <1>6, <1>8 DEF ScreeningInv, HeardIsTold, Edges
<1>16. MessagesArrive' /\ S!ToldBeforeRecorded'
  BY <1>0, <1>1 DEF ScreeningInv, MessagesArrive, S!ToldBeforeRecorded
<1>17. NobodyIsLeft'
  BY <1>1, <1>3, <1>6, <1>7, <1>8 DEF NobodyIsLeft, Edges
<1>18. OneOrTheOther'
  <2>1. \A j \in S!Numbers : Told(j, "pivot")' <=> Told(j, "pivot")
    BY <1>1 DEF Told
  <2>2. ~ Told(k, "pivot")
    BY <1>7 DEF Told
  <2>3. QED
    BY <1>0, <1>1, <1>6, <1>7, <2>1, <2>2 DEF ScreeningInv, OneOrTheOther
<1>19. QED
  BY <1>9, <1>10, <1>11, <1>12, <1>13, <1>14, <1>15, <1>16, <1>17, <1>18 DEF ScreeningInv

LEMMA CallEndsStep == ScreeningInv /\ S!CallEnds => ScreeningInv'
<1> SUFFICES ASSUME ScreeningInv, S!CallEnds
             PROVE  ScreeningInv'
  OBVIOUS
<1>0. ScreeningInv
  OBVIOUS
<1>1. onLine' = S!Nobody /\ UNCHANGED <<calls, flow, raises, queue, messages, disclosed, recorded, spoken, emitted,
                                        through, raised, stranded, hungUp>>
  BY DEF S!CallEnds, S!console, S!history
<1>2. Types'
  BY <1>0, <1>1 DEF ScreeningInv, Types, S!Nobody
<1>3. DisclosedFirst' /\ NobodyIsLeft'
  BY <1>1 DEF DisclosedFirst, NobodyIsLeft, S!Nobody, S!Numbers
<1>4. NothingBefore' /\ HasStarted' /\ RaisedCleansUp' /\ HeardIsSpoken' /\ HeardIsTold'
  BY <1>0, <1>1 DEF ScreeningInv, NothingBefore, HasStarted, RaisedCleansUp, HeardIsSpoken,
       HeardIsTold
<1>5. MessagesArrive' /\ OneOrTheOther' /\ S!ToldBeforeRecorded'
  BY <1>0, <1>1 DEF ScreeningInv, MessagesArrive, OneOrTheOther, S!ToldBeforeRecorded, Told
<1>6. QED
  BY <1>2, <1>3, <1>4, <1>5 DEF ScreeningInv

LEMMA DrainStep == ScreeningInv /\ S!Drain => ScreeningInv'
<1> SUFFICES ASSUME ScreeningInv, S!Drain
             PROVE  ScreeningInv'
  OBVIOUS
<1>0. ScreeningInv
  OBVIOUS
<1>1. /\ queue # <<>> /\ queue' = Tail(queue)
      /\ messages' = IF Head(queue).kind = "done" THEN messages \cup {Head(queue).of} ELSE messages
      /\ UNCHANGED <<calls, onLine, flow, raises, disclosed, recorded, spoken, emitted, through,
                     raised, stranded, hungUp>>
  BY DEF S!Drain, S!dialogue, S!history
<1>2. /\ queue \in Seq(S!Events) /\ queue' \in Seq(S!Events)
      /\ \A i \in DOMAIN queue : queue[i] = Head(queue) \/ \E j \in DOMAIN queue' : queue'[j] = queue[i]
  <2>1. queue \in Seq(S!Events)
    BY <1>0 DEF ScreeningInv, Types
  <2>2. /\ queue' \in Seq(S!Events) /\ Len(queue') = Len(queue) - 1 /\ Head(queue) = queue[1]
        /\ \A j \in 1 .. Len(queue') : queue'[j] = queue[j + 1]
    BY <1>1, <2>1
  <2>3. ASSUME NEW i \in DOMAIN queue, i # 1
        PROVE  i - 1 \in DOMAIN queue' /\ queue'[i - 1] = queue[i]
    <3>1. i \in 2 .. Len(queue) /\ Len(queue) \in Nat
      BY <2>1, <2>3
    <3>2. i - 1 \in 1 .. Len(queue')
      BY <2>2, <3>1
    <3>3. QED
      BY <2>2, <3>1, <3>2
  <2>4. QED
    BY <2>1, <2>2, <2>3
<1>3. Types'
  BY <1>0, <1>1, <1>2 DEF ScreeningInv, Types
<1>4. MessagesArrive'
  <2>1. ASSUME NEW e \in emitted, e.kind = "done"
        PROVE  e.of \in messages' \/ \E j \in DOMAIN queue' : queue'[j] = e
    <3>1. CASE e.of \in messages
      BY <1>1, <3>1
    <3>2. CASE \E i \in DOMAIN queue : queue[i] = e
      <4>1. PICK i \in DOMAIN queue : queue[i] = e
        BY <3>2
      <4>2. CASE e = Head(queue)
        BY <1>1, <2>1, <4>2
      <4>3. CASE e # Head(queue)
        BY <1>2, <4>1, <4>3
      <4>4. QED
        BY <4>2, <4>3
    <3>3. QED
      BY <1>0, <2>1, <3>1, <3>2 DEF ScreeningInv, MessagesArrive
  <2>2. QED
    BY <1>1, <2>1 DEF MessagesArrive
<1>5. NothingBefore' /\ HasStarted' /\ RaisedCleansUp' /\ HeardIsSpoken' /\ HeardIsTold'
  BY <1>0, <1>1 DEF ScreeningInv, NothingBefore, HasStarted, RaisedCleansUp, HeardIsSpoken,
       HeardIsTold
<1>6. DisclosedFirst' /\ NobodyIsLeft' /\ OneOrTheOther' /\ S!ToldBeforeRecorded'
  BY <1>0, <1>1 DEF ScreeningInv, DisclosedFirst, NobodyIsLeft, OneOrTheOther,
       S!ToldBeforeRecorded, Told
<1>7. QED
  BY <1>3, <1>4, <1>5, <1>6 DEF ScreeningInv

----------------------------------------------------------------------------
(* The theorems.                                                            *)

LEMMA ScreeningInvStep == ScreeningInv /\ [S!Next]_S!vars => ScreeningInv'
<1> SUFFICES ASSUME ScreeningInv, [S!Next]_S!vars
             PROVE  ScreeningInv'
  OBVIOUS
<1>1. CASE \E script \in {S!Screen, S!Message} : S!Start(script)
  BY <1>1, StartStep
<1>2. CASE S!CallEnds
  BY <1>2, CallEndsStep
<1>3. CASE \E k \in S!Numbers :
              \/ S!Disclose(k) \/ S!Say(k) \/ S!Decide(k) \/ S!Connect(k) \/ S!Emit(k) \/ S!HangUp(k)
              \/ S!Raises(k) \/ S!Pivot(k)
              \/ \E h \in BOOLEAN : S!Listen(k, h)
  <2>1. PICK k \in S!Numbers :
              \/ S!Disclose(k) \/ S!Say(k) \/ S!Decide(k) \/ S!Connect(k) \/ S!Emit(k) \/ S!HangUp(k)
              \/ S!Raises(k) \/ S!Pivot(k)
              \/ \E h \in BOOLEAN : S!Listen(k, h)
    BY <1>3
  <2>2. QED
    BY <2>1, DiscloseStep, SayStep, DecideStep, ConnectStep, EmitStep, HangUpStep, RaisesStep,
       PivotStep, ListenStep
<1>4. CASE S!Drain
  BY <1>4, DrainStep
<1>5. CASE UNCHANGED S!vars
  <2>1. UNCHANGED <<calls, onLine, flow, raises, queue, messages, disclosed, recorded, spoken, emitted,
                    through, raised, stranded, hungUp>>
    BY <1>5 DEF S!vars, S!dialogue, S!console, S!history
  <2>2. QED
    BY <2>1 DEF ScreeningInv, Types, NothingBefore, HasStarted, DisclosedFirst, RaisedCleansUp,
       HeardIsSpoken, HeardIsTold, MessagesArrive, NobodyIsLeft, OneOrTheOther,
       S!ToldBeforeRecorded, Told
<1>6. QED
  BY <1>1, <1>2, <1>3, <1>4, <1>5 DEF S!Next

\* What a dialogue knows of its caller and has told of them, after any overlap of calls and
\* any exceptions.
THEOREM ScreeningInvSpec == S!Spec => []ScreeningInv
<1>1. ScreeningInv /\ [S!Next]_S!vars => ScreeningInv'
  BY ScreeningInvStep
<1>2. QED
  BY InitScreeningInv, <1>1, PTL DEF S!Spec

\* Callers are told before they are recorded, what they say is kept, and their call ends as
\* was decided, for any number of calls and exceptions.
THEOREM DealtWith == S!Spec => []CallersAreDealtWith
<1>1. ScreeningInv => CallersAreDealtWith
  <2> SUFFICES ASSUME ScreeningInv
               PROVE  CallersAreDealtWith
    OBVIOUS
  <2>0. ScreeningInv /\ \A k \in S!Numbers : S!Over(k) <=> flow[k].rest = Done
    BY DEF S!Over, Done
  <2>1. S!ToldBeforeRecorded
    BY <2>0 DEF ScreeningInv
  <2>2. S!WordsAreKept
    <3>1. ASSUME NEW k \in S!Numbers, S!Over(k), k \notin raised
          PROVE  \E e \in emitted : e.of = k /\ e.text = {p \in S!Parts : <<k, p>> \in spoken}
      BY <2>0, <3>1 DEF ScreeningInv, HeardIsTold, HeardIsSpoken
    <3>2. QED
      BY <2>0, <3>1 DEF ScreeningInv, MessagesArrive, S!WordsAreKept
  <2>3. S!EndsAsDecided
    BY <2>0 DEF ScreeningInv, NobodyIsLeft, OneOrTheOther, S!EndsAsDecided, Told
  <2>4. QED
    BY <2>1, <2>2, <2>3 DEF CallersAreDealtWith
<1>2. QED
  BY <1>1, ScreeningInvSpec, PTL
===============================================================================
