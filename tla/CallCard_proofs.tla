--------------------------- MODULE CallCard_proofs ---------------------------
(***************************************************************************)
(* Proofs about CallCard, for any sets of sessions and consoles and any    *)
(* bound on the commands: type correctness, the disclosure gate, no orphan *)
(* capture after a call, the watched far channel, and that the threads     *)
(* together implement the abstract CaptureGate.                            *)
(***************************************************************************)
EXTENDS CallCard, TLAPS

\* A busy handler thread works for a session whose acknowledgement is recorded,
\* with the pipeline number its command was given.
HandlersAcked ==
    \A c \in Clients :
        handler[c].at # "idle" =>
            /\ handler[c].sid \in Sessions
            /\ handler[c].num \in Pipes
            /\ card[handler[c].sid].ack

\* The tincan-dbus thread works on a session, and it starts the operator's
\* channel of the active one: only that thread changes which one is active.
DbusKnowsSession ==
    /\ dbus.at # "idle" => dbus.sid \in Sessions
    /\ dbus.at = "start_op" => dbus.sid = active

\* A session without a card has never been touched.
NoCardNoCapture ==
    \A s \in Sessions :
        /\ card[s].state = "none" => ~card[s].ack
        /\ cur[s] # 0 => card[s].ack

\* A pipeline that is running is the one the transcriber refers to, unless another
\* was launched in the same session.
UpIsCurrent ==
    \A s \in Sessions, k \in Pipes :
        pipe[s][k] \in Up => k = cur[s] \/ StartedTwice(s)

\* What a session that is over has at hand, a thread is yet to stop.
HeldIsSettled ==
    \A s \in Sessions \ {active} : (cur[s] # 0 \/ op[s] = "up") => Settling(s)

\* The inductive invariant.
IInv ==
    /\ TypeOK
    /\ HandlersAcked
    /\ DbusKnowsSession
    /\ NoCardNoCapture
    /\ FarOnlyAfterAck
    /\ UpIsCurrent
    /\ HeldIsSettled
    /\ FarIsWatched

USE NoSessionAssumption, MaxCommandsAssumption

\* Initially nothing has been started.
LEMMA InitIInv == Init => IInv
BY DEF Init, IInv, TypeOK, HandlersAcked, DbusKnowsSession, NoCardNoCapture,
       FarOnlyAfterAck, UpIsCurrent, HeldIsSettled, FarIsWatched, Cards, DbusStates,
       HandlerStates, FreshCard, IdleDbus, IdleHandler, PipeStates, Up, Pipes

\* Each write to a row of call_cards keeps it one.
LEMMA CardWrites ==
    ASSUME NEW r \in Cards
    PROVE  /\ [r EXCEPT !.state = "pending"] \in Cards
           /\ [r EXCEPT !.state = "skipped"] \in Cards
           /\ [r EXCEPT !.ack = TRUE, !.state = "disclosed"] \in Cards
           /\ [r EXCEPT !.ended = TRUE] \in Cards
BY DEF Cards

\* What start() does to the far transcriber of a session keeps its type.
LEMMA FarStartType ==
    ASSUME TypeOK, NEW s \in Sessions, NEW k \in Pipes, FarStart(s, k)
    PROVE  /\ pipe' \in [Sessions -> [Pipes -> PipeStates]]
           /\ cur' \in [Sessions -> 0 .. MaxCommands]
           /\ stopReq' \in [Sessions -> BOOLEAN]
BY DEF TypeOK, FarStart, PipeStates, Up, Pipes

\* What stop() does to the far transcriber of a session keeps its type, leaves
\* no current pipeline, launches none, and ends none but the current one.
LEMMA FarStopType ==
    ASSUME TypeOK, NEW s \in Sessions, FarStop(s)
    PROVE  /\ pipe' \in [Sessions -> [Pipes -> PipeStates]]
           /\ cur' \in [Sessions -> 0 .. MaxCommands]
           /\ stopReq' \in [Sessions -> BOOLEAN]
           /\ cur'[s] = 0
           /\ \A t \in Sessions \ {s} : cur'[t] = cur[t]
           /\ \A t \in Sessions, k \in Pipes :
                 pipe'[t][k] = "unused" <=> pipe[t][k] = "unused"
           /\ \A t \in Sessions, k \in Pipes :
                 pipe'[t][k] \in Up <=> pipe[t][k] \in Up /\ ~(t = s /\ k = cur[s])
<1>1. pipe' \in [Sessions -> [Pipes -> PipeStates]]
  BY DEF TypeOK, FarStop, PipeStates, Up, Pipes
<1>2. /\ cur' \in [Sessions -> 0 .. MaxCommands]
      /\ stopReq' \in [Sessions -> BOOLEAN]
      /\ cur'[s] = 0
      /\ \A t \in Sessions \ {s} : cur'[t] = cur[t]
  BY DEF TypeOK, FarStop
<1>3. \A t \in Sessions, k \in Pipes :
         pipe'[t][k] = "unused" <=> pipe[t][k] = "unused"
  BY DEF TypeOK, FarStop, Up
<1>4. \A t \in Sessions, k \in Pipes :
         pipe'[t][k] \in Up <=> pipe[t][k] \in Up /\ ~(t = s /\ k = cur[s])
  BY DEF TypeOK, FarStop, Up
<1>5. QED
  BY <1>1, <1>2, <1>3, <1>4

\* Every step keeps the types.
LEMMA TypeStep ==
    ASSUME TypeOK, HandlersAcked, DbusKnowsSession, [Next]_vars
    PROVE  TypeOK'
<1>1. ASSUME NEW s \in Sessions, CallConnected(s)
      PROVE  TypeOK'
  <2>1. card' \in [Sessions -> Cards]
    BY <1>1, CardWrites DEF TypeOK, CallConnected
  <2>2. dbus' \in DbusStates
    BY <1>1 DEF CallConnected, DbusStates
  <2>3. QED
    BY <1>1, <2>1, <2>2 DEF TypeOK, CallConnected, farVars, watchVars
<1>2. CASE StartOperator
  BY <1>2 DEF TypeOK, StartOperator, IdleDbus, DbusStates, farVars, watchVars
<1>3. ASSUME NEW id \in Sessions \cup {NoSession}, CallEnded(id)
      PROVE  TypeOK'
  BY <1>3 DEF TypeOK, CallEnded, DbusStates, farVars, watchVars
<1>4. CASE StopSession
  <2>1. dbus.sid \in Sessions
    BY <1>4 DEF DbusKnowsSession, StopSession
  <2>2. card' \in [Sessions -> Cards]
    BY <1>4, <2>1, CardWrites DEF TypeOK, StopSession
  <2>3. /\ pipe' \in [Sessions -> [Pipes -> PipeStates]]
        /\ cur' \in [Sessions -> 0 .. MaxCommands]
        /\ stopReq' \in [Sessions -> BOOLEAN]
    BY <1>4, <2>1, FarStopType DEF StopSession, SessionStop
  <2>4. QED
    BY <1>4, <2>1, <2>2, <2>3
       DEF TypeOK, StopSession, SessionStop, IdleDbus, DbusStates
<1>5. ASSUME NEW c \in Clients, NEW s \in Sessions, DisclosureAck(c, s)
      PROVE  TypeOK'
  <2>1. card' \in [Sessions -> Cards]
    BY <1>5, CardWrites DEF TypeOK, DisclosureAck
  <2>2. handler' \in [Clients -> HandlerStates] /\ commands' \in 0 .. MaxCommands
    BY <1>5 DEF TypeOK, DisclosureAck, HandlerStates
  <2>3. QED
    BY <1>5, <2>1, <2>2 DEF TypeOK, DisclosureAck, farVars, watchVars
<1>6. ASSUME NEW c \in Clients, NEW s \in Sessions, DisclosureSkip(c, s)
      PROVE  TypeOK'
  <2>1. card' \in [Sessions -> Cards]
    BY <1>6, CardWrites DEF TypeOK, DisclosureSkip
  <2>2. QED
    BY <1>6, <2>1 DEF TypeOK, DisclosureSkip, farVars, watchVars
<1>7. ASSUME NEW c \in Clients, LookupSession(c)
      PROVE  TypeOK'
  <2>1. handler' \in [Clients -> HandlerStates]
    BY <1>7 DEF TypeOK, LookupSession, HandlerStates, IdleHandler
  <2>2. QED
    BY <1>7, <2>1 DEF TypeOK, LookupSession, farVars, watchVars
<1>8. ASSUME NEW c \in Clients, StartFar(c)
      PROVE  TypeOK'
  <2>1. handler[c].sid \in Sessions /\ handler[c].num \in Pipes
    BY <1>8 DEF StartFar, HandlersAcked
  <2>2. handler' \in [Clients -> HandlerStates]
    BY <1>8 DEF TypeOK, StartFar, HandlerStates
  <2>3. QED
    BY <1>8, <2>1, <2>2, FarStartType DEF TypeOK, StartFar, watchVars
<1>9. ASSUME NEW c \in Clients, SpawnWatchdog(c)
      PROVE  TypeOK'
  <2>1. handler[c].num \in Pipes
    BY <1>9 DEF SpawnWatchdog, HandlersAcked
  <2>2. handler' \in [Clients -> HandlerStates]
    <3>1. handler[c] \in HandlerStates
      BY DEF TypeOK
    <3>2. [handler[c] EXCEPT !.at = "recheck"] \in HandlerStates
      BY <3>1 DEF HandlerStates
    <3>3. QED
      BY <1>9, <3>2 DEF TypeOK, SpawnWatchdog
  <2>3. QED
    BY <1>9, <2>1, <2>2 DEF TypeOK, SpawnWatchdog, farVars
<1>10. ASSUME NEW c \in Clients, Recheck(c)
       PROVE  TypeOK'
  <2>1. handler' \in [Clients -> HandlerStates]
    <3>1. handler[c] \in HandlerStates
      BY DEF TypeOK
    <3>2. [handler[c] EXCEPT !.at = "stop"] \in HandlerStates /\ IdleHandler \in HandlerStates
      BY <3>1 DEF HandlerStates, IdleHandler
    <3>3. QED
      BY <1>10, <3>2 DEF TypeOK, Recheck
  <2>2. QED
    BY <1>10, <2>1 DEF TypeOK, Recheck, farVars, watchVars
<1>11. ASSUME NEW c \in Clients, StopOrphan(c)
       PROVE  TypeOK'
  <2>1. handler[c].sid \in Sessions
    BY <1>11 DEF StopOrphan, HandlersAcked
  <2>2. handler' \in [Clients -> HandlerStates]
    BY <1>11 DEF TypeOK, StopOrphan, HandlerStates, IdleHandler
  <2>3. QED
    BY <1>11, <2>1, <2>2, FarStopType DEF TypeOK, StopOrphan, SessionStop
<1>12. ASSUME NEW s \in Sessions, FinishReport(s)
       PROVE  TypeOK'
  BY <1>12, FarStopType DEF TypeOK, FinishReport
<1>13. ASSUME NEW s \in Sessions, ClaimReport(s)
       PROVE  TypeOK'
  BY <1>13 DEF TypeOK, ClaimReport, farVars
<1>14. ASSUME NEW s \in Sessions, NEW k \in Pipes, BadVerdict(s, k)
       PROVE  TypeOK'
  BY <1>14 DEF TypeOK, BadVerdict, BeginReport, farVars
<1>15. ASSUME NEW s \in Sessions, NEW k \in Pipes, WatchdogExit(s, k)
       PROVE  TypeOK'
  BY <1>15 DEF TypeOK, WatchdogExit, farVars
<1>16. ASSUME NEW s \in Sessions, NEW k \in Pipes, ReaderExit(s, k)
       PROVE  TypeOK'
  <2>1. looked' \in [Sessions -> Nat]
    BY <1>16 DEF TypeOK, ReaderExit, BeginReport
  <2>2. QED
    BY <1>16, <2>1 DEF TypeOK, ReaderExit, PipeStates
<1>17. ASSUME NEW s \in Sessions, NEW k \in Pipes, Reroute(s, k) \/ PipelineDies(s, k)
       PROVE  TypeOK'
  <2>1. CASE Reroute(s, k)
    BY <2>1 DEF TypeOK, Reroute, PipeStates, Up, watchVars
  <2>2. CASE PipelineDies(s, k)
    BY <2>2 DEF TypeOK, PipelineDies, PipeStates, watchVars
  <2>3. QED
    BY <1>17, <2>1, <2>2
<1>18. CASE UNCHANGED vars
  BY <1>18 DEF TypeOK, vars, farVars, watchVars
<1>19. QED
  BY <1>1, <1>2, <1>3, <1>4, <1>5, <1>6, <1>7, <1>8, <1>9, <1>10, <1>11, <1>12,
     <1>13, <1>14, <1>15, <1>16, <1>17, <1>18
     DEF Next, DbusStep, HandlerStep, Command, WatcherStep, World, WatchdogCheck, LinksUnknown

\* The gate: what a handler thread works for, and what has a pipeline, has been
\* acknowledged, and no step takes an acknowledgement back.
LEMMA AckStep ==
    ASSUME IInv, [Next]_vars
    PROVE  /\ HandlersAcked'
           /\ DbusKnowsSession'
           /\ NoCardNoCapture'
           /\ FarOnlyAfterAck'
<1> USE DEF IInv
<1>1. ASSUME NEW s \in Sessions, CallConnected(s)
      PROVE  /\ HandlersAcked'
           /\ DbusKnowsSession'
           /\ NoCardNoCapture'
           /\ FarOnlyAfterAck'
  BY <1>1
     DEF TypeOK, CallConnected, Pipes, HandlersAcked, DbusKnowsSession, NoCardNoCapture,
         FarOnlyAfterAck, farVars, watchVars
<1>2. CASE StartOperator
  BY <1>2
     DEF TypeOK, StartOperator, IdleDbus, Pipes, HandlersAcked, DbusKnowsSession,
         NoCardNoCapture, FarOnlyAfterAck, farVars, watchVars
<1>3. ASSUME NEW id \in Sessions \cup {NoSession}, CallEnded(id)
      PROVE  /\ HandlersAcked'
           /\ DbusKnowsSession'
           /\ NoCardNoCapture'
           /\ FarOnlyAfterAck'
  BY <1>3
     DEF TypeOK, CallEnded, Pipes, HandlersAcked, DbusKnowsSession, NoCardNoCapture,
         FarOnlyAfterAck, farVars, watchVars
<1>4. CASE StopSession
  BY <1>4, FarStopType
     DEF TypeOK, StopSession, SessionStop, IdleDbus, Pipes, HandlersAcked, DbusKnowsSession,
         NoCardNoCapture, FarOnlyAfterAck, farVars, watchVars
<1>5. ASSUME NEW c \in Clients, NEW s \in Sessions, DisclosureAck(c, s)
      PROVE  /\ HandlersAcked'
           /\ DbusKnowsSession'
           /\ NoCardNoCapture'
           /\ FarOnlyAfterAck'
  BY <1>5
     DEF TypeOK, DisclosureAck, Pipes, HandlersAcked, DbusKnowsSession, NoCardNoCapture,
         FarOnlyAfterAck, farVars, watchVars
<1>6. ASSUME NEW c \in Clients, NEW s \in Sessions, DisclosureSkip(c, s)
      PROVE  /\ HandlersAcked'
           /\ DbusKnowsSession'
           /\ NoCardNoCapture'
           /\ FarOnlyAfterAck'
  BY <1>6
     DEF TypeOK, DisclosureSkip, Pipes, HandlersAcked, DbusKnowsSession, NoCardNoCapture,
         FarOnlyAfterAck, farVars, watchVars
<1>7. ASSUME NEW c \in Clients, LookupSession(c)
      PROVE  /\ HandlersAcked'
           /\ DbusKnowsSession'
           /\ NoCardNoCapture'
           /\ FarOnlyAfterAck'
  BY <1>7
     DEF TypeOK, LookupSession, IdleHandler, Pipes, HandlersAcked, DbusKnowsSession,
         NoCardNoCapture, FarOnlyAfterAck, farVars, watchVars
<1>8. ASSUME NEW c \in Clients, StartFar(c)
      PROVE  /\ HandlersAcked'
           /\ DbusKnowsSession'
           /\ NoCardNoCapture'
           /\ FarOnlyAfterAck'
  BY <1>8
     DEF TypeOK, StartFar, FarStart, Pipes, HandlersAcked, DbusKnowsSession,
         NoCardNoCapture, FarOnlyAfterAck, farVars, watchVars
<1>9. ASSUME NEW c \in Clients, SpawnWatchdog(c)
      PROVE  /\ HandlersAcked'
           /\ DbusKnowsSession'
           /\ NoCardNoCapture'
           /\ FarOnlyAfterAck'
  BY <1>9
     DEF TypeOK, SpawnWatchdog, Pipes, HandlersAcked, DbusKnowsSession, NoCardNoCapture,
         FarOnlyAfterAck, farVars, watchVars
<1>10. ASSUME NEW c \in Clients, Recheck(c)
      PROVE  /\ HandlersAcked'
           /\ DbusKnowsSession'
           /\ NoCardNoCapture'
           /\ FarOnlyAfterAck'
  BY <1>10
     DEF TypeOK, Recheck, IdleHandler, Pipes, HandlersAcked, DbusKnowsSession,
         NoCardNoCapture, FarOnlyAfterAck, farVars, watchVars
<1>11. ASSUME NEW c \in Clients, StopOrphan(c)
      PROVE  /\ HandlersAcked'
           /\ DbusKnowsSession'
           /\ NoCardNoCapture'
           /\ FarOnlyAfterAck'
  BY <1>11, FarStopType
     DEF TypeOK, StopOrphan, SessionStop, IdleHandler, Pipes, HandlersAcked,
         DbusKnowsSession, NoCardNoCapture, FarOnlyAfterAck, farVars, watchVars
<1>12. ASSUME NEW s \in Sessions, FinishReport(s)
      PROVE  /\ HandlersAcked'
           /\ DbusKnowsSession'
           /\ NoCardNoCapture'
           /\ FarOnlyAfterAck'
  <2>1. UNCHANGED <<active, card, dbus, handler>> /\ FarStop(s)
    BY <1>12 DEF FinishReport
  <2>2. HandlersAcked' /\ DbusKnowsSession'
    BY <2>1 DEF HandlersAcked, DbusKnowsSession
  <2>3. NoCardNoCapture'
    BY <2>1, FarStopType DEF NoCardNoCapture
  <2>4. FarOnlyAfterAck'
    BY <2>1, FarStopType DEF FarOnlyAfterAck
  <2>5. QED
    BY <2>2, <2>3, <2>4
<1>13. ASSUME NEW s \in Sessions, NEW k \in Pipes, BadVerdict(s, k)
      PROVE  /\ HandlersAcked'
           /\ DbusKnowsSession'
           /\ NoCardNoCapture'
           /\ FarOnlyAfterAck'
  BY <1>13
     DEF TypeOK, BadVerdict, BeginReport, Pipes, HandlersAcked, DbusKnowsSession,
         NoCardNoCapture, FarOnlyAfterAck, farVars, watchVars
<1>14. ASSUME NEW s \in Sessions, NEW k \in Pipes, WatchdogExit(s, k)
      PROVE  /\ HandlersAcked'
           /\ DbusKnowsSession'
           /\ NoCardNoCapture'
           /\ FarOnlyAfterAck'
  BY <1>14
     DEF TypeOK, WatchdogExit, Pipes, HandlersAcked, DbusKnowsSession, NoCardNoCapture,
         FarOnlyAfterAck, farVars, watchVars
<1>15. ASSUME NEW s \in Sessions, NEW k \in Pipes, ReaderExit(s, k)
      PROVE  /\ HandlersAcked'
           /\ DbusKnowsSession'
           /\ NoCardNoCapture'
           /\ FarOnlyAfterAck'
  BY <1>15
     DEF TypeOK, ReaderExit, BeginReport, Pipes, HandlersAcked, DbusKnowsSession,
         NoCardNoCapture, FarOnlyAfterAck, farVars, watchVars
<1>16. ASSUME NEW s \in Sessions, NEW k \in Pipes, Reroute(s, k)
      PROVE  /\ HandlersAcked'
           /\ DbusKnowsSession'
           /\ NoCardNoCapture'
           /\ FarOnlyAfterAck'
  BY <1>16
     DEF TypeOK, Reroute, Pipes, HandlersAcked, DbusKnowsSession, NoCardNoCapture,
         FarOnlyAfterAck, farVars, watchVars
<1>17. ASSUME NEW s \in Sessions, NEW k \in Pipes, PipelineDies(s, k)
      PROVE  /\ HandlersAcked'
           /\ DbusKnowsSession'
           /\ NoCardNoCapture'
           /\ FarOnlyAfterAck'
  BY <1>17
     DEF TypeOK, PipelineDies, Up, Pipes, HandlersAcked, DbusKnowsSession, NoCardNoCapture,
         FarOnlyAfterAck, farVars, watchVars
<1>20. ASSUME NEW s \in Sessions, ClaimReport(s)
      PROVE  /\ HandlersAcked'
           /\ DbusKnowsSession'
           /\ NoCardNoCapture'
           /\ FarOnlyAfterAck'
  BY <1>20
     DEF TypeOK, ClaimReport, Pipes, HandlersAcked, DbusKnowsSession, NoCardNoCapture,
         FarOnlyAfterAck, farVars
<1>18. CASE UNCHANGED vars
  BY <1>18
     DEF HandlersAcked, DbusKnowsSession, NoCardNoCapture, FarOnlyAfterAck, vars, farVars,
         watchVars
<1>19. QED
  BY <1>1, <1>2, <1>3, <1>4, <1>5, <1>6, <1>7, <1>8, <1>9, <1>10, <1>11, <1>12, <1>13,
     <1>14, <1>15, <1>16, <1>17, <1>18, <1>20
     DEF Next, DbusStep, HandlerStep, Command, WatcherStep, World, WatchdogCheck, LinksUnknown

\* No step leaves the capture of a session that is not active to nobody: only
\* CallEnded takes "active" away, and StartFar puts its own handler on the hook.
LEMMA OrphanStep ==
    ASSUME IInv, [Next]_vars
    PROVE  HeldIsSettled'
<1> USE DEF IInv
<1>a. ASSUME UNCHANGED <<active, dbus, op>>,
             \A t \in Sessions : cur'[t] = 0 \/ cur'[t] = cur[t],
             \A d \in Clients : handler[d].at \in {"watch", "recheck", "stop"} =>
                 handler'[d] = handler[d]
      PROVE  HeldIsSettled'
  BY <1>a DEF HeldIsSettled, Settling
<1>1. ASSUME NEW s \in Sessions, CallConnected(s)
      PROVE  HeldIsSettled'
  BY <1>1
     DEF TypeOK, CallConnected, HeldIsSettled, Settling, HandlersAcked, DbusKnowsSession,
         NoCardNoCapture, farVars, watchVars
<1>2. CASE StartOperator
  BY <1>2
     DEF TypeOK, StartOperator, IdleDbus, HeldIsSettled, Settling, HandlersAcked,
         DbusKnowsSession, NoCardNoCapture, farVars, watchVars
<1>3. ASSUME NEW id \in Sessions \cup {NoSession}, CallEnded(id)
      PROVE  HeldIsSettled'
  BY <1>3
     DEF TypeOK, CallEnded, HeldIsSettled, Settling, HandlersAcked, DbusKnowsSession,
         NoCardNoCapture, farVars, watchVars
<1>4. CASE StopSession
  <2> SUFFICES ASSUME NEW t \in Sessions \ {active'}, cur'[t] # 0 \/ op'[t] = "up"
               PROVE  Settling(t)'
    BY DEF HeldIsSettled
  <2>1. dbus.sid \in Sessions
    BY <1>4 DEF StopSession, DbusKnowsSession
  <2>2. t # dbus.sid
    BY <1>4, <2>1, FarStopType DEF StopSession, SessionStop, TypeOK
  <2>3. Settling(t)
    BY <1>4, <2>1, <2>2, FarStopType DEF StopSession, SessionStop, TypeOK, HeldIsSettled
  <2>4. QED
    BY <1>4, <2>2, <2>3 DEF Settling, StopSession, IdleDbus
<1>5. ASSUME NEW c \in Clients, NEW s \in Sessions, DisclosureAck(c, s)
      PROVE  HeldIsSettled'
  <2>1. \A d \in Clients : handler[d].at # "idle" => handler'[d] = handler[d]
    BY <1>5 DEF DisclosureAck, TypeOK
  <2>2. QED
    BY <1>5, <1>a, <2>1 DEF DisclosureAck, farVars
<1>6. ASSUME NEW c \in Clients, NEW s \in Sessions, DisclosureSkip(c, s)
      PROVE  HeldIsSettled'
  BY <1>6
     DEF TypeOK, DisclosureSkip, HeldIsSettled, Settling, HandlersAcked, DbusKnowsSession,
         NoCardNoCapture, farVars, watchVars
<1>7. ASSUME NEW c \in Clients, LookupSession(c)
      PROVE  HeldIsSettled'
  <2>1. /\ handler[c].at = "lookup"
        /\ \A d \in Clients \ {c} : handler'[d] = handler[d]
    BY <1>7 DEF LookupSession, TypeOK
  <2>2. QED
    BY <1>7, <1>a, <2>1 DEF LookupSession, farVars
<1>8. ASSUME NEW c \in Clients, StartFar(c)
      PROVE  HeldIsSettled'
  BY <1>8
     DEF TypeOK, StartFar, FarStart, HeldIsSettled, Settling, HandlersAcked,
         DbusKnowsSession, NoCardNoCapture, farVars, watchVars
<1>9. ASSUME NEW c \in Clients, SpawnWatchdog(c)
      PROVE  HeldIsSettled'
  BY <1>9
     DEF TypeOK, SpawnWatchdog, HeldIsSettled, Settling, HandlersAcked, DbusKnowsSession,
         NoCardNoCapture, farVars, watchVars
<1>10. ASSUME NEW c \in Clients, Recheck(c)
      PROVE  HeldIsSettled'
  BY <1>10
     DEF TypeOK, Recheck, IdleHandler, HeldIsSettled, Settling, HandlersAcked,
         DbusKnowsSession, NoCardNoCapture, farVars, watchVars
<1>11. ASSUME NEW c \in Clients, StopOrphan(c)
      PROVE  HeldIsSettled'
  <2> SUFFICES ASSUME NEW t \in Sessions \ {active'}, cur'[t] # 0 \/ op'[t] = "up"
               PROVE  Settling(t)'
    BY DEF HeldIsSettled
  <2>1. handler[c].sid \in Sessions
    BY <1>11 DEF StopOrphan, HandlersAcked
  <2>2. t # handler[c].sid
    BY <1>11, <2>1, FarStopType DEF StopOrphan, SessionStop, TypeOK
  <2>3. Settling(t)
    BY <1>11, <2>1, <2>2, FarStopType DEF StopOrphan, SessionStop, TypeOK, HeldIsSettled
  <2>4. QED
    BY <1>11, <2>2, <2>3 DEF Settling, StopOrphan, IdleHandler, TypeOK
<1>12. ASSUME NEW s \in Sessions, FinishReport(s)
      PROVE  HeldIsSettled'
  <2>1. cur'[s] = 0 /\ \A t \in Sessions \ {s} : cur'[t] = cur[t]
    BY <1>12, FarStopType DEF FinishReport
  <2>2. QED
    BY <1>12, <1>a, <2>1 DEF FinishReport
<1>13. ASSUME NEW s \in Sessions, NEW k \in Pipes, BadVerdict(s, k)
      PROVE  HeldIsSettled'
  BY <1>13
     DEF TypeOK, BadVerdict, BeginReport, HeldIsSettled, Settling, HandlersAcked,
         DbusKnowsSession, NoCardNoCapture, farVars, watchVars
<1>14. ASSUME NEW s \in Sessions, NEW k \in Pipes, WatchdogExit(s, k)
      PROVE  HeldIsSettled'
  BY <1>14
     DEF TypeOK, WatchdogExit, HeldIsSettled, Settling, HandlersAcked, DbusKnowsSession,
         NoCardNoCapture, farVars, watchVars
<1>15. ASSUME NEW s \in Sessions, NEW k \in Pipes, ReaderExit(s, k)
      PROVE  HeldIsSettled'
  BY <1>15
     DEF TypeOK, ReaderExit, BeginReport, HeldIsSettled, Settling, HandlersAcked,
         DbusKnowsSession, NoCardNoCapture, farVars, watchVars
<1>16. ASSUME NEW s \in Sessions, NEW k \in Pipes, Reroute(s, k)
      PROVE  HeldIsSettled'
  BY <1>16
     DEF TypeOK, Reroute, HeldIsSettled, Settling, HandlersAcked, DbusKnowsSession,
         NoCardNoCapture, farVars, watchVars
<1>17. ASSUME NEW s \in Sessions, NEW k \in Pipes, PipelineDies(s, k)
      PROVE  HeldIsSettled'
  BY <1>17
     DEF TypeOK, PipelineDies, Up, HeldIsSettled, Settling, HandlersAcked,
         DbusKnowsSession, NoCardNoCapture, farVars, watchVars
<1>20. ASSUME NEW s \in Sessions, ClaimReport(s)
      PROVE  HeldIsSettled'
  BY <1>20
     DEF TypeOK, ClaimReport, Pipes, HeldIsSettled, Settling, farVars
<1>18. CASE UNCHANGED vars
  BY <1>18
     DEF HeldIsSettled, Settling, HandlersAcked, DbusKnowsSession, NoCardNoCapture, vars,
         farVars, watchVars
<1>19. QED
  BY <1>1, <1>2, <1>3, <1>4, <1>5, <1>6, <1>7, <1>8, <1>9, <1>10, <1>11, <1>12, <1>13,
     <1>14, <1>15, <1>16, <1>17, <1>18, <1>20
     DEF Next, DbusStep, HandlerStep, Command, WatcherStep, World, WatchdogCheck, LinksUnknown

\* No step leaves the live far channel unwatched before a loss is reported.
LEMMA WatchedStep ==
    ASSUME IInv, [Next]_vars
    PROVE  FarIsWatched'
<1> USE DEF IInv
<1>1. ASSUME NEW s \in Sessions, CallConnected(s)
      PROVE  FarIsWatched'
  BY <1>1
     DEF TypeOK, CallConnected, FarIsWatched, Reporting, HandlersAcked, DbusKnowsSession,
         NoCardNoCapture, farVars, watchVars
<1>2. CASE StartOperator
  BY <1>2
     DEF TypeOK, StartOperator, IdleDbus, FarIsWatched, Reporting, HandlersAcked, DbusKnowsSession,
         NoCardNoCapture, farVars, watchVars
<1>3. ASSUME NEW id \in Sessions \cup {NoSession}, CallEnded(id)
      PROVE  FarIsWatched'
  BY <1>3
     DEF TypeOK, CallEnded, FarIsWatched, Reporting, HandlersAcked, DbusKnowsSession, NoCardNoCapture,
         farVars, watchVars
<1>4. CASE StopSession
  BY <1>4, FarStopType
     DEF TypeOK, StopSession, SessionStop, IdleDbus, FarIsWatched, Reporting, HandlersAcked,
         DbusKnowsSession, NoCardNoCapture, farVars, watchVars
<1>5. ASSUME NEW c \in Clients, NEW s \in Sessions, DisclosureAck(c, s)
      PROVE  FarIsWatched'
  BY <1>5
     DEF TypeOK, DisclosureAck, FarIsWatched, Reporting, HandlersAcked, DbusKnowsSession,
         NoCardNoCapture, farVars, watchVars
<1>6. ASSUME NEW c \in Clients, NEW s \in Sessions, DisclosureSkip(c, s)
      PROVE  FarIsWatched'
  BY <1>6
     DEF TypeOK, DisclosureSkip, FarIsWatched, Reporting, HandlersAcked, DbusKnowsSession,
         NoCardNoCapture, farVars, watchVars
<1>7. ASSUME NEW c \in Clients, LookupSession(c)
      PROVE  FarIsWatched'
  BY <1>7
     DEF TypeOK, LookupSession, IdleHandler, FarIsWatched, Reporting, HandlersAcked, DbusKnowsSession,
         NoCardNoCapture, farVars, watchVars
<1>8. ASSUME NEW c \in Clients, StartFar(c)
      PROVE  FarIsWatched'
  BY <1>8
     DEF TypeOK, StartFar, FarStart, FarIsWatched, Reporting, HandlersAcked, DbusKnowsSession,
         NoCardNoCapture, farVars, watchVars
<1>9. ASSUME NEW c \in Clients, SpawnWatchdog(c)
      PROVE  FarIsWatched'
  <2> SUFFICES ASSUME NEW t \in Sessions, active' = t, cur'[t] # 0, ~lost'[t]
               PROVE  \/ watchdogs'[t] # {} /\ ~wdStop'[t]
                      \/ Reporting(t)'
                      \/ \E d \in Clients : handler'[d].sid = t /\ handler'[d].at = "watch"
    BY DEF FarIsWatched
  <2>1. CASE t = handler[c].sid
    BY <1>9, <2>1 DEF SpawnWatchdog, TypeOK
  <2>2. CASE t # handler[c].sid
    <3>1. active = t /\ cur[t] # 0 /\ ~lost[t]
      BY <1>9 DEF SpawnWatchdog, TypeOK, farVars
    <3>2. \/ watchdogs[t] # {} /\ ~wdStop[t]
          \/ Reporting(t)
          \/ \E d \in Clients : handler[d].sid = t /\ handler[d].at = "watch"
      BY <3>1 DEF FarIsWatched
    <3>3. CASE watchdogs[t] # {} /\ ~wdStop[t]
      BY <1>9, <2>2, <3>3 DEF SpawnWatchdog, TypeOK
    <3>4. CASE Reporting(t)
      BY <1>9, <3>4 DEF SpawnWatchdog, Reporting
    <3>5. CASE \E d \in Clients : handler[d].sid = t /\ handler[d].at = "watch"
      BY <1>9, <2>2, <3>5 DEF SpawnWatchdog, TypeOK
    <3>6. QED
      BY <3>2, <3>3, <3>4, <3>5
  <2>3. QED
    BY <2>1, <2>2
<1>10. ASSUME NEW c \in Clients, Recheck(c)
      PROVE  FarIsWatched'
  BY <1>10
     DEF TypeOK, Recheck, IdleHandler, FarIsWatched, Reporting, HandlersAcked, DbusKnowsSession,
         NoCardNoCapture, farVars, watchVars
<1>11. ASSUME NEW c \in Clients, StopOrphan(c)
      PROVE  FarIsWatched'
  BY <1>11, FarStopType
     DEF TypeOK, StopOrphan, SessionStop, IdleHandler, FarIsWatched, Reporting, HandlersAcked,
         DbusKnowsSession, NoCardNoCapture, farVars, watchVars
<1>12. ASSUME NEW s \in Sessions, FinishReport(s)
      PROVE  FarIsWatched'
  BY <1>12, FarStopType
     DEF TypeOK, FinishReport, FarIsWatched, Reporting, HandlersAcked, DbusKnowsSession,
         NoCardNoCapture, farVars, watchVars
<1>13. ASSUME NEW s \in Sessions, NEW k \in Pipes, BadVerdict(s, k)
      PROVE  FarIsWatched'
  BY <1>13
     DEF TypeOK, BadVerdict, BeginReport, FarIsWatched, Reporting, HandlersAcked, DbusKnowsSession,
         NoCardNoCapture, farVars, watchVars
<1>14. ASSUME NEW s \in Sessions, NEW k \in Pipes, WatchdogExit(s, k)
      PROVE  FarIsWatched'
  BY <1>14
     DEF TypeOK, WatchdogExit, FarIsWatched, Reporting, HandlersAcked, DbusKnowsSession,
         NoCardNoCapture, farVars, watchVars
<1>15. ASSUME NEW s \in Sessions, NEW k \in Pipes, ReaderExit(s, k)
      PROVE  FarIsWatched'
  BY <1>15
     DEF TypeOK, ReaderExit, BeginReport, FarIsWatched, Reporting, HandlersAcked, DbusKnowsSession,
         NoCardNoCapture, farVars, watchVars
<1>16. ASSUME NEW s \in Sessions, NEW k \in Pipes, Reroute(s, k)
      PROVE  FarIsWatched'
  BY <1>16
     DEF TypeOK, Reroute, FarIsWatched, Reporting, HandlersAcked, DbusKnowsSession, NoCardNoCapture,
         farVars, watchVars
<1>17. ASSUME NEW s \in Sessions, NEW k \in Pipes, PipelineDies(s, k)
      PROVE  FarIsWatched'
  BY <1>17
     DEF TypeOK, PipelineDies, Up, FarIsWatched, Reporting, HandlersAcked, DbusKnowsSession,
         NoCardNoCapture, farVars, watchVars
<1>20. ASSUME NEW s \in Sessions, ClaimReport(s)
      PROVE  FarIsWatched'
  BY <1>20
     DEF TypeOK, ClaimReport, Pipes, FarIsWatched, Reporting, Reporting, farVars
<1>18. CASE UNCHANGED vars
  BY <1>18
     DEF FarIsWatched, Reporting, HandlersAcked, DbusKnowsSession, NoCardNoCapture, vars, farVars,
         watchVars
<1>19. QED
  BY <1>1, <1>2, <1>3, <1>4, <1>5, <1>6, <1>7, <1>8, <1>9, <1>10, <1>11, <1>12, <1>13,
     <1>14, <1>15, <1>16, <1>17, <1>18, <1>20
     DEF Next, DbusStep, HandlerStep, Command, WatcherStep, World, WatchdogCheck, LinksUnknown

\* Only stop() and the death of a pipeline end it, and only another start() of its
\* session takes the transcriber's reference away.
LEMMA CurrentStep ==
    ASSUME IInv, [Next]_vars
    PROVE  UpIsCurrent'
<1> USE DEF IInv
<1>a. ASSUME NEW t \in Sessions, pipe'[t] = pipe[t], cur'[t] = cur[t], NEW k \in Pipes,
             pipe'[t][k] \in Up
      PROVE  k = cur'[t] \/ StartedTwice(t)'
  BY <1>a DEF UpIsCurrent, StartedTwice
<1>b. ASSUME NEW s \in Sessions, FarStop(s)
      PROVE  UpIsCurrent'
  BY <1>b, FarStopType DEF UpIsCurrent, StartedTwice
<1>1. ASSUME UNCHANGED <<pipe, cur>>
      PROVE  UpIsCurrent'
  BY <1>1 DEF UpIsCurrent, StartedTwice
<1>2. ASSUME NEW c \in Clients, StartFar(c)
      PROVE  UpIsCurrent'
  <2> SUFFICES ASSUME NEW t \in Sessions, NEW k \in Pipes, pipe'[t][k] \in Up
               PROVE  k = cur'[t] \/ StartedTwice(t)'
    BY DEF UpIsCurrent
  <2> DEFINE s == handler[c].sid
             n == handler[c].num
  <2>1. s \in Sessions /\ n \in Pipes
    BY <1>2 DEF StartFar, HandlersAcked
  <2>2. CASE t = s
    <3>1. pipe'[s][n] # "unused" /\ cur'[s] = n
      BY <1>2, <2>1 DEF StartFar, FarStart, TypeOK, Up
    <3>2. k # n => pipe'[s][k] # "unused"
      BY <2>2 DEF Up
    <3>3. QED
      BY <2>1, <2>2, <3>1, <3>2 DEF StartedTwice
  <2>3. CASE t # s
    BY <1>2, <1>a, <2>1, <2>3 DEF StartFar, FarStart, TypeOK
  <2>4. QED
    BY <2>2, <2>3
<1>3. ASSUME StopSession
      PROVE  UpIsCurrent'
  BY <1>3, <1>b DEF StopSession, SessionStop, DbusKnowsSession
<1>4. ASSUME NEW c \in Clients, StopOrphan(c)
      PROVE  UpIsCurrent'
  BY <1>4, <1>b DEF StopOrphan, SessionStop, HandlersAcked
<1>5. ASSUME NEW s \in Sessions, FinishReport(s)
      PROVE  UpIsCurrent'
  BY <1>5, <1>b DEF FinishReport
<1>6. ASSUME NEW s \in Sessions, NEW k \in Pipes,
             Reroute(s, k) \/ PipelineDies(s, k) \/ ReaderExit(s, k)
      PROVE  UpIsCurrent'
  <2>1. \A t \in Sessions, j \in Pipes :
           /\ pipe'[t][j] \in Up => pipe[t][j] \in Up
           /\ pipe[t][j] # "unused" => pipe'[t][j] # "unused"
    <3>1. CASE Reroute(s, k)
      BY <3>1 DEF Reroute, TypeOK, Up
    <3>2. CASE PipelineDies(s, k)
      BY <3>2 DEF PipelineDies, TypeOK, Up
    <3>3. CASE ReaderExit(s, k)
      BY <3>3 DEF ReaderExit, TypeOK, Up
    <3>4. QED
      BY <1>6, <3>1, <3>2, <3>3
  <2>2. cur' = cur
    BY <1>6 DEF Reroute, PipelineDies, ReaderExit
  <2>3. QED
    BY <2>1, <2>2 DEF UpIsCurrent, StartedTwice
<1>7. QED
  BY <1>1, <1>2, <1>3, <1>4, <1>5, <1>6
     DEF Next, DbusStep, HandlerStep, Command, WatcherStep, World, vars, farVars,
         CallConnected, StartOperator, CallEnded, DisclosureAck, DisclosureSkip, LookupSession,
         SpawnWatchdog, Recheck, ClaimReport, WatchdogCheck, LinksUnknown, BadVerdict,
         WatchdogExit

\* The inductive invariant holds throughout.
THEOREM IInvSpec == Spec => []IInv
<1>1. IInv /\ [Next]_vars => IInv'
  <2> SUFFICES ASSUME IInv, [Next]_vars
               PROVE  IInv'
    OBVIOUS
  <2>1. TypeOK'
    BY TypeStep DEF IInv
  <2>2. QED
    BY <2>1, AckStep, OrphanStep, WatchedStep, CurrentStep DEF IInv
<1>2. QED
  BY InitIInv, <1>1, PTL DEF Spec

\* Type correctness, for any sessions, consoles and number of commands.
THEOREM TypeCorrect == Spec => []TypeOK
BY IInvSpec, PTL DEF IInv

\* The disclosure gate: no far pipeline without an acknowledgement on record.
THEOREM DisclosureGate == Spec => []FarOnlyAfterAck
BY IInvSpec, PTL DEF IInv

\* The re-validation after start_far() is enough: of a call that is over nothing is
\* captured, by whichever pipeline, unless a thread is on its way to stop it or a
\* second acknowledgement has replaced the pipeline.
THEOREM NoOrphan == Spec => []NoOrphanCapture
<1>1. IInv => NoOrphanCapture
  <2> SUFFICES ASSUME IInv, NEW s \in Sessions \ {active}, Heard(s), ~StartedTwice(s)
               PROVE  cur[s] # 0
    BY DEF IInv, HeldIsSettled, NoOrphanCapture
  <2>1. PICK k \in Pipes : pipe[s][k] \in Up
    BY DEF Heard
  <2>2. QED
    BY <2>1 DEF IInv, UpIsCurrent, Pipes
<1>2. QED
  BY <1>1, IInvSpec, PTL

\* Until a loss is reported, the live far channel has a watchdog.
THEOREM Watched == Spec => []FarIsWatched
BY IInvSpec, PTL DEF IInv

------------------------------------------------------------------------------
(* The threads of the Call Card implement CaptureGate.                     *)

\* What is started is heard, and may be the second one of its session.
LEMMA GateStart ==
    ASSUME TypeOK, NEW s \in Sessions, NEW k \in Pipes, FarStart(s, k)
    PROVE  /\ {t \in Sessions : Heard(t)'} = {t \in Sessions : Heard(t)} \cup {s}
           /\ {t \in Sessions : StartedTwice(t)'} \in
                 { {t \in Sessions : StartedTwice(t)},
                   {t \in Sessions : StartedTwice(t)} \cup {s} }
<1>1. \A t \in Sessions \ {s} : pipe'[t] = pipe[t]
  BY DEF TypeOK, FarStart
<1>2. pipe'[s][k] \in Up /\ \A j \in Pipes \ {k} : pipe'[s][j] = pipe[s][j]
  BY DEF TypeOK, FarStart
<1>3. Heard(s)' /\ (StartedTwice(s) => StartedTwice(s)')
  BY <1>2 DEF Heard, StartedTwice, Up
<1>4. \A t \in Sessions \ {s} : (Heard(t)' <=> Heard(t)) /\ (StartedTwice(t)' <=> StartedTwice(t))
  BY <1>1 DEF Heard, StartedTwice
<1>5. {t \in Sessions : Heard(t)'} = {t \in Sessions : Heard(t)} \cup {s}
  BY <1>3, <1>4
<1>6. CASE StartedTwice(s)'
  BY <1>4, <1>5, <1>6
<1>7. CASE ~StartedTwice(s)'
  BY <1>3, <1>4, <1>5, <1>7
<1>8. QED
  BY <1>6, <1>7

\* A pipeline that ends in session s lets go of s at most.
LEMMA GateEnd ==
    ASSUME NEW s \in Sessions,
           \A t \in Sessions, k \in Pipes :
               /\ pipe'[t][k] = "unused" <=> pipe[t][k] = "unused"
               /\ pipe'[t][k] \in Up => pipe[t][k] \in Up
               /\ t # s => (pipe[t][k] \in Up => pipe'[t][k] \in Up)
    PROVE  /\ {t \in Sessions : Heard(t)'} \in
                 { {t \in Sessions : Heard(t)}, {t \in Sessions : Heard(t)} \ {s} }
           /\ {t \in Sessions : StartedTwice(t)'} = {t \in Sessions : StartedTwice(t)}
<1>1. \A t \in Sessions : (StartedTwice(t)' <=> StartedTwice(t)) /\ (Heard(t)' => Heard(t))
  BY DEF Heard, StartedTwice
<1>2. \A t \in Sessions \ {s} : Heard(t) => Heard(t)'
  BY DEF Heard
<1>3. CASE Heard(s)'
  BY <1>1, <1>2, <1>3
<1>4. CASE ~Heard(s)'
  BY <1>1, <1>2, <1>4
<1>5. QED
  BY <1>3, <1>4

\* Every step of the threads is a step of the gate or leaves it as it is.
LEMMA GateStep ==
    ASSUME IInv, [Next]_vars
    PROVE  [Gate!Next]_(Gate!vars)
<1> DEFINE begun == {s \in Sessions : card[s].state # "none"}
           agreed == {s \in Sessions : card[s].ack}
           hearing == {s \in Sessions : Heard(s)}
           doubled == {s \in Sessions : StartedTwice(s)}
<1> USE DEF Gate!vars, Gate!Next, IInv
<1>a. ASSUME UNCHANGED pipe
      PROVE  UNCHANGED <<hearing, doubled>>
  BY <1>a DEF Heard, StartedTwice
<1>b. ASSUME NEW s \in Sessions, FarStop(s), UNCHANGED <<active, begun, agreed>>
      PROVE  Gate!LetGo(s) \/ UNCHANGED Gate!vars
  <2>1. hearing' \in {hearing, hearing \ {s}} /\ doubled' = doubled
    BY <1>b, FarStopType, GateEnd
  <2>2. QED
    BY <1>b, <2>1 DEF Gate!LetGo
<1>1. ASSUME NEW s \in Sessions, CallConnected(s)
      PROVE  Gate!Begin(s)
  BY <1>1, <1>a DEF CallConnected, Gate!Begin, TypeOK, Cards, farVars
<1>2. CASE StartOperator
  BY <1>2, <1>a DEF StartOperator, farVars
<1>3. ASSUME NEW id \in Sessions \cup {NoSession}, CallEnded(id)
      PROVE  Gate!End
  BY <1>3, <1>a DEF CallEnded, Gate!End, farVars
<1>4. ASSUME StopSession
      PROVE  UNCHANGED Gate!vars \/ \E s \in Sessions : Gate!LetGo(s)
  <2>1. dbus.sid \in Sessions
    BY <1>4 DEF DbusKnowsSession, StopSession
  <2>2. begun' = begun /\ agreed' = agreed
    BY <1>4, <2>1 DEF StopSession, TypeOK, Cards
  <2>3. QED
    BY <1>4, <1>b, <2>1, <2>2 DEF StopSession, SessionStop
<1>5. ASSUME NEW c \in Clients, NEW s \in Sessions, DisclosureAck(c, s)
      PROVE  Gate!Agree(s)
  <2>1. begun' = begun /\ agreed' = agreed \cup {s}
    BY <1>5 DEF DisclosureAck, TypeOK, Cards
  <2>2. QED
    BY <1>5, <1>a, <2>1 DEF DisclosureAck, Gate!Agree, farVars
<1>6. ASSUME NEW c \in Clients, NEW s \in Sessions, DisclosureSkip(c, s)
      PROVE  UNCHANGED Gate!vars
  <2>1. begun' = begun /\ agreed' = agreed
    BY <1>6 DEF DisclosureSkip, TypeOK, Cards
  <2>2. QED
    BY <1>6, <1>a, <2>1 DEF DisclosureSkip, farVars
<1>7. ASSUME NEW c \in Clients, LookupSession(c) \/ SpawnWatchdog(c) \/ Recheck(c)
      PROVE  UNCHANGED Gate!vars
  BY <1>7, <1>a DEF LookupSession, SpawnWatchdog, Recheck, farVars
<1>8. ASSUME NEW c \in Clients, StartFar(c)
      PROVE  \E s \in Sessions : Gate!Hear(s)
  <2> DEFINE s == handler[c].sid
  <2>1. s \in Sessions /\ handler[c].num \in Pipes /\ card[s].ack
    BY <1>8 DEF StartFar, HandlersAcked
  <2>2. hearing' = hearing \cup {s} /\ doubled' \in {doubled, doubled \cup {s}}
    BY <1>8, <2>1, GateStart DEF StartFar
  <2>3. QED
    BY <1>8, <2>1, <2>2 DEF StartFar, Gate!Hear
<1>9. ASSUME NEW c \in Clients, StopOrphan(c)
      PROVE  UNCHANGED Gate!vars \/ \E s \in Sessions : Gate!LetGo(s)
  <2>1. handler[c].sid \in Sessions
    BY <1>9 DEF StopOrphan, HandlersAcked
  <2>2. QED
    BY <1>9, <1>b, <2>1 DEF StopOrphan, SessionStop
<1>10. ASSUME NEW s \in Sessions, FinishReport(s)
       PROVE  UNCHANGED Gate!vars \/ Gate!LetGo(s)
  BY <1>10, <1>b DEF FinishReport
<1>11. ASSUME NEW s \in Sessions,
              ClaimReport(s) \/ \E k \in Pipes : BadVerdict(s, k) \/ WatchdogExit(s, k)
       PROVE  UNCHANGED Gate!vars
  BY <1>11, <1>a DEF ClaimReport, BadVerdict, WatchdogExit, farVars
<1>12. ASSUME NEW s \in Sessions, NEW k \in Pipes,
              Reroute(s, k) \/ PipelineDies(s, k) \/ ReaderExit(s, k)
       PROVE  UNCHANGED Gate!vars \/ Gate!LetGo(s)
  <2>1. \A t \in Sessions, j \in Pipes :
           /\ pipe'[t][j] = "unused" <=> pipe[t][j] = "unused"
           /\ pipe'[t][j] \in Up => pipe[t][j] \in Up
           /\ t # s => (pipe[t][j] \in Up => pipe'[t][j] \in Up)
    BY <1>12 DEF Reroute, PipelineDies, ReaderExit, TypeOK, Up
  <2>2. hearing' \in {hearing, hearing \ {s}} /\ doubled' = doubled
    BY <2>1, GateEnd
  <2>3. UNCHANGED <<card, active>>
    BY <1>12 DEF Reroute, PipelineDies, ReaderExit
  <2>4. QED
    BY <2>2, <2>3 DEF Gate!LetGo
<1>13. CASE UNCHANGED vars
  BY <1>13, <1>a DEF vars, farVars
<1>14. QED
  BY <1>1, <1>2, <1>3, <1>4, <1>5, <1>6, <1>7, <1>8, <1>9, <1>10, <1>11, <1>12, <1>13
     DEF Next, DbusStep, HandlerStep, Command, WatcherStep, World, WatchdogCheck, LinksUnknown

\* The threads of the Call Card implement the gate: for any sessions, consoles
\* and commands, every behaviour of Spec is one of CaptureGate's safety half.
THEOREM GateImplemented == Spec => Gate!Safety
<1>1. Init => Gate!Init
  BY DEF Init, Gate!Init, FreshCard, Heard, StartedTwice, Up
<1>2. QED
  BY <1>1, IInvSpec, GateStep, PTL DEF Spec, Gate!Safety
==============================================================================
