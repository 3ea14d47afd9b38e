----------------------------- MODULE DaemonProxy -----------------------------
(***************************************************************************)
(* One connection between a console and the daemon: DaemonProxy.send with  *)
(* its queue of pending slots, the only reader thread, close(), and on the *)
(* other side the daemon's _RequestHandler, which executes one command     *)
(* after the other, acknowledges it and may send an event about it.        *)
(*                                                                         *)
(* A send is one call of DaemonProxy.send by a thread of its own; its      *)
(* command has its name.  The socket keeps order and loses nothing until   *)
(* an end is closed.                                                       *)
(***************************************************************************)
EXTENDS Naturals, Sequences, SequencesExt

CONSTANTS
    Sends,      \* calls of send()
    Dnd,        \* those whose command is dnd: the daemon sends an event after the ack
    Nobody      \* no send

VARIABLES
    pc,         \* where each send stands, or how it returned
    sendLock,   \* the holder of _send_lock
    pending,    \* _pending: the slots, named for their send
    slot,       \* the queue of each send: empty, an ack (of a command), or None
    reader,     \* the reader thread: the ack it is about to put, and in which slot
    client,     \* how far close() has come
    told,       \* on_disconnect was called
    toServer,   \* the commands in the socket
    toClient,   \* the acks and events in the socket
    handling,   \* the command in the daemon's handler thread, and its progress
    server,     \* the daemon's end of the socket
    late,       \* history: some send gave up waiting
    seen        \* history: the commands whose event the console has handled

clientVars == <<pc, sendLock, pending, slot, reader, client, told>>
serverVars == <<handling, server>>
socket == <<toServer, toClient>>
history == <<late, seen>>
vars == <<clientVars, serverVars, socket, history>>

Empty == [is |-> "empty", of |-> Nobody]
None == [is |-> "None", of |-> Nobody]
Ack(x) == [is |-> "ack", of |-> x]
Event(x) == [is |-> "event", of |-> x]
Reading == [at |-> "reading", slot |-> Nobody, ack |-> Nobody]
Free == [cmd |-> Nobody, at |-> "free"]

TypeOK ==
    /\ pc \in [Sends -> {"idle", "write", "wait", "forget",
                         "acked", "closed", "timed out", "broken", "raised"}]
    /\ sendLock \in Sends \cup {Nobody}
    /\ pending \in Seq(Sends)
    /\ slot \in [Sends -> {Empty, None} \cup {Ack(x) : x \in Sends}]
    /\ reader \in [at : {"put"}, slot : Sends, ack : Sends]
                   \cup [at : {"reading", "ended"}, slot : {Nobody}, ack : {Nobody}]
    /\ client \in {"open", "closing", "shut", "closed"}
    /\ told \in BOOLEAN
    /\ toServer \in Seq(Sends)
    /\ toClient \in Seq({Ack(x) : x \in Sends} \cup {Event(x) : x \in Dnd})
    /\ handling \in [cmd : Sends \cup {Nobody}, at : {"free", "ack", "event"}]
    /\ server \in {"up", "half", "gone"}
    /\ late \in BOOLEAN
    /\ seen \subseteq Sends

Init ==
    /\ pc = [x \in Sends |-> "idle"]
    /\ sendLock = Nobody
    /\ pending = <<>>
    /\ slot = [x \in Sends |-> Empty]
    /\ reader = Reading
    /\ client = "open"
    /\ told = FALSE
    /\ toServer = <<>> /\ toClient = <<>>
    /\ handling = Free
    /\ server = "up"
    /\ late = FALSE
    /\ seen = {}

----------------------------------------------------------------------------
(* send()                                                                    *)

To(x, place) == pc' = [pc EXCEPT ![x] = place]

\* mutant: the slot is queued before _send_lock is taken
SendBeginUnlocked(x) ==
    /\ pc[x] = "idle"
    /\ client # "closed"
    /\ pending' = Append(pending, x)
    /\ To(x, "write")
    /\ UNCHANGED <<sendLock, slot, reader, client, told, serverVars, socket, history>>

\* The check of _sock, _send_lock, and the slot at the end of the queue.
SendBegin(x) ==
    /\ pc[x] = "idle"
    /\ client # "closed"
    /\ sendLock = Nobody
    /\ sendLock' = x
    /\ pending' = Append(pending, x)
    /\ To(x, "write")
    /\ UNCHANGED <<slot, reader, client, told, serverVars, socket, history>>

\* write and flush, still under _send_lock.
SendWrite(x) ==
    /\ pc[x] = "write"
    /\ server # "gone" /\ client \in {"open", "closing"}
    /\ toServer' = Append(toServer, x)
    /\ sendLock' = Nobody
    /\ To(x, "wait")
    /\ UNCHANGED <<pending, slot, reader, client, told, toClient, serverVars, history>>

\* OSError: an end of the socket is closed; the slot is taken back.
SendBroken(x) ==
    /\ pc[x] = "write"
    /\ server = "gone" \/ client \in {"shut", "closed"}
    /\ sendLock' = Nobody
    /\ pending' = RemoveFirst(pending, x)
    /\ To(x, "broken")
    /\ UNCHANGED <<slot, reader, client, told, serverVars, socket, history>>

\* close() has closed _wfile or set it to None in the meantime: ValueError or
\* AttributeError, not caught, and the slot stays.
SendRaises(x) ==
    /\ pc[x] = "write"
    /\ client = "closed"
    /\ sendLock' = Nobody
    /\ To(x, "raised")
    /\ UNCHANGED <<pending, slot, reader, client, told, serverVars, socket, history>>

\* slot.get returns.
SendReturns(x) ==
    /\ pc[x] = "wait"
    /\ slot[x] # Empty
    /\ To(x, IF slot[x] = None THEN "closed" ELSE "acked")
    /\ UNCHANGED <<sendLock, pending, slot, reader, client, told, serverVars, socket, history>>

\* queue.Empty after ACK_TIMEOUT_S, and then, under _pending_lock, the slot is
\* taken back, unless the reader was quicker.
SendTimeout(x) ==
    /\ pc[x] = "wait"
    /\ slot[x] = Empty
    /\ To(x, "forget")
    /\ UNCHANGED <<sendLock, pending, slot, reader, client, told, serverVars, socket, history>>

SendForget(x) ==
    /\ pc[x] = "forget"
    /\ pending' = RemoveFirst(pending, x)
    /\ To(x, "timed out")
    /\ late' = TRUE
    /\ UNCHANGED <<sendLock, slot, reader, client, told, serverVars, socket, seen>>

----------------------------------------------------------------------------
(* _read_loop                                                                *)

\* mutant: the slot is looked at, not taken
ReadAckPeeking ==
    /\ reader.at = "reading"
    /\ toClient # <<>>
    /\ Head(toClient).is = "ack"
    /\ toClient' = Tail(toClient)
    /\ reader' = IF pending = <<>> THEN reader
                 ELSE [at |-> "put", slot |-> Head(pending), ack |-> Head(toClient).of]
    /\ UNCHANGED <<pc, sendLock, pending, slot, client, told, toServer, serverVars, history>>

\* mutant: the slot is used whether or not there is one
ReadAckUnchecked ==
    /\ reader.at = "reading"
    /\ toClient # <<>>
    /\ Head(toClient).is = "ack"
    /\ toClient' = Tail(toClient)
    /\ reader' = [at |-> "put", ack |-> Head(toClient).of,
                  slot |-> IF pending = <<>> THEN Nobody ELSE Head(pending)]
    /\ pending' = IF pending = <<>> THEN pending ELSE Tail(pending)
    /\ UNCHANGED <<pc, sendLock, slot, client, told, toServer, serverVars, history>>

\* An ack goes to the oldest slot; without one it is dropped with a warning.
ReadAck ==
    /\ reader.at = "reading"
    /\ toClient # <<>>
    /\ Head(toClient).is = "ack"
    /\ toClient' = Tail(toClient)
    /\ IF pending = <<>> THEN UNCHANGED <<reader, pending>>
       ELSE /\ reader' = [at |-> "put", slot |-> Head(pending), ack |-> Head(toClient).of]
            /\ pending' = Tail(pending)
    /\ UNCHANGED <<pc, sendLock, slot, client, told, toServer, serverVars, history>>

\* slot.put: it would wait for ever on a slot that is full.
ReadPut ==
    /\ reader.at = "put"
    /\ slot[reader.slot] = Empty
    /\ slot' = [slot EXCEPT ![reader.slot] = Ack(reader.ack)]
    /\ reader' = Reading
    /\ UNCHANGED <<pc, sendLock, pending, client, told, socket, serverVars, history>>

ReadEvent ==
    /\ reader.at = "reading"
    /\ toClient # <<>>
    /\ Head(toClient).is = "event"
    /\ toClient' = Tail(toClient)
    /\ seen' = seen \cup {Head(toClient).of}
    /\ UNCHANGED <<clientVars, toServer, serverVars, late>>

\* mutant: _fail_pending wakes the oldest send only
FailOldest ==
    /\ slot' = [x \in Sends |->
                  IF pending # <<>> /\ x = Head(pending) /\ slot[x] = Empty
                    THEN None ELSE slot[x]]
    /\ pending' = <<>>

\* _fail_pending: put_nowait None to every slot, and forget them.
FailPending ==
    /\ slot' = [x \in Sends |->
                  IF x \in ToSet(pending) /\ slot[x] = Empty THEN None ELSE slot[x]]
    /\ pending' = <<>>

EndOfFile == (toClient = <<>> /\ server # "up") \/ client \in {"shut", "closed"}

\* mutant: the finally clause without its call of on_disconnect
ReadEndSilently ==
    /\ reader.at = "reading"
    /\ EndOfFile
    /\ FailPending
    /\ reader' = [Reading EXCEPT !.at = "ended"]
    /\ UNCHANGED <<pc, sendLock, client, told, socket, serverVars, history>>

\* End of file, or an OSError on a socket that is being closed; on_disconnect
\* unless close() was called.
ReadEnd ==
    /\ reader.at = "reading"
    /\ EndOfFile
    /\ FailPending
    /\ reader' = [Reading EXCEPT !.at = "ended"]
    /\ told' = (client = "open")
    /\ UNCHANGED <<pc, sendLock, client, socket, serverVars, history>>

(* close()                                                                   *)

CloseFlag ==
    /\ client = "open"
    /\ client' = "closing"
    /\ FailPending
    /\ UNCHANGED <<pc, sendLock, reader, told, serverVars, socket, history>>

CloseSocket ==
    /\ \/ client = "closing" /\ client' = "shut"
       \/ client = "shut" /\ client' = "closed"
    /\ UNCHANGED <<pc, sendLock, pending, slot, reader, told, serverVars, socket, history>>

----------------------------------------------------------------------------
(* The daemon: _RequestHandler.handle and the command handlers.              *)

\* Read a command and carry it out, which may take any time.
Take ==
    /\ server = "up"
    /\ handling.at = "free"
    /\ toServer # <<>>
    /\ handling' = [cmd |-> Head(toServer), at |-> "ack"]
    /\ toServer' = Tail(toServer)
    /\ UNCHANGED <<clientVars, toClient, server, history>>

\* mutant: the posture is persisted and broadcast before the ack
WriteEventThenAck ==
    /\ server = "up"
    /\ handling.at = "ack"
    /\ toClient' = toClient \o (IF handling.cmd \in Dnd THEN <<Event(handling.cmd)>> ELSE <<>>)
                            \o <<Ack(handling.cmd)>>
    /\ handling' = Free
    /\ UNCHANGED <<clientVars, toServer, server, history>>

WriteAck ==
    /\ server = "up"
    /\ handling.at = "ack"
    /\ toClient' = Append(toClient, Ack(handling.cmd))
    /\ handling' = IF handling.cmd \in Dnd THEN [handling EXCEPT !.at = "event"] ELSE Free
    /\ UNCHANGED <<clientVars, toServer, server, history>>

\* _finish_dnd_change, whose event DaemonAPI.broadcast writes to this client too
\* (a newer change may supersede it, and then there is no event).
WriteEvent ==
    /\ server = "up"
    /\ handling.at = "event"
    /\ toClient' \in {toClient, Append(toClient, Event(handling.cmd))}
    /\ handling' = Free
    /\ UNCHANGED <<clientVars, toServer, server, history>>

\* The handler thread ends: the console closed, a command handler raised, or the
\* daemon stops.  finish() and shutdown_request: first the writing side, then all.
ServerEnds ==
    /\ \/ server = "up" /\ server' = "half"
       \/ server \in {"up", "half"} /\ server' = "gone"
    /\ handling' = Free
    /\ UNCHANGED <<clientVars, socket, history>>

----------------------------------------------------------------------------
SendStep(x) ==
    SendBegin(x) \/ SendWrite(x) \/ SendBroken(x) \/ SendRaises(x)
      \/ SendReturns(x) \/ SendTimeout(x) \/ SendForget(x)
ReaderStep == ReadAck \/ ReadPut \/ ReadEvent \/ ReadEnd
ServerStep == Take \/ WriteAck \/ WriteEvent

Next ==
    \/ \E x \in Sends : SendStep(x)
    \/ ReaderStep
    \/ CloseFlag
    \/ CloseSocket
    \/ ServerStep
    \/ ServerEnds

\* The reader is never idle while there is something to read.
Fairness == WF_vars(ReaderStep)

Spec == Init /\ [][Next]_vars /\ Fairness

----------------------------------------------------------------------------
(* Properties.                                                             *)

OwnAcks == \A x \in Sends : slot[x].is = "ack" => slot[x].of = x

\* The module's docstring: acks come in the order of the commands, so the oldest
\* slot is the right one.  Until close(), an ack reaches the send it answers.
AckIsOwn == client = "open" => OwnAcks

\* It holds as long as no send has given up: the append to _pending and the write
\* are one step to other senders (_send_lock), and the daemon keeps the order.
AckIsOwnUntilTimeout == ~late => AckIsOwn

\* The reader never blocks in slot.put: whoever fills a slot has taken it out of
\* _pending first, so nobody fills one twice (a blocked reader would freeze every
\* send, which is what this class was rewritten for).
ReaderNeverBlocks == reader.at = "put" => slot[reader.slot] = Empty

\* When the connection ends, every send that waits is woken at once, and does
\* not have to time out; close() and the reader may both be failing the slots.
WokenAtTheEnd ==
    [][ (reader.at # "ended" /\ reader'.at = "ended") =>
          \A x \in Sends : pc[x] = "wait" => slot'[x] # Empty ]_vars

\* A console sees the event about its own command after the ack (_handle_dnd
\* persists and broadcasts last), unless it has stopped waiting for the ack.
EventAfterAck ==
    \A x \in seen : slot[x] # Empty \/ late \/ client # "open"

\* The console learns that the daemon has gone, unless it is closing itself.
DisconnectIsTold == (server # "up") ~> (told \/ client # "open")

\* Acks reach the senders they are for, and the one thread that hands them out is
\* never stuck with one (the module's docstring).
AcksAreOwn == AckIsOwnUntilTimeout /\ ReaderNeverBlocks

\* The end of a connection is known at once to every send that waits, and in the end
\* to the console, whichever side ended it and however close() crossed the reader.
EndIsTold == WokenAtTheEnd /\ DisconnectIsTold
=============================================================================
