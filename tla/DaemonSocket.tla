----------------------------- MODULE DaemonSocket -----------------------------
(***************************************************************************)
(* What the daemon does with the commands about the posture (Posture), and *)
(* the connection that brings it those of one console and takes back the   *)
(* acks and the events (module DaemonProxy).  The two share no state.      *)
(***************************************************************************)
EXTENDS Posture

CONSTANTS Sends, Dnd, Nobody     \* of DaemonProxy

ASSUME SocketAssumption == Nobody \notin Sends /\ Dnd \subseteq Sends

VARIABLES pc, sendLock, pending, slot, reader, client, told, toServer, toClient, handling,
          server, late, seen

proxy == <<pc, sendLock, pending, slot, reader, client, told, toServer, toClient,
           handling, server, late, seen>>

D == INSTANCE DaemonProxy

\* Acks reach the senders they are for (DaemonProxy!AcksAreOwn).
AcksAreOwn == D!AcksAreOwn

\* A console sees the event about its command after the ack (DaemonProxy!EventAfterAck).
EventAfterAck == D!EventAfterAck

\* The end of a connection is told (DaemonProxy!EndIsTold).
EndIsTold == D!EndIsTold
===============================================================================
