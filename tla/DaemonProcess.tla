---------------------------- MODULE DaemonProcess ----------------------------
(***************************************************************************)
(* The daemon: what it does with phone calls while it runs (CallHandling,  *)
(* where it may stop and start at any point) and how its processes come to *)
(* run and to end (module Lifecycle).  The two share no state: a start and *)
(* a stop of CallHandling say nothing of locks, files and commands.        *)
(***************************************************************************)
EXTENDS CallHandling

CONSTANTS MaxProcs, MaxCommands, MaxFaults          \* of Lifecycle

ASSUME LifecycleBounds == MaxProcs \in Nat \ {0} /\ {MaxCommands, MaxFaults} \subseteq Nat

VARIABLES
    at, file, told, level, lockPath, text, socket, unit, main, cmd, faults, raced, unclean, stray

lifecycle ==
    <<at, file, told, level, lockPath, text, socket, unit, main, cmd, faults, raced, unclean,
      stray>>

L == INSTANCE Lifecycle

\* No two daemons serve at once, and the files name the one that does
\* (Lifecycle!OneDaemonAndItsNames).
OneDaemonAndItsNames == L!OneDaemonAndItsNames

\* A command that says that it has started the daemon has (Lifecycle!StartTellsTheTruth).
StartTellsTheTruth == L!StartTellsTheTruth

\* A socket that is gone is noticed, and made again (Lifecycle!LossIsNoticedAndMended).
LossIsNoticedAndMended == L!LossIsNoticedAndMended
==============================================================================
