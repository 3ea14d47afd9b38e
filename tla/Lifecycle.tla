------------------------------ MODULE Lifecycle ------------------------------
(***************************************************************************)
(* The life of the daemon's processes: `python -m iris.daemon', started by *)
(* `iris daemon start' or as the systemd unit iris-brain (by `iris up'),   *)
(* stopped by `iris daemon stop', and what they share: the lock file,      *)
(* which is also the pid file, and the socket file.                        *)
(*                                                                         *)
(* An flock belongs to the file that was opened, not to its path: a daemon *)
(* that ends unlinks the path while it still holds the lock, and who       *)
(* opened the file before may lock it afterwards.  The model gives every   *)
(* lock file its own name.                                                 *)
(*                                                                         *)
(* The services that the heartbeat and `iris up' look at are external:     *)
(* whatever systemctl, a health endpoint or D-Bus answers, they answer at  *)
(* each look.  The waits of five seconds end at any moment.                *)
(***************************************************************************)
EXTENDS Naturals, FiniteSets

CONSTANTS
    MaxProcs,       \* bound: processes that are alive or still named somewhere
    MaxCommands,    \* bound: commands given
    MaxFaults       \* bound: daemons that crash or cannot be built

VARIABLES
    at,             \* where each process is; "other": a process that is no daemon
    file,           \* the lock file it has open, or 0
    told,           \* processes whose stop_event is set
    level,          \* BaselineHeartbeat._latest.level of each, or "none"
    lockPath,       \* the lock file at daemon_pid_path(), or 0
    text,           \* the pid written in it, or 0
    socket,         \* whose socket is at daemon_socket_path(), or 0; it may be dead
    unit, main,     \* the unit iris-brain and its main process
    cmd,            \* the commands given
    faults,
    raced,          \* history: a lock file was locked that was no longer at its path
    unclean,        \* history: a daemon ended without removing its files
    stray           \* history: a process that is no daemon was sent SIGTERM

process == <<at, file, told, level>>
paths == <<lockPath, text, socket>>
systemd == <<unit, main>>
history == <<raced, unclean, stray>>
vars == <<process, paths, systemd, cmd, faults, history>>

None == 0
Procs == 1 .. MaxProcs
Commands == 1 .. MaxCommands
Locked == {"locked", "starting", "binding", "serving", "ready", "closing", "removed"}
Up == {"serving", "ready"}                      \* serve_forever runs
Levels == {"green", "yellow", "red"}
Kinds == {"start", "stop", "status", "up", "install"}
Results == {"started", "running", "lost", "failed", "stopped", "down", "stale", "proxy",
            "direct", "installed"}
Idle == [is |-> "none", at |-> "new", pid |-> None]

TypeOK ==
    /\ at \in [Procs -> {"none", "other", "spawned", "opened"} \cup Locked]
    /\ file \in [Procs -> 0 .. MaxProcs] /\ told \subseteq Procs
    /\ level \in [Procs -> {"none"} \cup Levels]
    /\ {lockPath, text, socket, main} \subseteq 0 .. MaxProcs
    /\ unit \in {"absent", "off", "on", "waiting"}
    /\ cmd \in [Commands -> [is : {"none"} \cup Kinds,
                             at : {"new", "wait", "kill", "brain", "probe"} \cup Results,
                             pid : 0 .. MaxProcs]]
    /\ faults \in 0 .. MaxFaults /\ {raced, unclean, stray} \subseteq BOOLEAN

\* No daemon yet, or one that was started earlier: as the unit, or by hand, which
\* leaves the unit failing again and again if that was started too.
Init ==
    /\ \E runs \in SUBSET {1} :
          /\ at = [p \in Procs |-> IF p \in runs THEN "ready" ELSE "none"]
          /\ file = [p \in Procs |-> IF p \in runs THEN p ELSE None]
          /\ level \in [Procs -> {"none", "green"}]
          /\ \A p \in Procs : level[p] = "green" <=> p \in runs
          /\ lockPath = file[1] /\ text = file[1] /\ socket = file[1]
          /\ main \in {None, file[1]}
          /\ unit \in IF main # None THEN {"on"}
                      ELSE IF runs = {} THEN {"absent", "off"} ELSE {"absent", "off", "waiting"}
    /\ told = {}
    /\ cmd = [c \in Commands |-> Idle]
    /\ faults = 0
    /\ raced = FALSE /\ unclean = FALSE /\ stray = FALSE

----------------------------------------------------------------------------
(* Processes.                                                                *)

Move(p, to) == at' = [at EXCEPT ![p] = to]

\* Nothing names the number any more.
Free(p) ==
    /\ at[p] = "none" /\ p \notin {lockPath, text, socket, main}
    /\ \A q \in Procs : file[q] # p
    /\ \A c \in Commands : cmd[c].pid # p

NextFree == CHOOSE p \in Procs : Free(p) /\ \A q \in Procs : Free(q) => p <= q

\* The unit's RestartSec begins when its main process has failed.
Ends(p, failed) ==
    /\ Move(p, "none")
    /\ file' = [file EXCEPT ![p] = None]
    /\ told' = told \ {p}
    /\ level' = [level EXCEPT ![p] = "none"]
    /\ main' = IF main = p THEN None ELSE main
    /\ unit' = IF main # p THEN unit ELSE IF failed THEN "waiting" ELSE "off"

Holds(p, f) == at[p] \in Locked /\ file[p] = f

----------------------------------------------------------------------------
(* main() of the daemon.                                                     *)

\* _acquire_exclusive_lock: open(path, "a+") ...
Open(p) ==
    /\ at[p] = "spawned"
    /\ Move(p, "opened")
    /\ lockPath' = IF lockPath = None THEN p ELSE lockPath
    /\ file' = [file EXCEPT ![p] = lockPath']
    /\ UNCHANGED <<told, level, text, socket, systemd, cmd, faults, history>>

\* mutant: the lock is not asked for
NeverTaken(p) == FALSE

\* mutant: a pid in the file is taken for a daemon
NamedAlready(p) == text # None

Taken(p) == \E q \in Procs : Holds(q, file[p])

\* ... flock and truncate, or exit with 1 ...
Lock(p) ==
    /\ at[p] = "opened"
    /\ IF Taken(p)
         THEN Ends(p, TRUE) /\ UNCHANGED <<text, raced>>
         ELSE /\ Move(p, "locked")
              /\ text' = IF file[p] = lockPath THEN None ELSE text
              /\ raced' = (raced \/ file[p] # lockPath)
              /\ UNCHANGED <<file, told, level, systemd>>
    /\ UNCHANGED <<lockPath, socket, cmd, faults, unclean, stray>>

\* ... and write the pid.  Then the components are built.
WritePid(p) ==
    /\ at[p] = "locked"
    /\ Move(p, "starting")
    /\ text' = IF file[p] = lockPath THEN p ELSE text
    /\ UNCHANGED <<file, told, level, lockPath, socket, systemd, cmd, faults, history>>

\* The signal handlers, and DaemonAPI.start: what is at the path is unlinked ...
UnlinkSocket(p) ==
    /\ at[p] = "starting"
    /\ Move(p, "binding")
    /\ socket' = None
    /\ UNCHANGED <<file, told, level, lockPath, text, systemd, cmd, faults, history>>

\* ... and bound, unless another daemon was quicker: then main's finally clause
\* removes the other one's files.
Bind(p) ==
    /\ at[p] = "binding"
    /\ IF socket = None
         THEN /\ Move(p, "serving") /\ socket' = p
              /\ UNCHANGED <<file, told, level, lockPath, text, systemd>>
         ELSE /\ Ends(p, TRUE)
              /\ socket' = None /\ lockPath' = None /\ text' = None
    /\ UNCHANGED <<cmd, faults, history>>

\* Who is told to stop leaves the wait; api.stop, in main's finally clause.
CloseSocket(p) ==
    /\ at[p] = "ready" /\ p \in told
    /\ Move(p, "closing")
    /\ socket' = None
    /\ UNCHANGED <<file, told, level, lockPath, text, systemd, cmd, faults, history>>

\* mutant: the pid file is left to whoever starts next
KeepPid(p) ==
    /\ at[p] = "closing"
    /\ Move(p, "removed")
    /\ UNCHANGED <<file, told, level, paths, systemd, cmd, faults, history>>

RemovePid(p) ==
    /\ at[p] = "closing"
    /\ Move(p, "removed")
    /\ lockPath' = None /\ text' = None
    /\ UNCHANGED <<file, told, level, socket, systemd, cmd, faults, history>>

\* The kernel gives the lock back.
Exit(p) ==
    /\ at[p] = "removed"
    /\ Ends(p, FALSE)
    /\ UNCHANGED <<paths, cmd, faults, history>>

Crash(p) ==
    /\ faults < MaxFaults /\ faults' = faults + 1
    /\ at[p] \notin {"none", "other"}
    /\ Ends(p, TRUE)
    /\ unclean' = TRUE
    /\ UNCHANGED <<paths, cmd, raced, stray>>

\* The number of a daemon that has died goes to some other process, which ends.
Recycle(p) ==
    /\ at[p] = "none" /\ text = p /\ Move(p, "other")
    /\ UNCHANGED <<file, told, level, paths, systemd, cmd, faults, history>>

OtherEnds(p) ==
    /\ at[p] = "other" /\ Move(p, "none")
    /\ UNCHANGED <<file, told, level, paths, systemd, cmd, faults, history>>

----------------------------------------------------------------------------
(* The heartbeat: BaselineHeartbeat._run_once, and the checks of the doctor. *)

\* check_services: a healthy port wins over what systemctl says.
ServiceStatus(state, healthy) ==
    IF healthy THEN "ok" ELSE IF state = "active" THEN "degraded" ELSE state

\* What systemctl and the health endpoint of a required service may answer.
Services == {ServiceStatus(state, healthy) :
                state \in {"active", "absent", "down", "unknown"}, healthy \in BOOLEAN}

\* check_baseline_capabilities: without the unit of tincand only the echo canceller
\* is required; an answer that D-Bus refuses three times is unknown.
Capabilities(active, answer, aec) == IF active THEN {answer, aec} ELSE {aec}

Baseline ==
    {Capabilities(active, answer, aec) :
        active \in BOOLEAN, answer \in {"ok", "down", "unknown"}, aec \in {"ok", "down", "unknown"}}

\* mutant: no look at the path
SocketOnceBound == "ok"

\* is_healthy: some socket is at the path.
SocketCheck == IF socket # None THEN "ok" ELSE "down"

\* _aggregate, of the required checks
Aggregate(checks) ==
    IF checks \cap {"down", "absent", "unknown"} # {} THEN "red"
    ELSE IF "degraded" \in checks THEN "yellow" ELSE "green"

\* The first beat is part of start-up, before the wait for stop_event.
Beat(p) ==
    /\ at[p] \in Up
    /\ \E seen \in {l \in Levels : \E whisper \in Services, capabilities \in Baseline :
                        l = Aggregate({whisper, SocketCheck} \cup capabilities)} :
          level' = [level EXCEPT ![p] = seen]
    /\ Move(p, "ready")
    /\ UNCHANGED <<file, told, paths, systemd, cmd, faults, history>>

----------------------------------------------------------------------------
(* The unit iris-brain: Restart=on-failure.                                  *)

Restart ==
    /\ unit = "waiting"
    /\ \E p \in Procs : Free(p)
    /\ unit' = "on" /\ main' = NextFree
    /\ Move(NextFree, "spawned")
    /\ UNCHANGED <<file, told, level, paths, cmd, faults, history>>

----------------------------------------------------------------------------
(* The commands.                                                             *)

\* _probe_daemon: a round trip over the socket tells the pid of who answers.
Probed == IF socket # None /\ at[socket] \in Up THEN socket ELSE None

\* _daemon_running: the pid file names a process that is alive.
Running == IF text # None /\ at[text] # "none" THEN text ELSE None

\* A command given is one that nobody refers to later, except by its result.
Result(c, res) == cmd' = [cmd EXCEPT ![c].at = res, ![c].pid = None]
Goes(c, to, p) == cmd' = [cmd EXCEPT ![c].at = to, ![c].pid = p]
IsAt(c, is, where) == cmd[c].is = is /\ cmd[c].at = where

Give(c, is) ==
    /\ cmd[c] = Idle /\ \A d \in Commands : d < c => cmd[d] # Idle
    /\ cmd' = [cmd EXCEPT ![c].is = is]
    /\ UNCHANGED <<process, paths, systemd, faults, history>>

\* iris daemon start
StartProbes(c) ==
    /\ IsAt(c, "start", "new")
    /\ IF Probed # None
         THEN Result(c, "running") /\ UNCHANGED at
         ELSE /\ \E p \in Procs : Free(p)
              /\ Move(NextFree, "spawned") /\ Goes(c, "wait", NextFree)
    /\ UNCHANGED <<file, told, level, paths, systemd, faults, history>>

\* mutant: whoever answers is taken for the process that was started
SeenWhoever(c) == Result(c, "started")

Seen(c) == Result(c, IF Probed = cmd[c].pid THEN "started" ELSE "lost")

StartSees(c) ==
    /\ IsAt(c, "start", "wait")
    /\ Probed # None /\ Seen(c)
    /\ UNCHANGED <<process, paths, systemd, faults, history>>

\* iris daemon stop
StopReads(c) ==
    /\ IsAt(c, "stop", "new")
    /\ IF Running = None THEN Result(c, "down") ELSE Goes(c, "kill", Running)
    /\ UNCHANGED <<process, paths, systemd, faults, history>>

\* Before its handlers are installed SIGTERM ends a process, and systemd takes
\* that for a clean end.
Terminate(p) ==
    IF at[p] \in {"binding", "closing", "removed"} \cup Up
      THEN told' = told \cup {p} /\ UNCHANGED <<at, file, level, systemd, unclean, stray>>
      ELSE /\ Ends(p, FALSE)
           /\ unclean' = (unclean \/ at[p] \notin {"none", "other"})
           /\ stray' = (stray \/ at[p] = "other")

StopKills(c) ==
    /\ IsAt(c, "stop", "kill")
    /\ IF at[cmd[c].pid] = "none"
         THEN Result(c, "stopped") /\ UNCHANGED <<process, systemd, unclean, stray>>
         ELSE Goes(c, "wait", cmd[c].pid) /\ Terminate(cmd[c].pid)
    /\ UNCHANGED <<paths, faults, raced>>

StopSees(c) ==
    /\ IsAt(c, "stop", "wait") /\ at[cmd[c].pid] = "none"
    /\ Result(c, "stopped")
    /\ UNCHANGED <<process, paths, systemd, faults, history>>

\* iris daemon status: the pid file, and then who answers.
StatusReads(c) ==
    /\ IsAt(c, "status", "new")
    /\ IF Running = None THEN Result(c, "down") ELSE Goes(c, "probe", Running)
    /\ UNCHANGED <<process, paths, systemd, faults, history>>

StatusAsks(c) ==
    /\ IsAt(c, "status", "probe")
    /\ Result(c, IF Probed = None THEN "failed"
                 ELSE IF Probed = cmd[c].pid THEN "running" ELSE "stale")
    /\ UNCHANGED <<process, paths, systemd, faults, history>>

\* Five seconds are over.
GivesUp(c) ==
    /\ cmd[c].at = "wait"
    /\ Result(c, "failed")
    /\ UNCHANGED <<process, paths, systemd, faults, history>>

\* iris up: the required services are started or it ends ...
UpServices(c) ==
    /\ IsAt(c, "up", "new")
    /\ Goes(c, "brain", None) \/ Result(c, "failed")
    /\ UNCHANGED <<process, paths, systemd, faults, history>>

\* systemctl start iris-brain, also while it waits for its restart
StartUnit ==
    IF unit = "on" THEN UNCHANGED <<at, systemd>>
    ELSE /\ \E p \in Procs : Free(p)
         /\ unit' = "on" /\ main' = NextFree /\ Move(NextFree, "spawned")

\* ... then iris-brain, if it is installed ...
UpBrain(c) ==
    /\ IsAt(c, "up", "brain")
    /\ Goes(c, "probe", None)
    /\ IF unit = "absent" THEN UNCHANGED <<at, systemd>> ELSE StartUnit
    /\ UNCHANGED <<file, told, level, paths, faults, history>>

\* ... then tincand, whose absence is only told, and the console begins.
UpConsole(c) ==
    /\ IsAt(c, "up", "probe")
    /\ Result(c, IF Probed # None THEN "proxy" ELSE "direct")
    /\ UNCHANGED <<process, paths, systemd, faults, history>>

\* iris install-services: the preflight or daemon-reload fails, or the unit is as it
\* was and nothing is started, or its file is written ...
InstallWrites(c) ==
    /\ IsAt(c, "install", "new")
    /\ \/ Result(c, "failed") /\ unit' \in {unit, IF unit = "absent" THEN "off" ELSE unit}
       \/ unit # "absent" /\ Result(c, "installed") /\ UNCHANGED unit
       \/ Goes(c, "brain", None) /\ unit' = IF unit = "absent" THEN "off" ELSE unit
    /\ UNCHANGED <<process, paths, main, faults, history>>

\* ... and it is enabled and started.
InstallStarts(c) ==
    /\ IsAt(c, "install", "brain")
    /\ Result(c, "installed") /\ StartUnit
    /\ UNCHANGED <<file, told, level, paths, faults, history>>

----------------------------------------------------------------------------
Steps(p) ==
    Open(p) \/ Lock(p) \/ WritePid(p) \/ UnlinkSocket(p) \/ Bind(p) \/ CloseSocket(p)
    \/ RemovePid(p) \/ Exit(p)

Carries(c) ==
    StartProbes(c) \/ StartSees(c) \/ StopReads(c) \/ StopKills(c) \/ StopSees(c)
    \/ StatusReads(c) \/ StatusAsks(c) \/ UpServices(c) \/ UpBrain(c) \/ UpConsole(c)
    \/ InstallWrites(c) \/ InstallStarts(c)

Next ==
    \/ \E p \in Procs : Steps(p) \/ Beat(p) \/ Crash(p) \/ Recycle(p) \/ OtherEnds(p)
    \/ Restart
    \/ \E c \in Commands :
          Carries(c) \/ GivesUp(c)
          \/ \E is \in Kinds : Give(c, is)

\* Processes run, the heartbeat beats, and systemd restarts what has failed.
Fairness ==
    /\ \A p \in Procs : WF_vars(Steps(p)) /\ WF_vars(Beat(p))
    /\ WF_vars(Restart)

Spec == Init /\ [][Next]_vars /\ Fairness

----------------------------------------------------------------------------
(* Properties.                                                               *)

Stays(p) == at[p] = "ready" /\ p \notin told

\* Two daemons never run at once (_acquire_exclusive_lock), and the one that runs is
\* the one the pid file names and the socket leads to, whatever stale files there
\* were, unless a lock file was locked that a daemon had unlinked on its way out.
TheDaemonIsTheOneNamed ==
    raced \/ \A p \in Procs : Stays(p) =>
        /\ socket = p /\ text = p
        /\ \A q \in Procs : at[q] \in {"starting", "binding"} \cup Up => q = p

\* Who says that it has started the daemon has started the one that answers
\* (_daemon_start, "our process lost the startup race").
StartTellsTheTruth ==
    [][\A c \in Commands : cmd'[c].at = "started" /\ cmd[c].at = "wait" =>
          socket = cmd[c].pid /\ at[cmd[c].pid] \in Up]_vars

\* SIGTERM reaches a process that is no daemon only after a daemon ended without
\* removing its pid file (_daemon_stop).
OnlyDaemonsAreStopped == stray => unclean \/ raced

\* No daemon that stays reports for ever that all is well, or degraded, when its socket
\* has gone (is_healthy, _run_once): it reports red or there is a socket again.
LossIsReported ==
    []<>(\A p \in Procs : Stays(p) /\ socket = None => level[p] = "red")

\* The unit, once started, leads to a daemon that answers, after crashes, stale
\* files and other daemons that hold the lock, or it is stopped.
UnitServes == unit \in {"on", "waiting"} ~> (Probed # None \/ unit = "off" \/ raced)

\* There is one daemon, its files name it, and signals meant for it reach it.
OneDaemonAndItsNames == TheDaemonIsTheOneNamed /\ OnlyDaemonsAreStopped

\* A daemon that cannot be reached is reported, and the unit brings one back.
LossIsNoticedAndMended == LossIsReported /\ UnitServes
=============================================================================
