# Verification of Iris

Iris (`src/iris`) is an operator's telephone assistant: a daemon (`iris-daemon`)
that answers the signals of the telephony service *tincand* over D-Bus, listens
to calls and writes "call cards", and a terminal console that talks to the
daemon over a Unix socket and to the operator by voice. This directory holds
TLA+ models of the parts where threads, processes, signals and restarts meet,
the TLC configurations that check them, and, for most of the modules, proofs
for every value of the constants: when the far party of a call may be recorded,
who is answered for as whom, what is written, executed, said and kept.

    tlc -workers 2 -config CallCard.cfg MCCallCard     # one run
    tlapm CallCard_proofs.tla                          # one module's proofs

`PROJECT.json` lists the runs, for every property a plausible bug that breaks
it, the source lines behind every definition, the hazards and the findings.

## 1. Inventory

### How the parts interact

    tincand --D-Bus signals--> CallControl.emit --> CallHandlingEngine --> AttentionLock
                                                        |  |                Roster (rules), Posture
                                                        |  +--> BrainHost (call context) --> Brain --> skills
                                                        +-----> CallCardHost --> CaptureSession --> transcribers
    console ==Unix socket==> DaemonAPI --> Posture, CallCardHost, BrainHost       |  far-channel watchdogs
       |  ^                     |                                                 v
       |  +---- events ---------+                            CallCardStore --> Enricher --> finalize --> AfterStore, NotesStore
       +--> Conductor --> recorder / STT / Brain or DaemonProxy / TTS / player

All of it is threads of two Python processes. The daemon has the D-Bus loop, a
thread per console connection, the posture watcher, and per call a reader per
audio pipeline, two watchdogs and, now and then, the enricher. The console has
its main loop, a reader of the socket and a worker per turn. They share objects
under small locks, SQLite databases that each statement commits to, and
sockets. The tests of the repository run these parts one call at a time; an
order of two threads that nobody wrote down is what the models are for.

### Components

| Component | State it keeps | Operations | What is hard | What makes it correct |
|---|---|---|---|---|
| Call card: capture (`daemon/call_card_host.py`, `capture/session.py`, `audio/streaming.py`) | the active session, its card, the operator's and the far pipelines, "loss reported" | `start_session`, `stop_session`, `disclosure_ack`, `disclosure_skip`, far start/stop, watchdogs | an acknowledgement in one thread and the end of the call in another; PipeWire rerouting a stream to the wrong microphone | the far party is captured only after the disclosure, never after the call, and only while watched |
| Call card: confirmation, enrichment, write-back (`capture/store.py`, `enricher.py`, `after_store.py`, `notes.py`) | the card's rows of two layers, confirmations, `written_back`, the call log, open items, commitments | extraction, enrichment, `confirm_*`, `finalize_writeback` | six commits in a row, any of which may raise or be the last before a restart; a retry; the enricher rewording what is confirmed | "written back" means that all of it is there, once, as confirmed |
| Layer 1 extraction (`capture/processor.py`, `transcript.py`, `asr_gate.py`) | the cue words of the last two turns, the session it stamps | `process` | one processor for two reader threads of every call; sums and dates in words | what is said has its rows, under its own call, with its own value |
| Posture (`daemon/posture.py`) | value, deadline and sequence number in memory; a row; what the consoles were told | `set`, `clear`, `dnd` command, watcher, load | a change in three steps of which two run without the lock | memory, row and consoles agree; a DND ends, neither early nor never |
| Call handling (`daemon/engine.py`, `policy.py`) | the attention lock, the pending contact, the roster cache | `on_incoming_call`, `on_call_connected`, `on_call_ended` | signals that do not name their call | every caller is treated as the rule says; the card is the caller's |
| Call control and wiring (`call_control.py`, `daemon/__main__.py`, `dial_skill.py`) | who `emit` is; the connected call; the dial in progress | signals in, calls out, the dial skill's wait | a callback that two parties replace | a dialled call that connects is known to have |
| Brain host (`daemon/brain_host.py`) | the Brain's call context, in memory and in a row; the turn lock | set/clear context, restore, `async_turn` | a restart inside a call; consoles that talk at once | the context is that of the live caller, and none after the call; one turn at a time, and each ends |
| Brain, lanes, gate, masking (`brain.py`, `lanes.py`, `authz.py`, `skills.py`, `masking.py`, ...) | the skills, the staged actions, the call context | propose, authorize, execute; stage, confirm, cancel; deadlines | a question and its confirmation are different turns; a lane that answers after its deadline | what is executed was asked and agreed to, once, and by the operator |
| Socket, client (`daemon/proxy.py`) | the slots of the sends in flight, closed/connected | `send`, reader, `close` | acks are matched by their order alone | a send gets its own ack or an error, nobody waits for ever |
| Socket, server (`daemon/api.py`) | the connections | one handler thread per connection, broadcast | an event may overtake an ack | an event follows the ack of the command that caused it |
| Proactive queue (`proactive_store.py`, `proactive_delivery.py`, `watcher.py`, `daemon/message_event_source.py`) | rows with their state, what is shown, the cooldown, the meetings nudged about | enqueue, tick, cycle, dismiss, expire | several writers, two commits a step, speech that starts later | nothing is told twice, dismissed unseen, or never noticed |
| Console voice loop (`console/conductor.py`, `audio/endpoint.py`) | state, `_cancel`, `_muted`, the recorder and the player | `start_recording`, `stop_and_process`, `respond_to`, `say`, `interrupt`, `mute` | worker threads that share them without a lock | idle when nothing runs; silence after an interrupt |
| Ride-along (`console/app.py`, `console/arm.py`) | in call, announced, the microphone, the far-party transcriber, trust | call events, announce, listen, arm, grant, quit | events drained after their call, workers that speak for seconds | nobody is heard untold; nothing outlives its call |
| Call cards on the console (`console/call_card.py`, `app.py`) | cards, their editors, the disclosure's state in memory and on disk | events, keys, answers to the daemon | answers that cross the end of the call, lost connections | what is recorded is what the operator answered |
| Other screens (`console/*.py`) | what is shown | keys | rendering | only the badge, and how the conductor's calls start, are modelled |
| Screening and message flows (`screen_call.py`, `take_message.py`, `message_store.py`) | where the dialogue is, what was heard | speak, listen, decide, put through, hang up | threads that do not learn that the caller is gone; every callback may raise | told before recorded; every word kept; ended as decided |
| Roster (`roster.py`, `roster_skill.py`, `console/contacts.py`) | contacts, their addresses, the schema version; what is staged; the editor | open and migrate, add, update, delete | two processes migrate and write one database, with ids held in closures and in the editor | a number has one contact, rules are those the engine knows, a write hits the contact that was named |
| Conversation context (`context.py`) | a window of turns, a gist | add, compress, look up | a thread for each turn that leaves the window | what was said is found |
| Memory of calls (`memory.py`, `far_end.py`) | sessions, embeddings, the window, the gist worker | start, bind, make private, append, end, archive | an archive that goes on while the next call begins | a call's memory is its own, and nothing of a private call is kept |
| Call lists (`list_store.py`, `list_skill.py`, `console/list_view.py`) | lists, items, lookup results | start, add, remove, check, look up; the view's keys | lookup threads that answer after the item has gone | one active list; "looking up" is true |
| Daemon lifecycle (`daemon/__main__.py`, `api.py`, `_cli.py`, `heartbeat.py`, `up.py`, `services/`, `doctor.py`) | lock file with the pid, socket, systemd unit, the heartbeat's level | start, stop, status, restart, beat | files that outlive or precede their process | one daemon, correctly named, whose loss is noticed |
| Email skills (`email_skill.py`, `email_provider.py`) | the message last read, the list, the staged email | list, read, archive, send | connections that fail between two commands, other mail clients, abandoned turns | nothing vanishes; "it" is what was read out; an email goes where was said |
| Operator authentication, preferences, profiles (`auth.py`, `prefs.py`, ...) | attempts | matching of speech | heuristics | not modelled |
| Other skills over external services (`calendar.py`, `web_search.py`, `messages_skill.py`, ...) | nearly none | requests | the services | not modelled: input and output |
| Speech servers, pipecat adapters, settings, command line | nearly none | wrappers | models, processes | not modelled |

The hazards of this code, each at its line, with the properties that would
catch it going wrong, are in `PROJECT.json`.

## 2. Plan

Done, in this order: `CallCard` and its proofs, `Posture`, `CallHandling`,
`DaemonProxy`, `WriteBack`, `Conductor`, `Turns`, `Roster`; then `RideAlong`,
`Cards`, `Proactive`, `Lifecycle`, `Lists`, `Screening`, `Memory`,
`Extraction`, `Mail`, `Context` and its proofs, and `CaptureGate`, the abstract
specification that `CallCard` is proved to implement; then the proofs of
`Posture`, `Conductor`, `Turns`, `CallHandling`, `RideAlong` and `WriteBack`; then
those of `Roster`, `Lifecycle`, `Cards`, `Lists`, `Proactive`, `Mail`,
`DaemonProxy`, `Screening` and `Memory`.

What is left, most important first:

1. Proofs: of `Extraction` what does not need induction (the session a row is
   filed under).
2. More abstract specifications: a request/response channel that `DaemonProxy`
   implements as long as no send times out, a register with a deadline for
   `Posture`.
3. The calendar's and the messages' staged changes in the shape of `Turns`, the
   out-of-call delivery of `proactive_delivery.py`, and the attempts of
   `auth.py`.

## 3. The modules

Parts of the program that share no state have a module each. Some of them also
share a run and a module of proofs, which a composing module brings together:

| Module | Parts |
|---|---|
| `DaemonSocket` | `Posture`, `DaemonProxy` |
| `DaemonProcess` | `CallHandling`, `Lifecycle` |
| `CallerDialogues` | `CallHandling`, `Screening` |
| `VoiceLoop` | `Conductor`, `Context` |
| `CallMemory` | `Memory` |
| `EmailTurns` | `Turns`, `Mail` |
| `ConsoleCalls` | `RideAlong`, `Cards`, `Lists` |
| `SharedStores` | `Roster`, `Proactive` |

A composing module EXTENDS the first of its parts and has an INSTANCE of the
others, with their constants and variables under names that do not clash; it
defines no step. `CallMemory` has no first part: `MCCallHandling` runs it beside
the calls, and its proofs are in `Conductor_proofs` beside those of `Context`. The
theorems about an instance are about that part's own `Spec`. An MC module gives
the constants values, names symmetry sets and chooses in the initial state, in the
variable `part`, which part a behaviour is about: the others stay as they began.
`MCWriteBack` also runs `Extraction`. The `.cfg` files name the bounds. `NoX`
constants stand for Python's `None`. A module's `TypeOK` was checked while the
module was written and is proved where the module has proofs.

### CallCard

One capture session for each call, `s \in Sessions`.

| Variable | Code |
|---|---|
| `active`, `card` | `CallCardHost._session`/`_session_id`; the rows of `call_cards` |
| `dbus`, `handler` | where the D-Bus thread is in `start_session`/`stop_session`, where each console's thread is in `disclosure_ack`, and the session it works on |
| `op` | the operator's transcriber |
| `pipe`, `cur`, `stopReq` | every far pipeline ever launched (on the call, on the microphone, at end of file, finished), the one the transcriber refers to, `_stop_requested` |
| `watchdogs`, `wdStop`, `lost` | the watchdog threads, `_far_watchdog_stop`, `_far_lost_reported` |

`CallConnected`, `StartOperator` are `start_session` under the host's lock and
after it; `CallEnded`, `StopSession` the same for `stop_session`.
`DisclosureAck`, `LookupSession`, `StartFar`, `SpawnWatchdog`, `Recheck`,
`StopOrphan` are the steps of one `disclosure_ack`: store it, look the session
up, start the pipeline, spawn its watchdog, look again, undo. `WatchdogCheck`
and `ReaderExit` notice a lost far channel, `ClaimReport` and `FinishReport`
are the two halves of `_report_far_lost`. `Reroute` and `PipelineDies` are what
PipeWire and the processes do of their own.

Properties: `FarOnlyAfterAck` (a far pipeline was only launched in a session
whose disclosure was acknowledged), `NoOrphanCapture` (when the call is over
nothing captures, unless a thread is about to stop it: the corrective stop of
`disclosure_ack` is enough), `FarIsWatched` (the far pipeline of the live call
has a watchdog, until a loss was reported), `GateIsKept`: the module implements
`CaptureGate`, and `OffendingFarIsCut` (liveness: a far capture without its
call, or of the wrong room, is stopped).

`CaptureGate` says in a few actions what all these threads are for: a call
begins when none is live, somebody acknowledges, its far side is heard only
after that, and what is heard of a call that is over is let go for good. The
refinement maps `begun` to the cards, `live` to the active session, `agreed` to
the stored acknowledgements and `hearing` to the sessions whose transcriber has
a far pipeline; every step of every thread is one of the gate's, or none.

Abstractions: a transcriber's `start()` and `stop()` are one step each; text
and audio are left out, and so are utterances that arrive after `stop()` has
waited its five seconds for the reader.

### Posture

`mem` is `PostureManager._state` with its sequence number, `row` the persisted
one, `shown` what the consoles were last sent. A console's thread changes the
state under the lock (`DndCommand`, `Mutate`), looks whether it was superseded
(`CheckSuperseded`) and, with no lock, writes (`Persist`, which may fail) and
sends (`Broadcast`), as `_finish_dnd_change` does. The watcher's thread reads
the clock and the posture, then the deadline, and then clears (`WatcherLook`,
`WatcherDecide`, `WatcherClear`). `Restart` loads the row; `Tick` is time.

`SettledUnlessRaced`: when no change is under way, memory, row and consoles
agree, unless a write failed or two threads were past their check together.
`DndIsNotLost`: the watcher clears only what is overdue, except a posture that
was set after it began to look, and a restart between changes keeps DND and its
deadline. `TimedDndEnds` (liveness): a DND with a deadline ends.

### CallHandling

`line` and `signals` are tincand's calls and the D-Bus signals not yet handled;
`owner`, `pending`, `ctx`, `row`, `session` are the attention lock,
`_pending_contact`, the Brain's context in memory and in the database, and the
active capture session. `IncomingWhileBusy`, `IncomingIgnored` and
`IncomingOffered` are the branches of `on_incoming_call`, with `Resolve` and
`Degrade` the policy; `OnConnected` and `OnEnded` are the other two handlers. A
database write may raise (`raised`), with the statements before it done and
those after it not. `DialConfirm` and `DialReturns` are `ConfirmDialSkill`,
`EmitTargets` who listens once `main()` has wired everything, `Stop` and
`Start` the daemon with the context restored from its row. One dial waits at a
time because the daemon serves turns one by one. The roster is read as if its
cache were fresh.

`CallersAreServed`: nobody is dropped between the look at the lock and its
acquisition, and a connected call is recorded in its own session under its own
caller, while calls come one at a time and no write raised.
`ContextIsTheCallers`: the Brain has a contact's context only in that contact's
call, unless calls overlapped, signals were lost or a write raised; and when the
line is quiet nothing of a call is left, overlaps and restarts included.
`Attention.cfg` checks `AttentionFreed`, a finding.

### DaemonProxy

`toServer` and `toClient` are the two directions of the socket, `pending` the
slots in `_pending`, `slot` what each send's queue holds, `pc` where each send
is, `reader` the reader thread, `client` how far `close()` has come, `server`
and `handling` the daemon's end. `SendBegin` appends the slot and `SendWrite`
writes under one lock; `SendTimeout` and `SendForget` give up; `ReadAck` takes
the oldest slot and `ReadPut` fills it; `CloseFlag` and `ReadEnd` fail the
pending slots. The `_closed` flag and `_fail_pending` are one step.
The daemon acks a command and then sends the event of a `dnd` command.

`AcksAreOwn` (while no send timed out, an ack reaches the send it answers, and
the reader never puts into a full slot), `EventAfterAck`, `EndIsTold` (whoever
waits when the connection ends is woken; liveness: the console learns of it).

### WriteBack

`items` and `facts` are the rows of a card; a wording is a number (0 as heard,
n as the n-th extract words it, one more for the operator's own words).
`CaptureItem`, `CaptureFact` are layer 1; `Extracted`, `UpsertItem`,
`DeleteDuplicates`, `UpsertEnrichedFact` the enricher, one store call a step;
`ConfirmItem` and `ConfirmFact` the operator. `Begin`, `InsertCallLog` or
`CallLogRefused`, `InsertCommitment`, `CaptureNote`, `UpsertFact` and
`MarkWrittenBack` are the commits of `finalize_writeback`, by one client or by
two at once, over the confirmed items in the order of `get_call_card`
(`IsFirst`: by turn, then as they were created); `WriterRaises` ends it at any
of them and `Restart` ends all.

`WrittenBackMeansAll` (what the writing attempt read is all in the
AfterStore), `PromisesAreAsAgreed` (each is there once, and as the operator
confirmed it, unless the enricher reworded it), `EveryExtractHasItsRow` (no
merged extract is lost, unless the LLM named one turn twice).

### Extraction

A text is what the patterns of `processor.py` find in it, in the order of the
text: cues, codes, phone numbers, figures, number words, dates, promises,
names. `Start` and `Stop` are the session's, `Hear`, `Extract`, `Remember` and
`Store` a reader's turn; a reader that is at work when its call stops is one that
outlives the join. `ExtractsAreTrue`: the rows of a turn are those of its text,
in its own call's card, but for such readers and turns of which something raised;
a sum in number words is the number said, and "the 17th" is the next date with
that day, for every number and date of a range.

### Conductor

Each call of `Conductor` is a worker `w` that goes from place to place (`at`)
and reads and writes `state`, `_cancel`, `muted`, `_rec`, `_play` one access at
a time; `recorders` and `playing` are the processes. `StartRecording`,
`Interrupt`, `ToggleMute` and `Spawn` are the console's own thread, which goes
on between any two steps of a worker.

`NothingIsLeftBehind`: when no call is in flight the state is idle or
recording, and a running recorder is the one in `_rec`, unless a recording was
begun while a worker was in flight. `SilentUnless`: after an interrupt or a mute
nobody is heard but a worker past its check, one whose cancel flag a newer call
cleared, or a playback that another replaced in `_play`.

### Context

`window` and `gist` are what `ConversationContext` keeps of `about`, the turns
said; `started` and `base` are the gist threads before and after they have read
the gist. `Add`, `ReadGist`, `WriteGist` and `CompressFails` are its steps,
`Lookup` its tiers with the transcript's, `ReadNotes` the gist read out.
`SaidIsFound`: every turn is in the window, in the gist or on its way there, and
Iris denies no other, unless its compression failed or another thread was at the
gist when it was written.

### Turns

A turn is a thread: of `BrainHost.async_turn` in the daemon, of
`run_with_masking` in the console; which of the two a behaviour is about is
`host`. `Announce`, `TakeLock`, `Busy`, `CannotStart` and `Release` are
`async_turn` around the Brain, `Begin` and `Abandon` what the console does
around it. Inside, `Talk`, `Propose` and `Unrouted` are the routing of
`respond` and `respond_stream`, `Allowed` and `Deny` the gate
(`_resolve_is_operator`, `Authorizer`), `Stage`, `Decline`, `Cancel`,
`ConfirmTake` and `ConfirmExecute` the three skills of a trio (roster, dial,
delegation, email) with their holder `staged`, `Reply` and `TellError` what
comes of it. What the lane's model proposes is arbitrary. A staged action is
named by the turn that staged it, so that "the action he was asked about" can
be said.

`ConfirmedOnceAsAsked` (what is executed was asked and agreed to, and is
executed once; in the daemon always, in a console while no lane was abandoned
and no turns overlapped), `OperatorActs` (the holder of a privileged trio
changes for the operator only), `EveryTurnEnds` (liveness: the lock comes back
whatever raises, a registry with skills that cannot be described included).

### Mail

`box` is the mailbox on the server, with another client that flags, expunges and
receives; `triage` and `pending` are the skills' two holders; a `worker` is a
turn, at a place of the skill it runs, and may be left to itself. Each IMAP or
SMTP command is a step and may fail before or after the server has done it.
`MailIsAsHeard`: archiving loses nothing wherever it stops; while turns do not
overlap "archive it" is about the message read out last; and an email goes to
the address in the prompt last said.

### Roster

`contacts`, `issued`, `address`, `version` and `oldColumns` are the database;
`at` and `plan` where each thread is in `_connect`, which every operation
begins with. `Connect`, `ReadColumns`, `Recreate`, `Backfill`, `Recheck` and
`Rename` are the two migrations, one transaction or one read a step (of the two
functions called `_migrate_v1_to_v2` it is the second that Python calls).
`StageAdd`, `StageRule`, `StageRemove`, `Confirm` and `Cancel` are the skills,
`OpenEditor`, `EditRule`, `SaveEditor`, `CloseEditor` and `DeleteRow` the
screen; what they have set out to write is `task`, and `Add`, `AddRaises`,
`Update`, `Delete` write it. Notes are a set of at most `NotesMax`, appended or
replaced by voice and edited on the screen.

`RosterIsSound`: a number belongs to one contact, and no number to a contact who
is gone, unless two migrated from version 0; and after a migration the rules
are those the engine knows, except those set by voice. `WritesAreOfTheNamed`: an
id in a closure or in the editor never comes to mean another contact, and a note
is lost only to who replaced it or had read the notes before it was there.

### RideAlong

The console's side of a call. `line`, `signals` and `events` carry what happened
to the console's thread (`UI`: one `Drain...` action for each event);
`OnIncoming`, `OnConnected`, `OnEnded` are `TincanCallControl` on its thread,
`Announce`, `Play`, `Played`, `PlayFails` an announcement's worker, `StartFar`
and `DropStaleFar` the far-party transcribers, `Accepted` the gate that a
`far_announced` opens, `KeyFar`, `ArmTrust`, `KeyGrant`, `Quit` the operator.

`CapturedHasHeard` (who is captured has heard an announcement in this very
call, except behind a gate opened for an earlier one), `NothingOutlivesTheCall`
(neither a transcriber nobody knows of nor the call's audio as the microphone),
`CallIsAnnounced` (liveness).

### Cards

The Call Card panel of one console and the daemon behind it. `queue` and `wire`
are the two directions, `posted` textual's messages between a card and the app,
`feed` and `disclosure` the cards, each with its edit buffer. `CallConnected`,
`Found`, `FarLost`, `CallEnded` are the daemon's broadcasts, `Drain` takes one
in, `Answer`, `Confirm`, `Dismiss`, `Edit`, `Escape`, `Commit` are keys,
`SendAnswer` and `StoreDecision` the app's handlers, `HandleCommand` the
daemon's. `DaemonDies`, `Disconnected`, `HandlerFails`, `AckTimesOut`,
`SaveFails`, `StoreFails`, `Close` are what goes wrong.

`AnswersAreTheOperators` (what is recorded, and captured, for a call is what the
operator answered in that call's card), `FindsAreKept` (no fact or item falls
off the panel undecided; what is confirmed has the words last seen or typed),
`AnswerIsHeard` (liveness).

### Lists

`lists`, `items` and `results` are the database, `skill` and `view` what the
voice skill and the screen are about to write, `lookup` the threads. Each action
is a transaction of `CallListStore` or a step between two. `ListsAreTrue`: a
call has one active list, and an item is "pending" while a thread looks it up
and "done" when its result is there or about to be.

### Proactive

`items` is the queue; `cooling`, `shownId`, `shownLong` the delivery's memory,
`fresh`, `badge`, `current` what the console shows, `workers` speech being
prepared, `cache` and `polling` the watcher's. `TickWaits`, `TickTells`,
`TickBadges` are the outcomes of `tick`, `MarkFails` its failing write.

`NothingIsToldTwice` (nor is a meeting nudged about twice, but after a fault),
`CyclingLosesNothing` ([n] visits every item, and what was cycled away is not
dismissed unseen), `WantedIsNoticed` (liveness: it becomes a badge).

### Lifecycle

`lockPath` is the file at the daemon's pid path, by its number, `file` the one a
process has open, `text` the pid in it, `socket` whose socket is at the path.
`Open`, `Lock`, `WritePid`, `UnlinkSocket`, `Bind` and `CloseSocket`,
`RemovePid`, `Exit` are a daemon's way in and out, `Crash` and `Recycle` what
may happen to a pid, `Beat` the heartbeat with the checks it aggregates,
`Restart` systemd, and the actions on `cmd` the steps of `iris daemon start`,
`stop`, `status`, `iris up` and the installer.

`OneDaemonAndItsNames` (one daemon, which file and socket name, and a SIGTERM
only for daemons, unless a lock was taken on an unlinked file or a daemon died
without removing it), `StartTellsTheTruth`, `LossIsNoticedAndMended` (liveness).

### Screening

A flow is the list of what it has yet to do (`Screen`, `ReAsk`, `Relay`,
`Message`, `PivotScript` are its scripts), on a thread that does not learn
whether its caller is still on the line; `Raises` may happen at every step, with
what `run` does then. `CallersAreDealtWith`: nobody is recorded untold but by the
flow of an earlier call, every word is in an event, a message taken is stored,
and a call ends as was decided.

### Memory

`active` is whose the manager's `_active_*` fields are; `archive` is where each
`mm-archive` thread is and what it has read; a window, a gist and notes are the
call's. `ArchiveIsOfItsCall`: what is archived of a call is its own and stays as
it is, nothing but turns is stored of an unidentified or private call, and the
final gist covers every turn that had left the window, unless the next call
overtook the archive or a summary failed.

## 4. Runs, bounds and fairness

| Run | Bounds | Why they are enough |
|---|---|---|
| `callcard` | two calls in a row, two consoles, two disclosure commands and so two far pipelines | the second call meets the threads of the first; two acks overlap with each other, with a skip and with the end of the call |
| `posture` | two consoles and the watcher, two commands, time 0..2, one restart; two sends, one of them `dnd` | a change can overtake another one and a deadline can pass between any two steps; two slots have an order, a third adds no new relation between neighbours |
| `callhandling` | two calls, three rules and unknown callers, one restart; two calls with a flow each, two exceptions; two calls archived by two threads, a window of one, two turns, one note, one failed summary | a waiting, ignored or dialled call next to a live one is all that confuses signals without a name; the second call meets the flow or the archive of the first |
| `writeback` | two promises, one fact, two extracts, two confirmations, two attempts; two calls, three turns, one failing write; all numbers to 2400 and dates of 500 days | two extracts can claim one row; two attempts race or retry; a reader meets the next call; hundreds, thousands and a leap year are in the range |
| `conductor` | three calls, two recordings; five turns of two topics, a window of two | two calls overlap while a third comes; three gist threads overlap |
| `turns` | three turns, two trios, one of them privileged, one call, two threads at once in a console; two messages, two turns, one failing command | one turn asks, one asks something else, one confirms; a call begins or ends between any two steps |
| `roster` | a Brain and a screen, two names, two numbers, two contacts, two notes of which one fits; databases of versions 0 and 1 | two threads migrate against each other, or one writes while the other holds an id |
| `ridealong` | two calls, incoming or dialled, two keys | an announcement, an endpoint or an event of the first call meets the second |
| `cards` | two calls, one fact, one item, one fault; two lists, one item, two lookups | the cards of both calls are on the panel; two threads look up the same item |
| `proactive` | two items, one meeting, one fault | one is shown, cycled or cooling while the other waits |
| `lifecycle` | four processes, two commands, one crash | a daemon stops while the unit's and another one start |
| `attention` | as `callhandling` | it shows one sentence of a docstring that the code does not keep |

Deadlock is not checked: the calls, commands and attempts are bounded, and when
they are used up, or when the daemon is gone, the system has come to its end.

Fairness. `CallCard`: weak fairness of each thread that is inside a handler or
watches a pipeline, because they block on nothing but short locks, timed waits and
processes that were terminated; and of the D-Bus thread once it has begun to start
or stop a session. Nothing makes a console acknowledge, PipeWire reroute, or a
call end. `Posture`: the watcher's loop, which polls for ever, and the threads
inside a command. A write may always fail. `DaemonProxy`: the reader alone; the
daemon may never answer. `Turns`: weak fairness of all threads of turns together,
which is enough because each of them has finitely many steps to go; it stands on
the timeouts of the calls the lanes and skills make (only the delegation's
subprocess has none). `RideAlong`: the D-Bus thread, the console's drain, which is
a timer, and each announcement once it was started; not tincand or the operator.
`Cards`: the drain, the app's handlers, and the daemon's thread of the connection;
not keys, faults, or a daemon that is down. `Proactive`: tick and drain, which are
timers, and the end of the cooldown. `Lifecycle`: each process, the heartbeat, and
systemd's restart of what has failed; no command need be given, and none that is
under way need go on. The other modules have safety properties only.

## 5. Findings

`attention` is kept as a run: the engine takes the lock under an id that
`CallEnded` does not carry, so it is not released, and the next caller is
reported as missed.

More disagreements between the code and what it says of itself came up while the
modules were written. The exemptions of the properties named in section 3 are
due to them; the models contain all of those that are marked with a module.

Daemon:

- `main()` replaces the `emit` that the dial skill has intercepted
  (`daemon/__main__.py:263`, against `dial_skill.py:148-149`): a dialled call
  connects and the skill answers that it could not (`CallHandling`).
- The delegation skills have no `params`, which the manifest reads of every
  skill (`skills.py:158`): each turn of the operator that reaches the dispatch
  raises (`Turns`).
- `call_log.session_id` is UNIQUE and inserted first, so a failed write-back can
  never be completed, although a retry "can safely pick up from scratch"
  (`daemon/call_card_host.py:255-259`) (`WriteBack`).
- The supersession check of `_finish_dnd_change` and the write it protects are
  not atomic: a delayed finish overwrites the newer posture, which its docstring
  excludes (`daemon/posture.py:180-192`) (`Posture`).
- After a timeout every later ack goes to the wrong send, although
  "first-ack-to-first-sender is sound" (`daemon/proxy.py:12-13`, `:131`)
  (`DaemonProxy`).
- A daemon unlinks its lock file while it holds it: one that has the old file
  open locks it next, and another the new one, against
  `daemon/__main__.py:128-129`; `finally` and `stop` unlink the files of whoever
  owns them by then (`Lifecycle`).
- `is_healthy` only looks whether the path is a socket, alive or not;
  `iris up` with a daemon that was started by hand makes the unit fail again and
  again; `iris daemon start` gives up after five seconds although the daemon
  may still come up (`Lifecycle`).
- A turn that Tier 0 answers with "cancelled" leaves the staged action where it
  is (`lanes.py:81`) (`Turns`).

Extraction (`Extraction`): cues of one call reach into the next; a reader that
outlives the five seconds of the join files its facts under the next call; a turn
with a date such as "the 0th" or "at 2:75" loses its phone numbers and sums too;
"nineteen ninety five" is 114, "one hundred fifty dollars" 100.50.

Console:

- A `far_announced` that is drained after its call opens the far party's
  capture in the next, against "never captured without an announcement"
  (`console/app.py:1097-1101`) (`RideAlong`).
- The far party's trust outlives the call (`README.md:58`) (`RideAlong`).
- Overlapping announcements leak a transcriber; `call_ended` does not stop the
  far stream, which falls back to the operator's microphone (`RideAlong`).
- A daemon and a console without one may both capture a call, in spite of the
  comment on a single owner at `_on_daemon_event`; an acknowledgement that times
  out is called "not recorded" though it may be; a due date that was emptied and
  an edited owner are never stored; `call_card_far_lost` is not shown, although
  "the card must say so" (`daemon/call_card_host.py:233-239`) (`Cards`).
- The next recording clears the cancel flag, and an interrupted turn's reply is
  spoken although "its result is dropped" (`console/conductor.py:8-10`, `:81`)
  (`Conductor`).
- Iris may speak in a call when it is set to listen, although
  `SPEAK_DURING_CALL` says no (`config.py:13-19`, `proactive_delivery.py:151`)
  (`Proactive`).
- `lookup_status` may not be "failed" by the table's own CHECK
  (`list_store.py:43`): the lookup's thread dies at `list_skill.py:158`, the item
  stays "pending", and `lookup_failed` is not emitted (`Lists`).

Roster (`Roster`): the skills offer the rules of version 1 (`roster_skill.py:27`),
which the engine does not know; two processes that open a database of version 0
together can drop the table after one of them has migrated it; a note beyond the
limit is cut off though the answer is that it was added.

Mail (`Mail`): a connection that fails when listing is said as "No unread
emails."; STORE's answer is ignored, and EXPUNGE removes what other clients have
flagged; a retry after a failure past COPY makes a second copy; an abandoned read
changes what "archive it" means; an SMTP failure after acceptance is said as not
sent.

Parts that only tests drive as yet: a screening flow goes on after its caller has
hung up and records, puts through or hangs up the next one, and an exception
after a put-through hangs up the call (`Screening`); an archive reads the fields
of the call that has begun since, and the final gist leaves out turns that are
in neither the window's last ten nor the gist (`Memory`); gist threads that overlap
undo each other, and a failed one loses its turn (`Context`).

## 6. What is proved

Each theorem holds for every value of the constants that satisfies the
`ASSUME`s of the module it is about, and of the composing module where there is
one; nothing else is assumed, but for `NothingElseIsLost`, which says that the
window holds at least one turn. The safety invariants are seldom inductive: a
thread acts on what it saw some steps ago, and the invariant has to say what is
left of it. Each module therefore has an inductive invariant, which was tried
on a small instance by TLC first; the proof shows that it holds initially and
that each action keeps each of its parts, and draws the properties from it.

| Module | About | Invariant | Theorems | Property |
|---|---|---|---|---|
| `CallCard_proofs` | `CallCard` | `IInv` | `DisclosureGate`, `NoOrphan`, `Watched` | `FarOnlyAfterAck`, `NoOrphanCapture`, `FarIsWatched` |
| | | | `GateImplemented` | the refinement of `CaptureGate`: the safety half of `GateIsKept` |
| `CallHandling_proofs` | `CallHandling` | `IInv` | `Served`, `ContextTheirs` | `CallersAreServed`, `ContextIsTheCallers` |
| | `Lifecycle` | `LifecycleInv` | `OneDaemon`, `StartIsTrue` | `OneDaemonAndItsNames`, `StartTellsTheTruth` (an action property) |
| | `Screening` | `ScreeningInv` | `DealtWith` | `CallersAreDealtWith` |
| `Posture_proofs` | `Posture` | `IInv` | `Settles`, `DndIsKept` | `SettledUnlessRaced`, `DndIsNotLost` (an action property) |
| | `DaemonProxy` | `SocketInv` | `AcksReachTheirSends`, `EventComesAfterAck` | `AcksAreOwn`, `EventAfterAck` |
| | | | `WaitersAreWoken` | the safety half of `EndIsTold` |
| `WriteBack_proofs` | `WriteBack` | `IInv` | `WrittenBack`, `Promises`, `ExtractsHaveRows` | `WrittenBackMeansAll`, `PromisesAreAsAgreed`, `EveryExtractHasItsRow` |
| `Conductor_proofs` | `Conductor` | `IInv` | `NothingLeft`, `Silent` | `NothingIsLeftBehind`, `SilentUnless` |
| | `Context` | `ContextInv` | `NothingElseIsLost` | `SaidIsFound` |
| | `Memory` | `MemoryInv` | `ArchivesAreOwn` | `ArchiveIsOfItsCall` (an invariant and an action property) |
| `Turns_proofs` | `Turns` | `IInv` | `Confirmed`, `OperatorsOnly` | `ConfirmedOnceAsAsked`, `OperatorActs` (an action property) |
| | `Mail` | `MailInv` | `MailIsAsItWasHeard` | `MailIsAsHeard` |
| `RideAlong_proofs` | `RideAlong` | `IInv` | `Captured`, `NothingOutlives` | `CapturedHasHeard`, `NothingOutlivesTheCall` |
| | `Cards` | `CardsInv` | `OnlyWhatWasAnswered`, `NothingAgreedIsLost` | `AnswersAreTheOperators`, `FindsAreKept` |
| | `Lists` | `ListsInv` | `ListsTellTheTruth` | `ListsAreTrue` |
| `Roster_proofs` | `Roster` | `IInv` | `SoundAlways`, `WritesOfTheNamed` | `RosterIsSound`, `WritesAreOfTheNamed` (an action property) |
| | `Proactive` | `ProactiveInv` | `ToldAtMostOnce`, `CyclingIsComplete` | `NothingIsToldTwice`, `CyclingLosesNothing` |

The theorem that an invariant holds is `IInvSpec`, `LifecycleInvSpec`,
`ScreeningInvSpec` and so on; where it is called `IInv`, `TypeCorrect` is
`Spec => []TypeOK`. The assumptions on the constants are that bounds are natural
numbers, that sentinels are not among the values they stand in for, and, by name:
`RosterAssumption` (names and numbers are not empty, the rules that the skills and
the editor offer are rules), `ClassesAssumption` (the watcher enqueues items of two
classes), `FindsAssumption` (a fact is no action item), `SocketAssumption`
(the `dnd` commands are among the sends) and `MemoryBounds` (a batch of evicted
turns is not empty and no longer than the window: the code has 10 and 30).

### CallCard

For any sets of sessions and consoles and any number of commands, from the
assumptions `NoSessionAssumption` (`None` is no session) and
`MaxCommandsAssumption` (a positive bound):

- `TypeCorrect`: `Spec => []TypeOK`
- `DisclosureGate`: `Spec => []FarOnlyAfterAck`
- `NoOrphan`: `Spec => []NoOrphanCapture`
- `Watched`: `Spec => []FarIsWatched`
- `GateImplemented`: `Spec => Gate!Safety`, where `Gate` is `CaptureGate` under
  the mapping of section 3

None of these is inductive. The far pipeline is started by a thread long after
it has stored the acknowledgement, and stopped by another; so the invariant has
to say what a thread inside `disclosure_ack` knows of the session it holds. The
inductive invariant is

    IInv == TypeOK /\ HandlersAcked /\ DbusKnowsSession /\ NoCardNoCapture
            /\ FarOnlyAfterAck /\ NoOrphanCapture /\ FarIsWatched

`HandlersAcked`: a busy handler thread holds a session whose acknowledgement is
stored, and its own pipeline number. `DbusKnowsSession`: the D-Bus thread works
on a session, and starts the operator's channel of the active one.
`NoCardNoCapture`: a session without a card has neither acknowledgement nor
capture. The steps are proved part by part (`TypeStep`, `AckStep`,
`OrphanStep`, `WatchedStep`), one step per action, on lemmas on what
`FarStart`, `FarStop` and a write to a card leave as it was. `IInvSpec` joins
them, and the four theorems are its consequences.

`GateImplemented` is the step simulation on top of it. `GateStart` and
`GateStop` say what the launch and the stop of a far pipeline mean for the set
of sessions that are heard; `GateStep` goes through the actions: an
acknowledgement is `Agree`, `StartFar` is `Hear` (the thread's session is
acknowledged by `HandlersAcked`), every stop is `LetGo`, the two D-Bus steps are
`Begin` and `End`, the rest changes nothing the gate sees.

### CallHandling

tincand's signals name no call, so everything the daemon knows is about "the
call whose signals come next". The invariant is stated of the queue: `PhoneOK`
says that the end of a call is its last signal, that a call of which there is a
signal goes on or ends later in the queue, and that, while calls come one at a
time, the signals of the next call come after the end of the last. On it rest
`SessionIsGoing` and `SessionIsTheCallers`, `PendingIsGoing`, `ContextIsGoing`
and `ConnectedIsRecorded`: what is in the card host, in `_pending_contact`, in the
Brain's context and its row is of a call that goes on or whose end is queued,
and of the call whose signals come first. A step may take a signal and give
others, with the line changing under it; so the lemmas `TakeSignal`, `TakeEnd`
and `GiveSignal` are about any queue and any line, and are put together for each
action. `StopsAssumption` (a natural number of stops) is needed for the types.

### Posture

A change takes a number under the lock, and is compared with memory's number
before it is persisted and broadcast, without the lock. `SnapshotsAreOfChanges`:
the thread that carries memory's number carries what memory holds.
`OnePastUnlessRaced`: the comparison lets one through at a time, or it is a
race. `NewestGetsThrough`: some thread still has to write what memory holds, or
still has to tell it, or row, consoles and memory agree and nobody older can come
after. `WatcherHasSeen`: what the watcher saw is still so, or memory has another
number by now; with it `DndIsKept` follows for each step.

### WriteBack

`BehindIsStored` and `LeftIsNotStored` follow the one writer that got its row
into `call_log` (`OneWriter`): what it has behind it is in the stores, what it
has left is not, but for the commitment of the item whose note is next.
`CardsAreSound` and `ConfirmedAreAgreed` carry an item's agreement from the
operator's yes through rewording to the card that was read; `UpsertedHaveRows`
is `EveryExtractHasItsRow` of the extracts so far. That the primary turn, the
least of an extract, is one of its turns rests on the well-foundedness of the
natural numbers (lemma `Least`).

### Conductor

`SomebodyWillEnd`: who shut the microphone out is at work and has the state
ahead of it. `RecordingsAreOrderly`: a running recorder belongs to the state
recording, or to a thread that is about to set it. `CutCallsWillSee`: a call that
was interrupted has ended, or has its check of `cancel` ahead of it with the flag
still set, unless a newer call cleared it.

### Turns

`StagedIsAsked`: what a holder holds is what was asked last, or a turn is on its
way to ask. `AgreedIsAsked`: what a turn takes as asked when it was accepted stays
so until it takes it out. `ActionsAreOnce`: an action is in one holder, in one
turn's hands, or executed. They need `LockIsTheTurns` and `OneIsLive`, and all but
the lock hold as long as turns come one at a time, which the daemon's lock
ensures and a console's abandoned lane does not.

### RideAlong

The calls of a line are numbered, so "has been up", "is over" and "was announced
in" are sets of numbers. `AdoptedWasUp` and `GateWasHeard` say of the audio, the
gate, each announcement being played and each queued event which of these sets
its call is in. `OneAnnouncement` and `SilentWhileUnderWay`: announcements do not
overlap, unless noted, and nobody is captured while one is under way.
`TheEndIsTold`: when a line is over, an end is the last of the signals and events
that matter, or the console has dealt with it.

### Context

If the window holds at least one turn, `Spec => []SaidIsFound`, for any topics
and number of turns. The property is not inductive: a thread that writes the gist
replaces it by what it had read, some time before, and one more turn. The
inductive invariant `ContextInv` adds `ReadingsAgree`: what a thread at work has
read, what another has read and what the gist says now differ only in turns that
were written while a thread was at work, which are those the property exempts; and
`NoGistYet`: a gist that was never written is empty. That a push drops the front
of the window and nothing else is a lemma of its own.

### Roster

The two migrations interleave with each other and with writes. `OldIsUntouched`:
nobody has written to a database of version 0. `PlansCover`: who is about to
rewrite the rules has one for every row that needs one, though rows have come and
gone since they were read. `TasksAreSound` is about ids: what a closure or an
editor is to write means the contact that was named, or one who is gone, because
an id that was issued (`RowsAreIssued`) is not issued again; and an appended note
is what was read and something more. `AddressesMatch` and
`RulesAreVerbsUnlessVoiced` are the two halves of `RosterIsSound`. The two action
properties follow from what the three writes do to one row (`UpdateEffect`,
`DeleteEffect`, `RowWritten`).

### Lifecycle

`LocksAreOrderly`: two daemons never hold the same file, and unless a lock was
taken on an unlinked file, the file of a daemon at work is the one at the path;
`NamesAreOrderly`: so pid file and socket are its own. `NamedAreAtWork`: as long
as every daemon removes its files, the pid in the file is that of a daemon at
work. `PidsAreKnown` is what a command under way has read. `StartIsTrue` follows
for each step.

### Screening

A flow's place is the list of steps it has left, so the proof names each
remainder of a script, and the invariant is stated of remainders.
`DisclosedFirst`: past the disclosure the caller on the line has heard it, or the
flow raised. `HeardIsSpoken`, `HeardIsTold`, `MessagesArrive`: what was captured
is what the flow knows, what it knows is in an event when it comes to its end, and
a message is in the queue or stored. `NobodyIsLeft`, `OneOrTheOther`,
`RaisedCleansUp`: what is left to do fits what the caller was told, and a caller
whose flow is done has been put through, handed on or noted as stranded.

### Memory

The property compares what was stored of a call with what was said in it, which
five queues and fields pass on in between. `EveryTurnIsSomewhere`: a turn is in
the window, in the gist, in a worker's inbox or known to be lost. `StoppedLast`:
behind the stop in an inbox there is nothing but further stops, and the inbox of
a worker that has stopped holds no turn; so whoever has joined the worker finds
every turn in the window or in the gist (`HasAll`), and the final gist covers
what has left the window (`FinalGistHasAll`). This is so of calls that were not
overtaken: `IsOfTheEnded` says of each archive that it is of a call that is over,
knows the contact that call was bound to last, and stops that call's worker,
unless another call has begun; so what it stores is its own (`StoredIsOwn`).
`EndedAreOver` and `NothingSaidBefore` keep the calls apart in time. That the
archive does not change later follows for each step (`EndedStays`). The lemma
`TurnGoesIn` says what a push into the window evicts, for any lengths of window
and batch.

### DaemonProxy

`Calm` says that no send gave up and `close()` was not called. Then commands, acks
and slots are one queue seen at three places: `AcksAreInOrder` and
`CommandsAreInOrder` say that what is queued is in one place between client and
daemon, and the older the further. So the first ack on the wire is that of the
oldest slot (lemma `HeadIsOwn`), whatever the number of sends.
`EventsFollow` puts each event behind its ack. `SlotsAreSingle`,
`UnwrittenIsNowhere` and `NobodyIsForgotten`, of a slot's life, hold after
timeouts too.

### Mail

`MailIsKept`: what has left the inbox, or is to, has a copy in the archive, or
another client wanted it out; this needs no order of turns. `OneByOne`, while
turns do not overlap: what was read is in hand until it is heard, and what waits
for its confirmation is what was said.

### Cards

A find has its own invariant, `FindIsSound`: it is in one place at a time, in an
event, on the panel, in a message or in the store (`FoundOnce`), its decision
carries the words that the operator agreed to last (`DecidedOnce`), it leaves the
panel only with a decision (`ShownIsThere`), and stays in the store as agreed
(`IsKept`). The places are indices of queues from which each drain takes the
head; the lemmas on queues say how the set of a find's events moves.
`AnswersArePressed` follows an answer through message, wire and store.

### Lists

`SkillIsSound`: between two transactions, the list that the skill is about to
create is still its call's only one. `IsUnderWay` gives each pending item the
thread that is to answer it.

### Proactive

`IsToldOnce` and `IsNudgedOnce` count: what was told, or is in a worker's hands,
is told at most once more than there were faults, and once less while it is
pending; a meeting that the watcher has not noted has fewer nudges than that.
`ShownIsDelivered`: what is shown is not pending, and what was cycled away is not
dismissed. That cycling visits all is about the order of the queue, for any
queue: no two items have the same successor (`CycleIsInjective`), so what comes
past in as many presses as there are items is closed under the successor, and such
a set is all of the queue (`ClosedIsAll`). Where one would use induction the
proof takes a least counterexample, which the well-foundedness of the natural
numbers gives.

### What is only model-checked

- Liveness (`OffendingFarIsCut`, `TimedDndEnds`, `EveryTurnEnds`,
  `CallIsAnnounced`, `AnswerIsHeard`, `EndIsTold`, `WantedIsNoticed`,
  `LossIsNoticedAndMended`): the proof system has no rules for fairness.
- What a fold or a recursive function computes for every input, which needs
  induction with an operator as a parameter: the number words and dates of
  `Extraction`. They are checked over ranges.
- The rest of `Extraction`: its proof is what the plan names next.

## 7. Not modelled

Text: prompts, wording, parsing by patterns, masking, language detection, the
matching of far ends, operators and addressed speech. Sound: what a recorder or
a transcriber hears. Rendering. Services behind HTTP, CalDAV, D-Bus messages
and subprocesses, but for the mailbox. Probes of the environment (`doctor.py`,
`verify.py`), of which `Lifecycle` knows only the answers. Code that nothing but
tests makes and that would model nothing new: `RideAlongConsole`,
`CallCardView`, `PriorCommitmentCard`, `ContextInferenceTrigger`,
`_deliver_out_of_call`, the other commands of `NotesStore`. `Screening`,
`Memory` and `Context` are modelled although only tests drive them as yet: they
are the parts that will meet the threads of call handling when they are wired,
and their hazards are in their interfaces.
