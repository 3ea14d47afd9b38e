-------------------------------- MODULE Cards --------------------------------
(***************************************************************************)
(* The call card panel of the console, in proxy mode: the daemon's         *)
(* call_card events become cards, the operator deals with the cards, the   *)
(* cards post messages to the app, and the app sends the disclosure to the *)
(* daemon or writes the decision into the store the two processes share.   *)
(* Everything on the console's side runs on its UI thread, a step at a     *)
(* time: a drained event, a key, a posted message, and the wait for an     *)
(* acknowledgement, during which nothing else runs.                        *)
(*                                                                         *)
(* Two calls' cards may be on the panel at a time.  A handler that raises  *)
(* ends the console (Textual closes the app), and one that raises in the   *)
(* daemon ends that client's connection.  A console whose connection ended *)
(* goes on in direct mode, where it rides along on calls itself            *)
(* (module RideAlong).                                                     *)
(***************************************************************************)
EXTENDS Naturals, FiniteSets, Sequences

CONSTANTS
    Facts,          \* captured facts, by id
    Items,          \* action items, by id: no fact is one
    MaxCalls,       \* bound: calls, one after the other
    MaxFinds,       \* bound: facts and items found
    MaxFaults       \* bound: failing writes and handlers, daemon crashes, console restarts

VARIABLES
    calls,          \* how many calls there have been
    onLine,         \* the call on the line, or 0
    daemonUp,
    active,         \* CallCardHost: the captured call, or 0
    farOn,          \* its far party is captured
    recorded,       \* CallCardStore: disclosure_state of each call
    row,            \* CallCardStore: the facts and action items
    link,           \* the console's connection is up
    wire,           \* commands the daemon has not handled yet
    queue,          \* events, in the socket and in IrisConsole.events
    mode,           \* _mode, or "closed"
    riding,         \* the console captures the call itself
    panelCall,      \* CallCardPanel._session_id
    disclosure,     \* disclosure cards on the panel: call -> state, or "none"
    feed,           \* fact and action item cards on the panel: id -> edit buffers
    disk,           \* disclosure-<session>.json
    posted,         \* messages posted to the app
    waiting,        \* the call whose disclosure send() waits to be acknowledged, or 0
    faults,
    pressed,        \* history: what the operator answered in each call
    untold,         \* history: calls whose answer the console said was not recorded
    agreed,         \* history: what the operator last decided about each fact or item
    shown           \* history: facts and items this console has shown

daemon == <<calls, onLine, daemonUp, active, farOn>>
store == <<recorded, row>>
socket == <<link, wire, queue>>
screen == <<panelCall, disclosure, feed>>
history == <<pressed, untold, agreed, shown>>
vars == <<daemon, store, socket, mode, riding, screen, disk, posted, waiting, faults, history>>

Calls == 1 .. MaxCalls
Finds == Facts \cup Items
None == 0
Answers == {"disclosed", "skipped"}
Texts == {"said", "typed", ""}          \* as captured, as the operator typed it, or nothing
Decisions == {"open", "confirmed", "dismissed"}
Edits == [text : Texts, due : Texts]                \* the edit buffers of a card
NotEdited == [text |-> "said", due |-> "said"]
Card(at, edit) == [at |-> at, text |-> edit.text, due |-> edit.due]

Events ==
    [kind : {"started", "disclosure_needed", "far_lost", "ended"}, of : Calls]
    \cup [kind : {"fact", "action_item"}, of : Finds]
    \cup {[kind |-> "disconnected", of |-> None]}
Messages ==
    [kind : Answers, of : Calls]
    \cup [kind : {"confirm", "dismiss", "override"}, of : Finds, as : Edits]

TypeOK ==
    /\ calls \in 0 .. MaxCalls /\ onLine \in {None, calls} /\ active \in {None, calls}
    /\ {daemonUp, farOn, link, riding} \subseteq BOOLEAN
    /\ recorded \in [Calls -> {"none", "pending"} \cup Answers]
    /\ row \in [Finds -> [call : 0 .. MaxCalls, text : Texts, due : Texts, is : Decisions]]
    /\ wire \in Seq([kind : Answers, of : Calls]) /\ queue \in Seq(Events)
    /\ mode \in {"proxy", "direct", "closed"}
    /\ panelCall \in 0 .. MaxCalls
    /\ disclosure \in [Calls -> {"none", "expanded"} \cup Answers]
    /\ feed \in [Finds -> [at : {"none", "shown", "edit"}, text : Texts, due : Texts]]
    /\ disk \in [Calls -> {"none"} \cup Answers]
    /\ posted \in Seq(Messages) /\ waiting \in 0 .. MaxCalls
    /\ faults \in 0 .. MaxFaults
    /\ pressed \in [Calls -> SUBSET Answers] /\ untold \subseteq Calls
    /\ agreed \in [Finds -> [is : Decisions, text : Texts, due : Texts]]
    /\ shown \subseteq Finds

Init ==
    /\ calls = 0 /\ onLine = None /\ daemonUp = TRUE /\ active = None /\ farOn = FALSE
    /\ recorded = [c \in Calls |-> "none"]
    /\ row = [f \in Finds |-> [call |-> None, text |-> "said", due |-> "said", is |-> "open"]]
    /\ link = TRUE /\ wire = <<>> /\ queue = <<>>
    /\ mode = "proxy" /\ riding = FALSE
    /\ panelCall = None
    /\ disclosure = [c \in Calls |-> "none"] /\ feed = [f \in Finds |-> Card("none", NotEdited)]
    /\ disk = [c \in Calls |-> "none"]
    /\ posted = <<>> /\ waiting = None
    /\ faults = 0
    /\ pressed = [c \in Calls |-> {}] /\ untold = {}
    /\ agreed = [f \in Finds |-> [is |-> "open", text |-> "said", due |-> "said"]]
    /\ shown = {}

Fault == faults < MaxFaults /\ faults' = faults + 1

----------------------------------------------------------------------------
(* The daemon.                                                               *)

Told(events) == IF link THEN queue \o events ELSE queue

\* start_session, for a call without an id: one is minted, so it is always new.
CallConnected ==
    /\ onLine = None /\ calls < MaxCalls
    /\ calls' = calls + 1 /\ onLine' = calls'
    /\ riding' = (mode = "direct")
    /\ IF daemonUp
         THEN /\ active' = calls'
              /\ recorded' = [recorded EXCEPT ![calls'] = "pending"]
              /\ queue' = Told(<<[kind |-> "started", of |-> calls'],
                                 [kind |-> "disclosure_needed", of |-> calls']>>)
         ELSE UNCHANGED <<active, recorded, queue>>
    /\ UNCHANGED <<daemonUp, farOn, row, link, wire, mode, screen, disk, posted, waiting,
                   faults, history>>

Found(f) ==
    /\ active # None /\ row[f].call = None
    /\ Cardinality({g \in Finds : row[g].call # None}) < MaxFinds
    /\ row' = [row EXCEPT ![f].call = active]
    /\ queue' = Told(<<[kind |-> IF f \in Facts THEN "fact" ELSE "action_item", of |-> f]>>)
    /\ UNCHANGED <<daemon, recorded, link, wire, mode, riding, screen, disk, posted, waiting,
                   faults, history>>

FarLost ==
    /\ farOn /\ farOn' = FALSE
    /\ queue' = Told(<<[kind |-> "far_lost", of |-> active]>>)
    /\ UNCHANGED <<calls, onLine, daemonUp, active, store, link, wire, mode, riding, screen,
                   disk, posted, waiting, faults, history>>

CallEnded ==
    /\ onLine # None /\ onLine' = None
    /\ active' = None /\ farOn' = FALSE /\ riding' = FALSE
    /\ queue' = IF active # None THEN Told(<<[kind |-> "ended", of |-> active]>>) ELSE queue
    /\ UNCHANGED <<calls, daemonUp, store, link, wire, mode, screen, disk, posted, waiting,
                   faults, history>>

\* disclosure_ack and disclosure_skip; a waiting send() gets its ack.
HandleCommand ==
    /\ daemonUp /\ wire # <<>>
    /\ LET cmd == Head(wire) IN
       /\ recorded' = [recorded EXCEPT ![cmd.of] = cmd.kind]
       /\ farOn' = (farOn \/ (cmd.kind = "disclosed" /\ active = cmd.of))
    /\ wire' = Tail(wire)
    /\ waiting' = None
    /\ UNCHANGED <<calls, onLine, daemonUp, active, row, link, queue, mode, riding, screen,
                   disk, posted, faults, history>>

Disconnected == queue' = Append(queue, [kind |-> "disconnected", of |-> None])

\* The handler raises, before or after the card was marked (the store is locked,
\* start_far fails), and with it ends the client's connection.
HandlerFails ==
    /\ Fault
    /\ daemonUp /\ wire # <<>>
    /\ \/ UNCHANGED recorded
       \/ recorded' = [recorded EXCEPT ![Head(wire).of] = Head(wire).kind]
    /\ link' = FALSE /\ wire' = <<>>
    /\ IF link THEN Disconnected ELSE UNCHANGED queue
    /\ untold' = untold \cup ({waiting} \cap Calls)
    /\ waiting' = None
    /\ UNCHANGED <<daemon, row, mode, riding, screen, disk, posted, pressed, agreed, shown>>

DaemonDies ==
    /\ Fault
    /\ daemonUp /\ daemonUp' = FALSE
    /\ active' = None /\ farOn' = FALSE
    /\ link' = FALSE /\ wire' = <<>>
    /\ IF link THEN Disconnected ELSE UNCHANGED queue
    /\ untold' = untold \cup ({waiting} \cap Calls)
    /\ waiting' = None
    /\ UNCHANGED <<calls, onLine, store, mode, riding, screen, disk, posted, pressed, agreed,
                   shown>>

DaemonStarts ==
    /\ ~daemonUp /\ daemonUp' = TRUE
    /\ UNCHANGED <<calls, onLine, active, farOn, store, socket, mode, riding, screen, disk,
                   posted, waiting, faults, history>>

----------------------------------------------------------------------------
(* The console's UI thread: one event of _drain.                             *)

Free == mode # "closed" /\ waiting = None

Show(c, state) == disclosure' = [disclosure EXCEPT ![c] = state]

\* A card that is made anew for a call takes the answer that was saved.
Drain ==
    /\ Free /\ queue # <<>>
    /\ queue' = Tail(queue)
    /\ LET ev == Head(queue) IN
       \/ /\ ev.kind \in {"started", "disclosure_needed"}
          /\ panelCall' = ev.of
          /\ IF ev.kind = "started" THEN UNCHANGED disclosure
             ELSE Show(ev.of, IF disk[ev.of] = "none" THEN "expanded" ELSE disk[ev.of])
          /\ UNCHANGED <<feed, shown, mode>>
       \/ /\ ev.kind \in {"fact", "action_item"}
          /\ feed' = [feed EXCEPT ![ev.of] = Card("shown", NotEdited)]
          /\ shown' = shown \cup {ev.of}
          /\ UNCHANGED <<panelCall, disclosure, mode>>
       \/ /\ ev.kind = "disconnected"
          /\ mode' = "direct"
          /\ UNCHANGED <<screen, shown>>
       \/ /\ ev.kind \in {"ended", "far_lost"}      \* a subtitle; nothing
          /\ UNCHANGED <<screen, shown, mode>>
    /\ UNCHANGED <<daemon, store, link, wire, riding, disk, posted, waiting, faults, pressed,
                   untold, agreed>>

----------------------------------------------------------------------------
(* DisclosureCard.                                                           *)

Post(msg) == posted' = Append(posted, msg)

\* action_disclose, action_skip
Answer(c, answer) ==
    /\ Free /\ disclosure[c] = "expanded"
    /\ Show(c, answer)
    /\ disk' = [disk EXCEPT ![c] = answer]
    /\ Post([kind |-> answer, of |-> c])
    /\ pressed' = [pressed EXCEPT ![c] = @ \cup {answer}]
    /\ UNCHANGED <<daemon, store, socket, mode, riding, panelCall, feed, waiting, faults,
                   untold, agreed, shown>>

----------------------------------------------------------------------------
(* CriticalFactCard, FactCard and ActionItemCard: the keys.                  *)

Operator(f) == Free /\ feed[f].at # "none"
Editing(f) == feed[f].at = "edit"
Buffer(f) == [text |-> feed[f].text, due |-> feed[f].due]
Left(f, at) == feed' = [feed EXCEPT ![f] = Card(at, NotEdited)]
Keep == UNCHANGED <<daemon, store, socket, mode, riding, panelCall, disclosure, disk, waiting,
                    faults, pressed, untold, shown>>

Decide(f, kind, edit, is) ==
    /\ Left(f, "none")
    /\ Post([kind |-> kind, of |-> f, as |-> edit])
    /\ agreed' = [agreed EXCEPT ![f] = [is |-> is, text |-> edit.text, due |-> edit.due]]

Confirm(f) ==
    /\ Operator(f) /\ ~Editing(f)
    /\ Decide(f, "confirm", NotEdited, "confirmed")
    /\ Keep

\* An action item has no key for it.
Dismiss(f) ==
    /\ Operator(f) /\ ~Editing(f)
    /\ f \in Facts
    /\ Decide(f, "dismiss", NotEdited, "dismissed")
    /\ Keep

\* [E], and what is typed; a fact has one field.
Edit(f) ==
    /\ Operator(f)
    /\ \E buffer \in Edits :
          /\ f \in Facts => buffer.due = "said"
          /\ feed' = [feed EXCEPT ![f] = Card("edit", buffer)]
    /\ UNCHANGED <<posted, agreed>> /\ Keep

Escape(f) ==
    /\ Operator(f) /\ Editing(f)
    /\ Left(f, "shown")
    /\ UNCHANGED <<posted, agreed>> /\ Keep

\* mutant: an empty buffer closes the card
EmptyCloses(f) == Left(f, "none")

EmptyCancels(f) == Left(f, "shown")

\* mutant: what was typed is confirmed without being sent along
CommitUnchanged(f) == Decide(f, "confirm", Buffer(f), "confirmed")

\* An item whose description was emptied keeps the one it had.
CommitText(f) ==
    Decide(f, "override",
           [Buffer(f) EXCEPT !.text = IF @ = "" THEN "said" ELSE @], "confirmed")

\* _commit_edit
Commit(f) ==
    /\ Operator(f) /\ Editing(f)
    /\ IF f \in Facts /\ Buffer(f).text = ""
         THEN EmptyCancels(f) /\ UNCHANGED <<posted, agreed>>
         ELSE CommitText(f)
    /\ Keep

----------------------------------------------------------------------------
(* The app's handlers of posted messages.                                    *)

Handling(kinds) ==
    Free /\ posted # <<>> /\ Head(posted).kind \in kinds /\ posted' = Tail(posted)

\* mutant: the answer is sent for the call the panel is at
SendForPanel(msg) == [kind |-> msg.kind, of |-> panelCall]

\* mutant: an answer in the card of an earlier call is not sent
SendIfCurrent(msg) == IF msg.of = panelCall THEN <<msg>> ELSE <<>>

Command(msg) == [kind |-> msg.kind, of |-> msg.of]
ToSend(msg) == <<Command(msg)>>

\* on_disclosure_acknowledged, on_disclosure_skipped: send() fails at once when
\* the connection is down; without a proxy nothing happens.
SendAnswer ==
    /\ Handling(Answers)
    /\ LET msg == Head(posted) IN
       IF mode = "proxy" /\ link
         THEN /\ wire' = wire \o ToSend(msg)
              /\ waiting' = IF ToSend(msg) = <<>> THEN None ELSE msg.of
              /\ UNCHANGED untold
         ELSE /\ untold' = IF mode = "proxy" THEN untold \cup {msg.of} ELSE untold
              /\ UNCHANGED <<wire, waiting>>
    /\ UNCHANGED <<daemon, store, link, queue, mode, riding, screen, disk, faults, pressed,
                   agreed, shown>>

\* No acknowledgement within ACK_TIMEOUT_S: "disclosure not recorded".
AckTimesOut ==
    /\ waiting # None
    /\ untold' = untold \cup {waiting}
    /\ waiting' = None
    /\ UNCHANGED <<daemon, store, socket, mode, riding, screen, disk, posted, faults, pressed,
                   agreed, shown>>

\* on_fact_*, on_action_item_*: one UPDATE.  A due date that was emptied is None,
\* which leaves the column alone.
Stored(r, msg) ==
    [r EXCEPT !.is = IF msg.kind = "dismiss" THEN "dismissed" ELSE "confirmed",
              !.text = IF msg.kind = "override" THEN msg.as.text ELSE @,
              !.due = IF msg.kind = "override" /\ msg.as.due # "" THEN msg.as.due ELSE @]

StoreDecision ==
    /\ Handling({"confirm", "dismiss", "override"})
    /\ LET msg == Head(posted) IN row' = [row EXCEPT ![msg.of] = Stored(@, msg)]
    /\ UNCHANGED <<daemon, recorded, socket, mode, riding, screen, disk, waiting, faults,
                   history>>

----------------------------------------------------------------------------
(* The console ends: quit, or an exception in a handler (the state file or   *)
(* the database cannot be written); and starts again.                        *)

Closed ==
    /\ mode' = "closed" /\ link' = FALSE
    /\ queue' = <<>> /\ posted' = <<>> /\ riding' = FALSE
    /\ panelCall' = None
    /\ disclosure' = [c \in Calls |-> "none"] /\ feed' = [f \in Finds |-> Card("none", NotEdited)]
    /\ waiting' = None /\ shown' = {}

Close ==
    /\ Fault /\ Free
    /\ Closed
    /\ UNCHANGED <<daemon, store, wire, disk, pressed, untold, agreed>>

\* _save_state raises after the card has taken the answer and before it is posted.
SaveFails(c, answer) ==
    /\ Fault
    /\ Free /\ disclosure[c] = "expanded"
    /\ Closed
    /\ UNCHANGED <<daemon, store, wire, disk, pressed, untold, agreed>>

StoreFails ==
    /\ Fault
    /\ Free /\ posted # <<>> /\ Head(posted).kind \notin Answers
    /\ Closed
    /\ UNCHANGED <<daemon, store, wire, disk, pressed, untold, agreed>>

\* on_mount.  Events broadcast before are not told again.
Open ==
    /\ mode = "closed"
    /\ mode' = IF daemonUp THEN "proxy" ELSE "direct"
    /\ link' = daemonUp /\ wire' = <<>>
    /\ UNCHANGED <<daemon, store, queue, riding, screen, disk, posted, waiting, faults,
                   history>>

----------------------------------------------------------------------------
Daemon == CallConnected \/ FarLost \/ CallEnded \/ HandleCommand \/ HandlerFails
          \/ DaemonDies \/ DaemonStarts
Handlers == SendAnswer \/ StoreDecision \/ AckTimesOut
Keys(f) == Confirm(f) \/ Dismiss(f) \/ Edit(f) \/ Escape(f) \/ Commit(f)

Next ==
    \/ Daemon
    \/ \E f \in Finds : Found(f) \/ Keys(f)
    \/ Drain
    \/ \E c \in Calls, answer \in Answers : Answer(c, answer) \/ SaveFails(c, answer)
    \/ Handlers
    \/ Close \/ StoreFails \/ Open

\* The UI thread drains the queue and handles messages, the daemon's thread for
\* the client handles its commands.
Fairness == WF_vars(Drain) /\ WF_vars(Handlers) /\ WF_vars(HandleCommand)

Spec == Init /\ [][Next]_vars /\ Fairness

----------------------------------------------------------------------------
(* Properties.                                                               *)

\* What the daemon records for a call, and its capture of the far party, is
\* what the operator answered in that call's card, with the cards of several
\* calls on the panel and answers in flight when a call ends (disclosure_ack).
AnswersAreTheOperators ==
    /\ \A c \in Calls : recorded[c] \in Answers => recorded[c] \in pressed[c]
    /\ farOn => "disclosed" \in pressed[active]

\* Whoever has answered in a card is heard by the daemon, unless the console says
\* it was not recorded, or has lost its connection, or has been closed.
AnswerIsHeard ==
    \A c \in Calls :
        (disclosure[c] \in Answers /\ link) ~>
            (recorded[c] = disclosure[c] \/ c \in untold \/ ~link)

\* A fact or an item the console has shown is on the panel until the operator
\* decides, and then the decision is in the store or on its way to it.
NothingFallsOffThePanel ==
    \A f \in shown :
        \/ feed[f].at # "none"
        \/ row[f].is # "open"
        \/ \E i \in DOMAIN posted : posted[i].of = f

\* A confirmed fact or item is kept with the text that the operator saw or typed
\* last, and with the due date unless that was emptied.
KeptAsAgreed ==
    \A f \in Finds : row[f].is = "confirmed" =>
        /\ agreed[f].is = "confirmed"
        /\ row[f].text = agreed[f].text
        /\ agreed[f].due # "" => row[f].due = agreed[f].due

\* What a call has brought up is dealt with as the operator has it: nothing falls off
\* the panel undecided, and what was agreed to is kept in the words agreed to.
FindsAreKept == NothingFallsOffThePanel /\ KeptAsAgreed
=============================================================================
