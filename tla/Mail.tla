-------------------------------- MODULE Mail --------------------------------
(***************************************************************************)
(* The email skills: reading, triage and sending by voice, on a mailbox    *)
(* that others use too.                                                    *)
(*                                                                         *)
(* A skill runs on the thread of its turn.  A turn of the console that is  *)
(* late is left to itself and goes on while the next one runs ("late", see *)
(* Turns).  The skills share two holders without a lock: the message that  *)
(* "archive it" means, and the email that waits for its confirmation.      *)
(* Every call of the provider opens a connection of its own, which may     *)
(* fail before or after each command; the provider then answers that it    *)
(* could not, whatever the server has done.                                *)
(***************************************************************************)
EXTENDS Integers, FiniteSets, Sequences, SequencesExt, FiniteSetsExt

CONSTANTS
    Mails,          \* UIDs: natural numbers, the newer the greater
    Workers,        \* threads that run a skill: numbers, taken from the lowest
    Rosters,        \* the contacts that a name may match, by their email address
    Limit,          \* messages that are listed
    MaxTurns,       \* bound: turns
    MaxFailures     \* bound: commands that fail

VARIABLES
    box,            \* the server: of each message, where it is and how it is flagged
    triage,         \* _TriageState: current_id and inbox_ids
    pending,        \* _EmailPendingState: where the staged email goes
    roster,         \* the contacts that match the name: email addresses, or NoAddress
    worker,         \* of each thread: the skill it runs, and how far it is
    made,           \* turns made
    failures,
    flagged,        \* history: messages that another mail client has flagged as deleted
    heard,          \* history: the message last read out
    said,           \* history: the address in the prompt last said
    disturbed       \* history: turns have overlapped, or one was left to itself

mailbox == <<box, flagged>>
holders == <<triage, pending>>
history == <<heard, said, disturbed>>
vars == <<mailbox, holders, roster, worker, made, failures, history>>

NoMail == 0
NoAddress == "none"
Requests == {"list", "read", "mark", "archive", "send", "confirm", "cancel"}
Idle == [at |-> "idle", skill |-> "none", mail |-> NoMail, list |-> <<>>, to |-> NoAddress,
         late |-> FALSE]

Init ==
    /\ box = [m \in Mails |-> [came |-> m = Min(Mails), in |-> m = Min(Mails),
                               seen |-> FALSE, deleted |-> FALSE, copies |-> 0]]
    /\ triage = [current |-> NoMail, ids |-> <<>>]
    /\ pending = NoAddress
    /\ roster \in Rosters
    /\ worker = [w \in Workers |-> Idle]
    /\ made = 0
    /\ failures = 0
    /\ flagged = {}
    /\ heard = NoMail
    /\ said = NoAddress
    /\ disturbed = FALSE

-----------------------------------------------------------------------------
(* The others.                                                              *)

Arrive(m) ==
    /\ ~box[m].came
    /\ box' = [box EXCEPT ![m].came = TRUE, ![m].in = TRUE]
    /\ UNCHANGED <<flagged, holders, roster, worker, made, failures, history>>

\* Another mail client deletes a message: it stays until somebody expunges.
FlagElsewhere(m) ==
    /\ box[m].in
    /\ box' = [box EXCEPT ![m].deleted = TRUE]
    /\ flagged' = flagged \cup {m}
    /\ UNCHANGED <<holders, roster, worker, made, failures, history>>

EditRoster(contacts) ==
    /\ roster # contacts
    /\ roster' = contacts
    /\ UNCHANGED <<mailbox, holders, worker, made, failures, history>>

-----------------------------------------------------------------------------
(* A turn.                                                                  *)

Busy == {w \in Workers : worker[w].at # "idle"}

\* The message that is meant: the one named, or else the first of the list (to read it)
\* or the one read last (to mark or archive it).  NoMail: "Which email?"
Meant(skill, named) ==
    CASE named # NoMail -> named
      [] skill = "read" -> IF triage.ids = <<>> THEN NoMail ELSE triage.ids[1]
      [] OTHER -> triage.current

Run(w, skill, named) ==
    /\ worker[w].at = "idle" /\ \A v \in Workers : v < w => v \in Busy
    /\ made < MaxTurns
    /\ made' = made + 1
    /\ disturbed' = (disturbed \/ Busy # {})
    /\ LET mail == IF skill \in {"read", "mark", "archive"} THEN Meant(skill, named) ELSE NoMail
           asks == skill \in {"read", "mark", "archive"} /\ mail = NoMail
       IN worker' = [worker EXCEPT ![w] = [Idle EXCEPT
                        !.skill = skill, !.mail = mail, !.at = IF asks THEN "reply" ELSE "run"]]
    /\ UNCHANGED <<mailbox, holders, roster, failures, heard, said>>

At(w, skill, place) == worker[w].skill = skill /\ worker[w].at = place
Goto(w, place) == worker' = [worker EXCEPT ![w].at = place]

\* The connection fails: the provider answers None, False or nothing.
Fails(w) ==
    /\ failures < MaxFailures
    /\ failures' = failures + 1
    /\ Goto(w, "failed")

\* A command succeeds, or has its effect and the connection fails after it.
Passes(w, place) ==
    \/ Goto(w, place) /\ UNCHANGED failures
    \/ Fails(w)

\* run_with_masking's deadline passes: the answer will not be heard.
Abandon(w) ==
    /\ w \in Busy /\ ~worker[w].late
    /\ worker' = [worker EXCEPT ![w].late = TRUE]
    /\ disturbed' = TRUE
    /\ UNCHANGED <<mailbox, holders, roster, made, failures, heard, said>>

Reply(w) ==
    /\ worker[w].at \in {"reply", "failed"}
    /\ worker[w].skill # "list" \/ worker[w].at = "reply"
    /\ heard' = IF At(w, "read", "reply") /\ worker[w].mail # NoMail /\ ~worker[w].late
                THEN worker[w].mail ELSE heard
    /\ worker' = [worker EXCEPT ![w] = Idle]
    /\ UNCHANGED <<mailbox, holders, roster, made, failures, said, disturbed>>

-----------------------------------------------------------------------------
(* Reading.                                                                 *)

\* list_unread: the newest unseen ones, without those whose header cannot be fetched.
Search(w) ==
    /\ At(w, "list", "run")
    /\ LET unseen == {m \in Mails : box[m].in /\ ~box[m].seen}
           newest == {m \in unseen : Cardinality({n \in unseen : n > m}) < Limit}
       IN \E got \in SUBSET newest :
            /\ Cardinality(newest \ got) <= MaxFailures - failures
            /\ failures' = failures + Cardinality(newest \ got)
            /\ worker' = [worker EXCEPT ![w].at = "got",
                                        ![w].list = Reverse(SetToSortSeq(got, <))]
    /\ UNCHANGED <<mailbox, holders, roster, made, history>>

\* A search that fails is "No unread emails."
SearchFails(w) ==
    /\ At(w, "list", "run")
    /\ Fails(w)
    /\ UNCHANGED <<mailbox, holders, roster, made, history>>

Listed(w) ==
    /\ worker[w].skill = "list" /\ worker[w].at \in {"got", "failed"}
    /\ triage' = [triage EXCEPT !.ids = worker[w].list]
    /\ Goto(w, "reply")
    /\ UNCHANGED <<mailbox, pending, roster, made, failures, history>>

\* mutant: the message is the current one as soon as it is asked for
FetchAndHold(w) ==
    /\ At(w, "read", "run")
    /\ triage' = [triage EXCEPT !.current = worker[w].mail]
    /\ \/ box[worker[w].mail].in /\ Goto(w, "got") /\ UNCHANGED failures
       \/ ~box[worker[w].mail].in /\ Goto(w, "failed") /\ UNCHANGED failures
       \/ Fails(w)
    /\ UNCHANGED <<mailbox, pending, roster, made, history>>

\* get_message, read-only: the server does not mark it as seen.
Fetch(w) ==
    /\ At(w, "read", "run")
    /\ \/ box[worker[w].mail].in /\ Goto(w, "got") /\ UNCHANGED failures
       \/ ~box[worker[w].mail].in /\ Goto(w, "failed") /\ UNCHANGED failures
       \/ Fails(w)
    /\ UNCHANGED <<mailbox, holders, roster, made, history>>

Fetched(w) ==
    /\ At(w, "read", "got")
    /\ triage' = [triage EXCEPT !.current = worker[w].mail]
    /\ Goto(w, "reply")
    /\ UNCHANGED <<mailbox, pending, roster, made, failures, history>>

-----------------------------------------------------------------------------
(* Triage.  A command may have its effect although its answer is lost.       *)

MarkRead(w) ==
    /\ At(w, "mark", "run")
    /\ box' = [box EXCEPT ![worker[w].mail].seen = @ \/ box[worker[w].mail].in]
    /\ Passes(w, "reply")
    /\ UNCHANGED <<flagged, holders, roster, made, history>>

\* mutant: the answer of COPY is not looked at
CopyUnchecked(w) ==
    /\ At(w, "archive", "run")
    /\ \/ /\ box[worker[w].mail].in
          /\ box' = [box EXCEPT ![worker[w].mail].copies = @ + 1]
          /\ Passes(w, "copied")
       \/ /\ UNCHANGED box
          /\ failures < MaxFailures
          /\ failures' = failures + 1
          /\ Goto(w, "copied")
    /\ UNCHANGED <<flagged, holders, roster, made, history>>

\* COPY is refused for a message that is gone.
Copy(w) ==
    /\ At(w, "archive", "run")
    /\ \/ /\ box[worker[w].mail].in
          /\ box' = [box EXCEPT ![worker[w].mail].copies = @ + 1]
          /\ Passes(w, "copied")
       \/ UNCHANGED box /\ Fails(w)
       \/ ~box[worker[w].mail].in /\ UNCHANGED <<box, failures>> /\ Goto(w, "failed")
    /\ UNCHANGED <<flagged, holders, roster, made, history>>

\* Nobody looks at the answer of STORE.
FlagDeleted(w) ==
    /\ At(w, "archive", "copied")
    /\ \/ /\ box' = [box EXCEPT ![worker[w].mail].deleted = @ \/ box[worker[w].mail].in]
          /\ Passes(w, "stored")
       \/ /\ failures < MaxFailures
          /\ failures' = failures + 1
          /\ UNCHANGED box
          /\ Goto(w, "stored")
    /\ UNCHANGED <<flagged, holders, roster, made, history>>

\* EXPUNGE removes every flagged message, whoever flagged it.
Expunge(w) ==
    /\ At(w, "archive", "stored")
    /\ \/ /\ box' = [m \in Mails |->
                        IF box[m].deleted THEN [box[m] EXCEPT !.in = FALSE, !.deleted = FALSE]
                        ELSE box[m]]
          /\ Passes(w, "expunged")
       \/ UNCHANGED box /\ Fails(w)
    /\ UNCHANGED <<flagged, holders, roster, made, history>>

Archived(w) ==
    /\ At(w, "archive", "expunged")
    /\ triage' = [triage EXCEPT !.current = NoMail]
    /\ Goto(w, "reply")
    /\ UNCHANGED <<mailbox, pending, roster, made, failures, history>>

-----------------------------------------------------------------------------
(* Sending.                                                                 *)

\* _resolve_email_via_roster: the first contact that has an email address.
Resolved ==
    LET able == {i \in DOMAIN roster : roster[i] # NoAddress}
    IN IF able = {} THEN NoAddress ELSE roster[Min(able)]

\* A name without an email address stages nothing, and leaves what was staged.
StageEmail(w) ==
    /\ At(w, "send", "run")
    /\ pending' = IF Resolved = NoAddress THEN pending ELSE Resolved
    /\ said' = IF Resolved = NoAddress \/ worker[w].late THEN said ELSE Resolved
    /\ Goto(w, "reply")
    /\ UNCHANGED <<mailbox, triage, roster, made, failures, heard, disturbed>>

CancelEmail(w) ==
    /\ At(w, "cancel", "run")
    /\ pending' = NoAddress
    /\ Goto(w, "reply")
    /\ UNCHANGED <<mailbox, triage, roster, made, failures, history>>

\* mutant: the contact is looked up when the email is sent
ConfirmLookingUp(w) ==
    /\ At(w, "confirm", "run")
    /\ pending' = NoAddress
    /\ worker' = [worker EXCEPT ![w].to = Resolved,
                     ![w].at = IF pending = NoAddress THEN "reply" ELSE "sending"]
    /\ UNCHANGED <<mailbox, triage, roster, made, failures, history>>

\* The staged email is taken before it is sent: one that fails is not staged any more.
ConfirmEmail(w) ==
    /\ At(w, "confirm", "run")
    /\ pending' = NoAddress
    /\ worker' = [worker EXCEPT ![w].to = pending,
                     ![w].at = IF pending = NoAddress THEN "reply" ELSE "sending"]
    /\ UNCHANGED <<mailbox, triage, roster, made, failures, history>>

\* send: a failure after the server took the message is answered like any other.
SendEmail(w) ==
    /\ At(w, "confirm", "sending")
    /\ Passes(w, "reply")
    /\ UNCHANGED <<mailbox, holders, roster, made, history>>

-----------------------------------------------------------------------------
Step(w) ==
    \/ Search(w) \/ SearchFails(w) \/ Listed(w)
    \/ Fetch(w) \/ Fetched(w)
    \/ MarkRead(w)
    \/ Copy(w) \/ FlagDeleted(w) \/ Expunge(w) \/ Archived(w)
    \/ StageEmail(w) \/ CancelEmail(w) \/ ConfirmEmail(w) \/ SendEmail(w)
    \/ Reply(w)

Next ==
    \/ \E m \in Mails : Arrive(m) \/ FlagElsewhere(m)
    \/ \E contacts \in Rosters : EditRoster(contacts)
    \/ \E w \in Workers, skill \in Requests, m \in Mails \cup {NoMail} :
            Run(w, skill, m)
    \/ \E w \in Workers : Abandon(w) \/ Step(w)

Spec == Init /\ [][Next]_vars

-----------------------------------------------------------------------------
(* Properties.                                                              *)

\* Archiving loses nothing, wherever it stops: a message that has left the inbox is in
\* the archive, or somebody else has deleted it.
NothingVanishes ==
    \A m \in Mails : box[m].came =>
        box[m].in \/ box[m].copies > 0 \/ m \in flagged

\* "Archive it" is about the message that was read out last, or about none, as long as no
\* turn was left to itself: neither a read that fails nor a new list changes what it means.
ItIsWhatWasRead ==
    Busy = {} /\ ~disturbed => triage.current \in {NoMail, heard}

\* An email goes to the address that was said when the operator was asked, whatever has
\* become of the contact since.
SentWhereSaid ==
    \A w \in Workers : At(w, "confirm", "sending") /\ ~disturbed => worker[w].to = said
=============================================================================
