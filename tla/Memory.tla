-------------------------------- MODULE Memory --------------------------------
(***************************************************************************)
(* What Iris remembers of calls: the identity of the far end, the rolling  *)
(* window of the turns, the GistWorker that sums up what leaves it, and    *)
(* MemoryManager, which archives a call into the TranscriptStore, under    *)
(* the contact, on a thread of its own while the next call may begin.      *)
(*                                                                         *)
(* The archive reads the manager's fields as they are when it comes to     *)
(* them.  A call_start, a transaction and a worker's summary are a step    *)
(* each.  Nothing in the repository drives the manager but its tests: what *)
(* begins, binds and ends calls here is what they and the docstrings do.   *)
(***************************************************************************)
EXTENDS Naturals, Sequences, FiniteSets, Functions

CONSTANTS
    Contacts,
    Threads,        \* archive threads: each call_end starts one
    MaxCalls,       \* bound: calls, one after the other
    WindowMax,      \* _WINDOW_MAX
    EvictBatch,     \* _EVICT_BATCH
    MaxTurns,       \* bound: turns of a call
    MaxNotes,       \* bound: calls in which a note is taken
    MaxFails        \* bound: summaries that fail and joins that time out

VARIABLES
    calls,          \* how many calls there have been
    onCall,         \* the call there is, or 0
    identity,       \* FarEndIdentity: of the present call
    active,         \* MemoryManager._active_*: whose they are
    said,           \* per call: how many turns
    window,         \* per call: RollingWindow._deque
    bound,          \* per call: RollingWindow._contact_id
    inbox,          \* per call: GistWorker._q, with 0 for None
    worker,         \* per call: its GistWorker runs
    gist,           \* per call: GistStore: the turns its summaries cover
    notes,          \* per call: whether a note was taken
    session,        \* SESSIONS: contact, whether ended, turns in final_gist
    rows,           \* EMBEDDINGS: <<session, contact, kind, call the text is from>>
    archive,        \* per thread: where _archive is, and what it has read
    fails,
    \* history
    overtaken,      \* calls being archived when the next one started, and calls whose
                    \* worker was stopped by the archive of the one before
    forgotten       \* per call: turns lost by a failed summary or an early join

call == <<calls, onCall, identity, active>>
layers == <<said, window, bound, inbox, worker, gist, notes>>
store == <<session, rows>>
vars == <<call, layers, store, archive, fails, overtaken, forgotten>>

Numbers == 1 .. MaxCalls
Turns == 1 .. MaxTurns
None == 0
Sentinel == "0"         \* SENTINEL_ID
Unidentified == ""
Whom == Contacts \cup {Unidentified}
NoRow == [contact |-> Unidentified, ended |-> FALSE, gist |-> {}]
Idle == [at |-> "none", of |-> None, contact |-> Unidentified, worker |-> None, gist |-> {}]
Over == [Idle EXCEPT !.at = "over"]
Begins(k) == [Idle EXCEPT !.at = "check", !.of = k]

TypeOK ==
    /\ calls \in 0 .. MaxCalls /\ onCall \in 0 .. MaxCalls /\ active \in 0 .. MaxCalls
    /\ identity \in Whom \cup {Sentinel}
    /\ said \in [Numbers -> 0 .. MaxTurns] /\ window \in [Numbers -> Seq(Turns)]
    /\ bound \in [Numbers -> Whom]
    /\ inbox \in [Numbers -> Seq(SUBSET Turns)] /\ worker \in [Numbers -> BOOLEAN]
    /\ gist \in [Numbers -> SUBSET Turns] /\ notes \in [Numbers -> BOOLEAN]
    /\ session \in [Numbers -> [contact : Whom \cup {Sentinel}, ended : BOOLEAN, gist : SUBSET Turns]]
    /\ rows \subseteq (Numbers \X Contacts \X {"turn", "gist", "note"} \X Numbers)
    /\ archive \in [Threads ->
          [at : {"none", "over", "check", "contact", "close", "shutdown", "join", "read",
                 "end", "embed", "notes"},
           of : 0 .. MaxCalls, contact : Whom \cup {Sentinel}, worker : 0 .. MaxCalls,
           gist : SUBSET Turns]]
    /\ fails \in 0 .. MaxFails
    /\ overtaken \subseteq Numbers /\ forgotten \in [Numbers -> SUBSET Turns]

Init ==
    /\ calls = 0 /\ onCall = None /\ identity = Unidentified /\ active = None
    /\ said = [k \in Numbers |-> 0] /\ window = [k \in Numbers |-> <<>>]
    /\ bound = [k \in Numbers |-> Unidentified]
    /\ inbox = [k \in Numbers |-> <<>>] /\ worker = [k \in Numbers |-> FALSE]
    /\ gist = [k \in Numbers |-> {}] /\ notes = [k \in Numbers |-> FALSE]
    /\ session = [k \in Numbers |-> NoRow] /\ rows = {}
    /\ archive = [t \in Threads |-> Idle]
    /\ fails = 0 /\ overtaken = {} /\ forgotten = [k \in Numbers |-> {}]

Fail == fails < MaxFails /\ fails' = fails + 1

----------------------------------------------------------------------------
(* TranscriptStore.                                                          *)

\* For a caller who is known
StartSession(k, who) == session' = [session EXCEPT ![k].contact = who]

\* An upsert
Rebind(k, who) == session' = [session EXCEPT ![k].contact = who]

HasSession(k) == session[k].contact # Unidentified

EndSession(k) == session' = [session EXCEPT ![k].ended = @ \/ HasSession(k)]

\* mutant: a session may end again
EndAgain(row, g) == [row EXCEPT !.ended = TRUE, !.gist = g]

EndWithGist(row, g) == IF row.ended THEN row ELSE [row EXCEPT !.ended = TRUE, !.gist = g]

InsertEmbedding(k, who, kind, from) == rows' = rows \cup {<<k, who, kind, from>>}

----------------------------------------------------------------------------
(* A call.                                                                   *)

Archiving == {archive[t].of : t \in {t \in Threads : archive[t].at \notin {"none", "over"}}}

\* call_start, after start_session for a caller who is known
CallStart(who) ==
    LET k == calls + 1 IN
    /\ onCall = None /\ calls < MaxCalls
    /\ calls' = k /\ onCall' = k /\ active' = k /\ identity' = who
    /\ StartSession(k, who)
    /\ bound' = [bound EXCEPT ![k] = who]
    /\ worker' = [worker EXCEPT ![k] = TRUE]
    /\ overtaken' = overtaken \cup Archiving
    /\ UNCHANGED <<said, window, inbox, gist, notes, rows, archive, fails, forgotten>>

\* MemoryStore.append_turn.  A turn of nobody known is in the window and then raises.
AppendTurn ==
    LET k == onCall
        full == Len(window[k]) = WindowMax
        turn == said[k] + 1
        kept == IF full THEN SubSeq(window[k], EvictBatch + 1, WindowMax) ELSE window[k]
    IN
    /\ k # None /\ turn \in Turns
    /\ said' = [said EXCEPT ![k] = turn]
    /\ window' = [window EXCEPT ![k] = Append(kept, turn)]
    /\ inbox' = IF full
                  THEN [inbox EXCEPT ![k] = Append(@, {window[k][i] : i \in 1 .. EvictBatch})]
                  ELSE inbox
    /\ IF bound[k] = Unidentified THEN UNCHANGED rows ELSE InsertEmbedding(k, bound[k], "turn", k)
    /\ UNCHANGED <<call, bound, worker, gist, notes, session, archive, fails, overtaken, forgotten>>

\* add_note: to the list of the call that started last
AddNote ==
    /\ active # None /\ ~notes[active]
    /\ Cardinality({k \in Numbers : notes[k]}) < MaxNotes
    /\ notes' = [notes EXCEPT ![active] = TRUE]
    /\ UNCHANGED <<call, said, window, bound, inbox, worker, gist, store, archive, fails,
                   overtaken, forgotten>>

\* FarEndIdentity.bind, and rebind_session, an upsert
Bind(who) ==
    /\ onCall # None /\ identity # Sentinel /\ identity # who
    /\ identity' = who
    /\ Rebind(onCall, who)
    /\ UNCHANGED <<calls, onCall, active, layers, rows, archive, fails, overtaken, forgotten>>

\* make_private, which is final
MakePrivate ==
    /\ onCall # None /\ identity # Sentinel
    /\ identity' = Sentinel
    /\ Rebind(onCall, Sentinel)
    /\ UNCHANGED <<calls, onCall, active, layers, rows, archive, fails, overtaken, forgotten>>

\* call_end, which may be called more than once
CallEnd(t) ==
    /\ calls # 0 /\ archive[t].at = "none"
    /\ onCall' = None /\ identity' = Unidentified
    /\ archive' = [archive EXCEPT ![t] = Begins(calls)]
    /\ UNCHANGED <<calls, active, layers, store, fails, overtaken, forgotten>>

----------------------------------------------------------------------------
(* GistWorker.run.                                                           *)

Summarise(k) ==
    /\ worker[k] /\ inbox[k] # <<>>
    /\ inbox' = [inbox EXCEPT ![k] = Tail(@)]
    /\ LET batch == Head(inbox[k]) IN
       \/ batch = {} /\ worker' = [worker EXCEPT ![k] = FALSE]
          /\ UNCHANGED <<gist, fails, forgotten>>
       \/ batch # {} /\ gist' = [gist EXCEPT ![k] = @ \cup batch]
          /\ UNCHANGED <<worker, fails, forgotten>>
       \/ batch # {} /\ Fail /\ forgotten' = [forgotten EXCEPT ![k] = @ \cup batch]
          /\ UNCHANGED <<worker, gist>>
    /\ UNCHANGED <<call, said, window, bound, notes, store, archive, overtaken>>

----------------------------------------------------------------------------
(* MemoryManager._archive.                                                   *)

At(t, place) == archive[t].at = place
Goes(t, a) == archive' = [archive EXCEPT ![t] = a]
GoesTo(t, place) == Goes(t, [archive[t] EXCEPT !.at = place])
NoMore == UNCHANGED <<fails, overtaken, forgotten>>

Check(t) ==
    /\ At(t, "check")
    /\ IF session[archive[t].of].ended THEN Goes(t, Over) ELSE GoesTo(t, "contact")
    /\ UNCHANGED <<call, layers, store>> /\ NoMore

\* mutant: everybody is archived who has a row
HasRow(who) == who # Unidentified

IsArchived(who) == who \notin {Unidentified, Sentinel}

ReadContact(t) ==
    LET who == session[archive[t].of].contact IN
    /\ At(t, "contact")
    /\ Goes(t, [archive[t] EXCEPT !.at = IF IsArchived(who) THEN "shutdown" ELSE "close",
                                  !.contact = who])
    /\ UNCHANGED <<call, layers, store>> /\ NoMore

\* end_session, of no row if the caller was never identified
Close(t) ==
    /\ At(t, "close")
    /\ EndSession(archive[t].of) /\ Goes(t, Over)
    /\ UNCHANGED <<call, layers, rows>> /\ NoMore

\* The worker that is stopped is that of the call that started last.
Shutdown(t) ==
    /\ At(t, "shutdown")
    /\ inbox' = [inbox EXCEPT ![active] = Append(@, {})]
    /\ Goes(t, [archive[t] EXCEPT !.at = "join", !.worker = active])
    /\ overtaken' = overtaken \cup ({active} \ {archive[t].of})
    /\ UNCHANGED <<call, said, window, bound, worker, gist, notes, store, fails, forgotten>>

\* mutant: it is not waited for
Early(w) == TRUE

Stopped(w) == ~worker[w]

Join(t) ==
    /\ At(t, "join") /\ GoesTo(t, "read")
    /\ \/ Stopped(archive[t].worker) /\ UNCHANGED <<fails, forgotten>>
       \/ /\ ~Stopped(archive[t].worker) /\ Fail
          /\ forgotten' = [forgotten EXCEPT ![archive[t].worker] = Turns]
    /\ UNCHANGED <<call, layers, store, overtaken>>

Last(s, n) == {s[i] : i \in {i \in DOMAIN s : i > Len(s) - n}}

\* The running gist and the last ten turns
Read(t) ==
    /\ At(t, "read")
    /\ Goes(t, [archive[t] EXCEPT !.at = "end",
                                  !.gist = gist[active] \cup Last(window[active], EvictBatch),
                                  !.worker = active])
    /\ UNCHANGED <<call, layers, store>> /\ NoMore

\* _qwen_summarise, which answers nothing when it fails, and end_session_with_gist
End(t) ==
    /\ At(t, "end")
    /\ \/ /\ session' = [session EXCEPT ![archive[t].of] = EndWithGist(@, archive[t].gist)]
          /\ GoesTo(t, "embed")
          /\ UNCHANGED <<fails, forgotten>>
       \/ /\ session' = [session EXCEPT ![archive[t].of] = EndWithGist(@, {})]
          /\ GoesTo(t, "notes")
          /\ Fail /\ forgotten' = [forgotten EXCEPT ![archive[t].of] = Turns]
    /\ UNCHANGED <<call, layers, rows, overtaken>>

Insert(t, kind, from) == InsertEmbedding(archive[t].of, archive[t].contact, kind, from)

\* With or without a vector
EmbedGist(t) ==
    /\ At(t, "embed") /\ GoesTo(t, "notes")
    /\ Insert(t, "gist", archive[t].worker)
    /\ UNCHANGED <<call, layers, session>> /\ NoMore

EmbedNotes(t) ==
    /\ At(t, "notes") /\ Goes(t, Over)
    /\ IF notes[active] THEN Insert(t, "note", active) ELSE UNCHANGED rows
    /\ UNCHANGED <<call, layers, session>> /\ NoMore

----------------------------------------------------------------------------
Archive(t) ==
    Check(t) \/ ReadContact(t) \/ Close(t) \/ Shutdown(t) \/ Join(t) \/ Read(t) \/ End(t)
    \/ EmbedGist(t) \/ EmbedNotes(t)

Next ==
    \/ \E who \in Whom : CallStart(who)
    \/ AppendTurn \/ AddNote \/ MakePrivate
    \/ \E who \in Contacts : Bind(who)
    \/ \E k \in Numbers : Summarise(k)
    \/ \E t \in Threads : CallEnd(t) \/ Archive(t)

Spec == Init /\ [][Next]_vars

----------------------------------------------------------------------------
(* Properties.                                                               *)

\* What a call was archived as stays, however often it is ended (is_session_ended,
\* end_session_with_gist).
ArchivedOnce ==
    [][ \A k \in Numbers : session[k].ended =>
            session'[k].ended /\ session'[k].gist = session[k].gist ]_vars

\* A call that ended unidentified or private has neither gist nor notes of its own in
\* the store; the gist and the notes stored for a call are its own, and its final gist
\* covers every turn that had left the window, unless a call started while the one
\* before was archived, or a summary failed or was not waited for (_archive).
ArchiveIsOfItsCall ==
    /\ \A r \in rows : r[3] # "turn" =>
          /\ session[r[1]].contact \in Contacts
          /\ r[4] = r[1] \/ r[1] \in overtaken
    /\ \A k \in Numbers : session[k].ended /\ k \notin overtaken /\ IsArchived(session[k].contact) =>
          (Turns \ Range(window[k])) \cap (1 .. said[k]) \subseteq session[k].gist \cup forgotten[k]
=============================================================================
