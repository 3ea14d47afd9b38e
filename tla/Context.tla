------------------------------- MODULE Context -------------------------------
(***************************************************************************)
(* What Iris remembers of a call while it lasts: ConversationContext keeps *)
(* the last turns word for word and a gist of the older ones, which a      *)
(* thread of its own for each turn that leaves the window writes anew;     *)
(* TranscriptContext asks the transcript store when both know nothing.     *)
(* One thread adds and looks up; the gist threads interleave with it.      *)
(* Nothing in the program makes either object yet: only the tests do.      *)
(*                                                                         *)
(* A turn is its number.  The gist is the set of the turns it tells of:    *)
(* the summary asked for keeps all it is given.                            *)
(***************************************************************************)
EXTENDS Naturals, Sequences, FiniteSets

CONSTANTS
    Topics,         \* what a turn or a question is about
    Exact,          \* topics with a number, an amount, a name or a code
    WindowMaxlen,   \* WINDOW_MAXLEN
    MaxAdded        \* bound: turns of the call

VARIABLES
    window,     \* _window
    about,      \* the topic of each turn so far
    gist,       \* _gist
    active,     \* _gist_active
    noticed,    \* _privacy_fired
    base,       \* of each gist thread that runs: what it read, by its turn
    started,    \* gist threads before their first step
    store,      \* whether there is a transcript store
    answer,     \* the last answer
    failed,     \* history: turns whose compression failed
    raced       \* history: turns written while another thread was compressing

contextVars == <<window, about, gist, active, noticed, base, started, store, answer, failed, raced>>

Turns == 1 .. Len(about)
Asking == DOMAIN base
Elements(s) == {s[i] : i \in DOMAIN s}

\* Turns on their way to the gist, or that it may have gone without.
Excused == started \cup Asking \cup failed \cup raced

Silence == [tier |-> "none", turns |-> <<>>, hedged |-> FALSE, denied |-> {}, excused |-> {}]

Init ==
    /\ window = <<>> /\ about = <<>> /\ gist = {} /\ active = FALSE /\ noticed = FALSE
    /\ base = [t \in {} |-> {}] /\ started = {} /\ store \in BOOLEAN /\ answer = Silence
    /\ failed = {} /\ raced = {}

------------------------------------------------------------------------------
Full == Len(window) >= WindowMaxlen
Pushed(w, t) == IF Len(w) < WindowMaxlen THEN Append(w, t) ELSE Append(Tail(w), t)

\* Taking the front after the append.
AddThenEvict ==
    /\ Len(about) < MaxAdded
    /\ \E topic \in Topics :
         LET t == Len(about) + 1 IN
            /\ about' = Append(about, topic)
            /\ window' = Pushed(window, t)
            /\ started' = IF Full THEN started \cup {window'[1]} ELSE started
    /\ noticed' = TRUE
    /\ UNCHANGED <<gist, active, base, store, answer, failed, raced>>

\* The turn that leaves is the one in front before the new one is appended.
Add ==
    /\ Len(about) < MaxAdded
    /\ \E topic \in Topics :
         LET t == Len(about) + 1 IN
            /\ about' = Append(about, topic)
            /\ window' = Pushed(window, t)
            /\ started' = IF Full THEN started \cup {window[1]} ELSE started
    /\ noticed' = TRUE
    /\ UNCHANGED <<gist, active, base, store, answer, failed, raced>>

------------------------------------------------------------------------------
(* _compress_turn: the gist is read under the lock, the model is asked     *)
(* without it, the answer is written over whatever the gist is by then.    *)

ReadGist(t) ==
    /\ t \in started
    /\ started' = started \ {t}
    /\ base' = [u \in Asking \cup {t} |-> IF u = t THEN gist ELSE base[u]]
    /\ UNCHANGED <<window, about, gist, active, noticed, store, answer, failed, raced>>

Over(t) == base' = [u \in Asking \ {t} |-> base[u]]

WriteGist(t) ==
    /\ t \in Asking
    /\ Over(t)
    /\ gist' = base[t] \cup {t}
    /\ active' = TRUE
    /\ raced' = IF Asking = {t} THEN raced ELSE raced \cup {t}
    /\ UNCHANGED <<window, about, noticed, started, store, answer, failed>>

CompressFails(t) ==
    /\ t \in Asking
    /\ Over(t)
    /\ failed' = failed \cup {t}
    /\ UNCHANGED <<window, about, gist, active, noticed, started, store, answer, raced>>

------------------------------------------------------------------------------
(* Looking something up.                                                   *)

Matching(ts, topic) == {t \in ts : about[t] = topic}

\* Newest first: the scores of a topic's turns are equal and the sort is stable.
Newest(w, topic) ==
    SelectSeq([i \in DOMAIN w |-> w[Len(w) + 1 - i]], LAMBDA t : about[t] = topic)

FirstTwo(s) == SubSeq(s, 1, IF Len(s) < 2 THEN Len(s) ELSE 2)

Hedged(ts) == \E t \in ts : about[t] \in Exact

InWindow(topic) == Matching(Elements(window), topic) # {}
InGist(topic) == active /\ Matching(gist, topic) # {}

Answered(tier, ts, hedged, denied) ==
    answer' = [tier |-> tier, turns |-> ts, hedged |-> hedged,
               denied |-> denied, excused |-> Excused]

\* A match in the gist is the whole gist.
GistInOrder == SelectSeq([t \in Turns |-> t], LAMBDA t : t \in gist)

\* The transcript's words are said of the far end, whoever said them.
FromTranscript(topic) ==
    \/ /\ store
       /\ \E t \in Matching(Turns, topic) : Answered("transcript", <<t>>, FALSE, {})
    \/ Answered("none", <<>>, FALSE, Matching(Turns, topic))

Lookup(topic) ==
    /\ \/ InWindow(topic) /\ Answered("window", FirstTwo(Newest(window, topic)), FALSE, {})
       \/ ~InWindow(topic) /\ InGist(topic) /\ Answered("gist", GistInOrder, Hedged(gist), {})
       \/ ~InWindow(topic) /\ ~InGist(topic) /\ FromTranscript(topic)
    /\ UNCHANGED <<window, about, gist, active, noticed, base, started, store, failed, raced>>

HasNotes == active /\ gist # {}

\* read_gist: "read me your notes".
ReadNotes ==
    /\ \/ HasNotes /\ Answered("notes", GistInOrder, FALSE, {})
       \/ ~HasNotes /\ Answered("unnoted", <<>>, FALSE, {})
    /\ UNCHANGED <<window, about, gist, active, noticed, base, started, store, failed, raced>>

Next ==
    \/ Add
    \/ \E t \in Turns : ReadGist(t) \/ WriteGist(t) \/ CompressFails(t)
    \/ \E topic \in Topics : Lookup(topic)
    \/ ReadNotes

Spec == Init /\ [][Next]_contextVars

------------------------------------------------------------------------------
\* A turn that was said can be found: it is in the window, in the gist, or on
\* its way there, unless its compression failed or another thread was at the
\* gist when it was written (_compress_turn).  So Iris denies only turns that
\* are on their way or were lost in one of these two ways.
SaidIsFound ==
    /\ Turns \subseteq Elements(window) \cup gist \cup Excused
    /\ answer.denied \subseteq answer.excused
==============================================================================
