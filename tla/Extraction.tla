----------------------------- MODULE Extraction -----------------------------
(***************************************************************************)
(* Layer 1 of the call card: what L1CaptureProcessor takes from a turn,    *)
(* and how the turns reach it.                                             *)
(*                                                                         *)
(* The daemon has one processor for all its calls.  Each call has a reader *)
(* thread for each of its pipelines, the operator's and the far party's,   *)
(* which hand it their utterances without a lock; the processor keeps the  *)
(* last two texts (a cue word reaches on to the turns after it) and the    *)
(* session it stamps on what it finds.  When a call ends its readers are   *)
(* joined for at most five seconds: one that is busy for longer goes on    *)
(* into the next call, with what its pipe still holds.  A far reader that  *)
(* a second acknowledgement has replaced is not even joined, and hears on. *)
(*                                                                         *)
(* A text is what the patterns find in it (Said), in the order of the      *)
(* text; a sum is in cents; a spoken number word is its number.  Whether a *)
(* fact is marked as critical is left out.                                 *)
(***************************************************************************)
EXTENDS Integers, Sequences, SequencesExt, FiniteSetsExt

CONSTANTS
    Utterances,     \* texts that may be said
    Said,           \* of each of them: what the patterns find in it
    Today,          \* the date of the calls
    MaxCalls,       \* bound: calls
    MaxTurns,       \* bound: turns of all calls together
    MaxFailures     \* bound: writes to the store that fail

VARIABLES
    call,           \* the call in progress, or None
    calls,          \* calls begun
    session,        \* processor.session_id
    cues,           \* processor._cue_ctx: does the text have a cue word?
    reader,         \* each reader thread, and the turn it is working on
    loose,          \* readers that do not stop with their call
    transcript,     \* of each call: its turns, text and channel
    rows,           \* captured_facts and action_items; equal rows of a turn are one
    failures,       \* writes that failed
    late,           \* history: turns still at work, or heard, after their call's end
    dropped         \* history: turns of which something was lost

vars == <<call, calls, session, cues, reader, loose, transcript, rows, failures, late, dropped>>

None == 0
\* A call's pipelines, "again" being the far one of a second acknowledgement.
Pipelines == {"operator", "far", "again"}
Readers == (1 .. MaxCalls) \X Pipelines
Channel(r) == IF r[2] = "operator" THEN "operator" ELSE "far"

-----------------------------------------------------------------------------
(* Numbers in words.                                                        *)

Tens == {20, 30, 40, 50, 60, 70, 80, 90}
Mults == {100, 1000, 1000000}
NumberWords == (0 .. 19) \cup Tens \cup Mults

\* A thousand or a million closes the group of words before it.
AddWord(sum, w) ==
    IF w \notin Mults THEN [sum EXCEPT !.current = @ + w]
    ELSE LET group == (IF sum.current = 0 THEN 1 ELSE sum.current) * w
         IN IF w >= 1000 THEN [total |-> sum.total + group, current |-> 0]
            ELSE [sum EXCEPT !.current = group]

\* 0 where the code has None.
WordsToNumber(words) ==
    LET sum == FoldLeft(AddWord, [total |-> 0, current |-> 0], words)
    IN sum.total + sum.current

\* In cents.  A last word that is a multiple of ten is cents: forty-seven fifty.
SpokenToAmount(words) ==
    IF Len(words) >= 2 /\ Last(words) \in Tens /\ WordsToNumber(Front(words)) > 0
    THEN 100 * WordsToNumber(Front(words)) + Last(words)
    ELSE 100 * WordsToNumber(words)

-----------------------------------------------------------------------------
(* Dates.                                                                   *)

LeapYear(year) == year % 4 = 0 /\ (year % 100 # 0 \/ year % 400 = 0)
MonthDays(year, month) ==
    CASE month = 2 -> IF LeapYear(year) THEN 29 ELSE 28
      [] month \in {4, 6, 9, 11} -> 30
      [] OTHER -> 31

Before(d, e) ==
    \/ d.year < e.year
    \/ d.year = e.year /\ d.month < e.month
    \/ d.year = e.year /\ d.month = e.month /\ d.day < e.day

MonthOn(date, n) ==
    LET m == date.month - 1 + n
    IN [year |-> date.year + m \div 12, month |-> (m % 12) + 1]

NoDate == [year |-> 0, month |-> 0, day |-> 0]

\* The first of this month and the two after it that has the day, after today.
RollForward(today, day) ==
    LET candidate(n) == [day |-> day] @@ MonthOn(today, n)
        fits == {n \in 0 .. 2 : /\ day <= MonthDays(candidate(n).year, candidate(n).month)
                                /\ Before(today, candidate(n))}
    IN IF fits = {} THEN NoDate ELSE candidate(Min(fits))

\* A span that the calendar does not have: the 0th, or a time like 2:75.
Malformed(span, today) ==
    \/ span.minute > 59
    \/ span.dated /\ Before(span.date, today) /\ span.dom = 0

\* The date a span stands for.  dom is the day in "the 5th"; 99 if there is none.
DateOf(span, today) ==
    CASE ~span.dated \/ span.date = today -> NoDate
      [] Before(today, span.date) -> span.date
      [] OTHER -> IF span.dom = 99 THEN NoDate ELSE RollForward(today, span.dom)

-----------------------------------------------------------------------------
(* What is in a text.                                                       *)

\* The first of each value counts.
Once(s) ==
    FoldLeft(LAMBDA seen, x : IF x \in ToSet(seen) THEN seen ELSE Append(seen, x), <<>>, s)

Where(s, Test(_)) == SelectSeq(s, Test)

Each(s, F(_)) == [i \in DOMAIN s |-> F(s[i])]

Phones(u) ==
    LET Possible(p) == p.possible
        Found(p) == [kind |-> "phone", value |-> p.number]
    IN Each(Where(u.phones, Possible), Found)

\* An identifier has a digit and a letter; "number", "code" and the like are not one.
CueIds(u, hasCue) ==
    LET IsId(c) == c.digits /\ c.letters /\ ~c.secondary
        Found(c) == [kind |-> "case_id", value |-> c.id]
    IN IF hasCue THEN Each(Once(Where(u.codes, IsId)), Found) ELSE <<>>

\* Spoken sums have two number words, or say dollars.
Amounts(u) ==
    LET IsSum(s) == (Len(s.words) >= 2 \/ s.dollars) /\ SpokenToAmount(s.words) > 0
        Cents(s) == SpokenToAmount(s.words)
        Found(v) == [kind |-> "amount", value |-> v]
    IN Each(Once(u.figures \o Each(Where(u.spoken, IsSum), Cents)), Found)

Dates(u, today) ==
    LET Value(s) == DateOf(s, today)
        IsDate(d) == d # NoDate
        Found(d) == [kind |-> "date", value |-> d]
    IN Each(Once(Where(Each(u.spans, Value), IsDate)), Found)

\* Each promise is due on the first date of the turn.
Actions(u, today) ==
    LET due == IF Dates(u, today) = <<>> THEN NoDate ELSE Dates(u, today)[1].value
    IN [i \in 1 .. u.promises |-> [kind |-> "action_item", value |-> due]]

Names(u, channel) ==
    LET Found(n) == [kind |-> "name", value |-> n]
    IN IF channel = "far" THEN Each(u.names, Found) ELSE <<>>

\* is_hallucinated_segment: blank, likely no speech, or words the model doubts.
Gated(u) == u.noise # {}

\* The dates are extracted before everything else, and an exception loses the turn.
Raises(u) == \E i \in DOMAIN u.spans : Malformed(u.spans[i], Today)

-----------------------------------------------------------------------------

Idle == [at |-> "idle", turn |-> 0, hasCue |-> FALSE, moved |-> FALSE, facts |-> <<>>]

Stamped(facts) == Each(facts, LAMBDA f : f @@ [session |-> session])

Init ==
    /\ call = None
    /\ calls = 0
    /\ session = None
    /\ cues = <<>>
    /\ reader = [r \in Readers |-> Idle]
    /\ loose = {}
    /\ transcript = [c \in 1 .. MaxCalls |-> <<>>]
    /\ rows = {}
    /\ failures = 0
    /\ late = {}
    /\ dropped = {}

\* mutant: the session is stamped when the processor is made
StartUnstamped ==
    /\ call = None
    /\ calls < MaxCalls
    /\ calls' = calls + 1
    /\ call' = calls + 1
    /\ session' = IF session = None THEN calls + 1 ELSE session
    /\ UNCHANGED <<cues, reader, loose, transcript, rows, failures, late, dropped>>

\* start_operator
Start ==
    /\ call = None
    /\ calls < MaxCalls
    /\ calls' = calls + 1
    /\ call' = calls + 1
    /\ session' = calls + 1
    /\ UNCHANGED <<cues, reader, loose, transcript, rows, failures, late, dropped>>

\* A second start of the far transcriber: nothing refers to the first reader any more.
StartAgain ==
    /\ call # None
    /\ loose' = loose \cup {<<call, "far">>}
    /\ UNCHANGED <<call, calls, session, cues, reader, transcript, rows, failures, late, dropped>>

\* stop: the readers that are still busy after the join go on.
Stop ==
    LET busy == {r \in Readers : r[1] = call /\ reader[r].at # "idle"} IN
    /\ call # None
    /\ loose' = loose \cup busy
    /\ late' = late \cup {<<call, reader[r].turn>> : r \in busy}
    /\ call' = None
    /\ UNCHANGED <<calls, session, cues, reader, transcript, rows, failures, dropped>>

Total == MapThenSumSet(LAMBDA c : Len(transcript[c]), 1 .. MaxCalls)

\* A cue word in the text itself, or in the first one looked back at, ends the look at
\* once; otherwise it goes through the deque ("looking").
Looked(u) == u.cue \/ (cues # <<>> /\ Head(cues))

\* A call's readers hear while it lasts, loose ones whenever there is something to hear.
Hearing(r) ==
    \/ r \in loose
    \/ call = r[1] /\ (r[2] = "again" => <<call, "far">> \in loose)

\* An utterance joins its own session's transcript; one that the ASR gate takes for noise
\* goes no further, and of one with a malformed date nothing is extracted.
Hear(r, u) ==
    /\ Hearing(r)
    /\ reader[r].at = "idle"
    /\ Total < MaxTurns
    /\ LET turn == Len(transcript[r[1]]) + 1
           worked == [Idle EXCEPT !.turn = turn]
       IN /\ transcript' = [transcript EXCEPT ![r[1]] =
                                Append(@, [text |-> u, channel |-> Channel(r)])]
          /\ late' = IF call = r[1] THEN late ELSE late \cup {<<r[1], turn>>}
          /\ \/ Gated(Said[u]) /\ UNCHANGED <<reader, dropped>>
             \/ /\ ~Gated(Said[u]) /\ Raises(Said[u])
                /\ reader' = [reader EXCEPT ![r] = [worked EXCEPT !.at = "done"]]
                /\ dropped' = dropped \cup {<<r[1], turn>>}
             \/ /\ ~Gated(Said[u]) /\ ~Raises(Said[u])
                /\ reader' = [reader EXCEPT ![r] =
                        [worked EXCEPT !.at = IF Looked(Said[u]) THEN "looked" ELSE "looking",
                                       !.hasCue = Looked(Said[u]) \/ TRUE \in ToSet(cues),
                                       !.facts = Stamped(Phones(Said[u]))]]
                /\ UNCHANGED dropped
    /\ UNCHANGED <<call, calls, session, cues, loose, rows, failures>>

Text(r) == Said[transcript[r[1]][reader[r].turn].text]

Rest(r) ==
    LET u == Text(r)
    IN CueIds(u, reader[r].hasCue) \o Amounts(u) \o Dates(u, Today) \o Actions(u, Today)
           \o Names(u, Channel(r))

Extract(r) ==
    /\ reader[r].at \in {"looked", "looking"}
    /\ reader' = [reader EXCEPT ![r].at = "done", ![r].facts = @ \o Stamped(Rest(r))]
    /\ UNCHANGED <<call, calls, session, cues, loose, transcript, rows, failures, late, dropped>>

\* The other reader appended to the deque while this one went through it.
LookFails(r) ==
    /\ reader[r].at = "looking" /\ reader[r].moved
    /\ reader' = [reader EXCEPT ![r].at = "done", ![r].facts = <<>>]
    /\ dropped' = dropped \cup {<<r[1], reader[r].turn>>}
    /\ UNCHANGED <<call, calls, session, cues, loose, transcript, rows, failures, late>>

Remember(r) ==
    /\ reader[r].at = "done"
    /\ cues' = LET all == Append(cues, Text(r).cue)
               IN IF Len(all) > 2 THEN Tail(all) ELSE all
    /\ reader' = [q \in Readers |->
                    IF q = r THEN [reader[r] EXCEPT !.at = "storing"]
                    ELSE [reader[q] EXCEPT !.moved = @ \/ reader[q].at = "looking"]]
    /\ UNCHANGED <<call, calls, session, loose, transcript, rows, failures, late, dropped>>

RowOf(r, f) == f @@ [call |-> r[1], turn |-> reader[r].turn]

Store(r) ==
    /\ reader[r].at = "storing"
    /\ rows' = rows \cup {RowOf(r, f) : f \in ToSet(reader[r].facts)}
    /\ reader' = [reader EXCEPT ![r] = Idle]
    /\ UNCHANGED <<call, calls, session, cues, loose, transcript, failures, late, dropped>>

\* A write that raises loses the rest of the turn.
StoreFails(r, n) ==
    /\ reader[r].at = "storing"
    /\ failures < MaxFailures
    /\ failures' = failures + 1
    /\ rows' = rows \cup {RowOf(r, reader[r].facts[i]) : i \in 1 .. n}
    /\ dropped' = dropped \cup {<<r[1], reader[r].turn>>}
    /\ reader' = [reader EXCEPT ![r] = Idle]
    /\ UNCHANGED <<call, calls, session, cues, loose, transcript, late>>

Next ==
    \/ Start \/ StartAgain \/ Stop
    \/ \E r \in Readers :
        \/ \E u \in Utterances : Hear(r, u)
        \/ Extract(r) \/ LookFails(r) \/ Remember(r) \/ Store(r)
        \/ \E n \in 0 .. Len(reader[r].facts) - 1 : StoreFails(r, n)

Spec == Init /\ [][Next]_vars

-----------------------------------------------------------------------------
(* Properties.                                                              *)

\* A turn that was heard and worked out while its call lasted is filed under that call,
\* even by a reader that a second acknowledgement has replaced and whatever other calls'
\* readers are doing; and no turn is ever filed under an earlier call than its own.  Of the
\* turns that outlast their call no more can be said: what is worked out after the five
\* seconds of the join, or heard on by a replaced reader, is stamped with whatever call has
\* begun last.
FactsAreOfTheirCall ==
    \A row \in rows :
        /\ row.session >= row.call
        /\ row.session = row.call \/ <<row.call, row.turn>> \in late

\* What is said in a turn that is over has its rows, whatever the other channel does
\* meanwhile: every number, sum and promise, and the far party's names.  Only a turn that
\* was gated as noise, or in which the extraction or the store failed, is without them.
WhatIsSaidIsKept ==
    \A c \in 1 .. MaxCalls : \A t \in DOMAIN transcript[c] :
        LET u == Said[transcript[c][t].text]
            channel == transcript[c][t].channel
            owed == ToSet(Phones(u) \o Amounts(u) \o Actions(u, Today) \o Names(u, channel))
        IN \/ Gated(u)
           \/ <<c, t>> \in dropped
           \/ \E r \in Readers : r[1] = c /\ reader[r].turn = t
           \/ \A f \in owed : \E row \in rows :
                 /\ row.call = c /\ row.turn = t
                 /\ row.kind = f.kind /\ row.value = f.value

\* A number as it is said.
Below100(n) == CASE n = 0 -> <<>>
                 [] n < 20 \/ n % 10 = 0 -> <<n>>
                 [] OTHER -> <<n - (n % 10), n % 10>>
Below1000(n) == (IF n >= 100 THEN <<n \div 100, 100>> ELSE <<>>) \o Below100(n % 100)
InWords(n) ==
    (IF n >= 1000 THEN Below1000(n \div 1000) \o <<1000>> ELSE <<>>) \o Below1000(n % 1000)

\* A number of dollars below a million, said in full, is taken for that number; one that
\* ends on a multiple of ten ("one hundred fifty") is taken for dollars and cents.
SumIsAsSaid(n) ==
    LET tens == n % 100
    IN SpokenToAmount(InWords(n)) =
            IF n > 100 /\ tens \in Tens THEN 100 * (n - tens) + tens ELSE 100 * n

\* "the 31st", when it cannot have been meant for the past, is the next 31st there is:
\* every day of a month has one, and no date with that day lies before it.
NextIsTheNext(today) ==
    \A day \in 1 .. 31 :
        LET next == RollForward(today, day)
            same == {[year |-> y, month |-> m, day |-> day] :
                        y \in {today.year, today.year + 1}, m \in 1 .. 12}
            ahead == {d \in same : day <= MonthDays(d.year, d.month) /\ Before(today, d)}
        IN next \in ahead /\ \A d \in ahead : ~Before(d, next)
=============================================================================
