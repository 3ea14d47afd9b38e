----------------------------- MODULE MCPosture -----------------------------
(* Four parts, which share nothing; a behaviour is one of them with the     *)
(* others at rest.  "posture": two consoles and the watcher, two commands,  *)
(* one restart.  "socket": one console's connection, on which two sends may *)
(* be in flight, one of which changes DND.  "extraction": the turns of two  *)
(* calls, read by the threads of their pipelines.  "samples": numbers and   *)
(* dates one after the other, for the processor's arithmetic.               *)
EXTENDS DaemonSocket

CONSTANTS x1, x2, MaxCalls, MaxTurns, MaxFailures, MaxNumber, MaxDays

VARIABLES part, call, calls, session, cues, readers, loose, transcript, rows, failures,
          belated, dropped, sample

extraction == <<call, calls, session, cues, readers, loose, transcript, rows, failures,
                belated, dropped>>

MCSends == {x1, x2}
MCDnd == {x1}

Today == [year |-> 2024, month |-> 1, day |-> 31]
Yesterday == [year |-> 2024, month |-> 1, day |-> 30]

Silence == [noise |-> {}, cue |-> FALSE, codes |-> <<>>, phones |-> <<>>,
            figures |-> <<>>, spoken |-> <<>>, spans |-> <<>>, promises |-> 0,
            names |-> <<>>]
Span(date, dom, minute) == [dated |-> TRUE, date |-> date, dom |-> dom, minute |-> minute]
Code(id, digits) == [id |-> id, digits |-> digits, letters |-> TRUE, secondary |-> ~digits]

\* A cue word, with a date that the calendar does not have; an identifier and a sum said
\* twice, a number, a name and a promise for "the 30th"; noise.
MCSaid == [
    dated |-> [Silence EXCEPT !.cue = TRUE, !.spans = <<Span(Yesterday, 0, 0)>>, !.names = <<"Bob">>],
    full |-> [Silence EXCEPT !.codes = <<Code("REF-77", TRUE), Code("REF-77", TRUE),
                                Code("number", FALSE)>>,
                    !.phones = <<[number |-> 1, possible |-> TRUE],
                                 [number |-> 2, possible |-> FALSE]>>,
                    !.figures = <<4750>>,
                    !.spoken = <<[words |-> <<40, 7, 50>>, dollars |-> FALSE]>>,
                    !.promises = 1, !.spans = <<Span(Yesterday, 30, 0), Span(Yesterday, 99, 0)>>,
                    !.names = <<"Ann">>],
    noise |-> [Silence EXCEPT !.noise = {"doubtful"}, !.names = <<"Eve">>]]

E == INSTANCE Extraction WITH
         Utterances <- DOMAIN MCSaid, Said <- MCSaid, reader <- readers, late <- belated

MCInit ==
    /\ Init /\ D!Init /\ E!Init
    /\ part \in {"posture", "socket", "extraction", "samples"}
    /\ sample = [number |-> 1, day |-> [year |-> 2023, month |-> 10, day |-> 1]]

Tomorrow(d) ==
    CASE d.day < E!MonthDays(d.year, d.month) -> [d EXCEPT !.day = @ + 1]
      [] d.month < 12 -> [d EXCEPT !.day = 1, !.month = @ + 1]
      [] OTHER -> [year |-> d.year + 1, month |-> 1, day |-> 1]

Sampling ==
    /\ sample.number < MaxNumber
    /\ sample' = [number |-> sample.number + 1,
                  day |-> IF sample.number < MaxDays THEN Tomorrow(sample.day) ELSE sample.day]

\* Bounds: noise is the first thing said, if it is said, the cue is said once, the first
\* call alone is acknowledged twice or, before that, has a write that fails, and in the
\* second one only the far party speaks.
Fewer ==
    LET said == {<<c, t>> \in (1 .. MaxCalls) \X (1 .. MaxTurns) : t \in DOMAIN transcript'[c]}
        Text(s) == MCSaid[transcript'[s[1]][s[2]].text]
    IN /\ \A s \in said : Text(s).noise # {} => s = <<1, 1>>
       /\ \A s, q \in said : Text(s).cue /\ Text(q).cue => s = q
       /\ calls = 2 \/ loose # {} => failures' = failures
       /\ <<2, "far">> \in loose' \ loose => call' = 0
       /\ readers'[<<2, "operator">>].at = "idle"

MCNext ==
    \/ part = "posture" /\ Next /\ UNCHANGED <<part, proxy, extraction, sample>>
    \/ part = "socket" /\ D!Next /\ UNCHANGED <<part, vars, extraction, sample>>
    \/ part = "extraction" /\ E!Next /\ Fewer /\ UNCHANGED <<part, vars, proxy, sample>>
    \/ part = "samples" /\ Sampling /\ UNCHANGED <<part, vars, proxy, extraction>>

\* The fairness of the first two parts, each while it is the one that runs.
MCFairness ==
    /\ WF_vars(part = "posture" /\ WatcherStep)
    /\ \A c \in Clients : WF_vars(part = "posture" /\ ThreadStep(c))
    /\ WF_proxy(part = "socket" /\ D!ReaderStep)

MCSpec == MCInit /\ [][MCNext]_<<vars, proxy, extraction, sample, part>> /\ MCFairness

\* What is said has its rows, under the call it was said in (module Extraction); sums said
\* in words and days of the month are taken for what they mean: the number, but for the
\* cents that a last multiple of ten stands for, and the next date with that day.
ExtractsAreTrue ==
    /\ E!FactsAreOfTheirCall
    /\ E!WhatIsSaidIsKept
    /\ part = "samples" =>
        /\ E!SumIsAsSaid(sample.number)
        /\ sample.number <= MaxDays => E!NextIsTheNext(sample.day)
============================================================================
