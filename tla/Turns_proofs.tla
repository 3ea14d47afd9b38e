----------------------------- MODULE Turns_proofs -----------------------------
(***************************************************************************)
(* Proofs about Turns, for any number of turns, any trios of skills and    *)
(* any of them privileged: what is executed was asked and agreed to, and   *)
(* is executed once; and a privileged trio is changed for the operator     *)
(* only.  And about Mail, for any messages, contacts and failures:         *)
(* archiving loses nothing, and what is archived or sent is what was heard.*)
(***************************************************************************)
EXTENDS EmailTurns, TLAPS

\* The daemon's lock is held by the turn that is under way.
LockIsTheTurns == host = "daemon" => \A t \in Turns : Live(t) <=> lock = t

\* The console has neither announcements nor a lock to release.
ConsoleHasNoLock ==
    host = "console" => \A t \in Turns : turn[t].at \notin {"announced", "release"}

\* One turn is under way at a time, and somebody waits for it.
OneIsLive ==
    OneAtATime =>
        /\ \A t, u \in Turns : Live(t) /\ Live(u) => t = u
        /\ \A t \in Turns : ~ turn[t].late

\* Who executes or asks has proposed something, and asks in its answer.
ProposalsAreSkills ==
    \A t \in Turns :
        /\ turn[t].at \in {"gate", "execute"} => turn[t].proposal \in Proposals
        /\ turn[t].prompts => /\ turn[t].at \in {"reply", "release"}
                              /\ turn[t].proposal \in Proposals

\* The turn t has staged its action and has not asked about it yet.
Asking(t) == At(t, "reply") /\ turn[t].prompts

\* What a holder holds is what the operator was asked about last, but for the turn
\* that is about to ask.
StagedIsAsked ==
    OneAtATime =>
        /\ \A t \in Turns : Asking(t) => staged[TrioOf(t)] = t
        /\ \A k \in Trios : staged[k] # NoTurn =>
              staged[k] = asked[k] \/ \E t \in Turns : Asking(t) /\ TrioOf(t) = k

\* What had been asked when a turn was accepted is so until it takes something out.
AgreedIsAsked ==
    OneAtATime => \A t \in Turns : turn[t].at \in {"running", "gate"} => turn[t].agreed = asked

\* The turn a has not staged anything yet.
Unstaged(a) == turn[a].at \in {"off", "announced", "running", "gate"}

\* An action is in one holder, or has been taken out by one turn, or was executed.
ActionsAreOnce ==
    OneAtATime =>
        /\ \A k \in Trios : staged[k] # NoTurn =>
              /\ ~ Unstaged(staged[k]) /\ executed[staged[k]] = 0
              /\ \A j \in Trios : staged[j] = staged[k] => j = k
        /\ \A t \in Turns : At(t, "execute") =>
              /\ turn[t].taken \in Turns
              /\ ~ Unstaged(turn[t].taken) /\ executed[turn[t].taken] = 0
              /\ \A k \in Trios : staged[k] # turn[t].taken
        /\ \A a \in Turns : Unstaged(a) => executed[a] = 0
        /\ \A a \in Turns : executed[a] <= 1

\* A turn that was in a known call from its beginning is in it.
ThroughIsInACall == \A t \in Turns : turn[t].through => context

\* The inductive invariant.
IInv ==
    /\ TypeOK
    /\ LockIsTheTurns
    /\ ConsoleHasNoLock
    /\ OneIsLive
    /\ ProposalsAreSkills
    /\ StagedIsAsked
    /\ AgreedIsAsked
    /\ ActionsAreOnce
    /\ ThroughIsInACall
    /\ ConfirmsWhatWasAsked

----------------------------------------------------------------------------
\* NoTurn is not a turn.
LEMMA NoTurnIsNone == NoTurn \notin Turns
BY DEF NoTurn, Turns

\* A turn that is blank is a thread, as is one that is made.
LEMMA BlankType ==
    /\ NothingAsked \in [Trios -> TurnOrNone]
    /\ \A place \in Places : Blank(place) \in Thread
    /\ \A place \in Places, who \in Speakers, agreed \in [Trios -> TurnOrNone],
          through \in BOOLEAN :
          [Blank(place) EXCEPT !.speaker = who, !.agreed = agreed, !.through = through] \in Thread
<1>1. NothingAsked \in [Trios -> TurnOrNone]
  BY DEF NothingAsked, TurnOrNone
<1>2. ASSUME NEW place \in Places
      PROVE  Blank(place) \in Thread
  BY <1>1 DEF Blank, Thread, Speakers, TurnOrNone
<1>3. ASSUME NEW place \in Places, NEW who \in Speakers, NEW agreed \in [Trios -> TurnOrNone],
             NEW through \in BOOLEAN
      PROVE  [Blank(place) EXCEPT !.speaker = who, !.agreed = agreed, !.through = through]
                \in Thread
  BY <1>1 DEF Blank, Thread, Speakers, TurnOrNone
<1>4. QED
  BY <1>1, <1>2, <1>3

\* Initially nobody has spoken.
LEMMA InitIInv == Init => IInv
<1> SUFFICES ASSUME Init
             PROVE  IInv
  OBVIOUS
<1> USE DEF Init
<1>1. \A t \in Turns : turn[t] = Blank("off")
  OBVIOUS
<1>2. \A t \in Turns : /\ turn[t].at = "off" /\ ~ turn[t].prompts /\ ~ turn[t].through
  BY <1>1 DEF Blank
<1>3. \A t \in Turns : ~ Live(t)
  BY <1>2 DEF Live
<1>4. TypeOK
  <2>1. turn \in [Turns -> Thread]
    BY BlankType DEF Places
  <2>2. calls \in 0..MaxCalls /\ lock \in TurnOrNone
    BY TurnsAssumption DEF TurnOrNone
  <2>3. executed \in [Turns -> Nat]
    OBVIOUS
  <2>4. QED
    BY <2>1, <2>2, <2>3, BlankType DEF TypeOK
<1>5. LockIsTheTurns
  BY <1>3, NoTurnIsNone DEF LockIsTheTurns
<1>6. ConsoleHasNoLock /\ OneIsLive
  BY <1>1, <1>2, <1>3 DEF Blank, ConsoleHasNoLock, OneIsLive
<1>7. ProposalsAreSkills /\ AgreedIsAsked /\ ThroughIsInACall /\ ConfirmsWhatWasAsked
  BY <1>2 DEF ProposalsAreSkills, AgreedIsAsked, ThroughIsInACall, ConfirmsWhatWasAsked, At
<1>8. StagedIsAsked
  BY <1>2 DEF StagedIsAsked, Asking, At, NothingAsked
<1>9. ActionsAreOnce
  BY <1>2 DEF ActionsAreOnce, At, NothingAsked
<1>10. QED
  BY <1>4, <1>5, <1>6, <1>7, <1>8, <1>9 DEF IInv

\* What happens to a thread keeps it one.
LEMMA ThreadWrites ==
    ASSUME NEW r \in Thread
    PROVE  /\ \A place \in Places : [r EXCEPT !.at = place] \in Thread
           /\ [r EXCEPT !.late = TRUE] \in Thread
           /\ [r EXCEPT !.through = FALSE] \in Thread
           /\ [r EXCEPT !.prompts = TRUE] \in Thread
           /\ \A agreed \in [Trios -> TurnOrNone] : [r EXCEPT !.agreed = agreed] \in Thread
           /\ \A p \in Proposals : [r EXCEPT !.proposal = p] \in Thread
           /\ \A a \in TurnOrNone : [r EXCEPT !.taken = a] \in Thread
BY DEF Thread

\* The thread of a turn becomes r, and the others stay as they are.
Becomes(t, r) ==
    /\ r \in Thread
    /\ turn' \in [Turns -> Thread]
    /\ turn'[t] = r
    /\ \A u \in Turns \ {t} : turn'[u] = turn[u]

\* A turn goes to a place with all that it holds.
MovesTo(t, place) ==
    /\ Becomes(t, turn'[t])
    /\ turn'[t].at = place
    /\ turn'[t].speaker = turn[t].speaker /\ turn'[t].proposal = turn[t].proposal
    /\ turn'[t].taken = turn[t].taken /\ turn'[t].prompts = turn[t].prompts
    /\ turn'[t].late = turn[t].late /\ turn'[t].agreed = turn[t].agreed
    /\ turn'[t].through = turn[t].through

LEMMA ReplaceOne ==
    ASSUME TypeOK, NEW t \in Turns, NEW r \in Thread, turn' = [turn EXCEPT ![t] = r]
    PROVE  Becomes(t, r)
BY DEF TypeOK, Becomes

\* What each kind of step does to its turn.
LEMMA GotoEffect ==
    ASSUME TypeOK, NEW t \in Turns, NEW place \in Places, Goto(t, place)
    PROVE  MovesTo(t, place)
<1>1. turn[t] \in Thread /\ [turn[t] EXCEPT !.at = place] \in Thread
  BY ThreadWrites DEF TypeOK
<1>2. turn' = [turn EXCEPT ![t] = [turn[t] EXCEPT !.at = place]]
  BY DEF Goto
<1>3. Becomes(t, [turn[t] EXCEPT !.at = place])
  BY <1>1, <1>2, ReplaceOne
<1>4. QED
  BY <1>1, <1>3 DEF MovesTo, Becomes, Thread

LEMMA OverEffect ==
    ASSUME TypeOK, NEW t \in Turns, Over(t)
    PROVE  Becomes(t, Blank("over"))
BY BlankType, ReplaceOne DEF Over, Places

LEMMA MadeEffect ==
    ASSUME TypeOK, NEW t \in Turns, NEW who \in Speakers, NEW place \in Places,
           Made(t, who, place)
    PROVE  /\ Becomes(t, turn'[t])
           /\ At(t, "off")
           /\ turn'[t].at = place /\ turn'[t].speaker = who /\ turn'[t].agreed = asked
           /\ turn'[t].through = context /\ ~ turn'[t].prompts /\ ~ turn'[t].late
<1> DEFINE r == [Blank(place) EXCEPT !.speaker = who, !.agreed = asked, !.through = context]
<1>1. r \in Thread
  BY BlankType DEF TypeOK
<1>2. turn' = [turn EXCEPT ![t] = r] /\ At(t, "off")
  BY DEF Made
<1>3. Becomes(t, r)
  BY <1>1, <1>2, ReplaceOne
<1>4. QED
  BY <1>2, <1>3 DEF Becomes, Blank

LEMMA TakeLockEffect ==
    ASSUME TypeOK, NEW t \in Turns, TakeLock(t)
    PROVE  /\ Becomes(t, turn'[t])
           /\ turn'[t].at = "running" /\ turn'[t].agreed = asked
           /\ turn'[t].speaker = turn[t].speaker /\ turn'[t].proposal = turn[t].proposal
           /\ turn'[t].prompts = turn[t].prompts /\ turn'[t].late = turn[t].late
           /\ turn'[t].through = turn[t].through
<1> DEFINE moved == [turn[t] EXCEPT !.at = "running"]
           r == [moved EXCEPT !.agreed = asked]
<1>1. moved \in Thread /\ turn[t] \in Thread
  BY ThreadWrites DEF TypeOK, Places
<1>2. r \in Thread
  BY <1>1, ThreadWrites DEF TypeOK
<1>3. turn' = [turn EXCEPT ![t] = r]
  BY DEF TakeLock
<1>4. Becomes(t, r)
  BY <1>2, <1>3, ReplaceOne
<1>5. QED
  BY <1>1, <1>4 DEF Becomes, Thread

LEMMA ProposeEffect ==
    ASSUME TypeOK, NEW t \in Turns, NEW p \in Proposals, Propose(t, p)
    PROVE  /\ Becomes(t, turn'[t])
           /\ turn'[t].at = "gate" /\ turn'[t].proposal = p
           /\ turn'[t].speaker = turn[t].speaker
           /\ turn'[t].agreed = turn[t].agreed
           /\ turn'[t].prompts = turn[t].prompts /\ turn'[t].late = turn[t].late
           /\ turn'[t].through = turn[t].through
<1> DEFINE moved == [turn[t] EXCEPT !.at = "gate"]
           r == [moved EXCEPT !.proposal = p]
<1>1. moved \in Thread /\ turn[t] \in Thread
  BY ThreadWrites DEF TypeOK, Places
<1>2. r \in Thread
  BY <1>1, ThreadWrites
<1>3. turn' = [turn EXCEPT ![t] = r]
  BY DEF Propose
<1>4. Becomes(t, r)
  BY <1>2, <1>3, ReplaceOne
<1>5. QED
  BY <1>1, <1>4 DEF Becomes, Thread

LEMMA StageEffect ==
    ASSUME TypeOK, NEW t \in Turns, Stage(t)
    PROVE  /\ Becomes(t, turn'[t])
           /\ turn'[t].at = "reply" /\ turn'[t].prompts
           /\ turn'[t].proposal = turn[t].proposal
           /\ turn'[t].late = turn[t].late
           /\ turn'[t].through = turn[t].through
<1> DEFINE moved == [turn[t] EXCEPT !.at = "reply"]
           r == [moved EXCEPT !.prompts = TRUE]
<1>1. moved \in Thread /\ turn[t] \in Thread
  BY ThreadWrites DEF TypeOK, Places
<1>2. r \in Thread
  BY <1>1, ThreadWrites
<1>3. turn' = [turn EXCEPT ![t] = r]
  BY DEF Stage
<1>4. Becomes(t, r)
  BY <1>2, <1>3, ReplaceOne
<1>5. QED
  BY <1>1, <1>4 DEF Becomes, Thread

LEMMA ConfirmTakeEffect ==
    ASSUME TypeOK, ProposalsAreSkills, NEW t \in Turns, ConfirmTake(t)
    PROVE  /\ Becomes(t, turn'[t])
           /\ TrioOf(t) \in Trios
           /\ turn'[t].taken = staged[TrioOf(t)]
           /\ turn'[t].at = IF staged[TrioOf(t)] = NoTurn THEN "reply" ELSE "execute"
           /\ turn'[t].proposal = turn[t].proposal /\ turn'[t].agreed = turn[t].agreed
           /\ turn'[t].prompts = turn[t].prompts /\ turn'[t].late = turn[t].late
           /\ turn'[t].through = turn[t].through
<1> DEFINE action == staged[TrioOf(t)]
           took == [turn[t] EXCEPT !.taken = action]
           place == IF action = NoTurn THEN "reply" ELSE "execute"
           r == [took EXCEPT !.at = place]
<1>1. TrioOf(t) \in Trios /\ action \in TurnOrNone
  BY DEF ConfirmTake, Runs, Allowed, At, ProposalsAreSkills, TrioOf, Proposals, TypeOK
<1>2. took \in Thread /\ turn[t] \in Thread /\ place \in Places
  BY <1>1, ThreadWrites DEF TypeOK, Places
<1>3. r \in Thread
  BY <1>2, ThreadWrites
<1>4. turn' = [turn EXCEPT ![t] = r]
  BY DEF ConfirmTake
<1>5. Becomes(t, r)
  BY <1>3, <1>4, ReplaceOne
<1>6. QED
  BY <1>1, <1>2, <1>5 DEF Becomes, Thread

LEMMA AbandonEffect ==
    ASSUME TypeOK, NEW t \in Turns, Abandon(t)
    PROVE  /\ Becomes(t, turn'[t])
           /\ turn'[t].at = turn[t].at /\ turn'[t].proposal = turn[t].proposal
           /\ turn'[t].prompts = turn[t].prompts /\ turn'[t].through = turn[t].through
<1>1. turn[t] \in Thread /\ [turn[t] EXCEPT !.late = TRUE] \in Thread
  BY ThreadWrites DEF TypeOK
<1>2. turn' = [turn EXCEPT ![t] = [turn[t] EXCEPT !.late = TRUE]]
  BY DEF Abandon
<1>3. Becomes(t, [turn[t] EXCEPT !.late = TRUE])
  BY <1>1, <1>2, ReplaceOne
<1>4. QED
  BY <1>1, <1>3 DEF Becomes, Thread

LEMMA CallEndsEffect ==
    ASSUME TypeOK, CallEnds
    PROVE  /\ turn' \in [Turns -> Thread]
           /\ \A t \in Turns :
                 /\ turn'[t].at = turn[t].at /\ turn'[t].proposal = turn[t].proposal
                 /\ turn'[t].taken = turn[t].taken /\ turn'[t].prompts = turn[t].prompts
                 /\ turn'[t].late = turn[t].late /\ turn'[t].agreed = turn[t].agreed
                 /\ ~ turn'[t].through
<1>1. \A t \in Turns : turn[t] \in Thread /\ [turn[t] EXCEPT !.through = FALSE] \in Thread
  BY ThreadWrites DEF TypeOK
<1>2. \A t \in Turns : turn'[t] = [turn[t] EXCEPT !.through = FALSE]
  BY DEF CallEnds
<1>3. QED
  BY <1>1, <1>2 DEF CallEnds, Thread

\* The steps that only move a turn on, and what they leave alone.
LEMMA QuietEffect ==
    ASSUME TypeOK, NEW t \in Turns,
           Talk(t) \/ Unrouted(t) \/ Deny(t) \/ Raise(t) \/ Decline(t)
    PROVE  /\ turn[t].at \in {"running", "gate"}
           /\ \E place \in {"reply", "unrouted", "raised"} : MovesTo(t, place)
           /\ UNCHANGED <<calling, lock, staged, history>>
<1>1. CASE Talk(t)
  BY <1>1, GotoEffect DEF Talk, At, Places
<1>2. CASE Unrouted(t)
  BY <1>2, GotoEffect DEF Unrouted, At, Places
<1>3. CASE Deny(t)
  BY <1>3, GotoEffect DEF Deny, At, Places
<1>4. CASE Raise(t)
  BY <1>4, GotoEffect DEF Raise, Allowed, At, Places
<1>5. CASE Decline(t)
  BY <1>5, GotoEffect DEF Decline, Runs, Allowed, At, Places
<1>6. QED
  BY <1>1, <1>2, <1>3, <1>4, <1>5

LEMMA CancelEffect ==
    ASSUME TypeOK, NEW t \in Turns, Cancel(t)
    PROVE  MovesTo(t, "reply") /\ At(t, "gate")
BY GotoEffect DEF Cancel, Runs, Allowed, Places

LEMMA ConfirmExecuteEffect ==
    ASSUME TypeOK, NEW t \in Turns, ConfirmExecute(t)
    PROVE  /\ At(t, "execute")
           /\ \E place \in {"reply", "raised"} : MovesTo(t, place)
BY GotoEffect DEF ConfirmExecute, Places

\* An answer: the daemon's turn has its lock to release, the console's is over.
LEMMA AnsweredEffect ==
    ASSUME TypeOK, NEW t \in Turns, Reply(t) \/ TellError(t)
    PROVE  /\ turn[t].at \in {"reply", "unrouted", "raised"}
           /\ host = "daemon" => MovesTo(t, "release")
           /\ host # "daemon" => Becomes(t, Blank("over"))
           /\ UNCHANGED <<calling, lock, staged, executed, disturbed>>
<1>1. Answered(t)
  BY DEF Reply, TellError
<1>2. turn[t].at \in {"reply", "unrouted", "raised"}
  BY DEF Reply, TellError, At
<1>3. UNCHANGED <<calling, lock, staged, executed, disturbed>>
  BY DEF Reply, TellError, history
<1>4. QED
  BY <1>1, <1>2, <1>3, GotoEffect, OverEffect DEF Answered, Places

\* The ends of a turn that answers nothing any more.
LEMMA EndEffect ==
    ASSUME TypeOK, NEW t \in Turns, Busy(t) \/ CannotStart(t) \/ Release(t)
    PROVE  /\ Becomes(t, Blank("over"))
           /\ IF Busy(t) THEN At(t, "announced") /\ lock' = lock
              ELSE turn[t].at \in {"running", "release"} /\ lock' = NoTurn
           /\ UNCHANGED <<calling, staged, history>>
<1>1. Becomes(t, Blank("over"))
  BY OverEffect DEF Busy, CannotStart, Release
<1>2. QED
  BY <1>1 DEF Busy, CannotStart, Release, At

-----------------------------------------------------------------------------
(* Each part of the invariant is kept by every step. *)

LEMMA TypeStep ==
    TypeOK /\ ProposalsAreSkills /\ [Next]_vars => TypeOK'
<1> SUFFICES ASSUME TypeOK, ProposalsAreSkills, [Next]_vars
             PROVE  TypeOK'
  OBVIOUS
<1> USE DEF calling, history
<1>1. ASSUME NEW t \in Turns, NEW who \in Speakers, Announce(t, who)
      PROVE  TypeOK'
  BY <1>1, MadeEffect DEF Announce, Becomes, TypeOK, Places
<1>2. ASSUME NEW t \in Turns, NEW who \in Speakers, Begin(t, who)
      PROVE  TypeOK'
  <2>1. Becomes(t, turn'[t])
    BY <1>2, MadeEffect DEF Begin, Places
  <2>2. disturbed' \in BOOLEAN
    BY <1>2 DEF Begin, TypeOK
  <2>3. QED
    BY <1>2, <2>1, <2>2 DEF Begin, Becomes, TypeOK
<1>3. ASSUME NEW t \in Turns, TakeLock(t)
      PROVE  TypeOK'
  BY <1>3, TakeLockEffect DEF TakeLock, Becomes, TypeOK, TurnOrNone
<1>4. ASSUME NEW t \in Turns, Busy(t) \/ CannotStart(t) \/ Release(t)
      PROVE  TypeOK'
  BY <1>4, EndEffect DEF Becomes, TypeOK, TurnOrNone
<1>5. ASSUME NEW t \in Turns, Talk(t) \/ Unrouted(t) \/ Deny(t) \/ Raise(t) \/ Decline(t)
      PROVE  TypeOK'
  BY <1>5, QuietEffect DEF MovesTo, Becomes, TypeOK
<1>6. ASSUME NEW t \in Turns, NEW p \in Proposals, Propose(t, p)
      PROVE  TypeOK'
  BY <1>6, ProposeEffect DEF Propose, Becomes, TypeOK
<1>7. ASSUME NEW t \in Turns, Stage(t)
      PROVE  TypeOK'
  BY <1>7, StageEffect DEF Stage, Becomes, TypeOK, TurnOrNone
<1>8. ASSUME NEW t \in Turns, Cancel(t)
      PROVE  TypeOK'
  BY <1>8, CancelEffect DEF Cancel, MovesTo, Becomes, TypeOK, TurnOrNone
<1>9. ASSUME NEW t \in Turns, ConfirmTake(t)
      PROVE  TypeOK'
  BY <1>9, ConfirmTakeEffect DEF ConfirmTake, Becomes, TypeOK, TurnOrNone
<1>10. ASSUME NEW t \in Turns, ConfirmExecute(t)
       PROVE  TypeOK'
  <2>1. turn' \in [Turns -> Thread]
    BY <1>10, ConfirmExecuteEffect DEF MovesTo, Becomes
  <2>2. executed' \in [Turns -> Nat]
    <3> DEFINE a == turn[t].taken
    <3>1. executed' = [executed EXCEPT ![a] = executed[a] + 1] /\ executed \in [Turns -> Nat]
      BY <1>10 DEF ConfirmExecute, TypeOK
    <3>2. \A u \in Turns : executed'[u] = IF u = a THEN executed[u] + 1 ELSE executed[u]
      BY <3>1
    <3>3. \A u \in Turns : executed'[u] \in Nat
      BY <3>1, <3>2
    <3>4. QED
      BY <3>1, <3>3
  <2>3. QED
    BY <1>10, <2>1, <2>2 DEF ConfirmExecute, TypeOK
<1>11. ASSUME NEW t \in Turns, Reply(t) \/ TellError(t)
       PROVE  TypeOK'
  <2>1. turn' \in [Turns -> Thread]
    BY <1>11, AnsweredEffect DEF MovesTo, Becomes
  <2>2. asked' \in [Trios -> TurnOrNone]
    BY <1>11 DEF Reply, TellError, TypeOK, TurnOrNone
  <2>3. QED
    BY <1>11, <2>1, <2>2, AnsweredEffect DEF TypeOK
<1>12. ASSUME NEW t \in Turns, Abandon(t)
       PROVE  TypeOK'
  BY <1>12, AbandonEffect DEF Abandon, Becomes, TypeOK
<1>13. CASE CallBegins
  BY <1>13, TurnsAssumption DEF CallBegins, TypeOK
<1>14. CASE CallEnds
  BY <1>14, CallEndsEffect DEF CallEnds, TypeOK
<1>15. CASE UNCHANGED vars
  BY <1>15 DEF vars, TypeOK
<1>16. QED
  BY <1>1, <1>2, <1>3, <1>4, <1>5, <1>6, <1>7, <1>8, <1>9, <1>10, <1>11, <1>12, <1>13,
     <1>14, <1>15 DEF Next, TurnStep

\* A step that ends with one turn at a time began so.
LEMMA StillOneAtATime ==
    ASSUME TypeOK, [Next]_vars
    PROVE  /\ host' = host
           /\ OneAtATime' => OneAtATime
<1> USE DEF calling, history
<1>1. host' = host
  BY DEF Next, TurnStep, vars, Announce, Begin, TakeLock, Busy, CannotStart, Talk, Propose,
     Unrouted, Deny, Raise, Decline, Stage, Cancel, ConfirmTake, ConfirmExecute, Reply,
     TellError, Release, Abandon, CallBegins, CallEnds
<1>2. disturbed => disturbed'
  BY DEF Next, TurnStep, vars, Announce, Begin, TakeLock, Busy, CannotStart, Talk, Propose,
     Unrouted, Deny, Raise, Decline, Stage, Cancel, ConfirmTake, ConfirmExecute, Reply,
     TellError, Release, Abandon, CallBegins, CallEnds
<1>3. QED
  BY <1>1, <1>2 DEF OneAtATime, TypeOK

\* Who takes the lock finds nobody under way, ...
LEMMA TakerIsAlone ==
    ASSUME TypeOK, LockIsTheTurns, ConsoleHasNoLock, NEW t \in Turns, TakeLock(t)
    PROVE  host = "daemon" /\ \A u \in Turns : ~ Live(u)
<1>1. host = "daemon"
  BY DEF TakeLock, At, ConsoleHasNoLock, TypeOK, Hosts
<1>2. QED
  BY <1>1, NoTurnIsNone DEF TakeLock, LockIsTheTurns

\* ... and so does who begins without disturbing another.
LEMMA BeginnerIsAlone ==
    ASSUME TypeOK, NEW t \in Turns, NEW who \in Speakers, Begin(t, who), OneAtATime'
    PROVE  host = "console" /\ \A u \in Turns : ~ Live(u)
BY DEF Begin, OneAtATime, TypeOK, calling

LEMMA LockStep ==
    ASSUME TypeOK, LockIsTheTurns, ConsoleHasNoLock, ProposalsAreSkills, [Next]_vars
    PROVE  LockIsTheTurns' /\ ConsoleHasNoLock'
<1> DEFINE I == LockIsTheTurns' /\ ConsoleHasNoLock'
<1>0. host' = host /\ host \in Hosts
  BY StillOneAtATime DEF TypeOK
<1> USE DEF LockIsTheTurns, ConsoleHasNoLock, Live, Becomes, calling
<1>1. ASSUME NEW t \in Turns, NEW who \in Speakers, Announce(t, who)
      PROVE  I
  <2>1. Becomes(t, turn'[t]) /\ turn[t].at = "off" /\ turn'[t].at = "announced"
    BY <1>1, MadeEffect DEF Announce, Places, At
  <2>2. QED
    BY <1>0, <1>1, <2>1 DEF Announce
<1>2. ASSUME NEW t \in Turns, NEW who \in Speakers, Begin(t, who)
      PROVE  I
  <2>1. Becomes(t, turn'[t]) /\ turn'[t].at = "running"
    BY <1>2, MadeEffect DEF Begin, Places, At
  <2>2. QED
    BY <1>0, <1>2, <2>1 DEF Begin
<1>3. ASSUME NEW t \in Turns, TakeLock(t)
      PROVE  I
  <2>1. host = "daemon" /\ \A u \in Turns : ~ Live(u)
    BY <1>3, TakerIsAlone
  <2>2. Becomes(t, turn'[t]) /\ turn'[t].at = "running" /\ lock' = t
    BY <1>3, TakeLockEffect DEF TakeLock
  <2>3. QED
    BY <1>0, <2>1, <2>2
<1>4. ASSUME NEW t \in Turns, Busy(t) \/ CannotStart(t) \/ Release(t)
      PROVE  I
  <2>1. Becomes(t, Blank("over")) /\ Blank("over").at = "over"
    BY <1>4, EndEffect DEF Blank
  <2>2. CASE Busy(t)
    BY <1>0, <1>4, <2>1, <2>2, EndEffect DEF At
  <2>3. CASE ~ Busy(t)
    <3>1. turn[t].at \in {"running", "release"} /\ lock' = NoTurn
      BY <1>4, <2>3, EndEffect
    <3>2. QED
      BY <1>0, <2>1, <3>1, NoTurnIsNone
  <2>4. QED
    BY <2>2, <2>3
<1>5. ASSUME NEW t \in Turns, Talk(t) \/ Unrouted(t) \/ Deny(t) \/ Raise(t) \/ Decline(t)
      PROVE  I
  BY <1>0, <1>5, QuietEffect DEF MovesTo
<1>6. ASSUME NEW t \in Turns, NEW p \in Proposals, Propose(t, p)
      PROVE  I
  BY <1>0, <1>6, ProposeEffect DEF Propose, At
<1>7. ASSUME NEW t \in Turns, Stage(t)
      PROVE  I
  BY <1>0, <1>7, StageEffect DEF Stage, Runs, Allowed, At
<1>8. ASSUME NEW t \in Turns, Cancel(t)
      PROVE  I
  <2>1. /\ Becomes(t, turn'[t]) /\ turn'[t].at = "reply"
        /\ turn[t].at = "gate" /\ lock' = lock
    BY <1>8, CancelEffect DEF Cancel, At, MovesTo
  <2>2. QED
    BY <1>0, <2>1
<1>9. ASSUME NEW t \in Turns, ConfirmTake(t)
      PROVE  I
  <2>1. /\ Becomes(t, turn'[t]) /\ turn'[t].at \in {"reply", "execute"}
        /\ turn[t].at = "gate" /\ lock' = lock
    BY <1>9, ConfirmTakeEffect DEF ConfirmTake, Runs, Allowed, At
  <2>2. QED
    BY <1>0, <2>1
<1>10. ASSUME NEW t \in Turns, ConfirmExecute(t)
       PROVE  I
  <2>1. /\ Becomes(t, turn'[t]) /\ turn'[t].at \in {"reply", "raised"}
        /\ turn[t].at = "execute" /\ lock' = lock
    BY <1>10, ConfirmExecuteEffect DEF ConfirmExecute, At, MovesTo
  <2>2. QED
    BY <1>0, <2>1
<1>11. ASSUME NEW t \in Turns, Reply(t) \/ TellError(t)
       PROVE  I
  <2>1. CASE host = "daemon"
    BY <1>0, <1>11, <2>1, AnsweredEffect DEF MovesTo
  <2>2. CASE host # "daemon"
    <3>1. Becomes(t, Blank("over")) /\ Blank("over").at = "over"
      BY <1>11, <2>2, AnsweredEffect DEF Blank
    <3>2. QED
      BY <1>0, <2>2, <3>1
  <2>3. QED
    BY <2>1, <2>2
<1>12. ASSUME NEW t \in Turns, Abandon(t)
       PROVE  I
  BY <1>0, <1>12, AbandonEffect DEF Abandon
<1>13. CASE CallBegins
  BY <1>13 DEF CallBegins
<1>14. CASE CallEnds
  BY <1>0, <1>14, CallEndsEffect DEF CallEnds
<1>15. CASE UNCHANGED vars
  BY <1>15 DEF vars
<1>16. QED
  BY <1>1, <1>2, <1>3, <1>4, <1>5, <1>6, <1>7, <1>8, <1>9, <1>10, <1>11, <1>12, <1>13,
     <1>14, <1>15 DEF Next, TurnStep

\* With one turn under way no other answers or waits for its lock.
LEMMA LiveStep ==
    ASSUME TypeOK, LockIsTheTurns, ConsoleHasNoLock, OneIsLive, ProposalsAreSkills,
           [Next]_vars
    PROVE  OneIsLive'
<1> SUFFICES ASSUME OneAtATime'
             PROVE  /\ \A t, u \in Turns : Live(t)' /\ Live(u)' => t = u
                    /\ \A t \in Turns : ~ turn'[t].late
  BY DEF OneIsLive
<1> DEFINE I == /\ \A t, u \in Turns : Live(t)' /\ Live(u)' => t = u
                /\ \A t \in Turns : ~ turn'[t].late
<1>0. /\ \A t, u \in Turns : Live(t) /\ Live(u) => t = u
      /\ \A t \in Turns : ~ turn[t].late
  BY StillOneAtATime DEF OneIsLive
<1> USE DEF Live, Becomes
<1>a. ASSUME NEW t \in Turns, NEW r, Becomes(t, r), ~ r.late,
             \/ Live(t)
             \/ r.at \in {"announced", "over"}
             \/ \A u \in Turns : ~ Live(u)
      PROVE  I
  BY <1>0, <1>a
<1> HIDE DEF I, Becomes
<1>1. ASSUME NEW t \in Turns, NEW who \in Speakers, Announce(t, who)
      PROVE  I
  BY <1>a, <1>1, MadeEffect DEF Announce, Places
<1>2. ASSUME NEW t \in Turns, NEW who \in Speakers, Begin(t, who)
      PROVE  I
  BY <1>a, <1>2, MadeEffect, BeginnerIsAlone DEF Begin, Places
<1>3. ASSUME NEW t \in Turns, TakeLock(t)
      PROVE  I
  BY <1>0, <1>a, <1>3, TakeLockEffect, TakerIsAlone
<1>4. ASSUME NEW t \in Turns, Busy(t) \/ CannotStart(t) \/ Release(t)
      PROVE  I
  <2>1. Becomes(t, Blank("over")) /\ Blank("over").at = "over" /\ ~ Blank("over").late
    BY <1>4, EndEffect DEF Blank
  <2>2. QED
    BY <1>a, <2>1
<1>5. ASSUME NEW t \in Turns, Talk(t) \/ Unrouted(t) \/ Deny(t) \/ Raise(t) \/ Decline(t)
      PROVE  I
  BY <1>0, <1>a, <1>5, QuietEffect DEF MovesTo
<1>6. ASSUME NEW t \in Turns, NEW p \in Proposals, Propose(t, p)
      PROVE  I
  <2>1. Becomes(t, turn'[t]) /\ ~ turn'[t].late /\ Live(t)
    BY <1>0, <1>6, ProposeEffect DEF Propose, At
  <2>2. QED
    BY <1>a, <2>1
<1>7. ASSUME NEW t \in Turns, Stage(t)
      PROVE  I
  <2>1. Becomes(t, turn'[t]) /\ ~ turn'[t].late /\ Live(t)
    BY <1>0, <1>7, StageEffect DEF Stage, Runs, Allowed, At
  <2>2. QED
    BY <1>a, <2>1
<1>8. ASSUME NEW t \in Turns, Cancel(t)
      PROVE  I
  BY <1>0, <1>a, <1>8, CancelEffect DEF At, MovesTo
<1>9. ASSUME NEW t \in Turns, ConfirmTake(t)
      PROVE  I
  <2>1. Becomes(t, turn'[t]) /\ ~ turn'[t].late /\ Live(t)
    BY <1>0, <1>9, ConfirmTakeEffect DEF ConfirmTake, Runs, Allowed, At
  <2>2. QED
    BY <1>a, <2>1
<1>10. ASSUME NEW t \in Turns, ConfirmExecute(t)
       PROVE  I
  BY <1>0, <1>a, <1>10, ConfirmExecuteEffect DEF At, MovesTo
<1>11. ASSUME NEW t \in Turns, Reply(t) \/ TellError(t)
       PROVE  I
  <2>1. CASE host = "daemon"
    BY <1>0, <1>a, <1>11, <2>1, AnsweredEffect DEF MovesTo
  <2>2. CASE host # "daemon"
    <3>1. /\ Becomes(t, Blank("over"))
          /\ Blank("over").at = "over" /\ ~ Blank("over").late
      BY <1>11, <2>2, AnsweredEffect DEF Blank
    <3>2. QED
      BY <1>a, <3>1
  <2>3. QED
    BY <2>1, <2>2
<1>12. ASSUME NEW t \in Turns, Abandon(t)
       PROVE  I
  BY <1>12 DEF Abandon, OneAtATime, calling
<1>13. CASE CallBegins
  BY <1>0, <1>13 DEF CallBegins, I
<1>14. CASE CallEnds
  BY <1>0, <1>14, CallEndsEffect DEF I
<1>15. CASE UNCHANGED vars
  BY <1>0, <1>15 DEF vars, I
<1>16. I
  BY <1>1, <1>2, <1>3, <1>4, <1>5, <1>6, <1>7, <1>8, <1>9, <1>10, <1>11, <1>12, <1>13,
     <1>14, <1>15 DEF Next, TurnStep, I
<1>17. QED
  BY <1>16 DEF I

LEMMA ProposalStep ==
    ASSUME TypeOK, ProposalsAreSkills, [Next]_vars
    PROVE  ProposalsAreSkills'
<1> DEFINE Sound(r) == /\ r.at \in {"gate", "execute"} => r.proposal \in Proposals
                       /\ r.prompts => /\ r.at \in {"reply", "release"}
                                       /\ r.proposal \in Proposals
<1>0. \A t \in Turns : Sound(turn[t])
  BY DEF ProposalsAreSkills
<1>a. ASSUME NEW t \in Turns, NEW r, Becomes(t, r), Sound(r)
      PROVE  ProposalsAreSkills'
  BY <1>0, <1>a DEF ProposalsAreSkills, Becomes
<1>b. Sound(Blank("over"))
  BY DEF Blank
<1>1. ASSUME NEW t \in Turns, NEW who \in Speakers, Announce(t, who)
      PROVE  ProposalsAreSkills'
  BY <1>a, <1>1, MadeEffect DEF Announce, Places
<1>2. ASSUME NEW t \in Turns, NEW who \in Speakers, Begin(t, who)
      PROVE  ProposalsAreSkills'
  BY <1>a, <1>2, MadeEffect DEF Begin, Places
<1>3. ASSUME NEW t \in Turns, TakeLock(t)
      PROVE  ProposalsAreSkills'
  <2>1. /\ Becomes(t, turn'[t]) /\ turn'[t].at = "running"
        /\ turn'[t].prompts = turn[t].prompts /\ turn[t].at = "announced"
    BY <1>3, TakeLockEffect DEF TakeLock, At
  <2>2. ~ turn[t].prompts
    BY <1>0, <2>1
  <2>3. QED
    BY <1>a, <2>1, <2>2
<1>4. ASSUME NEW t \in Turns, Busy(t) \/ CannotStart(t) \/ Release(t)
      PROVE  ProposalsAreSkills'
  BY <1>a, <1>b, <1>4, EndEffect
<1>5. ASSUME NEW t \in Turns, Talk(t) \/ Unrouted(t) \/ Deny(t) \/ Raise(t) \/ Decline(t)
      PROVE  ProposalsAreSkills'
  BY <1>0, <1>a, <1>5, QuietEffect DEF MovesTo
<1>6. ASSUME NEW t \in Turns, NEW p \in Proposals, Propose(t, p)
      PROVE  ProposalsAreSkills'
  <2>1. /\ Becomes(t, turn'[t]) /\ turn'[t].at = "gate" /\ turn'[t].proposal = p
        /\ turn'[t].prompts = turn[t].prompts /\ turn[t].at = "running"
    BY <1>6, ProposeEffect DEF Propose, At
  <2>2. ~ turn[t].prompts
    BY <1>0, <2>1
  <2>3. QED
    BY <1>a, <2>1, <2>2
<1>7. ASSUME NEW t \in Turns, Stage(t)
      PROVE  ProposalsAreSkills'
  BY <1>0, <1>a, <1>7, StageEffect DEF Stage, Runs, Allowed, At
<1>8. ASSUME NEW t \in Turns, Cancel(t)
      PROVE  ProposalsAreSkills'
  BY <1>0, <1>a, <1>8, CancelEffect DEF At, MovesTo
<1>9. ASSUME NEW t \in Turns, ConfirmTake(t)
      PROVE  ProposalsAreSkills'
  <2>1. /\ Becomes(t, turn'[t]) /\ turn'[t].proposal = turn[t].proposal
        /\ turn'[t].prompts = turn[t].prompts /\ turn'[t].at \in {"reply", "execute"}
    BY <1>9, ConfirmTakeEffect
  <2>2. turn[t].at = "gate"
    BY <1>9 DEF ConfirmTake, Runs, Allowed, At
  <2>3. turn[t].proposal \in Proposals /\ ~ turn[t].prompts
    BY <1>0, <2>2
  <2>4. QED
    BY <1>a, <2>1, <2>3
<1>10. ASSUME NEW t \in Turns, ConfirmExecute(t)
       PROVE  ProposalsAreSkills'
  BY <1>0, <1>a, <1>10, ConfirmExecuteEffect DEF At, MovesTo
<1>11. ASSUME NEW t \in Turns, Reply(t) \/ TellError(t)
       PROVE  ProposalsAreSkills'
  BY <1>0, <1>a, <1>b, <1>11, AnsweredEffect DEF MovesTo
<1>12. ASSUME NEW t \in Turns, Abandon(t)
       PROVE  ProposalsAreSkills'
  BY <1>0, <1>a, <1>12, AbandonEffect
<1>13. CASE CallBegins
  BY <1>13 DEF CallBegins, ProposalsAreSkills
<1>14. CASE CallEnds
  BY <1>14, CallEndsEffect DEF ProposalsAreSkills
<1>15. CASE UNCHANGED vars
  BY <1>15 DEF vars, ProposalsAreSkills
<1>16. QED
  BY <1>1, <1>2, <1>3, <1>4, <1>5, <1>6, <1>7, <1>8, <1>9, <1>10, <1>11, <1>12, <1>13,
     <1>14, <1>15 DEF Next, TurnStep

\* While a turn is under way, no other executes, asks or is about to be routed.
LEMMA OthersRest ==
    ASSUME OneIsLive, OneAtATime, NEW t \in Turns, Live(t)
    PROVE  \A u \in Turns \ {t} : turn[u].at \in {"off", "announced", "over"}
BY DEF OneIsLive, Live

\* Who has prompts has its answer to give or has given it.
LEMMA PromptsComeLate ==
    ASSUME ProposalsAreSkills, NEW t \in Turns, turn[t].at \notin {"reply", "release"}
    PROVE  ~ turn[t].prompts
BY DEF ProposalsAreSkills

LEMMA StagedStep ==
    ASSUME TypeOK, OneIsLive, ProposalsAreSkills, StagedIsAsked, [Next]_vars
    PROVE  StagedIsAsked'
<1> DEFINE I == /\ \A t \in Turns : Asking(t)' => staged'[TrioOf(t)'] = t
                /\ \A k \in Trios : staged'[k] # NoTurn =>
                      \/ staged'[k] = asked'[k]
                      \/ \E t \in Turns : Asking(t)' /\ TrioOf(t)' = k
<1> SUFFICES ASSUME OneAtATime'
             PROVE  I
  BY DEF StagedIsAsked
<1>0. /\ OneAtATime
      /\ \A t \in Turns : Asking(t) => staged[TrioOf(t)] = t
      /\ \A k \in Trios : staged[k] # NoTurn =>
            staged[k] = asked[k] \/ \E t \in Turns : Asking(t) /\ TrioOf(t) = k
  BY StillOneAtATime DEF StagedIsAsked
<1> USE DEF calling, history
<1>a. ASSUME NEW t \in Turns, NEW r, Becomes(t, r), ~ (r.at = "reply" /\ r.prompts),
             ~ Asking(t), UNCHANGED <<staged, asked>>
      PROVE  I
  <2>1. \A u \in Turns : /\ Asking(u)' <=> Asking(u)
                         /\ Asking(u) => TrioOf(u)' = TrioOf(u)
    BY <1>a DEF Becomes, Asking, At, TrioOf
  <2>2. QED
    BY <1>0, <1>a, <2>1
<1>b. ASSUME NEW t \in Turns, At(t, "gate")
      PROVE  /\ \A u \in Turns : ~ Asking(u)
             /\ \A k \in Trios : staged[k] # NoTurn => staged[k] = asked[k]
             /\ TrioOf(t) \in Trios
  <2>1. \A u \in Turns : ~ Asking(u)
    BY <1>0, <1>b, OthersRest DEF Asking, At, Live
  <2>2. QED
    BY <1>0, <1>b, <2>1 DEF ProposalsAreSkills, At, TrioOf, Proposals
<1>c. ASSUME NEW t \in Turns, At(t, "gate"), Becomes(t, turn'[t]), ~ turn'[t].prompts,
             asked' = asked, staged' = [staged EXCEPT ![TrioOf(t)] = NoTurn]
      PROVE  I
  <2>1. \A u \in Turns : ~ Asking(u)'
    BY <1>b, <1>c DEF Becomes, Asking, At
  <2>2. \A k \in Trios : staged'[k] # NoTurn => staged'[k] = asked'[k]
    BY <1>b, <1>c DEF TypeOK
  <2>3. QED
    BY <2>1, <2>2
<1>1. ASSUME NEW t \in Turns, NEW who \in Speakers, Announce(t, who)
      PROVE  I
  <2>1. Becomes(t, turn'[t]) /\ ~ turn'[t].prompts /\ ~ Asking(t)
    BY <1>1, MadeEffect DEF Announce, Places, Asking, At
  <2>2. QED
    BY <1>1, <1>a, <2>1 DEF Announce
<1>2. ASSUME NEW t \in Turns, NEW who \in Speakers, Begin(t, who)
      PROVE  I
  <2>1. Becomes(t, turn'[t]) /\ ~ turn'[t].prompts /\ ~ Asking(t)
    BY <1>2, MadeEffect DEF Begin, Places, Asking, At
  <2>2. QED
    BY <1>2, <1>a, <2>1 DEF Begin
<1>3. ASSUME NEW t \in Turns, TakeLock(t)
      PROVE  I
  <2>1. Becomes(t, turn'[t]) /\ turn'[t].at = "running" /\ ~ Asking(t)
    BY <1>3, TakeLockEffect DEF TakeLock, Asking, At
  <2>2. QED
    BY <1>3, <1>a, <2>1 DEF TakeLock
<1>4. ASSUME NEW t \in Turns, Busy(t) \/ CannotStart(t) \/ Release(t)
      PROVE  I
  <2>1. Becomes(t, Blank("over")) /\ ~ Blank("over").prompts /\ ~ Asking(t)
    BY <1>4, EndEffect DEF Blank, Asking, At
  <2>2. UNCHANGED <<staged, asked>>
    BY <1>4, EndEffect
  <2>3. QED
    BY <1>a, <2>1, <2>2
<1>5. ASSUME NEW t \in Turns, Talk(t) \/ Unrouted(t) \/ Deny(t) \/ Raise(t) \/ Decline(t)
      PROVE  I
  <2>1. Becomes(t, turn'[t]) /\ ~ turn'[t].prompts /\ ~ Asking(t)
    BY <1>5, QuietEffect, PromptsComeLate DEF MovesTo, Asking, At
  <2>2. UNCHANGED <<staged, asked>>
    BY <1>5, QuietEffect
  <2>3. QED
    BY <1>a, <2>1, <2>2
<1>6. ASSUME NEW t \in Turns, NEW p \in Proposals, Propose(t, p)
      PROVE  I
  <2>1. Becomes(t, turn'[t]) /\ turn'[t].at = "gate" /\ ~ Asking(t)
    BY <1>6, ProposeEffect DEF Propose, Asking, At
  <2>2. QED
    BY <1>6, <1>a, <2>1 DEF Propose
<1>7. ASSUME NEW t \in Turns, Stage(t)
      PROVE  I
  <2>1. /\ Becomes(t, turn'[t]) /\ turn'[t].at = "reply" /\ turn'[t].prompts
        /\ TrioOf(t)' = TrioOf(t) /\ At(t, "gate")
    BY <1>7, StageEffect DEF Stage, Runs, Allowed, TrioOf
  <2>2. /\ staged' = [staged EXCEPT ![TrioOf(t)] = t]
        /\ staged \in [Trios -> TurnOrNone] /\ asked' = asked
    BY <1>7 DEF Stage, TypeOK
  <2>3. \A u \in Turns : Asking(u)' <=> u = t
    BY <1>b, <2>1 DEF Becomes, Asking, At
  <2>4. staged'[TrioOf(t)] = t
    BY <1>b, <2>1, <2>2
  <2>5. \A k \in Trios \ {TrioOf(t)} : staged'[k] = staged[k]
    BY <2>2
  <2>6. QED
    BY <1>b, <2>1, <2>2, <2>3, <2>4, <2>5
<1>8. ASSUME NEW t \in Turns, Cancel(t)
      PROVE  I
  <2>1. At(t, "gate") /\ Becomes(t, turn'[t]) /\ ~ turn'[t].prompts
    BY <1>8, CancelEffect, PromptsComeLate DEF MovesTo, At
  <2>2. QED
    BY <1>8, <1>c, <2>1 DEF Cancel
<1>9. ASSUME NEW t \in Turns, ConfirmTake(t)
      PROVE  I
  <2>1. At(t, "gate")
    BY <1>9 DEF ConfirmTake, Runs, Allowed
  <2>2. Becomes(t, turn'[t]) /\ ~ turn'[t].prompts
    BY <1>9, <2>1, ConfirmTakeEffect, PromptsComeLate DEF At
  <2>3. QED
    BY <1>9, <1>c, <2>1, <2>2 DEF ConfirmTake
<1>10. ASSUME NEW t \in Turns, ConfirmExecute(t)
       PROVE  I
  <2>1. Becomes(t, turn'[t]) /\ ~ turn'[t].prompts /\ ~ Asking(t)
    BY <1>10, ConfirmExecuteEffect, PromptsComeLate DEF MovesTo, Asking, At
  <2>2. QED
    BY <1>10, <1>a, <2>1 DEF ConfirmExecute
<1>11. ASSUME NEW t \in Turns, TellError(t)
       PROVE  I
  <2>1. ~ Asking(t) /\ ~ turn[t].prompts /\ asked' = asked /\ staged' = staged
    BY <1>11, PromptsComeLate DEF TellError, Asking, At
  <2>2. CASE host = "daemon"
    BY <1>11, <1>a, <2>1, <2>2, AnsweredEffect DEF MovesTo
  <2>3. CASE host # "daemon"
    <3>1. Becomes(t, Blank("over")) /\ ~ Blank("over").prompts
      BY <1>11, <2>3, AnsweredEffect DEF Blank
    <3>2. QED
      BY <1>a, <2>1, <3>1
  <2>4. QED
    BY <2>2, <2>3
<1>12. ASSUME NEW t \in Turns, Reply(t)
       PROVE  I
  <2>1. /\ At(t, "reply") /\ Live(t) /\ ~ turn[t].late
        /\ staged' = staged /\ Becomes(t, turn'[t]) /\ turn'[t].at # "reply"
    <3>1. Blank("over").at = "over"
      BY DEF Blank
    <3>2. Becomes(t, turn'[t]) /\ turn'[t].at # "reply"
      BY <1>12, <3>1, AnsweredEffect DEF MovesTo, Becomes
    <3>3. QED
      BY <1>0, <1>12, <3>2 DEF Reply, OneIsLive, At, Live
  <2>2. \A u \in Turns : ~ Asking(u)'
    BY <1>0, <2>1, OthersRest DEF Becomes, Asking, At
  <2>3. CASE turn[t].prompts
    <3>1. TrioOf(t) \in Trios /\ asked' = [asked EXCEPT ![TrioOf(t)] = t]
      BY <1>12, <2>1, <2>3 DEF Reply, ProposalsAreSkills, TrioOf, Proposals
    <3>2. staged[TrioOf(t)] = t /\ asked'[TrioOf(t)] = t
      BY <1>0, <2>1, <2>3, <3>1 DEF Asking, TypeOK
    <3>3. \A u \in Turns : Asking(u) => u = t
      BY <1>0, <2>1, OthersRest DEF Asking, At
    <3>4. \A k \in Trios \ {TrioOf(t)} : asked'[k] = asked[k]
      BY <3>1 DEF TypeOK
    <3>5. QED
      BY <1>0, <2>1, <2>2, <3>2, <3>3, <3>4
  <2>4. CASE ~ turn[t].prompts
    <3>1. asked' = asked
      BY <1>12, <2>4 DEF Reply
    <3>2. \A u \in Turns : ~ Asking(u)
      BY <1>0, <2>1, <2>4, OthersRest DEF Asking, At
    <3>3. QED
      BY <1>0, <2>1, <2>2, <3>1, <3>2
  <2>5. QED
    BY <2>3, <2>4
<1>13. ASSUME NEW t \in Turns, Abandon(t)
       PROVE  I
  BY <1>13 DEF Abandon, OneAtATime
<1>14. CASE CallBegins
  BY <1>0, <1>14 DEF CallBegins, Asking, At, TrioOf
<1>15. CASE CallEnds
  <2>1. \A u \in Turns : (Asking(u)' <=> Asking(u)) /\ TrioOf(u)' = TrioOf(u)
    BY <1>15, CallEndsEffect DEF Asking, At, TrioOf
  <2>2. QED
    BY <1>0, <1>15, <2>1 DEF CallEnds
<1>16. CASE UNCHANGED vars
  BY <1>0, <1>16 DEF vars, Asking, At, TrioOf
<1>17. QED
  BY <1>1, <1>2, <1>3, <1>4, <1>5, <1>6, <1>7, <1>8, <1>9, <1>10, <1>11, <1>12, <1>13,
     <1>14, <1>15, <1>16 DEF Next, TurnStep

LEMMA AgreedStep ==
    ASSUME TypeOK, OneIsLive, ProposalsAreSkills, AgreedIsAsked, [Next]_vars
    PROVE  AgreedIsAsked'
<1> DEFINE Agrees(r, question) == r.at \in {"running", "gate"} => r.agreed = question
           I == \A t \in Turns : Agrees(turn'[t], asked')
<1> SUFFICES ASSUME OneAtATime'
             PROVE  I
  BY DEF AgreedIsAsked
<1>0. OneAtATime /\ \A t \in Turns : Agrees(turn[t], asked)
  BY StillOneAtATime DEF AgreedIsAsked
<1> USE DEF calling, history
<1>a. ASSUME NEW t \in Turns, NEW r, Becomes(t, r), Agrees(r, asked), asked' = asked
      PROVE  I
  BY <1>0, <1>a DEF Becomes
<1>b. Agrees(Blank("over"), asked)
  BY DEF Blank
<1>1. ASSUME NEW t \in Turns, NEW who \in Speakers, Announce(t, who)
      PROVE  I
  BY <1>1, <1>a, MadeEffect DEF Announce, Places
<1>2. ASSUME NEW t \in Turns, NEW who \in Speakers, Begin(t, who)
      PROVE  I
  BY <1>2, <1>a, MadeEffect DEF Begin, Places
<1>3. ASSUME NEW t \in Turns, TakeLock(t)
      PROVE  I
  BY <1>3, <1>a, TakeLockEffect DEF TakeLock
<1>4. ASSUME NEW t \in Turns, Busy(t) \/ CannotStart(t) \/ Release(t)
      PROVE  I
  BY <1>4, <1>a, <1>b, EndEffect
<1>5. ASSUME NEW t \in Turns, Talk(t) \/ Unrouted(t) \/ Deny(t) \/ Raise(t) \/ Decline(t)
      PROVE  I
  BY <1>5, <1>a, QuietEffect DEF MovesTo
<1>6. ASSUME NEW t \in Turns, NEW p \in Proposals, Propose(t, p)
      PROVE  I
  <2>1. Becomes(t, turn'[t]) /\ turn'[t].agreed = asked /\ asked' = asked
    BY <1>0, <1>6, ProposeEffect DEF Propose, At
  <2>2. QED
    BY <1>a, <2>1
<1>7. ASSUME NEW t \in Turns, Stage(t)
      PROVE  I
  BY <1>7, <1>a, StageEffect DEF Stage
<1>8. ASSUME NEW t \in Turns, Cancel(t)
      PROVE  I
  BY <1>8, <1>a, CancelEffect DEF Cancel, MovesTo
<1>9. ASSUME NEW t \in Turns, ConfirmTake(t)
      PROVE  I
  <2>1. /\ Becomes(t, turn'[t]) /\ turn'[t].at \in {"reply", "execute"}
        /\ asked' = asked
    BY <1>9, ConfirmTakeEffect DEF ConfirmTake
  <2>2. QED
    BY <1>a, <2>1
<1>10. ASSUME NEW t \in Turns, ConfirmExecute(t)
       PROVE  I
  BY <1>10, <1>a, ConfirmExecuteEffect DEF ConfirmExecute, MovesTo
<1>11. ASSUME NEW t \in Turns, Reply(t) \/ TellError(t)
       PROVE  I
  <2>1. Live(t)
    BY <1>11, AnsweredEffect DEF Live
  <2>2. \A u \in Turns \ {t} : turn'[u] = turn[u] /\ turn[u].at \notin {"running", "gate"}
    BY <1>0, <1>11, <2>1, AnsweredEffect, OthersRest DEF Becomes, MovesTo
  <2>3. turn'[t].at \in {"release", "over"}
    BY <1>11, AnsweredEffect DEF Becomes, MovesTo, Blank
  <2>4. QED
    BY <2>2, <2>3
<1>12. ASSUME NEW t \in Turns, Abandon(t)
       PROVE  I
  BY <1>12 DEF Abandon, OneAtATime
<1>13. CASE CallBegins
  BY <1>0, <1>13 DEF CallBegins
<1>14. CASE CallEnds
  BY <1>0, <1>14, CallEndsEffect DEF CallEnds
<1>15. CASE UNCHANGED vars
  BY <1>0, <1>15 DEF vars
<1>16. QED
  BY <1>1, <1>2, <1>3, <1>4, <1>5, <1>6, <1>7, <1>8, <1>9, <1>10, <1>11, <1>12, <1>13,
     <1>14, <1>15 DEF Next, TurnStep

\* A confirming skill takes out what was asked before its turn was accepted: nothing
\* has been staged or asked since.
LEMMA ConfirmStep ==
    ASSUME TypeOK, OneIsLive, ProposalsAreSkills, StagedIsAsked, AgreedIsAsked,
           ConfirmsWhatWasAsked, [Next]_vars
    PROVE  ConfirmsWhatWasAsked'
<1> DEFINE Told(r) == r.at = "execute" => r.taken = r.agreed[r.proposal.trio]
           I == \A t \in Turns : Told(turn'[t])
<1> SUFFICES ASSUME OneAtATime'
             PROVE  I
  BY DEF ConfirmsWhatWasAsked, At, TrioOf
<1>0. OneAtATime /\ \A t \in Turns : Told(turn[t])
  BY StillOneAtATime DEF ConfirmsWhatWasAsked, At, TrioOf
<1> USE DEF calling, history
<1>a. ASSUME NEW t \in Turns, NEW r, Becomes(t, r), Told(r)
      PROVE  I
  BY <1>0, <1>a DEF Becomes
<1>b. Told(Blank("over"))
  BY DEF Blank
<1>1. ASSUME NEW t \in Turns, NEW who \in Speakers, Announce(t, who)
      PROVE  I
  BY <1>1, <1>a, MadeEffect DEF Announce, Places
<1>2. ASSUME NEW t \in Turns, NEW who \in Speakers, Begin(t, who)
      PROVE  I
  BY <1>2, <1>a, MadeEffect DEF Begin, Places
<1>3. ASSUME NEW t \in Turns, TakeLock(t)
      PROVE  I
  BY <1>3, <1>a, TakeLockEffect
<1>4. ASSUME NEW t \in Turns, Busy(t) \/ CannotStart(t) \/ Release(t)
      PROVE  I
  BY <1>4, <1>a, <1>b, EndEffect
<1>5. ASSUME NEW t \in Turns, Talk(t) \/ Unrouted(t) \/ Deny(t) \/ Raise(t) \/ Decline(t)
      PROVE  I
  BY <1>5, <1>a, QuietEffect DEF MovesTo
<1>6. ASSUME NEW t \in Turns, NEW p \in Proposals, Propose(t, p)
      PROVE  I
  BY <1>6, <1>a, ProposeEffect
<1>7. ASSUME NEW t \in Turns, Stage(t)
      PROVE  I
  BY <1>7, <1>a, StageEffect
<1>8. ASSUME NEW t \in Turns, Cancel(t)
      PROVE  I
  BY <1>8, <1>a, CancelEffect DEF MovesTo
<1>9. ASSUME NEW t \in Turns, ConfirmTake(t)
      PROVE  I
  <2> DEFINE k == TrioOf(t)
  <2>1. At(t, "gate") /\ Live(t)
    BY <1>9 DEF ConfirmTake, Runs, Allowed, At, Live
  <2>2. \A u \in Turns : ~ Asking(u)
    BY <1>0, <2>1, OthersRest DEF Asking, At
  <2>3. k \in Trios /\ turn[t].agreed = asked
    BY <1>0, <1>9, <2>1, ConfirmTakeEffect DEF AgreedIsAsked, At
  <2>4. staged[k] # NoTurn => staged[k] = turn[t].agreed[k]
    BY <1>0, <2>2, <2>3 DEF StagedIsAsked
  <2>5. /\ Becomes(t, turn'[t])
        /\ turn'[t].taken = staged[k] /\ turn'[t].agreed = turn[t].agreed
        /\ turn'[t].proposal.trio = k
        /\ turn'[t].at = "execute" => staged[k] # NoTurn
    BY <1>9, ConfirmTakeEffect DEF TrioOf
  <2>6. QED
    BY <1>a, <2>4, <2>5
<1>10. ASSUME NEW t \in Turns, ConfirmExecute(t)
       PROVE  I
  BY <1>10, <1>a, ConfirmExecuteEffect DEF MovesTo
<1>11. ASSUME NEW t \in Turns, Reply(t) \/ TellError(t)
       PROVE  I
  BY <1>11, <1>a, <1>b, AnsweredEffect DEF MovesTo
<1>12. ASSUME NEW t \in Turns, Abandon(t)
       PROVE  I
  BY <1>12 DEF Abandon, OneAtATime
<1>13. CASE CallBegins
  BY <1>0, <1>13 DEF CallBegins
<1>14. CASE CallEnds
  BY <1>0, <1>14, CallEndsEffect DEF CallEnds
<1>15. CASE UNCHANGED vars
  BY <1>0, <1>15 DEF vars
<1>16. QED
  BY <1>1, <1>2, <1>3, <1>4, <1>5, <1>6, <1>7, <1>8, <1>9, <1>10, <1>11, <1>12, <1>13,
     <1>14, <1>15 DEF Next, TurnStep

LEMMA ThroughStep ==
    ASSUME TypeOK, ProposalsAreSkills, ThroughIsInACall, [Next]_vars
    PROVE  ThroughIsInACall'
<1> DEFINE I == \A t \in Turns : turn'[t].through => context'
<1> SUFFICES I
  BY DEF ThroughIsInACall
<1>0. \A t \in Turns : turn[t].through => context
  BY DEF ThroughIsInACall
<1> USE DEF calling, history
<1>a. ASSUME NEW t \in Turns, NEW r, Becomes(t, r), r.through => context,
             context' = context
      PROVE  I
  BY <1>0, <1>a DEF Becomes
<1>b. ~ Blank("over").through
  BY DEF Blank
<1>1. ASSUME NEW t \in Turns, NEW who \in Speakers, Announce(t, who)
      PROVE  I
  BY <1>1, <1>a, MadeEffect DEF Announce, Places
<1>2. ASSUME NEW t \in Turns, NEW who \in Speakers, Begin(t, who)
      PROVE  I
  BY <1>2, <1>a, MadeEffect DEF Begin, Places
<1>3. ASSUME NEW t \in Turns, TakeLock(t)
      PROVE  I
  <2>1. /\ Becomes(t, turn'[t]) /\ turn'[t].through = turn[t].through
        /\ context' = context
    BY <1>3, TakeLockEffect DEF TakeLock
  <2>2. QED
    BY <1>0, <1>a, <2>1
<1>4. ASSUME NEW t \in Turns, Busy(t) \/ CannotStart(t) \/ Release(t)
      PROVE  I
  BY <1>4, <1>a, <1>b, EndEffect
<1>5. ASSUME NEW t \in Turns, Talk(t) \/ Unrouted(t) \/ Deny(t) \/ Raise(t) \/ Decline(t)
      PROVE  I
  BY <1>0, <1>5, <1>a, QuietEffect DEF MovesTo
<1>6. ASSUME NEW t \in Turns, NEW p \in Proposals, Propose(t, p)
      PROVE  I
  <2>1. /\ Becomes(t, turn'[t]) /\ turn'[t].through = turn[t].through
        /\ context' = context
    BY <1>6, ProposeEffect DEF Propose
  <2>2. QED
    BY <1>0, <1>a, <2>1
<1>7. ASSUME NEW t \in Turns, Stage(t)
      PROVE  I
  BY <1>0, <1>7, <1>a, StageEffect DEF Stage
<1>8. ASSUME NEW t \in Turns, Cancel(t)
      PROVE  I
  BY <1>0, <1>8, <1>a, CancelEffect DEF Cancel, MovesTo
<1>9. ASSUME NEW t \in Turns, ConfirmTake(t)
      PROVE  I
  <2>1. /\ Becomes(t, turn'[t]) /\ turn'[t].through = turn[t].through
        /\ context' = context
    BY <1>9, ConfirmTakeEffect DEF ConfirmTake
  <2>2. QED
    BY <1>0, <1>a, <2>1
<1>10. ASSUME NEW t \in Turns, ConfirmExecute(t)
       PROVE  I
  <2>1. /\ Becomes(t, turn'[t]) /\ turn'[t].through = turn[t].through
        /\ context' = context
    BY <1>10, ConfirmExecuteEffect DEF ConfirmExecute, MovesTo
  <2>2. QED
    BY <1>0, <1>a, <2>1
<1>11. ASSUME NEW t \in Turns, Reply(t) \/ TellError(t)
       PROVE  I
  BY <1>0, <1>11, <1>a, <1>b, AnsweredEffect DEF MovesTo
<1>12. ASSUME NEW t \in Turns, Abandon(t)
       PROVE  I
  BY <1>0, <1>12, <1>a, AbandonEffect DEF Abandon
<1>13. CASE CallBegins
  BY <1>0, <1>13 DEF CallBegins
<1>14. CASE CallEnds
  BY <1>14, CallEndsEffect
<1>15. CASE UNCHANGED vars
  BY <1>0, <1>15 DEF vars
<1>16. QED
  BY <1>1, <1>2, <1>3, <1>4, <1>5, <1>6, <1>7, <1>8, <1>9, <1>10, <1>11, <1>12, <1>13,
     <1>14, <1>15 DEF Next, TurnStep

\* Actions are staged by turns that have not staged yet, are taken out once, and are
\* executed by who took them out.
LEMMA OnceStep ==
    ASSUME TypeOK, OneIsLive, ProposalsAreSkills, ActionsAreOnce, [Next]_vars
    PROVE  ActionsAreOnce'
<1> DEFINE Held == \A k \in Trios : staged[k] # NoTurn =>
                      /\ ~ Unstaged(staged[k]) /\ executed[staged[k]] = 0
                      /\ \A j \in Trios : staged[j] = staged[k] => j = k
           Taken == \A t \in Turns : At(t, "execute") =>
                      /\ turn[t].taken \in Turns
                      /\ ~ Unstaged(turn[t].taken) /\ executed[turn[t].taken] = 0
                      /\ \A k \in Trios : staged[k] # turn[t].taken
           Fresh == \A a \in Turns : Unstaged(a) => executed[a] = 0
           Once == \A a \in Turns : executed[a] <= 1
           I == Held' /\ Taken' /\ Fresh' /\ Once'
<1> SUFFICES ASSUME OneAtATime'
             PROVE  I
  BY DEF ActionsAreOnce
<1>0. OneAtATime /\ Held /\ Taken /\ Fresh /\ Once
  BY StillOneAtATime DEF ActionsAreOnce
<1>00. \A k \in Trios : staged[k] # NoTurn => staged[k] \in Turns
  BY DEF TypeOK, TurnOrNone
<1> USE DEF calling, history
\* A turn moves on without touching an action.
<1>a. ASSUME NEW t \in Turns, NEW r, Becomes(t, r), UNCHANGED <<staged, executed>>,
             r.at # "execute",
             Unstaged(t) \/ r.at \notin {"off", "announced", "running", "gate"}
      PROVE  I
  <2>1. \A a \in Turns : Unstaged(a)' => Unstaged(a)
    BY <1>a DEF Becomes, Unstaged
  <2>2. Held'
    BY <1>0, <1>00, <1>a, <2>1
  <2>3. Taken'
    BY <1>0, <1>a, <2>1 DEF Becomes, At
  <2>4. Fresh' /\ Once'
    BY <1>0, <1>a, <2>1
  <2>5. QED
    BY <2>2, <2>3, <2>4
<1>b. Blank("over").at = "over"
  BY DEF Blank
<1>c. ASSUME NEW t \in Turns, At(t, "gate")
      PROVE  /\ \A u \in Turns \ {t} : ~ At(u, "execute")
             /\ \A k \in Trios : staged[k] # t
             /\ TrioOf(t) \in Trios /\ executed[t] = 0
  <2>1. Live(t) /\ Unstaged(t)
    BY <1>c DEF At, Live, Unstaged
  <2>2. QED
    BY <1>0, <1>00, <1>c, <2>1, OthersRest, NoTurnIsNone
       DEF At, ProposalsAreSkills, Proposals, TrioOf
<1>1. ASSUME NEW t \in Turns, NEW who \in Speakers, Announce(t, who)
      PROVE  I
  <2>1. Becomes(t, turn'[t]) /\ turn'[t].at = "announced" /\ Unstaged(t)
    BY <1>1, MadeEffect DEF Announce, Places, Unstaged, At
  <2>2. QED
    BY <1>1, <1>a, <2>1 DEF Announce
<1>2. ASSUME NEW t \in Turns, NEW who \in Speakers, Begin(t, who)
      PROVE  I
  <2>1. Becomes(t, turn'[t]) /\ turn'[t].at = "running" /\ Unstaged(t)
    BY <1>2, MadeEffect DEF Begin, Places, Unstaged, At
  <2>2. QED
    BY <1>2, <1>a, <2>1 DEF Begin
<1>3. ASSUME NEW t \in Turns, TakeLock(t)
      PROVE  I
  <2>1. Becomes(t, turn'[t]) /\ turn'[t].at = "running" /\ Unstaged(t)
    BY <1>3, TakeLockEffect DEF TakeLock, Unstaged, At
  <2>2. QED
    BY <1>3, <1>a, <2>1 DEF TakeLock
<1>4. ASSUME NEW t \in Turns, Busy(t) \/ CannotStart(t) \/ Release(t)
      PROVE  I
  BY <1>4, <1>a, <1>b, EndEffect
<1>5. ASSUME NEW t \in Turns, Talk(t) \/ Unrouted(t) \/ Deny(t) \/ Raise(t) \/ Decline(t)
      PROVE  I
  BY <1>5, <1>a, QuietEffect DEF MovesTo
<1>6. ASSUME NEW t \in Turns, NEW p \in Proposals, Propose(t, p)
      PROVE  I
  <2>1. Becomes(t, turn'[t]) /\ turn'[t].at = "gate" /\ Unstaged(t)
    BY <1>6, ProposeEffect DEF Propose, Unstaged, At
  <2>2. QED
    BY <1>6, <1>a, <2>1 DEF Propose
<1>7. ASSUME NEW t \in Turns, Stage(t)
      PROVE  I
  <2>1. At(t, "gate") /\ Becomes(t, turn'[t]) /\ turn'[t].at = "reply"
    BY <1>7, StageEffect DEF Stage, Runs, Allowed
  <2>2. staged' = [staged EXCEPT ![TrioOf(t)] = t] /\ executed' = executed
    BY <1>7 DEF Stage
  <2>3. /\ staged'[TrioOf(t)] = t
        /\ \A k \in Trios \ {TrioOf(t)} : staged'[k] = staged[k]
    BY <1>c, <2>1, <2>2 DEF TypeOK
  <2>4. /\ ~ Unstaged(t)'
        /\ \A a \in Turns : Unstaged(a)' => Unstaged(a)
    BY <2>1 DEF Becomes, Unstaged
  <2>5. \A u \in Turns : ~ At(u, "execute")'
    BY <1>c, <2>1 DEF Becomes, At
  <2>6. Held'
    BY <1>0, <1>00, <1>c, <2>1, <2>2, <2>3, <2>4
  <2>7. QED
    BY <1>0, <2>2, <2>4, <2>5, <2>6
<1>8. ASSUME NEW t \in Turns, Cancel(t)
      PROVE  I
  <2>1. At(t, "gate") /\ Becomes(t, turn'[t]) /\ turn'[t].at = "reply"
    BY <1>8, CancelEffect DEF MovesTo
  <2>2. \A k \in Trios : staged'[k] # NoTurn => staged'[k] = staged[k]
    BY <1>8 DEF Cancel, TypeOK
  <2>3. \A a \in Turns : Unstaged(a)' => Unstaged(a)
    BY <2>1 DEF Becomes, Unstaged
  <2>4. executed' = executed
    BY <1>8 DEF Cancel
  <2>5. \A u \in Turns : ~ At(u, "execute")'
    BY <1>c, <2>1 DEF Becomes, At
  <2>6. Held'
    BY <1>0, <1>00, <2>2, <2>3, <2>4
  <2>7. QED
    BY <1>0, <2>3, <2>4, <2>5, <2>6
<1>9. ASSUME NEW t \in Turns, ConfirmTake(t)
      PROVE  I
  <2> DEFINE k == TrioOf(t)
  <2>1. /\ At(t, "gate") /\ Becomes(t, turn'[t]) /\ turn'[t].taken = staged[k]
        /\ turn'[t].at = IF staged[k] = NoTurn THEN "reply" ELSE "execute"
        /\ k \in Trios
    BY <1>9, ConfirmTakeEffect DEF ConfirmTake, Runs, Allowed
  <2>2. staged' = [staged EXCEPT ![k] = NoTurn] /\ executed' = executed
    BY <1>9 DEF ConfirmTake
  <2>3. /\ staged'[k] = NoTurn
        /\ \A j \in Trios \ {k} : staged'[j] = staged[j]
    BY <2>1, <2>2 DEF TypeOK
  <2>4. \A a \in Turns : Unstaged(a)' => Unstaged(a)
    BY <2>1 DEF Becomes, Unstaged, At
  <2>5. Held'
    BY <1>0, <1>00, <2>2, <2>3, <2>4
  <2>6. Taken'
    <3> SUFFICES ASSUME NEW u \in Turns, At(u, "execute")', NEW a, a = turn'[u].taken
                 PROVE  /\ a \in Turns
                        /\ ~ Unstaged(a)' /\ executed'[a] = 0
                        /\ \A j \in Trios : staged'[j] # a
      BY DEF Unstaged
    <3>1. u = t /\ staged[k] # NoTurn
      BY <1>c, <2>1 DEF Becomes, At
    <3>2. a = staged[k] /\ a \in Turns
      BY <1>00, <2>1, <3>1
    <3>3. ~ Unstaged(a)' /\ executed'[a] = 0
      BY <1>0, <2>1, <2>2, <2>4, <3>1, <3>2
    <3>4. \A j \in Trios : staged'[j] # a
      BY <1>0, <2>1, <2>3, <3>1, <3>2
    <3>5. QED
      BY <3>2, <3>3, <3>4
  <2>7. QED
    BY <1>0, <2>2, <2>4, <2>5, <2>6
<1>10. ASSUME NEW t \in Turns, ConfirmExecute(t)
       PROVE  I
  <2> DEFINE action == turn[t].taken
  <2>1. /\ At(t, "execute") /\ Becomes(t, turn'[t])
        /\ turn'[t].at \in {"reply", "raised"}
    BY <1>10, ConfirmExecuteEffect DEF MovesTo
  <2>2. /\ action \in Turns /\ ~ Unstaged(action) /\ executed[action] = 0
        /\ \A k \in Trios : staged[k] # action
    BY <1>0, <2>1
  <2>3. staged' = staged /\ executed' = [executed EXCEPT ![action] = executed[action] + 1]
    BY <1>10 DEF ConfirmExecute
  <2>4. /\ executed'[action] = 1
        /\ \A a \in Turns \ {action} : executed'[a] = executed[a]
    BY <2>2, <2>3 DEF TypeOK
  <2>5. \A a \in Turns : Unstaged(a)' => Unstaged(a)
    BY <2>1 DEF Becomes, Unstaged
  <2>6. \A u \in Turns : ~ At(u, "execute")'
    <3>1. Live(t)
      BY <2>1 DEF At, Live
    <3>2. QED
      BY <1>0, <2>1, <3>1, OthersRest DEF Becomes, At
  <2>7. Held'
    BY <1>0, <1>00, <2>2, <2>3, <2>4, <2>5
  <2>8. Fresh' /\ Once'
    BY <1>0, <2>2, <2>4, <2>5
  <2>9. QED
    BY <2>6, <2>7, <2>8
<1>11. ASSUME NEW t \in Turns, Reply(t) \/ TellError(t)
       PROVE  I
  BY <1>11, <1>a, <1>b, AnsweredEffect DEF MovesTo
<1>12. ASSUME NEW t \in Turns, Abandon(t)
       PROVE  I
  BY <1>12 DEF Abandon, OneAtATime
<1>13. CASE CallBegins
  BY <1>0, <1>13 DEF CallBegins, Unstaged, At
<1>14. CASE CallEnds
  <2>1. \A a \in Turns : /\ Unstaged(a)' <=> Unstaged(a)
                         /\ At(a, "execute")' <=> At(a, "execute")
                         /\ turn'[a].taken = turn[a].taken
    BY <1>14, CallEndsEffect DEF Unstaged, At
  <2>2. staged' = staged /\ executed' = executed
    BY <1>14 DEF CallEnds
  <2>3. QED
    BY <1>0, <1>00, <2>1, <2>2
<1>15. CASE UNCHANGED vars
  BY <1>0, <1>15 DEF vars, Unstaged, At
<1>16. QED
  BY <1>1, <1>2, <1>3, <1>4, <1>5, <1>6, <1>7, <1>8, <1>9, <1>10, <1>11, <1>12, <1>13,
     <1>14, <1>15 DEF Next, TurnStep

-----------------------------------------------------------------------------
(* The theorems *)

LEMMA StepIInv == IInv /\ [Next]_vars => IInv'
BY TypeStep, LockStep, LiveStep, ProposalStep, StagedStep, AgreedStep, OnceStep,
   ThroughStep, ConfirmStep DEF IInv

\* The invariant holds in every behaviour.
THEOREM IInvSpec == Spec => []IInv
BY InitIInv, StepIInv, PTL DEF Spec

\* Every variable keeps its type.
THEOREM TypeCorrect == Spec => []TypeOK
<1>1. IInv => TypeOK
  BY DEF IInv
<1>2. QED
  BY <1>1, IInvSpec, PTL

\* BrainHost.async_turn and the staging holders: an action that a confirmation
\* executes is the one the operator was asked about last before his turn was accepted,
\* and no action is executed twice, as long as turns are under way one at a time.
THEOREM Confirmed == Spec => []ConfirmedOnceAsAsked
<1>1. ASSUME IInv
      PROVE  ConfirmedOnceAsAsked
  BY <1>1 DEF IInv, ActionsAreOnce, ConfirmedOnceAsAsked, ExecutedOnce
<1>2. QED
  BY <1>1, IInvSpec, PTL

\* A turn that passes the gate to a privileged trio is the operator's: Authorizer and
\* Brain._resolve_is_operator.
LEMMA AllowedIsOperators ==
    ASSUME ThroughIsInACall, NEW t \in Turns, Allowed(t), TrioOf(t) \in Privileged
    PROVE  /\ turn[t].speaker # "far"
           /\ turn[t].speaker = "unknown" => ~ turn[t].through
BY DEF Allowed, Authorized, IsOperator, ThroughIsInACall

\* Only who has passed the gate of a trio changes its holder.
LEMMA HolderStep ==
    ASSUME TypeOK, ProposalsAreSkills, ThroughIsInACall, [Next]_vars,
           NEW k \in Privileged, NEW t \in Turns, staged'[k] # staged[k],
           turn'[t] # turn[t]
    PROVE  /\ turn[t].speaker # "far"
           /\ turn[t].speaker = "unknown" => ~ turn[t].through
<1> DEFINE Mine == Allowed(t) /\ TrioOf(t) = k
<1>0. k \in Trios
  BY TurnsAssumption
<1> USE DEF calling, history
<1>1. PICK u \in Turns : Stage(u) \/ Cancel(u) \/ ConfirmTake(u)
  BY AnsweredEffect, EndEffect, QuietEffect DEF Next, TurnStep, vars, Announce, Begin,
     TakeLock, Propose, ConfirmExecute, Abandon, CallBegins, CallEnds
<1>2. Becomes(u, turn'[u])
  BY <1>1, StageEffect, CancelEffect, ConfirmTakeEffect DEF MovesTo
<1>3. u = t
  BY <1>2 DEF Becomes
<1>4. Allowed(t)
  BY <1>1, <1>3 DEF Stage, Cancel, ConfirmTake, Runs
<1>5. \E a : staged' = [staged EXCEPT ![TrioOf(t)] = a]
  BY <1>1, <1>3 DEF Stage, Cancel, ConfirmTake
<1>6. TrioOf(t) = k
  BY <1>0, <1>5 DEF TypeOK
<1>7. QED
  BY <1>4, <1>6, AllowedIsOperators

\* The holder of a privileged trio is changed for the operator only: never for the far
\* party, and for an unknown speaker only if he spoke in no known call or that call is
\* over.
THEOREM OperatorsOnly == Spec => OperatorActs
<1>1. ASSUME IInv, [Next]_vars
      PROVE  [\A k \in Privileged, t \in Turns :
                 (staged'[k] # staged[k] /\ turn'[t] # turn[t]) =>
                     /\ turn[t].speaker # "far"
                     /\ turn[t].speaker = "unknown" => ~ turn[t].through]_vars
  BY <1>1, HolderStep DEF IInv
<1>2. QED
  BY <1>1, IInvSpec, PTL DEF Spec, OperatorActs

----------------------------------------------------------------------------
(* Mail: the mailbox, and what was said of it.                              *)

Message == [came : BOOLEAN, in : BOOLEAN, seen : BOOLEAN, deleted : BOOLEAN, copies : Nat]

IsJob(j) == j = [at |-> j.at, skill |-> j.skill, mail |-> j.mail, list |-> j.list,
                 to |-> j.to, late |-> j.late]

\* What is in a field is not of interest, but that the fields are these.
Shapes ==
    /\ box \in [Mails -> Message]
    /\ triage = [current |-> triage.current, ids |-> triage.ids]
    /\ worker = [w \in Workers |-> worker[w]] /\ \A w \in Workers : IsJob(worker[w])

\* What is out of the inbox, or is to go, is in the archive, or another client wanted it out.
MailIsKept ==
    /\ \A m \in Mails :
          /\ box[m].came => box[m].in \/ box[m].copies > 0 \/ m \in flagged
          /\ box[m].deleted => box[m].copies > 0 \/ m \in flagged
    /\ \A w \in Workers :
          worker[w].skill = "archive" /\ worker[w].at \in {"copied", "stored"}
            => (worker[w].mail \in Mails => box[worker[w].mail].copies > 0)

IsRead(w) == M!At(w, "read", "reply") /\ worker[w].mail # M!NoMail

\* As long as turns follow each other: who has read a message has it in hand until it is
\* heard, and what waits for its confirmation is what was said.
OneByOne ==
    /\ \A v \in Workers, w \in Workers : v \in M!Busy /\ w \in M!Busy => v = w
    /\ \A w \in Workers : ~ worker[w].late
    /\ \A w \in Workers : IsRead(w) => triage.current = worker[w].mail
    /\ (\A w \in Workers : ~ IsRead(w)) => triage.current \in {M!NoMail, heard}
    /\ pending \in {M!NoAddress, said}
    /\ \A w \in Workers : M!At(w, "confirm", "sending") => worker[w].to = said

\* The inductive invariant.
MailInv == Shapes /\ MailIsKept /\ (~ mailDisturbed => OneByOne)

----------------------------------------------------------------------------
LEMMA InitMailInv == M!Init => MailInv
<1> SUFFICES ASSUME M!Init
             PROVE  MailInv
  OBVIOUS
<1>1. Shapes
  BY DEF M!Init, Shapes, IsJob, M!Idle, Message
<1>2. MailIsKept
  <2>1. ASSUME NEW m \in Mails
        PROVE  (box[m].came => box[m].in) /\ ~ box[m].deleted
    <3>1. box[m] = [came |-> m = M!Min(Mails), in |-> m = M!Min(Mails),
                    seen |-> FALSE, deleted |-> FALSE, copies |-> 0]
      BY DEF M!Init
    <3>2. QED
      BY <3>1
  <2>2. \A w \in Workers : worker[w].skill = "none"
    BY DEF M!Init, M!Idle
  <2>3. \A w \in Workers : ~ (worker[w].skill = "archive")
    BY <2>2
  <2>4. QED
    BY <2>1, <2>3 DEF MailIsKept
<1>3. OneByOne
  BY DEF M!Init, OneByOne, M!Idle, M!Busy, IsRead, M!At
<1>4. QED
  BY <1>1, <1>2, <1>3 DEF MailInv

\* A worker that goes on takes what it has with it.
LEMMA WorkerMoves ==
    ASSUME Shapes, NEW w \in Workers, NEW k, IsJob(k), worker' = [worker EXCEPT ![w] = k]
    PROVE  /\ worker' = [v \in Workers |-> worker'[v]]
           /\ \A v \in Workers : IsJob(worker'[v]) /\ (v # w => worker'[v] = worker[v])
           /\ worker'[w] = k
<1>1. worker = [v \in Workers |-> worker[v]]
  BY DEF Shapes
<1>2. worker' = [v \in Workers |-> IF v = w THEN k ELSE worker[v]]
  BY <1>1
<1>3. worker'[w] = k /\ \A v \in Workers : v # w => worker'[v] = worker[v]
  BY <1>2
<1>4. worker' = [v \in Workers |-> worker'[v]]
  BY <1>2
<1>5. \A v \in Workers : IsJob(worker'[v])
  BY <1>3 DEF Shapes
<1>6. QED
  BY <1>3, <1>4, <1>5

LEMMA GotoMoves ==
    ASSUME Shapes, NEW w \in Workers, NEW place, M!Goto(w, place)
    PROVE  /\ worker' = [v \in Workers |-> worker'[v]]
           /\ \A v \in Workers : IsJob(worker'[v]) /\ (v # w => worker'[v] = worker[v])
           /\ worker'[w].at = place /\ worker'[w].skill = worker[w].skill
           /\ worker'[w].mail = worker[w].mail
           /\ worker'[w].to = worker[w].to /\ worker'[w].late = worker[w].late
<1> DEFINE j == worker[w]
           k == [at |-> place, skill |-> j.skill, mail |-> j.mail, list |-> j.list,
                 to |-> j.to, late |-> j.late]
<1>1. j = [at |-> j.at, skill |-> j.skill, mail |-> j.mail, list |-> j.list,
           to |-> j.to, late |-> j.late]
  BY DEF Shapes, IsJob
<1>2. [j EXCEPT !.at = place] = k
  BY <1>1
<1>3. worker' = [worker EXCEPT ![w] = k]
  BY <1>2 DEF M!Goto
<1>4. IsJob(k)
  BY DEF IsJob
<1>5. /\ k.at = place /\ k.skill = j.skill /\ k.mail = j.mail
      /\ k.to = j.to /\ k.late = j.late
  OBVIOUS
<1> HIDE DEF k
<1>6. QED
  BY <1>3, <1>4, <1>5, WorkerMoves

\* Where a step of a skill leaves its worker.
Moved(w) ==
    /\ worker' = [v \in Workers |-> worker'[v]]
    /\ \A v \in Workers : IsJob(worker'[v]) /\ (v # w => worker'[v] = worker[v])
    /\ \/ worker'[w] = M!Idle
       \/ /\ worker'[w].skill = worker[w].skill /\ worker'[w].mail = worker[w].mail
          /\ worker'[w].late = worker[w].late

LEMMA StepMoves ==
    ASSUME Shapes, NEW w \in Workers, M!Step(w)
    PROVE  Moved(w) /\ w \in M!Busy
<1> DEFINE j == worker[w]
<1>0. j = [at |-> j.at, skill |-> j.skill, mail |-> j.mail, list |-> j.list,
           to |-> j.to, late |-> j.late]
  BY DEF Shapes, IsJob
<1>s. worker = [v \in Workers |-> worker[v]]
  BY DEF Shapes
<1>b. w \in M!Busy
  BY DEF M!Step, M!Search, M!SearchFails, M!Listed, M!Fetch, M!Fetched, M!MarkRead, M!Copy, M!FlagDeleted,
         M!Expunge, M!Archived, M!StageEmail, M!CancelEmail, M!ConfirmEmail, M!SendEmail, M!Reply, M!At, M!Busy
<1> SUFFICES Moved(w)
  BY <1>b
<1>1. ASSUME NEW place, M!Goto(w, place)
      PROVE  Moved(w)
  BY <1>1, GotoMoves DEF Moved
<1>2. ASSUME NEW k, IsJob(k), worker' = [worker EXCEPT ![w] = k],
             k = M!Idle \/ (k.skill = j.skill /\ k.mail = j.mail /\ k.late = j.late)
      PROVE  Moved(w)
  BY <1>2, WorkerMoves DEF Moved
<1>3. CASE M!Search(w)
  <2>1. PICK l : worker' = [worker EXCEPT ![w].at = "got", ![w].list = l]
    BY <1>3 DEF M!Search
  <2> DEFINE k == [at |-> "got", skill |-> j.skill, mail |-> j.mail, list |-> l,
                   to |-> j.to, late |-> j.late]
  <2>2. [[j EXCEPT !.at = "got"] EXCEPT !.list = l] = k
    <3> DEFINE i == [at |-> "got", skill |-> j.skill, mail |-> j.mail, list |-> j.list,
                     to |-> j.to, late |-> j.late]
    <3>1. [j EXCEPT !.at = "got"] = i
      BY <1>0
    <3>2. [i EXCEPT !.list = l] = k
      OBVIOUS
    <3>3. QED
      BY <3>1, <3>2, Zenon
  <2>3. worker' = [worker EXCEPT ![w] = [[j EXCEPT !.at = "got"] EXCEPT !.list = l]]
    BY <2>1, <1>s
  <2>4. k.skill = j.skill /\ k.mail = j.mail /\ k.late = j.late /\ IsJob(k)
    BY DEF IsJob
  <2> HIDE DEF k
  <2>5. QED
    BY <1>2, <2>2, <2>3, <2>4
<1>4. CASE M!ConfirmEmail(w)
  <2> DEFINE p == IF pending = M!NoAddress THEN "reply" ELSE "sending"
             k == [at |-> p, skill |-> j.skill, mail |-> j.mail, to |-> pending,
                   list |-> j.list, late |-> j.late]
  <2>1. worker' = [worker EXCEPT ![w].to = pending, ![w].at = p]
    BY <1>4 DEF M!ConfirmEmail
  <2> HIDE DEF p
  <2>2. [[j EXCEPT !.to = pending] EXCEPT !.at = p] = k
    <3> DEFINE i == [at |-> j.at, skill |-> j.skill, mail |-> j.mail, list |-> j.list,
                     to |-> pending, late |-> j.late]
    <3>1. [j EXCEPT !.to = pending] = i
      BY <1>0
    <3>2. [i EXCEPT !.at = p] = k
      OBVIOUS
    <3>3. QED
      BY <3>1, <3>2, Zenon
  <2>3. worker' = [worker EXCEPT ![w] = [[j EXCEPT !.to = pending] EXCEPT !.at = p]]
    BY <2>1, <1>s
  <2>4. k.skill = j.skill /\ k.mail = j.mail /\ k.late = j.late /\ IsJob(k)
    BY DEF IsJob
  <2> HIDE DEF k
  <2>5. QED
    BY <1>2, <2>2, <2>3, <2>4
<1>5. CASE M!Reply(w)
  BY <1>2, <1>5 DEF M!Reply, IsJob, M!Idle
<1>6. CASE M!SearchFails(w) \/ M!Listed(w) \/ M!Fetch(w) \/ M!Fetched(w) \/ M!MarkRead(w)
  BY <1>1, <1>6 DEF M!SearchFails, M!Listed, M!Fetch, M!Fetched, M!MarkRead, M!Fails, M!Passes
<1>7. CASE M!Copy(w) \/ M!FlagDeleted(w) \/ M!Expunge(w) \/ M!Archived(w)
  BY <1>1, <1>7 DEF M!Copy, M!FlagDeleted, M!Expunge, M!Archived, M!Fails, M!Passes
<1>8. CASE M!StageEmail(w) \/ M!CancelEmail(w) \/ M!SendEmail(w)
  BY <1>1, <1>8 DEF M!StageEmail, M!CancelEmail, M!SendEmail, M!Fails, M!Passes
<1>9. QED
  BY <1>3, <1>4, <1>5, <1>6, <1>7, <1>8 DEF M!Step

----------------------------------------------------------------------------
(* The mailbox.                                                             *)

\* What a step may put in the place of a message.
Replaces(m, k) ==
    /\ k \in Message
    /\ k.came => box[m].came \/ k.in
    /\ box[m].in => k.in
    /\ box[m].copies <= k.copies
    /\ k.deleted => box[m].deleted \/ m \in flagged' \/ box[m].copies > 0

LEMMA MessageWith ==
    ASSUME NEW m, box[m] \in Message, NEW b \in BOOLEAN
    PROVE  /\ Replaces(m, [box[m] EXCEPT !.seen = b])
           /\ Replaces(m, [box[m] EXCEPT !.copies = @ + 1])
           /\ [box[m] EXCEPT !.copies = @ + 1].copies > 0
           /\ m \in flagged' \/ box[m].copies > 0
                => Replaces(m, [box[m] EXCEPT !.deleted = b])
<1> DEFINE j == box[m]
           s == [j EXCEPT !.seen = b]
           c == [j EXCEPT !.copies = @ + 1]
           d == [j EXCEPT !.deleted = b]
<1>1. j \in Message /\ j.copies \in Nat
  BY DEF Message
<1>2. /\ s \in Message /\ s.came = j.came /\ s.in = j.in /\ s.copies = j.copies
      /\ s.deleted = j.deleted
  BY <1>1 DEF Message
<1>3. /\ c \in Message /\ c.came = j.came /\ c.in = j.in /\ c.copies = j.copies + 1
      /\ c.deleted = j.deleted
  BY <1>1 DEF Message
<1>4. d \in Message /\ d.came = j.came /\ d.in = j.in /\ d.copies = j.copies
  BY <1>1 DEF Message
<1> HIDE DEF s, c, d
<1>5. Replaces(m, s)
  BY <1>1, <1>2 DEF Replaces
<1>6. Replaces(m, c) /\ c.copies > 0
  BY <1>1, <1>3 DEF Replaces
<1>7. m \in flagged' \/ box[m].copies > 0 => Replaces(m, d)
  BY <1>1, <1>4 DEF Replaces
<1>8. QED
  BY <1>5, <1>6, <1>7 DEF s, c, d

\* What a step may do to a message.
Treated(n) ==
    /\ box'[n].came => box[n].came \/ box'[n].in
    /\ box[n].in => box'[n].in \/ box[n].deleted
    /\ box[n].copies <= box'[n].copies
    /\ box'[n].deleted => box[n].deleted \/ n \in flagged' \/ box[n].copies > 0

AllTreated ==
    /\ box' \in [Mails -> Message] /\ flagged \subseteq flagged'
    /\ \A n \in Mails : Treated(n)

LEMMA ReplacedIsTreated ==
    ASSUME Shapes, NEW m, NEW k, box' = [box EXCEPT ![m] = k], flagged \subseteq flagged',
           m \in Mails => Replaces(m, k)
    PROVE  AllTreated
<1>0. box \in [Mails -> Message]
  BY DEF Shapes
<1>1. m \in Mails => k \in Message
  BY DEF Replaces
<1>2. /\ box' \in [Mails -> Message]
      /\ \A n \in Mails : n # m => box'[n] = box[n]
      /\ m \in Mails => box'[m] = k
  BY <1>0, <1>1
<1>3. ASSUME NEW n \in Mails, n # m
      PROVE  Treated(n)
  <2>1. box[n].copies \in Nat /\ box'[n] = box[n]
    BY <1>0, <1>2, <1>3 DEF Message
  <2>2. QED
    BY <2>1 DEF Treated
<1>4. ASSUME m \in Mails
      PROVE  Treated(m)
  BY <1>2, <1>4 DEF Treated, Replaces
<1>5. QED
  BY <1>2, <1>3, <1>4 DEF AllTreated

LEMMA BoxStep ==
    ASSUME Shapes, MailIsKept, [M!Next]_M!vars
    PROVE  AllTreated
<1>0. \A n \in Mails : box[n] \in Message
  BY DEF Shapes
<1>1. ASSUME UNCHANGED box, UNCHANGED flagged
      PROVE  AllTreated
  <2>1. \A n \in Mails : box[n].copies \in Nat /\ box'[n] = box[n]
    BY <1>0, <1>1 DEF Message
  <2>2. QED
    BY <1>1, <2>1 DEF Shapes, Treated, AllTreated
<1>3. ASSUME NEW m \in Mails, M!Arrive(m)
      PROVE  AllTreated
  <2> DEFINE j == box[m]
             k == [[j EXCEPT !.came = TRUE] EXCEPT !.in = TRUE]
  <2>1. j \in Message
    BY <1>0
  <2>2. k \in Message /\ k.in /\ k.copies = j.copies /\ k.deleted = j.deleted
        /\ j.copies \in Nat
    BY <2>1 DEF Message
  <2>3. box' = [box EXCEPT ![m] = k] /\ flagged' = flagged
    BY <1>3 DEF M!Arrive, Shapes
  <2> HIDE DEF k
  <2>4. Replaces(m, k)
    BY <2>2 DEF Replaces
  <2>5. QED
    BY <2>3, <2>4, ReplacedIsTreated
<1>4. ASSUME NEW m \in Mails, M!FlagElsewhere(m)
      PROVE  AllTreated
  <2>1. flagged' = flagged \cup {m} /\ box' = [box EXCEPT ![m] = [box[m] EXCEPT !.deleted = TRUE]]
    BY <1>4 DEF M!FlagElsewhere
  <2>2. Replaces(m, [box[m] EXCEPT !.deleted = TRUE])
    BY <1>0, <2>1, MessageWith
  <2>3. QED
    BY <2>1, <2>2, ReplacedIsTreated
<1>5. ASSUME NEW w \in Workers, M!MarkRead(w)
      PROVE  AllTreated
  <2> DEFINE m == worker[w].mail
             b == box[m].seen \/ box[m].in
  <2>1. box' = [box EXCEPT ![m] = [box[m] EXCEPT !.seen = b]] /\ flagged' = flagged
    BY <1>5 DEF M!MarkRead
  <2>2. b \in BOOLEAN
    OBVIOUS
  <2> HIDE DEF b
  <2>3. m \in Mails => Replaces(m, [box[m] EXCEPT !.seen = b])
    BY <1>0, <2>2, MessageWith
  <2>4. QED
    BY <2>1, <2>3, ReplacedIsTreated
<1>6. ASSUME NEW w \in Workers, M!Copy(w)
      PROVE  AllTreated
  <2> DEFINE m == worker[w].mail
  <2>1. flagged' = flagged
        /\ (box' = box \/ box' = [box EXCEPT ![m] = [box[m] EXCEPT !.copies = @ + 1]])
    BY <1>6 DEF M!Copy
  <2>2. m \in Mails => Replaces(m, [box[m] EXCEPT !.copies = @ + 1])
    BY <1>0, MessageWith
  <2>3. QED
    BY <1>1, <2>1, <2>2, ReplacedIsTreated
<1>7. ASSUME NEW w \in Workers, M!FlagDeleted(w)
      PROVE  AllTreated
  <2> DEFINE m == worker[w].mail
             b == box[m].deleted \/ box[m].in
  <2>1. flagged' = flagged
        /\ (box' = box \/ box' = [box EXCEPT ![m] = [box[m] EXCEPT !.deleted = b]])
    BY <1>7 DEF M!FlagDeleted
  <2>2. b \in BOOLEAN
    OBVIOUS
  <2> HIDE DEF b
  <2>3. m \in Mails => box[m].copies > 0
    BY <1>7 DEF M!FlagDeleted, M!At, MailIsKept
  <2>4. m \in Mails => Replaces(m, [box[m] EXCEPT !.deleted = b])
    BY <1>0, <2>2, <2>3, MessageWith
  <2>5. QED
    BY <1>1, <2>1, <2>4, ReplacedIsTreated
<1>8. ASSUME NEW w \in Workers, M!Expunge(w)
      PROVE  AllTreated
  <2>1. CASE UNCHANGED box
    BY <1>1, <1>8, <2>1 DEF M!Expunge
  <2>2. CASE box' = [m \in Mails |->
                        IF box[m].deleted THEN [box[m] EXCEPT !.in = FALSE, !.deleted = FALSE]
                        ELSE box[m]]
    <3>1. ASSUME NEW n \in Mails
          PROVE  /\ box'[n] \in Message /\ box'[n].came = box[n].came
                 /\ box'[n].copies = box[n].copies /\ box[n].copies \in Nat
                 /\ box'[n].in = box[n].in \/ box[n].deleted
                 /\ box'[n].deleted => box[n].deleted
      <4>1. box[n] \in Message /\ box[n].copies \in Nat
        BY <1>0 DEF Message
      <4>2. CASE ~ box[n].deleted
        BY <2>2, <4>1, <4>2
      <4>3. CASE box[n].deleted
        <5>1. box'[n] = [box[n] EXCEPT !.in = FALSE, !.deleted = FALSE]
          BY <2>2, <4>3
        <5>2. QED
          BY <4>1, <4>3, <5>1 DEF Message
      <4>4. QED
        BY <4>2, <4>3
    <3>2. box' = [m \in Mails |-> box'[m]]
      BY <2>2
    <3>3. box' \in [Mails -> Message]
      BY <3>1, <3>2
    <3>4. flagged' = flagged
      BY <1>8 DEF M!Expunge
    <3>5. QED
      BY <3>1, <3>3, <3>4 DEF Treated, AllTreated
  <2>3. QED
    BY <1>8, <2>1, <2>2 DEF M!Expunge
<1>9. ASSUME NEW w \in Workers, M!Step(w)
      PROVE  \/ UNCHANGED M!mailbox
             \/ M!MarkRead(w) \/ M!Copy(w) \/ M!FlagDeleted(w) \/ M!Expunge(w)
  BY <1>9 DEF M!Step, M!Search, M!SearchFails, M!Listed, M!Fetch, M!Fetched, M!Archived, M!StageEmail,
              M!CancelEmail, M!ConfirmEmail, M!SendEmail, M!Reply
<1>10. ASSUME NEW w \in Workers, M!Abandon(w)
       PROVE  UNCHANGED M!mailbox
  BY <1>10 DEF M!Abandon
<1>11. ASSUME NEW w \in Workers, NEW skill \in M!Requests, NEW m \in Mails \cup {M!NoMail},
              M!Run(w, skill, m)
       PROVE  UNCHANGED M!mailbox
  BY <1>11 DEF M!Run
<1>12. ASSUME NEW others \in Contacts, M!EditRoster(others)
       PROVE  UNCHANGED M!mailbox
  BY <1>12 DEF M!EditRoster
<1>13. CASE UNCHANGED M!vars
  BY <1>1, <1>13 DEF M!vars, M!mailbox
<1>14. CASE UNCHANGED M!mailbox
  BY <1>1, <1>14 DEF M!mailbox
<1>15. QED
  BY <1>3, <1>4, <1>5, <1>6, <1>7, <1>8, <1>9, <1>10, <1>11, <1>12, <1>13, <1>14 DEF M!Next

----------------------------------------------------------------------------
(* The steps.                                                               *)

LEMMA RunMoves ==
    ASSUME Shapes, NEW w \in Workers, NEW skill, NEW m, M!Run(w, skill, m)
    PROVE  /\ worker' = [v \in Workers |-> worker'[v]]
           /\ \A v \in Workers : IsJob(worker'[v]) /\ (v # w => worker'[v] = worker[v])
           /\ worker'[w].skill = skill /\ ~ worker'[w].late
           /\ worker'[w].at = "reply" => worker'[w].mail = M!NoMail
           /\ worker'[w].at \in {"run", "reply"}
<1> DEFINE mail == IF skill \in {"read", "mark", "archive"} THEN M!Meant(skill, m) ELSE M!NoMail
           asks == skill \in {"read", "mark", "archive"} /\ mail = M!NoMail
           p == IF asks THEN "reply" ELSE "run"
           k == [at |-> p, skill |-> skill, mail |-> mail, list |-> <<>>, to |-> M!NoAddress,
                 late |-> FALSE]
<1>1. worker' = [worker EXCEPT ![w] = [M!Idle EXCEPT !.skill = skill, !.mail = mail, !.at = p]]
  BY DEF M!Run
<1>5. p = "reply" => mail = M!NoMail
  OBVIOUS
<1>6. p \in {"run", "reply"}
  OBVIOUS
<1> HIDE DEF p, asks, mail
<1>2. [M!Idle EXCEPT !.skill = skill, !.mail = mail, !.at = p] = k
  <2>1. IsJob(M!Idle) /\ M!Idle.list = <<>> /\ M!Idle.to = M!NoAddress /\ M!Idle.late = FALSE
    BY DEF M!Idle, IsJob
  <2> DEFINE i == M!Idle
  <2>2. IsJob(i) /\ i.list = <<>> /\ i.to = M!NoAddress /\ i.late = FALSE
    BY <2>1
  <2> HIDE DEF i
  <2> DEFINE j == [i EXCEPT !.skill = skill]
             l == [j EXCEPT !.mail = mail]
  <2>3. [i EXCEPT !.skill = skill, !.mail = mail, !.at = p] = [l EXCEPT !.at = p]
    OBVIOUS
  <2>4. j = [at |-> i.at, skill |-> skill, mail |-> i.mail, list |-> i.list, to |-> i.to,
             late |-> i.late]
    BY <2>2 DEF IsJob
  <2> HIDE DEF j
  <2>5. l = [at |-> i.at, skill |-> skill, mail |-> mail, list |-> i.list, to |-> i.to,
             late |-> i.late]
    BY <2>4
  <2> HIDE DEF l
  <2>6. [l EXCEPT !.at = p]
          = [at |-> p, skill |-> skill, mail |-> mail, list |-> i.list, to |-> i.to,
             late |-> i.late]
    BY <2>5
  <2>7. [i EXCEPT !.skill = skill, !.mail = mail, !.at = p] = k
    BY <2>2, <2>3, <2>6
  <2>8. QED
    BY <2>7 DEF i
<1>3. worker' = [worker EXCEPT ![w] = k]
  BY <1>1, <1>2
<1>4. IsJob(k) /\ k.skill = skill /\ ~ k.late /\ k.at = p /\ k.mail = mail
  BY DEF IsJob
<1> HIDE DEF k
<1>7. QED
  BY <1>3, <1>4, <1>5, <1>6, WorkerMoves

LEMMA AbandonMoves ==
    ASSUME Shapes, NEW w \in Workers, M!Abandon(w)
    PROVE  /\ worker' = [v \in Workers |-> worker'[v]]
           /\ \A v \in Workers : IsJob(worker'[v]) /\ (v # w => worker'[v] = worker[v])
           /\ worker'[w].at = worker[w].at /\ worker'[w].skill = worker[w].skill
           /\ worker'[w].mail = worker[w].mail
<1> DEFINE j == worker[w]
           k == [at |-> j.at, skill |-> j.skill, mail |-> j.mail, list |-> j.list,
                 to |-> j.to, late |-> TRUE]
<1>1. j = [at |-> j.at, skill |-> j.skill, mail |-> j.mail, list |-> j.list,
           to |-> j.to, late |-> j.late]
  BY DEF Shapes, IsJob
<1>2. ASSUME NEW t
      PROVE  [j EXCEPT !.late = t] = [at |-> j.at, skill |-> j.skill, mail |-> j.mail,
                                      list |-> j.list, to |-> j.to, late |-> t]
  BY <1>1
<1>3. worker' = [worker EXCEPT ![w] = k]
  BY <1>2 DEF M!Abandon
<1>4. IsJob(k) /\ k.at = j.at /\ k.skill = j.skill /\ k.mail = j.mail
  BY DEF IsJob
<1> HIDE DEF k
<1>5. QED
  BY <1>3, <1>4, WorkerMoves

\* What moves a worker.
LEMMA MailActions ==
    ASSUME [M!Next]_M!vars
    PROVE  \/ UNCHANGED <<worker, triage, pending, M!history>>
           \/ \E w \in Workers, skill \in M!Requests, m \in Mails \cup {M!NoMail} : M!Run(w, skill, m)
           \/ \E w \in Workers : M!Abandon(w) \/ M!Step(w)
BY DEF M!Next, M!vars, M!mailbox, M!holders, M!history, M!Arrive, M!FlagElsewhere, M!EditRoster

LEMMA ShapesStep ==
    ASSUME Shapes, MailIsKept, [M!Next]_M!vars
    PROVE  Shapes'
<1>1. box' \in [Mails -> Message]
  BY BoxStep DEF AllTreated
<1>2. worker' = [w \in Workers |-> worker'[w]] /\ \A w \in Workers : IsJob(worker'[w])
  <2>1. CASE UNCHANGED worker
    BY <2>1 DEF Shapes
  <2>2. ASSUME NEW w \in Workers, NEW skill \in M!Requests, NEW m, M!Run(w, skill, m)
        PROVE  worker' = [v \in Workers |-> worker'[v]] /\ \A v \in Workers : IsJob(worker'[v])
    BY <2>2, RunMoves
  <2>3. ASSUME NEW w \in Workers, M!Abandon(w)
        PROVE  worker' = [v \in Workers |-> worker'[v]] /\ \A v \in Workers : IsJob(worker'[v])
    BY <2>3, AbandonMoves
  <2>4. ASSUME NEW w \in Workers, M!Step(w)
        PROVE  worker' = [v \in Workers |-> worker'[v]] /\ \A v \in Workers : IsJob(worker'[v])
    BY <2>4, StepMoves DEF Moved
  <2>5. QED
    BY <2>1, <2>2, <2>3, <2>4, MailActions
<1>3. triage' = [current |-> triage'.current, ids |-> triage'.ids]
  <2>0. triage = [current |-> triage.current, ids |-> triage.ids]
    BY DEF Shapes
  <2>1. ASSUME NEW x, triage' = [triage EXCEPT !.ids = x] \/ triage' = [triage EXCEPT !.current = x]
        PROVE  triage' = [current |-> triage'.current, ids |-> triage'.ids]
    BY <2>0, <2>1
  <2>2. CASE UNCHANGED triage
    BY <2>0, <2>2
  <2>3. ASSUME NEW w \in Workers, M!Listed(w) \/ M!Fetched(w) \/ M!Archived(w)
        PROVE  triage' = [current |-> triage'.current, ids |-> triage'.ids]
    BY <2>1, <2>3 DEF M!Listed, M!Fetched, M!Archived
  <2>4. ASSUME NEW w \in Workers, M!Step(w)
        PROVE  UNCHANGED triage \/ M!Listed(w) \/ M!Fetched(w) \/ M!Archived(w)
    BY <2>4 DEF M!Step, M!Search, M!SearchFails, M!Fetch, M!MarkRead, M!Copy, M!FlagDeleted, M!Expunge,
                M!StageEmail, M!CancelEmail, M!ConfirmEmail, M!SendEmail, M!Reply, M!holders
  <2>5. ASSUME NEW w \in Workers, M!Abandon(w)
        PROVE  UNCHANGED triage
    BY <2>5 DEF M!Abandon, M!holders
  <2>6. ASSUME NEW w \in Workers, NEW skill, NEW m, M!Run(w, skill, m)
        PROVE  UNCHANGED triage
    BY <2>6 DEF M!Run, M!holders
  <2>7. QED
    BY <2>2, <2>3, <2>4, <2>5, <2>6, MailActions
<1>4. QED
  BY <1>1, <1>2, <1>3 DEF Shapes

\* Nothing is lost.
LEMMA KeptStep ==
    ASSUME Shapes, MailIsKept, [M!Next]_M!vars
    PROVE  MailIsKept'
<1>0. AllTreated /\ \A m \in Mails : box[m].copies \in Nat /\ box'[m].copies \in Nat
  BY BoxStep DEF Shapes, AllTreated, Message
<1>1. ASSUME NEW m \in Mails
      PROVE  /\ box'[m].came => box'[m].in \/ box'[m].copies > 0 \/ m \in flagged'
             /\ box'[m].deleted => box'[m].copies > 0 \/ m \in flagged'
  BY <1>0 DEF AllTreated, Treated, MailIsKept
<1> DEFINE Has(w) == worker[w].skill = "archive" /\ worker[w].at \in {"copied", "stored"}
                        => (worker[w].mail \in Mails => box[worker[w].mail].copies > 0)
<1>2. \A w \in Workers : Has(w)
  BY DEF MailIsKept
<1>3. ASSUME NEW w \in Workers, worker'[w].mail = worker[w].mail,
             worker'[w].skill = worker[w].skill, worker'[w].skill = "archive",
             worker[w].at \in {"copied", "stored"}
      PROVE  Has(w)'
  <2>1. worker[w].mail \in Mails => box[worker[w].mail].copies > 0
    BY <1>2, <1>3
  <2>2. worker[w].mail \in Mails => box'[worker[w].mail].copies > 0
    BY <1>0, <2>1 DEF AllTreated, Treated
  <2>3. QED
    BY <1>3, <2>2
<1>4. ASSUME NEW w \in Workers, worker'[w] = worker[w]
      PROVE  Has(w)'
  BY <1>3, <1>4
<1>5. ASSUME UNCHANGED worker, NEW v \in Workers
      PROVE  Has(v)'
  BY <1>4, <1>5
<1>6. ASSUME NEW w \in Workers, NEW skill \in M!Requests, NEW m, M!Run(w, skill, m), NEW v \in Workers
      PROVE  Has(v)'
  <2>1. worker'[w].at \in {"run", "reply"} /\ (v # w => worker'[v] = worker[v])
    BY <1>6, RunMoves
  <2>2. QED
    BY <1>4, <2>1
<1>7. ASSUME NEW w \in Workers, M!Abandon(w), NEW v \in Workers
      PROVE  Has(v)'
  <2>1. /\ v # w => worker'[v] = worker[v]
        /\ worker'[w].at = worker[w].at /\ worker'[w].skill = worker[w].skill
        /\ worker'[w].mail = worker[w].mail
    BY <1>7, AbandonMoves
  <2>2. QED
    BY <1>3, <1>4, <2>1
<1>8. ASSUME NEW w \in Workers, M!Step(w), NEW v \in Workers
      PROVE  Has(v)'
  <2>0. Moved(w)
    BY <1>8, StepMoves
  <2>1. CASE v # w
    BY <1>4, <2>0, <2>1 DEF Moved
  <2>2. ASSUME worker'[w].skill = "archive", worker'[w].at \in {"copied", "stored"}
        PROVE  Has(w)'
    <3>1. worker'[w] # M!Idle /\ worker[w].skill = "archive" /\ worker'[w].mail = worker[w].mail
      BY <2>0, <2>2 DEF Moved, M!Idle
    <3>0. ~ M!Reply(w)
      BY <3>1 DEF M!Reply, Shapes
    <3>2. M!Copy(w) \/ M!FlagDeleted(w) \/ M!Expunge(w) \/ M!Archived(w)
      BY <1>8, <3>0, <3>1 DEF M!Step, M!Search, M!SearchFails, M!Listed, M!Fetch, M!Fetched, M!MarkRead,
                              M!StageEmail, M!CancelEmail, M!ConfirmEmail, M!SendEmail, M!At
    <3>3. CASE M!Copy(w)
      <4>1. worker'[w].at = "copied"
        BY <2>2, <3>3, GotoMoves DEF M!Copy, M!Fails, M!Passes
      <4>2. \A p : M!Goto(w, p) => p = "copied"
        BY <4>1, GotoMoves
      <4>3. box' = [box EXCEPT ![worker[w].mail].copies = @ + 1]
        BY <3>3, <4>2 DEF M!Copy, M!Fails, M!Passes
      <4>4. worker[w].mail \in Mails => box'[worker[w].mail].copies > 0
        BY <4>3, MessageWith DEF Shapes
      <4>5. QED
        BY <3>1, <4>4
    <3>4. CASE M!FlagDeleted(w)
      <4>1. worker[w].at = "copied"
        BY <3>4 DEF M!FlagDeleted, M!At
      <4>2. QED
        BY <1>3, <3>1, <4>1
    <3>5. CASE M!Expunge(w) \/ M!Archived(w)
      <4>1. ~ M!Goto(w, "expunged") /\ ~ M!Goto(w, "failed") /\ ~ M!Goto(w, "reply")
        BY <2>2, GotoMoves
      <4>2. QED
        BY <3>5, <4>1 DEF M!Expunge, M!Archived, M!Fails, M!Passes
    <3>6. QED
      BY <3>2, <3>3, <3>4, <3>5
  <2>3. QED
    BY <2>1, <2>2
<1>9. \A w \in Workers : Has(w)'
  BY <1>5, <1>6, <1>7, <1>8, MailActions
<1>10. QED
  BY <1>1, <1>9 DEF MailIsKept

\* While turns follow each other, whoever is busy is alone.
LEMMA OneByOneStep ==
    ASSUME Shapes, ~ mailDisturbed => OneByOne, [M!Next]_M!vars, ~ mailDisturbed'
    PROVE  OneByOne'
<1>1. CASE UNCHANGED <<worker, triage, pending, M!history>>
  BY <1>1 DEF OneByOne, M!history, M!Busy, IsRead, M!At
<1>2. ASSUME NEW w \in Workers, NEW skill \in M!Requests, NEW m, M!Run(w, skill, m)
      PROVE  OneByOne'
  <2>1. /\ ~ mailDisturbed /\ M!Busy = {} /\ OneByOne
        /\ UNCHANGED <<triage, pending, heard, said>>
    BY <1>2 DEF M!Run, M!holders
  <2>2. /\ \A v \in Workers : v # w => worker'[v] = worker[v]
        /\ worker'[w].skill = skill /\ ~ worker'[w].late
        /\ worker'[w].at = "reply" => worker'[w].mail = M!NoMail
        /\ worker'[w].at \in {"run", "reply"}
    BY <1>2, RunMoves
  <2>3. \A v \in Workers : worker[v].at = "idle"
    BY <2>1 DEF M!Busy
  <2>4. \A v \in Workers : ~ IsRead(v) /\ ~ IsRead(v)' /\ ~ M!At(v, "confirm", "sending")'
    BY <2>2, <2>3 DEF IsRead, M!At
  <2>5. /\ \A v \in Workers : ~ worker'[v].late
        /\ \A v \in Workers : v \in M!Busy' => v = w
    BY <2>1, <2>2, <2>3 DEF OneByOne, M!Busy
  <2>6. pending \in {M!NoAddress, said} /\ triage.current \in {M!NoMail, heard}
    BY <2>1, <2>4 DEF OneByOne
  <2>7. QED
    BY <2>1, <2>4, <2>5, <2>6 DEF OneByOne
<1>3. ASSUME NEW w \in Workers, M!Abandon(w)
      PROVE  FALSE
  BY <1>3 DEF M!Abandon
<1>4. ASSUME NEW w \in Workers, M!Step(w)
      PROVE  OneByOne'
  <2>0. UNCHANGED mailDisturbed
    BY <1>4 DEF M!Step, M!Search, M!SearchFails, M!Listed, M!Fetch, M!Fetched, M!MarkRead, M!Copy, M!FlagDeleted,
                M!Expunge, M!Archived, M!StageEmail, M!CancelEmail, M!ConfirmEmail, M!SendEmail, M!Reply, M!history
  <2>1. OneByOne /\ Moved(w) /\ w \in M!Busy
    BY <1>4, <2>0, StepMoves
  <2>2. \A v \in Workers : v # w => worker[v].at = "idle" /\ worker'[v].at = "idle"
    BY <2>1 DEF OneByOne, Moved, M!Busy
  <2>3. \A v \in Workers : v \in M!Busy' => v = w
    BY <2>2 DEF M!Busy
  <2>4. \A v \in Workers : ~ worker'[v].late
    BY <2>1 DEF OneByOne, Moved, M!Idle
  <2>5. \A v \in Workers : v # w => /\ ~ IsRead(v) /\ ~ IsRead(v)'
                                    /\ ~ M!At(v, "confirm", "sending")'
    BY <2>2 DEF IsRead, M!At
  <2>6. /\ IsRead(w)' => triage'.current = worker'[w].mail
        /\ ~ IsRead(w)' => triage'.current \in {M!NoMail, heard'}
    <3>1. IsRead(w) => triage.current = worker[w].mail
      BY <2>1 DEF OneByOne
    <3>2. ~ IsRead(w) => triage.current \in {M!NoMail, heard}
      BY <2>1, <2>5 DEF OneByOne
    <3>3. triage = [current |-> triage.current, ids |-> triage.ids]
          /\ worker = [v \in Workers |-> worker[v]]
      BY DEF Shapes
    <3>4. CASE M!Fetched(w)
      <4>1. triage'.current = worker[w].mail /\ worker'[w].mail = worker[w].mail
            /\ worker'[w].at = "reply" /\ worker'[w].skill = "read"
        BY <3>3, <3>4, GotoMoves DEF M!Fetched, M!At
      <4>2. ~ IsRead(w)' => triage'.current = M!NoMail
        BY <4>1 DEF IsRead, M!At
      <4>3. QED
        BY <4>1, <4>2
    <3>5. CASE M!Reply(w)
      <4>1. ~ IsRead(w)'
        BY <3>3, <3>5 DEF M!Reply, IsRead, M!At, M!Idle
      <4>2. ~ worker[w].late /\ UNCHANGED triage
        BY <2>1, <3>5 DEF OneByOne, M!Reply, M!holders
      <4>3. heard' = IF IsRead(w) THEN worker[w].mail ELSE heard
        BY <3>5, <4>2 DEF M!Reply, IsRead
      <4>4. QED
        BY <3>1, <3>2, <4>1, <4>2, <4>3
    <3>6. CASE M!Archived(w)
      <4>1. triage'.current = M!NoMail /\ worker'[w].skill = "archive"
        BY <3>3, <3>6, GotoMoves DEF M!Archived, M!At
      <4>2. QED
        BY <4>1 DEF IsRead, M!At
    <3>7. ASSUME worker'[w].skill = worker[w].skill, ~ IsRead(w), ~ IsRead(w)',
                 triage'.current = triage.current, heard' = heard
          PROVE  /\ IsRead(w)' => triage'.current = worker'[w].mail
                 /\ ~ IsRead(w)' => triage'.current \in {M!NoMail, heard'}
      BY <3>2, <3>7
    <3>8. CASE M!Fetch(w)
      <4>1. /\ worker'[w].skill = worker[w].skill
            /\ worker[w].at = "run" /\ worker'[w].at \in {"got", "failed"}
        BY <3>8, GotoMoves DEF M!Fetch, M!Fails, M!At
      <4>2. ~ IsRead(w) /\ ~ IsRead(w)'
        BY <4>1 DEF IsRead, M!At
      <4>3. UNCHANGED <<triage, heard>>
        BY <3>8 DEF M!Fetch, M!holders, M!history
      <4>4. QED
        BY <3>7, <4>1, <4>2, <4>3
    <3>9. CASE \/ M!Search(w) \/ M!SearchFails(w) \/ M!Listed(w) \/ M!MarkRead(w)
               \/ M!Copy(w) \/ M!FlagDeleted(w) \/ M!Expunge(w)
               \/ M!StageEmail(w) \/ M!CancelEmail(w) \/ M!ConfirmEmail(w) \/ M!SendEmail(w)
      <4>1. worker[w].skill # "read"
        BY <3>9 DEF M!Search, M!SearchFails, M!Listed, M!MarkRead, M!Copy, M!FlagDeleted, M!Expunge,
                    M!StageEmail, M!CancelEmail, M!ConfirmEmail, M!SendEmail, M!At
      <4>2. ~ IsRead(w) /\ ~ IsRead(w)'
        BY <2>1, <4>1 DEF IsRead, M!At, Moved, M!Idle
      <4>3. triage'.current = triage.current /\ UNCHANGED heard
        BY <3>3, <3>9 DEF M!Search, M!SearchFails, M!Listed, M!MarkRead, M!Copy, M!FlagDeleted, M!Expunge,
                    M!StageEmail, M!CancelEmail, M!ConfirmEmail, M!SendEmail, M!holders, M!history
      <4>4. QED
        BY <3>2, <4>2, <4>3
    <3>10. QED
      BY <1>4, <3>4, <3>5, <3>6, <3>8, <3>9 DEF M!Step
  <2>7. /\ pending' \in {M!NoAddress, said'}
        /\ M!At(w, "confirm", "sending")' => worker'[w].to = said'
    <3>1. pending \in {M!NoAddress, said} /\ (M!At(w, "confirm", "sending") => worker[w].to = said)
      BY <2>1 DEF OneByOne
    <3>2. ~ worker[w].late
      BY <2>1 DEF OneByOne
    <3>3. CASE M!StageEmail(w)
      <4>1. worker[w].skill = "send"
        BY <3>3 DEF M!StageEmail, M!At
      <4>2. ~ M!At(w, "confirm", "sending")'
        BY <2>1, <4>1 DEF Moved, M!At, M!Idle
      <4>3. pending' \in {M!NoAddress, said'}
        BY <3>1, <3>2, <3>3 DEF M!StageEmail
      <4>4. QED
        BY <4>2, <4>3
    <3>4. CASE M!ConfirmEmail(w)
      <4>1. pending' = M!NoAddress /\ UNCHANGED said
        BY <3>4 DEF M!ConfirmEmail, M!history
      <4>2. PICK p : /\ p = IF pending = M!NoAddress THEN "reply" ELSE "sending"
                     /\ worker' = [worker EXCEPT ![w].to = pending, ![w].at = p]
        BY <3>4 DEF M!ConfirmEmail
      <4>3. worker'[w].to = pending /\ worker'[w].at = p
        <5> DEFINE j == worker[w]
        <5>1. j = [at |-> j.at, skill |-> j.skill, mail |-> j.mail, list |-> j.list,
                   to |-> j.to, late |-> j.late]
          BY DEF Shapes, IsJob
        <5>2. worker'[w] = [j EXCEPT !.to = pending, !.at = p]
          BY <4>2 DEF Shapes
        <5>3. QED
          BY <5>1, <5>2
      <4>4. QED
        BY <3>1, <4>1, <4>2, <4>3 DEF M!At
    <3>5. CASE M!CancelEmail(w)
      <4>1. worker[w].skill = "cancel" /\ pending' = M!NoAddress
        BY <3>5 DEF M!CancelEmail, M!At
      <4>2. ~ M!At(w, "confirm", "sending")'
        BY <2>1, <4>1 DEF Moved, M!At, M!Idle
      <4>3. QED
        BY <4>1, <4>2
    <3>6. CASE M!SendEmail(w)
      <4>1. UNCHANGED <<pending, said>> /\ worker'[w].at \in {"reply", "failed"}
        BY <3>6, GotoMoves DEF M!SendEmail, M!Passes, M!Fails, M!holders, M!history
      <4>2. QED
        BY <3>1, <4>1 DEF M!At
    <3>7. CASE M!Reply(w)
      <4>1. UNCHANGED <<pending, said>> /\ worker'[w].at = "idle"
        BY <3>7 DEF M!Reply, M!holders, Shapes, M!Idle
      <4>2. QED
        BY <3>1, <4>1 DEF M!At
    <3>8. CASE \/ M!Search(w) \/ M!SearchFails(w) \/ M!Listed(w) \/ M!Fetch(w) \/ M!Fetched(w) \/ M!MarkRead(w)
               \/ M!Copy(w) \/ M!FlagDeleted(w) \/ M!Expunge(w) \/ M!Archived(w)
      <4>1. worker[w].skill # "confirm" /\ UNCHANGED <<pending, said>>
        BY <3>8 DEF M!Search, M!SearchFails, M!Listed, M!Fetch, M!Fetched, M!MarkRead, M!Copy, M!FlagDeleted,
                    M!Expunge, M!Archived, M!At, M!holders, M!history
      <4>2. ~ M!At(w, "confirm", "sending")'
        BY <2>1, <4>1 DEF Moved, M!At, M!Idle
      <4>3. QED
        BY <3>1, <4>1, <4>2
    <3>9. QED
      BY <1>4, <3>3, <3>4, <3>5, <3>6, <3>7, <3>8 DEF M!Step
  <2>8. \A v \in Workers : IsRead(v)' => triage'.current = worker'[v].mail
    BY <2>5, <2>6
  <2>9. (\A v \in Workers : ~ IsRead(v)') => triage'.current \in {M!NoMail, heard'}
    BY <2>6
  <2>10. \A v \in Workers : M!At(v, "confirm", "sending")' => worker'[v].to = said'
    BY <2>5, <2>7
  <2>11. QED
    BY <2>3, <2>4, <2>7, <2>8, <2>9, <2>10 DEF OneByOne
<1>5. QED
  BY <1>1, <1>2, <1>3, <1>4, MailActions

----------------------------------------------------------------------------
(* The theorems.                                                            *)

\* The mailbox, what "it" means and the email that waits agree with what the operator was
\* told (TriageSkill, ReadEmailSkill, SendEmailSkill), whatever fails and whoever else uses
\* the mailbox.
THEOREM MailInvSpec == M!Spec => []MailInv
<1>1. MailInv /\ [M!Next]_M!vars => MailInv'
  BY ShapesStep, KeptStep, OneByOneStep DEF MailInv
<1>2. QED
  BY InitMailInv, <1>1, PTL DEF M!Spec

\* Archiving loses nothing wherever it stops; and as long as turns follow each other,
\* "archive it" is about the message that was read out last, and an email goes to the
\* address that was said.
THEOREM MailIsAsItWasHeard == M!Spec => []MailIsAsHeard
<1>1. MailInv => M!NothingVanishes
  BY DEF MailInv, MailIsKept, M!NothingVanishes
<1>2. MailInv => M!ItIsWhatWasRead
  BY DEF MailInv, OneByOne, M!ItIsWhatWasRead, IsRead, M!At, M!Busy
<1>3. MailInv => M!SentWhereSaid
  BY DEF MailInv, OneByOne, M!SentWhereSaid
<1>4. QED
  BY <1>1, <1>2, <1>3, MailInvSpec, PTL DEF MailIsAsHeard
===============================================================================
