----------------------------- MODULE Roster_proofs -----------------------------
(***************************************************************************)
(* Proofs about Roster, for any number of Brains and Contacts screens, any *)
(* names, numbers, notes and rules: the database is sound once it is       *)
(* migrated, and what is written is written to the contact it is about.    *)
(*                                                                         *)
(* And about Proactive, for any meetings, items and faults: what is queued *)
(* is told once, a meeting is nudged about once, and cycling visits every  *)
(* pending item and takes none away.                                       *)
(***************************************************************************)
EXTENDS SharedStores, FiniteSetTheorems, SequenceTheorems, WellFoundedInduction, TLAPS

\* A contact that was there when its id was staged is the one of that name, or gone,
\* unless the id is one that is issued again.
Means(w) ==
    w.id \in again \/ (w.id <= issued /\ (Exists(w.id) => contacts[w.id].who = w.who))

\* What the skills and the editor hand over is what the database takes.
Sound(w) ==
    /\ w.kind = "add" => w.phone \in Phones /\ w.rule \in OldRules
    /\ w.kind = "rule" => w.rule \in OldRules
    /\ w.kind = "edit" => w.rule \in Verbs
    /\ w.kind = "append" => w.read \subseteq w.notes
    /\ w.kind \notin {"none", "add"} => w.id \in Ids /\ Means(w)

\* An editor holds nothing but edits.
TasksAreSound ==
    \A t \in Threads :
        /\ Sound(staged[t]) /\ Sound(task[t])
        /\ t \in Screens => staged[t].kind \in {"none", "edit"}

RowsAreIssued == \A i \in Ids : Exists(i) => i <= issued

\* Nobody has written to a database of version 0, which had no addresses.
OldIsUntouched ==
    /\ version = 0 => issued <= 1 /\ address = [ph \in Phones |-> None]
    /\ \A t \in Threads : at[t] \in {"recheck", "rename", "open"} => version > 0

\* The numbers that a migration read are those of the contacts that are still there, and
\* of a database of version 0 they are all there are.
RowsAreTrue ==
    \A t \in Threads, i \in Ids : at[t] = "fill" =>
        /\ version = 0 => rows[t][i] = contacts[i].phone
        /\ ~ raced /\ rows[t][i] # "" =>
              i <= issued /\ (Exists(i) => contacts[i].phone = rows[t][i])

\* A migration that is to write the new rules has one for every rule that needs one,
\* whoever wrote or migrated since it read them.
PlansCover ==
    \A t \in Threads, i \in Ids :
        (at[t] = "rename" /\ Exists(i) /\ i \notin voiced /\ contacts[i].rule \notin Verbs)
            => plan[t][i] # ""

\* The inductive invariant.
IInv ==
    /\ TypeOK
    /\ TasksAreSound
    /\ RowsAreIssued
    /\ OldIsUntouched
    /\ RowsAreTrue
    /\ PlansCover
    /\ AddressesMatch
    /\ RulesAreVerbsUnlessVoiced


----------------------------------------------------------------------------
\* The assumption, taken apart.
LEMMA IdsAreNumbers == MaxId \in Nat /\ 1 \in Ids /\ \A i \in Ids : i \in Nat /\ i > 0
<1>1. MaxId \in Nat \ {0}
  BY RosterAssumption
<1>2. MaxId \in Nat /\ MaxId # 0
  BY <1>1
<1>3. QED
  BY <1>2 DEF Ids

LEMMA RulesGiven ==
    InitialRules \subseteq OldRules /\ VoiceRules \subseteq OldRules /\ EditorRules \subseteq Verbs
BY RosterAssumption

LEMMA NamesGiven == \A c \in Names \cup Phones : c # ""
BY RosterAssumption

\* The row that is not there, and the task of who has none.
LEMMA NoFields ==
    /\ Absent.who = "" /\ Absent.phone = "" /\ Absent.rule = "" /\ Absent.notes = {}
    /\ Nothing.kind = "none" /\ Nothing.id = None
BY DEF Absent, Nothing

\* A contact is no absent one.
LEMMA ContactsExist == ASSUME NEW c \in Contacts PROVE c # Absent
<1>1. c.rule # ""
  BY DEF Contacts, Verbs, OldRules
<1>2. Absent.rule = ""
  BY DEF Absent
<1>3. QED
  BY <1>1, <1>2

\* A row is a contact, and a contact has a name, a number and a rule.
LEMMA RowTypes ==
    ASSUME TypeOK, NEW i \in Ids
    PROVE  /\ Exists(i) => /\ contacts[i] \in Contacts
                           /\ contacts[i].who \in Names /\ contacts[i].who # ""
                           /\ contacts[i].phone \in Phones /\ contacts[i].phone # ""
                           /\ contacts[i].rule \in Verbs \cup OldRules
                           /\ contacts[i].notes \in SUBSET Notes
           /\ ~ Exists(i) => contacts[i].who = "" /\ contacts[i].phone = ""
<1>1. contacts[i] \in Contacts \cup {Absent}
  BY DEF TypeOK
<1>2. ASSUME Exists(i)
      PROVE  /\ contacts[i] \in Contacts
             /\ contacts[i].who \in Names
             /\ contacts[i].phone \in Phones
             /\ contacts[i].rule \in Verbs \cup OldRules
             /\ contacts[i].notes \in SUBSET Notes
  BY <1>1, <1>2 DEF Exists, Contacts
<1>3. Absent.who = "" /\ Absent.phone = ""
  BY DEF Absent
<1>4. QED
  BY <1>2, <1>3, NamesGiven DEF Exists

LEMMA IssuedIsNumber ==
    ASSUME TypeOK
    PROVE  issued \in Nat /\ issued <= MaxId /\ MaxId \in Nat
<1>1. issued \in 0 .. MaxId
  BY DEF TypeOK
<1>2. QED
  BY <1>1, IdsAreNumbers

\* What is set out to be written is a task, or nothing.
LEMMA TaskTypes ==
    ASSUME NEW w \in Tasks \cup {Nothing}
    PROVE  /\ w.kind = "none" <=> w = Nothing
           /\ w.id \in Ids \cup {None} /\ w.notes \in SUBSET Notes /\ w.read \in SUBSET Notes
           /\ w.kind # "none" => w \in Tasks /\ w.who \in Names
<1>1. Nothing.kind = "none" /\ Nothing.id = None /\ Nothing.notes = {} /\ Nothing.read = {}
  BY DEF Nothing
<1>2. CASE w = Nothing
  BY <1>1, <1>2
<1>3. CASE w \in Tasks
  <2>1. w.kind # "none"
    BY <1>3 DEF Tasks
  <2>2. w.id \in Ids \cup {None} /\ w.notes \in SUBSET Notes /\ w.read \in SUBSET Notes
    BY <1>3 DEF Tasks
  <2>3. w.who \in Names
    BY <1>3 DEF Tasks
  <2>4. QED
    BY <1>1, <1>3, <2>1, <2>2, <2>3
<1>4. QED
  BY <1>2, <1>3

\* Initially nobody has set out to write anything.
LEMMA InitIInv == Init => IInv
<1> SUFFICES ASSUME Init
             PROVE  IInv
  OBVIOUS
<1>1. PICK v \in {0, 1}, c \in {Absent} \cup [who : Names, phone : Phones, rule : InitialRules,
                                             notes : {{}}] :
         /\ version = v
         /\ contacts = [i \in Ids |-> IF i = 1 THEN c ELSE Absent]
         /\ issued = IF c = Absent THEN 0 ELSE 1
         /\ oldColumns = (v = 0 /\ c # Absent)
         /\ address = [ph \in Phones |-> IF v = 1 /\ c.phone = ph THEN 1 ELSE None]
  BY DEF Init
<1>2. 1 \in Ids /\ c \in Contacts \cup {Absent} /\ (c # Absent => c.phone \in Phones)
  <2>1. CASE c \in [who : Names, phone : Phones, rule : InitialRules, notes : {{}}]
    BY <2>1, IdsAreNumbers, RulesGiven DEF Contacts
  <2>2. QED
    BY <2>1, IdsAreNumbers
<1>3. TypeOK
  <2>1. contacts \in [Ids -> Contacts \cup {Absent}]
    BY <1>1, <1>2
  <2>2. issued \in 0 .. MaxId /\ version \in 0 .. 2 /\ oldColumns \in BOOLEAN
    BY <1>1, IdsAreNumbers DEF Ids
  <2>3. address \in [Phones -> Ids \cup {None}]
    BY <1>1, <1>2
  <2>4. /\ plan \in [Threads -> [Ids -> Verbs \cup {""}]]
        /\ rows \in [Threads -> [Ids -> Phones \cup {""}]]
    BY DEF NoPlan, Init
  <2>5. /\ at \in [Threads -> Places]
        /\ staged \in [Threads -> Tasks \cup {Nothing}] /\ task \in [Threads -> Tasks \cup {Nothing}]
        /\ voiced \subseteq Ids /\ again \subseteq Ids /\ raced \in BOOLEAN
    BY DEF Init, Places
  <2>6. QED
    BY <2>1, <2>2, <2>3, <2>4, <2>5 DEF TypeOK
<1>4. TasksAreSound
  <2>1. Sound(Nothing)
    BY NoFields DEF Sound
  <2>2. QED
    BY <2>1, NoFields DEF TasksAreSound, Init
<1>5. RowsAreIssued
  <2>1. ASSUME NEW i \in Ids, Exists(i)
        PROVE  i = 1 /\ c # Absent
    BY <1>1, <2>1 DEF Exists
  <2>2. QED
    BY <1>1, <2>1 DEF RowsAreIssued
<1>6. OldIsUntouched
  <2>1. version = 0 => issued <= 1 /\ address = [ph \in Phones |-> None]
    <3>1. v = 0 => address = [ph \in Phones |-> None]
      BY <1>1
    <3>2. issued <= 1
      BY <1>1
    <3>3. QED
      BY <1>1, <3>1, <3>2
  <2>2. QED
    BY <2>1 DEF OldIsUntouched, Init
<1>7. PlansCover /\ RowsAreTrue
  BY DEF PlansCover, RowsAreTrue, Init
<1>8. AddressesMatch
  <2> SUFFICES ASSUME version > 0
               PROVE  /\ \A i \in Ids : Exists(i) => address[contacts[i].phone] = i
                      /\ \A ph \in Phones : address[ph] # None => contacts[address[ph]].phone = ph
    BY DEF AddressesMatch
  <2>1. v = 1
    BY <1>1
  <2>2. address = [ph \in Phones |-> IF c.phone = ph THEN 1 ELSE None] /\ contacts[1] = c
    BY <1>1, <1>2, <2>1
  <2>3. ASSUME NEW i \in Ids, Exists(i)
        PROVE  i = 1 /\ c # Absent
    BY <1>1, <2>3 DEF Exists
  <2>4. ASSUME NEW i \in Ids, Exists(i)
        PROVE  address[contacts[i].phone] = i
    BY <1>2, <2>2, <2>3, <2>4
  <2>5. ASSUME NEW ph \in Phones, address[ph] # None
        PROVE  contacts[address[ph]].phone = ph
    BY <2>2, <2>5
  <2>6. QED
    BY <2>4, <2>5
<1>9. RulesAreVerbsUnlessVoiced
  BY <1>1 DEF RulesAreVerbsUnlessVoiced
<1>10. QED
  BY <1>3, <1>4, <1>5, <1>6, <1>7, <1>8, <1>9 DEF IInv

----------------------------------------------------------------------------
(* What is set out to be written.                                           *)

\* The steps that only read the database: the skills, and the keys of the screen.
Intends(t) ==
    \/ \E who \in Names, phone \in Phones, rule \in VoiceRules : StageAdd(t, who, phone, rule)
    \/ \E who \in Names, rule \in VoiceRules : StageRule(t, who, rule)
    \/ \E who \in Names, note \in Notes : StageAppend(t, who, note) \/ StageReplace(t, who, note)
    \/ \E who \in Names : StageRemove(t, who)
    \/ Confirm(t) \/ Cancel(t)
    \/ \E i \in Ids : OpenEditor(t, i) \/ DeleteRow(t, i)
    \/ \E rule \in EditorRules : EditRule(t, rule)
    \/ \E notes \in SUBSET Notes : EditNotes(t, notes)
    \/ SaveEditor(t) \/ CloseEditor(t)

Writes(t) == Add(t) \/ AddRaises(t) \/ Update(t) \/ Delete(t)

Migrates(t) ==
    \/ Connect(t) \/ ReadColumns(t) \/ Recreate(t) \/ ReadRows(t)
    \/ Backfill(t) \/ BackfillRaises(t) \/ Recheck(t) \/ Rename(t)

\* Every step is one of a migration, reads only, writes, or is a restart.
LEMMA NextSteps ==
    ASSUME [Next]_vars
    PROVE  \/ \E t \in Threads : Migrates(t) \/ Intends(t) \/ Writes(t) \/ Restart(t)
           \/ UNCHANGED vars
BY Zenon DEF Next, Migrates, Intends, Writes

\* Whatever is staged is a task of a kind the database takes.
LEMMA StagedIsSound ==
    ASSUME TypeOK, TasksAreSound, NEW t \in Threads, NEW w \in Tasks \cup {Nothing}, Sound(w),
           t \in Screens => w.kind \in {"none", "edit"},
           staged' = [staged EXCEPT ![t] = w], UNCHANGED <<task, contacts, issued, again>>
    PROVE  staged' \in [Threads -> Tasks \cup {Nothing}] /\ TasksAreSound'
<1>1. \A u \in Threads : /\ Sound(staged'[u]) /\ Sound(task'[u])
                         /\ u \in Screens => staged'[u].kind \in {"none", "edit"}
  BY DEF TypeOK, TasksAreSound
<1>2. ASSUME NEW u \in Threads
      PROVE  Sound(staged[u])' /\ Sound(task[u])'
  BY <1>1 DEF Sound, Means, Exists
<1>3. QED
  BY <1>2 DEF TypeOK, TasksAreSound

LEMMA TakenIsSound ==
    ASSUME TypeOK, TasksAreSound, NEW t \in Threads, NEW w \in Tasks \cup {Nothing}, Sound(w),
           task' = [task EXCEPT ![t] = w], staged' = [staged EXCEPT ![t] = Nothing],
           UNCHANGED <<contacts, issued, again>>
    PROVE  /\ staged' \in [Threads -> Tasks \cup {Nothing}]
           /\ task' \in [Threads -> Tasks \cup {Nothing}] /\ TasksAreSound'
<1>1. Sound(Nothing)
  BY NoFields DEF Sound
<1>2. \A u \in Threads : /\ Sound(staged'[u]) /\ Sound(task'[u])
                         /\ u \in Screens => staged'[u].kind \in {"none", "edit"}
  BY <1>1, NoFields DEF TypeOK, TasksAreSound
<1>3. ASSUME NEW u \in Threads
      PROVE  Sound(staged[u])' /\ Sound(task[u])'
  BY <1>2 DEF Sound, Means, Exists
<1>4. /\ staged' \in [Threads -> Tasks \cup {Nothing}]
      /\ task' \in [Threads -> Tasks \cup {Nothing}]
  BY DEF TypeOK
<1>5. QED
  BY <1>2, <1>3, <1>4 DEF TasksAreSound

\* The contact found under a name is there and has the name.
LEMMA FoundExists ==
    ASSUME TypeOK, NEW t \in Threads, NEW who \in Names, NEW i \in Ids, Found(t, who, i)
    PROVE  Exists(i) /\ contacts[i].who = who
BY RowTypes, NamesGiven DEF Found, IdsOf

\* What a skill stages is sound.
LEMMA StageStep ==
    ASSUME TypeOK, TasksAreSound, RowsAreIssued, NEW t \in Threads,
           \/ \E who \in Names, phone \in Phones, rule \in VoiceRules :
                 StageAdd(t, who, phone, rule)
           \/ \E who \in Names, rule \in VoiceRules : StageRule(t, who, rule)
           \/ \E who \in Names, note \in Notes :
                 StageAppend(t, who, note) \/ StageReplace(t, who, note)
           \/ \E who \in Names : StageRemove(t, who)
    PROVE  \E w \in Tasks \cup {Nothing} : Sound(w) /\ Staging(t, w)
<1>1. CASE \E who \in Names, phone \in Phones, rule \in VoiceRules : StageAdd(t, who, phone, rule)
  <2>1. PICK who \in Names, phone \in Phones, rule \in VoiceRules : StageAdd(t, who, phone, rule)
    BY <1>1
  <2> DEFINE w == [Nothing EXCEPT !.kind = "add", !.who = who, !.phone = phone, !.rule = rule]
  <2>2. w \in Tasks /\ Sound(w)
    BY RulesGiven DEF Tasks, Nothing, None, Sound
  <2>3. QED
    BY <2>1, <2>2 DEF StageAdd
<1>2. CASE \E who \in Names, rule \in VoiceRules : StageRule(t, who, rule)
  <2>1. PICK who \in Names, rule \in VoiceRules, i \in Ids :
            /\ Found(t, who, i)
            /\ Staging(t, [Nothing EXCEPT !.kind = "rule", !.id = i, !.who = who, !.rule = rule])
    BY <1>2 DEF StageRule
  <2> DEFINE w == [Nothing EXCEPT !.kind = "rule", !.id = i, !.who = who, !.rule = rule]
  <2>2. w \in Tasks /\ w.kind = "rule" /\ w.id = i /\ w.who = who /\ w.rule \in OldRules
    BY RulesGiven DEF Tasks, Nothing
  <2>3. Means(w)
    BY <2>1, <2>2, FoundExists DEF RowsAreIssued, Means
  <2>4. Sound(w)
    BY <2>2, <2>3 DEF Sound
  <2>5. QED
    BY <2>1, <2>2, <2>4
<1>3. CASE \E who \in Names, note \in Notes : StageAppend(t, who, note)
  <2>1. PICK who \in Names, note \in Notes, i \in Ids :
            /\ Found(t, who, i)
            /\ Staging(t, [Nothing EXCEPT !.kind = "append", !.id = i, !.who = who,
                                          !.notes = Appended(contacts[i].notes, note),
                                          !.read = contacts[i].notes])
    BY <1>3 DEF StageAppend
  <2> DEFINE w == [Nothing EXCEPT !.kind = "append", !.id = i, !.who = who,
                                  !.notes = Appended(contacts[i].notes, note),
                                  !.read = contacts[i].notes]
  <2>2. /\ contacts[i].notes \in SUBSET Notes /\ Appended(contacts[i].notes, note) \in SUBSET Notes
        /\ contacts[i].notes \subseteq Appended(contacts[i].notes, note)
    BY <2>1, FoundExists, RowTypes DEF Appended
  <2>3. /\ w \in Tasks /\ w.kind = "append" /\ w.id = i /\ w.who = who
        /\ w.read \subseteq w.notes
    BY <2>2 DEF Tasks, Nothing
  <2>4. Means(w)
    BY <2>1, <2>3, FoundExists DEF RowsAreIssued, Means
  <2>5. Sound(w)
    BY <2>3, <2>4 DEF Sound
  <2>6. QED
    BY <2>1, <2>3, <2>5
<1>4. CASE \E who \in Names, note \in Notes : StageReplace(t, who, note)
  <2>1. PICK who \in Names, note \in Notes, i \in Ids :
            /\ Found(t, who, i)
            /\ Staging(t, [Nothing EXCEPT !.kind = "replace", !.id = i, !.who = who,
                                          !.notes = {note}])
    BY <1>4 DEF StageReplace
  <2> DEFINE w == [Nothing EXCEPT !.kind = "replace", !.id = i, !.who = who, !.notes = {note}]
  <2>2. w \in Tasks /\ w.kind = "replace" /\ w.id = i /\ w.who = who
    BY DEF Tasks, Nothing
  <2>3. Means(w)
    BY <2>1, <2>2, FoundExists DEF RowsAreIssued, Means
  <2>4. Sound(w)
    BY <2>2, <2>3 DEF Sound
  <2>5. QED
    BY <2>1, <2>2, <2>4
<1>5. CASE \E who \in Names : StageRemove(t, who)
  <2>1. PICK who \in Names, i \in Ids :
            /\ Found(t, who, i)
            /\ Staging(t, [Nothing EXCEPT !.kind = "remove", !.id = i, !.who = who])
    BY <1>5 DEF StageRemove
  <2> DEFINE w == [Nothing EXCEPT !.kind = "remove", !.id = i, !.who = who]
  <2>2. w \in Tasks /\ w.kind = "remove" /\ w.id = i /\ w.who = who
    BY DEF Tasks, Nothing
  <2>3. Means(w)
    BY <2>1, <2>2, FoundExists DEF RowsAreIssued, Means
  <2>4. Sound(w)
    BY <2>2, <2>3 DEF Sound
  <2>5. QED
    BY <2>1, <2>2, <2>4
<1>6. QED
  BY <1>1, <1>2, <1>3, <1>4, <1>5

\* What only reads the database hands over what is sound.
LEMMA IntendStep ==
    ASSUME TypeOK, TasksAreSound, RowsAreIssued, NEW t \in Threads, Intends(t)
    PROVE  /\ UNCHANGED <<contacts, issued, address, version, oldColumns, plan, rows, voiced,
                          raced, again>>
           /\ at' = at \/ at' = [at EXCEPT ![t] = "closed"]
           /\ staged' \in [Threads -> Tasks \cup {Nothing}]
           /\ task' \in [Threads -> Tasks \cup {Nothing}] /\ TasksAreSound'
<1> DEFINE Reads == /\ UNCHANGED <<contacts, issued, address, version, oldColumns, plan, rows,
                                   voiced, raced, again>>
                    /\ at' = at \/ at' = [at EXCEPT ![t] = "closed"]
           Hands == /\ staged' \in [Threads -> Tasks \cup {Nothing}]
                    /\ task' \in [Threads -> Tasks \cup {Nothing}] /\ TasksAreSound'
<1>0. /\ staged[t] \in Tasks \cup {Nothing} /\ Sound(staged[t]) /\ Sound(Nothing)
      /\ Nothing.kind = "none" /\ (t \in Screens => staged[t].kind \in {"none", "edit"})
      /\ (staged[t] # Nothing => staged[t] \in Tasks)
  BY NoFields DEF TypeOK, TasksAreSound, Sound
<1>1. CASE \/ \E who \in Names, phone \in Phones, rule \in VoiceRules :
                 StageAdd(t, who, phone, rule)
           \/ \E who \in Names, rule \in VoiceRules : StageRule(t, who, rule)
           \/ \E who \in Names, note \in Notes :
                 StageAppend(t, who, note) \/ StageReplace(t, who, note)
           \/ \E who \in Names : StageRemove(t, who)
  <2>1. PICK w \in Tasks \cup {Nothing} : Sound(w) /\ Staging(t, w)
    BY <1>1, StageStep
  <2>2. at' = at \/ at' = [at EXCEPT ![t] = "closed"]
    BY <1>1 DEF StageAdd, StageRule, StageAppend, StageReplace, StageRemove, Found, Closed
  <2>3. t \notin Screens
    BY <2>1, RosterAssumption DEF Staging
  <2>4. Hands
    BY <2>1, <2>3, StagedIsSound DEF Staging, database, TypeOK
  <2>5. QED
    BY <2>1, <2>2, <2>4 DEF Staging, database
<1>2. CASE Confirm(t) \/ SaveEditor(t)
  <2>1. Reads /\ task' = [task EXCEPT ![t] = staged[t]] /\ staged' = [staged EXCEPT ![t] = Nothing]
    BY <1>2 DEF Confirm, SaveEditor, database
  <2>2. Hands
    BY <1>0, <2>1, TakenIsSound
  <2>3. QED
    BY <2>1, <2>2
<1>3. CASE Cancel(t) \/ CloseEditor(t)
  <2>1. Reads /\ UNCHANGED task /\ staged' = [staged EXCEPT ![t] = Nothing]
    BY <1>3 DEF Cancel, CloseEditor, database
  <2>2. Hands
    BY <1>0, <2>1, StagedIsSound DEF TypeOK
  <2>3. QED
    BY <2>1, <2>2
<1>4. ASSUME NEW i \in Ids, OpenEditor(t, i)
      PROVE  Reads /\ Hands
  <2> DEFINE shown == IF contacts[i].rule \in Verbs THEN contacts[i].rule ELSE "ring_through"
             w == [Nothing EXCEPT !.kind = "edit", !.id = i, !.who = contacts[i].who,
                                  !.rule = shown, !.notes = contacts[i].notes]
  <2>1. Reads /\ UNCHANGED task /\ Exists(i) /\ staged' = [staged EXCEPT ![t] = w]
    BY <1>4 DEF OpenEditor, Closed, database
  <2>2. shown \in Verbs /\ contacts[i].who \in Names /\ contacts[i].notes \in SUBSET Notes
    BY <2>1, RowTypes DEF Verbs
  <2>3. w \in Tasks /\ w.kind = "edit" /\ w.id = i /\ w.who = contacts[i].who /\ w.rule \in Verbs
    BY <2>2 DEF Tasks, Nothing
  <2>4. Sound(w)
    BY <2>1, <2>3 DEF Sound, RowsAreIssued, Means
  <2>5. Hands
    BY <2>1, <2>3, <2>4, StagedIsSound DEF TypeOK
  <2>6. QED
    BY <2>1, <2>5
<1>5. ASSUME NEW i \in Ids, DeleteRow(t, i)
      PROVE  Reads /\ Hands
  <2> DEFINE w == [Nothing EXCEPT !.kind = "remove", !.id = i, !.who = contacts[i].who]
  <2>1. /\ Reads /\ Exists(i) /\ task' = [task EXCEPT ![t] = w]
        /\ staged' = [staged EXCEPT ![t] = Nothing]
    BY <1>5 DEF DeleteRow, Closed, database
  <2>2. contacts[i].who \in Names
    BY <2>1, RowTypes
  <2>3. w \in Tasks /\ w.kind = "remove" /\ w.id = i /\ w.who = contacts[i].who
    BY <2>2 DEF Tasks, Nothing
  <2>4. Sound(w)
    BY <2>1, <2>3 DEF Sound, RowsAreIssued, Means
  <2>5. Hands
    BY <2>1, <2>3, <2>4, TakenIsSound
  <2>6. QED
    BY <2>1, <2>5
<1>6. ASSUME NEW rule \in EditorRules, EditRule(t, rule)
      PROVE  Reads /\ Hands
  <2> DEFINE w == [staged[t] EXCEPT !.rule = rule]
  <2>1. Reads /\ UNCHANGED task /\ staged[t] # Nothing /\ t \in Screens
    BY <1>6 DEF EditRule, database
  <2>2. staged' = [staged EXCEPT ![t] = w]
    BY <1>6 DEF EditRule
  <2>3. staged[t] \in Tasks /\ staged[t].kind = "edit"
    BY <1>0, <2>1, TaskTypes
  <2>4. /\ w \in Tasks /\ w.kind = "edit" /\ w.rule \in Verbs
        /\ w.id = staged[t].id /\ w.who = staged[t].who
    BY <2>3, RulesGiven DEF Tasks
  <2>5. Sound(w)
    BY <1>0, <2>3, <2>4 DEF Sound, Means
  <2>6. Hands
    BY <2>1, <2>2, <2>4, <2>5, StagedIsSound DEF TypeOK
  <2>7. QED
    BY <2>1, <2>6
<1>7. ASSUME NEW notes \in SUBSET Notes, EditNotes(t, notes)
      PROVE  Reads /\ Hands
  <2> DEFINE w == [staged[t] EXCEPT !.notes = notes]
  <2>1. Reads /\ UNCHANGED task /\ staged[t] # Nothing /\ t \in Screens
    BY <1>7 DEF EditNotes, database
  <2>2. staged' = [staged EXCEPT ![t] = w]
    BY <1>7 DEF EditNotes
  <2>3. staged[t] \in Tasks /\ staged[t].kind = "edit"
    BY <1>0, <2>1, TaskTypes
  <2>4. /\ w \in Tasks /\ w.kind = "edit" /\ w.rule = staged[t].rule
        /\ w.id = staged[t].id /\ w.who = staged[t].who
    BY <2>3 DEF Tasks
  <2>5. Sound(w)
    BY <1>0, <2>3, <2>4 DEF Sound, Means
  <2>6. Hands
    BY <2>1, <2>2, <2>4, <2>5, StagedIsSound DEF TypeOK
  <2>7. QED
    BY <2>1, <2>6
<1>8. QED
  BY <1>1, <1>2, <1>3, <1>4, <1>5, <1>6, <1>7 DEF Intends

----------------------------------------------------------------------------
(* Writing.                                                                 *)

\* Rows come only by the next id, and keep their name; and what was issued stays so, but
\* for ids that are to be issued again.
Persist ==
    /\ again \subseteq again'
    /\ \A i \in Ids : i <= issued =>
          \/ i \in again'
          \/ /\ i <= issued'
             /\ contacts'[i] # Absent => Exists(i) /\ contacts'[i].who = contacts[i].who

\* What was sound stays so, whoever writes.
LEMMA SoundStays ==
    ASSUME TypeOK, issued' \in Nat, Persist, TasksAreSound,
           \A u \in Threads : /\ staged'[u] \in {staged[u], Nothing}
                              /\ task'[u] \in {task[u], Nothing}
    PROVE  TasksAreSound'
<1>0. issued \in Nat /\ \A i \in Ids : i \in Nat
  BY IdsAreNumbers, IssuedIsNumber
<1>1. ASSUME NEW w, Sound(w)
      PROVE  /\ w.kind = "add" => w.phone \in Phones /\ w.rule \in OldRules
             /\ w.kind = "rule" => w.rule \in OldRules
             /\ w.kind = "edit" => w.rule \in Verbs
             /\ w.kind = "append" => w.read \subseteq w.notes
             /\ w.kind \notin {"none", "add"} =>
                   /\ w.id \in Ids
                   /\ \/ w.id \in again'
                      \/ /\ w.id <= issued'
                         /\ contacts'[w.id] # Absent => contacts'[w.id].who = w.who
  BY <1>0, <1>1 DEF Sound, Means, Persist
<1>2. ASSUME NEW u \in Threads
      PROVE  Sound(staged[u])' /\ Sound(task[u])'
  <2>1. Sound(staged[u])'
    <3>1. CASE staged'[u] = staged[u]
      BY <1>1, <3>1 DEF TasksAreSound, Sound, Means, Exists
    <3>2. CASE staged'[u] = Nothing
      BY <3>2, NoFields DEF Sound
    <3>3. QED
      BY <3>1, <3>2
  <2>2. Sound(task[u])'
    <3>1. CASE task'[u] = task[u]
      BY <1>1, <3>1 DEF TasksAreSound, Sound, Means, Exists
    <3>2. CASE task'[u] = Nothing
      BY <3>2, NoFields DEF Sound
    <3>3. QED
      BY <3>1, <3>2
  <2>3. QED
    BY <2>1, <2>2
<1>3. QED
  BY <1>2, NoFields DEF TasksAreSound

\* What a write makes of a row.
LEMMA RowWritten ==
    ASSUME NEW c \in Contacts, NEW w \in Tasks, Sound(w)
    PROVE  /\ Write(c, w) \in Contacts
           /\ Write(c, w).who = c.who /\ Write(c, w).phone = c.phone
           /\ w.kind \in {"rule", "edit"} => Write(c, w).rule = w.rule
           /\ w.kind \notin {"rule", "edit"} => Write(c, w).rule = c.rule
           /\ w.kind \in {"append", "replace", "edit"} => Write(c, w).notes = w.notes
           /\ w.kind \notin {"append", "replace", "edit"} => Write(c, w).notes = c.notes
<1> DEFINE r == IF w.kind \in {"rule", "edit"} THEN w.rule ELSE c.rule
           n == IF w.kind \in {"append", "replace", "edit"} THEN w.notes ELSE c.notes
<1>1. /\ c.who \in Names /\ c.phone \in Phones /\ c.rule \in Verbs \cup OldRules
      /\ c.notes \in SUBSET Notes
  BY DEF Contacts
<1>2. w.notes \in SUBSET Notes
  BY TaskTypes
<1>3. r \in Verbs \cup OldRules /\ n \in SUBSET Notes
  BY <1>1, <1>2 DEF Sound
<1>4. c = [who |-> c.who, phone |-> c.phone, rule |-> c.rule, notes |-> c.notes]
  BY DEF Contacts
<1>5. Write(c, w) = [who |-> c.who, phone |-> c.phone, rule |-> r, notes |-> n]
  <2>1. Write(c, w) = [c EXCEPT !.rule = r, !.notes = n]
    BY DEF Write
  <2>2. QED
    BY <1>4, <2>1
<1>6. QED
  BY <1>1, <1>3, <1>5 DEF Contacts

\* A thread writes only to a database that somebody has migrated.
LEMMA ConnectedMigrated ==
    ASSUME OldIsUntouched, NEW t \in Threads, Connected(t)
    PROVE  version > 0
BY DEF OldIsUntouched, Connected

LEMMA AddEffect ==
    ASSUME TypeOK, TasksAreSound, RowsAreIssued, NEW t \in Threads, Add(t)
    PROVE  \E c \in Contacts :
              /\ NextId \in Ids /\ ~ Exists(NextId) /\ address[c.phone] = None
              /\ contacts' = [contacts EXCEPT ![NextId] = c]
              /\ address' = [address EXCEPT ![c.phone] = NextId]
              /\ issued' = NextId /\ NextId = issued + 1
<1> DEFINE new == [who |-> task[t].who, phone |-> task[t].phone, rule |-> task[t].rule,
                   notes |-> {}]
<1>1. task[t].kind = "add" /\ task[t] \in Tasks \cup {Nothing} /\ Sound(task[t])
  BY DEF Add, Writing, TypeOK, TasksAreSound
<1>2. task[t].who \in Names /\ task[t].phone \in Phones /\ task[t].rule \in OldRules
  BY <1>1, TaskTypes DEF Sound
<1>3. new \in Contacts
  BY <1>2 DEF Contacts
<1>4. issued \in Nat /\ issued < MaxId /\ MaxId \in Nat
  <2>1. issued \in Nat /\ MaxId \in Nat
    BY IssuedIsNumber
  <2>2. QED
    BY <2>1 DEF Add
<1>5. NextId \in Ids /\ NextId = issued + 1
  BY <1>4 DEF NextId, Ids
<1>6. ~ Exists(NextId)
  BY <1>4, <1>5 DEF RowsAreIssued
<1>7. /\ address[new.phone] = None
      /\ contacts' = [contacts EXCEPT ![NextId] = new]
      /\ address' = [address EXCEPT ![new.phone] = NextId]
      /\ issued' = NextId
  BY <1>4, <1>5 DEF Add
<1>8. QED
  BY <1>3, <1>5, <1>6, <1>7

LEMMA UpdateEffect ==
    ASSUME TypeOK, TasksAreSound, NEW t \in Threads, Update(t)
    PROVE  /\ task[t] \in Tasks /\ Sound(task[t]) /\ task[t].id \in Ids
           /\ task[t].kind \in {"rule", "append", "replace", "edit"}
           /\ task' = [task EXCEPT ![t] = Nothing]
           /\ \A j \in Ids :
                 \/ contacts'[j] = contacts[j] /\ (j # task[t].id \/ ~ Exists(j))
                 \/ /\ j = task[t].id /\ Exists(j) /\ contacts[j] \in Contacts
                    /\ contacts'[j] = Write(contacts[j], task[t])
           /\ contacts' \in [Ids -> Contacts \cup {Absent}]
<1> DEFINE i == task[t].id
<1>1. /\ task[t].kind \in {"rule", "append", "replace", "edit"}
      /\ task[t] \in Tasks \cup {Nothing} /\ Sound(task[t])
      /\ task' = [task EXCEPT ![t] = Nothing]
  BY DEF Update, Writing, TypeOK, TasksAreSound
<1>2. task[t] \in Tasks /\ i \in Ids
  BY <1>1, NoFields DEF Sound
<1>3. contacts' = IF Exists(i) THEN [contacts EXCEPT ![i] = Write(contacts[i], task[t])]
                  ELSE contacts
  BY <1>2 DEF Update, TypeOK
<1>4. Exists(i) => contacts[i] \in Contacts /\ Write(contacts[i], task[t]) \in Contacts
  BY <1>1, <1>2, RowTypes, RowWritten
<1>5. QED
  BY <1>1, <1>2, <1>3, <1>4 DEF TypeOK

LEMMA DeleteEffect ==
    ASSUME TypeOK, TasksAreSound, NEW t \in Threads, Delete(t)
    PROVE  /\ task[t] \in Tasks /\ task[t].kind = "remove" /\ task[t].id \in Ids
           /\ Sound(task[t])
           /\ task' = [task EXCEPT ![t] = Nothing]
           /\ contacts' = [contacts EXCEPT ![task[t].id] = Absent]
           /\ address' = [ph \in Phones |-> IF address[ph] = task[t].id THEN None
                                            ELSE address[ph]]
<1>1. /\ task[t].kind = "remove" /\ task[t] \in Tasks \cup {Nothing} /\ Sound(task[t])
  BY DEF Delete, Writing, TypeOK, TasksAreSound
<1>2. QED
  BY <1>1, NoFields DEF Delete, Writing, Sound

\* Writing the new rules changes nothing but rules.
LEMMA RenameEffect ==
    ASSUME TypeOK, NEW t \in Threads, Rename(t), NEW i \in Ids
    PROVE  \/ contacts'[i] = contacts[i] /\ (~ Exists(i) \/ plan[t][i] = "")
                /\ (i \in voiced => i \in voiced')
           \/ /\ Exists(i) /\ plan[t][i] \in Verbs
              /\ contacts'[i] \in Contacts /\ contacts'[i].who = contacts[i].who
              /\ contacts'[i].phone = contacts[i].phone /\ contacts'[i].rule \in Verbs
              /\ contacts'[i].notes = contacts[i].notes
<1>1. CASE ~ Exists(i) \/ plan[t][i] = ""
  BY <1>1 DEF Rename, TypeOK
<1>2. CASE Exists(i) /\ plan[t][i] # ""
  <2>1. contacts'[i] = [contacts[i] EXCEPT !.rule = plan[t][i]]
    BY <1>2 DEF Rename
  <2>2. contacts[i] \in Contacts
    BY <1>2, RowTypes
  <2>3. plan \in [Threads -> [Ids -> Verbs \cup {""}]]
    BY DEF TypeOK
  <2>4. plan[t][i] \in Verbs
    BY <1>2, <2>3
  <2>5. QED
    BY <1>2, <2>1, <2>2, <2>4 DEF Contacts
<1>3. QED
  BY <1>1, <1>2

LEMMA RenameTypes ==
    ASSUME TypeOK, NEW t \in Threads, Rename(t)
    PROVE  contacts' \in [Ids -> Contacts \cup {Absent}]
<1>1. \A i \in Ids : contacts'[i] \in Contacts \cup {Absent}
  BY RenameEffect DEF TypeOK
<1>2. contacts' = [i \in Ids |-> contacts'[i]]
  BY DEF Rename
<1>3. QED
  BY <1>1, <1>2

\* There is a least one among ids.
LEMMA LeastId ==
    ASSUME NEW T, T \subseteq Ids, T # {}
    PROVE  \E i \in T : \A j \in T : i <= j
<1>1. T \subseteq Nat
  BY IdsAreNumbers
<1>2. IsWellFoundedOn(OpToRel(<, Nat), Nat)
  BY NatLessThanWellFounded
<1>3. PICK i \in T : \A j \in T : ~ (<<j, i>> \in OpToRel(<, Nat))
  BY <1>1, <1>2, WFMin
<1>4. \A j \in T : ~ (j < i)
  BY <1>1, <1>3 DEF OpToRel
<1>5. QED
  BY <1>1, <1>4

\* An address is filled in with a contact that had the number.
LEMMA BackfilledOwner ==
    ASSUME TypeOK, NEW t \in Threads, NEW ph \in Phones
    PROVE  /\ address[ph] # None \/ Owners(t, ph) = {} => Backfilled(t)[ph] = address[ph]
           /\ address[ph] = None /\ Owners(t, ph) # {} => Backfilled(t)[ph] \in Owners(t, ph)
<1>1. Owners(t, ph) \subseteq Ids
  BY DEF Owners
<1>2. Backfilled(t)[ph] = IF address[ph] # None \/ Owners(t, ph) = {} THEN address[ph]
                          ELSE CHOOSE i \in Owners(t, ph) : \A j \in Owners(t, ph) : i <= j
  BY DEF Backfilled
<1>3. QED
  BY <1>1, <1>2, LeastId

----------------------------------------------------------------------------
(* Every step keeps the parts of the invariant.                             *)

\* Who writes, or begins anew, has nothing left to write.
Handed(t) ==
    \A u \in Threads : staged'[u] \in {staged[u], Nothing} /\ task'[u] \in {task[u], Nothing}

LEMMA ThreadsType ==
    ASSUME TypeOK, NEW t \in Threads, Migrates(t) \/ Writes(t) \/ Restart(t)
    PROVE  /\ at' \in [Threads -> Places]
           /\ plan' \in [Threads -> [Ids -> Verbs \cup {""}]]
           /\ rows' \in [Threads -> [Ids -> Phones \cup {""}]]
           /\ staged' \in [Threads -> Tasks \cup {Nothing}]
           /\ task' \in [Threads -> Tasks \cup {Nothing}]
           /\ Handed(t)
<1> USE DEF TypeOK, Handed, Places, process, database
<1>1. CASE Connect(t) \/ ReadColumns(t) \/ Recreate(t)
  BY <1>1 DEF Connect, ReadColumns, Recreate
<1>2. CASE Recheck(t)
  <2>1. \A i \in Ids : Renamed(contacts[i].rule) \in Verbs \cup {""}
    BY DEF Renamed, Verbs
  <2> DEFINE new == [i \in Ids |-> Renamed(contacts[i].rule)]
  <2>2. new \in [Ids -> Verbs \cup {""}]
    BY <2>1
  <2> HIDE DEF new
  <2>3. plan' = plan \/ plan' = [plan EXCEPT ![t] = new]
    BY <1>2 DEF Recheck, new
  <2>4. plan' \in [Threads -> [Ids -> Verbs \cup {""}]]
    BY <2>2, <2>3
  <2>5. QED
    BY <1>2, <2>4 DEF Recheck
<1>3. NoPlan \in [Ids -> Verbs \cup {""}] /\ NoPlan \in [Ids -> Phones \cup {""}]
  BY DEF NoPlan
<1>4. CASE Rename(t)
  BY <1>3, <1>4 DEF Rename
<1>5. CASE Writes(t)
  BY <1>5 DEF Writes, Add, AddRaises, Update, Delete, Writing, Closed
<1>6. CASE Restart(t)
  BY <1>3, <1>6 DEF Restart
<1>7. CASE ReadRows(t)
  <2> DEFINE read == [i \in Ids |-> contacts[i].phone]
  <2>1. read \in [Ids -> Phones \cup {""}]
    BY RowTypes
  <2> HIDE DEF read
  <2>2. rows' = [rows EXCEPT ![t] = read]
    BY <1>7 DEF ReadRows, read
  <2>3. QED
    BY <1>7, <2>1, <2>2 DEF ReadRows
<1>8. CASE Backfill(t)
  BY <1>3, <1>8 DEF Backfill
<1>9. CASE BackfillRaises(t)
  BY <1>3, <1>9 DEF BackfillRaises
<1>10. QED
  BY <1>1, <1>2, <1>4, <1>5, <1>6, <1>7, <1>8, <1>9 DEF Migrates

LEMMA DatabaseTypes ==
    ASSUME TypeOK, TasksAreSound, RowsAreIssued, NEW t \in Threads,
           Migrates(t) \/ Writes(t) \/ Restart(t)
    PROVE  /\ contacts' \in [Ids -> Contacts \cup {Absent}]
           /\ issued' \in 0 .. MaxId
           /\ address' \in [Phones -> Ids \cup {None}]
           /\ version' \in 0 .. 2 /\ oldColumns' \in BOOLEAN
           /\ voiced' \subseteq Ids /\ again' \subseteq Ids /\ raced' \in BOOLEAN
<1> USE DEF database
<1>1. CASE Connect(t) \/ ReadColumns(t) \/ ReadRows(t) \/ BackfillRaises(t) \/ Recheck(t)
           \/ AddRaises(t) \/ Restart(t)
  BY <1>1 DEF Connect, ReadColumns, ReadRows, BackfillRaises, Recheck, AddRaises, Restart, TypeOK
<1>2. CASE Recreate(t)
  <2>1. PICK last \in Ids \cup {None} :
            issued' = last /\ again' = again \cup {i \in Ids : last < i /\ i <= issued}
    BY <1>2 DEF Recreate
  <2>2. issued' \in 0 .. MaxId
    BY <2>1, IdsAreNumbers DEF Ids, None
  <2>3. again' \subseteq Ids
    BY <2>1 DEF TypeOK
  <2>4. QED
    BY <1>2, <2>2, <2>3 DEF Recreate, TypeOK
<1>3. CASE Backfill(t)
  <2>1. \A ph \in Phones : Backfilled(t)[ph] \in Ids \cup {None}
    BY BackfilledOwner DEF TypeOK, Owners
  <2>2. Backfilled(t) = [ph \in Phones |-> Backfilled(t)[ph]]
    BY DEF Backfilled
  <2>3. address' \in [Phones -> Ids \cup {None}]
    BY <1>3, <2>1, <2>2 DEF Backfill
  <2>4. UNCHANGED <<contacts, issued, oldColumns, voiced, raced, again>>
    BY <1>3 DEF Backfill
  <2>5. version' \in 0 .. 2
    <3>1. version' = 1
      BY <1>3 DEF Backfill
    <3>2. QED
      BY <3>1
  <2>6. QED
    BY <2>3, <2>4, <2>5 DEF TypeOK
<1>4. CASE Rename(t)
  <2>1. contacts' \in [Ids -> Contacts \cup {Absent}]
    BY <1>4, RenameTypes
  <2>2. UNCHANGED <<issued, address, oldColumns, raced, again>> /\ voiced' \subseteq voiced
    BY <1>4 DEF Rename
  <2>3. version' \in 0 .. 2
    <3>1. version' = 2
      BY <1>4 DEF Rename
    <3>2. QED
      BY <3>1
  <2>4. QED
    BY <2>1, <2>2, <2>3 DEF TypeOK
<1>5. CASE Add(t)
  <2>1. PICK c \in Contacts :
            /\ NextId \in Ids /\ contacts' = [contacts EXCEPT ![NextId] = c]
            /\ address' = [address EXCEPT ![c.phone] = NextId] /\ issued' = NextId
    BY <1>5, AddEffect
  <2>2. issued' \in 0 .. MaxId
    BY <2>1 DEF Ids
  <2>3. UNCHANGED <<version, oldColumns, raced, again>> /\ voiced' = voiced \cup {NextId}
    BY <1>5 DEF Add
  <2>4. QED
    BY <2>1, <2>2, <2>3 DEF TypeOK
<1>6. CASE Update(t)
  <2>1. contacts' \in [Ids -> Contacts \cup {Absent}] /\ task[t].id \in Ids
    BY <1>6, UpdateEffect
  <2>2. voiced' \subseteq Ids
    BY <1>6, <2>1 DEF Update, TypeOK
  <2>3. QED
    BY <1>6, <2>1, <2>2 DEF Update, TypeOK
<1>7. CASE Delete(t)
  BY <1>7, DeleteEffect DEF Delete, TypeOK
<1>8. QED
  BY <1>1, <1>2, <1>3, <1>4, <1>5, <1>6, <1>7 DEF Migrates, Writes

LEMMA PersistStep ==
    ASSUME TypeOK, TasksAreSound, RowsAreIssued, NEW t \in Threads,
           Migrates(t) \/ Writes(t) \/ Restart(t)
    PROVE  Persist /\ RowsAreIssued'
<1> USE DEF database
<1>0. issued \in Nat /\ \A i \in Ids : i \in Nat
  BY IssuedIsNumber, IdsAreNumbers
<1>1. CASE Connect(t) \/ ReadColumns(t) \/ ReadRows(t) \/ Backfill(t) \/ BackfillRaises(t)
           \/ Recheck(t) \/ AddRaises(t) \/ Restart(t)
  <2>1. UNCHANGED <<contacts, issued, again>>
    BY <1>1 DEF Connect, ReadColumns, ReadRows, Backfill, BackfillRaises, Recheck, AddRaises,
       Restart
  <2>2. QED
    BY <2>1 DEF Persist, RowsAreIssued, Exists
<1>2. CASE Rename(t)
  <2>1. UNCHANGED <<issued, again>>
    BY <1>2 DEF Rename
  <2>2. ASSUME NEW i \in Ids, contacts'[i] # Absent
        PROVE  Exists(i) /\ contacts'[i].who = contacts[i].who
    BY <1>2, <2>2, RenameEffect DEF Exists
  <2>3. QED
    BY <1>0, <2>1, <2>2 DEF Persist, RowsAreIssued, Exists
<1>3. CASE Add(t)
  <2>1. PICK c \in Contacts :
            /\ NextId \in Ids /\ NextId = issued + 1 /\ issued' = NextId
            /\ contacts' = [contacts EXCEPT ![NextId] = c]
    BY <1>3, AddEffect
  <2>2. (\A i \in Ids : i # NextId => contacts'[i] = contacts[i]) /\ UNCHANGED again
    BY <1>3, <2>1 DEF TypeOK, Add
  <2>3. QED
    BY <1>0, <2>1, <2>2 DEF Persist, RowsAreIssued, Exists
<1>4. CASE Update(t)
  <2>1. UNCHANGED <<issued, again>>
    BY <1>4 DEF Update
  <2>2. ASSUME NEW i \in Ids, contacts'[i] # Absent
        PROVE  Exists(i) /\ contacts'[i].who = contacts[i].who
    BY <1>4, <2>2, UpdateEffect, RowWritten DEF Exists
  <2>3. QED
    BY <1>0, <2>1, <2>2 DEF Persist, RowsAreIssued, Exists
<1>5. CASE Delete(t)
  <2>1. UNCHANGED <<issued, again>>
    BY <1>5 DEF Delete
  <2>2. contacts' = [contacts EXCEPT ![task[t].id] = Absent]
    BY <1>5, DeleteEffect
  <2>3. ASSUME NEW i \in Ids, contacts'[i] # Absent
        PROVE  Exists(i) /\ contacts'[i].who = contacts[i].who
    BY <2>2, <2>3 DEF Exists, TypeOK
  <2>4. QED
    BY <1>0, <2>1, <2>3 DEF Persist, RowsAreIssued, Exists
<1>6. CASE Recreate(t)
  <2>1. PICK last \in {i \in Ids : Exists(i)} \cup {None} :
            /\ \A i \in Ids : Exists(i) => i <= last
            /\ issued' = last /\ again' = again \cup {i \in Ids : last < i /\ i <= issued}
    BY <1>6 DEF Recreate
  <2>2. UNCHANGED contacts /\ last \in Nat
    BY <1>0, <1>6, <2>1 DEF Recreate, None
  <2>3. QED
    BY <1>0, <2>1, <2>2 DEF Persist, RowsAreIssued, Exists
<1>7. QED
  BY <1>1, <1>2, <1>3, <1>4, <1>5, <1>6 DEF Migrates, Writes

\* Types, ids and tasks.
LEMMA TypeStep ==
    ASSUME TypeOK, TasksAreSound, RowsAreIssued, [Next]_vars
    PROVE  TypeOK' /\ TasksAreSound' /\ RowsAreIssued'
<1>1. ASSUME NEW t \in Threads, Migrates(t) \/ Writes(t) \/ Restart(t)
      PROVE  TypeOK' /\ TasksAreSound' /\ RowsAreIssued'
  <2>1. TypeOK'
    BY <1>1, ThreadsType, DatabaseTypes DEF TypeOK
  <2>2. issued' \in Nat
    <3>1. issued' \in 0 .. MaxId
      BY <1>1, DatabaseTypes
    <3>2. QED
      BY <3>1, IdsAreNumbers
  <2>3. Persist /\ RowsAreIssued' /\ Handed(t)
    BY <1>1, PersistStep, ThreadsType
  <2>4. TasksAreSound'
    BY <2>2, <2>3, SoundStays DEF Handed
  <2>5. QED
    BY <2>1, <2>3, <2>4
<1>2. ASSUME NEW t \in Threads, Intends(t)
      PROVE  TypeOK' /\ TasksAreSound' /\ RowsAreIssued'
  <2>1. at' \in [Threads -> Places]
    BY <1>2, IntendStep DEF TypeOK, Places
  <2>2. QED
    BY <1>2, <2>1, IntendStep DEF TypeOK, RowsAreIssued, Exists
<1>3. CASE UNCHANGED vars
  <2>1. UNCHANGED <<contacts, issued, address, version, oldColumns, at, plan, rows, staged,
                    task, voiced, raced, again>>
    BY <1>3 DEF vars, database, process
  <2>2. TypeOK' /\ RowsAreIssued'
    BY <2>1 DEF TypeOK, RowsAreIssued, Exists
  <2>3. TasksAreSound'
    BY <2>1 DEF TasksAreSound, Sound, Means, Exists
  <2>4. QED
    BY <2>2, <2>3
<1>4. QED
  BY <1>1, <1>2, <1>3, NextSteps

\* Version 0 is left for good, and nobody writes before.
LEMMA OldStep ==
    ASSUME TypeOK, TasksAreSound, RowsAreIssued, OldIsUntouched, [Next]_vars
    PROVE  OldIsUntouched'
<1>0. version \in 0 .. 2 /\ at \in [Threads -> Places]
  BY DEF TypeOK
<1>1. ASSUME NEW t \in Threads, Migrates(t)
      PROVE  OldIsUntouched'
  <2>1. CASE Connect(t) \/ ReadColumns(t) \/ ReadRows(t) \/ BackfillRaises(t) \/ Recheck(t)
    <3>1. \A u \in Threads : at'[u] \in {"recheck", "rename", "open"} => version > 0
      BY <1>0, <2>1 DEF Connect, ReadColumns, ReadRows, BackfillRaises, Recheck, OldIsUntouched
    <3>2. UNCHANGED <<version, issued, address>>
      BY <2>1 DEF Connect, ReadColumns, ReadRows, BackfillRaises, Recheck, database
    <3>3. QED
      BY <3>1, <3>2 DEF OldIsUntouched
  <2>2. CASE Recreate(t)
    <3>1. \A u \in Threads : at'[u] \in {"recheck", "rename", "open"} => version > 0
      BY <1>0, <2>2 DEF Recreate, OldIsUntouched
    <3>2. UNCHANGED version /\ address' = [ph \in Phones |-> None]
      BY <2>2 DEF Recreate
    <3>3. PICK last \in {i \in Ids : Exists(i)} \cup {None} : issued' = last
      BY <2>2 DEF Recreate
    <3>4. issued <= 1 => last <= 1
      <4>1. issued \in Nat /\ \A i \in Ids : i \in Nat
        BY IssuedIsNumber, IdsAreNumbers
      <4>2. QED
        BY <4>1 DEF RowsAreIssued, None
    <3>5. QED
      BY <3>1, <3>2, <3>3, <3>4 DEF OldIsUntouched
  <2>3. CASE Backfill(t) \/ Rename(t)
    <3>1. version' = 1 \/ version' = 2
      BY <2>3 DEF Backfill, Rename
    <3>2. version' > 0
      BY <3>1
    <3>3. QED
      BY <3>2 DEF OldIsUntouched
  <2>4. QED
    BY <1>1, <2>1, <2>2, <2>3 DEF Migrates
<1>2. ASSUME NEW t \in Threads, Writes(t)
      PROVE  OldIsUntouched'
  <2>1. Connected(t) /\ UNCHANGED version
    BY <1>2 DEF Writes, Add, AddRaises, Update, Delete, Writing, database
  <2>2. version' > 0
    BY <2>1, ConnectedMigrated
  <2>3. QED
    BY <1>0, <2>1, <2>2 DEF OldIsUntouched
<1>3. ASSUME NEW t \in Threads, Intends(t) \/ Restart(t)
      PROVE  OldIsUntouched'
  <2>1. UNCHANGED <<version, issued, address>>
    BY <1>3, IntendStep DEF Restart, database
  <2>2. at' = at \/ at' = [at EXCEPT ![t] = "closed"]
    BY <1>3, IntendStep DEF Restart
  <2>3. QED
    BY <1>0, <2>1, <2>2 DEF OldIsUntouched
<1>4. CASE UNCHANGED vars
  BY <1>4 DEF vars, database, process, OldIsUntouched
<1>5. QED
  BY <1>1, <1>2, <1>3, <1>4, NextSteps

\* A rule that the engine does not know is given a new name.
LEMMA RenamedCovers ==
    ASSUME NEW rule \in OldRules, rule \notin Verbs
    PROVE  Renamed(rule) # ""
<1>1. rule \in {"normal", "vip", "block"}
  BY DEF OldRules, Verbs
<1>2. QED
  BY <1>1, NoFields DEF Renamed

\* The rules of the row i are nobody's business: there is no row, it was set by voice, or
\* it is a verb.
Settled(i) == Exists(i) /\ i \notin voiced => contacts[i].rule \in Verbs

\* A step settles a row, or leaves it as it was.  Only the writing of new rules that it is
\* not among does so in version 2.
LEMMA SettledStep ==
    ASSUME TypeOK, TasksAreSound, RowsAreIssued, [Next]_vars, NEW i \in Ids, ~ Settled(i)'
    PROVE  /\ ~ Settled(i) /\ contacts'[i].rule = contacts[i].rule
           /\ (\A t \in Threads : Rename(t) => plan[t][i] = "")
<1> USE DEF Settled, Exists
<1>1. ASSUME NEW t \in Threads, Rename(t)
      PROVE  ~ Settled(i) /\ contacts'[i].rule = contacts[i].rule /\ plan[t][i] = ""
  BY <1>1, RenameEffect
<1>2. ASSUME NEW t \in Threads,
             \/ Connect(t) \/ ReadColumns(t) \/ Recreate(t) \/ ReadRows(t) \/ Backfill(t)
             \/ BackfillRaises(t) \/ Recheck(t) \/ AddRaises(t) \/ Restart(t) \/ Intends(t)
      PROVE  UNCHANGED <<contacts, voiced>>
  BY <1>2, IntendStep DEF Connect, ReadColumns, Recreate, ReadRows, Backfill, BackfillRaises,
     Recheck, AddRaises, Restart, database
<1>3. ASSUME NEW t \in Threads, Add(t)
      PROVE  ~ Settled(i) /\ contacts'[i].rule = contacts[i].rule
  <2>1. PICK c \in Contacts : NextId \in Ids /\ contacts' = [contacts EXCEPT ![NextId] = c]
    BY <1>3, AddEffect
  <2>2. voiced' = voiced \cup {NextId}
    BY <1>3 DEF Add
  <2>3. i # NextId /\ i \notin voiced
    BY <2>2
  <2>4. contacts'[i] = contacts[i]
    BY <2>1, <2>3 DEF TypeOK
  <2>5. QED
    BY <2>3, <2>4
<1>4. ASSUME NEW t \in Threads, Update(t)
      PROVE  ~ Settled(i) /\ contacts'[i].rule = contacts[i].rule
  <2> DEFINE w == task[t]
  <2>1. /\ w \in Tasks /\ Sound(w) /\ w.kind \in {"rule", "append", "replace", "edit"}
        /\ \/ contacts'[i] = contacts[i] /\ (i # w.id \/ ~ Exists(i))
           \/ /\ i = w.id /\ Exists(i) /\ contacts[i] \in Contacts
              /\ contacts'[i] = Write(contacts[i], w)
    BY <1>4, UpdateEffect
  <2>2. voiced' = CASE w.kind = "rule" -> voiced \cup {w.id}
                    [] w.kind = "edit" -> voiced \ {w.id}
                    [] OTHER -> voiced
    BY <1>4 DEF Update
  <2>3. CASE w.kind = "rule"
    BY <2>1, <2>2, <2>3, RowWritten
  <2>4. CASE w.kind = "edit"
    <3>1. Sound(w) /\ w.rule \in Verbs
      BY <2>1, <2>4 DEF Sound
    <3>2. CASE i = w.id /\ Exists(i)
      <4>1. contacts'[i].rule \in Verbs
        BY <2>1, <2>4, <3>1, <3>2, RowWritten
      <4>2. QED
        BY <4>1
    <3>3. CASE i # w.id \/ ~ Exists(i)
      BY <2>1, <2>2, <2>4, <3>3
    <3>4. QED
      BY <3>2, <3>3
  <2>5. CASE w.kind \in {"append", "replace"}
    <3>1. voiced' = voiced
      BY <2>2, <2>5
    <3>2. contacts'[i] = contacts[i] \/ (contacts'[i].rule = contacts[i].rule /\ Exists(i))
      BY <2>1, <2>5, RowWritten
    <3>3. QED
      BY <3>1, <3>2
  <2>6. QED
    BY <2>1, <2>3, <2>4, <2>5
<1>5. ASSUME NEW t \in Threads, Delete(t)
      PROVE  ~ Settled(i) /\ contacts'[i].rule = contacts[i].rule
  BY <1>5, DeleteEffect DEF Delete, TypeOK
<1>6. ~ Settled(i) /\ contacts'[i].rule = contacts[i].rule
  <2>1. CASE UNCHANGED vars
    BY <2>1 DEF vars, database, process
  <2>2. CASE \E t \in Threads : Migrates(t) \/ Intends(t) \/ Writes(t) \/ Restart(t)
    BY <1>1, <1>2, <1>3, <1>4, <1>5, <2>2 DEF Migrates, Writes
  <2>3. QED
    BY <2>1, <2>2, NextSteps
<1>7. QED
  BY <1>1, <1>6

\* The plans stay complete: what is settled needs none, and what is not was read.
LEMMA PlansStep ==
    ASSUME TypeOK, TasksAreSound, RowsAreIssued, PlansCover, [Next]_vars
    PROVE  PlansCover'
<1> SUFFICES ASSUME NEW u \in Threads, NEW i \in Ids, at'[u] = "rename", ~ Settled(i)'
             PROVE  plan'[u][i] # ""
  BY DEF PlansCover, Settled, Exists
<1>1. ~ Settled(i)
  BY SettledStep
<1>2. CASE at[u] = "rename" /\ plan'[u] = plan[u]
  BY <1>1, <1>2 DEF PlansCover, Settled
<1>3. CASE Recheck(u)
  <2>1. Exists(i) /\ contacts[i].rule \notin Verbs
    BY <1>1 DEF Settled
  <2>2. contacts[i].rule \in OldRules
    BY <2>1, RowTypes
  <2>3. at \in [Threads -> Places] /\ plan \in [Threads -> [Ids -> Verbs \cup {""}]]
    BY DEF TypeOK
  <2>4. plan' = [plan EXCEPT ![u] = [j \in Ids |-> Renamed(contacts[j].rule)]]
    BY <1>3, <2>3 DEF Recheck
  <2>5. plan'[u][i] = Renamed(contacts[i].rule)
    BY <2>3, <2>4
  <2>6. QED
    BY <2>1, <2>2, <2>5, RenamedCovers
<1>4. (at[u] = "rename" /\ plan'[u] = plan[u]) \/ Recheck(u)
  <2>1. CASE UNCHANGED vars
    BY <2>1 DEF vars, database, process
  <2>2. ASSUME NEW t \in Threads, Migrates(t)
        PROVE  (at[u] = "rename" /\ plan'[u] = plan[u]) \/ Recheck(u)
    <3>1. CASE \/ Connect(t) \/ ReadColumns(t) \/ Recreate(t)
               \/ ReadRows(t) \/ Backfill(t) \/ BackfillRaises(t)
      BY <3>1 DEF Connect, ReadColumns, Recreate, ReadRows, Backfill, BackfillRaises, TypeOK
    <3>2. CASE Recheck(t)
      BY <3>2 DEF Recheck, TypeOK
    <3>3. CASE Rename(t)
      BY <3>3 DEF Rename, TypeOK
    <3>4. QED
      BY <2>2, <3>1, <3>2, <3>3 DEF Migrates
  <2>3. ASSUME NEW t \in Threads, Writes(t) \/ Intends(t) \/ Restart(t)
        PROVE  at[u] = "rename" /\ plan'[u] = plan[u]
    <3>1. CASE Writes(t)
      BY <3>1 DEF Writes, Add, AddRaises, Update, Delete, Writing, Closed, database, TypeOK
    <3>2. CASE Intends(t)
      BY <3>2, IntendStep DEF TypeOK
    <3>3. CASE Restart(t)
      BY <3>3 DEF Restart, TypeOK
    <3>4. QED
      BY <2>3, <3>1, <3>2, <3>3
  <2>4. QED
    BY <2>1, <2>2, <2>3, NextSteps
<1>5. QED
  BY <1>2, <1>3, <1>4

\* In version 2 nothing is left to settle.
LEMMA RulesStep ==
    ASSUME TypeOK, TasksAreSound, RowsAreIssued, PlansCover, RulesAreVerbsUnlessVoiced,
           [Next]_vars
    PROVE  RulesAreVerbsUnlessVoiced'
<1> SUFFICES ASSUME version' = 2, NEW i \in Ids, ~ Settled(i)'
             PROVE  FALSE
  BY DEF RulesAreVerbsUnlessVoiced, Settled, Exists
<1>1. ~ Settled(i) /\ \A t \in Threads : Rename(t) => plan[t][i] = ""
  BY SettledStep
<1>2. version # 2
  BY <1>1 DEF RulesAreVerbsUnlessVoiced, Settled
<1>3. \E t \in Threads : Rename(t)
  <2>1. CASE UNCHANGED vars
    BY <1>2, <2>1 DEF vars, database, process
  <2>2. ASSUME NEW t \in Threads, Writes(t) \/ Intends(t) \/ Restart(t)
        PROVE  version' = version
    BY <2>2, IntendStep DEF Writes, Add, AddRaises, Update, Delete, Restart, database
  <2>3. ASSUME NEW t \in Threads, Migrates(t)
        PROVE  version' \in {version, 1} \/ Rename(t)
    BY <2>3 DEF Migrates, Connect, ReadColumns, Recreate, ReadRows, Backfill, BackfillRaises,
       Recheck, database
  <2>4. QED
    BY <1>2, <2>1, <2>2, <2>3, NextSteps
<1>4. QED
  BY <1>1, <1>3 DEF Rename, PlansCover, Settled


\* What a migration read stays true: contacts keep their number, and ids are not issued
\* again as long as no migration came late.
LEMMA RowsStep ==
    ASSUME TypeOK, TasksAreSound, RowsAreIssued, OldIsUntouched, RowsAreTrue, [Next]_vars
    PROVE  RowsAreTrue'
<1> SUFFICES ASSUME NEW u \in Threads, NEW i \in Ids, at'[u] = "fill"
             PROVE  /\ version' = 0 => rows'[u][i] = contacts'[i].phone
                    /\ ~ raced' /\ rows'[u][i] # "" =>
                          /\ i <= issued'
                          /\ contacts'[i] # Absent => contacts'[i].phone = rows'[u][i]
  BY DEF RowsAreTrue, Exists
<1>0. issued \in Nat /\ i \in Nat /\ version \in 0 .. 2
  BY IssuedIsNumber, IdsAreNumbers DEF TypeOK
<1>1. CASE ReadRows(u)
  <2>1. /\ rows' = [rows EXCEPT ![u] = [k \in Ids |-> contacts[k].phone]]
        /\ UNCHANGED <<contacts, issued>>
    BY <1>1 DEF ReadRows, database
  <2>2. rows'[u][i] = contacts[i].phone
    BY <2>1 DEF TypeOK
  <2>3. ~ Exists(i) => rows'[u][i] = ""
    BY <2>2, RowTypes
  <2>4. QED
    BY <2>1, <2>2, <2>3 DEF RowsAreIssued
<1>2. (at[u] = "fill" /\ rows'[u] = rows[u]) \/ ReadRows(u)
  <2>1. CASE UNCHANGED vars
    <3>1. at' = at /\ rows' = rows
      BY <2>1 DEF vars, database, process
    <3>2. QED
      BY <3>1
  <2>2. ASSUME NEW t \in Threads, Migrates(t)
        PROVE  (at[u] = "fill" /\ rows'[u] = rows[u]) \/ ReadRows(u)
    <3>1. CASE \/ Connect(t) \/ ReadColumns(t) \/ Recreate(t) \/ Recheck(t) \/ Rename(t)
      BY <3>1 DEF Connect, ReadColumns, Recreate, Recheck, Rename, TypeOK
    <3>2. CASE ReadRows(t) \/ Backfill(t) \/ BackfillRaises(t)
      BY <3>2 DEF ReadRows, Backfill, BackfillRaises, TypeOK
    <3>3. QED
      BY <2>2, <3>1, <3>2 DEF Migrates
  <2>3. ASSUME NEW t \in Threads, Writes(t) \/ Intends(t) \/ Restart(t)
        PROVE  at[u] = "fill" /\ rows'[u] = rows[u]
    <3>1. CASE Writes(t)
      BY <3>1 DEF Writes, Add, AddRaises, Update, Delete, Writing, Closed, database, TypeOK
    <3>2. CASE Intends(t)
      BY <3>2, IntendStep DEF TypeOK
    <3>3. CASE Restart(t)
      BY <3>3 DEF Restart, TypeOK
    <3>4. QED
      BY <2>3, <3>1, <3>2, <3>3
  <2>4. QED
    BY <2>1, <2>2, <2>3, NextSteps
<1>3. CASE at[u] = "fill" /\ rows'[u] = rows[u]
  <2> USE DEF Exists
  <2>0. /\ version = 0 => rows[u][i] = contacts[i].phone
        /\ ~ raced /\ rows[u][i] # "" =>
              i <= issued /\ (Exists(i) => contacts[i].phone = rows[u][i])
    BY <1>3 DEF RowsAreTrue
  <2>1. ASSUME UNCHANGED vars
        PROVE  UNCHANGED <<contacts, issued, version, raced>>
    BY <2>1 DEF vars, database, process
  <2>2. ASSUME NEW t \in Threads,
               \/ Connect(t) \/ ReadColumns(t) \/ ReadRows(t) \/ BackfillRaises(t) \/ Recheck(t)
               \/ AddRaises(t) \/ Intends(t) \/ Restart(t)
        PROVE  UNCHANGED <<contacts, issued, version, raced>>
    BY <2>2, IntendStep DEF Connect, ReadColumns, ReadRows, BackfillRaises, Recheck, AddRaises,
       Restart, database
  <2>3. ASSUME NEW t \in Threads, Backfill(t)
        PROVE  UNCHANGED <<contacts, issued, raced>> /\ version' # 0
    BY <2>3 DEF Backfill
  <2>4. ASSUME NEW t \in Threads, Recreate(t)
        PROVE  /\ UNCHANGED <<contacts, version>> /\ (~ raced' => ~ raced /\ version = 0)
               /\ Exists(i) => i <= issued'
    <3>1. UNCHANGED <<contacts, version>> /\ raced' = (raced \/ version > 0)
      BY <2>4 DEF Recreate
    <3>2. Exists(i) => i <= issued'
      BY <2>4 DEF Recreate
    <3>3. version = 0 \/ version > 0
      BY <1>0
    <3>4. ~ raced' => ~ raced /\ version = 0
      BY <3>1, <3>3
    <3>5. QED
      BY <3>1, <3>2, <3>4
  <2>5. ASSUME NEW t \in Threads, Rename(t) \/ Update(t) \/ Delete(t)
        PROVE  /\ UNCHANGED <<issued, raced>> /\ version' # 0
               /\ contacts'[i] # Absent => Exists(i) /\ contacts'[i].phone = contacts[i].phone
    <3>1. CASE Rename(t)
      <4>1. version' = 2 /\ UNCHANGED <<issued, raced>>
        BY <3>1 DEF Rename
      <4>2. version' # 0
        BY <4>1
      <4>3. contacts'[i] # Absent => Exists(i) /\ contacts'[i].phone = contacts[i].phone
        BY <3>1, RenameEffect
      <4>4. QED
        BY <4>1, <4>2, <4>3
    <3>2. CASE Update(t)
      <4>1. UNCHANGED <<issued, version, raced>> /\ Connected(t)
        BY <3>2 DEF Update, Writing
      <4>2. version > 0
        BY <4>1, ConnectedMigrated
      <4>3. contacts'[i] # Absent => Exists(i) /\ contacts'[i].phone = contacts[i].phone
        BY <3>2, UpdateEffect, RowWritten
      <4>4. QED
        BY <1>0, <4>1, <4>2, <4>3
    <3>3. CASE Delete(t)
      <4>1. UNCHANGED <<issued, version, raced>> /\ Connected(t)
        BY <3>3 DEF Delete, Writing
      <4>2. version > 0
        BY <4>1, ConnectedMigrated
      <4>3. contacts' = [contacts EXCEPT ![task[t].id] = Absent]
        BY <3>3, DeleteEffect
      <4>4. contacts'[i] # Absent => Exists(i) /\ contacts'[i].phone = contacts[i].phone
        BY <4>3 DEF TypeOK
      <4>5. QED
        BY <1>0, <4>1, <4>2, <4>4
    <3>4. QED
      BY <2>5, <3>1, <3>2, <3>3
  <2>6. ASSUME NEW t \in Threads, Add(t)
        PROVE  /\ UNCHANGED raced /\ issued' = issued + 1 /\ version' # 0
               /\ i # issued + 1 => contacts'[i] = contacts[i]
    <3>1. UNCHANGED <<version, raced>> /\ Connected(t)
      BY <2>6 DEF Add, Writing
    <3>2. version > 0
      BY <3>1, ConnectedMigrated
    <3>3. PICK c \in Contacts : /\ issued' = NextId /\ NextId = issued + 1
                                /\ contacts' = [contacts EXCEPT ![NextId] = c]
      BY <2>6, AddEffect
    <3>4. i # NextId => contacts'[i] = contacts[i]
      BY <3>3 DEF TypeOK
    <3>5. QED
      BY <1>0, <3>1, <3>2, <3>3, <3>4
  <2>7. ASSUME UNCHANGED <<contacts, issued, version, raced>>
        PROVE  /\ version' = 0 => rows'[u][i] = contacts'[i].phone
               /\ ~ raced' /\ rows'[u][i] # "" =>
                     /\ i <= issued'
                     /\ contacts'[i] # Absent => contacts'[i].phone = rows'[u][i]
    BY <1>3, <2>0, <2>7
  <2>8. ASSUME NEW t \in Threads, Backfill(t) \/ Rename(t) \/ Update(t) \/ Delete(t)
        PROVE  /\ version' = 0 => rows'[u][i] = contacts'[i].phone
               /\ ~ raced' /\ rows'[u][i] # "" =>
                     /\ i <= issued'
                     /\ contacts'[i] # Absent => contacts'[i].phone = rows'[u][i]
    BY <1>3, <2>0, <2>3, <2>5, <2>8
  <2>9. ASSUME NEW t \in Threads, Recreate(t)
        PROVE  /\ version' = 0 => rows'[u][i] = contacts'[i].phone
               /\ ~ raced' /\ rows'[u][i] # "" =>
                     /\ i <= issued'
                     /\ contacts'[i] # Absent => contacts'[i].phone = rows'[u][i]
    BY <1>3, <2>0, <2>4, <2>9, RowTypes
  <2>10. ASSUME NEW t \in Threads, Add(t)
        PROVE  /\ version' = 0 => rows'[u][i] = contacts'[i].phone
               /\ ~ raced' /\ rows'[u][i] # "" =>
                     /\ i <= issued'
                     /\ contacts'[i] # Absent => contacts'[i].phone = rows'[u][i]
    <3>1. /\ UNCHANGED raced /\ issued' = issued + 1 /\ version' # 0
          /\ i # issued + 1 => contacts'[i] = contacts[i]
      BY <2>6, <2>10
    <3>2. ASSUME ~ raced', rows'[u][i] # ""
          PROVE  i <= issued /\ (Exists(i) => contacts[i].phone = rows'[u][i])
      BY <1>3, <2>0, <3>1, <3>2
    <3>3. i <= issued => i <= issued' /\ i # issued + 1
      BY <1>0, <3>1
    <3>4. QED
      BY <3>1, <3>2, <3>3
  <2>11. CASE UNCHANGED vars
    BY <2>1, <2>7, <2>11
  <2>12. ASSUME NEW t \in Threads,
                \/ Connect(t) \/ ReadColumns(t) \/ ReadRows(t) \/ BackfillRaises(t) \/ Recheck(t)
                \/ AddRaises(t) \/ Intends(t) \/ Restart(t)
         PROVE  /\ version' = 0 => rows'[u][i] = contacts'[i].phone
                /\ ~ raced' /\ rows'[u][i] # "" =>
                      /\ i <= issued'
                      /\ contacts'[i] # Absent => contacts'[i].phone = rows'[u][i]
    BY <2>2, <2>7, <2>12
  <2>13. QED
    BY <2>8, <2>9, <2>10, <2>11, <2>12, NextSteps DEF Migrates, Writes
<1>4. QED
  BY <1>1, <1>2, <1>3

\* An untouched old database gets its addresses from the one contact it has; another
\* time there is nothing left to fill in.
LEMMA BackfillStep ==
    ASSUME TypeOK, RowsAreIssued, OldIsUntouched, RowsAreTrue, AddressesMatch, ~ raced,
           NEW t \in Threads, Backfill(t)
    PROVE  AddressesMatch'
<1>0. UNCHANGED contacts /\ address' = Backfilled(t) /\ at[t] = "fill" /\ Fillable(t)
  BY DEF Backfill
<1>1. \A i \in Ids : i \in Nat /\ i > 0
  BY IdsAreNumbers
<1>2. CASE version = 0
  <2>1. issued \in Nat /\ issued <= 1 /\ address = [ph \in Phones |-> None]
    BY <1>2, IssuedIsNumber DEF OldIsUntouched
  <2>2. \A i \in Ids : Exists(i) => i = 1
    BY <1>1, <2>1 DEF RowsAreIssued
  <2>3. \A i \in Ids : rows[t][i] = contacts[i].phone
    BY <1>0, <1>2 DEF RowsAreTrue
  <2>4. ASSUME NEW ph \in Phones, NEW j \in Owners(t, ph)
        PROVE  j \in Ids /\ Exists(j) /\ contacts[j].phone = ph
    BY <2>3, <2>4, RowTypes, NamesGiven DEF Owners
  <2>5. ASSUME NEW i \in Ids, Exists(i)
        PROVE  Backfilled(t)[contacts[i].phone] = i
    <3>1. contacts[i].phone \in Phones /\ i \in Owners(t, contacts[i].phone)
      BY <2>3, <2>5, RowTypes DEF Owners
    <3>2. Backfilled(t)[contacts[i].phone] \in Owners(t, contacts[i].phone)
      BY <2>1, <3>1, BackfilledOwner
    <3>3. QED
      BY <2>2, <2>4, <2>5, <3>1, <3>2
  <2>6. ASSUME NEW ph \in Phones, Backfilled(t)[ph] # None
        PROVE  contacts[Backfilled(t)[ph]].phone = ph
    BY <2>1, <2>4, <2>6, BackfilledOwner
  <2>7. QED
    BY <1>0, <2>5, <2>6 DEF AddressesMatch, Exists
<1>3. CASE version # 0
  <2>1. version > 0
    <3>1. version \in 0 .. 2
      BY DEF TypeOK
    <3>2. QED
      BY <1>3, <3>1
  <2>2. ASSUME NEW ph \in Phones
        PROVE  Backfilled(t)[ph] = address[ph]
    <3>1. CASE address[ph] # None \/ Owners(t, ph) = {}
      BY <3>1, BackfilledOwner
    <3>2. CASE address[ph] = None /\ Owners(t, ph) # {}
      <4> DEFINE j == Backfilled(t)[ph]
      <4>1. j \in Ids /\ rows[t][j] = ph /\ Exists(j)
        BY <1>0, <3>2, BackfilledOwner DEF Owners, Fillable
      <4>2. contacts[j].phone = ph
        BY <1>0, <4>1, NamesGiven DEF RowsAreTrue
      <4>3. address[ph] = j
        BY <2>1, <4>1, <4>2 DEF AddressesMatch
      <4>4. QED
        BY <4>3
    <3>3. QED
      BY <3>1, <3>2
  <2>3. \A i \in Ids : Exists(i) => contacts[i].phone \in Phones
    BY RowTypes
  <2>4. QED
    BY <1>0, <2>1, <2>2, <2>3 DEF AddressesMatch, Exists
<1>4. QED
  BY <1>2, <1>3

LEMMA AddressesStep ==
    ASSUME TypeOK, TasksAreSound, RowsAreIssued, OldIsUntouched, RowsAreTrue, AddressesMatch,
           [Next]_vars
    PROVE  AddressesMatch'
<1> SUFFICES ASSUME version' > 0, ~ raced'
             PROVE  AddressesMatch'
  BY DEF AddressesMatch
<1>1. CASE UNCHANGED vars
  BY <1>1 DEF vars, database, process, AddressesMatch, Exists
<1>2. ASSUME NEW t \in Threads,
             \/ Connect(t) \/ ReadColumns(t) \/ ReadRows(t) \/ BackfillRaises(t) \/ Recheck(t)
             \/ AddRaises(t) \/ Restart(t) \/ Intends(t)
      PROVE  AddressesMatch'
  <2>1. UNCHANGED <<contacts, address, version, raced>>
    BY <1>2, IntendStep DEF Connect, ReadColumns, ReadRows, BackfillRaises, Recheck, AddRaises,
       Restart, database
  <2>2. QED
    BY <2>1 DEF AddressesMatch, Exists
<1>3. ASSUME NEW t \in Threads, Recreate(t)
      PROVE  AddressesMatch'
  <2>1. version' = version /\ version = 0
    <3>1. version' = version /\ ~ (version > 0) /\ version \in 0 .. 2
      BY <1>3 DEF Recreate, TypeOK
    <3>2. QED
      BY <3>1
  <2>2. QED
    BY <2>1
<1>4. ASSUME NEW t \in Threads, Backfill(t)
      PROVE  AddressesMatch'
  <2>1. ~ raced
    BY <1>4 DEF Backfill
  <2>2. QED
    BY <1>4, <2>1, BackfillStep
<1>5. ASSUME NEW t \in Threads, Rename(t)
      PROVE  AddressesMatch'
  <2>1. UNCHANGED <<address, raced>> /\ at[t] = "rename"
    BY <1>5 DEF Rename
  <2>2. version > 0
    BY <2>1 DEF OldIsUntouched
  <2>3. \A i \in Ids : /\ (contacts'[i] # Absent => Exists(i))
                       /\ contacts'[i].phone = contacts[i].phone
    BY <1>5, RenameEffect DEF Exists
  <2>4. ASSUME NEW ph \in Phones, address[ph] # None
        PROVE  contacts'[address[ph]].phone = ph
    <3>1. address[ph] \in Ids
      BY <2>4 DEF TypeOK
    <3>2. QED
      BY <2>1, <2>2, <2>3, <2>4, <3>1 DEF AddressesMatch
  <2>5. QED
    BY <2>1, <2>2, <2>3, <2>4 DEF AddressesMatch, Exists
<1>6. ASSUME NEW t \in Threads, Writes(t)
      PROVE  version > 0 /\ ~ raced
  <2>1. Connected(t) /\ UNCHANGED raced
    BY <1>6 DEF Writes, Add, AddRaises, Update, Delete, Writing
  <2>2. QED
    BY <2>1, ConnectedMigrated
<1>7. ASSUME NEW t \in Threads, Add(t)
      PROVE  AddressesMatch'
  <2>1. PICK c \in Contacts :
            /\ NextId \in Ids /\ ~ Exists(NextId) /\ address[c.phone] = None
            /\ contacts' = [contacts EXCEPT ![NextId] = c]
            /\ address' = [address EXCEPT ![c.phone] = NextId]
    BY <1>7, AddEffect
  <2>2. c.phone \in Phones /\ version > 0 /\ ~ raced
    BY <1>6, <1>7 DEF Contacts, Writes
  <2>3. NextId # None
    BY <2>1, IdsAreNumbers DEF None
  <2>4. ASSUME NEW i \in Ids, contacts'[i] # Absent
        PROVE  address'[contacts'[i].phone] = i
    <3>1. CASE i = NextId
      BY <2>1, <2>2, <3>1 DEF TypeOK
    <3>2. CASE i # NextId
      <4>1. contacts'[i] = contacts[i] /\ Exists(i)
        BY <2>1, <2>4, <3>2 DEF TypeOK, Exists
      <4>2. address[contacts[i].phone] = i /\ contacts[i].phone \in Phones
        BY <2>2, <4>1, RowTypes DEF AddressesMatch
      <4>3. contacts[i].phone # c.phone
        BY <2>1, <4>2, IdsAreNumbers DEF None
      <4>4. QED
        BY <2>1, <4>1, <4>2, <4>3 DEF TypeOK
    <3>3. QED
      BY <3>1, <3>2
  <2>5. ASSUME NEW ph \in Phones, address'[ph] # None
        PROVE  contacts'[address'[ph]].phone = ph
    <3>1. CASE ph = c.phone
      BY <2>1, <2>2, <3>1 DEF TypeOK
    <3>2. CASE ph # c.phone
      <4>1. address'[ph] = address[ph] /\ address[ph] \in Ids
        BY <2>1, <2>5, <3>2 DEF TypeOK
      <4>2. contacts[address[ph]].phone = ph
        BY <2>2, <2>5, <4>1 DEF AddressesMatch
      <4>3. address[ph] # NextId
        BY <2>1, <4>2, RowTypes, NamesGiven
      <4>4. QED
        BY <2>1, <4>1, <4>2, <4>3 DEF TypeOK
    <3>3. QED
      BY <3>1, <3>2
  <2>6. QED
    BY <2>4, <2>5 DEF AddressesMatch, Exists
<1>8. ASSUME NEW t \in Threads, Update(t)
      PROVE  AddressesMatch'
  <2>1. UNCHANGED address /\ version > 0 /\ ~ raced
    BY <1>6, <1>8 DEF Update, Writes
  <2>2. \A i \in Ids : /\ (contacts'[i] # Absent => Exists(i))
                       /\ contacts'[i].phone = contacts[i].phone
    BY <1>8, UpdateEffect, RowWritten DEF Exists
  <2>3. ASSUME NEW ph \in Phones, address[ph] # None
        PROVE  contacts'[address[ph]].phone = ph
    <3>1. address[ph] \in Ids
      BY <2>3 DEF TypeOK
    <3>2. QED
      BY <2>1, <2>2, <2>3, <3>1 DEF AddressesMatch
  <2>4. QED
    BY <2>1, <2>2, <2>3 DEF AddressesMatch, Exists
<1>9. ASSUME NEW t \in Threads, Delete(t)
      PROVE  AddressesMatch'
  <2> DEFINE d == task[t].id
  <2>1. /\ d \in Ids /\ contacts' = [contacts EXCEPT ![d] = Absent]
        /\ address' = [ph \in Phones |-> IF address[ph] = d THEN None ELSE address[ph]]
    BY <1>9, DeleteEffect
  <2>2. version > 0 /\ ~ raced
    BY <1>6, <1>9 DEF Writes
  <2>3. ASSUME NEW i \in Ids, contacts'[i] # Absent
        PROVE  address'[contacts'[i].phone] = i
    <3>1. i # d /\ contacts'[i] = contacts[i] /\ Exists(i)
      BY <2>1, <2>3 DEF TypeOK, Exists
    <3>2. address[contacts[i].phone] = i /\ contacts[i].phone \in Phones
      BY <2>2, <3>1, RowTypes DEF AddressesMatch
    <3>3. QED
      BY <2>1, <3>1, <3>2
  <2>4. ASSUME NEW ph \in Phones, address'[ph] # None
        PROVE  contacts'[address'[ph]].phone = ph
    <3>1. address'[ph] = address[ph] /\ address[ph] # d /\ address[ph] \in Ids
      BY <2>1, <2>4 DEF TypeOK
    <3>2. QED
      BY <2>1, <2>2, <2>4, <3>1 DEF AddressesMatch, TypeOK
  <2>5. QED
    BY <2>3, <2>4 DEF AddressesMatch, Exists
<1>10. QED
  BY <1>1, <1>2, <1>3, <1>4, <1>5, <1>7, <1>8, <1>9, NextSteps DEF Migrates, Writes

----------------------------------------------------------------------------
\* What always holds.
THEOREM IInvSpec == Spec => []IInv
<1>1. ASSUME IInv, [Next]_vars
      PROVE  IInv'
  BY <1>1, TypeStep, OldStep, RowsStep, PlansStep, AddressesStep, RulesStep DEF IInv
<1>2. QED
  BY InitIInv, <1>1, PTL DEF Spec

\* Type correctness.
THEOREM TypeCorrect == Spec => []TypeOK
<1>1. IInv => TypeOK
  BY DEF IInv
<1>2. QED
  BY <1>1, IInvSpec, PTL

\* Whoever adds, deletes and migrates at a time, a number is that of one contact, and
\* the rules are those the engine knows: _migrate_v0_to_v1, _migrate_v1_to_v2 and
\* RosterStore's writes, but for a table dropped by a late migration and rules by voice.
THEOREM SoundAlways == Spec => []RosterIsSound
<1>1. IInv => RosterIsSound
  BY DEF IInv, RosterIsSound
<1>2. QED
  BY <1>1, IInvSpec, PTL

\* A thread's task ends in its own write, or with the thread.
LEMMA TaskEnds ==
    ASSUME IInv, [Next]_vars, NEW t \in Threads,
           task[t].kind \notin {"none", "add"}, task'[t] = Nothing
    PROVE  Update(t) \/ Delete(t) \/ UNCHANGED contacts
<1> USE DEF database
<1>0. task[t] # Nothing /\ task \in [Threads -> Tasks \cup {Nothing}]
  BY NoFields DEF IInv, TypeOK
<1>1. CASE UNCHANGED vars
  BY <1>1 DEF vars, database, process
<1>2. ASSUME NEW u \in Threads, Update(u) \/ Delete(u) \/ Add(u) \/ AddRaises(u)
      PROVE  u = t /\ ~ Add(u)
  BY <1>0, <1>2 DEF Update, Delete, Add, AddRaises, Writing
<1>3. ASSUME NEW u \in Threads, Migrates(u)
      PROVE  UNCHANGED contacts
  BY <1>0, <1>3 DEF Migrates, Connect, ReadColumns, Recreate, ReadRows, Backfill,
     BackfillRaises, Recheck, Rename
<1>4. ASSUME NEW u \in Threads, Intends(u) \/ Restart(u)
      PROVE  UNCHANGED contacts
  BY <1>4, IntendStep DEF IInv, Restart
<1>5. QED
  BY <1>1, <1>2, <1>3, <1>4, NextSteps DEF Writes, AddRaises

\* What a write changes is the contact it was set out for.
LEMMA NamedStep ==
    ASSUME IInv, [Next]_vars, NEW t \in Threads, NEW i \in Ids,
           task[t].kind \notin {"none", "add"}, task'[t] = Nothing,
           contacts'[i] # contacts[i]
    PROVE  i = task[t].id /\ (contacts[i].who = task[t].who \/ i \in again)
<1>1. TypeOK /\ TasksAreSound /\ task[t].kind \notin {"none", "add"} /\ Means(task[t])
  BY DEF IInv, TasksAreSound, Sound
<1>2. CASE Update(t)
  <2>1. i = task[t].id /\ Exists(i)
    BY <1>1, <1>2, UpdateEffect
  <2>2. QED
    BY <1>1, <2>1 DEF Means
<1>3. CASE Delete(t)
  <2>1. contacts' = [contacts EXCEPT ![task[t].id] = Absent]
    BY <1>1, <1>3, DeleteEffect
  <2>2. i = task[t].id /\ Exists(i)
    BY <1>1, <2>1 DEF TypeOK, Exists
  <2>3. QED
    BY <1>1, <2>2 DEF Means
<1>4. QED
  BY <1>2, <1>3, TaskEnds

\* A note goes with its contact, or by a write that was set out without it.
LEMMA NoteLost ==
    ASSUME IInv, [Next]_vars, NEW i \in Ids, Exists(i), contacts'[i] # Absent,
           NEW note \in contacts[i].notes \ contacts'[i].notes
    PROVE  \E t \in Threads :
              /\ task[t].id = i /\ task'[t] = Nothing /\ note \notin task[t].notes
              /\ task[t].kind \in {"replace", "edit"} \/ note \notin task[t].read
<1> USE DEF database
<1>0. /\ TypeOK /\ TasksAreSound /\ RowsAreIssued
      /\ note \in contacts[i].notes /\ note \notin contacts'[i].notes
      /\ contacts'[i] # contacts[i]
  BY DEF IInv
<1>1. CASE UNCHANGED vars
  BY <1>0, <1>1 DEF vars, database, process
<1>2. ASSUME NEW t \in Threads, Migrates(t)
      PROVE  FALSE
  <2>1. Rename(t)
    BY <1>0, <1>2 DEF Migrates, Connect, ReadColumns, Recreate, ReadRows, Backfill,
       BackfillRaises, Recheck, database
  <2>2. contacts'[i] = contacts[i] \/ contacts'[i].notes = contacts[i].notes
    BY <1>0, <2>1, RenameEffect
  <2>3. QED
    BY <1>0, <2>2
<1>3. ASSUME NEW t \in Threads, Intends(t) \/ Restart(t) \/ AddRaises(t)
      PROVE  FALSE
  BY <1>0, <1>3, IntendStep DEF Restart, AddRaises
<1>4. ASSUME NEW t \in Threads, Add(t)
      PROVE  FALSE
  <2>1. ~ Exists(NextId) /\ \E c \in Contacts : contacts' = [contacts EXCEPT ![NextId] = c]
    BY <1>0, <1>4, AddEffect
  <2>2. contacts'[i] = contacts[i]
    BY <2>1
  <2>3. QED
    BY <1>0, <2>2
<1>5. ASSUME NEW t \in Threads, Delete(t)
      PROVE  FALSE
  <2>1. contacts' = [contacts EXCEPT ![task[t].id] = Absent]
    BY <1>0, <1>5, DeleteEffect
  <2>2. contacts'[i] = Absent \/ contacts'[i] = contacts[i]
    BY <1>0, <2>1 DEF TypeOK
  <2>3. QED
    BY <1>0, <2>2
<1>6. ASSUME NEW t \in Threads, Update(t)
      PROVE  /\ task[t].id = i /\ task'[t] = Nothing /\ note \notin task[t].notes
             /\ task[t].kind \in {"replace", "edit"} \/ note \notin task[t].read
  <2> DEFINE w == task[t]
  <2>1. /\ w \in Tasks /\ Sound(w) /\ w.id = i /\ contacts[i] \in Contacts
        /\ contacts'[i] = Write(contacts[i], w)
        /\ w.kind \in {"rule", "append", "replace", "edit"}
    BY <1>0, <1>6, UpdateEffect
  <2>2. task'[t] = Nothing
    BY <1>0, <1>6, UpdateEffect DEF TypeOK
  <2>3. w.kind \in {"append", "replace", "edit"} /\ contacts'[i].notes = w.notes
    BY <1>0, <2>1, RowWritten
  <2>4. w.kind = "append" => w.read \subseteq w.notes
    BY <2>1 DEF Sound
  <2>5. QED
    BY <1>0, <2>1, <2>2, <2>3, <2>4
<1>7. QED
  BY <1>1, <1>2, <1>3, <1>4, <1>5, <1>6, NextSteps DEF Writes

\* Confirmations and saved editors write to the contact that was named or shown, however
\* long ago, unless its id is issued again after a table dropped by a late migration, and
\* a note is lost only to a write that was set
\* out without it: AddNoteSkill.run appends to the notes that it read.
THEOREM WritesOfTheNamed == Spec => WritesAreOfTheNamed
<1>1. ASSUME IInv, [Next]_vars
      PROVE  [\A t \in Threads, i \in Ids :
                 (task[t].kind \notin {"none", "add"} /\ task'[t] = Nothing
                      /\ contacts'[i] # contacts[i])
                     => i = task[t].id /\ (contacts[i].who = task[t].who \/ i \in again)]_vars
  BY <1>1, NamedStep
<1>2. ASSUME IInv, [Next]_vars
      PROVE  [\A i \in Ids : Exists(i) /\ contacts'[i] # Absent =>
                 \A note \in contacts[i].notes \ contacts'[i].notes :
                     \E t \in Threads :
                        /\ task[t].id = i /\ task'[t] = Nothing /\ note \notin task[t].notes
                        /\ task[t].kind \in {"replace", "edit"} \/ note \notin task[t].read]_vars
  BY <1>2, NoteLost
<1>3. QED
  BY <1>1, <1>2, IInvSpec, PTL
     DEF Spec, WritesAreOfTheNamed, WritesTouchOnlyTheNamed, NotesAreLostToTheStale

----------------------------------------------------------------------------
(* Proactive: the queue of notifications.                                   *)

Telling(i) == IF i \in workers THEN spoken[i] + 1 ELSE spoken[i]

\* What was told, or is about to be, was taken from the queue, unless that failed.
IsToldOnce(i) ==
    /\ Telling(i) <= 1 + faults
    /\ i \in DOMAIN items /\ items[i].is = "pending" => Telling(i) <= faults
    /\ i \notin DOMAIN items => Telling(i) = 0

Nudges(m) == {i \in DOMAIN items : items[i].of = m}

\* A meeting that was nudged about is remembered, or the watcher is about to remember it,
\* until it is over, unless the watcher started again.
IsNudgedOnce(m) ==
    /\ IsFiniteSet(Nudges(m))
    /\ Cardinality(Nudges(m)) <= 1 + faults
    /\ m \notin cache /\ polling # m /\ meeting[m] # "past" => Cardinality(Nudges(m)) <= faults

\* What is shown, or was, is no longer pending.
ShownIsDelivered ==
    /\ shownId # N!None => /\ shownId \in DOMAIN items /\ items[shownId].is # "pending"
                           /\ ~ items[shownId].dismissed
    /\ \A i \in cycled :
          i \in DOMAIN items /\ items[i].is # "pending" /\ i # shownId /\ ~ items[i].dismissed

\* The inductive invariant.
ProactiveInv ==
    /\ N!TypeOK
    /\ \A i \in N!Ids : IsToldOnce(i)
    /\ \A m \in Meetings : IsNudgedOnce(m)
    /\ ShownIsDelivered

----------------------------------------------------------------------------
(* The queue.                                                               *)

\* A set of numbers has a least one.
LEMMA LeastOf ==
    ASSUME NEW S \in SUBSET Nat, S # {}
    PROVE  \E i \in S : \A j \in S : i <= j
<1>1. IsWellFoundedOn(OpToRel(<, Nat), Nat)
  BY NatLessThanWellFounded
<1>2. PICK i \in S : \A j \in S : ~ (<<j, i>> \in OpToRel(<, Nat))
  BY <1>1, WFMin
<1>3. i \in Nat /\ \A j \in S : j \in Nat /\ ~ (j < i)
  BY <1>2 DEF OpToRel
<1>4. QED
  BY <1>3

LEMMA FunctionsAreSeqs ==
    ASSUME NEW S, NEW n \in Nat, NEW f \in [1 .. n -> S]
    PROVE  f \in Seq(S) /\ Len(f) = n
<1>1. f \in Seq(S)
  BY SeqDef
<1>2. Len(f) \in Nat /\ DOMAIN f = 1 .. Len(f) /\ DOMAIN f = 1 .. n
  BY <1>1, LenProperties
<1>3. QED
  BY <1>1, <1>2

LEMMA QueueIsSeq ==
    ASSUME N!TypeOK
    PROVE  /\ Len(items) \in Nat /\ DOMAIN items = 1 .. Len(items)
           /\ items \in [1 .. Len(items) -> N!Item]
           /\ DOMAIN items \subseteq N!Ids
<1>1. items \in Seq(N!Item) /\ Len(items) <= MaxItems
  BY DEF N!TypeOK
<1>2. Len(items) \in Nat /\ DOMAIN items = 1 .. Len(items) /\ items \in [1 .. Len(items) -> N!Item]
  BY <1>1, LenProperties
<1>3. 1 .. Len(items) \subseteq N!Ids
  BY <1>1, <1>2, BoundsAssumption DEF N!Ids
<1>4. QED
  BY <1>2, <1>3

\* What a queue may become while nothing is put into it.
Follows(q) ==
    /\ q \in Seq(N!Item) /\ Len(q) = Len(items) /\ DOMAIN q = DOMAIN items
    /\ \A i \in DOMAIN items :
          /\ q[i].of = items[i].of
          /\ q[i].is = "pending" => items[i].is = "pending"
          /\ q[i].dismissed => items[i].dismissed \/ (i = shownId /\ shownLong)

LEMMA FollowsIf ==
    ASSUME N!TypeOK, NEW q \in [1 .. Len(items) -> N!Item],
           \A i \in 1 .. Len(items) :
                /\ q[i].of = items[i].of
                /\ q[i].is = "pending" => items[i].is = "pending"
                /\ q[i].dismissed => items[i].dismissed \/ (i = shownId /\ shownLong)
    PROVE  Follows(q)
<1>1. Len(items) \in Nat /\ DOMAIN items = 1 .. Len(items)
  BY QueueIsSeq
<1>2. q \in Seq(N!Item) /\ Len(q) = Len(items) /\ DOMAIN q = 1 .. Len(items)
  BY <1>1, FunctionsAreSeqs
<1>3. QED
  BY <1>1, <1>2 DEF Follows

\* What a tick makes of the queue before it looks at it.
LEMMA CleanedFollows ==
    ASSUME N!TypeOK, ShownIsDelivered, NEW q \in {N!AutoDismissed, N!Pruned(N!AutoDismissed)}
    PROVE  Follows(q)
<1> DEFINE a == N!AutoDismissed
           p == N!Pruned(a)
<1>0. /\ Len(items) \in Nat /\ DOMAIN items = 1 .. Len(items)
      /\ items \in [1 .. Len(items) -> N!Item]
  BY QueueIsSeq
<1>1. /\ a \in [1 .. Len(items) -> N!Item]
      /\ \A i \in 1 .. Len(items) :
            /\ a[i].of = items[i].of /\ a[i].is = items[i].is
            /\ a[i].dismissed => items[i].dismissed \/ (i = shownId /\ shownLong)
  <2>1. CASE shownId # N!None /\ shownLong
    <3>1. shownId \in 1 .. Len(items) /\ a = [items EXCEPT ![shownId].dismissed = TRUE]
      BY <1>0, <2>1 DEF ShownIsDelivered, N!AutoDismissed
    <3>2. [items[shownId] EXCEPT !.dismissed = TRUE] \in N!Item
      BY <1>0, <3>1 DEF N!Item
    <3>3. /\ a[shownId] = [items[shownId] EXCEPT !.dismissed = TRUE]
          /\ \A i \in 1 .. Len(items) : i # shownId => a[i] = items[i]
      BY <1>0, <3>1
    <3>4. a[shownId].of = items[shownId].of /\ a[shownId].is = items[shownId].is
      BY <1>0, <3>1, <3>3 DEF N!Item
    <3>5. a \in [1 .. Len(items) -> N!Item]
      BY <1>0, <3>1, <3>2
    <3> HIDE DEF a
    <3>6. QED
      BY <2>1, <3>3, <3>4, <3>5
  <2>2. CASE ~ (shownId # N!None /\ shownLong)
    BY <1>0, <2>2 DEF N!AutoDismissed
  <2>3. QED
    BY <2>1, <2>2
<1> HIDE DEF a
<1>2. \A i \in 1 .. Len(items) :
          /\ p[i] \in N!Item /\ p[i].of = a[i].of /\ p[i].dismissed = a[i].dismissed
          /\ p[i].is = "pending" => a[i].is = "pending"
  <2> SUFFICES ASSUME NEW i \in 1 .. Len(items)
               PROVE  /\ p[i] \in N!Item /\ p[i].of = a[i].of /\ p[i].dismissed = a[i].dismissed
                      /\ p[i].is = "pending" => a[i].is = "pending"
    OBVIOUS
  <2>1. a[i] \in N!Item
    BY <1>1
  <2>2. p[i] = a[i] \/ p[i] = [a[i] EXCEPT !.is = "pruned"]
    BY <1>1 DEF N!Pruned
  <2> HIDE DEF p
  <2>3. QED
    BY <2>1, <2>2 DEF N!Item
<1>3. p \in [1 .. Len(items) -> N!Item]
  <2>1. DOMAIN p = 1 .. Len(items) /\ p = [i \in 1 .. Len(items) |-> p[i]]
    BY <1>1 DEF N!Pruned
  <2> HIDE DEF p
  <2>2. QED
    BY <1>2, <2>1
<1> HIDE DEF p
<1>4. Follows(a)
  BY <1>1, FollowsIf
<1>5. Follows(p)
  BY <1>1, <1>2, <1>3, FollowsIf
<1>6. q = a \/ q = p
  BY DEF a, p
<1>7. QED
  BY <1>4, <1>5, <1>6

\* What the tick is to tell is pending.
LEMMA NextIsPending ==
    ASSUME NEW q \in Seq(N!Item), N!NextPending(q) # N!None
    PROVE  /\ N!NextPending(q) \in DOMAIN q /\ q[N!NextPending(q)].is = "pending"
           /\ ~ q[N!NextPending(q)].dismissed
<1> DEFINE wanted == N!Wanted(q)
           urgent == {i \in wanted : N!Priority(i) = 1}
<1>1. wanted # {} /\ wanted \subseteq Nat /\ urgent \subseteq Nat
  BY LenProperties DEF N!NextPending, N!Wanted, N!Pending
<1>2. \A i \in wanted : N!Priority(i) \in {1, 2}
  BY DEF N!Priority
<1>3. \E i \in wanted : \A j \in wanted :
          N!Priority(i) < N!Priority(j) \/ (N!Priority(i) = N!Priority(j) /\ i <= j)
  <2>1. CASE urgent = {}
    <3>1. \A i \in wanted : N!Priority(i) = 2
      BY <1>2, <2>1
    <3>2. PICK i \in wanted : \A j \in wanted : i <= j
      BY <1>1, LeastOf
    <3>3. QED
      BY <3>1, <3>2
  <2>2. CASE urgent # {}
    <3>1. PICK i \in urgent : \A j \in urgent : i <= j
      BY <1>1, <2>2, LeastOf
    <3>2. QED
      BY <1>2, <3>1
  <2>3. QED
    BY <2>1, <2>2
<1>4. N!NextPending(q) \in wanted
  BY <1>1, <1>3 DEF N!NextPending
<1>5. QED
  BY <1>4 DEF N!Wanted, N!Pending

\* So it was pending, and is not what is shown.
LEMMA LooksAtPending ==
    ASSUME N!TypeOK, ShownIsDelivered, NEW q \in {N!AutoDismissed, N!Pruned(N!AutoDismissed)},
           NEW i \in DOMAIN items, N!Looks(i, q)
    PROVE  /\ Follows(q)
           /\ i \in DOMAIN q /\ q[i].is = "pending" /\ items[i].is = "pending"
           /\ ~ q[i].dismissed
           /\ i # shownId /\ i \notin cycled
<1>1. Follows(q)
  BY CleanedFollows
<1>2. i # N!None
  BY QueueIsSeq DEF N!None
<1>3. i \in DOMAIN q /\ q[i].is = "pending" /\ ~ q[i].dismissed
  BY <1>1, <1>2, NextIsPending DEF N!Looks, Follows
<1>4. items[i].is = "pending"
  BY <1>1, <1>3 DEF Follows
<1>5. QED
  BY <1>1, <1>2, <1>3, <1>4 DEF ShownIsDelivered

----------------------------------------------------------------------------
(* The first state.                                                         *)

LEMMA InitProactiveInv == N!Init => ProactiveInv
<1> SUFFICES ASSUME N!Init
             PROVE  ProactiveInv
  OBVIOUS
<1>0. items = <<>> /\ DOMAIN items = {} /\ items \in Seq(N!Item) /\ Len(items) = 0
  BY DEF N!Init
<1>b. MaxItems \in Nat /\ MaxFaults \in Nat
  BY BoundsAssumption
<1>1. N!TypeOK
  <2>1. 0 \in 0 .. MaxItems /\ MaxItems + 1 \in 0 .. MaxItems + 1 /\ 0 \in 0 .. MaxFaults
    BY <1>b
  <2>2. /\ {cooling, shownLong} \subseteq BOOLEAN
        /\ {shownId, badge, current} \subseteq 0 .. MaxItems /\ fresh \in 0 .. N!NoEvent
        /\ faults \in 0 .. MaxFaults
    BY <2>1 DEF N!Init, N!None, N!NoEvent
  <2>3. /\ meeting \in [Meetings -> {"later", "near", "past"}]
        /\ cache \subseteq Meetings /\ polling \in Meetings \cup {N!Idle}
        /\ workers \subseteq N!Ids
        /\ spoken \in [N!Ids -> Nat] /\ cycled \subseteq N!Ids
    BY DEF N!Init
  <2>4. QED
    BY <1>0, <1>b, <2>2, <2>3 DEF N!TypeOK
<1>2. \A i \in N!Ids : IsToldOnce(i)
  BY <1>0, BoundsAssumption DEF N!Init, IsToldOnce, Telling
<1>3. \A m \in Meetings : IsNudgedOnce(m)
  <2>1. \A m \in Meetings : Nudges(m) = {}
    BY <1>0 DEF Nudges
  <2>2. IsFiniteSet({}) /\ Cardinality({}) = 0
    BY FS_EmptySet
  <2>3. faults = 0 /\ 0 <= 1 + 0 /\ 0 <= 0
    BY DEF N!Init
  <2>4. QED
    BY <2>1, <2>2, <2>3 DEF IsNudgedOnce
<1>4. ShownIsDelivered
  BY DEF N!Init, ShownIsDelivered
<1>5. QED
  BY <1>1, <1>2, <1>3, <1>4 DEF ProactiveInv

----------------------------------------------------------------------------
(* What a step does to the queue.                                           *)

\* What is put into the queue comes last, and leaves the rest alone.
LEMMA EnqueueAppends ==
    ASSUME N!TypeOK, NEW class \in {"ancs", "calendar_nudge"}, NEW m \in Meetings \cup {N!None},
           N!Enqueue(class, m)
    PROVE  /\ items' \in Seq(N!Item) /\ Len(items') <= MaxItems
           /\ DOMAIN items' = DOMAIN items \cup {Len(items) + 1}
           /\ Len(items) + 1 \notin DOMAIN items
           /\ items'[Len(items) + 1].of = m
           /\ \A i \in DOMAIN items : items'[i] = items[i]
<1> DEFINE e == [class |-> class, of |-> m, is |-> "pending",
                 dismissed |-> FALSE, expired |-> FALSE]
<1>1. e \in N!Item
  BY DEF N!Item
<1>2. items' = Append(items, e) /\ Len(items) < MaxItems
  BY DEF N!Enqueue
<1>3. e.of = m
  OBVIOUS
<1> HIDE DEF e
<1>4. /\ items \in Seq(N!Item) /\ Len(items) \in Nat /\ DOMAIN items = 1 .. Len(items)
      /\ MaxItems \in Nat
  BY QueueIsSeq, BoundsAssumption DEF N!TypeOK
<1>5. /\ items' \in Seq(N!Item) /\ Len(items') = Len(items) + 1
      /\ items'[Len(items) + 1] = e
      /\ \A i \in 1 .. Len(items) : items'[i] = items[i]
  BY <1>1, <1>2, <1>4, AppendProperties
<1>6. DOMAIN items' = 1 .. Len(items) + 1
  BY <1>5, LenProperties
<1>7. QED
  BY <1>2, <1>3, <1>4, <1>5, <1>6

\* An item that was marked is still an item of the queue.
LEMMA MarkedFollows ==
    ASSUME N!TypeOK, NEW q, Follows(q), NEW i \in DOMAIN items
    PROVE  /\ Follows([q EXCEPT ![i].is = "delivered"])
           /\ Follows([q EXCEPT ![i].expired = TRUE])
           /\ [q EXCEPT ![i].is = "delivered"][i].is = "delivered"
           /\ [q EXCEPT ![i].is = "delivered"][i].dismissed = q[i].dismissed
<1>1. /\ Len(items) \in Nat /\ DOMAIN items = 1 .. Len(items)
      /\ q \in [1 .. Len(items) -> N!Item]
  BY QueueIsSeq, LenProperties DEF Follows
<1> DEFINE d == [q[i] EXCEPT !.is = "delivered"]
           e == [q[i] EXCEPT !.expired = TRUE]
           p == [q EXCEPT ![i] = d]
           r == [q EXCEPT ![i] = e]
<1>2. p = [q EXCEPT ![i].is = "delivered"] /\ r = [q EXCEPT ![i].expired = TRUE]
  BY <1>1
<1>3. q[i] \in N!Item
  BY <1>1
<1>4. d \in N!Item /\ d.is = "delivered" /\ d.of = q[i].of /\ d.dismissed = q[i].dismissed
  BY <1>3 DEF N!Item
<1>5. e \in N!Item /\ e.is = q[i].is /\ e.of = q[i].of /\ e.dismissed = q[i].dismissed
  BY <1>3 DEF N!Item
<1> HIDE DEF d, e
<1>6. /\ p \in [1 .. Len(items) -> N!Item] /\ p[i] = d
      /\ \A j \in 1 .. Len(items) : j # i => p[j] = q[j]
  BY <1>1, <1>4
<1>7. /\ r \in [1 .. Len(items) -> N!Item] /\ r[i] = e
      /\ \A j \in 1 .. Len(items) : j # i => r[j] = q[j]
  BY <1>1, <1>5
<1> HIDE DEF p, r
<1>8. \A j \in 1 .. Len(items) :
          /\ q[j].of = items[j].of
          /\ q[j].is = "pending" => items[j].is = "pending"
          /\ q[j].dismissed => items[j].dismissed \/ (j = shownId /\ shownLong)
  BY <1>1 DEF Follows
<1>9. Follows(p)
  BY <1>1, <1>4, <1>6, <1>8, FollowsIf
<1>10. Follows(r)
  BY <1>1, <1>5, <1>7, <1>8, FollowsIf
<1>11. QED
  BY <1>2, <1>4, <1>6, <1>9, <1>10

LEMMA SameFollows ==
    ASSUME N!TypeOK
    PROVE  Follows(items)
BY DEF N!TypeOK, Follows

\* A step puts something into the queue or works on what is there.
LEMMA QueueStep ==
    ASSUME N!TypeOK, ShownIsDelivered, [N!Next]_N!vars
    PROVE  \/ N!OnNotification
           \/ \E m \in Meetings : N!PollEnqueues(m)
           \/ Follows(items')
<1>1. ASSUME NEW i \in DOMAIN items, N!TickTells(i)
      PROVE  Follows(items')
  <2>1. PICK q \in {N!AutoDismissed, N!Pruned(N!AutoDismissed)} :
            items' = [q EXCEPT ![i].is = "delivered"]
    BY <1>1 DEF N!TickTells
  <2>2. Follows(q)
    BY CleanedFollows
  <2>3. QED
    BY <2>1, <2>2, MarkedFollows
<1>2. ASSUME NEW i \in DOMAIN items, N!TickBadges(i) \/ N!MarkFails(i)
      PROVE  Follows(items')
  BY <1>2, CleanedFollows DEF N!TickBadges, N!MarkFails
<1>3. CASE N!TickWaits
  BY <1>3, CleanedFollows DEF N!TickWaits
<1>4. ASSUME NEW i \in DOMAIN items, N!Expires(i)
      PROVE  Follows(items')
  BY <1>4, SameFollows, MarkedFollows DEF N!Expires
<1>5. CASE UNCHANGED items
  BY <1>5, SameFollows
<1>6. ASSUME NEW i \in DOMAIN items, N!SpeechBegins(i)
      PROVE  UNCHANGED items
  BY <1>6 DEF N!SpeechBegins
<1>7. ASSUME NEW m \in Meetings, N!MeetingNears(m)
      PROVE  UNCHANGED items
  BY <1>7 DEF N!MeetingNears
<1>8. CASE N!PollCaches \/ N!WatcherRestarts
  BY <1>5, <1>8 DEF N!PollCaches, N!WatcherRestarts
<1>9. CASE N!DrainBadge \/ N!KeyNotification \/ N!CoolsDown \/ N!TenSeconds
  BY <1>5, <1>9 DEF N!DrainBadge, N!KeyNotification, N!CoolsDown, N!TenSeconds
<1>10. CASE UNCHANGED N!vars
  BY <1>5, <1>10 DEF N!vars
<1>11. QED
  BY <1>1, <1>2, <1>3, <1>4, <1>5, <1>6, <1>7, <1>8, <1>9, <1>10 DEF N!Next, N!Tick

----------------------------------------------------------------------------
(* What is told.                                                            *)

\* The item that [n] goes to is in the queue, if there is one.
LEMMA CycleIsInQueue ==
    ASSUME N!TypeOK, NEW after
    PROVE  N!CycleNext(after) \in 0 .. MaxItems
<1>1. N!Pending(items) \subseteq N!Ids /\ N!Beyond(after) \subseteq N!Ids
  BY QueueIsSeq DEF N!Pending, N!Beyond
<1>2. ASSUME NEW S \in SUBSET N!Ids
      PROVE  N!Least(S) \in 0 .. MaxItems
  <2>1. S # {} => \E i \in S : \A j \in S : i <= j
    BY LeastOf DEF N!Ids
  <2>2. N!Least(S) = N!None \/ N!Least(S) \in S
    BY <2>1 DEF N!Least
  <2>3. MaxItems \in Nat /\ N!None = 0 /\ S \subseteq 1 .. MaxItems
    BY BoundsAssumption DEF N!Ids, N!None
  <2>4. CASE N!Least(S) = N!None
    BY <2>3, <2>4
  <2>5. CASE N!Least(S) \in S
    <3>1. \A n \in 1 .. MaxItems : n \in 0 .. MaxItems
      BY <2>3
    <3>2. QED
      BY <2>3, <2>5, <3>1
  <2>6. QED
    BY <2>2, <2>4, <2>5
<1>3. QED
  BY <1>1, <1>2 DEF N!CycleNext

LEMMA TypesStep ==
    ASSUME N!TypeOK, ShownIsDelivered, [N!Next]_N!vars
    PROVE  N!TypeOK'
<1>0. DOMAIN items \subseteq 1 .. MaxItems /\ MaxItems \in Nat /\ MaxFaults \in Nat
  BY QueueIsSeq, BoundsAssumption DEF N!Ids
<1>1. items' \in Seq(N!Item) /\ Len(items') <= MaxItems
  <2>1. CASE N!OnNotification
    BY <2>1, EnqueueAppends DEF N!OnNotification
  <2>2. ASSUME NEW m \in Meetings, N!PollEnqueues(m)
        PROVE  items' \in Seq(N!Item) /\ Len(items') <= MaxItems
    BY <2>2, EnqueueAppends DEF N!PollEnqueues
  <2>3. CASE Follows(items')
    BY <2>3 DEF Follows, N!TypeOK
  <2>4. QED
    BY <2>1, <2>2, <2>3, QueueStep
<1> DEFINE Delivery ==
             /\ {cooling, shownLong} \subseteq BOOLEAN
             /\ {shownId, badge, current} \subseteq 0 .. MaxItems /\ fresh \in 0 .. N!NoEvent
             /\ workers \subseteq N!Ids
           Watcher ==
             /\ meeting \in [Meetings -> {"later", "near", "past"}]
             /\ cache \subseteq Meetings /\ polling \in Meetings \cup {N!Idle}
           History ==
             /\ faults \in 0 .. MaxFaults
             /\ spoken \in [N!Ids -> Nat] /\ cycled \subseteq N!Ids
<1>2. Delivery /\ Watcher /\ History
  BY DEF N!TypeOK
<1>3. Delivery'
  <2>1. N!None \in 0 .. MaxItems /\ N!NoEvent \in 0 .. N!NoEvent /\ 0 .. MaxItems \subseteq 0 .. N!NoEvent
    BY <1>0 DEF N!None, N!NoEvent
  <2>2. CASE UNCHANGED <<N!delivery, N!screen>>
    BY <1>2, <2>2 DEF N!delivery, N!screen
  <2>3. N!StillShown \in 0 .. MaxItems /\ N!Cleared \in 0 .. N!NoEvent
    BY <1>2, <2>1 DEF N!StillShown, N!Cleared
  <2>4. CASE N!TickWaits
    BY <1>2, <2>3, <2>4 DEF N!TickWaits, N!screen
  <2>5. ASSUME NEW i \in DOMAIN items, N!TickTells(i) \/ N!TickBadges(i) \/ N!MarkFails(i)
        PROVE  Delivery'
    <3>1. i \in N!Ids /\ i \in 0 .. MaxItems /\ i \in 0 .. N!NoEvent
      BY <1>0, <2>1 DEF N!Ids
    <3>2. CASE N!TickTells(i)
      BY <1>2, <2>1, <3>1, <3>2 DEF N!TickTells, N!screen
    <3>3. CASE N!TickBadges(i)
      BY <1>2, <2>3, <3>1, <3>3 DEF N!TickBadges, N!screen
    <3>4. CASE N!MarkFails(i)
      BY <1>2, <2>1, <3>1, <3>4 DEF N!MarkFails
    <3>5. QED
      BY <2>5, <3>2, <3>3, <3>4
  <2>6. ASSUME NEW i \in DOMAIN items, N!SpeechBegins(i)
        PROVE  Delivery'
    BY <1>2, <2>6 DEF N!SpeechBegins, N!screen
  <2>7. CASE N!DrainBadge
    <3>1. fresh \in 0 .. MaxItems
      BY <1>0, <1>2, <2>7 DEF N!DrainBadge, N!NoEvent
    <3>2. QED
      BY <1>2, <2>1, <2>7, <3>1 DEF N!DrainBadge
  <2>8. CASE N!KeyNotification
    BY <1>2, <2>1, <2>8, CycleIsInQueue DEF N!KeyNotification, N!ResetShown
  <2>9. CASE N!CoolsDown \/ N!TenSeconds
    BY <1>2, <2>9 DEF N!CoolsDown, N!TenSeconds, N!screen
  <2>10. CASE N!OnNotification \/ N!PollCaches \/ N!WatcherRestarts \/ UNCHANGED N!vars
    BY <2>2, <2>10 DEF N!OnNotification, N!PollCaches, N!WatcherRestarts, N!vars
  <2>11. ASSUME NEW m \in Meetings, N!PollEnqueues(m) \/ N!MeetingNears(m)
         PROVE  Delivery'
    BY <2>2, <2>11 DEF N!PollEnqueues, N!MeetingNears
  <2>12. ASSUME NEW i \in DOMAIN items, N!Expires(i)
         PROVE  Delivery'
    BY <2>2, <2>12 DEF N!Expires
  <2> HIDE DEF Delivery
  <2>13. QED
    BY <2>4, <2>5, <2>6, <2>7, <2>8, <2>9, <2>10, <2>11, <2>12 DEF N!Next, N!Tick
<1>4. Watcher'
  <2>1. CASE UNCHANGED <<meeting, N!watcher>>
    BY <1>2, <2>1 DEF N!watcher
  <2>2. ASSUME NEW m \in Meetings, N!PollEnqueues(m)
        PROVE  Watcher'
    BY <1>2, <2>2 DEF N!PollEnqueues, N!Remembered
  <2>3. ASSUME NEW m \in Meetings, N!MeetingNears(m)
        PROVE  Watcher'
    BY <1>2, <2>3 DEF N!MeetingNears, N!watcher
  <2>4. CASE N!PollCaches
    BY <1>2, <2>4 DEF N!PollCaches
  <2>5. CASE N!WatcherRestarts
    BY <1>2, <2>5 DEF N!WatcherRestarts
  <2>6. CASE N!OnNotification \/ N!TickWaits \/ N!DrainBadge \/ N!KeyNotification \/ UNCHANGED N!vars
    BY <2>1, <2>6 DEF N!OnNotification, N!TickWaits, N!DrainBadge, N!KeyNotification, N!vars
  <2>7. CASE N!CoolsDown \/ N!TenSeconds
    BY <2>1, <2>7 DEF N!CoolsDown, N!TenSeconds
  <2>8. ASSUME NEW i \in DOMAIN items,
               N!TickTells(i) \/ N!TickBadges(i) \/ N!MarkFails(i) \/ N!SpeechBegins(i) \/ N!Expires(i)
        PROVE  Watcher'
    BY <2>1, <2>8 DEF N!TickTells, N!TickBadges, N!MarkFails, N!SpeechBegins, N!Expires
  <2> HIDE DEF Watcher
  <2>9. QED
    BY <2>2, <2>3, <2>4, <2>5, <2>6, <2>7, <2>8 DEF N!Next, N!Tick
<1>5. History'
  <2>1. CASE UNCHANGED <<faults, N!history>>
    BY <1>2, <2>1 DEF N!history
  <2>2. CASE N!Fault /\ UNCHANGED N!history
    BY <1>0, <1>2, <2>2 DEF N!Fault, N!history
  <2>3. CASE N!OnNotification \/ N!TickWaits \/ N!DrainBadge \/ N!PollCaches \/ UNCHANGED N!vars
    BY <2>1, <2>3 DEF N!OnNotification, N!TickWaits, N!DrainBadge, N!PollCaches, N!vars
  <2>4. CASE N!CoolsDown \/ N!TenSeconds
    BY <2>1, <2>4 DEF N!CoolsDown, N!TenSeconds
  <2>5. CASE N!WatcherRestarts
    BY <2>2, <2>5 DEF N!WatcherRestarts
  <2>6. ASSUME NEW i \in DOMAIN items, N!TickTells(i) \/ N!TickBadges(i) \/ N!Expires(i)
        PROVE  History'
    BY <2>1, <2>6 DEF N!TickTells, N!TickBadges, N!Expires
  <2>7. ASSUME NEW i \in DOMAIN items, N!MarkFails(i)
        PROVE  History'
    BY <2>2, <2>7 DEF N!MarkFails
  <2>8. ASSUME NEW i \in DOMAIN items, N!SpeechBegins(i)
        PROVE  History'
    <3>1. i \in N!Ids
      BY <1>0 DEF N!Ids
    <3>2. UNCHANGED <<faults, cycled>> /\ spoken' = [spoken EXCEPT ![i] = @ + 1]
      BY <2>8 DEF N!SpeechBegins
    <3>3. QED
      BY <1>2, <3>1, <3>2
  <2>9. CASE N!KeyNotification
    <3>1. shownId # N!None => shownId \in N!Ids
      BY <1>0 DEF ShownIsDelivered, N!Ids
    <3>2. UNCHANGED <<faults, spoken>>
          /\ (cycled' = cycled \/ (shownId # N!None /\ cycled' = cycled \cup {shownId}))
      BY <2>9 DEF N!KeyNotification
    <3>3. QED
      BY <1>2, <3>1, <3>2
  <2>10. ASSUME NEW m \in Meetings, N!PollEnqueues(m) \/ N!MeetingNears(m)
         PROVE  History'
    BY <2>1, <2>10 DEF N!PollEnqueues, N!MeetingNears
  <2> HIDE DEF History
  <2>11. QED
    BY <2>3, <2>4, <2>5, <2>6, <2>7, <2>8, <2>9, <2>10 DEF N!Next, N!Tick
<1>6. QED
  BY <1>1, <1>3, <1>4, <1>5 DEF N!TypeOK

\* What is added to the history of telling, a step at a time.
LEMMA ToldStep ==
    ASSUME N!TypeOK, ShownIsDelivered, \A i \in N!Ids : IsToldOnce(i), [N!Next]_N!vars
    PROVE  (\A i \in N!Ids : IsToldOnce(i))'
<1>0. /\ spoken \in [N!Ids -> Nat] /\ faults \in Nat
      /\ DOMAIN items \subseteq N!Ids
  BY QueueIsSeq, BoundsAssumption DEF N!TypeOK
<1>1. ASSUME Follows(items'), UNCHANGED <<spoken, workers>>,
             faults' = faults \/ faults' = faults + 1, NEW i \in N!Ids
      PROVE  IsToldOnce(i)'
  <2>1. Telling(i)' = Telling(i) /\ Telling(i) \in Nat
    BY <1>0, <1>1 DEF Telling
  <2>2. IsToldOnce(i)
    OBVIOUS
  <2>3. QED
    BY <1>0, <1>1, <2>1, <2>2 DEF IsToldOnce, Follows
<1>2. ASSUME NEW class \in {"ancs", "calendar_nudge"}, NEW m \in Meetings \cup {N!None},
             N!Enqueue(class, m), UNCHANGED <<spoken, workers, faults>>, NEW i \in N!Ids
      PROVE  IsToldOnce(i)'
  <2>1. Telling(i)' = Telling(i) /\ Telling(i) \in Nat
    BY <1>0, <1>2 DEF Telling
  <2>2. IsToldOnce(i)
    OBVIOUS
  <2>3. /\ DOMAIN items' = DOMAIN items \cup {Len(items) + 1}
        /\ \A j \in DOMAIN items : items'[j] = items[j]
    BY <1>2, EnqueueAppends
  <2>4. CASE i \in DOMAIN items
    BY <1>2, <2>1, <2>2, <2>3, <2>4 DEF IsToldOnce
  <2>5. CASE i \notin DOMAIN items
    BY <1>0, <1>2, <2>1, <2>2, <2>5 DEF IsToldOnce
  <2>6. QED
    BY <2>4, <2>5
<1>3. ASSUME NEW i \in DOMAIN items, N!TickTells(i) \/ N!MarkFails(i), NEW j \in N!Ids
      PROVE  IsToldOnce(j)'
  <2>1. PICK q \in {N!AutoDismissed, N!Pruned(N!AutoDismissed)} :
            /\ N!Looks(i, q)
            /\ \/ N!TickTells(i) /\ items' = [q EXCEPT ![i].is = "delivered"] /\ faults' = faults
               \/ N!MarkFails(i) /\ items' = q /\ faults' = faults + 1
    BY <1>3 DEF N!TickTells, N!MarkFails, N!Fault
  <2>2. /\ Follows(q) /\ items[i].is = "pending"
    BY <2>1, LooksAtPending
  <2>3. Follows(items')
    BY <2>1, <2>2, MarkedFollows
  <2>4. workers' = workers \cup {i} /\ UNCHANGED spoken
    BY <1>3 DEF N!TickTells, N!MarkFails, N!history
  <2>5. CASE j # i
    <3>1. Telling(j)' = Telling(j) /\ Telling(j) \in Nat /\ IsToldOnce(j)
      BY <1>0, <2>4, <2>5 DEF Telling
    <3>2. QED
      BY <1>0, <2>1, <2>3, <3>1 DEF IsToldOnce, Follows
  <2>6. CASE j = i
    <3>1. Telling(i) \in Nat /\ Telling(i) <= faults
      BY <1>0, <2>2 DEF IsToldOnce, Telling
    <3>2. Telling(i)' \in Nat /\ Telling(i)' <= Telling(i) + 1
      BY <1>0, <2>4 DEF Telling
    <3>3. DOMAIN items' = DOMAIN items
      BY <2>3 DEF Follows
    <3>4. CASE N!TickTells(i)
      <4>1. faults' = faults /\ items'[i].is = "delivered"
        <5>1. PICK p \in {N!AutoDismissed, N!Pruned(N!AutoDismissed)} :
                  items' = [p EXCEPT ![i].is = "delivered"]
          BY <3>4 DEF N!TickTells
        <5>2. items'[i].is = "delivered"
          BY <5>1, CleanedFollows, MarkedFollows
        <5>3. QED
          BY <3>4, <5>2 DEF N!TickTells
      <4>2. QED
        BY <1>0, <2>6, <3>1, <3>2, <3>3, <4>1 DEF IsToldOnce
    <3>5. CASE N!MarkFails(i)
      <4>1. faults' = faults + 1
        BY <3>5 DEF N!MarkFails, N!Fault
      <4>2. QED
        BY <1>0, <2>6, <3>1, <3>2, <3>3, <4>1 DEF IsToldOnce
    <3>6. QED
      BY <1>3, <3>4, <3>5
  <2>7. QED
    BY <2>5, <2>6
<1>4. ASSUME NEW i \in DOMAIN items, N!SpeechBegins(i), NEW j \in N!Ids
      PROVE  IsToldOnce(j)'
  <2>1. /\ i \in workers /\ workers' = workers \ {i}
        /\ spoken' = [spoken EXCEPT ![i] = @ + 1]
        /\ UNCHANGED <<items, faults>>
    BY <1>4 DEF N!SpeechBegins
  <2>2. Telling(j)' = Telling(j)
    BY <1>0, <2>1 DEF Telling
  <2>3. IsToldOnce(j)
    OBVIOUS
  <2>4. QED
    BY <2>1, <2>2, <2>3 DEF IsToldOnce
<1>5. CASE N!OnNotification
  BY <1>2, <1>5 DEF N!OnNotification, N!delivery, N!history
<1>6. ASSUME NEW m \in Meetings, N!PollEnqueues(m)
      PROVE  (\A i \in N!Ids : IsToldOnce(i))'
  BY <1>2, <1>6 DEF N!PollEnqueues, N!delivery, N!history
<1>7. CASE /\ Follows(items') /\ UNCHANGED <<spoken, workers>>
           /\ faults' = faults \/ faults' = faults + 1
  BY <1>1, <1>7
<1>8. ASSUME NEW m \in Meetings, N!MeetingNears(m)
      PROVE  UNCHANGED <<items, spoken, workers, faults>>
  BY <1>8 DEF N!MeetingNears, N!delivery, N!history
<1>9. ASSUME NEW i \in DOMAIN items, N!TickBadges(i) \/ N!Expires(i)
      PROVE  UNCHANGED <<spoken, workers, faults>>
  BY <1>9 DEF N!TickBadges, N!Expires, N!delivery, N!history
<1>10. CASE N!TickWaits \/ N!PollCaches \/ N!DrainBadge \/ N!KeyNotification \/ UNCHANGED N!vars
  <2>1. UNCHANGED <<spoken, workers, faults>>
    BY <1>10 DEF N!TickWaits, N!PollCaches, N!DrainBadge, N!KeyNotification, N!vars, N!delivery, N!history
  <2>2. Follows(items')
    BY <1>10, SameFollows, CleanedFollows
       DEF N!TickWaits, N!PollCaches, N!DrainBadge, N!KeyNotification, N!vars
  <2>3. QED
    BY <1>7, <2>1, <2>2
<1>11. CASE N!WatcherRestarts \/ N!CoolsDown \/ N!TenSeconds
  <2>1. /\ UNCHANGED <<items, spoken, workers>>
        /\ faults' = faults \/ faults' = faults + 1
    BY <1>11 DEF N!WatcherRestarts, N!CoolsDown, N!TenSeconds, N!delivery, N!history, N!Fault
  <2>2. QED
    BY <1>7, <2>1, SameFollows
<1>12. ASSUME NEW i \in DOMAIN items, N!TickBadges(i) \/ N!Expires(i)
       PROVE  Follows(items')
  BY <1>12, CleanedFollows, SameFollows, MarkedFollows DEF N!TickBadges, N!Expires
<1>13. QED
  BY <1>3, <1>4, <1>5, <1>6, <1>7, <1>8, <1>9, <1>10, <1>11, <1>12, SameFollows DEF N!Next, N!Tick

\* A nudge more only about a meeting that is not remembered.
LEMMA NudgedStep ==
    ASSUME N!TypeOK, ShownIsDelivered, \A m \in Meetings : IsNudgedOnce(m), [N!Next]_N!vars
    PROVE  (\A m \in Meetings : IsNudgedOnce(m))'
<1>0. /\ faults \in Nat /\ polling \in Meetings \cup {N!Idle} /\ N!Idle \notin Meetings
      /\ N!None \notin Meetings /\ meeting \in [Meetings -> {"later", "near", "past"}]
  BY BoundsAssumption, MeetingsAssumption DEF N!TypeOK, N!Idle, N!None
<1>1. ASSUME Follows(items')
      PROVE  \A m \in Meetings : Nudges(m)' = Nudges(m)
  BY <1>1 DEF Follows, Nudges
<1>2. ASSUME NEW class \in {"ancs", "calendar_nudge"}, NEW of \in Meetings \cup {N!None},
             N!Enqueue(class, of), NEW m \in Meetings
      PROVE  Nudges(m)' = IF m = of THEN Nudges(m) \cup {Len(items) + 1} ELSE Nudges(m)
  <2>1. /\ DOMAIN items' = DOMAIN items \cup {Len(items) + 1}
        /\ Len(items) + 1 \notin DOMAIN items
        /\ items'[Len(items) + 1].of = of
        /\ \A i \in DOMAIN items : items'[i] = items[i]
    BY <1>2, EnqueueAppends
  <2>2. QED
    BY <2>1 DEF Nudges
<1>3. ASSUME NEW m \in Meetings, Nudges(m)' = Nudges(m),
             faults' = faults,
             m \notin cache' /\ polling' # m /\ meeting'[m] # "past"
                => m \notin cache /\ polling # m /\ meeting[m] # "past"
      PROVE  IsNudgedOnce(m)'
  BY <1>3 DEF IsNudgedOnce
<1>4. CASE N!OnNotification
  BY <1>0, <1>2, <1>3, <1>4 DEF N!OnNotification, N!watcher
<1>5. ASSUME NEW of \in Meetings, N!PollEnqueues(of), NEW m \in Meetings
      PROVE  IsNudgedOnce(m)'
  <2>1. /\ polling = N!Idle /\ polling' = of /\ of \notin cache /\ meeting[of] = "near"
        /\ cache' = N!Remembered /\ UNCHANGED <<meeting, faults>>
    BY <1>5 DEF N!PollEnqueues, N!Remembered
  <2>2. CASE m # of
    <3>1. Nudges(m)' = Nudges(m)
      BY <1>2, <1>5, <2>2 DEF N!PollEnqueues
    <3>2. m \notin cache' /\ meeting'[m] # "past" => m \notin cache
      BY <2>1 DEF N!Remembered
    <3>3. QED
      BY <1>0, <1>3, <2>1, <3>1, <3>2
  <2>3. CASE m = of
    <3>1. Nudges(m)' = Nudges(m) \cup {Len(items) + 1}
      BY <1>2, <1>5, <2>3 DEF N!PollEnqueues
    <3>2. IsFiniteSet(Nudges(m)) /\ Cardinality(Nudges(m)) <= faults
      BY <1>0, <2>1, <2>3 DEF IsNudgedOnce
    <3>3. Cardinality(Nudges(m)) \in Nat
      BY <3>2, FS_CardinalityType
    <3>4. Len(items) + 1 \notin Nudges(m)
      BY <1>5, EnqueueAppends DEF Nudges, N!PollEnqueues
    <3>5. /\ IsFiniteSet(Nudges(m)')
          /\ Cardinality(Nudges(m)') = Cardinality(Nudges(m)) + 1
      BY <3>1, <3>2, <3>4, FS_AddElement
    <3>6. Cardinality(Nudges(m)') <= 1 + faults' /\ polling' = m
      BY <1>0, <2>1, <2>3, <3>2, <3>3, <3>5
    <3>7. QED
      BY <3>5, <3>6 DEF IsNudgedOnce
  <2>4. QED
    BY <2>2, <2>3
<1>6. CASE Follows(items') /\ UNCHANGED <<meeting, N!watcher>> /\ N!Fault
  <2>1. \A m \in Meetings : Cardinality(Nudges(m)) \in Nat
    BY FS_CardinalityType DEF IsNudgedOnce
  <2>2. QED
    BY <1>0, <1>1, <1>6, <2>1 DEF IsNudgedOnce, N!Fault, N!watcher
<1>7. CASE Follows(items') /\ UNCHANGED <<meeting, N!watcher, faults>>
  BY <1>1, <1>3, <1>7 DEF N!watcher
<1>8. CASE N!PollCaches
  <2>1. Follows(items')
    BY <1>8, SameFollows DEF N!PollCaches
  <2>2. QED
    BY <1>1, <1>3, <1>8, <2>1 DEF N!PollCaches
<1>9. CASE N!WatcherRestarts
  <2>1. \A m \in Meetings : Cardinality(Nudges(m)) \in Nat
    BY FS_CardinalityType DEF IsNudgedOnce
  <2>2. \A m \in Meetings : Nudges(m)' = Nudges(m)
    BY <1>9 DEF N!WatcherRestarts, Nudges
  <2>3. QED
    BY <1>0, <1>9, <2>1, <2>2 DEF IsNudgedOnce, N!Fault, N!WatcherRestarts
<1>10. ASSUME NEW n \in Meetings, N!MeetingNears(n), NEW m \in Meetings
       PROVE  IsNudgedOnce(m)'
  <2>1. meeting'[m] # "past" => meeting[m] # "past"
    BY <1>0, <1>10 DEF N!MeetingNears
  <2>2. UNCHANGED <<items, cache, polling, faults>>
    BY <1>10 DEF N!MeetingNears, N!watcher
  <2>3. Nudges(m)' = Nudges(m)
    BY <2>2 DEF Nudges
  <2>4. QED
    BY <1>3, <2>1, <2>2, <2>3
<1>11. ASSUME NEW i \in DOMAIN items, N!MarkFails(i)
       PROVE  (\A m \in Meetings : IsNudgedOnce(m))'
  <2>1. Follows(items')
    BY <1>11, CleanedFollows DEF N!MarkFails
  <2>2. QED
    BY <1>6, <1>11, <2>1 DEF N!MarkFails
<1>12. ASSUME NEW i \in DOMAIN items,
              N!TickTells(i) \/ N!TickBadges(i) \/ N!SpeechBegins(i) \/ N!Expires(i)
       PROVE  UNCHANGED <<meeting, N!watcher, faults>>
  BY <1>12 DEF N!TickTells, N!TickBadges, N!SpeechBegins, N!Expires
<1>13. CASE \/ N!TickWaits \/ N!DrainBadge \/ N!KeyNotification \/ UNCHANGED N!vars
            \/ N!CoolsDown \/ N!TenSeconds
  <2>1. UNCHANGED <<meeting, N!watcher, faults>>
    BY <1>13 DEF N!TickWaits, N!DrainBadge, N!KeyNotification, N!CoolsDown, N!TenSeconds, N!vars
  <2>2. Follows(items')
    BY <1>13, SameFollows, CleanedFollows
       DEF N!TickWaits, N!DrainBadge, N!KeyNotification, N!CoolsDown, N!TenSeconds, N!vars
  <2>3. QED
    BY <1>7, <2>1, <2>2
<1>14. ASSUME NEW i \in DOMAIN items,
              N!TickTells(i) \/ N!TickBadges(i) \/ N!SpeechBegins(i) \/ N!Expires(i)
       PROVE  (\A m \in Meetings : IsNudgedOnce(m))'
  <2>1. CASE Follows(items')
    BY <1>7, <1>12, <1>14, <2>1
  <2>2. CASE N!OnNotification \/ \E m \in Meetings : N!PollEnqueues(m)
    BY <1>4, <1>5, <2>2
  <2>3. QED
    BY <2>1, <2>2, QueueStep
<1>15. QED
  BY <1>4, <1>5, <1>8, <1>9, <1>10, <1>11, <1>13, <1>14 DEF N!Next, N!Tick

\* What is shown was delivered, and stays so; what [n] took away is shown no more.
LEMMA ShownStep ==
    ASSUME N!TypeOK, ShownIsDelivered, [N!Next]_N!vars
    PROVE  ShownIsDelivered'
<1>0. /\ DOMAIN items \subseteq N!Ids /\ shownLong \in BOOLEAN
      /\ N!None \notin DOMAIN items
  BY QueueIsSeq DEF N!TypeOK, N!Ids, N!None
<1>1. ASSUME Follows(items'), UNCHANGED cycled,
             \/ UNCHANGED <<shownId, shownLong>> /\ shownLong = FALSE
             \/ shownId' = N!StillShown
             \/ shownId' = N!None
      PROVE  ShownIsDelivered'
  <2>1. shownId' # N!None => shownId' = shownId /\ ~ shownLong
    BY <1>1 DEF N!StillShown
  <2>2. QED
    BY <1>0, <1>1, <2>1 DEF ShownIsDelivered, Follows
<1>2. ASSUME UNCHANGED <<shownId, cycled>>,
             DOMAIN items \subseteq DOMAIN items',
             \A i \in DOMAIN items : /\ items'[i].dismissed = items[i].dismissed
                                     /\ items'[i].is = items[i].is
      PROVE  ShownIsDelivered'
  BY <1>2 DEF ShownIsDelivered
<1>3. CASE UNCHANGED <<items, shownId, cycled>>
  BY <1>3 DEF ShownIsDelivered
<1>4. CASE N!OnNotification
  BY <1>2, <1>4, EnqueueAppends DEF N!OnNotification, N!delivery, N!history
<1>5. ASSUME NEW m \in Meetings, N!PollEnqueues(m)
      PROVE  ShownIsDelivered'
  BY <1>2, <1>5, EnqueueAppends DEF N!PollEnqueues, N!delivery, N!history
<1>6. CASE N!TickWaits
  BY <1>1, <1>6, CleanedFollows DEF N!TickWaits, N!history
<1>7. ASSUME NEW i \in DOMAIN items, N!TickTells(i)
      PROVE  ShownIsDelivered'
  <2>1. PICK q \in {N!AutoDismissed, N!Pruned(N!AutoDismissed)} :
            N!Looks(i, q) /\ items' = [q EXCEPT ![i].is = "delivered"]
    BY <1>7 DEF N!TickTells
  <2>2. Follows(q) /\ i \notin cycled /\ ~ q[i].dismissed
    BY <2>1, LooksAtPending
  <2>3. /\ Follows(items') /\ items'[i].is = "delivered"
        /\ items'[i].dismissed = q[i].dismissed
    BY <2>1, <2>2, MarkedFollows
  <2>4. shownId' = i /\ UNCHANGED cycled
    BY <1>7 DEF N!TickTells, N!history
  <2>5. i \in DOMAIN items' /\ items'[i].is # "pending" /\ ~ items'[i].dismissed
    BY <2>2, <2>3 DEF Follows
  <2>6. \A j \in cycled : /\ j \in DOMAIN items' /\ items'[j].is # "pending"
                          /\ j # i /\ ~ items'[j].dismissed
    BY <2>2, <2>3 DEF ShownIsDelivered, Follows
  <2>7. QED
    BY <2>4, <2>5, <2>6 DEF ShownIsDelivered
<1>8. ASSUME NEW i \in DOMAIN items, N!TickBadges(i) \/ N!MarkFails(i)
      PROVE  ShownIsDelivered'
  <2>1. Follows(items')
    BY <1>8, CleanedFollows DEF N!TickBadges, N!MarkFails
  <2>2. UNCHANGED cycled /\ (shownId' = N!StillShown \/ shownId' = N!None)
    BY <1>8 DEF N!TickBadges, N!MarkFails, N!history
  <2>3. QED
    BY <1>1, <2>1, <2>2
<1>9. ASSUME NEW i \in DOMAIN items, N!SpeechBegins(i)
      PROVE  ShownIsDelivered'
  BY <1>3, <1>9 DEF N!SpeechBegins
<1>10. ASSUME NEW i \in DOMAIN items, N!Expires(i)
       PROVE  ShownIsDelivered'
  <2>1. items' = [items EXCEPT ![i].expired = TRUE] /\ UNCHANGED <<shownId, cycled>>
    BY <1>10 DEF N!Expires, N!delivery, N!history
  <2>2. items[i] \in N!Item /\ items \in [DOMAIN items -> N!Item]
    BY QueueIsSeq
  <2>3. items' = [items EXCEPT ![i] = [items[i] EXCEPT !.expired = TRUE]]
    BY <2>1
  <2>4. /\ [items[i] EXCEPT !.expired = TRUE].is = items[i].is
        /\ [items[i] EXCEPT !.expired = TRUE].dismissed = items[i].dismissed
    BY <2>2 DEF N!Item
  <2>5. \A j \in DOMAIN items : /\ items'[j].dismissed = items[j].dismissed
                                /\ items'[j].is = items[j].is
    BY <2>2, <2>3, <2>4
  <2>6. DOMAIN items' = DOMAIN items
    BY <2>3
  <2>7. QED
    BY <1>2, <2>1, <2>5, <2>6
<1>11. CASE N!KeyNotification
  <2>1. /\ UNCHANGED items /\ shownId' = N!None
        /\ cycled' \subseteq cycled \cup ({shownId} \ {N!None})
    BY <1>11 DEF N!KeyNotification, N!ResetShown
  <2>2. \A i \in cycled' : /\ i \in DOMAIN items' /\ items'[i].is # "pending"
                           /\ ~ items'[i].dismissed
    BY <2>1 DEF ShownIsDelivered
  <2>3. \A i \in cycled' : i # shownId'
    BY <1>0, <2>1, <2>2
  <2>4. QED
    BY <2>1, <2>2, <2>3 DEF ShownIsDelivered
<1>12. CASE N!PollCaches \/ N!WatcherRestarts \/ UNCHANGED N!vars
  BY <1>3, <1>12 DEF N!PollCaches, N!WatcherRestarts, N!vars, N!delivery, N!history
<1>13. CASE N!DrainBadge \/ N!CoolsDown \/ N!TenSeconds
  BY <1>3, <1>13 DEF N!DrainBadge, N!CoolsDown, N!TenSeconds, N!history
<1>14. ASSUME NEW m \in Meetings, N!MeetingNears(m)
       PROVE  ShownIsDelivered'
  BY <1>3, <1>14 DEF N!MeetingNears, N!delivery, N!history
<1>15. QED
  BY <1>4, <1>5, <1>6, <1>7, <1>8, <1>9, <1>10, <1>11, <1>12, <1>13, <1>14 DEF N!Next, N!Tick

----------------------------------------------------------------------------
(* Cycling.                                                                 *)

Cycles(from, n, g) == g = [k \in 0 .. n |-> IF k = 0 THEN from ELSE N!CycleNext(g[k - 1])]

\* Pressing [n] again and again is well defined.
LEMMA CyclesExist ==
    ASSUME NEW from, NEW n \in Nat
    PROVE  \E g : Cycles(from, n, g)
<1> DEFINE Not == {m \in Nat : ~ \E g : Cycles(from, m, g)}
<1> SUFFICES ASSUME n \in Not
             PROVE  FALSE
  OBVIOUS
<1>1. PICK m \in Not : \A j \in Not : m <= j
  BY LeastOf
<1>2. \A g : ~ Cycles(from, m, g)
  BY <1>1
<1>3. CASE m = 0
  <2> DEFINE g == [k \in 0 .. 0 |-> from]
  <2>1. g = [k \in 0 .. 0 |-> IF k = 0 THEN from ELSE N!CycleNext(g[k - 1])]
    <3>1. \A k \in 0 .. 0 : k = 0
      OBVIOUS
    <3>2. QED
      BY <3>1
  <2>2. Cycles(from, 0, g)
    BY <2>1 DEF Cycles
  <2>3. QED
    BY <1>2, <1>3, <2>2
<1>4. CASE m # 0
  <2>1. m - 1 \in Nat /\ m - 1 \notin Not
    BY <1>1, <1>4
  <2>2. PICK g : Cycles(from, m - 1, g)
    BY <2>1
  <2> DEFINE last == N!CycleNext(g[m - 1])
             h == [k \in 0 .. m |-> IF k = m THEN last ELSE g[k]]
  <2>3. \A k \in 0 .. m - 1 : g[k] = IF k = 0 THEN from ELSE N!CycleNext(g[k - 1])
    BY <2>2 DEF Cycles
  <2> HIDE DEF last
  <2>4. \A k \in 0 .. m : k # 0 => k - 1 \in 0 .. m /\ k - 1 # m /\ h[k - 1] = g[k - 1]
    BY <1>1
  <2>5. \A k \in 0 .. m : h[k] = IF k = 0 THEN from ELSE N!CycleNext(h[k - 1])
    <3> SUFFICES ASSUME NEW k \in 0 .. m
                 PROVE  h[k] = IF k = 0 THEN from ELSE N!CycleNext(h[k - 1])
      OBVIOUS
    <3>1. CASE k = m
      BY <1>1, <1>4, <2>4, <3>1 DEF last
    <3>2. CASE k # m
      <4>1. k \in 0 .. m - 1 /\ h[k] = g[k]
        BY <1>1, <3>2
      <4> HIDE DEF h
      <4>2. QED
        BY <2>3, <2>4, <4>1
    <3>3. QED
      BY <3>1, <3>2
  <2>6. h = [k \in 0 .. m |-> h[k]]
    OBVIOUS
  <2> HIDE DEF h
  <2>7. Cycles(from, m, h)
    BY <2>5, <2>6 DEF Cycles
  <2>8. QED
    BY <1>2, <2>7
<1>5. QED
  BY <1>3, <1>4

\* [n] goes to the next pending item, and from the last to the first.
LEMMA CycleGoesOn ==
    ASSUME N!TypeOK, N!Pending(items) # {}, NEW a
    PROVE  /\ N!CycleNext(a) \in N!Pending(items)
           /\ \A j \in N!Pending(items) : j > a => N!CycleNext(a) > a /\ N!CycleNext(a) <= j
           /\ (\A j \in N!Pending(items) : ~ (j > a)) =>
                  \A j \in N!Pending(items) : N!CycleNext(a) <= j
<1>1. ASSUME NEW S \in SUBSET Nat, S # {}
      PROVE  N!Least(S) \in S /\ \A j \in S : N!Least(S) <= j
  <2>1. \E i \in S : \A j \in S : i <= j
    BY <1>1, LeastOf
  <2>2. QED
    BY <1>1, <2>1 DEF N!Least
<1>2. N!Pending(items) \subseteq Nat /\ N!Beyond(a) = {i \in N!Pending(items) : i > a}
  BY QueueIsSeq DEF N!Pending, N!Beyond
<1>3. CASE N!Beyond(a) # {}
  BY <1>1, <1>2, <1>3 DEF N!CycleNext
<1>4. CASE N!Beyond(a) = {}
  BY <1>1, <1>2, <1>4 DEF N!CycleNext
<1>5. QED
  BY <1>3, <1>4

\* It does not come to an item from two.
LEMMA CycleIsInjective ==
    ASSUME N!TypeOK, NEW a \in N!Pending(items), NEW b \in N!Pending(items),
           N!CycleNext(a) = N!CycleNext(b)
    PROVE  a = b
<1>0. N!Pending(items) \subseteq Nat
  BY QueueIsSeq DEF N!Pending
<1>1. ASSUME NEW x \in N!Pending(items), NEW y \in N!Pending(items),
             N!CycleNext(x) = N!CycleNext(y), x < y
      PROVE  FALSE
  <2>1. N!CycleNext(x) > x /\ N!CycleNext(x) <= y /\ N!CycleNext(x) \in Nat
    BY <1>0, <1>1, CycleGoesOn
  <2>2. CASE \E j \in N!Pending(items) : j > y
    <3>1. N!CycleNext(y) > y
      BY <2>2, CycleGoesOn
    <3>2. QED
      BY <1>0, <1>1, <2>1, <3>1
  <2>3. CASE \A j \in N!Pending(items) : ~ (j > y)
    <3>1. N!CycleNext(y) <= x
      BY <2>3, CycleGoesOn
    <3>2. QED
      BY <1>0, <1>1, <2>1, <3>1
  <2>4. QED
    BY <2>2, <2>3
<1>2. QED
  BY <1>0, <1>1

\* Whoever goes on from every item that was visited has visited them all.
LEMMA ClosedIsAll ==
    ASSUME N!TypeOK, NEW V \in SUBSET N!Pending(items), V # {},
           \A v \in V : N!CycleNext(v) \in V
    PROVE  V = N!Pending(items)
<1> SUFFICES ASSUME NEW q \in N!Pending(items), q \notin V
             PROVE  FALSE
  OBVIOUS
<1>0. /\ Len(items) \in Nat /\ q \in Nat
      /\ \A j \in N!Pending(items) : j \in Nat
      /\ \A v \in V : v \in Nat /\ v <= Len(items)
  <2>1. Len(items) \in Nat /\ N!Pending(items) \subseteq 1 .. Len(items)
    BY QueueIsSeq DEF N!Pending
  <2>2. \A j \in N!Pending(items) : j \in Nat /\ j <= Len(items)
    BY <2>1
  <2>3. QED
    BY <2>1, <2>2
<1>1. ASSUME NEW W \in SUBSET V, W # {}
      PROVE  \E w \in W : \A v \in W : v <= w
  <2> DEFINE D == {Len(items) - w : w \in W}
  <2>1. D \in SUBSET Nat /\ D # {}
    BY <1>0, <1>1
  <2>2. PICK d \in D : \A e \in D : d <= e
    BY <2>1, LeastOf
  <2>3. PICK w \in W : d = Len(items) - w
    OBVIOUS
  <2>4. \A v \in W : Len(items) - v \in D
    OBVIOUS
  <2>5. ASSUME NEW v \in W
        PROVE  v <= w
    <3>1. v \in Nat /\ w \in Nat /\ Len(items) \in Nat
      BY <1>0
    <3>2. Len(items) - w <= Len(items) - v
      BY <2>2, <2>3, <2>4
    <3>3. QED
      BY <3>1, <3>2
  <2>6. QED
    BY <2>5
<1>2. ASSUME NEW v \in V, \A w \in V : w < q => w <= v
      PROVE  ~ (v < q)
  <2> SUFFICES ASSUME v < q
               PROVE  FALSE
    OBVIOUS
  <2>1. N!CycleNext(v) > v /\ N!CycleNext(v) <= q /\ N!CycleNext(v) \in V
    BY <1>0, CycleGoesOn
  <2>2. N!CycleNext(v) \in Nat /\ N!CycleNext(v) # q /\ v \in Nat /\ q \in Nat
    BY <1>0, <2>1
  <2>3. N!CycleNext(v) < q
    BY <2>1, <2>2
  <2>4. N!CycleNext(v) <= v
    BY <1>2, <2>1, <2>3
  <2>5. QED
    BY <2>1, <2>2, <2>4
<1>3. \A v \in V : ~ (v < q)
  <2> SUFFICES ASSUME NEW u \in V, u < q
               PROVE  FALSE
    OBVIOUS
  <2> DEFINE W == {w \in V : w < q}
  <2>1. PICK v \in W : \A w \in W : w <= v
    BY <1>1
  <2>2. QED
    BY <1>2, <2>1
<1>4. PICK v \in V : \A w \in V : w <= v
  BY <1>1
<1>5. N!CycleNext(v) \in V /\ N!CycleNext(v) <= v
  BY <1>4
<1>6. N!CycleNext(v) \in Nat /\ v \in Nat /\ q \in Nat
  BY <1>0, <1>5
<1>7. \A j \in N!Pending(items) : ~ (j > v)
  <2>1. ASSUME NEW j \in N!Pending(items), j > v
        PROVE  N!CycleNext(v) > v
    BY <2>1, CycleGoesOn
  <2>2. QED
    BY <1>5, <1>6, <2>1
<1>8. N!CycleNext(v) <= q
  BY <1>7, CycleGoesOn
<1>9. N!CycleNext(v) # q /\ ~ (N!CycleNext(v) < q)
  BY <1>3, <1>5
<1>10. QED
  BY <1>6, <1>8, <1>9

\* As many presses as there are pending items visit each of them.
LEMMA CycleVisits ==
    ASSUME N!TypeOK, NEW from, NEW visit, Cycles(from, Len(items), visit)
    PROVE  /\ IsFiniteSet(N!Pending(items))
           /\ {visit[k] : k \in 1 .. Cardinality(N!Pending(items))} = N!Pending(items)
<1> DEFINE P == N!Pending(items)
           n == Cardinality(P)
<1>0. /\ Len(items) \in Nat /\ DOMAIN items = 1 .. Len(items) /\ P \subseteq 1 .. Len(items)
  BY QueueIsSeq DEF N!Pending
<1>1. IsFiniteSet(P) /\ n \in Nat /\ n <= Len(items)
  <2>1. IsFiniteSet(1 .. Len(items)) /\ Cardinality(1 .. Len(items)) = Len(items)
    BY <1>0, FS_Interval
  <2>2. QED
    BY <1>0, <2>1, FS_Subset, FS_CardinalityType
<1>2. \A k \in 1 .. n : visit[k] = N!CycleNext(visit[k - 1])
  <2>1. \A k \in 0 .. Len(items) : visit[k] = IF k = 0 THEN from ELSE N!CycleNext(visit[k - 1])
    BY DEF Cycles
  <2>2. QED
    BY <1>0, <1>1, <2>1
<1> HIDE DEF n
<1>3. CASE P = {}
  <2>1. n = 0
    BY <1>3, FS_EmptySet DEF n
  <2>2. QED
    BY <1>1, <1>3, <2>1 DEF n
<1>4. CASE P # {}
  <2>1. \A k \in 1 .. n : visit[k] \in P
    BY <1>2, <1>4, CycleGoesOn
  <2>2. ASSUME NEW j \in 1 .. n, NEW k \in 1 .. n, j < k, visit[j] = visit[k]
        PROVE  FALSE
    <3> DEFINE Again == {m \in 1 .. n : \E i \in 1 .. n : i < m /\ visit[i] = visit[m]}
    <3>1. k \in Again /\ Again \in SUBSET Nat
      BY <2>2
    <3>2. PICK m \in Again : \A l \in Again : m <= l
      BY <3>1, LeastOf
    <3>3. PICK i \in 1 .. n : i < m /\ visit[i] = visit[m]
      BY <3>2
    <3>4. m \in 1 .. n /\ m > 1 /\ m - 1 \in 1 .. n
      BY <1>1, <3>2, <3>3
    <3>5. i = 1
      <4> SUFFICES ASSUME i # 1
                   PROVE  FALSE
        OBVIOUS
      <4>1. i - 1 \in 1 .. n /\ i - 1 < m - 1
        BY <1>1, <3>3, <3>4
      <4>2. N!CycleNext(visit[i - 1]) = N!CycleNext(visit[m - 1])
        BY <1>2, <3>3, <3>4
      <4>3. visit[i - 1] = visit[m - 1]
        BY <2>1, <3>4, <4>1, <4>2, CycleIsInjective
      <4>4. m - 1 \in Again
        BY <3>4, <4>1, <4>3
      <4>5. QED
        BY <1>1, <3>2, <3>4, <4>4
    <3> DEFINE V == {visit[l] : l \in 1 .. m - 1}
               f == [l \in 1 .. m - 1 |-> visit[l]]
    <3>6. V \in SUBSET P /\ V # {}
      <4>1. 1 \in 1 .. m - 1 /\ \A l \in 1 .. m - 1 : l \in 1 .. n
        BY <1>1, <3>4
      <4>2. QED
        BY <2>1, <4>1
    <3>7. ASSUME NEW v \in V
          PROVE  N!CycleNext(v) \in V
      <4>1. PICK l \in 1 .. m - 1 : v = visit[l]
        OBVIOUS
      <4>2. l + 1 \in 1 .. n /\ (l + 1) - 1 = l
        BY <1>1, <3>4
      <4>3. N!CycleNext(v) = visit[l + 1]
        BY <1>2, <4>1, <4>2
      <4>4. CASE l + 1 \in 1 .. m - 1
        BY <4>3, <4>4
      <4>5. CASE l + 1 \notin 1 .. m - 1
        <5>1. l + 1 = m /\ 1 \in 1 .. m - 1
          BY <3>4, <4>5
        <5>2. QED
          BY <3>3, <3>5, <4>3, <5>1
      <4>6. QED
        BY <4>4, <4>5
    <3>8. V = P
      BY <3>6, <3>7, ClosedIsAll
    <3>9. f \in Surjection(1 .. m - 1, V)
      BY DEF Surjection
    <3>10. IsFiniteSet(1 .. m - 1) /\ Cardinality(1 .. m - 1) = m - 1
      BY <3>4, FS_Interval
    <3>11. Cardinality(V) <= m - 1
      BY <3>9, <3>10, FS_Surjection
    <3>12. n <= m - 1
      BY <3>8, <3>11 DEF n
    <3>13. QED
      BY <1>1, <3>4, <3>12
  <2> DEFINE f == [k \in 1 .. n |-> visit[k]]
  <2>3. \A j, k \in 1 .. n : visit[j] = visit[k] => j = k
    BY <1>1, <2>2
  <2>4. f \in Injection(1 .. n, P)
    BY <2>1, <2>3 DEF Injection, IsInjective
  <2>5. IsFiniteSet(1 .. n) /\ Cardinality(1 .. n) = n
    BY <1>1, FS_Interval
  <2>6. f \in Surjection(1 .. n, P)
    BY <1>1, <2>4, <2>5, FS_Injection DEF n
  <2>7. {visit[k] : k \in 1 .. n} = P
    BY <2>6 DEF Surjection
  <2>8. QED
    BY <1>1, <2>7 DEF n
<1>5. QED
  BY <1>3, <1>4

----------------------------------------------------------------------------
(* The theorems.                                                            *)

\* Both count elements.
LEMMA SameCardinality ==
    ASSUME NEW S
    PROVE  N!Cardinality(S) = Cardinality(S)
BY DEF N!Cardinality, Cardinality

\* Whatever the order in which items are enqueued, told, shown, cycled, pruned and expire,
\* and however often the watcher and the console start again, the queue, what was told of
\* it and what is on the screen agree (ProactiveStore, ProactiveDelivery, CalendarWatcher).
THEOREM ProactiveInvSpec == N!Spec => []ProactiveInv
<1>1. N!Init => ProactiveInv
  BY InitProactiveInv
<1>2. ProactiveInv /\ [N!Next]_N!vars => ProactiveInv'
  BY TypesStep, ToldStep, NudgedStep, ShownStep DEF ProactiveInv
<1>3. QED
  BY <1>1, <1>2, PTL DEF N!Spec

\* No item is told more than once, and no meeting nudged about more than once, but for
\* each delivery that could not be marked and each watcher that started again
\* (mark_delivered, NUDGE_CACHE).
THEOREM ToldAtMostOnce == N!Spec => []NothingIsToldTwice
<1>1. ProactiveInv => N!NothingIsToldTwice
  <2> SUFFICES ASSUME ProactiveInv
               PROVE  N!NothingIsToldTwice
    OBVIOUS
  <2>0. spoken \in [N!Ids -> Nat]
    BY DEF ProactiveInv, N!TypeOK
  <2>1. ASSUME NEW i \in N!Ids
        PROVE  spoken[i] + Cardinality({i} \cap workers) <= 1 + faults
    <3>1. Telling(i) <= 1 + faults
      BY DEF ProactiveInv, IsToldOnce
    <3>2. CASE i \in workers
      <4>1. {i} \cap workers = {i} /\ Cardinality({i}) = 1
        BY <3>2, FS_Singleton
      <4>2. QED
        BY <2>0, <3>1, <3>2, <4>1 DEF Telling
    <3>3. CASE i \notin workers
      <4>1. {i} \cap workers = {}
        BY <3>3
      <4>2. Cardinality({i} \cap workers) = 0
        BY <4>1, FS_EmptySet
      <4>3. spoken[i] \in Nat /\ spoken[i] <= 1 + faults
        BY <2>0, <3>1, <3>3 DEF Telling
      <4>4. QED
        BY <4>2, <4>3
    <3>4. QED
      BY <3>2, <3>3
  <2>2. ASSUME NEW m \in Meetings
        PROVE  Cardinality({i \in DOMAIN items : items[i].of = m}) <= 1 + faults
    BY DEF ProactiveInv, IsNudgedOnce, Nudges
  <2>3. N!ToldOnce
    BY <2>1, SameCardinality DEF N!ToldOnce
  <2>4. N!NudgedOnce
    BY <2>2, SameCardinality DEF N!NudgedOnce
  <2>5. QED
    BY <2>3, <2>4 DEF N!NothingIsToldTwice
<1>2. QED
  BY <1>1, ProactiveInvSpec, PTL DEF NothingIsToldTwice

\* [n], pressed again and again, visits every pending item, from wherever it is, and what
\* the operator has cycled away from while it was shown is never dismissed behind their
\* back (cycle_next, reset_shown).
THEOREM CyclingIsComplete == N!Spec => []CyclingLosesNothing
<1>1. ASSUME N!TypeOK, NEW from \in 0 .. Len(items)
      PROVE  LET visit[k \in 0 .. Len(items)] ==
                     IF k = 0 THEN from ELSE N!CycleNext(visit[k - 1])
                 pending == {i \in DOMAIN items : items[i].is = "pending"
                                  /\ ~items[i].dismissed /\ ~items[i].expired}
             IN  {visit[k] : k \in 1 .. N!Cardinality(pending)} = pending
  <2> DEFINE visit[k \in 0 .. Len(items)] == IF k = 0 THEN from ELSE N!CycleNext(visit[k - 1])
             pending == {i \in DOMAIN items : items[i].is = "pending"
                              /\ ~items[i].dismissed /\ ~items[i].expired}
  <2>1. Len(items) \in Nat
    BY <1>1, QueueIsSeq
  <2>2. \E g : Cycles(from, Len(items), g)
    BY <2>1, CyclesExist
  <2>3. Cycles(from, Len(items), visit)
    BY <2>2 DEF Cycles
  <2>4. pending = N!Pending(items)
    BY DEF N!Pending
  <2> HIDE DEF visit
  <2>5. {visit[k] : k \in 1 .. Cardinality(N!Pending(items))} = N!Pending(items)
    BY <1>1, <2>3, CycleVisits
  <2>6. {visit[k] : k \in 1 .. N!Cardinality(pending)} = pending
    BY <2>4, <2>5, SameCardinality
  <2>7. QED
    BY <2>6 DEF visit
<1>2. ProactiveInv => N!CycleVisitsAll
  BY <1>1 DEF ProactiveInv, N!CycleVisitsAll
<1>3. ProactiveInv => N!CycledStays
  BY DEF ProactiveInv, ShownIsDelivered, N!CycledStays
<1>4. ProactiveInv => N!CyclingLosesNothing
  BY <1>2, <1>3 DEF N!CyclingLosesNothing
<1>5. QED
  BY <1>4, ProactiveInvSpec, PTL DEF CyclingLosesNothing
===============================================================================
