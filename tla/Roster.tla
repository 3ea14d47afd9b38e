------------------------------- MODULE Roster -------------------------------
(***************************************************************************)
(* The roster: one SQLite database that the daemon and the console open    *)
(* anew for every operation.  Whoever opens it migrates it first if it is  *)
(* of an older version; two may do so at the same time.  Contacts are      *)
(* added, edited and removed by voice, staged first and executed after a   *)
(* confirmation, and edited or removed on the console's Contacts screen.   *)
(*                                                                         *)
(* A step is one SQLite transaction, or one read.  The notes of a contact  *)
(* are a set of which as many fit as 600 characters hold.  The unknown     *)
(* sentinel and everything that only reads are left out.                   *)
(***************************************************************************)
EXTENDS Naturals, FiniteSets

CONSTANTS
    Voices,        \* threads that run a Brain with the roster's skills
    Screens,       \* threads that show a Contacts screen
    Names,         \* display names
    Phones,
    Notes,         \* what a note may say
    NotesMax,      \* how many fit: _NOTES_MAX_CHARS
    MaxId,         \* contacts ever added; ids are issued in order
    InitialRules,  \* rules in a database of an older version
    VoiceRules,    \* rules asked for by voice
    EditorRules    \* rules chosen on the screen

Verbs == {"ring_through", "ring_with_announcement", "screen", "take_message", "ignore"}
OldRules == {"normal", "vip", "screen", "take_message", "block"}

\* roster_skill's list of rules is that of version 1, and it adds no contact without
\* a name and a number.
ASSUME RosterAssumption ==
    /\ MaxId \in Nat \ {0} /\ NotesMax \in Nat
    /\ Voices \cap Screens = {}
    /\ "" \notin Names \cup Phones
    /\ InitialRules \subseteq OldRules
    /\ VoiceRules \subseteq OldRules
    /\ EditorRules \subseteq Verbs

Threads == Voices \cup Screens
Ids == 1..MaxId
None == 0  \* no contact

Contacts == [who : Names, phone : Phones, rule : Verbs \cup OldRules, notes : SUBSET Notes]
Absent == [who |-> "", phone |-> "", rule |-> "", notes |-> {}]

\* What is to be written: a contact to be added, or for the contact with an id
\* another rule, its notes with one more or a new one alone, both as they are in
\* the editor, or its removal.  who is the name the operator was told, and read
\* the notes that one was appended to.
Tasks == [kind : {"add", "rule", "append", "replace", "edit", "remove"},
          id : Ids \cup {None}, who : Names,
          phone : Phones \cup {""}, rule : Verbs \cup OldRules \cup {""},
          notes : SUBSET Notes, read : SUBSET Notes]
Nothing == [kind |-> "none", id |-> None, who |-> "", phone |-> "", rule |-> "",
            notes |-> {}, read |-> {}]

\* Where a thread is in _connect: not connected; about to look at the columns
\* of version 0; to create the table anew; to read the numbers; to fill in the
\* addresses; to look at the version again; to write the new rules; connected.
Places == {"closed", "columns", "recreate", "backfill", "fill", "recheck", "rename", "open"}

VARIABLES
    contacts,   \* the table contacts, Absent where there is no row
    issued,     \* the last id issued (AUTOINCREMENT)
    address,    \* contact_addresses: the contact that has a phone
    version,    \* _schema_version
    oldColumns, \* phone_e164 is NOT NULL, as in version 0
    at,         \* per thread: where it is in _connect
    plan,       \* per thread: the rules that its migration will write
    rows,       \* per thread: the numbers that its migration read, to fill in
    staged,     \* per thread: _PendingState, or the contact in the editor
    task,       \* per thread: what it has set out to write
    \* history
    voiced,     \* contacts whose rule was last set by voice
    raced,      \* the table was created anew after somebody had migrated it
    again       \* ids of contacts that were deleted, which are issued again

database == <<contacts, issued, address, version, oldColumns>>
process == <<at, plan, rows, staged, task>>
vars == <<database, process, voiced, raced, again>>

Exists(i) == contacts[i] # Absent
IdsOf(who) == {i \in Ids : contacts[i].who = who}
NoPlan == [i \in Ids |-> ""]

\* A thread whose connection is open.  In a database that is up to date
\* opening has no effect, and is taken together with what follows.
Connected(t) == at[t] = "open" \/ (at[t] = "closed" /\ version = 2)
Closed(t) == at' = [at EXCEPT ![t] = "closed"]

-----------------------------------------------------------------------------
\* An empty database, one of version 0 and one of version 1, with a contact.
Init ==
    /\ \E v \in {0, 1}, c \in {Absent} \cup [who : Names, phone : Phones, rule : InitialRules,
                                             notes : {{}}] :
        /\ version = v
        /\ contacts = [i \in Ids |-> IF i = 1 THEN c ELSE Absent]
        /\ issued = IF c = Absent THEN 0 ELSE 1
        /\ oldColumns = (v = 0 /\ c # Absent)
        /\ address = [ph \in Phones |-> IF v = 1 /\ c.phone = ph THEN 1 ELSE None]
    /\ at = [t \in Threads |-> "closed"]
    /\ plan = [t \in Threads |-> NoPlan] /\ rows = [t \in Threads |-> NoPlan]
    /\ staged = [t \in Threads |-> Nothing]
    /\ task = [t \in Threads |-> Nothing]
    /\ voiced = {} /\ raced = FALSE /\ again = {}

-----------------------------------------------------------------------------
(* _connect and the migrations *)

\* _run_migrations reads the version ...
Connect(t) ==
    /\ at[t] = "closed" /\ version < 2
    /\ at' = [at EXCEPT ![t] = IF version < 1 THEN "columns" ELSE "recheck"]
    /\ UNCHANGED <<database, plan, rows, staged, task, voiced, raced, again>>

\* ... _migrate_v0_to_v1 the columns ...
ReadColumns(t) ==
    /\ at[t] = "columns"
    /\ at' = [at EXCEPT ![t] = IF oldColumns THEN "recreate" ELSE "backfill"]
    /\ UNCHANGED <<database, plan, rows, staged, task, voiced, raced, again>>

\* ... and in one transaction copies the contacts to a new table and drops
\* the old one.  Dropping it deletes its rows, and with them, by the foreign
\* key, all the addresses; and the new one counts its ids from the largest
\* copied, so that those deleted since are issued again.
Recreate(t) ==
    /\ at[t] = "recreate"
    /\ oldColumns' = FALSE
    /\ address' = [ph \in Phones |-> None]
    /\ \E last \in {i \in Ids : Exists(i)} \cup {None} :
        /\ \A i \in Ids : Exists(i) => i <= last
        /\ issued' = last
        /\ again' = again \cup {i \in Ids : last < i /\ i <= issued}
    /\ raced' = (raced \/ version > 0)
    /\ at' = [at EXCEPT ![t] = "backfill"]
    /\ UNCHANGED <<contacts, version, plan, rows, staged, task, voiced>>

\* The numbers are read before the transaction that fills in the addresses.
ReadRows(t) ==
    /\ at[t] = "backfill"
    /\ rows' = [rows EXCEPT ![t] = [i \in Ids |-> contacts[i].phone]]
    /\ at' = [at EXCEPT ![t] = "fill"]
    /\ UNCHANGED <<database, plan, staged, task, voiced, raced, again>>

Owners(t, ph) == {i \in Ids : rows[t][i] = ph}

\* Every phone that was read and has no address yet is given one (INSERT OR
\* IGNORE, in the order of the ids).
Backfilled(t) ==
    [ph \in Phones |->
        IF address[ph] # None \/ Owners(t, ph) = {} THEN address[ph]
        ELSE CHOOSE i \in Owners(t, ph) : \A j \in Owners(t, ph) : i <= j]

\* The foreign key: a contact that is given an address is still there.
Fillable(t) ==
    \A ph \in Phones :
        address[ph] = None /\ Owners(t, ph) # {} => Exists(Backfilled(t)[ph])

\* The addresses are filled in, and the version is set to 1, whatever it was ...
Backfill(t) ==
    /\ at[t] = "fill" /\ Fillable(t)
    /\ address' = Backfilled(t)
    /\ version' = 1
    /\ rows' = [rows EXCEPT ![t] = NoPlan]
    /\ at' = [at EXCEPT ![t] = "recheck"]
    /\ UNCHANGED <<contacts, issued, oldColumns, plan, staged, task, voiced, raced, again>>

\* ... or the insertion raises, and whatever the thread opened the database for
\* is not done.
BackfillRaises(t) ==
    /\ at[t] = "fill" /\ ~ Fillable(t)
    /\ rows' = [rows EXCEPT ![t] = NoPlan]
    /\ at' = [at EXCEPT ![t] = "closed"]
    /\ task' = [task EXCEPT ![t] = Nothing]
    /\ UNCHANGED <<database, plan, staged, voiced, raced, again>>

\* mutant: a rule of version 1 without its new name
RenamedButBlock(rule) ==
    CASE rule = "normal" -> "ring_through"
      [] rule = "vip" -> "ring_with_announcement"
      [] OTHER -> ""

\* _V2_ENUM_RENAMES; the empty string for a rule that is a verb already and
\* is left alone.
Renamed(rule) ==
    CASE rule = "normal" -> "ring_through"
      [] rule = "vip" -> "ring_with_announcement"
      [] rule = "block" -> "ignore"
      [] rule \in Verbs \/ rule = Absent.rule -> ""
      [] OTHER -> "ring_through"

\* _run_migrations reads the version again; _migrate_v1_to_v2 reads all rules
\* before its transaction begins ...
Recheck(t) ==
    /\ at[t] = "recheck"
    /\ IF version < 2
       THEN /\ at' = [at EXCEPT ![t] = "rename"]
            /\ plan' = [plan EXCEPT ![t] = [i \in Ids |-> Renamed(contacts[i].rule)]]
       ELSE at' = [at EXCEPT ![t] = "open"] /\ UNCHANGED plan
    /\ UNCHANGED <<database, rows, staged, task, voiced, raced, again>>

\* ... and writes the new ones, to the contacts that are still there.
Rename(t) ==
    LET renamed == {i \in Ids : Exists(i) /\ plan[t][i] # ""} IN
    /\ at[t] = "rename"
    /\ contacts' = [i \in Ids |-> IF i \in renamed
                                  THEN [contacts[i] EXCEPT !.rule = plan[t][i]]
                                  ELSE contacts[i]]
    /\ voiced' = voiced \ renamed
    /\ version' = 2
    /\ plan' = [plan EXCEPT ![t] = NoPlan]
    /\ at' = [at EXCEPT ![t] = "open"]
    /\ UNCHANGED <<issued, address, oldColumns, rows, staged, task, raced, again>>

-----------------------------------------------------------------------------
(* The skills.  Those that name a contact search the roster, and stage      *)
(* nothing if none or several have the name.                                *)

Staging(t, what) ==
    /\ t \in Voices /\ task[t] = Nothing
    /\ staged' = [staged EXCEPT ![t] = what]
    /\ UNCHANGED <<database, plan, rows, task, voiced, raced, again>>

StageAdd(t, who, phone, rule) ==
    /\ Staging(t, [Nothing EXCEPT !.kind = "add", !.who = who, !.phone = phone, !.rule = rule])
    /\ UNCHANGED at

\* The name, looked up in the roster.
Found(t, who, i) == Connected(t) /\ Closed(t) /\ IdsOf(who) = {i}

StageRule(t, who, rule) ==
    \E i \in Ids :
        /\ Found(t, who, i)
        /\ Staging(t, [Nothing EXCEPT !.kind = "rule", !.id = i, !.who = who, !.rule = rule])

\* combined: what does not fit any more is cut off.
Appended(notes, note) == IF Cardinality(notes) < NotesMax THEN notes \cup {note} ELSE notes

\* AddNoteSkill composes the notes when it stages them.
StageAppend(t, who, note) ==
    \E i \in Ids :
        /\ Found(t, who, i)
        /\ Staging(t, [Nothing EXCEPT !.kind = "append", !.id = i, !.who = who,
                            !.notes = Appended(contacts[i].notes, note),
                            !.read = contacts[i].notes])

StageReplace(t, who, note) ==
    \E i \in Ids :
        /\ Found(t, who, i)
        /\ Staging(t, [Nothing EXCEPT !.kind = "replace", !.id = i, !.who = who,
                            !.notes = {note}])

StageRemove(t, who) ==
    \E i \in Ids :
        /\ Found(t, who, i)
        /\ Staging(t, [Nothing EXCEPT !.kind = "remove", !.id = i, !.who = who])

\* confirm takes the action out of the holder and executes it, which begins
\* with opening the database.
Confirm(t) ==
    /\ t \in Voices /\ staged[t] # Nothing /\ task[t] = Nothing
    /\ task' = [task EXCEPT ![t] = staged[t]]
    /\ staged' = [staged EXCEPT ![t] = Nothing]
    /\ UNCHANGED <<database, at, plan, rows, voiced, raced, again>>

Cancel(t) ==
    /\ t \in Voices /\ staged[t] # Nothing /\ task[t] = Nothing
    /\ staged' = [staged EXCEPT ![t] = Nothing]
    /\ UNCHANGED <<database, at, plan, rows, task, voiced, raced, again>>

-----------------------------------------------------------------------------
(* The Contacts screen *)

\* A row is selected: the editor shows the contact as it is now, a rule it
\* does not know as ring_through.
OpenEditor(t, i) ==
    LET shown == IF contacts[i].rule \in Verbs THEN contacts[i].rule ELSE "ring_through" IN
    /\ t \in Screens /\ task[t] = Nothing
    /\ Connected(t) /\ Closed(t)
    /\ Exists(i)
    /\ staged' = [staged EXCEPT ![t] = [Nothing EXCEPT !.kind = "edit", !.id = i,
                      !.who = contacts[i].who, !.rule = shown,
                      !.notes = contacts[i].notes]]
    /\ UNCHANGED <<database, plan, rows, task, voiced, raced, again>>

EditRule(t, rule) ==
    /\ t \in Screens /\ staged[t] # Nothing
    /\ staged' = [staged EXCEPT ![t].rule = rule]
    /\ UNCHANGED <<database, at, plan, rows, task, voiced, raced, again>>

\* Notes typed or taken out; those too long are cut off when they are saved.
EditNotes(t, notes) ==
    /\ t \in Screens /\ staged[t] # Nothing
    /\ Cardinality(notes) <= NotesMax
    /\ staged' = [staged EXCEPT ![t].notes = notes]
    /\ UNCHANGED <<database, at, plan, rows, task, voiced, raced, again>>

\* _save_editor: the editor's whole content is written, edited or not.
SaveEditor(t) ==
    /\ t \in Screens /\ staged[t] # Nothing /\ task[t] = Nothing
    /\ task' = [task EXCEPT ![t] = staged[t]]
    /\ staged' = [staged EXCEPT ![t] = Nothing]
    /\ UNCHANGED <<database, at, plan, rows, voiced, raced, again>>

CloseEditor(t) ==
    /\ t \in Screens /\ staged[t] # Nothing
    /\ staged' = [staged EXCEPT ![t] = Nothing]
    /\ UNCHANGED <<database, at, plan, rows, task, voiced, raced, again>>

\* action_delete_contact looks the row's contact up and deletes it, in two
\* connections; the editor is closed.
DeleteRow(t, i) ==
    /\ t \in Screens /\ task[t] = Nothing
    /\ Connected(t) /\ Closed(t)
    /\ Exists(i)
    /\ task' = [task EXCEPT ![t] = [Nothing EXCEPT !.kind = "remove", !.id = i,
                                        !.who = contacts[i].who]]
    /\ staged' = [staged EXCEPT ![t] = Nothing]
    /\ UNCHANGED <<database, plan, rows, voiced, raced, again>>

-----------------------------------------------------------------------------
(* RosterStore's writes *)

Writing(t, kind) ==
    /\ task[t].kind = kind
    /\ Connected(t) /\ Closed(t)
    /\ task' = [task EXCEPT ![t] = Nothing]

\* mutant: an id is that of the last row plus one (no AUTOINCREMENT)
NextFree == CHOOSE i \in Ids : /\ ~ Exists(i)
                               /\ \A j \in Ids : j > i => ~ Exists(j)
                               /\ i = 1 \/ Exists(i - 1)

NextId == issued + 1

\* add: the contact and its address, whose channel and value are UNIQUE ...
Add(t) ==
    LET new == [who |-> task[t].who, phone |-> task[t].phone, rule |-> task[t].rule,
                notes |-> {}] IN
    /\ Writing(t, "add")
    /\ address[new.phone] = None
    /\ issued < MaxId
    /\ contacts' = [contacts EXCEPT ![NextId] = new]
    /\ address' = [address EXCEPT ![new.phone] = NextId]
    /\ issued' = IF NextId > issued THEN NextId ELSE issued
    /\ voiced' = voiced \cup {NextId}
    /\ UNCHANGED <<version, oldColumns, plan, rows, staged, raced, again>>

\* ... or neither: the insertion raises and the transaction is undone.
AddRaises(t) ==
    /\ Writing(t, "add")
    /\ address[task[t].phone] # None
    /\ UNCHANGED <<database, plan, rows, staged, voiced, raced, again>>

\* Only the columns that are given.
Write(c, w) ==
    [c EXCEPT !.rule = IF w.kind \in {"rule", "edit"} THEN w.rule ELSE @,
              !.notes = IF w.kind \in {"append", "replace", "edit"} THEN w.notes ELSE @]

\* update, of one row or of none.
Update(t) ==
    LET i == task[t].id IN
    /\ \E kind \in {"rule", "append", "replace", "edit"} : Writing(t, kind)
    /\ contacts' = IF Exists(i) THEN [contacts EXCEPT ![i] = Write(@, task[t])] ELSE contacts
    /\ voiced' = CASE task[t].kind = "rule" -> voiced \cup {i}
                    [] task[t].kind = "edit" -> voiced \ {i}
                    [] OTHER -> voiced
    /\ UNCHANGED <<issued, address, version, oldColumns, plan, rows, staged, raced, again>>

\* mutant: without PRAGMA foreign_keys
DeleteNoCascade(t) ==
    /\ Writing(t, "remove")
    /\ contacts' = [contacts EXCEPT ![task[t].id] = Absent]
    /\ UNCHANGED <<issued, address, version, oldColumns, plan, rows, staged, voiced, raced, again>>

\* delete, with the contact's addresses (ON DELETE CASCADE).
Delete(t) ==
    LET i == task[t].id IN
    /\ Writing(t, "remove")
    /\ contacts' = [contacts EXCEPT ![i] = Absent]
    /\ address' = [ph \in Phones |-> IF address[ph] = i THEN None ELSE address[ph]]
    /\ UNCHANGED <<issued, version, oldColumns, plan, rows, staged, voiced, raced, again>>

\* The process of a thread dies, and begins anew; what it had not committed
\* is undone.
Restart(t) ==
    /\ at' = [at EXCEPT ![t] = "closed"]
    /\ plan' = [plan EXCEPT ![t] = NoPlan] /\ rows' = [rows EXCEPT ![t] = NoPlan]
    /\ staged' = [staged EXCEPT ![t] = Nothing]
    /\ task' = [task EXCEPT ![t] = Nothing]
    /\ process' # process
    /\ UNCHANGED <<database, voiced, raced, again>>

-----------------------------------------------------------------------------
Next ==
    \E t \in Threads :
        \/ Connect(t) \/ ReadColumns(t) \/ Recreate(t)
        \/ ReadRows(t) \/ Backfill(t) \/ BackfillRaises(t) \/ Recheck(t) \/ Rename(t)
        \/ \E who \in Names, phone \in Phones, rule \in VoiceRules : StageAdd(t, who, phone, rule)
        \/ \E who \in Names, rule \in VoiceRules : StageRule(t, who, rule)
        \/ \E who \in Names, note \in Notes : StageAppend(t, who, note) \/ StageReplace(t, who, note)
        \/ \E who \in Names : StageRemove(t, who)
        \/ Confirm(t) \/ Cancel(t)
        \/ \E i \in Ids : OpenEditor(t, i) \/ DeleteRow(t, i)
        \/ \E rule \in EditorRules : EditRule(t, rule)
        \/ \E notes \in SUBSET Notes : EditNotes(t, notes)
        \/ SaveEditor(t) \/ CloseEditor(t)
        \/ Add(t) \/ AddRaises(t) \/ Update(t) \/ Delete(t)
        \/ Restart(t)

Spec == Init /\ [][Next]_vars

-----------------------------------------------------------------------------
TypeOK ==
    /\ contacts \in [Ids -> Contacts \cup {Absent}]
    /\ issued \in 0..MaxId
    /\ address \in [Phones -> Ids \cup {None}]
    /\ version \in 0..2 /\ oldColumns \in BOOLEAN
    /\ at \in [Threads -> Places]
    /\ plan \in [Threads -> [Ids -> Verbs \cup {""}]]
    /\ rows \in [Threads -> [Ids -> Phones \cup {""}]]
    /\ staged \in [Threads -> Tasks \cup {Nothing}]
    /\ task \in [Threads -> Tasks \cup {Nothing}]
    /\ voiced \subseteq Ids /\ again \subseteq Ids /\ raced \in BOOLEAN

\* A confirmation or a saved editor changes the contact that was named or
\* shown, or none if it is gone by then; never another one.  (The actions
\* hold an id from the time they were staged, and others delete and add
\* contacts until they are executed: it rests on ids not being used again.
\* They are when a migration from version 0 that comes late creates the table
\* anew: what is staged for a contact deleted before is then written to one
\* that was added after.)
WritesTouchOnlyTheNamed ==
    [][\A t \in Threads, i \in Ids :
           (task[t].kind \notin {"none", "add"} /\ task'[t] = Nothing
                /\ contacts'[i] # contacts[i])
               => i = task[t].id /\ (contacts[i].who = task[t].who \/ i \in again)]_vars

\* A note of a contact that stays is lost only to who meant it or could not know:
\* the skill that replaces the notes, the operator who took it out in the editor,
\* or a skill or an editor that had read the notes before it came to be there
\* (AddNoteSkill.run, _save_editor).
NotesAreLostToTheStale ==
    [][\A i \in Ids : Exists(i) /\ contacts'[i] # Absent =>
          \A note \in contacts[i].notes \ contacts'[i].notes :
              \E t \in Threads :
                 /\ task[t].id = i /\ task'[t] = Nothing /\ note \notin task[t].notes
                 /\ task[t].kind \in {"replace", "edit"} \/ note \notin task[t].read]_vars

\* A caller is found under his number, and no two contacts share one: as soon
\* as the database has been migrated, contact_addresses has exactly the phones
\* of the contacts, whoever adds, deletes and migrates meanwhile.  (Unless two
\* migrated it from version 0, and the later one dropped the table, and the
\* addresses with it, after the earlier was done: then two contacts can be
\* given one number.)
AddressesMatch ==
    version > 0 /\ ~ raced =>
        /\ \A i \in Ids : Exists(i) => address[contacts[i].phone] = i
        /\ \A ph \in Phones : address[ph] # None => contacts[address[ph]].phone = ph

\* In a database that has been migrated the rules are verbs that the engine
\* knows, however many migrated it, died on the way or wrote to it meanwhile,
\* except a rule that was set by voice: the skills still offer the rules of
\* version 1, for which the engine logs "unknown verb" and does nothing.
RulesAreVerbsUnlessVoiced ==
    version = 2 =>
        \A i \in Ids : Exists(i) /\ i \notin voiced => contacts[i].rule \in Verbs

\* The database is sound once it is migrated: callers are found under their numbers, and
\* the engine knows what to do with them.
RosterIsSound == AddressesMatch /\ RulesAreVerbsUnlessVoiced

\* What is written goes to the contact it is about and overwrites no note behind the back
\* of who had read it.
WritesAreOfTheNamed == WritesTouchOnlyTheNamed /\ NotesAreLostToTheStale
=============================================================================
