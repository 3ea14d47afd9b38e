-------------------------------- MODULE Lists --------------------------------
(***************************************************************************)
(* The lists of a call: CallListStore, a SQLite database, the ListSkill    *)
(* that a Brain runs for what the operator says, the threads that look     *)
(* something up for it, and the console's PostCallListView of one list.    *)
(*                                                                         *)
(* A step is one transaction.  Items are in the order of their ids, which  *)
(* are issued in order and never again.  What a lookup answers, and whether*)
(* the skill was given a web skill, is left to chance; exports only read,  *)
(* and nothing calls prune.                                                *)
(***************************************************************************)
EXTENDS Naturals

CONSTANTS
    Sessions,
    ItemTexts,  \* what an item may say
    Alike,      \* the pairs of texts of which one contains the other
    Lookups,    \* lookup threads
    MaxLists,   \* bound: lists ever created
    MaxItems    \* bound: items ever added

VARIABLES
    lists,      \* call_lists
    items,      \* list_items
    results,    \* items that have a row in lookup_results
    skill,      \* ListSkill.run: what it is about to write
    view,       \* PostCallListView: its list, its rows, what it is about to write
    lookup,     \* per thread: its item and where it is
    \* history
    stuck       \* items whose lookup was never asked, or died on the status "failed"

vars == <<lists, items, results, skill, view, lookup, stuck>>
tables == <<lists, items, results>>

None == 0
ListIds == 1 .. MaxLists
ItemIds == 1 .. MaxItems
NoList == [of |-> "", status |-> "none"]
NoItem == [list |-> None, text |-> "", checked |-> FALSE, lookup |-> "none", ever |-> FALSE]
Quiet == [do |-> "none", on |-> None, text |-> "", lookup |-> FALSE]
Closed == [list |-> None, rows |-> {}, toggles |-> None, to |-> FALSE]
NoLookup == [item |-> None, at |-> "none"]

TypeOK ==
    /\ lists \in [ListIds -> [of : Sessions, status : {"active", "complete"}] \cup {NoList}]
    /\ items \in [ItemIds -> [list : ListIds \cup {None}, text : ItemTexts \cup {""},
                              checked : BOOLEAN, lookup : {"none", "pending", "done"}, ever : BOOLEAN]]
    /\ results \subseteq ItemIds /\ stuck \subseteq ItemIds
    /\ skill \in [do : {"none", "start", "create", "autocreate", "add", "remove", "check"},
                  on : Nat, text : ItemTexts \cup Sessions \cup {""}, lookup : BOOLEAN]
    /\ view \in [list : ListIds \cup {None}, rows : SUBSET ItemIds,
                 toggles : ItemIds \cup {None}, to : BOOLEAN]
    /\ lookup \in [Lookups -> [item : ItemIds \cup {None},
                               at : {"none", "asks", "done"}]]

Init ==
    /\ lists = [l \in ListIds |-> NoList]
    /\ items = [i \in ItemIds |-> NoItem]
    /\ results = {} /\ stuck = {}
    /\ skill = Quiet /\ view = Closed
    /\ lookup = [t \in Lookups |-> NoLookup]

----------------------------------------------------------------------------
(* CallListStore.                                                            *)

Exists(i) == items[i].list # None
ItemsOf(l) == {i \in ItemIds : items[i].list = l}
First(S) == CHOOSE i \in S : \A j \in S : i <= j
Last(S) == CHOOSE i \in S : \A j \in S : j <= i

\* active_list: the newest that is active, or 0
Active(s) ==
    LET found == {l \in ListIds : lists[l] = [of |-> s, status |-> "active"]}
    IN IF found = {} THEN None ELSE Last(found)

NewList == First({l \in ListIds : lists[l] = NoList} \cup {MaxLists + 1})
NewItem == First({i \in ItemIds : ~items[i].ever} \cup {MaxItems + 1})

CreateList(s) ==
    /\ NewList \in ListIds
    /\ lists' = [lists EXCEPT ![NewList] = [of |-> s, status |-> "active"]]
    /\ UNCHANGED <<items, results>>

\* set_lookup_status, of one row or of none
SetStatus(i, status) ==
    /\ items' = IF Exists(i) THEN [items EXCEPT ![i].lookup = status] ELSE items
    /\ UNCHANGED <<lists, results>>

\* remove_item, with its results (ON DELETE CASCADE)
RemoveItem(i) ==
    /\ items' = [items EXCEPT ![i] = [NoItem EXCEPT !.ever = items[i].ever]]
    /\ results' = results \ {i}
    /\ UNCHANGED lists

CheckItem(i, checked) ==
    /\ items' = IF Exists(i) THEN [items EXCEPT ![i].checked = checked] ELSE items
    /\ UNCHANGED <<lists, results>>

StartLookup(i) ==
    \E t \in Lookups : /\ lookup[t] = NoLookup
                       /\ lookup' = [lookup EXCEPT ![t] = [item |-> i, at |-> "asks"]]

----------------------------------------------------------------------------
(* ListSkill.                                                                *)

Does(what, on, text, looks) ==
    skill' = [do |-> what, on |-> on, text |-> text, lookup |-> looks]

\* _start reads the active list; if there is one it must be told to replace it ...
Start(s, replace) ==
    /\ skill = Quiet
    /\ Active(s) # None => replace
    /\ Does(IF Active(s) = None THEN "create" ELSE "start", Active(s), s, FALSE)
    /\ UNCHANGED <<tables, view, lookup, stuck>>

\* mutant: the old list is left as it is
NoComplete ==
    /\ skill.do = "start"
    /\ Does("create", None, skill.text, FALSE)
    /\ UNCHANGED <<tables, view, lookup, stuck>>

\* ... completes that one ...
Complete ==
    /\ skill.do = "start"
    /\ lists' = [lists EXCEPT ![skill.on].status = "complete"]
    /\ Does("create", None, skill.text, FALSE)
    /\ UNCHANGED <<items, results, view, lookup, stuck>>

\* ... and creates the other.
Create ==
    /\ skill.do = "create"
    /\ CreateList(skill.text)
    /\ skill' = Quiet
    /\ UNCHANGED <<view, lookup, stuck>>

\* _add reads the active list, or creates one ...
Add(s, text, looks) ==
    /\ skill = Quiet
    /\ IF Active(s) # None THEN Does("add", Active(s), text, looks) /\ UNCHANGED tables
       ELSE Does("add", NewList, text, looks) /\ CreateList(s)
    /\ UNCHANGED <<view, lookup, stuck>>

\* ... adds the item, and starts a thread that looks it up, if it has a web skill.
AddItem ==
    /\ skill.do = "add" /\ NewItem \in ItemIds
    /\ items' = [items EXCEPT ![NewItem] =
                    [list |-> skill.on, text |-> skill.text, checked |-> FALSE, ever |-> TRUE,
                     lookup |-> IF skill.lookup THEN "pending" ELSE "none"]]
    /\ \/ skill.lookup /\ StartLookup(NewItem) /\ UNCHANGED stuck
       \/ skill.lookup /\ stuck' = stuck \cup {NewItem} /\ UNCHANGED lookup
       \/ ~skill.lookup /\ UNCHANGED <<lookup, stuck>>
    /\ skill' = Quiet
    /\ UNCHANGED <<lists, results, view>>

\* _find_item: the first that contains the text or is contained in it
Matching(l, text) == {i \in ItemsOf(l) : items[i].text = text \/ {items[i].text, text} \in Alike}

\* _remove and _check read the active list and its items ...
Find(s, text, what) ==
    LET found == Matching(Active(s), text) IN
    /\ skill = Quiet
    /\ Active(s) # None /\ found # {}
    /\ Does(what, First(found), text, FALSE)
    /\ UNCHANGED <<tables, view, lookup, stuck>>

\* ... and write, whether the item is still there or not.
Write ==
    /\ \/ skill.do = "remove" /\ RemoveItem(skill.on)
       \/ skill.do = "check" /\ CheckItem(skill.on, TRUE)
    /\ skill' = Quiet
    /\ UNCHANGED <<view, lookup, stuck>>

----------------------------------------------------------------------------
(* A lookup thread, of the skill or of the view.                             *)

Goes(t, at) == lookup' = [lookup EXCEPT ![t] = IF at = "none" THEN NoLookup ELSE [@ EXCEPT !.at = at]]

\* mutant: the result is only stored
AnswerUntold(t) ==
    /\ lookup[t].at = "asks" /\ Goes(t, "done")
    /\ UNCHANGED <<tables, skill, view, stuck>>

\* An answer: the status is set ...
Answer(t) ==
    /\ lookup[t].at = "asks"
    /\ SetStatus(lookup[t].item, "done")
    /\ Goes(t, "done")
    /\ UNCHANGED <<skill, view, stuck>>

\* ... and the result stored, which raises if the item is gone by then; "failed"
\* is then set for no row.
Store(t) ==
    /\ lookup[t].at = "done"
    /\ results' = IF Exists(lookup[t].item) THEN results \cup {lookup[t].item} ELSE results
    /\ Goes(t, "none")
    /\ UNCHANGED <<lists, items, skill, view, stuck>>

\* No answer: "failed" is not a status the table allows.  It raises, and again where
\* it is caught, and the thread dies, unless there is no row to be written.
Fail(t) ==
    /\ lookup[t].at = "asks"
    /\ stuck' = IF Exists(lookup[t].item) THEN stuck \cup {lookup[t].item} ELSE stuck
    /\ Goes(t, "none")
    /\ UNCHANGED <<tables, skill, view>>

----------------------------------------------------------------------------
(* PostCallListView, of a list that was active and had items when it opened. *)

Open(s) ==
    /\ view = Closed
    /\ Active(s) # None /\ ItemsOf(Active(s)) # {}
    /\ view' = [Closed EXCEPT !.list = Active(s), !.rows = ItemsOf(Active(s))]
    /\ UNCHANGED <<tables, skill, lookup, stuck>>

Close ==
    /\ view.list # None /\ view' = Closed
    /\ UNCHANGED <<tables, skill, lookup, stuck>>

Awaits == view.list # None /\ view.toggles = None

\* action_toggle_check reads the item ...
Toggle(i) ==
    /\ Awaits /\ i \in view.rows /\ i \in ItemsOf(view.list)
    /\ view' = [view EXCEPT !.toggles = i, !.to = ~items[i].checked]
    /\ UNCHANGED <<tables, skill, lookup, stuck>>

\* ... and writes the opposite.
Toggled ==
    /\ view.toggles # None
    /\ CheckItem(view.toggles, view.to)
    /\ view' = [view EXCEPT !.rows = ItemsOf(view.list), !.toggles = None, !.to = FALSE]
    /\ UNCHANGED <<skill, lookup, stuck>>

Delete(i) ==
    /\ Awaits /\ i \in view.rows
    /\ RemoveItem(i)
    /\ view' = [view EXCEPT !.rows = ItemsOf(view.list) \ {i}]
    /\ UNCHANGED <<skill, lookup, stuck>>

\* action_lookup_now, if the view was given a web skill
LookUp(i) ==
    /\ Awaits /\ i \in view.rows /\ i \in ItemsOf(view.list)
    /\ SetStatus(i, "pending")
    /\ StartLookup(i)
    /\ UNCHANGED <<skill, view, stuck>>

----------------------------------------------------------------------------
Next ==
    \/ \E s \in Sessions :
          \/ \E replace \in BOOLEAN : Start(s, replace)
          \/ \E text \in ItemTexts :
                \/ \E looks \in BOOLEAN : Add(s, text, looks)
                \/ \E what \in {"remove", "check"} : Find(s, text, what)
          \/ Open(s)
    \/ Complete \/ Create \/ AddItem \/ Write
    \/ \E t \in Lookups : Answer(t) \/ Store(t) \/ Fail(t)
    \/ Close \/ Toggled
    \/ \E i \in ItemIds : Toggle(i) \/ Delete(i) \/ LookUp(i)

Spec == Init /\ [][Next]_vars

----------------------------------------------------------------------------
(* Properties.                                                               *)

\* A call has one active list, which is the one everything is added to and shown of,
\* however often it was replaced (_start, _active_or_auto_start).
OneActiveList ==
    \A l, k \in ListIds :
        lists[l].status = "active" /\ lists[k].status = "active" /\ lists[l].of = lists[k].of
            => l = k

\* An item is "pending" as long as a thread looks it up, and "done" when there is a
\* result or the thread is about to store it, whatever was deleted or asked again
\* meanwhile, unless nothing was there to look it up or the thread died on the status
\* "failed" (_run_lookup, _do_lookup).
LookupsAreTrue ==
    \A i \in ItemIds : Exists(i) /\ i \notin stuck =>
        /\ items[i].lookup = "pending" => \E t \in Lookups : lookup[t].item = i
        /\ items[i].lookup = "done" =>
              i \in results \/ \E t \in Lookups : lookup[t].item = i

\* Everything of a call goes on one list, and what it says of its lookups is so.
ListsAreTrue == OneActiveList /\ LookupsAreTrue
=============================================================================
