------------------------------ MODULE WriteBack ------------------------------
(***************************************************************************)
(* What becomes of the facts and action items of one call: the rows that   *)
(* the live capture (layer 1) inserts, the operator's confirmations, the   *)
(* PostCallEnricher thread that rewrites and merges them (layer 3), and    *)
(* finalize_writeback, which copies what is confirmed to the AfterStore.   *)
(*                                                                         *)
(* Every call of a store is one transaction and one step.  A step that     *)
(* writes to the AfterStore may raise, which ends the attempt, and the     *)
(* daemon may stop between any two.  The caller is on the roster (without  *)
(* a contact finalize_writeback returns at once).                          *)
(***************************************************************************)
EXTENDS Naturals, FiniteSets, Sequences, FiniteSetsExt

CONSTANTS
    Turns,          \* transcript turn ids
    Own,            \* the turns whose promise is the operator's own
    Facts,          \* facts of a durable type, by value
    Clients,        \* DaemonAPI handler threads
    MaxExtracts,    \* bound: action items the LLM returns
    MaxConfirms,    \* bound: the operator's confirmations and dismissals
    MaxItems,       \* bound: promises heard in the call
    MaxAttempts     \* bound: calls of finalize_writeback

ASSUME TurnsAssumption == Turns \subseteq Nat /\ Own \subseteq Turns
ASSUME BoundsAssumption ==
    /\ MaxExtracts \in Nat /\ MaxConfirms \in Nat
    /\ MaxItems \in Nat /\ MaxAttempts \in Nat

VARIABLES
    ended,          \* the session has stopped: no more layer 1 rows
    items,          \* rows of action_items
    nextId,         \* the next fresh row id
    confirms,
    facts,          \* rows of captured_facts: absent, new or confirmed
    enricher,       \* the enricher thread: place, extracts, and the one in hand
    writer,         \* each client's finalize_writeback: place, card read, items left
    attempts,
    callLog,        \* call_log has a row of this session
    commitments,    \* rows of commitment: the item's id and wording
    notes,          \* NotesStore: ids of the items captured
    contactFacts,   \* rows of contact_fact
    written,        \* call_cards.written_back
    agreed,         \* history: wordings the operator has confirmed, by id
    overwritten,    \* history: ids whose wording was replaced after that
    logged          \* history: the card read by the attempt that has the call_log row

card == <<items, nextId, facts, confirms>>
after == <<callLog, commitments, notes, contactFacts>>
history == <<agreed, overwritten, logged>>
vars == <<ended, card, enricher, writer, attempts, after, written, history>>

Heard == 0      \* the wording of layer 1; extract n words an item as n
Edited == MaxExtracts + 1      \* the operator's own words
Wordings == 0 .. Edited
Rows == [id : Nat, turn : Turns, layer : {1, 3}, wording : Wordings, confirmed : BOOLEAN]
Extracts == (SUBSET Turns) \ {{}}      \* the turns one extract covers
NoCard == [items |-> {}, facts |-> {}]
Resting == [at |-> "rest", card |-> NoCard, left |-> {}]

TypeOK ==
    /\ ended \in BOOLEAN
    /\ items \subseteq Rows
    /\ nextId \in Nat
    /\ confirms \in 0 .. MaxConfirms
    /\ facts \in [Facts -> {"absent", "new", "confirmed"}]
    /\ enricher \in [at : {"waiting", "upsert", "delete", "done", "failed", "gone"},
                    extracts : Seq(Extracts), next : Nat]
    /\ writer \in [Clients ->
          [at : {"rest", "log", "commit", "note", "fact", "mark"},
           card : [items : SUBSET Rows, facts : SUBSET Facts], left : SUBSET Rows]]
    /\ attempts \in 0 .. MaxAttempts
    /\ {callLog, written} \subseteq BOOLEAN
    /\ commitments \in Seq(Nat \X Wordings)
    /\ notes \in Seq(Nat)
    /\ contactFacts \subseteq Facts
    /\ agreed \subseteq Nat \X Wordings
    /\ overwritten \subseteq Nat

Init ==
    /\ ended = FALSE
    /\ items = {}
    /\ nextId = 1
    /\ confirms = 0
    /\ facts = [f \in Facts |-> "absent"]
    /\ enricher = [at |-> "waiting", extracts |-> <<>>, next |-> 1]
    /\ writer = [c \in Clients |-> Resting]
    /\ attempts = 0
    /\ callLog = FALSE
    /\ commitments = <<>> /\ notes = <<>>
    /\ contactFacts = {}
    /\ written = FALSE
    /\ agreed = {} /\ overwritten = {}
    /\ logged = NoCard

----------------------------------------------------------------------------
(* The call, and the operator.                                               *)

Row(turn, layer, wording) ==
    [id |-> nextId, turn |-> turn, layer |-> layer, wording |-> wording, confirmed |-> FALSE]

\* add_action_item: a row for each promise in the turn that is being processed.
CaptureItem(turn) ==
    /\ ~ended
    /\ nextId <= MaxItems
    /\ \A row \in items : row.turn <= turn
    /\ items' = items \cup {Row(turn, 1, Heard)}
    /\ nextId' = nextId + 1
    /\ UNCHANGED <<ended, facts, confirms, enricher, writer, attempts, after, written,
                   history>>

CaptureFact(f) ==
    /\ ~ended
    /\ facts[f] = "absent"
    /\ facts' = [facts EXCEPT ![f] = "new"]
    /\ UNCHANGED <<ended, items, nextId, confirms, enricher, writer, attempts, after, written, history>>

\* confirm_action_item, by id: confirmed or dismissed, as it is worded at that
\* moment or in the operator's words.
ConfirmItem(row, yes, wording) ==
    /\ confirms < MaxConfirms
    /\ confirms' = confirms + 1
    /\ items' = (items \ {row}) \cup {[row EXCEPT !.confirmed = yes, !.wording = wording]}
    /\ agreed' = IF yes THEN agreed \cup {<<row.id, wording>>} ELSE agreed
    /\ UNCHANGED <<ended, nextId, facts, enricher, writer, attempts, after, written,
                   overwritten, logged>>

\* A corrected value is another fact.
ConfirmFact(f, yes) ==
    /\ facts[f] # "absent"
    /\ confirms < MaxConfirms
    /\ confirms' = confirms + 1
    /\ facts' = [facts EXCEPT ![f] = IF yes THEN "confirmed" ELSE "new"]
    /\ UNCHANGED <<ended, items, nextId, enricher, writer, attempts, after, written, history>>

\* stop_session
EndCall ==
    /\ ~ended
    /\ ended' = TRUE
    /\ UNCHANGED <<card, enricher, writer, attempts, after, written, history>>

----------------------------------------------------------------------------
(* PostCallEnricher.  What the LLM extracts is arbitrary: turns nobody       *)
(* flagged, and the same turn in two extracts, included.                     *)

EnricherAt(place) == enricher.at = place /\ ended
Enriching == {"waiting", "upsert", "delete"}
Stopped(how) == [at |-> how, extracts |-> <<>>, next |-> 1]
Extract == enricher.extracts[enricher.next]
Primary == Min(Extract)

\* mutant: the primary turn is not taken out of the turns to delete
AllTurns == Extract

Duplicates == Extract \ {Primary}

\* A layer 1 row at one of the given turns.
Flagged(row, turns) == row.layer = 1 /\ row.turn \in turns

\* upsert_enriched_fact, for a fact that is not there (it refreshes one that is;
\* next to a confirmed one it inserts another row of the same value).
UpsertEnrichedFact(f) ==
    /\ EnricherAt("waiting")
    /\ facts[f] = "absent"
    /\ facts' = [facts EXCEPT ![f] = "new"]
    /\ UNCHANGED <<ended, items, nextId, confirms, enricher, writer, attempts, after, written, history>>

Extracted(extracts) ==
    /\ EnricherAt("waiting")
    /\ enricher' = [at |-> IF extracts = <<>> THEN "done" ELSE "upsert",
                    extracts |-> extracts, next |-> 1]
    /\ UNCHANGED <<ended, card, writer, attempts, after, written, history>>

\* upsert_enriched_action_item: reword the layer 1 row of the primary turn,
\* confirmed or not; without one, insert a row of layer 3.
UpsertItem ==
    /\ EnricherAt("upsert")
    /\ LET hit == {row \in items : Flagged(row, {Primary})}
       IN  IF hit # {}
             THEN /\ items' = (items \ hit)
                        \cup {[row EXCEPT !.wording = enricher.next] : row \in hit}
                  /\ overwritten' = overwritten \cup {row.id : row \in {r \in hit : r.confirmed}}
                  /\ UNCHANGED nextId
             ELSE /\ items' = items \cup {Row(Primary, 3, enricher.next)}
                  /\ nextId' = nextId + 1
                  /\ UNCHANGED overwritten
    /\ enricher' = [enricher EXCEPT !.at = "delete"]
    /\ UNCHANGED <<ended, facts, confirms, writer, attempts, after, written, agreed, logged>>

\* delete_action_items_by_turn, confirmed rows included, and on to the next
\* extract; after the last one mark_enrichment_done.
DeleteDuplicates ==
    /\ EnricherAt("delete")
    /\ items' = {row \in items : ~Flagged(row, Duplicates)}
    /\ enricher' = IF enricher.next < Len(enricher.extracts)
                     THEN [enricher EXCEPT !.at = "upsert", !.next = @ + 1]
                     ELSE [enricher EXCEPT !.at = "done"]
    /\ UNCHANGED <<ended, nextId, facts, confirms, writer, attempts, after, written, history>>

\* No key or no transcript; or a timeout, an exception anywhere (enrichment_done
\* = 2), and what has been applied stays.
EnrichmentFails ==
    /\ \E place \in Enriching : EnricherAt(place)
    /\ enricher' = Stopped("failed")
    /\ UNCHANGED <<ended, card, writer, attempts, after, written, history>>

----------------------------------------------------------------------------
(* finalize_writeback, by the client's handler thread.                       *)

Confirmed(row) == row.confirmed

\* get_call_card, of which only what is confirmed will be copied.
ReadCard ==
    [items |-> {row \in items : Confirmed(row)}, facts |-> {f \in Facts : facts[f] = "confirmed"}]

WriterAt(c, place) == writer[c].at = place
Go(c, place) == writer' = [writer EXCEPT ![c].at = place]

\* The card lists its items by their turns, and those of one turn as they were created.
IsFirst(row, rows) ==
    /\ row \in rows
    /\ \A r \in rows : row.turn < r.turn \/ (row.turn = r.turn /\ row.id <= r.id)

\* On from the item in hand, the first one that is left.
NextItem(c, row) ==
    writer' = [writer EXCEPT ![c].left = @ \ {row},
                             ![c].at = IF writer[c].left = {row} THEN "fact" ELSE "commit"]

Begin(c) ==
    /\ WriterAt(c, "rest")
    /\ attempts < MaxAttempts
    /\ attempts' = attempts + 1
    /\ writer' = [writer EXCEPT ![c] = [at |-> "log", card |-> ReadCard,
                                        left |-> ReadCard.items]]
    /\ UNCHANGED <<ended, card, enricher, after, written, history>>

\* mutant: INSERT OR IGNORE, as load_or_create has it
InsertCallLogOrIgnore(c) ==
    /\ WriterAt(c, "log")
    /\ callLog' = TRUE
    /\ logged' = writer[c].card
    /\ Go(c, IF writer[c].left = {} THEN "fact" ELSE "commit")
    /\ UNCHANGED <<ended, card, enricher, attempts, commitments, notes, contactFacts,
                   written, agreed, overwritten>>

\* insert_call_log: session_id is UNIQUE.
InsertCallLog(c) ==
    /\ WriterAt(c, "log")
    /\ ~callLog
    /\ callLog' = TRUE
    /\ logged' = writer[c].card
    /\ Go(c, IF writer[c].left = {} THEN "fact" ELSE "commit")
    /\ UNCHANGED <<ended, card, enricher, attempts, commitments, notes, contactFacts,
                   written, agreed, overwritten>>

\* The same with a row there: IntegrityError.
CallLogRefused(c) ==
    /\ WriterAt(c, "log")
    /\ callLog
    /\ writer' = [writer EXCEPT ![c] = Resting]
    /\ UNCHANGED <<ended, card, enricher, attempts, after, written,
                   agreed, overwritten, logged>>

\* insert_commitment; the operator's own promise becomes a note as well.
InsertCommitment(c) ==
    /\ WriterAt(c, "commit")
    /\ \E row \in writer[c].left :
          /\ IsFirst(row, writer[c].left)
          /\ commitments' = Append(commitments, <<row.id, row.wording>>)
          /\ IF row.turn \in Own THEN Go(c, "note") ELSE NextItem(c, row)
    /\ UNCHANGED <<ended, card, enricher, attempts, callLog, notes, contactFacts,
                   written, history>>

CaptureNote(c) ==
    /\ WriterAt(c, "note")
    /\ \E row \in writer[c].left :
          /\ IsFirst(row, writer[c].left)
          /\ notes' = Append(notes, row.id)
          /\ NextItem(c, row)
    /\ UNCHANGED <<ended, card, enricher, attempts, callLog, commitments, contactFacts,
                   written, history>>

\* upsert_contact_fact, for any fact of the card that is left.
UpsertFact(c) ==
    /\ WriterAt(c, "fact")
    /\ LET left == writer[c].card.facts \ contactFacts
       IN  IF left = {} THEN Go(c, "mark") /\ UNCHANGED contactFacts
           ELSE \E f \in left : contactFacts' = contactFacts \cup {f} /\ UNCHANGED writer
    /\ UNCHANGED <<ended, card, enricher, attempts, callLog, commitments, notes,
                   written, history>>

\* mutant: the card is marked as soon as it has a call_log row
MarkEarly(c) ==
    /\ writer[c].at \in {"commit", "note", "fact", "mark"}
    /\ written' = TRUE
    /\ IF WriterAt(c, "mark") THEN writer' = [writer EXCEPT ![c] = Resting]
                              ELSE UNCHANGED writer
    /\ UNCHANGED <<ended, card, enricher, attempts, after, history>>

MarkWrittenBack(c) ==
    /\ WriterAt(c, "mark")
    /\ written' = TRUE
    /\ writer' = [writer EXCEPT ![c] = Resting]
    /\ UNCHANGED <<ended, card, enricher, attempts, after, history>>

\* Any of these steps raises: sqlite is locked or full, the notes file is not
\* writable.  The exception ends the handler thread; what was inserted stays.
WriterRaises(c) ==
    /\ ~WriterAt(c, "rest")
    /\ writer' = [writer EXCEPT ![c] = Resting]
    /\ UNCHANGED <<ended, card, enricher, attempts, after, written, history>>

----------------------------------------------------------------------------
\* The daemon stops: nothing resumes a write-back or an enrichment, and a call
\* that was being recorded is over.
Restart ==
    /\ ended' = TRUE
    /\ enricher' = IF enricher.at \in Enriching THEN Stopped("gone") ELSE enricher
    /\ writer' = [c \in Clients |-> Resting]
    /\ UNCHANGED <<card, attempts, after, written, history>>

CaptureStep ==
    \/ \E turn \in Turns : CaptureItem(turn)
    \/ \E f \in Facts : CaptureFact(f) \/ \E yes \in BOOLEAN : ConfirmFact(f, yes)
    \/ \E row \in items, yes \in BOOLEAN :
          \E wording \in {row.wording, Edited} : ConfirmItem(row, yes, wording)
    \/ EndCall

EnricherStep ==
    \/ \E f \in Facts : UpsertEnrichedFact(f)
    \/ \E n \in 0 .. MaxExtracts : \E extracts \in [1 .. n -> Extracts] : Extracted(extracts)
    \/ UpsertItem
    \/ DeleteDuplicates
    \/ EnrichmentFails

WriterStep(c) ==
    \/ Begin(c)
    \/ InsertCallLog(c)
    \/ CallLogRefused(c)
    \/ InsertCommitment(c)
    \/ CaptureNote(c)
    \/ UpsertFact(c)
    \/ MarkWrittenBack(c)
    \/ WriterRaises(c)

Next ==
    \/ CaptureStep
    \/ EnricherStep
    \/ \E c \in Clients : WriterStep(c)
    \/ Restart

Spec == Init /\ [][Next]_vars

----------------------------------------------------------------------------
(* Properties.                                                             *)

Once(seq, e) == Cardinality({i \in DOMAIN seq : seq[i] = e}) = 1

\* written_back is 1 only when every confirmed item and fact of the card that was
\* read is in the AfterStore, once, and the operator's own promises in the notes
\* (finalize_writeback's docstring), whatever raised or was restarted before.
WrittenBackMeansAll ==
    written =>
        /\ \A row \in logged.items :
              /\ Once(commitments, <<row.id, row.wording>>)
              /\ row.turn \in Own => Once(notes, row.id)
        /\ logged.facts \subseteq contactFacts

\* No promise is recorded twice, by a retry or by two clients at once: call_log's
\* UNIQUE session_id lets one attempt through.
CommittedOnce ==
    \A i, j \in DOMAIN commitments : commitments[i][1] = commitments[j][1] => i = j

\* What is recorded as promised was confirmed by the operator in these words,
\* unless the enricher replaced the words of an item confirmed before.
CommittedAsAgreed ==
    \A i \in DOMAIN commitments :
        commitments[i] \in agreed \/ commitments[i][1] \in overwritten

\* Merging loses no extract: when the enricher is done each has its row, as long
\* as no turn is claimed by two of them (deleting the duplicates of the second
\* could then delete the row of the first).
EveryExtractHasItsRow ==
    LET ex == enricher.extracts
        disjoint == \A m, n \in DOMAIN ex : m # n => ex[m] \cap ex[n] = {}
    IN  (enricher.at = "done" /\ disjoint) =>
            \A n \in DOMAIN ex : \E row \in items :
                row.wording \in {n, Edited} /\ row.turn = Min(ex[n])

\* Every promise on record was made, in these words, and is there once.
PromisesAreAsAgreed == CommittedOnce /\ CommittedAsAgreed
=============================================================================
