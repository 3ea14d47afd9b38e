--------------------------- MODULE WriteBack_proofs ---------------------------
(***************************************************************************)
(* Proofs about WriteBack, for any turns, facts and handler threads and    *)
(* any number of extracts, confirmations and attempts: a card marked as    *)
(* written back is in the AfterStore whole, what is recorded as promised   *)
(* was agreed and is recorded once, and merging loses no extract.          *)
(***************************************************************************)
EXTENDS WriteBack, FiniteSetTheorems, WellFoundedInduction, TLAPS

UniqueIds(rows) == \A r, s \in rows : r.id = s.id => r = s
Promise(row) == <<row.id, row.wording>>

\* A row of action_items has an id of its own, the next one's is fresh.
IdsAreUnique ==
    /\ UniqueIds(items)
    /\ \A row \in items : row.id < nextId

\* A row with the operator's yes was worded as it is when the operator saw it, unless
\* the enricher has replaced the words.
Agreed(row) == Promise(row) \in agreed \/ row.id \in overwritten
ConfirmedAreAgreed == \A row \in items : row.confirmed => Agreed(row)

\* The card a writer holds has unique ids and rows that were agreed; the items it has
\* left are of that card, and all of it before the first.
CardsAreSound ==
    \A c \in Clients :
        /\ UniqueIds(writer[c].card.items)
        /\ writer[c].left \subseteq writer[c].card.items
        /\ writer[c].at = "log" => writer[c].left = writer[c].card.items
        /\ \A row \in writer[c].card.items : Agreed(row)

\* The place of the enricher in what it extracted.
PlaceIsInExtracts ==
    /\ Len(enricher.extracts) <= MaxExtracts
    /\ enricher.next >= 1
    /\ enricher.at \in {"upsert", "delete"} => enricher.next <= Len(enricher.extracts)
    /\ enricher.at = "done" => Len(enricher.extracts) <= enricher.next

\* The extracts that have been upserted.
Upserted(n) ==
    n < enricher.next \/ (n = enricher.next /\ enricher.at \in {"delete", "done"})

Disjoint(ex) == \A m, n \in DOMAIN ex : m # n => ex[m] \cap ex[n] = {}
RowOf(n, ex) == \E row \in items : row.wording \in {n, Edited} /\ row.turn = Min(ex[n])

\* Each of these has its row.
UpsertedHaveRows ==
    Disjoint(enricher.extracts) =>
        \A n \in DOMAIN enricher.extracts : Upserted(n) => RowOf(n, enricher.extracts)

\* Writers beyond insert_call_log.
Past == {c \in Clients : writer[c].at \in {"commit", "note", "fact", "mark"}}

\* One attempt gets there, once: it holds the card that is logged.
OneWriter ==
    /\ ~callLog => commitments = <<>> /\ notes = <<>> /\ ~written /\ Past = {}
    /\ written => Past = {}
    /\ \A c, d \in Past : c = d
    /\ \A c \in Past : writer[c].card = logged

\* No item is committed or noted twice.
NotedOnce == \A i, j \in DOMAIN notes : notes[i] = notes[j] => i = j

\* What the writer has behind it is in the stores; what it has left is not, but for
\* the commitment of the item whose note is next.
IsCommitted(row) == \E i \in DOMAIN commitments : commitments[i] = Promise(row)
IsNoted(row) == row.turn \in Own => \E i \in DOMAIN notes : notes[i] = row.id
InHand(c, row) == writer[c].at = "note" /\ IsFirst(row, writer[c].left)

BehindIsStored ==
    \A c \in Past :
        /\ \A row \in writer[c].card.items \ writer[c].left : IsCommitted(row) /\ IsNoted(row)
        /\ \A row \in writer[c].left : InHand(c, row) => IsCommitted(row)
        /\ writer[c].at \in {"fact", "mark"} => writer[c].left = {}
        /\ writer[c].at = "mark" => writer[c].card.facts \subseteq contactFacts

LeftIsNotStored ==
    \A c \in Past : \A row \in writer[c].left :
        /\ \A i \in DOMAIN commitments : commitments[i][1] = row.id => InHand(c, row)
        /\ \A i \in DOMAIN notes : notes[i] # row.id

\* The whole card is there when it is marked, and stays there.
WrittenIsWhole ==
    written =>
        /\ \A row \in logged.items : IsCommitted(row) /\ IsNoted(row)
        /\ logged.facts \subseteq contactFacts

\* The inductive invariant.
IInv ==
    /\ TypeOK
    /\ IdsAreUnique
    /\ ConfirmedAreAgreed
    /\ CardsAreSound
    /\ PlaceIsInExtracts
    /\ UpsertedHaveRows
    /\ OneWriter
    /\ CommittedAsAgreed
    /\ CommittedOnce
    /\ NotedOnce
    /\ BehindIsStored
    /\ LeftIsNotStored
    /\ WrittenIsWhole

USE TurnsAssumption, BoundsAssumption

----------------------------------------------------------------------------
\* A set of natural numbers that is not empty has a least member.
LEMMA Least ==
    ASSUME NEW T, T \subseteq Nat, T # {}
    PROVE  \E x \in T : \A y \in T : x <= y
<1>1. IsWellFoundedOn(OpToRel(<, Nat), Nat)
  BY NatLessThanWellFounded
<1>2. PICK x \in T : \A y \in T : ~ (<<y, x>> \in OpToRel(<, Nat))
  BY <1>1, WFMin
<1>3. \A y \in T : ~ (y < x)
  BY <1>2 DEF OpToRel
<1>4. QED
  BY <1>3

\* The primary turn of an extract is one of its turns.
LEMMA PrimaryIsIn ==
    ASSUME NEW e \in Extracts
    PROVE  Min(e) \in e /\ Min(e) \in Turns
<1>1. e \subseteq Nat /\ e # {} /\ e \subseteq Turns
  BY DEF Extracts
<1>2. \E x \in e : \A y \in e : x <= y
  BY <1>1, Least
<1>3. Min(e) \in e
  BY <1>2 DEF Min
<1>4. QED
  BY <1>1, <1>3

\* An element that is at one place is there once.
LEMMA OncePlace ==
    ASSUME NEW seq, NEW e, NEW i \in DOMAIN seq, seq[i] = e,
           \A j \in DOMAIN seq : seq[j] = e => j = i
    PROVE  Once(seq, e)
<1>1. {j \in DOMAIN seq : seq[j] = e} = {i}
  OBVIOUS
<1>2. Cardinality({i}) = 1
  BY FS_Singleton
<1>3. QED
  BY <1>1, <1>2 DEF Once

\* Rows with ids of their own have one first.
LEMMA OneIsFirst ==
    ASSUME NEW rows, rows \subseteq Rows, UniqueIds(rows),
           NEW r, NEW s, IsFirst(r, rows), IsFirst(s, rows)
    PROVE  r = s
<1>1. r \in rows /\ s \in rows /\ r \in Rows /\ s \in Rows
  BY DEF IsFirst
<1>2. r.turn \in Nat /\ s.turn \in Nat /\ r.id \in Nat /\ s.id \in Nat
  BY <1>1 DEF Rows
<1>3. /\ s.turn < r.turn \/ (s.turn = r.turn /\ s.id <= r.id)
      /\ r.turn < s.turn \/ (r.turn = s.turn /\ r.id <= s.id)
  BY <1>1 DEF IsFirst
<1>4. r.id = s.id
  BY <1>2, <1>3
<1>5. QED
  BY <1>1, <1>4 DEF UniqueIds

\* What an Append adds to a sequence.
LEMMA Appended ==
    ASSUME NEW S, NEW seq \in Seq(S), NEW e \in S
    PROVE  /\ Append(seq, e) \in Seq(S)
           /\ \A i \in DOMAIN seq : i \in DOMAIN Append(seq, e) /\ Append(seq, e)[i] = seq[i]
           /\ \E i \in DOMAIN Append(seq, e) : Append(seq, e)[i] = e
           /\ \A i \in DOMAIN Append(seq, e) :
                 \/ i \in DOMAIN seq /\ Append(seq, e)[i] = seq[i]
                 \/ i = Len(seq) + 1 /\ i \notin DOMAIN seq /\ Append(seq, e)[i] = e
<1>1. /\ Append(seq, e) \in Seq(S)
      /\ DOMAIN seq = 1 .. Len(seq) /\ Len(seq) \in Nat
      /\ DOMAIN Append(seq, e) = 1 .. Len(seq) + 1
  OBVIOUS
<1>2. /\ \A i \in 1 .. Len(seq) : Append(seq, e)[i] = seq[i]
      /\ Append(seq, e)[Len(seq) + 1] = e
  OBVIOUS
<1>3. \A i \in 1 .. Len(seq) + 1 : i \in 1 .. Len(seq) \/ i = Len(seq) + 1
  BY <1>1
<1>4. Len(seq) + 1 \notin 1 .. Len(seq) /\ Len(seq) + 1 \in 1 .. Len(seq) + 1
  BY <1>1
<1>5. QED
  BY <1>1, <1>2, <1>3, <1>4

\* Extracts of a bounded number are a sequence.
LEMMA ExtractsAreSeq ==
    ASSUME NEW n \in 0 .. MaxExtracts, NEW ex \in [1 .. n -> Extracts]
    PROVE  ex \in Seq(Extracts) /\ Len(ex) = n
  OBVIOUS

----------------------------------------------------------------------------
\* The types.

LEMMA InitIInv == Init => IInv
<1> SUFFICES ASSUME Init
             PROVE  IInv
  OBVIOUS
<1> USE DEF Init, NoCard, Resting
<1>1. TypeOK
  <2>1. enricher.extracts \in Seq(Extracts) /\ enricher.next \in Nat
    OBVIOUS
  <2>2. commitments \in Seq(Nat \X Wordings) /\ notes \in Seq(Nat)
    OBVIOUS
  <2>3. enricher \in [at : {"waiting", "upsert", "delete", "done", "failed", "gone"},
                      extracts : Seq(Extracts), next : Nat]
    BY <2>1
  <2>4. writer \in [Clients ->
           [at : {"rest", "log", "commit", "note", "fact", "mark"},
            card : [items : SUBSET Rows, facts : SUBSET Facts], left : SUBSET Rows]]
    OBVIOUS
  <2>5. /\ confirms \in 0 .. MaxConfirms /\ attempts \in 0 .. MaxAttempts
        /\ facts \in [Facts -> {"absent", "new", "confirmed"}]
    OBVIOUS
  <2>6. QED
    BY <2>2, <2>3, <2>4, <2>5 DEF TypeOK
<1>2. IdsAreUnique /\ ConfirmedAreAgreed
  BY DEF IdsAreUnique, UniqueIds, ConfirmedAreAgreed
<1>3. CardsAreSound
  BY DEF CardsAreSound, UniqueIds
<1>4. PlaceIsInExtracts /\ UpsertedHaveRows
  BY DEF PlaceIsInExtracts, UpsertedHaveRows
<1>5. Past = {}
  BY DEF Past
<1>6. OneWriter /\ BehindIsStored /\ LeftIsNotStored /\ WrittenIsWhole
  BY <1>5 DEF OneWriter, BehindIsStored, LeftIsNotStored, WrittenIsWhole
<1>7. CommittedAsAgreed /\ CommittedOnce /\ NotedOnce
  BY DEF CommittedAsAgreed, CommittedOnce, NotedOnce
<1>8. QED
  BY <1>1, <1>2, <1>3, <1>4, <1>6, <1>7 DEF IInv

\* A place and its rest for the writer.
LEMMA WriterTypes ==
    ASSUME TypeOK, NEW c \in Clients
    PROVE  /\ writer[c].card \in [items : SUBSET Rows, facts : SUBSET Facts]
           /\ writer[c].left \subseteq Rows
           /\ writer[c].card.items \subseteq Rows
           /\ writer[c].card.facts \subseteq Facts
  BY DEF TypeOK

LEMMA CaptureTypes == TypeOK /\ IdsAreUnique /\ CaptureStep => TypeOK'
<1> SUFFICES ASSUME TypeOK, IdsAreUnique, CaptureStep
             PROVE  TypeOK'
  OBVIOUS
<1> USE DEF TypeOK, card, after, history
<1>1. ASSUME NEW turn \in Turns, CaptureItem(turn)
      PROVE  TypeOK'
  <2>1. Row(turn, 1, Heard) \in Rows
    BY DEF Row, Rows, Heard, Wordings, Edited
  <2>2. items' \subseteq Rows /\ nextId' \in Nat
    BY <1>1, <2>1 DEF CaptureItem
  <2>3. QED
    BY <1>1, <2>2 DEF CaptureItem
<1>2. ASSUME NEW f \in Facts, CaptureFact(f)
      PROVE  TypeOK'
  BY <1>2 DEF CaptureFact
<1>3. ASSUME NEW f \in Facts, NEW yes \in BOOLEAN, ConfirmFact(f, yes)
      PROVE  TypeOK'
  BY <1>3 DEF ConfirmFact
<1>4. ASSUME NEW row \in items, NEW yes \in BOOLEAN, NEW wording \in {row.wording, Edited},
             ConfirmItem(row, yes, wording)
      PROVE  TypeOK'
  <2>1. row \in Rows /\ wording \in Wordings
    BY DEF Rows, Wordings, Edited
  <2>2. [row EXCEPT !.confirmed = yes, !.wording = wording] \in Rows /\ row.id \in Nat
    BY <2>1 DEF Rows
  <2>3. items' \subseteq Rows /\ confirms' \in 0 .. MaxConfirms
    BY <1>4, <2>2 DEF ConfirmItem
  <2>4. <<row.id, wording>> \in Nat \X Wordings
    BY <2>1, <2>2
  <2>5. agreed' \subseteq Nat \X Wordings
    BY <1>4, <2>4 DEF ConfirmItem
  <2>6. QED
    BY <1>4, <2>3, <2>5 DEF ConfirmItem
<1>5. CASE EndCall
  BY <1>5 DEF EndCall
<1>6. QED
  BY <1>1, <1>2, <1>3, <1>4, <1>5 DEF CaptureStep

\* The extract in hand, its primary turn, and its number among the wordings.
LEMMA InHandExtract ==
    ASSUME TypeOK, PlaceIsInExtracts, enricher.at \in {"upsert", "delete"}
    PROVE  /\ enricher.next \in DOMAIN enricher.extracts
           /\ Extract \in Extracts
           /\ Primary \in Extract /\ Primary \in Turns
           /\ enricher.next \in Wordings
<1>1. /\ enricher.extracts \in Seq(Extracts) /\ enricher.next \in Nat
      /\ Len(enricher.extracts) \in Nat
  BY DEF TypeOK
<1>2. enricher.next \in 1 .. Len(enricher.extracts)
  BY <1>1 DEF PlaceIsInExtracts
<1>3. enricher.next \in DOMAIN enricher.extracts /\ Extract \in Extracts
  BY <1>1, <1>2 DEF Extract
<1>4. Primary \in Extract /\ Primary \in Turns
  BY <1>3, PrimaryIsIn DEF Primary
<1>5. enricher.next \in Wordings
  BY <1>1, <1>2 DEF PlaceIsInExtracts, Wordings, Edited
<1>6. QED
  BY <1>3, <1>4, <1>5

LEMMA EnricherTypes ==
    TypeOK /\ PlaceIsInExtracts /\ EnricherStep => TypeOK' /\ PlaceIsInExtracts'
<1> SUFFICES ASSUME TypeOK, PlaceIsInExtracts, EnricherStep
             PROVE  TypeOK' /\ PlaceIsInExtracts'
  OBVIOUS
<1> USE DEF TypeOK, card, after, history
<1>1. ASSUME NEW f \in Facts, UpsertEnrichedFact(f)
      PROVE  TypeOK' /\ PlaceIsInExtracts'
  BY <1>1 DEF UpsertEnrichedFact, PlaceIsInExtracts
<1>2. ASSUME NEW n \in 0 .. MaxExtracts, NEW ex \in [1 .. n -> Extracts], Extracted(ex)
      PROVE  TypeOK' /\ PlaceIsInExtracts'
  <2>1. ex \in Seq(Extracts) /\ Len(ex) = n
    BY ExtractsAreSeq
  <2>2. n = 0 => ex = <<>>
    BY <2>1
  <2>3. ex = <<>> => n = 0
    BY <2>1
  <2>4. enricher' = [at |-> IF ex = <<>> THEN "done" ELSE "upsert", extracts |-> ex, next |-> 1]
    BY <1>2 DEF Extracted
  <2>5. enricher' \in [at : {"waiting", "upsert", "delete", "done", "failed", "gone"},
                       extracts : Seq(Extracts), next : Nat]
    BY <2>1, <2>4
  <2>6. PlaceIsInExtracts'
    BY <2>1, <2>2, <2>3, <2>4 DEF PlaceIsInExtracts
  <2>7. QED
    BY <1>2, <2>5, <2>6 DEF Extracted
<1>3. CASE UpsertItem
  <2> DEFINE hit == {row \in items : Flagged(row, {Primary})}
  <2>1. Primary \in Turns /\ enricher.next \in Wordings
    BY <1>3, InHandExtract DEF UpsertItem, EnricherAt
  <2>2. \A row \in hit : [row EXCEPT !.wording = enricher.next] \in Rows /\ row.id \in Nat
    <3> SUFFICES ASSUME NEW row \in hit
                 PROVE  [row EXCEPT !.wording = enricher.next] \in Rows /\ row.id \in Nat
      OBVIOUS
    <3>1. row \in Rows
      OBVIOUS
    <3>2. QED
      BY <2>1, <3>1 DEF Rows
  <2>3. Row(Primary, 3, enricher.next) \in Rows
    BY <2>1 DEF Row, Rows
  <2>4. items' \subseteq Rows /\ nextId' \in Nat /\ overwritten' \subseteq Nat
    <3>1. CASE hit # {}
      <4>1. /\ items' = (items \ hit) \cup {[row EXCEPT !.wording = enricher.next] : row \in hit}
            /\ overwritten' = overwritten \cup {row.id : row \in {r \in hit : r.confirmed}}
            /\ nextId' = nextId
        BY <1>3, <3>1 DEF UpsertItem
      <4>2. {[row EXCEPT !.wording = enricher.next] : row \in hit} \subseteq Rows
        BY <2>2
      <4>3. {row.id : row \in {r \in hit : r.confirmed}} \subseteq Nat
        BY <2>2
      <4>4. items \subseteq Rows /\ nextId \in Nat /\ overwritten \subseteq Nat
        OBVIOUS
      <4> HIDE DEF hit
      <4>5. QED
        BY <4>1, <4>2, <4>3, <4>4
    <3>2. CASE hit = {}
      <4>1. /\ items' = items \cup {Row(Primary, 3, enricher.next)}
            /\ overwritten' = overwritten
            /\ nextId' = nextId + 1
        BY <1>3, <3>2 DEF UpsertItem
      <4>2. QED
        BY <2>3, <4>1
    <3>3. QED
      BY <3>1, <3>2
  <2>5. enricher' = [enricher EXCEPT !.at = "delete"] /\ enricher.at = "upsert"
    BY <1>3 DEF UpsertItem, EnricherAt
  <2>6. PlaceIsInExtracts'
    BY <2>5 DEF PlaceIsInExtracts
  <2>7. QED
    BY <1>3, <2>4, <2>5, <2>6 DEF UpsertItem
<1>4. CASE DeleteDuplicates
  <2>1. items' \subseteq Rows
    BY <1>4 DEF DeleteDuplicates
  <2>2. enricher.at = "delete" /\ Len(enricher.extracts) \in Nat
    BY <1>4 DEF DeleteDuplicates, EnricherAt
  <2>3. CASE enricher.next < Len(enricher.extracts)
    <3>1. enricher' = [enricher EXCEPT !.at = "upsert", !.next = @ + 1]
      BY <1>4, <2>3 DEF DeleteDuplicates
    <3>2. PlaceIsInExtracts'
      BY <2>2, <2>3, <3>1 DEF PlaceIsInExtracts
    <3>3. enricher' \in [at : {"waiting", "upsert", "delete", "done", "failed", "gone"},
                         extracts : Seq(Extracts), next : Nat]
      <4>1. enricher \in [at : {"waiting", "upsert", "delete", "done", "failed", "gone"},
                          extracts : Seq(Extracts), next : Nat]
        OBVIOUS
      <4>2. enricher.next + 1 \in Nat
        BY <4>1
      <4> HIDE DEF TypeOK, card, after, history
      <4>3. QED
        BY <3>1, <4>1, <4>2
    <3>4. QED
      BY <1>4, <2>1, <3>2, <3>3 DEF DeleteDuplicates
  <2>4. CASE ~(enricher.next < Len(enricher.extracts))
    <3>1. enricher' = [enricher EXCEPT !.at = "done"]
      BY <1>4, <2>4 DEF DeleteDuplicates
    <3>2. PlaceIsInExtracts'
      BY <2>2, <2>4, <3>1 DEF PlaceIsInExtracts
    <3>3. QED
      BY <1>4, <2>1, <3>1, <3>2 DEF DeleteDuplicates
  <2>5. QED
    BY <2>3, <2>4
<1>5. CASE EnrichmentFails
  <2>1. enricher' = [at |-> "failed", extracts |-> <<>>, next |-> 1]
    BY <1>5 DEF EnrichmentFails, Stopped
  <2>2. PlaceIsInExtracts'
    BY <2>1 DEF PlaceIsInExtracts
  <2>3. enricher' \in [at : {"waiting", "upsert", "delete", "done", "failed", "gone"},
                       extracts : Seq(Extracts), next : Nat]
    BY <2>1
  <2>4. QED
    BY <1>5, <2>2, <2>3 DEF EnrichmentFails
<1>6. QED
  BY <1>1, <1>2, <1>3, <1>4, <1>5 DEF EnricherStep

Places == {"rest", "log", "commit", "note", "fact", "mark"}
Writers == [Clients ->
    [at : Places, card : [items : SUBSET Rows, facts : SUBSET Facts], left : SUBSET Rows]]

\* Where a writer goes next, and that no other writer moves.
LEMMA WriterMoves ==
    ASSUME TypeOK, NEW c \in Clients
    PROVE  /\ writer \in Writers
           /\ \A place \in Places : Go(c, place) =>
                 /\ writer' \in Writers
                 /\ writer'[c].at = place
                 /\ writer'[c].card = writer[c].card /\ writer'[c].left = writer[c].left
                 /\ \A d \in Clients \ {c} : writer'[d] = writer[d]
           /\ \A row \in writer[c].left : NextItem(c, row) =>
                 /\ writer' \in Writers
                 /\ writer'[c].at = IF writer[c].left = {row} THEN "fact" ELSE "commit"
                 /\ writer'[c].card = writer[c].card
                 /\ writer'[c].left = writer[c].left \ {row}
                 /\ \A d \in Clients \ {c} : writer'[d] = writer[d]
<1>1. writer \in Writers
  BY DEF TypeOK, Writers, Places
<1>2. ASSUME NEW place \in Places, Go(c, place)
      PROVE  /\ writer' \in Writers
             /\ writer'[c].at = place
             /\ writer'[c].card = writer[c].card /\ writer'[c].left = writer[c].left
             /\ \A d \in Clients \ {c} : writer'[d] = writer[d]
  BY <1>1, <1>2 DEF Go, Writers
<1>3. ASSUME NEW row \in writer[c].left, NextItem(c, row)
      PROVE  /\ writer' \in Writers
             /\ writer'[c].at = IF writer[c].left = {row} THEN "fact" ELSE "commit"
             /\ writer'[c].card = writer[c].card
             /\ writer'[c].left = writer[c].left \ {row}
             /\ \A d \in Clients \ {c} : writer'[d] = writer[d]
  <2> DEFINE place == IF writer[c].left = {row} THEN "fact" ELSE "commit"
  <2>1. place \in Places
    BY DEF Places
  <2>2. writer[c].left \ {row} \in SUBSET Rows
    BY <1>1 DEF Writers
  <2>3. writer' = [writer EXCEPT ![c].left = @ \ {row}, ![c].at = place]
    BY <1>3 DEF NextItem
  <2> HIDE DEF place
  <2>4. writer'[c] = [writer[c] EXCEPT !.left = @ \ {row}, !.at = place]
    BY <1>1, <2>3 DEF Writers
  <2>5. \A d \in Clients \ {c} : writer'[d] = writer[d]
    BY <1>1, <2>3 DEF Writers
  <2>6. writer' \in Writers
    <3>1. writer'[c] \in [at : Places, card : [items : SUBSET Rows, facts : SUBSET Facts],
                          left : SUBSET Rows]
      BY <1>1, <2>1, <2>2, <2>4 DEF Writers
    <3>2. writer' \in [Clients -> {writer'[d] : d \in Clients}]
      BY <1>1, <2>3 DEF Writers
    <3>3. QED
      BY <1>1, <2>5, <3>1, <3>2 DEF Writers
  <2>7. /\ writer'[c].at = place
        /\ writer'[c].card = writer[c].card
        /\ writer'[c].left = writer[c].left \ {row}
    BY <1>1, <2>4 DEF Writers
  <2>8. QED
    BY <2>5, <2>6, <2>7 DEF place
<1>4. QED
  BY <1>1, <1>2, <1>3

\* A writer that begins with the card, or rests.
LEMMA WriterTurns ==
    ASSUME TypeOK, NEW c \in Clients
    PROVE  /\ Begin(c) =>
                 /\ writer' \in Writers
                 /\ writer'[c] = [at |-> "log", card |-> ReadCard, left |-> ReadCard.items]
                 /\ \A d \in Clients \ {c} : writer'[d] = writer[d]
           /\ writer' = [writer EXCEPT ![c] = Resting] =>
                 /\ writer' \in Writers
                 /\ writer'[c] = Resting
                 /\ \A d \in Clients \ {c} : writer'[d] = writer[d]
<1>1. writer \in Writers
  BY WriterMoves
<1>2. /\ ReadCard \in [items : SUBSET Rows, facts : SUBSET Facts]
      /\ ReadCard.items \in SUBSET Rows
  BY DEF TypeOK, ReadCard
<1>3. Resting \in [at : Places, card : [items : SUBSET Rows, facts : SUBSET Facts],
                   left : SUBSET Rows]
  BY DEF Resting, NoCard, Places
<1>4. ASSUME Begin(c)
      PROVE  /\ writer' \in Writers
             /\ writer'[c] = [at |-> "log", card |-> ReadCard, left |-> ReadCard.items]
             /\ \A d \in Clients \ {c} : writer'[d] = writer[d]
  <2>1. writer' = [writer EXCEPT ![c] = [at |-> "log", card |-> ReadCard,
                                         left |-> ReadCard.items]]
    BY <1>4 DEF Begin
  <2>2. [at |-> "log", card |-> ReadCard, left |-> ReadCard.items] \in
           [at : Places, card : [items : SUBSET Rows, facts : SUBSET Facts], left : SUBSET Rows]
    BY <1>2 DEF Places
  <2>3. QED
    BY <1>1, <2>1, <2>2 DEF Writers
<1>5. ASSUME writer' = [writer EXCEPT ![c] = Resting]
      PROVE  /\ writer' \in Writers
             /\ writer'[c] = Resting
             /\ \A d \in Clients \ {c} : writer'[d] = writer[d]
  BY <1>1, <1>3, <1>5 DEF Writers
<1>6. QED
  BY <1>4, <1>5

LEMMA WriterStepTypes ==
    ASSUME TypeOK, NEW c \in Clients, WriterStep(c)
    PROVE  TypeOK'
<1> USE DEF card, after, history
<1>1. ASSUME writer' \in Writers, attempts' \in 0 .. MaxAttempts,
             {callLog', written'} \subseteq BOOLEAN,
             commitments' \in Seq(Nat \X Wordings), notes' \in Seq(Nat),
             contactFacts' \subseteq Facts,
             UNCHANGED <<ended, card, enricher, agreed, overwritten>>
      PROVE  TypeOK'
  BY <1>1 DEF TypeOK, Writers, Places
<1>2. /\ attempts \in 0 .. MaxAttempts /\ {callLog, written} \subseteq BOOLEAN
      /\ commitments \in Seq(Nat \X Wordings) /\ notes \in Seq(Nat)
      /\ contactFacts \subseteq Facts
  BY DEF TypeOK
<1>3. CASE Begin(c)
  <2>1. writer' \in Writers
    BY <1>3, WriterTurns
  <2>2. attempts' \in 0 .. MaxAttempts
    BY <1>2, <1>3 DEF Begin
  <2>3. QED
    BY <1>1, <1>2, <1>3, <2>1, <2>2 DEF Begin
<1>4. CASE InsertCallLog(c)
  <2>1. \E place \in Places : Go(c, place)
    BY <1>4 DEF InsertCallLog, Places
  <2>2. writer' \in Writers
    BY <2>1, WriterMoves
  <2>3. QED
    BY <1>1, <1>2, <1>4, <2>2 DEF InsertCallLog
<1>5. CASE CallLogRefused(c) \/ MarkWrittenBack(c) \/ WriterRaises(c)
  <2>1. writer' \in Writers
    BY <1>5, WriterTurns DEF CallLogRefused, MarkWrittenBack, WriterRaises
  <2>2. {callLog', written'} \subseteq BOOLEAN
    BY <1>2, <1>5 DEF CallLogRefused, MarkWrittenBack, WriterRaises
  <2>3. QED
    BY <1>1, <1>2, <1>5, <2>1, <2>2 DEF CallLogRefused, MarkWrittenBack, WriterRaises
<1>6. CASE InsertCommitment(c) \/ CaptureNote(c)
  <2>1. PICK row \in writer[c].left :
           /\ Go(c, "note") \/ NextItem(c, row)
           /\ \/ /\ commitments' = Append(commitments, <<row.id, row.wording>>)
                 /\ UNCHANGED notes
              \/ notes' = Append(notes, row.id) /\ UNCHANGED commitments
    BY <1>6 DEF InsertCommitment, CaptureNote
  <2>2. writer' \in Writers
    BY <2>1, WriterMoves DEF Places
  <2>3. row \in Rows
    BY WriterTypes
  <2>4. row.id \in Nat /\ row.wording \in Wordings
    BY <2>3 DEF Rows
  <2>5. commitments' \in Seq(Nat \X Wordings) /\ notes' \in Seq(Nat)
    <3>1. <<row.id, row.wording>> \in Nat \X Wordings
      BY <2>4
    <3>2. Append(commitments, <<row.id, row.wording>>) \in Seq(Nat \X Wordings)
      BY <1>2, <3>1, Appended
    <3>3. Append(notes, row.id) \in Seq(Nat)
      BY <1>2, <2>4, Appended
    <3>4. QED
      BY <1>2, <2>1, <3>2, <3>3
  <2>6. UNCHANGED <<ended, card, enricher, attempts, callLog, contactFacts, written, history>>
    BY <1>6 DEF InsertCommitment, CaptureNote
  <2>7. QED
    BY <1>1, <1>2, <2>2, <2>5, <2>6
<1>7. CASE UpsertFact(c)
  <2>1. writer' \in Writers
    BY <1>7, WriterMoves DEF UpsertFact, Places
  <2>2. contactFacts' \subseteq Facts
    BY <1>2, <1>7, WriterTypes DEF UpsertFact
  <2>3. QED
    BY <1>1, <1>2, <1>7, <2>1, <2>2 DEF UpsertFact
<1>8. QED
  BY <1>3, <1>4, <1>5, <1>6, <1>7 DEF WriterStep

LEMMA RestartTypes == TypeOK /\ PlaceIsInExtracts /\ Restart => TypeOK' /\ PlaceIsInExtracts'
<1> SUFFICES ASSUME TypeOK, PlaceIsInExtracts, Restart
             PROVE  TypeOK' /\ PlaceIsInExtracts'
  OBVIOUS
<1> DEFINE Enrichers == [at : {"waiting", "upsert", "delete", "done", "failed", "gone"},
                         extracts : Seq(Extracts), next : Nat]
<1>1. writer' \in Writers
  BY DEF Restart, Writers, Resting, NoCard, Places
<1>2. enricher' = Stopped("gone") \/ enricher' = enricher
  BY DEF Restart
<1>3. Stopped("gone") \in Enrichers
  BY DEF Stopped
<1>4. enricher' \in Enrichers
  BY <1>2, <1>3 DEF TypeOK
<1>5. PlaceIsInExtracts'
  BY <1>2 DEF PlaceIsInExtracts, Stopped
<1>6. TypeOK'
  BY <1>1, <1>4 DEF TypeOK, Restart, card, after, history, Writers, Places
<1>7. QED
  BY <1>5, <1>6

----------------------------------------------------------------------------
\* The rows: their ids, what was agreed of them, and the row of each extract.

LEMMA RowsStep ==
    ASSUME TypeOK, IdsAreUnique, ConfirmedAreAgreed, PlaceIsInExtracts, [Next]_vars
    PROVE  IdsAreUnique' /\ ConfirmedAreAgreed'
<1> USE DEF IdsAreUnique, UniqueIds, ConfirmedAreAgreed, Agreed, Promise, card, after, history
<1>1. nextId \in Nat /\ items \subseteq Rows /\ \A row \in items : row.id \in Nat
  BY DEF TypeOK, Rows
<1>2. CASE UNCHANGED <<items, nextId, agreed, overwritten>>
  BY <1>2
<1>3. ASSUME NEW turn, NEW layer, NEW wording, UNCHANGED <<agreed, overwritten>>,
             items' = items \cup {Row(turn, layer, wording)}, nextId' = nextId + 1
      PROVE  IdsAreUnique' /\ ConfirmedAreAgreed'
  <2>1. Row(turn, layer, wording).id = nextId /\ ~Row(turn, layer, wording).confirmed
    BY DEF Row
  <2>2. ConfirmedAreAgreed'
    BY <1>3, <2>1
  <2>3. \A row \in items' : row.id < nextId'
    BY <1>1, <1>3, <2>1
  <2>4. \A r, s \in items' : r.id = s.id => r = s
    BY <1>1, <1>3, <2>1
  <2>5. QED
    BY <2>2, <2>3, <2>4
<1>4. ASSUME NEW row \in items, NEW yes \in BOOLEAN, NEW wording \in {row.wording, Edited},
             ConfirmItem(row, yes, wording)
      PROVE  IdsAreUnique' /\ ConfirmedAreAgreed'
  <2> DEFINE new == [row EXCEPT !.confirmed = yes, !.wording = wording]
  <2>1. row \in Rows
    BY <1>1
  <2>2. new.id = row.id /\ new.confirmed = yes /\ new.wording = wording
    BY <2>1 DEF Rows
  <2>3. /\ items' = (items \ {row}) \cup {new}
        /\ agreed' = IF yes THEN agreed \cup {<<row.id, wording>>} ELSE agreed
        /\ UNCHANGED <<nextId, overwritten>>
    BY <1>4 DEF ConfirmItem
  <2> HIDE DEF new
  <2>4. IdsAreUnique'
    BY <1>1, <2>2, <2>3
  <2>5. \A r \in items \ {row} : r.confirmed => Agreed(r)'
    BY <2>3
  <2>6. new.confirmed => Agreed(new)'
    BY <2>2, <2>3
  <2>7. QED
    BY <2>3, <2>4, <2>5, <2>6
<1>5. CASE UpsertItem
  <2> DEFINE hit == {row \in items : Flagged(row, {Primary})}
             New(row) == [row EXCEPT !.wording = enricher.next]
  <2>1. CASE hit = {}
    <3>1. /\ items' = items \cup {Row(Primary, 3, enricher.next)}
          /\ nextId' = nextId + 1
          /\ UNCHANGED <<agreed, overwritten>>
      BY <1>5, <2>1 DEF UpsertItem
    <3>2. QED
      BY <1>3, <3>1
  <2>2. CASE hit # {}
    <3>1. /\ items' = (items \ hit) \cup {New(row) : row \in hit}
          /\ overwritten' = overwritten \cup {row.id : row \in {r \in hit : r.confirmed}}
          /\ UNCHANGED <<nextId, agreed>>
      BY <1>5, <2>2 DEF UpsertItem
    <3>2. \A row \in hit : New(row).id = row.id /\ New(row).confirmed = row.confirmed
      BY <1>1 DEF Rows
    <3> HIDE DEF New
    <3>3. \A r \in items' : \E s \in items :
             /\ r.id = s.id /\ r.confirmed = s.confirmed
             /\ r = IF s \in hit THEN New(s) ELSE s
      BY <3>1, <3>2
    <3>4. IdsAreUnique'
      <4>1. \A r, s \in items' : r.id = s.id => r = s
        <5> SUFFICES ASSUME NEW r \in items', NEW s \in items', r.id = s.id
                     PROVE  r = s
          OBVIOUS
        <5>1. PICK r0 \in items : r.id = r0.id /\ r = IF r0 \in hit THEN New(r0) ELSE r0
          BY <3>3
        <5>2. PICK s0 \in items : s.id = s0.id /\ s = IF s0 \in hit THEN New(s0) ELSE s0
          BY <3>3
        <5>3. r0 = s0
          BY <5>1, <5>2
        <5>4. QED
          BY <5>1, <5>2, <5>3
      <4>2. \A r \in items' : r.id < nextId'
        BY <3>1, <3>3
      <4>3. QED
        BY <4>1, <4>2
    <3>5. \A r \in items' : r.confirmed => Agreed(r)'
      <4> SUFFICES ASSUME NEW r \in items', r.confirmed
                   PROVE  Agreed(r)'
        OBVIOUS
      <4>1. PICK s \in items : /\ r.id = s.id /\ r.confirmed = s.confirmed
                               /\ r = IF s \in hit THEN New(s) ELSE s
        BY <3>3
      <4>2. CASE s \in hit
        BY <3>1, <4>1, <4>2
      <4>3. CASE s \notin hit
        BY <3>1, <4>1, <4>3
      <4>4. QED
        BY <4>2, <4>3
    <3>6. QED
      BY <3>4, <3>5
  <2>3. QED
    BY <2>1, <2>2
<1>6. CASE DeleteDuplicates
  BY <1>6 DEF DeleteDuplicates
<1>7. QED
  <2>1. ASSUME NEW turn \in Turns, CaptureItem(turn)
        PROVE  IdsAreUnique' /\ ConfirmedAreAgreed'
    BY <1>3, <2>1 DEF CaptureItem
  <2>2. CASE CaptureStep
    BY <1>2, <1>4, <2>1, <2>2 DEF CaptureStep, CaptureFact, ConfirmFact, EndCall
  <2>3. CASE EnricherStep
    BY <1>2, <1>5, <1>6, <2>3
       DEF EnricherStep, UpsertEnrichedFact, Extracted, EnrichmentFails
  <2>4. ASSUME NEW c \in Clients, WriterStep(c)
        PROVE  UNCHANGED <<items, nextId, agreed, overwritten>>
    BY <2>4 DEF WriterStep, Begin, InsertCallLog, CallLogRefused, InsertCommitment,
                CaptureNote, UpsertFact, MarkWrittenBack, WriterRaises
  <2>5. CASE Restart
    BY <1>2, <2>5 DEF Restart
  <2>6. CASE UNCHANGED vars
    BY <1>2, <2>6 DEF vars
  <2>7. QED
    BY <1>2, <2>2, <2>3, <2>4, <2>5, <2>6 DEF Next

\* A row that stays what it is, or is worded by the operator.
Kept(row) ==
    \E new \in items' : /\ new.turn = row.turn
                        /\ new.wording = row.wording \/ new.wording = Edited

LEMMA KeptHasRow ==
    ASSUME NEW ex, NEW n, RowOf(n, ex), \A row \in items : row.turn = Min(ex[n]) => Kept(row)
    PROVE  \E new \in items' : new.wording \in {n, Edited} /\ new.turn = Min(ex[n])
  BY DEF RowOf, Kept

\* Extracts stay, and so does the row of each, or else there are no extracts yet.
LEMMA ExtractsStep ==
    ASSUME TypeOK, PlaceIsInExtracts, UpsertedHaveRows, [Next]_vars
    PROVE  UpsertedHaveRows'
<1> USE DEF card, after, history
<1> DEFINE ex == enricher.extracts
<1>1. ex \in Seq(Extracts) /\ items \subseteq Rows
  BY DEF TypeOK
<1>2. ASSUME enricher' = enricher, \A row \in items : Kept(row)
      PROVE  UpsertedHaveRows'
  <2> SUFFICES ASSUME Disjoint(ex), NEW n \in DOMAIN ex, Upserted(n)
               PROVE  \E new \in items' : new.wording \in {n, Edited} /\ new.turn = Min(ex[n])
    BY <1>2 DEF UpsertedHaveRows, RowOf, Upserted
  <2>1. RowOf(n, ex)
    BY DEF UpsertedHaveRows
  <2>2. QED
    BY <1>2, <2>1, KeptHasRow
<1>3. ASSUME \/ enricher'.extracts = <<>>
             \/ /\ enricher'.extracts \in Seq(Extracts)
                /\ enricher'.next = 1 /\ enricher'.at = "upsert"
      PROVE  UpsertedHaveRows'
  <2>1. CASE enricher'.extracts = <<>>
    BY <2>1 DEF UpsertedHaveRows
  <2>2. CASE /\ enricher'.extracts \in Seq(Extracts)
             /\ enricher'.next = 1 /\ enricher'.at = "upsert"
    <3>1. \A n \in DOMAIN enricher'.extracts : ~Upserted(n)'
      BY <2>2 DEF Upserted
    <3>2. QED
      BY <3>1 DEF UpsertedHaveRows
  <2>3. QED
    BY <1>3, <2>1, <2>2
<1>4. ASSUME items \subseteq items'
      PROVE  \A row \in items : Kept(row)
  BY <1>4 DEF Kept
<1>5. CASE CaptureStep
  <2>1. ASSUME NEW row \in items, NEW yes \in BOOLEAN, NEW wording \in {row.wording, Edited},
               ConfirmItem(row, yes, wording)
        PROVE  \A r \in items : Kept(r)
    <3> DEFINE new == [row EXCEPT !.confirmed = yes, !.wording = wording]
    <3>1. row \in Rows
      BY <1>1
    <3>2. new.turn = row.turn /\ new.wording = wording
      BY <3>1 DEF Rows
    <3>3. items' = (items \ {row}) \cup {new}
      BY <2>1 DEF ConfirmItem
    <3> HIDE DEF new
    <3>4. Kept(row)
      BY <3>2, <3>3 DEF Kept
    <3>5. \A r \in items \ {row} : Kept(r)
      BY <3>3 DEF Kept
    <3>6. QED
      BY <3>4, <3>5
  <2>2. enricher' = enricher
    BY <1>5 DEF CaptureStep, CaptureItem, CaptureFact, ConfirmFact, ConfirmItem, EndCall
  <2>3. items \subseteq items' \/ \A r \in items : Kept(r)
    BY <1>5, <2>1 DEF CaptureStep, CaptureItem, CaptureFact, ConfirmFact, EndCall
  <2>4. QED
    BY <1>2, <1>4, <2>2, <2>3
<1>6. ASSUME NEW f \in Facts, UpsertEnrichedFact(f)
      PROVE  UpsertedHaveRows'
  BY <1>2, <1>4, <1>6 DEF UpsertEnrichedFact
<1>7. ASSUME NEW n \in 0 .. MaxExtracts, NEW e \in [1 .. n -> Extracts], Extracted(e)
      PROVE  UpsertedHaveRows'
  <2>1. enricher' = [at |-> IF e = <<>> THEN "done" ELSE "upsert", extracts |-> e, next |-> 1]
    BY <1>7 DEF Extracted
  <2>2. e \in Seq(Extracts)
    BY ExtractsAreSeq
  <2>3. QED
    BY <1>3, <2>1, <2>2
<1>8. CASE UpsertItem
  <2> DEFINE N == enricher.next
             hit == {row \in items : Flagged(row, {Primary})}
             New(row) == [row EXCEPT !.wording = N]
  <2>1. /\ N \in DOMAIN ex /\ Primary = Min(ex[N]) /\ Primary \in ex[N]
        /\ enricher.at = "upsert"
    BY <1>8, InHandExtract DEF UpsertItem, EnricherAt, Primary, Extract
  <2>2. enricher'.extracts = ex /\ enricher'.next = N /\ enricher'.at = "delete"
    BY <1>8 DEF UpsertItem, TypeOK
  <2>3. \E row \in items' : row.wording = N /\ row.turn = Primary
    <3>1. CASE hit = {}
      <4>1. Row(Primary, 3, N) \in items'
        BY <1>8, <3>1 DEF UpsertItem
      <4>2. QED
        BY <4>1 DEF Row
    <3>2. CASE hit # {}
      <4>1. PICK row \in hit : TRUE
        BY <3>2
      <4>2. New(row) \in items'
        BY <1>8, <3>2 DEF UpsertItem
      <4>3. row \in Rows /\ row.turn = Primary
        BY <1>1 DEF Flagged
      <4>4. New(row).wording = N /\ New(row).turn = Primary
        BY <4>3 DEF Rows
      <4>5. QED
        BY <4>2, <4>4
    <3>3. QED
      BY <3>1, <3>2
  <2>4. \A row \in items : row.turn # Primary => Kept(row)
    <3>1. \A row \in items : row.turn # Primary => row \in items'
      BY <1>8 DEF UpsertItem, Flagged
    <3>2. QED
      BY <3>1 DEF Kept
  <2>5. ASSUME Disjoint(ex), NEW n \in DOMAIN ex, Upserted(n)'
        PROVE  \E new \in items' : new.wording \in {n, Edited} /\ new.turn = Min(ex[n])
    <3>1. CASE n = N
      BY <2>1, <2>3, <3>1
    <3>2. CASE n # N
      <4>1. ex[n] \in Extracts /\ ex[n] \cap ex[N] = {}
        BY <1>1, <2>1, <2>5, <3>2 DEF Disjoint
      <4>2. Min(ex[n]) # Primary
        BY <2>1, <4>1, PrimaryIsIn
      <4>3. Upserted(n)
        BY <2>2, <2>5, <3>2 DEF Upserted
      <4>4. RowOf(n, ex)
        BY <2>5, <4>3 DEF UpsertedHaveRows
      <4>5. \A row \in items : row.turn = Min(ex[n]) => Kept(row)
        BY <2>4, <4>2
      <4>6. QED
        BY <4>4, <4>5, KeptHasRow
    <3>3. QED
      BY <3>1, <3>2
  <2>6. QED
    BY <2>2, <2>5 DEF UpsertedHaveRows, RowOf
<1>9. CASE DeleteDuplicates
  <2> DEFINE N == enricher.next
  <2>1. /\ N \in DOMAIN ex /\ Primary = Min(ex[N]) /\ Primary \in ex[N] /\ ex[N] = Extract
        /\ enricher.at = "delete" /\ N \in Nat /\ DOMAIN ex = 1 .. Len(ex) /\ Len(ex) \in Nat
    BY <1>1, <1>9, InHandExtract DEF DeleteDuplicates, EnricherAt, Primary, Extract, TypeOK
  <2>2. enricher'.extracts = ex
    BY <1>9 DEF DeleteDuplicates, TypeOK
  <2>3. \A row \in items : row.turn \notin Duplicates => Kept(row)
    <3>1. \A row \in items : row.turn \notin Duplicates => row \in items'
      BY <1>9 DEF DeleteDuplicates, Flagged
    <3>2. QED
      BY <3>1 DEF Kept
  <2>4. \A n \in DOMAIN ex : Upserted(n)' => Upserted(n)
    <3>1. CASE N < Len(ex)
      <4>1. enricher'.next = N + 1 /\ enricher'.at = "upsert"
        BY <1>9, <3>1 DEF DeleteDuplicates, TypeOK
      <4>2. QED
        BY <2>1, <4>1 DEF Upserted
    <3>2. CASE ~(N < Len(ex))
      <4>1. enricher'.next = N /\ enricher'.at = "done"
        BY <1>9, <3>2 DEF DeleteDuplicates, TypeOK
      <4>2. QED
        BY <2>1, <4>1 DEF Upserted
    <3>3. QED
      BY <3>1, <3>2
  <2>5. ASSUME Disjoint(ex), NEW n \in DOMAIN ex, Upserted(n)'
        PROVE  \E new \in items' : new.wording \in {n, Edited} /\ new.turn = Min(ex[n])
    <3>1. RowOf(n, ex)
      BY <2>4, <2>5 DEF UpsertedHaveRows
    <3>2. Min(ex[n]) \notin Duplicates
      <4>1. CASE n = N
        BY <2>1, <4>1 DEF Duplicates
      <4>2. CASE n # N
        <5>1. ex[n] \in Extracts /\ ex[n] \cap ex[N] = {}
          BY <1>1, <2>1, <2>5, <4>2 DEF Disjoint
        <5>2. QED
          BY <2>1, <5>1, PrimaryIsIn DEF Duplicates
      <4>3. QED
        BY <4>1, <4>2
    <3>3. QED
      BY <2>3, <3>1, <3>2, KeptHasRow
  <2>6. QED
    BY <2>2, <2>5 DEF UpsertedHaveRows, RowOf
<1>10. CASE EnrichmentFails
  BY <1>3, <1>10 DEF EnrichmentFails, Stopped
<1>11. ASSUME NEW c \in Clients, WriterStep(c)
       PROVE  UpsertedHaveRows'
  <2>1. UNCHANGED <<items, enricher>>
    BY <1>11 DEF WriterStep, Begin, InsertCallLog, CallLogRefused, InsertCommitment,
                 CaptureNote, UpsertFact, MarkWrittenBack, WriterRaises
  <2>2. QED
    BY <1>2, <1>4, <2>1
<1>12. CASE Restart
  <2>1. items' = items
    BY <1>12 DEF Restart
  <2>2. enricher' = enricher \/ enricher' = Stopped("gone")
    BY <1>12 DEF Restart
  <2>3. QED
    BY <1>2, <1>3, <1>4, <2>1, <2>2 DEF Stopped
<1>13. CASE UNCHANGED vars
  BY <1>2, <1>4, <1>13 DEF vars
<1>14. QED
  BY <1>5, <1>6, <1>7, <1>8, <1>9, <1>10, <1>11, <1>12, <1>13 DEF Next, EnricherStep

----------------------------------------------------------------------------
\* The writers.

\* A writer keeps its card and gets on with it, rests, or begins with what is confirmed.
LEMMA WriterChange ==
    ASSUME TypeOK, [Next]_vars, NEW c \in Clients
    PROVE  \/ /\ writer'[c].card = writer[c].card /\ writer'[c].left \subseteq writer[c].left
              /\ writer'[c].at = "log" => writer'[c] = writer[c]
           \/ writer'[c] = Resting
           \/ writer'[c] = [at |-> "log", card |-> ReadCard, left |-> ReadCard.items]
<1>1. CASE writer' = writer
  BY <1>1
<1>2. ASSUME NEW d \in Clients, WriterStep(d)
      PROVE  \/ /\ writer'[c].card = writer[c].card /\ writer'[c].left \subseteq writer[c].left
                /\ writer'[c].at = "log" => writer'[c] = writer[c]
             \/ writer'[c] = Resting
             \/ writer'[c] = [at |-> "log", card |-> ReadCard, left |-> ReadCard.items]
  <2>1. CASE Begin(d)
    BY <2>1, WriterTurns
  <2>2. CASE CallLogRefused(d) \/ MarkWrittenBack(d) \/ WriterRaises(d)
    BY <2>2, WriterTurns DEF CallLogRefused, MarkWrittenBack, WriterRaises
  <2>3. CASE InsertCallLog(d) \/ InsertCommitment(d) \/ CaptureNote(d) \/ UpsertFact(d)
    <3>1. \/ writer' = writer
          \/ \E place \in Places \ {"log"} : Go(d, place)
          \/ \E row \in writer[d].left : NextItem(d, row)
      BY <2>3 DEF InsertCallLog, InsertCommitment, CaptureNote, UpsertFact, Places
    <3>2. QED
      BY <3>1, WriterMoves
  <2>4. QED
    BY <1>2, <2>1, <2>2, <2>3 DEF WriterStep
<1>3. CASE Restart
  BY <1>3 DEF Restart
<1>4. CASE CaptureStep \/ EnricherStep \/ UNCHANGED vars
  <2>1. writer' = writer
    BY <1>4 DEF CaptureStep, CaptureItem, CaptureFact, ConfirmFact, ConfirmItem, EndCall,
                EnricherStep, UpsertEnrichedFact, Extracted, UpsertItem, DeleteDuplicates,
                EnrichmentFails, vars
  <2>2. QED
    BY <1>1, <2>1
<1>5. QED
  BY <1>2, <1>3, <1>4 DEF Next

\* What was agreed, and what was overwritten after that, is not forgotten.
LEMMA AgreedGrows ==
    ASSUME [Next]_vars
    PROVE  agreed \subseteq agreed' /\ overwritten \subseteq overwritten'
<1> USE DEF history
<1>1. CASE CaptureStep
  BY <1>1 DEF CaptureStep, CaptureItem, CaptureFact, ConfirmFact, ConfirmItem, EndCall
<1>2. CASE EnricherStep
  BY <1>2 DEF EnricherStep, UpsertEnrichedFact, Extracted, UpsertItem, DeleteDuplicates,
              EnrichmentFails
<1>3. CASE \E c \in Clients : WriterStep(c)
  BY <1>3 DEF WriterStep, Begin, InsertCallLog, CallLogRefused, InsertCommitment,
              CaptureNote, UpsertFact, MarkWrittenBack, WriterRaises
<1>4. CASE Restart \/ UNCHANGED vars
  BY <1>4 DEF Restart, vars
<1>5. QED
  BY <1>1, <1>2, <1>3, <1>4 DEF Next

LEMMA CardsStep ==
    ASSUME IdsAreUnique, ConfirmedAreAgreed, CardsAreSound, TypeOK, [Next]_vars
    PROVE  CardsAreSound'
<1> SUFFICES ASSUME NEW c \in Clients
             PROVE  /\ UniqueIds(writer'[c].card.items)
                    /\ writer'[c].left \subseteq writer'[c].card.items
                    /\ writer'[c].at = "log" => writer'[c].left = writer'[c].card.items
                    /\ \A row \in writer'[c].card.items : Agreed(row)'
  BY DEF CardsAreSound, UniqueIds, Agreed, Promise
<1>1. \A row : Agreed(row) => Agreed(row)'
  BY AgreedGrows DEF Agreed, Promise
<1>2. CASE /\ writer'[c].card = writer[c].card /\ writer'[c].left \subseteq writer[c].left
           /\ writer'[c].at = "log" => writer'[c] = writer[c]
  BY <1>1, <1>2 DEF CardsAreSound
<1>3. CASE writer'[c] = Resting
  BY <1>3 DEF Resting, NoCard, UniqueIds
<1>4. CASE writer'[c] = [at |-> "log", card |-> ReadCard, left |-> ReadCard.items]
  <2>1. ReadCard.items = {row \in items : row.confirmed}
    BY DEF ReadCard, Confirmed
  <2>2. writer'[c].card.items = ReadCard.items /\ writer'[c].left = ReadCard.items
    BY <1>4
  <2>3. \A row \in ReadCard.items : Agreed(row)'
    BY <1>1, <2>1 DEF ConfirmedAreAgreed
  <2>4. UniqueIds(ReadCard.items)
    BY <2>1 DEF IdsAreUnique, UniqueIds
  <2>5. QED
    BY <2>2, <2>3, <2>4
<1>5. \/ /\ writer'[c].card = writer[c].card /\ writer'[c].left \subseteq writer[c].left
         /\ writer'[c].at = "log" => writer'[c] = writer[c]
      \/ writer'[c] = Resting
      \/ writer'[c] = [at |-> "log", card |-> ReadCard, left |-> ReadCard.items]
  BY WriterChange
<1>6. QED
  BY <1>2, <1>3, <1>4, <1>5

\* What is to be known of the stores.
Stores ==
    /\ OneWriter
    /\ CommittedAsAgreed
    /\ CommittedOnce
    /\ NotedOnce
    /\ BehindIsStored
    /\ LeftIsNotStored
    /\ WrittenIsWhole

PastPlaces == {"commit", "note", "fact", "mark"}

\* A step that writes nothing to the stores and takes nobody beyond insert_call_log.
LEMMA QuietStep ==
    ASSUME Stores, [Next]_vars, UNCHANGED <<after, written, logged>>,
           \A c \in Clients : writer'[c] = writer[c] \/ writer'[c].at \notin PastPlaces
    PROVE  Stores'
<1> USE DEF after, Stores
<1>1. /\ Past' \subseteq Past
      /\ \A c \in Past' : writer'[c] = writer[c]
  BY DEF Past, PastPlaces
<1>2. OneWriter'
  BY <1>1 DEF OneWriter
<1>3. CommittedAsAgreed' /\ CommittedOnce' /\ NotedOnce' /\ WrittenIsWhole'
  BY AgreedGrows
     DEF CommittedAsAgreed, CommittedOnce, NotedOnce, WrittenIsWhole, IsCommitted, IsNoted
<1>4. BehindIsStored'
  BY <1>1 DEF BehindIsStored, InHand, IsCommitted, IsNoted, Promise
<1>5. LeftIsNotStored'
  BY <1>1 DEF LeftIsNotStored, InHand
<1>6. QED
  BY <1>2, <1>3, <1>4, <1>5

\* With nothing in the stores yet, the writer that gets its row into call_log begins.
LEMMA LogStep ==
    ASSUME TypeOK, CardsAreSound, Stores, NEW c \in Clients, InsertCallLog(c)
    PROVE  Stores'
<1> USE DEF Stores, history
<1>1. /\ ~callLog /\ commitments = <<>> /\ notes = <<>> /\ ~written /\ Past = {}
      /\ writer[c].at = "log" /\ callLog' /\ logged' = writer[c].card
      /\ UNCHANGED <<commitments, notes, written>>
  BY DEF InsertCallLog, OneWriter, WriterAt
<1>2. /\ writer'[c].at \in {"fact", "commit"}
      /\ writer'[c].at = "fact" => writer[c].left = {}
      /\ writer'[c].card = writer[c].card /\ writer'[c].left = writer[c].left
      /\ \A d \in Clients \ {c} : writer'[d] = writer[d]
  <2>1. CASE writer[c].left = {}
    <3>1. Go(c, "fact")
      BY <2>1 DEF InsertCallLog
    <3>2. QED
      BY <2>1, <3>1, WriterMoves DEF Places
  <2>2. CASE writer[c].left # {}
    <3>1. Go(c, "commit")
      BY <2>2 DEF InsertCallLog
    <3>2. QED
      BY <2>2, <3>1, WriterMoves DEF Places
  <2>3. QED
    BY <2>1, <2>2
<1>3. Past' = {c}
  BY <1>1, <1>2 DEF Past
<1>4. writer[c].left = writer[c].card.items
  BY <1>1 DEF CardsAreSound
<1>5. OneWriter'
  BY <1>1, <1>2, <1>3 DEF OneWriter
<1>6. DOMAIN commitments' = {} /\ DOMAIN notes' = {}
  BY <1>1
<1>7. CommittedAsAgreed' /\ CommittedOnce' /\ NotedOnce' /\ LeftIsNotStored'
  BY <1>6 DEF CommittedAsAgreed, CommittedOnce, NotedOnce, LeftIsNotStored
<1>8. BehindIsStored'
  BY <1>2, <1>3, <1>4 DEF BehindIsStored, InHand
<1>9. WrittenIsWhole'
  BY <1>1 DEF WrittenIsWhole
<1>10. QED
  BY <1>5, <1>7, <1>8, <1>9

\* A commitment: the item in hand was not committed before, and was agreed.
LEMMA CommitStep ==
    ASSUME TypeOK, CardsAreSound, Stores, NEW c \in Clients, InsertCommitment(c)
    PROVE  Stores'
<1> USE DEF Stores, history
<1>1. PICK row \in writer[c].left :
         /\ IsFirst(row, writer[c].left)
         /\ commitments' = Append(commitments, Promise(row))
         /\ IF row.turn \in Own THEN Go(c, "note") ELSE NextItem(c, row)
  BY DEF InsertCommitment, Promise
<1>2. /\ writer[c].at = "commit"
      /\ UNCHANGED <<callLog, notes, contactFacts, written, agreed, overwritten, logged>>
  BY DEF InsertCommitment, WriterAt
<1>3. /\ Past = {c} /\ callLog /\ ~written /\ writer[c].card = logged
  BY <1>2 DEF OneWriter, Past
<1>4. /\ \/ writer'[c].at = "note" /\ writer'[c].left = writer[c].left
         \/ /\ writer'[c].at \in {"fact", "commit"} /\ writer'[c].left = writer[c].left \ {row}
            /\ writer'[c].at = "fact" => writer'[c].left = {}
            /\ row.turn \notin Own
      /\ writer'[c].card = writer[c].card
      /\ \A d \in Clients \ {c} : writer'[d] = writer[d]
  <2>1. CASE row.turn \in Own
    BY <1>1, <2>1, WriterMoves DEF Places
  <2>2. CASE row.turn \notin Own
    <3>1. NextItem(c, row)
      BY <1>1, <2>2
    <3>2. QED
      BY <2>2, <3>1, WriterMoves
  <2>3. QED
    BY <2>1, <2>2
<1>5. Past' = {c}
  BY <1>3, <1>4 DEF Past
<1>6. /\ row \in writer[c].card.items /\ writer[c].left \subseteq writer[c].card.items
      /\ UniqueIds(writer[c].left) /\ writer[c].left \subseteq Rows
      /\ Agreed(row)
  BY WriterTypes DEF CardsAreSound, UniqueIds
<1>7. Promise(row)[1] = row.id /\ Promise(row) \in Nat \X Wordings
  BY <1>6 DEF Promise, Rows
<1>8. /\ \A i \in DOMAIN commitments :
            i \in DOMAIN commitments' /\ commitments'[i] = commitments[i]
      /\ \E i \in DOMAIN commitments' : commitments'[i] = Promise(row)
      /\ \A i \in DOMAIN commitments' :
            \/ i \in DOMAIN commitments /\ commitments'[i] = commitments[i]
            \/ i = Len(commitments) + 1 /\ commitments'[i] = Promise(row)
  <2>1. commitments \in Seq(Nat \X Wordings)
    BY DEF TypeOK
  <2>2. QED
    BY <1>1, <1>7, <2>1, Appended
<1>9. \A r \in writer[c].left, i \in DOMAIN commitments : commitments[i][1] # r.id
  BY <1>2, <1>3 DEF LeftIsNotStored, InHand
<1>10. OneWriter'
  BY <1>2, <1>3, <1>4, <1>5 DEF OneWriter
<1>11. CommittedAsAgreed'
  BY <1>2, <1>6, <1>7, <1>8 DEF CommittedAsAgreed, Agreed
<1>12. CommittedOnce'
  BY <1>7, <1>8, <1>9 DEF CommittedOnce
<1>13. NotedOnce' /\ WrittenIsWhole'
  BY <1>2, <1>3 DEF NotedOnce, WrittenIsWhole
<1>14. \A r : (IsCommitted(r) => IsCommitted(r)') /\ (IsNoted(r) => IsNoted(r)')
  BY <1>2, <1>8 DEF IsCommitted, IsNoted
<1>15. IsCommitted(row)'
  BY <1>8 DEF IsCommitted
<1>16. \A r \in writer[c].card.items \ writer[c].left : IsCommitted(r) /\ IsNoted(r)
  BY <1>3 DEF BehindIsStored
<1>17. BehindIsStored'
  <2>1. ASSUME NEW r \in writer'[c].card.items \ writer'[c].left
        PROVE  IsCommitted(r)' /\ IsNoted(r)'
    <3>1. CASE r \notin writer[c].left
      BY <1>4, <1>14, <1>16, <2>1, <3>1
    <3>2. CASE r \in writer[c].left
      <4>1. r = row /\ row.turn \notin Own
        BY <1>4, <2>1, <3>2
      <4>2. QED
        BY <1>15, <4>1 DEF IsNoted
    <3>3. QED
      BY <3>1, <3>2
  <2>2. ASSUME NEW r \in writer'[c].left, writer'[c].at = "note", IsFirst(r, writer'[c].left)
        PROVE  IsCommitted(r)'
    <3>1. r = row
      BY <1>1, <1>4, <1>6, <2>2, OneIsFirst
    <3>2. QED
      BY <1>15, <3>1
  <2>3. /\ writer'[c].at \in {"fact", "mark"} => writer'[c].left = {}
        /\ writer'[c].at # "mark"
    BY <1>4
  <2>4. QED
    BY <1>5, <2>1, <2>2, <2>3 DEF BehindIsStored, InHand
<1>18. LeftIsNotStored'
  <2>1. ASSUME NEW r \in writer'[c].left, NEW i \in DOMAIN commitments',
               commitments'[i][1] = r.id
        PROVE  writer'[c].at = "note" /\ IsFirst(r, writer'[c].left)
    <3>1. r \in writer[c].left
      BY <1>4, <2>1
    <3>2. commitments'[i] = Promise(row)
      BY <1>8, <1>9, <2>1, <3>1
    <3>3. r = row
      BY <1>6, <1>7, <2>1, <3>1, <3>2 DEF UniqueIds
    <3>4. QED
      BY <1>1, <1>4, <2>1, <3>3
  <2>2. \A r \in writer'[c].left, i \in DOMAIN notes' : notes'[i] # r.id
    BY <1>2, <1>3, <1>4 DEF LeftIsNotStored
  <2>3. QED
    BY <1>5, <2>1, <2>2 DEF LeftIsNotStored, InHand
<1>19. QED
  BY <1>10, <1>11, <1>12, <1>13, <1>17, <1>18

\* A note: the item in hand is committed, and was not noted before.
LEMMA NoteStep ==
    ASSUME TypeOK, CardsAreSound, Stores, NEW c \in Clients, CaptureNote(c)
    PROVE  Stores'
<1> USE DEF Stores, history
<1>1. PICK row \in writer[c].left :
         /\ IsFirst(row, writer[c].left)
         /\ notes' = Append(notes, row.id)
         /\ NextItem(c, row)
  BY DEF CaptureNote
<1>2. /\ writer[c].at = "note"
      /\ UNCHANGED <<callLog, commitments, contactFacts, written, agreed, overwritten, logged>>
  BY DEF CaptureNote, WriterAt
<1>3. /\ Past = {c} /\ callLog /\ ~written /\ writer[c].card = logged
  BY <1>2 DEF OneWriter, Past
<1>4. /\ writer'[c].at \in {"fact", "commit"} /\ writer'[c].left = writer[c].left \ {row}
      /\ writer'[c].at = "fact" => writer'[c].left = {}
      /\ writer'[c].card = writer[c].card
      /\ \A d \in Clients \ {c} : writer'[d] = writer[d]
  BY <1>1, WriterMoves
<1>5. Past' = {c}
  BY <1>3, <1>4 DEF Past
<1>6. UniqueIds(writer[c].left) /\ writer[c].left \subseteq Rows /\ row.id \in Nat
  BY WriterTypes DEF CardsAreSound, UniqueIds, Rows
<1>7. /\ \A i \in DOMAIN notes : i \in DOMAIN notes' /\ notes'[i] = notes[i]
      /\ \E i \in DOMAIN notes' : notes'[i] = row.id
      /\ \A i \in DOMAIN notes' :
            \/ i \in DOMAIN notes /\ notes'[i] = notes[i]
            \/ i = Len(notes) + 1 /\ notes'[i] = row.id
  <2>1. notes \in Seq(Nat)
    BY DEF TypeOK
  <2>2. QED
    BY <1>1, <1>6, <2>1, Appended
<1>8. \A r \in writer[c].left, i \in DOMAIN notes : notes[i] # r.id
  BY <1>3 DEF LeftIsNotStored
<1>9. IsCommitted(row)
  BY <1>1, <1>2, <1>3 DEF BehindIsStored, InHand
<1>10. OneWriter'
  BY <1>2, <1>3, <1>4, <1>5 DEF OneWriter
<1>11. CommittedAsAgreed' /\ CommittedOnce' /\ WrittenIsWhole'
  BY <1>2, <1>3 DEF CommittedAsAgreed, CommittedOnce, WrittenIsWhole
<1>12. NotedOnce'
  BY <1>7, <1>8 DEF NotedOnce
<1>13. \A r : (IsCommitted(r) => IsCommitted(r)') /\ (IsNoted(r) => IsNoted(r)')
  BY <1>2, <1>7 DEF IsCommitted, IsNoted
<1>14. IsNoted(row)'
  BY <1>7 DEF IsNoted
<1>15. \A r \in writer[c].card.items \ writer[c].left : IsCommitted(r) /\ IsNoted(r)
  BY <1>3 DEF BehindIsStored
<1>16. BehindIsStored'
  <2>1. ASSUME NEW r \in writer'[c].card.items \ writer'[c].left
        PROVE  IsCommitted(r)' /\ IsNoted(r)'
    <3>1. r = row \/ r \in writer[c].card.items \ writer[c].left
      BY <1>4, <2>1
    <3>2. QED
      BY <1>9, <1>13, <1>14, <1>15, <3>1
  <2>2. QED
    BY <1>4, <1>5, <2>1 DEF BehindIsStored, InHand
<1>17. LeftIsNotStored'
  <2>1. ASSUME NEW r \in writer'[c].left
        PROVE  /\ \A i \in DOMAIN commitments' : commitments'[i][1] # r.id
               /\ \A i \in DOMAIN notes' : notes'[i] # r.id
    <3>1. r \in writer[c].left /\ r # row
      BY <1>4, <2>1
    <3>2. r.id # row.id
      BY <1>6, <3>1 DEF UniqueIds
    <3>3. ~IsFirst(r, writer[c].left)
      BY <1>1, <1>6, <3>1, OneIsFirst
    <3>4. \A i \in DOMAIN commitments' : commitments'[i][1] # r.id
      BY <1>2, <1>3, <3>1, <3>3 DEF LeftIsNotStored, InHand
    <3>5. \A i \in DOMAIN notes' : notes'[i] # r.id
      BY <1>7, <1>8, <3>1, <3>2
    <3>6. QED
      BY <3>4, <3>5
  <2>2. QED
    BY <1>5, <2>1 DEF LeftIsNotStored
<1>18. QED
  BY <1>10, <1>11, <1>12, <1>16, <1>17

\* A fact, or the last of them is there.
LEMMA FactStep ==
    ASSUME TypeOK, Stores, NEW c \in Clients, UpsertFact(c)
    PROVE  Stores'
<1> USE DEF Stores, history
<1>1. /\ writer[c].at = "fact"
      /\ UNCHANGED <<callLog, commitments, notes, written, agreed, overwritten, logged>>
  BY DEF UpsertFact, WriterAt
<1>2. /\ Past = {c} /\ callLog /\ ~written /\ writer[c].card = logged
  BY <1>1 DEF OneWriter, Past
<1>3. /\ \/ writer'[c].at = "fact" /\ writer'[c].left = writer[c].left
         \/ /\ writer'[c].at = "mark" /\ writer'[c].left = writer[c].left
            /\ writer'[c].card.facts \subseteq contactFacts'
      /\ writer'[c].card = writer[c].card
      /\ \A d \in Clients \ {c} : writer'[d] = writer[d]
  <2>1. CASE writer[c].card.facts \ contactFacts = {}
    <3>1. Go(c, "mark") /\ UNCHANGED contactFacts
      BY <2>1 DEF UpsertFact
    <3>2. QED
      BY <2>1, <3>1, WriterMoves DEF Places
  <2>2. CASE writer[c].card.facts \ contactFacts # {}
    BY <1>1, <2>2 DEF UpsertFact
  <2>3. QED
    BY <2>1, <2>2
<1>4. Past' = {c} /\ writer[c].left = {}
  BY <1>1, <1>2, <1>3 DEF Past, BehindIsStored
<1>5. OneWriter'
  BY <1>1, <1>2, <1>3, <1>4 DEF OneWriter
<1>6. CommittedAsAgreed' /\ CommittedOnce' /\ NotedOnce' /\ WrittenIsWhole'
  BY <1>1, <1>2 DEF CommittedAsAgreed, CommittedOnce, NotedOnce, WrittenIsWhole
<1>7. \A r : (IsCommitted(r) => IsCommitted(r)') /\ (IsNoted(r) => IsNoted(r)')
  BY <1>1 DEF IsCommitted, IsNoted
<1>8. \A r \in writer[c].card.items : IsCommitted(r) /\ IsNoted(r)
  BY <1>2, <1>4 DEF BehindIsStored
<1>9. BehindIsStored' /\ LeftIsNotStored'
  BY <1>3, <1>4, <1>7, <1>8 DEF BehindIsStored, LeftIsNotStored, InHand
<1>10. QED
  BY <1>5, <1>6, <1>9

\* The mark: all of the card is there.
LEMMA MarkStep ==
    ASSUME TypeOK, Stores, NEW c \in Clients, MarkWrittenBack(c)
    PROVE  Stores'
<1> USE DEF Stores, history, after
<1>1. /\ writer[c].at = "mark" /\ written'
      /\ writer' = [writer EXCEPT ![c] = Resting]
      /\ UNCHANGED <<callLog, commitments, notes, contactFacts, agreed, overwritten, logged>>
  BY DEF MarkWrittenBack, WriterAt
<1>2. /\ Past = {c} /\ callLog /\ writer[c].card = logged
  BY <1>1 DEF OneWriter, Past
<1>3. writer'[c].at = "rest" /\ \A d \in Clients \ {c} : writer'[d] = writer[d]
  <2>1. writer'[c] = Resting /\ \A d \in Clients \ {c} : writer'[d] = writer[d]
    BY <1>1, WriterTurns
  <2>2. QED
    BY <2>1 DEF Resting
<1>4. Past' = {}
  BY <1>2, <1>3 DEF Past
<1>5. /\ \A r \in logged.items : IsCommitted(r) /\ IsNoted(r)
      /\ logged.facts \subseteq contactFacts
  BY <1>1, <1>2 DEF BehindIsStored
<1>6. WrittenIsWhole'
  BY <1>1, <1>5 DEF WrittenIsWhole, IsCommitted, IsNoted
<1>7. OneWriter' /\ BehindIsStored' /\ LeftIsNotStored'
  BY <1>1, <1>2, <1>4 DEF OneWriter, BehindIsStored, LeftIsNotStored
<1>8. CommittedAsAgreed' /\ CommittedOnce' /\ NotedOnce'
  BY <1>1 DEF CommittedAsAgreed, CommittedOnce, NotedOnce
<1>9. QED
  BY <1>6, <1>7, <1>8

----------------------------------------------------------------------------
\* The inductive invariant, and what follows from it.

LEMMA StoresStep ==
    ASSUME TypeOK, CardsAreSound, Stores, [Next]_vars
    PROVE  Stores'
<1> USE DEF history, after, card
<1>1. CASE CaptureStep \/ EnricherStep \/ UNCHANGED vars
  <2>1. UNCHANGED <<after, written, logged, writer>>
    BY <1>1 DEF CaptureStep, CaptureItem, CaptureFact, ConfirmFact, ConfirmItem, EndCall,
                EnricherStep, UpsertEnrichedFact, Extracted, UpsertItem, DeleteDuplicates,
                EnrichmentFails, vars
  <2>2. QED
    BY <2>1, QuietStep
<1>2. CASE Restart
  <2>1. UNCHANGED <<after, written, logged>> /\ \A c \in Clients : writer'[c].at = "rest"
    BY <1>2 DEF Restart, Resting
  <2>2. QED
    BY <2>1, QuietStep DEF PastPlaces
<1>3. ASSUME NEW c \in Clients, Begin(c) \/ CallLogRefused(c) \/ WriterRaises(c)
      PROVE  Stores'
  <2>1. UNCHANGED <<after, written, logged>>
    BY <1>3 DEF Begin, CallLogRefused, WriterRaises
  <2>2. /\ writer'[c].at \in {"log", "rest"}
        /\ \A d \in Clients \ {c} : writer'[d] = writer[d]
    BY <1>3, WriterTurns DEF CallLogRefused, WriterRaises, Resting
  <2>3. QED
    BY <2>1, <2>2, QuietStep DEF PastPlaces
<1>4. ASSUME NEW c \in Clients, WriterStep(c)
      PROVE  Stores'
  BY <1>3, <1>4, LogStep, CommitStep, NoteStep, FactStep, MarkStep DEF WriterStep
<1>5. QED
  BY <1>1, <1>2, <1>4 DEF Next

LEMMA TypeStep == TypeOK /\ IdsAreUnique /\ PlaceIsInExtracts /\ [Next]_vars =>
                      TypeOK' /\ PlaceIsInExtracts'
<1> SUFFICES ASSUME TypeOK, IdsAreUnique, PlaceIsInExtracts, [Next]_vars
             PROVE  TypeOK' /\ PlaceIsInExtracts'
  OBVIOUS
<1>1. CASE CaptureStep
  <2>1. enricher' = enricher
    BY <1>1 DEF CaptureStep, CaptureItem, CaptureFact, ConfirmFact, ConfirmItem, EndCall
  <2>2. QED
    BY <1>1, <2>1, CaptureTypes DEF PlaceIsInExtracts
<1>2. CASE EnricherStep
  BY <1>2, EnricherTypes
<1>3. ASSUME NEW c \in Clients, WriterStep(c)
      PROVE  TypeOK' /\ PlaceIsInExtracts'
  <2>1. enricher' = enricher
    BY <1>3 DEF WriterStep, Begin, InsertCallLog, CallLogRefused, InsertCommitment,
                CaptureNote, UpsertFact, MarkWrittenBack, WriterRaises
  <2>2. QED
    BY <1>3, <2>1, WriterStepTypes DEF PlaceIsInExtracts
<1>4. CASE Restart
  BY <1>4, RestartTypes
<1>5. CASE UNCHANGED vars
  BY <1>5 DEF vars, card, after, history, TypeOK, PlaceIsInExtracts
<1>6. QED
  BY <1>1, <1>2, <1>3, <1>4, <1>5 DEF Next

LEMMA NextIInv == IInv /\ [Next]_vars => IInv'
<1> SUFFICES ASSUME IInv, [Next]_vars
             PROVE  IInv'
  OBVIOUS
<1>1. /\ TypeOK /\ IdsAreUnique /\ ConfirmedAreAgreed /\ CardsAreSound
      /\ PlaceIsInExtracts /\ UpsertedHaveRows /\ Stores
  BY DEF IInv, Stores
<1>2. TypeOK' /\ PlaceIsInExtracts'
  BY <1>1, TypeStep
<1>3. IdsAreUnique' /\ ConfirmedAreAgreed'
  BY <1>1, RowsStep
<1>4. CardsAreSound'
  BY <1>1, CardsStep
<1>5. UpsertedHaveRows'
  BY <1>1, ExtractsStep
<1>6. Stores'
  BY <1>1, StoresStep
<1>7. QED
  BY <1>2, <1>3, <1>4, <1>5, <1>6 DEF IInv, Stores

\* The inductive invariant holds, whatever the extracts, the confirmations, the
\* exceptions and the restarts.
THEOREM IInvSpec == Spec => []IInv
  BY InitIInv, NextIInv, PTL DEF Spec

\* Every variable keeps its type.
THEOREM TypeCorrect == Spec => []TypeOK
<1>1. IInv => TypeOK
  BY DEF IInv
<1>2. QED
  BY <1>1, IInvSpec, PTL

\* A card is marked as written back only when all that was confirmed on it is in the
\* stores, each item once (finalize_writeback).
THEOREM WrittenBack == Spec => []WrittenBackMeansAll
<1>1. IInv => WrittenBackMeansAll
  <2> SUFFICES ASSUME IInv, written
               PROVE  /\ \A row \in logged.items :
                            /\ Once(commitments, <<row.id, row.wording>>)
                            /\ row.turn \in Own => Once(notes, row.id)
                      /\ logged.facts \subseteq contactFacts
    BY DEF WrittenBackMeansAll
  <2>1. /\ \A row \in logged.items : IsCommitted(row) /\ IsNoted(row)
        /\ logged.facts \subseteq contactFacts
    BY DEF IInv, WrittenIsWhole
  <2>2. ASSUME NEW row \in logged.items
        PROVE  Once(commitments, <<row.id, row.wording>>)
    <3>1. PICK i \in DOMAIN commitments : commitments[i] = <<row.id, row.wording>>
      BY <2>1 DEF IsCommitted, Promise
    <3>2. \A j \in DOMAIN commitments : commitments[j] = <<row.id, row.wording>> => j = i
      BY <3>1 DEF IInv, CommittedOnce
    <3>3. QED
      BY <3>1, <3>2, OncePlace
  <2>3. ASSUME NEW row \in logged.items, row.turn \in Own
        PROVE  Once(notes, row.id)
    <3>1. PICK i \in DOMAIN notes : notes[i] = row.id
      BY <2>1, <2>3 DEF IsNoted
    <3>2. \A j \in DOMAIN notes : notes[j] = row.id => j = i
      BY <3>1 DEF IInv, NotedOnce
    <3>3. QED
      BY <3>1, <3>2, OncePlace
  <2>4. QED
    BY <2>1, <2>2, <2>3
<1>2. QED
  BY <1>1, IInvSpec, PTL

\* No promise is recorded twice, nor in words that the operator had not agreed to,
\* unless the enricher has replaced them after that (insert_call_log, insert_commitment).
THEOREM Promises == Spec => []PromisesAreAsAgreed
<1>1. IInv => PromisesAreAsAgreed
  BY DEF IInv, PromisesAreAsAgreed
<1>2. QED
  BY <1>1, IInvSpec, PTL

\* Merging loses no extract, as long as they are disjoint (PostCallEnricher).
THEOREM ExtractsHaveRows == Spec => []EveryExtractHasItsRow
<1>1. IInv => EveryExtractHasItsRow
  <2> SUFFICES ASSUME IInv, enricher.at = "done", Disjoint(enricher.extracts),
                      NEW n \in DOMAIN enricher.extracts
               PROVE  RowOf(n, enricher.extracts)
    BY DEF EveryExtractHasItsRow, Disjoint, RowOf
  <2>1. n \in 1 .. Len(enricher.extracts) /\ enricher.next \in Nat
        /\ Len(enricher.extracts) \in Nat
    BY DEF IInv, TypeOK
  <2>2. n < enricher.next \/ n = enricher.next
    BY <2>1 DEF IInv, PlaceIsInExtracts
  <2>3. Upserted(n)
    BY <2>2 DEF Upserted
  <2>4. QED
    BY <2>3 DEF IInv, UpsertedHaveRows
<1>2. QED
  BY <1>1, IInvSpec, PTL
=============================================================================
