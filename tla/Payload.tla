------------------------------- MODULE Payload -------------------------------
(***************************************************************************)
(* go/payload.go: the texts of a report are interned under ids, and its    *)
(* lists (aliases, licences, fix versions, references, severities) become  *)
(* spans of one word store, so that equal rows have equal keys in the      *)
(* tables of the builder.  A fingerprint selects a chain of entries and    *)
(* the words decide.  What a view reads back is that of go/abi.go.         *)
(*                                                                         *)
(* A row is packed field by field; a value is one field.  The loop over    *)
(* the texts of a value and the walk along a chain are modelled turn by    *)
(* turn.  Positions in the word store are counted from 0, ids of texts and *)
(* entries from 1, as in the code.                                         *)
(***************************************************************************)
EXTENDS Naturals, Sequences, Functions

CONSTANTS
  Text,          \* the texts
  Value,         \* the values that rows may have in their fields
  Fingerprint(_),\* the fingerprint of the words of a list
  MaxPacks,      \* bound: the number of values packed
  MaxUint        \* math.MaxUint32

VARIABLES
  strings,   \* b.report.Strings; b.payload.strings gives the place of a text
  words,     \* b.report.Words
  entries,   \* p.entries: the span of each entry and the next one of its chain
  lists,     \* p.lists: the first entry of the chain of a fingerprint
  pc,        \* idle, texts (stringID for the next text), chain (the loop of
             \* internWords), panic
  value,     \* the value that is packed
  list,      \* the ids of its texts so far: scratch
  id,        \* the entry the loop is at
  packed,    \* the values packed so far, with what their rows hold for them
  packs      \* the number of calls so far

store == <<words, entries, lists>>
vars == <<strings, store, pc, value, list, id, packed, packs>>

(***************************************************************************)
(* Values and what rows hold for them                                      *)
(***************************************************************************)
\* A list is nil or a sequence of records of texts; an allowlist of licences is a list
\* that may be missing.  The others are a text, an optional text, an optional Boolean
\* and a status.
Nil == <<<< >>>>
ListKind == {"strings", "policy", "references", "severities"}
Width(kind) == IF kind = "severities" THEN 3 ELSE IF kind = "references" THEN 2 ELSE 1
IsList(v) == v.kind \in ListKind

statusNames ==
  <<"not_evaluated", "compliant", "unknown", "noncompliant", "no_reported_fix", "reported">>

ASSUME PayloadAssumption ==
  /\ MaxPacks \in Nat /\ MaxUint \in Nat \ {0}
  /\ "missing" \notin Text
  /\ \A v \in Value :
       \/ v \in [kind : {"text"}, text : Text]
       \/ v \in [kind : {"optional"}, text : Text \cup {"missing"}]
       \/ v \in [kind : {"flag"}, flag : {"missing", "false", "true"}]
       \/ v \in [kind : {"status"}, status : Range(statusNames)]
       \/ \E k \in ListKind : v \in [kind : {k}, list : {Nil} \cup Seq([1..Width(k) -> Text])]

\* The texts of a value in the order in which they are interned.
RecordTexts(records, width) ==
  [k \in 1..(Len(records) * width) |-> records[((k - 1) \div width) + 1][((k - 1) % width) + 1]]

HasText(v) == v.kind = "text" \/ (v.kind = "optional" /\ v.text # "missing")

TextsOf(v) ==
  IF HasText(v) THEN <<v.text>>
  ELSE IF IsList(v) /\ v.list # Nil THEN RecordTexts(v.list, Width(v.kind))
  ELSE << >>

IdOf(table, text) == CHOOSE i \in DOMAIN table : table[i] = text

NilSpan == [start |-> MaxUint, count |-> 0]
EmptySpan == [start |-> 0, count |-> 0]

\* What a row holds for a value without texts: optionalString, optionalBool (0 stands
\* for what is missing), statusID and packWords.
Textless(v) ==
  IF IsList(v) THEN IF v.list = Nil THEN NilSpan ELSE EmptySpan
  ELSE IF v.kind = "flag" THEN IF v.flag = "missing" THEN 0 ELSE IF v.flag = "true" THEN 2 ELSE 1
  ELSE IF v.kind = "status" THEN IdOf(statusNames, v.status) - 1
  ELSE 0

\* The words of a span.
Read(span) == [i \in 1..span.count |-> words[span.start + i]]

\* stringListValue and recordListValue with the fields of records: the texts of each
\* record.
Records(span, width) ==
  [r \in 1..(span.count \div width) |->
     [f \in 1..width |-> strings[words[span.start + (r - 1) * width + f]]]]

\* What a view answers for a field, from what its row holds.
UnpackedList(kind, span) ==
  IF kind = "policy" /\ span.start = MaxUint THEN Nil ELSE Records(span, Width(kind))

UnpackedFlag(tag) == IF tag = 0 THEN "missing" ELSE IF tag = 2 THEN "true" ELSE "false"

Unpacked(kind, stored) ==
  IF kind \in ListKind THEN [kind |-> kind, list |-> UnpackedList(kind, stored)]
  ELSE IF kind = "flag" THEN [kind |-> kind, flag |-> UnpackedFlag(stored)]
  ELSE IF kind = "status" THEN [kind |-> kind, status |-> statusNames[stored + 1]]
  ELSE IF kind = "optional" /\ stored = 0 THEN [kind |-> kind, text |-> "missing"]
  ELSE [kind |-> kind, text |-> strings[stored]]

(***************************************************************************)
(* The builder                                                             *)
(***************************************************************************)
Init ==
  /\ strings = << >> /\ words = << >> /\ entries = << >> /\ lists = << >>
  /\ pc = "idle" /\ value = [kind |-> "none"] /\ list = << >> /\ id = 0
  /\ packed = {} /\ packs = 0

Return(v, stored) == packed' = packed \cup {<<v, stored>>} /\ pc' = "idle"

Begin == pc = "idle" /\ packs < MaxPacks /\ packs' = packs + 1

\* A value without texts, or the first text of the others is next.
PackNow(v) ==
  /\ Begin /\ TextsOf(v) = << >>
  /\ Return(v, Textless(v))
  /\ UNCHANGED <<strings, store, value, list, id>>

PackTexts(v) ==
  /\ Begin /\ TextsOf(v) # << >>
  /\ pc' = "texts" /\ value' = v /\ list' = << >>
  /\ UNCHANGED <<strings, store, id, packed>>

\* stringID for the next text, which has an id or gets the next one.
NextText == TextsOf(value)[Len(list) + 1]
HasNextText == pc = "texts" /\ Len(list) < Len(TextsOf(value))

Intern ==
  /\ HasNextText
  /\ \/ NextText \in Range(strings) /\ strings' = strings
     \/ /\ NextText \notin Range(strings) /\ Len(strings) < MaxUint
        /\ strings' = Append(strings, NextText)
  /\ list' = Append(list, IdOf(strings', NextText))
  /\ UNCHANGED <<store, pc, value, id, packed, packs>>

\* checked: the next id would not fit in 32 bits, and the batch is aborted.
TextOverflow ==
  /\ HasNextText
  /\ NextText \notin Range(strings) /\ Len(strings) = MaxUint
  /\ pc' = "panic"
  /\ UNCHANGED <<strings, store, value, list, id, packed, packs>>

\* The id of a text is what a row holds.
TextPacked ==
  /\ pc = "texts" /\ Len(list) = Len(TextsOf(value)) /\ ~IsList(value)
  /\ Return(value, list[1])
  /\ UNCHANGED <<strings, store, value, list, id, packs>>

\* packWords computes the fingerprint of a list, and internWords takes the first entry
\* of its chain, or 0.
First(fingerprint) == IF fingerprint \in DOMAIN lists THEN lists[fingerprint] ELSE 0

PackWords ==
  /\ pc = "texts" /\ Len(list) = Len(TextsOf(value)) /\ IsList(value)
  /\ pc' = "chain" /\ id' = First(Fingerprint(list))
  /\ UNCHANGED <<strings, store, value, list, packed, packs>>

\* Mutant: the fingerprint and the length decide.
MutantEqual(entry) == entry.span.count = Len(list)

Equal(entry) == entry.span.count = Len(list) /\ Read(entry.span) = list

\* A turn of the loop that goes on along the chain.
Skip ==
  /\ pc = "chain" /\ id # 0 /\ ~Equal(entries[id])
  /\ id' = entries[id].next
  /\ UNCHANGED <<strings, store, pc, value, list, packed, packs>>

\* The list is there already.
Found ==
  /\ pc = "chain" /\ id # 0 /\ Equal(entries[id])
  /\ Return(value, entries[id].span)
  /\ UNCHANGED <<strings, store, value, list, id, packs>>

\* The words go to the end of the store and a new entry to the head of the chain.
StoreWith(next) ==
  /\ pc = "chain" /\ id = 0
  /\ Len(words) + Len(list) <= MaxUint
  /\ words' = words \o list
  /\ LET span == [start |-> Len(words), count |-> Len(list)]
     IN /\ entries' = Append(entries, [span |-> span, next |-> next])
        /\ Return(value, span)
  /\ lists' = [h \in DOMAIN lists \cup {Fingerprint(list)} |->
                 IF h = Fingerprint(list) THEN Len(entries) + 1 ELSE lists[h]]
  /\ UNCHANGED <<strings, value, list, id, packs>>

\* Mutant: the rest of the chain is lost.
MutantStore == StoreWith(0)

\* Mutant: the new entry leads to itself.
MutantStoreLoop == StoreWith(Len(entries) + 1)

Store == StoreWith(First(Fingerprint(list)))

\* checked: a position would not fit in 32 bits, and the batch is aborted.
Overflow ==
  /\ pc = "chain" /\ id = 0 /\ Len(words) + Len(list) > MaxUint
  /\ pc' = "panic"
  /\ UNCHANGED <<strings, store, value, list, id, packed, packs>>

Stopped ==
  /\ pc = "panic" \/ (pc = "idle" /\ packs = MaxPacks)
  /\ UNCHANGED vars

Next ==
  \/ \E v \in Value : PackNow(v) \/ PackTexts(v)
  \/ Intern \/ TextOverflow \/ TextPacked \/ PackWords
  \/ Skip \/ Found \/ Store \/ Overflow
  \/ Stopped

Spec == Init /\ [][Next]_vars

(***************************************************************************)
(* Properties                                                              *)
(***************************************************************************)
\* What a row holds keeps its value for ever: the texts and lists that are packed
\* later never change what a view reads, no allowlist stays different from an empty one,
\* a missing text from an empty one, a missing Boolean from false, and the records of
\* a list come apart at the right words (payload.go:22-156, abi.go:121-151).
RowsDecode ==
  \A p \in packed :
    Unpacked(p[1].kind, p[2]) =
      IF IsList(p[1]) /\ p[1].kind # "policy" /\ p[1].list = Nil
      THEN [p[1] EXCEPT !.list = << >>] ELSE p[1]

\* Two fields hold the same exactly when they have the same value: the tables of rows
\* compare what the rows hold, also when fingerprints collide; and however full the
\* word store is, the spans fit 32 bits and none is taken for nil.
SpansCanonical ==
  /\ \A p, q \in packed : p[1].kind = q[1].kind => (p[1] = q[1] <=> p[2] = q[2])
  /\ \A p \in packed :
       IsList(p[1]) /\ p[1].list # Nil =>
         p[2].start + p[2].count <= MaxUint /\ p[2].start # NilSpan.start

\* The chain of a fingerprint leads from entry to older entry: it ends, and holds
\* no entry of another fingerprint.
ChainsDescend ==
  /\ \A e \in DOMAIN entries :
       /\ entries[e].next < e
       /\ entries[e].next # 0 =>
            Fingerprint(Read(entries[entries[e].next].span)) = Fingerprint(Read(entries[e].span))
  /\ \A h \in DOMAIN lists : Fingerprint(Read(entries[lists[h]].span)) = h
=============================================================================
