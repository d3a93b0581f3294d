---------------------------- MODULE PayloadProofs ----------------------------
(***************************************************************************)
(* Theorems about Payload, for any texts and values, any fingerprint and   *)
(* any width of the numbers: what a row holds keeps its value, equal       *)
(* values are held in one way, and the chains of fingerprints descend.     *)
(*                                                                         *)
(* The argument: each entry of a chain leads to the last entry before it   *)
(* with the same fingerprint, so that a walk that has come to the end has  *)
(* passed all the lists that could be the one it seeks.  Hence no list is  *)
(* stored twice; and texts are not either.  What was packed before is      *)
(* found where it was, since texts, words and entries are only appended.   *)
(***************************************************************************)
EXTENDS Payload, Integers, TLAPS

-----------------------------------------------------------------------------
(* Values                                                                    *)

LEMMA Kinds ==
  ASSUME NEW v \in Value
  PROVE  \/ v.kind = "text" /\ v.text \in Text /\ v = [kind |-> "text", text |-> v.text]
         \/ /\ v.kind = "optional" /\ v.text \in Text \cup {"missing"}
            /\ v = [kind |-> "optional", text |-> v.text]
         \/ /\ v.kind = "flag" /\ v.flag \in {"missing", "false", "true"}
            /\ v = [kind |-> "flag", flag |-> v.flag]
         \/ /\ v.kind = "status" /\ \E i \in 1..6 : v.status = statusNames[i]
            /\ v = [kind |-> "status", status |-> v.status]
         \/ /\ v.kind \in ListKind /\ v = [kind |-> v.kind, list |-> v.list]
            /\ v.list = Nil \/ v.list \in Seq([1..Width(v.kind) -> Text])
<1>1. CASE v \in [kind : {"text"}, text : Text]
  BY <1>1
<1>2. CASE v \in [kind : {"optional"}, text : Text \cup {"missing"}]
  BY <1>2
<1>3. CASE v \in [kind : {"flag"}, flag : {"missing", "false", "true"}]
  BY <1>3
<1>4. CASE v \in [kind : {"status"}, status : Range(statusNames)]
  <2>1. v.status \in Range(statusNames) /\ v.kind = "status" /\ v = [kind |-> "status", status |-> v.status]
    BY <1>4
  <2>2. DOMAIN statusNames = 1..6
    BY DEF statusNames
  <2> QED BY <2>1, <2>2 DEF Range
<1>5. CASE \E k \in ListKind : v \in [kind : {k}, list : {Nil} \cup Seq([1..Width(k) -> Text])]
  <2>1. PICK k \in ListKind : v \in [kind : {k}, list : {Nil} \cup Seq([1..Width(k) -> Text])]
    BY <1>5
  <2>2. v.kind = k /\ v.list \in {Nil} \cup Seq([1..Width(k) -> Text])
        /\ v = [kind |-> k, list |-> v.list]
    BY <2>1
  <2> QED BY <2>1, <2>2
<1> QED BY <1>1, <1>2, <1>3, <1>4, <1>5, PayloadAssumption

LEMMA Widths == \A k : Width(k) \in {1, 2, 3}
  BY DEF Width

\* The k-th text of a list of records of a width, and the f-th of its r-th record.
LEMMA RecordPlace ==
  ASSUME NEW w \in {1, 2, 3}, NEW n \in Nat
  PROVE  /\ n * w \in Nat
         /\ \A k \in 1..(n * w) : /\ (k - 1) \div w \in Int /\ (k - 1) \div w + 1 \in 1..n
                                  /\ ((k - 1) % w) + 1 \in 1..w
         /\ \A r \in 1..n, f \in 1..w :
              /\ (r - 1) * w + f \in 1..(n * w)
              /\ (((r - 1) * w + f) - 1) \div w + 1 = r
              /\ ((((r - 1) * w + f) - 1) % w) + 1 = f
         /\ (n * w) \div w = n
         /\ n * w = 0 <=> n = 0
<1>1. CASE w = 1
  BY <1>1
<1>2. CASE w = 2
  BY <1>2
<1>3. CASE w = 3
  BY <1>3
<1> QED BY <1>1, <1>2, <1>3

\* The texts of a list, and how the records come back from them.
LEMMA RecordsOfTexts ==
  ASSUME NEW w \in {1, 2, 3}, NEW records \in Seq([1..w -> Text])
  PROVE  /\ RecordTexts(records, w) \in Seq(Text)
         /\ Len(RecordTexts(records, w)) = Len(records) * w
         /\ Len(RecordTexts(records, w)) \div w = Len(records)
         /\ RecordTexts(records, w) = << >> <=> records = << >>
         /\ \A r \in 1..Len(records), f \in 1..w :
              /\ (r - 1) * w + f \in 1..Len(RecordTexts(records, w))
              /\ RecordTexts(records, w)[(r - 1) * w + f] = records[r][f]
<1> DEFINE n == Len(records)
           t(k) == records[((k - 1) \div w) + 1][((k - 1) % w) + 1]
<1>1. n \in Nat /\ \A r \in 1..n : records[r] \in [1..w -> Text]
  OBVIOUS
<1>2. RecordTexts(records, w) = [k \in 1..(n * w) |-> t(k)]
  BY DEF RecordTexts
<1>3. \A k \in 1..(n * w) : t(k) \in Text
  BY <1>1, RecordPlace
<1>4. records = << >> <=> n = 0
  OBVIOUS
<1> HIDE DEF n
<1>5. \A r \in 1..n, f \in 1..w : (r - 1) * w + f \in 1..(n * w) /\ t((r - 1) * w + f) = records[r][f]
  <2> SUFFICES ASSUME NEW r \in 1..n, NEW f \in 1..w
               PROVE  (r - 1) * w + f \in 1..(n * w) /\ t((r - 1) * w + f) = records[r][f]
    OBVIOUS
  <2> DEFINE k == (r - 1) * w + f
  <2>1. k \in 1..(n * w) /\ (k - 1) \div w + 1 = r /\ ((k - 1) % w) + 1 = f
    BY <1>1, RecordPlace
  <2> HIDE DEF k
  <2>2. t(k) = records[r][f]
    BY <2>1
  <2> HIDE DEF t
  <2> QED BY <2>1, <2>2 DEF k
<1> HIDE DEF t
<1>6. n * w \in Nat /\ (n * w = 0 <=> n = 0) /\ (n * w) \div w = n
  BY <1>1, RecordPlace
<1>7. /\ RecordTexts(records, w) \in Seq(Text) /\ Len(RecordTexts(records, w)) = n * w
      /\ \A k \in 1..(n * w) : RecordTexts(records, w)[k] = t(k)
  BY <1>2, <1>3, <1>6
<1>8. RecordTexts(records, w) = << >> <=> n * w = 0
  BY <1>7
<1> QED BY <1>4, <1>5, <1>6, <1>7, <1>8 DEF n

LEMMA TextsTypes ==
  ASSUME NEW v \in Value
  PROVE  /\ TextsOf(v) \in Seq(Text) /\ Len(TextsOf(v)) \in Nat
         /\ TextsOf(v) = << >> <=> Len(TextsOf(v)) = 0
         /\ ~IsList(v) /\ TextsOf(v) # << >> =>
              /\ v.kind \in {"text", "optional"} /\ v.text \in Text
              /\ TextsOf(v) = <<v.text>>
         /\ IsList(v) /\ TextsOf(v) # << >> =>
              v.list # Nil /\ v.list # << >> /\ v.list \in Seq([1..Width(v.kind) -> Text])
                /\ TextsOf(v) = RecordTexts(v.list, Width(v.kind))
         /\ IsList(v) /\ TextsOf(v) = << >> => v.list \in {Nil, << >>}
<1>1. TextsOf(v) \in Seq(Text)
      /\ (~IsList(v) /\ TextsOf(v) # << >> =>
              /\ v.kind \in {"text", "optional"} /\ v.text \in Text
              /\ TextsOf(v) = <<v.text>>)
      /\ (IsList(v) /\ TextsOf(v) # << >> =>
              v.list # Nil /\ v.list # << >> /\ v.list \in Seq([1..Width(v.kind) -> Text])
                /\ TextsOf(v) = RecordTexts(v.list, Width(v.kind)))
      /\ (IsList(v) /\ TextsOf(v) = << >> => v.list \in {Nil, << >>})
  <2>1. CASE v.kind \in ListKind
    <3>1. ~HasText(v) /\ IsList(v)
      BY <2>1 DEF ListKind, IsList, HasText
    <3>2. v.list = Nil \/ v.list \in Seq([1..Width(v.kind) -> Text])
      BY <2>1, Kinds DEF ListKind
    <3>3. TextsOf(v) = IF v.list = Nil THEN << >> ELSE RecordTexts(v.list, Width(v.kind))
      BY <3>1 DEF TextsOf
    <3>4. CASE v.list = Nil
      BY <3>1, <3>3, <3>4
    <3>5. CASE v.list # Nil
      <4>1. v.list \in Seq([1..Width(v.kind) -> Text]) /\ TextsOf(v) = RecordTexts(v.list, Width(v.kind))
        BY <3>2, <3>3, <3>5
      <4>2. Width(v.kind) \in {1, 2, 3}
        BY Widths
      <4>3. TextsOf(v) \in Seq(Text) /\ (TextsOf(v) = << >> <=> v.list = << >>)
        <5> DEFINE w == Width(v.kind)
                   records == v.list
        <5>1. w \in {1, 2, 3} /\ records \in Seq([1..w -> Text]) /\ TextsOf(v) = RecordTexts(records, w)
          BY <4>1, <4>2
        <5> HIDE DEF w, records
        <5>2. RecordTexts(records, w) \in Seq(Text) /\ (RecordTexts(records, w) = << >> <=> records = << >>)
          BY <5>1, RecordsOfTexts
        <5> QED BY <5>1, <5>2 DEF records
      <4> DEFINE S == Seq([1..Width(v.kind) -> Text])
      <4>4. v.list \in S
        BY <4>1
      <4> HIDE DEF S
      <4>5. TextsOf(v) # << >> => v.list # Nil /\ v.list # << >> /\ v.list \in S
        BY <3>5, <4>3, <4>4
      <4>6. TextsOf(v) = << >> => v.list \in {Nil, << >>}
        BY <4>3
      <4> QED BY <3>1, <4>1, <4>3, <4>5, <4>6 DEF S
    <3> QED BY <3>4, <3>5
  <2>2. CASE v.kind \notin ListKind
    <3>1. ~IsList(v)
      BY <2>2 DEF IsList
    <3>2. \/ v.kind = "text" /\ v.text \in Text
          \/ v.kind = "optional" /\ v.text \in Text \cup {"missing"}
          \/ v.kind \in {"flag", "status"}
      BY <2>2, Kinds
    <3> QED BY <3>1, <3>2 DEF TextsOf, HasText
  <2> QED BY <2>1, <2>2
<1> QED BY <1>1

-----------------------------------------------------------------------------
(* The store of lists                                                        *)

Entry == [span : [start : Nat, count : Nat \ {0}], next : Nat]

\* The words of an entry and their fingerprint.
W(ws, es, e) == [i \in 1..es[e].span.count |-> ws[es[e].span.start + i]]
F(ws, es, e) == Fingerprint(W(ws, es, e))

\* The spans of the entries lie in the word store, which fits the numbers.
Stored(ws, es) ==
  /\ ws \in Seq(Nat) /\ Len(ws) <= MaxUint /\ es \in Seq(Entry)
  /\ \A e \in 1..Len(es) : es[e].span.start + es[e].span.count <= Len(ws)

\* An entry leads to the last one before it with its fingerprint, a fingerprint to
\* the last entry that has it; and no two entries have the same words.
Linked(ws, es) ==
  \A e \in 1..Len(es) :
    /\ es[e].next \in 0..(e - 1)
    /\ es[e].next # 0 => F(ws, es, es[e].next) = F(ws, es, e)
    /\ \A f \in 1..(e - 1) : F(ws, es, f) = F(ws, es, e) => f <= es[e].next

Headed(ws, es, ls) ==
  /\ \A h \in DOMAIN ls : ls[h] \in 1..Len(es) /\ F(ws, es, ls[h]) = h
  /\ \A f \in 1..Len(es) : F(ws, es, f) \in DOMAIN ls /\ f <= ls[F(ws, es, f)]

Distinct(ws, es) == \A e, f \in 1..Len(es) : W(ws, es, e) = W(ws, es, f) => e = f

\* What Store makes of the words, the entries and the heads of the chains.
HeadOf(ls, h) == IF h \in DOMAIN ls THEN ls[h] ELSE 0
NewEntry(ws, ls, l) ==
  [span |-> [start |-> Len(ws), count |-> Len(l)], next |-> HeadOf(ls, Fingerprint(l))]
MoreWords(ws, l) == ws \o l
MoreEntries(ws, es, ls, l) == Append(es, NewEntry(ws, ls, l))
MoreLists(es, ls, l) ==
  [h \in DOMAIN ls \cup {Fingerprint(l)} |-> IF h = Fingerprint(l) THEN Len(es) + 1 ELSE ls[h]]

\* A list that is stored gets the words behind the others, and changes none of them.
LEMMA WordsStay ==
  ASSUME NEW ws, NEW es, NEW ls, Stored(ws, es), Headed(ws, es, ls),
         NEW l \in Seq(Nat), l # << >>, Len(ws) + Len(l) <= MaxUint
  PROVE  /\ Stored(MoreWords(ws, l), MoreEntries(ws, es, ls, l))
         /\ Len(MoreEntries(ws, es, ls, l)) = Len(es) + 1
         /\ \A e \in 1..Len(es) :
              /\ MoreEntries(ws, es, ls, l)[e] = es[e]
              /\ W(MoreWords(ws, l), MoreEntries(ws, es, ls, l), e) = W(ws, es, e)
         /\ MoreEntries(ws, es, ls, l)[Len(es) + 1] = NewEntry(ws, ls, l)
         /\ W(MoreWords(ws, l), MoreEntries(ws, es, ls, l), Len(es) + 1) = l
<1> DEFINE x == NewEntry(ws, ls, l)
           vs == MoreWords(ws, l)
           ds == MoreEntries(ws, es, ls, l)
           nx == HeadOf(ls, Fingerprint(l))
<1>1. /\ ws \in Seq(Nat) /\ Len(ws) \in Nat /\ es \in Seq(Entry) /\ Len(es) \in Nat
      /\ Len(l) \in Nat /\ Len(l) > 0
  BY DEF Stored
<1>2. x \in Entry /\ x.span.start = Len(ws) /\ x.span.count = Len(l) /\ x.next = nx
  <2>1. nx \in Nat
    BY <1>1 DEF Headed, HeadOf
  <2> HIDE DEF nx
  <2>2. x = [span |-> [start |-> Len(ws), count |-> Len(l)], next |-> nx]
    BY DEF NewEntry, nx
  <2> QED BY <2>1, <2>2, <1>1 DEF Entry
<1>3. /\ vs \in Seq(Nat) /\ Len(vs) = Len(ws) + Len(l)
      /\ \A i \in 1..Len(ws) : vs[i] = ws[i]
      /\ \A i \in 1..Len(l) : vs[Len(ws) + i] = l[i]
  BY <1>1 DEF MoreWords
<1> HIDE DEF x, vs
<1>4. /\ ds \in Seq(Entry) /\ Len(ds) = Len(es) + 1 /\ ds[Len(es) + 1] = x
      /\ \A e \in 1..Len(es) : ds[e] = es[e]
  <2>1. ds = Append(es, x)
    BY DEF MoreEntries, x
  <2> QED BY <2>1, <1>1, <1>2
<1> HIDE DEF ds, nx
<1>5. ASSUME NEW e \in 1..Len(es)
      PROVE  W(vs, ds, e) = W(ws, es, e) /\ es[e].span.start + es[e].span.count <= Len(ws)
  <2>1. es[e].span.start \in Nat /\ es[e].span.count \in Nat
        /\ es[e].span.start + es[e].span.count <= Len(ws)
    <3>1. es[e] \in Entry
      BY <1>1
    <3> QED BY <3>1 DEF Entry, Stored
  <2>2. \A i \in 1..es[e].span.count : vs[es[e].span.start + i] = ws[es[e].span.start + i]
    <3> DEFINE a == es[e].span.start
               k == es[e].span.count
    <3>1. a \in Nat /\ k \in Nat /\ a + k <= Len(ws)
      BY <2>1
    <3> HIDE DEF a, k
    <3>2. \A i \in 1..k : a + i \in 1..Len(ws)
      BY <3>1, <1>1
    <3> QED BY <3>2, <1>3 DEF a, k
  <2> QED BY <2>1, <2>2, <1>4 DEF W
<1>6. W(vs, ds, Len(es) + 1) = l
  <2>1. W(vs, ds, Len(es) + 1) = [i \in 1..Len(l) |-> vs[Len(ws) + i]]
    BY <1>2, <1>4 DEF W
  <2>2. [i \in 1..Len(l) |-> vs[Len(ws) + i]] = [i \in 1..Len(l) |-> l[i]]
    BY <1>3
  <2>3. l = [i \in 1..Len(l) |-> l[i]]
    OBVIOUS
  <2> QED BY <2>1, <2>2, <2>3
<1>7. Stored(vs, ds)
  <2>1. ASSUME NEW e \in 1..Len(ds)
        PROVE  ds[e].span.start + ds[e].span.count <= Len(vs)
    <3>1. CASE e = Len(es) + 1
      <4>1. ds[e].span.start + ds[e].span.count = Len(ws) + Len(l)
        BY <3>1, <1>2, <1>4
      <4> QED BY <4>1, <1>1, <1>3
    <3>2. CASE e \in 1..Len(es)
      <4> DEFINE a == es[e].span.start
                 k == es[e].span.count
      <4>1. es[e] \in Entry
        BY <3>2, <1>1
      <4>2. a \in Nat /\ k \in Nat
        BY <4>1 DEF Entry
      <4>3. a + k <= Len(ws) /\ ds[e].span.start = a /\ ds[e].span.count = k
        BY <3>2, <1>4, <1>5
      <4> HIDE DEF a, k
      <4> QED BY <4>2, <4>3, <1>1, <1>3
    <3> QED BY <3>1, <3>2, <1>1, <1>4
  <2> QED BY <2>1, <1>1, <1>3, <1>4 DEF Stored
<1> QED BY <1>4, <1>5, <1>6, <1>7 DEF x, vs, ds

\* A list that is in no entry becomes the head of the chain of its fingerprint.
LEMMA ChainsGrow ==
  ASSUME NEW ws, NEW es, NEW ls, Stored(ws, es), Linked(ws, es), Headed(ws, es, ls),
         Distinct(ws, es), NEW l \in Seq(Nat), l # << >>, Len(ws) + Len(l) <= MaxUint,
         \A e \in 1..Len(es) : W(ws, es, e) # l
  PROVE  /\ Linked(MoreWords(ws, l), MoreEntries(ws, es, ls, l))
         /\ Headed(MoreWords(ws, l), MoreEntries(ws, es, ls, l), MoreLists(es, ls, l))
         /\ Distinct(MoreWords(ws, l), MoreEntries(ws, es, ls, l))
<1> DEFINE vs == MoreWords(ws, l)
           ds == MoreEntries(ws, es, ls, l)
           ms == MoreLists(es, ls, l)
<1>0. /\ Len(ds) = Len(es) + 1
      /\ \A e \in 1..Len(es) : ds[e] = es[e] /\ W(vs, ds, e) = W(ws, es, e)
      /\ ds[Len(es) + 1].next = HeadOf(ls, Fingerprint(l))
      /\ W(vs, ds, Len(es) + 1) = l
  <2>1. NewEntry(ws, ls, l).next = HeadOf(ls, Fingerprint(l))
    BY DEF NewEntry
  <2>2. /\ Len(ds) = Len(es) + 1 /\ ds[Len(es) + 1] = NewEntry(ws, ls, l)
        /\ \A e \in 1..Len(es) : ds[e] = es[e] /\ W(vs, ds, e) = W(ws, es, e)
        /\ W(vs, ds, Len(es) + 1) = l
    BY WordsStay
  <2> QED BY <2>1, <2>2
<1> HIDE DEF vs, ds
<1> DEFINE h == Fingerprint(l)
           top == Len(es) + 1
<1>1. Len(es) \in Nat /\ top \in Nat /\ F(vs, ds, top) = h /\ Len(ds) = top
  BY <1>0 DEF Stored, F
<1>2. \A e \in 1..Len(es) : F(vs, ds, e) = F(ws, es, e) /\ ds[e] = es[e] /\ W(vs, ds, e) = W(ws, es, e)
  BY <1>0 DEF F
<1>3. /\ DOMAIN ms = DOMAIN ls \cup {h} /\ ms[h] = top
      /\ \A g \in DOMAIN ls : g # h => ms[g] = ls[g]
  BY DEF MoreLists
<1>4. ds[top].next = HeadOf(ls, h) /\ W(vs, ds, top) = l
  BY <1>0
<1> HIDE DEF h, top, ms
<1>5. top = Len(es) + 1
  BY DEF top
<1>6. \A g \in DOMAIN ls : ls[g] \in 1..Len(es) /\ F(ws, es, ls[g]) = g
  BY DEF Headed
<1>7. \A f \in 1..Len(es) : F(ws, es, f) \in DOMAIN ls /\ f <= ls[F(ws, es, f)]
  BY DEF Headed
<1>8. Linked(vs, ds)
  <2> SUFFICES ASSUME NEW e \in 1..top
               PROVE  /\ ds[e].next \in 0..(e - 1)
                      /\ ds[e].next # 0 => F(vs, ds, ds[e].next) = F(vs, ds, e)
                      /\ \A f \in 1..(e - 1) : F(vs, ds, f) = F(vs, ds, e) => f <= ds[e].next
    BY <1>1 DEF Linked
  <2>1. CASE e = top
    <3>1. CASE h \in DOMAIN ls
      <4>1. ds[e].next = ls[h] /\ ls[h] \in 1..Len(es) /\ F(ws, es, ls[h]) = h
        BY <2>1, <3>1, <1>4, <1>6 DEF HeadOf
      <4>2. \A f \in 1..(e - 1) : f \in 1..Len(es)
        BY <2>1, <1>1, <1>5
      <4> QED BY <2>1, <4>1, <4>2, <1>1, <1>2, <1>5, <1>7
    <3>2. CASE h \notin DOMAIN ls
      <4>1. ds[e].next = 0
        BY <2>1, <3>2, <1>4 DEF HeadOf
      <4>2. \A f \in 1..(e - 1) : f \in 1..Len(es) /\ F(vs, ds, f) # F(vs, ds, e)
        BY <2>1, <3>2, <1>1, <1>2, <1>5, <1>7
      <4> QED BY <4>1, <4>2, <1>1
    <3> QED BY <3>1, <3>2
  <2>2. CASE e # top
    <3>1. e \in 1..Len(es) /\ e \in Nat
      BY <2>2, <1>1, <1>5
    <3>2. /\ es[e].next \in 0..(e - 1)
          /\ es[e].next # 0 => F(ws, es, es[e].next) = F(ws, es, e)
          /\ \A f \in 1..(e - 1) : F(ws, es, f) = F(ws, es, e) => f <= es[e].next
      BY <3>1 DEF Linked
    <3>3. \A f \in 1..(e - 1) : f \in 1..Len(es)
      BY <3>1, <1>1
    <3>4. es[e].next # 0 => es[e].next \in 1..(e - 1)
      BY <3>1, <3>2
    <3> QED BY <3>1, <3>2, <3>3, <3>4, <1>2
  <2> QED BY <2>1, <2>2
<1>9. Headed(vs, ds, ms)
  <2>1. ASSUME NEW g \in DOMAIN ms PROVE ms[g] \in 1..Len(ds) /\ F(vs, ds, ms[g]) = g
    <3>1. CASE g = h
      BY <3>1, <1>1, <1>3, <1>5
    <3>2. CASE g # h
      BY <3>2, <1>1, <1>2, <1>3, <1>5, <1>6
    <3> QED BY <3>1, <3>2
  <2>2. ASSUME NEW f \in 1..Len(ds) PROVE F(vs, ds, f) \in DOMAIN ms /\ f <= ms[F(vs, ds, f)]
    <3>1. CASE F(vs, ds, f) = h
      BY <3>1, <1>1, <1>3
    <3>2. CASE F(vs, ds, f) # h
      <4>1. f \in 1..Len(es)
        BY <3>2, <1>1, <1>5
      <4> QED BY <3>2, <4>1, <1>2, <1>3, <1>7
    <3> QED BY <3>1, <3>2
  <2> QED BY <2>1, <2>2 DEF Headed
<1>10. Distinct(vs, ds)
  <2> SUFFICES ASSUME NEW e \in 1..top, NEW f \in 1..top, W(vs, ds, e) = W(vs, ds, f) PROVE e = f
    BY <1>1 DEF Distinct
  <2>1. \A d \in 1..top : d = top \/ d \in 1..Len(es)
    BY <1>1, <1>5
  <2>2. \A d \in 1..Len(es) : W(vs, ds, d) # l
    BY <1>2
  <2>3. CASE e \in 1..Len(es) /\ f \in 1..Len(es)
    BY <2>3, <1>2 DEF Distinct
  <2> QED BY <2>1, <2>2, <2>3, <1>4
<1> QED BY <1>8, <1>9, <1>10 DEF vs, ds, ms

-----------------------------------------------------------------------------
(* The invariant                                                             *)

\* The texts have one id each.
Interned(table) ==
  /\ table \in Seq(Text) /\ Len(table) <= MaxUint
  /\ \A i, j \in 1..Len(table) : table[i] = table[j] => i = j

\* Ids that stand for the first of some texts.
Spelt(table, ids, texts) ==
  \A i \in 1..Len(ids) : ids[i] \in 1..Len(table) /\ table[ids[i]] = texts[i]

\* What a row holds stands for a value.
HoldsIn(table, ws, es, v, stored) ==
  /\ TextsOf(v) = << >> => stored = Textless(v)
  /\ TextsOf(v) # << >> /\ ~IsList(v) =>
       stored \in 1..Len(table) /\ table[stored] = TextsOf(v)[1]
  /\ TextsOf(v) # << >> /\ IsList(v) =>
       \E e \in 1..Len(es) :
         /\ stored = es[e].span /\ Len(W(ws, es, e)) = Len(TextsOf(v))
         /\ Spelt(table, W(ws, es, e), TextsOf(v))

Rows == \A p \in packed : p[1] \in Value /\ HoldsIn(strings, words, entries, p[1], p[2])

\* The ids of the texts so far.
Listing ==
  pc \in {"texts", "chain"} =>
    /\ value \in Value /\ TextsOf(value) # << >>
    /\ list \in Seq(Nat) /\ Len(list) <= Len(TextsOf(value))
    /\ Spelt(strings, list, TextsOf(value))

\* The entries that the walk has passed do not have the words it seeks.
Walking ==
  pc = "chain" =>
    /\ IsList(value) /\ Len(list) = Len(TextsOf(value))
    /\ id \in 0..Len(entries)
    /\ id # 0 => F(words, entries, id) = Fingerprint(list)
    /\ \A f \in 1..Len(entries) : f > id => W(words, entries, f) # list

Inv ==
  /\ pc \in {"idle", "texts", "chain", "panic"}
  /\ Interned(strings) /\ Stored(words, entries) /\ Linked(words, entries)
  /\ Headed(words, entries, lists) /\ Distinct(words, entries)
  /\ Rows /\ Listing /\ Walking

LEMMA InitHolds == Init => Inv
<1> SUFFICES ASSUME Init PROVE Inv
  OBVIOUS
<1>1. Len(strings) = 0 /\ Len(words) = 0 /\ Len(entries) = 0 /\ DOMAIN lists = {}
  BY DEF Init
<1>2. Interned(strings)
  BY <1>1, PayloadAssumption DEF Interned, Init
<1>3. Stored(words, entries) /\ Linked(words, entries) /\ Headed(words, entries, lists)
      /\ Distinct(words, entries)
  BY <1>1, PayloadAssumption DEF Stored, Linked, Headed, Distinct, Init
<1> QED BY <1>2, <1>3 DEF Init, Inv, Rows, Listing, Walking

\* Later texts and lists change nothing of what a row holds.
LEMMA HoldsStays ==
  ASSUME NEW table, NEW ws, NEW es, NEW v, NEW stored, HoldsIn(table, ws, es, v, stored),
         NEW more, NEW vs, NEW ds, Len(table) \in Nat, Len(more) \in Nat,
         Len(es) \in Nat, Len(ds) \in Nat, Len(table) <= Len(more), Len(es) <= Len(ds),
         \A i \in 1..Len(table) : more[i] = table[i],
         \A e \in 1..Len(es) : ds[e] = es[e] /\ W(vs, ds, e) = W(ws, es, e)
  PROVE  HoldsIn(more, vs, ds, v, stored)
<1>1. \A i \in 1..Len(table) : i \in 1..Len(more)
  OBVIOUS
<1>2. \A e \in 1..Len(es) : e \in 1..Len(ds)
  OBVIOUS
<1>3. \A ids, texts : Spelt(table, ids, texts) => Spelt(more, ids, texts)
  BY <1>1 DEF Spelt
<1> QED BY <1>1, <1>2, <1>3 DEF HoldsIn

\* What steps do that touch neither texts nor lists.
LEMMA SameStore ==
  ASSUME Inv, UNCHANGED <<strings, store>>,
         pc' \in {"idle", "texts", "chain", "panic"}, Rows', Listing', Walking'
  PROVE  Inv'
  BY DEF Inv, store

\* The id of a text that is in the table.
LEMMA IdOfText ==
  ASSUME NEW table, Len(table) \in Nat, DOMAIN table = 1..Len(table), NEW text,
         \E i \in 1..Len(table) : table[i] = text
  PROVE  IdOf(table, text) \in 1..Len(table) /\ table[IdOf(table, text)] = text
  BY DEF IdOf

LEMMA PackNowKeeps == ASSUME Inv, NEW v \in Value, PackNow(v) PROVE Inv'
<1>1. /\ UNCHANGED <<strings, store>> /\ pc' = "idle" /\ TextsOf(v) = << >>
      /\ packed' = packed \cup {<<v, Textless(v)>>}
  BY DEF PackNow, Return
<1>2. HoldsIn(strings, words, entries, v, Textless(v))
  BY <1>1 DEF HoldsIn
<1>3. Rows'
  BY <1>1, <1>2 DEF Inv, Rows, store
<1> QED BY <1>1, <1>3, SameStore DEF Listing, Walking

LEMMA PackTextsKeeps == ASSUME Inv, NEW v \in Value, PackTexts(v) PROVE Inv'
<1>1. /\ UNCHANGED <<strings, store, packed>> /\ pc' = "texts" /\ TextsOf(v) # << >>
      /\ value' = v /\ list' = << >>
  BY DEF PackTexts
<1>2. Rows'
  BY <1>1 DEF Inv, Rows, store
<1>3. Listing'
  BY <1>1, TextsTypes DEF Listing, Spelt
<1> QED BY <1>1, <1>2, <1>3, SameStore DEF Walking

LEMMA InternKeeps == Inv /\ Intern => Inv'
<1> SUFFICES ASSUME Inv, Intern PROVE Inv'
  OBVIOUS
<1> DEFINE texts == TextsOf(value)
           text == texts[Len(list) + 1]
<1>1. /\ pc = "texts" /\ UNCHANGED <<store, pc, value, id, packed>>
      /\ list' = Append(list, IdOf(strings', text)) /\ Len(list) < Len(texts)
      /\ \/ text \in Range(strings) /\ strings' = strings
         \/ /\ text \notin Range(strings) /\ Len(strings) < MaxUint
            /\ strings' = Append(strings, text)
  BY DEF Intern, HasNextText, NextText
<1>2. /\ strings \in Seq(Text) /\ Len(strings) \in Nat /\ Len(strings) <= MaxUint
      /\ \A i, j \in 1..Len(strings) : strings[i] = strings[j] => i = j
      /\ Len(entries) \in Nat /\ MaxUint \in Nat
  BY PayloadAssumption DEF Inv, Interned, Stored
<1>3. /\ value \in Value /\ texts # << >> /\ list \in Seq(Nat) /\ Len(list) \in Nat
      /\ Spelt(strings, list, texts)
  BY <1>1 DEF Inv, Listing
<1>4. texts \in Seq(Text) /\ Len(texts) \in Nat /\ text \in Text
  <2>1. texts \in Seq(Text) /\ Len(texts) \in Nat
    BY <1>3, TextsTypes
  <2> HIDE DEF texts
  <2> QED BY <2>1, <1>1, <1>3
<1> HIDE DEF texts, text
<1>5. /\ strings' \in Seq(Text) /\ Len(strings') \in Nat /\ Len(strings) <= Len(strings')
      /\ DOMAIN strings' = 1..Len(strings')
      /\ \A i \in 1..Len(strings) : strings'[i] = strings[i]
      /\ \E i \in 1..Len(strings') : strings'[i] = text
      /\ Interned(strings')
  <2>1. CASE text \in Range(strings) /\ strings' = strings
    BY <2>1, <1>2 DEF Range, Interned
  <2>2. CASE text \notin Range(strings) /\ Len(strings) < MaxUint /\ strings' = Append(strings, text)
    <3>1. /\ strings' \in Seq(Text) /\ Len(strings') = Len(strings) + 1
          /\ strings'[Len(strings) + 1] = text
          /\ \A i \in 1..Len(strings) : strings'[i] = strings[i]
      BY <2>2, <1>2, <1>4
    <3>2. \A i \in 1..Len(strings) : strings[i] # text
      BY <2>2, <1>2 DEF Range
    <3>3. \A i \in 1..(Len(strings) + 1) : i \in 1..Len(strings) \/ i = Len(strings) + 1
      BY <1>2
    <3>4. \A i, j \in 1..Len(strings') : strings'[i] = strings'[j] => i = j
      BY <3>1, <3>2, <3>3, <1>2
    <3> QED BY <2>2, <3>1, <3>4, <1>2 DEF Interned
  <2> QED BY <2>1, <2>2, <1>1
<1> DEFINE new == IdOf(strings', text)
<1>6. new \in 1..Len(strings') /\ strings'[new] = text
  BY <1>5, IdOfText
<1> HIDE DEF new
<1>7. /\ list' \in Seq(Nat) /\ Len(list') = Len(list) + 1 /\ list'[Len(list) + 1] = new
      /\ \A i \in 1..Len(list) : list'[i] = list[i]
  <2>1. list' = Append(list, new) /\ new \in Nat
    <3>1. list' = Append(list, new)
      BY <1>1 DEF new
    <3>2. new \in Nat
      BY <1>5, <1>6
    <3> QED BY <3>1, <3>2
  <2> QED BY <2>1, <1>3
<1>8. Spelt(strings', list', texts)
  <2> SUFFICES ASSUME NEW i \in 1..Len(list')
               PROVE  list'[i] \in 1..Len(strings') /\ strings'[list'[i]] = texts[i]
    BY DEF Spelt
  <2>1. CASE i \in 1..Len(list)
    <3>1. list[i] \in 1..Len(strings) /\ strings[list[i]] = texts[i]
      BY <2>1, <1>3 DEF Spelt
    <3> QED BY <2>1, <3>1, <1>2, <1>5, <1>7
  <2>2. CASE i = Len(list) + 1
    BY <2>2, <1>6, <1>7 DEF text
  <2> QED BY <2>1, <2>2, <1>3, <1>7
<1>9. Listing'
  <2>1. TextsOf(value)' = texts /\ value' = value
    BY <1>1 DEF texts
  <2> QED BY <2>1, <1>1, <1>3, <1>4, <1>7, <1>8 DEF Listing
<1>10. Rows'
  <2> SUFFICES ASSUME NEW p \in packed
               PROVE  p[1] \in Value /\ HoldsIn(strings', words', entries', p[1], p[2])
    BY <1>1 DEF Rows
  <2>1. p[1] \in Value /\ HoldsIn(strings, words, entries, p[1], p[2])
    BY DEF Inv, Rows
  <2>2. words' = words /\ entries' = entries
    BY <1>1 DEF store
  <2> QED BY <2>1, <2>2, <1>2, <1>5, HoldsStays
<1> QED BY <1>1, <1>5, <1>9, <1>10 DEF Inv, store, Walking

LEMMA TextPackedKeeps == Inv /\ TextPacked => Inv'
<1> SUFFICES ASSUME Inv, TextPacked PROVE Inv'
  OBVIOUS
<1>1. /\ pc = "texts" /\ UNCHANGED <<strings, store>> /\ pc' = "idle" /\ ~IsList(value)
      /\ packed' = packed \cup {<<value, list[1]>>} /\ Len(list) = Len(TextsOf(value))
  BY DEF TextPacked, Return
<1>2. value \in Value /\ TextsOf(value) # << >> /\ Spelt(strings, list, TextsOf(value))
  BY <1>1 DEF Inv, Listing
<1>3. 1 \in 1..Len(list)
  BY <1>1, <1>2, TextsTypes
<1>4. HoldsIn(strings, words, entries, value, list[1])
  BY <1>1, <1>2, <1>3 DEF HoldsIn, Spelt
<1>5. Rows'
  BY <1>1, <1>2, <1>4 DEF Inv, Rows, store
<1> QED BY <1>1, <1>5, SameStore DEF Listing, Walking

LEMMA PackWordsKeeps == Inv /\ PackWords => Inv'
<1> SUFFICES ASSUME Inv, PackWords PROVE Inv'
  OBVIOUS
<1> DEFINE h == Fingerprint(list)
<1>1. /\ pc = "texts" /\ UNCHANGED <<strings, store, value, list, packed>> /\ pc' = "chain"
      /\ IsList(value) /\ Len(list) = Len(TextsOf(value))
      /\ id' = IF h \in DOMAIN lists THEN lists[h] ELSE 0
  BY DEF PackWords, First
<1>2. Rows' /\ Listing'
  BY <1>1 DEF Inv, Rows, Listing, store
<1>3. /\ \A g \in DOMAIN lists : lists[g] \in 1..Len(entries) /\ F(words, entries, lists[g]) = g
      /\ \A f \in 1..Len(entries) : F(words, entries, f) \in DOMAIN lists
                                   /\ f <= lists[F(words, entries, f)]
      /\ Len(entries) \in Nat
  BY DEF Inv, Headed, Stored
<1>4. id' \in 0..Len(entries) /\ (id' # 0 => F(words, entries, id') = h)
  BY <1>1, <1>3
<1>5. ASSUME NEW f \in 1..Len(entries), W(words, entries, f) = list PROVE ~(f > id')
  <2>1. F(words, entries, f) = h
    BY <1>5 DEF F
  <2>2. h \in DOMAIN lists /\ f <= lists[h] /\ lists[h] \in Nat /\ f \in Nat
    BY <2>1, <1>3
  <2> QED BY <2>2, <1>1
<1>6. Walking'
  <2>1. value' = value /\ list' = list /\ words' = words /\ entries' = entries
    BY <1>1 DEF store
  <2> QED BY <2>1, <1>1, <1>4, <1>5 DEF Walking
<1> QED BY <1>1, <1>2, <1>6, SameStore

LEMMA SkipKeeps == Inv /\ Skip => Inv'
<1> SUFFICES ASSUME Inv, Skip PROVE Inv'
  OBVIOUS
<1>1. /\ pc = "chain" /\ id # 0 /\ ~Equal(entries[id]) /\ id' = entries[id].next
      /\ UNCHANGED <<strings, store, pc, value, list, packed>>
  BY DEF Skip
<1>2. Rows' /\ Listing'
  BY <1>1 DEF Inv, Rows, Listing, store
<1>3. /\ IsList(value) /\ Len(list) = Len(TextsOf(value)) /\ id \in 1..Len(entries)
      /\ F(words, entries, id) = Fingerprint(list) /\ Len(entries) \in Nat
      /\ \A f \in 1..Len(entries) : f > id => W(words, entries, f) # list
  BY <1>1 DEF Inv, Walking, Stored
<1>4. /\ id' \in 0..(id - 1)
      /\ id' # 0 => F(words, entries, id') = F(words, entries, id)
      /\ \A f \in 1..(id - 1) : F(words, entries, f) = F(words, entries, id) => f <= id'
  BY <1>1, <1>3 DEF Inv, Linked
<1>5. W(words, entries, id) # list
  <2> SUFFICES ASSUME W(words, entries, id) = list PROVE FALSE
    OBVIOUS
  <2>1. Read(entries[id].span) = W(words, entries, id)
    BY DEF Read, W
  <2>2. entries[id] \in Entry
    BY <1>3 DEF Inv, Stored
  <2>3. Len(W(words, entries, id)) = entries[id].span.count
    BY <2>2 DEF W, Entry
  <2> QED BY <2>1, <2>3, <1>1 DEF Equal
<1>6. ASSUME NEW f \in 1..Len(entries), f > id', W(words, entries, f) = list PROVE FALSE
  <2>1. F(words, entries, f) = F(words, entries, id)
    BY <1>3, <1>6 DEF F
  <2>2. f # id /\ ~(f > id)
    BY <1>3, <1>5, <1>6
  <2> QED BY <2>1, <2>2, <1>3, <1>4, <1>6
<1>7. Walking'
  <2>1. value' = value /\ list' = list /\ words' = words /\ entries' = entries
    BY <1>1 DEF store
  <2>2. id' \in 0..Len(entries)
    BY <1>3, <1>4
  <2> QED BY <2>1, <2>2, <1>3, <1>4, <1>6 DEF Walking
<1> QED BY <1>1, <1>2, <1>7, SameStore

LEMMA FoundKeeps == Inv /\ Found => Inv'
<1> SUFFICES ASSUME Inv, Found PROVE Inv'
  OBVIOUS
<1>1. /\ pc = "chain" /\ id # 0 /\ Equal(entries[id]) /\ pc' = "idle"
      /\ UNCHANGED <<strings, store>> /\ packed' = packed \cup {<<value, entries[id].span>>}
  BY DEF Found, Return
<1>2. /\ IsList(value) /\ Len(list) = Len(TextsOf(value)) /\ id \in 1..Len(entries)
      /\ value \in Value /\ TextsOf(value) # << >> /\ Spelt(strings, list, TextsOf(value))
  BY <1>1 DEF Inv, Walking, Listing
<1>3. W(words, entries, id) = list
  BY <1>1 DEF Equal, Read, W
<1>4. HoldsIn(strings, words, entries, value, entries[id].span)
  BY <1>2, <1>3 DEF HoldsIn
<1>5. Rows'
  BY <1>1, <1>2, <1>4 DEF Inv, Rows, store
<1> QED BY <1>1, <1>5, SameStore DEF Listing, Walking

LEMMA StoreKeeps == Inv /\ Store => Inv'
<1> SUFFICES ASSUME Inv, Store PROVE Inv'
  OBVIOUS
<1> DEFINE span == [start |-> Len(words), count |-> Len(list)]
<1>1. /\ pc = "chain" /\ id = 0 /\ Len(words) + Len(list) <= MaxUint
      /\ packed' = packed \cup {<<value, span>>} /\ pc' = "idle" /\ strings' = strings
  BY DEF Store, StoreWith, Return
<1>2. /\ words' = MoreWords(words, list)
      /\ entries' = MoreEntries(words, entries, lists, list)
      /\ lists' = MoreLists(entries, lists, list)
  BY DEF Store, StoreWith, First, MoreWords, MoreEntries, NewEntry, HeadOf, MoreLists
<1>3. /\ IsList(value) /\ Len(list) = Len(TextsOf(value)) /\ list \in Seq(Nat)
      /\ value \in Value /\ TextsOf(value) # << >> /\ Spelt(strings, list, TextsOf(value))
      /\ \A f \in 1..Len(entries) : W(words, entries, f) # list
  BY <1>1 DEF Inv, Walking, Listing
<1>4. Len(list) \in Nat /\ list # << >> /\ Len(entries) \in Nat /\ Len(strings) \in Nat
  BY <1>3, TextsTypes DEF Inv, Stored, Interned
<1>5. /\ Stored(words', entries') /\ Len(entries') = Len(entries) + 1
      /\ \A e \in 1..Len(entries) : /\ entries'[e] = entries[e]
                                    /\ W(words', entries', e) = W(words, entries, e)
      /\ entries'[Len(entries) + 1].span = span /\ W(words', entries', Len(entries) + 1) = list
  <2>1. NewEntry(words, lists, list).span = span
    BY DEF NewEntry
  <2> HIDE DEF span
  <2> QED BY <2>1, <1>1, <1>2, <1>3, <1>4, WordsStay DEF Inv
<1>6. Linked(words', entries') /\ Headed(words', entries', lists') /\ Distinct(words', entries')
  BY <1>1, <1>2, <1>3, <1>4, ChainsGrow DEF Inv
<1>7. Rows'
  <2>1. \A p \in packed : p[1] \in Value /\ HoldsIn(strings, words', entries', p[1], p[2])
    BY <1>4, <1>5, HoldsStays DEF Inv, Rows
  <2>2. HoldsIn(strings, words', entries', value, span)
    <3>1. Len(entries) + 1 \in 1..Len(entries') /\ entries'[Len(entries) + 1].span = span
      BY <1>4, <1>5
    <3> QED BY <3>1, <1>3, <1>5 DEF HoldsIn
  <2> QED BY <2>1, <2>2, <1>1, <1>3 DEF Rows
<1> QED BY <1>1, <1>5, <1>6, <1>7 DEF Inv, Listing, Walking

LEMMA NextKeeps == Inv /\ [Next]_vars => Inv'
<1> SUFFICES ASSUME Inv, [Next]_vars PROVE Inv'
  OBVIOUS
<1>1. CASE \E v \in Value : PackNow(v) \/ PackTexts(v)
  BY <1>1, PackNowKeeps, PackTextsKeeps
<1>2. CASE Intern
  BY <1>2, InternKeeps
<1>3. CASE TextPacked
  BY <1>3, TextPackedKeeps
<1>4. CASE PackWords
  BY <1>4, PackWordsKeeps
<1>5. CASE Skip
  BY <1>5, SkipKeeps
<1>6. CASE Found
  BY <1>6, FoundKeeps
<1>7. CASE Store
  BY <1>7, StoreKeeps
<1>8. CASE TextOverflow \/ Overflow
  <2>1. UNCHANGED <<strings, store, value, list, id, packed>> /\ pc' = "panic"
    BY <1>8 DEF TextOverflow, Overflow
  <2> QED BY <2>1 DEF Inv, Rows, Listing, Walking, store
<1>9. CASE Stopped \/ UNCHANGED vars
  <2>1. UNCHANGED vars
    BY <1>9 DEF Stopped
  <2> QED BY <2>1 DEF Inv, Rows, Listing, Walking, vars, store
<1> QED BY <1>1, <1>2, <1>3, <1>4, <1>5, <1>6, <1>7, <1>8, <1>9 DEF Next

LEMMA Invariant == Spec => []Inv
  BY InitHolds, NextKeeps, PTL DEF Spec

-----------------------------------------------------------------------------
(* The properties                                                            *)

\* The chain of a fingerprint leads from entry to older entry, and holds no entry of
\* another fingerprint: every walk of internWords ends (payload.go:87-102).
THEOREM ChainsLeadBack == Spec => []ChainsDescend
<1>1. Inv => ChainsDescend
  <2> SUFFICES ASSUME Inv PROVE ChainsDescend
    OBVIOUS
  <2>1. \A e : Read(entries[e].span) = W(words, entries, e)
    BY DEF Read, W
  <2>2. DOMAIN entries = 1..Len(entries) /\ Len(entries) \in Nat
    BY DEF Inv, Stored
  <2>3. \A e \in 1..Len(entries) :
          /\ entries[e].next < e
          /\ entries[e].next # 0 => F(words, entries, entries[e].next) = F(words, entries, e)
    BY <2>2 DEF Inv, Linked
  <2>4. \A h \in DOMAIN lists : F(words, entries, lists[h]) = h
    BY DEF Inv, Headed
  <2>5. \A e : Fingerprint(Read(entries[e].span)) = F(words, entries, e)
    BY <2>1 DEF F
  <2> QED BY <2>2, <2>3, <2>4, <2>5 DEF ChainsDescend
<1> QED BY <1>1, Invariant, PTL

\* The span of a list that is not nil lies in the store and is not the span of nil.
LEMMA SpansFit ==
  ASSUME Inv, NEW v \in Value, NEW s, HoldsIn(strings, words, entries, v, s), IsList(v), v.list # Nil
  PROVE  s.start + s.count <= MaxUint /\ s.start # MaxUint
<1>1. CASE TextsOf(v) = << >>
  <2>1. s = EmptySpan
    BY <1>1 DEF HoldsIn, Textless
  <2> QED BY <2>1, PayloadAssumption DEF EmptySpan
<1>2. CASE TextsOf(v) # << >>
  <2>1. PICK e \in 1..Len(entries) : s = entries[e].span
    BY <1>2 DEF HoldsIn
  <2>2. entries[e] \in Entry /\ Len(words) \in Nat /\ Len(words) <= MaxUint
        /\ entries[e].span.start + entries[e].span.count <= Len(words)
    BY DEF Inv, Stored
  <2>3. s.start \in Nat /\ s.count \in Nat \ {0}
    BY <2>1, <2>2 DEF Entry
  <2> QED BY <2>1, <2>2, <2>3, PayloadAssumption
<1> QED BY <1>1, <1>2

\* The records of a list come back from its words.
LEMMA RecordsDecode ==
  ASSUME Inv, NEW v \in Value, NEW s, HoldsIn(strings, words, entries, v, s), IsList(v),
         TextsOf(v) # << >>
  PROVE  Records(s, Width(v.kind)) = v.list
<1> DEFINE w == Width(v.kind)
           n == Len(v.list)
<1>1. v.list \in Seq([1..w -> Text]) /\ TextsOf(v) = RecordTexts(v.list, w) /\ w \in {1, 2, 3}
  BY TextsTypes, Widths
<1> HIDE DEF w
<1>2. PICK e \in 1..Len(entries) :
        /\ s = entries[e].span /\ Len(W(words, entries, e)) = Len(TextsOf(v))
        /\ Spelt(strings, W(words, entries, e), TextsOf(v))
  BY DEF HoldsIn
<1>3. s.start \in Nat /\ s.count \in Nat
  <2>1. entries[e] \in Entry
    BY DEF Inv, Stored
  <2> QED BY <1>2, <2>1 DEF Entry
<1>4. W(words, entries, e) = [i \in 1..s.count |-> words[s.start + i]]
  BY <1>2 DEF W
<1>5. Len(TextsOf(v)) = s.count /\ \A i \in 1..s.count : strings[words[s.start + i]] = TextsOf(v)[i]
  <2>1. Len(W(words, entries, e)) = s.count
    BY <1>3, <1>4
  <2> QED BY <2>1, <1>2, <1>4 DEF Spelt
<1>6. /\ n \in Nat /\ s.count \div w = n
      /\ \A r \in 1..n, f \in 1..w :
           (r - 1) * w + f \in 1..s.count /\ TextsOf(v)[(r - 1) * w + f] = v.list[r][f]
  <2> DEFINE records == v.list
  <2>1. records \in Seq([1..w -> Text]) /\ TextsOf(v) = RecordTexts(records, w)
    BY <1>1
  <2>2. n = Len(records)
    OBVIOUS
  <2>5. records = v.list
    OBVIOUS
  <2> HIDE DEF n, records
  <2>3. /\ Len(TextsOf(v)) \div w = Len(records)
        /\ \A r \in 1..Len(records), f \in 1..w :
             /\ (r - 1) * w + f \in 1..Len(TextsOf(v))
             /\ TextsOf(v)[(r - 1) * w + f] = records[r][f]
    <3>1. /\ Len(RecordTexts(records, w)) \div w = Len(records)
          /\ \A r \in 1..Len(records), f \in 1..w :
               /\ (r - 1) * w + f \in 1..Len(RecordTexts(records, w))
               /\ RecordTexts(records, w)[(r - 1) * w + f] = records[r][f]
      BY <1>1, <2>1, RecordsOfTexts
    <3> QED BY <2>1, <3>1
  <2>4. Len(records) \in Nat
    BY <2>1
  <2> QED BY <1>5, <2>2, <2>3, <2>4, <2>5
<1>7. \A r \in 1..n, f \in 1..w : strings[words[s.start + (r - 1) * w + f]] = v.list[r][f]
  <2> SUFFICES ASSUME NEW r \in 1..n, NEW f \in 1..w
               PROVE  strings[words[s.start + (r - 1) * w + f]] = v.list[r][f]
    OBVIOUS
  <2> DEFINE m == (r - 1) * w
  <2>1. r \in Nat /\ w \in Nat /\ f \in Nat
    BY <1>1, <1>6
  <2>2. m \in Int
    BY <2>1
  <2>3. m + f \in 1..s.count /\ TextsOf(v)[m + f] = v.list[r][f]
    BY <1>6
  <2> HIDE DEF m
  <2>4. s.start + m + f = s.start + (m + f)
    BY <2>1, <2>2, <1>3
  <2>5. strings[words[s.start + m + f]] = v.list[r][f]
    BY <2>3, <2>4, <1>5
  <2> QED BY <2>5 DEF m
<1>8. Records(s, w) = [r \in 1..n |-> [f \in 1..w |-> v.list[r][f]]]
  BY <1>6, <1>7 DEF Records
<1>9. \A r \in 1..n : v.list[r] = [f \in 1..w |-> v.list[r][f]]
  BY <1>1
<1>10. v.list = [r \in 1..n |-> v.list[r]]
  BY SMTT(40), <1>1
<1> QED BY <1>8, <1>9, <1>10 DEF w

LEMMA Decodes ==
  ASSUME Inv, NEW v \in Value, NEW s, HoldsIn(strings, words, entries, v, s)
  PROVE  Unpacked(v.kind, s) =
           IF IsList(v) /\ v.kind # "policy" /\ v.list = Nil
           THEN [v EXCEPT !.list = << >>] ELSE v
<1>1. CASE v.kind \in ListKind
  <2>1. IsList(v) /\ v = [kind |-> v.kind, list |-> v.list]
    BY <1>1, Kinds DEF IsList, ListKind
  <2>2. Unpacked(v.kind, s) = [kind |-> v.kind, list |-> UnpackedList(v.kind, s)]
    BY <1>1 DEF Unpacked
  <2>3. \A m : m \in {1, 2, 3} => 0 \div m = 0
    OBVIOUS
  <2>4. s.count = 0 => Records(s, Width(v.kind)) = << >>
    BY <2>3, Widths DEF Records
  <2>5. CASE v.list = Nil
    <3>1. s = NilSpan
      BY <2>1, <2>5 DEF HoldsIn, Textless, TextsOf, HasText, ListKind, IsList
    <3>2. s.start = MaxUint /\ s.count = 0
      BY <3>1 DEF NilSpan
    <3>3. UnpackedList(v.kind, s) = IF v.kind = "policy" THEN Nil ELSE << >>
      BY <3>2, <2>4 DEF UnpackedList
    <3>4. [v EXCEPT !.list = << >>] = [kind |-> v.kind, list |-> << >>]
      BY <2>1
    <3> QED BY <2>1, <2>2, <2>5, <3>3, <3>4
  <2>6. CASE v.list # Nil
    <3>1. s.start # MaxUint
      BY <2>1, <2>6, SpansFit
    <3>2. Records(s, Width(v.kind)) = v.list
      <4>1. CASE TextsOf(v) = << >>
        <5>1. v.list = << >>
          BY <4>1, <2>1, <2>6, TextsTypes
        <5>2. s = EmptySpan
          BY <4>1, <2>1, <2>6 DEF HoldsIn, Textless
        <5> QED BY <5>1, <5>2, <2>4 DEF EmptySpan
      <4>2. CASE TextsOf(v) # << >>
        BY <4>2, <2>1, RecordsDecode
      <4> QED BY <4>1, <4>2
    <3>3. UnpackedList(v.kind, s) = v.list
      BY <3>1, <3>2 DEF UnpackedList
    <3> QED BY <2>1, <2>2, <2>6, <3>3
  <2> QED BY <2>5, <2>6
<1>2. CASE v.kind = "flag"
  <2>1. v.flag \in {"missing", "false", "true"} /\ v = [kind |-> "flag", flag |-> v.flag]
    BY <1>2, Kinds DEF ListKind
  <2>2. s = IF v.flag = "missing" THEN 0 ELSE IF v.flag = "true" THEN 2 ELSE 1
    BY <1>2 DEF HoldsIn, Textless, TextsOf, HasText, IsList, ListKind
  <2>3. UnpackedFlag(s) = v.flag
    BY <2>1, <2>2 DEF UnpackedFlag
  <2>4. Unpacked(v.kind, s) = [kind |-> v.kind, flag |-> UnpackedFlag(s)]
    BY <1>2 DEF Unpacked, ListKind
  <2> QED BY <1>2, <2>1, <2>3, <2>4 DEF IsList, ListKind
<1>3. CASE v.kind = "status"
  <2>1. v = [kind |-> "status", status |-> v.status] /\ \E i \in 1..6 : v.status = statusNames[i]
    BY <1>3, Kinds DEF ListKind
  <2>2. s = IdOf(statusNames, v.status) - 1
    BY <1>3 DEF HoldsIn, Textless, TextsOf, HasText, IsList, ListKind
  <2>3. DOMAIN statusNames = 1..6 /\ Len(statusNames) = 6
    BY DEF statusNames
  <2>4. IdOf(statusNames, v.status) \in 1..6 /\ statusNames[IdOf(statusNames, v.status)] = v.status
    <3>1. \E i \in DOMAIN statusNames : statusNames[i] = v.status
      BY <2>1, <2>3
    <3> QED BY <3>1, <2>3 DEF IdOf
  <2>5. s + 1 = IdOf(statusNames, v.status)
    BY <2>2, <2>4
  <2>6. Unpacked(v.kind, s) = [kind |-> v.kind, status |-> statusNames[s + 1]]
    BY <1>3 DEF Unpacked, ListKind
  <2> QED BY <1>3, <2>1, <2>4, <2>5, <2>6 DEF IsList, ListKind
<1>4. CASE v.kind \in {"text", "optional"}
  <2>1. ~IsList(v) /\ v.kind \notin ListKind /\ v = [kind |-> v.kind, text |-> v.text]
    <3>1. v.kind \notin ListKind
      BY <1>4 DEF ListKind
    <3>2. v = [kind |-> v.kind, text |-> v.text]
      <4>1. CASE v.kind = "text"
        BY <4>1, <3>1, Kinds
      <4>2. CASE v.kind = "optional"
        BY <4>2, <3>1, Kinds
      <4> QED BY <4>1, <4>2, <1>4
    <3> QED BY <3>1, <3>2 DEF IsList
  <2>2. CASE HasText(v)
    <3>1. TextsOf(v) = <<v.text>>
      BY <2>2 DEF TextsOf
    <3>2. s \in 1..Len(strings) /\ strings[s] = v.text
      BY <2>1, <3>1 DEF HoldsIn
    <3>3. s # 0
      BY <3>2
    <3>4. Unpacked(v.kind, s) = [kind |-> v.kind, text |-> strings[s]]
      BY <1>4, <2>1, <3>3 DEF Unpacked
    <3> QED BY <2>1, <3>2, <3>4
  <2>3. CASE ~HasText(v)
    <3>1. v.kind = "optional" /\ v.text = "missing"
      BY <2>3, <1>4 DEF HasText
    <3>2. s = 0
      BY <3>1, <2>1, <2>3 DEF HoldsIn, Textless, TextsOf
    <3>3. Unpacked(v.kind, s) = [kind |-> v.kind, text |-> "missing"]
      BY <2>1, <3>1, <3>2 DEF Unpacked
    <3> QED BY <2>1, <3>1, <3>3
  <2> QED BY <2>2, <2>3
<1> QED BY <1>1, <1>2, <1>3, <1>4, Kinds

\* What a row holds keeps its value for ever, whatever is packed later and whatever
\* fingerprints collide (payload.go:22-156, abi.go:121-151).
THEOREM RowsKeepTheirValues == Spec => []RowsDecode
<1>1. Inv => RowsDecode
  BY Decodes DEF Inv, Rows, RowsDecode
<1> QED BY <1>1, Invariant, PTL

\* A value is held in one way only.
LEMMA HeldOnce ==
  ASSUME Inv, NEW v \in Value, NEW s, HoldsIn(strings, words, entries, v, s),
         NEW t, HoldsIn(strings, words, entries, v, t)
  PROVE  s = t
<1>1. CASE TextsOf(v) = << >>
  BY <1>1 DEF HoldsIn
<1>2. CASE TextsOf(v) # << >> /\ ~IsList(v)
  BY <1>2 DEF HoldsIn, Inv, Interned
<1>3. CASE TextsOf(v) # << >> /\ IsList(v)
  <2>1. PICK e \in 1..Len(entries) :
          /\ s = entries[e].span /\ Len(W(words, entries, e)) = Len(TextsOf(v))
          /\ Spelt(strings, W(words, entries, e), TextsOf(v))
    BY <1>3 DEF HoldsIn
  <2>2. PICK f \in 1..Len(entries) :
          /\ t = entries[f].span /\ Len(W(words, entries, f)) = Len(TextsOf(v))
          /\ Spelt(strings, W(words, entries, f), TextsOf(v))
    BY <1>3 DEF HoldsIn
  <2>3. \A d \in 1..Len(entries) :
          W(words, entries, d) = [i \in 1..Len(W(words, entries, d)) |-> W(words, entries, d)[i]]
    <3> SUFFICES ASSUME NEW d \in 1..Len(entries)
                 PROVE  W(words, entries, d) = [i \in 1..Len(W(words, entries, d)) |-> W(words, entries, d)[i]]
      OBVIOUS
    <3> DEFINE k == entries[d].span.count
    <3>1. k \in Nat
      <4>1. entries[d] \in Entry
        BY DEF Inv, Stored
      <4> QED BY <4>1 DEF Entry
    <3>2. W(words, entries, d) = [i \in 1..k |-> words[entries[d].span.start + i]]
      BY DEF W
    <3> HIDE DEF k
    <3>3. Len(W(words, entries, d)) = k
      BY <3>1, <3>2
    <3> QED BY <3>2, <3>3
  <2>4. \A i \in 1..Len(TextsOf(v)) : W(words, entries, e)[i] = W(words, entries, f)[i]
    <3> SUFFICES ASSUME NEW i \in 1..Len(TextsOf(v))
                 PROVE  W(words, entries, e)[i] = W(words, entries, f)[i]
      OBVIOUS
    <3> DEFINE a == W(words, entries, e)[i]
               b == W(words, entries, f)[i]
    <3>1. a \in 1..Len(strings) /\ b \in 1..Len(strings) /\ strings[a] = strings[b]
      BY <2>1, <2>2 DEF Spelt
    <3> HIDE DEF a, b
    <3>2. a = b
      BY <3>1 DEF Inv, Interned
    <3> QED BY <3>2 DEF a, b
  <2>5. W(words, entries, e) = W(words, entries, f)
    BY <2>1, <2>2, <2>3, <2>4
  <2> QED BY <2>1, <2>2, <2>5 DEF Inv, Distinct
<1> QED BY <1>1, <1>2, <1>3

\* Two fields of a kind hold the same exactly when they have the same value, and no
\* span is taken for the one of nil (payload.go:9, 67-111).
THEOREM EqualRowsAreShared == Spec => []SpansCanonical
<1>1. Inv => SpansCanonical
  <2> SUFFICES ASSUME Inv PROVE SpansCanonical
    OBVIOUS
  <2>1. \A p \in packed : p[1] \in Value /\ HoldsIn(strings, words, entries, p[1], p[2])
    BY DEF Inv, Rows
  <2>2. \A p \in packed :
          IsList(p[1]) /\ p[1].list # Nil =>
            p[2].start + p[2].count <= MaxUint /\ p[2].start # NilSpan.start
    BY <2>1, SpansFit DEF NilSpan
  <2>3. ASSUME NEW p \in packed, NEW q \in packed, p[1].kind = q[1].kind, p[1] = q[1]
        PROVE  p[2] = q[2]
    BY <2>1, <2>3, HeldOnce
  <2>4. ASSUME NEW p \in packed, NEW q \in packed, p[1].kind = q[1].kind, p[2] = q[2]
        PROVE  p[1] = q[1]
    <3> DEFINE v == p[1]
               u == q[1]
               s == p[2]
    <3>1. /\ v \in Value /\ u \in Value /\ v.kind = u.kind
          /\ HoldsIn(strings, words, entries, v, s) /\ HoldsIn(strings, words, entries, u, s)
      BY <2>1, <2>4
    <3> HIDE DEF v, u, s
    <3>2. /\ Unpacked(v.kind, s) = IF IsList(v) /\ v.kind # "policy" /\ v.list = Nil
                                   THEN [v EXCEPT !.list = << >>] ELSE v
          /\ Unpacked(u.kind, s) = IF IsList(u) /\ u.kind # "policy" /\ u.list = Nil
                                   THEN [u EXCEPT !.list = << >>] ELSE u
      BY <3>1, Decodes
    <3>3. CASE ~IsList(v)
      <4>1. ~IsList(u)
        BY <3>1, <3>3 DEF IsList
      <4> QED BY <3>1, <3>2, <3>3, <4>1 DEF v, u
    <3>4. CASE IsList(v)
      <4>1. IsList(u) /\ v = [kind |-> v.kind, list |-> v.list] /\ u = [kind |-> u.kind, list |-> u.list]
        BY <3>1, <3>4, Kinds DEF IsList, ListKind
      <4>2. \A x \in {v, u} : x.list = Nil <=> s.start = MaxUint
        <5>1. ASSUME NEW x \in Value, IsList(x), HoldsIn(strings, words, entries, x, s)
              PROVE  x.list = Nil <=> s.start = MaxUint
          <6>1. CASE x.list = Nil
            <7>1. s = NilSpan
              BY <5>1, <6>1 DEF HoldsIn, Textless, TextsOf, HasText, IsList, ListKind
            <7> QED BY <6>1, <7>1 DEF NilSpan
          <6>2. CASE x.list # Nil
            BY <5>1, <6>2, SpansFit
          <6> QED BY <6>1, <6>2
        <5> QED BY <5>1, <3>1, <3>4, <4>1
      <4>3. CASE v.list = Nil
        BY <4>1, <4>2, <4>3, <3>1 DEF v, u
      <4>4. CASE v.list # Nil
        BY <4>1, <4>2, <4>4, <3>1, <3>2 DEF v, u
      <4> QED BY <4>3, <4>4
    <3> QED BY <3>3, <3>4
  <2>5. \A p, q \in packed : p[1].kind = q[1].kind => (p[1] = q[1] <=> p[2] = q[2])
    BY <2>3, <2>4
  <2> QED BY <2>2, <2>5 DEF SpansCanonical
<1> QED BY <1>1, Invariant, PTL
=============================================================================
