--------------------------- MODULE FramingProofs ---------------------------
(***************************************************************************)
(* Proofs about Framing, for all articles, bounds and places where the     *)
(* stream breaks.                                                          *)
(***************************************************************************)
EXTENDS Overview, SequenceTheorems, WellFoundedInduction, TLAPS

-----------------------------------------------------------------------------
(* Lines                                                                    *)

LEMMA ByteFacts ==
    /\ Dot \in Bytes /\ CR \in Bytes /\ LF \in Bytes
    /\ Dot # CR /\ Dot # LF /\ CR # LF
  BY DEF Dot, CR, LF, Bytes

\* Two bytes, one after the other.
LEMMA Pair ==
    ASSUME NEW S, NEW a \in S, NEW b \in S
    PROVE  <<a>> \o <<b>> = <<a, b>>
<1>1. /\ <<a>> \in Seq(S) /\ <<b>> \in Seq(S) /\ <<a, b>> \in Seq(S)
      /\ Len(<<a>>) = 1 /\ Len(<<b>>) = 1 /\ Len(<<a, b>>) = 2
      /\ <<a>>[1] = a /\ <<b>>[1] = b /\ <<a, b>>[1] = a /\ <<a, b>>[2] = b
  OBVIOUS
<1> DEFINE t == <<a>> \o <<b>>
<1>2. /\ t \in Seq(S) /\ Len(t) = 2
      /\ \A i \in 1..2 : t[i] = IF i <= 1 THEN <<a>>[i] ELSE <<b>>[i - 1]
  BY <1>1, ConcatProperties
<1> HIDE DEF t
<1>3. t[1] = a /\ t[2] = b
  BY <1>1, <1>2
<1>4. \A i \in 1..Len(t) : t[i] = <<a, b>>[i]
  BY <1>1, <1>2, <1>3
<1> QED
  BY <1>1, <1>2, <1>4, SeqEqual DEF t

\* A sequence with one more element at its end.
LEMMA OneMore ==
    ASSUME NEW S, NEW s \in Seq(S), NEW b \in S
    PROVE  /\ s \o <<b>> \in Seq(S) /\ s \o <<b>> # <<>>
           /\ Len(s \o <<b>>) = Len(s) + 1 /\ Len(s) \in Nat
           /\ \A i \in 1..Len(s) : (s \o <<b>>)[i] = s[i]
           /\ (s \o <<b>>)[Len(s) + 1] = b
           /\ WithoutLast(s \o <<b>>) = s
<1>1. <<b>> \in Seq(S) /\ Len(<<b>>) = 1 /\ <<b>>[1] = b
  OBVIOUS
<1> DEFINE t == s \o <<b>>
<1>2. /\ t \in Seq(S) /\ Len(t) = Len(s) + 1 /\ Len(s) \in Nat
      /\ \A i \in 1..(Len(s) + 1) : t[i] = IF i <= Len(s) THEN s[i] ELSE <<b>>[i - Len(s)]
  BY <1>1, ConcatProperties, LenProperties
<1> HIDE DEF t
<1>3. \A i \in 1..Len(s) : t[i] = s[i]
  BY <1>2
<1>4. t[Len(s) + 1] = b
  BY <1>1, <1>2
<1>5. SubSeq(t, 1, Len(s)) = s
  <2>1. \A i \in 1..Len(s) : t[i] \in S
    BY <1>3, ElementOfSeq
  <2>2. /\ SubSeq(t, 1, Len(s)) \in Seq(S) /\ Len(SubSeq(t, 1, Len(s))) = Len(s)
        /\ \A i \in 1..Len(s) : SubSeq(t, 1, Len(s))[i] = t[i]
    BY <1>2, <2>1, SubSeqProperties
  <2> QED
    BY <1>3, <2>2, SeqEqual
<1>6. t # <<>>
  BY <1>2
<1> QED
  BY <1>2, <1>3, <1>4, <1>5, <1>6 DEF t, WithoutLast

\* A sequence with one more element in front of it.
LEMMA OneBefore ==
    ASSUME NEW S, NEW s \in Seq(S), NEW b \in S
    PROVE  /\ <<b>> \o s \in Seq(S) /\ <<b>> \o s # <<>>
           /\ Len(<<b>> \o s) = Len(s) + 1 /\ Len(s) \in Nat
           /\ (<<b>> \o s)[1] = b
           /\ \A i \in 1..Len(s) : (<<b>> \o s)[i + 1] = s[i]
           /\ Tail(<<b>> \o s) = s
<1>1. <<b>> \in Seq(S) /\ Len(<<b>>) = 1 /\ <<b>>[1] = b
  OBVIOUS
<1> DEFINE t == <<b>> \o s
<1>2. /\ t \in Seq(S) /\ Len(t) = Len(s) + 1 /\ Len(s) \in Nat
      /\ \A i \in 1..(Len(s) + 1) : t[i] = IF i <= 1 THEN <<b>>[i] ELSE s[i - 1]
  BY <1>1, ConcatProperties, LenProperties
<1> HIDE DEF t
<1>3. t # <<>> /\ t[1] = b /\ \A i \in 1..Len(s) : t[i + 1] = s[i]
  BY <1>1, <1>2
<1>4. Tail(t) = s
  BY <1>2, <1>3, HeadTailProperties, SeqEqual
<1> QED
  BY <1>2, <1>3, <1>4 DEF t

\* The line of an article, with its CR removed where it is.
LEMMA TrimmedIsText ==
    ASSUME NEW item \in Item
    PROVE  Trimmed(item) \in Text
<1>1. item.text \in Text
  BY DEF Item
<1>2. CASE item.text = <<>>
  BY <1>1, <1>2 DEF Trimmed, EndsWith
<1>3. CASE item.text # <<>>
  <2>1. WithoutLast(item.text) \in Text
    <3>1. Len(item.text) \in Nat \ {0} /\ \A i \in 1..(Len(item.text) - 1) : item.text[i] \in Bytes \ {LF}
      BY <1>1, <1>3, EmptySeq, ElementOfSeq DEF Text
    <3> QED
      BY <1>1, <3>1, SubSeqProperties DEF Text, WithoutLast
  <2> QED
    BY <1>1, <2>1 DEF Trimmed
<1> QED
  BY <1>2, <1>3

\* A line keeps its text through stuffing, and is no lone dot.
LEMMA StuffedFacts ==
    ASSUME NEW t \in Text
    PROVE  /\ Stuffed(t) \in Text
           /\ Stuffed(t) # <<Dot>>
           /\ Stuffed(t) # <<>> /\ Stuffed(t)[1] = Dot =>
                Len(Stuffed(t)) >= 2 /\ Stuffed(t)[2] = Dot /\ Stuffed(t) = <<Dot>> \o t
           /\ ~(Stuffed(t) # <<>> /\ Stuffed(t)[1] = Dot) => Stuffed(t) = t
           /\ Unstuffed(Stuffed(t)) = t
<1>1. CASE t # <<>> /\ t[1] = Dot
  <2>1. Stuffed(t) = <<Dot>> \o t
    BY <1>1 DEF Stuffed
  <2>2. Dot \in Bytes \ {LF} /\ t \in Seq(Bytes \ {LF}) /\ Len(t) \in Nat \ {0}
    BY <1>1, ByteFacts, EmptySeq DEF Text
  <2>3. /\ Stuffed(t) \in Text /\ Len(Stuffed(t)) = Len(t) + 1 /\ Stuffed(t)[1] = Dot
        /\ Stuffed(t)[2] = Dot /\ Tail(Stuffed(t)) = t /\ Stuffed(t) # <<>>
    <3>1. 1 \in 1..Len(t) /\ 1 + 1 = 2
      BY <2>2
    <3> QED
      BY <1>1, <2>1, <2>2, <3>1, OneBefore DEF Text
  <2>4. Stuffed(t) # <<Dot>>
    <3>1. Len(<<Dot>>) = 1
      OBVIOUS
    <3> QED
      BY <2>2, <2>3, <3>1
  <2>5. Len(Stuffed(t)) >= 2
    BY <2>2, <2>3
  <2>6. Unstuffed(Stuffed(t)) = t
    BY <2>3, <2>5 DEF Unstuffed
  <2> QED
    BY <2>1, <2>3, <2>4, <2>5, <2>6
<1>2. CASE ~(t # <<>> /\ t[1] = Dot)
  <2>1. Stuffed(t) = t /\ t # <<Dot>>
    BY <1>2 DEF Stuffed
  <2>2. Unstuffed(t) = t
    <3>1. Len(t) >= 2 => t # <<>>
      OBVIOUS
    <3> QED
      BY <1>2, <3>1 DEF Unstuffed
  <2> QED
    BY <1>2, <2>1, <2>2
<1> QED
  BY <1>1, <1>2

\* A text with CRLF: LF only at its end; without it, the text again.
LEMMA LineEnd ==
    ASSUME NEW s \in Text
    PROVE  LET l == s \o <<CR, LF>>
           IN  /\ l \in Seq(Bytes) /\ Len(l) = Len(s) + 2 /\ Len(s) \in Nat
               /\ \A i \in 1..Len(s) : l[i] = s[i]
               /\ l[Len(s) + 1] = CR /\ l[Len(s) + 2] = LF
               /\ \A i \in 1..(Len(l) - 1) : l[i] # LF
               /\ Chomped(l) = s
<1>1. s \in Seq(Bytes) /\ \A i \in 1..Len(s) : s[i] # LF
  BY ElementOfSeq, SeqMonotonic DEF Text
<1> DEFINE c == s \o <<CR>>
           l == c \o <<LF>>
<1>2. s \o <<CR, LF>> = l
  <2>1. <<CR>> \in Seq(Bytes) /\ <<LF>> \in Seq(Bytes)
    BY ByteFacts
  <2>2. <<CR>> \o <<LF>> = <<CR, LF>>
    BY ByteFacts, Pair
  <2>3. l = s \o (<<CR>> \o <<LF>>)
    BY <1>1, <2>1, ConcatAssociative
  <2> QED
    BY <2>2, <2>3
<1>3. /\ c \in Seq(Bytes) /\ c # <<>> /\ Len(c) = Len(s) + 1 /\ Len(s) \in Nat
      /\ \A i \in 1..Len(s) : c[i] = s[i]
      /\ c[Len(s) + 1] = CR /\ WithoutLast(c) = s
  BY <1>1, ByteFacts, OneMore
<1> HIDE DEF c
<1>4. /\ l \in Seq(Bytes) /\ l # <<>> /\ Len(l) = Len(c) + 1
      /\ \A i \in 1..Len(c) : l[i] = c[i]
      /\ l[Len(c) + 1] = LF /\ WithoutLast(l) = c
  BY <1>3, ByteFacts, OneMore
<1> HIDE DEF l
<1>5. Chomped(l) = s
  BY <1>3, <1>4 DEF Chomped, EndsWith
<1>6. /\ Len(l) = Len(s) + 2
      /\ \A i \in 1..Len(s) : l[i] = s[i]
      /\ l[Len(s) + 1] = CR /\ l[Len(s) + 2] = LF
  BY <1>3, <1>4
<1>7. \A i \in 1..(Len(l) - 1) : l[i] # LF
  <2> TAKE i \in 1..(Len(l) - 1)
  <2>1. i \in 1..Len(s) \/ i = Len(s) + 1
    BY <1>3, <1>6
  <2> QED
    BY <1>1, <1>6, <2>1, ByteFacts
<1> QED
  BY <1>2, <1>3, <1>4, <1>5, <1>6, <1>7

\* A stuffed line with its end: no terminator, and the line again when it is
\* read by either reader.
LEMMA StuffedLine ==
    ASSUME NEW t \in Text, NEW l, l = Stuffed(t) \o <<CR, LF>>
    PROVE  /\ l \in Seq(Bytes) /\ Len(l) \in Nat \ {0}
           /\ \A i \in 1..(Len(l) - 1) : l[i] # LF
           /\ ~IsEnd(l)
           /\ Data(l) = t \o <<CR, LF>>
<1> DEFINE s == Stuffed(t)
<1>1. /\ s \in Text /\ s # <<Dot>> /\ Unstuffed(s) = t
      /\ s # <<>> /\ s[1] = Dot => Len(s) >= 2 /\ s[2] = Dot /\ s = <<Dot>> \o t
      /\ ~(s # <<>> /\ s[1] = Dot) => s = t
  BY StuffedFacts
<1> HIDE DEF s
<1>2. /\ l \in Seq(Bytes) /\ Len(l) = Len(s) + 2 /\ Len(s) \in Nat
      /\ \A i \in 1..Len(s) : l[i] = s[i]
      /\ l[Len(s) + 1] = CR /\ l[Len(s) + 2] = LF
      /\ \A i \in 1..(Len(l) - 1) : l[i] # LF
      /\ Chomped(l) = s /\ l = s \o <<CR, LF>>
  BY <1>1, LineEnd DEF s
<1>3. CASE reader = "posted"
  <2>1. ~IsEnd(l)
    BY <1>1, <1>2, <1>3 DEF IsEnd
  <2>2. Data(l) = t \o <<CR, LF>>
    BY <1>1, <1>2, <1>3 DEF Data
  <2>3. Len(l) \in Nat \ {0}
    BY <1>2
  <2> QED
    BY <1>2, <2>1, <2>2, <2>3
<1>4. CASE reader # "posted" /\ s # <<>> /\ s[1] = Dot
  <2>1. l[1] = Dot /\ l[2] = Dot /\ Len(l) >= 2
    BY <1>1, <1>2, <1>4
  <2>2. l # <<Dot, CR, LF>> /\ l # <<Dot, LF>>
    <3>1. <<Dot, CR, LF>>[2] = CR /\ <<Dot, LF>>[2] = LF
      OBVIOUS
    <3>2. CR # Dot /\ LF # Dot
      BY ByteFacts
    <3> QED
      BY <2>1, <3>1, <3>2
  <2>3. Tail(l) = t \o <<CR, LF>>
    <3>1. <<Dot>> \in Seq(Bytes) /\ <<CR, LF>> \in Seq(Bytes) /\ t \in Seq(Bytes)
      BY ByteFacts, SeqMonotonic DEF Text
    <3>2. l = <<Dot>> \o (t \o <<CR, LF>>)
      BY <1>1, <1>2, <1>4, <3>1, ConcatAssociative
    <3>3. t \o <<CR, LF>> \in Seq(Bytes)
      BY <3>1, ConcatProperties
    <3> QED
      BY <3>2, <3>3, ByteFacts, OneBefore
  <2>4. ~IsEnd(l)
    BY <1>4, <2>2 DEF IsEnd
  <2>5. Unstuffed(l) = Tail(l)
    BY <2>1 DEF Unstuffed
  <2>6. Data(l) = t \o <<CR, LF>>
    BY <1>4, <2>3, <2>5 DEF Data
  <2>7. Len(l) \in Nat \ {0}
    BY <1>2
  <2> QED
    BY <1>2, <2>4, <2>6, <2>7
<1>5. CASE reader # "posted" /\ ~(s # <<>> /\ s[1] = Dot)
  <2>1. l[1] # Dot
    <3>1. CASE Len(s) = 0
      BY <1>2, <3>1, ByteFacts
    <3>2. CASE Len(s) # 0
      <4>1. 1 \in 1..Len(s) /\ s # <<>>
        BY <1>2, <3>2
      <4> QED
        BY <1>2, <1>5, <4>1
    <3> QED
      BY <3>1, <3>2
  <2>2. l # <<Dot, CR, LF>> /\ l # <<Dot, LF>>
    <3>1. <<Dot, CR, LF>>[1] = Dot /\ <<Dot, LF>>[1] = Dot
      OBVIOUS
    <3> QED
      BY <2>1, <3>1
  <2> QED
    BY <1>1, <1>2, <1>5, <2>1, <2>2 DEF IsEnd, Data, Unstuffed
<1>6. Len(l) \in Nat \ {0}
  BY <1>2
<1> QED
  BY <1>2, <1>3, <1>4, <1>5, <1>6

\* Every item on the wire.
LEMMA WireFacts ==
    ASSUME NEW item \in Item
    PROVE  /\ WireLine(item) \in Seq(Bytes) /\ Len(WireLine(item)) \in Nat \ {0}
           /\ \A i \in 1..(Len(WireLine(item)) - 1) : WireLine(item)[i] # LF
           /\ IsEnd(WireLine(item)) <=> item.kind = "end"
           /\ item.kind # "end" => Data(WireLine(item)) = LineOf(item)
<1>1. CASE item.kind = "end"
  <2> DEFINE l == <<Dot, CR, LF>>
  <2>1. WireLine(item) = l
    BY <1>1 DEF WireLine
  <2>2. /\ l \in Seq(Bytes) /\ Len(l) = 3
        /\ l[1] = Dot /\ l[2] = CR
    BY ByteFacts
  <2>3. Chomped(l) = <<Dot>>
    <3>1. <<Dot>> \in Text
      BY ByteFacts DEF Text
    <3>2. <<Dot>> \o <<CR, LF>> = l
      <4>1. /\ <<Dot>> \in Seq(Bytes) /\ <<CR, LF>> \in Seq(Bytes)
            /\ Len(<<Dot>>) = 1 /\ Len(<<CR, LF>>) = 2
            /\ <<Dot>>[1] = Dot /\ <<CR, LF>>[1] = CR /\ <<CR, LF>>[2] = LF /\ l[3] = LF
        BY ByteFacts
      <4> DEFINE t == <<Dot>> \o <<CR, LF>>
      <4>2. /\ t \in Seq(Bytes) /\ Len(t) = 3
            /\ \A i \in 1..3 : t[i] = IF i <= 1 THEN <<Dot>>[i] ELSE <<CR, LF>>[i - 1]
        BY <4>1, ConcatProperties
      <4> HIDE DEF t, l
      <4>3. t[1] = l[1] /\ t[2] = l[2] /\ t[3] = l[3]
        BY <2>2, <4>1, <4>2
      <4>4. \A i \in 1..Len(t) : t[i] = l[i]
        BY <4>2, <4>3
      <4> QED
        BY <2>2, <4>2, <4>4, SeqEqual DEF t
    <3> QED
      BY <3>1, <3>2, LineEnd
  <2>4. IsEnd(l)
    BY <2>3 DEF IsEnd
  <2> HIDE DEF l
  <2>5. \A i \in 1..(Len(l) - 1) : l[i] # LF
    BY <2>2, ByteFacts
  <2> QED
    BY <1>1, <2>1, <2>2, <2>4, <2>5
<1>2. CASE item.kind # "end"
  <2>1. WireLine(item) = Stuffed(Trimmed(item)) \o <<CR, LF>>
    BY <1>2 DEF WireLine
  <2> QED
    BY <1>2, <2>1, TrimmedIsText, StuffedLine DEF LineOf
<1> QED
  BY <1>1, <1>2

-----------------------------------------------------------------------------
(* The inductive invariant                                                  *)

\* Items taken in full; with the rest of a broken line: one less than taken.
PlaceInv ==
    /\ taken = sent + 1 => closed /\ partial # <<>>
    /\ partial # <<>> => closed /\ sent < Len(script)
    /\ \A i \in 1..Len(partial) : partial[i] # LF

\* What has been read of this block are its lines.
LinesInv ==
    Len(got) = taken - start
    /\ \A i \in 1..Len(got) : /\ script[start + i].kind # "end"
                              /\ got[i] = LineOf(script[start + i])

IInv ==
    /\ TypeOK /\ PlaceInv
    /\ outcome = "reading" /\ taken <= sent => LinesInv
    /\ outcome = "reading" /\ reader = "prefix" => size <= bound
    /\ outcome = "complete" /\ taken <= sent => WholeArticle
    /\ outcome = "complete" /\ taken > sent => reader = "posted"
    /\ PrefixExact

\* Every item of a script.
LEMMA ItemFacts ==
    ASSUME TypeOK, NEW i \in 1..Len(script)
    PROVE  script[i] \in Item
<1>1. script \in Seq(Item)
  BY ScriptsAssumption DEF TypeOK
<1> QED
  BY <1>1, ElementOfSeq

LEMMA Numbers ==
    ASSUME TypeOK
    PROVE  /\ Len(script) \in Nat /\ sent \in Nat /\ taken \in Nat /\ start \in Nat
           /\ bound \in Nat \ {0} /\ size \in Nat /\ Len(got) \in Nat
<1>1. script \in Seq(Item) /\ bound \in Nat \ {0}
  BY ScriptsAssumption, BoundsAssumption DEF TypeOK
<1>2. Len(script) \in Nat /\ Len(got) \in Nat
  BY <1>1, LenProperties DEF TypeOK
<1> QED
  BY <1>1, <1>2 DEF TypeOK

\* What a reader makes of any line are bytes.
LEMMA DataType ==
    ASSUME TypeOK, NEW l \in Seq(Bytes)
    PROVE  Data(l) \in Seq(Bytes) /\ KeptOf(Data(l)) \in Seq(Bytes)
<1>1. \A s \in Seq(Bytes) : Unstuffed(s) \in Seq(Bytes)
  <2> TAKE s \in Seq(Bytes)
  <2>1. Len(s) >= 2 => s # <<>>
    OBVIOUS
  <2> QED
    BY <2>1, HeadTailProperties DEF Unstuffed
<1>2. \A s \in Seq(Bytes) : s # <<>> => WithoutLast(s) \in Seq(Bytes)
  <2> TAKE s \in Seq(Bytes)
  <2> HAVE s # <<>>
  <2>1. Len(s) \in Nat \ {0} /\ \A i \in 1..(Len(s) - 1) : s[i] \in Bytes
    BY EmptySeq, ElementOfSeq
  <2> QED
    BY <2>1, SubSeqProperties DEF WithoutLast
<1>3. Chomped(l) \in Seq(Bytes)
  BY <1>2 DEF Chomped, EndsWith
<1>4. Data(l) \in Seq(Bytes)
  <2>1. <<CR, LF>> \in Seq(Bytes)
    BY ByteFacts
  <2>2. Unstuffed(Chomped(l)) \o <<CR, LF>> \in Seq(Bytes)
    BY <1>1, <1>3, <2>1, ConcatProperties
  <2> QED
    BY <1>1, <2>2 DEF Data
<1>5. KeptOf(Data(l)) \in Seq(Bytes)
  <2> DEFINE d == Data(l)
  <2> HIDE DEF d
  <2>1. d \in Seq(Bytes)
    BY <1>4 DEF d
  <2>2. CASE reader = "prefix" /\ Len(d) > bound - size
    <3> bound - size \in Int
      BY Numbers
    <3>1. \A i \in 1..(bound - size) : d[i] \in Bytes
      BY <2>1, <2>2, ElementOfSeq, LenProperties
    <3> QED
      BY <2>2, <3>1, SubSeqProperties DEF KeptOf, d
  <2> QED
    BY <2>1, <2>2 DEF KeptOf, d
<1> QED
  BY <1>4, <1>5

\* The next line is that of an item, or the rest of the stream, which is no
\* terminator for the client.
LEMMA NextLineFacts ==
    ASSUME TypeOK, PlaceInv, Available
    PROVE  /\ NextLine \in Seq(Bytes)
           /\ \/ /\ taken < sent /\ taken + 1 \in 1..Len(script)
                 /\ IsEnd(NextLine) <=> script[taken + 1].kind = "end"
                 /\ script[taken + 1].kind # "end" => Data(NextLine) = LineOf(script[taken + 1])
              \/ /\ taken = sent /\ closed /\ partial # <<>>
                 /\ reader # "posted" => ~IsEnd(NextLine)
<1>1. CASE taken < sent
  <2>1. taken + 1 \in 1..Len(script)
    BY <1>1, Numbers DEF TypeOK
  <2>2. NextLine = WireLine(script[taken + 1]) /\ script[taken + 1] \in Item
    BY <1>1, <2>1, ItemFacts DEF NextLine
  <2> QED
    BY <1>1, <2>1, <2>2, WireFacts
<1>2. CASE ~(taken < sent)
  <2>1. taken = sent /\ closed /\ partial # <<>> /\ NextLine = partial
    BY <1>2 DEF Available, NextLine
  <2>2. partial \in Seq(Bytes) /\ \A i \in 1..Len(partial) : partial[i] # LF
    BY DEF TypeOK, PlaceInv
  <2>3. partial # <<Dot, CR, LF>>
    <3>1. Len(<<Dot, CR, LF>>) = 3 /\ <<Dot, CR, LF>>[3] = LF /\ 3 \in 1..3
      OBVIOUS
    <3> QED
      BY <2>2, <3>1
  <2>4. partial # <<Dot, LF>>
    <3>1. Len(<<Dot, LF>>) = 2 /\ <<Dot, LF>>[2] = LF /\ 2 \in 1..2
      OBVIOUS
    <3> QED
      BY <2>2, <3>1
  <2> QED
    BY <2>1, <2>2, <2>3, <2>4 DEF IsEnd
<1> QED
  BY <1>1, <1>2

\* The lines of a script do not change.
LEMMA SameLines ==
    ASSUME UNCHANGED <<script, writer>>
    PROVE  \A i : LineOf(script[i])' = LineOf(script[i])
  BY DEF LineOf, Trimmed

-----------------------------------------------------------------------------
(* Steps                                                                    *)

LEMMA InitInv ==
    ASSUME Init
    PROVE  IInv
<1>1. TypeOK
  <2>1. Len(script) \in Nat
    BY ScriptsAssumption, LenProperties DEF Init
  <2>2. <<>> \in Seq(Bytes) /\ <<>> \in Seq(Seq(Bytes))
    OBVIOUS
  <2> /\ sent = 0 /\ taken = 0 /\ start = 0 /\ size = 0
    BY DEF Init
  <2>3. /\ sent \in 0..Len(script) /\ taken \in 0..(sent + 1) /\ start \in 0..taken
        /\ size \in Nat
    BY <2>1
  <2>4. partial \in Seq(Bytes) /\ got \in Seq(Seq(Bytes))
    BY <2>2 DEF Init
  <2> QED
    BY <2>3, <2>4 DEF Init, TypeOK
<1>2. bound \in Nat
  BY BoundsAssumption DEF Init
<1> QED
  BY <1>1, <1>2 DEF Init, IInv, PlaceInv, LinesInv, PrefixExact

\* The writer goes on, or the stream breaks.
LEMMA WriterSteps ==
    ASSUME IInv, Write \/ Break
    PROVE  IInv'
<1>1. TypeOK /\ PlaceInv
  BY DEF IInv
<1>2. UNCHANGED <<script, writer, readVars>> /\ sent' >= sent
  BY <1>1, Numbers DEF Write, Break
<1>3. TypeOK' /\ PlaceInv' /\ (taken > sent => sent' = sent)
  <2>1. CASE Write
    BY <1>1, <2>1, Numbers DEF Write, readVars, TypeOK, PlaceInv
  <2>2. CASE Break /\ partial' = <<>>
    BY <1>1, <2>2, Numbers DEF Break, readVars, TypeOK, PlaceInv
  <2>3. CASE Break /\ partial' # <<>>
    <3> DEFINE l == WireLine(script[sent + 1])
    <3>1. PICK n \in 1..(Len(l) - 1) : sent < Len(script) /\ partial' = SubSeq(l, 1, n)
      BY <2>3 DEF Break
    <3>2. sent + 1 \in 1..Len(script)
      BY <1>1, <3>1, Numbers
    <3>3. l \in Seq(Bytes) /\ Len(l) \in Nat \ {0} /\ \A i \in 1..(Len(l) - 1) : l[i] # LF
      BY <1>1, <3>2, ItemFacts, WireFacts
    <3> HIDE DEF l
    <3>4. \A i \in 1..n : l[i] \in Bytes /\ l[i] # LF
      BY <3>3, ElementOfSeq
    <3>5. /\ SubSeq(l, 1, n) \in Seq(Bytes) /\ Len(SubSeq(l, 1, n)) = n
          /\ \A i \in 1..n : SubSeq(l, 1, n)[i] = l[i]
      BY <3>3, <3>4, SubSeqProperties
    <3>6. partial' \in Seq(Bytes) /\ \A i \in 1..Len(partial') : partial'[i] # LF
      BY <3>1, <3>4, <3>5
    <3>7. ~closed /\ closed' = TRUE /\ UNCHANGED <<script, writer, sent, readVars>>
      BY <2>3 DEF Break
    <3> QED
      BY <1>1, <3>1, <3>6, <3>7, Numbers DEF readVars, TypeOK, PlaceInv
  <2> QED
    BY <2>1, <2>2, <2>3
<1>4. \A i : LineOf(script[i])' = LineOf(script[i])
  BY <1>2, SameLines
<1>5. outcome = "reading" /\ taken <= sent' => taken <= sent \/ (closed /\ sent' = sent)
  BY <1>1, <1>3, Numbers
<1>6. taken <= sent' => taken <= sent
  BY <1>1, <1>3, Numbers
<1>7. LinesInv => LinesInv'
  BY <1>2, <1>4 DEF LinesInv, readVars
<1>8. WholeArticle => WholeArticle'
  <2>1. taken \in 1..sent => taken \in 1..sent'
    BY <1>1, <1>2, <1>3, Numbers DEF TypeOK
  <2> QED
    BY <1>2, <1>4, <2>1 DEF WholeArticle, readVars
<1>9. PrefixExact'
  <2>1. PrefixExact
    BY DEF IInv
  <2> QED
    BY <1>2, <1>4, <1>6, <2>1 DEF PrefixExact, Begins, readVars
<1>10. outcome = "complete" /\ taken > sent' => reader = "posted"
  BY <1>1, <1>2, <1>3, Numbers DEF IInv, TypeOK
<1> QED
  BY <1>2, <1>3, <1>6, <1>7, <1>8, <1>9, <1>10 DEF IInv, readVars

\* A block ends with its terminator.
LEMMA StepTerminated ==
    ASSUME IInv, Terminated
    PROVE  IInv'
<1>1. TypeOK /\ PlaceInv
  BY DEF IInv
<1>2. /\ outcome = "reading" /\ Available /\ IsEnd(NextLine) /\ taken' = taken + 1
      /\ outcome' = "complete"
      /\ UNCHANGED <<writeVars, reader, bound, start, got, size>>
  BY DEF Terminated, Reading
<1>3. \/ /\ taken < sent /\ taken + 1 \in 1..Len(script) /\ script[taken + 1].kind = "end"
      \/ /\ taken = sent /\ closed /\ partial # <<>> /\ reader = "posted"
  BY <1>1, <1>2, NextLineFacts
<1>4. TypeOK'
  BY <1>1, <1>2, <1>3, Numbers DEF TypeOK, writeVars
<1>5. PlaceInv'
  BY <1>1, <1>2, <1>3, Numbers DEF PlaceInv, writeVars
<1>6. ASSUME taken < sent, script[taken + 1].kind = "end"
      PROVE  WholeArticle'
  <2>1. LinesInv
    BY <1>1, <1>2, <1>6, Numbers DEF IInv
  <2>2. \A i : LineOf(script[i])' = LineOf(script[i])
    BY <1>2, SameLines DEF writeVars
  <2>3. taken' = taken + 1 /\ taken' \in 1..sent' /\ script'[taken'].kind = "end"
    BY <1>1, <1>2, <1>6, Numbers DEF writeVars
  <2>4. Len(got') = taken' - start' - 1
    BY <1>1, <1>2, <2>1, Numbers DEF LinesInv
  <2>5. \A i \in 1..Len(got') : /\ script'[start' + i].kind # "end"
                               /\ got'[i] = LineOf(script[start + i])'
    BY <1>2, <2>1, <2>2 DEF LinesInv, writeVars
  <2> QED
    BY <1>2, <2>3, <2>4, <2>5 DEF WholeArticle
<1>7. outcome' # "cut" /\ (taken' <= sent' => taken < sent) /\ (taken' > sent' => taken = sent)
  BY <1>1, <1>2, <1>3, Numbers DEF writeVars
<1>8. taken' <= sent' => WholeArticle'
  BY <1>1, <1>3, <1>6, <1>7, Numbers
<1>9. taken' > sent' => reader' = "posted"
  BY <1>1, <1>2, <1>3, <1>7, Numbers
<1>10. outcome' # "reading" /\ PrefixExact'
  BY <1>2 DEF PrefixExact
<1> QED
  BY <1>4, <1>5, <1>8, <1>9, <1>10 DEF IInv

\* A reader gives up, or has read too much.
LEMMA StepGivesUp ==
    ASSUME IInv, ReadTooLarge \/ ReadFails
    PROVE  IInv'
<1>1. TypeOK /\ PlaceInv
  BY DEF IInv
<1>2. /\ outcome' \in {"large", "failed"}
      /\ UNCHANGED <<writeVars, reader, bound, start, got, size>>
      /\ taken' = taken \/ (taken' = taken + 1 /\ Available)
  BY DEF ReadTooLarge, ReadFails, Reading
<1>3. Available => taken < sent \/ (taken = sent /\ closed /\ partial # <<>>)
  BY DEF Available
<1>4. TypeOK' /\ PlaceInv'
  BY <1>1, <1>2, <1>3, Numbers DEF TypeOK, PlaceInv, writeVars
<1> QED
  BY <1>2, <1>4 DEF IInv, PrefixExact

\* Another block begins.
LEMMA StepNextBlock ==
    ASSUME IInv, NextBlock
    PROVE  IInv'
<1>1. TypeOK /\ PlaceInv
  BY DEF IInv
<1>2. /\ outcome' = "reading" /\ start' = taken /\ got' = <<>> /\ size' = 0
      /\ reader' \in ReadersOf(writer) /\ bound' \in Bounds /\ UNCHANGED <<writeVars, taken>>
  BY DEF NextBlock
<1>3. TypeOK'
  <2>1. <<>> \in Seq(Seq(Bytes))
    OBVIOUS
  <2>2. ReadersOf(writer)' = ReadersOf(writer)
    BY <1>2 DEF ReadersOf, writeVars
  <2> QED
    BY <1>1, <1>2, <2>1, <2>2, Numbers DEF TypeOK, writeVars
<1>4. PlaceInv'
  BY <1>1, <1>2 DEF PlaceInv, writeVars
<1>5. bound' \in Nat /\ LinesInv'
  BY <1>1, <1>2, BoundsAssumption, Numbers DEF LinesInv
<1>6. PrefixExact'
  BY <1>2 DEF PrefixExact
<1> QED
  BY <1>2, <1>3, <1>4, <1>5, <1>6 DEF IInv

\* A line is kept.
LEMMA StepKeepLine ==
    ASSUME IInv, KeepLine
    PROVE  IInv'
<1> DEFINE d == Data(NextLine)
           k == KeptOf(d)
<1>1. TypeOK /\ PlaceInv
  BY DEF IInv
<1>2. /\ outcome = "reading" /\ Available /\ ~IsEnd(NextLine) /\ taken' = taken + 1
      /\ got' = Append(got, k) /\ size' = size + Len(k)
      /\ outcome' = IF reader = "prefix" /\ (Len(d) > bound - size \/ size' = bound)
                    THEN "cut" ELSE "reading"
      /\ UNCHANGED <<writeVars, reader, bound, start>>
  BY DEF KeepLine, Reading
<1>3. NextLine \in Seq(Bytes)
      /\ \/ /\ taken < sent /\ taken + 1 \in 1..Len(script)
            /\ script[taken + 1].kind # "end" /\ d = LineOf(script[taken + 1])
         \/ /\ taken = sent /\ closed /\ partial # <<>>
  BY <1>1, <1>2, NextLineFacts
<1>4. d \in Seq(Bytes) /\ k \in Seq(Bytes) /\ Len(d) \in Nat /\ Len(k) \in Nat
  BY <1>1, <1>3, DataType, LenProperties
<1>5. /\ got' \in Seq(Seq(Bytes)) /\ Len(got') = Len(got) + 1 /\ Len(got) \in Nat
      /\ \A i \in 1..Len(got) : got'[i] = got[i]
      /\ got'[Len(got) + 1] = k
  BY <1>1, <1>2, <1>4 DEF TypeOK
<1>6. /\ Len(d) <= bound - size \/ reader # "prefix" => k = d
      /\ reader = "prefix" /\ Len(d) > bound - size /\ size <= bound =>
           Len(k) = bound - size /\ Begins(k, d)
  <2>1. Len(d) <= bound - size \/ reader # "prefix" => k = d
    BY <1>1, <1>4, Numbers DEF KeptOf
  <2>2. ASSUME reader = "prefix", Len(d) > bound - size, size <= bound
        PROVE  Len(k) = bound - size /\ Begins(k, d)
    <3> HIDE DEF d
    <3>1. k = SubSeq(d, 1, bound - size) /\ bound - size \in Nat
      BY <1>1, <2>2, Numbers DEF KeptOf
    <3>2. \A i \in 1..(bound - size) : d[i] \in Bytes
      BY <1>4, <2>2, <3>1, ElementOfSeq
    <3>3. Len(k) = bound - size
      BY <3>1, <3>2, SubSeqProperties
    <3> QED
      BY <2>2, <3>1, <3>3, <1>4 DEF Begins
  <2> QED
    BY <2>1, <2>2
<1> HIDE DEF k, d
<1>7. TypeOK'
  BY <1>1, <1>2, <1>3, <1>4, <1>5, Numbers DEF TypeOK, writeVars
<1>8. PlaceInv'
  BY <1>1, <1>2, <1>3, Numbers DEF PlaceInv, writeVars
<1>9. \A i : LineOf(script[i])' = LineOf(script[i])
  BY <1>2, SameLines DEF writeVars
<1>10. ASSUME taken' <= sent'
       PROVE  /\ taken < sent /\ Len(got') = (taken + 1) - start /\ start + Len(got') = taken + 1
              /\ \A i \in 1..Len(got') : script[start + i].kind # "end"
              /\ \A i \in 1..Len(got) : got'[i] = LineOf(script[start + i])
              /\ d = LineOf(script[taken + 1])
  <2>1. taken < sent /\ LinesInv
    BY <1>1, <1>2, <1>3, <1>10, Numbers DEF IInv, writeVars
  <2>2. Len(got') = (taken + 1) - start /\ start + Len(got') = taken + 1
    BY <1>1, <1>5, <2>1, Numbers DEF LinesInv
  <2>3. script[taken + 1].kind # "end" /\ d = LineOf(script[taken + 1])
    BY <1>1, <1>3, <2>1, Numbers
  <2>4. ASSUME NEW i \in 1..Len(got') PROVE script[start + i].kind # "end"
    <3>1. CASE i \in 1..Len(got)
      BY <2>1, <3>1 DEF LinesInv
    <3>2. CASE i = Len(got')
      BY <2>2, <2>3, <3>2
    <3> QED
      BY <1>5, <3>1, <3>2
  <2>5. \A i \in 1..Len(got) : got'[i] = LineOf(script[start + i])
    BY <1>5, <2>1 DEF LinesInv
  <2> QED
    BY <2>1, <2>2, <2>3, <2>4, <2>5
<1>11. ASSUME outcome' = "reading", taken' <= sent' PROVE LinesInv'
  <2>1. k = d
    BY <1>1, <1>2, <1>4, <1>6, <1>11, Numbers
  <2>2. ASSUME NEW i \in 1..Len(got')
        PROVE  script[start + i].kind # "end" /\ got'[i] = LineOf(script[start + i])
    <3>1. CASE i \in 1..Len(got)
      BY <1>10, <1>11, <3>1
    <3>2. CASE i = Len(got')
      <4>1. got'[i] = k /\ start + i = taken + 1
        BY <1>5, <1>10, <1>11, <3>2
      <4> QED
        BY <1>10, <1>11, <2>1, <4>1
    <3> QED
      BY <1>5, <3>1, <3>2
  <2>3. UNCHANGED <<script, start>> /\ taken' = taken + 1
    BY <1>2 DEF writeVars
  <2>4. Len(got') = taken' - start'
    BY <1>10, <1>11, <2>3
  <2> QED
    BY <1>9, <2>2, <2>3, <2>4 DEF LinesInv
<1>12. ASSUME outcome' = "reading", reader' = "prefix" PROVE size' <= bound'
  <2>1. reader = "prefix" /\ size <= bound /\ Len(d) <= bound - size /\ k = d
    BY <1>1, <1>2, <1>4, <1>6, <1>12, Numbers DEF IInv
  <2> QED
    BY <1>1, <1>2, <1>4, <2>1, Numbers
<1>13. PrefixExact'
  <2> SUFFICES ASSUME outcome' = "cut", taken' <= sent' PROVE PrefixExact'
    BY DEF PrefixExact
  <2>1. reader = "prefix" /\ size <= bound /\ (Len(d) > bound - size \/ size' = bound)
    BY <1>2 DEF IInv
  <2>2. size' = bound'
    BY <1>1, <1>2, <1>4, <1>6, <2>1, Numbers
  <2>3. Begins(k, d)
    <3>1. CASE Len(d) > bound - size
      BY <1>6, <2>1, <3>1
    <3>2. CASE ~(Len(d) > bound - size)
      <4>1. k = d
        BY <1>1, <1>4, <1>6, <3>2, Numbers
      <4>2. d = SubSeq(d, 1, Len(d))
        BY <1>4, SubSeqFull
      <4> QED
        BY <1>4, <4>1, <4>2 DEF Begins
    <3> QED
      BY <3>1, <3>2
  <2>4. got'[Len(got')] = k
    BY <1>5
  <2>5. ASSUME NEW i \in 1..Len(got')
        PROVE  IF i < Len(got') THEN got'[i] = LineOf(script[start + i])
               ELSE Begins(got'[i], LineOf(script[start + i]))
    <3>1. CASE i < Len(got')
      <4>1. i \in 1..Len(got)
        BY <1>5, <3>1
      <4> QED
        BY <1>10, <3>1, <4>1
    <3>2. CASE i = Len(got')
      <4>1. got'[i] = k /\ start + i = taken + 1
        BY <1>10, <2>4, <3>2
      <4>2. Begins(got'[i], LineOf(script[start + i]))
        BY <1>10, <2>3, <4>1
      <4>3. ~(i < Len(got'))
        BY <1>5, <3>2
      <4> QED
        BY <4>2, <4>3
    <3> QED
      BY <1>5, <3>1, <3>2
  <2>6. UNCHANGED <<script, start>> /\ taken' = taken + 1
    BY <1>2 DEF writeVars
  <2>7. Len(got') = taken' - start'
    BY <1>10, <2>6
  <2> QED
    BY <1>9, <1>10, <2>2, <2>5, <2>6, <2>7 DEF PrefixExact, Begins
<1> QED
  BY <1>2, <1>7, <1>8, <1>11, <1>12, <1>13 DEF IInv

\* What is read stays what was written.
LEMMA StepInv ==
    ASSUME IInv, [Next]_vars
    PROVE  IInv'
<1>1. CASE Next
  BY <1>1, WriterSteps, StepTerminated, StepGivesUp, StepNextBlock, StepKeepLine DEF Next
<1>2. CASE UNCHANGED vars
  BY <1>2 DEF vars, writeVars, readVars, IInv, TypeOK, PlaceInv, LinesInv, WholeArticle,
              PrefixExact, Begins, LineOf, Trimmed, ReadersOf
<1> QED
  BY <1>1, <1>2

-----------------------------------------------------------------------------
(* The types of the variables are invariant.                                *)
THEOREM FramingTypeCorrect == Spec => []TypeOK
<1>1. IInv => TypeOK
  BY DEF IInv
<1> QED
  BY <1>1, InitInv, StepInv, PTL DEF Spec

(* Whatever the lines of an article are, and wherever the stream breaks, a  *)
(* body that is reported complete is the article, and the stream is at the  *)
(* first line after it.                                                     *)
THEOREM DeliveredCorrect == Spec => []Delivered
<1>1. IInv => Delivered
  BY Numbers DEF IInv, Delivered
<1> QED
  BY <1>1, InitInv, StepInv, PTL DEF Spec

(* A prefix that is cut has exactly the bytes asked for, the first of the   *)
(* body, for every bound and every body.                                    *)
THEOREM PrefixCorrect == Spec => []PrefixExact
<1>1. IInv => PrefixExact
  BY DEF IInv
<1> QED
  BY <1>1, InitInv, StepInv, PTL DEF Spec

-----------------------------------------------------------------------------
(* Loops over lines, and lists                                              *)

\* A non-empty set of natural numbers has a least element.
LEMMA LeastExists ==
    ASSUME NEW T \in SUBSET Nat, T # {}
    PROVE  \E x \in T : \A y \in T : x <= y
<1>1. PICK x \in T : \A y \in T : ~ (<<y, x>> \in OpToRel(<, Nat))
  BY NatLessThanWellFounded, WFMin
<1>2. \A y \in T : ~ (y < x)
  BY <1>1 DEF OpToRel
<1> QED
  BY <1>2

\* The values of a loop of n rounds; in round k the body makes G[k][v] of v.
Rounds(f, e, n, G) == f[0] = e /\ \A k \in 1..n : f[k] = G[k][f[k - 1]]

LEMMA LoopExists ==
    ASSUME NEW V, NEW e \in V, NEW n \in Nat, NEW G \in [1..n -> [V -> V]]
    PROVE  \E f \in [0..n -> V] : Rounds(f, e, n, G)
<1> DEFINE Has(m) == \E f \in [0..m -> V] : f[0] = e /\ \A k \in 1..m : f[k] = G[k][f[k - 1]]
           T == {m \in 0..n : ~Has(m)}
<1>1. CASE T = {}
  <2>1. n \in 0..n
    OBVIOUS
  <2>2. ~(n \in T)
    BY <1>1
  <2>3. Has(n)
    BY <2>1, <2>2
  <2> QED
    BY <2>3 DEF Rounds
<1>2. CASE T # {}
  <2>1. PICK m \in T : \A y \in T : m <= y
    <3>1. T \in SUBSET Nat
      OBVIOUS
    <3> QED
      BY <1>2, <3>1, LeastExists
  <2>2. m \in 0..n /\ ~Has(m)
    BY <2>1
  <2>3. ASSUME m = 0 PROVE FALSE
    <3> DEFINE f == [i \in 0..0 |-> e]
    <3>1. f \in [0..m -> V] /\ f[0] = e /\ \A k \in 1..m : f[k] = G[k][f[k - 1]]
      BY <2>3
    <3> QED
      BY <2>2, <3>1
  <2>4. m \in 1..n /\ m - 1 \in 0..n /\ ~(m <= m - 1)
    BY <2>2, <2>3
  <2>5. Has(m - 1)
    BY <2>1, <2>4
  <2>6. PICK f \in [0..(m - 1) -> V] :
           f[0] = e /\ \A k \in 1..(m - 1) : f[k] = G[k][f[k - 1]]
    BY <2>5
  <2> DEFINE g == [i \in 0..m |-> IF i = m THEN G[m][f[m - 1]] ELSE f[i]]
  <2>7. G[m][f[m - 1]] \in V
    BY <2>4, <2>6
  <2>8. g \in [0..m -> V]
    <3>1. ASSUME NEW i \in 0..m PROVE (IF i = m THEN G[m][f[m - 1]] ELSE f[i]) \in V
      <4>1. CASE i = m
        BY <2>7, <4>1
      <4>2. CASE i # m
        <5>1. i \in 0..(m - 1)
          BY <2>4, <4>2
        <5> QED
          BY <2>6, <4>2, <5>1
      <4> QED
        BY <4>1, <4>2
    <3> QED
      BY <3>1
  <2>9. g[0] = e
    BY <2>4, <2>6
  <2>10. ASSUME NEW k \in 1..m PROVE g[k] = G[k][g[k - 1]]
    <3>1. g[k - 1] = f[k - 1]
      BY <2>4
    <3>2. CASE k = m
      BY <3>1, <3>2, <2>4
    <3>3. CASE k # m
      <4>1. k \in 1..(m - 1) /\ g[k] = f[k]
        BY <2>4, <3>3
      <4> QED
        BY <2>6, <3>1, <4>1
    <3> QED
      BY <3>2, <3>3
  <2> HIDE DEF g
  <2> QED
    BY <2>2, <2>8, <2>9, <2>10
<1> QED
  BY <1>1, <1>2

LEMMA ListsNone ==
    ASSUME NEW f, DOMAIN f = {}
    PROVE  Lists(<<>>, f)
<1> DEFINE place == [i \in {} |-> 0]
<1>1. DOMAIN <<>> = {} /\ place \in [DOMAIN <<>> -> DOMAIN f]
  OBVIOUS
<1> QED
  BY <1>1 DEF Lists

LEMMA ListsSame ==
    ASSUME NEW s, NEW f, NEW g, DOMAIN g = DOMAIN f, \A d \in DOMAIN f : g[d] = f[d], Lists(s, f)
    PROVE  Lists(s, g)
<1>1. PICK place \in [DOMAIN s -> DOMAIN f] :
        /\ \A i, j \in DOMAIN s : i < j => place[i] < place[j]
        /\ \A d \in DOMAIN f : \E i \in DOMAIN s : place[i] = d
        /\ \A i \in DOMAIN s : s[i] = f[place[i]]
  BY DEF Lists
<1> QED
  BY <1>1 DEF Lists

\* g has v at the place m, after all places of f.
NextPlace(f, g, m, v) ==
    /\ DOMAIN f \subseteq Nat /\ \A d \in DOMAIN f : d < m
    /\ DOMAIN g = DOMAIN f \cup {m}
    /\ \A d \in DOMAIN f : g[d] = f[d]
    /\ g[m] = v

\* The value of the next place is listed.
LEMMA ListsMore ==
    ASSUME NEW S, NEW s \in Seq(S), NEW v \in S, NEW m \in Nat,
           NEW f, NEW g, NextPlace(f, g, m, v), Lists(s, f)
    PROVE  Lists(Append(s, v), g)
<1> DEFINE t == Append(s, v)
<1>0. /\ DOMAIN f \subseteq Nat /\ \A d \in DOMAIN f : d < m
      /\ DOMAIN g = DOMAIN f \cup {m}
      /\ \A d \in DOMAIN f : g[d] = f[d]
      /\ g[m] = v
  BY DEF NextPlace
<1>1. PICK place \in [DOMAIN s -> DOMAIN f] :
        /\ \A i, j \in DOMAIN s : i < j => place[i] < place[j]
        /\ \A d \in DOMAIN f : \E i \in DOMAIN s : place[i] = d
        /\ \A i \in DOMAIN s : s[i] = f[place[i]]
  BY DEF Lists
<1>2. /\ t \in Seq(S) /\ Len(t) = Len(s) + 1 /\ Len(s) \in Nat
      /\ \A i \in 1..Len(s) : t[i] = s[i]
      /\ t[Len(s) + 1] = v /\ DOMAIN s = 1..Len(s) /\ DOMAIN t = 1..(Len(s) + 1)
  BY AppendProperties, LenProperties
<1> HIDE DEF t
<1> DEFINE n == Len(s)
           p == [i \in 1..(n + 1) |-> IF i = n + 1 THEN m ELSE place[i]]
<1>3. n \in Nat
  BY <1>2
<1>4. \A i \in 1..n : i \in 1..(n + 1) /\ i # n + 1
  BY <1>3
<1>5. \A i \in 1..(n + 1) : i = n + 1 \/ i \in 1..n
  BY <1>3
<1>6. p[n + 1] = m /\ \A i \in 1..n : p[i] = place[i] /\ place[i] \in DOMAIN f
  BY <1>1, <1>2, <1>3, <1>4
<1>7. p \in [DOMAIN t -> DOMAIN g]
  BY <1>0, <1>1, <1>2, <1>5
<1>8. n + 1 \in 1..(n + 1)
  BY <1>3
<1> HIDE DEF p, n
<1>9. ASSUME NEW i \in 1..(n + 1), NEW j \in 1..(n + 1), i < j PROVE p[i] < p[j]
  <2>1. i \in 1..n
    BY <1>3, <1>9
  <2>2. CASE j = n + 1
    BY <1>0, <1>6, <2>1, <2>2
  <2>3. CASE j # n + 1
    <3>1. j \in 1..n
      BY <1>5, <2>3
    <3> QED
      BY <1>1, <1>2, <1>6, <1>9, <2>1, <3>1 DEF n
  <2> QED
    BY <2>2, <2>3
<1>10. ASSUME NEW d \in DOMAIN g PROVE \E i \in 1..(n + 1) : p[i] = d
  <2>1. CASE d = m
    BY <1>6, <1>8, <2>1
  <2>2. CASE d # m
    <3>1. PICK i \in DOMAIN s : place[i] = d
      BY <1>0, <1>1, <2>2
    <3> QED
      BY <1>2, <1>4, <1>6, <3>1 DEF n
  <2> QED
    BY <2>1, <2>2
<1>11. ASSUME NEW i \in 1..(n + 1) PROVE t[i] = g[p[i]]
  <2>1. CASE i = n + 1
    BY <1>0, <1>2, <1>6, <2>1 DEF n
  <2>2. CASE i # n + 1
    <3>1. i \in 1..n
      BY <1>5, <2>2
    <3>2. t[i] = s[i] /\ s[i] = f[place[i]] /\ p[i] = place[i] /\ place[i] \in DOMAIN f
      BY <1>1, <1>2, <1>6, <3>1 DEF n
    <3> QED
      BY <1>0, <3>2
  <2> QED
    BY <2>1, <2>2
<1>12. DOMAIN t = 1..(n + 1)
  BY <1>2 DEF n
<1>13. /\ \A i, j \in DOMAIN t : i < j => p[i] < p[j]
       /\ \A d \in DOMAIN g : \E i \in DOMAIN t : p[i] = d
       /\ \A i \in DOMAIN t : t[i] = g[p[i]]
  BY <1>9, <1>10, <1>11, <1>12
<1>14. Lists(t, g)
  BY <1>7, <1>13 DEF Lists
<1> QED
  BY <1>14 DEF t

\* Each element of s has its counterpart in e, of the same place, in the same order.
Inside(s, e, f, h) ==
    \E m \in [DOMAIN s -> DOMAIN e] :
        /\ \A i, j \in DOMAIN s : i < j => m[i] < m[j]
        /\ \A i \in DOMAIN s : \E d \in DOMAIN f : s[i] = f[d] /\ e[m[i]] = h[d]

\* What is listed of some places is, in the same order, in the list of more places.
LEMMA ListsInside ==
    ASSUME NEW s, NEW e \in Seq(Int), NEW f, NEW h, DOMAIN f \subseteq DOMAIN h,
           DOMAIN h \subseteq Int, Lists(s, f), Lists(e, h)
    PROVE  Inside(s, e, f, h)
<1>1. PICK place \in [DOMAIN s -> DOMAIN f] :
        /\ \A i, j \in DOMAIN s : i < j => place[i] < place[j]
        /\ \A d \in DOMAIN f : \E i \in DOMAIN s : place[i] = d
        /\ \A i \in DOMAIN s : s[i] = f[place[i]]
  BY DEF Lists
<1>2. PICK where \in [DOMAIN e -> DOMAIN h] :
        /\ \A i, j \in DOMAIN e : i < j => where[i] < where[j]
        /\ \A d \in DOMAIN h : \E i \in DOMAIN e : where[i] = d
        /\ \A i \in DOMAIN e : e[i] = h[where[i]]
  BY DEF Lists
<1> DEFINE m == [i \in DOMAIN s |-> CHOOSE k \in DOMAIN e : where[k] = place[i]]
<1>3. ASSUME NEW i \in DOMAIN s PROVE m[i] \in DOMAIN e /\ where[m[i]] = place[i]
  <2>1. place[i] \in DOMAIN h
    BY <1>1
  <2>2. \E k \in DOMAIN e : where[k] = place[i]
    BY <1>2, <2>1
  <2> QED
    BY <2>2
<1>4. m \in [DOMAIN s -> DOMAIN e]
  BY <1>3
<1> HIDE DEF m
<1>5. DOMAIN e \subseteq Int
  BY LenProperties
<1>6. ASSUME NEW i \in DOMAIN s, NEW j \in DOMAIN s, i < j PROVE m[i] < m[j]
  <2>1. where[m[i]] < where[m[j]]
    BY <1>1, <1>3, <1>6
  <2>2. where[m[i]] \in Int /\ where[m[j]] \in Int /\ m[i] \in Int /\ m[j] \in Int
    BY <1>2, <1>3, <1>5
  <2>3. m[j] < m[i] => where[m[j]] < where[m[i]]
    BY <1>2, <1>3
  <2>4. m[i] # m[j]
    BY <2>1, <2>2
  <2> QED
    BY <2>1, <2>2, <2>3, <2>4
<1>7. ASSUME NEW i \in DOMAIN s PROVE \E d \in DOMAIN f : s[i] = f[d] /\ e[m[i]] = h[d]
  BY <1>1, <1>2, <1>3
<1> QED
  BY <1>4, <1>6, <1>7 DEF Inside

-----------------------------------------------------------------------------
(* Rows                                                                     *)

\* Digits have a value.
LEMMA ValueType ==
    ASSUME NEW d \in Seq(Bytes)
    PROVE  Value(d) \in Int
<1>1. Len(d) \in Nat /\ \A k \in 1..Len(d) : d[k] \in Int
  <2>1. Len(d) \in Nat /\ \A k \in 1..Len(d) : d[k] \in Bytes
    BY LenProperties, ElementOfSeq
  <2>2. \A b \in Bytes : b \in Int
    BY DEF Bytes
  <2> QED
    BY <2>1, <2>2
<1> DEFINE F(f) == [k \in 0..Len(d) |-> IF k = 0 THEN 0 ELSE 10 * f[k - 1] + (d[k] - 48)]
           G == [k \in 1..Len(d) |-> [v \in Int |-> 10 * v + (d[k] - 48)]]
<1>2. \E f : f = F(f)
  <2>1. G \in [1..Len(d) -> [Int -> Int]]
    BY <1>1
  <2>2. PICK f \in [0..Len(d) -> Int] : f[0] = 0 /\ \A k \in 1..Len(d) : f[k] = G[k][f[k - 1]]
    <3>1. Len(d) \in Nat /\ 0 \in Int
      BY <1>1
    <3>2. \E f \in [0..Len(d) -> Int] : Rounds(f, 0, Len(d), G)
      <4> HIDE DEF G
      <4> QED
        BY <2>1, <3>1, LoopExists
    <3> HIDE DEF G
    <3> QED
      BY <3>2 DEF Rounds
  <2>3. ASSUME NEW k \in 0..Len(d)
        PROVE  f[k] = IF k = 0 THEN 0 ELSE 10 * f[k - 1] + (d[k] - 48)
    <3>1. CASE k = 0
      BY <2>2, <3>1
    <3>2. CASE k # 0
      <4>1. k \in 1..Len(d) /\ f[k - 1] \in Int
        BY <1>1, <3>2
      <4> QED
        BY <2>2, <3>2, <4>1
    <3> QED
      BY <3>1, <3>2
  <2>4. f = F(f)
    BY <2>3
  <2> QED
    BY <2>4
<1> DEFINE f == CHOOSE f : f = F(f)
<1>3. f = F(f)
  BY <1>2
<1>4. Value(d) = f[Len(d)]
  BY DEF Value
<1> HIDE DEF f
<1>5. f[0] = 0 /\ \A k \in 1..Len(d) : f[k] = 10 * f[k - 1] + (d[k] - 48)
  <2>1. \A k \in 0..Len(d) : f[k] = IF k = 0 THEN 0 ELSE 10 * f[k - 1] + (d[k] - 48)
    BY <1>3
  <2>2. 0 \in 0..Len(d) /\ \A k \in 1..Len(d) : k \in 0..Len(d) /\ k # 0
    BY <1>1
  <2> QED
    BY <2>1, <2>2
<1> DEFINE T == {k \in 0..Len(d) : f[k] \notin Int}
<1>6. T = {}
  <2> SUFFICES ASSUME T # {} PROVE FALSE
    OBVIOUS
  <2>1. PICK m \in T : \A y \in T : m <= y
    <3>1. T \in SUBSET Nat
      BY <1>1
    <3> QED
      BY <3>1, LeastExists
  <2>2. m \in 1..Len(d) /\ m - 1 \in 0..Len(d) /\ ~(m <= m - 1) /\ f[m] \notin Int
    BY <1>1, <1>5, <2>1
  <2>3. f[m - 1] \in Int
    BY <2>1, <2>2
  <2>4. d[m] \in Int /\ f[m] = 10 * f[m - 1] + (d[m] - 48)
    BY <1>1, <1>5, <2>2
  <2>5. \A x, y \in Int : 10 * x + (y - 48) \in Int
    OBVIOUS
  <2> QED
    BY <2>2, <2>3, <2>4, <2>5
<1>7. Len(d) \in 0..Len(d)
  BY <1>1
<1> QED
  BY <1>4, <1>6, <1>7

LEMMA NumberBytesType ==
    ASSUME NEW l \in Seq(Bytes)
    PROVE  NumberBytes(l) \in Seq(Bytes)
<1>1. CASE FirstTab(l) = 0
  BY <1>1 DEF NumberBytes
<1>2. CASE FirstTab(l) # 0
  <2> DEFINE I == {i \in 1..Len(l) : l[i] = Tab}
  <2>1. Len(l) \in Nat /\ \A i \in 1..Len(l) : l[i] \in Bytes
    BY LenProperties, ElementOfSeq
  <2>2. I # {} /\ FirstTab(l) = Min(I)
    BY <1>2 DEF FirstTab, SelectInSeq
  <2>3. I \in SUBSET Nat
    BY <2>1
  <2>4. PICK x \in I : \A y \in I : x <= y
    BY <2>2, <2>3, LeastExists
  <2>5. FirstTab(l) \in I
    BY <2>2, <2>4 DEF Min
  <2>6. FirstTab(l) \in 1..Len(l)
    BY <2>5
  <2>7. \A i \in 1..(FirstTab(l) - 1) : l[i] \in Bytes
    BY <2>1, <2>6
  <2>8. SubSeq(l, 1, FirstTab(l) - 1) \in Seq(Bytes)
    BY <2>6, <2>7, SubSeqProperties
  <2> QED
    BY <1>2, <2>8 DEF NumberBytes
<1> QED
  BY <1>1, <1>2

\* Where the one parser finds a number, the other finds the same.
LEMMA SameNumber ==
    ASSUME NEW bs \in Seq(Bytes)
    PROVE  /\ AsciiU64(bs) \in Int
           /\ AsciiU64(bs) # -1 => LossyU64(bs) = AsciiU64(bs)
<1>1. AsciiU64(bs) \in Int
  <2>1. Value(bs) \in Int
    BY ValueType
  <2> QED
    BY <2>1 DEF AsciiU64
<1>2. ASSUME AsciiU64(bs) # -1 PROVE LossyU64(bs) = AsciiU64(bs)
  <2>1. bs # <<>> /\ ToSet(bs) \subseteq Digits
    BY <1>2 DEF AsciiU64
  <2>2. 1 \in DOMAIN bs
    BY <2>1, EmptySeq, LenProperties
  <2>3. bs[1] \in Digits
    BY <2>1, <2>2 DEF ToSet
  <2>4. bs[1] # Plus
    BY <2>3 DEF Digits, Plus
  <2> QED
    BY <1>2, <2>4 DEF LossyU64
<1> QED
  BY <1>1, <1>2

-----------------------------------------------------------------------------
(* The two parsers                                                          *)

\* The failure codes, and what the loop of parse_lossless_overview_rows keeps.
Codes == {"article_number_invalid", "article_number_out_of_range", "field_count_invalid",
          "duplicate_article_number", "none"}

Row        == [number : Int, line : Seq(Bytes)]
DefectiveRow == [code : Codes, line : Seq(Bytes)]
Parsing    == [rows : Seq(Row), defective : Seq(DefectiveRow), seen : SUBSET Int]

NothingParsed == [rows |-> <<>>, defective |-> <<>>, seen |-> {}]

\* The values of that loop, and of the loop of parse_xover_data, line after line.
ParseRounds(p, lines, asked) ==
    /\ p[0] = NothingParsed
    /\ \A k \in 1..Len(lines) : p[k] = ParseLine(p[k - 1], Chomped(lines[k]), asked)

EntryRounds(p, lines) ==
    p[0] = <<>> /\ \A k \in 1..Len(lines) : p[k] = AddEntry(p[k - 1], Chomped(lines[k]))

LEMMA ChompedType ==
    ASSUME NEW l \in Seq(Bytes)
    PROVE  Chomped(l) \in Seq(Bytes)
<1>1. \A s \in Seq(Bytes) : s # <<>> => WithoutLast(s) \in Seq(Bytes)
  <2> TAKE s \in Seq(Bytes)
  <2> HAVE s # <<>>
  <2>1. Len(s) \in Nat \ {0} /\ \A i \in 1..(Len(s) - 1) : s[i] \in Bytes
    BY EmptySeq, ElementOfSeq
  <2> QED
    BY <2>1, SubSeqProperties DEF WithoutLast
<1> QED
  BY <1>1 DEF Chomped, EndsWith

LEMMA NumberType ==
    ASSUME NEW l \in Seq(Bytes)
    PROVE  AsciiU64(NumberBytes(l)) \in Int
  BY NumberBytesType, SameNumber

LEMMA LossyType ==
    ASSUME NEW l \in Seq(Bytes)
    PROVE  LossyU64(NumberBytes(l)) \in Int
<1> DEFINE bs == NumberBytes(l)
           digits == IF bs # <<>> /\ bs[1] = Plus THEN Tail(bs) ELSE bs
<1>1. bs \in Seq(Bytes)
  BY NumberBytesType
<1> HIDE DEF bs
<1>2. digits \in Seq(Bytes)
  BY <1>1, HeadTailProperties
<1>3. AsciiU64(digits) \in Int
  BY <1>2, SameNumber
<1>4. LossyU64(bs) = IF AsciiU64(digits) = -1 THEN 0 ELSE AsciiU64(digits)
  BY DEF LossyU64
<1> HIDE DEF digits
<1>5. LossyU64(bs) \in Int
  BY <1>3, <1>4
<1> QED
  BY <1>5 DEF bs

LEMMA ParseLineType ==
    ASSUME NEW r \in Parsing, NEW l \in Seq(Bytes), NEW asked
    PROVE  ParseLine(r, l, asked) \in Parsing
<1> DEFINE n == AsciiU64(NumberBytes(l))
           code == Code(l, r.seen, asked)
<1>1. n \in Int
  BY NumberType
<1>2. code \in Codes
  BY DEF Code, Codes
<1>3. r.rows \in Seq(Row) /\ r.defective \in Seq(DefectiveRow) /\ r.seen \in SUBSET Int
  BY DEF Parsing
<1>4. CASE l = <<>>
  BY <1>4 DEF ParseLine
<1>5. CASE l # <<>> /\ code = "none"
  <2>1. ParseLine(r, l, asked) =
          [r EXCEPT !.rows = Append(@, [number |-> n, line |-> l]), !.seen = @ \cup {n}]
    BY <1>5 DEF ParseLine
  <2> HIDE DEF n, code
  <2>2. [number |-> n, line |-> l] \in Row
    BY <1>1 DEF Row
  <2>3. Append(r.rows, [number |-> n, line |-> l]) \in Seq(Row)
    BY <1>3, <2>2, AppendProperties
  <2>4. r.seen \cup {n} \in SUBSET Int
    BY <1>1, <1>3
  <2> QED
    BY <2>1, <2>3, <2>4 DEF Parsing
<1>6. CASE l # <<>> /\ code # "none"
  <2>1. ParseLine(r, l, asked) =
          [r EXCEPT !.defective = Append(@, [code |-> code, line |-> l])]
    BY <1>6 DEF ParseLine
  <2> HIDE DEF n, code
  <2>2. [code |-> code, line |-> l] \in DefectiveRow
    BY <1>2 DEF DefectiveRow
  <2>3. Append(r.defective, [code |-> code, line |-> l]) \in Seq(DefectiveRow)
    BY <1>3, <2>2, AppendProperties
  <2> QED
    BY <2>1, <2>3 DEF Parsing
<1> QED
  BY <1>4, <1>5, <1>6

LEMMA AddEntryType ==
    ASSUME NEW es \in Seq(Int), NEW l \in Seq(Bytes)
    PROVE  AddEntry(es, l) \in Seq(Int)
<1>1. LossyU64(NumberBytes(l)) \in Int
  BY LossyType
<1>2. Append(es, LossyU64(NumberBytes(l))) \in Seq(Int)
  BY <1>1, AppendProperties
<1> QED
  BY <1>2 DEF AddEntry

\* Parsed is the last round of the loop.
LEMMA ParsedIs ==
    ASSUME NEW lines \in Seq(Seq(Bytes)), NEW asked
    PROVE  \E p \in [0..Len(lines) -> Parsing] :
              ParseRounds(p, lines, asked) /\ Parsed(lines, asked) = p[Len(lines)]
<1>1. Len(lines) \in Nat /\ \A k \in 1..Len(lines) : Chomped(lines[k]) \in Seq(Bytes)
  BY LenProperties, ElementOfSeq, ChompedType
<1> DEFINE F(f) == [k \in 0..Len(lines) |->
                      IF k = 0 THEN [rows |-> <<>>, defective |-> <<>>, seen |-> {}]
                      ELSE ParseLine(f[k - 1], Chomped(lines[k]), asked)]
           G == [k \in 1..Len(lines) |-> [r \in Parsing |-> ParseLine(r, Chomped(lines[k]), asked)]]
<1>2. G \in [1..Len(lines) -> [Parsing -> Parsing]]
  BY <1>1, ParseLineType
<1>3. NothingParsed \in Parsing
  BY DEF NothingParsed, Parsing
<1>4. PICK g \in [0..Len(lines) -> Parsing] : Rounds(g, NothingParsed, Len(lines), G)
  <2> HIDE DEF G
  <2> QED
    BY <1>1, <1>2, <1>3, LoopExists
<1>5. \A k \in 1..Len(lines) : g[k] = ParseLine(g[k - 1], Chomped(lines[k]), asked)
  <2> TAKE k \in 1..Len(lines)
  <2>1. g[k] = G[k][g[k - 1]]
    <3> HIDE DEF G
    <3> QED
      BY <1>4 DEF Rounds
  <2>2. k - 1 \in 0..Len(lines)
    BY <1>1
  <2>3. g[k - 1] \in Parsing
    BY <1>4, <2>2
  <2> QED
    BY <2>1, <2>3
<1>6. g[0] = NothingParsed
  BY <1>4 DEF Rounds
<1> HIDE DEF G
<1>7. g = F(g)
  <2>1. ASSUME NEW k \in 0..Len(lines)
        PROVE  g[k] = IF k = 0 THEN [rows |-> <<>>, defective |-> <<>>, seen |-> {}]
                      ELSE ParseLine(g[k - 1], Chomped(lines[k]), asked)
    <3>1. CASE k = 0
      BY <1>6, <3>1 DEF NothingParsed
    <3>2. CASE k # 0
      <4>1. k \in 1..Len(lines)
        BY <1>1, <3>2
      <4> QED
        BY <1>5, <3>2, <4>1
    <3> QED
      BY <3>1, <3>2
  <2> QED
    BY <2>1
<1> DEFINE p == CHOOSE f : f = F(f)
<1>8. p = F(p)
  BY <1>7
<1>9. Parsed(lines, asked) = p[Len(lines)]
  BY DEF Parsed
<1> HIDE DEF p
<1>10. \A k \in 0..Len(lines) :
         p[k] = IF k = 0 THEN [rows |-> <<>>, defective |-> <<>>, seen |-> {}]
                ELSE ParseLine(p[k - 1], Chomped(lines[k]), asked)
  BY <1>8
<1>11. ParseRounds(p, lines, asked)
  <2>1. 0 \in 0..Len(lines) /\ \A k \in 1..Len(lines) : k \in 0..Len(lines) /\ k # 0
    BY <1>1
  <2>2. p[0] = NothingParsed
    BY <1>10, <2>1 DEF NothingParsed
  <2>3. \A k \in 1..Len(lines) : p[k] = ParseLine(p[k - 1], Chomped(lines[k]), asked)
    BY <1>10, <2>1
  <2> QED
    BY <2>2, <2>3 DEF ParseRounds
<1>12. \A k \in 0..Len(lines) : p[k] \in Parsing
  <2> DEFINE T == {k \in 0..Len(lines) : p[k] \notin Parsing}
  <2> SUFFICES ASSUME T # {} PROVE FALSE
    OBVIOUS
  <2>1. PICK m \in T : \A y \in T : m <= y
    <3>1. T \in SUBSET Nat
      BY <1>1
    <3> QED
      BY <3>1, LeastExists
  <2>2. m # 0
    BY <1>3, <1>11, <2>1 DEF ParseRounds
  <2>3. m \in 1..Len(lines) /\ m - 1 \in 0..Len(lines) /\ ~(m <= m - 1)
    BY <1>1, <2>1, <2>2
  <2>4. p[m - 1] \in Parsing
    BY <2>1, <2>3
  <2>5. p[m] = ParseLine(p[m - 1], Chomped(lines[m]), asked)
    BY <1>11, <2>3 DEF ParseRounds
  <2>6. p[m] \in Parsing
    BY <1>1, <2>3, <2>4, <2>5, ParseLineType
  <2> QED
    BY <2>1, <2>6
<1>13. p \in [0..Len(lines) -> Parsing]
  <2>1. DOMAIN p = 0..Len(lines) /\ p = [k \in DOMAIN p |-> p[k]]
    BY <1>8
  <2> QED
    BY <1>12, <2>1
<1> QED
  BY <1>9, <1>11, <1>13

\* Entries too.
LEMMA EntriesIs ==
    ASSUME NEW lines \in Seq(Seq(Bytes))
    PROVE  \E p \in [0..Len(lines) -> Seq(Int)] :
              EntryRounds(p, lines) /\ Entries(lines) = p[Len(lines)]
<1>1. Len(lines) \in Nat /\ \A k \in 1..Len(lines) : Chomped(lines[k]) \in Seq(Bytes)
  BY LenProperties, ElementOfSeq, ChompedType
<1> DEFINE F(f) == [k \in 0..Len(lines) |->
                      IF k = 0 THEN <<>> ELSE AddEntry(f[k - 1], Chomped(lines[k]))]
           G == [k \in 1..Len(lines) |-> [es \in Seq(Int) |-> AddEntry(es, Chomped(lines[k]))]]
<1>2. G \in [1..Len(lines) -> [Seq(Int) -> Seq(Int)]]
  BY <1>1, AddEntryType
<1>3. <<>> \in Seq(Int)
  OBVIOUS
<1>4. PICK g \in [0..Len(lines) -> Seq(Int)] : Rounds(g, <<>>, Len(lines), G)
  <2> HIDE DEF G
  <2> QED
    BY <1>1, <1>2, <1>3, LoopExists
<1>5. \A k \in 1..Len(lines) : g[k] = AddEntry(g[k - 1], Chomped(lines[k]))
  <2> TAKE k \in 1..Len(lines)
  <2>1. g[k] = G[k][g[k - 1]]
    <3> HIDE DEF G
    <3> QED
      BY <1>4 DEF Rounds
  <2>2. k - 1 \in 0..Len(lines)
    BY <1>1
  <2>3. g[k - 1] \in Seq(Int)
    BY <1>4, <2>2
  <2> QED
    BY <2>1, <2>3
<1>6. g[0] = <<>>
  BY <1>4 DEF Rounds
<1> HIDE DEF G
<1>7. g = F(g)
  <2>1. ASSUME NEW k \in 0..Len(lines)
        PROVE  g[k] = IF k = 0 THEN <<>> ELSE AddEntry(g[k - 1], Chomped(lines[k]))
    <3>1. CASE k = 0
      BY <1>6, <3>1
    <3>2. CASE k # 0
      <4>1. k \in 1..Len(lines)
        BY <1>1, <3>2
      <4> QED
        BY <1>5, <3>2, <4>1
    <3> QED
      BY <3>1, <3>2
  <2> QED
    BY <2>1
<1> DEFINE p == CHOOSE f : f = F(f)
<1>8. p = F(p)
  BY <1>7
<1>9. Entries(lines) = p[Len(lines)]
  BY DEF Entries
<1> HIDE DEF p
<1>10. \A k \in 0..Len(lines) :
         p[k] = IF k = 0 THEN <<>> ELSE AddEntry(p[k - 1], Chomped(lines[k]))
  BY <1>8
<1>11. EntryRounds(p, lines)
  <2>1. 0 \in 0..Len(lines) /\ \A k \in 1..Len(lines) : k \in 0..Len(lines) /\ k # 0
    BY <1>1
  <2>2. p[0] = <<>>
    BY <1>10, <2>1
  <2>3. \A k \in 1..Len(lines) : p[k] = AddEntry(p[k - 1], Chomped(lines[k]))
    BY <1>10, <2>1
  <2> QED
    BY <2>2, <2>3 DEF EntryRounds
<1>12. \A k \in 0..Len(lines) : p[k] \in Seq(Int)
  <2> DEFINE T == {k \in 0..Len(lines) : p[k] \notin Seq(Int)}
  <2> SUFFICES ASSUME T # {} PROVE FALSE
    OBVIOUS
  <2>1. PICK m \in T : \A y \in T : m <= y
    <3>1. T \in SUBSET Nat
      BY <1>1
    <3> QED
      BY <3>1, LeastExists
  <2>2. m # 0
    BY <1>3, <1>11, <2>1 DEF EntryRounds
  <2>3. m \in 1..Len(lines) /\ m - 1 \in 0..Len(lines) /\ ~(m <= m - 1)
    BY <1>1, <2>1, <2>2
  <2>4. p[m - 1] \in Seq(Int)
    BY <2>1, <2>3
  <2>5. p[m] = AddEntry(p[m - 1], Chomped(lines[m]))
    BY <1>11, <2>3 DEF EntryRounds
  <2>6. p[m] \in Seq(Int)
    BY <1>1, <2>3, <2>4, <2>5, AddEntryType
  <2> QED
    BY <2>1, <2>6
<1>13. p \in [0..Len(lines) -> Seq(Int)]
  <2>1. DOMAIN p = 0..Len(lines) /\ p = [k \in DOMAIN p |-> p[k]]
    BY <1>8
  <2> QED
    BY <1>12, <2>1
<1> QED
  BY <1>9, <1>11, <1>13

-----------------------------------------------------------------------------
(* What they list: t has the lines of the server at their places, the first *)
(* of the block at a + 1 and the last one parsed at m.                      *)

Num(t, i) == AsciiU64(NumberBytes(t[i]))

SoundIn(t, i, asked) == FieldCount(t[i]) = Fields /\ Num(t, i) \in asked.first..asked.last

Filled(t, a, m) == {i \in (a + 1)..m : t[i] # <<>>}

FirstIn(t, a, i, asked) ==
    /\ SoundIn(t, i, asked)
    /\ \A j \in Filled(t, a, i - 1) : SoundIn(t, j, asked) => Num(t, j) # Num(t, i)

GoodIn(t, a, m, asked) == {i \in Filled(t, a, m) : FirstIn(t, a, i, asked)}
BadIn(t, a, m, asked)  == {i \in Filled(t, a, m) : ~FirstIn(t, a, i, asked)}
SeenIn(t, a, m, asked) == {Num(t, i) : i \in {i \in Filled(t, a, m) : SoundIn(t, i, asked)}}
LongIn(t, a, m)        == {i \in (a + 1)..m : FieldCount(t[i]) >= MinFields}

RowAt(t, i) == [number |-> Num(t, i), line |-> t[i]]
LinesOf(ds) == [i \in DOMAIN ds |-> ds[i].line]

\* The loop invariants of the two parsers.
ParseInv(r, t, a, m, asked) ==
    /\ r.seen = SeenIn(t, a, m, asked)
    /\ Lists(r.rows, [i \in GoodIn(t, a, m, asked) |-> RowAt(t, i)])
    /\ Lists(LinesOf(r.defective), [i \in BadIn(t, a, m, asked) |-> t[i]])

EntryInv(es, t, a, m) ==
    Lists(es, [i \in LongIn(t, a, m) |-> LossyU64(NumberBytes(t[i]))])

\* One more place.
LEMMA FilledMore ==
    ASSUME NEW t, NEW a \in Nat, NEW m \in Nat, a <= m
    PROVE  /\ t[m + 1] = <<>> => Filled(t, a, m + 1) = Filled(t, a, m)
           /\ t[m + 1] # <<>> => Filled(t, a, m + 1) = Filled(t, a, m) \cup {m + 1}
           /\ Filled(t, a, m) \subseteq Nat /\ \A i \in Filled(t, a, m) : i < m + 1
<1>1. (a + 1)..(m + 1) = ((a + 1)..m) \cup {m + 1}
  OBVIOUS
<1>2. \A i \in (a + 1)..m : i \in Nat /\ i < m + 1
  OBVIOUS
<1> QED
  BY <1>1, <1>2 DEF Filled

LEMMA SetsSkip ==
    ASSUME NEW t, NEW a \in Nat, NEW m \in Nat, a <= m, NEW asked, t[m + 1] = <<>>
    PROVE  /\ GoodIn(t, a, m + 1, asked) = GoodIn(t, a, m, asked)
           /\ BadIn(t, a, m + 1, asked) = BadIn(t, a, m, asked)
           /\ SeenIn(t, a, m + 1, asked) = SeenIn(t, a, m, asked)
  BY FilledMore DEF GoodIn, BadIn, SeenIn

SetsGrow(t, a, m, asked) ==
    /\ GoodIn(t, a, m + 1, asked) =
         IF FirstIn(t, a, m + 1, asked) THEN GoodIn(t, a, m, asked) \cup {m + 1}
         ELSE GoodIn(t, a, m, asked)
    /\ BadIn(t, a, m + 1, asked) =
         IF FirstIn(t, a, m + 1, asked) THEN BadIn(t, a, m, asked)
         ELSE BadIn(t, a, m, asked) \cup {m + 1}
    /\ SeenIn(t, a, m + 1, asked) =
         IF SoundIn(t, m + 1, asked) THEN SeenIn(t, a, m, asked) \cup {Num(t, m + 1)}
         ELSE SeenIn(t, a, m, asked)

LEMMA SetsMore ==
    ASSUME NEW t, NEW a \in Nat, NEW m \in Nat, a <= m, NEW asked, t[m + 1] # <<>>
    PROVE  SetsGrow(t, a, m, asked)
<1>1. Filled(t, a, m + 1) = Filled(t, a, m) \cup {m + 1}
  BY FilledMore
<1>2. CASE FirstIn(t, a, m + 1, asked)
  <2>1. /\ GoodIn(t, a, m + 1, asked) = GoodIn(t, a, m, asked) \cup {m + 1}
        /\ BadIn(t, a, m + 1, asked) = BadIn(t, a, m, asked)
    BY <1>1, <1>2 DEF GoodIn, BadIn
  <2>2. SoundIn(t, m + 1, asked)
    BY <1>2 DEF FirstIn
  <2>3. SeenIn(t, a, m + 1, asked) = SeenIn(t, a, m, asked) \cup {Num(t, m + 1)}
    BY <1>1, <2>2 DEF SeenIn
  <2> QED
    BY <1>2, <2>1, <2>2, <2>3 DEF SetsGrow
<1>3. CASE ~FirstIn(t, a, m + 1, asked)
  <2>1. /\ GoodIn(t, a, m + 1, asked) = GoodIn(t, a, m, asked)
        /\ BadIn(t, a, m + 1, asked) = BadIn(t, a, m, asked) \cup {m + 1}
    BY <1>1, <1>3 DEF GoodIn, BadIn
  <2>2. CASE SoundIn(t, m + 1, asked)
    <3>1. SeenIn(t, a, m + 1, asked) = SeenIn(t, a, m, asked) \cup {Num(t, m + 1)}
      BY <1>1, <2>2 DEF SeenIn
    <3> QED
      BY <1>3, <2>1, <2>2, <3>1 DEF SetsGrow
  <2>3. CASE ~SoundIn(t, m + 1, asked)
    <3>1. SeenIn(t, a, m + 1, asked) = SeenIn(t, a, m, asked)
      BY <1>1, <2>3 DEF SeenIn
    <3> QED
      BY <1>3, <2>1, <2>3, <3>1 DEF SetsGrow
  <2> QED
    BY <2>2, <2>3
<1> QED
  BY <1>2, <1>3

\* The checks of a row: it has no failure code exactly if it is the first sound
\* one of its number.
LEMMA CodeIs ==
    ASSUME NEW t, NEW a \in Nat, NEW m \in Nat, t[m + 1] \in Seq(Bytes),
           NEW asked \in [first : Nat, last : Nat], NEW seen, seen = SeenIn(t, a, m, asked)
    PROVE  /\ Code(t[m + 1], seen, asked) = "none" <=> FirstIn(t, a, m + 1, asked)
           /\ SoundIn(t, m + 1, asked) /\ ~FirstIn(t, a, m + 1, asked) => Num(t, m + 1) \in seen
<1> DEFINE n == Num(t, m + 1)
<1>1. n \in Int /\ asked.first \in Nat /\ asked.last \in Nat
  BY NumberType DEF Num
<1>2. n \in asked.first..asked.last <=> n # -1 /\ ~(n < asked.first) /\ ~(n > asked.last)
  <2> HIDE DEF n
  <2> QED
    BY <1>1
<1>3. Code(t[m + 1], seen, asked) = "none" <=> SoundIn(t, m + 1, asked) /\ n \notin seen
  BY <1>2 DEF Code, SoundIn, Num
<1>4. (m + 1) - 1 = m
  OBVIOUS
<1>5. n \notin seen <=> \A j \in Filled(t, a, m) : SoundIn(t, j, asked) => Num(t, j) # n
  BY DEF SeenIn
<1>6. FirstIn(t, a, m + 1, asked) <=> SoundIn(t, m + 1, asked) /\ n \notin seen
  BY <1>4, <1>5 DEF FirstIn
<1> QED
  BY <1>3, <1>6

LEMMA LinesOfMore ==
    ASSUME NEW ds \in Seq(DefectiveRow), NEW d \in DefectiveRow
    PROVE  /\ LinesOf(ds) \in Seq(Seq(Bytes))
           /\ LinesOf(Append(ds, d)) = Append(LinesOf(ds), d.line)
<1>1. Len(ds) \in Nat /\ DOMAIN ds = 1..Len(ds) /\ \A i \in 1..Len(ds) : ds[i].line \in Seq(Bytes)
  <2>1. Len(ds) \in Nat /\ DOMAIN ds = 1..Len(ds)
    BY LenProperties
  <2>2. \A i \in 1..Len(ds) : ds[i] \in DefectiveRow
    BY ElementOfSeq
  <2>3. \A x \in DefectiveRow : x.line \in Seq(Bytes)
    BY DEF DefectiveRow
  <2> QED
    BY <2>1, <2>2, <2>3
<1>2. LinesOf(ds) = [i \in 1..Len(ds) |-> ds[i].line]
  BY <1>1 DEF LinesOf
<1> DEFINE q == [i \in 1..Len(ds) |-> ds[i].line]
<1>3. q \in Seq(Seq(Bytes)) /\ Len(q) = Len(ds) /\ \A i \in 1..Len(ds) : q[i] = ds[i].line
  BY <1>1
<1> HIDE DEF q
<1> DEFINE e == Append(ds, d)
           w == Append(q, d.line)
<1>4. /\ DOMAIN e = 1..(Len(ds) + 1) /\ e[Len(ds) + 1] = d
      /\ \A i \in 1..Len(ds) : e[i] = ds[i]
  <2>1. e \in Seq(DefectiveRow) /\ Len(e) = Len(ds) + 1
    BY AppendProperties
  <2> QED
    BY <2>1, AppendProperties, LenProperties
<1>5. d.line \in Seq(Bytes)
  BY DEF DefectiveRow
<1>6. /\ DOMAIN w = 1..(Len(ds) + 1) /\ w[Len(ds) + 1] = d.line
      /\ \A i \in 1..Len(ds) : w[i] = q[i] /\ w \in Seq(Seq(Bytes))
  <2>1. w \in Seq(Seq(Bytes)) /\ Len(w) = Len(q) + 1
    BY <1>3, <1>5, AppendProperties
  <2> QED
    BY <1>3, <1>5, <2>1, AppendProperties, LenProperties
<1>7. w = [i \in 1..(Len(ds) + 1) |-> w[i]]
  <2>1. w \in Seq(Seq(Bytes))
    BY <1>3, <1>5, AppendProperties
  <2>2. w = [i \in DOMAIN w |-> w[i]]
    BY <2>1
  <2> QED
    BY <1>6, <2>2
<1> HIDE DEF e, w
<1>8. \A i \in 1..(Len(ds) + 1) : e[i].line = w[i]
  <2> TAKE i \in 1..(Len(ds) + 1)
  <2>1. i \in 1..Len(ds) \/ i = Len(ds) + 1
    BY <1>1
  <2>2. CASE i \in 1..Len(ds)
    BY <1>3, <1>4, <1>6, <2>2
  <2>3. CASE i = Len(ds) + 1
    BY <1>4, <1>6, <2>3
  <2> QED
    BY <2>1, <2>2, <2>3
<1>9. LinesOf(e) = w
  BY <1>4, <1>7, <1>8 DEF LinesOf
<1> QED
  BY <1>2, <1>3, <1>9 DEF e, w, q

\* A round of parse_lossless_overview_rows.
LEMMA ParseStep ==
    ASSUME NEW t, NEW a \in Nat, NEW m \in Nat, a <= m, t[m + 1] \in Seq(Bytes),
           NEW asked \in [first : Nat, last : Nat], NEW r \in Parsing,
           ParseInv(r, t, a, m, asked)
    PROVE  ParseInv(ParseLine(r, t[m + 1], asked), t, a, m + 1, asked)
<1>9. t[m + 1] # <<>> => SetsGrow(t, a, m, asked)
  BY SetsMore
<1> DEFINE l == t[m + 1]
           n == Num(t, m + 1)
           code == Code(l, r.seen, asked)
           good(k) == [i \in GoodIn(t, a, k, asked) |-> RowAt(t, i)]
           bad(k) == [i \in BadIn(t, a, k, asked) |-> t[i]]
<1>1. /\ r.seen = SeenIn(t, a, m, asked)
      /\ Lists(r.rows, good(m))
      /\ Lists(LinesOf(r.defective), bad(m))
  BY DEF ParseInv
<1>2. r.rows \in Seq(Row) /\ r.defective \in Seq(DefectiveRow)
  BY DEF Parsing
<1>3. /\ code = "none" <=> FirstIn(t, a, m + 1, asked)
      /\ SoundIn(t, m + 1, asked) /\ ~FirstIn(t, a, m + 1, asked) => n \in r.seen
  BY <1>1, CodeIs
<1>4. /\ GoodIn(t, a, m, asked) \subseteq Nat /\ BadIn(t, a, m, asked) \subseteq Nat
      /\ \A i \in GoodIn(t, a, m, asked) : i < m + 1
      /\ \A i \in BadIn(t, a, m, asked) : i < m + 1
  BY FilledMore DEF GoodIn, BadIn
<1>5. n \in Int /\ code \in Codes
  BY NumberType DEF Num, Code, Codes
<1>6. CASE l = <<>>
  <2>1. ParseLine(r, l, asked) = r
    BY <1>6 DEF ParseLine
  <2> QED
    BY <1>1, <1>6, <2>1, SetsSkip DEF ParseInv
<1>7. CASE l # <<>> /\ code = "none"
  <2> DEFINE x == [number |-> n, line |-> l]
             q == ParseLine(r, l, asked)
  <2>1. q = [r EXCEPT !.rows = Append(@, x), !.seen = @ \cup {n}]
    BY <1>7 DEF ParseLine, Num
  <2>2. q.rows = Append(r.rows, x) /\ q.seen = r.seen \cup {n} /\ q.defective = r.defective
    BY <2>1 DEF Parsing
  <2>3. FirstIn(t, a, m + 1, asked) /\ SoundIn(t, m + 1, asked)
    BY <1>3, <1>7 DEF FirstIn
  <2>4. /\ GoodIn(t, a, m + 1, asked) = GoodIn(t, a, m, asked) \cup {m + 1}
        /\ BadIn(t, a, m + 1, asked) = BadIn(t, a, m, asked)
        /\ SeenIn(t, a, m + 1, asked) = SeenIn(t, a, m, asked) \cup {n}
    BY <1>7, <1>9, <2>3 DEF SetsGrow
  <2>5. x \in Row /\ x = RowAt(t, m + 1)
    BY <1>5 DEF Row, RowAt
  <2>6. Lists(Append(r.rows, x), good(m + 1))
    <3>1. /\ DOMAIN good(m) = GoodIn(t, a, m, asked)
          /\ DOMAIN good(m + 1) = DOMAIN good(m) \cup {m + 1}
          /\ \A d \in DOMAIN good(m) : good(m + 1)[d] = good(m)[d]
          /\ good(m + 1)[m + 1] = x
      BY <2>4, <2>5
    <3> HIDE DEF good, x
    <3>2. NextPlace(good(m), good(m + 1), m + 1, x) /\ m + 1 \in Nat
      BY <1>4, <3>1 DEF NextPlace
    <3> QED
      BY <1>1, <1>2, <2>5, <3>2, ListsMore
  <2>7. Lists(LinesOf(q.defective), bad(m + 1))
    BY <1>1, <2>2, <2>4
  <2> HIDE DEF q
  <2>8. ParseInv(q, t, a, m + 1, asked)
    BY <1>1, <2>2, <2>4, <2>6, <2>7 DEF ParseInv
  <2> QED
    BY <2>8 DEF q
<1>8. CASE l # <<>> /\ code # "none"
  <2> DEFINE x == [code |-> code, line |-> l]
             q == ParseLine(r, l, asked)
  <2>1. q = [r EXCEPT !.defective = Append(@, x)]
    BY <1>8 DEF ParseLine
  <2>2. q.defective = Append(r.defective, x) /\ q.seen = r.seen /\ q.rows = r.rows
    BY <2>1 DEF Parsing
  <2>3. ~FirstIn(t, a, m + 1, asked)
    BY <1>3, <1>8
  <2>4. /\ GoodIn(t, a, m + 1, asked) = GoodIn(t, a, m, asked)
        /\ BadIn(t, a, m + 1, asked) = BadIn(t, a, m, asked) \cup {m + 1}
    BY <1>8, <1>9, <2>3 DEF SetsGrow
  <2>5. SeenIn(t, a, m + 1, asked) = SeenIn(t, a, m, asked)
    <3>1. CASE SoundIn(t, m + 1, asked)
      <4>1. SeenIn(t, a, m + 1, asked) = SeenIn(t, a, m, asked) \cup {n}
        BY <1>8, <1>9, <3>1 DEF SetsGrow
      <4>2. n \in SeenIn(t, a, m, asked)
        BY <1>1, <1>3, <2>3, <3>1
      <4> QED
        BY <4>1, <4>2
    <3>2. CASE ~SoundIn(t, m + 1, asked)
      BY <1>8, <1>9, <3>2 DEF SetsGrow
    <3> QED
      BY <3>1, <3>2
  <2>6. x \in DefectiveRow /\ x.line = l
    BY <1>5 DEF DefectiveRow
  <2>7. /\ LinesOf(r.defective) \in Seq(Seq(Bytes))
        /\ LinesOf(Append(r.defective, x)) = Append(LinesOf(r.defective), l)
    <3> HIDE DEF x
    <3> QED
      BY <1>2, <2>6, LinesOfMore
  <2>8. Lists(Append(LinesOf(r.defective), l), bad(m + 1))
    <3>1. /\ DOMAIN bad(m) = BadIn(t, a, m, asked)
          /\ DOMAIN bad(m + 1) = DOMAIN bad(m) \cup {m + 1}
          /\ \A d \in DOMAIN bad(m) : bad(m + 1)[d] = bad(m)[d]
          /\ bad(m + 1)[m + 1] = l
      BY <2>4
    <3>2. l \in Seq(Bytes)
      OBVIOUS
    <3> HIDE DEF bad, l
    <3>3. NextPlace(bad(m), bad(m + 1), m + 1, l) /\ m + 1 \in Nat
      BY <1>4, <3>1 DEF NextPlace
    <3> QED
      BY <1>1, <2>7, <3>2, <3>3, ListsMore
  <2>9. Lists(q.rows, good(m + 1))
    BY <1>1, <2>2, <2>4
  <2> HIDE DEF q
  <2>10. ParseInv(q, t, a, m + 1, asked)
    BY <1>1, <2>2, <2>5, <2>7, <2>8, <2>9 DEF ParseInv
  <2> QED
    BY <2>10 DEF q
<1> QED
  BY <1>6, <1>7, <1>8

\* A round of parse_xover_data.
LEMMA EntryStep ==
    ASSUME NEW t, NEW a \in Nat, NEW m \in Nat, a <= m, t[m + 1] \in Seq(Bytes),
           NEW es \in Seq(Int), EntryInv(es, t, a, m)
    PROVE  EntryInv(AddEntry(es, t[m + 1]), t, a, m + 1)
<1> DEFINE h(k) == [i \in LongIn(t, a, k) |-> LossyU64(NumberBytes(t[i]))]
<1>1. (a + 1)..(m + 1) = ((a + 1)..m) \cup {m + 1} /\ \A i \in (a + 1)..m : i \in Nat /\ i < m + 1
  OBVIOUS
<1>2. Lists(es, h(m))
  BY DEF EntryInv
<1>3. CASE ~(FieldCount(t[m + 1]) >= MinFields)
  <2>1. LongIn(t, a, m + 1) = LongIn(t, a, m)
    BY <1>1, <1>3 DEF LongIn
  <2> QED
    BY <1>2, <1>3, <2>1 DEF EntryInv, AddEntry
<1>4. CASE FieldCount(t[m + 1]) >= MinFields
  <2> DEFINE v == LossyU64(NumberBytes(t[m + 1]))
  <2>1. LongIn(t, a, m + 1) = LongIn(t, a, m) \cup {m + 1}
    BY <1>1, <1>4 DEF LongIn
  <2>2. /\ DOMAIN h(m) = LongIn(t, a, m) /\ DOMAIN h(m + 1) = DOMAIN h(m) \cup {m + 1}
        /\ \A d \in DOMAIN h(m) : h(m + 1)[d] = h(m)[d]
        /\ h(m + 1)[m + 1] = v
    BY <2>1
  <2>3. v \in Int
    BY LossyType
  <2>4. DOMAIN h(m) \subseteq Nat /\ \A d \in DOMAIN h(m) : d < m + 1
    BY <1>1, <2>2 DEF LongIn
  <2>5. AddEntry(es, t[m + 1]) = Append(es, v)
    BY <1>4 DEF AddEntry
  <2>6. Lists(Append(es, v), h(m + 1))
    <3> HIDE DEF h, v
    <3>1. NextPlace(h(m), h(m + 1), m + 1, v) /\ m + 1 \in Nat
      BY <2>2, <2>4 DEF NextPlace
    <3> QED
      BY <1>2, <2>3, <3>1, ListsMore
  <2> QED
    BY <2>5, <2>6 DEF EntryInv
<1> QED
  BY <1>3, <1>4

\* The lines of a block are the texts at their places.
TextsOf(t, a, lines) == \A k \in 1..Len(lines) : Chomped(lines[k]) = t[a + k]

\* Both loops, up to the last line.
LEMMA ParsedFacts ==
    ASSUME NEW lines \in Seq(Seq(Bytes)), NEW t, NEW a \in Nat, TextsOf(t, a, lines),
           NEW asked \in [first : Nat, last : Nat]
    PROVE  /\ Parsed(lines, asked) \in Parsing
           /\ ParseInv(Parsed(lines, asked), t, a, a + Len(lines), asked)
<1>1. PICK p \in [0..Len(lines) -> Parsing] :
         ParseRounds(p, lines, asked) /\ Parsed(lines, asked) = p[Len(lines)]
  BY ParsedIs
<1>2. Len(lines) \in Nat /\ Len(lines) \in 0..Len(lines)
  BY LenProperties
<1>3. \A k \in 1..Len(lines) : Chomped(lines[k]) \in Seq(Bytes) /\ Chomped(lines[k]) = t[a + k]
  BY ElementOfSeq, ChompedType, <1>2 DEF TextsOf
<1>4. ParseInv(NothingParsed, t, a, a, asked)
  <2>1. (a + 1)..a = {}
    OBVIOUS
  <2>2. Filled(t, a, a) = {}
    BY <2>1 DEF Filled
  <2>3. GoodIn(t, a, a, asked) = {} /\ BadIn(t, a, a, asked) = {} /\ SeenIn(t, a, a, asked) = {}
    BY <2>2 DEF GoodIn, BadIn, SeenIn
  <2>4. LinesOf(<<>>) = <<>>
    BY DEF LinesOf
  <2> DEFINE f == [i \in GoodIn(t, a, a, asked) |-> RowAt(t, i)]
             g == [i \in BadIn(t, a, a, asked) |-> t[i]]
  <2>5. DOMAIN f = {} /\ DOMAIN g = {}
    BY <2>3
  <2> HIDE DEF f, g
  <2>6. Lists(<<>>, f) /\ Lists(<<>>, g)
    BY <2>5, ListsNone
  <2>7. NothingParsed.rows = <<>> /\ NothingParsed.defective = <<>> /\ NothingParsed.seen = {}
    BY DEF NothingParsed
  <2> QED
    BY <2>3, <2>4, <2>6, <2>7 DEF ParseInv, f, g
<1> DEFINE T == {k \in 0..Len(lines) : ~ParseInv(p[k], t, a, a + k, asked)}
<1>5. T = {}
  <2> SUFFICES ASSUME T # {} PROVE FALSE
    OBVIOUS
  <2>1. PICK k \in T : \A y \in T : k <= y
    <3>1. T \in SUBSET Nat
      BY <1>2
    <3> QED
      BY <3>1, LeastExists
  <2>2. k # 0
    <3>1. a + 0 = a /\ p[0] = NothingParsed
      BY <1>1 DEF ParseRounds
    <3> QED
      BY <1>4, <2>1, <3>1
  <2>3. k \in 1..Len(lines) /\ k - 1 \in 0..Len(lines) /\ ~(k <= k - 1)
    BY <1>2, <2>1, <2>2
  <2> DEFINE m == a + (k - 1)
  <2>4. m \in Nat /\ a <= m /\ m + 1 = a + k
    BY <1>2, <2>3
  <2>5. ParseInv(p[k - 1], t, a, m, asked) /\ p[k - 1] \in Parsing
    BY <1>1, <2>1, <2>3
  <2> HIDE DEF m
  <2>6. p[k] = ParseLine(p[k - 1], t[m + 1], asked) /\ t[m + 1] \in Seq(Bytes)
    BY <1>1, <1>3, <2>3, <2>4 DEF ParseRounds
  <2>7. ParseInv(p[k], t, a, m + 1, asked)
    BY <2>4, <2>5, <2>6, ParseStep
  <2> QED
    BY <2>1, <2>4, <2>7
<1>6. ParseInv(p[Len(lines)], t, a, a + Len(lines), asked) /\ p[Len(lines)] \in Parsing
  BY <1>1, <1>2, <1>5
<1> QED
  BY <1>1, <1>6

LEMMA EntriesFacts ==
    ASSUME NEW lines \in Seq(Seq(Bytes)), NEW t, NEW a \in Nat, TextsOf(t, a, lines)
    PROVE  Entries(lines) \in Seq(Int) /\ EntryInv(Entries(lines), t, a, a + Len(lines))
<1>1. PICK p \in [0..Len(lines) -> Seq(Int)] :
         EntryRounds(p, lines) /\ Entries(lines) = p[Len(lines)]
  BY EntriesIs
<1>2. Len(lines) \in Nat /\ Len(lines) \in 0..Len(lines)
  BY LenProperties
<1>3. \A k \in 1..Len(lines) : Chomped(lines[k]) \in Seq(Bytes) /\ Chomped(lines[k]) = t[a + k]
  BY ElementOfSeq, ChompedType, <1>2 DEF TextsOf
<1>4. EntryInv(<<>>, t, a, a)
  <2>1. (a + 1)..a = {}
    OBVIOUS
  <2> DEFINE f == [i \in LongIn(t, a, a) |-> LossyU64(NumberBytes(t[i]))]
  <2>2. DOMAIN f = {}
    BY <2>1 DEF LongIn
  <2> HIDE DEF f
  <2>3. Lists(<<>>, f)
    BY <2>2, ListsNone
  <2> QED
    BY <2>3 DEF EntryInv, f
<1> DEFINE T == {k \in 0..Len(lines) : ~EntryInv(p[k], t, a, a + k)}
<1>5. T = {}
  <2> SUFFICES ASSUME T # {} PROVE FALSE
    OBVIOUS
  <2>1. PICK k \in T : \A y \in T : k <= y
    <3>1. T \in SUBSET Nat
      BY <1>2
    <3> QED
      BY <3>1, LeastExists
  <2>2. k # 0
    <3>1. a + 0 = a /\ p[0] = <<>>
      BY <1>1 DEF EntryRounds
    <3> QED
      BY <1>4, <2>1, <3>1
  <2>3. k \in 1..Len(lines) /\ k - 1 \in 0..Len(lines) /\ ~(k <= k - 1)
    BY <1>2, <2>1, <2>2
  <2> DEFINE m == a + (k - 1)
  <2>4. m \in Nat /\ a <= m /\ m + 1 = a + k
    BY <1>2, <2>3
  <2>5. EntryInv(p[k - 1], t, a, m) /\ p[k - 1] \in Seq(Int)
    BY <1>1, <2>1, <2>3
  <2> HIDE DEF m
  <2>6. p[k] = AddEntry(p[k - 1], t[m + 1]) /\ t[m + 1] \in Seq(Bytes)
    BY <1>1, <1>3, <2>3, <2>4 DEF EntryRounds
  <2>7. EntryInv(p[k], t, a, m + 1)
    BY <2>4, <2>5, <2>6, EntryStep
  <2> QED
    BY <2>1, <2>4, <2>7
<1>6. EntryInv(p[Len(lines)], t, a, a + Len(lines)) /\ p[Len(lines)] \in Seq(Int)
  BY <1>1, <1>2, <1>5
<1> QED
  BY <1>1, <1>6

-----------------------------------------------------------------------------
(* From the server's lines to the caller                                    *)

\* What the caller has after a complete block is what the parser made of it.
OInv ==
    /\ IInv
    /\ range \in Ranges
    /\ outcome = "complete" /\ reader \in {"body", "bounded"} =>
         rows = Parsed(got, range).rows /\ defective = Parsed(got, range).defective

LEMMA OverviewInitInv ==
    ASSUME OverviewInit
    PROVE  OInv
  BY InitInv DEF OverviewInit, OInv, Init

LEMMA OverviewStepInv ==
    ASSUME OInv, [OverviewNext]_<<vars, overviewVars>>
    PROVE  OInv'
<1>1. IInv /\ range \in Ranges
  BY DEF OInv
<1>2. CASE Parse
  <2>1. IInv' /\ UNCHANGED <<reader, got>> /\ range' = range
    BY <1>1, <1>2, StepTerminated DEF Parse, Terminated, Reading
  <2>2. reader \in {"body", "bounded"} =>
          rows' = Parsed(got, range).rows /\ defective' = Parsed(got, range).defective
    BY <1>2 DEF Parse
  <2> QED
    BY <1>1, <2>1, <2>2 DEF OInv
<1>3. CASE NextRequest
  BY <1>1, <1>3, StepNextBlock DEF NextRequest, NextBlock, OInv
<1>4. CASE (Write \/ Break) /\ UNCHANGED overviewVars
  <2>1. UNCHANGED <<reader, got, outcome, range, rows, defective>>
    BY <1>4 DEF Write, Break, readVars, overviewVars
  <2> QED
    BY <1>1, <1>4, <2>1, WriterSteps DEF OInv
<1>5. CASE (ReadTooLarge \/ ReadFails) /\ UNCHANGED overviewVars
  <2>1. outcome' \in {"large", "failed"} /\ range' = range
    BY <1>5 DEF ReadTooLarge, ReadFails, overviewVars
  <2> QED
    BY <1>1, <1>5, <2>1, StepGivesUp DEF OInv
<1>6. CASE KeepLine /\ UNCHANGED overviewVars
  <2>1. outcome' \in {"cut", "reading"} /\ range' = range
    BY <1>6 DEF KeepLine, overviewVars
  <2> QED
    BY <1>1, <1>6, <2>1, StepKeepLine DEF OInv
<1>7. CASE UNCHANGED <<vars, overviewVars>>
  <2>1. [Next]_vars /\ UNCHANGED <<reader, got, outcome, range, rows, defective>>
    BY <1>7 DEF vars, readVars, overviewVars
  <2> QED
    BY <1>1, <2>1, StepInv DEF OInv
<1> QED
  BY <1>2, <1>3, <1>4, <1>5, <1>6, <1>7 DEF OverviewNext

\* A complete body: its lines are the texts of its places, t the text of every place.
CompleteBlock(t) ==
    /\ \A i \in 1..Len(script) : t[i] = TextAt(i) /\ t[i] \in Seq(Bytes)
    /\ got \in Seq(Seq(Bytes)) /\ start \in Nat /\ range \in [first : Nat, last : Nat]
    /\ TextsOf(t, start, got)
    /\ start + Len(got) = taken - 1
    /\ Sent = Filled(t, start, taken - 1) /\ Sent \subseteq 1..Len(script)

LEMMA CompleteBlockIs ==
    ASSUME OInv, outcome = "complete", reader \in {"body", "bounded"}
    PROVE  \E t : CompleteBlock(t)
<1>1. TypeOK /\ WholeArticle /\ range \in [first : Nat, last : Nat]
  <2>1. IInv /\ range \in Ranges
    BY DEF OInv
  <2>2. TypeOK
    BY <2>1 DEF IInv
  <2>3. taken <= sent
    BY <2>1, <2>2, Numbers DEF IInv
  <2> QED
    BY <2>1, <2>3, RangesAssumption DEF IInv
<1>2. /\ Len(script) \in Nat /\ sent \in 0..Len(script) /\ taken \in 1..sent /\ start \in Nat
      /\ Len(got) \in Nat /\ Len(got) = taken - start - 1
  BY <1>1, Numbers DEF TypeOK, WholeArticle
<1>3. got \in Seq(Seq(Bytes))
  BY <1>1 DEF TypeOK
<1> DEFINE t == [i \in 1..Len(script) |-> Trimmed(script[i])]
<1>4. \A i \in 1..Len(script) : t[i] = TextAt(i) /\ t[i] \in Text
  BY <1>1, ItemFacts, TrimmedIsText DEF TextAt
<1>5. \A i \in 1..Len(script) : t[i] \in Seq(Bytes)
  BY <1>4, SeqMonotonic DEF Text
<1> HIDE DEF t
<1>6. TextsOf(t, start, got)
  <2>1. ASSUME NEW k \in 1..Len(got) PROVE Chomped(got[k]) = t[start + k]
    <3>1. start + k \in 1..Len(script)
      BY <1>2
    <3>2. t[start + k] \in Text /\ t[start + k] = Trimmed(script[start + k])
      BY <1>4, <3>1 DEF TextAt
    <3>3. got[k] = LineOf(script[start + k])
      BY <1>1 DEF WholeArticle
    <3>4. got[k] = t[start + k] \o <<CR, LF>>
      BY <3>2, <3>3 DEF LineOf
    <3> QED
      BY <3>2, <3>4, LineEnd
  <2> QED
    BY <2>1 DEF TextsOf
<1>7. start + Len(got) = taken - 1
  BY <1>2
<1>8. \A i \in (start + 1)..(taken - 1) : i \in 1..Len(script) /\ t[i] = Trimmed(script[i])
  BY <1>2, <1>4 DEF TextAt
<1>9. Sent = Filled(t, start, taken - 1) /\ Sent \subseteq 1..Len(script)
  BY <1>8 DEF Sent, Filled
<1>10. CompleteBlock(t)
  BY <1>1, <1>2, <1>3, <1>4, <1>5, <1>6, <1>7, <1>9 DEF CompleteBlock
<1> QED
  BY <1>10

\* What is sound and first by the texts is so by the script.
LEMMA SoundAndFirst ==
    ASSUME NEW t, CompleteBlock(t), NEW i \in Sent
    PROVE  /\ TextAt(i) = t[i] /\ NumberAt(i) = Num(t, i)
           /\ Sound(i) <=> SoundIn(t, i, range)
           /\ First(i) <=> FirstIn(t, start, i, range)
<1>1. \A j \in Sent : TextAt(j) = t[j] /\ NumberAt(j) = Num(t, j)
  BY DEF CompleteBlock, NumberAt, Num
<1>2. \A j \in Sent : Sound(j) <=> SoundIn(t, j, range)
  BY <1>1 DEF Sound, SoundIn
<1>3. /\ start \in Nat /\ i \in (start + 1)..(taken - 1) /\ Sent = Filled(t, start, taken - 1)
      /\ taken - 1 \in Int
  <2>1. start \in Nat /\ Sent = Filled(t, start, taken - 1) /\ start + Len(got) = taken - 1
        /\ Len(got) \in Nat
    BY LenProperties DEF CompleteBlock
  <2> QED
    BY <2>1 DEF Filled
<1>4. \A j : j \in Sent /\ j < i <=> j \in Filled(t, start, i - 1)
  <2>1. i \in Int /\ i <= taken - 1
    BY <1>3
  <2>2. \A j \in Int : j \in (start + 1)..(taken - 1) /\ j < i <=> j \in (start + 1)..(i - 1)
    BY <1>3, <2>1
  <2>3. \A j : j \in (start + 1)..(taken - 1) \/ j \in (start + 1)..(i - 1) => j \in Int
    BY <1>3, <2>1
  <2> QED
    BY <1>3, <2>2, <2>3 DEF Filled
<1>5. First(i) <=> FirstIn(t, start, i, range)
  <2>1. First(i) <=>
          Sound(i) /\ \A j \in Sent : j < i /\ Sound(j) => NumberAt(j) # NumberAt(i)
    BY DEF First
  <2>2. FirstIn(t, start, i, range) <=>
          /\ SoundIn(t, i, range)
          /\ \A j \in Filled(t, start, i - 1) : SoundIn(t, j, range) => Num(t, j) # Num(t, i)
    BY DEF FirstIn
  <2> QED
    BY <1>1, <1>2, <1>4, <2>1, <2>2
<1> QED
  BY <1>1, <1>2, <1>5

LEMMA ExactIs ==
    ASSUME OInv
    PROVE  RowsExact
<1> SUFFICES ASSUME outcome = "complete", reader \in {"body", "bounded"} PROVE RowsExact
  BY DEF RowsExact
<1>1. PICK t : CompleteBlock(t)
  BY CompleteBlockIs
<1> DEFINE m == taken - 1
           r == Parsed(got, range)
<1>2. ParseInv(r, t, start, m, range)
  <2>1. /\ got \in Seq(Seq(Bytes)) /\ start \in Nat /\ range \in [first : Nat, last : Nat]
        /\ TextsOf(t, start, got) /\ start + Len(got) = m
    BY <1>1 DEF CompleteBlock
  <2> HIDE DEF m
  <2>2. ParseInv(Parsed(got, range), t, start, start + Len(got), range)
    BY <2>1, ParsedFacts
  <2> QED
    BY <2>1, <2>2
<1>3. rows = r.rows /\ defective = r.defective
  BY DEF OInv
<1> HIDE DEF r
<1>4. /\ Lists(rows, [i \in GoodIn(t, start, m, range) |-> RowAt(t, i)])
      /\ Lists(LinesOf(defective), [i \in BadIn(t, start, m, range) |-> t[i]])
  BY <1>2, <1>3 DEF ParseInv
<1>5. \A i \in Sent : /\ TextAt(i) = t[i] /\ NumberAt(i) = Num(t, i)
                      /\ First(i) <=> FirstIn(t, start, i, range)
  BY <1>1, SoundAndFirst
<1>6. Sent = Filled(t, start, m)
  BY <1>1 DEF CompleteBlock
<1> HIDE DEF m
<1>7. /\ {i \in Sent : First(i)} = GoodIn(t, start, m, range)
      /\ {i \in Sent : ~First(i)} = BadIn(t, start, m, range)
  BY <1>5, <1>6 DEF GoodIn, BadIn
<1>8. [i \in {i \in Sent : First(i)} |-> [number |-> NumberAt(i), line |-> TextAt(i)]]
        = [i \in GoodIn(t, start, m, range) |-> RowAt(t, i)]
  <2>1. \A i \in {i \in Sent : First(i)} :
          [number |-> NumberAt(i), line |-> TextAt(i)] = RowAt(t, i)
    BY <1>5 DEF RowAt
  <2> QED
    BY <1>7, <2>1
<1>9. [i \in {i \in Sent : ~First(i)} |-> TextAt(i)] = [i \in BadIn(t, start, m, range) |-> t[i]]
  <2>1. \A i \in {i \in Sent : ~First(i)} : TextAt(i) = t[i]
    BY <1>5
  <2> QED
    BY <1>7, <2>1
<1>10. /\ Lists(rows, [i \in {i \in Sent : First(i)} |->
                         [number |-> NumberAt(i), line |-> TextAt(i)]])
       /\ Lists([i \in DOMAIN defective |-> defective[i].line],
                [i \in {i \in Sent : ~First(i)} |-> TextAt(i)])
  BY <1>4, <1>8, <1>9 DEF LinesOf
<1> QED
  BY <1>10 DEF RowsExact

LEMMA AgreeIs ==
    ASSUME OInv
    PROVE  RowsAreEntries
<1> SUFFICES ASSUME outcome = "complete", reader \in {"body", "bounded"} PROVE RowsAreEntries
  BY DEF RowsAreEntries
<1>1. PICK t : CompleteBlock(t)
  BY CompleteBlockIs
<1> DEFINE m == taken - 1
           e == Entries(got)
           f == [i \in GoodIn(t, start, m, range) |-> RowAt(t, i)]
           h == [i \in LongIn(t, start, m) |-> LossyU64(NumberBytes(t[i]))]
<1>2. /\ got \in Seq(Seq(Bytes)) /\ start \in Nat /\ range \in [first : Nat, last : Nat]
      /\ TextsOf(t, start, got) /\ start + Len(got) = m
      /\ Filled(t, start, m) \subseteq 1..Len(script)
      /\ \A i \in 1..Len(script) : t[i] \in Seq(Bytes)
  BY <1>1 DEF CompleteBlock
<1>3. e \in Seq(Int) /\ Lists(e, h)
  <2> HIDE DEF m
  <2>1. e \in Seq(Int) /\ EntryInv(e, t, start, start + Len(got))
    BY <1>2, EntriesFacts
  <2> HIDE DEF e
  <2> QED
    BY <1>2, <2>1 DEF EntryInv
<1>4. Lists(rows, f)
  <2> HIDE DEF m
  <2>1. ParseInv(Parsed(got, range), t, start, start + Len(got), range)
    BY <1>2, ParsedFacts
  <2>2. rows = Parsed(got, range).rows
    BY DEF OInv
  <2> QED
    BY <1>2, <2>1, <2>2 DEF ParseInv
<1> HIDE DEF m, e
<1>5. ASSUME NEW i \in GoodIn(t, start, m, range)
      PROVE  /\ i \in LongIn(t, start, m) /\ f[i].number = Num(t, i)
             /\ h[i] = Num(t, i)
  <2>1. i \in Filled(t, start, m) /\ SoundIn(t, i, range)
    BY DEF GoodIn, FirstIn
  <2>2. FieldCount(t[i]) = Fields /\ Num(t, i) \in range.first..range.last
    BY <2>1 DEF SoundIn
  <2>3. FieldCount(t[i]) >= MinFields
    BY <2>2, FieldsAssumption
  <2>4. i \in LongIn(t, start, m)
    BY <2>1, <2>3 DEF LongIn, Filled
  <2>5. t[i] \in Seq(Bytes)
    BY <1>2, <2>1
  <2>6. NumberBytes(t[i]) \in Seq(Bytes)
    BY <2>5, NumberBytesType
  <2>7. Num(t, i) # -1
    BY <1>2, <2>2
  <2>8. LossyU64(NumberBytes(t[i])) = Num(t, i)
    BY <2>6, <2>7, SameNumber DEF Num
  <2>9. f[i].number = Num(t, i)
    BY DEF RowAt
  <2> QED
    BY <2>4, <2>8, <2>9
<1>6. DOMAIN f \subseteq DOMAIN h /\ DOMAIN h \subseteq Int
  <2>1. LongIn(t, start, m) \subseteq Int
    BY <1>2, LenProperties DEF LongIn
  <2> QED
    BY <1>5, <2>1
<1>7. \A d \in DOMAIN f : f[d].number = h[d]
  BY <1>5
<1> HIDE DEF f, h
<1>8. PICK g \in [DOMAIN rows -> DOMAIN e] :
         /\ \A i, j \in DOMAIN rows : i < j => g[i] < g[j]
         /\ \A i \in DOMAIN rows : \E d \in DOMAIN f : rows[i] = f[d] /\ e[g[i]] = h[d]
  <2>1. Inside(rows, e, f, h)
    BY <1>3, <1>4, <1>6, ListsInside
  <2> QED
    BY <2>1 DEF Inside
<1>9. \A i \in DOMAIN rows : e[g[i]] = rows[i].number
  BY <1>7, <1>8
<1> QED
  BY <1>8, <1>9 DEF RowsAreEntries, e

(* xover_lossless() and xover_lossless_bounded() report every line of the   *)
(* server exactly once, as a row or as a defective row, byte for byte and   *)
(* in order, for any lines, ranges and formats.                             *)
THEOREM RowsExactCorrect == OverviewSpec => []RowsExact
  BY OverviewInitInv, OverviewStepInv, ExactIs, PTL DEF OverviewSpec

(* Every row of xover_lossless() is an entry of xover(), in the same order. *)
THEOREM RowsAreEntriesCorrect == OverviewSpec => []RowsAreEntries
  BY OverviewInitInv, OverviewStepInv, AgreeIs, PTL DEF OverviewSpec
=============================================================================
