------------------------ MODULE RemoteDelivery_proofs ------------------------
(***************************************************************************)
(* Proofs about RemoteDelivery for any number of settings, identities,     *)
(* events, frames on their way, broken connections and changes by the user:*)
(* nothing is written off that is still there, and unless a source is      *)
(* removed, memory and database agree on where its stream is and the       *)
(* consumer never refuses what an intact bridge sends.                     *)
(*                                                                         *)
(* The argument.  The store and the bridge keep the inductive invariants   *)
(* of their own proofs, whose lemmas on single steps are used as they      *)
(* stand.  What joins them is where the desktop has its identities from:   *)
(* the one it has pinned, and the one it offers, were announced by the     *)
(* spool (Traced), so that neither can be the spool's again once it has    *)
(* another; and a running stream, the setting and the offer belong to one  *)
(* identity (Steady).                                                      *)
(*                                                                         *)
(* FrameStream, the bytes that carry the frames, is beside it.  One byte   *)
(* keeps the decoder at what the bytes say (Decodes): a LF adds a line to  *)
(* them and any other byte makes the unfinished one longer; so does a      *)
(* piece, by the least number of its bytes that would not.                 *)
(* SshJudgement, what a source makes of the host, as well: where its       *)
(* thread is tells what it met on the way there and what it was told       *)
(* (ThreadKnows), where the test is tells what it tested (TestKnows).      *)
(***************************************************************************)
EXTENDS RemoteDelivery, FrameStream, SshJudgement, DesktopStore_proofs,
        FiniteSetTheorems, SequenceTheorems, WellFoundedInduction

-------------------------------------------------------------------------------
(* FrameStream: from bytes to frames *)

Decoders == [buffer : Seq(Byte), accepted : Seq(Seq(Byte)), refused : BOOLEAN]

\* The decoder knows of the bytes what they say, and holds those behind the last line.
Decodes(bs, d) ==
  /\ bs \in Seq(Byte) /\ d \in Decoders
  /\ IsDecoded(bs, d)
  /\ ~d.refused => d.buffer = Unfinished(bs)

FramesInd ==
  /\ Decodes(bytes, decoder)
  /\ ended \in {"no", "at a boundary", "unterminated"}
  /\ ended # "no" => ~decoder.refused /\ (ended = "at a boundary" <=> decoder.buffer = << >>)

-------------------------------------------------------------------------------
(* Ends and lines *)

LEMMA LastEnd ==
  ASSUME NEW bs \in Seq(Byte)
  PROVE  /\ Max(LineEnds(bs)) \in LineEnds(bs)
         /\ \A k \in LineEnds(bs) : k <= Max(LineEnds(bs))
         /\ LineEnds(bs) \subseteq 0..Len(bs)
<1> DEFINE above == {Len(bs) - k : k \in LineEnds(bs)}
<1>1. Len(bs) \in Nat /\ LineEnds(bs) \subseteq 0..Len(bs) /\ 0 \in LineEnds(bs)
  BY DEF LineEnds
<1>2. above \in SUBSET Nat /\ above # {}
  BY <1>1
<1>3. PICK n \in above : \A m \in above : <<m, n>> \notin OpToRel(<, Nat)
  BY <1>2, NatLessThanWellFounded, WFMin
<1>4. PICK e \in LineEnds(bs) : n = Len(bs) - e
  BY <1>3
<1>5. ASSUME NEW k \in LineEnds(bs) PROVE k <= e
  <2>1. Len(bs) - k \in above /\ Len(bs) - k \in Nat /\ n \in Nat
    BY <1>1, <1>2, <1>3
  <2>2. ~(Len(bs) - k < n)
    BY <1>3, <2>1 DEF OpToRel
  <2> QED
    BY <1>1, <1>4, <2>2
<1>6. Max(LineEnds(bs)) \in LineEnds(bs) /\ \A k \in LineEnds(bs) : k <= Max(LineEnds(bs))
  BY <1>4, <1>5 DEF Max
<1> QED
  BY <1>1, <1>6

LEMMA LastEndIs ==
  ASSUME NEW bs \in Seq(Byte), NEW e \in LineEnds(bs), \A k \in LineEnds(bs) : k <= e
  PROVE  Max(LineEnds(bs)) = e
<1>1. Max(LineEnds(bs)) <= e /\ e <= Max(LineEnds(bs))
  BY LastEnd
<1>2. Max(LineEnds(bs)) \in Int /\ e \in Int
  BY LastEnd
<1> QED
  BY <1>1, <1>2

\* What is cut out of a stream is there in a longer one too.
LEMMA CutStays ==
  ASSUME NEW bs \in Seq(Byte), NEW b \in Byte, NEW i \in Int, NEW j \in Int,
         0 < i, j <= Len(bs)
  PROVE  /\ SubSeq(bs, i, j) \in Seq(Byte)
         /\ SubSeq(Append(bs, b), i, j) = SubSeq(bs, i, j)
<1>1. Append(bs, b) \in Seq(Byte) /\ Len(Append(bs, b)) = Len(bs) + 1
      /\ \A k \in 1..Len(bs) : Append(bs, b)[k] = bs[k]
  BY AppendProperties
<1>2. \A k \in i..j : bs[k] \in Byte /\ Append(bs, b)[k] = bs[k]
  BY <1>1
<1>3. /\ SubSeq(bs, i, j) \in Seq(Byte)
      /\ Len(SubSeq(bs, i, j)) = IF i <= j THEN j - i + 1 ELSE 0
      /\ \A k \in 1..(j - i + 1) : SubSeq(bs, i, j)[k] = bs[i + k - 1]
  BY <1>2, SubSeqProperties
<1>4. /\ SubSeq(Append(bs, b), i, j) \in Seq(Byte)
      /\ Len(SubSeq(Append(bs, b), i, j)) = IF i <= j THEN j - i + 1 ELSE 0
      /\ \A k \in 1..(j - i + 1) : SubSeq(Append(bs, b), i, j)[k] = Append(bs, b)[i + k - 1]
  BY <1>2, SubSeqProperties
<1>5. \A k \in 1..Len(SubSeq(bs, i, j)) : SubSeq(Append(bs, b), i, j)[k] = SubSeq(bs, i, j)[k]
  <2> SUFFICES ASSUME NEW k \in 1..Len(SubSeq(bs, i, j))
               PROVE  SubSeq(Append(bs, b), i, j)[k] = SubSeq(bs, i, j)[k]
    OBVIOUS
  <2>1. k \in 1..(j - i + 1) /\ i + k - 1 \in i..j
    BY <1>3
  <2> QED
    BY <1>2, <1>3, <1>4, <2>1
<1>6. Len(SubSeq(Append(bs, b), i, j)) = Len(SubSeq(bs, i, j))
  BY <1>3, <1>4
<1>7. SubSeq(Append(bs, b), i, j) = SubSeq(bs, i, j)
  BY <1>3, <1>4, <1>5, <1>6, SeqEqual
<1> QED
  BY <1>3, <1>7

LEMMA LinesAreInside ==
  ASSUME NEW bs \in Seq(Byte), NEW l \in Lines(bs)
  PROVE  l[1] \in 0..Len(bs) /\ l[2] \in 1..Len(bs) /\ l[1] < l[2] /\ l = <<l[1], l[2]>>
<1>1. l \in LineEnds(bs) \X LineEnds(bs) /\ l[1] < l[2]
  BY DEF Lines
<1>2. l[1] \in 0..Len(bs) /\ l[2] \in 0..Len(bs)
  BY <1>1, LastEnd
<1> QED
  BY <1>1, <1>2

LEMMA LinesAreFinite ==
  ASSUME NEW bs \in Seq(Byte)
  PROVE  IsFiniteSet(Lines(bs)) /\ IsFiniteSet(GoodLines(bs))
<1>1. IsFiniteSet(0..Len(bs))
  BY 0 \in Int, Len(bs) \in Int, FS_Interval
<1>2. IsFiniteSet((0..Len(bs)) \X (0..Len(bs)))
  BY <1>1, FS_Product
<1>3. Lines(bs) \in SUBSET ((0..Len(bs)) \X (0..Len(bs)))
  BY LastEnd DEF Lines
<1>4. GoodLines(bs) \in SUBSET Lines(bs)
  BY DEF GoodLines
<1> QED
  BY <1>2, <1>3, <1>4, FS_Subset

LEMMA UnfinishedIsBytes ==
  ASSUME NEW bs \in Seq(Byte)
  PROVE  Unfinished(bs) \in Seq(Byte)
<1>1. Max(LineEnds(bs)) \in 0..Len(bs)
  BY LastEnd
<1>2. \A k \in (Max(LineEnds(bs)) + 1)..Len(bs) : bs[k] \in Byte
  BY <1>1
<1> QED
  BY <1>1, <1>2, SubSeqProperties DEF Unfinished

-------------------------------------------------------------------------------
(* One more byte: it ends no line *)

LEMMA OtherByte ==
  ASSUME NEW bs \in Seq(Byte), NEW b \in Byte, b # LF
  PROVE  LET more == Append(bs, b)
         IN  /\ Lines(more) = Lines(bs)
             /\ GoodLines(more) = GoodLines(bs)
             /\ \A l \in Lines(bs) : /\ Content(more, l) = Content(bs, l)
                                     /\ Place(more, l) = Place(bs, l)
             /\ Unfinished(more) = Append(Unfinished(bs), b)
<1> DEFINE more == Append(bs, b)
<1>1. more \in Seq(Byte) /\ Len(more) = Len(bs) + 1 /\ Len(bs) \in Nat
      /\ (\A k \in 1..Len(bs) : more[k] = bs[k]) /\ more[Len(bs) + 1] = b
  BY AppendProperties
<1> HIDE DEF more
<1>2. LineEnds(more) = LineEnds(bs)
  BY <1>1 DEF LineEnds
<1>3. Lines(more) = Lines(bs)
  BY <1>2 DEF Lines
<1>4. ASSUME NEW l \in Lines(bs) PROVE Content(more, l) = Content(bs, l)
  <2>1. l[1] + 1 \in Int /\ l[2] - 1 \in Int /\ 0 < l[1] + 1 /\ l[2] - 1 <= Len(bs)
    BY <1>1, LinesAreInside
  <2> QED
    BY <2>1, CutStays DEF Content, more
<1>5. GoodLines(more) = GoodLines(bs)
  BY <1>3, <1>4 DEF GoodLines
<1>6. \A l \in Lines(bs) : Place(more, l) = Place(bs, l)
  BY <1>5 DEF Place
<1>7. Unfinished(more) = Append(Unfinished(bs), b)
  <2> DEFINE m == Max(LineEnds(bs))
  <2>1. m \in 0..Len(bs) /\ Max(LineEnds(more)) = m
    BY <1>2, LastEnd
  <2> HIDE DEF m
  <2>2. m + 1 \in 1..Len(more) /\ Len(more) \in (m + 1)..Len(more)
    BY <1>1, <2>1
  <2>3. SubSeq(more, m + 1, Len(more)) = SubSeq(more, m + 1, Len(more) - 1) \o <<more[Len(more)]>>
    BY <1>1, <2>2, SubSeqRecursiveSecond
  <2>4. Len(more) - 1 = Len(bs) /\ more[Len(more)] = b
    BY <1>1
  <2>5. SubSeq(more, m + 1, Len(bs)) = SubSeq(bs, m + 1, Len(bs))
        /\ SubSeq(bs, m + 1, Len(bs)) \in Seq(Byte)
    <3>1. m + 1 \in Int /\ Len(bs) \in Int /\ 0 < m + 1 /\ Len(bs) <= Len(bs)
      BY <1>1, <2>1
    <3> QED
      BY <3>1, CutStays DEF more
  <2>6. SubSeq(bs, m + 1, Len(bs)) \o <<b>> = Append(SubSeq(bs, m + 1, Len(bs)), b)
    BY <2>5, AppendIsConcat
  <2> QED
    BY <2>1, <2>3, <2>4, <2>5, <2>6 DEF Unfinished, m
<1> QED
  BY <1>3, <1>4, <1>5, <1>6, <1>7 DEF more

-------------------------------------------------------------------------------
(* One more byte: it ends the line that was unfinished *)

NewLine(bs) == <<Max(LineEnds(bs)), Len(bs) + 1>>

LEMMA LineFeed ==
  ASSUME NEW bs \in Seq(Byte)
  PROVE  LET more == Append(bs, LF)
         IN  /\ Lines(more) = Lines(bs) \union {NewLine(bs)} /\ NewLine(bs) \notin Lines(bs)
             /\ \A l \in Lines(bs) : Content(more, l) = Content(bs, l)
             /\ Content(more, NewLine(bs)) = Unfinished(bs)
             /\ Unfinished(more) = << >>
<1> DEFINE more == Append(bs, LF)
           m == Max(LineEnds(bs))
           n == Len(bs) + 1
<1>1. LF \in Byte
  BY DEF Byte
<1>2. more \in Seq(Byte) /\ Len(more) = n /\ Len(bs) \in Nat
      /\ (\A k \in 1..Len(bs) : more[k] = bs[k]) /\ more[n] = LF
  BY <1>1, AppendProperties
<1> HIDE DEF more
<1>3. m \in LineEnds(bs) /\ (\A k \in LineEnds(bs) : k <= m) /\ LineEnds(bs) \subseteq 0..Len(bs)
  BY LastEnd
<1> HIDE DEF m
<1>4. LineEnds(more) = LineEnds(bs) \union {n}
  BY <1>2 DEF LineEnds
<1>5. Lines(more) = Lines(bs) \union {<<m, n>>}
  <2>1. ASSUME NEW l \in Lines(bs) PROVE l \in Lines(more)
    <3>1. l \in LineEnds(bs) \X LineEnds(bs) /\ l[1] < l[2] /\ l[2] <= Len(bs)
          /\ ~\E k \in LineEnds(bs) : l[1] < k /\ k < l[2]
      BY LinesAreInside DEF Lines
    <3>2. ~(n < l[2])
      BY <1>2, <1>3, <3>1
    <3> QED
      BY <1>4, <3>1, <3>2 DEF Lines
  <2>2. <<m, n>> \in Lines(more)
    <3>1. <<m, n>> \in LineEnds(more) \X LineEnds(more) /\ m < n
      BY <1>2, <1>3, <1>4
    <3>2. ~\E k \in LineEnds(more) : m < k /\ k < n
      BY <1>2, <1>3, <1>4
    <3> QED
      BY <3>1, <3>2 DEF Lines
  <2>3. ASSUME NEW l \in Lines(more) PROVE l \in Lines(bs) \union {<<m, n>>}
    <3>1. l \in LineEnds(more) \X LineEnds(more) /\ l[1] < l[2]
          /\ ~\E k \in LineEnds(more) : l[1] < k /\ k < l[2]
      BY DEF Lines
    <3>2. PICK i \in LineEnds(more), j \in LineEnds(more) : l = <<i, j>>
      BY <3>1
    <3>3. i < j /\ ~\E k \in LineEnds(more) : i < k /\ k < j
      BY <3>1, <3>2
    <3>4. i \in LineEnds(bs)
      BY <1>2, <1>3, <1>4, <3>3
    <3>5. CASE j = n
      <4>1. ~(i < m)
        BY <1>2, <1>3, <1>4, <3>3, <3>5
      <4>2. i = m
        BY <1>3, <3>4, <4>1
      <4> QED
        BY <3>2, <3>5, <4>2
    <3>6. CASE j \in LineEnds(bs)
      BY <1>4, <3>2, <3>3, <3>4, <3>6 DEF Lines
    <3> QED
      BY <1>4, <3>5, <3>6
  <2> QED
    BY <2>1, <2>2, <2>3
<1>6. <<m, n>> \notin Lines(bs)
  <2>1. n \notin 1..Len(bs)
    BY <1>2
  <2> QED
    BY <2>1, LinesAreInside
<1>7. ASSUME NEW l \in Lines(bs) PROVE Content(more, l) = Content(bs, l)
  <2>1. l[1] + 1 \in Int /\ l[2] - 1 \in Int /\ 0 < l[1] + 1 /\ l[2] - 1 <= Len(bs)
    BY <1>2, LinesAreInside
  <2> QED
    BY <1>1, <2>1, CutStays DEF Content, more
<1>8. Content(more, <<m, n>>) = Unfinished(bs)
  <2>1. m + 1 \in Int /\ Len(bs) \in Int /\ 0 < m + 1 /\ Len(bs) <= Len(bs) /\ n - 1 = Len(bs)
    BY <1>2, <1>3
  <2>2. SubSeq(more, m + 1, Len(bs)) = SubSeq(bs, m + 1, Len(bs))
    BY <1>1, <2>1, CutStays DEF more
  <2> QED
    BY <2>1, <2>2 DEF Content, Unfinished, m
<1>9. Unfinished(more) = << >>
  <2>1. Max(LineEnds(more)) = n
    <3>1. n \in LineEnds(more) /\ \A k \in LineEnds(more) : k <= n
      BY <1>2, <1>3, <1>4
    <3> QED
      BY <1>2, <3>1, LastEndIs
  <2>2. n + 1 \in Int /\ n \in Int /\ n < n + 1
    BY <1>2
  <2> HIDE DEF n
  <2> QED
    BY <1>2, <2>1, <2>2, SubSeqEmpty DEF Unfinished
<1> QED
  BY <1>5, <1>6, <1>7, <1>8, <1>9 DEF NewLine, more, m


\* The new line is good if there was no bad one before and it is none.
LEMMA GoodGrow ==
  ASSUME NEW bs \in Seq(Byte)
  PROVE  LET more == Append(bs, LF)
         IN  /\ GoodLines(bs) = Lines(bs) /\ ~Bad(Unfinished(bs)) =>
                  GoodLines(more) = GoodLines(bs) \union {NewLine(bs)}
             /\ GoodLines(bs) # Lines(bs) \/ Bad(Unfinished(bs)) =>
                  GoodLines(more) = GoodLines(bs)
             /\ \A l \in GoodLines(bs) : l[2] <= Len(bs)
             /\ \A l \in GoodLines(bs) : Place(more, l) = Place(bs, l)
             /\ GoodLines(more) = GoodLines(bs) \union {NewLine(bs)} =>
                  Place(more, NewLine(bs)) = Cardinality(GoodLines(bs)) + 1
<1> DEFINE more == Append(bs, LF)
           new == NewLine(bs)
<1>1. Lines(more) = Lines(bs) \union {new} /\ new \notin Lines(bs)
      /\ (\A l \in Lines(bs) : Content(more, l) = Content(bs, l))
      /\ Content(more, new) = Unfinished(bs)
  BY LineFeed
<1>2. new[2] = Len(bs) + 1 /\ Len(bs) \in Nat
  BY DEF NewLine
<1>3. \A l \in Lines(bs) : l[2] \in 1..Len(bs)
  BY LinesAreInside
<1> HIDE DEF more, new
<1>4. GoodLines(bs) \subseteq Lines(bs) /\ GoodLines(more) \subseteq Lines(more)
  BY DEF GoodLines
<1>5. ASSUME NEW l \in Lines(bs) PROVE l \in GoodLines(more) <=> l \in GoodLines(bs)
  <2>1. ~(new[2] <= l[2])
    BY <1>2, <1>3
  <2> QED
    BY <1>1, <2>1 DEF GoodLines
<1>6. new \in GoodLines(more) <=> ~Bad(Unfinished(bs)) /\ \A k \in Lines(bs) : ~Bad(Content(bs, k))
  <2>1. \A k \in Lines(more) : k[2] <= new[2]
    BY <1>1, <1>2, <1>3
  <2>2. new \in GoodLines(more) <=> \A k \in Lines(more) : ~Bad(Content(more, k))
    BY <1>1, <2>1 DEF GoodLines
  <2> QED
    BY <1>1, <2>2
<1>7. GoodLines(bs) = Lines(bs) <=> \A k \in Lines(bs) : ~Bad(Content(bs, k))
  <2>1. \A k \in Lines(bs) : k[2] <= k[2]
    BY <1>3
  <2> QED
    BY <2>1 DEF GoodLines
<1>8. GoodLines(bs) = Lines(bs) /\ ~Bad(Unfinished(bs)) => GoodLines(more) = GoodLines(bs) \union {new}
  BY <1>1, <1>4, <1>5, <1>6, <1>7
<1>9. GoodLines(bs) # Lines(bs) \/ Bad(Unfinished(bs)) => GoodLines(more) = GoodLines(bs)
  BY <1>1, <1>4, <1>5, <1>6, <1>7
<1>10. ASSUME NEW l \in GoodLines(bs) PROVE Place(more, l) = Place(bs, l)
  <2>1. ~(new[2] <= l[2])
    BY <1>2, <1>3, <1>4
  <2>2. {k \in GoodLines(more) : k[2] <= l[2]} = {k \in GoodLines(bs) : k[2] <= l[2]}
    BY <1>1, <1>4, <1>5, <2>1
  <2> QED
    BY <2>2 DEF Place
<1>11. ASSUME GoodLines(more) = GoodLines(bs) \union {new}
       PROVE  Place(more, new) = Cardinality(GoodLines(bs)) + 1
  <2>1. {k \in GoodLines(more) : k[2] <= new[2]} = GoodLines(bs) \union {new}
    BY <1>2, <1>3, <1>4, <1>11
  <2>2. Cardinality(GoodLines(bs) \union {new}) = Cardinality(GoodLines(bs)) + 1
    BY <1>1, <1>4, LinesAreFinite, FS_AddElement
  <2> QED
    BY <2>1, <2>2 DEF Place
<1>12. \A l \in GoodLines(bs) : l[2] <= Len(bs)
  BY <1>2, <1>3, <1>4
<1> QED
  BY <1>8, <1>9, <1>10, <1>11, <1>12 DEF more, new

\* A place is one of the places.
LEMMA PlacesAreInside ==
  ASSUME NEW bs \in Seq(Byte), NEW l \in GoodLines(bs)
  PROVE  Place(bs, l) \in 1..Cardinality(GoodLines(bs))
<1> DEFINE upto == {k \in GoodLines(bs) : k[2] <= l[2]}
<1>1. IsFiniteSet(GoodLines(bs)) /\ upto \in SUBSET GoodLines(bs)
  BY LinesAreFinite
<1>2. IsFiniteSet(upto) /\ Cardinality(upto) <= Cardinality(GoodLines(bs))
      /\ Cardinality(upto) \in Nat /\ Cardinality(GoodLines(bs)) \in Nat
  BY <1>1, FS_Subset, FS_CardinalityType
<1>3. l \in upto
  <2>1. l \in Lines(bs)
    BY DEF GoodLines
  <2>2. l[2] \in Int
    BY <2>1, LinesAreInside
  <2> QED
    BY <2>2
<1>4. Cardinality(upto) # 0
  BY <1>2, <1>3, FS_EmptySet
<1> HIDE DEF upto
<1>5. Cardinality(upto) \in 1..Cardinality(GoodLines(bs))
  BY <1>2, <1>4
<1> QED
  BY <1>5 DEF Place, upto

-------------------------------------------------------------------------------
(* One line *)

LEMMA StrippedIs ==
  ASSUME NEW line \in Seq(Byte)
  PROVE  /\ Stripped(line) \in Seq(Byte)
         /\ Len(Stripped(line)) \in Nat /\ Len(line) \in Nat
         /\ \/ Stripped(line) = line /\ (line = << >> \/ line[Len(line)] # CR)
            \/ Len(Stripped(line)) = Len(line) - 1 /\ line # << >> /\ line[Len(line)] = CR
         /\ \A i \in 1..Len(Stripped(line)) : Stripped(line)[i] = line[i]
<1>1. CASE line # << >> /\ line[Len(line)] = CR
  <2>1. Len(line) \in Nat \ {0}
    BY <1>1, EmptySeq
  <2>2. Stripped(line) = SubSeq(line, 1, Len(line) - 1)
    BY <1>1 DEF Stripped
  <2>3. \A i \in 1..(Len(line) - 1) : line[i] \in Byte
    BY <2>1
  <2>4. /\ SubSeq(line, 1, Len(line) - 1) \in Seq(Byte)
        /\ Len(SubSeq(line, 1, Len(line) - 1)) = IF 1 <= Len(line) - 1 THEN Len(line) - 1 - 1 + 1 ELSE 0
        /\ \A i \in 1..(Len(line) - 1 - 1 + 1) : SubSeq(line, 1, Len(line) - 1)[i] = line[1 + i - 1]
    <3>1. 1 \in Int /\ Len(line) - 1 \in Int
      BY <2>1
    <3> QED
      BY <2>3, <3>1, SubSeqProperties
  <2>5. Len(Stripped(line)) = Len(line) - 1
    <3>1. PICK n \in Nat \ {0} : n = Len(line)
      BY <2>1
    <3>2. Len(Stripped(line)) = IF 1 <= n - 1 THEN n - 1 - 1 + 1 ELSE 0
      BY <2>2, <2>4, <3>1
    <3> QED
      BY <3>1, <3>2
  <2>6. \A i \in 1..Len(Stripped(line)) : Stripped(line)[i] = line[i]
    <3> SUFFICES ASSUME NEW i \in 1..Len(Stripped(line)) PROVE Stripped(line)[i] = line[i]
      OBVIOUS
    <3>1. i \in 1..(Len(line) - 1 - 1 + 1) /\ 1 + i - 1 = i
      BY <2>1, <2>5
    <3> QED
      BY <2>2, <2>4, <3>1
  <2> QED
    BY <1>1, <2>1, <2>2, <2>4, <2>5, <2>6
<1>2. CASE ~(line # << >> /\ line[Len(line)] = CR)
  BY <1>2 DEF Stripped
<1> QED
  BY <1>1, <1>2

\* A line parses unless it is bad.
LEMMA ParsesUnlessBad ==
  ASSUME NEW line \in Seq(Byte)
  PROVE  Parses(line) <=> ~Bad(line)
<1> DEFINE frame == Stripped(line)
<1>1. frame \in Seq(Byte) /\ Len(frame) \in Nat /\ \A i \in 1..Len(frame) : frame[i] = line[i]
  BY StrippedIs
<1>2. frame = << >> <=> Len(frame) = 0
  BY <1>1, EmptySeq
<1> HIDE DEF frame
<1>3. CR \notin {frame[i] : i \in 1..Len(frame)} <=> ~\E i \in 1..Len(frame) : line[i] = CR
  BY <1>1
<1>4. Len(frame) \in 1..MaxFrameBytes <=> frame # << >> /\ ~(Len(frame) > MaxFrameBytes)
  BY <1>1, <1>2, FrameAssumption
<1>5. (Parses(line) <=> Len(frame) \in 1..MaxFrameBytes /\ CR \notin {frame[i] : i \in 1..Len(frame)})
      /\ (Bad(line) <=> frame = << >> \/ Len(frame) > MaxFrameBytes
                        \/ \E i \in 1..Len(frame) : line[i] = CR)
  BY DEF Parses, Bad, frame
<1> QED
  BY <1>3, <1>4, <1>5

\* The limit that is put to a line before its end: it is too long without a CR at its end.
LEMMA TooLongIs ==
  ASSUME NEW line \in Seq(Byte), line # << >>
  PROVE  TooLong(line) <=> Len(Stripped(line)) > MaxFrameBytes
<1>1. Len(line) \in Nat /\ Len(Stripped(line)) \in Nat
      /\ \/ Len(Stripped(line)) = Len(line) /\ line[Len(line)] # CR
         \/ Len(Stripped(line)) = Len(line) - 1 /\ line[Len(line)] = CR
  BY StrippedIs
<1> QED
  BY <1>1, FrameAssumption DEF TooLong

\* A line that is too long stays so.
LEMMA TooLongStays ==
  ASSUME NEW line \in Seq(Byte), NEW b \in Byte, Len(Stripped(line)) > MaxFrameBytes
  PROVE  Len(Stripped(Append(line, b))) > MaxFrameBytes
<1>1. Append(line, b) \in Seq(Byte) /\ Len(Append(line, b)) = Len(line) + 1
  BY AppendProperties
<1>2. Len(Stripped(line)) <= Len(line) /\ Len(line) \in Nat /\ Len(Stripped(line)) \in Nat
  BY StrippedIs
<1>3. Len(Stripped(Append(line, b))) >= Len(Append(line, b)) - 1
      /\ Len(Stripped(Append(line, b))) \in Nat
  <2>1. PICK a \in Seq(Byte) : a = Append(line, b)
    BY <1>1
  <2>2. Len(Stripped(a)) \in Nat /\ Len(a) \in Nat
        /\ (Stripped(a) = a \/ Len(Stripped(a)) = Len(a) - 1)
    BY StrippedIs
  <2>3. Len(Stripped(a)) >= Len(a) - 1
    BY <2>2
  <2> QED
    BY <2>1, <2>2, <2>3
<1> QED
  BY <1>1, <1>2, <1>3, FrameAssumption


-------------------------------------------------------------------------------
(* The decoder *)

LEMMA OtherIsDecoded ==
  ASSUME NEW bs, NEW d, Decodes(bs, d), NEW b \in Byte, b # LF
  PROVE  Decodes(Append(bs, b), PushByte(d, b))
<1> DEFINE more == Append(bs, b)
           e == PushByte(d, b)
           u == Unfinished(bs)
<1>1. bs \in Seq(Byte) /\ d \in Decoders /\ IsDecoded(bs, d) /\ (~d.refused => d.buffer = u)
  BY DEF Decodes
<1>2. more \in Seq(Byte) /\ Lines(more) = Lines(bs) /\ GoodLines(more) = GoodLines(bs)
      /\ (\A l \in Lines(bs) : Content(more, l) = Content(bs, l) /\ Place(more, l) = Place(bs, l))
      /\ Unfinished(more) = Append(u, b)
  BY <1>1, OtherByte, AppendProperties
<1>3. u \in Seq(Byte) /\ Append(u, b) \in Seq(Byte) /\ Append(u, b) # << >>
  BY <1>1, UnfinishedIsBytes, AppendProperties
<1> HIDE DEF more, e, u
<1>4. GoodLines(bs) \subseteq Lines(bs)
  BY DEF GoodLines
<1>5. d.buffer \in Seq(Byte) /\ d.accepted \in Seq(Seq(Byte)) /\ d.refused \in BOOLEAN
  BY <1>1 DEF Decoders
<1>6. ASSUME e.accepted = d.accepted,
             e.refused <=> d.refused \/ TooLong(Append(u, b))
      PROVE  IsDecoded(more, e)
  <2>1. Len(e.accepted) = Cardinality(GoodLines(more))
    BY <1>1, <1>2, <1>6 DEF IsDecoded
  <2>2. \A l \in GoodLines(more) : e.accepted[Place(more, l)] = Stripped(Content(more, l))
    BY <1>1, <1>2, <1>4, <1>6 DEF IsDecoded
  <2>3. e.refused <=> GoodLines(more) # Lines(more) \/ Len(Stripped(Unfinished(more))) > MaxFrameBytes
    <3>1. TooLong(Append(u, b)) <=> Len(Stripped(Append(u, b))) > MaxFrameBytes
      BY <1>3, TooLongIs
    <3>2. Len(Stripped(u)) > MaxFrameBytes => Len(Stripped(Append(u, b))) > MaxFrameBytes
      BY <1>3, TooLongStays
    <3>3. d.refused <=> GoodLines(bs) # Lines(bs) \/ Len(Stripped(u)) > MaxFrameBytes
      BY <1>1 DEF IsDecoded, u
    <3> QED
      BY <1>2, <1>6, <3>1, <3>2, <3>3
  <2> QED
    BY <2>1, <2>2, <2>3 DEF IsDecoded
<1>7. CASE d.refused
  <2>1. e = d
    BY <1>7 DEF e, PushByte
  <2>2. IsDecoded(more, e)
    BY <1>6, <1>7, <2>1
  <2> QED
    BY <1>1, <1>2, <1>7, <2>1, <2>2 DEF Decodes, more, e
<1>8. CASE ~d.refused
  <2>1. e = [d EXCEPT !.buffer = Append(u, b), !.refused = TooLong(Append(u, b))]
    BY <1>1, <1>8 DEF e, PushByte
  <2>2. e.buffer = Append(u, b) /\ e.accepted = d.accepted /\ e.refused = TooLong(Append(u, b))
    BY <1>1, <2>1 DEF Decoders
  <2>3. TooLong(Append(u, b)) \in BOOLEAN
    BY DEF TooLong
  <2>4. e \in Decoders
    BY <1>1, <1>3, <2>1, <2>3 DEF Decoders
  <2>5. IsDecoded(more, e)
    BY <1>6, <1>8, <2>2
  <2> QED
    BY <1>2, <2>2, <2>4, <2>5 DEF Decodes, more, e
<1> QED
  BY <1>5, <1>7, <1>8

LEMMA FeedIsDecoded ==
  ASSUME NEW bs, NEW d, Decodes(bs, d)
  PROVE  Decodes(Append(bs, LF), PushByte(d, LF))
<1> DEFINE more == Append(bs, LF)
           e == PushByte(d, LF)
           u == Unfinished(bs)
           new == NewLine(bs)
<1>1. bs \in Seq(Byte) /\ d \in Decoders /\ IsDecoded(bs, d) /\ (~d.refused => d.buffer = u)
  BY DEF Decodes
<1>2. more \in Seq(Byte)
  BY <1>1, AppendProperties DEF Byte
<1>3. Lines(more) = Lines(bs) \union {new} /\ new \notin Lines(bs)
      /\ (\A l \in Lines(bs) : Content(more, l) = Content(bs, l))
      /\ Content(more, new) = u /\ Unfinished(more) = << >>
  BY <1>1, LineFeed
<1>4. /\ GoodLines(bs) = Lines(bs) /\ ~Bad(u) => GoodLines(more) = GoodLines(bs) \union {new}
      /\ GoodLines(bs) # Lines(bs) \/ Bad(u) => GoodLines(more) = GoodLines(bs)
      /\ \A l \in GoodLines(bs) : Place(more, l) = Place(bs, l)
      /\ GoodLines(more) = GoodLines(bs) \union {new} =>
           Place(more, new) = Cardinality(GoodLines(bs)) + 1
  BY <1>1, GoodGrow
<1>5. u \in Seq(Byte) /\ Len(Stripped(u)) \in Nat
  BY <1>1, UnfinishedIsBytes, StrippedIs
<1>6. Len(Stripped(<< >>)) = 0 /\ ~(Len(Stripped(<< >>)) > MaxFrameBytes)
  BY FrameAssumption DEF Stripped
<1>7. Len(Stripped(u)) > MaxFrameBytes => Bad(u)
  BY DEF Bad
<1>8. Parses(u) <=> ~Bad(u)
  BY <1>5, ParsesUnlessBad
<1> HIDE DEF more, e, u, new
<1>9. GoodLines(bs) \subseteq Lines(bs)
  BY DEF GoodLines
<1>10. d.buffer \in Seq(Byte) /\ d.accepted \in Seq(Seq(Byte)) /\ d.refused \in BOOLEAN
       /\ (d.refused <=> GoodLines(bs) # Lines(bs) \/ Len(Stripped(u)) > MaxFrameBytes)
       /\ Len(d.accepted) = Cardinality(GoodLines(bs))
       /\ \A l \in GoodLines(bs) : d.accepted[Place(bs, l)] = Stripped(Content(bs, l))
  BY <1>1 DEF Decoders, IsDecoded, u
<1>11. ASSUME GoodLines(bs) # Lines(bs) \/ Bad(u), e.accepted = d.accepted, e.refused
       PROVE  IsDecoded(more, e)
  <2>1. GoodLines(more) = GoodLines(bs)
    BY <1>4, <1>11
  <2>2. GoodLines(more) # Lines(more)
    BY <1>3, <1>9, <2>1
  <2>3. \A l \in GoodLines(more) : e.accepted[Place(more, l)] = Stripped(Content(more, l))
    BY <1>3, <1>4, <1>9, <1>10, <1>11, <2>1
  <2> QED
    BY <1>10, <1>11, <2>1, <2>2, <2>3 DEF IsDecoded
<1>12. CASE d.refused
  <2>1. e = d
    BY <1>12 DEF e, PushByte
  <2>2. IsDecoded(more, e)
    BY <1>7, <1>10, <1>11, <1>12, <2>1
  <2> QED
    BY <1>1, <1>2, <1>12, <2>1, <2>2 DEF Decodes, more, e
<1>13. CASE ~d.refused /\ ~Parses(u)
  <2>1. e = [d EXCEPT !.buffer = << >>, !.refused = TRUE]
    BY <1>1, <1>13 DEF e, PushByte
  <2>2. e.accepted = d.accepted /\ e.refused = TRUE /\ e \in Decoders
    <3>1. << >> \in Seq(Byte)
      BY EmptySeq
    <3> QED
      BY <1>1, <2>1, <3>1 DEF Decoders
  <2>3. IsDecoded(more, e)
    BY <1>8, <1>11, <1>13, <2>2
  <2> QED
    BY <1>2, <2>2, <2>3 DEF Decodes, more, e
<1>14. CASE ~d.refused /\ Parses(u)
  <2>1. e = [d EXCEPT !.buffer = << >>, !.accepted = Append(d.accepted, Stripped(u))]
    BY <1>1, <1>14 DEF e, PushByte
  <2>2. Stripped(u) \in Seq(Byte)
    BY <1>5, StrippedIs
  <2>3. Append(d.accepted, Stripped(u)) \in Seq(Seq(Byte))
        /\ Len(Append(d.accepted, Stripped(u))) = Len(d.accepted) + 1
        /\ (\A i \in 1..Len(d.accepted) : Append(d.accepted, Stripped(u))[i] = d.accepted[i])
        /\ Append(d.accepted, Stripped(u))[Len(d.accepted) + 1] = Stripped(u)
    <3> QED
      BY <1>10, <2>2, AppendProperties
  <2>4. e.buffer = << >> /\ e.accepted = Append(d.accepted, Stripped(u)) /\ e.refused = FALSE
        /\ e \in Decoders
    <3>1. << >> \in Seq(Byte)
      BY EmptySeq
    <3> QED
      BY <1>1, <1>14, <2>1, <2>3, <3>1 DEF Decoders
  <2>5. GoodLines(bs) = Lines(bs) /\ GoodLines(more) = GoodLines(bs) \union {new}
    BY <1>4, <1>8, <1>10, <1>14
  <2>6. GoodLines(more) = Lines(more)
    BY <1>3, <2>5
  <2>7. Cardinality(GoodLines(more)) = Cardinality(GoodLines(bs)) + 1
    BY <1>1, <1>3, <1>9, <2>5, LinesAreFinite, FS_AddElement
  <2>8. ASSUME NEW l \in GoodLines(more)
        PROVE  e.accepted[Place(more, l)] = Stripped(Content(more, l))
    <3>1. CASE l = new
      BY <1>3, <1>4, <1>10, <2>3, <2>4, <2>5, <3>1
    <3>2. CASE l \in GoodLines(bs)
      <4>1. Place(bs, l) \in 1..Len(d.accepted)
        BY <1>1, <1>10, <3>2, PlacesAreInside
      <4>2. Content(more, l) = Content(bs, l) /\ Place(more, l) = Place(bs, l)
        BY <1>3, <1>4, <1>9, <3>2
      <4>3. d.accepted[Place(bs, l)] = Stripped(Content(bs, l))
        BY <1>10, <3>2
      <4> QED
        BY <2>3, <2>4, <4>1, <4>2, <4>3
    <3> QED
      BY <2>5, <3>1, <3>2
  <2>9. IsDecoded(more, e)
    BY <1>3, <1>6, <1>10, <2>3, <2>4, <2>6, <2>7, <2>8 DEF IsDecoded
  <2> QED
    BY <1>2, <1>3, <2>4, <2>9 DEF Decodes, more, e
<1> QED
  BY <1>10, <1>12, <1>13, <1>14

LEMMA ByteIsDecoded ==
  ASSUME NEW bs, NEW d, Decodes(bs, d), NEW b \in Byte
  PROVE  Decodes(Append(bs, b), PushByte(d, b))
BY OtherIsDecoded, FeedIsDecoded

-------------------------------------------------------------------------------
(* A piece *)

\* What the decoder is after n bytes of a piece.
After(d, piece, last) ==
  CHOOSE after : after = [n \in 0..last |->
    IF n = 0 THEN d ELSE PushByte(after[n - 1], piece[n])]

LEMMA PieceIsAfter ==
  ASSUME NEW d, NEW piece
  PROVE  PushStdout(d, piece) = After(d, piece, Len(piece))[Len(piece)]
BY DEF PushStdout, After

LEMMA AfterIs ==
  ASSUME NEW d, NEW piece, NEW last \in Nat
  PROVE  After(d, piece, last) = [n \in 0..last |->
           IF n = 0 THEN d ELSE PushByte(After(d, piece, last)[n - 1], piece[n])]
<1> DEFINE Is(f, k) == f = [n \in 0..k |-> IF n = 0 THEN d ELSE PushByte(f[n - 1], piece[n])]
           Without == {k \in Nat : ~\E f : Is(f, k)}
<1>1. Without = {}
  <2>1. SUFFICES ASSUME Without # {} PROVE FALSE
    OBVIOUS
  <2>2. PICK k \in Without : \A m \in Without : <<m, k>> \notin OpToRel(<, Nat)
    <3>1. Without \in SUBSET Nat /\ Without # {}
      BY <2>1
    <3> HIDE DEF Without
    <3> QED
      BY <3>1, NatLessThanWellFounded, WFMin
  <2>3. k # 0
    <3>1. Is([n \in 0..0 |-> d], 0)
      OBVIOUS
    <3> QED
      BY <2>2, <3>1
  <2>4. k \in Nat /\ k - 1 \in Nat /\ k - 1 < k
    <3>1. k \in Nat
      BY <2>2
    <3> QED
      BY <2>3, <3>1
  <2>5. k - 1 \notin Without
    <3>1. k - 1 \in Without => <<k - 1, k>> \notin OpToRel(<, Nat)
      BY <2>2
    <3> QED
      BY <2>4, <3>1 DEF OpToRel
  <2>6. PICK g : Is(g, k - 1)
    BY <2>4, <2>5
  <2> DEFINE f == [n \in 0..k |-> IF n = 0 THEN d ELSE PushByte(g[n - 1], piece[n])]
  <2>7. ASSUME NEW n \in 0..k, n # 0 PROVE f[n - 1] = g[n - 1]
    <3>1. n - 1 \in 0..(k - 1) /\ n - 1 \in 0..k
      BY <2>4, <2>7
    <3>2. g[n - 1] = IF n - 1 = 0 THEN d ELSE PushByte(g[n - 1 - 1], piece[n - 1])
      BY <2>6, <3>1
    <3>3. f[n - 1] = IF n - 1 = 0 THEN d ELSE PushByte(g[n - 1 - 1], piece[n - 1])
      BY <3>1
    <3> QED
      BY <3>2, <3>3
  <2>8. Is(f, k)
    BY <2>7
  <2> QED
    BY <2>2, <2>8
<1>2. \E f : Is(f, last)
  BY <1>1
<1> QED
  BY <1>2 DEF After

LEMMA LastIsCut ==
  ASSUME NEW S, NEW s \in Seq(S), NEW k \in 1..Len(s)
  PROVE  /\ SubSeq(s, 1, k - 1) \in Seq(S)
         /\ SubSeq(s, 1, k) = SubSeq(s, 1, k - 1) \o <<s[k]>>
<1>1. 1 \in 1..Len(s) /\ k \in 1..Len(s) /\ 1 \in Int /\ k - 1 \in Int
  OBVIOUS
<1>2. \A i \in 1..(k - 1) : s[i] \in S
  <2> TAKE i \in 1..(k - 1)
  <2>1. i \in 1..Len(s)
    OBVIOUS
  <2> QED
    BY <2>1, ElementOfSeq
<1>3. SubSeq(s, 1, k - 1) \in Seq(S)
  BY <1>1, <1>2, SubSeqProperties
<1>4. k \in 1..Len(s)
  OBVIOUS
<1>5. SubSeq(s, 1, k) = SubSeq(s, 1, k - 1) \o <<s[k]>>
  BY <1>1, <1>4, SubSeqRecursiveSecond
<1> QED
  BY <1>3, <1>5

LEMMA LastJoins ==
  ASSUME NEW S, NEW s \in Seq(S), NEW t \in Seq(S), NEW x \in S
  PROVE  Append(s \o t, x) = s \o (t \o <<x>>)
<1>1. s \o t \in Seq(S) /\ <<x>> \in Seq(S)
  BY ConcatProperties
<1>2. Append(s \o t, x) = (s \o t) \o <<x>>
  BY <1>1, AppendIsConcat
<1>3. (s \o t) \o <<x>> = s \o (t \o <<x>>)
  BY <1>1, ConcatAssociative
<1> QED
  BY <1>2, <1>3

LEMMA PieceIsDecoded ==
  ASSUME NEW bs, NEW d, Decodes(bs, d), NEW piece \in Seq(Byte)
  PROVE  Decodes(bs \o piece, PushStdout(d, piece))
<1> DEFINE last == Len(piece)
           after == After(d, piece, last)
           Read(n) == bs \o SubSeq(piece, 1, n)
           Wrong == {n \in Nat : n <= last /\ ~Decodes(Read(n), after[n])}
<1>1. last \in Nat /\ bs \in Seq(Byte)
  BY DEF Decodes
<1>2. after = [n \in 0..last |-> IF n = 0 THEN d ELSE PushByte(after[n - 1], piece[n])]
  BY <1>1, AfterIs
<1> HIDE DEF after
<1>3. Wrong = {}
  <2>1. SUFFICES ASSUME Wrong # {} PROVE FALSE
    OBVIOUS
  <2>2. PICK k \in Wrong : \A m \in Wrong : <<m, k>> \notin OpToRel(<, Nat)
    <3>1. Wrong \in SUBSET Nat /\ Wrong # {}
      BY <2>1
    <3> HIDE DEF Wrong
    <3> QED
      BY <3>1, NatLessThanWellFounded, WFMin
  <2>3. k # 0
    <3>1. SubSeq(piece, 1, 0) = << >>
      BY SubSeqEmpty, 1 \in Int, 0 \in Int
    <3>2. bs \o << >> = bs
      BY <1>1, ConcatEmptySeq
    <3>3. after[0] = d
      BY <1>1, <1>2
    <3>4. Decodes(Read(0), after[0])
      BY <3>1, <3>2, <3>3
    <3> QED
      BY <2>2, <3>4
  <2>4. k \in Nat /\ k <= last /\ k - 1 \in Nat /\ k - 1 < k /\ k - 1 <= last
    <3>1. k \in Nat /\ k <= last
      BY <2>2
    <3> HIDE DEF last
    <3> QED
      BY <1>1, <2>3, <3>1
  <2>5. Decodes(Read(k - 1), after[k - 1])
    <3>1. k - 1 \in Wrong => <<k - 1, k>> \notin OpToRel(<, Nat)
      BY <2>2
    <3>2. k - 1 \notin Wrong
      BY <2>4, <3>1 DEF OpToRel
    <3> QED
      BY <2>4, <3>2
  <2>6. after[k] = PushByte(after[k - 1], piece[k]) /\ piece[k] \in Byte
    <3>1. k \in 0..last /\ k \in 1..Len(piece)
      BY <1>1, <2>3, <2>4
    <3>2. after[k] = PushByte(after[k - 1], piece[k])
      <4> HIDE DEF last
      <4> QED
        BY <1>2, <2>3, <3>1
    <3>3. piece[k] \in Byte
      BY <3>1, ElementOfSeq
    <3> QED
      BY <3>2, <3>3
  <2>7. Decodes(Append(Read(k - 1), piece[k]), PushByte(after[k - 1], piece[k]))
    <3> HIDE DEF Read
    <3> QED
      BY <2>5, <2>6, ByteIsDecoded
  <2>8. Append(Read(k - 1), piece[k]) = Read(k)
    <3>1. piece[k] \in Byte /\ k \in 1..Len(piece)
      BY <1>1, <2>3, <2>4, <2>6
    <3>2. SubSeq(piece, 1, k - 1) \in Seq(Byte)
          /\ SubSeq(piece, 1, k) = SubSeq(piece, 1, k - 1) \o <<piece[k]>>
      BY <3>1, LastIsCut
    <3>3. PICK t \in Seq(Byte) : t = SubSeq(piece, 1, k - 1)
      BY <3>2
    <3>4. PICK x \in Byte : x = piece[k]
      BY <3>1
    <3>5. Append(bs \o t, x) = bs \o (t \o <<x>>)
      BY <1>1, LastJoins
    <3> QED
      BY <3>2, <3>3, <3>4, <3>5
  <2>9. Decodes(Read(k), after[k])
    BY <2>6, <2>7, <2>8
  <2> QED
    BY <2>2, <2>9
<1>4. Decodes(Read(last), after[last])
  BY <1>1, <1>3
<1>5. Read(last) = bs \o piece
  BY SubSeqFull
<1>6. PushStdout(d, piece) = after[last]
  BY PieceIsAfter DEF after
<1> QED
  BY <1>4, <1>5, <1>6

-------------------------------------------------------------------------------

LEMMA FramesBegin == InitFrames => FramesInd
<1> SUFFICES ASSUME InitFrames PROVE FramesInd
  OBVIOUS
<1>1. bytes = << >> /\ decoder = [buffer |-> << >>, accepted |-> << >>, refused |-> FALSE]
      /\ ended = "no"
  BY DEF InitFrames
<1>2. << >> \in Seq(Byte) /\ decoder \in Decoders
  BY <1>1 DEF Decoders
<1>3. LineEnds(<< >>) = {0}
  BY DEF LineEnds
<1>4. Lines(<< >>) = {} /\ GoodLines(<< >>) = {}
  BY <1>3 DEF Lines, GoodLines
<1>5. Unfinished(<< >>) = << >>
  <2>1. Max(LineEnds(<< >>)) = 0
    <3>1. 0 \in LineEnds(<< >>) /\ \A k \in LineEnds(<< >>) : k <= 0
      BY <1>3
    <3> QED
      BY <1>2, <3>1, LastEndIs
  <2>2. SubSeq(<< >>, 1, 0) = << >>
    BY SubSeqEmpty, 1 \in Int, 0 \in Int
  <2> QED
    BY <2>1, <2>2 DEF Unfinished
<1>6. Stripped(<< >>) = << >> /\ ~(Len(<< >>) > MaxFrameBytes)
  BY FrameAssumption DEF Stripped
<1>7. IsDecoded(<< >>, decoder)
  BY <1>1, <1>4, <1>5, <1>6, FS_EmptySet DEF IsDecoded
<1> QED
  BY <1>1, <1>2, <1>5, <1>7 DEF FramesInd, Decodes

\* However a stream is cut into pieces, what is accepted, and whether it is refused, is
\* what its lines say.
THEOREM PiecesAreDecoded == Frames => []PiecesDoNotMatter
<1>1. FramesInd /\ [NextFrames]_frameVars => FramesInd'
  <2> SUFFICES ASSUME FramesInd, [NextFrames]_frameVars PROVE FramesInd'
    OBVIOUS
  <2>1. CASE ReadPiece
    <3>0. PICK n \in 1..MaxPiece : \E piece \in [1..n -> Byte] :
            bytes' = bytes \o piece /\ decoder' = PushStdout(decoder, piece)
      BY <2>1 DEF ReadPiece
    <3>1. PICK piece \in [1..n -> Byte] :
            bytes' = bytes \o piece /\ decoder' = PushStdout(decoder, piece)
      BY <3>0
    <3>2. piece \in Seq(Byte)
      BY <3>1, FrameAssumption
    <3>3. Decodes(bytes', decoder')
      BY <3>1, <3>2, PieceIsDecoded DEF FramesInd
    <3> QED
      BY <2>1, <3>3 DEF ReadPiece, FramesInd
  <2>2. CASE Finish
    BY <2>2 DEF Finish, FramesInd
  <2>3. CASE UNCHANGED frameVars
    BY <2>3 DEF frameVars, FramesInd
  <2> QED
    BY <2>1, <2>2, <2>3 DEF NextFrames
<1>2. FramesInd => PiecesDoNotMatter
  BY DEF FramesInd, Decodes, PiecesDoNotMatter
<1> QED
  BY <1>1, <1>2, FramesBegin, PTL DEF Frames

-------------------------------------------------------------------------------
(* SshJudgement: what is made of a host *)

\* Where the thread is, what it met on the way there, and what it was told.
ThreadKnows ==
  /\ thread \in {"dial", "open", "stream", "closed", "waiting", "parked"}
  /\ thread \in {"dial", "open"} => met = {} /\ said = {}
  /\ thread = "stream" =>
       /\ met \subseteq {"hanging", "slow config"}
       /\ noise \notin {"banner", "flood"} => said = {}
  /\ thread = "closed" =>
       /\ ~Overridden => met \intersect UserTrouble = {}
       /\ Overridden => met \intersect (UserTrouble \union LooksLikeIt) # {} \/ noise # "none"
       /\ Overridden /\ noise = "banner" => met # {"unreachable"}
  /\ StopsForCause

TestKnows ==
  /\ test \in {"idle", "preflight", "call", "done"}
  /\ test = "preflight" => tested = << >>
  /\ test = "call" => \E w \in Worlds \ ConfigTrouble : tested = <<w>>
  /\ VerdictIsTrue

JudgementInd == world \in Worlds /\ ThreadKnows /\ TestKnows

\* A host that says why it fails is understood, unless a flood covers it.
LEMMA FailuresAreSaid ==
  ASSUME world \in Worlds
  PROVE  LET lines == Said({Line(world)})
             category == Classify(lines)
         IN  /\ lines # {}
             /\ category \in {"host key", "auth", "no cli", "network", "other"}
             /\ category = "network" <=> world = "unreachable" /\ noise # "flood"
             /\ noise # "flood" /\ category \in {"no cli", "other"} =>
                  world \notin {"unreachable", "refusing", "changed key"}
<1>1. Line(world) \in {"network", "auth", "host key", "no cli", "other"}
      /\ (Line(world) = "network" <=> world = "unreachable")
      /\ (Line(world) = "auth" <=> world = "refusing")
      /\ (Line(world) = "host key" <=> world = "changed key")
  BY DEF Line
<1>2. CASE noise = "flood"
  BY <1>2 DEF Said, Classify
<1>3. CASE noise # "flood"
  <2>1. Said({Line(world)}) = {Line(world)} \/ Said({Line(world)}) = {"other", Line(world)}
    BY <1>3 DEF Said
  <2>2. CASE Line(world) = "network"
    BY <1>1, <2>1, <2>2, <1>3 DEF Classify
  <2>3. CASE Line(world) = "auth"
    BY <1>1, <2>1, <2>3 DEF Classify
  <2>4. CASE Line(world) = "host key"
    BY <1>1, <2>1, <2>4 DEF Classify
  <2>5. CASE Line(world) = "no cli"
    BY <1>1, <2>1, <2>5 DEF Classify
  <2>6. CASE Line(world) = "other"
    BY <1>1, <2>1, <2>6 DEF Classify
  <2> QED
    BY <1>1, <2>2, <2>3, <2>4, <2>5, <2>6
<1> QED
  BY <1>2, <1>3

\* What ssh says when no command of the host does.
LEMMA NothingIsSaid ==
  /\ Classify(Said({"other"})) = "other"
  /\ noise \notin {"banner", "flood"} => Said({}) = {}
  /\ Classify({"network"}) = "network"
<1>1. Said({"other"}) = {"other"}
  BY DEF Said
<1>2. Classify({"other"}) = "other" /\ Classify({"network"}) = "network"
  BY DEF Classify
<1> QED
  BY <1>1, <1>2 DEF Said

\* What is in an answer of the test.
LEMMA ResultSays ==
  ASSUME NEW status, NEW resolved \in BOOLEAN, NEW reachable \in BOOLEAN
  PROVE  LET result == Result(status, resolved, reachable)
         IN  /\ result.compatible = (status = "compatible")
             /\ result.resolved = resolved
             /\ result.reachable = reachable
BY DEF Result

\* A step of the thread; what the test knows does not change.
LEMMA ThreadStepKeeps ==
  ASSUME JudgementInd, Preflight \/ Spawn \/ Interrupted \/ Refused \/ EndAttempt \/ Again
  PROVE  JudgementInd'
<1>1. UNCHANGED <<world, noise, test, tested, verdict>> /\ world \in Worlds /\ ThreadKnows /\ TestKnows
  BY DEF Preflight, Spawn, Interrupted, Refused, EndAttempt, Again, testVars, JudgementInd
<1>2. TestKnows'
  BY <1>1 DEF TestKnows, VerdictIsTrue
<1>3. CASE Preflight
  <2>1. met' = {world} \intersect ConfigTrouble /\ said' = said /\ thread = "dial" /\ said = {}
    BY <1>1, <1>3 DEF Preflight, ThreadKnows
  <2>2. CASE world = "bad config"
    <3>1. thread' = "parked" /\ met' = {"bad config"}
      BY <1>3, <2>1, <2>2, NothingIsSaid DEF Preflight, Judged, ConfigTrouble
    <3> QED
      BY <1>1, <1>2, <3>1 DEF ThreadKnows, StopsForCause, UserTrouble, JudgementInd
  <2>3. CASE world \in {"conflict", "no process"}
    <3>1. thread' = "parked" /\ met' = {world}
      BY <1>3, <2>1, <2>3 DEF Preflight, Judged, ConfigTrouble
    <3> QED
      BY <1>1, <1>2, <2>3, <3>1 DEF ThreadKnows, StopsForCause, UserTrouble, LooksLikeIt, JudgementInd
  <2>4. CASE world = "slow config"
    <3>1. thread' = "waiting" /\ met' = {"slow config"}
      BY <1>3, <2>1, <2>4 DEF Preflight, Judged, ConfigTrouble
    <3> QED
      BY <1>1, <1>2, <3>1 DEF ThreadKnows, StopsForCause, UserTrouble, JudgementInd
  <2>5. CASE world \notin ConfigTrouble
    <3>1. thread' = "open" /\ met' = {}
      BY <1>3, <2>1, <2>5 DEF Preflight, ConfigTrouble
    <3> QED
      BY <1>1, <1>2, <2>1, <3>1 DEF ThreadKnows, StopsForCause, JudgementInd
  <2> QED
    BY <1>1, <1>2, <2>2, <2>3, <2>4, <2>5 DEF ConfigTrouble, JudgementInd
<1>4. CASE Spawn
  <2>1. met = {} /\ met' = {world} \ Answering
    BY <1>1, <1>4 DEF Spawn, ThreadKnows
  <2>2. CASE world = "no process"
    <3>1. thread' = "waiting" /\ met' = {"no process"}
      BY <1>4, <2>1, <2>2 DEF Spawn, Judged, Answering, Failing
    <3> QED
      BY <1>1, <1>2, <3>1 DEF ThreadKnows, StopsForCause, UserTrouble, JudgementInd
  <2>3. CASE world \in Failing \union {"bad config", "conflict"}
    <3>1. thread' = "closed" /\ said' = Said({Line(world)}) /\ met' = {world}
      BY <1>4, <2>1, <2>3 DEF Spawn, Failing, Answering
    <3>2. Overridden' <=> ~(world = "unreachable" /\ noise # "flood")
      BY <1>1, <3>1, FailuresAreSaid DEF Overridden, Classify
    <3>3. world # "unreachable" => world \in UserTrouble
      BY <2>3 DEF Failing, UserTrouble
    <3>4. "unreachable" \notin UserTrouble
      BY DEF UserTrouble
    <3>5. (~Overridden => met \intersect UserTrouble = {})'
      BY <3>1, <3>2, <3>4, <1>1
    <3>6. (Overridden => met \intersect (UserTrouble \union LooksLikeIt) # {} \/ noise # "none")'
      BY <3>1, <3>2, <3>3, <1>1
    <3>7. (Overridden /\ noise = "banner" => met # {"unreachable"})'
      BY <3>1, <3>2, <1>1
    <3> QED
      BY <1>1, <1>2, <3>1, <3>5, <3>6, <3>7 DEF ThreadKnows, StopsForCause, JudgementInd
  <2>4. CASE world \notin Failing \union {"bad config", "conflict", "no process"}
    <3>1. thread' = "stream" /\ said' = Said({}) /\ met' \subseteq {"hanging", "slow config"}
      BY <1>1, <1>4, <2>1, <2>4 DEF Spawn, Worlds, Failing, Answering, ConfigTrouble
    <3> QED
      BY <1>1, <1>2, <3>1, NothingIsSaid DEF ThreadKnows, StopsForCause, JudgementInd
  <2> QED
    BY <1>1, <1>2, <2>2, <2>3, <2>4 DEF JudgementInd
<1>5. CASE Interrupted
  <2>1. /\ met' = met /\ met \subseteq {"hanging", "slow config"} /\ thread' = "closed"
        /\ noise \notin {"banner", "flood"} => said' = {} \/ said' = {"network"}
    BY <1>1, <1>5 DEF Interrupted, ThreadKnows
  <2>2. met \intersect UserTrouble = {} /\ met # {"unreachable"}
    BY <2>1 DEF UserTrouble
  <2>3. noise = "none" => ~Overridden'
    BY <2>1, NothingIsSaid DEF Overridden, Classify
  <2> QED
    BY <1>1, <1>2, <2>1, <2>2, <2>3 DEF ThreadKnows, StopsForCause, JudgementInd
<1>6. CASE Refused
  <2>1. /\ met' = met \union {world} /\ met \subseteq {"hanging", "slow config"}
        /\ world \in {"busy", "old", "garbled"}
    BY <1>1, <1>6 DEF Refused, ThreadKnows
  <2>2. world \in met' /\ met' # {"unreachable"}
    BY <2>1
  <2>3. CASE world = "busy"
    <3>1. thread' = "closed"
      BY <1>6, <2>3 DEF Refused
    <3>2. met' \intersect UserTrouble = {} /\ met' \intersect LooksLikeIt # {}
      BY <2>1, <2>3 DEF UserTrouble, LooksLikeIt
    <3> QED
      BY <1>1, <1>2, <2>2, <3>1, <3>2 DEF ThreadKnows, StopsForCause, JudgementInd
  <2>4. CASE world # "busy"
    <3>1. thread' = "parked"
      BY <1>6, <2>4 DEF Refused, Judged
    <3>2. met' \intersect UserTrouble # {}
      BY <2>1, <2>4 DEF UserTrouble
    <3> QED
      BY <1>1, <1>2, <2>2, <3>1, <3>2 DEF ThreadKnows, StopsForCause, JudgementInd
  <2> QED
    BY <2>3, <2>4
<1>7. CASE EndAttempt
  <2>1. /\ met' = met /\ said' = said /\ thread = "closed"
        /\ thread' = IF Overridden THEN "parked" ELSE "waiting"
    BY <1>7 DEF EndAttempt, Judged
  <2> QED
    BY <1>1, <1>2, <2>1 DEF ThreadKnows, StopsForCause, JudgementInd
<1>8. CASE Again
  BY <1>1, <1>2, <1>8 DEF Again, ThreadKnows, StopsForCause, JudgementInd
<1> QED
  BY <1>3, <1>4, <1>5, <1>6, <1>7, <1>8

\* A step of the test; the thread knows what it knew.
LEMMA TestStepKeeps ==
  ASSUME JudgementInd, Ask \/ TestPreflight \/ TestCall
  PROVE  JudgementInd'
<1>1. UNCHANGED <<world, noise, thread, met, said>> /\ world \in Worlds /\ ThreadKnows /\ TestKnows
  BY DEF Ask, TestPreflight, TestCall, jobVars, JudgementInd
<1>2. ThreadKnows'
  BY <1>1 DEF ThreadKnows, StopsForCause, Overridden, Classify
<1>3. CASE Ask
  BY <1>1, <1>2, <1>3 DEF Ask, TestKnows, VerdictIsTrue, JudgementInd
<1>4. CASE TestPreflight
  <2>1. tested' = <<world>> /\ Len(tested') = 1 /\ Last(tested') = world /\ tested'[1] = world
    BY <1>4 DEF TestPreflight, Last
  <2>2. CASE world = "bad config"
    <3>1. verdict' = Result("other", FALSE, TRUE) /\ test' = "done"
      BY <1>4, <2>2, NothingIsSaid DEF TestPreflight, Answered, Failure
    <3> QED
      BY <1>1, <1>2, <2>1, <2>2, <3>1 DEF TestKnows, VerdictIsTrue, Result, ConfigTrouble, JudgementInd
  <2>3. CASE world \in {"conflict", "no process", "slow config"}
    <3>1. /\ verdict' = Result("config", FALSE, FALSE) \/ verdict' = Result("timeout", FALSE, FALSE)
          /\ test' = "done"
      BY <1>4, <2>3 DEF TestPreflight, Answered
    <3>2. ~verdict'.compatible /\ ~verdict'.resolved /\ ~verdict'.reachable
      BY <3>1, ResultSays
    <3>3. world \in ConfigTrouble
      BY <2>3 DEF ConfigTrouble
    <3>4. Len(tested') # 2 /\ tested'[1] \in ConfigTrouble
      BY <2>1, <3>3
    <3>5. VerdictIsTrue'
      BY <3>2, <3>4 DEF VerdictIsTrue
    <3> QED
      BY <1>1, <1>2, <2>1, <3>1, <3>5 DEF TestKnows, JudgementInd
  <2>4. CASE world \notin ConfigTrouble
    <3>1. test' = "call"
      BY <1>4, <2>4 DEF TestPreflight, ConfigTrouble
    <3> QED
      BY <1>1, <1>2, <2>1, <2>4, <3>1 DEF TestKnows, VerdictIsTrue, JudgementInd
  <2> QED
    BY <1>1, <1>2, <2>2, <2>3, <2>4 DEF ConfigTrouble, JudgementInd
<1>5. CASE TestCall
  <2>1. PICK w \in Worlds \ ConfigTrouble : tested = <<w>>
    BY <1>1, <1>5 DEF TestCall, TestKnows
  <2>2. /\ Len(tested') = 2 /\ tested'[1] = w /\ tested'[2] = world
        /\ Last(tested') = world /\ test' = "done"
    <3>1. tested' = Append(tested, world) /\ test' = "done"
      BY <1>5 DEF TestCall, Answered
    <3>2. <<w>> \in Seq(Worlds) /\ world \in Worlds /\ Len(<<w>>) = 1 /\ <<w>>[1] = w
      BY <1>1
    <3>3. Len(Append(<<w>>, world)) = 2 /\ Append(<<w>>, world)[1] = w /\ Append(<<w>>, world)[2] = world
      BY <3>2
    <3> QED
      BY <2>1, <3>1, <3>3 DEF Last
  <2>3. CASE world \in Failing \union {"bad config", "conflict"}
    <3>1. verdict' = Failure(Said({Line(world)}), TRUE)
      BY <1>5, <2>3 DEF TestCall, Answered, Failing
    <3>2. PICK category \in {"host key", "auth", "no cli", "network", "other"} :
            /\ verdict' = Result(category, TRUE, category \in {"no cli", "other"})
            /\ noise # "flood" /\ category \in {"no cli", "other"} =>
                 world \notin {"unreachable", "refusing", "changed key"}
      BY <1>1, <3>1, FailuresAreSaid DEF Failure
    <3>3. /\ ~verdict'.compatible /\ verdict'.resolved
          /\ verdict'.reachable => category \in {"no cli", "other"}
      BY <3>2 DEF Result
    <3>4. world \notin {"fine", "busy", "hanging"}
      BY <2>3 DEF Failing
    <3> QED
      BY <1>1, <1>2, <2>1, <2>2, <3>2, <3>3, <3>4 DEF TestKnows, VerdictIsTrue, JudgementInd
  <2>4. CASE world \in {"hanging", "slow config", "no process"}
    <3>1. verdict' = Result("timeout", TRUE, FALSE) \/ verdict' = Result("other", TRUE, FALSE)
      BY <1>5, <2>4 DEF TestCall, Answered, Failing
    <3>2. ~verdict'.compatible /\ verdict'.resolved /\ ~verdict'.reachable
      BY <3>1, ResultSays
    <3> QED
      BY <1>1, <1>2, <2>1, <2>2, <2>4, <3>2 DEF TestKnows, VerdictIsTrue, JudgementInd
  <2>5. CASE world \in {"old", "garbled"}
    <3>1. verdict' = Result("protocol", TRUE, TRUE) \/ verdict' = Result("invalid", TRUE, TRUE)
      BY <1>5, <2>5 DEF TestCall, Answered, Failing
    <3>2. ~verdict'.compatible /\ verdict'.resolved
      BY <3>1, ResultSays
    <3> QED
      BY <1>1, <1>2, <2>1, <2>2, <2>5, <3>2 DEF TestKnows, VerdictIsTrue, JudgementInd
  <2>6. CASE world \in {"fine", "busy"}
    <3>1. verdict' = Result("compatible", TRUE, TRUE)
      BY <1>5, <2>6 DEF TestCall, Answered, Failing
    <3>2. verdict'.compatible /\ verdict'.resolved
      BY <3>1, ResultSays
    <3> QED
      BY <1>1, <1>2, <2>1, <2>2, <2>6, <3>2 DEF TestKnows, VerdictIsTrue, JudgementInd
  <2>7. world \in Failing \union {"bad config", "conflict", "hanging", "slow config", "no process",
                                  "old", "garbled", "fine", "busy"}
    BY <1>1 DEF Worlds, ConfigTrouble, Answering
  <2> QED
    BY <1>1, <1>2, <2>3, <2>4, <2>5, <2>6, <2>7 DEF JudgementInd
<1> QED
  BY <1>3, <1>4, <1>5

\* The host may change at any step.
LEMMA JudgementStepKeeps == JudgementInd /\ [NextSsh]_sshVars => JudgementInd'
<1> SUFFICES ASSUME JudgementInd, [NextSsh]_sshVars PROVE JudgementInd'
  OBVIOUS
<1>1. CASE HostChanges \/ UNCHANGED sshVars
  <2>1. world' \in Worlds /\ UNCHANGED <<noise, thread, met, said, test, tested, verdict>>
    BY <1>1 DEF HostChanges, sshVars, jobVars, testVars, JudgementInd
  <2>2. ThreadKnows'
    BY <2>1 DEF JudgementInd, ThreadKnows, StopsForCause, Overridden
  <2>3. TestKnows'
    BY <2>1 DEF JudgementInd, TestKnows, VerdictIsTrue
  <2> QED
    BY <2>1, <2>2, <2>3 DEF JudgementInd
<1> QED
  BY <1>1, ThreadStepKeeps, TestStepKeeps DEF NextSsh

\* A source waits for its user only for a cause, and a connection test says what is the
\* case (bridge_once, retry_stderr_override, test_connection).
THEOREM HostsAreJudged == Judgement => []HostIsJudged
<1>1. InitSsh => JudgementInd
  BY DEF InitSsh, InitJob, InitTest, JudgementInd, ThreadKnows, TestKnows, StopsForCause, VerdictIsTrue
<1>2. JudgementInd => HostIsJudged
  BY DEF JudgementInd, ThreadKnows, TestKnows, HostIsJudged
<1> QED
  BY <1>1, <1>2, JudgementStepKeeps, PTL DEF Judgement

-------------------------------------------------------------------------------
(* RemoteDelivery *)

\* The bridge, as its proofs know it.
BP == INSTANCE Bridge_proofs

-------------------------------------------------------------------------------
(* The bridge of RemoteDelivery is that one *)

LEMMA SameCardinality ==
  ASSUME NEW S
  PROVE  B!Cardinality(S) = BP!Cardinality(S)
BY DEF B!Cardinality, BP!Cardinality

LEMMA SameMin ==
  ASSUME NEW S
  PROVE  B!Min(S) = BP!Min(S)
BY DEF B!Min, BP!Min

LEMMA SameValidator ==
  /\ \A after, pin : B!NewStream(after, pin) = BP!NewStream(after, pin)
  /\ \A f : B!ValidFrame(f) = BP!ValidFrame(f)
  /\ \A st, f : B!Verdict(st, f) = BP!Verdict(st, f)
  /\ \A st, f : B!Accepted(st, f) = BP!Accepted(st, f)
<1>1. \A after, pin : B!NewStream(after, pin) = BP!NewStream(after, pin)
  BY DEF B!NewStream, BP!NewStream
<1>2. \A f : B!ValidFrame(f) = BP!ValidFrame(f)
  BY Zenon DEF B!ValidFrame, BP!ValidFrame
<1>3. \A st, f : B!Verdict(st, f) = BP!Verdict(st, f)
  <2>1. \A st, f : B!VerdictBeforeHello(st, f) = BP!VerdictBeforeHello(st, f)
    BY Zenon DEF B!VerdictBeforeHello, BP!VerdictBeforeHello
  <2>2. \A st, f : B!VerdictActive(st, f) = BP!VerdictActive(st, f)
    BY Zenon DEF B!VerdictActive, BP!VerdictActive
  <2> QED
    BY Zenon, <1>2, <2>1, <2>2 DEF B!Verdict, BP!Verdict
<1>4. \A st, f : B!Accepted(st, f) = BP!Accepted(st, f)
  <2>1. \A after, f : B!RequiredGap(after, f) = BP!RequiredGap(after, f)
    BY Zenon DEF B!RequiredGap, BP!RequiredGap
  <2> QED
    BY Zenon, <2>1 DEF B!Accepted, BP!Accepted
<1> QED
  BY <1>1, <1>2, <1>3, <1>4

LEMMA SameOff == B!Off => BP!Off
BY DEF B!Off, BP!Off, B!GoTo, BP!GoTo, B!NothingSeen, BP!NothingSeen

LEMMA SameStart ==
  ASSUME NEW after, B!Start(after)
  PROVE  BP!Start(after)
BY DEF B!Start, BP!Start, B!Exit, BP!Exit, B!Write, BP!Write, B!Off, BP!Off, B!GoTo, BP!GoTo,
       B!NothingSeen, BP!NothingSeen, B!ErrorFrame, BP!ErrorFrame, B!spoolVars, BP!spoolVars

LEMMA SameInit == B!SpoolInit /\ B!BridgeInit => BP!SpoolInit /\ BP!BridgeInit
BY DEF B!SpoolInit, BP!SpoolInit, B!BridgeInit, BP!BridgeInit, B!NothingSeen, BP!NothingSeen

LEMMA SameSpoolStep == B!SpoolStep => BP!SpoolStep
<1> USE DEF B!bridgeVars, BP!bridgeVars
<1>1. B!StoreEvent => BP!StoreEvent
  BY DEF B!StoreEvent, BP!StoreEvent, B!Source!Append, BP!Source!Append
<1>2. B!PruneEvents => BP!PruneEvents
  BY DEF B!PruneEvents, BP!PruneEvents, B!Source!Prune, BP!Source!Prune
<1>3. B!RegenerateIdentity => BP!RegenerateIdentity
  BY DEF B!RegenerateIdentity, BP!RegenerateIdentity, B!Source!ChangeIdentity, BP!Source!ChangeIdentity
<1> QED
  BY <1>1, <1>2, <1>3 DEF B!SpoolStep, BP!SpoolStep

LEMMA SameBreak == B!Break => BP!Break
BY SameOff DEF B!Break, BP!Break, B!spoolVars, BP!spoolVars

LEMMA SameBridgeStep == B!BridgeStep => BP!BridgeStep
<1> USE DEF B!Exit, BP!Exit, B!Write, BP!Write, B!Off, BP!Off, B!GoTo, BP!GoTo,
       B!NothingSeen, BP!NothingSeen, B!ErrorFrame, BP!ErrorFrame, B!spoolVars, BP!spoolVars,
       B!GapFrames, BP!GapFrames, B!GapFrame, BP!GapFrame, B!SnapshotTaken, BP!SnapshotTaken,
       B!LostThrough, BP!LostThrough, B!StreamError, BP!StreamError
<1>1. B!ReadIdentity => BP!ReadIdentity
  BY DEF B!ReadIdentity, BP!ReadIdentity
<1>2. B!ReadOldest => BP!ReadOldest
  BY SameMin DEF B!ReadOldest, BP!ReadOldest
<1>3. B!SnapshotCorrupt => BP!SnapshotCorrupt
  BY DEF B!SnapshotCorrupt, BP!SnapshotCorrupt
<1>4. B!SayHello => BP!SayHello
  BY DEF B!SayHello, BP!SayHello, B!Hello, BP!Hello
<1>5. B!FollowUp => BP!FollowUp
  BY DEF B!FollowUp, BP!FollowUp
<1>6. B!ReadRows => BP!ReadRows
  BY SameCardinality DEF B!ReadRows, BP!ReadRows
<1>7. B!WriteEvent => BP!WriteEvent
  BY SameMin DEF B!WriteEvent, BP!WriteEvent, B!EventFrame, BP!EventFrame
<1>8. B!EndPage => BP!EndPage
  BY DEF B!EndPage, BP!EndPage
<1>9. B!CheckForMore => BP!CheckForMore
  BY DEF B!CheckForMore, BP!CheckForMore
<1>10. B!Sleep => BP!Sleep
  BY DEF B!Sleep, BP!Sleep, B!Heartbeat, BP!Heartbeat
<1> QED
  BY <1>1, <1>2, <1>3, <1>4, <1>5, <1>6, <1>7, <1>8, <1>9, <1>10 DEF B!BridgeStep, BP!BridgeStep

LEMMA SameInv == BP!BridgeInv => B!BridgeInv
<1>1. BP!TypeOK => B!TypeOK
  BY DEF BP!TypeOK, B!TypeOK, BP!Stages, B!Stages
<1>2. BP!StreamIsAccepted => B!StreamIsAccepted
  BY SameValidator DEF BP!StreamIsAccepted, B!StreamIsAccepted
<1>3. BP!GapsAreLost => B!GapsAreLost
  BY DEF BP!GapsAreLost, B!GapsAreLost
<1> QED
  BY <1>1, <1>2, <1>3 DEF BP!BridgeInv, B!BridgeInv

LEMMA Constants == BP!BridgeConstants
BY RemoteAssumption, DesktopAssumption DEF BP!BridgeConstants

-------------------------------------------------------------------------------
(* The inductive invariant *)

Reasons ==
  {"none", "connection", "spool_unavailable", "remote_error", "cursor_ahead", "identity",
   "bad_hello", "refused"}

Jobs ==
  [phase : {"none", "connecting", "streaming", "parked"}, generation : -1..MaxChanges,
   reason : Reasons]

\* The thread of the source, and what the user did.
Thread ==
  /\ configured \in BOOLEAN
  /\ changes \in 0..MaxChanges
  /\ generation \in 0..changes
  /\ job \in Jobs
  /\ job.phase = "streaming" => stream.phase \in {"awaiting_hello", "active"}

\* The desktop has its identities from the spool.  While one of them is the spool's
\* present one, nothing of an earlier one is on its way any more.
Traced ==
  /\ pinned[Key] \in BP!Known \union {NoSource}
  /\ offered \in BP!Known \union {NoSource}
  /\ pinned[Key] = sourceId \/ offered = sourceId => BP!OnlyFrom({sourceId})

\* What is recorded as lost stays behind what the spool can still store.
LostIsGone ==
  \A s \in SourceIds, n \in 1..MaxSequence :
    <<s, n>> \in lost => s \in BP!Known /\ (s = sourceId => n <= highWatermark /\ n \notin stored)

\* No other setting is given an identity here.
Single == \A k \in Keys \ {Key} : pinned[k] = NoSource

\* Rows have the id their identity and sequence give them.
Named == \A e \in history \union tombstones : e.id = <<e.source, e.sequence>>

\* A stream that runs, and one that waits for its hello, are of the identity that is
\* pinned and stand where its cursor is; the identity that is offered is another one,
\* and then nothing is on its way of the one that is pinned.
Steady ==
  /\ configured
  /\ job.reason # "refused"
  /\ pinned[Key] = NoSource =>
       offered = NoSource /\ cursor[Key] = 0 /\ \A s \in SourceIds : checkpoints[s] = 0
  /\ stream.phase = "active" => stream.source = pinned[Key] /\ stream.cursor = cursor[Key]
  /\ stream.phase = "awaiting_hello" =>
       /\ stream.pinned = NoSource <=> pinned[Key] = NoSource
       /\ stream.pinned = pinned[Key] => stream.cursor = cursor[Key]
       /\ stream.pinned # pinned[Key] => offered = NoSource
  /\ offered \notin {NoSource, pinned[Key]} =>
       pinned[Key] # sourceId /\ BP!OnlyFrom(SourceIds \ {pinned[Key]})

Rest == Thread /\ Traced /\ LostIsGone /\ Single /\ Named

DeliveryInd == Inv /\ BP!BridgeInd /\ Rest /\ (~MayRemove => Steady)

USE DesktopAssumption, RemoteAssumption

-------------------------------------------------------------------------------
(* Beginning, and facts about a state *)

LEMMA ClosedIsTyped ==
  /\ Closed = [BP!NewStream(0, NoSource) EXCEPT !.phase = "closed"]
  /\ Closed \in BP!StreamStates
  /\ Closed.phase = "closed"
<1>1. B!NewStream(0, NoSource) = BP!NewStream(0, NoSource)
  BY SameValidator
<1>2. Closed = [BP!NewStream(0, NoSource) EXCEPT !.phase = "closed"]
  BY <1>1 DEF Closed
<1> QED
  BY <1>2, DesktopAssumption DEF BP!NewStream, BP!StreamStates, BP!Sources

LEMMA BeginIsInd == Begin => DeliveryInd
<1> SUFFICES ASSUME Begin PROVE DeliveryInd
  OBVIOUS
<1>1. Inv
  BY InitInv DEF Begin
<1>2. BP!SpoolInit /\ BP!BridgeInit
  BY SameInit DEF Begin
<1>3. stream = Closed /\ stream.phase = "closed"
  BY ClosedIsTyped DEF Begin
<1>4. BP!BridgeInd
  BY <1>2, <1>3, ClosedIsTyped, Constants, BP!InitIsInd
<1>5. /\ pinned = [k \in Keys |-> NoSource] /\ cursor = [k \in Keys |-> 0] /\ history = {}
      /\ tombstones = {} /\ checkpoints = [s \in SourceIds |-> 0] /\ lost = {}
      /\ offered = NoSource /\ configured = TRUE /\ generation = 0 /\ changes = 0 /\ job = NoJob
      /\ sourceId \in SourceIds
  BY DEF Begin, Init, B!SpoolInit
<1>6. Thread
  <2>1. 0 \in 0..MaxChanges /\ -1 \in -1..MaxChanges
    OBVIOUS
  <2>2. NoJob \in Jobs
    BY <2>1 DEF NoJob, Jobs, Reasons
  <2> QED
    BY <1>3, <1>5, <2>1, <2>2 DEF Thread, NoJob
<1>7. Traced /\ LostIsGone /\ Single /\ Named
  <2>1. pinned[Key] = NoSource /\ offered = NoSource /\ sourceId # NoSource
    BY <1>5
  <2> QED
    BY <1>5, <2>1 DEF Traced, LostIsGone, Single, Named
<1>8. Steady
  BY <1>3, <1>5 DEF Steady, NoJob
<1> QED
  BY <1>1, <1>4, <1>6, <1>7, <1>8 DEF DeliveryInd, Rest

\* What the parts of the invariant say of the types of what is read.
LEMMA StateFacts ==
  ASSUME DeliveryInd
  PROVE  /\ pinned \in [Keys -> SourceIds \union {NoSource}] /\ cursor \in [Keys -> 0..MaxSequence]
         /\ pinned[Key] \in BP!Sources /\ cursor[Key] \in 0..MaxSequence
         /\ pinned[Key] # NoSource => cursor[Key] = checkpoints[pinned[Key]]
         /\ checkpoints \in [SourceIds -> 0..MaxSequence]
         /\ stream \in BP!StreamStates
         /\ stream.pinned \in BP!Sources /\ stream.cursor \in 0..MaxSequence
         /\ sourceId \in SourceIds /\ sourceId \in BP!Known /\ BP!Known \subseteq SourceIds
         /\ highWatermark \in 0..MaxSequence
         /\ offered \in SourceIds \union {NoSource}
<1>1. TypeOK /\ CursorIsPosition
  BY DEF DeliveryInd, Inv
<1>2. BP!TypeOK /\ stream \in BP!StreamStates
  BY DEF DeliveryInd, BP!BridgeInd, BP!Types
<1>3. sourceId \in SourceIds /\ BP!Known \subseteq SourceIds /\ sourceId \in BP!Known
  BY <1>2 DEF BP!TypeOK, BP!Known
<1>4. offered \in SourceIds \union {NoSource}
  BY <1>3 DEF DeliveryInd, Rest, Traced
<1>5. stream.pinned \in BP!Sources /\ stream.cursor \in 0..MaxSequence
  BY <1>2 DEF BP!StreamStates
<1>6. highWatermark \in 0..MaxSequence
  BY <1>2 DEF BP!TypeOK
<1> QED
  BY <1>1, <1>2, <1>3, <1>4, <1>5, <1>6 DEF TypeOK, CursorIsPosition, BP!Sources

LEMMA StoreUnchanged ==
  ASSUME Inv, UNCHANGED storeVars
  PROVE  Inv'
BY NextPreserves

\* The user has one more change to his account.
LEMMA ChangesAreBounded ==
  ASSUME changes \in 0..MaxChanges, MayChange, generation \in 0..changes
  PROVE  /\ changes' \in 0..MaxChanges
         /\ 0 \in 0..changes' /\ generation \in 0..changes' /\ generation + 1 \in 0..changes'
BY DEF MayChange

-------------------------------------------------------------------------------
(* The user *)

\* The bridge, its stream and the thread do not see the commands of the user.
LEMMA RemoteUnchanged ==
  ASSUME BP!BridgeInd, UNCHANGED <<remoteVars, stream>>
  PROVE  /\ BP!BridgeInd' /\ BP!Known' = BP!Known
         /\ UNCHANGED <<sourceId, highWatermark, stored>>
         /\ \A S : BP!OnlyFrom(S)' <=> BP!OnlyFrom(S)
<1>1. UNCHANGED BP!vars
  BY DEF remoteVars, spoolVars, bridgeVars, BP!vars
<1>2. BP!BridgeInd'
  BY <1>1, BP!StutterPreserves
<1> QED
  BY <1>1, <1>2 DEF BP!vars, BP!Known, BP!OnlyFrom

LEMMA AddRemoteSourcePreserves ==
  ASSUME DeliveryInd, AddRemoteSource
  PROVE  DeliveryInd'
<1>1. /\ MayChange /\ ~configured /\ configured' = TRUE /\ generation' = 0
      /\ UNCHANGED <<remoteVars, stream, job, offered, breaks>>
  BY DEF AddRemoteSource
<1>2. Inv' /\ UNCHANGED <<pinned, cursor, history, tombstones, checkpoints, lost>>
  <2>1. CASE RegisterSource(Key)
    BY <2>1, RegisterSourcePreserves DEF DeliveryInd, RegisterSource, ghostVars
  <2>2. CASE UNCHANGED storeVars
    BY <2>2, StoreUnchanged DEF DeliveryInd, storeVars
  <2> QED
    BY <2>1, <2>2 DEF AddRemoteSource
<1>3. /\ BP!BridgeInd' /\ BP!Known' = BP!Known /\ UNCHANGED <<sourceId, highWatermark, stored>>
      /\ \A S : BP!OnlyFrom(S)' <=> BP!OnlyFrom(S)
  BY <1>1, RemoteUnchanged DEF DeliveryInd
<1>4. Thread'
  BY <1>1, ChangesAreBounded DEF DeliveryInd, Rest, Thread
<1>5. Rest'
  BY <1>1, <1>2, <1>3, <1>4 DEF DeliveryInd, Rest, Traced, LostIsGone, Single, Named
<1> QED
  BY <1>1, <1>2, <1>3, <1>5 DEF DeliveryInd, Steady

LEMMA RemoveRemoteSourcePreserves ==
  ASSUME DeliveryInd, RemoveRemoteSource
  PROVE  DeliveryInd'
<1>1. /\ MayChange /\ MayRemove /\ configured' = FALSE /\ ReleaseSourceIdentity(Key)
      /\ UNCHANGED <<generation, remoteVars, stream, job, offered, breaks>>
  BY DEF RemoveRemoteSource
<1>2. Inv'
  BY <1>1, ReleaseSourceIdentityPreserves DEF DeliveryInd
<1>3. /\ UNCHANGED <<history, tombstones, lost>> /\ pinned' = [pinned EXCEPT ![Key] = NoSource]
  BY <1>1 DEF ReleaseSourceIdentity, ghostVars
<1>4. /\ BP!BridgeInd' /\ BP!Known' = BP!Known /\ UNCHANGED <<sourceId, highWatermark, stored>>
      /\ \A S : BP!OnlyFrom(S)' <=> BP!OnlyFrom(S)
  BY <1>1, RemoteUnchanged DEF DeliveryInd
<1>5. Thread'
  BY <1>1, ChangesAreBounded DEF DeliveryInd, Rest, Thread
<1>6. pinned'[Key] = NoSource /\ \A k \in Keys \ {Key} : pinned'[k] = pinned[k]
  BY <1>3, StateFacts
<1>7. Rest'
  BY <1>1, <1>3, <1>4, <1>5, <1>6, StateFacts
     DEF DeliveryInd, Rest, Traced, LostIsGone, Single, Named
<1> QED
  BY <1>1, <1>2, <1>4, <1>7 DEF DeliveryInd

LEMMA ReconnectRemoteSourcePreserves ==
  ASSUME DeliveryInd, ReconnectRemoteSource
  PROVE  DeliveryInd'
<1>1. /\ MayChange /\ generation' = generation + 1
      /\ UNCHANGED <<storeVars, configured, remoteVars, stream, job, offered, breaks>>
  BY DEF ReconnectRemoteSource
<1>2. Inv' /\ UNCHANGED <<pinned, cursor, history, tombstones, checkpoints, lost>>
  BY <1>1, StoreUnchanged DEF DeliveryInd, storeVars
<1>3. /\ BP!BridgeInd' /\ BP!Known' = BP!Known /\ UNCHANGED <<sourceId, highWatermark, stored>>
      /\ \A S : BP!OnlyFrom(S)' <=> BP!OnlyFrom(S)
  BY <1>1, RemoteUnchanged DEF DeliveryInd
<1>4. Thread'
  BY <1>1, ChangesAreBounded DEF DeliveryInd, Rest, Thread
<1>5. Rest'
  BY <1>1, <1>2, <1>3, <1>4 DEF DeliveryInd, Rest, Traced, LostIsGone, Single, Named
<1> QED
  BY <1>1, <1>2, <1>3, <1>5 DEF DeliveryInd, Steady

\* An offer is only confirmed while nothing runs for the identity it replaces.
LEMMA ConfirmRemoteIdentityPreserves ==
  ASSUME DeliveryInd, ConfirmRemoteIdentity
  PROVE  DeliveryInd'
<1>1. /\ MayChange /\ offered # NoSource /\ offered' = NoSource /\ Adopt(Key, offered)
      /\ generation' = IF configured THEN generation + 1 ELSE generation
      /\ UNCHANGED <<configured, remoteVars, stream, job, breaks>>
  BY DEF ConfirmRemoteIdentity, ReplaceSource
<1>2. offered \in SourceIds
  BY <1>1, StateFacts
<1>3. Inv'
  BY <1>1, <1>2, AdoptPreserves DEF DeliveryInd
<1>4. /\ UNCHANGED <<history, tombstones, checkpoints, lost>>
      /\ pinned' = [pinned EXCEPT ![Key] = offered]
      /\ cursor' = [cursor EXCEPT ![Key] = checkpoints[offered]]
  BY <1>1, <1>2, KnownIsCheckpoint DEF DeliveryInd, Adopt, ghostVars
<1>5. /\ BP!BridgeInd' /\ BP!Known' = BP!Known /\ UNCHANGED <<sourceId, highWatermark, stored>>
      /\ \A S : BP!OnlyFrom(S)' <=> BP!OnlyFrom(S)
  BY <1>1, RemoteUnchanged DEF DeliveryInd
<1>6. Thread'
  BY <1>1, ChangesAreBounded DEF DeliveryInd, Rest, Thread
<1>7. /\ pinned'[Key] = offered /\ cursor'[Key] = checkpoints[offered]
      /\ \A k \in Keys \ {Key} : pinned'[k] = pinned[k]
  BY <1>4, StateFacts
<1>8. Rest'
  BY <1>1, <1>2, <1>4, <1>5, <1>6, <1>7, StateFacts
     DEF DeliveryInd, Rest, Traced, LostIsGone, Single, Named
<1>9. ASSUME Steady PROVE Steady'
  <2>1. configured' /\ job'.reason # "refused" /\ pinned'[Key] # NoSource
    BY <1>1, <1>2, <1>7, <1>9 DEF Steady
  <2>2. CASE offered = pinned[Key]
    <3>1. cursor'[Key] = cursor[Key] /\ pinned'[Key] = pinned[Key]
      BY <1>1, <1>7, <2>2, StateFacts
    <3> QED
      BY <1>1, <1>9, <2>1, <3>1 DEF Steady
  <2>3. CASE offered # pinned[Key]
    <3>1. stream.phase # "active"
      BY <1>1, <1>9, <2>3 DEF Steady, BP!OnlyFrom
    <3>2. stream.phase = "awaiting_hello" =>
            stream.pinned = pinned[Key] /\ stream.pinned # NoSource /\ stream.pinned # offered
      BY <1>1, <1>9, <2>3 DEF Steady
    <3> QED
      BY <1>1, <2>1, <1>7, <3>1, <3>2 DEF Steady
  <2> QED
    BY <2>2, <2>3
<1> QED
  BY <1>3, <1>5, <1>8, <1>9 DEF DeliveryInd

-------------------------------------------------------------------------------
(* The end of a connection *)

LEMMA EndChildFacts ==
  ASSUME DeliveryInd, EndChild
  PROVE  /\ BP!BridgeInd' /\ BP!Known' = BP!Known
         /\ UNCHANGED <<sourceId, highWatermark, stored>>
         /\ \A S : BP!OnlyFrom(S)'
         /\ stream'.phase = "closed"
<1>1. /\ BP!Off /\ channel' = <<>> /\ stream' = Closed
      /\ UNCHANGED <<sourceId, highWatermark, stored, retired>>
  BY SameOff DEF EndChild, spoolVars
<1>2. stream' \in BP!StreamStates /\ stream'.phase = "closed"
  BY <1>1, ClosedIsTyped
<1>3. BP!BridgeInd'
  BY <1>1, <1>2, Constants, BP!OffPreserves DEF DeliveryInd, BP!spoolVars
<1>4. \A S : BP!OnlyFrom(S)'
  BY <1>1, <1>2, Constants, BP!OffIsOfNobody
<1> QED
  BY <1>1, <1>2, <1>3, <1>4 DEF BP!Known

\* What ends a connection leaves the store alone; an identity it offers is not the
\* one of the setting.
LEMMA EndedPreserves ==
  ASSUME DeliveryInd, EndChild, UNCHANGED storeVars, UNCHANGED <<generation, changes>>,
         job' \in Jobs, job'.phase # "streaming",
         configured' \in BOOLEAN, offered' \in BP!Known \union {NoSource},
         ~MayRemove /\ Steady =>
           /\ configured' /\ job'.reason # "refused"
           /\ \/ offered' \in {NoSource, offered}
              \/ pinned[Key] # NoSource /\ pinned[Key] # sourceId
              \/ pinned[Key] # NoSource /\ offered' = pinned[Key]
  PROVE  DeliveryInd'
<1>1. /\ BP!BridgeInd' /\ BP!Known' = BP!Known /\ UNCHANGED <<sourceId, highWatermark, stored>>
      /\ \A S : BP!OnlyFrom(S)'
      /\ stream'.phase = "closed"
  BY EndChildFacts
<1>2. Inv' /\ UNCHANGED <<pinned, cursor, history, tombstones, checkpoints, lost>>
  BY StoreUnchanged DEF DeliveryInd, storeVars
<1>3. Thread'
  BY DEF DeliveryInd, Rest, Thread
<1>4. Rest'
  BY <1>1, <1>2, <1>3 DEF DeliveryInd, Rest, Traced, LostIsGone, Single, Named
<1>5. ASSUME ~MayRemove PROVE Steady'
  BY <1>1, <1>2, <1>5 DEF DeliveryInd, Steady
<1> QED
  BY <1>1, <1>2, <1>4, <1>5 DEF DeliveryInd

LEMMA RestartDesktopPreserves ==
  ASSUME DeliveryInd, RestartDesktop
  PROVE  DeliveryInd'
<1>1. /\ EndChild /\ UNCHANGED storeVars /\ UNCHANGED <<generation, changes>> /\ job' = NoJob
      /\ offered' = NoSource /\ configured' \in {configured, configured /\ ~MayRemove}
  BY DEF RestartDesktop
<1>2. NoJob \in Jobs /\ NoJob.phase = "none" /\ NoJob.reason = "none"
  BY DEF NoJob, Jobs, Reasons
<1>3. configured \in BOOLEAN
  BY DEF DeliveryInd, Rest, Thread
<1>4. configured' \in BOOLEAN
  BY <1>1, <1>3
<1>5. ~MayRemove /\ Steady => configured'
  BY <1>1 DEF Steady
<1> QED
  BY <1>1, <1>2, <1>4, <1>5, EndedPreserves

LEMMA SyncFleetPreserves ==
  ASSUME DeliveryInd, SyncFleet
  PROVE  DeliveryInd'
<1>1. /\ EndChild /\ UNCHANGED storeVars /\ UNCHANGED userVars /\ UNCHANGED offered
      /\ job' = IF configured THEN [NoJob EXCEPT !.phase = "connecting", !.generation = generation]
                ELSE NoJob
  BY DEF SyncFleet
<1>2. configured \in BOOLEAN /\ generation \in -1..MaxChanges
  BY DEF DeliveryInd, Rest, Thread
<1>3. job' \in Jobs /\ job'.phase # "streaming" /\ job'.reason # "refused"
  <2>1. -1 \in -1..MaxChanges
    OBVIOUS
  <2>2. NoJob \in Jobs /\ NoJob.phase = "none" /\ NoJob.reason = "none"
    BY <2>1 DEF NoJob, Jobs, Reasons
  <2>3. CASE configured
    <3>1. job' = [NoJob EXCEPT !.phase = "connecting", !.generation = generation]
      BY <1>1, <2>3
    <3> QED
      BY <1>2, <2>2, <3>1 DEF Jobs
  <2>4. CASE ~configured
    BY <1>1, <2>2, <2>4
  <2> QED
    BY <2>3, <2>4
<1>4. ~MayRemove /\ Steady => configured
  BY DEF Steady
<1> QED
  BY <1>1, <1>2, <1>3, <1>4, EndedPreserves DEF userVars, DeliveryInd, Rest, Traced

\* A thread that goes around its loop or waits to be stopped.
LEMMA JobFacts ==
  ASSUME DeliveryInd
  PROVE  /\ Retry => job' \in Jobs /\ job'.phase = "connecting" /\ job'.reason = job.reason
         /\ \A r \in Reasons : Park(r) => job' \in Jobs /\ job'.phase = "parked" /\ job'.reason = r
<1>1. job \in Jobs
  BY DEF DeliveryInd, Rest, Thread
<1> QED
  BY <1>1 DEF Retry, Park, Jobs

LEMMA RetryPreserves ==
  ASSUME DeliveryInd, EndChild, UNCHANGED storeVars, UNCHANGED userVars, UNCHANGED offered,
         NEW r \in Reasons \ {"refused"}, RetryUnlessComplaint(r)
  PROVE  DeliveryInd'
<1>1. job' \in Jobs /\ job'.phase # "streaming" /\ (Steady => job'.reason # "refused")
  BY JobFacts DEF RetryUnlessComplaint, Steady
<1>2. configured \in BOOLEAN /\ (Steady => configured)
  BY DEF DeliveryInd, Rest, Thread, Steady
<1> QED
  BY <1>1, <1>2, EndedPreserves DEF userVars, DeliveryInd, Rest, Traced

LEMMA EndOfStreamPreserves ==
  ASSUME DeliveryInd, EndOfStream
  PROVE  DeliveryInd'
<1>1. "connection" \in Reasons \ {"refused"}
  BY DEF Reasons
<1> QED
  BY <1>1, RetryPreserves DEF EndOfStream

LEMMA ConnectionTimesOutPreserves ==
  ASSUME DeliveryInd, ConnectionTimesOut
  PROVE  DeliveryInd'
<1>1. "connection" \in Reasons \ {"refused"}
  BY DEF Reasons
<1> QED
  BY <1>1, RetryPreserves DEF ConnectionTimesOut

\* A frame that is refused stops the thread, with a reason to show.
LEMMA GiveUpPreserves ==
  ASSUME DeliveryInd, UNCHANGED userVars, NEW r \in Reasons, GiveUp(r),
         ~MayRemove /\ Steady => r # "refused"
  PROVE  DeliveryInd'
<1>1. EndChild /\ UNCHANGED storeVars /\ UNCHANGED offered
  BY DEF GiveUp
<1>2. job' \in Jobs /\ job'.phase # "streaming" /\ job'.reason = r
  BY JobFacts DEF GiveUp
<1>3. configured \in BOOLEAN /\ (Steady => configured)
  BY DEF DeliveryInd, Rest, Thread, Steady
<1> QED
  BY <1>1, <1>2, <1>3, EndedPreserves DEF userVars, DeliveryInd, Rest, Traced

\* An identity that is offered was announced in this connection: while the spool
\* still has the pinned one, it is no other than that.
LEMMA IdentityChangedPreserves ==
  ASSUME DeliveryInd, UNCHANGED userVars, channel # <<>>, NEW f, f = Head(channel),
         f.type \in {"hello", "event"}, IdentityChanged(f.source),
         ~MayRemove /\ Steady => pinned[Key] # NoSource
  PROVE  DeliveryInd'
<1>1. EndChild /\ UNCHANGED storeVars /\ offered' = f.source
  BY DEF IdentityChanged
<1>2. job' \in Jobs /\ job'.phase # "streaming" /\ job'.reason = "identity"
  <2>1. "identity" \in Reasons
    BY DEF Reasons
  <2> QED
    BY <2>1, JobFacts DEF IdentityChanged
<1>3. f \in BP!Carried(channel) /\ f.source \in BP!Known
  BY Constants, BP!HeadFacts DEF DeliveryInd
<1>4. pinned[Key] # sourceId \/ f.source = pinned[Key]
  BY <1>3 DEF DeliveryInd, Rest, Traced, BP!OnlyFrom
<1>5. configured \in BOOLEAN /\ (Steady => configured)
  BY DEF DeliveryInd, Rest, Thread, Steady
<1> QED
  BY <1>1, <1>2, <1>3, <1>4, <1>5, EndedPreserves DEF userVars, DeliveryInd, Rest, Traced

-------------------------------------------------------------------------------
(* The thread of the source *)

\* A new validator stands where the cursor of the setting is.
LEMMA OpenConsumerPreserves ==
  ASSUME DeliveryInd, OpenConsumer
  PROVE  DeliveryInd'
<1>1. /\ stream' = BP!NewStream(cursor[Key], pinned[Key]) /\ BP!Start(cursor[Key])
      /\ job' = [job EXCEPT !.phase = "streaming"] /\ UNCHANGED <<userVars, offered, breaks>>
  BY SameValidator, SameStart DEF OpenConsumer
<1>2. Inv' /\ UNCHANGED <<pinned, cursor, history, tombstones, checkpoints, lost>>
  <2>1. CASE RegisterSource(Key)
    BY <2>1, RegisterSourcePreserves DEF DeliveryInd, RegisterSource, ghostVars
  <2>2. CASE UNCHANGED storeVars
    BY <2>2, StoreUnchanged DEF DeliveryInd, storeVars
  <2> QED
    BY <2>1, <2>2 DEF OpenConsumer
<1>3. BP!BridgeInd'
  BY <1>1, StateFacts, Constants, BP!StartPreserves DEF DeliveryInd
<1>4. /\ stream'.phase = "awaiting_hello" /\ stream'.pinned = pinned[Key]
      /\ stream'.cursor = cursor[Key]
  BY <1>1 DEF BP!NewStream
<1>5. \A S : BP!OnlyFrom(S)'
  BY <1>1, <1>4, Constants, BP!StartIsOfNobody DEF DeliveryInd
<1>6. BP!Known' = BP!Known /\ UNCHANGED <<sourceId, highWatermark, stored>>
  BY <1>1 DEF BP!Start, BP!spoolVars, BP!Known
<1>7. Thread'
  <2>1. job \in Jobs
    BY DEF DeliveryInd, Rest, Thread
  <2>2. job' \in Jobs
    BY <1>1, <2>1 DEF Jobs
  <2> QED
    BY <1>1, <1>4, <2>2 DEF DeliveryInd, Rest, Thread, userVars
<1>8. Rest'
  BY <1>1, <1>2, <1>5, <1>6, <1>7 DEF DeliveryInd, Rest, Traced, LostIsGone, Single, Named
<1>9. ASSUME Steady PROVE Steady'
  <2>1. configured' /\ job'.reason # "refused"
    <3>1. job \in Jobs
      BY DEF DeliveryInd, Rest, Thread
    <3> QED
      BY <1>1, <1>9, <3>1 DEF Steady, Jobs, userVars
  <2> QED
    BY <1>1, <1>2, <1>4, <1>5, <1>6, <1>9, <2>1 DEF Steady
<1> QED
  BY <1>2, <1>3, <1>8, <1>9 DEF DeliveryInd

\* The validator after a frame it takes.
LEMMA ProceedFacts ==
  ASSUME DeliveryInd, channel # <<>>, NEW f, f = Head(channel),
         BP!Verdict(stream, f) = "accepted", f.type # "error", Proceed(f)
  PROVE  /\ BP!BridgeInd' /\ BP!Known' = BP!Known /\ UNCHANGED <<sourceId, highWatermark, stored>>
         /\ UNCHANGED <<job, offered>>
         /\ \A S : BP!OnlyFrom(S) => BP!OnlyFrom(S)'
         /\ stream'.phase = "active"
         /\ f.type = "hello" => stream'.source = f.source /\ stream'.cursor = stream.cursor
         /\ f.type # "hello" => stream.phase = "active" /\ stream'.source = stream.source
         /\ f.type = "event" => stream'.cursor = f.sequence
         /\ f.type = "gap" => stream'.cursor = f.through
         /\ f.type = "heartbeat" => stream'.cursor = stream.cursor
<1>1. /\ stream' = BP!Accepted(stream, f) /\ channel' = Tail(channel) /\ UNCHANGED <<job, offered>>
      /\ UNCHANGED BP!spoolVars /\ UNCHANGED BP!bridgeVars
  BY SameValidator DEF Proceed, spoolVars, bridgeVars, BP!spoolVars, BP!bridgeVars
<1>2. NoSource \in BP!Sources
  BY DEF BP!Sources
<1>3. BP!BridgeInd'
  BY <1>1, <1>2, Constants, BP!AcceptedPreserves DEF DeliveryInd
<1>4. \A S : BP!OnlyFrom(S) => BP!OnlyFrom(S)'
  BY <1>1, Constants, BP!AcceptedKeepsOrigin DEF DeliveryInd
<1>5. f \in BP!Frames
  BY Constants, BP!HeadFacts DEF DeliveryInd
<1>6. stream \in BP!StreamStates
  BY StateFacts
<1>7. f.type # "hello" => stream.phase = "active"
  BY <1>5, BP!VerdictFacts
<1>8. f.type \in {"hello", "event", "gap", "heartbeat"}
  BY <1>5, BP!FrameFields
<1>9. /\ stream'.phase = "active"
      /\ f.type = "hello" => stream'.source = f.source /\ stream'.cursor = stream.cursor
      /\ f.type # "hello" => stream'.source = stream.source
      /\ f.type = "event" => stream'.cursor = f.sequence
      /\ f.type = "gap" => stream'.cursor = f.through
      /\ f.type = "heartbeat" => stream'.cursor = stream.cursor
  BY <1>1, <1>6, <1>7, <1>8 DEF BP!Accepted, BP!StreamStates
<1> QED
  BY <1>1, <1>3, <1>4, <1>7, <1>9 DEF BP!spoolVars, BP!Known

\* The thread goes on with the stream.
LEMMA ThreadGoesOn ==
  ASSUME DeliveryInd, UNCHANGED userVars, UNCHANGED job, stream'.phase = "active"
  PROVE  Thread'
BY DEF DeliveryInd, Rest, Thread, userVars

\* A hello is of the pinned identity, or pins the first one where nothing is known of
\* any: either way the validator stands at the cursor.
LEMMA AcceptHelloPreserves ==
  ASSUME DeliveryInd, UNCHANGED userVars, channel # <<>>, NEW f, f = Head(channel),
         BP!Verdict(stream, f) = "accepted", f.type = "hello", AcceptHello(f)
  PROVE  DeliveryInd'
<1>1. f \in BP!Frames /\ f \in BP!Carried(channel) /\ f.source \in BP!Known /\ f.source \in SourceIds
  BY Constants, BP!HeadFacts DEF DeliveryInd
<1>2. stream.phase = "awaiting_hello" /\ stream.pinned \in {NoSource, f.source}
  <2>1. stream.phase # "active"
    BY Constants, BP!HeadFacts DEF DeliveryInd
  <2> QED
    BY <1>1, <2>1, BP!VerdictFacts
<1>3. ~OwnedByAnother(Key, f.source)
  BY <1>1 DEF DeliveryInd, Rest, Single, OwnedByAnother, Inv, TypeOK
<1>4. CASE GiveUp("cursor_ahead")
  BY <1>4, GiveUpPreserves DEF Reasons
<1>5. CASE pinned[Key] \notin {NoSource, f.source} /\ IdentityChanged(f.source)
  BY <1>5, IdentityChangedPreserves
<1>6. CASE /\ pinned[Key] \in {NoSource, f.source}
           /\ IF pinned[Key] = NoSource THEN PinSource(Key, f.source) ELSE UNCHANGED storeVars
           /\ Proceed(f)
  <2>1. /\ BP!BridgeInd' /\ BP!Known' = BP!Known /\ UNCHANGED <<sourceId, highWatermark, stored>>
        /\ UNCHANGED <<job, offered>>
        /\ \A S : BP!OnlyFrom(S) => BP!OnlyFrom(S)'
        /\ stream'.phase = "active" /\ stream'.source = f.source /\ stream'.cursor = stream.cursor
    BY <1>6, ProceedFacts
  <2>2. /\ Inv' /\ UNCHANGED <<history, tombstones, checkpoints, lost>>
        /\ pinned' = [pinned EXCEPT ![Key] = f.source]
        /\ IF pinned[Key] = NoSource THEN cursor' = [cursor EXCEPT ![Key] = checkpoints[f.source]]
                                    ELSE cursor' = cursor
    <3>1. CASE pinned[Key] = NoSource
      <4>1. Adopt(Key, f.source)
        BY <1>6, <3>1 DEF PinSource
      <4>2. Inv'
        BY <1>1, <4>1, AdoptPreserves DEF DeliveryInd
      <4>3. KnownHighWatermark(f.source) = checkpoints[f.source]
        BY <1>1, KnownIsCheckpoint DEF DeliveryInd
      <4> QED
        BY <3>1, <4>1, <4>2, <4>3 DEF Adopt, ghostVars
    <3>2. CASE pinned[Key] # NoSource
      <4>1. UNCHANGED storeVars /\ pinned[Key] = f.source
        BY <1>6, <3>2
      <4>2. Inv'
        BY <4>1, StoreUnchanged DEF DeliveryInd
      <4>3. pinned = [pinned EXCEPT ![Key] = f.source]
        BY <4>1, StateFacts
      <4> QED
        BY <3>2, <4>1, <4>2, <4>3 DEF storeVars
    <3> QED
      BY <3>1, <3>2
  <2>3. pinned'[Key] = f.source /\ \A k \in Keys \ {Key} : pinned'[k] = pinned[k]
    BY <2>2, StateFacts
  <2>4. PICK s : s = sourceId /\ s = sourceId'
    BY <2>1
  <2>5. Traced'
    <3>1. pinned'[Key] = s \/ offered' = s => BP!OnlyFrom({s})'
      <4>1. f.source = s => BP!OnlyFrom({s})
        BY <1>1, <2>4, Constants, BP!HelloIsCurrent DEF DeliveryInd
      <4>2. offered = s => BP!OnlyFrom({s})
        BY <2>4 DEF DeliveryInd, Rest, Traced
      <4> QED
        BY <2>1, <2>3, <4>1, <4>2
    <3>2. BP!OnlyFrom({s})' => BP!OnlyFrom({sourceId})'
      BY <2>4 DEF BP!OnlyFrom
    <3> QED
      BY <1>1, <2>1, <2>3, <2>4, <3>1, <3>2 DEF Traced, DeliveryInd, Rest
  <2>6. Rest'
    BY <2>1, <2>2, <2>3, <2>5, ThreadGoesOn DEF DeliveryInd, Rest, LostIsGone, Single, Named
  <2>7. ASSUME Steady PROVE Steady'
    <3>1. cursor'[Key] = stream.cursor
      <4>1. CASE pinned[Key] = NoSource
        <5>1. cursor'[Key] = checkpoints[f.source] /\ checkpoints[f.source] = 0
          BY <1>1, <2>2, <2>7, <4>1, StateFacts DEF Steady
        <5>2. stream.pinned = pinned[Key] /\ stream.cursor = cursor[Key] /\ cursor[Key] = 0
          BY <1>2, <2>7, <4>1 DEF Steady
        <5> QED
          BY <5>1, <5>2
      <4>2. CASE pinned[Key] # NoSource
        BY <1>2, <1>6, <2>2, <2>7, <4>2 DEF Steady
      <4> QED
        BY <4>1, <4>2
    <3>2. offered \notin {NoSource, f.source} =>
            f.source # sourceId /\ BP!OnlyFrom(SourceIds \ {f.source})
      BY <1>6, <2>7 DEF Steady
    <3>3. configured' /\ job'.reason # "refused" /\ pinned'[Key] # NoSource
      BY <1>1, <2>1, <2>3, <2>7 DEF Steady, userVars
    <3> QED
      BY <2>1, <2>3, <3>1, <3>2, <3>3 DEF Steady
  <2> QED
    BY <2>1, <2>2, <2>6, <2>7 DEF DeliveryInd
<1> QED
  BY <1>3, <1>4, <1>5, <1>6 DEF AcceptHello

\* A frame behind the hello that is taken leaves the identities as they are.
LEMMA StreamGoesOn ==
  ASSUME DeliveryInd, UNCHANGED userVars, channel # <<>>, NEW f, f = Head(channel),
         BP!Verdict(stream, f) = "accepted", f.type \in {"event", "gap", "heartbeat"}, Proceed(f),
         Inv', UNCHANGED pinned, Named', LostIsGone',
         ~MayRemove /\ Steady => cursor'[Key] = stream'.cursor
  PROVE  DeliveryInd'
<1>1. /\ BP!BridgeInd' /\ BP!Known' = BP!Known /\ UNCHANGED <<sourceId, highWatermark, stored>>
      /\ UNCHANGED <<job, offered>>
      /\ \A S : BP!OnlyFrom(S) => BP!OnlyFrom(S)'
      /\ stream'.phase = "active" /\ stream.phase = "active" /\ stream'.source = stream.source
  BY ProceedFacts
<1>2. Traced'
  <2>1. PICK s : s = sourceId /\ s = sourceId'
    BY <1>1
  <2>2. pinned[Key] = s \/ offered = s => BP!OnlyFrom({s})'
    BY <1>1, <2>1 DEF DeliveryInd, Rest, Traced
  <2>3. BP!OnlyFrom({s})' => BP!OnlyFrom({sourceId})'
    BY <2>1 DEF BP!OnlyFrom
  <2> QED
    BY <1>1, <2>1, <2>2, <2>3 DEF DeliveryInd, Rest, Traced
<1>3. Rest'
  BY <1>1, <1>2, ThreadGoesOn DEF DeliveryInd, Rest, Single
<1>4. ASSUME ~MayRemove PROVE Steady'
  <2>1. PICK p : p = pinned[Key] /\ p = pinned'[Key]
    OBVIOUS
  <2>2. Steady
    BY <1>4 DEF DeliveryInd
  <2>3. stream.source \in SourceIds /\ pinned[Key] # NoSource
    <3>1. stream.source \in SourceIds
      BY <1>1, Constants, BP!HeadFacts DEF DeliveryInd
    <3> QED
      BY <1>1, <2>2, <3>1 DEF Steady
  <2>4. offered \notin {NoSource, p} => p # sourceId /\ BP!OnlyFrom(SourceIds \ {p})'
    BY <1>1, <2>1, <2>2 DEF Steady
  <2>5. BP!OnlyFrom(SourceIds \ {p})' => BP!OnlyFrom(SourceIds \ {pinned[Key]})'
    BY <2>1 DEF BP!OnlyFrom
  <2>6. configured' /\ job'.reason # "refused"
    BY <1>1, <2>2 DEF Steady, userVars
  <2> QED
    BY <1>1, <1>4, <2>1, <2>2, <2>3, <2>4, <2>5, <2>6 DEF Steady
<1> QED
  BY <1>1, <1>3, <1>4 DEF DeliveryInd

LEMMA EventOfIsTyped ==
  ASSUME NEW s \in SourceIds, NEW n \in 1..MaxSequence
  PROVE  /\ EventOf(s, n) \in Event
         /\ EventOf(s, n).source = s /\ EventOf(s, n).sequence = n /\ EventOf(s, n).id = <<s, n>>
<1>1. (CHOOSE b \in Bodies : TRUE) \in Bodies
  OBVIOUS
<1>2. <<s, n>> \in EventIds
  OBVIOUS
<1> QED
  BY <1>1, <1>2 DEF EventOf, Event

\* No row of either table bears on the event behind the cursor.
LEMMA NextEventIsInserted ==
  ASSUME DeliveryInd, NEW s \in SourceIds, NEW n \in 1..MaxSequence,
         pinned[Key] = s, n = cursor[Key] + 1
  PROVE  IngestResult(Key, EventOf(s, n)) = "inserted"
<1> DEFINE e == EventOf(s, n)
<1>1. e.source = s /\ e.sequence = n /\ e.id = <<s, n>>
  BY EventOfIsTyped
<1>2. Key \in registered /\ s # NoSource /\ cursor[Key] = checkpoints[s] /\ cursor[Key] \in Nat
  BY StateFacts DEF DeliveryInd, Inv, PinnedAreRegistered
<1>3. cursor[Key] # MaxSequence
  BY <1>2
<1>4. ASSUME NEW y \in history \union tombstones, Collides(y, e)
      PROVE  FALSE
  <2>1. y.source = s /\ (y.sequence = n \/ y.id = <<s, n>>)
    BY <1>1, <1>4 DEF Collides
  <2>2. y.id = <<y.source, y.sequence>>
    BY DEF DeliveryInd, Rest, Named
  <2>3. y.sequence = n
    BY <2>1, <2>2
  <2>4. y.sequence <= checkpoints[s]
    BY <2>1 DEF DeliveryInd, Inv, Covered
  <2> QED
    BY <1>2, <2>3, <2>4
<1> HIDE DEF e
<1>5. Matching(e) = {}
  BY <1>4 DEF Matching
<1>6. NewEventResult(Key, e) = "inserted"
  BY <1>1, <1>3 DEF NewEventResult
<1>7. IngestResult(Key, e) = "inserted"
  BY <1>1, <1>2, <1>5, <1>6 DEF IngestResult
<1> QED
  BY <1>7 DEF e

LEMMA AcceptEventPreserves ==
  ASSUME DeliveryInd, UNCHANGED userVars, channel # <<>>, NEW f, f = Head(channel),
         BP!Verdict(stream, f) = "accepted", f.type = "event", AcceptEvent(f)
  PROVE  DeliveryInd'
<1> DEFINE e == EventOf(f.source, f.sequence)
           result == IngestResult(Key, e)
<1>1. f \in BP!Frames /\ f.source \in SourceIds /\ f.sequence \in 1..MaxSequence
  BY BP!FrameFields, Constants, BP!HeadFacts DEF DeliveryInd
<1>2. stream.phase = "active" /\ f.source = stream.source /\ f.sequence = stream.cursor + 1
  BY <1>1, BP!VerdictFacts
<1>3. /\ e \in Event /\ e.source = f.source /\ e.sequence = f.sequence
      /\ e.id = <<f.source, f.sequence>>
  BY <1>1, EventOfIsTyped
<1>4. ASSUME Steady PROVE result = "inserted"
  BY <1>1, <1>2, <1>4, NextEventIsInserted DEF Steady
<1>5. ASSUME Steady PROVE pinned[Key] # NoSource
  BY <1>1, <1>2, <1>5 DEF Steady
<1> HIDE DEF e
<1>6. CASE result = "inserted" /\ IngestEvent(Key, e) /\ Proceed(f)
  <2>1. /\ Inv' /\ UNCHANGED <<pinned, tombstones, lost>> /\ history' = history \union {e}
        /\ cursor' = [cursor EXCEPT ![Key] = e.sequence]
    BY <1>3, <1>6, IngestEventPreserves, IngestAdvances DEF DeliveryInd, IngestEvent, Advance
  <2>2. /\ UNCHANGED <<sourceId, highWatermark, stored>> /\ BP!Known' = BP!Known
        /\ stream'.cursor = f.sequence
    BY <1>6, ProceedFacts
  <2>3. Named' /\ LostIsGone'
    BY <1>3, <2>1, <2>2 DEF DeliveryInd, Rest, Named, LostIsGone
  <2>4. cursor'[Key] = stream'.cursor
    BY <1>3, <2>1, <2>2, StateFacts
  <2> QED
    BY <1>6, <2>1, <2>3, <2>4, StreamGoesOn
<1>7. CASE result = "duplicate" /\ UNCHANGED storeVars /\ Proceed(f)
  <2>1. Inv' /\ UNCHANGED <<pinned, history, tombstones, lost>>
    BY <1>7, StoreUnchanged DEF DeliveryInd, storeVars
  <2>2. UNCHANGED <<sourceId, highWatermark, stored>> /\ BP!Known' = BP!Known
    BY <1>7, ProceedFacts
  <2>3. Named' /\ LostIsGone'
    BY <2>1, <2>2 DEF DeliveryInd, Rest, Named, LostIsGone
  <2> QED
    BY <1>4, <1>7, <2>1, <2>3, StreamGoesOn
<1>8. CASE result = "refused" /\ pinned[Key] # NoSource /\ IdentityChanged(f.source)
  BY <1>8, IdentityChangedPreserves
<1>9. CASE result # "inserted" /\ GiveUp("refused")
  BY <1>4, <1>9, GiveUpPreserves DEF Reasons
<1> QED
  BY <1>6, <1>7, <1>8, <1>9 DEF AcceptEvent, e

\* The losses a gap names are gone when the setting is of the spool's identity.
LEMMA AcceptGapPreserves ==
  ASSUME DeliveryInd, UNCHANGED userVars, channel # <<>>, NEW f, f = Head(channel),
         BP!Verdict(stream, f) = "accepted", f.type = "gap", AcceptGap(f)
  PROVE  DeliveryInd'
<1> DEFINE result == GapResult(Key, f.after, f.through)
<1>1. f \in BP!Frames /\ f.after \in 0..MaxSequence /\ f.through \in 1..MaxSequence
  BY BP!FrameFields, Constants, BP!HeadFacts DEF DeliveryInd
<1>2. /\ stream.phase = "active" /\ stream.source \in SourceIds
      /\ f.after = stream.cursor /\ f.after < f.through
      /\ stream.source = sourceId =>
           f.through <= highWatermark /\ \A n \in stored : ~(f.after < n /\ n <= f.through)
  <2>1. stream.phase = "active"
    BY <1>1, BP!VerdictFacts
  <2> QED
    BY <2>1, Constants, BP!HeadFacts DEF DeliveryInd
<1>3. ASSUME Steady PROVE result = "recorded"
  <2>1. pinned[Key] = stream.source /\ pinned[Key] # NoSource /\ cursor[Key] = f.after
    BY <1>2, <1>3 DEF Steady
  <2>2. Key \in registered /\ cursor[Key] = checkpoints[pinned[Key]]
    BY <2>1, StateFacts DEF DeliveryInd, Inv, PinnedAreRegistered
  <2>3. LostRange(pinned[Key], f.after, f.through) \notin gaps
    <3>1. SUFFICES ASSUME LostRange(pinned[Key], f.after, f.through) \in gaps PROVE FALSE
      OBVIOUS
    <3>2. f.through <= checkpoints[pinned[Key]]
      BY <3>1 DEF DeliveryInd, Inv, Covered, LostRange
    <3> QED
      BY <1>1, <1>2, <2>1, <2>2, <3>2
  <2>4. f.through > f.after
    BY <1>1, <1>2
  <2> QED
    BY <2>1, <2>2, <2>3, <2>4 DEF GapResult
<1>4. CASE result = "recorded" /\ RecordGap(Key, f.after, f.through) /\ Proceed(f)
  <2>1. f.through \in 0..MaxSequence
    BY <1>1
  <2>2. /\ Inv' /\ pinned[Key] \in SourceIds /\ UNCHANGED <<pinned, history, tombstones>>
        /\ cursor' = [cursor EXCEPT ![Key] = f.through]
        /\ lost' = lost \union {<<pinned[Key], n>> : n \in (f.after + 1)..f.through}
    <3>1. Key \in Keys /\ Inv
      BY Constants DEF DeliveryInd
    <3>2. RecordGap(Key, f.after, f.through)
      BY <1>4
    <3>3. Inv' /\ pinned[Key] \in SourceIds /\ cursor' = [cursor EXCEPT ![Key] = f.through]
      BY <1>1, <2>1, <3>1, <3>2, RecordGapPreserves, RecordedIsNext
    <3> QED
      BY <3>2, <3>3 DEF RecordGap, Advance, outboxVars
  <2>3. /\ UNCHANGED <<sourceId, highWatermark, stored>> /\ BP!Known' = BP!Known
        /\ stream'.cursor = f.through
    BY <1>4, ProceedFacts
  <2>4. LostIsGone'
    <3>1. SUFFICES ASSUME NEW s \in SourceIds, NEW n \in 1..MaxSequence, <<s, n>> \in lost'
                   PROVE  s \in BP!Known /\ (s = sourceId => n <= highWatermark /\ n \notin stored)
      BY <2>3 DEF LostIsGone
    <3>2. CASE <<s, n>> \in lost
      BY <3>2 DEF DeliveryInd, Rest, LostIsGone
    <3>3. CASE s = pinned[Key] /\ f.after < n /\ n <= f.through
      <4>1. s \in BP!Known
        BY <2>2, <3>3 DEF DeliveryInd, Rest, Traced
      <4>2. s = sourceId => stream.source = sourceId
        BY <1>2, <3>3 DEF DeliveryInd, Rest, Traced, BP!OnlyFrom
      <4>3. s = sourceId => n <= highWatermark
        BY <1>1, <1>2, <3>3, <4>2, StateFacts
      <4> QED
        BY <1>2, <3>3, <4>1, <4>2, <4>3
    <3>4. <<s, n>> \in lost \/ (s = pinned[Key] /\ f.after < n /\ n <= f.through)
      <4>1. <<s, n>> \in lost \/ \E m \in (f.after + 1)..f.through : <<s, n>> = <<pinned[Key], m>>
        BY <2>2, <3>1
      <4> QED
        BY <1>1, <4>1
    <3> QED
      BY <3>2, <3>3, <3>4
  <2>5. Named' /\ cursor'[Key] = stream'.cursor
    BY <2>2, <2>3, StateFacts DEF DeliveryInd, Rest, Named
  <2> QED
    BY <1>4, <2>2, <2>4, <2>5, StreamGoesOn
<1>5. CASE result = "duplicate" /\ UNCHANGED storeVars /\ Proceed(f)
  <2>1. Inv' /\ UNCHANGED <<pinned, history, tombstones, lost>>
    BY <1>5, StoreUnchanged DEF DeliveryInd, storeVars
  <2>2. UNCHANGED <<sourceId, highWatermark, stored>> /\ BP!Known' = BP!Known
    BY <1>5, ProceedFacts
  <2>3. Named' /\ LostIsGone'
    BY <2>1, <2>2 DEF DeliveryInd, Rest, Named, LostIsGone
  <2> QED
    BY <1>3, <1>5, <2>1, <2>3, StreamGoesOn
<1>6. CASE result # "recorded" /\ GiveUp("refused")
  BY <1>3, <1>6, GiveUpPreserves DEF Reasons
<1> QED
  BY <1>4, <1>5, <1>6 DEF AcceptGap

LEMMA HeartbeatPreserves ==
  ASSUME DeliveryInd, UNCHANGED userVars, channel # <<>>, NEW f, f = Head(channel),
         BP!Verdict(stream, f) = "accepted", f.type = "heartbeat",
         UNCHANGED storeVars, Proceed(f)
  PROVE  DeliveryInd'
<1>1. Inv' /\ UNCHANGED <<pinned, cursor, history, tombstones, lost>>
  BY StoreUnchanged DEF DeliveryInd, storeVars
<1>2. /\ UNCHANGED <<sourceId, highWatermark, stored>> /\ BP!Known' = BP!Known
      /\ stream'.cursor = stream.cursor /\ stream.phase = "active"
  BY ProceedFacts
<1>3. Named' /\ LostIsGone'
  BY <1>1, <1>2 DEF DeliveryInd, Rest, Named, LostIsGone
<1>4. Steady => cursor'[Key] = stream'.cursor
  BY <1>1, <1>2 DEF Steady
<1> QED
  BY <1>1, <1>3, <1>4, StreamGoesOn

LEMMA AcceptErrorPreserves ==
  ASSUME DeliveryInd, UNCHANGED userVars, NEW f, AcceptError(f)
  PROVE  DeliveryInd'
<1>1. EndChild /\ UNCHANGED storeVars /\ UNCHANGED offered
  BY DEF AcceptError
<1>2. "spool_unavailable" \in Reasons \ {"refused"} /\ "remote_error" \in Reasons
  BY DEF Reasons
<1>3. CASE RetryUnlessComplaint("spool_unavailable")
  BY <1>1, <1>2, <1>3, RetryPreserves
<1>4. CASE Park("remote_error")
  BY <1>1, <1>2, <1>4, GiveUpPreserves DEF GiveUp
<1> QED
  BY <1>3, <1>4 DEF AcceptError

\* What the validator makes of the frames that can be at the head.
LEMMA VerdictAtHead ==
  ASSUME DeliveryInd, channel # <<>>, NEW f, f = Head(channel),
         stream.phase \in {"awaiting_hello", "active"}
  PROVE  /\ f \in BP!Frames
         /\ BP!Verdict(stream, f) \in {"accepted", "refused", "identity_mismatch"}
         /\ BP!Verdict(stream, f) = "refused" => f.type = "hello"
         /\ BP!Verdict(stream, f) = "identity_mismatch" =>
              /\ f.type \in {"hello", "event"}
              /\ stream.phase = "awaiting_hello" => stream.pinned # NoSource
<1>1. /\ f \in BP!Frames
      /\ stream.phase = "awaiting_hello" => f.type \in {"hello", "error"}
  BY Constants, BP!HeadFacts DEF DeliveryInd
<1>2. f.type \in {"hello", "event", "gap", "error", "heartbeat"}
  BY <1>1, BP!FrameFields
<1>3. CASE stream.phase = "awaiting_hello"
  <2>1. CASE f.type = "error"
    BY <1>1, <1>3, <2>1 DEF BP!Verdict, BP!ValidFrame, BP!VerdictBeforeHello
  <2>2. CASE f.type = "hello"
    <3>1. BP!Verdict(stream, f) \in {"accepted", "refused", "identity_mismatch"}
      BY <1>3, <2>2 DEF BP!Verdict, BP!VerdictBeforeHello
    <3>2. BP!Verdict(stream, f) = "identity_mismatch" => stream.pinned # NoSource
      BY <1>3, <2>2 DEF BP!Verdict, BP!VerdictBeforeHello
    <3> QED
      BY <1>1, <2>2, <3>1, <3>2
  <2> QED
    BY <1>1, <1>3, <2>1, <2>2
<1>4. CASE stream.phase = "active"
  <2>1. BP!Verdict(stream, f) \in {"accepted", "identity_mismatch"}
    BY <1>4, Constants, BP!IndImpliesInv DEF DeliveryInd, BP!BridgeInv, BP!StreamIsAccepted
  <2>2. BP!Verdict(stream, f) = "identity_mismatch" => f.type = "event"
    <3>1. BP!Verdict(stream, f) = "identity_mismatch" =>
            BP!VerdictActive(stream, f) = "identity_mismatch"
      BY <1>4 DEF BP!Verdict
    <3> QED
      BY <1>2, <3>1 DEF BP!VerdictActive
  <2> QED
    BY <1>1, <1>4, <2>1, <2>2
<1> QED
  BY <1>3, <1>4

\* An active stream is of an identity, and a mismatch is not of the first one.
LEMMA MismatchIsOfPinned ==
  ASSUME DeliveryInd, Steady, channel # <<>>, NEW f, f = Head(channel),
         \/ stream.phase = "active"
         \/ stream.phase = "awaiting_hello" /\ BP!Verdict(stream, f) = "identity_mismatch"
  PROVE  pinned[Key] # NoSource
<1>1. CASE stream.phase = "active"
  <2>1. stream.source \in SourceIds
    BY <1>1, Constants, BP!HeadFacts DEF DeliveryInd
  <2> QED
    BY <1>1, <2>1 DEF Steady
<1>2. CASE stream.phase = "awaiting_hello" /\ BP!Verdict(stream, f) = "identity_mismatch"
  <2>1. stream.pinned # NoSource
    BY <1>2, VerdictAtHead
  <2> QED
    BY <1>2, <2>1 DEF Steady
<1> QED
  BY <1>1, <1>2

\* An event behind the validator can only be of another identity.
LEMMA AcceptReplayPreserves ==
  ASSUME DeliveryInd, UNCHANGED userVars, channel # <<>>, NEW f, f = Head(channel),
         f.type = "event", stream.phase = "active", f.sequence <= stream.cursor, AcceptReplay(f)
  PROVE  DeliveryInd'
<1>1. f \in BP!Frames /\ (f.source = stream.source => f.sequence = stream.cursor + 1)
  BY Constants, BP!HeadFacts DEF DeliveryInd
<1>2. f.sequence \in Int /\ stream.cursor \in Int
  BY <1>1, BP!FrameFields, StateFacts
<1>3. f.source # stream.source
  BY <1>1, <1>2
<1>4. IdentityChanged(f.source)
  BY <1>3 DEF AcceptReplay
<1>5. Steady => pinned[Key] # NoSource
  BY MismatchIsOfPinned
<1> QED
  BY <1>4, <1>5, IdentityChangedPreserves

LEMMA AcceptFramePreserves ==
  ASSUME DeliveryInd, AcceptFrame
  PROVE  DeliveryInd'
<1>1. /\ channel # <<>> /\ UNCHANGED userVars /\ stream.phase \in {"awaiting_hello", "active"}
  BY DEF AcceptFrame, DeliveryInd, Rest, Thread
<1>2. PICK f : f = Head(channel)
  OBVIOUS
<1> DEFINE answer == BP!Verdict(stream, f)
           replay == f.type = "event" /\ stream.phase = "active" /\ f.sequence <= stream.cursor
<1>3. /\ f.type \in {"hello", "event", "gap", "error", "heartbeat"}
      /\ answer \in {"accepted", "refused", "identity_mismatch"}
      /\ answer = "refused" => f.type = "hello"
      /\ answer = "identity_mismatch" => f.type \in {"hello", "event"}
  BY <1>1, <1>2, VerdictAtHead, BP!FrameFields
<1>4. B!Verdict(stream, f) = answer
  BY SameValidator
<1>5. CASE replay /\ AcceptReplay(f)
  BY <1>1, <1>2, <1>5, AcceptReplayPreserves
<1>6. CASE answer = "identity_mismatch" /\ IdentityChanged(f.source)
  <2>1. Steady => pinned[Key] # NoSource
    BY <1>1, <1>2, <1>6, MismatchIsOfPinned
  <2> QED
    BY <1>1, <1>2, <1>3, <1>6, <2>1, IdentityChangedPreserves
<1>7. CASE f.type = "hello" /\ GiveUp("bad_hello")
  BY <1>1, <1>7, GiveUpPreserves DEF Reasons
<1>8. CASE answer = "accepted" /\ f.type = "hello" /\ AcceptHello(f)
  BY <1>1, <1>2, <1>8, AcceptHelloPreserves
<1>9. CASE answer = "accepted" /\ f.type = "event" /\ AcceptEvent(f)
  BY <1>1, <1>2, <1>9, AcceptEventPreserves
<1>10. CASE answer = "accepted" /\ f.type = "gap" /\ AcceptGap(f)
  BY <1>1, <1>2, <1>10, AcceptGapPreserves
<1>11. CASE f.type = "error" /\ AcceptError(f)
  BY <1>1, <1>11, AcceptErrorPreserves
<1>12. CASE answer = "accepted" /\ f.type = "heartbeat" /\ UNCHANGED storeVars /\ Proceed(f)
  BY <1>1, <1>2, <1>12, HeartbeatPreserves
<1> HIDE DEF answer, replay
<1>13. CASE replay
  <2>1. AcceptReplay(f)
    BY <1>2, <1>13 DEF AcceptFrame, replay
  <2> QED
    BY <1>5, <1>13, <2>1
<1>14. CASE ~replay /\ answer = "identity_mismatch"
  <2>1. IdentityChanged(f.source)
    BY <1>2, <1>4, <1>14 DEF AcceptFrame, replay
  <2> QED
    BY <1>6, <1>14, <2>1
<1>15. CASE ~replay /\ answer = "refused"
  <2>1. GiveUp("bad_hello")
    BY <1>2, <1>3, <1>4, <1>15 DEF AcceptFrame, replay
  <2> QED
    BY <1>3, <1>7, <1>15, <2>1
<1>16. CASE ~replay /\ answer = "accepted"
  <2>1. /\ f.type = "hello" => AcceptHello(f)
        /\ f.type = "event" => AcceptEvent(f)
        /\ f.type = "gap" => AcceptGap(f)
        /\ f.type = "error" => AcceptError(f)
        /\ f.type = "heartbeat" => UNCHANGED storeVars /\ Proceed(f)
    BY <1>2, <1>4, <1>16 DEF AcceptFrame, replay
  <2> QED
    BY <1>3, <1>8, <1>9, <1>10, <1>11, <1>12, <1>16, <2>1
<1> QED
  BY <1>3, <1>13, <1>14, <1>15, <1>16

-------------------------------------------------------------------------------
(* The remote host *)

\* The desktop sees of it what it reads from the channel.
LEMMA RemoteHostPreserves ==
  ASSUME DeliveryInd, OnlyRemote, BP!BridgeInd', BP!Known \subseteq BP!Known',
         sourceId' \in {sourceId} \union (SourceIds \ BP!Known),
         sourceId' = sourceId =>
           /\ highWatermark <= highWatermark'
           /\ \A n \in stored' \ stored : n > highWatermark
           /\ highWatermark' \in Int,
         \A S : BP!OnlyFrom(S) /\ sourceId \in S => BP!OnlyFrom(S)'
  PROVE  DeliveryInd'
<1>1. /\ Inv' /\ UNCHANGED <<pinned, cursor, history, tombstones, checkpoints, lost>>
      /\ UNCHANGED <<stream, configured, generation, changes, job, offered>>
  BY StoreUnchanged DEF DeliveryInd, OnlyRemote, storeVars, userVars
<1>2. Thread' /\ Single' /\ Named'
  BY <1>1 DEF DeliveryInd, Rest, Thread, Single, Named
<1>3. LostIsGone'
  <2>1. SUFFICES ASSUME NEW s \in SourceIds, NEW n \in 1..MaxSequence, <<s, n>> \in lost
                 PROVE  /\ s \in BP!Known'
                        /\ s = sourceId' => n <= highWatermark' /\ n \notin stored'
    BY <1>1 DEF LostIsGone
  <2>2. s \in BP!Known /\ (s = sourceId => n <= highWatermark /\ n \notin stored)
    BY <2>1 DEF DeliveryInd, Rest, LostIsGone
  <2>3. s = sourceId' => sourceId' = sourceId
    BY <2>2
  <2> QED
    BY <2>2, <2>3, StateFacts
<1>4. Traced'
  <2>1. pinned[Key] \in BP!Known \union {NoSource} /\ offered \in BP!Known \union {NoSource}
    BY DEF DeliveryInd, Rest, Traced
  <2>2. PICK s : s = sourceId
    OBVIOUS
  <2>3. sourceId' = s \/ sourceId' \in SourceIds \ BP!Known
    BY <2>2
  <2>4. CASE sourceId' = s
    <3>1. pinned[Key] = s \/ offered = s => BP!OnlyFrom({s})'
      BY <2>2 DEF DeliveryInd, Rest, Traced
    <3>2. BP!OnlyFrom({s})' => BP!OnlyFrom({sourceId})'
      BY <2>4 DEF BP!OnlyFrom
    <3> QED
      BY <1>1, <2>1, <2>4, <3>1, <3>2 DEF Traced
  <2>5. CASE sourceId' \in SourceIds \ BP!Known
    BY <1>1, <2>1, <2>5 DEF Traced
  <2> QED
    BY <2>3, <2>4, <2>5
<1>5. ASSUME Steady PROVE Steady'
  <2>1. PICK p : p = pinned[Key] /\ p = pinned'[Key]
    BY <1>1
  <2>2. offered \notin {NoSource, p} => p # sourceId' /\ BP!OnlyFrom(SourceIds \ {p})'
    <3>1. SUFFICES ASSUME offered \notin {NoSource, p}
                   PROVE  p # sourceId' /\ BP!OnlyFrom(SourceIds \ {p})'
      OBVIOUS
    <3>2. p # sourceId /\ BP!OnlyFrom(SourceIds \ {p}) /\ p \in BP!Known \union {NoSource}
      BY <1>5, <2>1, <3>1 DEF Steady, DeliveryInd, Rest, Traced
    <3> QED
      BY <3>2, StateFacts
  <2>3. BP!OnlyFrom(SourceIds \ {p})' => BP!OnlyFrom(SourceIds \ {pinned[Key]})'
    BY <2>1 DEF BP!OnlyFrom
  <2> QED
    BY <1>1, <1>5, <2>1, <2>2, <2>3 DEF Steady
<1> QED
  BY <1>1, <1>2, <1>3, <1>4, <1>5 DEF DeliveryInd, Rest

LEMMA RemoteSpoolStepPreserves ==
  ASSUME DeliveryInd, RemoteSpoolStep
  PROVE  DeliveryInd'
<1>1. BP!SpoolStep /\ OnlyRemote /\ UNCHANGED stream
  BY SameSpoolStep DEF RemoteSpoolStep, OnlyRemote
<1>2. BP!BridgeInd'
  BY <1>1, Constants, BP!SpoolStepPreserves DEF DeliveryInd
<1>3. \A S : BP!OnlyFrom(S) => BP!OnlyFrom(S)'
  BY <1>1, BP!SpoolStepKeepsOrigin
<1>4. /\ BP!Known \subseteq BP!Known'
      /\ sourceId' \in {sourceId} \union (SourceIds \ BP!Known)
      /\ sourceId' = sourceId =>
           /\ highWatermark <= highWatermark'
           /\ \A n \in stored' \ stored : n > highWatermark
           /\ highWatermark' \in Int
  <2>0. highWatermark \in Int /\ sourceId \in BP!Known
    BY StateFacts
  <2>1. CASE BP!StoreEvent
    BY <2>0, <2>1 DEF BP!StoreEvent, BP!Source!Append, BP!Known
  <2>2. CASE BP!PruneEvents
    BY <2>0, <2>2 DEF BP!PruneEvents, BP!Source!Prune, BP!Known
  <2>3. CASE BP!RegenerateIdentity
    BY <2>0, <2>3 DEF BP!RegenerateIdentity, BP!Source!ChangeIdentity, BP!Known
  <2> QED
    BY <1>1, <2>1, <2>2, <2>3 DEF BP!SpoolStep
<1> QED
  BY <1>1, <1>2, <1>3, <1>4, RemoteHostPreserves

LEMMA RemoteBridgeStepPreserves ==
  ASSUME DeliveryInd, RemoteBridgeStep
  PROVE  DeliveryInd'
<1>1. BP!BridgeStep /\ OnlyRemote /\ UNCHANGED stream
  BY SameBridgeStep DEF RemoteBridgeStep, OnlyRemote
<1>2. BP!BridgeInd'
  BY <1>1, Constants, BP!BridgeStepPreserves DEF DeliveryInd
<1>3. \A S : BP!OnlyFrom(S) /\ sourceId \in S => BP!OnlyFrom(S)'
  BY <1>1, Constants, BP!BridgeStepKeepsOrigin DEF DeliveryInd
<1>4. UNCHANGED <<sourceId, highWatermark, stored, retired>>
  BY <1>1 DEF BP!BridgeStep, BP!ReadIdentity, BP!ReadOldest, BP!SnapshotCorrupt, BP!SayHello,
     BP!FollowUp, BP!ReadRows, BP!WriteEvent, BP!EndPage, BP!CheckForMore, BP!Sleep, BP!spoolVars
<1> QED
  BY <1>1, <1>2, <1>3, <1>4, StateFacts, RemoteHostPreserves DEF BP!Known

LEMMA ConnectionBreaksPreserves ==
  ASSUME DeliveryInd, ConnectionBreaks
  PROVE  DeliveryInd'
<1>1. BP!Break /\ OnlyRemote /\ UNCHANGED stream
  BY SameBreak DEF ConnectionBreaks, OnlyRemote
<1>2. BP!BridgeInd'
  BY <1>1, Constants, BP!BreakPreserves DEF DeliveryInd
<1>3. BP!Off /\ UNCHANGED <<sourceId, highWatermark, stored, retired>>
  BY <1>1 DEF BP!Break, BP!spoolVars
<1>4. BP!Carried(channel') \subseteq BP!Carried(channel)
  <2>1. PICK n \in 0..Len(channel) : channel' = SubSeq(channel, 1, n)
    BY <1>1 DEF BP!Break
  <2>2. channel \in Seq(BP!Frames) /\ Len(channel) \in Nat
    BY DEF DeliveryInd, BP!BridgeInd, BP!Types
  <2>3. Len(channel') = n /\ \A i \in 1..n : channel'[i] = channel[i]
    BY <2>1, <2>2
  <2>4. 1..n \subseteq 1..Len(channel)
    BY <2>2
  <2> QED
    BY <2>3, <2>4 DEF BP!Carried
<1>5. \A S : BP!OnlyFrom(S) => BP!OnlyFrom(S)'
  BY <1>1, <1>3, <1>4, Constants, BP!OffKeepsOrigin
<1> QED
  BY <1>1, <1>2, <1>3, <1>5, StateFacts, RemoteHostPreserves DEF BP!Known

-------------------------------------------------------------------------------
(* The theorems *)

LEMMA StutterPreservesDelivery ==
  ASSUME DeliveryInd, UNCHANGED vars
  PROVE  DeliveryInd'
<1>1. /\ UNCHANGED <<remoteVars, stream>> /\ UNCHANGED storeVars
      /\ UNCHANGED <<configured, generation, changes, job, offered>>
  BY DEF vars, userVars
<1>2. Inv' /\ UNCHANGED <<pinned, cursor, history, tombstones, checkpoints, lost>>
  BY <1>1, StoreUnchanged DEF DeliveryInd, storeVars
<1>3. /\ BP!BridgeInd' /\ BP!Known' = BP!Known /\ UNCHANGED <<sourceId, highWatermark, stored>>
      /\ \A S : BP!OnlyFrom(S)' <=> BP!OnlyFrom(S)
  BY <1>1, RemoteUnchanged DEF DeliveryInd
<1>4. Rest'
  BY <1>1, <1>2, <1>3 DEF DeliveryInd, Rest, Thread, Traced, LostIsGone, Single, Named
<1> QED
  BY <1>1, <1>2, <1>3, <1>4 DEF DeliveryInd, Steady

LEMMA StepPreserves == DeliveryInd /\ [Step]_vars => DeliveryInd'
<1> SUFFICES ASSUME DeliveryInd, [Step]_vars PROVE DeliveryInd'
  OBVIOUS
<1>1. CASE UserStep
  BY <1>1, AddRemoteSourcePreserves, RemoveRemoteSourcePreserves, ReconnectRemoteSourcePreserves,
     ConfirmRemoteIdentityPreserves DEF UserStep
<1>2. CASE RestartDesktop
  BY <1>2, RestartDesktopPreserves
<1>3. CASE SyncFleet
  BY <1>3, SyncFleetPreserves
<1>4. CASE JobStep
  BY <1>4, OpenConsumerPreserves, AcceptFramePreserves, EndOfStreamPreserves DEF JobStep
<1>5. CASE ConnectionTimesOut
  BY <1>5, ConnectionTimesOutPreserves
<1>6. CASE RemoteSpoolStep
  BY <1>6, RemoteSpoolStepPreserves
<1>7. CASE RemoteBridgeStep
  BY <1>7, RemoteBridgeStepPreserves
<1>8. CASE ConnectionBreaks
  BY <1>8, ConnectionBreaksPreserves
<1>9. CASE UNCHANGED vars
  BY <1>9, StutterPreservesDelivery
<1> QED
  BY <1>1, <1>2, <1>3, <1>4, <1>5, <1>6, <1>7, <1>8, <1>9 DEF Step

LEMMA DeliveryIndHolds == DeliverySpec => []DeliveryInd
BY BeginIsInd, StepPreserves, PTL DEF DeliverySpec

LEMMA FramesFollow == DeliveryInd => FramesAreTrue
BY Constants, BP!IndImpliesInv, SameInv DEF DeliveryInd, FramesAreTrue

LEMMA LossesFollow == DeliveryInd => NothingStoredIsLost
<1> SUFFICES ASSUME DeliveryInd, NEW n \in stored, <<sourceId, n>> \in lost PROVE FALSE
  BY DEF NothingStoredIsLost
<1>1. sourceId \in SourceIds /\ n \in 1..MaxSequence
  <2>1. stored \in SUBSET (1..highWatermark)
    BY DEF DeliveryInd, BP!BridgeInd, BP!Types, BP!TypeOK
  <2> QED
    BY <2>1, StateFacts
<1> QED
  BY <1>1 DEF DeliveryInd, Rest, LostIsGone

LEMMA DeliveryFollows == DeliveryInd => DeliveryInv
<1> SUFFICES ASSUME DeliveryInd PROVE DeliveryInv
  OBVIOUS
<1>1. TypeOK /\ B!TypeOK
  <2>1. B!BridgeInv
    BY FramesFollow DEF FramesAreTrue
  <2> QED
    BY <2>1 DEF DeliveryInd, Inv, B!BridgeInv
<1>2. generation \in 0..MaxChanges /\ configured \in BOOLEAN /\ job \in Jobs
  BY DEF DeliveryInd, Rest, Thread
<1>3. DeliveryTypeOK
  BY <1>1, <1>2, StateFacts DEF DeliveryTypeOK, Jobs
<1>4. ASSUME Steady PROVE CursorsAgree /\ NeverRefused
  BY <1>4 DEF Steady, CursorsAgree, NeverRefused
<1> QED
  BY <1>3, <1>4, LossesFollow DEF DeliveryInd, DeliveryInv

\* End to end the frames stay true: with the consumer of the desktop, its thread, its
\* restarts and the user in the place of a receiver that always listens, what is on
\* its way can be taken and no gap in it names an event that is still there.
THEOREM FramesStayTrue == DeliverySpec => []FramesAreTrue
BY FramesFollow, DeliveryIndHolds, PTL

\* The desktop never writes off an event the source still has, whatever happens to
\* the connection, the identity of the spool, the setting and the desktop itself.
THEOREM LossesAreReal == DeliverySpec => []NothingStoredIsLost
BY LossesFollow, DeliveryIndHolds, PTL

\* And unless the source is removed, the validator in memory and the cursor in the
\* database agree, and what an intact bridge sends is never refused.
THEOREM DeliveryIsRight == DeliverySpec => []DeliveryInv
BY DeliveryFollows, DeliveryIndHolds, PTL
===============================================================================
