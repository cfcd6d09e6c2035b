---------------------------- MODULE Bridge_proofs ----------------------------
(***************************************************************************)
(* Proofs about Bridge for any number of identities, events and frames on  *)
(* their way: what a receiver gets can be taken, and is true.              *)
(*                                                                         *)
(* The argument.  A connection has one origin: the identity its hello      *)
(* names.  The frames on their way lead the validator, one after the       *)
(* other, from where it stands to where the process stands (Leads); while  *)
(* the origin is still the identity of the spool, each of them is true     *)
(* (FrameIsTrue), because what the process has read so far bounds what the *)
(* spool can have become since (Reading).                                  *)
(*                                                                         *)
(* The lemmas on single steps leave open who receives: RemoteDelivery uses *)
(* them with the consumer of the desktop in the place of the receiver.     *)
(***************************************************************************)
EXTENDS Bridge, FiniteSetTheorems, SequenceTheorems, WellFoundedInduction, TLAPS

Sources == SourceIds \union {NoSource}

ErrorCodes == {"spool_unavailable", "spool_corrupt", "cursor_ahead", "source_identity_changed"}

Frames ==
  [type : {"hello"}, source : SourceIds, oldest : 0..MaxSequence, latest : 0..MaxSequence]
    \union [type : {"event"}, source : SourceIds, sequence : 1..MaxSequence]
    \union [type : {"gap"}, after : 0..MaxSequence, through : 1..MaxSequence]
    \union [type : {"error"}, code : ErrorCodes]
    \union [type : {"heartbeat"}]

\* What a frame holds.
LEMMA FrameFields ==
  ASSUME NEW f \in Frames
  PROVE  /\ f.type \in {"hello", "event", "gap", "error", "heartbeat"}
         /\ f.type = "hello" =>
              f.source \in SourceIds /\ f.oldest \in 0..MaxSequence /\ f.latest \in 0..MaxSequence
         /\ f.type = "event" => f.source \in SourceIds /\ f.sequence \in 1..MaxSequence
         /\ f.type = "gap" => f.after \in 0..MaxSequence /\ f.through \in 1..MaxSequence
<1>1. CASE f \in [type : {"hello"}, source : SourceIds, oldest : 0..MaxSequence,
                  latest : 0..MaxSequence]
  BY <1>1
<1>2. CASE f \in [type : {"event"}, source : SourceIds, sequence : 1..MaxSequence]
  BY <1>2
<1>3. CASE f \in [type : {"gap"}, after : 0..MaxSequence, through : 1..MaxSequence]
  BY <1>3
<1>4. CASE f \in [type : {"error"}, code : ErrorCodes]
  BY <1>4
<1>5. CASE f \in [type : {"heartbeat"}]
  BY <1>5
<1> QED
  BY <1>1, <1>2, <1>3, <1>4, <1>5, Zenon DEF Frames

StreamStates ==
  [phase : {"closed", "awaiting_hello", "active", "terminal", "refused"},
   pinned : Sources, source : Sources, cursor : 0..MaxSequence, required : 0..MaxSequence]

Types ==
  /\ TypeOK
  /\ channel \in Seq(Frames)
  /\ stream \in StreamStates

-------------------------------------------------------------------------------
(* Where the frames on their way lead *)

\* Where a validator is; it is over when nothing more is taken.
Positions ==
  [phase : {"awaiting_hello", "active", "over"}, cursor : 0..MaxSequence,
   required : 0..MaxSequence]

PositionOf(st) ==
  [phase |-> IF st.phase \in {"awaiting_hello", "active"} THEN st.phase ELSE "over",
   cursor |-> st.cursor, required |-> st.required]

At(phase, cursor, required) == [phase |-> phase, cursor |-> cursor, required |-> required]

\* The frame f takes a validator of the connection of s from a to b, now that the
\* spool has the identity id.  An invalid hello, an error and an event of another
\* identity end it.
Follows(id, s, a, f, b) ==
  \/ a.phase = "over" /\ b.phase = "over"
  \/ f.type = "error" /\ b.phase = "over"
  \/ a.phase = "awaiting_hello" /\ f.type = "hello" /\ ~ValidFrame(f) /\ b.phase = "over"
  \/ a.phase = "awaiting_hello" /\ f.type = "hello" /\ ValidFrame(f)
       /\ b = At("active", a.cursor, RequiredGap(a.cursor, f))
  \/ a.phase = "active" /\ f.type = "heartbeat" /\ b = a
  \/ a.phase = "active" /\ f.type = "event" /\ a.required = 0
       /\ f.source # s /\ s # id /\ b.phase = "over"
  \/ a.phase = "active" /\ f.type = "event" /\ a.required = 0
       /\ f.source = s /\ f.sequence = a.cursor + 1 /\ b = At("active", f.sequence, 0)
  \/ a.phase = "active" /\ f.type = "gap" /\ a.required \in {0, f.through}
       /\ f.after = a.cursor /\ f.through > f.after /\ b = At("active", f.through, 0)

\* The frames of ch lead from a to b.
Leads(id, s, a, ch, b) ==
  \E p \in [1..(Len(ch) + 1) -> Positions] :
    /\ p[1] = a
    /\ p[Len(ch) + 1] = b
    /\ \A i \in 1..Len(ch) : Follows(id, s, p[i], ch[i], p[i + 1])

LEMMA NoFramesLeadNowhere ==
  ASSUME NEW id, NEW s, NEW a \in Positions
  PROVE  Leads(id, s, a, << >>, a)
<1> DEFINE p == [i \in 1..1 |-> a]
<1>1. p \in [1..(Len(<< >>) + 1) -> Positions] /\ p[1] = a /\ p[Len(<< >>) + 1] = a
  OBVIOUS
<1>2. \A i \in 1..Len(<< >>) : Follows(id, s, p[i], << >>[i], p[i + 1])
  OBVIOUS
<1> HIDE DEF p
<1> QED
  BY <1>1, <1>2 DEF Leads

LEMMA FrameLeads ==
  ASSUME NEW id, NEW s, NEW a \in Positions, NEW b \in Positions, NEW f,
         Follows(id, s, a, f, b)
  PROVE  Leads(id, s, a, <<f>>, b)
<1> DEFINE p == [i \in 1..2 |-> IF i = 1 THEN a ELSE b]
<1>1. Len(<<f>>) = 1 /\ <<f>>[1] = f
  OBVIOUS
<1>2. p \in [1..2 -> Positions] /\ p[1] = a /\ p[2] = b
  OBVIOUS
<1> HIDE DEF p
<1>3. \A i \in 1..1 : Follows(id, s, p[i], <<f>>[i], p[i + 1])
  <2> SUFFICES Follows(id, s, p[1], <<f>>[1], p[1 + 1])
    OBVIOUS
  <2> QED
    BY <1>1, <1>2
<1> QED
  BY <1>1, <1>2, <1>3 DEF Leads

\* Frames written behind others go on from where those lead.
LEMMA LeadsOn ==
  ASSUME NEW id, NEW s, NEW a, NEW b, NEW c,
         NEW ch \in Seq(Frames), NEW fs \in Seq(Frames),
         Leads(id, s, a, ch, b), Leads(id, s, b, fs, c)
  PROVE  Leads(id, s, a, ch \o fs, c)
<1> DEFINE m == Len(ch)
           n == Len(fs)
<1>1. m \in Nat /\ n \in Nat
  BY LenProperties
<1>2. Len(ch \o fs) = m + n
      /\ \A i \in 1..(m + n) : (ch \o fs)[i] = IF i <= m THEN ch[i] ELSE fs[i - m]
  BY ConcatProperties
<1>3. PICK p \in [1..(m + 1) -> Positions] :
        p[1] = a /\ p[m + 1] = b /\ \A i \in 1..m : Follows(id, s, p[i], ch[i], p[i + 1])
  BY DEF Leads
<1>4. PICK q \in [1..(n + 1) -> Positions] :
        q[1] = b /\ q[n + 1] = c /\ \A i \in 1..n : Follows(id, s, q[i], fs[i], q[i + 1])
  BY DEF Leads
<1> HIDE DEF m, n
<1> DEFINE r == [i \in 1..(m + n + 1) |-> IF i <= m THEN p[i] ELSE q[i - m]]
<1>5. r \in [1..(m + n + 1) -> Positions]
  <2> SUFFICES ASSUME NEW i \in 1..(m + n + 1)
               PROVE  (IF i <= m THEN p[i] ELSE q[i - m]) \in Positions
    OBVIOUS
  <2>1. CASE i <= m
    BY <1>1, <2>1
  <2>2. CASE ~(i <= m)
    <3>1. i - m \in 1..(n + 1)
      BY <1>1, <2>2
    <3> QED
      BY <2>2, <3>1
  <2> QED
    BY <2>1, <2>2
<1>6. \A i \in 1..(m + n + 1) : (i <= m => r[i] = p[i]) /\ (~(i <= m) => r[i] = q[i - m])
  OBVIOUS
<1>7. \A i \in 1..(m + n) :
        (i <= m => (ch \o fs)[i] = ch[i]) /\ (~(i <= m) => (ch \o fs)[i] = fs[i - m])
  BY <1>2
<1> HIDE DEF r
<1>8. r[1] = a
  <2>1. CASE m = 0
    <3>1. 1 \in 1..(m + n + 1) /\ ~(1 <= m) /\ 1 - m = 1
      BY <1>1, <2>1
    <3>2. r[1] = q[1]
      BY <1>6, <3>1
    <3> QED
      BY <1>3, <1>4, <2>1, <3>2
  <2>2. CASE m > 0
    <3>1. 1 \in 1..(m + n + 1) /\ 1 <= m
      BY <1>1, <2>2
    <3> QED
      BY <1>3, <1>6, <3>1
  <2> QED
    BY <1>1, <2>1, <2>2
<1>9. r[m + n + 1] = c
  <2>1. m + n + 1 \in 1..(m + n + 1) /\ ~(m + n + 1 <= m) /\ (m + n + 1) - m = n + 1
    BY <1>1
  <2> QED
    BY <1>4, <1>6, <2>1
<1>10. ASSUME NEW i \in 1..(m + n)
       PROVE  Follows(id, s, r[i], (ch \o fs)[i], r[i + 1])
  <2>1. i \in 1..(m + n + 1) /\ i + 1 \in 1..(m + n + 1)
    BY <1>1
  <2>2. CASE i < m
    <3>1. i \in 1..m /\ i <= m /\ i + 1 <= m
      BY <1>1, <2>2
    <3>2. r[i] = p[i] /\ r[i + 1] = p[i + 1]
      BY <1>6, <2>1, <3>1
    <3>3. (ch \o fs)[i] = ch[i]
      BY <1>7, <3>1
    <3> QED
      BY <1>3, <3>1, <3>2, <3>3
  <2>3. CASE i = m
    <3>1. i \in 1..m /\ i <= m /\ ~(i + 1 <= m) /\ (i + 1) - m = 1
      BY <1>1, <2>3
    <3>2. r[i] = p[i] /\ r[i + 1] = q[1]
      BY <1>6, <2>1, <3>1
    <3>3. (ch \o fs)[i] = ch[i]
      BY <1>7, <3>1
    <3>4. q[1] = p[i + 1]
      BY <1>3, <1>4, <2>3
    <3> QED
      BY <1>3, <3>1, <3>2, <3>3, <3>4
  <2>4. CASE i > m
    <3>1. i - m \in 1..n /\ ~(i <= m) /\ ~(i + 1 <= m) /\ (i + 1) - m = (i - m) + 1
      BY <1>1, <2>4
    <3>2. r[i] = q[i - m] /\ r[i + 1] = q[(i - m) + 1]
      BY <1>6, <2>1, <3>1
    <3>3. (ch \o fs)[i] = fs[i - m]
      BY <1>7, <3>1
    <3> QED
      BY <1>4, <3>1, <3>2, <3>3
  <2>5. i < m \/ i = m \/ i > m
    BY <1>1
  <2> QED
    BY <2>2, <2>3, <2>4, <2>5
<1>11. r \in [1..(Len(ch \o fs) + 1) -> Positions] /\ r[Len(ch \o fs) + 1] = c
      /\ \A i \in 1..Len(ch \o fs) : Follows(id, s, r[i], (ch \o fs)[i], r[i + 1])
  BY <1>2, <1>5, <1>9, <1>10
<1> QED
  BY <1>8, <1>11 DEF Leads

\* The first frame is taken where the receiver stands.
LEMMA HeadLeads ==
  ASSUME NEW id, NEW s, NEW a, NEW c, NEW ch \in Seq(Frames), ch # << >>,
         Leads(id, s, a, ch, c)
  PROVE  \E b \in Positions : Follows(id, s, a, Head(ch), b) /\ Leads(id, s, b, Tail(ch), c)
<1> DEFINE n == Len(ch)
<1>1. n \in Nat \ {0}
  BY EmptySeq, LenProperties
<1>2. Head(ch) = ch[1] /\ Len(Tail(ch)) = n - 1
      /\ \A i \in 1..(n - 1) : Tail(ch)[i] = ch[i + 1]
  BY HeadTailProperties
<1>3. PICK p \in [1..(n + 1) -> Positions] :
        p[1] = a /\ p[n + 1] = c /\ \A i \in 1..n : Follows(id, s, p[i], ch[i], p[i + 1])
  BY DEF Leads
<1> HIDE DEF n
<1>4. p[2] \in Positions /\ Follows(id, s, a, Head(ch), p[2])
  <2>1. 1 \in 1..n /\ 2 \in 1..(n + 1) /\ 1 + 1 = 2
    BY <1>1
  <2> QED
    BY <1>2, <1>3, <2>1
<1> DEFINE q == [i \in 1..n |-> p[i + 1]]
<1>5. q \in [1..n -> Positions] /\ q[1] = p[2] /\ q[n] = c
  BY <1>1, <1>3
<1>6. ASSUME NEW i \in 1..(n - 1)
      PROVE  Follows(id, s, q[i], Tail(ch)[i], q[i + 1])
  <2>1. i + 1 \in 1..n /\ q[i] = p[i + 1] /\ q[i + 1] = p[(i + 1) + 1]
    BY <1>1
  <2> QED
    BY <1>2, <1>3, <2>1
<1> HIDE DEF q
<1>7. Leads(id, s, p[2], Tail(ch), c)
  <2>1. Len(Tail(ch)) + 1 = n
    BY <1>1, <1>2
  <2> QED
    BY <1>2, <1>5, <1>6, <2>1 DEF Leads
<1> QED
  BY <1>4, <1>7

\* What is left of the frames when the connection breaks leads somewhere.
LEMMA CutLeads ==
  ASSUME NEW id, NEW s, NEW a, NEW c, NEW ch \in Seq(Frames), NEW n \in 0..Len(ch),
         Leads(id, s, a, ch, c)
  PROVE  /\ SubSeq(ch, 1, n) \in Seq(Frames)
         /\ Len(SubSeq(ch, 1, n)) = n
         /\ \A i \in 1..n : SubSeq(ch, 1, n)[i] = ch[i]
         /\ \E b \in Positions : Leads(id, s, a, SubSeq(ch, 1, n), b)
<1>1. Len(ch) \in Nat /\ \A i \in 1..n : ch[i] \in Frames
  BY LenProperties, ElementOfSeq
<1>2. /\ SubSeq(ch, 1, n) \in Seq(Frames)
      /\ Len(SubSeq(ch, 1, n)) = n
      /\ \A i \in 1..n : SubSeq(ch, 1, n)[i] = ch[i]
  <2>1. /\ SubSeq(ch, 1, n) \in Seq(Frames)
        /\ Len(SubSeq(ch, 1, n)) = IF 1 <= n THEN n - 1 + 1 ELSE 0
        /\ \A i \in 1..(n - 1 + 1) : SubSeq(ch, 1, n)[i] = ch[1 + i - 1]
    BY <1>1, SubSeqProperties
  <2> QED
    BY <1>1, <2>1
<1>3. PICK p \in [1..(Len(ch) + 1) -> Positions] :
        p[1] = a /\ \A i \in 1..Len(ch) : Follows(id, s, p[i], ch[i], p[i + 1])
  BY DEF Leads
<1> DEFINE q == [i \in 1..(n + 1) |-> p[i]]
<1>4. q \in [1..(n + 1) -> Positions] /\ q[1] = a /\ q[n + 1] \in Positions
  <2>1. 1..(n + 1) \subseteq 1..(Len(ch) + 1) /\ 1 \in 1..(n + 1) /\ n + 1 \in 1..(n + 1)
    BY <1>1
  <2> QED
    BY <1>3, <2>1
<1>5. ASSUME NEW i \in 1..n
      PROVE  Follows(id, s, q[i], SubSeq(ch, 1, n)[i], q[i + 1])
  <2>1. i \in 1..Len(ch) /\ q[i] = p[i] /\ q[i + 1] = p[i + 1]
    BY <1>1
  <2> QED
    BY <1>2, <1>3, <2>1
<1> HIDE DEF q
<1>6. Leads(id, s, a, SubSeq(ch, 1, n), q[n + 1])
  BY <1>2, <1>4, <1>5 DEF Leads
<1> QED
  BY <1>2, <1>4, <1>6

\* Nothing changes for a validator whose connection is over.
LEMMA OverLeadsOver ==
  ASSUME NEW id, NEW s, NEW a \in Positions, a.phase = "over", NEW ch \in Seq(Frames)
  PROVE  Leads(id, s, a, ch, a)
<1> DEFINE p == [i \in 1..(Len(ch) + 1) |-> a]
<1>1. Len(ch) \in Nat
  BY LenProperties
<1>2. p \in [1..(Len(ch) + 1) -> Positions] /\ p[1] = a /\ p[Len(ch) + 1] = a
  BY <1>1
<1>3. ASSUME NEW i \in 1..Len(ch)
      PROVE  Follows(id, s, p[i], ch[i], p[i + 1])
  <2>1. p[i] = a /\ p[i + 1] = a
    BY <1>1
  <2> QED
    BY <2>1 DEF Follows
<1> HIDE DEF p
<1> QED
  BY <1>2, <1>3 DEF Leads

\* The frames lead to the same place when the spool gets a new identity.
LEMMA LeadsWhateverComes ==
  ASSUME NEW id, NEW new, NEW s, s # new, NEW a, NEW c, NEW ch, Leads(id, s, a, ch, c)
  PROVE  Leads(new, s, a, ch, c)
<1>1. PICK p \in [1..(Len(ch) + 1) -> Positions] :
        /\ p[1] = a /\ p[Len(ch) + 1] = c
        /\ \A i \in 1..Len(ch) : Follows(id, s, p[i], ch[i], p[i + 1])
  BY DEF Leads
<1>2. \A x, f, y : Follows(id, s, x, f, y) => Follows(new, s, x, f, y)
  BY DEF Follows
<1>3. \A i \in 1..Len(ch) : Follows(new, s, p[i], ch[i], p[i + 1])
  BY <1>1, <1>2
<1> QED
  BY <1>1, <1>3 DEF Leads

\* The frames among them.
Carried(ch) == {ch[i] : i \in 1..Len(ch)}

LEMMA NothingCarried == Carried(<< >>) = {}
BY DEF Carried

LEMMA OneCarried ==
  ASSUME NEW f
  PROVE  Carried(<<f>>) = {f}
BY DEF Carried

LEMMA CarriedOn ==
  ASSUME NEW ch \in Seq(Frames), NEW fs \in Seq(Frames)
  PROVE  Carried(ch \o fs) \subseteq Carried(ch) \union Carried(fs)
<1> SUFFICES ASSUME NEW i \in 1..Len(ch \o fs)
             PROVE  (ch \o fs)[i] \in Carried(ch) \union Carried(fs)
  BY DEF Carried
<1>1. Len(ch) \in Nat /\ Len(fs) \in Nat
  BY LenProperties
<1>2. i \in 1..(Len(ch) + Len(fs))
      /\ (ch \o fs)[i] = IF i <= Len(ch) THEN ch[i] ELSE fs[i - Len(ch)]
  BY ConcatProperties
<1>3. CASE i <= Len(ch)
  BY <1>1, <1>2, <1>3 DEF Carried
<1>4. CASE ~(i <= Len(ch))
  <2>1. i - Len(ch) \in 1..Len(fs)
    BY <1>1, <1>2, <1>4
  <2> QED
    BY <1>2, <1>4, <2>1 DEF Carried
<1> QED
  BY <1>3, <1>4

LEMMA CarriedBehind ==
  ASSUME NEW ch \in Seq(Frames), ch # << >>
  PROVE  /\ Carried(Tail(ch)) \subseteq Carried(ch)
         /\ Head(ch) \in Carried(ch) /\ Head(ch) \in Frames
<1>1. Len(ch) \in Nat \ {0}
  BY EmptySeq
<1>2. Head(ch) = ch[1] /\ Len(Tail(ch)) = Len(ch) - 1
      /\ \A i \in 1..(Len(ch) - 1) : Tail(ch)[i] = ch[i + 1]
  BY HeadTailProperties
<1>3. 1 \in 1..Len(ch) /\ \A i \in 1..(Len(ch) - 1) : i + 1 \in 1..Len(ch)
  BY <1>1
<1>4. Head(ch) \in Frames
  BY HeadTailProperties
<1> QED
  BY <1>2, <1>3, <1>4 DEF Carried

-------------------------------------------------------------------------------
(* The page *)

LEMMA MinIsLeast ==
  ASSUME NEW S \in SUBSET Nat, S # {}
  PROVE  Min(S) \in S /\ \A x \in S : Min(S) <= x
<1> DEFINE R == OpToRel(<, Nat)
<1>1. IsWellFoundedOn(R, Nat)
  BY NatLessThanWellFounded
<1>2. \A x, y \in Nat : x < y => <<x, y>> \in R
  BY DEF OpToRel
<1> HIDE DEF R
<1>3. PICK x \in S : \A y \in S : ~ (<<y, x>> \in R)
  BY <1>1, WFMin
<1>4. ASSUME NEW y \in S PROVE x <= y
  <2>1. x \in Nat /\ y \in Nat /\ <<y, x>> \notin R
    BY <1>3
  <2>2. ~(y < x)
    BY <1>2, <2>1
  <2> QED
    BY <2>1, <2>2
<1> QED
  BY <1>4 DEF Min

\* The first rows of S behind from, at most size of them.
Rows(S, from, size) ==
  {n \in S : n > from /\ Cardinality({x \in S : from < x /\ x < n}) < size}

\* The rows of a page are the first ones behind the cursor: none is passed over.
LEMMA RowsArePrefix ==
  ASSUME NEW hw \in Nat, NEW S \in SUBSET (1..hw), NEW from \in Nat, NEW size \in Nat,
         NEW n \in S, NEW m \in Rows(S, from, size), from < n, n < m
  PROVE  n \in Rows(S, from, size)
<1> DEFINE below(k) == {x \in S : from < x /\ x < k}
<1>1. IsFiniteSet(S)
  <2>1. IsFiniteSet(1..hw)
    BY FS_Interval
  <2> QED
    BY <2>1, FS_Subset
<1>2. IsFiniteSet(below(m)) /\ below(n) \subseteq below(m)
  <2>1. below(m) \in SUBSET S /\ m \in S /\ S \subseteq Int
    BY DEF Rows
  <2>2. IsFiniteSet(below(m))
    <3> HIDE DEF below
    <3> QED
      BY <1>1, <2>1, FS_Subset
  <2>3. below(n) \subseteq below(m)
    <3> SUFFICES ASSUME NEW x \in S, from < x, x < n
                 PROVE  x < m
      OBVIOUS
    <3> QED
      BY <2>1
  <2> QED
    BY <2>2, <2>3
<1>3. IsFiniteSet(below(n)) /\ Cardinality(below(n)) <= Cardinality(below(m))
  BY <1>2, FS_Subset
<1>4. Cardinality(below(n)) \in Nat /\ Cardinality(below(m)) \in Nat
  BY <1>2, <1>3, FS_CardinalityType
<1>5. Cardinality(below(m)) < size
  BY DEF Rows
<1>6. n > from
  BY SMT
<1> HIDE DEF below
<1>7. Cardinality(below(n)) < size
  BY <1>3, <1>4, <1>5
<1> QED
  BY <1>6, <1>7 DEF below, Rows

-------------------------------------------------------------------------------
(* The inductive invariant *)

\* The identities the spool has had.
Known == retired \union {sourceId}

\* Where the process is, and what it holds there.
Reading ==
  /\ stage \in {"off", "sleep", "write"} => statement = "none"
  /\ stage \in {"hello", "loop", "post"} => statement \in {"identity", "oldest", "newest"}
  /\ stage = "page" => statement \in {"identity", "rows"}
  /\ stage \in {"off", "hello"} <=> streamSource = NoSource
  /\ stage = "off" => seen.source = NoSource
  /\ stage = "hello" => channel = << >>
  /\ stage # "write" => page = {}
  /\ \A n \in page : sent < n
  /\ seen.source \in Known \union {NoSource}
  /\ statement \in {"oldest", "newest", "rows"} \/ stage = "write" => seen.source # NoSource

\* What was read under the identity the spool still has bounds what the spool can
\* hold since.
ReadIsTrue ==
  seen.source = sourceId =>
    /\ seen.latest <= highWatermark /\ seen.oldest <= highWatermark
    /\ statement = "newest" =>
         \A n \in stored : (IF seen.oldest # 0 THEN seen.oldest - 1 ELSE seen.latest) < n
    /\ \A m \in page : m <= highWatermark
    /\ \A n \in stored, m \in page : sent < n /\ n < m => n \in page

\* What a frame of the connection of s says.
FrameIsTrue(s, f) ==
  /\ f.type = "hello" => f.source = s
  /\ f.type = "event" => f.source \in Known /\ (s = sourceId => f.source = s)
  /\ f.type = "gap" /\ s = sourceId =>
       f.through <= highWatermark /\ \A n \in stored : ~(f.after < n /\ n <= f.through)

\* A process that runs stands where its frames lead.
Ends(e) ==
  stage # "off" =>
    /\ e.phase = "awaiting_hello" => stage = "hello" /\ sent = e.cursor
    /\ e.phase = "active" => stage # "hello" /\ sent = e.cursor /\ e.required = 0

\* The connection is the one of s.
Connection(s) ==
  /\ s \in Known
  /\ stream.phase = "active" => stream.source = s
  /\ stage \notin {"off", "hello"} =>
       streamSource = s /\ (s = sourceId => seen.source \in {NoSource, s})
  /\ \A f \in Carried(channel) : FrameIsTrue(s, f)
  /\ \E e \in Positions : Leads(sourceId, s, PositionOf(stream), channel, e) /\ Ends(e)

BridgeInd == Types /\ Reading /\ ReadIsTrue /\ \E s \in SourceIds : Connection(s)

-------------------------------------------------------------------------------
(* Facts about a state *)

LEMMA PositionIsOne ==
  ASSUME NEW st \in StreamStates
  PROVE  PositionOf(st) \in Positions
BY DEF StreamStates, PositionOf, Positions

\* What the invariant promises: nothing the receiver gets is refused, and no gap
\* on its way names an event the spool stores.
LEMMA IndImpliesInv ==
  ASSUME BridgeConstants, BridgeInd
  PROVE  BridgeInv
<1>1. PICK s \in SourceIds : Connection(s)
  BY DEF BridgeInd
<1>2. PICK e \in Positions : Leads(sourceId, s, PositionOf(stream), channel, e)
  BY <1>1 DEF Connection
<1>3. channel \in Seq(Frames) /\ PositionOf(stream) \in Positions
  BY PositionIsOne DEF BridgeInd, Types
<1>4. StreamIsAccepted
  <2> SUFFICES ASSUME channel # << >>, stream.phase = "active", NEW f, f = Head(channel)
               PROVE  \/ Verdict(stream, f) = "accepted"
                      \/ Verdict(stream, f) = "identity_mismatch" /\ stream.source # sourceId
    BY DEF StreamIsAccepted
  <2>1. PICK b \in Positions : Follows(sourceId, s, PositionOf(stream), f, b)
    BY <1>2, <1>3, HeadLeads
  <2>2. f \in Frames
    BY <1>3, CarriedBehind
  <2>3. stream.source = s /\ PositionOf(stream).phase = "active"
        /\ PositionOf(stream).cursor = stream.cursor /\ PositionOf(stream).required = stream.required
    BY <1>1 DEF Connection, PositionOf
  <2>4. CASE f.type = "error"
    BY <2>3, <2>4 DEF Verdict, VerdictActive, ValidFrame
  <2>5. CASE f.type = "heartbeat"
    BY <2>3, <2>5 DEF Verdict, VerdictActive, ValidFrame
  <2>6. CASE f.type = "event"
    <3>0. f.sequence \in 1..MaxSequence
      BY <2>2, <2>6, FrameFields
    <3>1. f.sequence > 0 /\ stream.required = 0
      BY <2>1, <2>3, <2>6, <3>0 DEF Follows
    <3>2. \/ f.source # s /\ s # sourceId
          \/ f.source = s /\ f.sequence = stream.cursor + 1
      BY <2>1, <2>3, <2>6 DEF Follows
    <3> QED
      BY <2>3, <2>6, <3>1, <3>2 DEF Verdict, VerdictActive, ValidFrame
  <2>7. CASE f.type = "gap"
    <3>1. stream.required \in {0, f.through} /\ f.after = stream.cursor /\ f.through > f.after
      BY <2>1, <2>3, <2>7 DEF Follows
    <3> QED
      BY <2>7, <3>1 DEF Verdict, VerdictActive, ValidFrame
  <2>8. f.type # "hello"
    BY <2>1, <2>3 DEF Follows
  <2> QED
    BY <2>2, <2>4, <2>5, <2>6, <2>7, <2>8, FrameFields
<1>5. GapsAreLost
  <2> SUFFICES ASSUME NEW i \in 1..Len(channel), channel[i].type = "gap", streamSource = sourceId
               PROVE  stored \intersect ((channel[i].after + 1)..channel[i].through) = {}
    BY DEF GapsAreLost
  <2>1. streamSource # NoSource
    BY DEF BridgeConstants, BridgeInd, Types, TypeOK
  <2>2. s = sourceId
    BY <1>1, <2>1 DEF BridgeInd, Reading, Connection
  <2>3. FrameIsTrue(s, channel[i])
    BY <1>1 DEF Connection, Carried
  <2>4. channel[i] \in Frames
    BY <1>3, ElementOfSeq
  <2>5. channel[i].after \in Int /\ channel[i].through \in Int /\ stored \subseteq Int
    BY <2>4, FrameFields, channel[i].type = "gap" DEF BridgeInd, Types, TypeOK
  <2> QED
    BY <2>2, <2>3, <2>5 DEF FrameIsTrue
<1> QED
  BY <1>4, <1>5 DEF BridgeInv, BridgeInd, Types

-------------------------------------------------------------------------------
(* The spool *)

LEMMA StoreEventPreserves ==
  ASSUME BridgeConstants, BridgeInd, StoreEvent, UNCHANGED stream
  PROVE  BridgeInd'
<1> DEFINE new == highWatermark + 1
<1>1. PICK s \in SourceIds : Connection(s)
  BY DEF BridgeInd
<1>2. /\ highWatermark' = new /\ stored' = stored \union {new}
      /\ UNCHANGED <<sourceId, retired, stage, statement, streamSource, sent, seen, page, pageFull,
                     channel, stream>>
  BY DEF StoreEvent, Source!Append, bridgeVars
<1>3. /\ highWatermark \in Nat /\ MaxSequence \in Nat /\ stored \in SUBSET (1..highWatermark)
      /\ new \in 1..MaxSequence /\ highWatermark < new
      /\ seen.latest \in Nat /\ seen.oldest \in Nat
      /\ page \in SUBSET Nat
  BY DEF StoreEvent, BridgeConstants, BridgeInd, Types, TypeOK
<1> HIDE DEF new
<1>4. Types'
  <2>1. highWatermark' \in 0..MaxSequence /\ stored' \in SUBSET (1..highWatermark')
    BY <1>2, <1>3
  <2> QED
    BY <1>2, <2>1 DEF BridgeInd, Types, TypeOK
<1>5. Reading'
  BY <1>2 DEF BridgeInd, Reading, Known
<1>6. ReadIsTrue'
  <2> SUFFICES ASSUME seen.source = sourceId
               PROVE  /\ seen.latest <= new /\ seen.oldest <= new
                      /\ statement = "newest" =>
                           \A n \in stored \union {new} :
                             (IF seen.oldest # 0 THEN seen.oldest - 1 ELSE seen.latest) < n
                      /\ \A m \in page : m <= new
                      /\ \A n \in stored \union {new}, m \in page : sent < n /\ n < m => n \in page
    BY <1>2 DEF ReadIsTrue
  <2>1. seen.latest < new /\ seen.oldest < new
    BY <1>3 DEF BridgeInd, ReadIsTrue
  <2>2. \A m \in page : m <= highWatermark /\ m < new
    BY <1>3 DEF BridgeInd, ReadIsTrue
  <2>3. statement = "newest" =>
          \A n \in stored : (IF seen.oldest # 0 THEN seen.oldest - 1 ELSE seen.latest) < n
    BY DEF BridgeInd, ReadIsTrue
  <2>4. \A n \in stored, m \in page : sent < n /\ n < m => n \in page
    BY DEF BridgeInd, ReadIsTrue
  <2>5. (IF seen.oldest # 0 THEN seen.oldest - 1 ELSE seen.latest) < new
    BY <1>3, <2>1
  <2>6. \A m \in page : ~(new < m)
    BY <1>3, <2>2
  <2>7. \A m \in page : m <= new
    BY <1>3, <2>2
  <2> QED
    BY <1>3, <2>1, <2>3, <2>4, <2>5, <2>6, <2>7
<1>7. ASSUME NEW f \in Carried(channel), FrameIsTrue(s, f), f \in Frames
      PROVE  FrameIsTrue(s, f)'
  <2>1. f.type = "gap" => f.through \in Nat
    BY <1>7, FrameFields
  <2> QED
    BY <1>2, <1>3, <1>7, <2>1 DEF FrameIsTrue, Known
<1>8. \A f \in Carried(channel) : f \in Frames
  BY ElementOfSeq DEF Carried, BridgeInd, Types
<1>9. Connection(s)'
  BY <1>1, <1>2, <1>7, <1>8 DEF Connection, Ends, Known
<1> QED
  BY <1>4, <1>5, <1>6, <1>9 DEF BridgeInd

LEMMA PruneEventsPreserves ==
  ASSUME BridgeConstants, BridgeInd, PruneEvents, UNCHANGED stream
  PROVE  BridgeInd'
<1>1. PICK s \in SourceIds : Connection(s)
  BY DEF BridgeInd
<1>2. /\ stored' \subseteq stored
      /\ UNCHANGED <<sourceId, highWatermark, retired, stage, statement, streamSource, sent, seen,
                     page, pageFull, channel, stream>>
  BY DEF PruneEvents, Source!Prune, bridgeVars
<1>3. Types'
  BY <1>2 DEF BridgeInd, Types, TypeOK
<1>4. Reading'
  BY <1>2 DEF BridgeInd, Reading, Known
<1>5. ReadIsTrue'
  BY <1>2 DEF BridgeInd, ReadIsTrue
<1>6. \A f : FrameIsTrue(s, f) => FrameIsTrue(s, f)'
  BY <1>2 DEF FrameIsTrue, Known
<1>7. Connection(s)'
  BY <1>1, <1>2, <1>6 DEF Connection, Ends, Known
<1> QED
  BY <1>3, <1>4, <1>5, <1>7 DEF BridgeInd

\* Nothing on its way is of the new identity.
LEMMA RegenerateIdentityPreserves ==
  ASSUME BridgeConstants, BridgeInd, RegenerateIdentity, UNCHANGED stream
  PROVE  BridgeInd'
<1>1. PICK s \in SourceIds : Connection(s)
  BY DEF BridgeInd
<1>2. /\ sourceId' \in SourceIds /\ sourceId' \notin Known
      /\ highWatermark' = 0 /\ stored' = {} /\ retired' = Known
      /\ UNCHANGED <<stage, statement, streamSource, sent, seen, page, pageFull, channel, stream>>
  BY DEF RegenerateIdentity, Source!ChangeIdentity, bridgeVars, Known
<1>3. s # sourceId' /\ seen.source # sourceId' /\ Known \subseteq Known'
  BY <1>1, <1>2 DEF BridgeConstants, BridgeInd, Reading, Connection, Known
<1>4. Types'
  <2>1. 0 \in 0..MaxSequence /\ Known \subseteq SourceIds
    BY DEF BridgeConstants, BridgeInd, Types, TypeOK, Known
  <2> QED
    BY <1>2, <2>1 DEF BridgeInd, Types, TypeOK
<1>5. Reading'
  BY <1>2, <1>3 DEF BridgeInd, Reading
<1>6. ReadIsTrue'
  BY <1>2, <1>3 DEF ReadIsTrue
<1>7. \A f : FrameIsTrue(s, f) => FrameIsTrue(s, f)'
  BY <1>2, <1>3 DEF FrameIsTrue
<1>8. PICK e \in Positions : Leads(sourceId, s, PositionOf(stream), channel, e) /\ Ends(e)
  BY <1>1 DEF Connection
<1>9. Leads(sourceId', s, PositionOf(stream), channel, e)
  BY <1>3, <1>8, LeadsWhateverComes
<1>10. Connection(s)'
  BY <1>1, <1>2, <1>3, <1>7, <1>8, <1>9 DEF Connection, Ends
<1> QED
  BY <1>4, <1>5, <1>6, <1>10 DEF BridgeInd

LEMMA SpoolStepPreserves ==
  ASSUME BridgeConstants, BridgeInd, SpoolStep, UNCHANGED stream
  PROVE  BridgeInd'
BY StoreEventPreserves, PruneEventsPreserves, RegenerateIdentityPreserves DEF SpoolStep

-------------------------------------------------------------------------------
(* What the process writes *)

\* What a step of the process leaves alone.
Kept == UNCHANGED <<sourceId, highWatermark, stored, retired, stream>>

LEMMA KeptFacts ==
  ASSUME Kept
  PROVE  /\ Known' = Known
         /\ \A s, f : FrameIsTrue(s, f)' <=> FrameIsTrue(s, f)
BY DEF Kept, Known, FrameIsTrue

LEMMA ErrorIsFrame ==
  ASSUME NEW code \in ErrorCodes
  PROVE  ErrorFrame(code) \in Frames /\ \A s : FrameIsTrue(s, ErrorFrame(code))
BY DEF ErrorFrame, Frames, FrameIsTrue

\* A connection without process and frames is any connection, if it is not active.
LEMMA NothingOnItsWay ==
  ASSUME BridgeConstants, NEW s \in SourceIds, s \in Known,
         stream \in StreamStates, channel = << >>,
         stage \notin {"off", "hello"} => streamSource = s /\ seen.source = NoSource,
         stream.phase = "active" => stream.source = s,
         Ends(PositionOf(stream))
  PROVE  Connection(s)
<1>1. Leads(sourceId, s, PositionOf(stream), channel, PositionOf(stream))
  BY PositionIsOne, NoFramesLeadNowhere
<1> QED
  BY <1>1, NothingCarried, PositionIsOne DEF Connection

\* The process goes on and its frames go on from where it stood.
LEMMA WrittenPreserves ==
  ASSUME BridgeConstants, BridgeInd, Kept, Types', Reading', ReadIsTrue',
         stage \notin {"off", "hello"}, stage' \notin {"off", "hello"},
         streamSource' = streamSource,
         seen'.source \in {NoSource, seen.source, sourceId},
         NEW fs \in Seq(Frames), channel' = channel \o fs,
         \A s \in SourceIds : streamSource = s /\ Connection(s) =>
            /\ \A f \in Carried(fs) : FrameIsTrue(s, f)
            /\ \E b \in Positions :
                 /\ Leads(sourceId, s, At("active", sent, 0), fs, b)
                 /\ b.phase # "awaiting_hello"
                 /\ b.phase = "active" => sent' = b.cursor /\ b.required = 0
  PROVE  BridgeInd'
<1>1. PICK s \in SourceIds : Connection(s)
  BY DEF BridgeInd
<1>2. streamSource = s /\ channel \in Seq(Frames) /\ sent \in 0..MaxSequence
  BY <1>1 DEF Connection, BridgeInd, Types, TypeOK
<1>3. PICK b \in Positions :
        /\ Leads(sourceId, s, At("active", sent, 0), fs, b)
        /\ b.phase # "awaiting_hello"
        /\ b.phase = "active" => sent' = b.cursor /\ b.required = 0
  BY <1>1, <1>2
<1>4. PICK a \in Positions : Leads(sourceId, s, PositionOf(stream), channel, a) /\ Ends(a)
  BY <1>1 DEF Connection
<1>5. \E c \in Positions : Leads(sourceId, s, PositionOf(stream), channel \o fs, c) /\ Ends(c)'
  <2>1. CASE a.phase = "over"
    <3>1. Leads(sourceId, s, a, fs, a)
      BY <2>1, OverLeadsOver
    <3>2. Leads(sourceId, s, PositionOf(stream), channel \o fs, a)
      BY <1>2, <1>4, <3>1, LeadsOn
    <3> QED
      BY <2>1, <3>2 DEF Ends
  <2>2. CASE a.phase = "active"
    <3>1. a = At("active", sent, 0)
      BY <1>4, <2>2 DEF Ends, Positions, At
    <3>2. Leads(sourceId, s, PositionOf(stream), channel \o fs, b)
      BY <1>2, <1>3, <1>4, <3>1, LeadsOn
    <3> QED
      BY <1>3, <3>2 DEF Ends
  <2>3. a.phase # "awaiting_hello"
    BY <1>4 DEF Ends
  <2> QED
    BY <2>1, <2>2, <2>3 DEF Positions
<1>6. \A f \in Carried(channel \o fs) : FrameIsTrue(s, f)
  BY <1>1, <1>2, CarriedOn DEF Connection
<1>7. s = sourceId => seen'.source \in {NoSource, s}
  BY <1>1 DEF Connection
<1>8. Connection(s)'
  BY <1>1, <1>2, <1>5, <1>6, <1>7, KeptFacts DEF Connection, Kept
<1> QED
  BY <1>8 DEF BridgeInd

\* A process that ends with an error leaves nothing to be taken behind it.
LEMMA ExitPreserves ==
  ASSUME BridgeConstants, BridgeInd, Kept, stage # "off",
         NEW code \in ErrorCodes, Exit(<<ErrorFrame(code)>>)
  PROVE  BridgeInd'
<1>1. PICK s \in SourceIds : Connection(s)
  BY DEF BridgeInd
<1>2. PICK a \in Positions : Leads(sourceId, s, PositionOf(stream), channel, a)
  BY <1>1 DEF Connection
<1> DEFINE fs == <<ErrorFrame(code)>>
           b == At("over", 0, 0)
<1>3. fs \in Seq(Frames) /\ Carried(fs) = {ErrorFrame(code)} /\ b \in Positions
  BY ErrorIsFrame, OneCarried DEF At, Positions, BridgeConstants
<1>4. Leads(sourceId, s, a, fs, b)
  <2>1. Follows(sourceId, s, a, ErrorFrame(code), b)
    BY DEF Follows, ErrorFrame, At
  <2> QED
    BY <1>3, <2>1, FrameLeads
<1>5. /\ stage' = "off" /\ statement' = "none" /\ seen' = NothingSeen /\ streamSource' = NoSource
      /\ sent' = 0 /\ page' = {} /\ pageFull' = FALSE /\ channel' = channel \o fs
  BY DEF Exit, Off, GoTo, Write
<1> HIDE DEF fs, b
<1>6. channel \in Seq(Frames)
  BY DEF BridgeInd, Types
<1>7. channel \o fs \in Seq(Frames) /\ Leads(sourceId, s, PositionOf(stream), channel \o fs, b)
  BY <1>2, <1>3, <1>4, <1>6, LeadsOn, ConcatProperties
<1>8. \A f \in Carried(channel \o fs) : FrameIsTrue(s, f)
  BY <1>1, <1>3, <1>6, CarriedOn, ErrorIsFrame DEF Connection
<1>9. Types' /\ Reading' /\ ReadIsTrue'
  <2>1. 0 \in 0..MaxSequence
    BY DEF BridgeConstants
  <2>2. seen' \in [source : SourceIds \union {NoSource}, latest : 0..MaxSequence,
                   oldest : 0..MaxSequence]
    BY <1>5, <2>1 DEF NothingSeen
  <2>3. Types'
    BY <1>5, <1>7, <2>1, <2>2 DEF BridgeInd, Types, TypeOK, Kept, Stages
  <2>4. Reading'
    BY <1>5 DEF Reading, NothingSeen
  <2>5. ReadIsTrue'
    BY <1>5 DEF BridgeConstants, BridgeInd, Types, TypeOK, ReadIsTrue, Kept, NothingSeen
  <2> QED
    BY <2>3, <2>4, <2>5
<1>10. Connection(s)'
  BY <1>1, <1>3, <1>5, <1>7, <1>8, KeptFacts DEF Connection, Kept, Ends
<1> QED
  BY <1>9, <1>10 DEF BridgeInd

\* A step that writes nothing.
LEMMA SilentPreserves ==
  ASSUME BridgeConstants, BridgeInd, Kept, Types', Reading', ReadIsTrue',
         \/ stage' = stage
         \/ stage \notin {"off", "hello"} /\ stage' \notin {"off", "hello"},
         UNCHANGED <<streamSource, sent, channel>>,
         seen'.source \in {NoSource, seen.source, sourceId}
  PROVE  BridgeInd'
<1>1. PICK s \in SourceIds : Connection(s)
  BY DEF BridgeInd
<1>2. \A e : Ends(e)' <=> Ends(e)
  BY DEF Ends
<1>3. Connection(s)'
  BY <1>1, <1>2, KeptFacts DEF Connection, Kept
<1> QED
  BY <1>3 DEF BridgeInd

-------------------------------------------------------------------------------
(* The process *)

LEMMA KeptBySilence == ASSUME UNCHANGED spoolVars, UNCHANGED stream PROVE Kept
BY DEF spoolVars, Kept

LEMMA ReadIdentityPreserves ==
  ASSUME BridgeConstants, BridgeInd, ReadIdentity, UNCHANGED stream
  PROVE  BridgeInd'
<1>1. Kept /\ UNCHANGED <<stage, streamSource, sent, page, pageFull, channel>>
  BY KeptBySilence DEF ReadIdentity
<1>2. /\ statement = "identity"
      /\ seen' = [source |-> sourceId, latest |-> highWatermark, oldest |-> 0]
      /\ statement' = IF stage = "page" THEN "rows" ELSE "oldest"
  BY DEF ReadIdentity
<1>3. page = {} /\ stage \in {"hello", "loop", "post", "page"} /\ sourceId # NoSource
  BY <1>2 DEF BridgeConstants, BridgeInd, Reading, Types, TypeOK, Stages
<1>4. seen' \in [source : SourceIds \union {NoSource}, latest : 0..MaxSequence,
                 oldest : 0..MaxSequence]
  BY <1>2 DEF BridgeConstants, BridgeInd, Types, TypeOK
<1>5. Types'
  BY <1>1, <1>2, <1>4 DEF BridgeInd, Types, TypeOK, Kept
<1>6. Reading'
  BY <1>1, <1>2, <1>3 DEF BridgeInd, Reading, Kept, Known
<1>7. ReadIsTrue'
  <2>1. highWatermark \in Nat
    BY DEF BridgeInd, Types, TypeOK
  <2> QED
    BY <1>1, <1>2, <1>3, <2>1 DEF ReadIsTrue, Kept
<1>8. seen'.source = sourceId
  BY <1>2
<1> QED
  BY <1>1, <1>5, <1>6, <1>7, <1>8, SilentPreserves

LEMMA ReadOldestPreserves ==
  ASSUME BridgeConstants, BridgeInd, ReadOldest, UNCHANGED stream
  PROVE  BridgeInd'
<1> DEFINE least == IF stored = {} THEN 0 ELSE Min(stored)
<1>1. Kept /\ UNCHANGED <<stage, streamSource, sent, page, pageFull, channel>>
  BY KeptBySilence DEF ReadOldest
<1>2. statement = "oldest" /\ seen' = [seen EXCEPT !.oldest = least] /\ statement' = "newest"
  BY DEF ReadOldest
<1>3. /\ stored \in SUBSET (1..highWatermark) /\ highWatermark \in 0..MaxSequence
      /\ seen \in [source : SourceIds \union {NoSource}, latest : 0..MaxSequence,
                   oldest : 0..MaxSequence]
      /\ MaxSequence \in Nat
  BY DEF BridgeConstants, BridgeInd, Types, TypeOK
<1>4. least \in 0..highWatermark /\ \A n \in stored : least # 0 /\ least <= n
  <2>1. CASE stored = {}
    BY <1>3, <2>1
  <2>2. CASE stored # {}
    <3>1. stored \in SUBSET Nat
      BY <1>3
    <3>2. Min(stored) \in stored /\ \A n \in stored : Min(stored) <= n
      BY <2>2, <3>1, MinIsLeast
    <3>3. least = Min(stored) /\ Min(stored) \in 1..highWatermark
      BY <1>3, <2>2, <3>2
    <3> HIDE DEF least
    <3> QED
      BY <1>3, <3>2, <3>3
  <2> QED
    BY <2>1, <2>2
<1> HIDE DEF least
<1>5. seen'.source = seen.source /\ seen'.latest = seen.latest /\ seen'.oldest = least
  BY <1>2, <1>3
<1>6. page = {} /\ stage \in {"hello", "loop", "post"}
  BY <1>2 DEF BridgeInd, Reading, Types, TypeOK, Stages
<1>7. Types'
  <2>1. least \in 0..MaxSequence
    BY <1>3, <1>4
  <2>2. seen' \in [source : SourceIds \union {NoSource}, latest : 0..MaxSequence,
                   oldest : 0..MaxSequence]
    BY <1>2, <1>3, <2>1
  <2> QED
    BY <1>1, <1>2, <2>2 DEF BridgeInd, Types, TypeOK, Kept
<1>8. Reading'
  BY <1>1, <1>2, <1>5, <1>6 DEF BridgeInd, Reading, Kept, Known
<1>9. ReadIsTrue'
  <2> SUFFICES ASSUME seen.source = sourceId
               PROVE  /\ seen.latest <= highWatermark /\ least <= highWatermark
                      /\ \A n \in stored : (IF least # 0 THEN least - 1 ELSE seen.latest) < n
    BY <1>1, <1>5, <1>6 DEF ReadIsTrue, Kept
  <2>1. seen.latest <= highWatermark
    BY DEF BridgeInd, ReadIsTrue
  <2>2. \A n \in stored : least - 1 < n
    BY <1>3, <1>4
  <2> QED
    BY <1>3, <1>4, <2>1, <2>2
<1> QED
  BY <1>1, <1>5, <1>7, <1>8, <1>9, SilentPreserves

LEMMA SnapshotCorruptPreserves ==
  ASSUME BridgeConstants, BridgeInd, SnapshotCorrupt, UNCHANGED stream
  PROVE  BridgeInd'
<1>1. stage # "off"
  BY DEF SnapshotCorrupt, BridgeInd, Reading
<1>2. Kept /\ Exit(<<ErrorFrame("spool_corrupt")>>)
  BY KeptBySilence DEF SnapshotCorrupt
<1> QED
  BY <1>1, <1>2, ExitPreserves DEF ErrorCodes

\* What FollowUp and SayHello announce has the form the validator asks for.
LEMMA LostThroughFacts ==
  ASSUME BridgeConstants, Types
  PROVE  /\ LostThrough(sent) \in 0..MaxSequence /\ sent <= LostThrough(sent)
         /\ sent < LostThrough(sent) =>
              LostThrough(sent) = IF seen.oldest # 0 THEN seen.oldest - 1 ELSE seen.latest
         /\ RequiredGap(sent, Hello(seen.source, seen.oldest, seen.latest)) =
              IF LostThrough(sent) > sent THEN LostThrough(sent) ELSE 0
<1>1. /\ sent \in 0..MaxSequence /\ seen.oldest \in 0..MaxSequence
      /\ seen.latest \in 0..MaxSequence /\ MaxSequence \in Nat
  BY DEF BridgeConstants, Types, TypeOK
<1>2. CASE seen.oldest # 0 /\ sent < seen.oldest - 1
  BY <1>1, <1>2 DEF LostThrough, RequiredGap, Hello
<1>3. CASE seen.oldest = 0 /\ sent < seen.latest
  BY <1>1, <1>3 DEF LostThrough, RequiredGap, Hello
<1>4. CASE ~(seen.oldest # 0 /\ sent < seen.oldest - 1) /\ ~(seen.oldest = 0 /\ sent < seen.latest)
  BY <1>1, <1>4 DEF LostThrough, RequiredGap, Hello
<1> QED
  BY <1>2, <1>3, <1>4

\* A gap leads where it says.
LEMMA GapLeads ==
  ASSUME BridgeConstants, NEW s, NEW from \in 0..MaxSequence, NEW to \in 0..MaxSequence,
         from <= to, NEW required, required = 0 \/ (required = to /\ from < to)
  PROVE  /\ GapFrames(from, to) \in Seq(Frames)
         /\ Leads(sourceId, s, At("active", from, required), GapFrames(from, to),
                  At("active", to, 0))
         /\ \A f \in Carried(GapFrames(from, to)) : f = GapFrame(from, to) /\ from < to
<1>1. /\ from \in Nat /\ to \in Nat /\ MaxSequence \in Nat
      /\ At("active", from, required) \in Positions /\ At("active", to, 0) \in Positions
  BY DEF BridgeConstants, At, Positions
<1>2. CASE from < to
  <2>1. GapFrames(from, to) = <<GapFrame(from, to)>>
    BY <1>1, <1>2 DEF GapFrames
  <2>2. GapFrame(from, to) \in Frames
    BY <1>1, <1>2 DEF GapFrame, Frames
  <2>3. Follows(sourceId, s, At("active", from, required), GapFrame(from, to), At("active", to, 0))
    BY <1>1, <1>2 DEF Follows, At, GapFrame
  <2>4. Leads(sourceId, s, At("active", from, required), <<GapFrame(from, to)>>,
              At("active", to, 0))
    BY <1>1, <2>3, FrameLeads
  <2> QED
    BY <1>2, <2>1, <2>2, <2>4, OneCarried
<1>3. CASE from = to
  <2>1. GapFrames(from, to) = << >> /\ required = 0
    BY <1>1, <1>3 DEF GapFrames
  <2>2. Leads(sourceId, s, At("active", to, 0), << >>, At("active", to, 0))
    BY <1>1, NoFramesLeadNowhere
  <2> QED
    BY <1>3, <2>1, <2>2, EmptySeq, NothingCarried
<1> QED
  BY <1>1, <1>2, <1>3

\* The gap a snapshot announces is one.
LEMMA GapIsTrue ==
  ASSUME BridgeConstants, BridgeInd, statement = "newest", sent < LostThrough(sent),
         NEW s, s = sourceId => seen.source = s
  PROVE  FrameIsTrue(s, GapFrame(sent, LostThrough(sent)))
<1> SUFFICES ASSUME s = sourceId, seen.source = sourceId
             PROVE  /\ LostThrough(sent) <= highWatermark
                    /\ \A n \in stored : ~(n <= LostThrough(sent))
  BY DEF FrameIsTrue, GapFrame
<1> DEFINE lost == IF seen.oldest # 0 THEN seen.oldest - 1 ELSE seen.latest
<1>1. LostThrough(sent) = lost
  BY LostThroughFacts DEF BridgeInd
<1>2. /\ seen.latest <= highWatermark /\ seen.oldest <= highWatermark
      /\ \A n \in stored : lost < n
  BY DEF BridgeInd, ReadIsTrue
<1>3. /\ seen.oldest \in Nat /\ seen.latest \in Nat /\ highWatermark \in Nat
      /\ stored \in SUBSET Nat
  BY DEF BridgeInd, Types, TypeOK
<1>4. lost \in Int /\ lost <= highWatermark
  BY <1>2, <1>3
<1> HIDE DEF lost
<1> QED
  BY <1>1, <1>2, <1>3, <1>4

\* The hello is taken, or ends the stream, where the process was started from.
LEMMA HelloLeads ==
  ASSUME BridgeConstants, Types, NEW a \in Positions, a.phase # "active",
         a.phase = "awaiting_hello" => a.cursor = sent
  PROVE  \E b \in Positions :
           /\ Leads(sourceId, seen.source, a, <<Hello(seen.source, seen.oldest, seen.latest)>>, b)
           /\ \/ b.phase = "over"
              \/ b = At("active", sent, IF LostThrough(sent) > sent THEN LostThrough(sent) ELSE 0)
<1> DEFINE hello == Hello(seen.source, seen.oldest, seen.latest)
           b == At("active", sent, IF LostThrough(sent) > sent THEN LostThrough(sent) ELSE 0)
           over == At("over", 0, 0)
<1>1. hello.type = "hello"
  BY DEF Hello
<1>2. /\ RequiredGap(sent, hello) = IF LostThrough(sent) > sent THEN LostThrough(sent) ELSE 0
      /\ LostThrough(sent) \in 0..MaxSequence /\ sent \in 0..MaxSequence
  BY LostThroughFacts DEF Types, TypeOK
<1>3. b \in Positions /\ over \in Positions /\ over.phase = "over"
  BY <1>2 DEF BridgeConstants, At, Positions
<1>4. CASE a.phase = "over"
  <2>1. Follows(sourceId, seen.source, a, hello, a)
    BY <1>4 DEF Follows
  <2> HIDE DEF hello
  <2>2. Leads(sourceId, seen.source, a, <<hello>>, a)
    BY <2>1, FrameLeads
  <2> QED
    BY <1>4, <2>2 DEF hello
<1>5. CASE a.phase = "awaiting_hello" /\ ~ValidFrame(hello)
  <2> HIDE DEF hello, over
  <2>1. Follows(sourceId, seen.source, a, hello, over)
    BY <1>1, <1>3, <1>5 DEF Follows
  <2>2. Leads(sourceId, seen.source, a, <<hello>>, over)
    BY <1>3, <2>1, FrameLeads
  <2> QED
    BY <1>3, <2>2 DEF hello
<1>6. CASE a.phase = "awaiting_hello" /\ ValidFrame(hello)
  <2>1. b = At("active", a.cursor, RequiredGap(a.cursor, hello))
    BY <1>2, <1>6
  <2> HIDE DEF hello, b
  <2>2. Follows(sourceId, seen.source, a, hello, b)
    BY <1>1, <1>6, <2>1 DEF Follows
  <2>3. Leads(sourceId, seen.source, a, <<hello>>, b)
    BY <1>3, <2>2, FrameLeads
  <2> QED
    BY <1>3, <2>3 DEF hello, b
<1> QED
  BY <1>4, <1>5, <1>6 DEF Positions

LEMMA SayHelloPreserves ==
  ASSUME BridgeConstants, BridgeInd, SayHello, UNCHANGED stream
  PROVE  BridgeInd'
<1>0. PICK s : s = seen.source
  OBVIOUS
<1> DEFINE hello == Hello(seen.source, seen.oldest, seen.latest)
           lost == LostThrough(sent)
<1>1. /\ Kept /\ stage = "hello" /\ statement = "newest"
      /\ IF sent > seen.latest
         THEN Exit(<<hello, ErrorFrame("cursor_ahead")>>)
         ELSE /\ Write(<<hello>> \o GapFrames(sent, lost))
              /\ streamSource' = s
              /\ sent' = lost
              /\ GoTo("loop", "identity")
              /\ UNCHANGED <<page, pageFull>>
  BY <1>0, KeptBySilence DEF SayHello, SnapshotTaken
<1>2. channel = << >> /\ page = {} /\ s \in Known /\ s \in SourceIds /\ s # NoSource
  BY <1>0, <1>1 DEF BridgeConstants, BridgeInd, Reading, Types, TypeOK, Known
<1>3. hello \in Frames /\ FrameIsTrue(s, hello) /\ hello.type = "hello"
  BY <1>0, <1>2 DEF Hello, Frames, BridgeInd, Types, TypeOK, FrameIsTrue
<1>4. PICK t \in SourceIds : Connection(t)
  BY DEF BridgeInd
<1>5. PICK a \in Positions : Leads(sourceId, t, PositionOf(stream), channel, a) /\ Ends(a)
  BY <1>4 DEF Connection
<1>6. a = PositionOf(stream)
  <2>1. Len(channel) + 1 = 1
    BY <1>2
  <2> QED
    BY <1>5, <2>1 DEF Leads
<1>7. a.phase # "active" /\ (a.phase = "awaiting_hello" => a.cursor = sent)
  BY <1>1, <1>5 DEF Ends
<1>8. PICK b \in Positions :
        /\ Leads(sourceId, s, a, <<hello>>, b)
        /\ \/ b.phase = "over"
           \/ b = At("active", sent, IF lost > sent THEN lost ELSE 0)
  BY <1>0, <1>7, HelloLeads DEF BridgeInd
<1>9. /\ lost \in 0..MaxSequence /\ sent \in 0..MaxSequence /\ sent <= lost
      /\ MaxSequence \in Nat
  BY LostThroughFacts DEF BridgeConstants, BridgeInd, Types, TypeOK
<1>10. stream.phase # "active"
  BY <1>6, <1>7 DEF PositionOf
<1> HIDE DEF hello, lost
<1>11. CASE sent > seen.latest
  <2> DEFINE error == ErrorFrame("cursor_ahead")
             over == At("over", 0, 0)
             fs == <<hello, error>>
  <2>1. /\ stage' = "off" /\ statement' = "none" /\ seen' = NothingSeen
        /\ streamSource' = NoSource /\ sent' = 0 /\ page' = {} /\ pageFull' = FALSE
        /\ channel' = fs
    BY <1>1, <1>2, <1>3, <1>11, ConcatEmptySeq DEF Exit, Off, GoTo, Write
  <2>2. error \in Frames /\ FrameIsTrue(s, error) /\ over \in Positions
    BY ErrorIsFrame DEF ErrorCodes, At, Positions, BridgeConstants
  <2>3. Follows(sourceId, s, b, error, over)
    BY DEF Follows, ErrorFrame, At
  <2> HIDE DEF error, over
  <2>4. Leads(sourceId, s, b, <<error>>, over)
    BY <2>2, <2>3, FrameLeads
  <2>5. <<hello>> \in Seq(Frames) /\ <<error>> \in Seq(Frames) /\ fs = <<hello>> \o <<error>>
    BY <1>3, <2>2
  <2>6. Leads(sourceId, s, PositionOf(stream), fs, over)
    BY <1>6, <1>8, <2>4, <2>5, LeadsOn
  <2>7. \A f \in Carried(fs) : FrameIsTrue(s, f)
    BY <1>3, <2>2 DEF Carried
  <2>8. fs \in Seq(Frames)
    BY <1>3, <2>2
  <2> HIDE DEF fs
  <2>9. Types' /\ Reading' /\ ReadIsTrue'
    <3>1. 0 \in 0..MaxSequence
      BY DEF BridgeConstants
    <3>2. seen' \in [source : SourceIds \union {NoSource}, latest : 0..MaxSequence,
                     oldest : 0..MaxSequence]
      BY <2>1, <3>1 DEF NothingSeen
    <3>3. Types'
      BY <1>1, <2>1, <2>8, <3>1, <3>2 DEF BridgeInd, Types, TypeOK, Kept, Stages
    <3>4. Reading'
      BY <2>1 DEF Reading, NothingSeen
    <3>5. ReadIsTrue'
      BY <1>1, <2>1
         DEF BridgeConstants, BridgeInd, Types, TypeOK, ReadIsTrue, Kept, NothingSeen
    <3> QED
      BY <3>3, <3>4, <3>5
  <2>10. Connection(s)'
    BY <1>1, <1>2, <1>10, <2>1, <2>2, <2>6, <2>7, KeptFacts DEF Connection, Kept, Ends
  <2> QED
    BY <1>2, <2>9, <2>10 DEF BridgeInd
<1>12. CASE ~(sent > seen.latest)
  <2> DEFINE gap == GapFrames(sent, lost)
             fs == <<hello>> \o gap
             end == IF b.phase = "over" THEN b ELSE At("active", lost, 0)
  <2>1. /\ stage' = "loop" /\ statement' = "identity" /\ seen' = NothingSeen
        /\ streamSource' = s /\ sent' = lost /\ page' = {} /\ pageFull' = pageFull
    BY <1>1, <1>2, <1>12 DEF GoTo
  <2>2. /\ gap \in Seq(Frames)
        /\ \A f \in Carried(gap) : f = GapFrame(sent, lost) /\ sent < lost
        /\ Leads(sourceId, s, At("active", sent, IF lost > sent THEN lost ELSE 0), gap,
                 At("active", lost, 0))
    <3> DEFINE required == IF lost > sent THEN lost ELSE 0
    <3>1. required = 0 \/ (required = lost /\ sent < lost)
      BY <1>9
    <3> HIDE DEF required
    <3>2. /\ GapFrames(sent, lost) \in Seq(Frames)
          /\ Leads(sourceId, s, At("active", sent, required), GapFrames(sent, lost),
                   At("active", lost, 0))
          /\ \A f \in Carried(GapFrames(sent, lost)) : f = GapFrame(sent, lost) /\ sent < lost
      BY <1>9, <3>1, GapLeads
    <3> QED
      BY <3>2 DEF required
  <2>3. \A f \in Carried(gap) : FrameIsTrue(s, f)
    BY <1>0, <1>1, <2>2, GapIsTrue DEF lost
  <2> HIDE DEF gap
  <2>4. <<hello>> \in Seq(Frames)
    BY <1>3
  <2>5. channel' = fs
    <3>1. fs \in Seq(Frames)
      BY <2>2, <2>4, ConcatProperties
    <3> HIDE DEF fs
    <3>2. channel' = channel \o fs
      BY <1>1, <1>12 DEF Write, fs, gap
    <3> QED
      BY <1>2, <3>1, <3>2, ConcatEmptySeq
  <2>6. Leads(sourceId, s, b, gap, end) /\ end \in Positions
    <3>1. At("active", lost, 0) \in Positions
      BY <1>9 DEF At, Positions
    <3>2. CASE b.phase = "over"
      BY <2>2, <3>2, OverLeadsOver
    <3>3. CASE b.phase # "over"
      BY <1>8, <2>2, <3>1, <3>3
    <3> QED
      BY <3>2, <3>3
  <2>7. Leads(sourceId, s, PositionOf(stream), fs, end)
    BY <1>6, <1>8, <2>2, <2>4, <2>6, LeadsOn
  <2>8. \A f \in Carried(fs) : FrameIsTrue(s, f)
    <3>1. Carried(fs) \subseteq Carried(<<hello>>) \union Carried(gap)
      BY <2>2, <2>4, CarriedOn
    <3>2. Carried(<<hello>>) = {hello}
      BY OneCarried
    <3> QED
      BY <1>3, <2>3, <3>1, <3>2
  <2>9. fs \in Seq(Frames)
    BY <2>2, <2>4, ConcatProperties
  <2>10. end.phase \in {"over", "active"} /\ (end.phase = "active" => end.cursor = lost /\ end.required = 0)
    BY DEF At
  <2> HIDE DEF fs, end
  <2>11. Types' /\ Reading' /\ ReadIsTrue'
    <3>1. 0 \in 0..MaxSequence
      BY DEF BridgeConstants
    <3>2. seen' \in [source : SourceIds \union {NoSource}, latest : 0..MaxSequence,
                     oldest : 0..MaxSequence]
      BY <2>1, <3>1 DEF NothingSeen
    <3>3. Types'
      BY <1>1, <1>2, <1>9, <2>1, <2>5, <2>9, <3>1, <3>2
         DEF BridgeInd, Types, TypeOK, Kept, Stages
    <3>4. Reading'
      BY <1>2, <2>1 DEF Reading, NothingSeen
    <3>5. ReadIsTrue'
      BY <1>1, <2>1
         DEF BridgeConstants, BridgeInd, Types, TypeOK, ReadIsTrue, Kept, NothingSeen
    <3> QED
      BY <3>3, <3>4, <3>5
  <2>12. Connection(s)'
    BY <1>1, <1>2, <1>10, <2>1, <2>5, <2>6, <2>7, <2>8, <2>10, KeptFacts
       DEF Connection, Kept, Ends, NothingSeen
  <2> QED
    BY <1>2, <2>11, <2>12 DEF BridgeInd
<1> QED
  BY <1>11, <1>12

LEMMA NothingSeenIsTyped ==
  ASSUME BridgeConstants
  PROVE  /\ NothingSeen \in [source : SourceIds \union {NoSource}, latest : 0..MaxSequence,
                             oldest : 0..MaxSequence]
         /\ NothingSeen.source = NoSource
BY DEF BridgeConstants, NothingSeen

\* stream_snapshot_is_valid ends the stream, or the snapshot is one of the stream.
LEMMA StreamErrorPreserves ==
  ASSUME BridgeConstants, BridgeInd, Kept, stage # "off", StreamError # << >>, Exit(StreamError)
  PROVE  BridgeInd'
<1>1. CASE seen.source # streamSource
  <2>1. Exit(<<ErrorFrame("source_identity_changed")>>)
    BY <1>1 DEF StreamError
  <2> QED
    BY <2>1, ExitPreserves DEF ErrorCodes
<1>2. CASE seen.source = streamSource /\ sent > seen.latest
  <2>1. Exit(<<ErrorFrame("cursor_ahead")>>)
    BY <1>2 DEF StreamError
  <2> QED
    BY <2>1, ExitPreserves DEF ErrorCodes
<1> QED
  BY <1>1, <1>2 DEF StreamError

LEMMA NoStreamError ==
  ASSUME StreamError = << >>
  PROVE  seen.source = streamSource /\ ~(sent > seen.latest)
BY DEF StreamError

LEMMA FollowUpPreserves ==
  ASSUME BridgeConstants, BridgeInd, FollowUp, UNCHANGED stream
  PROVE  BridgeInd'
<1> DEFINE lost == LostThrough(sent)
           gap == GapFrames(sent, lost)
<1>1. Kept /\ stage = "loop" /\ statement = "newest"
  BY KeptBySilence DEF FollowUp, SnapshotTaken
<1>2. CASE StreamError # << >>
  BY <1>1, <1>2, StreamErrorPreserves DEF FollowUp
<1>3. CASE StreamError = << >>
  <2>1. /\ channel' = channel \o gap /\ sent' = lost
        /\ stage' = "page" /\ statement' = "identity" /\ seen' = NothingSeen
        /\ UNCHANGED <<streamSource, page, pageFull>>
    BY <1>3 DEF FollowUp, Write, GoTo
  <2>2. seen.source = streamSource
    BY <1>3, NoStreamError
  <2>3. /\ sent \in 0..MaxSequence /\ lost \in 0..MaxSequence /\ sent <= lost
    BY LostThroughFacts DEF BridgeInd, Types, TypeOK
  <2>4. ASSUME NEW s \in SourceIds
        PROVE  /\ gap \in Seq(Frames)
               /\ Leads(sourceId, s, At("active", sent, 0), gap, At("active", lost, 0))
               /\ \A f \in Carried(gap) : f = GapFrame(sent, lost) /\ sent < lost
    <3> HIDE DEF lost
    <3> QED
      BY <2>3, GapLeads
  <2>5. ASSUME NEW s \in SourceIds, streamSource = s
        PROVE  \A f \in Carried(gap) : FrameIsTrue(s, f)
    BY <1>1, <2>2, <2>4, <2>5, GapIsTrue
  <2>6. gap \in Seq(Frames)
    BY <2>4 DEF BridgeInd, Types, TypeOK
  <2>7. channel \o gap \in Seq(Frames)
    BY <2>6, ConcatProperties DEF BridgeInd, Types
  <2>8. /\ At("active", lost, 0) \in Positions /\ At("active", lost, 0).phase = "active"
        /\ At("active", lost, 0).cursor = lost /\ At("active", lost, 0).required = 0
    BY <2>3 DEF At, Positions, BridgeConstants
  <2> HIDE DEF lost, gap
  <2>9. page = {}
    BY <1>1 DEF BridgeInd, Reading
  <2>10. Types'
    BY <1>1, <2>1, <2>3, <2>7, NothingSeenIsTyped DEF BridgeInd, Types, TypeOK, Kept, Stages
  <2>11. Reading'
    BY <1>1, <2>1, <2>9, NothingSeenIsTyped DEF BridgeInd, Reading
  <2>12. ReadIsTrue'
    BY <1>1, <2>1, NothingSeenIsTyped
       DEF BridgeConstants, BridgeInd, Types, TypeOK, ReadIsTrue, Kept
  <2>13. /\ stage \notin {"off", "hello"} /\ stage' \notin {"off", "hello"}
         /\ streamSource' = streamSource /\ seen'.source \in {NoSource, seen.source, sourceId}
    BY <1>1, <2>1, NothingSeenIsTyped
  <2>14. ASSUME NEW s \in SourceIds, streamSource = s
         PROVE  /\ \A f \in Carried(gap) : FrameIsTrue(s, f)
                /\ \E b \in Positions :
                     /\ Leads(sourceId, s, At("active", sent, 0), gap, b)
                     /\ b.phase # "awaiting_hello"
                     /\ b.phase = "active" => sent' = b.cursor /\ b.required = 0
    BY <2>1, <2>4, <2>5, <2>8, <2>14
  <2> QED
    BY <1>1, <2>1, <2>6, <2>10, <2>11, <2>12, <2>13, <2>14, WrittenPreserves
<1> QED
  BY <1>2, <1>3

LEMMA ReadRowsPreserves ==
  ASSUME BridgeConstants, BridgeInd, ReadRows, UNCHANGED stream
  PROVE  BridgeInd'
<1> DEFINE rows == {n \in stored :
                      n > sent /\ Cardinality({m \in stored : sent < m /\ m < n}) < PageSize}
           corrupt == rows # {} /\ (seen.source # sourceId \/ \E n \in rows : n > seen.latest)
<1>1. Kept /\ statement = "rows" /\ stage = "page" /\ seen.source # NoSource
  BY KeptBySilence DEF ReadRows, BridgeInd, Reading, Types, TypeOK, Stages
<1>2. CASE corrupt
  <2>1. Exit(<<ErrorFrame("spool_corrupt")>>)
    BY <1>2 DEF ReadRows
  <2> QED
    BY <1>1, <2>1, ExitPreserves DEF ErrorCodes
<1>3. CASE ~corrupt
  <2>1. /\ page' = rows /\ pageFull' \in BOOLEAN /\ stage' = "write" /\ statement' = "none"
        /\ UNCHANGED <<streamSource, sent, seen, channel>>
    BY <1>3 DEF ReadRows
  <2>2. /\ highWatermark \in 0..MaxSequence /\ MaxSequence \in Nat
        /\ stored \in SUBSET (1..highWatermark) /\ sent \in Nat /\ PageSize \in Nat
    BY DEF BridgeConstants, BridgeInd, Types, TypeOK
  <2>3. rows \subseteq stored /\ \A n \in rows : sent < n
    BY <2>2
  <2>4. \A n \in stored, m \in rows : sent < n /\ n < m => n \in rows
    <3> HIDE DEF rows
    <3>1. rows = Rows(stored, sent, PageSize)
      BY DEF rows, Rows
    <3> QED
      BY <2>2, <3>1, RowsArePrefix
  <2> HIDE DEF rows
  <2>5. Types'
    <3>1. rows \in SUBSET (1..MaxSequence)
      BY <2>2, <2>3
    <3> QED
      BY <1>1, <2>1, <3>1 DEF BridgeInd, Types, TypeOK, Kept, Stages
  <2>6. Reading'
    BY <1>1, <2>1, <2>3 DEF BridgeInd, Reading, Kept, Known
  <2>7. ReadIsTrue'
    <3>1. \A m \in rows : m <= highWatermark
      BY <2>2, <2>3
    <3> QED
      BY <1>1, <2>1, <2>4, <3>1 DEF BridgeInd, ReadIsTrue, Kept
  <2> QED
    BY <1>1, <2>1, <2>5, <2>6, <2>7, SilentPreserves
<1> QED
  BY <1>2, <1>3

LEMMA WriteEventPreserves ==
  ASSUME BridgeConstants, BridgeInd, WriteEvent, UNCHANGED stream
  PROVE  BridgeInd'
<1> DEFINE n == Min(page)
           gap == GapFrames(sent, n - 1)
           event == EventFrame(seen.source, n)
           fs == gap \o <<event>>
<1>1. /\ Kept /\ stage = "write" /\ page # {}
      /\ channel' = channel \o fs /\ sent' = n /\ page' = page \ {n}
      /\ UNCHANGED <<stage, statement, streamSource, seen, pageFull>>
  BY KeptBySilence DEF WriteEvent, Write
<1>2. /\ page \in SUBSET (1..MaxSequence) /\ sent \in 0..MaxSequence /\ MaxSequence \in Nat
      /\ \A m \in page : sent < m
      /\ highWatermark \in Nat /\ stored \in SUBSET (1..highWatermark)
  BY DEF BridgeConstants, BridgeInd, Types, TypeOK, Reading
<1>3. n \in page /\ \A m \in page : n <= m
  <2>1. page \in SUBSET Nat
    BY <1>2
  <2> QED
    BY <1>1, <2>1, MinIsLeast
<1> HIDE DEF n
<1>4. n \in 1..MaxSequence /\ n - 1 \in 0..MaxSequence /\ sent <= n - 1 /\ (n - 1) + 1 = n
  BY <1>2, <1>3
<1>5. /\ gap \in Seq(Frames)
      /\ \A s : Leads(sourceId, s, At("active", sent, 0), gap, At("active", n - 1, 0))
      /\ \A f \in Carried(gap) : f = GapFrame(sent, n - 1) /\ sent < n - 1
  BY <1>2, <1>4, GapLeads
<1>6. seen.source \in Known /\ seen.source \in SourceIds
  BY <1>1 DEF BridgeInd, Reading, Types, TypeOK
<1>7. event \in Frames /\ event.type = "event" /\ event.source = seen.source /\ event.sequence = n
  BY <1>4, <1>6 DEF EventFrame, Frames
<1> HIDE DEF gap, event
<1>8. fs \in Seq(Frames) /\ <<event>> \in Seq(Frames)
  BY <1>5, <1>7, ConcatProperties
<1>9. ASSUME NEW s \in SourceIds, streamSource = s, Connection(s)
      PROVE  /\ \A f \in Carried(fs) : FrameIsTrue(s, f)
             /\ \E b \in Positions :
                  /\ Leads(sourceId, s, At("active", sent, 0), fs, b)
                  /\ b.phase # "awaiting_hello"
                  /\ b.phase = "active" => sent' = b.cursor /\ b.required = 0
  <2>1. s = sourceId => seen.source = s
    BY <1>1, <1>6, <1>9 DEF Connection, BridgeConstants
  <2>2. FrameIsTrue(s, event)
    BY <1>6, <1>7, <2>1 DEF FrameIsTrue
  <2>3. ASSUME sent < n - 1 PROVE FrameIsTrue(s, GapFrame(sent, n - 1))
    <3> SUFFICES ASSUME s = sourceId
                 PROVE  n - 1 <= highWatermark /\ \A k \in stored : ~(sent < k /\ k <= n - 1)
      BY DEF FrameIsTrue, GapFrame
    <3>1. /\ n <= highWatermark
          /\ \A k \in stored, m \in page : sent < k /\ k < m => k \in page
      BY <1>3, <2>1 DEF BridgeInd, ReadIsTrue
    <3>2. n - 1 <= highWatermark
      BY <1>2, <1>4, <3>1
    <3>3. ASSUME NEW k \in stored, sent < k, k <= n - 1 PROVE FALSE
      <4>1. k < n /\ ~(n <= k)
        BY <1>2, <1>4, <3>3
      <4>2. k \in page
        BY <1>3, <3>1, <3>3, <4>1
      <4> QED
        BY <1>3, <4>1, <4>2
    <3> QED
      BY <3>2, <3>3
  <2>4. \A f \in Carried(fs) : FrameIsTrue(s, f)
    <3>1. Carried(fs) \subseteq Carried(gap) \union Carried(<<event>>)
      BY <1>5, <1>8, CarriedOn
    <3>2. Carried(<<event>>) = {event}
      BY OneCarried
    <3> QED
      BY <1>5, <2>2, <2>3, <3>1, <3>2
  <2>5. PICK b \in Positions :
          /\ Follows(sourceId, s, At("active", n - 1, 0), event, b)
          /\ b.phase # "awaiting_hello"
          /\ b.phase = "active" => n = b.cursor /\ b.required = 0
    <3>1. CASE seen.source = s
      <4>1. /\ At("active", n, 0) \in Positions /\ At("active", n, 0).phase = "active"
            /\ At("active", n, 0).cursor = n /\ At("active", n, 0).required = 0
        BY <1>4 DEF At, Positions, BridgeConstants
      <4>2. Follows(sourceId, s, At("active", n - 1, 0), event, At("active", n, 0))
        BY <1>4, <1>7, <3>1 DEF Follows, At
      <4> QED
        BY <4>1, <4>2
    <3>2. CASE seen.source # s
      <4>1. At("over", 0, 0) \in Positions /\ At("over", 0, 0).phase = "over"
        BY DEF At, Positions, BridgeConstants
      <4>2. Follows(sourceId, s, At("active", n - 1, 0), event, At("over", 0, 0))
        BY <1>7, <2>1, <3>2 DEF Follows, At
      <4> QED
        BY <4>1, <4>2
    <3> QED
      BY <3>1, <3>2
  <2>6. Leads(sourceId, s, At("active", n - 1, 0), <<event>>, b)
    <3>1. At("active", n - 1, 0) \in Positions
      BY <1>4 DEF At, Positions, BridgeConstants
    <3> QED
      BY <2>5, <3>1, FrameLeads
  <2>7. Leads(sourceId, s, At("active", sent, 0), fs, b)
    BY <1>5, <1>8, <2>6, LeadsOn
  <2> QED
    BY <1>1, <2>4, <2>5, <2>7
<1> HIDE DEF fs
<1>10. Types'
  <2>1. channel \o fs \in Seq(Frames)
    BY <1>8, ConcatProperties DEF BridgeInd, Types
  <2>2. n \in 0..MaxSequence
    BY <1>4
  <2> QED
    BY <1>1, <2>1, <2>2 DEF BridgeInd, Types, TypeOK, Kept
<1>11. Reading'
  <2>1. \A m \in page \ {n} : n < m
    BY <1>2, <1>3, <1>4
  <2> QED
    BY <1>1, <2>1 DEF BridgeInd, Reading, Kept, Known
<1>12. ReadIsTrue'
  <2> SUFFICES ASSUME seen.source = sourceId
               PROVE  /\ seen.latest <= highWatermark /\ seen.oldest <= highWatermark
                      /\ statement # "newest"
                      /\ \A m \in page \ {n} : m <= highWatermark
                      /\ \A k \in stored, m \in page \ {n} : n < k /\ k < m => k \in page \ {n}
    BY <1>1 DEF ReadIsTrue, Kept
  <2>1. statement = "none"
    BY <1>1 DEF BridgeInd, Reading
  <2>2. /\ seen.latest <= highWatermark /\ seen.oldest <= highWatermark
        /\ \A m \in page : m <= highWatermark
        /\ \A k \in stored, m \in page : sent < k /\ k < m => k \in page
    BY DEF BridgeInd, ReadIsTrue
  <2>3. \A k \in stored : n < k => sent < k /\ k # n
    BY <1>2, <1>4
  <2> QED
    BY <2>1, <2>2, <2>3
<1>13. /\ stage \notin {"off", "hello"} /\ stage' \notin {"off", "hello"}
       /\ streamSource' = streamSource /\ seen'.source \in {NoSource, seen.source, sourceId}
  BY <1>1
<1> QED
  BY <1>1, <1>8, <1>9, <1>10, <1>11, <1>12, <1>13, WrittenPreserves

LEMMA EndPagePreserves ==
  ASSUME BridgeConstants, BridgeInd, EndPage, UNCHANGED stream
  PROVE  BridgeInd'
<1>1. /\ Kept /\ stage = "write" /\ page = {}
      /\ stage' \in {"loop", "post"} /\ statement' = "identity" /\ seen' = NothingSeen
      /\ UNCHANGED <<streamSource, sent, page, pageFull, channel>>
  BY KeptBySilence DEF EndPage, GoTo
<1>2. Types'
  BY <1>1, NothingSeenIsTyped DEF BridgeInd, Types, TypeOK, Kept, Stages
<1>3. Reading'
  BY <1>1, NothingSeenIsTyped DEF BridgeInd, Reading
<1>4. ReadIsTrue'
  BY <1>1, NothingSeenIsTyped DEF BridgeConstants, BridgeInd, Types, TypeOK, ReadIsTrue, Kept
<1> QED
  BY <1>1, <1>2, <1>3, <1>4, NothingSeenIsTyped, SilentPreserves

LEMMA CheckForMorePreserves ==
  ASSUME BridgeConstants, BridgeInd, CheckForMore, UNCHANGED stream
  PROVE  BridgeInd'
<1>1. Kept /\ stage = "post"
  BY KeptBySilence DEF CheckForMore, SnapshotTaken
<1>2. CASE StreamError # << >>
  BY <1>1, <1>2, StreamErrorPreserves DEF CheckForMore
<1>3. CASE StreamError = << >>
  <2>1. /\ \/ stage' = "loop" /\ statement' = "identity"
           \/ stage' = "sleep" /\ statement' = "none"
        /\ seen' = NothingSeen
        /\ UNCHANGED <<streamSource, sent, page, pageFull, channel>>
    BY <1>3 DEF CheckForMore, GoTo
  <2>2. Types'
    BY <1>1, <2>1, NothingSeenIsTyped DEF BridgeInd, Types, TypeOK, Kept, Stages
  <2>3. Reading'
    BY <1>1, <2>1, NothingSeenIsTyped DEF BridgeInd, Reading
  <2>4. ReadIsTrue'
    BY <1>1, <2>1, NothingSeenIsTyped
       DEF BridgeConstants, BridgeInd, Types, TypeOK, ReadIsTrue, Kept
  <2> QED
    BY <1>1, <2>1, <2>2, <2>3, <2>4, NothingSeenIsTyped, SilentPreserves
<1> QED
  BY <1>2, <1>3

LEMMA SleepPreserves ==
  ASSUME BridgeConstants, BridgeInd, Sleep, UNCHANGED stream
  PROVE  BridgeInd'
<1>1. PICK fs \in {<<Heartbeat>>, << >>} : channel' = channel \o fs
  BY DEF Sleep, Write
<1>2. /\ Kept /\ stage = "sleep" /\ stage' = "loop" /\ statement' = "identity"
      /\ seen' = NothingSeen
      /\ UNCHANGED <<streamSource, sent, page, pageFull>>
  BY KeptBySilence DEF Sleep, GoTo
<1>3. Heartbeat \in Frames /\ \A s : FrameIsTrue(s, Heartbeat)
  BY DEF Heartbeat, Frames, FrameIsTrue
<1>4. /\ At("active", sent, 0) \in Positions /\ At("active", sent, 0).phase = "active"
      /\ At("active", sent, 0).cursor = sent /\ At("active", sent, 0).required = 0
  BY DEF At, Positions, BridgeConstants, BridgeInd, Types, TypeOK
<1>5. ASSUME NEW s
      PROVE  Leads(sourceId, s, At("active", sent, 0), fs, At("active", sent, 0))
  <2>1. CASE fs = << >>
    BY <1>4, <2>1, NoFramesLeadNowhere
  <2>2. CASE fs = <<Heartbeat>>
    <3>1. Follows(sourceId, s, At("active", sent, 0), Heartbeat, At("active", sent, 0))
      BY <1>4 DEF Follows, Heartbeat
    <3> QED
      BY <1>4, <2>2, <3>1, FrameLeads
  <2> QED
    BY <1>1, <2>1, <2>2
<1>6. fs \in Seq(Frames) /\ \A s : \A f \in Carried(fs) : FrameIsTrue(s, f)
  <2>1. CASE fs = << >>
    BY <2>1, NothingCarried, EmptySeq
  <2>2. CASE fs = <<Heartbeat>>
    <3>1. Carried(fs) = {Heartbeat}
      BY <2>2, OneCarried
    <3> QED
      BY <1>3, <2>2, <3>1
  <2> QED
    BY <1>1, <2>1, <2>2
<1>7. channel \o fs \in Seq(Frames)
  BY <1>6, ConcatProperties DEF BridgeInd, Types
<1>8. Types'
  BY <1>1, <1>2, <1>7, NothingSeenIsTyped DEF BridgeInd, Types, TypeOK, Kept, Stages
<1>9. Reading'
  BY <1>2, NothingSeenIsTyped DEF BridgeInd, Reading
<1>10. ReadIsTrue'
  BY <1>2, NothingSeenIsTyped DEF BridgeConstants, BridgeInd, Types, TypeOK, ReadIsTrue, Kept
<1>11. ASSUME NEW s \in SourceIds
       PROVE  /\ \A f \in Carried(fs) : FrameIsTrue(s, f)
              /\ \E b \in Positions :
                   /\ Leads(sourceId, s, At("active", sent, 0), fs, b)
                   /\ b.phase # "awaiting_hello"
                   /\ b.phase = "active" => sent' = b.cursor /\ b.required = 0
  BY <1>2, <1>4, <1>5, <1>6
<1>12. /\ stage \notin {"off", "hello"} /\ stage' \notin {"off", "hello"}
       /\ streamSource' = streamSource /\ seen'.source \in {NoSource, seen.source, sourceId}
  BY <1>2, NothingSeenIsTyped
<1> QED
  BY <1>1, <1>2, <1>6, <1>8, <1>9, <1>10, <1>11, <1>12, WrittenPreserves

LEMMA BridgeStepPreserves ==
  ASSUME BridgeConstants, BridgeInd, BridgeStep, UNCHANGED stream
  PROVE  BridgeInd'
BY ReadIdentityPreserves, ReadOldestPreserves, SnapshotCorruptPreserves, SayHelloPreserves,
   FollowUpPreserves, ReadRowsPreserves, WriteEventPreserves, EndPagePreserves,
   CheckForMorePreserves, SleepPreserves
   DEF BridgeStep

\* What Off leaves of the process.
LEMMA OffFacts ==
  ASSUME BridgeConstants, BridgeInd, Off, UNCHANGED spoolVars
  PROVE  /\ stage' = "off" /\ streamSource' = NoSource
         /\ Reading' /\ ReadIsTrue' /\ Known' = Known
         /\ \A s, f : FrameIsTrue(s, f)' <=> FrameIsTrue(s, f)
         /\ \A e : Ends(e)'
         /\ channel' \in Seq(Frames) /\ stream' \in StreamStates => Types'
<1>1. /\ stage' = "off" /\ statement' = "none" /\ seen' = NothingSeen /\ streamSource' = NoSource
      /\ sent' = 0 /\ page' = {} /\ pageFull' = FALSE
      /\ UNCHANGED <<sourceId, highWatermark, stored, retired>>
  BY DEF Off, GoTo, spoolVars
<1>2. Reading'
  BY <1>1, NothingSeenIsTyped DEF Reading
<1>3. ReadIsTrue'
  BY <1>1, NothingSeenIsTyped DEF ReadIsTrue, BridgeConstants, BridgeInd, Types, TypeOK
<1>4. ASSUME channel' \in Seq(Frames), stream' \in StreamStates
      PROVE  Types'
  <2>1. 0 \in 0..MaxSequence
    BY DEF BridgeConstants
  <2>2. /\ stream'.phase \in {"closed", "awaiting_hello", "active", "terminal", "refused"}
        /\ stream'.cursor \in 0..MaxSequence
    BY <1>4 DEF StreamStates
  <2> QED
    BY <1>1, <1>4, <2>1, <2>2, NothingSeenIsTyped DEF BridgeInd, Types, TypeOK, Stages
<1> QED
  BY <1>1, <1>2, <1>3, <1>4 DEF Known, FrameIsTrue, Ends

LEMMA BreakPreserves ==
  ASSUME BridgeConstants, BridgeInd, Break, UNCHANGED stream
  PROVE  BridgeInd'
<1>1. PICK n \in 0..Len(channel) : channel' = SubSeq(channel, 1, n)
  BY DEF Break
<1>2. Off /\ UNCHANGED spoolVars /\ channel \in Seq(Frames) /\ stream \in StreamStates
  BY DEF Break, BridgeInd, Types
<1>3. PICK s \in SourceIds : Connection(s)
  BY DEF BridgeInd
<1>4. PICK a \in Positions : Leads(sourceId, s, PositionOf(stream), channel, a)
  BY <1>3 DEF Connection
<1>5. /\ channel' \in Seq(Frames) /\ Len(channel') = n
      /\ \A i \in 1..n : channel'[i] = channel[i]
      /\ \E b \in Positions : Leads(sourceId, s, PositionOf(stream), channel', b)
  BY <1>1, <1>2, <1>4, CutLeads
<1>6. Carried(channel') \subseteq Carried(channel)
  <2>1. 1..n \subseteq 1..Len(channel)
    BY <1>2, LenProperties
  <2> QED
    BY <1>5, <2>1 DEF Carried
<1>7. Connection(s)'
  BY <1>2, <1>3, <1>5, <1>6, OffFacts DEF Connection, spoolVars
<1> QED
  BY <1>2, <1>5, <1>7, OffFacts DEF BridgeInd

-------------------------------------------------------------------------------
(* The receiver, whoever it is *)

\* The process is ended, and nobody listens to it any more.
LEMMA OffPreserves ==
  ASSUME BridgeConstants, BridgeInd, Off, UNCHANGED spoolVars, channel' = << >>,
         stream' \in StreamStates, stream'.phase # "active"
  PROVE  BridgeInd'
<1>1. sourceId' \in SourceIds /\ sourceId' \in Known'
  BY DEF BridgeInd, Types, TypeOK, Known, spoolVars
<1>2. Leads(sourceId', sourceId', PositionOf(stream'), << >>, PositionOf(stream'))
      /\ PositionOf(stream') \in Positions
  BY PositionIsOne, NoFramesLeadNowhere
<1>3. Connection(sourceId)'
  BY <1>1, <1>2, OffFacts, NothingCarried DEF Connection
<1>4. channel' \in Seq(Frames)
  BY EmptySeq
<1> QED
  BY <1>1, <1>3, <1>4, OffFacts DEF BridgeInd

\* A new process is started behind the cursor of a new validator.
LEMMA StartPreserves ==
  ASSUME BridgeConstants, BridgeInd, NEW after \in 0..MaxSequence, NEW pin \in Sources,
         Start(after), stream' = NewStream(after, pin)
  PROVE  BridgeInd'
<1>1. stage = "off" /\ channel = << >> /\ UNCHANGED spoolVars
  BY DEF Start
<1>2. UNCHANGED <<sourceId, highWatermark, stored, retired>>
      /\ sourceId \in SourceIds /\ sourceId \in Known /\ Known' = Known
  BY <1>1 DEF spoolVars, BridgeInd, Types, TypeOK, Known
<1>3. /\ stream' \in StreamStates /\ stream'.phase = "awaiting_hello" /\ stream'.cursor = after
      /\ PositionOf(stream') = At("awaiting_hello", after, 0)
  BY DEF NewStream, StreamStates, Sources, PositionOf, At, BridgeConstants
<1> DEFINE a == At("awaiting_hello", after, 0)
<1>4. a \in Positions /\ a.phase = "awaiting_hello" /\ a.cursor = after
  BY DEF At, Positions, BridgeConstants
<1> HIDE DEF a
<1>5. CASE /\ GoTo("hello", "identity")
           /\ sent' = after
           /\ UNCHANGED <<streamSource, page, pageFull, channel>>
  <2>1. /\ stage' = "hello" /\ statement' = "identity" /\ seen' = NothingSeen
        /\ streamSource = NoSource /\ page = {} /\ channel' = << >>
    BY <1>1, <1>5 DEF GoTo, BridgeInd, Reading
  <2>2. Types'
    BY <1>2, <1>3, <1>5, <2>1, NothingSeenIsTyped, EmptySeq
       DEF BridgeInd, Types, TypeOK, Stages, StreamStates
  <2>3. Reading'
    BY <1>5, <2>1, NothingSeenIsTyped DEF Reading
  <2>4. ReadIsTrue'
    BY <1>2, <2>1, NothingSeenIsTyped DEF ReadIsTrue, BridgeConstants
  <2>5. Leads(sourceId, sourceId, a, << >>, a)
    BY <1>4, NoFramesLeadNowhere
  <2>6. Ends(a)'
    BY <1>4, <1>5, <2>1 DEF Ends
  <2>7. Connection(sourceId)'
    BY <1>2, <1>3, <1>4, <2>1, <2>5, <2>6, NothingCarried DEF Connection, a
  <2> QED
    BY <1>2, <2>2, <2>3, <2>4, <2>7 DEF BridgeInd
<1>6. CASE Exit(<<ErrorFrame("spool_unavailable")>>)
  <2> DEFINE error == ErrorFrame("spool_unavailable")
             over == At("over", 0, 0)
  <2>1. Off /\ channel' = channel \o <<error>>
    BY <1>6 DEF Exit, Write
  <2>2. error \in Frames /\ (\A s : FrameIsTrue(s, error)) /\ over \in Positions
    BY ErrorIsFrame DEF ErrorCodes, At, Positions, BridgeConstants
  <2>3. Follows(sourceId, sourceId, a, error, over)
    BY DEF Follows, ErrorFrame, At
  <2> HIDE DEF error, over
  <2>4. Leads(sourceId, sourceId, a, <<error>>, over)
    BY <1>4, <2>2, <2>3, FrameLeads
  <2>5. <<error>> \in Seq(Frames)
    BY <2>2
  <2>6. channel' = <<error>>
    BY <1>1, <2>1, <2>5, ConcatEmptySeq
  <2>7. Connection(sourceId)'
    BY <1>1, <1>2, <1>3, <2>1, <2>2, <2>4, <2>6, OffFacts, OneCarried DEF Connection, a
  <2> QED
    BY <1>1, <1>2, <1>3, <2>1, <2>5, <2>6, <2>7, OffFacts DEF BridgeInd
<1> QED
  BY <1>5, <1>6 DEF Start

\* The head of the frames is read, and the receiver stands where it leads, or has
\* given up.
LEMMA ReadPreserves ==
  ASSUME BridgeConstants, BridgeInd, UNCHANGED spoolVars, UNCHANGED bridgeVars,
         channel # << >>, channel' = Tail(channel), stream' \in StreamStates,
         NEW s \in SourceIds, Connection(s), stream'.phase = "active" => stream'.source = s,
         \/ PositionOf(stream').phase = "over"
         \/ \A b \in Positions :
              Follows(sourceId, s, PositionOf(stream), Head(channel), b) => b = PositionOf(stream')
  PROVE  BridgeInd'
<1>1. channel \in Seq(Frames) /\ PositionOf(stream) \in Positions /\ PositionOf(stream') \in Positions
  BY PositionIsOne DEF BridgeInd, Types
<1>2. PICK c \in Positions : Leads(sourceId, s, PositionOf(stream), channel, c) /\ Ends(c)
  BY DEF Connection
<1>3. PICK b \in Positions :
        /\ Follows(sourceId, s, PositionOf(stream), Head(channel), b)
        /\ Leads(sourceId, s, b, Tail(channel), c)
  BY <1>1, <1>2, HeadLeads
<1>4. Tail(channel) \in Seq(Frames) /\ Carried(Tail(channel)) \subseteq Carried(channel)
  BY <1>1, HeadTailProperties, CarriedBehind
<1>5. \E e \in Positions : Leads(sourceId, s, PositionOf(stream'), Tail(channel), e) /\ Ends(e)
  <2>1. CASE PositionOf(stream').phase = "over"
    <3>1. Leads(sourceId, s, PositionOf(stream'), Tail(channel), PositionOf(stream'))
      BY <1>1, <1>4, <2>1, OverLeadsOver
    <3> QED
      BY <1>1, <2>1, <3>1 DEF Ends
  <2>2. CASE b = PositionOf(stream')
    BY <1>2, <1>3, <2>2
  <2> QED
    BY <1>3, <2>1, <2>2
<1>6. /\ UNCHANGED <<sourceId, highWatermark, stored, retired, stage, statement, streamSource, sent,
                     seen, page, pageFull>>
      /\ \A f : FrameIsTrue(s, f)' <=> FrameIsTrue(s, f)
      /\ \A e : Ends(e)' <=> Ends(e)
  BY DEF spoolVars, bridgeVars, FrameIsTrue, Ends, Known
<1>7. Connection(s)'
  BY <1>4, <1>5, <1>6 DEF Connection, Known
<1>8. Types'
  BY <1>4, <1>6 DEF BridgeInd, Types, TypeOK, StreamStates
<1>9. Reading' /\ ReadIsTrue'
  <2>1. stage # "hello"
    BY DEF BridgeInd, Reading
  <2> QED
    BY <1>6, <2>1 DEF BridgeInd, Reading, ReadIsTrue, Known
<1> QED
  BY <1>7, <1>8, <1>9 DEF BridgeInd

LEMMA AcceptedIsTyped ==
  ASSUME BridgeConstants, NEW st \in StreamStates, NEW f \in Frames
  PROVE  Accepted(st, f) \in StreamStates
<1>1. CASE f.type = "hello"
  <2>1. RequiredGap(st.cursor, f) \in 0..MaxSequence /\ f.source \in Sources
    <3>1. f.oldest \in 0..MaxSequence /\ f.latest \in 0..MaxSequence /\ f.source \in Sources
      BY <1>1, FrameFields DEF Sources
    <3>2. f.oldest # 0 => f.oldest - 1 \in 0..MaxSequence
      BY <3>1 DEF BridgeConstants
    <3> QED
      BY <3>1, <3>2 DEF RequiredGap, BridgeConstants
  <2> QED
    BY <1>1, <2>1 DEF Accepted, StreamStates
<1>2. CASE f.type = "event"
  <2>1. f.sequence \in 0..MaxSequence
    BY <1>2, FrameFields DEF BridgeConstants
  <2> QED
    BY <1>2, <2>1 DEF Accepted, StreamStates
<1>3. CASE f.type = "gap"
  <2>1. f.through \in 0..MaxSequence /\ 0 \in 0..MaxSequence
    BY <1>3, FrameFields DEF BridgeConstants
  <2> QED
    BY <1>3, <2>1 DEF Accepted, StreamStates
<1>4. CASE f.type = "error"
  BY <1>4 DEF Accepted, StreamStates
<1>5. CASE f.type = "heartbeat"
  BY <1>5 DEF Accepted, StreamStates
<1> QED
  BY <1>1, <1>2, <1>3, <1>4, <1>5, FrameFields

\* Which frames a validator takes.
LEMMA VerdictFacts ==
  ASSUME NEW st, NEW f \in Frames, Verdict(st, f) = "accepted"
  PROVE  /\ st.phase \in {"awaiting_hello", "active"}
         /\ ValidFrame(f)
         /\ st.phase = "awaiting_hello" =>
              \/ f.type = "error"
              \/ f.type = "hello" /\ st.pinned \in {NoSource, f.source}
         /\ st.phase = "active" =>
              \/ f.type \in {"error", "heartbeat"}
              \/ f.type = "event" /\ st.required = 0 /\ f.source = st.source
                   /\ f.sequence = st.cursor + 1
              \/ f.type = "gap" /\ f.after = st.cursor /\ st.required \in {0, f.through}
<1>1. ValidFrame(f) /\ st.phase \in {"awaiting_hello", "active"}
  BY DEF Verdict
<1>2. CASE st.phase = "awaiting_hello"
  BY <1>1, <1>2, FrameFields DEF Verdict, VerdictBeforeHello
<1>3. CASE st.phase = "active"
  <2>1. VerdictActive(st, f) = "accepted"
    BY <1>1, <1>3 DEF Verdict
  <2> QED
    BY <1>1, <1>3, <2>1, FrameFields DEF VerdictActive
<1> QED
  BY <1>1, <1>2, <1>3

\* A receiver that takes a frame, as Accepted says but for the identity it has
\* pinned.
LEMMA AcceptedPreserves ==
  ASSUME BridgeConstants, BridgeInd, UNCHANGED spoolVars, UNCHANGED bridgeVars,
         channel # << >>, channel' = Tail(channel),
         Verdict(stream, Head(channel)) = "accepted",
         NEW pin \in Sources,
         \/ stream' = Accepted(stream, Head(channel))
         \/ stream' = [Accepted(stream, Head(channel)) EXCEPT !.pinned = pin]
  PROVE  BridgeInd'
<1>1. PICK s \in SourceIds : Connection(s)
  BY DEF BridgeInd
<1>2. PICK f \in Frames : f = Head(channel) /\ FrameIsTrue(s, f)
  BY <1>1, CarriedBehind DEF Connection, BridgeInd, Types
<1> DEFINE st == Accepted(stream, f)
<1>3. /\ stream \in StreamStates /\ st \in StreamStates
      /\ stream' \in StreamStates /\ stream'.phase = st.phase /\ stream'.source = st.source
      /\ PositionOf(stream') = PositionOf(st)
  <2>1. stream \in StreamStates /\ st \in StreamStates
    BY AcceptedIsTyped DEF BridgeInd, Types
  <2> HIDE DEF st
  <2>2. stream' = st \/ stream' = [st EXCEPT !.pinned = pin]
    BY <1>2 DEF st
  <2> QED
    BY <2>1, <2>2 DEF StreamStates, PositionOf
<1>4. stream.phase \in {"awaiting_hello", "active"} /\ ValidFrame(f)
  BY <1>2, VerdictFacts
<1>5. CASE f.type = "error"
  <2>1. PositionOf(st).phase = "over" /\ st.phase # "active"
    BY <1>3, <1>5 DEF Accepted, PositionOf, StreamStates
  <2> QED
    BY <1>1, <1>3, <2>1, ReadPreserves
<1>6. CASE f.type = "hello"
  <2>1. stream.phase = "awaiting_hello"
    BY <1>2, <1>4, <1>6, VerdictFacts
  <2>2. /\ st.phase = "active" /\ st.source = s
        /\ PositionOf(st) = At("active", stream.cursor, RequiredGap(stream.cursor, f))
    BY <1>2, <1>3, <1>6 DEF Accepted, PositionOf, At, StreamStates, FrameIsTrue
  <2>3. \A b \in Positions :
          Follows(sourceId, s, PositionOf(stream), f, b) => b = PositionOf(st)
    BY <1>4, <1>6, <2>1, <2>2 DEF Follows, PositionOf
  <2> QED
    BY <1>1, <1>2, <1>3, <2>2, <2>3, ReadPreserves
<1>7. CASE f.type = "heartbeat"
  <2>1. stream.phase = "active" /\ st = stream
    BY <1>2, <1>4, <1>7, VerdictFacts DEF Accepted
  <2>2. \A b \in Positions :
          Follows(sourceId, s, PositionOf(stream), f, b) => b = PositionOf(stream)
    BY <1>7, <2>1 DEF Follows, PositionOf
  <2>3. stream.source = s
    BY <1>1, <2>1 DEF Connection
  <2> QED
    BY <1>1, <1>2, <1>3, <2>1, <2>2, <2>3, ReadPreserves
<1>8. CASE f.type = "event"
  <2>1. /\ stream.phase = "active" /\ stream.required = 0 /\ f.source = stream.source
        /\ stream.source = s
    BY <1>1, <1>2, <1>4, <1>8, VerdictFacts DEF Connection
  <2>2. /\ st.phase = "active" /\ st.source = s
        /\ PositionOf(st) = At("active", f.sequence, 0)
    BY <1>3, <1>8, <2>1 DEF Accepted, PositionOf, At, StreamStates
  <2>3. \A b \in Positions :
          Follows(sourceId, s, PositionOf(stream), f, b) => b = PositionOf(st)
    BY <1>8, <2>1, <2>2 DEF Follows, PositionOf
  <2> QED
    BY <1>1, <1>2, <1>3, <2>2, <2>3, ReadPreserves
<1>9. CASE f.type = "gap"
  <2>1. stream.phase = "active" /\ stream.source = s
    BY <1>1, <1>2, <1>4, <1>9, VerdictFacts DEF Connection
  <2>2. /\ st.phase = "active" /\ st.source = s
        /\ PositionOf(st) = At("active", f.through, 0)
    BY <1>3, <1>9, <2>1 DEF Accepted, PositionOf, At, StreamStates
  <2>3. \A b \in Positions :
          Follows(sourceId, s, PositionOf(stream), f, b) => b = PositionOf(st)
    BY <1>9, <2>1, <2>2 DEF Follows, PositionOf
  <2> QED
    BY <1>1, <1>2, <1>3, <2>2, <2>3, ReadPreserves
<1> QED
  BY <1>5, <1>6, <1>7, <1>8, <1>9, FrameFields

\* What a receiver can rely on when it reads a frame.
LEMMA HeadFacts ==
  ASSUME BridgeConstants, BridgeInd, channel # << >>, NEW f, f = Head(channel)
  PROVE  /\ f \in Frames /\ f \in Carried(channel)
         /\ f.type \in {"hello", "event"} => f.source \in Known /\ f.source \in SourceIds
         /\ stream.phase = "awaiting_hello" => f.type \in {"hello", "error"}
         /\ stream.phase = "active" =>
              /\ stream.source \in SourceIds
              /\ f.type # "hello"
              /\ f.type = "event" /\ f.source = stream.source => f.sequence = stream.cursor + 1
              /\ f.type = "gap" => f.after = stream.cursor /\ f.after < f.through
              /\ f.type = "gap" /\ stream.source = sourceId =>
                   f.through <= highWatermark /\ \A n \in stored : ~(f.after < n /\ n <= f.through)
<1>1. PICK s \in SourceIds : Connection(s)
  BY DEF BridgeInd
<1>2. f \in Frames /\ f \in Carried(channel) /\ FrameIsTrue(s, f)
  BY <1>1, CarriedBehind DEF Connection, BridgeInd, Types
<1>3. PICK b : Follows(sourceId, s, PositionOf(stream), f, b)
  <2>1. PICK e \in Positions : Leads(sourceId, s, PositionOf(stream), channel, e)
    BY <1>1 DEF Connection
  <2>2. channel \in Seq(Frames) /\ PositionOf(stream) \in Positions
    BY PositionIsOne DEF BridgeInd, Types
  <2> QED
    BY <2>1, <2>2, HeadLeads
<1>4. f.type \in {"hello", "event"} => f.source \in Known /\ f.source \in SourceIds
  BY <1>1, <1>2, FrameFields DEF FrameIsTrue, Connection
<1>5. stream.phase = "awaiting_hello" => f.type \in {"hello", "error"}
  BY <1>3 DEF Follows, PositionOf
<1>6. ASSUME stream.phase = "active"
      PROVE  /\ stream.source = s
             /\ f.type # "hello"
             /\ f.type = "event" /\ f.source = stream.source => f.sequence = stream.cursor + 1
             /\ f.type = "gap" => f.after = stream.cursor /\ f.through > f.after
  <2>1. /\ stream.source = s /\ PositionOf(stream).phase = "active"
        /\ PositionOf(stream).cursor = stream.cursor
    BY <1>1, <1>6 DEF Connection, PositionOf
  <2>2. f.type # "hello"
    BY <1>3, <2>1 DEF Follows
  <2>3. f.type = "event" /\ f.source = s => f.sequence = stream.cursor + 1
    BY <1>3, <2>1 DEF Follows
  <2>4. f.type = "gap" => f.after = stream.cursor /\ f.through > f.after
    BY <1>3, <2>1 DEF Follows
  <2> QED
    BY <2>1, <2>2, <2>3, <2>4
<1>7. f.type = "gap" => (f.through > f.after <=> f.after < f.through)
  BY <1>2, FrameFields
<1>8. f.type = "gap" /\ s = sourceId =>
        f.through <= highWatermark /\ \A n \in stored : ~(f.after < n /\ n <= f.through)
  BY <1>2 DEF FrameIsTrue
<1> QED
  BY <1>2, <1>4, <1>5, <1>6, <1>7, <1>8

-------------------------------------------------------------------------------
(* Whose connection it is *)

\* All that was read, written or announced in the connection is of identities in S.
OnlyFrom(S) ==
  /\ streamSource \in S \union {NoSource}
  /\ seen.source \in S \union {NoSource}
  /\ \A f \in Carried(channel) : f.type \in {"hello", "event"} => f.source \in S
  /\ stream.phase = "active" => stream.source \in S

\* A hello of the identity the spool has comes with nothing of another one.
LEMMA HelloIsCurrent ==
  ASSUME BridgeConstants, BridgeInd, NEW f \in Carried(channel), f.type = "hello",
         f.source = sourceId
  PROVE  OnlyFrom({sourceId})
<1>1. PICK s \in SourceIds : Connection(s)
  BY DEF BridgeInd
<1>2. s = sourceId
  BY <1>1 DEF Connection, FrameIsTrue
<1>3. stage # "hello"
  BY DEF BridgeInd, Reading, Carried
<1>4. streamSource \in {sourceId, NoSource} /\ seen.source \in {sourceId, NoSource}
  BY <1>1, <1>2, <1>3 DEF BridgeInd, Reading, Connection
<1> QED
  BY <1>1, <1>2, <1>4 DEF OnlyFrom, Connection, FrameIsTrue

LEMMA SpoolStepKeepsOrigin ==
  ASSUME NEW S, OnlyFrom(S), SpoolStep, UNCHANGED stream
  PROVE  OnlyFrom(S)'
<1>1. UNCHANGED <<streamSource, seen, channel, stream>>
  BY DEF SpoolStep, StoreEvent, PruneEvents, RegenerateIdentity, bridgeVars
<1> QED
  BY <1>1 DEF OnlyFrom

\* The process reads no identity but the one the spool has.
LEMMA BridgeStepKeepsOrigin ==
  ASSUME BridgeConstants, BridgeInd, NEW S, OnlyFrom(S), sourceId \in S, BridgeStep,
         UNCHANGED stream
  PROVE  OnlyFrom(S)'
<1>1. ASSUME NEW fs \in Seq(Frames), channel' = channel \o fs,
             \A f \in Carried(fs) : f.type \in {"hello", "event"} => f.source \in S,
             streamSource' \in S \union {NoSource}, seen'.source \in S \union {NoSource}
      PROVE  OnlyFrom(S)'
  <2>1. Carried(channel') \subseteq Carried(channel) \union Carried(fs)
    BY <1>1, CarriedOn DEF BridgeInd, Types
  <2> QED
    BY <1>1, <2>1 DEF OnlyFrom
<1>2. ASSUME UNCHANGED <<streamSource, channel>>, seen'.source \in S \union {NoSource}
      PROVE  OnlyFrom(S)'
  BY <1>2 DEF OnlyFrom
<1>3. ASSUME NEW code \in ErrorCodes, Exit(<<ErrorFrame(code)>>)
      PROVE  OnlyFrom(S)'
  <2>1. ErrorFrame(code) \in Frames /\ ErrorFrame(code).type = "error"
    BY ErrorIsFrame DEF ErrorFrame
  <2>2. <<ErrorFrame(code)>> \in Seq(Frames) /\ Carried(<<ErrorFrame(code)>>) = {ErrorFrame(code)}
    BY <2>1, OneCarried
  <2>3. streamSource' = NoSource /\ seen'.source = NoSource
        /\ channel' = channel \o <<ErrorFrame(code)>>
    BY <1>3, NothingSeenIsTyped DEF Exit, Off, GoTo, Write
  <2> QED
    BY <1>1, <2>1, <2>2, <2>3
<1>4. ASSUME Exit(StreamError), StreamError # << >> PROVE OnlyFrom(S)'
  BY <1>3, <1>4 DEF StreamError, ErrorCodes
<1>5. NothingSeen.source \in S \union {NoSource}
  BY NothingSeenIsTyped
<1>6. LostThrough(sent) \in 0..MaxSequence /\ sent \in 0..MaxSequence /\ sent <= LostThrough(sent)
  BY LostThroughFacts DEF BridgeInd, Types, TypeOK
<1>7. ASSUME NEW to \in 0..MaxSequence, sent <= to
      PROVE  /\ GapFrames(sent, to) \in Seq(Frames)
             /\ \A f \in Carried(GapFrames(sent, to)) : f.type = "gap"
  <2>1. /\ GapFrames(sent, to) \in Seq(Frames)
        /\ Leads(sourceId, sourceId, At("active", sent, 0), GapFrames(sent, to),
                 At("active", to, 0))
        /\ \A f \in Carried(GapFrames(sent, to)) : f = GapFrame(sent, to) /\ sent < to
    BY <1>6, <1>7, GapLeads
  <2> QED
    BY <2>1 DEF GapFrame
<1>8. CASE ReadIdentity
  BY <1>2, <1>8 DEF ReadIdentity
<1>9. CASE ReadOldest
  <2>1. seen'.source = seen.source
    BY <1>9 DEF ReadOldest, BridgeInd, Types, TypeOK
  <2> QED
    BY <1>2, <1>9, <2>1 DEF ReadOldest, OnlyFrom
<1>10. CASE SnapshotCorrupt
  BY <1>3, <1>10 DEF SnapshotCorrupt, ErrorCodes
<1>11. CASE SayHello
  <2> DEFINE hello == Hello(seen.source, seen.oldest, seen.latest)
             error == ErrorFrame("cursor_ahead")
             gap == GapFrames(sent, LostThrough(sent))
  <2>1. statement = "newest"
    BY <1>11 DEF SayHello, SnapshotTaken
  <2>2. seen.source \in S /\ seen.source \in SourceIds
    BY <2>1 DEF OnlyFrom, BridgeInd, Reading, Types, TypeOK
  <2>3. hello \in Frames /\ hello.source \in S
    BY <2>2 DEF Hello, Frames, BridgeInd, Types, TypeOK
  <2>4. error \in Frames /\ error.type = "error"
    BY ErrorIsFrame DEF ErrorCodes, ErrorFrame
  <2>5. gap \in Seq(Frames) /\ \A f \in Carried(gap) : f.type = "gap"
    BY <1>6, <1>7
  <2>6. \/ Exit(<<hello, error>>)
        \/ Write(<<hello>> \o gap) /\ streamSource' = seen.source /\ GoTo("loop", "identity")
    BY <1>11 DEF SayHello
  <2> HIDE DEF hello, error, gap
  <2>7. CASE Exit(<<hello, error>>)
    <3>1. <<hello, error>> \in Seq(Frames)
      BY <2>3, <2>4
    <3>2. \A f \in Carried(<<hello, error>>) : f.type \in {"hello", "event"} => f.source \in S
      BY <2>3, <2>4 DEF Carried
    <3>3. streamSource' = NoSource /\ seen'.source = NoSource
          /\ channel' = channel \o <<hello, error>>
      BY <2>7, NothingSeenIsTyped DEF Exit, Off, GoTo, Write
    <3> QED
      BY <1>1, <3>1, <3>2, <3>3
  <2>8. CASE Write(<<hello>> \o gap) /\ streamSource' = seen.source /\ GoTo("loop", "identity")
    <3>1. <<hello>> \in Seq(Frames) /\ Carried(<<hello>>) = {hello}
      BY <2>3, OneCarried
    <3>2. /\ <<hello>> \o gap \in Seq(Frames)
          /\ Carried(<<hello>> \o gap) \subseteq Carried(<<hello>>) \union Carried(gap)
      BY <2>5, <3>1, CarriedOn, ConcatProperties
    <3>3. \A f \in Carried(<<hello>> \o gap) : f.type \in {"hello", "event"} => f.source \in S
      BY <2>3, <2>5, <3>1, <3>2
    <3>4. streamSource' \in S /\ seen'.source = NoSource /\ channel' = channel \o (<<hello>> \o gap)
      BY <2>2, <2>8, NothingSeenIsTyped DEF GoTo, Write
    <3> QED
      BY <1>1, <3>2, <3>3, <3>4
  <2> QED
    BY <2>6, <2>7, <2>8
<1>12. CASE FollowUp
  <2> DEFINE gap == GapFrames(sent, LostThrough(sent))
  <2>1. gap \in Seq(Frames) /\ \A f \in Carried(gap) : f.type = "gap"
    BY <1>6, <1>7
  <2>2. CASE StreamError # << >>
    BY <1>4, <1>12, <2>2 DEF FollowUp
  <2>3. CASE StreamError = << >>
    <3>1. channel' = channel \o gap /\ streamSource' = streamSource /\ seen' = NothingSeen
      BY <1>12, <2>3 DEF FollowUp, GoTo, Write
    <3> HIDE DEF gap
    <3> QED
      BY <1>1, <1>5, <2>1, <3>1 DEF OnlyFrom
  <2> QED
    BY <2>2, <2>3
<1>13. CASE ReadRows
  <2>1. \/ Exit(<<ErrorFrame("spool_corrupt")>>)
        \/ UNCHANGED <<streamSource, seen, channel>>
    BY <1>13 DEF ReadRows
  <2> QED
    BY <1>2, <1>3, <2>1 DEF ErrorCodes, OnlyFrom
<1>14. CASE WriteEvent
  <2> DEFINE n == Min(page)
             gap == GapFrames(sent, n - 1)
             event == EventFrame(seen.source, n)
  <2>1. /\ stage = "write" /\ page # {} /\ channel' = channel \o (gap \o <<event>>)
        /\ UNCHANGED <<streamSource, seen>>
    BY <1>14 DEF WriteEvent, Write
  <2>2. n \in page
    <3>1. page \in SUBSET Nat
      BY DEF BridgeInd, Types, TypeOK
    <3> QED
      BY <2>1, <3>1, MinIsLeast
  <2> HIDE DEF n
  <2>3. n \in 1..MaxSequence /\ n - 1 \in 0..MaxSequence /\ sent <= n - 1
    <3>1. n \in 1..MaxSequence /\ sent < n /\ MaxSequence \in Nat
      BY <2>2 DEF BridgeInd, Types, TypeOK, Reading, BridgeConstants
    <3> QED
      BY <1>6, <3>1
  <2>4. seen.source \in S /\ seen.source \in SourceIds
    BY <2>1 DEF OnlyFrom, BridgeInd, Reading, Types, TypeOK
  <2>5. event \in Frames /\ event.source \in S
    BY <2>3, <2>4 DEF EventFrame, Frames
  <2>6. gap \in Seq(Frames) /\ \A f \in Carried(gap) : f.type = "gap"
    BY <1>7, <2>3
  <2> HIDE DEF gap, event
  <2>7. <<event>> \in Seq(Frames) /\ Carried(<<event>>) = {event}
    BY <2>5, OneCarried
  <2>8. /\ gap \o <<event>> \in Seq(Frames)
        /\ Carried(gap \o <<event>>) \subseteq Carried(gap) \union Carried(<<event>>)
    BY <2>6, <2>7, CarriedOn, ConcatProperties
  <2>9. \A f \in Carried(gap \o <<event>>) : f.type \in {"hello", "event"} => f.source \in S
    BY <2>5, <2>6, <2>7, <2>8
  <2> QED
    BY <1>1, <2>1, <2>8, <2>9 DEF OnlyFrom
<1>15. CASE EndPage
  BY <1>2, <1>5, <1>15 DEF EndPage, GoTo
<1>16. CASE CheckForMore
  <2>1. \/ StreamError # << >> /\ Exit(StreamError)
        \/ UNCHANGED <<streamSource, channel>> /\ seen' = NothingSeen
    BY <1>16 DEF CheckForMore, GoTo
  <2> QED
    BY <1>2, <1>4, <1>5, <2>1
<1>17. CASE Sleep
  <2>1. PICK fs \in {<<Heartbeat>>, << >>} : channel' = channel \o fs
    BY <1>17 DEF Sleep, Write
  <2>2. streamSource' = streamSource /\ seen' = NothingSeen
    BY <1>17 DEF Sleep, GoTo
  <2>3. Heartbeat \in Frames /\ Heartbeat.type = "heartbeat"
    BY DEF Heartbeat, Frames
  <2>4. fs \in Seq(Frames) /\ \A f \in Carried(fs) : f = Heartbeat
    <3>1. CASE fs = << >>
      BY <3>1, NothingCarried, EmptySeq
    <3>2. CASE fs = <<Heartbeat>>
      <4>1. Carried(fs) = {Heartbeat} /\ fs \in Seq(Frames)
        BY <2>3, <3>2, OneCarried
      <4> QED
        BY <4>1
    <3> QED
      BY <2>1, <3>1, <3>2
  <2> QED
    BY <1>1, <1>5, <2>1, <2>2, <2>3, <2>4 DEF OnlyFrom
<1> QED
  BY <1>8, <1>9, <1>10, <1>11, <1>12, <1>13, <1>14, <1>15, <1>16, <1>17 DEF BridgeStep

\* A process that ends leaves nothing new on its way.
LEMMA OffKeepsOrigin ==
  ASSUME BridgeConstants, NEW S, OnlyFrom(S), Off, Carried(channel') \subseteq Carried(channel),
         stream'.phase = "active" => stream' = stream
  PROVE  OnlyFrom(S)'
<1>1. streamSource' = NoSource /\ seen'.source = NoSource
  BY NothingSeenIsTyped DEF Off, GoTo
<1> QED
  BY <1>1 DEF OnlyFrom

LEMMA OffIsOfNobody ==
  ASSUME BridgeConstants, NEW S, Off, channel' = << >>, stream'.phase # "active"
  PROVE  OnlyFrom(S)'
<1>1. streamSource' = NoSource /\ seen'.source = NoSource
  BY NothingSeenIsTyped DEF Off, GoTo
<1> QED
  BY <1>1, NothingCarried DEF OnlyFrom

LEMMA StartIsOfNobody ==
  ASSUME BridgeConstants, BridgeInd, NEW S, NEW after, Start(after), stream'.phase # "active"
  PROVE  OnlyFrom(S)'
<1>1. channel = << >> /\ streamSource = NoSource
  BY DEF Start, BridgeInd, Reading
<1>2. CASE GoTo("hello", "identity") /\ UNCHANGED <<streamSource, channel>>
  BY <1>1, <1>2, NothingSeenIsTyped, NothingCarried DEF GoTo, OnlyFrom
<1>3. CASE Exit(<<ErrorFrame("spool_unavailable")>>)
  <2>1. ErrorFrame("spool_unavailable") \in Frames
        /\ ErrorFrame("spool_unavailable").type = "error"
    BY ErrorIsFrame DEF ErrorCodes, ErrorFrame
  <2>2. <<ErrorFrame("spool_unavailable")>> \in Seq(Frames)
    BY <2>1
  <2>3. channel' = <<ErrorFrame("spool_unavailable")>>
    BY <1>1, <1>3, <2>2, ConcatEmptySeq DEF Exit, Write
  <2>4. streamSource' = NoSource /\ seen'.source = NoSource
    BY <1>3, NothingSeenIsTyped DEF Exit, Off, GoTo
  <2>5. Carried(channel') = {ErrorFrame("spool_unavailable")}
    BY <2>3, OneCarried
  <2> QED
    BY <2>1, <2>4, <2>5 DEF OnlyFrom
<1> QED
  BY <1>2, <1>3 DEF Start

LEMMA AcceptedKeepsOrigin ==
  ASSUME BridgeConstants, BridgeInd, NEW S, OnlyFrom(S), UNCHANGED bridgeVars,
         channel # << >>, channel' = Tail(channel),
         Verdict(stream, Head(channel)) = "accepted",
         stream' = Accepted(stream, Head(channel))
  PROVE  OnlyFrom(S)'
<1>1. PICK f \in Frames : f = Head(channel) /\ f \in Carried(channel)
  BY CarriedBehind DEF BridgeInd, Types
<1>2. Carried(channel') \subseteq Carried(channel)
  BY CarriedBehind DEF BridgeInd, Types
<1>3. stream'.phase = "active" => stream'.source \in S
  <2>1. stream \in StreamStates /\ stream' = Accepted(stream, f)
    BY <1>1 DEF BridgeInd, Types
  <2>2. CASE f.type = "hello"
    BY <1>1, <2>1, <2>2 DEF Accepted, StreamStates, OnlyFrom
  <2>3. CASE f.type # "hello"
    <3>1. stream'.source = stream.source /\ (stream'.phase = "active" => stream.phase = "active")
      BY <2>1, <2>3, FrameFields DEF Accepted, StreamStates
    <3> QED
      BY <3>1 DEF OnlyFrom
  <2> QED
    BY <2>2, <2>3
<1> QED
  BY <1>2, <1>3 DEF OnlyFrom, bridgeVars

-------------------------------------------------------------------------------
(* Bridge, with its own receiver *)

LEMMA InitIsInd ==
  ASSUME BridgeConstants, SpoolInit, BridgeInit,
         stream = [NewStream(0, NoSource) EXCEPT !.phase = "closed"]
  PROVE  BridgeInd
<1>1. stream \in StreamStates /\ PositionOf(stream).phase = "over" /\ stream.phase = "closed"
  BY DEF BridgeConstants, NewStream, StreamStates, Sources, PositionOf
<1>2. Types
  <2>1. 0 \in 0..MaxSequence /\ {} \in SUBSET (1..0)
    BY DEF BridgeConstants
  <2>2. TypeOK
    BY <1>1, <2>1, NothingSeenIsTyped DEF SpoolInit, BridgeInit, TypeOK, Stages, StreamStates
  <2> QED
    BY <1>1, <2>2, EmptySeq DEF BridgeInit, Types
<1>3. Reading /\ ReadIsTrue
  BY NothingSeenIsTyped DEF BridgeConstants, SpoolInit, BridgeInit, Reading, ReadIsTrue
<1>4. Connection(sourceId)
  BY <1>1, NothingOnItsWay DEF SpoolInit, BridgeInit, Known, Ends
<1> QED
  BY <1>2, <1>3, <1>4 DEF BridgeInd, SpoolInit

LEMMA ReceivePreserves ==
  ASSUME BridgeConstants, BridgeInd, Receive
  PROVE  BridgeInd'
<1> DEFINE f == Head(channel)
           refused == [NewStream(0, NoSource) EXCEPT !.phase = "refused"]
<1>1. /\ channel # << >> /\ channel' = Tail(channel)
      /\ UNCHANGED spoolVars /\ UNCHANGED bridgeVars
      /\ stream' = IF Verdict(stream, f) # "accepted" THEN refused
                   ELSE IF f.type = "hello" THEN [Accepted(stream, f) EXCEPT !.pinned = f.source]
                   ELSE Accepted(stream, f)
  BY DEF Receive
<1>2. f \in Frames
  BY <1>1, CarriedBehind DEF BridgeInd, Types
<1>3. CASE Verdict(stream, f) # "accepted"
  <2>1. refused \in StreamStates /\ PositionOf(refused).phase = "over" /\ refused.phase = "refused"
    BY DEF BridgeConstants, NewStream, StreamStates, Sources, PositionOf
  <2>2. PICK s \in SourceIds : Connection(s)
    BY DEF BridgeInd
  <2> QED
    BY <1>1, <1>3, <2>1, <2>2, ReadPreserves
<1>4. CASE Verdict(stream, f) = "accepted" /\ f.type = "hello"
  <2>1. f.source \in Sources
    BY <1>2, <1>4, FrameFields DEF Sources
  <2> QED
    BY <1>1, <1>4, <2>1, AcceptedPreserves
<1>5. CASE Verdict(stream, f) = "accepted" /\ f.type # "hello"
  <2>1. NoSource \in Sources
    BY DEF Sources
  <2> QED
    BY <1>1, <1>5, <2>1, AcceptedPreserves
<1> QED
  BY <1>3, <1>4, <1>5

LEMMA ConnectPreserves ==
  ASSUME BridgeConstants, BridgeInd, Connect
  PROVE  BridgeInd'
<1>1. stream.cursor \in 0..MaxSequence /\ stream.pinned \in Sources
  BY DEF BridgeInd, Types, StreamStates
<1> QED
  BY <1>1, StartPreserves DEF Connect

LEMMA ClosePreserves ==
  ASSUME BridgeConstants, BridgeInd, Close
  PROVE  BridgeInd'
<1>1. Off /\ channel' = << >> /\ UNCHANGED spoolVars
  BY DEF Close
<1>2. stream' \in StreamStates /\ stream'.phase # "active"
  <2>1. stream.cursor \in 0..MaxSequence /\ stream.pinned \in Sources
    BY DEF BridgeInd, Types, StreamStates
  <2>2. ASSUME NEW from \in 0..MaxSequence, NEW pin \in Sources
        PROVE  /\ [NewStream(from, pin) EXCEPT !.phase = "closed"] \in StreamStates
               /\ [NewStream(from, pin) EXCEPT !.phase = "closed"].phase # "active"
    BY DEF BridgeConstants, NewStream, StreamStates, Sources
  <2>3. 0 \in 0..MaxSequence /\ NoSource \in Sources
    BY DEF BridgeConstants, Sources
  <2> QED
    BY <2>1, <2>2, <2>3 DEF Close
<1> QED
  BY <1>1, <1>2, OffPreserves

LEMMA StutterPreserves ==
  ASSUME BridgeInd, UNCHANGED vars
  PROVE  BridgeInd'
BY DEF vars, BridgeInd, Types, TypeOK, Reading, ReadIsTrue, Known, Connection, FrameIsTrue, Ends

\* For any number of identities, events, frames on their way and rows to a page, and
\* whether or not rows are pruned in order: through every interleaving of the process
\* with the hooks, the retention, a new identity and broken connections, the receiver
\* can take what it gets and no gap names an event that is still there.
THEOREM BridgeIsTrue == BridgeConstants => (Spec => []BridgeInv)
<1> SUFFICES ASSUME BridgeConstants
             PROVE  Spec => []BridgeInv
  OBVIOUS
<1>1. Init => BridgeInd
  BY InitIsInd DEF Init
<1>2. BridgeInd /\ [Next]_vars => BridgeInd'
  <2> SUFFICES ASSUME BridgeInd, [Next]_vars
               PROVE  BridgeInd'
    OBVIOUS
  <2>1. CASE SpoolStep /\ UNCHANGED stream
    BY <2>1, SpoolStepPreserves
  <2>2. CASE BridgeStep /\ UNCHANGED stream
    BY <2>2, BridgeStepPreserves
  <2>3. CASE Break /\ UNCHANGED stream
    BY <2>3, BreakPreserves
  <2>4. CASE Connect
    BY <2>4, ConnectPreserves
  <2>5. CASE Receive
    BY <2>5, ReceivePreserves
  <2>6. CASE Close
    BY <2>6, ClosePreserves
  <2>7. CASE UNCHANGED vars
    BY <2>7, StutterPreserves
  <2> QED
    BY <2>1, <2>2, <2>3, <2>4, <2>5, <2>6, <2>7 DEF Next
<1>3. BridgeInd => BridgeInv
  BY IndImpliesInv
<1> QED
  BY <1>1, <1>2, <1>3, PTL DEF Spec
===============================================================================
