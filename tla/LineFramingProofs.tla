------------------------- MODULE LineFramingProofs -------------------------
(***************************************************************************)
(* The safety properties of LineFraming, for streams of every length, for  *)
(* every limit and every size of a read.                                   *)
(*                                                                         *)
(* The buffer is always the part of the stream between the last newline    *)
(* that was handled and the last byte that was read.  What the lines are,  *)
(* and how long a run without a newline may be, follows from where that    *)
(* part begins and how long it is.                                         *)
(***************************************************************************)
EXTENDS LineFraming, SequenceTheorems, FiniteSetTheorems, WellFoundedInduction, TLAPS

\* The newlines among the first b bytes of s.
UpTo(s, b) == {p \in 1 .. b : s[p] = "n"}
Count(s, b) == Cardinality(UpTo(s, b))

\* b is where a line of s ends, and a where the line before it does.
EndsLine(s, b, k) == s[b] = "n" /\ Count(s, b) = k
FollowsLine(s, a, k) == (a = 0 \/ s[a] = "n") /\ Count(s, a) = k - 1

\* line is the k-th line of s and ends within the first r bytes.
IsLine(s, r, k, line) ==
  \E b \in 1 .. r : \E a \in 0 .. b - 1 :
    /\ EndsLine(s, b, k) /\ FollowsLine(s, a, k)
    /\ line = Bare(SubSeq(s, a + 1, b - 1))

\* Where the buffer begins: how much of the stream has been handled.
Done == read - Len(input)

Typed ==
  /\ stream \in Seq(Bytes) /\ read \in 0 .. Len(stream)
  /\ input \in Seq(Bytes) /\ handled \in Seq(Seq(Bytes))
  /\ doomed \in BOOLEAN /\ hangup \in BOOLEAN
  /\ pc \in {"poll", "lines", "check", "served", "gone"}
  /\ why \in {"here", "eof", "error", "long", "hup", "doomed"}

\* The buffer is what was read after the last line that was handled.
Buffer ==
  /\ Done >= 0
  /\ \A p \in 1 .. Len(input) : input[p] = stream[Done + p]
  /\ Done = 0 \/ stream[Done] = "n"

Handled ==
  /\ Len(handled) = Count(stream, Done)
  /\ \A k \in 1 .. Len(handled) : IsLine(stream, read, k, handled[k])

\* A QUIT is the last line, and the loop over the lines is left with it.
Quits ==
  /\ \A k \in 1 .. Len(handled) - 1 : ~IsQuit(handled[k])
  /\ \A k \in 1 .. Len(handled) : IsQuit(handled[k]) =>
       doomed /\ pc \in {"check", "served", "gone"}

Drained == doomed \/ ~HasLine(input)

Control ==
  /\ pc \in {"poll", "check", "served"} \/ why \in {"eof", "hup", "long"} => Drained
  /\ pc \in {"poll", "served"} => Len(input) <= MaxInput
  /\ Len(input) <= MaxInput + Chunk
  /\ why = "long" => Len(input) > MaxInput
  /\ why # "here" => pc = "gone"

\* A run without a newline is never longer than the limit and one read.
Runs ==
  \A a \in 1 .. read : a + MaxInput + Chunk <= read =>
    \E p \in a .. a + MaxInput + Chunk : stream[p] = "n"

\* The inductive invariant.
IInv == Typed /\ Buffer /\ Handled /\ Quits /\ Control /\ Runs

-----------------------------------------------------------------------------
(* Newlines *)

\* A buffer with a newline has a first one.
LEMMA FirstNewline ==
  ASSUME NEW buffer \in Seq(Bytes), HasLine(buffer)
  PROVE  /\ Newline(buffer) \in 1 .. Len(buffer)
         /\ buffer[Newline(buffer)] = "n"
         /\ \A q \in 1 .. Newline(buffer) - 1 : buffer[q] # "n"
<1> DEFINE T == {p \in 1 .. Len(buffer) : buffer[p] = "n"}
           R == OpToRel(<, Nat)
<1>1. Len(buffer) \in Nat /\ DOMAIN buffer = 1 .. Len(buffer)
  BY LenProperties
<1>2. T \subseteq Nat /\ T # {}
  BY <1>1 DEF HasLine, Range
<1>3. \A x, y \in Nat : <<y, x>> \in R <=> y < x
  BY DEF OpToRel
<1>4. \E x \in T : \A y \in T : ~(<<y, x>> \in R)
  <2> HIDE DEF T, R
  <2>1. IsWellFoundedOn(R, Nat)
    BY NatLessThanWellFounded DEF R
  <2>2. QED
    BY <1>2, <2>1, WFMin
<1> HIDE DEF R
<1>5. PICK first \in T : \A y \in T : ~(y < first)
  BY <1>2, <1>3, <1>4
<1>6. \A q \in 1 .. first - 1 : q \in 1 .. Len(buffer) /\ q < first
  BY <1>1
<1>7. \A q \in 1 .. first - 1 : buffer[q] # "n"
  BY <1>5, <1>6
<1>8. \E p \in DOMAIN buffer : buffer[p] = "n" /\ \A q \in 1 .. p - 1 : buffer[q] # "n"
  BY <1>1, <1>7
<1>9. QED
  BY <1>1, <1>8 DEF Newline

\* The newlines of a part of a text are finitely many.
LEMMA CountIs ==
  ASSUME NEW s, NEW b \in Nat
  PROVE  IsFiniteSet(UpTo(s, b)) /\ Count(s, b) \in Nat
<1>1. IsFiniteSet(1 .. b) /\ UpTo(s, b) \in SUBSET (1 .. b)
  BY FS_Interval DEF UpTo
<1>2. IsFiniteSet(UpTo(s, b))
  BY <1>1, FS_Subset
<1>3. QED
  BY <1>2, FS_CardinalityType DEF Count

LEMMA CountNone ==
  ASSUME NEW s
  PROVE  Count(s, 0) = 0
<1>1. UpTo(s, 0) = {}
  BY DEF UpTo
<1>2. QED
  BY <1>1, FS_EmptySet DEF Count

\* Bytes that are no newline do not count.
LEMMA CountSame ==
  ASSUME NEW s, NEW a \in Nat, NEW b \in Nat, a <= b,
         \A p \in a + 1 .. b : s[p] # "n"
  PROVE  Count(s, b) = Count(s, a)
<1>1. UpTo(s, b) = UpTo(s, a)
  <2>1. ASSUME NEW p \in UpTo(s, b) PROVE p \in UpTo(s, a)
    <3>1. p \in 1 .. b /\ p \notin a + 1 .. b
      BY DEF UpTo
    <3>2. p \in 1 .. a
      BY <3>1
    <3>3. QED
      BY <3>2 DEF UpTo
  <2>2. ASSUME NEW p \in UpTo(s, a) PROVE p \in UpTo(s, b)
    BY DEF UpTo
  <2>3. QED
    BY <2>1, <2>2
<1>2. QED
  BY <1>1 DEF Count

\* The next newline counts one more.
LEMMA CountNext ==
  ASSUME NEW s, NEW a \in Nat, NEW b \in Nat, a < b, s[b] = "n",
         \A p \in a + 1 .. b - 1 : s[p] # "n"
  PROVE  Count(s, b) = Count(s, a) + 1
<1>1. UpTo(s, b) = UpTo(s, a) \cup {b}
  <2>1. ASSUME NEW p \in UpTo(s, b) PROVE p \in UpTo(s, a) \cup {b}
    <3>1. p \in 1 .. b /\ s[p] = "n"
      BY DEF UpTo
    <3>2. p \notin a + 1 .. b - 1
      BY <3>1
    <3>3. p \in 1 .. a \/ p = b
      BY <3>1, <3>2
    <3>4. QED
      BY <3>1, <3>3 DEF UpTo
  <2>2. ASSUME NEW p \in UpTo(s, a) \cup {b} PROVE p \in UpTo(s, b)
    BY DEF UpTo
  <2>3. QED
    BY <2>1, <2>2
<1>2. b \notin UpTo(s, a)
  BY DEF UpTo
<1>3. IsFiniteSet(UpTo(s, a))
  BY CountIs
<1>4. QED
  BY <1>1, <1>2, <1>3, FS_AddElement DEF Count

\* Up to a later newline there are more.
LEMMA CountMore ==
  ASSUME NEW s, NEW a \in Nat, NEW b \in Nat, a < b, s[b] = "n"
  PROVE  Count(s, a) < Count(s, b)
<1>1. UpTo(s, a) \in SUBSET UpTo(s, b) /\ b \in UpTo(s, b) /\ b \notin UpTo(s, a)
  BY DEF UpTo
<1>2. IsFiniteSet(UpTo(s, b)) /\ Count(s, a) \in Nat /\ Count(s, b) \in Nat
  BY CountIs
<1>3. Count(s, a) <= Count(s, b) /\ Count(s, a) # Count(s, b)
  BY <1>1, <1>2, FS_Subset DEF Count
<1>4. QED
  BY <1>2, <1>3

\* Never fewer up to a later place.
LEMMA CountGrows ==
  ASSUME NEW s, NEW a \in Nat, NEW b \in Nat, a <= b
  PROVE  Count(s, a) <= Count(s, b)
<1>1. UpTo(s, a) \in SUBSET UpTo(s, b)
  BY DEF UpTo
<1>2. IsFiniteSet(UpTo(s, b))
  BY CountIs
<1>3. QED
  BY <1>1, <1>2, FS_Subset DEF Count

-----------------------------------------------------------------------------
(* Lines *)

\* A text that has been read in part.
LEMMA ReadPart ==
  ASSUME NEW s \in Seq(Bytes), NEW r \in 0 .. Len(s)
  PROVE  /\ SubSeq(s, 1, r) \in Seq(Bytes) /\ Len(SubSeq(s, 1, r)) = r
         /\ \A p \in 1 .. r : SubSeq(s, 1, r)[p] = s[p]
         /\ Newlines(SubSeq(s, 1, r)) = UpTo(s, r)
<1>1. Len(s) \in Nat /\ \A p \in 1 .. Len(s) : s[p] \in Bytes
  BY LenProperties, ElementOfSeq
<1>2. r \in Nat /\ \A p \in 1 .. r : s[p] \in Bytes
  BY <1>1
<1> DEFINE t == SubSeq(s, 1, r)
<1>3. /\ t \in Seq(Bytes) /\ Len(t) = IF 1 <= r THEN r - 1 + 1 ELSE 0
      /\ \A p \in 1 .. r - 1 + 1 : t[p] = s[1 + p - 1]
  BY <1>2, SubSeqProperties
<1> HIDE DEF t
<1>4. Len(t) = r
  BY <1>2, <1>3
<1>5. \A p \in 1 .. r : t[p] = s[p]
  BY <1>2, <1>3
<1>6. DOMAIN t = 1 .. r
  BY <1>3, <1>4, LenProperties
<1>7. Newlines(t) = UpTo(s, r)
  BY <1>5, <1>6 DEF Newlines, UpTo
<1>8. QED
  BY <1>3, <1>4, <1>5, <1>7 DEF t

\* Its k-th newline is the one up to which there are k.
LEMMA NthFound ==
  ASSUME NEW s \in Seq(Bytes), NEW r \in 0 .. Len(s), NEW b \in 1 .. r, NEW k,
         EndsLine(s, b, k)
  PROVE  NthNewline(SubSeq(s, 1, r), k) = b
<1> DEFINE t == SubSeq(s, 1, r)
<1>1. Newlines(t) = UpTo(s, r)
  BY ReadPart
<1> HIDE DEF t
<1>2. Len(s) \in Nat /\ r \in Nat
  BY LenProperties
<1>3. ASSUME NEW p \in Newlines(t)
      PROVE  /\ p \in Nat /\ s[p] = "n"
             /\ Cardinality({q \in Newlines(t) : q <= p}) = Count(s, p)
  <2>1. p \in 1 .. r /\ s[p] = "n"
    BY <1>1 DEF UpTo
  <2>2. {q \in UpTo(s, r) : q <= p} = UpTo(s, p)
    BY <1>2, <2>1 DEF UpTo
  <2>3. {q \in Newlines(t) : q <= p} = UpTo(s, p)
    BY <1>1, <2>2
  <2>4. Cardinality({q \in Newlines(t) : q <= p}) = Count(s, p)
    BY <2>3, Zenon DEF Count
  <2>5. p \in Nat
    BY <1>2, <2>1
  <2>6. QED
    BY <2>1, <2>4, <2>5
<1>4. b \in Newlines(t) /\ b \in Nat
  BY <1>1, <1>2 DEF UpTo, EndsLine
<1>5. Cardinality({q \in Newlines(t) : q <= b}) = k
  BY <1>3, <1>4 DEF EndsLine
<1>6. ASSUME NEW p \in Newlines(t), Cardinality({q \in Newlines(t) : q <= p}) = k
      PROVE  p = b
  <2>1. p \in Nat /\ s[p] = "n" /\ Count(s, p) = k
    BY <1>3, <1>6
  <2>2. s[b] = "n" /\ Count(s, b) = k
    BY DEF EndsLine
  <2>3. Count(s, p) \in Nat
    BY <2>1, CountIs
  <2>4. CASE p < b
    BY <1>4, <2>1, <2>2, <2>3, <2>4, CountMore
  <2>5. CASE b < p
    BY <1>4, <2>1, <2>2, <2>3, <2>5, CountMore
  <2>6. QED
    BY <1>4, <2>1, <2>4, <2>5
<1>7. NthNewline(t, k) = b
  BY <1>4, <1>5, <1>6 DEF NthNewline
<1>8. QED
  BY <1>7 DEF t

\* A line that ended within what was read is the reference's.
LEMMA LineFound ==
  ASSUME NEW s \in Seq(Bytes), NEW r \in 0 .. Len(s), NEW k \in Nat \ {0}, NEW line,
         IsLine(s, r, k, line)
  PROVE  NthLine(SubSeq(s, 1, r), k) = line
<1> DEFINE t == SubSeq(s, 1, r)
<1>1. PICK b \in 1 .. r : \E a \in 0 .. b - 1 :
        /\ EndsLine(s, b, k) /\ FollowsLine(s, a, k)
        /\ line = Bare(SubSeq(s, a + 1, b - 1))
  BY DEF IsLine
<1>2. PICK a \in 0 .. b - 1 :
        /\ EndsLine(s, b, k) /\ FollowsLine(s, a, k)
        /\ line = Bare(SubSeq(s, a + 1, b - 1))
  BY <1>1
<1>3. Len(s) \in Nat /\ r \in Nat /\ b \in Nat /\ a \in Nat /\ r <= Len(s)
  BY LenProperties
<1>4. NthNewline(t, k) = b
  BY <1>2, NthFound
<1>5. (IF k = 1 THEN 1 ELSE NthNewline(t, k - 1) + 1) = a + 1
  <2>1. CASE k = 1
    <3>1. Count(s, a) = 0
      BY <1>2, <2>1 DEF FollowsLine
    <3>2. a = 0
      <4>1. SUFFICES ASSUME a # 0 PROVE FALSE
        OBVIOUS
      <4>2. s[a] = "n" /\ 0 < a
        BY <1>2, <1>3, <4>1 DEF FollowsLine
      <4>3. Count(s, 0) < Count(s, a)
        BY <1>3, <4>2, CountMore
      <4>4. QED
        BY <3>1, <4>3, CountNone
    <3>3. QED
      BY <2>1, <3>2
  <2>2. CASE k # 1
    <3>1. Count(s, a) = k - 1 /\ (a = 0 \/ s[a] = "n")
      BY <1>2 DEF FollowsLine
    <3>2. a # 0
      BY <2>2, <3>1, CountNone
    <3>3. a \in 1 .. r /\ EndsLine(s, a, k - 1)
      BY <1>3, <3>1, <3>2 DEF EndsLine
    <3>4. NthNewline(t, k - 1) = a
      BY <3>3, NthFound
    <3>5. QED
      BY <2>2, <3>4
  <2>3. QED
    BY <2>1, <2>2
<1>6. SubSeq(t, a + 1, b - 1) = SubSeq(s, a + 1, b - 1)
  <2>1. \A p \in 1 .. r : t[p] = s[p]
    BY ReadPart
  <2> HIDE DEF t
  <2>2. \A p \in 1 .. b - 1 - (a + 1) + 1 : t[(a + 1) + p - 1] = s[(a + 1) + p - 1]
    BY <1>3, <2>1
  <2>3. QED
    BY <1>3, <2>2
<1> HIDE DEF t
<1>7. NthLine(t, k) = line
  BY <1>2, <1>4, <1>5, <1>6 DEF NthLine
<1>8. QED
  BY <1>7 DEF t

-----------------------------------------------------------------------------
(* The steps *)

\* The numbers in the state.
LEMMA Numbers ==
  ASSUME Typed, Buffer
  PROVE  /\ Len(stream) \in Nat /\ read \in Nat /\ read <= Len(stream)
         /\ Len(input) \in Nat /\ Len(handled) \in Nat
         /\ Done \in Nat /\ Done + Len(input) = read
         /\ MaxInput \in Nat /\ Chunk \in Nat /\ Chunk >= 1
<1>1. Len(stream) \in Nat /\ Len(input) \in Nat /\ Len(handled) \in Nat
  BY LenProperties DEF Typed
<1>2. read \in Nat /\ read <= Len(stream)
  BY <1>1 DEF Typed
<1>3. Done \in Nat /\ Done + Len(input) = read
  BY <1>1, <1>2 DEF Buffer, Done
<1>4. QED
  BY <1>1, <1>2, <1>3, FramingAssumption

\* The tests and removals touch neither the buffer nor the lines.
LEMMA QuietStep ==
  ASSUME IInv, UNCHANGED <<stream, read, input, handled>>,
         doomed' \in BOOLEAN, doomed => doomed', hangup' \in BOOLEAN,
         pc' \in {"poll", "check", "served", "gone"},
         pc' = "poll" => pc \in {"poll", "served"} /\ (pc = "served" => ~doomed'),
         why' \in {"here", "eof", "error", "long", "hup", "doomed"},
         Control'
  PROVE  IInv'
<1>1. Typed'
  BY DEF IInv, Typed
<1>2. Buffer'
  BY DEF IInv, Buffer, Done
<1>3. Handled'
  BY DEF IInv, Handled, Done
<1>4. Runs'
  BY DEF IInv, Runs
<1>5. Quits'
  BY DEF IInv, Quits, Typed
<1>6. QED
  BY <1>1, <1>2, <1>3, <1>4, <1>5 DEF IInv

\* A line of what was read is a line of what has been read later.
LEMMA LinesStay ==
  ASSUME NEW s, NEW r \in Nat, NEW r2 \in Nat, r <= r2, NEW k, NEW line,
         IsLine(s, r, k, line)
  PROVE  IsLine(s, r2, k, line)
BY DEF IsLine

\* receiveFromClient: the buffer grows with what was read.
LEMMA ReceiveStep ==
  ASSUME IInv, receiveFromClient
  PROVE  IInv'
<1>1. /\ Len(stream) \in Nat /\ read \in Nat /\ read <= Len(stream)
      /\ Len(input) \in Nat /\ Len(handled) \in Nat
      /\ Done \in Nat /\ Done + Len(input) = read
      /\ MaxInput \in Nat /\ Chunk \in Nat /\ Chunk >= 1
  BY Numbers DEF IInv
<1>2. PICK n \in Received :
        /\ input' = input \o SubSeq(stream, read + 1, read + n)
        /\ read' = read + n
  BY DEF receiveFromClient
<1>3. /\ pc = "poll" /\ read < Len(stream) /\ pc' = "lines" /\ hangup' \in BOOLEAN
      /\ stream' = stream /\ handled' = handled /\ doomed' = doomed /\ why' = why
  BY DEF receiveFromClient
<1>4. n \in Nat /\ 1 <= n /\ n <= Chunk /\ n <= Len(stream) - read
  BY <1>1, <1>3 DEF Received
<1> DEFINE new == SubSeq(stream, read + 1, read + n)
<1>5. /\ stream \in Seq(Bytes) /\ input \in Seq(Bytes)
      /\ \A p \in 1 .. Len(stream) : stream[p] \in Bytes
  BY ElementOfSeq DEF IInv, Typed
<1>6. /\ new \in Seq(Bytes) /\ Len(new) = n
      /\ \A p \in 1 .. n : new[p] = stream[read + p]
  <2>1. \A p \in read + 1 .. read + n : stream[p] \in Bytes
    BY <1>1, <1>4, <1>5
  <2>2. /\ new \in Seq(Bytes)
        /\ Len(new) = IF read + 1 <= read + n THEN read + n - (read + 1) + 1 ELSE 0
        /\ \A p \in 1 .. read + n - (read + 1) + 1 : new[p] = stream[read + 1 + p - 1]
    BY <1>1, <1>4, <2>1, SubSeqProperties
  <2> HIDE DEF new
  <2>3. QED
    BY <1>1, <1>4, <2>2
<1> HIDE DEF new
<1>7. input' = input \o new
  BY <1>2 DEF new
<1>8. /\ input' \in Seq(Bytes) /\ Len(input') = Len(input) + n
      /\ \A p \in 1 .. Len(input') :
           input'[p] = IF p <= Len(input) THEN input[p] ELSE new[p - Len(input)]
  <2>1. input \o new \in Seq(Bytes)
    BY <1>5, <1>6, ConcatProperties
  <2>2. Len(input \o new) = Len(input) + n
    BY <1>5, <1>6, ConcatProperties
  <2>3. \A p \in 1 .. Len(input) + Len(new) :
          (input \o new)[p] = IF p <= Len(input) THEN input[p] ELSE new[p - Len(input)]
    BY <1>5, <1>6, ConcatProperties
  <2>4. QED
    BY <1>6, <1>7, <2>1, <2>2, <2>3
<1>9. Done' = Done
  BY <1>1, <1>2, <1>4, <1>8 DEF Done
<1>10. Typed'
  <2>1. read' \in 0 .. Len(stream)
    BY <1>1, <1>2, <1>4
  <2>2. QED
    BY <1>3, <1>8, <2>1 DEF IInv, Typed
<1>11. Buffer'
  <2>1. ASSUME NEW p \in 1 .. Len(input')
        PROVE  input'[p] = stream[Done + p]
    <3>1. CASE p <= Len(input)
      BY <1>1, <1>8, <3>1 DEF IInv, Buffer
    <3>2. CASE ~(p <= Len(input))
      <4>1. p - Len(input) \in 1 .. n /\ read + (p - Len(input)) = Done + p
        <5>1. Len(input') = Len(input) + n
          BY ONLY <1>8
        <5>2. p \in Nat /\ p <= Len(input) + n
          BY ONLY <1>1, <1>4, <5>1, p \in 1 .. Len(input')
        <5>3. QED
          BY ONLY <1>1, <1>4, <3>2, <5>2
      <4>2. input'[p] = new[p - Len(input)]
        BY ONLY <1>8, <3>2, p \in 1 .. Len(input')
      <4>3. new[p - Len(input)] = stream[read + (p - Len(input))]
        BY ONLY <1>6, <4>1
      <4>4. QED
        BY ONLY <4>1, <4>2, <4>3
    <3>3. QED
      BY <3>1, <3>2
  <2>2. QED
    BY <1>3, <1>9, <2>1 DEF IInv, Buffer
<1>12. Handled'
  <2>1. read' \in Nat /\ read <= read'
    BY <1>1, <1>2, <1>4
  <2>2. \A k \in 1 .. Len(handled) : IsLine(stream, read', k, handled[k])
    BY <1>1, <2>1, LinesStay DEF IInv, Handled
  <2>3. QED
    BY <1>3, <1>9, <2>2 DEF IInv, Handled
<1>13. Quits'
  BY <1>3 DEF IInv, Quits
<1>14. Control'
  <2>1. Len(input) <= MaxInput /\ why = "here"
    BY <1>3 DEF IInv, Control
  <2>2. Len(input') <= MaxInput + Chunk
    BY <1>1, <1>4, <1>8, <2>1
  <2>3. QED
    BY <1>3, <2>1, <2>2 DEF Control
<1>15. Runs'
  <2> SUFFICES ASSUME NEW a \in 1 .. read', a + MaxInput + Chunk <= read'
               PROVE  \E p \in a .. a + MaxInput + Chunk : stream[p] = "n"
    BY <1>3 DEF Runs
  <2>1. read' = read + n /\ a \in Nat /\ a >= 1
    BY <1>1, <1>2, <1>4
  <2>2. CASE a + MaxInput + Chunk <= read
    <3>1. a \in 1 .. read
      BY <1>1, <2>1, <2>2
    <3>2. QED
      BY <2>2, <3>1 DEF IInv, Runs
  <2>3. CASE ~(a + MaxInput + Chunk <= read)
    <3>1. Len(input) <= MaxInput
      BY <1>3 DEF IInv, Control
    <3>2. a <= Done
      BY <1>1, <1>4, <2>1, <3>1
    <3>3. Done \in a .. a + MaxInput + Chunk
      BY <1>1, <2>1, <2>3, <3>2
    <3>4. stream[Done] = "n"
      BY <1>1, <2>1, <3>2 DEF IInv, Buffer
    <3>5. QED
      BY <3>3, <3>4
  <2>4. QED
    BY <2>2, <2>3
<1>16. QED
  BY <1>10, <1>11, <1>12, <1>13, <1>14, <1>15 DEF IInv

\* popLine and the reference drop the same carriage return.
LEMMA ChompIsBare ==
  ASSUME NEW line \in Seq(Bytes)
  PROVE  chomp(line) = Bare(line) /\ chomp(line) \in Seq(Bytes)
<1>1. chomp(line) = Bare(line)
  BY DEF chomp, Bare, Last, Front
<1>2. Len(line) \in Nat /\ \A p \in 1 .. Len(line) : line[p] \in Bytes
  BY LenProperties, ElementOfSeq
<1>3. SubSeq(line, 1, Len(line) - 1) \in Seq(Bytes)
  BY <1>2, SubSeqProperties
<1>4. QED
  BY <1>1, <1>3 DEF Bare

\* handleCompleteLine: the line handled is the next one of the stream, and the
\* buffer begins after it.
LEMMA LineStep ==
  ASSUME IInv, handleCompleteLine
  PROVE  IInv'
<1> DEFINE nl == Newline(input)
           line == popLine(input)
           piece == SubSeq(input, 1, nl - 1)
<1>1. /\ Len(stream) \in Nat /\ read \in Nat /\ read <= Len(stream)
      /\ Len(input) \in Nat /\ Len(handled) \in Nat
      /\ Done \in Nat /\ Done + Len(input) = read
      /\ MaxInput \in Nat /\ Chunk \in Nat /\ Chunk >= 1
  BY Numbers DEF IInv
<1>2. /\ pc = "lines" /\ HasLine(input) /\ handled' = Append(handled, line)
      /\ input' = rest(input) /\ pc' = afterLine(doomed')
      /\ doomed' \in BOOLEAN /\ (doomed \/ IsQuit(line) => doomed')
      /\ stream' = stream /\ read' = read /\ hangup' = hangup /\ why' = why
  BY DEF handleCompleteLine
<1>3. /\ input \in Seq(Bytes) /\ handled \in Seq(Seq(Bytes)) /\ doomed \in BOOLEAN
      /\ \A p \in 1 .. Len(input) : input[p] \in Bytes
  BY ElementOfSeq DEF IInv, Typed
<1>4. /\ nl \in 1 .. Len(input) /\ input[nl] = "n"
      /\ \A q \in 1 .. nl - 1 : input[q] # "n"
  BY <1>2, <1>3, FirstNewline
<1>5. piece \in Seq(Bytes)
  BY <1>1, <1>3, <1>4, SubSeqProperties
<1>6. line = Bare(piece) /\ line \in Seq(Bytes)
  BY <1>5, ChompIsBare DEF popLine
<1>7. rest(input) = SubSeq(input, nl + 1, Len(input))
  BY DEF rest
<1>8. nl \in Nat /\ nl >= 1 /\ nl <= Len(input)
  BY <1>1, <1>4
<1> HIDE DEF nl, line
<1>9. /\ input' \in Seq(Bytes) /\ Len(input') = Len(input) - nl
      /\ \A p \in 1 .. Len(input') : input'[p] = input[nl + p]
  <2>1. \A p \in nl + 1 .. Len(input) : input[p] \in Bytes
    BY <1>1, <1>3, <1>8
  <2>2. /\ input' \in Seq(Bytes)
        /\ Len(input') = IF nl + 1 <= Len(input) THEN Len(input) - (nl + 1) + 1 ELSE 0
        /\ \A p \in 1 .. Len(input) - (nl + 1) + 1 : input'[p] = input[nl + 1 + p - 1]
    BY <1>1, <1>2, <1>7, <1>8, <2>1, SubSeqProperties
  <2>3. QED
    BY <1>1, <1>8, <2>2
<1>10. Done' = Done + nl
  BY <1>1, <1>2, <1>8, <1>9 DEF Done
<1>11. \A p \in 1 .. Len(input) : input[p] = stream[Done + p]
  BY DEF IInv, Buffer
<1>12. stream[Done + nl] = "n"
  BY <1>4, <1>11
<1>13. Count(stream, Done + nl) = Count(stream, Done) + 1
  <2>1. ASSUME NEW p \in Done + 1 .. Done + nl - 1
        PROVE  stream[p] # "n"
    <3>1. p - Done \in 1 .. nl - 1 /\ p - Done \in 1 .. Len(input)
      BY <1>1, <1>8
    <3>2. input[p - Done] = stream[Done + (p - Done)] /\ Done + (p - Done) = p
      BY <1>1, <1>8, <1>11, <3>1
    <3>3. QED
      BY <1>4, <3>1, <3>2
  <2> DEFINE b == Done + nl
  <2>2. b \in Nat /\ Done < b /\ stream[b] = "n"
    BY <1>1, <1>8, <1>12
  <2>3. \A p \in Done + 1 .. b - 1 : stream[p] # "n"
    <3>1. b - 1 = Done + nl - 1
      BY <1>1, <1>8
    <3> HIDE DEF b
    <3>2. QED
      BY <2>1, <3>1
  <2> HIDE DEF b
  <2>4. Done \in Nat
    BY <1>1
  <2>5. Count(stream, b) = Count(stream, Done) + 1
    BY ONLY <2>2, <2>3, <2>4, CountNext
  <2>6. QED
    BY <2>5 DEF b
<1>14. Count(stream, Done) = Len(handled)
  BY DEF IInv, Handled
<1>15. /\ Len(handled') = Len(handled) + 1 /\ handled' \in Seq(Seq(Bytes))
       /\ \A k \in 1 .. Len(handled) : handled'[k] = handled[k]
       /\ handled'[Len(handled) + 1] = line
  BY <1>1, <1>2, <1>3, <1>6, AppendProperties
<1>16. piece = SubSeq(stream, Done + 1, Done + nl - 1)
  <2>1. \A p \in 1 .. nl - 1 : input[p] = stream[Done + p]
    BY <1>1, <1>8, <1>11
  <2>2. QED
    BY <1>1, <1>8, <2>1, SMTT(30) DEF nl
<1> HIDE DEF piece
<1>17. IsLine(stream, read, Len(handled) + 1, line)
  <2> DEFINE b == Done + nl
  <2>1. b \in 1 .. read /\ Done \in 0 .. b - 1
    BY <1>1, <1>8
  <2>2. EndsLine(stream, b, Len(handled) + 1)
    BY <1>12, <1>13, <1>14 DEF EndsLine
  <2>3. FollowsLine(stream, Done, Len(handled) + 1)
    BY <1>1, <1>14 DEF FollowsLine, IInv, Buffer
  <2>4. line = Bare(SubSeq(stream, Done + 1, b - 1))
    <3>1. b - 1 = Done + nl - 1
      BY <1>1, <1>8
    <3> HIDE DEF b
    <3>2. QED
      BY <1>6, <1>16, <3>1
  <2> HIDE DEF b
  <2>5. QED
    BY <2>1, <2>2, <2>3, <2>4 DEF IsLine
<1>18. pc' \in {"lines", "check"} /\ (pc' = "lines" => ~doomed')
  BY <1>2 DEF afterLine
<1>19. Typed'
  BY <1>2, <1>9, <1>15, <1>18 DEF IInv, Typed
<1>20. Buffer'
  <2>1. ASSUME NEW p \in 1 .. Len(input')
        PROVE  input'[p] = stream[Done + nl + p]
    <3>1. nl + p \in 1 .. Len(input) /\ Done + (nl + p) = Done + nl + p
      BY <1>1, <1>8, <1>9
    <3>2. QED
      BY <1>9, <1>11, <3>1
  <2>2. Done + nl >= 0
    BY <1>1, <1>8
  <2>3. QED
    BY <1>2, <1>10, <1>12, <2>1, <2>2 DEF Buffer
<1>21. Handled'
  <2>1. ASSUME NEW k \in 1 .. Len(handled')
        PROVE  IsLine(stream, read, k, handled'[k])
    <3>1. k \in 1 .. Len(handled) \/ k = Len(handled) + 1
      BY <1>1, <1>15
    <3>2. QED
      BY <1>15, <1>17, <3>1 DEF IInv, Handled
  <2>2. Len(handled') = Count(stream, Done + nl)
    BY <1>13, <1>14, <1>15
  <2>3. QED
    BY <1>2, <1>10, <2>1, <2>2 DEF Handled
<1>22. Quits'
  <2>1. \A k \in 1 .. Len(handled) : ~IsQuit(handled'[k])
    BY <1>2, <1>15 DEF IInv, Quits
  <2>2. 1 .. Len(handled') - 1 = 1 .. Len(handled)
    BY <1>1, <1>15
  <2>3. ASSUME NEW k \in 1 .. Len(handled'), IsQuit(handled'[k])
        PROVE  doomed' /\ pc' = "check"
    <3>1. k \notin 1 .. Len(handled)
      BY <2>1, <2>3
    <3>2. k = Len(handled) + 1
      BY <1>1, <1>15, <3>1
    <3>3. doomed'
      BY <1>2, <1>15, <2>3, <3>2
    <3>4. QED
      BY <1>18, <3>3
  <2>4. QED
    BY <2>1, <2>2, <2>3 DEF Quits
<1>23. Control'
  <2>1. why = "here" /\ Len(input) <= MaxInput + Chunk
    BY <1>2 DEF IInv, Control
  <2>2. Len(input') <= MaxInput + Chunk
    BY <1>1, <1>8, <1>9, <2>1
  <2>3. pc' = "check" => doomed'
    BY <1>2 DEF afterLine
  <2>4. QED
    BY <1>2, <1>18, <2>1, <2>2, <2>3 DEF Control, Drained
<1>24. Runs'
  BY <1>2 DEF IInv, Runs
<1>25. QED
  BY <1>19, <1>20, <1>21, <1>22, <1>23, <1>24 DEF IInv

\* The other steps.
LEMMA OtherSteps ==
  ASSUME IInv, \/ noMoreLines \/ checkInput \/ removeDisconnectedClients
               \/ endOfStream \/ connectionFails \/ overflow
  PROVE  IInv'
<1>1. /\ doomed \in BOOLEAN /\ hangup \in BOOLEAN
      /\ pc \in {"poll", "lines", "check", "served", "gone"}
      /\ why \in {"here", "eof", "error", "long", "hup", "doomed"}
  BY DEF IInv, Typed
<1>2. Control
  BY DEF IInv
<1>3. Len(input) \in Nat /\ MaxInput \in Nat
  BY Numbers DEF IInv
<1>4. CASE noMoreLines
  <2>1. Control'
    BY <1>2, <1>4 DEF noMoreLines, Control, Drained
  <2>2. QED
    BY <1>1, <1>4, <2>1, QuietStep DEF noMoreLines
<1>5. CASE checkInput
  <2>1. Control'
    BY <1>2, <1>3, <1>5 DEF checkInput, Control, Drained, tooLong, remove
  <2>2. QED
    BY <1>1, <1>5, <2>1, QuietStep DEF checkInput, remove
<1>6. CASE removeDisconnectedClients
  <2>1. Control'
    BY <1>2, <1>6 DEF removeDisconnectedClients, Control, Drained, remove
  <2>2. QED
    BY <1>1, <1>6, <2>1, QuietStep DEF removeDisconnectedClients, remove
<1>7. CASE endOfStream
  <2>1. Control'
    BY <1>2, <1>7 DEF endOfStream, Control, Drained, remove
  <2>2. QED
    BY <1>1, <1>7, <2>1, QuietStep DEF endOfStream, remove
<1>8. CASE connectionFails
  <2>1. Control'
    BY <1>2, <1>8 DEF connectionFails, Control, Drained, remove
  <2>2. QED
    BY <1>1, <1>8, <2>1, QuietStep DEF connectionFails, remove
<1>9. CASE overflow
  <2>1. Control'
    BY <1>2, <1>9 DEF overflow, Control, Drained
  <2>2. QED
    BY <1>1, <1>9, <2>1, QuietStep DEF overflow
<1>10. QED
  BY <1>4, <1>5, <1>6, <1>7, <1>8, <1>9

-----------------------------------------------------------------------------
(* The theorems *)

LEMMA InitIInv == Init => IInv
<1> SUFFICES ASSUME Init PROVE IInv
  OBVIOUS
<1>1. stream \in Seq(Bytes)
  <2>1. PICK n \in 0 .. MaxStream : stream \in [1 .. n -> Bytes]
    BY DEF Init, Streams
  <2>2. n \in Nat
    BY <2>1, FramingAssumption
  <2>3. QED
    BY <2>1, <2>2, SeqDef
<1>2. /\ read = 0 /\ input = <<>> /\ handled = <<>> /\ doomed = FALSE
      /\ hangup = FALSE /\ pc = "poll" /\ why = "here"
  BY DEF Init
<1>3. Len(input) = 0 /\ Len(handled) = 0 /\ Done = 0 /\ Len(stream) \in Nat
  <2>1. Len(input) = 0 /\ Len(handled) = 0
    BY <1>2, EmptySeq
  <2>2. Len(stream) \in Nat
    BY <1>1, LenProperties
  <2>3. Done = 0
    <3>1. read = 0
      BY <1>2
    <3>2. QED
      BY ONLY <2>1, <3>1 DEF Done
  <2>4. QED
    BY <2>1, <2>2, <2>3
<1>4. Typed
  <2>1. input \in Seq(Bytes) /\ handled \in Seq(Seq(Bytes))
    BY <1>2, EmptySeq
  <2>2. read \in 0 .. Len(stream)
    BY <1>2, <1>3
  <2>3. doomed \in BOOLEAN /\ hangup \in BOOLEAN
    BY <1>2
  <2>4. QED
    BY <1>1, <1>2, <2>1, <2>2, <2>3 DEF Typed
<1>5. Buffer
  BY <1>3 DEF Buffer
<1>6. Handled
  BY <1>3, CountNone DEF Handled
<1>7. Quits
  BY <1>3 DEF Quits
<1>8. Control
  BY <1>2, <1>3, FramingAssumption DEF Control, Drained, HasLine, Range
<1>9. Runs
  BY <1>2 DEF Runs
<1>10. QED
  BY <1>4, <1>5, <1>6, <1>7, <1>8, <1>9 DEF IInv

LEMMA NextIInv == IInv /\ [Next]_vars => IInv'
<1> SUFFICES ASSUME IInv, [Next]_vars PROVE IInv'
  OBVIOUS
<1>1. CASE UNCHANGED vars
  BY <1>1 DEF vars, IInv, Typed, Buffer, Handled, Quits, Control, Runs, Done, Drained
<1>2. CASE receiveFromClient
  BY <1>2, ReceiveStep
<1>3. CASE handleCompleteLine
  BY <1>3, LineStep
<1>4. QED
  BY <1>1, <1>2, <1>3, OtherSteps DEF Next, step

\* The buffer, the lines handled and the place in the program always fit
\* together as IInv says.
THEOREM Invariance == Spec => []IInv
BY InitIInv, NextIInv, PTL DEF Spec

\* Without a complete line in the buffer, all newlines read have been handled.
LEMMA DrainedCount ==
  ASSUME IInv, ~HasLine(input)
  PROVE  /\ \A p \in Done + 1 .. read : stream[p] # "n"
         /\ Count(stream, Done) = Count(stream, read)
<1>1. /\ read \in Nat /\ Len(input) \in Nat
      /\ Done \in Nat /\ Done + Len(input) = read
  BY Numbers DEF IInv
<1>2. \A p \in 1 .. Len(input) : input[p] # "n" /\ input[p] = stream[Done + p]
  <2>1. DOMAIN input = 1 .. Len(input)
    BY LenProperties DEF IInv, Typed
  <2>2. QED
    BY <2>1 DEF HasLine, Range, IInv, Buffer
<1>3. ASSUME NEW p \in Done + 1 .. read
      PROVE  stream[p] # "n"
  <2>1. p - Done \in 1 .. Len(input) /\ Done + (p - Done) = p
    BY <1>1
  <2>2. QED
    BY <1>2, <2>1
<1>4. Done <= read
  BY <1>1
<1>5. QED
  BY <1>1, <1>3, <1>4, CountSame

\* However TCP cuts a stream of any length into reads of any size, the lines that
\* handleCompleteLine gets are the lines sent, in order, each once and without
\* its line ending, none after a QUIT, and all that are complete unless the
\* client is doomed (Client::popLine, Client.cpp, and the loop of
\* receiveFromClient, ServerSocket.cpp:214).
THEOREM LinesCorrect == Spec => []LinesExact
<1>1. IInv => LinesExact
  <2> SUFFICES ASSUME IInv PROVE LinesExact
    OBVIOUS
  <2> DEFINE n == Len(handled)
             all == Count(stream, read)
             line(k) == NthLine(Got, k)
  <2>1. /\ stream \in Seq(Bytes) /\ read \in 0 .. Len(stream)
        /\ handled \in Seq(Seq(Bytes))
        /\ read \in Nat /\ Done \in Nat /\ Done <= read /\ n \in Nat
    <3>1. /\ read \in Nat /\ Len(input) \in Nat /\ n \in Nat
          /\ Done \in Nat /\ Done + Len(input) = read
      BY Numbers DEF IInv
    <3>2. QED
      BY <3>1 DEF IInv, Typed
  <2>2. all \in Nat /\ n <= all
    BY <2>1, CountIs, CountGrows DEF IInv, Handled
  <2>3. Complete = [k \in 1 .. all |-> line(k)]
    <3>1. Newlines(Got) = UpTo(stream, read)
      BY <2>1, ReadPart DEF Got
    <3>2. QED
      BY <3>1 DEF Complete, Lines, Count
  <2>4. \A k \in 1 .. n : handled[k] = line(k)
    <3>1. ASSUME NEW k \in 1 .. n PROVE handled[k] = line(k)
      <4>1. IsLine(stream, read, k, handled[k]) /\ k \in Nat \ {0}
        BY <2>1 DEF IInv, Handled
      <4>2. QED
        BY <2>1, <4>1, LineFound DEF Got
    <3>2. QED
      BY <3>1
  <2> HIDE DEF all, line
  <2>5. Complete \in Seq({line(k) : k \in 1 .. all}) /\ Len(Complete) = all
    BY <2>2, <2>3, SeqDef
  <2>6. IsPrefix(handled, Complete)
    <3>1. \A k \in 1 .. n : handled[k] = Complete[k]
      BY <2>1, <2>2, <2>3, <2>4
    <3>2. SubSeq(handled, 1, n) = SubSeq(Complete, 1, n)
      BY <2>1, <3>1
    <3>3. QED
      BY <2>2, <2>5, <3>2 DEF IsPrefix
  <2>7. \A k \in 1 .. Len(handled) - 1 : ~IsQuit(handled[k])
    BY DEF IInv, Quits
  <2>8. ASSUME pc \in {"poll", "served"} \/ why \in {"eof", "hup"}, ~doomed
        PROVE  handled = Complete
    <3>1. ~HasLine(input)
      BY <2>8 DEF IInv, Control, Drained
    <3>2. n = all
      BY <3>1, DrainedCount DEF IInv, Handled, all
    <3>3. handled = [k \in 1 .. n |-> handled[k]]
      BY <2>1
    <3>4. [k \in 1 .. n |-> handled[k]] = [k \in 1 .. n |-> line(k)]
      BY <2>4
    <3>5. QED
      BY <2>3, <3>2, <3>3, <3>4
  <2>9. QED
    BY <2>6, <2>7, <2>8 DEF LinesExact
<1>2. QED
  BY <1>1, Invariance, PTL

\* The input limit strikes only a client that sent a line longer than the limit,
\* or one that is doomed, and no line longer than the limit and one read gets
\* through (MAX_PENDING_INPUT, ServerSocket.cpp:222).
THEOREM LimitCorrect == Spec => []LongLinesOnly
<1>1. IInv => LongLinesOnly
  <2> SUFFICES ASSUME IInv PROVE LongLinesOnly
    OBVIOUS
  <2>1. /\ read \in Nat /\ Len(input) \in Nat /\ MaxInput \in Nat
        /\ Done \in Nat /\ Done + Len(input) = read
    BY Numbers DEF IInv
  <2>2. ASSUME why = "long", ~doomed
        PROVE  \E a \in 1 .. read : /\ a + MaxInput <= read
                                    /\ \A p \in a .. a + MaxInput : stream[p] # "n"
    <3>1. ~HasLine(input) /\ Len(input) > MaxInput
      BY <2>2 DEF IInv, Control, Drained
    <3>2. \A p \in Done + 1 .. read : stream[p] # "n"
      BY <3>1, DrainedCount
    <3> DEFINE a == Done + 1
    <3>3. a \in 1 .. read /\ a + MaxInput <= read
      BY <2>1, <3>1
    <3>4. \A p \in a .. a + MaxInput : p \in Done + 1 .. read
      BY <2>1, <3>3
    <3>5. \A p \in a .. a + MaxInput : stream[p] # "n"
      BY <3>2, <3>4
    <3> HIDE DEF a
    <3>6. QED
      BY <3>3, <3>5
  <2>3. \A a \in 1 .. read : a + MaxInput + Chunk <= read =>
          ~ \A p \in a .. a + MaxInput + Chunk : stream[p] # "n"
    BY DEF IInv, Runs
  <2>4. QED
    BY <2>2, <2>3 DEF LongLinesOnly
<1>2. QED
  BY <1>1, Invariance, PTL
=============================================================================
