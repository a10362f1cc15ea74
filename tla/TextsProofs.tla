---------------------------- MODULE TextsProofs ----------------------------
(***************************************************************************)
(* The parsers, for texts of every length over every alphabet.             *)
(*                                                                         *)
(* Each parser is a recursive function over positions.  Recursion gives    *)
(* such a function its equation, Induction proves what it computes; both   *)
(* speak of sets and functions, never of an operator as a parameter.       *)
(***************************************************************************)
EXTENDS Texts, SequenceTheorems, FiniteSetTheorems, WellFoundedInduction, TLAPS

-----------------------------------------------------------------------------
(* Induction and recursion *)

\* A set of natural numbers that is not empty has a least element.
LEMMA LeastNumber ==
  ASSUME NEW T \in SUBSET Nat, T # {}
  PROVE  \E m \in T : \A k \in T : m <= k
<1> DEFINE R == OpToRel(<, Nat)
<1>1. IsWellFoundedOn(R, Nat)
  BY NatLessThanWellFounded DEF R
<1>2. \A x, y \in Nat : <<x, y>> \in R <=> x < y
  BY DEF R, OpToRel
<1> HIDE DEF R
<1>3. PICK m \in T : \A k \in T : ~(<<k, m>> \in R)
  BY <1>1, WFMin
<1>4. \A k \in T : k \in Nat /\ m \in Nat /\ ~(k < m)
  BY ONLY <1>2, <1>3, T \in SUBSET Nat
<1>5. \A k \in T : m <= k
  BY ONLY <1>4
<1>6. QED
  BY <1>5

LEMMA Induction ==
  ASSUME NEW T, 0 \in T, \A k \in Nat : k \in T => k + 1 \in T
  PROVE  \A k \in Nat : k \in T
<1> DEFINE Bad == {k \in Nat : k \notin T}
<1>1. SUFFICES ASSUME Bad # {} PROVE FALSE
  OBVIOUS
<1>2. PICK m \in Bad : \A k \in Bad : m <= k
  BY <1>1, LeastNumber
<1>3. m \in Nat /\ m # 0 /\ m - 1 \in Nat
  BY <1>2
<1>4. m - 1 \notin Bad
  BY <1>2, <1>3
<1>5. QED
  BY <1>2, <1>3, <1>4

\* A function on D whose value at d is given outright, or computed from its value
\* at a place of lower rank.
Computable(D, S, n, rank, goes, next, base, step) ==
  /\ n \in Nat /\ rank \in [D -> 0 .. n]
  /\ goes \in [D -> BOOLEAN] /\ next \in [D -> D]
  /\ base \in [D -> S] /\ step \in [D -> [S -> S]]
  /\ \A d \in D : goes[d] => rank[next[d]] < rank[d]

Computed(D, S, goes, next, base, step) ==
  \E f \in [D -> S] :
    \A d \in D : f[d] = IF goes[d] THEN step[d][f[next[d]]] ELSE base[d]

\* Such a function exists.
LEMMA Recursion ==
  ASSUME NEW D, NEW S, NEW n, NEW rank, NEW goes, NEW next, NEW base, NEW step,
         Computable(D, S, n, rank, goes, next, base, step)
  PROVE  Computed(D, S, goes, next, base, step)
<1> USE DEF Computable
<1> DEFINE Below(r) == {d \in D : rank[d] < r}
           Right(f, r) == \A d \in Below(r) :
                            f[d] = IF goes[d] THEN step[d][f[next[d]]] ELSE base[d]
           T == {r \in Nat : \E f \in [D -> S] : Right(f, r)}
<1>1. 0 \in T
  <2>1. base \in [D -> S] /\ Right(base, 0)
    OBVIOUS
  <2>2. QED
    BY <2>1
<1>2. ASSUME NEW r \in Nat, r \in T
      PROVE  r + 1 \in T
  <2>1. PICK f \in [D -> S] : Right(f, r)
    BY <1>2
  <2> DEFINE g == [d \in D |-> IF goes[d] THEN step[d][f[next[d]]] ELSE base[d]]
  <2>2. g \in [D -> S]
    OBVIOUS
  <2>3. \A d \in D : g[d] = IF goes[d] THEN step[d][f[next[d]]] ELSE base[d]
    OBVIOUS
  <2>4. \A d \in Below(r) : g[d] = f[d]
    BY <2>1, <2>3
  <2> HIDE DEF g
  <2>5. ASSUME NEW d \in Below(r + 1), goes[d]
        PROVE  next[d] \in Below(r)
    BY <2>5
  <2>6. Right(g, r + 1)
    BY <2>3, <2>4, <2>5
  <2>7. QED
    BY <2>2, <2>6
<1>3. n + 1 \in T
  <2> HIDE DEF T
  <2>1. QED
    BY <1>1, <1>2, Induction
<1>4. PICK f \in [D -> S] : Right(f, n + 1)
  BY <1>3
<1>5. D = Below(n + 1)
  OBVIOUS
<1>6. QED
  BY <1>4, <1>5 DEF Computed

-----------------------------------------------------------------------------
(* Ranks *)

LEMMA RankIs ==
  ASSUME NEW S, IsFiniteSet(S), NEW p
  PROVE  /\ IsFiniteSet({q \in S : q <= p})
         /\ Rank(S, p) \in Nat /\ Rank(S, p) <= Cardinality(S)
<1>1. {q \in S : q <= p} \in SUBSET S
  OBVIOUS
<1>2. QED
  BY <1>1, FS_Subset, FS_CardinalityType DEF Rank

\* Up to one more position there may be one more element.
LEMMA RankStep ==
  ASSUME NEW S \in SUBSET Nat, IsFiniteSet(S), NEW p \in Nat
  PROVE  Rank(S, p + 1) = IF p + 1 \in S THEN Rank(S, p) + 1 ELSE Rank(S, p)
<1> DEFINE A == {q \in S : q <= p}
           B == {q \in S : q <= p + 1}
<1>1. \A q \in S : q \in Nat /\ (q <= p + 1 <=> q <= p \/ q = p + 1)
  OBVIOUS
<1>2. CASE p + 1 \in S
  <2>1. B = A \cup {p + 1} /\ p + 1 \notin A
    <3>1. \A q \in B : q \in A \/ q = p + 1
      BY <1>1
    <3>2. \A q \in A : q \in B
      BY <1>1
    <3>3. p + 1 \in B /\ p + 1 \notin A
      BY <1>2
    <3>4. QED
      BY <3>1, <3>2, <3>3
  <2>2. IsFiniteSet(A)
    BY RankIs
  <2>3. Cardinality(B) = Cardinality(A) + 1
    BY <2>1, <2>2, FS_AddElement
  <2>4. QED
    BY <1>2, <2>3 DEF Rank
<1>3. CASE p + 1 \notin S
  <2>1. B = A
    BY <1>1, <1>3
  <2>2. QED
    BY <1>3, <2>1 DEF Rank
<1>4. QED
  BY <1>2, <1>3

LEMMA RankNone ==
  ASSUME NEW S, NEW p, \A q \in S : ~(q <= p)
  PROVE  Rank(S, p) = 0
<1>1. {q \in S : q <= p} = {}
  OBVIOUS
<1>2. QED
  BY <1>1, FS_EmptySet DEF Rank

LEMMA RankAll ==
  ASSUME NEW S, NEW p, \A q \in S : q <= p
  PROVE  Rank(S, p) = Cardinality(S)
<1>1. {q \in S : q <= p} = S
  OBVIOUS
<1>2. QED
  BY <1>1 DEF Rank

\* Ranks grow, and they grow at each element.
LEMMA RankGrows ==
  ASSUME NEW S \in SUBSET Nat, IsFiniteSet(S), NEW p \in Nat, NEW q \in Nat, p <= q
  PROVE  /\ Rank(S, p) <= Rank(S, q)
         /\ p < q /\ q \in S => Rank(S, p) < Rank(S, q)
<1> DEFINE A == {x \in S : x <= p}
           B == {x \in S : x <= q}
<1>1. A \in SUBSET B
  <2>1. \A x \in S : x \in Nat /\ (x <= p => x <= q)
    OBVIOUS
  <2>2. QED
    BY <2>1
<1>2. IsFiniteSet(B) /\ Cardinality(A) \in Nat /\ Cardinality(B) \in Nat
  BY RankIs DEF Rank
<1>3. Cardinality(A) <= Cardinality(B) /\ (Cardinality(A) = Cardinality(B) => A = B)
  BY <1>1, <1>2, FS_Subset
<1>4. ASSUME p < q, q \in S PROVE A # B
  <2>1. q \in B /\ q \notin A
    BY <1>4
  <2>2. QED
    BY <2>1
<1>5. QED
  BY <1>2, <1>3, <1>4 DEF Rank

\* An element is the one of its rank.
LEMMA NthOfRank ==
  ASSUME NEW S \in SUBSET Nat, IsFiniteSet(S), NEW p \in S
  PROVE  Nth(S, Rank(S, p)) = p
<1>1. ASSUME NEW q \in S, Rank(S, q) = Rank(S, p)
      PROVE  q = p
  <2>1. p \in Nat /\ q \in Nat /\ Rank(S, p) \in Nat
    BY RankIs
  <2>2. ~(p < q)
    BY <1>1, <2>1, RankGrows
  <2>3. ~(q < p)
    BY <1>1, <2>1, RankGrows
  <2>4. QED
    BY <2>1, <2>2, <2>3
<1>2. QED
  BY <1>1 DEF Nth

\* Every rank up to the number of elements is taken.
LEMMA NthIs ==
  ASSUME NEW S \in SUBSET Nat, IsFiniteSet(S), 0 \notin S, NEW n \in Nat,
         \A q \in S : q <= n, NEW k \in 1 .. Cardinality(S)
  PROVE  Nth(S, k) \in S /\ Rank(S, Nth(S, k)) = k
<1> DEFINE T == {p \in Nat : k <= Rank(S, p)}
<1>1. n \in T
  <2>1. Rank(S, n) = Cardinality(S)
    BY RankAll
  <2>2. Cardinality(S) \in Nat
    BY FS_CardinalityType
  <2>3. QED
    BY <2>1, <2>2
<1>2. PICK p \in T : \A x \in T : p <= x
  BY <1>1, LeastNumber
<1>3. p # 0
  <2>1. Rank(S, 0) = 0
    <3>1. \A q \in S : ~(q <= 0)
      OBVIOUS
    <3>2. QED
      BY <3>1, RankNone
  <2>2. QED
    BY <2>1
<1>4. p - 1 \in Nat /\ p - 1 \notin T /\ (p - 1) + 1 = p
  BY <1>2, <1>3
<1>5. /\ Rank(S, p - 1) \in Nat /\ Rank(S, p - 1) < k /\ k <= Rank(S, p)
      /\ Rank(S, p) = IF p \in S THEN Rank(S, p - 1) + 1 ELSE Rank(S, p - 1)
  <2>1. Rank(S, p - 1) \in Nat /\ Rank(S, p) \in Nat
    BY RankIs
  <2>2. Rank(S, (p - 1) + 1) = IF (p - 1) + 1 \in S THEN Rank(S, p - 1) + 1 ELSE Rank(S, p - 1)
    BY <1>4, RankStep
  <2>3. QED
    BY <1>4, <2>1, <2>2
<1>6. p \in S /\ Rank(S, p) = k
  BY <1>5
<1>7. QED
  BY <1>6 DEF Nth

-----------------------------------------------------------------------------
(* The loop of parseChannelModeChanges *)

ChangeSet(string, args) ==
  [adding : BOOLEAN, mode : Range(string),
   argument : {NoArgument} \cup {<<a>> : a \in Range(args)}]

TurnSet(string, args) ==
  [good : BOOLEAN, adding : BOOLEAN, signSeen : BOOLEAN,
   argumentIndex : Nat \ {0}, changes : Seq(ChangeSet(string, args))]

\* The four cases of one turn.
LEMMA TurnRejected ==
  ASSUME NEW args, NEW s, NEW c, ~s.good
  PROVE  parseMode(args, s, c) = s
BY DEF parseMode

LEMMA TurnSign ==
  ASSUME NEW args, NEW s, NEW c, s.good, c \in Signs
  PROVE  parseMode(args, s, c) = [s EXCEPT !.adding = (c = "+"), !.signSeen = TRUE]
BY DEF parseMode

LEMMA TurnRefused ==
  ASSUME NEW args, NEW s, NEW c, s.good, c \notin Signs,
         \/ ~s.signSeen
         \/ modeNeedsArgument(c, s.adding) /\ s.argumentIndex > Len(args)
  PROVE  parseMode(args, s, c) = [s EXCEPT !.good = FALSE]
BY DEF parseMode, takesArgument

LEMMA TurnChange ==
  ASSUME NEW args, NEW s, NEW c, s.good, c \notin Signs, s.signSeen,
         modeNeedsArgument(c, s.adding) => ~(s.argumentIndex > Len(args))
  PROVE  parseMode(args, s, c) =
           [s EXCEPT !.argumentIndex =
                        IF modeNeedsArgument(c, s.adding) THEN s.argumentIndex + 1
                        ELSE s.argumentIndex,
                     !.changes = Append(s.changes, ModeChange(s.adding, c,
                        IF modeNeedsArgument(c, s.adding)
                        THEN <<args[s.argumentIndex]>> ELSE NoArgument))]
BY DEF parseMode, takesArgument

LEMMA LoopChosen ==
  ASSUME NEW string, NEW args
  PROVE  modeLoop(string, args) =
           CHOOSE loop : loop = [p \in 0 .. Len(string) |->
             IF p = 0 THEN Start ELSE parseMode(args, loop[p - 1], string[p])]
BY DEF modeLoop

LEMMA TurnTyped ==
  ASSUME NEW string, NEW E, NEW args \in Seq(E), NEW s \in TurnSet(string, args),
         NEW c \in Range(string)
  PROVE  parseMode(args, s, c) \in TurnSet(string, args)
<1>1. /\ s.good \in BOOLEAN /\ s.adding \in BOOLEAN /\ s.signSeen \in BOOLEAN
      /\ s.argumentIndex \in Nat \ {0} /\ s.changes \in Seq(ChangeSet(string, args))
  BY DEF TurnSet
<1>2. CASE ~s.good
  BY <1>2, TurnRejected
<1>3. CASE s.good /\ c \in Signs
  <2>1. [s EXCEPT !.adding = (c = "+"), !.signSeen = TRUE] \in TurnSet(string, args)
    BY DEF TurnSet
  <2>2. parseMode(args, s, c) = [s EXCEPT !.adding = (c = "+"), !.signSeen = TRUE]
    BY ONLY <1>3 DEF parseMode
  <2>3. QED
    BY ONLY <2>1, <2>2
<1> DEFINE needs == modeNeedsArgument(c, s.adding)
<1>4. CASE /\ s.good /\ c \notin Signs
           /\ ~s.signSeen \/ (needs /\ s.argumentIndex > Len(args))
  <2>1. [s EXCEPT !.good = FALSE] \in TurnSet(string, args)
    BY DEF TurnSet
  <2>2. QED
    BY <1>4, <2>1, TurnRefused
<1>5. CASE /\ s.good /\ c \notin Signs /\ s.signSeen
           /\ needs => ~(s.argumentIndex > Len(args))
  <2> DEFINE arg == IF needs THEN <<args[s.argumentIndex]>> ELSE NoArgument
             ch == ModeChange(s.adding, c, arg)
             n == IF needs THEN s.argumentIndex + 1 ELSE s.argumentIndex
  <2>1. arg \in {NoArgument} \cup {<<a>> : a \in Range(args)}
    <3>1. CASE needs
      <4>1. s.argumentIndex \in 1 .. Len(args)
        BY <1>1, <1>5, <3>1, LenProperties
      <4>2. DOMAIN args = 1 .. Len(args)
        BY LenProperties
      <4>3. args[s.argumentIndex] \in Range(args)
        BY <4>1, <4>2 DEF Range
      <4>4. QED
        BY <3>1, <4>3
    <3>2. CASE ~needs
      BY <3>2
    <3>3. QED
      BY <3>1, <3>2
  <2> HIDE DEF arg
  <2>2. ch \in ChangeSet(string, args)
    BY <1>1, <2>1 DEF ModeChange, ChangeSet
  <2> HIDE DEF ch
  <2>3. Append(s.changes, ch) \in Seq(ChangeSet(string, args))
    BY <1>1, <2>2, AppendProperties
  <2>4. n \in Nat \ {0}
    BY <1>1
  <2> HIDE DEF n
  <2>5. [s EXCEPT !.argumentIndex = n, !.changes = Append(s.changes, ch)]
          \in TurnSet(string, args)
    BY <2>3, <2>4 DEF TurnSet
  <2>6. parseMode(args, s, c) =
          [s EXCEPT !.argumentIndex = n, !.changes = Append(s.changes, ch)]
    BY ONLY <1>5, TurnChange DEF n, ch, arg
  <2>7. QED
    BY ONLY <2>5, <2>6
<1>6. QED
  BY <1>1, <1>2, <1>3, <1>4, <1>5

LEMMA StartTyped ==
  ASSUME NEW string, NEW args
  PROVE  Start \in TurnSet(string, args)
<1>1. <<>> \in Seq(ChangeSet(string, args))
  BY EmptySeq
<1>2. QED
  BY <1>1 DEF Start, TurnSet

\* The loop makes one turn after the other.
LEMMA LoopTurns ==
  ASSUME NEW string, NEW E, NEW args \in Seq(E), NEW C, string \in Seq(C)
  PROVE  LET loop == modeLoop(string, args)
         IN /\ loop[0] = Start
            /\ \A p \in 1 .. Len(string) :
                 loop[p] = parseMode(args, loop[p - 1], string[p])
            /\ \A p \in 0 .. Len(string) : loop[p] \in TurnSet(string, args)
<1> DEFINE n == Len(string)
           D == 0 .. n
           S == TurnSet(string, args)
           Turn(f) == [p \in D |->
             IF p = 0 THEN Start ELSE parseMode(args, f[p - 1], string[p])]
           loop == modeLoop(string, args)
<1>1. n \in Nat /\ DOMAIN string = 1 .. n
  BY LenProperties
<1>2. \A p \in 1 .. n : string[p] \in Range(string)
  BY <1>1 DEF Range
<1>3. \E f : f = Turn(f)
  <2> DEFINE rank == [p \in D |-> p]
             goes == [p \in D |-> p # 0]
             next == [p \in D |-> IF p = 0 THEN 0 ELSE p - 1]
             base == [p \in D |-> Start]
             step == [p \in D |-> [s \in S |->
                        IF p = 0 THEN s ELSE parseMode(args, s, string[p])]]
  <2>1. rank \in [D -> 0 .. n] /\ goes \in [D -> BOOLEAN] /\ next \in [D -> D]
    BY <1>1
  <2>2. base \in [D -> S]
    BY StartTyped
  <2>3. step \in [D -> [S -> S]]
    <3>1. ASSUME NEW p \in D, NEW s \in S, p # 0
          PROVE  parseMode(args, s, string[p]) \in S
      <4>1. string[p] \in Range(string)
        BY <1>1, <1>2, <3>1
      <4>2. QED
        BY <4>1, TurnTyped
    <3> HIDE DEF S
    <3>2. QED
      BY <3>1
  <2>4. \A p \in D : goes[p] => rank[next[p]] < rank[p]
    BY <1>1
  <2>5. \A p \in D : /\ goes[p] <=> p # 0
                     /\ p # 0 => next[p] = p - 1
                     /\ base[p] = Start
                     /\ \A s \in S : p # 0 => step[p][s] = parseMode(args, s, string[p])
    BY <1>1
  <2> HIDE DEF rank, goes, next, base, step, S
  <2>6. Computable(D, S, n, rank, goes, next, base, step)
    BY <1>1, <2>1, <2>2, <2>3, <2>4 DEF Computable
  <2>7. PICK f \in [D -> S] :
          \A p \in D : f[p] = IF goes[p] THEN step[p][f[next[p]]] ELSE base[p]
    <3>1. Computed(D, S, goes, next, base, step)
      BY ONLY <2>6, Recursion
    <3>2. QED
      BY <3>1 DEF Computed
  <2>8. \A p \in D : f[p] = IF p = 0 THEN Start ELSE parseMode(args, f[p - 1], string[p])
    <3>1. ASSUME NEW p \in D, p # 0
          PROVE  f[p - 1] \in S
      BY <1>1, <3>1
    <3>2. QED
      BY <2>5, <2>7, <3>1
  <2>9. f = Turn(f)
    BY <2>8
  <2>10. QED
    BY <2>9
<1>4. loop = Turn(loop)
  <2>1. loop = CHOOSE f : f = Turn(f)
    BY LoopChosen
  <2> HIDE DEF loop
  <2>2. QED
    BY <1>3, <2>1
<1> HIDE DEF loop
<1>5. \A p \in D : loop[p] = IF p = 0 THEN Start ELSE parseMode(args, loop[p - 1], string[p])
  BY <1>4
<1>6. \A p \in D : loop[p] \in S
  <2> DEFINE T == {p \in Nat : p <= n => loop[p] \in S}
  <2>1. 0 \in T
    BY <1>1, <1>5, StartTyped
  <2>2. ASSUME NEW p \in Nat, p \in T
        PROVE  p + 1 \in T
    <3>1. ASSUME p + 1 <= n PROVE loop[p + 1] \in S
      <4>1. loop[p] \in S /\ string[p + 1] \in Range(string) /\ p + 1 \in D
        BY <1>1, <1>2, <2>2, <3>1
      <4>2. loop[p + 1] = parseMode(args, loop[p], string[p + 1])
        BY <1>1, <1>5, <4>1
      <4>3. QED
        BY <4>1, <4>2, TurnTyped
    <3>2. QED
      BY <3>1
  <2>3. \A p \in Nat : p \in T
    <3> HIDE DEF T
    <3>1. QED
      BY <2>1, <2>2, Induction
  <2>4. QED
    BY <1>1, <2>3
<1>7. QED
  BY <1>1, <1>5, <1>6 DEF loop

\* The nearest sign, after one more character.
LEMMA NextSign ==
  ASSUME NEW C, NEW string \in Seq(C), NEW p \in Nat, p + 1 \in 1 .. Len(string)
  PROVE  /\ string[p + 1] \in Signs =>
              /\ SignsTo(string, p + 1) # {}
              /\ Adds(string, p + 1) <=> string[p + 1] = "+"
         /\ string[p + 1] \notin Signs => SignsTo(string, p + 1) = SignsTo(string, p)
         /\ Adds(string, p + 1) \in BOOLEAN
<1> DEFINE A == SignsTo(string, p)
           B == SignsTo(string, p + 1)
<1>1. \A q : q \in B <=> q \in A \/ (q = p + 1 /\ string[p + 1] \in Signs)
  BY DEF SignsTo
<1>2. CASE string[p + 1] \in Signs
  <2>1. p + 1 \in B
    BY <1>1, <1>2
  <2>2. \A y \in B : y \in Nat /\ y <= p + 1
    BY DEF SignsTo
  <2>3. Max(B) = p + 1
    <3>1. \A x \in B : (\A y \in B : x >= y) => x = p + 1
      BY <2>1, <2>2
    <3>2. \A y \in B : p + 1 >= y
      BY <2>2
    <3> HIDE DEF B
    <3>3. QED
      BY <2>1, <3>1, <3>2 DEF Max
  <2>4. QED
    BY <1>2, <2>1, <2>3 DEF Adds
<1>3. CASE string[p + 1] \notin Signs
  BY <1>1, <1>3 DEF Adds
<1>4. QED
  BY <1>2, <1>3

\* What the loop has made of the first p characters.
Parsed(string, args, p, s) ==
  /\ s.good <=> /\ \A q \in Letters(string) : q <= p => SignsTo(string, q) # {}
                /\ Rank(Needing(string), p) <= Len(args)
  /\ s.good =>
       /\ s.signSeen <=> SignsTo(string, p) # {}
       /\ s.signSeen => (s.adding <=> Adds(string, p))
       /\ s.argumentIndex = Rank(Needing(string), p) + 1
       /\ Len(s.changes) = Rank(Letters(string), p)
       /\ \A q \in Letters(string) :
            q <= p => s.changes[Rank(Letters(string), q)] = Change(string, args, q)

\* Letters are positions, and so are those that need an argument.
LEMMA LettersAre ==
  ASSUME NEW C, NEW string \in Seq(C)
  PROVE  /\ Len(string) \in Nat /\ DOMAIN string = 1 .. Len(string)
         /\ Letters(string) \in SUBSET Nat /\ IsFiniteSet(Letters(string))
         /\ Needing(string) \in SUBSET Nat /\ IsFiniteSet(Needing(string))
         /\ \A q \in Letters(string) : 1 <= q /\ q <= Len(string)
         /\ Needing(string) \subseteq Letters(string)
<1>1. Len(string) \in Nat /\ DOMAIN string = 1 .. Len(string)
  BY LenProperties
<1>2. Needing(string) \subseteq Letters(string) /\ Letters(string) \subseteq 1 .. Len(string)
  BY <1>1 DEF Needing, Letters
<1>3. IsFiniteSet(1 .. Len(string))
  BY <1>1, FS_Interval
<1>4. IsFiniteSet(Letters(string))
  BY <1>2, <1>3, FS_Subset
<1>5. IsFiniteSet(Needing(string))
  BY <1>2, <1>4, FS_Subset
<1>6. QED
  BY <1>1, <1>2, <1>4, <1>5

LEMMA ParsedAtStart ==
  ASSUME NEW C, NEW string \in Seq(C), NEW E, NEW args \in Seq(E)
  PROVE  Parsed(string, args, 0, Start)
<1>1. Len(args) \in Nat
  BY LenProperties
<1>2. \A q \in Letters(string) : ~(q <= 0)
  BY LettersAre
<1>3. \A q \in Needing(string) : ~(q <= 0)
  BY <1>2, LettersAre
<1>4. Rank(Letters(string), 0) = 0 /\ Rank(Needing(string), 0) = 0
  BY <1>2, <1>3, RankNone
<1>5. SignsTo(string, 0) = {}
  BY DEF SignsTo
<1>6. Start.good /\ ~Start.signSeen /\ Start.argumentIndex = 1 /\ Len(Start.changes) = 0
  BY EmptySeq DEF Start
<1>7. QED
  BY <1>1, <1>2, <1>4, <1>5, <1>6 DEF Parsed

LEMMA ParsedTurn ==
  ASSUME NEW C, NEW string \in Seq(C), NEW E, NEW args \in Seq(E),
         NEW p \in Nat, p + 1 \in 1 .. Len(string),
         NEW s \in TurnSet(string, args), Parsed(string, args, p, s)
  PROVE  Parsed(string, args, p + 1, parseMode(args, s, string[p + 1]))
<1> DEFINE c == string[p + 1]
           L == Letters(string)
           N == Needing(string)
           t == parseMode(args, s, c)
<1>1. /\ L \in SUBSET Nat /\ N \in SUBSET Nat /\ IsFiniteSet(L) /\ IsFiniteSet(N)
      /\ N \subseteq L /\ Len(args) \in Nat
      /\ \A q \in L : q \in Nat /\ (q <= p + 1 <=> q <= p \/ q = p + 1)
  BY LettersAre, LenProperties
<1>2. /\ Rank(L, p) \in Nat /\ Rank(N, p) \in Nat
      /\ Rank(L, p + 1) = IF p + 1 \in L THEN Rank(L, p) + 1 ELSE Rank(L, p)
      /\ Rank(N, p + 1) = IF p + 1 \in N THEN Rank(N, p) + 1 ELSE Rank(N, p)
  <2> HIDE DEF L, N
  <2>1. QED
    BY <1>1, RankIs, RankStep
<1>3. /\ p + 1 \in L <=> c \notin Signs
      /\ p + 1 \in N <=> c \notin Signs /\ modeNeedsArgument(c, Adds(string, p + 1))
  BY LettersAre DEF Letters, Needing
<1>4. /\ c \in Signs => SignsTo(string, p + 1) # {} /\ (Adds(string, p + 1) <=> c = "+")
      /\ c \notin Signs => /\ SignsTo(string, p + 1) = SignsTo(string, p)
                           /\ Adds(string, p + 1) = Adds(string, p)
      /\ Adds(string, p + 1) \in BOOLEAN
  BY NextSign DEF Adds
<1>5. /\ s.good \in BOOLEAN /\ s.adding \in BOOLEAN /\ s.signSeen \in BOOLEAN
      /\ s.argumentIndex \in Nat \ {0} /\ s.changes \in Seq(ChangeSet(string, args))
      /\ DOMAIN s.changes = 1 .. Len(s.changes) /\ Len(s.changes) \in Nat
  BY LenProperties DEF TurnSet
<1>6. CASE ~s.good
  <2>1. t = s
    BY <1>6, TurnRejected
  <2>2. ~ /\ \A q \in L : q <= p + 1 => SignsTo(string, q) # {}
          /\ Rank(N, p + 1) <= Len(args)
    BY <1>1, <1>2, <1>6 DEF Parsed
  <2>3. QED
    BY <1>6, <2>1, <2>2 DEF Parsed
<1>7. CASE s.good /\ c \in Signs
  <2>1. t = [s EXCEPT !.adding = (c = "+"), !.signSeen = TRUE]
    BY ONLY <1>7 DEF parseMode, t
  <2>2. /\ t.good /\ t.signSeen /\ (t.adding <=> c = "+")
        /\ t.argumentIndex = s.argumentIndex /\ t.changes = s.changes
    BY <1>7, <2>1 DEF TurnSet
  <2>3. /\ Rank(L, p + 1) = Rank(L, p) /\ Rank(N, p + 1) = Rank(N, p)
        /\ \A q \in L : q <= p + 1 => q <= p
    BY <1>1, <1>2, <1>3, <1>7
  <2> HIDE DEF t
  <2>4. /\ s.good <=> /\ \A q \in L : q <= p => SignsTo(string, q) # {}
                      /\ Rank(N, p) <= Len(args)
        /\ s.argumentIndex = Rank(N, p) + 1 /\ Len(s.changes) = Rank(L, p)
        /\ \A q \in L : q <= p => s.changes[Rank(L, q)] = Change(string, args, q)
    BY <1>7 DEF Parsed
  <2>5. SignsTo(string, p + 1) # {} /\ (t.adding <=> Adds(string, p + 1))
    BY <1>4, <1>7, <2>2
  <2>6. /\ \A q \in L : q <= p + 1 => SignsTo(string, q) # {}
        /\ Rank(N, p + 1) <= Len(args)
    BY <1>7, <2>3, <2>4
  <2>7. /\ t.argumentIndex = Rank(N, p + 1) + 1 /\ Len(t.changes) = Rank(L, p + 1)
        /\ \A q \in L : q <= p + 1 => t.changes[Rank(L, q)] = Change(string, args, q)
    BY <2>2, <2>3, <2>4
  <2>8. Parsed(string, args, p + 1, t)
    BY ONLY <2>2, <2>5, <2>6, <2>7 DEF Parsed, L, N
  <2>9. QED
    BY <2>8 DEF t
<1> DEFINE needs == modeNeedsArgument(c, s.adding)
<1>8. ASSUME s.good, c \notin Signs, s.signSeen
      PROVE  /\ SignsTo(string, p + 1) # {} /\ (s.adding <=> Adds(string, p + 1))
             /\ p + 1 \in L /\ (p + 1 \in N <=> needs)
  BY <1>3, <1>4, <1>5, <1>8 DEF Parsed, modeNeedsArgument
<1>9. CASE /\ s.good /\ c \notin Signs
           /\ ~s.signSeen \/ (needs /\ s.argumentIndex > Len(args))
  <2>1. t = [s EXCEPT !.good = FALSE]
    BY <1>9, TurnRefused
  <2>2. ~t.good
    BY <2>1 DEF TurnSet
  <2>3. CASE ~s.signSeen
    <3>1. p + 1 \in L /\ p + 1 <= p + 1 /\ SignsTo(string, p + 1) = {}
      BY <1>3, <1>4, <1>9, <2>3 DEF Parsed
    <3>2. QED
      BY <2>2, <3>1 DEF Parsed
  <2>4. CASE s.signSeen
    <3>1. Rank(N, p + 1) = Rank(N, p) + 1 /\ s.argumentIndex = Rank(N, p) + 1
      BY <1>2, <1>8, <1>9, <2>4 DEF Parsed
    <3>2. ~(Rank(N, p + 1) <= Len(args))
      BY <1>1, <1>2, <1>9, <2>4, <3>1
    <3>3. QED
      BY <2>2, <3>2 DEF Parsed
  <2>5. QED
    BY <2>3, <2>4
<1>10. CASE /\ s.good /\ c \notin Signs /\ s.signSeen
            /\ needs => ~(s.argumentIndex > Len(args))
  <2> DEFINE arg == IF needs THEN <<args[s.argumentIndex]>> ELSE NoArgument
             ch == ModeChange(s.adding, c, arg)
             n == IF needs THEN s.argumentIndex + 1 ELSE s.argumentIndex
  <2>1. t = [s EXCEPT !.argumentIndex = n, !.changes = Append(s.changes, ch)]
    BY ONLY <1>10, TurnChange DEF n, ch, arg, t
  <2>2. /\ t.good /\ t.signSeen /\ t.adding = s.adding
        /\ t.argumentIndex = n /\ t.changes = Append(s.changes, ch)
    BY <1>10, <2>1 DEF TurnSet
  <2> HIDE DEF t
  <2>3. SignsTo(string, p + 1) # {} /\ (s.adding <=> Adds(string, p + 1))
        /\ p + 1 \in L /\ (p + 1 \in N <=> needs)
    BY <1>8, <1>10
  <2>4. /\ s.argumentIndex = Rank(N, p) + 1 /\ Len(s.changes) = Rank(L, p)
        /\ Rank(N, p) <= Len(args)
        /\ \A q \in L : q <= p => /\ SignsTo(string, q) # {}
                                  /\ s.changes[Rank(L, q)] = Change(string, args, q)
    BY <1>10 DEF Parsed
  <2>5. Rank(N, p + 1) <= Len(args) /\ n = Rank(N, p + 1) + 1
    BY <1>1, <1>2, <1>10, <2>3, <2>4
  <2>6. ch = Change(string, args, p + 1)
    <3>1. s.adding = Adds(string, p + 1)
      BY <1>4, <1>5, <2>3
    <3>2. CASE needs
      <4>1. Rank(N, p + 1) = s.argumentIndex
        BY <1>2, <2>3, <2>4, <3>2
      <4>2. QED
        BY <2>3, <3>1, <3>2, <4>1 DEF Change
    <3>3. CASE ~needs
      BY <2>3, <3>1, <3>3 DEF Change
    <3>4. QED
      BY <3>2, <3>3
  <2>7. /\ Len(t.changes) = Rank(L, p + 1)
        /\ t.changes[Rank(L, p + 1)] = ch
        /\ \A j \in 1 .. Rank(L, p) : t.changes[j] = s.changes[j]
    <3>1. ch \in ChangeSet(string, args)
      <4>1. t \in TurnSet(string, args)
        <5>1. c \in Range(string)
          BY LettersAre DEF Range
        <5>2. QED
          BY <5>1, TurnTyped DEF t
      <4>2. /\ t.changes \in Seq(ChangeSet(string, args))
            /\ Len(s.changes) + 1 \in 1 .. Len(t.changes)
            /\ t.changes[Len(s.changes) + 1] = ch
        <5>1. t.changes \in Seq(ChangeSet(string, args))
          BY <4>1 DEF TurnSet
        <5>2. /\ Len(Append(s.changes, ch)) = Len(s.changes) + 1
              /\ Append(s.changes, ch)[Len(s.changes) + 1] = ch
          <6>1. s.changes \in Seq(ChangeSet(string, args) \cup {ch})
            <7>1. ChangeSet(string, args) \subseteq ChangeSet(string, args) \cup {ch}
              OBVIOUS
            <7>2. QED
              BY <1>5, <7>1, SeqDef
          <6>2. QED
            BY <6>1, AppendProperties
        <5>3. QED
          BY <1>5, <2>2, <5>1, <5>2
      <4>3. QED
        BY <4>2, ElementOfSeq
    <3>2. /\ Len(Append(s.changes, ch)) = Len(s.changes) + 1
          /\ \A j \in 1 .. Len(s.changes) : Append(s.changes, ch)[j] = s.changes[j]
          /\ Append(s.changes, ch)[Len(s.changes) + 1] = ch
      <4> HIDE DEF ch
      <4>1. QED
        BY <1>5, <3>1, AppendProperties
    <3>3. Rank(L, p + 1) = Len(s.changes) + 1
      BY <1>2, <2>3, <2>4
    <3> HIDE DEF ch
    <3>4. QED
      BY ONLY <2>2, <2>4, <3>2, <3>3
  <2> HIDE DEF ch, n
  <2>8. ASSUME NEW q \in L, q <= p + 1
        PROVE  SignsTo(string, q) # {} /\ t.changes[Rank(L, q)] = Change(string, args, q)
    <3>1. CASE q = p + 1
      BY <2>3, <2>6, <2>7, <3>1
    <3>2. CASE q <= p
      <4>1. Rank(L, q) \in 1 .. Rank(L, p)
        <5>1. q \in Nat /\ q # 0
          BY LettersAre
        <5>2. 0 <= Rank(L, 0) /\ Rank(L, 0) < Rank(L, q) /\ Rank(L, q) <= Rank(L, p)
          <6> HIDE DEF L
          <6>1. Rank(L, 0) \in Nat
            BY <1>1, RankIs
          <6>2. 0 <= q /\ 0 < q
            BY <5>1
          <6>3. QED
            BY <1>1, <3>2, <5>1, <6>1, <6>2, RankGrows
        <5>3. Rank(L, q) \in Nat /\ Rank(L, 0) \in Nat
          BY <1>1, RankIs
        <5>4. QED
          BY <1>2, <5>2, <5>3
      <4>2. QED
        BY <2>4, <2>7, <3>2, <4>1
    <3>3. QED
      BY <1>1, <2>8, <3>1, <3>2
  <2>9. /\ t.good /\ t.signSeen /\ SignsTo(string, p + 1) # {}
        /\ t.adding <=> Adds(string, p + 1)
        /\ t.argumentIndex = Rank(N, p + 1) + 1 /\ Len(t.changes) = Rank(L, p + 1)
        /\ Rank(N, p + 1) <= Len(args)
    BY ONLY <2>2, <2>3, <2>5, <2>7
  <2>10. Parsed(string, args, p + 1, t)
    BY ONLY <2>8, <2>9 DEF Parsed, L, N
  <2>11. QED
    BY <2>10 DEF t
<1>11. QED
  BY <1>1, <1>5, <1>6, <1>7, <1>9, <1>10

\* After the whole string, the loop has what the string means.
LEMMA ParsedAll ==
  ASSUME NEW C, NEW string \in Seq(C), NEW E, NEW args \in Seq(E)
  PROVE  LET s == modeLoop(string, args)[Len(string)]
         IN s \in TurnSet(string, args) /\ Parsed(string, args, Len(string), s)
<1> DEFINE loop == modeLoop(string, args)
           T == {p \in Nat : p <= Len(string) => Parsed(string, args, p, loop[p])}
<1>1. /\ Len(string) \in Nat
      /\ loop[0] = Start
      /\ \A p \in 1 .. Len(string) : loop[p] = parseMode(args, loop[p - 1], string[p])
      /\ \A p \in 0 .. Len(string) : loop[p] \in TurnSet(string, args)
  BY LoopTurns, LenProperties
<1> HIDE DEF loop
<1>2. 0 \in T
  BY <1>1, ParsedAtStart
<1>3. ASSUME NEW p \in Nat, p \in T
      PROVE  p + 1 \in T
  <2>1. ASSUME p + 1 <= Len(string)
        PROVE  Parsed(string, args, p + 1, loop[p + 1])
    <3>1. /\ p \in 0 .. Len(string) /\ p + 1 \in 1 .. Len(string) /\ (p + 1) - 1 = p
          /\ Parsed(string, args, p, loop[p])
      BY <1>1, <1>3, <2>1
    <3>2. loop[p] \in TurnSet(string, args)
      BY <1>1, <3>1
    <3>3. loop[p + 1] = parseMode(args, loop[p], string[p + 1])
      BY <1>1, <3>1
    <3>4. Parsed(string, args, p + 1, parseMode(args, loop[p], string[p + 1]))
      BY <3>1, <3>2, ParsedTurn
    <3>5. QED
      BY <3>3, <3>4
  <2>2. QED
    BY <2>1
<1>4. \A p \in Nat : p \in T
  <2> HIDE DEF T
  <2>1. QED
    BY <1>2, <1>3, Induction
<1>5. QED
  BY <1>1, <1>4 DEF loop

\* parseChannelModeChanges gives what the mode string means.
LEMMA ParseIsMeaning ==
  ASSUME NEW C, NEW string \in Seq(C), NEW E, NEW args \in Seq(E)
  PROVE  parseChannelModeChanges(string, args) = Meaning(string, args)
<1> DEFINE s == modeLoop(string, args)[Len(string)]
           L == Letters(string)
           N == Needing(string)
           n == Len(string)
<1>1. s \in TurnSet(string, args) /\ Parsed(string, args, n, s)
  BY ParsedAll
<1>2. parseChannelModeChanges(string, args) = IF s.good THEN s.changes ELSE <<>>
  BY DEF parseChannelModeChanges
<1> HIDE DEF s
<1>3. /\ L \in SUBSET Nat /\ N \in SUBSET Nat /\ IsFiniteSet(L) /\ IsFiniteSet(N)
      /\ n \in Nat /\ 0 \notin L /\ \A q \in L : q <= n
      /\ \A q \in N : q <= n
  BY LettersAre
<1>4. Rank(L, n) = Cardinality(L) /\ Rank(N, n) = Cardinality(N)
  BY <1>3, RankAll
<1>5. /\ Cardinality(L) \in Nat /\ Cardinality(N) \in Nat /\ Len(args) \in Nat
  BY <1>3, FS_CardinalityType, LenProperties
<1>6. s.good <=> ~(\/ \E p \in L : SignsTo(string, p) = {}
                   \/ Cardinality(N) > Len(args))
  BY <1>1, <1>3, <1>4, <1>5 DEF Parsed
<1>7. CASE ~s.good
  BY <1>2, <1>6, <1>7 DEF Meaning
<1>8. CASE s.good
  <2> DEFINE m == [j \in 1 .. Cardinality(L) |-> Change(string, args, Nth(L, j))]
  <2>1. /\ s.changes \in Seq(ChangeSet(string, args)) /\ Len(s.changes) = Cardinality(L)
        /\ \A q \in L : s.changes[Rank(L, q)] = Change(string, args, q)
    BY <1>1, <1>3, <1>4, <1>8 DEF Parsed, TurnSet
  <2>2. s.changes = [j \in 1 .. Cardinality(L) |-> s.changes[j]]
    BY <2>1, LenProperties
  <2>3. ASSUME NEW j \in 1 .. Cardinality(L)
        PROVE  s.changes[j] = Change(string, args, Nth(L, j))
    <3>1. Nth(L, j) \in L /\ Rank(L, Nth(L, j)) = j
      <4> HIDE DEF L, n
      <4>1. QED
        BY <1>3, NthIs
    <3>2. QED
      BY <2>1, <3>1
  <2>4. s.changes = m
    BY <2>2, <2>3
  <2>5. Meaning(string, args) = m
    BY <1>6, <1>8 DEF Meaning
  <2>6. QED
    BY <1>2, <1>8, <2>4, <2>5
<1>9. QED
  BY <1>7, <1>8

\* A request of one sign and one letter.
LEMMA OneChange ==
  ASSUME NEW adding \in BOOLEAN, NEW m, m \notin Signs, NEW arg,
         IF modeNeedsArgument(m, adding) THEN \E a : arg = <<a>> ELSE arg = NoArgument
  PROVE  parseChannelModeChanges(<<IF adding THEN "+" ELSE "-", m>>, arg) =
           <<ModeChange(adding, m, arg)>>
<1> DEFINE sign == IF adding THEN "+" ELSE "-"
           string == <<sign, m>>
           loop == modeLoop(string, arg)
           needs == modeNeedsArgument(m, adding)
<1>1. /\ sign \in Signs /\ (adding <=> sign = "+")
      /\ string \in Seq({sign, m}) /\ Len(string) = 2
      /\ string[1] = sign /\ string[2] = m
  BY DEF Signs
<1>2. PICK E : arg \in Seq(E)
  <2>1. CASE needs
    <3>1. PICK a : arg = <<a>>
      BY <2>1
    <3>2. <<a>> \in Seq({a})
      OBVIOUS
    <3>3. QED
      BY <3>1, <3>2
  <2>2. CASE ~needs
    BY <2>2, EmptySeq DEF NoArgument
  <2>3. QED
    BY <2>1, <2>2
<1>3. needs => Len(arg) = 1 /\ <<arg[1]>> = arg
  OBVIOUS
<1>4. /\ loop[0] = Start
      /\ \A p \in 1 .. Len(string) : loop[p] = parseMode(arg, loop[p - 1], string[p])
  <2> HIDE DEF string
  <2>1. QED
    BY <1>1, <1>2, LoopTurns
<1> HIDE DEF loop, string
<1>5. loop[1] = parseMode(arg, Start, sign) /\ loop[2] = parseMode(arg, loop[1], m)
  <2>1. /\ 1 \in 1 .. Len(string) /\ 2 \in 1 .. Len(string) /\ 1 - 1 = 0 /\ 2 - 1 = 1
    BY <1>1
  <2>2. QED
    BY <1>1, <1>4, <2>1
<1> HIDE DEF sign
<1> DEFINE one == [good |-> TRUE, adding |-> adding, signSeen |-> TRUE,
                   argumentIndex |-> 1, changes |-> <<>>]
<1>6. loop[1] = one
  <2>1. Start.good
    BY DEF Start
  <2>2. parseMode(arg, Start, sign) =
          [Start EXCEPT !.adding = (sign = "+"), !.signSeen = TRUE]
    BY ONLY <1>1, <2>1 DEF parseMode
  <2>3. adding = (sign = "+")
    BY <1>1
  <2>4. QED
    BY <1>5, <2>2, <2>3 DEF Start
<1>7. /\ one.good /\ one.signSeen /\ one.argumentIndex = 1 /\ one.changes = <<>>
      /\ one.adding = adding
  OBVIOUS
<1> HIDE DEF one
<1> DEFINE two == parseMode(arg, one, m)
<1>8. modeNeedsArgument(m, one.adding) => ~(one.argumentIndex > Len(arg))
  <2>1. modeNeedsArgument(m, one.adding) <=> needs
    BY ONLY <1>7, Zenon
  <2>2. needs => Len(arg) = 1
    BY <1>3
  <2>3. needs => ~(one.argumentIndex > Len(arg))
    <3> DEFINE k == Len(arg)
    <3>1. one.argumentIndex = 1 /\ (needs => k = 1)
      BY ONLY <1>7, <2>2
    <3> HIDE DEF k, needs
    <3>2. needs => ~(one.argumentIndex > k)
      BY ONLY <3>1
    <3>3. QED
      BY ONLY <3>2 DEF k
  <2>4. QED
    BY ONLY <2>1, <2>3, Zenon
<1>9. two = [one EXCEPT !.argumentIndex = IF modeNeedsArgument(m, one.adding) 
                                         THEN one.argumentIndex + 1
                                         ELSE one.argumentIndex,
                        !.changes = Append(one.changes, ModeChange(one.adding, m,
                           IF modeNeedsArgument(m, one.adding)
                           THEN <<arg[one.argumentIndex]>> ELSE NoArgument))]
  BY ONLY m \notin Signs, <1>7, <1>8 DEF parseMode, takesArgument
<1>10. two.good /\ two.changes = <<ModeChange(adding, m, arg)>>
  <2>1. (IF needs THEN <<arg[one.argumentIndex]>> ELSE NoArgument) = arg
    BY <1>3, <1>7
  <2>2. two.good
    BY <1>7, <1>9 DEF one
  <2>3. two.changes = Append(<<>>, ModeChange(adding, m, arg))
    <3>1. modeNeedsArgument(m, one.adding) = needs
      BY <1>7
    <3>2. two.changes = Append(one.changes, ModeChange(one.adding, m,
                          IF needs THEN <<arg[one.argumentIndex]>> ELSE NoArgument))
      BY <1>9, <3>1 DEF one
    <3>3. QED
      BY <1>7, <2>1, <3>2
  <2>4. QED
    BY <2>2, <2>3
<1>11. modeLoop(string, arg)[Len(string)] = two
  BY <1>1, <1>5, <1>6 DEF loop
<1>12. parseChannelModeChanges(string, arg) = <<ModeChange(adding, m, arg)>>
  BY <1>10, <1>11 DEF parseChannelModeChanges
<1>13. QED
  BY <1>12 DEF string, sign

\* Each change of a parsed request is announced by the request for it.
LEMMA ReplayOne ==
  ASSUME NEW C, NEW string \in Seq(C), NEW E, NEW args \in Seq(E),
         NEW j \in DOMAIN parseChannelModeChanges(string, args)
  PROVE  LET change == parseChannelModeChanges(string, args)[j]
             told == broadcastModeChange(change)
         IN parseChannelModeChanges(told.string, told.args) = <<change>>
<1> DEFINE L == Letters(string)
           N == Needing(string)
           change == parseChannelModeChanges(string, args)[j]
<1>1. /\ ~\E p \in L : SignsTo(string, p) = {}
      /\ j \in 1 .. Cardinality(L)
      /\ change = Change(string, args, Nth(L, j))
  <2>1. parseChannelModeChanges(string, args) = Meaning(string, args)
    BY ParseIsMeaning
  <2>2. j \in DOMAIN Meaning(string, args)
    BY <2>1
  <2>3. CASE \/ \E p \in L : SignsTo(string, p) = {}
             \/ Cardinality(N) > Len(args)
    <3>1. Meaning(string, args) = <<>>
      BY <2>3 DEF Meaning
    <3>2. QED
      BY <2>2, <3>1
  <2>4. CASE ~ \/ \E p \in L : SignsTo(string, p) = {}
               \/ Cardinality(N) > Len(args)
    <3>1. Meaning(string, args) =
            [i \in 1 .. Cardinality(L) |-> Change(string, args, Nth(L, i))]
      BY <2>4 DEF Meaning
    <3>2. QED
      BY <2>1, <2>2, <2>4, <3>1
  <2>5. QED
    BY <2>3, <2>4
<1>2. PICK p \in L : change = Change(string, args, p)
  <2>1. Nth(L, j) \in L
    <3>1. /\ L \in SUBSET Nat /\ IsFiniteSet(L) /\ 0 \notin L /\ Len(string) \in Nat
          /\ \A q \in L : q <= Len(string)
      BY LettersAre
    <3> HIDE DEF L
    <3>2. QED
      BY <1>1, <3>1, NthIs
  <2>2. QED
    BY <1>1, <2>1
<1> DEFINE adding == Adds(string, p)
           m == string[p]
           arg == IF p \in N THEN <<args[Rank(N, p)]>> ELSE NoArgument
<1>3. /\ change = ModeChange(adding, m, arg) /\ adding \in BOOLEAN /\ m \notin Signs
      /\ p \in N <=> modeNeedsArgument(m, adding)
  BY <1>2 DEF Change, Letters, Needing, Adds
<1>4. IF modeNeedsArgument(m, adding) THEN \E a : arg = <<a>> ELSE arg = NoArgument
  BY <1>3
<1> HIDE DEF change, adding, m, arg
<1>5. broadcastModeChange(change) = [string |-> <<IF adding THEN "+" ELSE "-", m>>,
                                     args |-> arg]
  BY <1>3 DEF broadcastModeChange, ModeChange
<1>6. parseChannelModeChanges(<<IF adding THEN "+" ELSE "-", m>>, arg) = <<change>>
  BY <1>3, <1>4, OneChange
<1>7. QED
  BY <1>5, <1>6 DEF change

-----------------------------------------------------------------------------
(* The texts that are typed *)

Typed == kind \in Kinds /\ text \in Seq(Alphabet[kind])

LEMMA TypedAlways == Spec => []Typed
<1>1. Init => Typed
  BY EmptySeq DEF Init, Typed
<1>2. Typed /\ [Next]_vars => Typed'
  <2> SUFFICES ASSUME Typed, [Next]_vars PROVE Typed'
    OBVIOUS
  <2>1. CASE UNCHANGED vars
    BY <2>1 DEF vars, Typed
  <2>2. CASE Next
    BY <2>2, AppendProperties DEF Next, Type, Typed
  <2>3. QED
    BY <2>1, <2>2
<1>3. QED
  BY <1>1, <1>2, PTL DEF Spec

LEMMA ArgListsAre == ArgLists \subseteq Seq(Args)
<1>1. \A a \in Args : <<a>> \in Seq(Args)
  OBVIOUS
<1>2. \A a, b \in Args : <<a, b>> \in Seq(Args)
  OBVIOUS
<1>3. <<>> \in Seq(Args)
  BY EmptySeq
<1>4. ASSUME NEW x \in ArgLists
      PROVE  x \in Seq(Args)
  <2>1. \/ x = <<>> \/ \E a \in Args : x = <<a>>
        \/ \E a, b \in Args : x = <<a, b>>
    BY DEF ArgLists
  <2> HIDE DEF ArgLists
  <2>2. QED
    BY ONLY <1>1, <1>2, <1>3, <2>1, Zenon
<1>5. QED
  BY ONLY <1>4

\* For mode strings and arguments of any number, parseChannelModeChanges gives
\* each letter its own sign and its own argument, or rejects the whole request
\* (Mode.cpp:33).
THEOREM ModesCorrect == Spec => []ModeParseExact
<1>1. Typed => ModeParseExact
  BY ArgListsAre, ParseIsMeaning DEF Typed, ModeParseExact
<1>2. QED
  BY <1>1, TypedAlways, PTL

\* What broadcastModeChange tells the members about a change is the request for
\* exactly that change (ModeApply.cpp:212).
THEOREM ReplayCorrect == Spec => []ChangesReplay
<1>1. Typed => ChangesReplay
  BY ArgListsAre, ReplayOne DEF Typed, ChangesReplay
<1>2. QED
  BY <1>1, TypedAlways, PTL


-----------------------------------------------------------------------------
(* The loop of Command::parse *)

\* The least element of a set.
LEMMA MinIs ==
  ASSUME NEW T \in SUBSET Nat, T # {}
  PROVE  Min(T) \in T /\ \A k \in T : Min(T) <= k
BY LeastNumber DEF Min

LEMMA MinAt ==
  ASSUME NEW T \in SUBSET Nat, NEW m \in T, \A k \in T : m <= k
  PROVE  Min(T) = m
<1>1. Min(T) \in T /\ \A k \in T : Min(T) <= k
  BY MinIs
<1>2. Min(T) <= m /\ m <= Min(T) /\ m \in Nat /\ Min(T) \in Nat
  BY <1>1
<1>3. QED
  BY <1>2

\* The first position of I from p on, or the one past the end.
LEMMA FirstOf ==
  ASSUME NEW p \in Nat, p # 0, NEW n \in Nat, p <= n + 1, NEW I \in SUBSET (p .. n),
         NEW q, q = IF I # {} THEN IF Min(I) = 0 THEN n + 1 ELSE Min(I) ELSE n + 1
  PROVE  /\ q \in p .. n + 1
         /\ \A r \in p .. q - 1 : r \in p .. n /\ r \notin I
         /\ q <= n => q \in I
<1>1. CASE I = {}
  <2>1. q = n + 1
    BY <1>1
  <2>2. QED
    BY <1>1, <2>1
<1>2. CASE I # {}
  <2>1. I \in SUBSET Nat
    OBVIOUS
  <2>2. Min(I) \in I /\ \A k \in I : Min(I) <= k
    BY <1>2, <2>1, MinIs
  <2>3. Min(I) \in p .. n
    BY <2>2
  <2>4. Min(I) # 0
    BY <2>3
  <2>5. q = Min(I)
    BY <1>2, <2>4
  <2>6. q \in p .. n /\ q \in I /\ \A k \in I : q <= k
    BY <2>2, <2>3, <2>5
  <2>7. \A r \in p .. q - 1 : r \in p .. n /\ ~(q <= r)
    BY ONLY <2>6, p \in Nat, n \in Nat
  <2>8. QED
    BY ONLY <2>6, <2>7, p \in Nat, n \in Nat
<1>3. QED
  BY <1>1, <1>2

\* Spaces are skipped up to the next character that is none, or the end.
LEMMA SkipIs ==
  ASSUME NEW C, NEW s \in Seq(C), NEW p \in 1 .. Len(s) + 1
  PROVE  /\ skipSpaces(s, p) \in p .. Len(s) + 1
         /\ \A r \in p .. skipSpaces(s, p) - 1 : s[r] = " "
         /\ skipSpaces(s, p) <= Len(s) => s[skipSpaces(s, p)] # " "
<1> DEFINE I == {i \in p .. Len(s) : s[i] # " "}
           q == skipSpaces(s, p)
<1>1. Len(s) \in Nat /\ p \in Nat /\ p # 0 /\ p <= Len(s) + 1
  BY LenProperties
<1>2. q = IF I # {} THEN IF Min(I) = 0 THEN Len(s) + 1 ELSE Min(I) ELSE Len(s) + 1
  BY DEF skipSpaces, FirstFrom, SelectInSubSeq
<1>3. I \in SUBSET (p .. Len(s))
  OBVIOUS
<1>4. \A i \in p .. Len(s) : i \in I <=> s[i] # " "
  OBVIOUS
<1> HIDE DEF I, q
<1>5. /\ q \in p .. Len(s) + 1
      /\ \A r \in p .. q - 1 : r \in p .. Len(s) /\ r \notin I
      /\ q <= Len(s) => q \in I
  BY ONLY <1>1, <1>2, <1>3, FirstOf
<1>6. \A r \in p .. q - 1 : s[r] = " "
  BY ONLY <1>4, <1>5
<1>7. q <= Len(s) => s[q] # " "
  BY ONLY <1>3, <1>4, <1>5
<1>8. QED
  BY <1>5, <1>6, <1>7 DEF q

\* A token ends before the next space, or at the end.
LEMMA TokenIs ==
  ASSUME NEW C, NEW s \in Seq(C), NEW p \in 1 .. Len(s) + 1
  PROVE  /\ tokenEnd(s, p) \in p .. Len(s) + 1
         /\ \A r \in p .. tokenEnd(s, p) - 1 : s[r] # " "
         /\ tokenEnd(s, p) <= Len(s) => s[tokenEnd(s, p)] = " "
<1> DEFINE I == {i \in p .. Len(s) : s[i] = " "}
           q == tokenEnd(s, p)
<1>1. Len(s) \in Nat /\ p \in Nat /\ p # 0 /\ p <= Len(s) + 1
  BY LenProperties
<1>2. q = IF I # {} THEN IF Min(I) = 0 THEN Len(s) + 1 ELSE Min(I) ELSE Len(s) + 1
  BY DEF tokenEnd, FirstFrom, SelectInSubSeq
<1>3. I \in SUBSET (p .. Len(s))
  OBVIOUS
<1>4. \A i \in p .. Len(s) : i \in I <=> s[i] = " "
  OBVIOUS
<1> HIDE DEF I, q
<1>5. /\ q \in p .. Len(s) + 1
      /\ \A r \in p .. q - 1 : r \in p .. Len(s) /\ r \notin I
      /\ q <= Len(s) => q \in I
  BY ONLY <1>1, <1>2, <1>3, FirstOf
<1>6. \A r \in p .. q - 1 : s[r] # " "
  BY ONLY <1>4, <1>5
<1>7. q <= Len(s) => s[q] = " "
  BY ONLY <1>3, <1>4, <1>5
<1>8. QED
  BY <1>5, <1>6, <1>7 DEF q

LEMMA ParametersChosen ==
  ASSUME NEW s, NEW p
  PROVE  parameters(s, p) =
           (CHOOSE from : from = [q \in 1 .. Len(s) + 1 |->
              IF skipSpaces(s, q) > Len(s) THEN <<>>
              ELSE IF s[skipSpaces(s, q)] = ":"
                   THEN <<SubSeq(s, skipSpaces(s, q) + 1, Len(s))>>
              ELSE <<SubSeq(s, skipSpaces(s, q), tokenEnd(s, skipSpaces(s, q)) - 1)>>
                     \o from[tokenEnd(s, skipSpaces(s, q))]])[p]
BY DEF parameters

\* A token is not empty, and the loop goes on behind it.
LEMMA TokenAt ==
  ASSUME NEW C, NEW s \in Seq(C), NEW q \in 1 .. Len(s) + 1,
         skipSpaces(s, q) <= Len(s)
  PROVE  LET start == skipSpaces(s, q)
             end == tokenEnd(s, start)
         IN /\ start \in q .. Len(s) /\ end \in start + 1 .. Len(s) + 1
            /\ s[start] # " "
            /\ \A r \in q .. start - 1 : s[r] = " "
            /\ \A r \in start .. end - 1 : s[r] # " "
            /\ end <= Len(s) => s[end] = " "
            /\ SubSeq(s, start, end - 1) \in Seq(C)
            /\ SubSeq(s, start + 1, Len(s)) \in Seq(C)
<1> DEFINE start == skipSpaces(s, q)
           end == tokenEnd(s, start)
           n == Len(s)
<1>1. n \in Nat /\ q \in Nat /\ q >= 1
  BY LenProperties
<1>2. /\ start \in q .. n + 1 /\ \A r \in q .. start - 1 : s[r] = " "
      /\ start <= n => s[start] # " "
  BY SkipIs
<1> HIDE DEF start
<1>3. start \in q .. n /\ start \in 1 .. n + 1
  <2>1. start <= n
    BY DEF start
  <2>2. start \in q .. n + 1
    BY <1>2
  <2>3. QED
    BY ONLY <1>1, <2>1, <2>2
<1>4. /\ end \in start .. n + 1 /\ \A r \in start .. end - 1 : s[r] # " "
      /\ end <= n => s[end] = " "
  BY <1>3, TokenIs
<1> HIDE DEF end
<1>5. end # start
  BY <1>1, <1>2, <1>3, <1>4 DEF start
<1>6. end \in start + 1 .. n + 1
  <2>1. end \in start .. n + 1
    BY <1>4
  <2>2. QED
    BY ONLY <1>1, <1>3, <1>5, <2>1
<1>7. \A r \in start .. end - 1 : r \in 1 .. n
  BY <1>1, <1>3, <1>6
<1>8. \A r \in start + 1 .. n : r \in 1 .. n
  BY <1>1, <1>3
<1>9. SubSeq(s, start, end - 1) \in Seq(C)
  <2>1. start \in Int /\ end - 1 \in Int
    BY <1>1, <1>3, <1>6
  <2>2. QED
    BY <1>1, <1>3, <1>6, <2>1, SubSeqProperties
<1>10. SubSeq(s, start + 1, n) \in Seq(C)
  BY <1>1, <1>3, SubSeqProperties
<1>11. QED
  BY <1>2, <1>3, <1>4, <1>6, <1>9, <1>10 DEF start, end

\* The loop takes one token after the other.
LEMMA ParametersStep ==
  ASSUME NEW C, NEW s \in Seq(C), NEW q \in 1 .. Len(s) + 1
  PROVE  LET start == skipSpaces(s, q)
             end == tokenEnd(s, start)
         IN parameters(s, q) =
              IF start > Len(s) THEN <<>>
              ELSE IF s[start] = ":" THEN <<SubSeq(s, start + 1, Len(s))>>
              ELSE <<SubSeq(s, start, end - 1)>> \o parameters(s, end)
<1> DEFINE n == Len(s)
           D == 1 .. n + 1
           S == Seq(Seq(C))
           start(d) == skipSpaces(s, d)
           end(d) == tokenEnd(s, start(d))
           Goes(d) == start(d) <= n /\ s[start(d)] # ":"
           token(d) == <<SubSeq(s, start(d), end(d) - 1)>>
           Base(d) == IF start(d) > n THEN <<>> ELSE <<SubSeq(s, start(d) + 1, n)>>
           Turn(f) == [d \in D |-> IF start(d) > n THEN <<>>
                                   ELSE IF s[start(d)] = ":" THEN <<SubSeq(s, start(d) + 1, n)>>
                                   ELSE token(d) \o f[end(d)]]
<1>1. n \in Nat
  BY LenProperties
<1>2. \A d \in D : start(d) \in d .. n + 1
  BY SkipIs
<1>3. ASSUME NEW d \in D, start(d) <= n
      PROVE  /\ end(d) \in start(d) + 1 .. n + 1 /\ token(d) \in S
             /\ <<SubSeq(s, start(d) + 1, n)>> \in S
  <2>1. /\ end(d) \in start(d) + 1 .. n + 1
        /\ SubSeq(s, start(d), end(d) - 1) \in Seq(C)
        /\ SubSeq(s, start(d) + 1, n) \in Seq(C)
    BY <1>3, TokenAt
  <2> HIDE DEF start, end
  <2>2. QED
    BY <2>1
<1>4. \A d \in D : start(d) \in Nat /\ (start(d) > n <=> ~(start(d) <= n))
  BY <1>1, <1>2
<1>5. \A d \in D : Goes(d) => end(d) \in D /\ end(d) > d /\ token(d) \in S
  <2> SUFFICES ASSUME NEW d \in D, Goes(d)
               PROVE  end(d) \in D /\ end(d) > d /\ token(d) \in S
    OBVIOUS
  <2>1. start(d) <= n
    OBVIOUS
  <2> HIDE DEF start, end, token, S, Goes
  <2>2. /\ end(d) \in start(d) + 1 .. n + 1 /\ token(d) \in S
        /\ start(d) \in d .. n + 1
    BY <1>2, <1>3, <2>1
  <2>3. d \in Nat /\ d >= 1
    OBVIOUS
  <2>4. QED
    BY ONLY <1>1, <2>2, <2>3
<1>6. \A d \in D : Base(d) \in S \/ Goes(d)
  <2>1. <<>> \in S
    BY EmptySeq
  <2> HIDE DEF start, end, token, S
  <2>2. QED
    BY <1>3, <1>4, <2>1
<1> HIDE DEF start, end, token
<1>7. \E f : f = Turn(f)
  <2> DEFINE rank == [d \in D |-> n + 1 - d]
             goes == [d \in D |-> Goes(d)]
             next == [d \in D |-> IF Goes(d) THEN end(d) ELSE d]
             base == [d \in D |-> IF Goes(d) THEN <<>> ELSE Base(d)]
             step == [d \in D |-> [x \in S |-> IF Goes(d) THEN token(d) \o x ELSE x]]
  <2>1. rank \in [D -> 0 .. n + 1]
    BY <1>1
  <2>2. goes \in [D -> BOOLEAN]
    OBVIOUS
  <2>3. next \in [D -> D]
    BY <1>5
  <2>4. base \in [D -> S]
    <3>1. <<>> \in S
      BY EmptySeq
    <3> HIDE DEF S, D, Goes, Base
    <3>2. QED
      BY <1>6, <3>1
  <2>5. step \in [D -> [S -> S]]
    <3>1. ASSUME NEW d \in D, NEW x \in S, Goes(d)
          PROVE  token(d) \o x \in S
      BY <1>5, <3>1, ConcatProperties
    <3> HIDE DEF S, D, Goes
    <3>2. QED
      BY <3>1
  <2>6. \A d \in D : goes[d] => rank[next[d]] < rank[d]
    <3>1. \A d \in D : Goes(d) => n + 1 - end(d) < n + 1 - d
      BY <1>1, <1>5
    <3> HIDE DEF D, Goes
    <3>2. QED
      BY <1>5, <3>1
  <2>7. \A d \in D : /\ goes[d] <=> Goes(d)
                     /\ Goes(d) => next[d] = end(d)
                     /\ ~Goes(d) => base[d] = Base(d)
                     /\ \A x \in S : Goes(d) => step[d][x] = token(d) \o x
    <3> HIDE DEF D, S, Goes, Base
    <3>1. QED
      OBVIOUS
  <2> HIDE DEF rank, goes, next, base, step, S, D, Base
  <2>8. Computable(D, S, n + 1, rank, goes, next, base, step)
    <3>1. n + 1 \in Nat
      BY <1>1
    <3>2. QED
      BY <2>1, <2>2, <2>3, <2>4, <2>5, <2>6, <3>1 DEF Computable
  <2>9. PICK f \in [D -> S] :
          \A d \in D : f[d] = IF goes[d] THEN step[d][f[next[d]]] ELSE base[d]
    <3>1. Computed(D, S, goes, next, base, step)
      BY ONLY <2>8, Recursion
    <3>2. QED
      BY <3>1 DEF Computed
  <2>10. \A d \in D : f[d] = IF Goes(d) THEN token(d) \o f[end(d)] ELSE Base(d)
    <3> SUFFICES ASSUME NEW d \in D
                 PROVE  f[d] = IF Goes(d) THEN token(d) \o f[end(d)] ELSE Base(d)
      OBVIOUS
    <3> HIDE DEF Goes
    <3>1. Goes(d) => f[end(d)] \in S
      BY <1>5
    <3>2. CASE Goes(d)
      <4>1. f[d] = step[d][f[end(d)]]
        BY <2>7, <2>9, <3>2
      <4>2. step[d][f[end(d)]] = token(d) \o f[end(d)]
        BY <2>7, <3>1, <3>2
      <4>3. QED
        BY <3>2, <4>1, <4>2
    <3>3. CASE ~Goes(d)
      BY <2>7, <2>9, <3>3
    <3>4. QED
      BY <3>2, <3>3
  <2>11. f = Turn(f)
    BY <1>4, <2>10 DEF Base
  <2>12. QED
    BY <2>11
<1>8. PICK f : f = Turn(f) /\ \A d \in D : parameters(s, d) = f[d]
  <2> DEFINE g == CHOOSE f : f = Turn(f)
  <2>1. \A d \in D : parameters(s, d) = g[d]
    BY ParametersChosen DEF start, end, token
  <2>2. g = Turn(g)
    BY <1>7
  <2> HIDE DEF g
  <2>3. QED
    BY <2>1, <2>2
<1>9. f[q] = IF start(q) > n THEN <<>>
             ELSE IF s[start(q)] = ":" THEN <<SubSeq(s, start(q) + 1, n)>>
             ELSE token(q) \o f[end(q)]
  BY <1>8
<1>10. start(q) <= n /\ s[start(q)] # ":" => f[end(q)] = parameters(s, end(q))
  BY <1>5, <1>8
<1>11. QED
  BY <1>4, <1>8, <1>9, <1>10 DEF start, end, token

\* A position from which the loop reads whole words, and the words it has left.
Boundary(s, q) == q = 1 \/ q = Len(s) + 1 \/ s[q] = " "
From(s, q) == {p \in Starts(s) : p >= q}

LEMMA FromIs ==
  ASSUME NEW C, NEW s \in Seq(C), NEW q
  PROVE  /\ From(s, q) \in SUBSET (1 .. Len(s)) /\ From(s, q) \in SUBSET Nat
         /\ IsFiniteSet(From(s, q)) /\ Len(s) \in Nat
         /\ 0 \notin From(s, q)
<1>1. Len(s) \in Nat /\ DOMAIN s = 1 .. Len(s)
  BY LenProperties
<1>2. From(s, q) \in SUBSET (1 .. Len(s))
  BY <1>1 DEF From, Starts
<1>3. IsFiniteSet(1 .. Len(s))
  BY <1>1, FS_Interval
<1>4. IsFiniteSet(From(s, q))
  BY <1>2, <1>3, FS_Subset
<1>5. \A p \in From(s, q) : p \in Nat /\ p # 0
  BY <1>1, <1>2
<1>6. QED
  BY <1>1, <1>2, <1>4, <1>5

\* The words left are the next token and the words behind it.
LEMMA WordsLeft ==
  ASSUME NEW C, NEW s \in Seq(C), NEW q \in 1 .. Len(s) + 1, Boundary(s, q)
  PROVE  LET start == skipSpaces(s, q)
             end == tokenEnd(s, start)
         IN /\ start > Len(s) => From(s, q) = {}
            /\ start <= Len(s) =>
                 /\ From(s, q) = {start} \cup From(s, end)
                 /\ \A p \in From(s, end) : start < p
                 /\ end \in q + 1 .. Len(s) + 1 /\ Boundary(s, end)
                 /\ WordAt(s, start) = SubSeq(s, start, end - 1)
<1> DEFINE start == skipSpaces(s, q)
           end == tokenEnd(s, start)
           n == Len(s)
<1>1. n \in Nat /\ DOMAIN s = 1 .. n /\ q \in Nat /\ q >= 1
  BY LenProperties
<1>2. start \in q .. n + 1 /\ \A r \in q .. start - 1 : s[r] = " "
  BY SkipIs
<1>3. ASSUME NEW p \in Starts(s)
      PROVE  s[p] # " " /\ (p = 1 \/ s[p - 1] = " ")
  BY DEF Starts
<1>4. ASSUME NEW p \in Starts(s)
      PROVE  p \in Nat /\ p >= 1 /\ p <= n
  <2>1. p \in 1 .. n
    BY <1>1 DEF Starts
  <2>2. QED
    BY ONLY <1>1, <2>1
<1>5. ASSUME start > n
      PROVE  From(s, q) = {}
  <2>1. ASSUME NEW p \in From(s, q) PROVE FALSE
    <3>1. p \in Nat /\ p >= q /\ p <= n
      BY <1>4 DEF From
    <3>2. s[p] # " "
      BY <1>3 DEF From
    <3> HIDE DEF start
    <3>3. start \in q .. n + 1
      BY <1>2
    <3>4. p \in q .. start - 1
      BY ONLY <1>1, <1>5, <3>1, <3>3
    <3>5. QED
      BY <1>2, <3>2, <3>4
  <2>2. QED
    BY <2>1
<1>6. ASSUME start <= n
      PROVE  /\ From(s, q) = {start} \cup From(s, end)
             /\ \A p \in From(s, end) : start < p
             /\ end \in q + 1 .. n + 1 /\ Boundary(s, end)
             /\ WordAt(s, start) = SubSeq(s, start, end - 1)
  <2>1. /\ start \in q .. n /\ end \in start + 1 .. n + 1
        /\ s[start] # " "
        /\ \A r \in start .. end - 1 : s[r] # " "
        /\ end <= n => s[end] = " "
    BY <1>6, TokenAt
  <2> HIDE DEF start, end
  <2>2. start \in q .. n
    BY <2>1
  <2>3. end \in start + 1 .. n + 1
    BY <2>1
  <2>4. /\ start \in Nat /\ end \in Nat /\ q <= start /\ start < end /\ start <= n
        /\ end <= n + 1
    BY ONLY <1>1, <2>2, <2>3
  <2>5. end \in q + 1 .. n + 1
    BY ONLY <1>1, <2>4
  <2>6. Boundary(s, end)
    <3>1. end <= n \/ end = n + 1
      BY <1>1, <2>4
    <3>2. QED
      BY <2>1, <3>1 DEF Boundary
  <2>7. start \in Starts(s)
    <3>1. start \in 1 .. n
      BY <1>1, <2>4
    <3>2. start = 1 \/ s[start - 1] = " "
      <4>1. CASE start = q
        <5>1. start # n + 1
          BY <1>1, <2>4
        <5>2. QED
          BY <2>1, <4>1, <5>1 DEF Boundary
      <4>2. CASE start # q
        <5>1. start - 1 \in q .. start - 1
          BY <1>1, <2>4, <4>2
        <5>2. QED
          BY <1>2, <5>1
      <4>3. QED
        BY <4>1, <4>2
    <3>3. QED
      BY <1>1, <2>1, <3>1, <3>2 DEF Starts
  <2>8. ASSUME NEW p \in Starts(s), p >= q, p # start
        PROVE  p >= end
    <3>1. s[p] # " " /\ (p = 1 \/ s[p - 1] = " ")
      BY <1>3
    <3>2. p \in Nat /\ p >= 1 /\ p <= n /\ p >= q /\ p # start
      BY <1>4, <2>8
    <3>3. ~(p < start)
      <4>1. ASSUME p < start PROVE p \in q .. start - 1
        BY ONLY <1>1, <2>4, <3>2, <4>1
      <4>2. QED
        BY <1>2, <3>1, <4>1
    <3>4. ~(start < p /\ p < end)
      <4>1. ASSUME start < p, p < end
            PROVE  p # 1 /\ p - 1 \in start .. end - 1
        BY ONLY <1>1, <2>4, <3>2, <4>1
      <4>2. QED
        BY <2>1, <3>1, <4>1
    <3>5. QED
      BY ONLY <2>4, <3>2, <3>3, <3>4
  <2>9. \A p \in From(s, end) : start < p
    <3>1. \A p \in From(s, end) : p \in Starts(s) /\ p >= end
      BY DEF From
    <3>2. QED
      BY <1>4, <2>4, <3>1
  <2>10. From(s, q) = {start} \cup From(s, end)
    <3>1. \A p \in From(s, q) : p = start \/ p \in From(s, end)
      BY <2>8 DEF From
    <3>2. start \in From(s, q)
      BY <2>4, <2>7 DEF From
    <3>3. ASSUME NEW p \in From(s, end)
          PROVE  p \in From(s, q)
      <4>1. p \in Starts(s) /\ p >= end
        BY DEF From
      <4>2. p >= q
        BY <1>1, <1>4, <2>4, <4>1
      <4>3. QED
        BY <4>1, <4>2 DEF From
    <3>4. QED
      BY <3>1, <3>2, <3>3
  <2>11. WordAt(s, start) = SubSeq(s, start, end - 1)
    <3> DEFINE Q == {x \in start .. n : \A r \in start .. x : s[r] # " "}
    <3>1. Q = start .. end - 1
      <4>1. ASSUME NEW x \in Q
            PROVE  x \in start .. end - 1
        <5>1. x \in start .. n /\ \A r \in start .. x : s[r] # " "
          OBVIOUS
        <5>2. x \in start .. n
          BY <5>1
        <5> HIDE DEF Q
        <5>3. x \in Nat /\ start <= x /\ x <= n
          BY ONLY <1>1, <2>4, <5>2
        <5>4. ASSUME x >= end PROVE FALSE
          <6>1. end \in start .. x /\ end <= n
            BY ONLY <2>4, <5>3, <5>4, <1>1
          <6>2. s[end] # " "
            BY <5>1, <6>1
          <6>3. QED
            BY <2>1, <6>1, <6>2
        <5>5. QED
          BY ONLY <2>4, <5>3, <5>4
      <4>2. ASSUME NEW x \in start .. end - 1
            PROVE  x \in Q
        <5>1. x \in start .. n
          BY ONLY <1>1, <2>4, x \in start .. end - 1
        <5>2. \A r \in start .. x : r \in start .. end - 1
          BY ONLY <1>1, <2>4, x \in start .. end - 1
        <5>3. QED
          BY <2>1, <5>1, <5>2
      <4>3. QED
        BY <4>1, <4>2
    <3>2. Max(Q) = end - 1
      <4> HIDE DEF Q
      <4>1. end - 1 \in Q /\ \A y \in Q : y \in Int /\ y <= end - 1
        BY ONLY <2>4, <3>1
      <4>2. \A x \in Q : (\A y \in Q : x >= y) => x = end - 1
        BY <4>1
      <4>3. \A y \in Q : end - 1 >= y
        BY <4>1
      <4>4. QED
        BY <4>1, <4>2, <4>3 DEF Max
    <3>3. QED
      BY <3>2 DEF WordAt
  <2>12. QED
    BY <2>5, <2>6, <2>9, <2>10, <2>11
<1>7. QED
  BY <1>5, <1>6

\* One more element below all the others comes first, and moves them up by one.
LEMMA NthMore ==
  ASSUME NEW M \in SUBSET Nat, IsFiniteSet(M), 0 \notin M, NEW n \in Nat,
         \A x \in M : x <= n, NEW a \in Nat, a # 0, a <= n, \A x \in M : a < x
  PROVE  /\ Cardinality(M) \in Nat
         /\ Cardinality({a} \cup M) = Cardinality(M) + 1
         /\ Nth({a} \cup M, 1) = a
         /\ \A j \in 1 .. Cardinality(M) : Nth({a} \cup M, j + 1) = Nth(M, j)
<1> DEFINE L == {a} \cup M
<1>1. a \notin M
  OBVIOUS
<1>2. IsFiniteSet(L) /\ Cardinality(L) = Cardinality(M) + 1 /\ Cardinality(M) \in Nat
  BY <1>1, FS_AddElement, FS_CardinalityType
<1>3. L \in SUBSET Nat
  OBVIOUS
<1>4. Rank(M, a) = 0
  <2>1. \A x \in M : ~(x <= a)
    OBVIOUS
  <2>2. QED
    BY <2>1, RankNone
<1>5. ASSUME NEW p \in L
      PROVE  Rank(L, p) = Rank(M, p) + 1
  <2> DEFINE A == {x \in M : x <= p}
  <2>1. {x \in L : x <= p} = {a} \cup A
    <3>1. a <= p
      BY DEF L
    <3>2. QED
      BY <3>1
  <2>2. IsFiniteSet(A) /\ a \notin A
    BY <1>1, RankIs
  <2>3. Cardinality({a} \cup A) = Cardinality(A) + 1
    BY <2>2, FS_AddElement
  <2>4. QED
    BY <2>1, <2>3 DEF Rank
<1> HIDE DEF L
<1>6. a \in L
  BY DEF L
<1>7. Nth(L, 1) = a
  <2>1. Rank(L, a) = 1
    BY <1>4, <1>5, <1>6
  <2>2. QED
    BY <1>2, <1>3, <1>6, <2>1, NthOfRank
<1>8. ASSUME NEW j \in 1 .. Cardinality(M)
      PROVE  Nth(L, j + 1) = Nth(M, j)
  <2> DEFINE p == Nth(M, j)
  <2>1. p \in M /\ Rank(M, p) = j
    BY NthIs
  <2> HIDE DEF p
  <2>2. p \in L
    BY <2>1 DEF L
  <2>3. Rank(L, p) = j + 1
    BY <1>5, <2>1, <2>2
  <2>4. Nth(L, Rank(L, p)) = p
    BY <1>2, <1>3, <2>2, NthOfRank
  <2>5. QED
    BY <2>3, <2>4 DEF p
<1>9. QED
  BY <1>2, <1>7, <1>8 DEF L

\* No word, no parameter.
LEMMA ParametersOfNone ==
  ASSUME NEW s
  PROVE  ParametersAt(s, {}) = <<>>
<1>1. Colons(s, {}) = {} /\ Middles(s, {}) = {}
  BY DEF Colons, Middles
<1>2. Cardinality({}) = 0
  BY FS_EmptySet
<1>3. Trailing(s, {}) = <<>>
  BY <1>1 DEF Trailing
<1>4. [j \in 1 .. Cardinality({}) |-> WordAt(s, Nth({}, j))] = <<>>
  BY <1>2
<1>5. <<>> \o <<>> = <<>>
  BY ConcatEmptySeq, EmptySeq
<1>6. QED
  BY <1>1, <1>3, <1>4, <1>5 DEF ParametersAt

\* A word with a colon takes the rest of the line.
LEMMA ParametersOfColon ==
  ASSUME NEW s, NEW R \in SUBSET Nat, NEW a \in Nat, \A p \in R : a < p, s[a] = ":"
  PROVE  ParametersAt(s, {a} \cup R) = <<SubSeq(s, a + 1, Len(s))>>
<1> DEFINE L == {a} \cup R
           K == Colons(s, L)
<1>1. K \in SUBSET Nat /\ a \in K /\ \A k \in K : a <= k
  <2>1. K \subseteq L /\ a \in K
    BY DEF Colons
  <2>2. L \in SUBSET Nat /\ \A k \in L : a <= k
    OBVIOUS
  <2> HIDE DEF K, L
  <2>3. QED
    BY ONLY <2>1, <2>2
<1>2. Min(K) = a
  <2> HIDE DEF K
  <2>1. QED
    BY <1>1, MinAt
<1>3. Trailing(s, L) = <<SubSeq(s, a + 1, Len(s))>>
  BY <1>1, <1>2 DEF Trailing
<1>4. Middles(s, L) = {}
  <2>1. \A p \in L : p \in Nat /\ a <= p
    OBVIOUS
  <2>2. \A p \in Middles(s, L) : p \in L /\ p < a
    BY <1>1 DEF Middles
  <2> HIDE DEF L
  <2>3. QED
    BY <2>1, <2>2
<1>5. [j \in 1 .. Cardinality(Middles(s, L)) |-> WordAt(s, Nth(Middles(s, L), j))] = <<>>
  <2> DEFINE c == Cardinality(Middles(s, L))
  <2>1. c = 0
    BY <1>4, FS_EmptySet
  <2> HIDE DEF c
  <2>2. [j \in 1 .. c |-> WordAt(s, Nth(Middles(s, L), j))] = <<>>
    BY <2>1
  <2>3. QED
    BY <2>2 DEF c
<1> DEFINE t == SubSeq(s, a + 1, Len(s))
<1>6. <<>> \o <<t>> = <<t>>
  <2> HIDE DEF t
  <2>1. <<t>> \in Seq({t})
    OBVIOUS
  <2>2. QED
    BY <2>1, ConcatEmptySeq
<1>7. QED
  BY <1>3, <1>5, <1>6 DEF ParametersAt

\* Any other word is a parameter by itself.
LEMMA ParametersOfWord ==
  ASSUME NEW s, NEW n \in Nat, NEW R \in SUBSET Nat, IsFiniteSet(R), 0 \notin R,
         \A p \in R : p <= n, NEW a \in Nat, a # 0, a <= n,
         \A p \in R : a < p, s[a] # ":"
  PROVE  ParametersAt(s, {a} \cup R) = <<WordAt(s, a)>> \o ParametersAt(s, R)
<1> DEFINE L == {a} \cup R
           M == Middles(s, R)
           c == Cardinality(M)
           f == [j \in 1 .. c |-> WordAt(s, Nth(M, j))]
           g == [j \in 1 .. Cardinality({a} \cup M) |-> WordAt(s, Nth({a} \cup M, j))]
<1>1. Colons(s, L) = Colons(s, R)
  BY DEF Colons
<1>2. Trailing(s, L) = Trailing(s, R)
  BY <1>1 DEF Trailing
<1>3. Middles(s, L) = {a} \cup M
  <2>1. \A k \in Colons(s, R) : a < k
    BY DEF Colons
  <2>2. QED
    BY <1>1, <2>1 DEF Middles
<1>4. /\ M \in SUBSET Nat /\ IsFiniteSet(M) /\ 0 \notin M /\ \A x \in M : x <= n
      /\ \A x \in M : a < x
  <2>1. M \subseteq R
    BY DEF Middles
  <2>2. QED
    BY <2>1, FS_Subset
<1> HIDE DEF M
<1>5. /\ c \in Nat /\ Cardinality({a} \cup M) = c + 1
      /\ Nth({a} \cup M, 1) = a
      /\ \A j \in 1 .. c : Nth({a} \cup M, j + 1) = Nth(M, j)
  BY <1>4, NthMore
<1> DEFINE W == {WordAt(s, Nth({a} \cup M, j)) : j \in 1 .. c + 1} \cup {WordAt(s, a)}
                  \cup Range(f) \cup Range(Trailing(s, R))
<1> HIDE DEF c
<1>6. f \in Seq(W) /\ Len(f) = c /\ \A j \in 1 .. c : f[j] = WordAt(s, Nth(M, j))
  BY <1>5 DEF Range
<1>7. <<WordAt(s, a)>> \in Seq(W) /\ Len(<<WordAt(s, a)>>) = 1
  OBVIOUS
<1>8. g = <<WordAt(s, a)>> \o f
  <2> DEFINE h == <<WordAt(s, a)>> \o f
  <2> HIDE DEF W, f
  <2>1. /\ h \in Seq(W) /\ Len(h) = 1 + c
        /\ \A j \in 1 .. 1 + c :
             h[j] = IF j <= 1 THEN <<WordAt(s, a)>>[j] ELSE f[j - 1]
    BY <1>5, <1>6, <1>7, ConcatProperties
  <2> HIDE DEF h
  <2>2. ASSUME NEW j \in 1 .. c + 1
        PROVE  h[j] = WordAt(s, Nth({a} \cup M, j))
    <3>1. CASE j = 1
      BY <1>5, <2>1, <3>1
    <3>2. CASE j # 1
      <4>1. j - 1 \in 1 .. c /\ (j - 1) + 1 = j /\ ~(j <= 1) /\ j \in 1 .. 1 + c
        BY <1>5, <3>2
      <4>2. h[j] = f[j - 1] /\ f[j - 1] = WordAt(s, Nth(M, j - 1))
        BY <1>6, <2>1, <4>1
      <4>3. Nth({a} \cup M, j) = Nth(M, j - 1)
        BY <1>5, <4>1
      <4>4. QED
        BY <4>2, <4>3
    <3>3. QED
      BY <3>1, <3>2
  <2>3. h = [j \in 1 .. c + 1 |-> h[j]]
    BY <1>5, <2>1, LenProperties
  <2>4. h = g
    BY <1>5, <2>2, <2>3
  <2>5. QED
    BY <2>4 DEF h
<1>9. Trailing(s, R) \in Seq(W)
  <2> DEFINE t == SubSeq(s, Min(Colons(s, R)) + 1, Len(s))
  <2>1. CASE Colons(s, R) = {}
    BY <2>1, EmptySeq DEF Trailing
  <2>2. CASE Colons(s, R) # {}
    <3>1. Trailing(s, R) = <<t>>
      BY <2>2 DEF Trailing
    <3> HIDE DEF t
    <3>2. t \in W
      BY <3>1 DEF Range
    <3> HIDE DEF W
    <3>3. QED
      BY <3>1, <3>2
  <2>3. QED
    BY <2>1, <2>2
<1>10. (<<WordAt(s, a)>> \o f) \o Trailing(s, R) = <<WordAt(s, a)>> \o (f \o Trailing(s, R))
  <2> HIDE DEF W, f
  <2>1. QED
    BY <1>6, <1>7, <1>9, ConcatAssociative
<1>11. ParametersAt(s, L) = g \o Trailing(s, L) /\ ParametersAt(s, R) = f \o Trailing(s, R)
  BY <1>3 DEF ParametersAt, M, c
<1>12. QED
  BY <1>2, <1>8, <1>10, <1>11

\* The loop reads the words left as the grammar does.
LEMMA ParametersAre ==
  ASSUME NEW C, NEW s \in Seq(C), NEW q \in 1 .. Len(s) + 1, Boundary(s, q)
  PROVE  parameters(s, q) = ParametersAt(s, From(s, q))
<1> DEFINE n == Len(s)
           Right(d) == Boundary(s, d) => parameters(s, d) = ParametersAt(s, From(s, d))
           T == {k \in Nat : \A d \in 1 .. n + 1 : n + 1 - d <= k => Right(d)}
<1>1. n \in Nat
  BY LenProperties
<1>2. ASSUME NEW d \in 1 .. n + 1, Boundary(s, d),
             \A e \in 1 .. n + 1 : d < e => Right(e)
      PROVE  parameters(s, d) = ParametersAt(s, From(s, d))
  <2> DEFINE start == skipSpaces(s, d)
             end == tokenEnd(s, start)
             R == From(s, end)
  <2>1. parameters(s, d) =
          IF start > n THEN <<>>
          ELSE IF s[start] = ":" THEN <<SubSeq(s, start + 1, n)>>
          ELSE <<SubSeq(s, start, end - 1)>> \o parameters(s, end)
    BY ParametersStep
  <2>2. /\ start > n => From(s, d) = {}
        /\ start <= n =>
             /\ From(s, d) = {start} \cup R
             /\ \A p \in R : start < p
             /\ end \in d + 1 .. n + 1 /\ Boundary(s, end)
             /\ WordAt(s, start) = SubSeq(s, start, end - 1)
    BY <1>2, WordsLeft
  <2>3. start \in d .. n + 1
    BY SkipIs
  <2>4. /\ R \in SUBSET (1 .. n) /\ R \in SUBSET Nat /\ IsFiniteSet(R) /\ 0 \notin R
    BY FromIs
  <2> HIDE DEF start, end, R
  <2>5. start \in Nat /\ start # 0 /\ (start > n <=> ~(start <= n))
    <3>1. d \in Nat /\ d >= 1
      BY <1>1
    <3>2. QED
      BY ONLY <1>1, <2>3, <3>1
  <2>6. \A p \in R : p <= n
    BY ONLY <1>1, <2>4
  <2>7. CASE start > n
    BY <2>1, <2>2, <2>7, ParametersOfNone
  <2>8. CASE start <= n /\ s[start] = ":"
    BY <2>1, <2>2, <2>4, <2>5, <2>8, ParametersOfColon
  <2>9. CASE start <= n /\ s[start] # ":"
    <3>1. end \in 1 .. n + 1 /\ d < end
      <4>1. end \in d + 1 .. n + 1 /\ d \in Nat /\ d >= 1
        BY <1>1, <2>2, <2>9
      <4>2. QED
        BY ONLY <1>1, <4>1
    <3>2. parameters(s, end) = ParametersAt(s, R)
      BY <1>2, <2>2, <2>9, <3>1 DEF R
    <3>3. ParametersAt(s, {start} \cup R) = <<WordAt(s, start)>> \o ParametersAt(s, R)
      <4>1. start <= n /\ s[start] # ":" /\ \A p \in R : start < p
        BY <2>2, <2>9
      <4>2. QED
        BY <1>1, <2>4, <2>5, <2>6, <4>1, ParametersOfWord
    <3>4. QED
      BY <2>1, <2>2, <2>5, <2>9, <3>2, <3>3
  <2>10. QED
    BY <2>5, <2>7, <2>8, <2>9
<1> HIDE DEF Right
<1>3. ASSUME NEW d \in 1 .. n + 1, \A e \in 1 .. n + 1 : d < e => Right(e)
      PROVE  Right(d)
  BY <1>2, <1>3 DEF Right
<1>4. 0 \in T
  <2>1. ASSUME NEW d \in 1 .. n + 1, n + 1 - d <= 0
        PROVE  Right(d)
    <3>1. \A e \in 1 .. n + 1 : ~(d < e)
      BY ONLY <1>1, <2>1, d \in 1 .. n + 1
    <3>2. QED
      BY <1>3, <3>1
  <2>2. QED
    BY <2>1
<1>5. ASSUME NEW k \in Nat, k \in T
      PROVE  k + 1 \in T
  <2>1. ASSUME NEW d \in 1 .. n + 1, n + 1 - d <= k + 1
        PROVE  Right(d)
    <3>1. \A e \in 1 .. n + 1 : d < e => n + 1 - e <= k
      BY ONLY <1>1, <2>1, d \in 1 .. n + 1, k \in Nat
    <3>2. \A e \in 1 .. n + 1 : d < e => Right(e)
      BY <1>5, <3>1
    <3>3. QED
      BY <1>3, <3>2
  <2>2. QED
    BY <2>1
<1>6. n + 1 \in T
  <2>1. n + 1 \in Nat
    BY <1>1
  <2> HIDE DEF T
  <2>2. QED
    BY <1>4, <1>5, <2>1, Induction
<1>7. Right(q)
  <2>1. n + 1 - q <= n + 1
    BY <1>1
  <2>2. QED
    BY <1>6, <2>1
<1>8. QED
  BY <1>7 DEF Right

\* So does Command::parse.
LEMMA ParseIsGrammar ==
  ASSUME NEW C, NEW s \in Seq(C)
  PROVE  parse(s) = Grammar(s)
<1> DEFINE start == skipSpaces(s, 1)
           end == tokenEnd(s, start)
           n == Len(s)
<1>1. n \in Nat /\ 1 \in 1 .. n + 1 /\ Boundary(s, 1)
  BY LenProperties DEF Boundary
<1>2. From(s, 1) = Starts(s)
  <2>1. \A p \in Starts(s) : p \in 1 .. n
    BY LenProperties DEF Starts
  <2>2. \A p \in Starts(s) : p >= 1
    BY <1>1, <2>1
  <2>3. QED
    BY <2>2 DEF From
<1>3. start \in 1 .. n + 1
  BY <1>1, SkipIs
<1>4. /\ start > n => Starts(s) = {}
      /\ start <= n =>
           /\ Starts(s) = {start} \cup From(s, end)
           /\ \A p \in From(s, end) : start < p
           /\ end \in 1 + 1 .. n + 1 /\ Boundary(s, end)
           /\ WordAt(s, start) = SubSeq(s, start, end - 1)
  BY <1>1, <1>2, WordsLeft
<1>5. From(s, end) \in SUBSET Nat
  BY FromIs
<1>6. parse(s) = IF start > n THEN Invalid
                 ELSE IF s[start] = ":" \/ Len(parameters(s, end)) > MaxParameters THEN Invalid
                 ELSE [valid |-> TRUE, name |-> normalizeName(SubSeq(s, start, end - 1)),
                       parameters |-> parameters(s, end)]
  BY DEF parse, TooMany
<1> HIDE DEF start, end
<1>7. start \in Nat /\ (start > n <=> ~(start <= n))
  BY ONLY <1>1, <1>3
<1>8. CASE start > n
  BY <1>4, <1>6, <1>8 DEF Grammar
<1>9. CASE start <= n
  <2>1. Min(Starts(s)) = start /\ Starts(s) # {}
    <3>1. Starts(s) \in SUBSET Nat /\ start \in Starts(s)
      BY <1>4, <1>5, <1>7, <1>9
    <3>2. \A k \in Starts(s) : start <= k
      BY <1>4, <1>5, <1>7, <1>9
    <3>3. QED
      BY <3>1, <3>2, MinAt
  <2>2. Starts(s) \ {start} = From(s, end)
    BY <1>4, <1>5, <1>7, <1>9
  <2>3. end \in 1 .. n + 1
    <3>1. end \in 1 + 1 .. n + 1
      BY <1>4, <1>9
    <3>2. QED
      BY ONLY <1>1, <3>1
  <2>4. parameters(s, end) = ParametersAt(s, From(s, end))
    BY <1>4, <1>9, <2>3, ParametersAre
  <2>5. QED
    BY <1>4, <1>6, <1>7, <1>9, <2>1, <2>2, <2>4 DEF Grammar
<1>10. QED
  BY <1>7, <1>8, <1>9

\* Command::parse reads every line as the grammar says, however long it is and
\* whatever the number and place of spaces and colons (Command.cpp:63).
THEOREM ParseCorrect == Spec => []ParseExact
<1>1. Typed => ParseExact
  BY ParseIsGrammar DEF Typed, ParseExact
<1>2. QED
  BY <1>1, TypedAlways, PTL

-----------------------------------------------------------------------------
(* Reading what was written *)

\* The characters of a line put together from three pieces.
LEMMA PiecesAre ==
  ASSUME NEW C, NEW u \in Seq(C), NEW x \in Seq(C), NEW t \in Seq(C)
  PROVE  LET wire == (u \o x) \o t
         IN /\ wire \in Seq(C) /\ Len(wire) = Len(u) + Len(x) + Len(t)
            /\ Len(u) \in Nat /\ Len(x) \in Nat /\ Len(t) \in Nat
            /\ u \o x \in Seq(C) /\ Len(u \o x) = Len(u) + Len(x)
            /\ \A i \in 1 .. Len(x) : wire[Len(u) + i] = x[i]
            /\ \A i \in 1 .. Len(t) : wire[Len(u) + Len(x) + i] = t[i]
<1> DEFINE v == u \o x
           wire == v \o t
           a == Len(u)
           b == Len(x)
           c == Len(t)
<1>1. a \in Nat /\ b \in Nat /\ c \in Nat
  BY LenProperties
<1>2. /\ v \in Seq(C) /\ Len(v) = a + b
      /\ \A i \in 1 .. a + b : v[i] = IF i <= a THEN u[i] ELSE x[i - a]
  BY ConcatProperties
<1> HIDE DEF v
<1>3. /\ wire \in Seq(C) /\ Len(wire) = (a + b) + c
      /\ \A i \in 1 .. (a + b) + c : wire[i] = IF i <= a + b THEN v[i] ELSE t[i - (a + b)]
  <2> HIDE DEF a, b
  <2>1. /\ wire \in Seq(C) /\ Len(wire) = Len(v) + c
        /\ \A i \in 1 .. Len(v) + c : wire[i] = IF i <= Len(v) THEN v[i] ELSE t[i - Len(v)]
    BY <1>2, ConcatProperties
  <2>2. QED
    BY <1>2, <2>1
<1> HIDE DEF wire, a, b, c
<1>4. ASSUME NEW i \in 1 .. b
      PROVE  wire[a + i] = x[i]
  <2>1. /\ a + i \in 1 .. a + b /\ a + i \in 1 .. (a + b) + c /\ a + i <= a + b
        /\ ~(a + i <= a) /\ (a + i) - a = i
    BY <1>1
  <2>2. QED
    BY <1>2, <1>3, <2>1
<1>5. ASSUME NEW i \in 1 .. c
      PROVE  wire[a + b + i] = t[i]
  <2>1. /\ a + b + i \in 1 .. (a + b) + c /\ ~(a + b + i <= a + b)
        /\ (a + b + i) - (a + b) = i
    BY <1>1
  <2>2. QED
    BY <1>3, <2>1
<1>6. QED
  BY <1>1, <1>2, <1>3, <1>4, <1>5 DEF wire, v, a, b, c

\* Where a scan stops.
LEMMA SkipAt ==
  ASSUME NEW C, NEW s \in Seq(C), NEW p \in 1 .. Len(s) + 1, NEW a \in p .. Len(s) + 1,
         \A r \in p .. a - 1 : s[r] = " ", a <= Len(s) => s[a] # " "
  PROVE  skipSpaces(s, p) = a
<1> DEFINE q == skipSpaces(s, p)
           n == Len(s)
<1>1. n \in Nat /\ p \in Nat /\ p >= 1
  BY ONLY s \in Seq(C), p \in 1 .. n + 1, LenProperties
<1>2. q \in p .. n + 1
  BY SkipIs
<1>3. (\A r \in p .. q - 1 : s[r] = " ") /\ (q <= n => s[q] # " ")
  BY SkipIs
<1> HIDE DEF q
<1>4. ~(q < a)
  <2>1. q < a => q \in p .. a - 1 /\ q <= n
    BY ONLY <1>1, <1>2, a \in p .. n + 1
  <2>2. QED
    BY <1>3, <2>1
<1>5. ~(a < q)
  <2>1. a < q => a \in p .. q - 1 /\ a <= n
    BY ONLY <1>1, <1>2, a \in p .. n + 1
  <2>2. QED
    BY <1>3, <2>1
<1>6. q = a
  BY ONLY <1>1, <1>2, <1>4, <1>5, a \in p .. n + 1
<1>7. QED
  BY <1>6 DEF q

LEMMA TokenEndAt ==
  ASSUME NEW C, NEW s \in Seq(C), NEW p \in 1 .. Len(s) + 1, NEW a \in p .. Len(s) + 1,
         \A r \in p .. a - 1 : s[r] # " ", a <= Len(s) => s[a] = " "
  PROVE  tokenEnd(s, p) = a
<1> DEFINE q == tokenEnd(s, p)
           n == Len(s)
<1>1. n \in Nat /\ p \in Nat /\ p >= 1
  BY ONLY s \in Seq(C), p \in 1 .. n + 1, LenProperties
<1>2. q \in p .. n + 1
  BY TokenIs
<1>3. (\A r \in p .. q - 1 : s[r] # " ") /\ (q <= n => s[q] = " ")
  BY TokenIs
<1> HIDE DEF q
<1>4. ~(q < a)
  <2>1. q < a => q \in p .. a - 1 /\ q <= n
    BY ONLY <1>1, <1>2, a \in p .. n + 1
  <2>2. QED
    BY <1>3, <2>1
<1>5. ~(a < q)
  <2>1. a < q => a \in p .. q - 1 /\ a <= n
    BY ONLY <1>1, <1>2, a \in p .. n + 1
  <2>2. QED
    BY <1>3, <2>1
<1>6. q = a
  BY ONLY <1>1, <1>2, <1>4, <1>5, a \in p .. n + 1
<1>7. QED
  BY <1>6 DEF q

\* Nothing is read at the end of a line.
LEMMA ReadEnd ==
  ASSUME NEW C, NEW u \in Seq(C)
  PROVE  parameters(u, Len(u) + 1) = <<>>
<1>1. Len(u) \in Nat
  BY LenProperties
<1>2. Len(u) + 1 \in 1 .. Len(u) + 1
  BY <1>1
<1>3. skipSpaces(u, Len(u) + 1) \in Len(u) + 1 .. Len(u) + 1
  BY <1>2, SkipIs
<1>4. skipSpaces(u, Len(u) + 1) > Len(u)
  BY ONLY <1>1, <1>3
<1>5. QED
  BY <1>2, <1>4, ParametersStep

\* A character and a text.
LEMMA FirstAnd ==
  ASSUME NEW C, NEW c \in C, NEW w \in Seq(C)
  PROVE  LET x == <<c>> \o w
         IN /\ x \in Seq(C) /\ Len(w) \in Nat /\ Len(x) = Len(w) + 1
            /\ x[1] = c
            /\ \A i \in 1 .. Len(w) : x[i + 1] = w[i]
<1> DEFINE x == <<c>> \o w
           k == Len(w)
<1>1. <<c>> \in Seq(C) /\ Len(<<c>>) = 1 /\ <<c>>[1] = c
  OBVIOUS
<1>2. k \in Nat
  BY LenProperties
<1>3. x \in Seq(C) /\ Len(x) = 1 + k
      /\ \A i \in 1 .. 1 + k : x[i] = IF i <= 1 THEN <<c>>[i] ELSE w[i - 1]
  <2>1. /\ x \in Seq(C) /\ Len(x) = Len(<<c>>) + k
        /\ \A i \in 1 .. Len(<<c>>) + k :
             x[i] = IF i <= Len(<<c>>) THEN <<c>>[i] ELSE w[i - Len(<<c>>)]
    BY ONLY <1>1, w \in Seq(C), ConcatProperties
  <2>2. QED
    BY ONLY <1>1, <2>1
<1> HIDE DEF x, k
<1>4. \A i \in 1 .. k : i + 1 \in 1 .. 1 + k /\ ~(i + 1 <= 1) /\ (i + 1) - 1 = i
  BY ONLY <1>2
<1>5. 1 \in 1 .. 1 + k /\ 1 <= 1
  BY ONLY <1>2
<1>6. x[1] = c
  BY ONLY <1>1, <1>3, <1>5
<1>7. \A i \in 1 .. k : x[i + 1] = w[i]
  BY ONLY <1>3, <1>4
<1>8. Len(x) = k + 1
  <2>1. Len(x) = 1 + k
    BY <1>3
  <2>2. QED
    BY ONLY <1>2, <2>1
<1>9. QED
  BY <1>2, <1>3, <1>6, <1>7, <1>8 DEF x, k

\* A word has characters, and none is a space.
LEMMA WordIs ==
  ASSUME NEW C, NEW w \in Seq(C), Word(w)
  PROVE  Len(w) \in Nat /\ Len(w) # 0 /\ \A i \in 1 .. Len(w) : w[i] # " "
<1>1. Len(w) \in Nat /\ DOMAIN w = 1 .. Len(w)
  BY LenProperties
<1>2. Len(w) # 0
  BY EmptySeq DEF Word
<1>3. \A i \in DOMAIN w : w[i] # " "
  BY DEF Word, Range
<1>4. QED
  BY <1>1, <1>2, <1>3

\* A word is read whole, up to the space behind it.
LEMMA ReadWord ==
  ASSUME NEW C, " " \in C, NEW u \in Seq(C), NEW w \in Seq(C), Word(w),
         NEW t \in Seq(C), t = <<>> \/ t[1] = " "
  PROVE  LET v == u \o (<<" ">> \o w)
         IN parameters(v \o t, Len(u) + 1) = <<w>> \o parameters(v \o t, Len(v) + 1)
<1> DEFINE x == <<" ">> \o w
           v == u \o x
           wire == v \o t
           n == Len(wire)
           q == Len(u) + 1
           k == Len(w)
<1>1. /\ x \in Seq(C) /\ Len(x) = k + 1 /\ k \in Nat /\ k # 0
      /\ x[1] = " "
      /\ \A i \in 1 .. k : x[i + 1] = w[i]
      /\ \A i \in 1 .. k : w[i] # " "
  <2>1. Len(w) \in Nat /\ Len(w) # 0 /\ \A i \in 1 .. Len(w) : w[i] # " "
    BY WordIs
  <2>2. /\ x \in Seq(C) /\ Len(x) = Len(w) + 1
        /\ x[1] = " "
        /\ \A i \in 1 .. Len(w) : x[i + 1] = w[i]
    <3>1. \A c \in C : /\ <<c>> \o w \in Seq(C) /\ Len(<<c>> \o w) = Len(w) + 1
                       /\ (<<c>> \o w)[1] = c
                       /\ \A i \in 1 .. Len(w) : (<<c>> \o w)[i + 1] = w[i]
      BY ONLY w \in Seq(C), FirstAnd
    <3>2. QED
      BY ONLY <3>1, " " \in C, Zenon DEF x
  <2> HIDE DEF x
  <2>3. QED
    BY <2>1, <2>2
<1> HIDE DEF x, k
<1>2. /\ wire \in Seq(C) /\ n = Len(u) + Len(x) + Len(t)
      /\ Len(u) \in Nat /\ Len(x) \in Nat /\ Len(t) \in Nat
      /\ Len(v) = Len(u) + Len(x)
      /\ \A i \in 1 .. Len(x) : wire[Len(u) + i] = x[i]
      /\ \A i \in 1 .. Len(t) : wire[Len(u) + Len(x) + i] = t[i]
  <2>1. x \in Seq(C)
    BY <1>1
  <2>2. QED
    BY ONLY <2>1, u \in Seq(C), t \in Seq(C), PiecesAre
<1> HIDE DEF wire, v, n
<1>3. Len(x) = k + 1 /\ n = Len(u) + Len(x) + Len(t) /\ Len(v) = Len(u) + Len(x)
  BY <1>1, <1>2
<1>4. Len(u) \in Nat /\ Len(x) \in Nat /\ Len(t) \in Nat /\ k \in Nat /\ k # 0
  BY <1>1, <1>2
<1> DEFINE e == q + 1 + k
<1>5. /\ q \in Nat /\ q >= 1 /\ k \in Nat /\ k >= 1 /\ n \in Nat /\ e <= n + 1
      /\ n + 1 = e + Len(t) /\ Len(t) \in Nat
  BY ONLY <1>3, <1>4 DEF e, q
<1>6. wire[q] = " "
  <2>1. 1 \in 1 .. Len(x)
    BY ONLY <1>3, <1>4
  <2>2. QED
    BY <1>1, <1>2, <2>1
<1>7. ASSUME NEW r \in q + 1 .. e - 1
      PROVE  wire[r] = w[r - q] /\ wire[r] # " " /\ r - q \in 1 .. k
  <2>1. /\ (r - q) \in 1 .. k /\ (r - q) + 1 \in 1 .. Len(x)
        /\ Len(u) + ((r - q) + 1) = r
    BY ONLY <1>3, <1>4, r \in q + 1 .. e - 1 DEF e, q
  <2>2. wire[Len(u) + ((r - q) + 1)] = x[(r - q) + 1]
    BY <1>2, <2>1
  <2>3. x[(r - q) + 1] = w[r - q] /\ w[r - q] # " "
    BY <1>1, <2>1
  <2>4. QED
    BY <2>1, <2>2, <2>3
<1>8. e <= n => wire[e] = " "
  <2>1. ASSUME e <= n PROVE wire[e] = " "
    <3>1. Len(t) >= 1 /\ 1 \in 1 .. Len(t) /\ Len(u) + Len(x) + 1 = e
      BY ONLY <1>3, <1>4, <2>1 DEF e, q
    <3>2. t # <<>>
      BY ONLY <3>1, EmptySeq
    <3>3. QED
      BY <1>2, <3>1, <3>2
  <2>2. QED
    BY <2>1
<1>9. skipSpaces(wire, q) = q + 1
  <2>1. q \in 1 .. n + 1 /\ q + 1 \in q .. n + 1 /\ q + 1 \in q + 1 .. e - 1
    BY ONLY <1>5 DEF e
  <2>2. \A r \in q .. (q + 1) - 1 : r = q
    BY ONLY <1>5
  <2>3. wire[q + 1] # " "
    BY <1>7, <2>1
  <2>4. \A r \in q .. (q + 1) - 1 : wire[r] = " "
    BY <1>6, <2>2
  <2>5. wire \in Seq(C)
    BY <1>2
  <2> HIDE DEF q, e
  <2>6. QED
    BY ONLY <2>1, <2>3, <2>4, <2>5, SkipAt DEF n
<1>10. tokenEnd(wire, q + 1) = e
  <2>1. q + 1 \in 1 .. n + 1 /\ e \in q + 1 .. n + 1
    BY ONLY <1>5 DEF e
  <2>2. wire \in Seq(C) /\ \A r \in q + 1 .. e - 1 : wire[r] # " "
    BY <1>2, <1>7
  <2> HIDE DEF q, e
  <2>3. QED
    BY ONLY <1>8, <2>1, <2>2, TokenEndAt DEF n
<1>11. SubSeq(wire, q + 1, e - 1) = w
  <2> DEFINE z == SubSeq(wire, q + 1, e - 1)
  <2>1. \A r \in q + 1 .. e - 1 : r \in 1 .. n
    BY ONLY <1>5 DEF e
  <2>2. (IF q + 1 <= e - 1 + 1 THEN (e - 1) - (q + 1) + 1 ELSE 0) = k
    BY ONLY <1>5 DEF e
  <2>3. z = [i \in 1 .. k |-> wire[q + 1 + i - 1]]
    BY ONLY <2>2, <1>5 DEF z
  <2>4. \A i \in 1 .. k : /\ q + 1 + i - 1 \in q + 1 .. e - 1
                          /\ (q + 1 + i - 1) - q = i
    BY ONLY <1>5 DEF e
  <2>5. \A i \in 1 .. k : wire[q + 1 + i - 1] = w[i]
    BY <1>7, <2>4
  <2>6. w = [i \in 1 .. k |-> w[i]]
    BY LenProperties DEF k
  <2>7. QED
    BY <2>3, <2>5, <2>6
<1>12. q + 1 <= n /\ wire[q + 1] # ":"
  <2>1. q + 1 <= n /\ q + 1 \in q + 1 .. e - 1 /\ (q + 1) - q = 1
    BY ONLY <1>5 DEF e
  <2>2. wire[q + 1] = w[1]
    BY <1>7, <2>1
  <2>3. QED
    BY <2>1, <2>2 DEF Word
<1>13. e = Len(v) + 1
  BY ONLY <1>3, <1>4 DEF e, q
<1>14. q \in 1 .. n + 1
  BY ONLY <1>5
<1>15. parameters(wire, q) = <<w>> \o parameters(wire, e)
  <2>1. ~(q + 1 > n)
    BY ONLY <1>5 DEF e
  <2>2. wire \in Seq(C)
    BY <1>2
  <2> HIDE DEF q, e
  <2>3. parameters(wire, q) =
          IF q + 1 > n THEN <<>>
          ELSE IF wire[q + 1] = ":" THEN <<SubSeq(wire, q + 1 + 1, n)>>
          ELSE <<SubSeq(wire, q + 1, e - 1)>> \o parameters(wire, e)
    BY ONLY <1>9, <1>10, <1>14, <2>2, ParametersStep DEF n
  <2>4. QED
    BY ONLY <1>11, <1>12, <2>1, <2>3
<1>16. QED
  BY <1>13, <1>15 DEF wire, v, x

LEMMA Regroup ==
  ASSUME NEW C, NEW u \in Seq(C), NEW x \in Seq(C), NEW t \in Seq(C)
  PROVE  u \o (x \o t) = (u \o x) \o t
BY ConcatAssociative

LEMMA SingleIs ==
  ASSUME NEW C, NEW a \in C
  PROVE  <<a>> \in Seq(C)
OBVIOUS

LEMMA PairIs ==
  ASSUME NEW C, NEW a \in C, NEW b \in C
  PROVE  <<a, b>> \in Seq(C)
OBVIOUS

\* What follows a colon is read as it is.
LEMMA ReadTrailing ==
  ASSUME NEW C, " " \in C, ":" \in C, NEW u \in Seq(C), NEW t \in Seq(C)
  PROVE  parameters((u \o <<" ", ":">>) \o t, Len(u) + 1) = <<t>>
<1> DEFINE x == <<" ", ":">>
           wire == (u \o x) \o t
           n == Len(wire)
           q == Len(u) + 1
<1>1. x \in Seq(C)
  <2>1. \A a, b \in C : <<a, b>> \in Seq(C)
    BY PairIs
  <2>2. QED
    BY ONLY <2>1, " " \in C, ":" \in C, Zenon DEF x
<1>2. Len(x) = 2
  OBVIOUS
<1>3. x[1] = " " /\ x[2] = ":"
  OBVIOUS
<1> HIDE DEF x
<1>4. /\ wire \in Seq(C) /\ n = Len(u) + Len(x) + Len(t)
      /\ Len(u) \in Nat /\ Len(t) \in Nat
      /\ \A i \in 1 .. Len(x) : wire[Len(u) + i] = x[i]
      /\ \A i \in 1 .. Len(t) : wire[Len(u) + Len(x) + i] = t[i]
  BY ONLY <1>1, u \in Seq(C), t \in Seq(C), PiecesAre
<1> HIDE DEF wire, n
<1>5. Len(u) \in Nat /\ Len(t) \in Nat /\ n = Len(u) + 2 + Len(t) /\ q = Len(u) + 1
  BY ONLY <1>2, <1>4 DEF q
<1>6. wire[q] = " " /\ wire[q + 1] = ":"
  <2>1. 1 \in 1 .. Len(x) /\ 2 \in 1 .. Len(x)
    BY ONLY <1>2
  <2>2. wire[Len(u) + 1] = x[1] /\ wire[Len(u) + 2] = x[2]
    BY ONLY <1>4, <2>1
  <2>3. Len(u) + 2 = q + 1
    BY ONLY <1>5
  <2>4. QED
    BY ONLY <1>3, <2>2, <2>3 DEF q
<1>7. q \in 1 .. n + 1 /\ q + 1 \in q .. n + 1 /\ q + 1 <= n /\ ~(q + 1 > n)
  BY ONLY <1>5
<1>8. skipSpaces(wire, q) = q + 1
  <2>1. \A r \in q .. (q + 1) - 1 : r = q
    BY ONLY <1>5
  <2>2. \A r \in q .. (q + 1) - 1 : wire[r] = " "
    BY ONLY <1>6, <2>1
  <2>3. wire[q + 1] # " "
    BY <1>6
  <2>4. wire \in Seq(C)
    BY <1>4
  <2> HIDE DEF q
  <2>5. QED
    BY ONLY <1>7, <2>2, <2>3, <2>4, SkipAt DEF n
<1>9. SubSeq(wire, (q + 1) + 1, n) = t
  <2>1. (IF (q + 1) + 1 <= n + 1 THEN n - ((q + 1) + 1) + 1 ELSE 0) = Len(t)
    BY ONLY <1>5
  <2>2. SubSeq(wire, (q + 1) + 1, n) = [i \in 1 .. Len(t) |-> wire[(q + 1) + 1 + i - 1]]
    BY ONLY <2>1, <1>5
  <2>3. \A i \in 1 .. Len(t) : (q + 1) + 1 + i - 1 = Len(u) + Len(x) + i
    BY ONLY <1>2, <1>5
  <2>4. \A i \in 1 .. Len(t) : wire[(q + 1) + 1 + i - 1] = t[i]
    BY ONLY <1>4, <2>3
  <2>5. t = [i \in 1 .. Len(t) |-> t[i]]
    BY ONLY t \in Seq(C), LenProperties
  <2>6. QED
    BY ONLY <2>2, <2>4, <2>5
<1>10. parameters(wire, q) = <<t>>
  <2>1. wire \in Seq(C)
    BY <1>4
  <2> HIDE DEF q
  <2>2. QED
    BY ONLY <1>6, <1>7, <1>8, <1>9, <2>1, ParametersStep DEF n
<1>11. QED
  BY ONLY <1>10 DEF wire, q, x

\* The sequences put one after the other, and one more.
LEMMA FlattenChosen ==
  ASSUME NEW ss
  PROVE  FlattenSeq(ss) =
           IF Len(ss) = 0 THEN ss
           ELSE (CHOOSE f : f = [i \in 1 .. Len(ss) |->
                   IF i = 1 THEN ss[i] ELSE f[i - 1] \o ss[i]])[Len(ss)]
BY DEF FlattenSeq

LEMMA FlattenTurns ==
  ASSUME NEW C, NEW ss \in Seq(Seq(C)), Len(ss) # 0
  PROVE  \E f \in [1 .. Len(ss) -> Seq(C)] :
           /\ FlattenSeq(ss) = f[Len(ss)]
           /\ \A i \in 1 .. Len(ss) : f[i] = IF i = 1 THEN ss[i] ELSE f[i - 1] \o ss[i]
<1> DEFINE n == Len(ss)
           D == 1 .. n
           S == Seq(C)
           Turn(f) == [i \in D |-> IF i = 1 THEN ss[i] ELSE f[i - 1] \o ss[i]]
<1>1. n \in Nat /\ n # 0 /\ \A i \in D : ss[i] \in S
  BY LenProperties, ElementOfSeq
<1>2. \E f \in [D -> S] : f = Turn(f)
  <2> DEFINE rank == [i \in D |-> i]
             goes == [i \in D |-> i # 1]
             next == [i \in D |-> IF i = 1 THEN 1 ELSE i - 1]
             base == [i \in D |-> ss[i]]
             step == [i \in D |-> [x \in S |-> x \o ss[i]]]
  <2>1. rank \in [D -> 0 .. n] /\ goes \in [D -> BOOLEAN] /\ next \in [D -> D]
    BY ONLY <1>1
  <2>2. base \in [D -> S]
    BY <1>1
  <2>3. step \in [D -> [S -> S]]
    <3>1. \A i \in D : \A x \in S : x \o ss[i] \in S
      BY <1>1, ConcatProperties
    <3> HIDE DEF S, D
    <3>2. QED
      BY <3>1
  <2>4. \A i \in D : i # 1 => i - 1 \in D /\ i - 1 < i
    BY ONLY <1>1
  <2>5. \A i \in D : /\ goes[i] <=> i # 1
                     /\ i # 1 => next[i] = i - 1
                     /\ base[i] = ss[i] /\ rank[i] = i
                     /\ \A x \in S : step[i][x] = x \o ss[i]
    <3> HIDE DEF D, S
    <3>1. QED
      OBVIOUS
  <2> HIDE DEF rank, goes, next, base, step, S
  <2>6. Computable(D, S, n, rank, goes, next, base, step)
    <3>1. \A i \in D : goes[i] => rank[next[i]] < rank[i]
      <4> HIDE DEF D
      <4>1. QED
        BY <2>4, <2>5
    <3>2. QED
      BY <1>1, <2>1, <2>2, <2>3, <3>1 DEF Computable
  <2>7. PICK f \in [D -> S] :
          \A i \in D : f[i] = IF goes[i] THEN step[i][f[next[i]]] ELSE base[i]
    <3>1. Computed(D, S, goes, next, base, step)
      BY ONLY <2>6, Recursion
    <3>2. QED
      BY <3>1 DEF Computed
  <2>8. \A i \in D : f[i] = IF i = 1 THEN ss[i] ELSE f[i - 1] \o ss[i]
    <3> SUFFICES ASSUME NEW i \in D
                 PROVE  f[i] = IF i = 1 THEN ss[i] ELSE f[i - 1] \o ss[i]
      OBVIOUS
    <3> HIDE DEF D
    <3>1. CASE i = 1
      <4>1. ~goes[i] /\ base[i] = ss[i]
        BY ONLY <2>5, <3>1, i \in D
      <4>2. f[i] = IF goes[i] THEN step[i][f[next[i]]] ELSE base[i]
        BY ONLY <2>7, i \in D
      <4>3. QED
        BY ONLY <3>1, <4>1, <4>2
    <3>2. CASE i # 1
      <4>1. i - 1 \in D /\ f[i - 1] \in S
        BY <2>4, <3>2
      <4>2. goes[i] /\ next[i] = i - 1
        BY <2>5, <3>2
      <4>3. f[i] = step[i][f[i - 1]]
        BY <2>7, <4>2
      <4>4. QED
        BY <2>5, <3>2, <4>1, <4>3
    <3>3. QED
      BY <3>1, <3>2
  <2>9. QED
    BY <2>8
<1> DEFINE g == CHOOSE f : f = Turn(f)
<1>3. g = Turn(g)
  BY <1>2
<1>4. FlattenSeq(ss) = g[n]
  BY <1>1, FlattenChosen
<1> HIDE DEF g
<1>5. \A i \in D : g[i] = IF i = 1 THEN ss[i] ELSE g[i - 1] \o ss[i]
  BY <1>3
<1>6. \A i \in D : g[i] \in S
  <2> DEFINE T == {k \in Nat : k + 1 <= n => g[k + 1] \in S}
  <2>1. 0 \in T
    BY <1>1, <1>5
  <2>2. ASSUME NEW k \in Nat, k \in T
        PROVE  k + 1 \in T
    <3>1. ASSUME k + 1 + 1 <= n PROVE g[k + 1 + 1] \in S
      <4>1. g[k + 1] \in S /\ k + 1 + 1 \in D /\ k + 1 + 1 # 1 /\ (k + 1 + 1) - 1 = k + 1
        BY <1>1, <2>2, <3>1
      <4>2. g[k + 1 + 1] = g[k + 1] \o ss[k + 1 + 1]
        BY <1>5, <4>1
      <4>3. QED
        BY <1>1, <4>1, <4>2, ConcatProperties
    <3>2. QED
      BY <3>1
  <2>3. \A k \in Nat : k \in T
    <3> HIDE DEF T
    <3>1. QED
      BY <2>1, <2>2, Induction
  <2>4. ASSUME NEW i \in D PROVE g[i] \in S
    <3>1. i - 1 \in Nat /\ (i - 1) + 1 = i /\ i <= n
      BY ONLY <1>1, i \in D
    <3>2. QED
      BY <2>3, <3>1
  <2>5. QED
    BY <2>4
<1>7. g \in [D -> S]
  BY <1>3, <1>6
<1>8. QED
  BY <1>4, <1>5, <1>7

\* Induction over the sequences of a set, one more element at the end.
LEMMA Appending ==
  ASSUME NEW S, NEW T, <<>> \in T,
         \A s \in Seq(S) : \A e \in S : s \in T => Append(s, e) \in T
  PROVE  \A s \in Seq(S) : s \in T
<1> DEFINE N == {n \in Nat : \A s \in Seq(S) : Len(s) = n => s \in T}
<1>1. 0 \in N
  <2>1. \A s \in Seq(S) : Len(s) = 0 => s = <<>>
    BY EmptySeq
  <2>2. QED
    BY <2>1
<1>2. ASSUME NEW n \in Nat, n \in N
      PROVE  n + 1 \in N
  <2>1. ASSUME NEW s \in Seq(S), Len(s) = n + 1
        PROVE  s \in T
    <3>1. s # <<>>
      BY <2>1, EmptySeq
    <3>2. PICK r \in Seq(S), e \in S : s = Append(r, e)
      BY <3>1, SequenceEmptyOrAppend
    <3>3. Len(r) = n
      BY <2>1, <3>2, AppendProperties, LenProperties
    <3>4. r \in T
      BY <1>2, <3>3
    <3>5. QED
      BY <3>2, <3>4
  <2>2. QED
    BY <2>1
<1>3. \A n \in Nat : n \in N
  <2> HIDE DEF N
  <2>1. QED
    BY <1>1, <1>2, Induction
<1>4. QED
  BY <1>3, LenProperties

LEMMA FlattenAppend ==
  ASSUME NEW C, NEW ss \in Seq(Seq(C)), NEW x \in Seq(C)
  PROVE  /\ FlattenSeq(<<>>) = <<>>
         /\ FlattenSeq(ss) \in Seq(C)
         /\ FlattenSeq(Append(ss, x)) = FlattenSeq(ss) \o x
<1> DEFINE more == Append(ss, x)
           n == Len(ss)
<1>1. /\ n \in Nat /\ more \in Seq(Seq(C)) /\ Len(more) = n + 1
      /\ \A i \in 1 .. n : more[i] = ss[i]
      /\ more[n + 1] = x
  BY LenProperties, AppendProperties
<1> HIDE DEF more
<1>2. Len(more) # 0
  BY <1>1
<1>3. FlattenSeq(<<>>) = <<>>
  BY EmptySeq, FlattenChosen
<1>4. PICK g \in [1 .. Len(more) -> Seq(C)] :
        /\ FlattenSeq(more) = g[Len(more)]
        /\ \A i \in 1 .. Len(more) : g[i] = IF i = 1 THEN more[i] ELSE g[i - 1] \o more[i]
  BY <1>1, <1>2, FlattenTurns
<1>5. CASE n = 0
  <2>1. ss = <<>>
    BY <1>5, EmptySeq
  <2>2. FlattenSeq(more) = x
    BY <1>1, <1>4, <1>5
  <2>3. <<>> \o x = x
    BY ConcatEmptySeq
  <2>4. QED
    BY <1>3, <2>1, <2>2, <2>3, EmptySeq DEF more
<1>6. CASE n # 0
  <2>1. PICK f \in [1 .. n -> Seq(C)] :
          /\ FlattenSeq(ss) = f[n]
          /\ \A i \in 1 .. n : f[i] = IF i = 1 THEN ss[i] ELSE f[i - 1] \o ss[i]
    BY <1>6, FlattenTurns
  <2> DEFINE T == {k \in Nat : k + 1 <= n => g[k + 1] = f[k + 1]}
  <2> HIDE DEF n
  <2>2. 0 \in T
    <3>1. 1 \in 1 .. n /\ 1 \in 1 .. Len(more)
      BY <1>1, <1>6
    <3>2. g[1] = f[1]
      BY <1>1, <1>4, <2>1, <3>1
    <3>3. QED
      BY <3>2
  <2>3. ASSUME NEW k \in Nat, k \in T
        PROVE  k + 1 \in T
    <3>1. ASSUME k + 1 + 1 <= n
          PROVE  g[k + 1 + 1] = f[k + 1 + 1]
      <4>1. /\ k + 1 + 1 \in 1 .. n /\ k + 1 + 1 \in 1 .. Len(more) /\ k + 1 + 1 # 1
            /\ (k + 1 + 1) - 1 = k + 1
        BY <1>1, <3>1
      <4>2. g[k + 1] = f[k + 1]
        BY <1>1, <2>3, <3>1
      <4>3. g[k + 1 + 1] = g[k + 1] \o more[k + 1 + 1]
        BY <1>4, <4>1
      <4>4. f[k + 1 + 1] = f[k + 1] \o ss[k + 1 + 1]
        BY <2>1, <4>1
      <4>5. more[k + 1 + 1] = ss[k + 1 + 1]
        BY <1>1, <4>1
      <4>6. QED
        BY <4>2, <4>3, <4>4, <4>5
    <3>2. QED
      BY <3>1
  <2>4. \A k \in Nat : k \in T
    <3> HIDE DEF T
    <3>1. QED
      BY <2>2, <2>3, Induction
  <2>5. g[n] = f[n]
    <3>1. n - 1 \in Nat /\ (n - 1) + 1 = n
      BY <1>1, <1>6
    <3>2. n - 1 \in T
      BY <2>4, <3>1
    <3>3. QED
      BY <3>1, <3>2
  <2>6. g[n + 1] = g[n] \o x
    <3>1. n + 1 \in 1 .. Len(more) /\ n + 1 # 1 /\ (n + 1) - 1 = n
      BY <1>1, <1>6
    <3>2. QED
      BY <1>1, <1>4, <3>1
  <2>7. FlattenSeq(ss) \in Seq(C)
    BY <1>1, <1>6, <2>1
  <2>8. FlattenSeq(more) = FlattenSeq(ss) \o x
    BY <1>1, <1>4, <2>1, <2>5, <2>6
  <2>9. QED
    BY <1>3, <2>7, <2>8 DEF more
<1>7. QED
  BY <1>5, <1>6

\* A list of parameters as written, and one more.
LEMMA SpacedAppend ==
  ASSUME NEW C, NEW b \in C, b = " ", NEW ps \in Seq(Seq(C)), NEW w \in Seq(C)
  PROVE  /\ Spaced(<<>>) = <<>>
         /\ Spaced(ps) \in Seq(C)
         /\ Spaced(Append(ps, w)) = Spaced(ps) \o (<<b>> \o w)
<1> DEFINE Pieces(qs) == [j \in DOMAIN qs |-> <<b>> \o qs[j]]
           n == Len(ps)
<1>1. \A qs : Spaced(qs) = FlattenSeq(Pieces(qs))
  BY Zenon DEF Spaced
<1>2. \A v \in Seq(C) : <<b>> \o v \in Seq(C)
  BY ONLY b \in C, FirstAnd
<1>3. n \in Nat /\ DOMAIN ps = 1 .. n /\ \A j \in 1 .. n : ps[j] \in Seq(C)
  BY ONLY ps \in Seq(Seq(C)), LenProperties, ElementOfSeq
<1>4. Pieces(ps) \in Seq(Seq(C)) /\ Len(Pieces(ps)) = n
  <2>1. \A j \in 1 .. n : <<b>> \o ps[j] \in Seq(C)
    BY ONLY <1>2, <1>3
  <2> HIDE DEF n
  <2>2. QED
    BY ONLY <1>3, <2>1
<1>5. Pieces(Append(ps, w)) = Append(Pieces(ps), <<b>> \o w)
  <2> DEFINE more == Append(ps, w)
             long == Append(Pieces(ps), <<b>> \o w)
  <2>1. /\ more \in Seq(Seq(C)) /\ Len(more) = n + 1 /\ more[n + 1] = w
        /\ \A j \in 1 .. n : more[j] = ps[j]
    BY ONLY ps \in Seq(Seq(C)), w \in Seq(C), AppendProperties
  <2>2. DOMAIN more = 1 .. n + 1
    BY ONLY <2>1, LenProperties
  <2>3. /\ long \in Seq(Seq(C)) /\ Len(long) = n + 1 /\ long[n + 1] = <<b>> \o w
        /\ \A j \in 1 .. n : long[j] = Pieces(ps)[j]
    <3>1. <<b>> \o w \in Seq(C)
      BY ONLY <1>2, w \in Seq(C)
    <3> HIDE DEF Pieces
    <3>2. QED
      BY ONLY <1>4, <3>1, AppendProperties
  <2>4. DOMAIN long = 1 .. n + 1 /\ long = [j \in 1 .. n + 1 |-> long[j]]
    BY ONLY <2>3, LenProperties
  <2> HIDE DEF more, long, n
  <2>5. ASSUME NEW j \in 1 .. n + 1
        PROVE  long[j] = <<b>> \o more[j]
    <3>1. j \in 1 .. n \/ j = n + 1
      BY ONLY <1>3, j \in 1 .. n + 1
    <3>2. QED
      BY ONLY <1>3, <2>1, <2>3, <3>1
  <2>6. Pieces(more) = [j \in 1 .. n + 1 |-> <<b>> \o more[j]]
    BY ONLY <2>2
  <2>7. QED
    BY ONLY <2>4, <2>5, <2>6 DEF more, long
<1>6. Pieces(<<>>) = <<>>
  <2>1. DOMAIN <<>> = 1 .. 0
    BY ONLY EmptySeq, LenProperties
  <2>2. \A f : [j \in 1 .. 0 |-> <<b>> \o f[j]] = <<>>
    BY ONLY TRUE
  <2>3. QED
    BY ONLY <2>1, <2>2, Zenon DEF Pieces
<1> HIDE DEF Pieces
<1>7. /\ FlattenSeq(<<>>) = <<>> /\ FlattenSeq(Pieces(ps)) \in Seq(C)
      /\ FlattenSeq(Append(Pieces(ps), <<b>> \o w)) = FlattenSeq(Pieces(ps)) \o (<<b>> \o w)
  BY ONLY <1>2, <1>4, w \in Seq(C), FlattenAppend
<1>8. QED
  BY ONLY <1>1, <1>5, <1>6, <1>7

\* Induction over the positions of a text, from its end to its beginning.
LEMMA Backwards ==
  ASSUME NEW n \in Nat, NEW T,
         \A d \in 1 .. n + 1 : (\A e \in 1 .. n + 1 : d < e => e \in T) => d \in T
  PROVE  \A d \in 1 .. n + 1 : d \in T
<1> DEFINE N == {k \in Nat : \A d \in 1 .. n + 1 : n + 1 - d <= k => d \in T}
<1>1. 0 \in N
  <2>1. ASSUME NEW d \in 1 .. n + 1, n + 1 - d <= 0
        PROVE  d \in T
    <3>1. \A e \in 1 .. n + 1 : ~(d < e)
      BY ONLY <2>1, n \in Nat, d \in 1 .. n + 1
    <3>2. QED
      BY <3>1
  <2>2. QED
    BY <2>1
<1>2. ASSUME NEW k \in Nat, k \in N
      PROVE  k + 1 \in N
  <2>1. ASSUME NEW d \in 1 .. n + 1, n + 1 - d <= k + 1
        PROVE  d \in T
    <3>1. \A e \in 1 .. n + 1 : d < e => n + 1 - e <= k
      BY ONLY <2>1, n \in Nat, d \in 1 .. n + 1, k \in Nat
    <3>2. \A e \in 1 .. n + 1 : d < e => e \in T
      BY <1>2, <3>1
    <3>3. QED
      BY <3>2
  <2>2. QED
    BY <2>1
<1>3. n + 1 \in N
  <2>1. n + 1 \in Nat
    OBVIOUS
  <2> HIDE DEF N
  <2>2. QED
    BY <1>1, <1>2, <2>1, Induction
<1>4. \A d \in 1 .. n + 1 : n + 1 - d <= n + 1
  OBVIOUS
<1>5. QED
  BY <1>3, <1>4

\* A token is a word, unless it begins with a colon.
LEMMA TokenWord ==
  ASSUME NEW C, NEW s \in Seq(C), NEW q \in 1 .. Len(s) + 1,
         skipSpaces(s, q) <= Len(s), s[skipSpaces(s, q)] # ":"
  PROVE  Word(SubSeq(s, skipSpaces(s, q), tokenEnd(s, skipSpaces(s, q)) - 1))
<1> DEFINE start == skipSpaces(s, q)
           end == tokenEnd(s, start)
           w == SubSeq(s, start, end - 1)
<1>1. /\ start \in q .. Len(s) /\ end \in start + 1 .. Len(s) + 1
      /\ \A r \in start .. end - 1 : s[r] # " "
  BY TokenAt
<1>2. s[start] # ":"
  OBVIOUS
<1> HIDE DEF start, end
<1>3. Len(s) \in Nat
  BY ONLY s \in Seq(C), LenProperties
<1>4. start \in q .. Len(s) /\ end \in start + 1 .. Len(s) + 1
  BY <1>1
<1>5. start \in Nat /\ end \in Nat /\ start < end
  BY ONLY <1>3, <1>4, q \in 1 .. Len(s) + 1
<1>6. w = [i \in 1 .. end - start |-> s[start + i - 1]]
  <2>1. (IF start <= (end - 1) + 1 THEN (end - 1) - start + 1 ELSE 0) = end - start
    BY ONLY <1>5
  <2>2. QED
    BY ONLY <1>5, <2>1
<1> HIDE DEF w
<1>7. \A i \in 1 .. end - start : start + i - 1 \in start .. end - 1
  BY ONLY <1>5
<1>8. \A i \in 1 .. end - start : w[i] # " "
  BY <1>1, <1>6, <1>7
<1>9. DOMAIN w = 1 .. end - start /\ 1 \in 1 .. end - start /\ start + 1 - 1 = start
  BY ONLY <1>5, <1>6
<1>10. w[1] # ":"
  BY ONLY <1>2, <1>6, <1>9
<1>11. w # <<>>
  <2>1. DOMAIN <<>> = 1 .. 0
    BY ONLY EmptySeq, LenProperties
  <2>2. 1 \notin 1 .. 0 /\ 1 \in DOMAIN w
    BY ONLY <1>9
  <2>3. QED
    BY ONLY <2>1, <2>2
<1>12. " " \notin Range(w)
  BY ONLY <1>8, <1>9 DEF Range
<1>13. QED
  BY ONLY <1>10, <1>11, <1>12 DEF Word, w, start, end

\* All parameters but the last are words.
LEMMA ParametersShape ==
  ASSUME NEW C, NEW s \in Seq(C), NEW q \in 1 .. Len(s) + 1
  PROVE  /\ parameters(s, q) \in Seq(Seq(C))
         /\ \A j \in 1 .. Len(parameters(s, q)) - 1 : Word(parameters(s, q)[j])
<1> DEFINE n == Len(s)
           Shaped(ps) == ps \in Seq(Seq(C)) /\ \A j \in 1 .. Len(ps) - 1 : Word(ps[j])
           T == {d \in 1 .. n + 1 : Shaped(parameters(s, d))}
<1>1. n \in Nat
  BY LenProperties
<1>2. ASSUME NEW d \in 1 .. n + 1, \A e \in 1 .. n + 1 : d < e => e \in T
      PROVE  Shaped(parameters(s, d))
  <2> DEFINE start == skipSpaces(s, d)
             end == tokenEnd(s, start)
             w == SubSeq(s, start, end - 1)
             t == SubSeq(s, start + 1, n)
  <2>1. parameters(s, d) = IF start > n THEN <<>>
                           ELSE IF s[start] = ":" THEN <<t>>
                           ELSE <<w>> \o parameters(s, end)
    BY ParametersStep
  <2>2. start \in d .. n + 1
    BY SkipIs
  <2>3. start <= n => /\ start \in d .. n /\ end \in start + 1 .. n + 1
                      /\ w \in Seq(C) /\ t \in Seq(C)
                      /\ s[start] # ":" => Word(w)
    BY TokenAt, TokenWord
  <2> HIDE DEF start, end, w, t
  <2>4. d \in Nat /\ d >= 1 /\ start \in Nat /\ (start > n <=> ~(start <= n))
    BY ONLY <1>1, <2>2, d \in 1 .. n + 1
  <2>5. CASE start > n
    <3>1. Len(<<>>) = 0 /\ <<>> \in Seq(Seq(C))
      BY EmptySeq
    <3>2. QED
      BY <2>1, <2>5, <3>1
  <2>6. CASE start <= n /\ s[start] = ":"
    <3>1. t \in Seq(C)
      BY <2>3, <2>6
    <3>2. <<t>> \in Seq(Seq(C)) /\ Len(<<t>>) = 1
      BY ONLY <3>1
    <3>3. parameters(s, d) = <<t>>
      BY <2>1, <2>4, <2>6
    <3>4. QED
      BY ONLY <3>2, <3>3
  <2>7. CASE start <= n /\ s[start] # ":"
    <3> DEFINE r == parameters(s, end)
    <3>1. w \in Seq(C) /\ Word(w) /\ parameters(s, d) = <<w>> \o r
      BY <2>1, <2>3, <2>4, <2>7
    <3>2. end \in 1 .. n + 1 /\ d < end
      <4>1. start \in d .. n /\ end \in start + 1 .. n + 1
        BY <2>3, <2>7
      <4>2. QED
        BY ONLY <1>1, <2>4, <4>1
    <3>3. Shaped(r)
      BY <1>2, <3>2
    <3> HIDE DEF r
    <3> DEFINE x == <<w>> \o r
    <3>4. /\ x \in Seq(Seq(C)) /\ Len(r) \in Nat /\ Len(x) = Len(r) + 1
          /\ x[1] = w
          /\ \A i \in 1 .. Len(r) : x[i + 1] = r[i]
      BY <3>1, <3>3, FirstAnd
    <3> HIDE DEF x
    <3>5. ASSUME NEW j \in 1 .. Len(x) - 1
          PROVE  Word(x[j])
      <4>1. j = 1 \/ (j - 1 \in 1 .. Len(r) - 1 /\ j - 1 \in 1 .. Len(r) /\ (j - 1) + 1 = j)
        <5>1. Len(r) \in Nat /\ Len(x) = Len(r) + 1
          BY <3>4
        <5>2. QED
          BY ONLY <5>1, j \in 1 .. Len(x) - 1
      <4>2. CASE j = 1
        BY ONLY <3>1, <3>4, <4>2
      <4>3. CASE j - 1 \in 1 .. Len(r) - 1 /\ j - 1 \in 1 .. Len(r) /\ (j - 1) + 1 = j
        <5>1. x[j] = r[j - 1]
          BY ONLY <3>4, <4>3
        <5>2. Word(r[j - 1])
          BY <3>3, <4>3
        <5>3. QED
          BY ONLY <5>1, <5>2
      <4>4. QED
        BY ONLY <4>1, <4>2, <4>3
    <3>6. QED
      BY <3>1, <3>4, <3>5 DEF x
  <2>8. QED
    BY <2>4, <2>5, <2>6, <2>7
<1>3. \A d \in 1 .. n + 1 : (\A e \in 1 .. n + 1 : d < e => e \in T) => d \in T
  BY <1>2
<1>4. \A d \in 1 .. n + 1 : d \in T
  <2> HIDE DEF T
  <2>1. QED
    BY <1>1, <1>3, Backwards
<1>5. QED
  BY <1>4

\* Words, each behind a space, are read one by one; what follows them is read next.
Reads(u, ws, t) ==
  LET v == u \o Spaced(ws)
  IN parameters(v \o t, Len(u) + 1) = ws \o parameters(v \o t, Len(v) + 1)
AllWords(ws) == \A j \in 1 .. Len(ws) : Word(ws[j])
Behind(t) == t = <<>> \/ t[1] = " "

LEMMA BehindIs ==
  ASSUME NEW C, NEW b \in C, b = " ", NEW w \in Seq(C), NEW t \in Seq(C)
  PROVE  (<<b>> \o w) \o t \in Seq(C) /\ Behind((<<b>> \o w) \o t)
<1> DEFINE x == <<b>> \o w
<1>1. x \in Seq(C) /\ Len(x) = Len(w) + 1 /\ x[1] = b /\ Len(w) \in Nat
  BY ONLY b \in C, w \in Seq(C), FirstAnd
<1> HIDE DEF x
<1>2. Len(x) \in Nat /\ Len(x) >= 1
  <2>1. Len(x) = Len(w) + 1 /\ Len(w) \in Nat
    BY <1>1
  <2>2. QED
    BY ONLY <2>1
<1>3. /\ x \o t \in Seq(C)
      /\ \A i \in 1 .. Len(x) + Len(t) : (x \o t)[i] = IF i <= Len(x) THEN x[i] ELSE t[i - Len(x)]
  BY ONLY <1>1, t \in Seq(C), ConcatProperties
<1>4. Len(t) \in Nat
  BY ONLY t \in Seq(C), LenProperties
<1>5. 1 \in 1 .. Len(x) + Len(t) /\ 1 <= Len(x)
  BY ONLY <1>2, <1>4
<1>6. (x \o t)[1] = b
  BY ONLY <1>1, <1>3, <1>5
<1>7. QED
  BY <1>3, <1>6 DEF Behind, x

\* One more parameter is written behind the others, and read behind them.
Longer(b, u, ps, w) == u \o Spaced(Append(ps, w)) = (u \o Spaced(ps)) \o (<<b>> \o w)
OneMore(C, b, v, w, t) ==
  LET x == <<b>> \o w
      p == parameters((v \o x) \o t, Len(v \o x) + 1)
  IN /\ v \o (x \o t) = (v \o x) \o t
     /\ parameters((v \o x) \o t, Len(v) + 1) = <<w>> \o p
     /\ p \in Seq(Seq(C))

LEMMA SpacedMore ==
  ASSUME NEW C, NEW b \in C, b = " ", NEW u \in Seq(C), NEW ps, ps \in Seq(Seq(C)),
         NEW w, w \in Seq(C)
  PROVE  Longer(b, u, ps, w)
<1>1. Spaced(ps) \in Seq(C) /\ Spaced(Append(ps, w)) = Spaced(ps) \o (<<b>> \o w)
  BY SpacedAppend
<1>2. <<b>> \o w \in Seq(C)
  BY ONLY b \in C, w \in Seq(C), FirstAnd
<1> DEFINE x == <<b>> \o w
           y == Spaced(ps)
<1> HIDE DEF x, y
<1>3. u \o (y \o x) = (u \o y) \o x
  BY ONLY <1>1, <1>2, u \in Seq(C), Regroup, SMTT(30) DEF x, y
<1>4. QED
  BY ONLY <1>1, <1>3 DEF x, y, Longer

LEMMA ReadOneMore ==
  ASSUME NEW C, NEW b \in C, b = " ", NEW v \in Seq(C), NEW w \in Seq(C), Word(w),
         NEW t \in Seq(C), Behind(t)
  PROVE  OneMore(C, b, v, w, t)
<1> DEFINE x == <<b>> \o w
           wire == (v \o x) \o t
           p == parameters(wire, Len(v \o x) + 1)
<1>1. x \in Seq(C)
  BY FirstAnd
<1>2. parameters(wire, Len(v) + 1) = <<w>> \o p
  <2>1. " " \in C /\ x = <<" ">> \o w
    OBVIOUS
  <2>2. t = <<>> \/ t[1] = " "
    BY DEF Behind
  <2>3. v \in Seq(C) /\ w \in Seq(C) /\ t \in Seq(C) /\ Word(w)
    OBVIOUS
  <2>4. LET z == v \o (<<" ">> \o w)
        IN parameters(z \o t, Len(v) + 1) = <<w>> \o parameters(z \o t, Len(z) + 1)
    BY ONLY <2>1, <2>2, <2>3, ReadWord
  <2>5. QED
    BY ONLY <2>1, <2>4
<1> HIDE DEF x
<1>3. v \o (x \o t) = wire
  BY ONLY v \in Seq(C), <1>1, t \in Seq(C), Regroup
<1>4. /\ wire \in Seq(C) /\ Len(wire) = Len(v) + Len(x) + Len(t)
      /\ Len(v) \in Nat /\ Len(x) \in Nat /\ Len(t) \in Nat
      /\ Len(v \o x) = Len(v) + Len(x)
  BY ONLY v \in Seq(C), <1>1, t \in Seq(C), PiecesAre
<1>5. Len(v \o x) + 1 \in 1 .. Len(wire) + 1
  BY ONLY <1>4
<1>6. p \in Seq(Seq(C))
  <2> HIDE DEF wire
  <2>1. QED
    BY ONLY <1>4, <1>5, ParametersShape
<1>7. QED
  BY <1>3, <1>2, <1>6 DEF OneMore, x

LEMMA ReadWords ==
  ASSUME NEW C, NEW b \in C, b = " ", NEW u \in Seq(C), NEW ws, ws \in Seq(Seq(C)),
         AllWords(ws), NEW t, t \in Seq(C), Behind(t)
  PROVE  Reads(u, ws, t)
<1> DEFINE S == Seq(C)
           T == {vs \in Seq(S) : AllWords(vs) => \A r \in S : Behind(r) => Reads(u, vs, r)}
<1>1. <<>> \in T
  <2>1. Spaced(<<>>) = <<>>
    BY SpacedAppend, EmptySeq
  <2>2. u \o <<>> = u
    BY ConcatEmptySeq
  <2>3. ASSUME NEW r \in S
        PROVE  Reads(u, <<>>, r)
    <3> DEFINE wire == u \o r
               p == parameters(wire, Len(u) + 1)
    <3>1. wire \in S /\ Len(wire) = Len(u) + Len(r) /\ Len(u) \in Nat /\ Len(r) \in Nat
      BY ConcatProperties, LenProperties
    <3> HIDE DEF wire
    <3>2. Len(u) + 1 \in 1 .. Len(wire) + 1
      BY ONLY <3>1
    <3>3. p \in Seq(S)
      BY <3>1, <3>2, ParametersShape
    <3> HIDE DEF p, S
    <3>4. <<>> \o p = p
      BY ONLY <3>3, ConcatEmptySeq
    <3>5. QED
      BY ONLY <2>1, <2>2, <3>4 DEF Reads, wire, p
  <2>4. <<>> \in Seq(S)
    BY EmptySeq
  <2>5. QED
    BY <2>3, <2>4
<1>2. ASSUME NEW vs, vs \in Seq(S), NEW w, w \in S, vs \in T
      PROVE  Append(vs, w) \in T
  <2> DEFINE more == Append(vs, w)
  <2>1. /\ more \in Seq(S) /\ Len(more) = Len(vs) + 1 /\ Len(vs) \in Nat
        /\ \A j \in 1 .. Len(vs) : more[j] = vs[j]
        /\ more[Len(vs) + 1] = w
        /\ more = vs \o <<w>>
    BY ONLY <1>2, AppendProperties, AppendIsConcat, LenProperties
  <2> DEFINE x == <<b>> \o w
             v == u \o Spaced(vs)
  <2>2. vs \in Seq(S) /\ w \in S
    BY <1>2
  <2>3. Spaced(vs) \in S /\ Spaced(more) = Spaced(vs) \o x
    BY <2>2, SpacedAppend
  <2>4. v \in S
    BY <2>3, ConcatProperties
  <2>5. x \in S
    BY <2>2, FirstAnd
  <2>6. u \o Spaced(more) = v \o x
    <3>1. Longer(b, u, vs, w)
      BY <2>2, SpacedMore
    <3>2. QED
      BY ONLY <3>1 DEF Longer
  <2> HIDE DEF more
  <2>7. ASSUME AllWords(more), NEW r, r \in S, Behind(r)
        PROVE  Reads(u, more, r)
    <3>1. AllWords(vs) /\ Word(w)
      <4>1. Len(more) = Len(vs) + 1 /\ Len(vs) \in Nat
        BY <2>1
      <4>2. \A j \in 1 .. Len(vs) : j \in 1 .. Len(more)
        BY ONLY <4>1
      <4>3. Len(vs) + 1 \in 1 .. Len(more)
        BY ONLY <4>1
      <4>4. QED
        BY <2>1, <2>7, <4>2, <4>3 DEF AllWords
    <3>2. x \o r \in S /\ Behind(x \o r)
      BY <2>2, <2>7, BehindIs
    <3>3. Reads(u, vs, x \o r)
      BY <1>2, <3>1, <3>2
    <3> DEFINE wire == (v \o x) \o r
               p == parameters(wire, Len(v \o x) + 1)
    <3> HIDE DEF x
    <3>4. u \o Spaced(more) = v \o x
      BY <2>6 DEF more
    <3>5. OneMore(C, b, v, w, r)
      <4> HIDE DEF v
      <4>1. QED
        BY <2>2, <2>4, <2>7, <3>1, ReadOneMore
    <3>6. x = <<b>> \o w
      BY DEF x
    <3>7. /\ v \o (x \o r) = wire
          /\ parameters(wire, Len(v) + 1) = <<w>> \o p
          /\ p \in Seq(S)
      <4> HIDE DEF v
      <4>1. QED
        BY ONLY <3>5, <3>6 DEF OneMore
    <3> HIDE DEF v, wire, p
    <3>8. parameters(wire, Len(u) + 1) = vs \o (<<w>> \o p)
      BY <3>3, <3>7 DEF Reads, v
    <3>9. vs \o (<<w>> \o p) = (vs \o <<w>>) \o p
      <4> HIDE DEF S
      <4>1. <<w>> \in Seq(S)
        BY ONLY <2>2, SingleIs
      <4>2. QED
        BY ONLY <2>2, <3>7, <4>1, Regroup, SMTT(60)
    <3>10. parameters(wire, Len(u) + 1) = more \o p
      BY <2>1, <3>8, <3>9
    <3>11. QED
      BY <3>4, <3>10 DEF Reads, wire, p
  <2>8. QED
    BY <2>1, <2>7 DEF more
<1>3. \A vs \in Seq(S) : vs \in T
  <2> HIDE DEF T, S
  <2>1. QED
    BY <1>1, <1>2, Appending
<1>4. QED
  BY <1>3

\* The characters that the server writes itself.
Marks == {" ", ":", "B"}

LEMMA HeaderIs ==
  ASSUME NEW C, Marks \subseteq C
  PROVE  /\ Header \in Seq(C) /\ Len(Header) = 4
         /\ Header[1] # " " /\ Header[2] # " " /\ Header[3] = " " /\ Header[4] # " "
<1>1. ":" \in C /\ "B" \in C /\ " " \in C
  BY DEF Marks
<1>2. \A a, b, c, d \in C : <<a, b, c, d>> \in Seq(C)
  BY ONLY TRUE
<1>3. Header \in Seq(C)
  BY ONLY <1>1, <1>2, Zenon DEF Header
<1>4. Len(Header) = 4
  BY DEF Header
<1>5. Header[1] # " " /\ Header[2] # " " /\ Header[3] = " " /\ Header[4] # " "
  BY DEF Header
<1>6. QED
  BY <1>3, <1>4, <1>5

\* A client drops the prefix and the command.
LEMMA ClientDrops ==
  ASSUME NEW C, Marks \subseteq C, NEW y \in Seq(C), y # <<>>, y[1] = " "
  PROVE  ClientReads(Header \o y) = parameters(Header \o y, Len(Header) + 1)
<1> DEFINE s == Header \o y
<1>1. /\ Header \in Seq(C) /\ Len(Header) = 4
      /\ Header[1] # " " /\ Header[2] # " " /\ Header[3] = " " /\ Header[4] # " "
  BY HeaderIs
<1>2. Len(y) \in Nat /\ Len(y) # 0
  BY ONLY y \in Seq(C), y # <<>>, EmptySeq
<1>3. /\ s \in Seq(C) /\ Len(s) = Len(Header) + Len(y)
      /\ \A i \in 1 .. Len(Header) + Len(y) :
           s[i] = IF i <= Len(Header) THEN Header[i] ELSE y[i - Len(Header)]
  BY ONLY <1>1, y \in Seq(C), ConcatProperties
<1> HIDE DEF s
<1>4. Len(s) = 4 + Len(y)
  BY ONLY <1>1, <1>3
<1>5. /\ 1 \in 1 .. 4 + Len(y) /\ 2 \in 1 .. 4 + Len(y) /\ 3 \in 1 .. 4 + Len(y)
      /\ 4 \in 1 .. 4 + Len(y) /\ 5 \in 1 .. 4 + Len(y)
      /\ 1 <= 4 /\ 2 <= 4 /\ 3 <= 4 /\ 4 <= 4 /\ ~(5 <= 4) /\ 5 - 4 = 1
  BY ONLY <1>2
<1>6. /\ s[1] = Header[1] /\ s[2] = Header[2] /\ s[3] = Header[3] /\ s[4] = Header[4]
      /\ s[5] = y[1]
  <2>1. Len(Header) = 4
    BY <1>1
  <2>2. \A i \in 1 .. 4 + Len(y) : s[i] = IF i <= 4 THEN Header[i] ELSE y[i - 4]
    BY ONLY <1>3, <2>1
  <2>3. QED
    BY ONLY <1>5, <2>2
<1>7. s[1] # " " /\ s[2] # " " /\ s[3] = " " /\ s[4] # " " /\ s[5] = " "
  BY <1>1, <1>6
<1>8. 1 \in 1 .. Len(s) + 1 /\ 3 \in 1 .. Len(s) + 1 /\ 4 \in 1 .. Len(s) + 1
  BY ONLY <1>2, <1>4
<1>9. tokenEnd(s, 1) = 3
  <2> DEFINE q == tokenEnd(s, 1)
  <2>1. q \in 1 .. Len(s) + 1
    BY <1>3, <1>8, TokenIs
  <2>2. (\A r \in 1 .. q - 1 : s[r] # " ") /\ (q <= Len(s) => s[q] = " ")
    BY <1>3, <1>8, TokenIs
  <2> HIDE DEF q
  <2>3. 3 < q => 3 \in 1 .. q - 1
    BY ONLY <1>2, <1>4, <2>1
  <2>4. q < 3 => q <= Len(s) /\ (q = 1 \/ q = 2)
    BY ONLY <1>2, <1>4, <2>1
  <2>5. ~(3 < q) /\ ~(q < 3)
    BY <1>7, <2>2, <2>3, <2>4
  <2>6. QED
    BY ONLY <1>2, <1>4, <2>1, <2>5 DEF q
<1>10. skipSpaces(s, 3) = 4
  <2> DEFINE q == skipSpaces(s, 3)
  <2>1. q \in 3 .. Len(s) + 1
    BY <1>3, <1>8, SkipIs
  <2>2. (\A r \in 3 .. q - 1 : s[r] = " ") /\ (q <= Len(s) => s[q] # " ")
    BY <1>3, <1>8, SkipIs
  <2> HIDE DEF q
  <2>3. 4 < q => 4 \in 3 .. q - 1
    BY ONLY <1>2, <1>4, <2>1
  <2>4. q < 4 => q <= Len(s) /\ (q = 3)
    BY ONLY <1>2, <1>4, <2>1
  <2>5. ~(4 < q) /\ ~(q < 4)
    BY <1>7, <2>2, <2>3, <2>4
  <2>6. QED
    BY ONLY <1>2, <1>4, <2>1, <2>5 DEF q
<1>11. tokenEnd(s, 4) = 5
  <2> DEFINE q == tokenEnd(s, 4)
  <2>1. q \in 4 .. Len(s) + 1
    BY <1>3, <1>8, TokenIs
  <2>2. (\A r \in 4 .. q - 1 : s[r] # " ") /\ (q <= Len(s) => s[q] = " ")
    BY <1>3, <1>8, TokenIs
  <2> HIDE DEF q
  <2>3. 5 < q => 5 \in 4 .. q - 1
    BY ONLY <1>2, <1>4, <2>1
  <2>4. q < 5 => q <= Len(s) /\ (q = 4)
    BY ONLY <1>2, <1>4, <2>1
  <2>5. ~(5 < q) /\ ~(q < 5)
    BY <1>7, <2>2, <2>3, <2>4
  <2>6. QED
    BY ONLY <1>2, <1>4, <2>1, <2>5 DEF q
<1>12. Len(Header) + 1 = 5
  <2>1. Len(Header) = 4
    BY <1>1
  <2>2. QED
    BY ONLY <2>1
<1>13. QED
  BY ONLY <1>9, <1>10, <1>11, <1>12 DEF ClientReads, s

LEMMA BehindConcat ==
  ASSUME NEW C, NEW x \in Seq(C), NEW y \in Seq(C), Behind(x), Behind(y)
  PROVE  /\ x \o y \in Seq(C) /\ Behind(x \o y)
         /\ x # <<>> \/ y # <<>> => x \o y # <<>>
<1>1. CASE x = <<>>
  <2>1. <<>> \o y = y
    BY ONLY y \in Seq(C), ConcatEmptySeq
  <2>2. QED
    BY <1>1, <2>1
<1>2. CASE x # <<>>
  <2>1. Len(x) \in Nat /\ Len(x) # 0 /\ Len(y) \in Nat
    BY ONLY <1>2, x \in Seq(C), y \in Seq(C), EmptySeq, LenProperties
  <2>2. /\ x \o y \in Seq(C) /\ Len(x \o y) = Len(x) + Len(y)
        /\ \A i \in 1 .. Len(x) + Len(y) :
             (x \o y)[i] = IF i <= Len(x) THEN x[i] ELSE y[i - Len(x)]
    BY ONLY x \in Seq(C), y \in Seq(C), ConcatProperties
  <2>3. 1 \in 1 .. Len(x) + Len(y) /\ 1 <= Len(x) /\ Len(x) + Len(y) # 0
    BY ONLY <2>1
  <2>4. (x \o y)[1] = x[1]
    BY ONLY <2>2, <2>3
  <2>5. x[1] = " "
    BY <1>2 DEF Behind
  <2>6. x \o y # <<>>
    <3>1. Len(x \o y) # 0
      BY ONLY <2>2, <2>3
    <3>2. QED
      BY ONLY <3>1, EmptySeq
  <2>7. QED
    BY <2>2, <2>4, <2>5, <2>6 DEF Behind
<1>3. QED
  BY <1>1, <1>2

\* Parameters as written begin with a space.
LEMMA SpacedBehind ==
  ASSUME NEW C, NEW b \in C, b = " ", NEW ws \in Seq(Seq(C))
  PROVE  /\ Spaced(ws) \in Seq(C) /\ Behind(Spaced(ws))
         /\ ws # <<>> => Spaced(ws) # <<>>
<1> DEFINE S == Seq(C)
           T == {vs \in Seq(S) : /\ Spaced(vs) \in S /\ Behind(Spaced(vs))
                                 /\ vs # <<>> => Spaced(vs) # <<>>}
<1>1. <<>> \in T
  <2>1. Spaced(<<>>) = <<>> /\ Spaced(<<>>) \in S
    BY SpacedAppend, EmptySeq
  <2>2. <<>> \in Seq(S)
    BY ONLY EmptySeq
  <2>3. QED
    BY <2>1, <2>2 DEF Behind
<1>2. ASSUME NEW vs, vs \in Seq(S), NEW w, w \in S, vs \in T
      PROVE  Append(vs, w) \in T
  <2> DEFINE x == <<b>> \o w
  <2>1. Spaced(Append(vs, w)) = Spaced(vs) \o x
    BY <1>2, SpacedAppend
  <2>2. x \in S /\ Behind(x) /\ x # <<>>
    <3>1. x \in S /\ Len(x) = Len(w) + 1 /\ x[1] = b /\ Len(w) \in Nat
      BY <1>2, FirstAnd
    <3> HIDE DEF x
    <3>2. Len(w) \in Nat /\ Len(x) = Len(w) + 1
      BY <3>1
    <3>3. Len(x) # 0
      BY ONLY <3>2
    <3>4. x # <<>>
      BY ONLY <3>3, EmptySeq
    <3>5. QED
      BY <3>1, <3>4 DEF Behind
  <2>3. Append(vs, w) \in Seq(S)
    BY ONLY <1>2, AppendProperties
  <2>4. Spaced(vs) \in S /\ Behind(Spaced(vs))
    BY <1>2
  <2> DEFINE y == Spaced(vs)
  <2> HIDE DEF x, y
  <2>5. y \o x \in S /\ Behind(y \o x) /\ y \o x # <<>>
    BY ONLY <2>2, <2>4, BehindConcat DEF y
  <2>6. QED
    BY <2>1, <2>3, <2>5 DEF y
<1>3. \A vs \in Seq(S) : vs \in T
  <2> HIDE DEF T, S
  <2>1. QED
    BY <1>1, <1>2, Appending
<1>4. QED
  BY <1>3

\* A line with a colon before its last parameter is read back as it was written.
LEMMA RelayRead ==
  ASSUME NEW C, Marks \subseteq C, NEW ws, ws \in Seq(Seq(C)), AllWords(ws),
         NEW t, t \in Seq(C)
  PROVE  ClientReads(((Header \o Spaced(ws)) \o <<" ", ":">>) \o t) = ws \o <<t>>
<1> DEFINE m == <<" ", ":">>
           sp == Spaced(ws)
           v == Header \o sp
           w == m \o t
<1>1. PICK b \in C : b = " "
  BY DEF Marks
<1>2. " " \in C /\ ":" \in C
  BY DEF Marks
<1>3. sp \in Seq(C) /\ Behind(sp)
  BY <1>1, SpacedBehind
<1>4. m \in Seq(C)
  <2>1. \A x, y \in C : <<x, y>> \in Seq(C)
    BY PairIs
  <2>2. QED
    BY ONLY <1>2, <2>1, Zenon
<1>5. Behind(m) /\ m # <<>>
  <2>1. m[1] = " "
    OBVIOUS
  <2>2. QED
    BY <2>1 DEF Behind
<1>6. Header \in Seq(C)
  BY HeaderIs
<1>7. parameters((v \o m) \o t, Len(v) + 1) = <<t>>
  <2>1. v \in Seq(C)
    BY ONLY <1>3, <1>6, ConcatProperties
  <2> HIDE DEF v
  <2>2. QED
    BY <1>2, <2>1, ReadTrailing
<1> HIDE DEF m, sp
<1>8. w \in Seq(C) /\ Behind(w) /\ w # <<>>
  <2>1. w \in Seq(C) /\ w[1] = m[1]
    <3>1. Len(m) \in Nat /\ Len(m) # 0 /\ Len(t) \in Nat
      BY ONLY <1>4, <1>5, t \in Seq(C), EmptySeq, LenProperties
    <3>2. /\ w \in Seq(C)
          /\ \A i \in 1 .. Len(m) + Len(t) : w[i] = IF i <= Len(m) THEN m[i] ELSE t[i - Len(m)]
      BY ONLY <1>4, t \in Seq(C), ConcatProperties
    <3>3. 1 \in 1 .. Len(m) + Len(t) /\ 1 <= Len(m)
      BY ONLY <3>1
    <3>4. QED
      BY ONLY <3>2, <3>3
  <2>2. w[1] = " "
    BY <1>5, <2>1 DEF Behind
  <2>3. w # <<>>
    <3>1. Len(m) \in Nat /\ Len(m) # 0 /\ Len(t) \in Nat /\ Len(w) = Len(m) + Len(t)
      BY ONLY <1>4, <1>5, t \in Seq(C), EmptySeq, LenProperties, ConcatProperties
    <3>2. Len(w) # 0
      BY ONLY <3>1
    <3>3. QED
      BY ONLY <3>2, EmptySeq
  <2>4. QED
    BY <2>1, <2>2, <2>3 DEF Behind
<1> HIDE DEF w
<1>9. sp \o w \in Seq(C) /\ sp \o w # <<>> /\ (sp \o w)[1] = " "
  <2>1. sp \o w \in Seq(C) /\ Behind(sp \o w) /\ sp \o w # <<>>
    BY ONLY <1>3, <1>8, BehindConcat
  <2>2. QED
    BY <2>1 DEF Behind
<1>10. Header \o (sp \o w) = v \o w
  BY ONLY <1>3, <1>6, <1>8, Regroup
<1>11. v \o w = (v \o m) \o t
  <2>1. v \in Seq(C)
    BY ONLY <1>3, <1>6, ConcatProperties
  <2> HIDE DEF v
  <2>2. v \o (m \o t) = (v \o m) \o t
    BY ONLY <1>4, <2>1, t \in Seq(C), Regroup
  <2>3. QED
    BY ONLY <2>2 DEF w
<1>12. ClientReads(Header \o (sp \o w)) = parameters(Header \o (sp \o w), Len(Header) + 1)
  <2> DEFINE y == sp \o w
  <2> HIDE DEF y
  <2>1. y \in Seq(C) /\ y # <<>> /\ y[1] = " "
    BY <1>9 DEF y
  <2>2. ClientReads(Header \o y) = parameters(Header \o y, Len(Header) + 1)
    BY <2>1, ClientDrops
  <2>3. QED
    BY <2>2 DEF y
<1>13. Reads(Header, ws, w)
  BY <1>1, <1>6, <1>8, ReadWords
<1>14. parameters(v \o w, Len(Header) + 1) = ws \o parameters(v \o w, Len(v) + 1)
  BY ONLY <1>13 DEF Reads, sp
<1>15. ClientReads((v \o m) \o t) = ws \o <<t>>
  BY ONLY <1>7, <1>10, <1>11, <1>12, <1>14
<1>16. QED
  BY ONLY <1>15 DEF m, sp

\* All but the last of the first n members, and the last of them.
LEMMA SplitLast ==
  ASSUME NEW S, NEW ps, ps \in Seq(S), NEW n \in 1 .. Len(ps)
  PROVE  LET x == SubSeq(ps, 1, n)
         IN /\ x \in Seq(S) /\ Front(x) \in Seq(S) /\ Last(x) = ps[n] /\ ps[n] \in S
            /\ Len(Front(x)) = n - 1 /\ \A j \in 1 .. n - 1 : Front(x)[j] = ps[j]
            /\ x = Front(x) \o <<ps[n]>>
<1> DEFINE x == SubSeq(ps, 1, n)
           f == SubSeq(x, 1, n - 1)
<1>1. Len(ps) \in Nat /\ \A i \in 1 .. Len(ps) : ps[i] \in S
  BY LenProperties, ElementOfSeq
<1>2. n \in Nat /\ 1 <= n /\ n <= Len(ps) /\ n \in 1 .. n /\ n \in 1 .. Len(ps)
  BY ONLY <1>1, n \in 1 .. Len(ps)
<1>3. \A i \in 1 .. n : i \in 1 .. Len(ps)
  BY ONLY <1>1, <1>2
<1>4. x \in Seq(S) /\ Len(x) = n /\ \A i \in 1 .. n : x[i] = ps[i]
  <2>1. /\ x \in Seq(S) /\ Len(x) = (IF 1 <= n THEN n - 1 + 1 ELSE 0)
        /\ \A i \in 1 .. n - 1 + 1 : x[i] = ps[1 + i - 1]
    <3>1. \A i \in 1 .. n : ps[i] \in S
      BY <1>1, <1>3
    <3>2. QED
      BY <1>2, <3>1, SubSeqProperties
  <2> HIDE DEF x
  <2>2. n - 1 + 1 = n /\ \A i \in 1 .. n : 1 + i - 1 = i
    BY ONLY <1>2
  <2>3. QED
    BY ONLY <1>2, <2>1, <2>2
<1> HIDE DEF x
<1>5. f \in Seq(S) /\ Len(f) = n - 1 /\ \A i \in 1 .. n - 1 : f[i] = x[i]
  <2>1. /\ f \in Seq(S) /\ Len(f) = (IF 1 <= n - 1 THEN (n - 1) - 1 + 1 ELSE 0)
        /\ \A i \in 1 .. (n - 1) - 1 + 1 : f[i] = x[1 + i - 1]
    <3>1. \A i \in 1 .. n - 1 : i \in 1 .. n
      BY ONLY <1>2
    <3>2. \A i \in 1 .. n - 1 : x[i] \in S
      BY ONLY <1>4, <3>1, ElementOfSeq
    <3>3. n - 1 \in Int
      BY ONLY <1>2
    <3>4. QED
      BY ONLY <3>2, <3>3, SubSeqProperties
  <2> HIDE DEF f
  <2>2. /\ (n - 1) - 1 + 1 = n - 1 /\ \A i \in 1 .. n - 1 : 1 + i - 1 = i
        /\ (IF 1 <= n - 1 THEN n - 1 ELSE 0) = n - 1
    BY ONLY <1>2
  <2>3. QED
    BY ONLY <1>2, <2>1, <2>2
<1> HIDE DEF f
<1>6. \A j \in 1 .. n - 1 : j \in 1 .. n
  BY ONLY <1>2
<1>7. \A j \in 1 .. n - 1 : f[j] = ps[j]
  BY ONLY <1>4, <1>5, <1>6
<1>8. x = f \o <<ps[n]>>
  <2> DEFINE y == f \o <<ps[n]>>
  <2>1. ps[n] \in S
    BY <1>1
  <2>2. <<ps[n]>> \in Seq(S) /\ Len(<<ps[n]>>) = 1 /\ <<ps[n]>>[1] = ps[n]
    BY <2>1
  <2>3. /\ y \in Seq(S) /\ Len(y) = (n - 1) + 1
        /\ \A i \in 1 .. (n - 1) + 1 : y[i] = IF i <= n - 1 THEN f[i] ELSE <<ps[n]>>[i - (n - 1)]
    <3> DEFINE z == <<ps[n]>>
    <3> HIDE DEF z
    <3>1. z \in Seq(S) /\ Len(z) = 1
      BY <2>2 DEF z
    <3>2. /\ f \o z \in Seq(S) /\ Len(f \o z) = Len(f) + Len(z)
          /\ \A i \in 1 .. Len(f) + Len(z) :
               (f \o z)[i] = IF i <= Len(f) THEN f[i] ELSE z[i - Len(f)]
      BY ONLY <1>5, <3>1, ConcatProperties
    <3>3. QED
      BY ONLY <1>5, <3>1, <3>2 DEF z
  <2> HIDE DEF y
  <2>4. \A i \in 1 .. n : /\ i \in 1 .. (n - 1) + 1
                          /\ i <= n - 1 => i \in 1 .. n - 1
                          /\ ~(i <= n - 1) => i = n /\ i - (n - 1) = 1
    BY ONLY <1>2
  <2>5. \A i \in 1 .. n : y[i] = x[i]
    <3> SUFFICES ASSUME NEW i \in 1 .. n PROVE y[i] = x[i]
      OBVIOUS
    <3>1. CASE i <= n - 1
      BY ONLY <1>2, <1>4, <1>5, <2>2, <2>3, <2>4, <3>1, i \in 1 .. n
    <3>2. CASE ~(i <= n - 1)
      BY ONLY <1>2, <1>4, <1>5, <2>2, <2>3, <2>4, <3>2, i \in 1 .. n
    <3>3. QED
      BY ONLY <3>1, <3>2
  <2>6. (n - 1) + 1 = n
    BY ONLY <1>2
  <2>7. y = [i \in 1 .. n |-> y[i]] /\ x = [i \in 1 .. n |-> x[i]]
    <3>1. Len(y) = n
      BY ONLY <2>3, <2>6
    <3>2. QED
      BY ONLY <1>4, <2>3, <3>1, LenProperties
  <2>8. QED
    BY ONLY <2>5, <2>7 DEF y
<1>9. Front(x) = f /\ Last(x) = ps[n]
  BY ONLY <1>2, <1>4 DEF Front, Last, f
<1>10. QED
  BY ONLY <1>1, <1>2, <1>4, <1>5, <1>7, <1>8, <1>9 DEF x

\* A text behind one space that is read as a parameter of its own length has no colon
\* and no space in it.
LEMMA OnlyWord ==
  ASSUME NEW C, NEW s \in Seq(C), NEW q \in 1 .. Len(s), s[q] = " ",
         NEW x \in Seq(C), parameters(s, q) = <<x>>, Len(x) = Len(s) - q
  PROVE  Word(x)
<1> DEFINE n == Len(s)
           start == skipSpaces(s, q)
           end == tokenEnd(s, start)
<1>1. n \in Nat /\ q \in 1 .. n + 1 /\ q \in Nat
  <2>1. n \in Nat
    BY LenProperties
  <2>2. QED
    BY ONLY <2>1, q \in 1 .. n
<1>2. parameters(s, q) = IF start > n THEN <<>>
                         ELSE IF s[start] = ":" THEN <<SubSeq(s, start + 1, n)>>
                         ELSE <<SubSeq(s, start, end - 1)>> \o parameters(s, end)
  BY <1>1, ParametersStep
<1>3. start \in q .. n + 1 /\ (start <= n => s[start] # " ")
  BY <1>1, SkipIs
<1>4. /\ start > n => parameters(s, q) = <<>>
      /\ ~(start > n) /\ s[start] = ":" => parameters(s, q) = <<SubSeq(s, start + 1, n)>>
      /\ ~(start > n) /\ s[start] # ":" =>
           parameters(s, q) = <<SubSeq(s, start, end - 1)>> \o parameters(s, end)
  BY ONLY <1>2
<1> HIDE DEF start, n
<1>5. start \in Nat /\ (start > n <=> ~(start <= n))
  <2>1. start \in q .. n + 1
    BY <1>3
  <2>2. QED
    BY ONLY <1>1, <2>1
<1>6. ~(start > n) /\ start <= n
  <2>1. <<x>> # <<>>
    OBVIOUS
  <2>2. QED
    BY <1>4, <1>5, <2>1
<1>7. start \in q + 1 .. n
  <2>1. start # q
    BY <1>3, <1>6
  <2>2. start \in q .. n + 1
    BY <1>3
  <2>3. QED
    BY ONLY <1>1, <1>6, <2>1, <2>2
<1>8. ASSUME s[start] = ":"
      PROVE  FALSE
  <2>1. <<x>> = <<SubSeq(s, start + 1, n)>>
    BY <1>4, <1>6, <1>8
  <2>2. x = SubSeq(s, start + 1, n)
    BY ONLY <2>1
  <2>3. Len(SubSeq(s, start + 1, n)) = n - start
    BY ONLY <1>1, <1>7
  <2>4. Len(x) = n - q
    BY DEF n
  <2>5. QED
    BY ONLY <1>1, <1>7, <2>2, <2>3, <2>4
<1>9. SubSeq(s, start, end - 1) \in Seq(C) /\ end \in 1 .. n + 1
  <2>1. SubSeq(s, start, end - 1) \in Seq(C) /\ end \in start + 1 .. n + 1
    BY <1>1, <1>6, TokenAt DEF start, n
  <2>2. QED
    BY ONLY <1>1, <1>7, <2>1
<1>10. parameters(s, end) \in Seq(Seq(C))
  BY <1>9, ParametersShape DEF n
<1> DEFINE w == SubSeq(s, start, end - 1)
           p == parameters(s, end)
<1>11. <<x>> = <<w>> \o p
  BY <1>4, <1>6, <1>8
<1>12. Word(w)
  BY <1>1, <1>6, <1>8, TokenWord DEF start, n
<1> HIDE DEF w, p
<1>13. x = w
  <2>1. w \in Seq(C) /\ p \in Seq(Seq(C))
    BY <1>9, <1>10 DEF w, p
  <2>2. (<<w>> \o p)[1] = w
    BY ONLY <2>1, FirstAnd
  <2>3. <<x>>[1] = x
    OBVIOUS
  <2>4. QED
    BY ONLY <1>11, <2>2, <2>3
<1>14. QED
  BY <1>12, <1>13

\* Words written without a colon are read back, up to what is behind them.
LEMMA WordsRead ==
  ASSUME NEW C, Marks \subseteq C, NEW ws, ws \in Seq(Seq(C)), AllWords(ws),
         NEW t, t \in Seq(C), Behind(t), ws # <<>> \/ t # <<>>
  PROVE  LET v == Header \o Spaced(ws)
         IN ClientReads(v \o t) = ws \o parameters(v \o t, Len(v) + 1)
<1> DEFINE sp == Spaced(ws)
           v == Header \o sp
<1>1. PICK b \in C : b = " "
  BY DEF Marks
<1>2. sp \in Seq(C) /\ Behind(sp) /\ (ws # <<>> => sp # <<>>)
  BY <1>1, SpacedBehind
<1>3. Header \in Seq(C)
  BY HeaderIs
<1> HIDE DEF sp
<1>4. sp \o t \in Seq(C) /\ Behind(sp \o t) /\ sp \o t # <<>>
  <2>1. sp # <<>> \/ t # <<>>
    BY <1>2
  <2>2. QED
    BY ONLY <1>2, <2>1, t \in Seq(C), Behind(t), BehindConcat
<1>5. Header \o (sp \o t) = v \o t
  BY ONLY <1>2, <1>3, t \in Seq(C), Regroup
<1>6. ClientReads(Header \o (sp \o t)) = parameters(Header \o (sp \o t), Len(Header) + 1)
  <2> DEFINE y == sp \o t
  <2> HIDE DEF y
  <2>1. y \in Seq(C) /\ y # <<>> /\ y[1] = " "
    BY <1>4 DEF y, Behind
  <2>2. ClientReads(Header \o y) = parameters(Header \o y, Len(Header) + 1)
    BY <2>1, ClientDrops
  <2>3. QED
    BY <2>2 DEF y
<1>7. Reads(Header, ws, t)
  BY <1>1, <1>3, ReadWords
<1>8. parameters(v \o t, Len(Header) + 1) = ws \o parameters(v \o t, Len(v) + 1)
  BY ONLY <1>7 DEF Reads, sp
<1>9. QED
  BY ONLY <1>5, <1>6, <1>8 DEF sp

\* A line without a colon is read back exactly if its last parameter is a word.
LEMMA ModeRead ==
  ASSUME NEW C, Marks \subseteq C, NEW ps, ps \in Seq(Seq(C)), ps # <<>>,
         \A j \in 1 .. Len(ps) - 1 : Word(ps[j])
  PROVE  ClientReads(Header \o Spaced(ps)) = ps <=> Word(ps[Len(ps)])
<1> DEFINE S == Seq(C)
           n == Len(ps)
           x == ps[n]
           f == Front(ps)
           sp == Spaced(f)
           v == Header \o sp
           w == <<" ">> \o x
           s == v \o w
<1>1. n \in Nat /\ n # 0
  BY ONLY ps \in Seq(Seq(C)), ps # <<>>, EmptySeq, LenProperties
<1>2. n \in 1 .. n
  BY ONLY <1>1
<1>3. f \in Seq(S) /\ x \in S /\ Len(f) = n - 1 /\ ps = f \o <<x>>
      /\ \A j \in 1 .. n - 1 : f[j] = ps[j]
  <2>1. SubSeq(ps, 1, n) = ps
    <3>1. SubSeq(ps, 1, n) = [i \in 1 .. n |-> ps[i]]
      BY ONLY <1>1
    <3>2. QED
      BY ONLY <3>1, ps \in Seq(Seq(C)), LenProperties
  <2> DEFINE y == SubSeq(ps, 1, n)
  <2>2. /\ Front(y) \in Seq(S) /\ ps[n] \in S
        /\ Len(Front(y)) = n - 1 /\ \A j \in 1 .. n - 1 : Front(y)[j] = ps[j]
        /\ y = Front(y) \o <<ps[n]>>
    BY <1>2, SplitLast
  <2> HIDE DEF n
  <2>3. QED
    BY ONLY <2>1, <2>2
<1>4. AllWords(f)
  BY <1>3 DEF AllWords
<1>5. PICK b \in C : b = " "
  BY DEF Marks
<1> HIDE DEF f, x, n
<1>6. sp \in S /\ Spaced(ps) = sp \o w
  <2>1. ps = Append(f, x)
    BY ONLY <1>3, AppendIsConcat
  <2>2. sp \in S /\ Spaced(Append(f, x)) = sp \o (<<b>> \o x)
    BY ONLY <1>3, <1>5, SpacedAppend
  <2>3. QED
    BY ONLY <1>5, <2>1, <2>2
<1>7. w \in S /\ Len(w) = Len(x) + 1 /\ Len(x) \in Nat /\ w[1] = " " /\ w # <<>>
  <2>1. /\ <<b>> \o x \in S /\ Len(<<b>> \o x) = Len(x) + 1 /\ Len(x) \in Nat
        /\ (<<b>> \o x)[1] = b
    BY ONLY <1>3, <1>5, FirstAnd
  <2> HIDE DEF S
  <2>2. /\ w \in S /\ Len(w) = Len(x) + 1 /\ Len(x) \in Nat /\ w[1] = " "
    BY ONLY <1>5, <2>1
  <2>3. w # <<>>
    <3> HIDE DEF w
    <3>1. Len(w) = Len(x) + 1 /\ Len(x) \in Nat
      BY <2>2
    <3>2. Len(w) # 0
      BY ONLY <3>1
    <3>3. QED
      BY ONLY <3>2, EmptySeq
  <2>4. QED
    BY <2>2, <2>3
<1>8. Behind(w)
  BY <1>7 DEF Behind
<1>9. Header \in S
  BY HeaderIs
<1> HIDE DEF sp, w
<1>10. v \in S /\ Len(v) \in Nat
  BY ONLY <1>6, <1>9, ConcatProperties, LenProperties
<1>11. Header \o Spaced(ps) = s
  <2>1. sp \in S /\ w \in S /\ Header \in S
    BY <1>6, <1>7, <1>9
  <2>2. Header \o (sp \o w) = s
    BY ONLY <2>1, Regroup
  <2>3. QED
    BY <1>6, <2>2
<1> HIDE DEF v
<1>12. ClientReads(s) = f \o parameters(s, Len(v) + 1)
  BY <1>3, <1>4, <1>7, <1>8, WordsRead DEF v, sp
<1>13. /\ s \in S /\ Len(s) = Len(v) + Len(w)
       /\ \A i \in 1 .. Len(v) + Len(w) : s[i] = IF i <= Len(v) THEN v[i] ELSE w[i - Len(v)]
  BY ONLY <1>7, <1>10, ConcatProperties
<1> HIDE DEF s
<1> DEFINE q == Len(v) + 1
           p == parameters(s, q)
<1>14. q \in 1 .. Len(s) /\ q \in 1 .. Len(s) + 1 /\ Len(x) = Len(s) - q
  <2>1. Len(s) = Len(v) + Len(w) /\ Len(w) = Len(x) + 1 /\ Len(x) \in Nat /\ Len(v) \in Nat
    BY <1>7, <1>10, <1>13
  <2>2. QED
    BY ONLY <2>1
<1>15. p \in Seq(S)
  BY <1>13, <1>14, ParametersShape
<1>16. s[q] = " "
  <2>1. Len(w) = Len(x) + 1 /\ Len(x) \in Nat /\ Len(v) \in Nat
    BY <1>7, <1>10
  <2>2. q \in 1 .. Len(v) + Len(w) /\ ~(q <= Len(v)) /\ q - Len(v) = 1
    BY ONLY <2>1
  <2>3. s[q] = w[1]
    BY ONLY <1>13, <2>2
  <2>4. QED
    BY <1>7, <2>3
<1> HIDE DEF q
<1>17. Word(x) => p = <<x>>
  <2>1. ASSUME Word(x)
        PROVE  p = <<x>>
    <3>1. s = v \o (<<" ">> \o x) /\ <<>> \in S
      BY EmptySeq DEF s, w
    <3>2. s \o <<>> = s
      BY ONLY <1>13, ConcatEmptySeq
    <3>3. " " \in C
      BY <1>5
    <3>4. LET u == v \o (<<" ">> \o x)
          IN parameters(u \o <<>>, Len(v) + 1) = <<x>> \o parameters(u \o <<>>, Len(u) + 1)
      <4>1. v \in S /\ x \in S /\ <<>> \in S
        BY <1>3, <1>10, <3>1
      <4>2. QED
        BY ONLY <2>1, <3>3, <4>1, ReadWord, ZenonT(60)
    <3>5. p = <<x>> \o parameters(s, Len(s) + 1)
      BY ONLY <3>1, <3>2, <3>4 DEF q
    <3>6. parameters(s, Len(s) + 1) = <<>>
      BY <1>13, ReadEnd
    <3>7. <<x>> \in Seq(S)
      BY <1>3
    <3>8. <<x>> \o <<>> = <<x>>
      BY ONLY <3>7, ConcatEmptySeq
    <3>9. QED
      BY ONLY <3>5, <3>6, <3>8
  <2>2. QED
    BY <2>1
<1>18. p = <<x>> => Word(x)
  BY <1>3, <1>13, <1>14, <1>16, OnlyWord
<1> HIDE DEF p
<1>19. f \o p = ps <=> p = <<x>>
  <2>1. <<x>> \in Seq(S)
    BY <1>3
  <2>2. f \o p = f \o <<x>> => p = <<x>>
    BY ONLY <1>3, <1>15, <2>1, ConcatSimplifications
  <2>3. QED
    BY ONLY <1>3, <2>2
<1>20. QED
  BY <1>11, <1>12, <1>17, <1>18, <1>19 DEF p, q, s, x, n

\* The parameters of a command: all but the last are words.
LEMMA ParametersOfCommand ==
  ASSUME NEW C, NEW s \in Seq(C), parse(s).valid
  PROVE  /\ parse(s).parameters \in Seq(Seq(C))
         /\ \A j \in 1 .. Len(parse(s).parameters) - 1 : Word(parse(s).parameters[j])
<1> DEFINE start == skipSpaces(s, 1)
           end == tokenEnd(s, start)
           ps == parameters(s, end)
<1>1. parse(s) = IF start > Len(s) THEN Invalid
                 ELSE IF s[start] = ":" \/ Len(ps) > MaxParameters THEN Invalid
                 ELSE [valid |-> TRUE, name |-> normalizeName(SubSeq(s, start, end - 1)),
                       parameters |-> ps]
  BY DEF parse, TooMany
<1>2. Len(s) \in Nat /\ 1 \in 1 .. Len(s) + 1
  BY LenProperties
<1>3. start \in 1 .. Len(s) + 1
  BY <1>2, SkipIs
<1> HIDE DEF ps
<1>4. parse(s) # Invalid
  BY DEF Invalid
<1>5. ~(start > Len(s)) /\ parse(s).parameters = ps
  BY <1>1, <1>4
<1> HIDE DEF start
<1>6. start <= Len(s)
  BY ONLY <1>2, <1>3, <1>5
<1>7. end \in start + 1 .. Len(s) + 1
  BY <1>2, <1>6, TokenAt DEF start
<1> HIDE DEF end
<1>8. end \in 1 .. Len(s) + 1
  BY ONLY <1>2, <1>3, <1>7
<1>9. QED
  BY <1>5, <1>8, ParametersShape DEF ps

LEMMA JoinOne ==
  ASSUME NEW C, NEW a \in C, NEW b \in C
  PROVE  <<a>> \o <<b>> = <<a, b>>
<1> DEFINE u == <<a>>
           w == <<b>>
           x == u \o w
           y == <<a, b>>
<1>1. u \in Seq(C) /\ Len(u) = 1 /\ u[1] = a
  OBVIOUS
<1>2. w \in Seq(C) /\ Len(w) = 1 /\ w[1] = b
  OBVIOUS
<1>3. y \in Seq(C) /\ Len(y) = 2 /\ y[1] = a /\ y[2] = b
  OBVIOUS
<1> HIDE DEF u, w, y
<1>4. /\ x \in Seq(C) /\ Len(x) = Len(u) + Len(w)
      /\ \A i \in 1 .. Len(u) + Len(w) : x[i] = IF i <= Len(u) THEN u[i] ELSE w[i - Len(u)]
  BY ONLY <1>1, <1>2, ConcatProperties
<1> HIDE DEF x
<1>5. Len(x) = 2 /\ x[1] = a /\ x[2] = b
  <2>1. 1 \in 1 .. 1 + 1 /\ 2 \in 1 .. 1 + 1 /\ 1 <= 1 /\ ~(2 <= 1) /\ 2 - 1 = 1
    BY ONLY TRUE
  <2>2. QED
    BY ONLY <1>1, <1>2, <1>4, <2>1
<1>6. \A i \in 1 .. 2 : i = 1 \/ i = 2
  BY ONLY TRUE
<1>7. x = [i \in 1 .. 2 |-> x[i]] /\ y = [i \in 1 .. 2 |-> y[i]]
  BY ONLY <1>3, <1>4, <1>5, LenProperties
<1>8. x = y
  BY ONLY <1>3, <1>5, <1>6, <1>7
<1>9. QED
  BY ONLY <1>8 DEF x, y, u, w

\* A name, a word and a further parameter.
Addressed(a, b, c, w) == parse((<<a, b>> \o w) \o <<b, c>>).parameters = <<w, <<c>> >>

LEMMA WordAddressed ==
  ASSUME NEW C, NEW b \in C, b = " ", NEW a \in C, a # " ", a # ":",
         NEW c \in C, c # " ", c # ":", NEW w \in Seq(C), Word(w)
  PROVE  Addressed(a, b, c, w)
<1> DEFINE S == Seq(C)
           s == (<<a, b>> \o w) \o <<b, c>>
           u == <<a>>
           y == <<c>>
           ws == <<w, y>>
<1>1. u \in S /\ y \in S /\ <<b>> \in S /\ <<>> \in S
  BY ONLY a \in C, b \in C, c \in C, SingleIs, EmptySeq
<1>2. Word(y) /\ Len(u) = 1
  <2>1. y # <<>> /\ y[1] = c /\ Range(y) = {c} /\ Len(u) = 1
    BY ONLY TRUE DEF Range
  <2> HIDE DEF y, u
  <2>2. QED
    BY <2>1 DEF Word
<1>3. <<w>> = Append(<<>>, w) /\ ws = Append(<<w>>, y)
  <2> HIDE DEF y
  <2>1. QED
    BY ONLY TRUE
<1>4. <<>> \in Seq(S) /\ <<w>> \in Seq(S) /\ ws \in Seq(S) /\ Len(ws) = 2
  <2>1. w \in S /\ y \in S
    BY ONLY <1>1, w \in Seq(C)
  <2> HIDE DEF y, S
  <2>2. QED
    BY ONLY <2>1
<1>5. AllWords(ws)
  <2> HIDE DEF y
  <2>1. ws[1] = w /\ ws[2] = y
    OBVIOUS
  <2>2. \A j \in 1 .. Len(ws) : j = 1 \/ j = 2
    BY ONLY <1>4
  <2>3. QED
    BY <1>2, <2>1, <2>2 DEF AllWords
<1> DEFINE x == <<b>> \o w
           v == u \o x
<1>6. u \o Spaced(<<w>>) = v
  <2>1. Longer(b, u, <<>>, w)
    BY ONLY <1>1, <1>4, b \in C, b = " ", w \in Seq(C), SpacedMore
  <2>2. Spaced(<<>>) = <<>>
    BY ONLY <1>1, <1>4, b \in C, b = " ", SpacedAppend
  <2>3. u \o <<>> = u
    BY ONLY <1>1, ConcatEmptySeq
  <2>4. QED
    BY ONLY <1>3, <2>1, <2>2, <2>3 DEF Longer
<1>7. u \o Spaced(ws) = v \o (<<b>> \o y)
  <2>1. Longer(b, u, <<w>>, y)
    <3> HIDE DEF y, u
    <3>1. QED
      BY ONLY <1>1, <1>4, b \in C, b = " ", SpacedMore
  <2>2. QED
    BY ONLY <1>3, <1>6, <2>1 DEF Longer
<1>8. v \o (<<b>> \o y) = s
  <2>1. u \o <<b>> = <<a, b>> /\ <<b>> \o y = <<b, c>>
    BY ONLY a \in C, b \in C, c \in C, JoinOne
  <2> HIDE DEF u, y
  <2>2. u \o (<<b>> \o w) = (u \o <<b>>) \o w
    BY ONLY <1>1, w \in Seq(C), Regroup
  <2>3. QED
    BY ONLY <2>1, <2>2
<1>9. s \in S /\ Len(s) \in Nat /\ Len(s) # 0 /\ s[1] = a /\ Len(s) > 1 /\ s[2] = b
  <2>1. s = (u \o x) \o <<b, c>> /\ <<b, c>> \in S /\ x \in S
    <3>1. <<b, c>> \in S
      BY ONLY b \in C, c \in C, PairIs
    <3>2. <<b>> \o y = <<b, c>>
      BY ONLY b \in C, c \in C, JoinOne
    <3> HIDE DEF y, u
    <3>3. x \in S
      BY ONLY <1>1, w \in Seq(C), ConcatProperties
    <3>4. QED
      BY ONLY <1>8, <3>1, <3>2, <3>3
  <2>2. Len(x) = Len(w) + 1 /\ Len(w) \in Nat /\ x[1] = b
    BY ONLY b \in C, w \in Seq(C), FirstAnd
  <2> DEFINE r == x \o <<b, c>>
  <2> HIDE DEF x
  <2>3. (u \o x) \o <<b, c>> = u \o r
    <3> DEFINE z == <<b, c>>
    <3> HIDE DEF z, u
    <3>1. u \o (x \o z) = (u \o x) \o z
      BY ONLY <1>1, <2>1, Regroup, SMTT(30) DEF z
    <3>2. QED
      BY ONLY <3>1 DEF z
  <2>4. r \in S /\ Len(r) = Len(x) + 2
        /\ \A i \in 1 .. Len(x) + 2 : r[i] = IF i <= Len(x) THEN x[i] ELSE <<b, c>>[i - Len(x)]
    <3> DEFINE z == <<b, c>>
    <3>1. Len(z) = 2
      OBVIOUS
    <3> HIDE DEF z
    <3>2. /\ x \o z \in S /\ Len(x \o z) = Len(x) + Len(z)
          /\ \A i \in 1 .. Len(x) + Len(z) : (x \o z)[i] = IF i <= Len(x) THEN x[i] ELSE z[i - Len(x)]
      BY ONLY <2>1, ConcatProperties DEF z
    <3>3. QED
      BY ONLY <3>1, <3>2 DEF z
  <2>5. 1 \in 1 .. Len(x) + 2 /\ 1 <= Len(x) /\ Len(r) \in Nat /\ 1 \in 1 .. Len(r)
    BY ONLY <2>2, <2>4
  <2>6. r[1] = b
    BY ONLY <2>2, <2>4, <2>5
  <2> HIDE DEF r
  <2>7. /\ u \o r \in S /\ Len(u \o r) = Len(r) + 1 /\ (u \o r)[1] = a
        /\ \A i \in 1 .. Len(r) : (u \o r)[i + 1] = r[i]
    BY ONLY <2>4, a \in C, FirstAnd
  <2>8. (u \o r)[1 + 1] = r[1] /\ 1 + 1 = 2
    BY ONLY <2>5, <2>7
  <2>9. s = u \o r
    BY ONLY <2>1, <2>3
  <2>10. Len(u \o r) \in Nat /\ Len(u \o r) # 0 /\ Len(u \o r) > 1
    BY ONLY <2>5, <2>7
  <2>11. QED
    BY ONLY <2>6, <2>7, <2>8, <2>9, <2>10
<1> HIDE DEF s
<1>10. Len(s) \in Nat /\ Len(s) > 1
  BY <1>9
<1>11. Reads(u, ws, <<>>)
  <2> HIDE DEF u, ws
  <2>1. Behind(<<>>)
    BY DEF Behind
  <2>2. QED
    BY <1>1, <1>4, <1>5, <2>1, ReadWords
<1>12. parameters(s, 2) = ws
  <2>1. u \o Spaced(ws) = s
    BY ONLY <1>7, <1>8
  <2>2. parameters(s \o <<>>, Len(u) + 1) = ws \o parameters(s \o <<>>, Len(s) + 1)
    BY ONLY <1>11, <2>1 DEF Reads
  <2>3. s \o <<>> = s
    BY ONLY <1>9, ConcatEmptySeq
  <2>4. parameters(s, Len(s) + 1) = <<>>
    BY <1>9, ReadEnd
  <2>5. ws \o <<>> = ws
    BY ONLY <1>4, ConcatEmptySeq
  <2>6. Len(u) + 1 = 2
    BY ONLY <1>2
  <2>7. QED
    BY ONLY <2>2, <2>3, <2>4, <2>5, <2>6
<1>13. skipSpaces(s, 1) = 1
  <2>1. 1 \in 1 .. Len(s) + 1 /\ \A i \in 1 .. 1 - 1 : FALSE
    BY ONLY <1>10
  <2>2. s[1] # " "
    BY <1>9
  <2>3. QED
    BY <1>9, <2>1, <2>2, SkipAt
<1>14. tokenEnd(s, 1) = 2
  <2>1. 1 \in 1 .. Len(s) + 1 /\ 2 \in 1 .. Len(s) + 1 /\ \A i \in 1 .. 2 - 1 : i = 1
    BY ONLY <1>10
  <2>2. s[1] # " " /\ s[2] = " "
    BY <1>9
  <2>3. \A i \in 1 .. 2 - 1 : s[i] # " "
    BY <2>1, <2>2
  <2>4. s \in S
    BY <1>9
  <2>5. QED
    BY ONLY <2>1, <2>2, <2>3, <2>4, TokenEndAt
<1>15. ~(1 > Len(s)) /\ ~(Len(ws) > MaxParameters)
  <2>1. ~(1 > Len(s))
    BY ONLY <1>10
  <2>2. ~(2 > MaxParameters)
    BY ONLY CommandAssumption DEF CommandAssumption
  <2>3. QED
    BY ONLY <1>4, <2>1, <2>2
<1>16. s[1] # ":"
  BY <1>9
<1>17. parse(s) = [valid |-> TRUE, name |-> normalizeName(SubSeq(s, 1, 2 - 1)),
                   parameters |-> ws]
  <2> HIDE DEF ws
  <2>1. QED
    BY <1>12, <1>13, <1>14, <1>15, <1>16 DEF parse, TooMany
<1>18. parse(s).parameters = ws
  BY ONLY <1>17
<1>19. QED
  BY ONLY <1>18 DEF s, Addressed

\* A nickname that NICK accepts is a word.
LEMMA NicknameIsWord ==
  ASSUME NEW n, isValidNickname(n)
  PROVE  Word(n)
BY DEF isValidNickname, Word

\* Every nickname that NICK accepts can be used again as a parameter, also in
\* front of another one (ServerUtils.cpp isValidNickname against Command::parse).
THEOREM AddressableCorrect == Spec => []NicknameAddressable
<1>1. ASSUME Typed, isValidNickname(text)
      PROVE  parse(<<"B", " ">> \o text \o <<" ", "b">>).parameters = <<text, <<"b">> >>
  <2> DEFINE C == Alphabet[kind] \cup {" ", "B", "b"}
  <2>1. text \in Seq(C)
    BY <1>1, SeqMonotonic DEF Typed
  <2>2. \E b \in C : b = " "
    OBVIOUS
  <2>3. \E a \in C : a = "B" /\ a # " " /\ a # ":"
    OBVIOUS
  <2>4. \E c \in C : c = "b" /\ c # " " /\ c # ":"
    OBVIOUS
  <2> HIDE DEF C
  <2>5. \A a, b, c \in C : b = " " /\ a # " " /\ a # ":" /\ c # " " /\ c # ":" =>
          Addressed(a, b, c, text)
    <3>1. Word(text)
      BY <1>1, NicknameIsWord
    <3>2. ASSUME NEW a \in C, NEW b \in C, NEW c \in C,
                 b = " ", a # " ", a # ":", c # " ", c # ":"
          PROVE  Addressed(a, b, c, text)
      BY ONLY <2>1, <3>1, <3>2, WordAddressed
    <3>3. QED
      BY <3>2
  <2>6. PICK a \in C : a = "B" /\ a # " " /\ a # ":"
    BY ONLY <2>3
  <2>7. PICK b \in C : b = " "
    BY ONLY <2>2
  <2>8. PICK c \in C : c = "b" /\ c # " " /\ c # ":"
    BY ONLY <2>4
  <2>9. Addressed(a, b, c, text)
    BY ONLY <2>5, <2>6, <2>7, <2>8
  <2>10. QED
    BY ONLY <2>6, <2>7, <2>8, <2>9, ZenonT(30) DEF Addressed
<1>2. Typed => NicknameAddressable
  BY <1>1 DEF NicknameAddressable
<1>3. QED
  BY <1>2, TypedAlways, PTL

\* A word at the beginning of a line is read whole.
LEMMA ReadFirst ==
  ASSUME NEW C, NEW w \in Seq(C), Word(w), NEW t \in Seq(C), Behind(t)
  PROVE  parameters(w \o t, 1) = <<w>> \o parameters(w \o t, Len(w) + 1)
<1> DEFINE s == w \o t
           n == Len(s)
           k == Len(w)
           m == Len(t)
<1>1. k \in Nat /\ k # 0 /\ \A i \in 1 .. k : w[i] # " "
  BY WordIs
<1>2. /\ s \in Seq(C) /\ n = k + m
      /\ \A i \in 1 .. k + m : s[i] = IF i <= k THEN w[i] ELSE t[i - k]
  BY ONLY w \in Seq(C), t \in Seq(C), ConcatProperties
<1> HIDE DEF s, n, k
<1>3. k \in Nat /\ k # 0 /\ m \in Nat /\ n = k + m
  <2>1. m \in Nat
    BY ONLY t \in Seq(C), LenProperties
  <2>2. QED
    BY <1>1, <1>2, <2>1
<1>4. \A i \in 1 .. k : s[i] = w[i]
  <2>1. \A i \in 1 .. k : i \in 1 .. k + m /\ i <= k
    BY ONLY <1>3
  <2>2. QED
    BY ONLY <1>2, <2>1
<1>5. \A i \in 1 .. k : s[i] # " "
  BY <1>1, <1>4
<1>6. k + 1 <= n => s[k + 1] = " "
  <2>1. ASSUME k + 1 <= n
        PROVE  s[k + 1] = " "
    <3>1. m # 0 /\ k + 1 \in 1 .. k + m /\ ~(k + 1 <= k) /\ (k + 1) - k = 1
      BY ONLY <1>3, <2>1
    <3>2. t # <<>>
      BY ONLY <3>1, EmptySeq
    <3>3. s[k + 1] = t[1]
      BY ONLY <1>2, <3>1
    <3>4. QED
      BY <3>2, <3>3 DEF Behind
  <2>2. QED
    BY <2>1
<1>7. /\ 1 \in 1 .. k /\ 1 \in 1 .. n + 1 /\ k + 1 \in 1 .. n + 1 /\ ~(1 > n)
      /\ \A i \in 1 .. (k + 1) - 1 : i \in 1 .. k
      /\ \A i \in 1 .. 1 - 1 : FALSE
  BY ONLY <1>3
<1>8. skipSpaces(s, 1) = 1
  <2>1. s[1] # " " /\ \A i \in 1 .. 1 - 1 : s[i] = " "
    BY <1>5, <1>7
  <2>2. s \in Seq(C) /\ 1 \in 1 .. n + 1
    BY <1>2, <1>7
  <2>3. QED
    BY ONLY <2>1, <2>2, SkipAt DEF n
<1>9. tokenEnd(s, 1) = k + 1
  <2>1. \A i \in 1 .. (k + 1) - 1 : s[i] # " "
    BY <1>5, <1>7
  <2>2. QED
    BY <1>2, <1>6, <1>7, <2>1, TokenEndAt DEF n
<1>10. SubSeq(s, 1, (k + 1) - 1) = w
  <2>1. SubSeq(s, 1, (k + 1) - 1) = [i \in 1 .. k |-> s[i]]
    <3>1. (k + 1) - 1 = k
      BY ONLY <1>3
    <3>2. SubSeq(s, 1, k) = [i \in 1 .. k |-> s[i]]
      BY ONLY <1>3
    <3>3. QED
      BY ONLY <3>1, <3>2
  <2>2. w = [i \in 1 .. k |-> w[i]]
    BY ONLY w \in Seq(C), LenProperties DEF k
  <2>3. QED
    BY ONLY <1>4, <2>1, <2>2
<1>11. s[1] # ":"
  <2>1. s[1] = w[1]
    BY <1>4, <1>7
  <2>2. QED
    BY <2>1 DEF Word
<1>12. parameters(s, 1) = <<w>> \o parameters(s, k + 1)
  <2>1. s \in Seq(C) /\ 1 \in 1 .. Len(s) + 1 /\ ~(1 > Len(s))
    BY <1>2, <1>7 DEF n
  <2>2. parameters(s, 1) = IF 1 > Len(s) THEN <<>>
                           ELSE IF s[1] = ":" THEN <<SubSeq(s, 1 + 1, Len(s))>>
                           ELSE <<SubSeq(s, 1, (k + 1) - 1)>> \o parameters(s, k + 1)
    BY <1>8, <1>9, <2>1, ParametersStep
  <2>3. QED
    BY <1>10, <1>11, <2>1, <2>2
<1>13. QED
  BY <1>12 DEF s, k

\* A list of two words separated by a space is read as these words.
LEMMA ReadList ==
  ASSUME NEW C, NEW b \in C, b = " ", NEW w \in Seq(C), NEW v \in Seq(C), Word(w), Word(v)
  PROVE  LET s == Tail(Spaced(<<w, v>>))
         IN s \in Seq(C) /\ parameters(s, 1) = <<w, v>>
<1> DEFINE S == Seq(C)
           x == <<b>> \o v
           s == w \o x
<1>1. x \in S /\ Len(x) = Len(v) + 1 /\ x[1] = b
  BY FirstAnd
<1>2. Behind(x)
  BY <1>1 DEF Behind
<1>3. <<>> \in Seq(S) /\ <<w>> \in Seq(S) /\ <<v>> \in Seq(S) /\ <<>> \in S
  BY ONLY w \in Seq(C), v \in Seq(C), SingleIs, EmptySeq
<1>4. Spaced(<<w, v>>) = <<b>> \o s
  <2>1. Spaced(<<>>) = <<>> /\ Spaced(Append(<<>>, w)) = Spaced(<<>>) \o (<<b>> \o w)
    BY <1>3, SpacedAppend
  <2>2. Append(<<>>, w) = <<w>>
    <3>1. Append(<<>>, w) = <<>> \o <<w>>
      BY ONLY <1>3, w \in Seq(C), AppendIsConcat
    <3>2. <<>> \o <<w>> = <<w>>
      BY ONLY <1>3, ConcatEmptySeq
    <3>3. QED
      BY ONLY <3>1, <3>2
  <2>3. Append(<<w>>, v) = <<w, v>>
    <3>1. Append(<<w>>, v) = <<w>> \o <<v>>
      BY ONLY <1>3, v \in Seq(C), AppendIsConcat
    <3>2. <<w>> \o <<v>> = <<w, v>>
      BY ONLY w \in Seq(C), v \in Seq(C), JoinOne
    <3>3. QED
      BY ONLY <3>1, <3>2
  <2>4. <<b>> \o w \in S
    BY FirstAnd
  <2> DEFINE y == <<b>> \o w
  <2>5. Spaced(<<w>>) = y
    <3> HIDE DEF y
    <3>1. <<>> \o y = y
      BY ONLY <2>4, ConcatEmptySeq DEF y
    <3>2. QED
      BY ONLY <2>1, <2>2, <3>1 DEF y
  <2>6. Spaced(<<w, v>>) = y \o x
    <3>1. Spaced(Append(<<w>>, v)) = Spaced(<<w>>) \o (<<b>> \o v)
      BY <1>3, SpacedAppend
    <3>2. QED
      BY ONLY <2>3, <2>5, <3>1
  <2>7. <<b>> \in S
    BY ONLY b \in C, SingleIs
  <2> HIDE DEF x
  <2>8. <<b>> \o (w \o x) = (<<b>> \o w) \o x
    BY ONLY <1>1, <2>7, w \in Seq(C), Regroup
  <2>9. QED
    BY ONLY <2>6, <2>8
<1> HIDE DEF x
<1>5. s \in S
  BY ONLY <1>1, w \in Seq(C), ConcatProperties
<1>6. Tail(Spaced(<<w, v>>)) = s
  <2> DEFINE z == <<b>> \o s
  <2> HIDE DEF s
  <2>1. z \in S /\ Len(s) \in Nat /\ Len(z) = Len(s) + 1 /\ \A i \in 1 .. Len(s) : z[i + 1] = s[i]
    BY ONLY <1>5, b \in C, FirstAnd
  <2> HIDE DEF z
  <2>2. z # <<>>
    <3>1. Len(z) # 0
      BY ONLY <2>1
    <3>2. QED
      BY ONLY <3>1, EmptySeq
  <2>3. /\ Tail(z) \in S /\ Len(Tail(z)) = Len(z) - 1
        /\ \A i \in 1 .. Len(Tail(z)) : Tail(z)[i] = z[i + 1]
    BY ONLY <2>1, <2>2, HeadTailProperties
  <2>4. Len(Tail(z)) = Len(s)
    BY ONLY <2>1, <2>3
  <2>5. Tail(z) = [i \in 1 .. Len(s) |-> Tail(z)[i]] /\ s = [i \in 1 .. Len(s) |-> s[i]]
    BY ONLY <1>5, <2>3, <2>4, LenProperties
  <2>6. \A i \in 1 .. Len(s) : Tail(z)[i] = s[i]
    BY ONLY <2>1, <2>3, <2>4
  <2>7. QED
    BY ONLY <1>4, <2>5, <2>6 DEF z
<1>7. parameters(s, 1) = <<w>> \o parameters(s, Len(w) + 1)
  BY <1>1, <1>2, ReadFirst
<1>8. parameters(s, Len(w) + 1) = <<v>>
  <2>1. <<>> \in Seq(C)
    BY EmptySeq
  <2>2. s \o <<>> = s
    <3> HIDE DEF s
    <3>1. QED
      BY ONLY <1>5, ConcatEmptySeq
  <2>3. Behind(<<>>)
    BY DEF Behind
  <2>4. OneMore(C, b, w, v, <<>>)
    BY ONLY <2>1, <2>3, b \in C, b = " ", w \in Seq(C), v \in Seq(C), Word(v), ReadOneMore
  <2>5. parameters(s \o <<>>, Len(w) + 1) = <<v>> \o parameters(s \o <<>>, Len(s) + 1)
    <3>1. x = <<b>> \o v
      BY DEF x
    <3>2. QED
      BY ONLY <2>4, <3>1 DEF OneMore
  <2> HIDE DEF s
  <2>6. parameters(s, Len(w) + 1) = <<v>> \o parameters(s, Len(s) + 1)
    BY ONLY <2>2, <2>5
  <2>7. parameters(s, Len(s) + 1) = <<>>
    BY <1>5, ReadEnd
  <2>8. <<v>> \o <<>> = <<v>>
    BY ONLY <1>3, ConcatEmptySeq
  <2>9. QED
    BY ONLY <2>6, <2>7, <2>8
<1>9. <<w>> \o <<v>> = <<w, v>>
  BY ONLY w \in Seq(C), v \in Seq(C), JoinOne
<1>10. parameters(s, 1) = <<w, v>>
  BY ONLY <1>7, <1>8, <1>9
<1>11. QED
  BY ONLY <1>5, <1>6, <1>10

\* A nickname with or without the operators' mark.
Shown(m, j, ops) == (IF j \in ops THEN <<"@">> ELSE <<>>) \o m

LEMMA ShownIs ==
  ASSUME NEW C, NEW a \in C, a = "@", NEW m \in Seq(C), isValidNickname(m), m[1] # "@",
         NEW j, NEW ops
  PROVE  /\ Shown(m, j, ops) \in Seq(C) /\ Word(Shown(m, j, ops))
         /\ Shown(m, j, ops)[1] = "@" <=> j \in ops
         /\ (IF j \in ops THEN Tail(Shown(m, j, ops)) ELSE Shown(m, j, ops)) = m
<1>1. Word(m)
  BY NicknameIsWord
<1>2. CASE j \notin ops
  <2>1. <<>> \o m = m
    BY ONLY m \in Seq(C), ConcatEmptySeq
  <2>2. Shown(m, j, ops) = m
    BY ONLY <1>2, <2>1 DEF Shown
  <2>3. QED
    BY <1>1, <1>2, <2>2
<1>3. CASE j \in ops
  <2> DEFINE w == <<a>> \o m
  <2>1. Shown(m, j, ops) = w
    BY <1>3 DEF Shown
  <2>2. w \in Seq(C) /\ Len(m) \in Nat /\ Len(w) = Len(m) + 1
    BY FirstAnd
  <2>3. w[1] = a /\ \A i \in 1 .. Len(m) : w[i + 1] = m[i]
    BY FirstAnd
  <2> HIDE DEF w
  <2>4. w # <<>>
    <3>1. Len(w) # 0
      BY ONLY <2>2
    <3>2. QED
      BY ONLY <3>1, EmptySeq
  <2>5. Tail(w) = m
    <3>1. /\ Tail(w) \in Seq(C) /\ Len(Tail(w)) = Len(w) - 1
          /\ \A i \in 1 .. Len(Tail(w)) : Tail(w)[i] = w[i + 1]
      BY ONLY <2>2, <2>4, HeadTailProperties
    <3>2. Len(Tail(w)) = Len(m)
      BY ONLY <2>2, <3>1
    <3>3. Tail(w) = [i \in 1 .. Len(m) |-> Tail(w)[i]] /\ m = [i \in 1 .. Len(m) |-> m[i]]
      BY ONLY m \in Seq(C), <3>1, <3>2, LenProperties
    <3>4. \A i \in 1 .. Len(m) : Tail(w)[i] = m[i]
      BY ONLY <2>3, <3>1, <3>2
    <3>5. QED
      BY ONLY <3>3, <3>4
  <2>6. " " \notin Range(w)
    <3>1. ASSUME NEW i \in 1 .. Len(w)
          PROVE  w[i] # " "
      <4>1. CASE i = 1
        BY <2>3, <4>1
      <4>2. CASE i # 1
        <5>1. i - 1 \in 1 .. Len(m) /\ (i - 1) + 1 = i
          BY ONLY <2>2, <4>2, i \in 1 .. Len(w)
        <5>2. w[i] = m[i - 1]
          BY ONLY <2>3, <5>1
        <5>3. m[i - 1] # " "
          BY <1>1, <5>1, WordIs
        <5>4. QED
          BY <5>2, <5>3
      <4>3. QED
        BY <4>1, <4>2
    <3>2. DOMAIN w = 1 .. Len(w)
      BY ONLY <2>2, LenProperties
    <3>3. QED
      BY <3>1, <3>2 DEF Range
  <2>7. w[1] # ":"
    BY <2>3
  <2>8. QED
    BY <1>3, <2>1, <2>2, <2>3, <2>4, <2>5, <2>6, <2>7 DEF Word
<1>4. QED
  BY <1>2, <1>3

\* Texts of one and of two characters.
LEMMA ShortWords ==
  ASSUME NEW C, NEW a \in C, NEW c \in C, a # " ", a # ":", c # " "
  PROVE  /\ <<a>> \in Seq(C) /\ Word(<<a>>)
         /\ <<a, c>> \in Seq(C) /\ Word(<<a, c>>)
<1>1. <<a>> # <<>> /\ <<a>>[1] = a /\ Range(<<a>>) = {a}
  BY ONLY TRUE DEF Range
<1>2. <<a, c>> # <<>> /\ <<a, c>>[1] = a
  BY ONLY TRUE
<1>3. Range(<<a, c>>) = {a, c}
  <2> DEFINE y == <<a, c>>
  <2>1. DOMAIN y = 1 .. 2 /\ y[1] = a /\ y[2] = c /\ \A i \in 1 .. 2 : i = 1 \/ i = 2
    BY ONLY TRUE
  <2> HIDE DEF y
  <2>2. QED
    BY ONLY <2>1 DEF Range, y
<1>4. <<a>> \in Seq(C) /\ <<a, c>> \in Seq(C)
  BY ONLY a \in C, c \in C, SingleIs, PairIs
<1>5. Word(<<a>>)
  BY <1>1 DEF Word
<1>6. Word(<<a, c>>)
  BY <1>2, <1>3 DEF Word
<1>7. QED
  BY ONLY <1>4, <1>5, <1>6

\* The list that sendChannelNames writes for two members.
LEMMA NamesListIs ==
  ASSUME NEW m, NEW n, NEW ops
  PROVE  namesList(<<m, n>>, ops)
           = Tail(Spaced(<<Shown(m, 1, ops), Shown(n, 2, ops)>>))
<1> DEFINE ms == <<m, n>>
           f == [j \in DOMAIN ms |-> Shown(ms[j], j, ops)]
<1>1. namesList(ms, ops) = Tail(Spaced(f))
  BY ONLY TRUE DEF namesList, Shown
<1>2. DOMAIN ms = 1 .. 2 /\ ms[1] = m /\ ms[2] = n
  BY ONLY TRUE
<1> DEFINE x == Shown(m, 1, ops)
           y == Shown(n, 2, ops)
<1>3. f = <<x, y>>
  <2> DEFINE g == <<x, y>>
  <2> HIDE DEF x, y
  <2>1. g = [j \in 1 .. 2 |-> g[j]] /\ g[1] = x /\ g[2] = y
    BY ONLY TRUE
  <2>2. \A j \in 1 .. 2 : j = 1 \/ j = 2
    BY ONLY TRUE
  <2> HIDE DEF g, ms
  <2>3. \A j \in 1 .. 2 : Shown(ms[j], j, ops) = g[j]
    BY ONLY <1>2, <2>1, <2>2 DEF x, y
  <2>4. QED
    BY ONLY <1>2, <2>1, <2>3 DEF g
<1>4. QED
  BY ONLY <1>1, <1>3

\* One, two and three parameters.
LEMMA Parameters3 ==
  ASSUME NEW S, NEW x \in S, NEW y \in S, NEW z \in S
  PROVE  /\ <<>> \o <<x>> = <<x>>
         /\ <<x>> \o <<y>> = <<x, y>>
         /\ <<x, y>> \o <<z>> = <<x, y, z>>
         /\ <<x, y>> \o <<>> = <<x, y>>
<1>1. <<>> \o <<x>> = <<x>> /\ <<x, y>> \o <<>> = <<x, y>>
  <2>1. <<x>> \in Seq(S) /\ <<x, y>> \in Seq(S)
    BY SingleIs, PairIs
  <2>2. QED
    BY ONLY <2>1, ConcatEmptySeq
<1>2. <<x>> \o <<y>> = <<x, y>>
  BY ONLY x \in S, y \in S, JoinOne
<1>3. <<x, y>> \o <<z>> = <<x, y, z>>
  <2> DEFINE u == <<x, y>>
             w == <<z>>
             f == u \o w
             g == <<x, y, z>>
  <2>1. u \in Seq(S) /\ w \in Seq(S)
    BY SingleIs, PairIs
  <2>2. Len(u) = 2 /\ u[1] = x /\ u[2] = y /\ Len(w) = 1 /\ w[1] = z
    BY ONLY TRUE
  <2>3. /\ g = [i \in 1 .. 3 |-> g[i]] /\ g[1] = x /\ g[2] = y /\ g[3] = z
        /\ \A i \in 1 .. 3 : i = 1 \/ i = 2 \/ i = 3
    BY ONLY TRUE
  <2> HIDE DEF u, w, g
  <2>4. /\ f \in Seq(S) /\ Len(f) = 3
        /\ \A i \in 1 .. 3 : f[i] = IF i <= 2 THEN u[i] ELSE w[i - 2]
    <3>1. /\ f \in Seq(S) /\ Len(f) = Len(u) + Len(w)
          /\ \A i \in 1 .. Len(u) + Len(w) :
               f[i] = IF i <= Len(u) THEN u[i] ELSE w[i - Len(u)]
      BY ONLY <2>1, ConcatProperties
    <3> HIDE DEF f
    <3>2. Len(u) + Len(w) = 3
      BY ONLY <2>2
    <3>3. QED
      BY ONLY <2>2, <3>1, <3>2
  <2> HIDE DEF f
  <2>5. f = [i \in 1 .. 3 |-> f[i]]
    BY ONLY <2>4, LenProperties
  <2>6. f[1] = x /\ f[2] = y /\ f[3] = z
    BY ONLY <2>2, <2>4
  <2>7. \A i \in 1 .. 3 : f[i] = g[i]
    BY ONLY <2>3, <2>6
  <2>8. f = g
    BY ONLY <2>3, <2>5, <2>7
  <2>9. QED
    BY ONLY <2>8 DEF f, u, w, g
<1>4. QED
  BY ONLY <1>1, <1>2, <1>3

LEMMA WordsTogether ==
  ASSUME NEW S, NEW x \in S, NEW y \in S, NEW z \in S
  PROVE  /\ <<>> \in Seq(S) /\ AllWords(<<>>)
         /\ <<x>> \in Seq(S) /\ (Word(x) => AllWords(<<x>>))
         /\ <<x, y>> \in Seq(S) /\ (Word(x) /\ Word(y) => AllWords(<<x, y>>))
         /\ <<x, y, z>> \in Seq(S)
         /\ (Word(x) /\ Word(y) /\ Word(z) => AllWords(<<x, y, z>>))
<1>1. <<>> \in Seq(S) /\ <<x>> \in Seq(S) /\ <<x, y>> \in Seq(S) /\ <<x, y, z>> \in Seq(S)
  BY ONLY x \in S, y \in S, z \in S
<1>2. AllWords(<<>>)
  <2>1. \A j \in 1 .. Len(<<>>) : FALSE
    BY ONLY TRUE
  <2>2. QED
    BY ONLY <2>1 DEF AllWords
<1>3. Word(x) => AllWords(<<x>>)
  <2>1. Len(<<x>>) = 1 /\ <<x>>[1] = x /\ \A j \in 1 .. 1 : j = 1
    BY ONLY TRUE
  <2>2. QED
    BY ONLY <2>1 DEF AllWords
<1>4. Word(x) /\ Word(y) => AllWords(<<x, y>>)
  <2> DEFINE v == <<x, y>>
  <2>1. Len(v) = 2 /\ v[1] = x /\ v[2] = y /\ \A j \in 1 .. 2 : j = 1 \/ j = 2
    BY ONLY TRUE
  <2> HIDE DEF v
  <2>2. Word(x) /\ Word(y) => AllWords(v)
    BY ONLY <2>1 DEF AllWords
  <2>3. QED
    BY ONLY <2>2 DEF v
<1>5. Word(x) /\ Word(y) /\ Word(z) => AllWords(<<x, y, z>>)
  <2> DEFINE v == <<x, y, z>>
  <2>1. Len(v) = 3 /\ v[1] = x /\ v[2] = y /\ v[3] = z
        /\ \A j \in 1 .. 3 : j = 1 \/ j = 2 \/ j = 3
    BY ONLY TRUE
  <2> HIDE DEF v
  <2>2. Word(x) /\ Word(y) /\ Word(z) => AllWords(v)
    BY ONLY <2>1 DEF AllWords
  <2>3. QED
    BY ONLY <2>2 DEF v
<1>6. QED
  BY ONLY <1>1, <1>2, <1>3, <1>4, <1>5

\* What a handler writes behind a colon is read back, after any number of words.
LEMMA BehindColon ==
  ASSUME NEW C, Marks \subseteq C, NEW ws, ws \in Seq(Seq(C)), AllWords(ws),
         NEW t \in Seq(C)
  PROVE  ClientReads(withTrailing(ws, t)) = ws \o <<t>>
<1>1. ClientReads(((Header \o Spaced(ws)) \o <<" ", ":">>) \o t) = ws \o <<t>>
  BY ONLY Marks \subseteq C, ws \in Seq(Seq(C)), AllWords(ws), t \in Seq(C), RelayRead
<1>2. QED
  BY ONLY <1>1 DEF withTrailing

LEMMA TrailingRead ==
  ASSUME NEW C, Marks \subseteq C
  PROVE  /\ \A t \in Seq(C) : ClientReads(withTrailing(<<>>, t)) = <<t>>
         /\ \A x, t \in Seq(C) :
              Word(x) => ClientReads(withTrailing(<<x>>, t)) = <<x, t>>
         /\ \A x, y, t \in Seq(C) :
              Word(x) /\ Word(y) => ClientReads(withTrailing(<<x, y>>, t)) = <<x, y, t>>
<1>1. ASSUME NEW x \in Seq(C), NEW y \in Seq(C), NEW t \in Seq(C)
      PROVE  /\ ClientReads(withTrailing(<<>>, t)) = <<t>>
             /\ Word(x) => ClientReads(withTrailing(<<x>>, t)) = <<x, t>>
             /\ Word(x) /\ Word(y) => ClientReads(withTrailing(<<x, y>>, t)) = <<x, y, t>>
  <2> DEFINE S == Seq(C)
  <2>1. x \in S /\ y \in S /\ t \in S
    OBVIOUS
  <2>2. ASSUME NEW ws, ws \in Seq(S), AllWords(ws)
        PROVE  ClientReads(withTrailing(ws, t)) = ws \o <<t>>
    BY ONLY Marks \subseteq C, t \in Seq(C), <2>2, BehindColon
  <2> HIDE DEF S
  <2>3. /\ <<>> \o <<t>> = <<t>>
        /\ <<x>> \o <<t>> = <<x, t>>
        /\ <<x, y>> \o <<t>> = <<x, y, t>>
    BY ONLY <2>1, Parameters3
  <2>4. /\ <<>> \in Seq(S) /\ AllWords(<<>>)
        /\ <<x>> \in Seq(S) /\ (Word(x) => AllWords(<<x>>))
        /\ <<x, y>> \in Seq(S) /\ (Word(x) /\ Word(y) => AllWords(<<x, y>>))
    <3>1. \A z \in S :
            /\ <<>> \in Seq(S) /\ AllWords(<<>>)
            /\ <<x>> \in Seq(S) /\ (Word(x) => AllWords(<<x>>))
            /\ <<x, y>> \in Seq(S) /\ (Word(x) /\ Word(y) => AllWords(<<x, y>>))
      BY ONLY <2>1, WordsTogether
    <3>2. QED
      BY ONLY <2>1, <3>1
  <2>5. ClientReads(withTrailing(<<>>, t)) = <<t>>
    BY ONLY <2>2, <2>3, <2>4, Zenon
  <2>6. Word(x) => ClientReads(withTrailing(<<x>>, t)) = <<x, t>>
    BY ONLY <2>2, <2>3, <2>4, Zenon
  <2>7. Word(x) /\ Word(y) => ClientReads(withTrailing(<<x, y>>, t)) = <<x, y, t>>
    BY ONLY <2>2, <2>3, <2>4, Zenon
  <2>8. QED
    BY ONLY <2>5, <2>6, <2>7
<1>2. QED
  BY ONLY <1>1, Zenon

\* The characters of lines, in every spelling.
LineCharacters == DOMAIN OtherCase \cup Range(OtherCase) \cup Marks \cup {"b", "+", "i", "k"}

\* Every spelling of a word is a word.
LEMMA SpellingIs ==
  ASSUME NEW n \in Seq(DOMAIN OtherCase), NEW name \in Spellings(n)
  PROVE  /\ name \in Seq(LineCharacters)
         /\ Word(n) => Word(name)
<1> DEFINE D == DOMAIN OtherCase
<1>1. PICK S : name = [p \in DOMAIN n |-> IF p \in S THEN OtherCase[n[p]] ELSE n[p]]
  BY DEF Spellings
<1>2. DOMAIN n = 1 .. Len(n) /\ Len(n) \in Nat /\ \A p \in 1 .. Len(n) : n[p] \in D
  BY LenProperties, ElementOfSeq
<1>3. \A p \in 1 .. Len(n) : /\ name[p] = n[p] \/ name[p] = OtherCase[n[p]]
                             /\ name[p] \in LineCharacters
  BY <1>1, <1>2 DEF LineCharacters, Range
<1>4. name \in Seq(LineCharacters) /\ Len(name) = Len(n) /\ DOMAIN name = 1 .. Len(n)
  <2>1. name = [p \in 1 .. Len(n) |-> name[p]]
    BY <1>1, <1>2
  <2>2. name \in [1 .. Len(n) -> LineCharacters]
    BY ONLY <1>3, <2>1
  <2>3. name \in Seq(LineCharacters)
    BY ONLY <1>2, <2>2
  <2>4. QED
    BY ONLY <1>2, <2>1, <2>3, LenProperties
<1>5. ASSUME Word(n)
      PROVE  Word(name)
  <2>1. \A p \in 1 .. Len(n) : n[p] # " "
    BY <1>5, WordIs
  <2>2. n[1] # ":" /\ n # <<>>
    BY <1>5 DEF Word
  <2>3. Len(n) # 0 /\ 1 \in 1 .. Len(n)
    <3>1. Len(n) # 0
      BY ONLY <2>2, n \in Seq(DOMAIN OtherCase), EmptySeq
    <3>2. QED
      BY ONLY <1>2, <3>1
  <2>4. \A p \in 1 .. Len(n) : OtherCase[n[p]] \in {" ", ":"} => OtherCase[n[p]] = n[p]
    BY <1>2, CaseAssumption
  <2>5. \A p \in 1 .. Len(n) : name[p] # " "
    BY <1>3, <2>1, <2>4
  <2>6. name[1] # ":"
    BY <1>3, <2>2, <2>3, <2>4
  <2>7. name # <<>>
    BY ONLY <1>4, <2>3, EmptySeq
  <2>8. QED
    BY <1>4, <2>5, <2>6, <2>7 DEF Word, Range
<1>6. QED
  BY <1>4, <1>5

\* A MODE line: two words, and an argument that is read exactly if it is a word.
LEMMA ModeLineRead ==
  ASSUME NEW C, Marks \subseteq C, NEW name \in Seq(C), NEW change \in Seq(C),
         NEW arg \in Seq(C), Word(name), Word(change)
  PROVE  /\ ClientReads(modeLine(name, change, <<>>)) = <<name, change>>
         /\ ClientReads(modeLine(name, change, <<arg>>)) = <<name, change, arg>> <=> Word(arg)
<1> DEFINE S == Seq(C)
           u == <<name, change>>
           w == <<name, change, arg>>
<1>1. name \in S /\ change \in S /\ arg \in S
  OBVIOUS
<1>2. /\ u \in Seq(S) /\ Len(u) = 2 /\ u[1] = name /\ u[2] = change /\ u # <<>>
      /\ w \in Seq(S) /\ Len(w) = 3 /\ w[1] = name /\ w[2] = change /\ w[3] = arg /\ w # <<>>
  <2> HIDE DEF S
  <2>1. QED
    BY ONLY <1>1
<1>3. u \o <<>> = u /\ u \o <<arg>> = w
  <2> HIDE DEF S
  <2>1. QED
    BY ONLY <1>1, Parameters3
<1>4. modeLine(name, change, <<>>) = Header \o Spaced(u)
  BY ONLY <1>3 DEF modeLine
<1>5. modeLine(name, change, <<arg>>) = Header \o Spaced(w)
  BY ONLY <1>3 DEF modeLine
<1> HIDE DEF u, w
<1>6. ClientReads(Header \o Spaced(u)) = u
  <2>1. \A j \in 1 .. Len(u) - 1 : Word(u[j])
    <3>1. \A j \in 1 .. Len(u) - 1 : j = 1
      BY ONLY <1>2
    <3>2. QED
      BY ONLY <1>2, <3>1, Word(name)
  <2>2. Word(u[Len(u)])
    BY ONLY <1>2, Word(change)
  <2>3. ClientReads(Header \o Spaced(u)) = u <=> Word(u[Len(u)])
    BY ONLY <1>2, <2>1, Marks \subseteq C, ModeRead
  <2>4. QED
    BY ONLY <2>2, <2>3
<1>7. ClientReads(Header \o Spaced(w)) = w <=> Word(arg)
  <2>1. \A j \in 1 .. Len(w) - 1 : Word(w[j])
    <3>1. \A j \in 1 .. Len(w) - 1 : j = 1 \/ j = 2
      BY ONLY <1>2
    <3>2. QED
      BY ONLY <1>2, <3>1, Word(name), Word(change)
  <2>2. w[Len(w)] = arg
    BY ONLY <1>2
  <2>3. ClientReads(Header \o Spaced(w)) = w <=> Word(w[Len(w)])
    BY ONLY <1>2, <2>1, Marks \subseteq C, ModeRead
  <2>4. QED
    BY ONLY <2>2, <2>3
<1>8. QED
  BY ONLY <1>4, <1>5, <1>6, <1>7 DEF u, w

\* The server's own texts and the letters of a mode.
LEMMA OwnTexts ==
  /\ ClientQuit \in Seq(LineCharacters) /\ ClientQuit # <<>>
  /\ ConnectionClosed \in Seq(LineCharacters) /\ ConnectionClosed # <<>>
  /\ Issuer \in Seq(LineCharacters)
  /\ <<"+", "i">> \in Seq(LineCharacters) /\ Word(<<"+", "i">>)
  /\ <<"+", "k">> \in Seq(LineCharacters) /\ Word(<<"+", "k">>)
<1> DEFINE C == LineCharacters
<1>1. \A x, y, z \in C : <<x, y, z>> \in Seq(C) /\ <<x>> \in Seq(C) /\ <<x, y, z>> # <<>>
  BY ONLY TRUE
<1>2. \A a, c \in C : a # " " /\ a # ":" /\ c # " " => <<a, c>> \in Seq(C) /\ Word(<<a, c>>)
  BY ShortWords
<1>3. {"b", "B", " ", "+", "i", "k"} \subseteq C
  BY DEF LineCharacters, Marks
<1> HIDE DEF C
<1>4. <<"b", " ", "b">> \in Seq(C) /\ <<"b", " ", "b">> # <<>>
  <2>1. "b" \in C /\ " " \in C
    BY <1>3
  <2>2. QED
    BY ONLY <1>1, <2>1, Zenon
<1>5. <<"b", " ", "B">> \in Seq(C) /\ <<"b", " ", "B">> # <<>>
  <2>1. "b" \in C /\ " " \in C /\ "B" \in C
    BY <1>3
  <2>2. QED
    BY ONLY <1>1, <2>1, Zenon
<1>6. <<"b">> \in Seq(C)
  <2>1. "b" \in C
    BY <1>3
  <2>2. QED
    BY ONLY <1>1, <2>1, Zenon
<1>7. "+" # " " /\ "+" # ":" /\ "i" # " " /\ "k" # " "
  OBVIOUS
<1>8. <<"+", "i">> \in Seq(C) /\ Word(<<"+", "i">>)
  <2>1. "+" \in C /\ "i" \in C
    BY <1>3
  <2>2. QED
    BY ONLY <1>2, <1>7, <2>1, Zenon
<1>9. <<"+", "k">> \in Seq(C) /\ Word(<<"+", "k">>)
  <2>1. "+" \in C /\ "k" \in C
    BY <1>3
  <2>2. QED
    BY ONLY <1>2, <1>7, <2>1, Zenon
<1>10. QED
  BY ONLY <1>4, <1>5, <1>6, <1>8, <1>9 DEF C, ClientQuit, ConnectionClosed, Issuer

\* The parameters one by one.
LEMMA GivenParameters ==
  ASSUME NEW ps, ps \in Seq(Seq(DOMAIN OtherCase)),
         \A j \in 1 .. Len(ps) - 1 : Word(ps[j])
  PROVE  /\ \A j \in 1 .. Len(ps) : ps[j] \in Seq(DOMAIN OtherCase) /\ ps[j] \in Seq(LineCharacters)
         /\ ps # <<>> => Len(ps) >= 1
         /\ Len(ps) >= 1 => 1 \in 1 .. Len(ps)
         /\ Len(ps) >= 2 => 2 \in 1 .. Len(ps) /\ Word(ps[1])
         /\ Len(ps) >= 3 => 3 \in 1 .. Len(ps) /\ Word(ps[2])
<1> DEFINE D == Seq(DOMAIN OtherCase)
<1>1. Len(ps) \in Nat /\ \A j \in 1 .. Len(ps) : ps[j] \in D
  <2>1. ps \in Seq(D)
    OBVIOUS
  <2> HIDE DEF D
  <2>2. QED
    BY ONLY <2>1, LenProperties, ElementOfSeq
<1>2. \A t \in D : t \in Seq(LineCharacters)
  BY SeqMonotonic DEF LineCharacters
<1>3. ps # <<>> => Len(ps) # 0
  BY ONLY ps \in Seq(Seq(DOMAIN OtherCase)), EmptySeq
<1> HIDE DEF D
<1>4. /\ Len(ps) # 0 => Len(ps) >= 1
      /\ Len(ps) >= 1 => 1 \in 1 .. Len(ps)
      /\ Len(ps) >= 2 => 2 \in 1 .. Len(ps) /\ 1 \in 1 .. Len(ps) - 1
      /\ Len(ps) >= 3 => 3 \in 1 .. Len(ps) /\ 2 \in 1 .. Len(ps) - 1
  BY ONLY <1>1
<1>5. /\ Len(ps) >= 2 => Word(ps[1])
      /\ Len(ps) >= 3 => Word(ps[2])
  BY ONLY <1>4, \A j \in 1 .. Len(ps) - 1 : Word(ps[j])
<1>6. QED
  BY ONLY <1>1, <1>2, <1>3, <1>4, <1>5 DEF D

\* What other clients are told of a command reaches them as its sender wrote it:
\* NICK, TOPIC, INVITE, KICK and a PRIVMSG to a channel, whose handlers write a
\* colon before the last parameter, as it stands; JOIN and a PRIVMSG to a client in
\* the spelling the server keeps (Join.cpp:102, Privmsg.cpp:106); QUIT with the
\* server's reason where the sender gave none (Server.cpp:194); and MODE, which
\* broadcastModeChange writes without a colon, exactly if its argument is a word.
THEOREM RelayCorrect == Spec => []RelayFaithful
<1> DEFINE C == LineCharacters
<1>1. Marks \subseteq C
  BY DEF LineCharacters
<1>2. /\ ClientQuit \in Seq(C) /\ ClientQuit # <<>>
      /\ ConnectionClosed \in Seq(C) /\ ConnectionClosed # <<>> /\ Issuer \in Seq(C)
      /\ <<"+", "i">> \in Seq(C) /\ Word(<<"+", "i">>)
      /\ <<"+", "k">> \in Seq(C) /\ Word(<<"+", "k">>)
  BY OwnTexts
<1> HIDE DEF C
<1>3. /\ \A t \in Seq(C) : ClientReads(withTrailing(<<>>, t)) = <<t>>
      /\ \A x, t \in Seq(C) : Word(x) => ClientReads(withTrailing(<<x>>, t)) = <<x, t>>
      /\ \A x, y, t \in Seq(C) :
           Word(x) /\ Word(y) => ClientReads(withTrailing(<<x, y>>, t)) = <<x, y, t>>
  BY ONLY <1>1, TrailingRead
<1>4. ASSUME Typed, kind = "line", parse(text).valid
      PROVE  LET ps == parse(text).parameters
             IN /\ QuitTold(ps)
                /\ Len(ps) >= 1 => OneTold(ps)
                /\ Len(ps) >= 2 => TwoTold(ps) /\ KickTold(ps) /\ ModeTold(ps)
  <2> DEFINE D == DOMAIN OtherCase
             ps == parse(text).parameters
  <2>1. text \in Seq(D)
    BY <1>4, TextAssumption, SeqMonotonic DEF Typed
  <2>2. ps \in Seq(Seq(D)) /\ \A j \in 1 .. Len(ps) - 1 : Word(ps[j])
    BY <1>4, <2>1, ParametersOfCommand
  <2> HIDE DEF ps
  <2>3. /\ \A j \in 1 .. Len(ps) : ps[j] \in Seq(D) /\ ps[j] \in Seq(C)
        /\ ps # <<>> => Len(ps) >= 1
        /\ Len(ps) >= 1 => 1 \in 1 .. Len(ps)
        /\ Len(ps) >= 2 => 2 \in 1 .. Len(ps) /\ Word(ps[1])
        /\ Len(ps) >= 3 => 3 \in 1 .. Len(ps) /\ Word(ps[2])
    BY ONLY <2>2, GivenParameters DEF C
  <2>4. ASSUME NEW n \in Seq(D), NEW name \in Spellings(n)
        PROVE  name \in Seq(C) /\ (Word(n) => Word(name))
    BY ONLY <2>4, SpellingIs DEF C
  <2>5. Len(ps) >= 2 => Len(ps) >= 1
    <3>1. Len(ps) \in Nat
      BY <2>2, LenProperties
    <3>2. QED
      BY ONLY <3>1
  <2> HIDE DEF D
  <2>6. QuitTold(ps)
    <3> DEFINE given == IF ps = <<>> THEN ClientQuit ELSE ps[1]
               reason == IF given = <<>> THEN ConnectionClosed ELSE given
    <3>1. given \in Seq(C) /\ (ps # <<>> => given = ps[1])
      BY <1>2, <2>3
    <3>2. quitLine(ps) = withTrailing(<<>>, reason)
      BY DEF quitLine
    <3> HIDE DEF given
    <3>3. reason \in Seq(C) /\ reason # <<>> /\ (given # <<>> => reason = given)
      BY ONLY <1>2, <3>1
    <3> HIDE DEF reason
    <3>4. ClientReads(quitLine(ps)) = <<reason>>
      BY ONLY <1>3, <3>2, <3>3
    <3>5. Len(<<reason>>) = 1 /\ <<reason>>[1] = reason
      BY ONLY TRUE
    <3>6. ps # <<>> /\ ps[1] # <<>> => <<reason>> = <<ps[1]>>
      BY ONLY <3>1, <3>3
    <3>7. QED
      BY ONLY <3>3, <3>4, <3>5, <3>6 DEF QuitTold
  <2>7. ASSUME Len(ps) >= 1
        PROVE  OneTold(ps)
    <3>1. ps[1] \in Seq(D) /\ ps[1] \in Seq(C)
      BY <2>3, <2>7
    <3>2. ClientReads(nickLine(ps)) = <<ps[1]>>
      BY ONLY <1>3, <3>1 DEF nickLine
    <3>3. \A name \in Spellings(ps[1]) : ClientReads(joinLine(name)) = <<name>>
      BY ONLY <1>3, <2>4, <3>1 DEF joinLine
    <3>4. QED
      BY ONLY <3>2, <3>3 DEF OneTold
  <2>8. ASSUME Len(ps) >= 2
        PROVE  TwoTold(ps) /\ KickTold(ps) /\ ModeTold(ps)
    <3>1. ps[1] \in Seq(D) /\ ps[1] \in Seq(C) /\ Word(ps[1]) /\ ps[2] \in Seq(C)
      BY <2>3, <2>5, <2>8
    <3>2. \A name \in Spellings(ps[1]) : name \in Seq(C) /\ Word(name)
      BY ONLY <2>4, <3>1
    <3>3. ClientReads(topicLine(ps)) = <<ps[1], ps[2]>>
      BY ONLY <1>3, <3>1 DEF topicLine
    <3>4. ClientReads(inviteLine(ps)) = <<ps[1], ps[2]>>
      BY ONLY <1>3, <3>1 DEF inviteLine
    <3>5. ASSUME NEW owner \in Spellings(ps[1])
          PROVE  LET target == IF namesChannel(ps[1]) THEN ps[1] ELSE owner
                 IN ClientReads(privmsgLine(ps, owner)) = <<target, ps[2]>>
      <4> DEFINE target == IF namesChannel(ps[1]) THEN ps[1] ELSE owner
      <4>1. target \in Seq(C) /\ Word(target)
        BY ONLY <3>1, <3>2, owner \in Spellings(ps[1])
      <4>2. privmsgLine(ps, owner) = withTrailing(<<target>>, ps[2])
        BY ONLY TRUE DEF privmsgLine
      <4> HIDE DEF target
      <4>3. ClientReads(privmsgLine(ps, owner)) = <<target, ps[2]>>
        BY ONLY <1>3, <3>1, <4>1, <4>2
      <4>4. QED
        BY ONLY <4>3 DEF target
    <3>6. KickTold(ps)
      <4> DEFINE reason == IF Len(ps) >= 3 THEN ps[3] ELSE Issuer
      <4>1. reason \in Seq(C)
        BY <1>2, <2>3
      <4>2. isValidNickname(ps[2]) => Word(ps[2])
        BY NicknameIsWord
      <4>3. kickLine(ps) = withTrailing(<<ps[1], ps[2]>>, reason)
        BY ONLY TRUE DEF kickLine
      <4> HIDE DEF reason
      <4>4. isValidNickname(ps[2]) => ClientReads(kickLine(ps)) = <<ps[1], ps[2], reason>>
        BY ONLY <1>3, <3>1, <4>1, <4>2, <4>3
      <4>5. QED
        BY ONLY <4>4 DEF KickTold, reason
    <3>7. ModeTold(ps)
      <4>1. ASSUME NEW name \in Seq(C), NEW change \in Seq(C), NEW arg \in Seq(C),
                   Word(name), Word(change)
            PROVE  /\ ClientReads(modeLine(name, change, <<>>)) = <<name, change>>
                   /\ ClientReads(modeLine(name, change, <<arg>>)) = <<name, change, arg>>
                        <=> Word(arg)
        BY ONLY <1>1, <4>1, ModeLineRead
      <4>2. ASSUME NEW name \in Spellings(ps[1])
            PROVE  /\ ClientReads(modeLine(name, <<"+", "i">>, <<>>)) = <<name, <<"+", "i">> >>
                   /\ Len(ps) >= 3 =>
                        (ClientReads(modeLine(name, <<"+", "k">>, <<ps[3]>>)) =
                           <<name, <<"+", "k">>, ps[3]>> <=> Word(ps[3]))
        <5> DEFINE i == <<"+", "i">>
                   k == <<"+", "k">>
        <5>1. i \in Seq(C) /\ Word(i) /\ k \in Seq(C) /\ Word(k)
          BY <1>2
        <5> HIDE DEF i, k
        <5>2. name \in Seq(C) /\ Word(name)
          BY ONLY <3>2, name \in Spellings(ps[1])
        <5>3. ClientReads(modeLine(name, i, <<>>)) = <<name, i>>
          BY ONLY <3>1, <4>1, <5>1, <5>2
        <5>4. ASSUME Len(ps) >= 3
              PROVE  ClientReads(modeLine(name, k, <<ps[3]>>)) = <<name, k, ps[3]>>
                       <=> Word(ps[3])
          <6>1. ps[3] \in Seq(C)
            BY <2>3, <5>4
          <6>2. QED
            BY ONLY <4>1, <5>1, <5>2, <6>1
        <5>5. QED
          BY ONLY <5>3, <5>4 DEF i, k
      <4>3. QED
        BY ONLY <4>2 DEF ModeTold
    <3>8. QED
      BY ONLY <3>3, <3>4, <3>5, <3>6, <3>7 DEF TwoTold
  <2>9. QED
    BY ONLY <2>6, <2>7, <2>8 DEF ps
<1>5. Typed => RelayFaithful
  BY <1>4 DEF RelayFaithful
<1>6. QED
  BY <1>5, TypedAlways, PTL

\* Concatenation is associative, as a name for the provers.
Regroups(u, x, t) == u \o (x \o t) = (u \o x) \o t

LEMMA RegroupsIs ==
  ASSUME NEW C, NEW u \in Seq(C), NEW x \in Seq(C), NEW t \in Seq(C)
  PROVE  Regroups(u, x, t)
BY Regroup DEF Regroups

\* A line in the order it is written and in the order it is read.
RegroupsAll(a, c, d, m, l) ==
  ((a \o (c \o d)) \o m) \o l = (a \o c) \o (d \o (m \o l))

LEMMA Regrouped ==
  ASSUME NEW C, NEW a \in Seq(C), NEW c \in Seq(C), NEW d \in Seq(C), NEW m \in Seq(C),
         NEW l \in Seq(C)
  PROVE  RegroupsAll(a, c, d, m, l)
<1>1. a \o c \in Seq(C) /\ m \o l \in Seq(C)
  BY ONLY a \in Seq(C), c \in Seq(C), m \in Seq(C), l \in Seq(C), ConcatProperties
<1> DEFINE h == a \o c
           e == m \o l
<1> HIDE DEF h, e
<1>2. h \in Seq(C) /\ e \in Seq(C)
  BY <1>1 DEF h, e
<1> DEFINE k == h \o d
<1>3. k \in Seq(C)
  BY ONLY <1>2, d \in Seq(C), ConcatProperties
<1> HIDE DEF k
<1>4. Regroups(a, c, d)
  BY ONLY a \in Seq(C), c \in Seq(C), d \in Seq(C), RegroupsIs
<1>5. Regroups(h, d, e)
  BY ONLY <1>2, d \in Seq(C), RegroupsIs
<1>6. Regroups(k, m, l)
  BY ONLY <1>3, m \in Seq(C), l \in Seq(C), RegroupsIs
<1>7. a \o (c \o d) = k
  BY ONLY <1>4, Zenon DEF Regroups, h, k
<1>8. (k \o m) \o l = k \o e
  BY ONLY <1>6, Zenon DEF Regroups, e
<1>9. k \o e = h \o (d \o e)
  BY ONLY <1>5, Zenon DEF Regroups, k
<1>10. QED
  BY ONLY <1>7, <1>8, <1>9, Zenon DEF RegroupsAll, h, e

\* What is read as the third parameter is a word, whatever was written there: a text
\* behind one space and in front of a colon, with neither at its own beginning.
LEMMA ThirdRead ==
  ASSUME NEW C, Marks \subseteq C, NEW x \in Seq(C), NEW y \in Seq(C), Word(x), Word(y),
         NEW z \in Seq(C), z # <<>>, z[1] # " ", z[1] # ":", NEW t \in Seq(C)
  PROVE  Word(ClientReads(withTrailing(<<x, y, z>>, t))[3])
<1> DEFINE S == Seq(C)
           m == <<" ", ":">>
           ws == <<x, y>>
           v == Header \o Spaced(ws)
           w == <<" ">> \o z
           e == m \o t
           r == w \o e
           s == v \o r
<1>1. PICK b \in C : b = " "
  BY DEF Marks
<1>2. m \in S
  <2>1. \A c, d \in C : <<c, d>> \in Seq(C)
    BY PairIs
  <2>2. " " \in C /\ ":" \in C
    BY DEF Marks
  <2>3. QED
    BY ONLY <2>1, <2>2, Zenon
<1>3. x \in S /\ y \in S /\ z \in S /\ t \in S
  OBVIOUS
<1>4. ws \in Seq(S) /\ AllWords(ws) /\ Append(ws, z) = <<x, y, z>>
  <2> HIDE DEF S
  <2>1. /\ <<x, y>> \in Seq(S) /\ (Word(x) /\ Word(y) => AllWords(<<x, y>>))
    BY ONLY <1>3, WordsTogether
  <2>2. <<x, y>> \o <<z>> = <<x, y, z>>
    BY ONLY <1>3, Parameters3
  <2>3. Append(<<x, y>>, z) = <<x, y>> \o <<z>>
    <3> DEFINE u == <<x, y>>
    <3> HIDE DEF u
    <3>1. u \in Seq(S)
      BY ONLY <2>1 DEF u
    <3>2. Append(u, z) = u \o <<z>>
      BY ONLY <1>3, <3>1, AppendIsConcat
    <3>3. QED
      BY ONLY <3>2 DEF u
  <2>4. QED
    BY <2>1, <2>2, <2>3
<1>5. Header \in S
  BY HeaderIs
<1>6. Spaced(ws) \in S /\ Spaced(<<x, y, z>>) = Spaced(ws) \o w
  <2> HIDE DEF ws
  <2>1. Spaced(ws) \in S /\ Spaced(Append(ws, z)) = Spaced(ws) \o (<<b>> \o z)
    BY ONLY <1>1, <1>3, <1>4, SpacedAppend
  <2>2. QED
    BY ONLY <1>1, <1>4, <2>1
<1>7. /\ w \in S /\ w[1] = " " /\ w[2] = z[1]
      /\ Len(z) \in Nat /\ Len(w) = Len(z) + 1 /\ Len(z) # 0
  <2> DEFINE u == <<b>> \o z
  <2>1. u \in S /\ Len(z) \in Nat /\ Len(u) = Len(z) + 1
    BY ONLY b \in C, z \in Seq(C), FirstAnd
  <2>2. u[1] = b /\ \A i \in 1 .. Len(z) : u[i + 1] = z[i]
    BY ONLY b \in C, z \in Seq(C), FirstAnd
  <2>3. w = u
    BY <1>1
  <2> HIDE DEF u, w, S
  <2>4. Len(z) # 0
    BY ONLY z \in Seq(C), z # <<>>, EmptySeq
  <2>5. 1 \in 1 .. Len(z) /\ 1 + 1 = 2
    BY ONLY <2>1, <2>4
  <2>6. u[2] = z[1]
    BY ONLY <2>2, <2>5
  <2>7. QED
    BY ONLY <1>1, <2>1, <2>2, <2>3, <2>4, <2>6
<1> HIDE DEF m, w
<1>8. Len(w) \in Nat /\ Len(w) >= 2
  <2>1. Len(z) \in Nat /\ Len(w) = Len(z) + 1 /\ Len(z) # 0
    BY <1>7
  <2>2. QED
    BY ONLY <2>1
<1>9. e \in S /\ Len(e) \in Nat
  BY ONLY <1>2, <1>3, ConcatProperties, LenProperties
<1> HIDE DEF e
<1>10. /\ r \in S /\ Len(r) = Len(w) + Len(e)
       /\ \A i \in 1 .. Len(w) + Len(e) : r[i] = IF i <= Len(w) THEN w[i] ELSE e[i - Len(w)]
  BY ONLY <1>7, <1>9, ConcatProperties
<1> HIDE DEF r
<1>11. r[1] = " " /\ r[2] = z[1]
  <2>1. /\ 1 \in 1 .. Len(w) + Len(e) /\ 1 <= Len(w)
        /\ 2 \in 1 .. Len(w) + Len(e) /\ 2 <= Len(w)
    <3>1. Len(e) \in Nat
      BY <1>9
    <3>2. QED
      BY ONLY <1>8, <3>1
  <2>2. r[1] = w[1] /\ r[2] = w[2]
    BY ONLY <1>10, <2>1
  <2>3. QED
    BY <1>7, <2>2
<1>12. Len(r) \in Nat /\ Len(r) >= 2 /\ Len(r) # 0
  <2>1. Len(e) \in Nat /\ Len(r) = Len(w) + Len(e)
    BY <1>9, <1>10
  <2>2. QED
    BY ONLY <1>8, <2>1
<1>13. withTrailing(<<x, y, z>>, t) = s
  <2> DEFINE sp == Spaced(ws)
  <2>1. withTrailing(<<x, y, z>>, t) = ((Header \o (sp \o w)) \o m) \o t
    BY ONLY <1>6 DEF withTrailing, m
  <2>2. sp \in S /\ w \in S
    BY <1>6, <1>7
  <2> HIDE DEF sp, v, ws
  <2>3. ((Header \o (sp \o w)) \o m) \o t = (Header \o sp) \o (w \o (m \o t))
    <3>1. Header \in Seq(C) /\ sp \in Seq(C) /\ w \in Seq(C) /\ m \in Seq(C)
      BY <1>2, <1>5, <2>2
    <3>2. RegroupsAll(Header, sp, w, m, t)
      BY ONLY <3>1, t \in Seq(C), Regrouped
    <3>3. QED
      BY ONLY <3>2, Zenon DEF RegroupsAll
  <2>4. QED
    BY ONLY <2>1, <2>3 DEF e, r, v, sp
<1>14. v \in S /\ Len(v) \in Nat
  BY ONLY <1>5, <1>6, ConcatProperties, LenProperties
<1>15. ClientReads(v \o r) = ws \o parameters(v \o r, Len(v) + 1)
  <2>1. Behind(r) /\ r # <<>>
    <3>1. r # <<>>
      BY ONLY <1>10, <1>12, EmptySeq
    <3>2. QED
      BY <1>11, <3>1 DEF Behind
  <2> HIDE DEF ws
  <2>2. QED
    BY ONLY <1>4, <1>10, <2>1, Marks \subseteq C, WordsRead
<1> HIDE DEF v
<1>16. /\ s \in S /\ Len(s) = Len(v) + Len(r)
       /\ \A i \in 1 .. Len(v) + Len(r) : s[i] = IF i <= Len(v) THEN v[i] ELSE r[i - Len(v)]
  BY ONLY <1>10, <1>14, ConcatProperties
<1> DEFINE q == Len(v) + 1
           start == skipSpaces(s, q)
           end == tokenEnd(s, start)
           first == SubSeq(s, start, end - 1)
           rest == parameters(s, end)
<1> HIDE DEF s
<1>17. q \in 1 .. Len(s) /\ q \in 1 .. Len(s) + 1 /\ q + 1 \in 1 .. Len(s) /\ Len(s) \in Nat /\ q \in Nat
  <2>1. Len(v) \in Nat /\ Len(s) = Len(v) + Len(r)
    BY <1>14, <1>16
  <2>2. QED
    BY ONLY <1>12, <2>1
<1>18. s[q] = " " /\ s[q + 1] = z[1]
  <2>1. /\ q \in 1 .. Len(v) + Len(r) /\ ~(q <= Len(v)) /\ q - Len(v) = 1
        /\ q + 1 \in 1 .. Len(v) + Len(r) /\ ~(q + 1 <= Len(v)) /\ (q + 1) - Len(v) = 2
    <3>1. Len(v) \in Nat
      BY <1>14
    <3>2. QED
      BY ONLY <1>12, <3>1
  <2>2. s[q] = r[1] /\ s[q + 1] = r[2]
    BY ONLY <1>16, <2>1
  <2>3. QED
    BY <1>11, <2>2
<1> HIDE DEF q
<1>19. /\ start \in q .. Len(s) + 1
       /\ \A i \in q .. start - 1 : s[i] = " "
       /\ start <= Len(s) => s[start] # " "
  BY <1>16, <1>17, SkipIs
<1> HIDE DEF start
<1>20. start = q + 1
  <2>1. ~(start > q + 1)
    <3>1. q + 1 \notin q .. start - 1
      BY <1>18, <1>19
    <3>2. start \in q .. Len(s) + 1
      BY <1>19
    <3>3. QED
      BY ONLY <1>17, <3>1, <3>2
  <2>2. start # q
    <3>1. start = q => start <= Len(s)
      BY ONLY <1>17
    <3>2. QED
      BY <1>18, <1>19, <3>1
  <2>3. start \in q .. Len(s) + 1
    BY <1>19
  <2>4. QED
    BY ONLY <1>17, <2>1, <2>2, <2>3
<1>21. start <= Len(s) /\ ~(start > Len(s)) /\ start \in Nat
  BY ONLY <1>17, <1>20
<1>22. s[start] # ":"
  BY <1>18, <1>20
<1>23. Word(first)
  BY <1>16, <1>17, <1>21, <1>22, TokenWord DEF start
<1>24. first \in S /\ end \in start + 1 .. Len(s) + 1
  BY <1>16, <1>17, <1>21, TokenAt DEF start
<1>25. end \in 1 .. Len(s) + 1
  <2>1. end \in start + 1 .. Len(s) + 1
    BY <1>24
  <2> HIDE DEF end
  <2>2. QED
    BY ONLY <1>21, <2>1
<1>26. rest \in Seq(S)
  <2> HIDE DEF end
  <2>1. QED
    BY ONLY <1>16, <1>25, ParametersShape
<1>27. parameters(s, q) = <<first>> \o rest
  <2>1. parameters(s, q) = IF start > Len(s) THEN <<>>
                           ELSE IF s[start] = ":" THEN <<SubSeq(s, start + 1, Len(s))>>
                           ELSE <<first>> \o rest
    BY <1>16, <1>17, ParametersStep DEF start
  <2> HIDE DEF first, rest
  <2>2. QED
    BY ONLY <1>21, <1>22, <2>1
<1> HIDE DEF first, rest
<1>28. (ws \o (<<first>> \o rest))[3] = first
  <2> DEFINE p == <<first>> \o rest
  <2>1. p \in Seq(S) /\ Len(rest) \in Nat /\ Len(p) = Len(rest) + 1 /\ p[1] = first
    <3>1. first \in S /\ rest \in Seq(S)
      BY <1>24, <1>26
    <3> HIDE DEF S
    <3>2. QED
      BY ONLY <3>1, FirstAnd
  <2>2. Len(ws) = 2
    BY ONLY TRUE
  <2> HIDE DEF p, ws
  <2>3. \A i \in 1 .. Len(ws) + Len(p) :
          (ws \o p)[i] = IF i <= Len(ws) THEN ws[i] ELSE p[i - Len(ws)]
    BY ONLY <1>4, <2>1, ConcatProperties
  <2>4. 3 \in 1 .. Len(ws) + Len(p) /\ ~(3 <= Len(ws)) /\ 3 - Len(ws) = 1
    BY ONLY <2>1, <2>2
  <2>5. (ws \o p)[3] = p[1]
    BY ONLY <2>3, <2>4
  <2>6. QED
    BY ONLY <2>1, <2>5 DEF p
<1>29. ClientReads(withTrailing(<<x, y, z>>, t)) = ws \o (<<first>> \o rest)
  BY ONLY <1>13, <1>15, <1>27 DEF s, q
<1>30. QED
  BY ONLY <1>23, <1>28, <1>29

\* The two words in front of the channel.
LEMMA NamesHeader ==
  ASSUME NEW C, Marks \cup {"b", "="} \subseteq C
  PROVE  Issuer \in Seq(C) /\ Word(Issuer) /\ <<"=">> \in Seq(C) /\ Word(<<"=">>)
<1>1. \A c \in C : c # " " /\ c # ":" => <<c>> \in Seq(C) /\ Word(<<c>>)
  BY ShortWords
<1>2. "b" \in C /\ "=" \in C /\ "b" # " " /\ "b" # ":" /\ "=" # " " /\ "=" # ":"
  OBVIOUS
<1>3. QED
  BY ONLY <1>1, <1>2, Zenon DEF Issuer

\* What a client reads in the list of two members.
LEMMA NamesRead ==
  ASSUME NEW C, Marks \cup {"b", "=", "@"} \subseteq C, NEW m \in Seq(C), NEW n \in Seq(C),
         isValidNickname(m), m[1] # "@", isValidNickname(n), n[1] # "@", NEW ops,
         NEW channel \in Seq(C), Word(channel)
  PROVE  ClientReadsNames(sendChannelNames(channel, <<m, n>>, ops)) =
           [channel |-> channel, names |-> Listed(<<m, n>>, ops)]
<1> DEFINE x == Shown(m, 1, ops)
           y == Shown(n, 2, ops)
           l == Tail(Spaced(<<x, y>>))
           ws == <<x, y>>
           equals == <<"=">>
<1>1. PICK b \in C : b = " "
  BY DEF Marks
<1>2. PICK a \in C : a = "@"
  OBVIOUS
<1>3. /\ x \in Seq(C) /\ Word(x) /\ (x[1] = "@" <=> 1 \in ops)
      /\ (IF 1 \in ops THEN Tail(x) ELSE x) = m
  BY <1>2, ShownIs
<1>4. /\ y \in Seq(C) /\ Word(y) /\ (y[1] = "@" <=> 2 \in ops)
      /\ (IF 2 \in ops THEN Tail(y) ELSE y) = n
  BY <1>2, ShownIs
<1> HIDE DEF x, y
<1>5. l \in Seq(C) /\ parameters(l, 1) = ws
  BY ONLY <1>1, <1>3, <1>4, Marks \cup {"b", "=", "@"} \subseteq C, ReadList
<1>6. namesList(<<m, n>>, ops) = l
  BY ONLY NamesListIs DEF x, y
<1> HIDE DEF l
<1>7. Issuer \in Seq(C) /\ Word(Issuer) /\ equals \in Seq(C) /\ Word(equals)
  BY NamesHeader
<1> HIDE DEF equals
<1> DEFINE words == <<Issuer, equals, channel>>
           p == words \o <<l>>
<1>8. ClientReads(sendChannelNames(channel, <<m, n>>, ops)) = p
  <2>1. sendChannelNames(channel, <<m, n>>, ops) = withTrailing(words, l)
    BY ONLY <1>6 DEF sendChannelNames, equals
  <2>2. words \in Seq(Seq(C)) /\ AllWords(words)
    <3> DEFINE S == Seq(C)
    <3>1. Issuer \in S /\ equals \in S /\ channel \in S
      BY <1>7
    <3> HIDE DEF S
    <3>2. words \in Seq(S) /\ (Word(Issuer) /\ Word(equals) /\ Word(channel) => AllWords(words))
      BY ONLY <3>1, WordsTogether
    <3>3. QED
      BY <1>7, <3>2 DEF S
  <2> HIDE DEF words
  <2>3. Marks \subseteq C
    OBVIOUS
  <2>4. ClientReads(withTrailing(words, l)) = words \o <<l>>
    BY ONLY <1>5, <2>2, <2>3, BehindColon
  <2>5. QED
    BY ONLY <2>1, <2>4
<1>9. p[3] = channel /\ p[4] = l
  <2> DEFINE S == Seq(C)
             e == <<l>>
  <2>1. Issuer \in S /\ equals \in S /\ channel \in S /\ l \in S
    BY <1>5, <1>7
  <2> HIDE DEF S
  <2>2. /\ words \in Seq(S) /\ Len(words) = 3 /\ words[3] = channel
        /\ e \in Seq(S) /\ Len(e) = 1 /\ e[1] = l
    BY ONLY <2>1
  <2> HIDE DEF words, e
  <2>3. \A i \in 1 .. Len(words) + Len(e) :
          (words \o e)[i] = IF i <= Len(words) THEN words[i] ELSE e[i - Len(words)]
    BY ONLY <2>2, ConcatProperties
  <2>4. /\ 3 \in 1 .. Len(words) + Len(e) /\ 3 <= Len(words)
        /\ 4 \in 1 .. Len(words) + Len(e) /\ ~(4 <= Len(words)) /\ 4 - Len(words) = 1
    BY ONLY <2>2
  <2>5. (words \o e)[3] = words[3] /\ (words \o e)[4] = e[1]
    BY ONLY <2>3, <2>4
  <2>6. QED
    BY ONLY <2>2, <2>5 DEF e
<1> HIDE DEF p
<1> DEFINE marked(w) == w[1] = "@"
<1>10. ClientReadsNames(sendChannelNames(channel, <<m, n>>, ops)) =
         [channel |-> channel,
          names |-> [j \in DOMAIN ws |->
            [op |-> marked(ws[j]),
             nick |-> IF marked(ws[j]) THEN Tail(ws[j]) ELSE ws[j]]]]
  BY ONLY <1>5, <1>8, <1>9 DEF ClientReadsNames
<1>11. DOMAIN ws = 1 .. 2 /\ ws[1] = x /\ ws[2] = y
  BY ONLY TRUE
<1> DEFINE ms == <<m, n>>
<1>12. ms[1] = m /\ ms[2] = n /\ \A j \in 1 .. 2 : j = 1 \/ j = 2
  BY ONLY TRUE
<1> HIDE DEF ws, ms
<1>13. ASSUME NEW j \in 1 .. 2
       PROVE  [op |-> marked(ws[j]), nick |-> IF marked(ws[j]) THEN Tail(ws[j]) ELSE ws[j]]
                = [op |-> j \in ops, nick |-> ms[j]]
  <2>1. /\ marked(ws[j]) <=> j \in ops
        /\ (IF j \in ops THEN Tail(ws[j]) ELSE ws[j]) = ms[j]
    <3>1. CASE j = 1
      BY <1>3, <1>11, <1>12, <3>1
    <3>2. CASE j = 2
      BY <1>4, <1>11, <1>12, <3>2
    <3>3. QED
      BY <1>12, <3>1, <3>2
  <2>2. marked(ws[j]) = (j \in ops)
    BY ONLY <2>1
  <2>3. (IF marked(ws[j]) THEN Tail(ws[j]) ELSE ws[j]) = ms[j]
    BY ONLY <2>1
  <2>4. QED
    BY ONLY <2>2, <2>3, Zenon
<1> DEFINE read == [j \in 1 .. 2 |->
             [op |-> marked(ws[j]), nick |-> IF marked(ws[j]) THEN Tail(ws[j]) ELSE ws[j]]]
<1>14. read = Listed(ms, ops)
  BY ONLY <1>13 DEF Listed
<1>15. ClientReadsNames(sendChannelNames(channel, ms, ops)) =
         [channel |-> channel, names |-> read]
  BY ONLY <1>10, <1>11 DEF ms
<1> HIDE DEF read
<1>16. QED
  BY ONLY <1>14, <1>15 DEF ms

\* With a space in the channel's name, another channel is read.
LEMMA ChannelRead ==
  ASSUME NEW C, Marks \cup {"b", "=", "@"} \subseteq C, NEW m \in Seq(C), NEW n \in Seq(C),
         isValidNickname(m), m[1] # "@", isValidNickname(n), n[1] # "@", NEW ops,
         NEW channel \in Seq(C), namesChannel(channel)
  PROVE  Word(ClientReadsNames(sendChannelNames(channel, <<m, n>>, ops)).channel)
<1> DEFINE l == namesList(<<m, n>>, ops)
           equals == <<"=">>
<1>1. l \in Seq(C)
  <2> DEFINE x == Shown(m, 1, ops)
             y == Shown(n, 2, ops)
  <2>1. PICK b \in C : b = " "
    BY DEF Marks
  <2>2. PICK a \in C : a = "@"
    OBVIOUS
  <2>3. x \in Seq(C) /\ Word(x)
    BY <2>2, ShownIs
  <2>4. y \in Seq(C) /\ Word(y)
    BY <2>2, ShownIs
  <2> HIDE DEF x, y
  <2>5. Tail(Spaced(<<x, y>>)) \in Seq(C)
    BY ONLY <2>1, <2>3, <2>4, ReadList
  <2>6. l = Tail(Spaced(<<x, y>>))
    BY ONLY NamesListIs DEF x, y
  <2>7. QED
    BY ONLY <2>5, <2>6
<1> HIDE DEF l
<1>2. Issuer \in Seq(C) /\ Word(Issuer) /\ equals \in Seq(C) /\ Word(equals)
  BY NamesHeader
<1> HIDE DEF equals
<1>3. channel # <<>> /\ channel[1] # " " /\ channel[1] # ":"
  BY DEF namesChannel
<1>4. Marks \subseteq C
  OBVIOUS
<1>5. Word(ClientReads(withTrailing(<<Issuer, equals, channel>>, l))[3])
  BY ONLY <1>1, <1>2, <1>3, <1>4, channel \in Seq(C), ThirdRead
<1>6. sendChannelNames(channel, <<m, n>>, ops) = withTrailing(<<Issuer, equals, channel>>, l)
  BY ONLY TRUE DEF sendChannelNames, equals, l
<1>7. ClientReadsNames(sendChannelNames(channel, <<m, n>>, ops)).channel
        = ClientReads(sendChannelNames(channel, <<m, n>>, ops))[3]
  BY ONLY TRUE DEF ClientReadsNames
<1>8. QED
  BY ONLY <1>5, <1>6, <1>7

\* The answer to JOIN is read back as the channel, the members and the operators
\* that sendChannelNames wrote into it (ServerUtils.cpp:162), whatever the two
\* nicknames are, as long as neither begins with the operators' mark, and exactly
\* if the channel has no space in its name, which JOIN does not look for.
THEOREM NamesCorrect == Spec => []NamesListReadable
<1>1. ASSUME Typed, NEW c \in 1 .. Len(text) - 1, NEW d \in 1 .. Len(text) - 1,
             c < d, namesChannel(SubSeq(text, 1, c)),
             \A j \in 1 .. 2 : isValidNickname(Members(c, d)[j]) /\ Members(c, d)[j][1] # "@",
             NEW ops \in SUBSET (1 .. 2)
      PROVE  ClientReadsNames(sendChannelNames(SubSeq(text, 1, c), Members(c, d), ops)) =
               [channel |-> SubSeq(text, 1, c), names |-> Listed(Members(c, d), ops)]
               <=> " " \notin Range(SubSeq(text, 1, c))
  <2> DEFINE C == Alphabet[kind] \cup Marks \cup {"b", "=", "@"}
             channel == SubSeq(text, 1, c)
             m == Part(c, d)
             n == Part(d, Len(text))
             ms == <<m, n>>
             read == ClientReadsNames(sendChannelNames(channel, ms, ops))
  <2>1. text \in Seq(C)
    BY <1>1, SeqMonotonic DEF Typed
  <2>2. Marks \cup {"b", "=", "@"} \subseteq C
    OBVIOUS
  <2> HIDE DEF C
  <2>3. channel \in Seq(C) /\ m \in Seq(C) /\ n \in Seq(C)
    <3>1. Len(text) \in Nat /\ \A i \in 1 .. Len(text) : text[i] \in C
      BY <2>1, LenProperties, ElementOfSeq
    <3>2. /\ c \in Int /\ d \in Int /\ c + 1 \in Int /\ d + 1 \in Int /\ Len(text) \in Int /\ 1 \in Int
          /\ \A i \in 1 .. c : i \in 1 .. Len(text)
          /\ \A i \in c + 1 .. d : i \in 1 .. Len(text)
          /\ \A i \in d + 1 .. Len(text) : i \in 1 .. Len(text)
      BY ONLY <3>1, c \in 1 .. Len(text) - 1, d \in 1 .. Len(text) - 1
    <3>3. QED
      BY <3>1, <3>2, SubSeqProperties DEF Part
  <2>4. ms[1] = m /\ ms[2] = n /\ Members(c, d) = ms
    BY ONLY TRUE DEF Members
  <2>5. namesChannel(channel)
    BY <1>1
  <2> HIDE DEF m, n, channel
  <2>6. isValidNickname(m) /\ m[1] # "@" /\ isValidNickname(n) /\ n[1] # "@"
    <3>1. \A j \in 1 .. 2 : isValidNickname(ms[j]) /\ ms[j][1] # "@"
      BY ONLY <1>1, <2>4
    <3>2. 1 \in 1 .. 2 /\ 2 \in 1 .. 2
      BY ONLY TRUE
    <3> HIDE DEF ms
    <3>3. isValidNickname(ms[1]) /\ ms[1][1] # "@" /\ isValidNickname(ms[2]) /\ ms[2][1] # "@"
      BY ONLY <3>1, <3>2
    <3>4. QED
      BY ONLY <2>4, <3>3
  <2>7. Word(channel) => read = [channel |-> channel, names |-> Listed(ms, ops)]
    BY <2>2, <2>3, <2>6, NamesRead, SMTT(30)
  <2>8. Word(read.channel)
    BY <2>2, <2>3, <2>5, <2>6, ChannelRead, SMTT(30)
  <2> HIDE DEF read, ms
  <2>9. Word(channel) <=> " " \notin Range(channel)
    BY <2>5 DEF Word, namesChannel
  <2>10. read = [channel |-> channel, names |-> Listed(ms, ops)] => read.channel = channel
    BY ONLY TRUE
  <2>11. read = [channel |-> channel, names |-> Listed(ms, ops)] <=> " " \notin Range(channel)
    BY ONLY <2>7, <2>8, <2>9, <2>10
  <2>12. QED
    BY ONLY <2>4, <2>11 DEF read, channel, ms
<1>2. Typed => NamesListReadable
  BY <1>1 DEF NamesListReadable
<1>3. QED
  BY <1>2, TypedAlways, PTL

\* The ten digits.
LEMMA NumeralsAre ==
  /\ Numerals = [i \in 1 .. 10 |-> Numerals[i]]
  /\ Numerals[1] = "0" /\ Numerals[2] = "1" /\ Numerals[3] = "2" /\ Numerals[4] = "3"
  /\ Numerals[5] = "4" /\ Numerals[6] = "5" /\ Numerals[7] = "6" /\ Numerals[8] = "7"
  /\ Numerals[9] = "8" /\ Numerals[10] = "9"
BY DEF Numerals

LEMMA NumeralsDiffer ==
  ASSUME NEW i \in 1 .. 10, NEW j \in 1 .. 10, Numerals[i] = Numerals[j]
  PROVE  i = j
<1>1. \A k \in 1 .. 10 : \/ k = 1 \/ k = 2 \/ k = 3 \/ k = 4 \/ k = 5
                         \/ k = 6 \/ k = 7 \/ k = 8 \/ k = 9 \/ k = 10
  BY ONLY TRUE
<1>2. QED
  BY <1>1, NumeralsAre

LEMMA DigitsAre ==
  /\ \A v \in 0 .. 9 : Numerals[v + 1] \in Digits /\ DigitValue(Numerals[v + 1]) = v
  /\ \A d \in Digits : DigitValue(d) \in 0 .. 9 /\ Numerals[DigitValue(d) + 1] = d
  /\ " " \notin Digits /\ "+" \notin Digits /\ "-" \notin Digits
<1>1. DOMAIN Numerals = 1 .. 10
  BY NumeralsAre
<1>2. Digits = {Numerals[i] : i \in 1 .. 10}
  BY <1>1 DEF Digits, Range
<1>3. \A v \in 0 .. 9 : v + 1 \in 1 .. 10
  BY ONLY TRUE
<1>4. \A i \in 1 .. 10 : i - 1 \in 0 .. 9 /\ (i - 1) + 1 = i
  BY ONLY TRUE
<1>5. ASSUME NEW v \in 0 .. 9
      PROVE  DigitValue(Numerals[v + 1]) = v
  <2> DEFINE u == DigitValue(Numerals[v + 1])
  <2>1. u \in 0 .. 9 /\ Numerals[u + 1] = Numerals[v + 1]
    BY DEF DigitValue
  <2> HIDE DEF u
  <2>2. u + 1 = v + 1
    BY ONLY <1>3, <2>1, v \in 0 .. 9, NumeralsDiffer
  <2>3. u = v
    BY ONLY <2>1, <2>2, v \in 0 .. 9
  <2>4. QED
    BY <2>3 DEF u
<1>6. \A v \in 0 .. 9 : Numerals[v + 1] \in Digits
  BY ONLY <1>2, <1>3
<1>7. ASSUME NEW d \in Digits
      PROVE  DigitValue(d) \in 0 .. 9 /\ Numerals[DigitValue(d) + 1] = d
  <2>1. PICK i \in 1 .. 10 : d = Numerals[i]
    BY <1>2
  <2>2. DigitValue(d) = i - 1
    BY <1>4, <1>5, <2>1
  <2>3. QED
    BY ONLY <1>4, <2>1, <2>2
<1>8. ASSUME NEW c, c \in Digits
      PROVE  c # " " /\ c # "+" /\ c # "-"
  <2>1. PICK i \in 1 .. 10 : c = Numerals[i]
    BY <1>2, <1>8
  <2>2. \/ i = 1 \/ i = 2 \/ i = 3 \/ i = 4 \/ i = 5
        \/ i = 6 \/ i = 7 \/ i = 8 \/ i = 9 \/ i = 10
    BY ONLY i \in 1 .. 10
  <2>3. QED
    BY <2>1, <2>2, NumeralsAre
<1>9. QED
  BY <1>5, <1>6, <1>7, <1>8

\* The number that digits stand for.
LEMMA MagnitudeChosen ==
  ASSUME NEW w
  PROVE  Magnitude(w) =
           (CHOOSE f : f = [p \in 0 .. Len(w) |->
              IF p = 0 THEN 0 ELSE 10 * f[p - 1] + DigitValue(w[p])])[Len(w)]
BY DEF Magnitude

LEMMA MagnitudeTurns ==
  ASSUME NEW w \in Seq(Digits)
  PROVE  \E f \in [0 .. Len(w) -> Nat] :
           /\ Magnitude(w) = f[Len(w)]
           /\ f[0] = 0
           /\ \A p \in 1 .. Len(w) : f[p] = 10 * f[p - 1] + DigitValue(w[p])
<1> DEFINE n == Len(w)
           D == 0 .. n
           v(p) == DigitValue(w[p])
           Turn(f) == [p \in D |-> IF p = 0 THEN 0 ELSE 10 * f[p - 1] + v(p)]
<1>1. n \in Nat
  BY LenProperties
<1>2. \A p \in 1 .. n : v(p) \in Nat
  <2>1. \A p \in 1 .. n : w[p] \in Digits
    BY ElementOfSeq
  <2>2. \A i \in 0 .. 9 : i \in Nat
    BY ONLY TRUE
  <2>3. QED
    BY <2>1, <2>2, DigitsAre
<1> HIDE DEF n, v
<1>3. /\ 0 \in D /\ n \in D
      /\ \A p \in D : p # 0 => p - 1 \in D /\ p - 1 < p /\ p \in 1 .. n
      /\ \A p \in 1 .. n : p \in D /\ p # 0
  BY ONLY <1>1
<1>4. \E f : f = Turn(f)
  <2> DEFINE rank == [p \in D |-> p]
             goes == [p \in D |-> p # 0]
             next == [p \in D |-> IF p = 0 THEN 0 ELSE p - 1]
             base == [p \in D |-> 0]
             step == [p \in D |-> [x \in Nat |-> IF p = 0 THEN 0 ELSE 10 * x + v(p)]]
  <2>1. rank \in [D -> 0 .. n] /\ goes \in [D -> BOOLEAN]
    BY ONLY <1>1
  <2>2. next \in [D -> D]
    <3> HIDE DEF D
    <3>1. QED
      BY ONLY <1>3
  <2>3. base \in [D -> Nat] /\ step \in [D -> [Nat -> Nat]]
    <3>1. \A p \in D : \A x \in Nat : (IF p = 0 THEN 0 ELSE 10 * x + v(p)) \in Nat
      <4>1. \A y \in Nat : \A x \in Nat : 10 * x + y \in Nat
        BY ONLY TRUE
      <4> HIDE DEF D
      <4>2. QED
        BY ONLY <1>2, <1>3, <4>1
    <3> HIDE DEF D
    <3>2. QED
      BY ONLY <3>1
  <2> HIDE DEF D
  <2>4. \A p \in D : /\ goes[p] <=> p # 0
                     /\ p # 0 => next[p] = p - 1
                     /\ base[p] = 0 /\ rank[p] = p
                     /\ \A x \in Nat : p # 0 => step[p][x] = 10 * x + v(p)
    BY ONLY TRUE
  <2> HIDE DEF rank, goes, next, base, step
  <2>5. Computable(D, Nat, n, rank, goes, next, base, step)
    <3>1. ASSUME NEW p \in D, goes[p]
          PROVE  rank[next[p]] < rank[p]
      <4>1. p # 0
        BY ONLY <2>4, <3>1
      <4>2. p - 1 \in D /\ p - 1 < p /\ next[p] = p - 1
        BY ONLY <1>3, <2>4, <4>1, p \in D
      <4>3. rank[p] = p /\ rank[p - 1] = p - 1
        BY ONLY <2>4, <4>2, p \in D
      <4>4. QED
        BY ONLY <4>2, <4>3
    <3>2. \A p \in D : goes[p] => rank[next[p]] < rank[p]
      BY <3>1
    <3>3. QED
      BY ONLY <1>1, <2>1, <2>2, <2>3, <3>2 DEF Computable
  <2>6. PICK f \in [D -> Nat] :
          \A p \in D : f[p] = IF goes[p] THEN step[p][f[next[p]]] ELSE base[p]
    <3>1. Computed(D, Nat, goes, next, base, step)
      BY ONLY <2>5, Recursion
    <3>2. QED
      BY <3>1 DEF Computed
  <2>7. \A p \in D : f[p] = IF p = 0 THEN 0 ELSE 10 * f[p - 1] + v(p)
    <3> SUFFICES ASSUME NEW p \in D
                 PROVE  f[p] = IF p = 0 THEN 0 ELSE 10 * f[p - 1] + v(p)
      OBVIOUS
    <3>1. CASE p = 0
      BY ONLY <2>4, <2>6, <3>1, p \in D
    <3>2. CASE p # 0
      <4>1. f[p - 1] \in Nat /\ goes[p] /\ next[p] = p - 1
        BY ONLY <1>3, <2>4, <3>2, p \in D, f \in [D -> Nat]
      <4>2. f[p] = step[p][f[p - 1]]
        BY ONLY <2>6, <4>1, p \in D
      <4>3. QED
        BY ONLY <2>4, <3>2, <4>1, <4>2, p \in D
    <3>3. QED
      BY <3>1, <3>2
  <2>8. QED
    BY <2>7
<1> DEFINE g == CHOOSE f : f = Turn(f)
<1>5. g = Turn(g)
  BY <1>4
<1>6. Magnitude(w) = g[n]
  BY MagnitudeChosen DEF n, v
<1> HIDE DEF g
<1>7. g[0] = 0 /\ \A p \in 1 .. n : g[p] = 10 * g[p - 1] + v(p)
  <2> HIDE DEF D
  <2>1. \A p \in D : g[p] = IF p = 0 THEN 0 ELSE 10 * g[p - 1] + v(p)
    BY <1>5
  <2>2. QED
    BY ONLY <1>3, <2>1
<1>8. \A p \in D : g[p] \in Nat
  <2> DEFINE T == {k \in Nat : k <= n => g[k] \in Nat}
  <2>1. 0 \in T
    BY ONLY <1>7
  <2>2. ASSUME NEW k \in Nat, k \in T
        PROVE  k + 1 \in T
    <3>1. ASSUME k + 1 <= n PROVE g[k + 1] \in Nat
      <4>1. g[k] \in Nat /\ k + 1 \in 1 .. n /\ (k + 1) - 1 = k
        BY ONLY <1>1, <2>2, <3>1, k \in Nat
      <4>2. g[k + 1] = 10 * g[k] + v(k + 1) /\ v(k + 1) \in Nat
        BY ONLY <1>2, <1>7, <4>1
      <4>3. QED
        BY ONLY <4>1, <4>2
    <3>2. QED
      BY ONLY <3>1, k \in Nat
  <2>3. \A k \in Nat : k \in T
    <3> HIDE DEF T
    <3>1. QED
      BY ONLY <2>1, <2>2, Induction
  <2>4. \A p \in D : p \in Nat /\ p <= n
    BY ONLY <1>1
  <2> HIDE DEF D
  <2>5. QED
    BY ONLY <2>3, <2>4
<1>9. g \in [D -> Nat]
  <2> HIDE DEF D
  <2>1. QED
    BY <1>5, <1>8
<1>10. QED
  BY <1>6, <1>7, <1>9 DEF n, v

\* One more digit.
LEMMA MagnitudeAppend ==
  ASSUME NEW w \in Seq(Digits), NEW d \in Digits
  PROVE  /\ Magnitude(<<>>) = 0
         /\ Magnitude(w) \in Nat
         /\ Magnitude(Append(w, d)) = 10 * Magnitude(w) + DigitValue(d)
<1> DEFINE more == Append(w, d)
           n == Len(w)
<1>1. /\ n \in Nat /\ more \in Seq(Digits) /\ Len(more) = n + 1
      /\ \A i \in 1 .. n : more[i] = w[i]
      /\ more[n + 1] = d
  BY ONLY w \in Seq(Digits), d \in Digits, LenProperties, AppendProperties
<1> HIDE DEF more
<1>2. PICK f \in [0 .. n -> Nat] :
        /\ Magnitude(w) = f[n] /\ f[0] = 0
        /\ \A p \in 1 .. n : f[p] = 10 * f[p - 1] + DigitValue(w[p])
  BY MagnitudeTurns
<1>3. PICK g \in [0 .. Len(more) -> Nat] :
        /\ Magnitude(more) = g[Len(more)] /\ g[0] = 0
        /\ \A p \in 1 .. Len(more) : g[p] = 10 * g[p - 1] + DigitValue(more[p])
  BY <1>1, MagnitudeTurns
<1> HIDE DEF n
<1>4. Magnitude(<<>>) = 0
  <2>1. <<>> \in Seq(Digits) /\ Len(<<>>) = 0
    BY ONLY EmptySeq
  <2>2. QED
    BY <2>1, MagnitudeTurns
<1> DEFINE T == {k \in Nat : k <= n => g[k] = f[k]}
<1>5. 0 \in T
  BY ONLY <1>2, <1>3
<1>6. ASSUME NEW k \in Nat, k \in T
      PROVE  k + 1 \in T
  <2>1. ASSUME k + 1 <= n
        PROVE  g[k + 1] = f[k + 1]
    <3>1. g[k] = f[k] /\ k + 1 \in 1 .. n /\ k + 1 \in 1 .. Len(more) /\ (k + 1) - 1 = k
      BY ONLY <1>1, <1>6, <2>1, k \in Nat
    <3>2. f[k + 1] = 10 * f[k] + DigitValue(w[k + 1])
      BY ONLY <1>2, <3>1
    <3>3. g[k + 1] = 10 * g[k] + DigitValue(more[k + 1])
      BY ONLY <1>3, <3>1
    <3>4. more[k + 1] = w[k + 1]
      BY ONLY <1>1, <3>1
    <3>5. QED
      BY ONLY <3>1, <3>2, <3>3, <3>4
  <2>2. QED
    BY ONLY <2>1, k \in Nat
<1>7. \A k \in Nat : k \in T
  <2> HIDE DEF T
  <2>1. QED
    BY ONLY <1>5, <1>6, Induction
<1>8. g[n] = f[n]
  <2>1. n \in T /\ n <= n
    BY ONLY <1>1, <1>7
  <2>2. QED
    BY ONLY <2>1
<1>9. f[n] \in Nat /\ n + 1 \in 1 .. Len(more) /\ (n + 1) - 1 = n
  BY ONLY <1>1, f \in [0 .. n -> Nat]
<1>10. g[n + 1] = 10 * g[n] + DigitValue(d)
  BY ONLY <1>1, <1>3, <1>9
<1>11. Magnitude(more) = 10 * Magnitude(w) + DigitValue(d)
  BY ONLY <1>1, <1>2, <1>3, <1>8, <1>10
<1>12. QED
  BY ONLY <1>2, <1>4, <1>9, <1>11 DEF more

\* The decimal notation.
LEMMA DecimalChosen ==
  ASSUME NEW n
  PROVE  Decimal(n) =
           (CHOOSE f : f = [m \in 0 .. n |->
              IF m < 10 THEN <<Numerals[m + 1]>>
              ELSE Append(f[m \div 10], Numerals[(m % 10) + 1])])[n]
BY DEF Decimal

LEMMA Tenth ==
  ASSUME NEW m \in Nat
  PROVE  /\ m \div 10 \in Nat /\ m % 10 \in 0 .. 9 /\ m = 10 * (m \div 10) + (m % 10)
         /\ m \div 10 <= m /\ (m >= 10 => m \div 10 < m /\ m \div 10 >= 1)
OBVIOUS

LEMMA DecimalTurns ==
  ASSUME NEW n \in Nat
  PROVE  \E f \in [0 .. n -> Seq(Digits)] :
           /\ Decimal(n) = f[n]
           /\ \A m \in 0 .. n : f[m] = IF m < 10 THEN <<Numerals[m + 1]>>
                                       ELSE Append(f[m \div 10], Numerals[(m % 10) + 1])
<1> DEFINE D == 0 .. n
           S == Seq(Digits)
           d(m) == Numerals[(m % 10) + 1]
           one(m) == <<Numerals[m + 1]>>
           Turn(f) == [m \in D |-> IF m < 10 THEN one(m) ELSE Append(f[m \div 10], d(m))]
<1>1. \A m \in D : d(m) \in Digits /\ (m < 10 => one(m) \in S)
  <2>1. ASSUME NEW m \in D
        PROVE  d(m) \in Digits
    <3>1. m % 10 \in 0 .. 9
      BY ONLY m \in D, n \in Nat
    <3>2. QED
      BY <3>1, DigitsAre
  <2>2. ASSUME NEW m \in D, m < 10
        PROVE  one(m) \in S
    <3>1. m \in 0 .. 9
      BY ONLY <2>2, n \in Nat
    <3>2. Numerals[m + 1] \in Digits
      BY ONLY <3>1, DigitsAre
    <3>3. QED
      BY ONLY <3>2, SingleIs
  <2>3. QED
    BY <2>1, <2>2
<1>2. \A m \in D : /\ m \in Nat /\ m <= n
                   /\ m \div 10 \in D
                   /\ ~(m < 10) => m \div 10 < m
  BY ONLY n \in Nat, Tenth
<1> HIDE DEF d, one
<1>3. \E f : f = Turn(f)
  <2> DEFINE rank == [m \in D |-> m]
             goes == [m \in D |-> ~(m < 10)]
             next == [m \in D |-> m \div 10]
             base == [m \in D |-> IF m < 10 THEN one(m) ELSE <<>>]
             step == [m \in D |-> [x \in S |-> Append(x, d(m))]]
  <2>1. rank \in [D -> 0 .. n] /\ goes \in [D -> BOOLEAN]
    BY ONLY TRUE
  <2>2. next \in [D -> D]
    <3> HIDE DEF D
    <3>1. QED
      BY ONLY <1>2
  <2>3. <<>> \in S
    BY ONLY EmptySeq
  <2>4. \A m \in D : \A x \in S : Append(x, d(m)) \in S
    BY ONLY <1>1, AppendProperties
  <2> HIDE DEF D, S
  <2>5. base \in [D -> S] /\ step \in [D -> [S -> S]]
    BY ONLY <1>1, <2>3, <2>4
  <2>6. \A m \in D : /\ goes[m] <=> ~(m < 10)
                     /\ next[m] = m \div 10 /\ rank[m] = m
                     /\ m < 10 => base[m] = one(m)
                     /\ \A x \in S : step[m][x] = Append(x, d(m))
    BY ONLY TRUE
  <2> HIDE DEF rank, goes, next, base, step
  <2>7. Computable(D, S, n, rank, goes, next, base, step)
    <3>1. ASSUME NEW m \in D, goes[m]
          PROVE  rank[next[m]] < rank[m]
      <4>1. m \div 10 \in D /\ m \div 10 < m
        BY ONLY <1>2, <2>6, <3>1
      <4>2. next[m] = m \div 10 /\ rank[m] = m /\ rank[m \div 10] = m \div 10
        BY ONLY <2>6, <4>1, m \in D
      <4>3. QED
        BY ONLY <4>1, <4>2
    <3>2. \A m \in D : goes[m] => rank[next[m]] < rank[m]
      BY <3>1
    <3>3. QED
      BY ONLY <2>1, <2>2, <2>5, <3>2, n \in Nat DEF Computable
  <2>8. PICK f \in [D -> S] :
          \A m \in D : f[m] = IF goes[m] THEN step[m][f[next[m]]] ELSE base[m]
    <3>1. Computed(D, S, goes, next, base, step)
      BY ONLY <2>7, Recursion
    <3>2. QED
      BY <3>1 DEF Computed
  <2>9. \A m \in D : f[m] = IF m < 10 THEN one(m) ELSE Append(f[m \div 10], d(m))
    <3> SUFFICES ASSUME NEW m \in D
                 PROVE  f[m] = IF m < 10 THEN one(m) ELSE Append(f[m \div 10], d(m))
      OBVIOUS
    <3>1. CASE m < 10
      BY ONLY <2>6, <2>8, <3>1, m \in D
    <3>2. CASE ~(m < 10)
      <4>1. f[m \div 10] \in S /\ goes[m] /\ next[m] = m \div 10
        BY ONLY <1>2, <2>6, <3>2, m \in D, f \in [D -> S]
      <4>2. f[m] = step[m][f[m \div 10]]
        BY ONLY <2>8, <4>1, m \in D
      <4>3. QED
        BY ONLY <2>6, <3>2, <4>1, <4>2, m \in D
    <3>3. QED
      BY <3>1, <3>2
  <2>10. QED
    BY <2>9
<1> DEFINE g == CHOOSE f : f = Turn(f)
<1>4. g = Turn(g)
  BY <1>3
<1>5. Decimal(n) = g[n]
  BY DecimalChosen DEF d, one
<1> HIDE DEF g
<1>6. \A m \in D : g[m] = IF m < 10 THEN one(m) ELSE Append(g[m \div 10], d(m))
  <2> HIDE DEF D
  <2>1. QED
    BY <1>4
<1>7. \A m \in D : g[m] \in S
  <2> DEFINE Bad == {m \in D : g[m] \notin S}
  <2>1. SUFFICES ASSUME Bad # {} PROVE FALSE
    OBVIOUS
  <2>2. Bad \in SUBSET Nat
    BY ONLY <1>2
  <2>3. PICK m \in Bad : \A k \in Bad : m <= k
    BY <2>1, <2>2, LeastNumber
  <2>4. m \in D /\ g[m] \notin S
    BY ONLY <2>3
  <2>5. ~(m < 10)
    BY ONLY <1>1, <1>6, <2>4
  <2>6. m \div 10 \in D /\ m \div 10 \notin Bad
    <3>1. m \div 10 \in D /\ m \div 10 \in Nat /\ m \in Nat /\ m \div 10 < m
      BY ONLY <1>2, <2>4, <2>5
    <3>2. ~(m <= m \div 10)
      BY ONLY <3>1
    <3>3. QED
      BY ONLY <2>3, <3>1, <3>2
  <2>7. g[m \div 10] \in S
    BY ONLY <2>6
  <2>8. Append(g[m \div 10], d(m)) \in S
    BY ONLY <1>1, <2>4, <2>7, AppendProperties
  <2>9. QED
    BY ONLY <1>6, <2>4, <2>5, <2>8
<1>8. g \in [D -> S]
  <2> HIDE DEF D, S
  <2>1. QED
    BY <1>4, <1>7
<1>9. QED
  BY <1>5, <1>6, <1>8 DEF d, one

\* The notation of a number continues that of its tenth part.
LEMMA DecimalStep ==
  ASSUME NEW n \in Nat
  PROVE  /\ Decimal(n) \in Seq(Digits)
         /\ n < 10 => Decimal(n) = <<Numerals[n + 1]>>
         /\ n >= 10 => Decimal(n) = Append(Decimal(n \div 10), Numerals[(n % 10) + 1])
<1> DEFINE k == n \div 10
           d(m) == Numerals[(m % 10) + 1]
           one(m) == <<Numerals[m + 1]>>
<1>1. k \in Nat /\ k <= n
  BY ONLY n \in Nat, Tenth
<1> HIDE DEF k, d, one
<1>2. PICK f \in [0 .. n -> Seq(Digits)] :
        /\ Decimal(n) = f[n]
        /\ \A m \in 0 .. n : f[m] = IF m < 10 THEN one(m) ELSE Append(f[m \div 10], d(m))
  BY DecimalTurns DEF d, one
<1>3. PICK g \in [0 .. k -> Seq(Digits)] :
        /\ Decimal(k) = g[k]
        /\ \A m \in 0 .. k : g[m] = IF m < 10 THEN one(m) ELSE Append(g[m \div 10], d(m))
  BY <1>1, DecimalTurns DEF d, one
<1>4. n \in 0 .. n /\ (n >= 10 <=> ~(n < 10))
  BY ONLY n \in Nat
<1>5. \A m \in 0 .. k : f[m] = g[m]
  <2> DEFINE Bad == {m \in 0 .. k : f[m] # g[m]}
  <2>1. SUFFICES ASSUME Bad # {} PROVE FALSE
    OBVIOUS
  <2>2. Bad \in SUBSET Nat
    BY ONLY <1>1
  <2>3. PICK m \in Bad : \A j \in Bad : m <= j
    BY <2>1, <2>2, LeastNumber
  <2>4. m \in 0 .. k /\ f[m] # g[m]
    BY ONLY <2>3
  <2>5. m \in Nat /\ m \in 0 .. n
    BY ONLY <1>1, <2>4, n \in Nat
  <2>6. f[m] = IF m < 10 THEN one(m) ELSE Append(f[m \div 10], d(m))
    BY ONLY <1>2, <2>5
  <2>7. g[m] = IF m < 10 THEN one(m) ELSE Append(g[m \div 10], d(m))
    BY ONLY <1>3, <2>4
  <2>8. ~(m < 10)
    BY ONLY <2>4, <2>6, <2>7
  <2>9. m \div 10 \in 0 .. k /\ ~(m <= m \div 10)
    <3>1. m \div 10 \in Nat /\ m \div 10 < m
      BY ONLY <2>5, <2>8, Tenth
    <3>2. QED
      BY ONLY <1>1, <2>4, <2>5, <3>1
  <2>10. f[m \div 10] = g[m \div 10]
    BY ONLY <2>3, <2>9
  <2>11. QED
    BY ONLY <2>4, <2>6, <2>7, <2>10
<1>6. f[n] \in Seq(Digits)
  BY ONLY <1>4, f \in [0 .. n -> Seq(Digits)]
<1>7. f[n] = IF n < 10 THEN one(n) ELSE Append(f[k], d(n))
  BY ONLY <1>2, <1>4 DEF k
<1>8. f[k] = Decimal(k)
  BY ONLY <1>1, <1>3, <1>5
<1>9. QED
  BY ONLY <1>2, <1>4, <1>6, <1>7, <1>8 DEF k, d, one

\* A character repeated.
LEMMA RepeatIs ==
  ASSUME NEW C, NEW c \in C, NEW n \in Nat
  PROVE  /\ Repeat(c, n) \in Seq(C) /\ Len(Repeat(c, n)) = n
         /\ \A i \in 1 .. n : Repeat(c, n)[i] = c
BY DEF Repeat

LEMMA RepeatNone ==
  ASSUME NEW c
  PROVE  Repeat(c, 0) = <<>>
<1>1. Repeat(c, 0) = [i \in 1 .. 0 |-> c]
  BY ONLY TRUE DEF Repeat
<1>2. QED
  BY ONLY <1>1

LEMMA RepeatMore ==
  ASSUME NEW C, NEW c \in C, NEW n \in Nat
  PROVE  Append(Repeat(c, n), c) = Repeat(c, n + 1)
<1> DEFINE x == Repeat(c, n)
           y == Repeat(c, n + 1)
<1>1. x \in Seq(C) /\ Len(x) = n /\ \A i \in 1 .. n : x[i] = c
  BY RepeatIs
<1>2. y \in Seq(C) /\ Len(y) = n + 1 /\ \A i \in 1 .. n + 1 : y[i] = c
  BY RepeatIs
<1> HIDE DEF x, y
<1>3. /\ Append(x, c) \in Seq(C) /\ Len(Append(x, c)) = n + 1
      /\ \A i \in 1 .. n : Append(x, c)[i] = x[i]
      /\ Append(x, c)[n + 1] = c
  BY ONLY <1>1, c \in C, AppendProperties
<1> DEFINE z == Append(x, c)
<1> HIDE DEF z
<1>4. \A i \in 1 .. n + 1 : i \in 1 .. n \/ i = n + 1
  BY ONLY n \in Nat
<1>5. \A i \in 1 .. n + 1 : z[i] = y[i]
  BY ONLY <1>1, <1>2, <1>3, <1>4 DEF z
<1>6. z = [i \in 1 .. n + 1 |-> z[i]] /\ y = [i \in 1 .. n + 1 |-> y[i]]
  BY ONLY <1>2, <1>3, LenProperties DEF z
<1>7. z = y
  BY ONLY <1>5, <1>6
<1>8. QED
  BY ONLY <1>7 DEF x, y, z

\* Zeros in front of a number and its notation.
Padded(z, n) == Repeat("0", z) \o Decimal(n)

LEMMA PaddedStep ==
  ASSUME NEW z \in Nat, NEW n \in Nat
  PROVE  /\ Padded(z, n) \in Seq(Digits)
         /\ Len(Padded(z, n)) = z + Len(Decimal(n)) /\ Len(Decimal(n)) \in Nat
         /\ Len(Decimal(n)) >= 1
         /\ n < 10 => Padded(z, n) = Append(Repeat("0", z), Numerals[n + 1])
         /\ n >= 10 => Padded(z, n) = Append(Padded(z, n \div 10), Numerals[(n % 10) + 1])
<1> DEFINE D == Decimal(n)
           Z == Repeat("0", z)
           k == n \div 10
           d == Numerals[(n % 10) + 1]
<1>1. "0" \in Digits
  <2>1. 0 \in 0 .. 9 /\ 0 + 1 = 1
    BY ONLY TRUE
  <2>2. Numerals[1] \in Digits
    BY ONLY <2>1, DigitsAre
  <2>3. QED
    BY ONLY <2>2, NumeralsAre
<1>2. Z \in Seq(Digits) /\ Len(Z) = z
  BY <1>1, RepeatIs
<1>3. /\ D \in Seq(Digits)
      /\ n < 10 => D = <<Numerals[n + 1]>>
      /\ n >= 10 => D = Append(Decimal(k), d)
  BY ONLY n \in Nat, DecimalStep
<1>4. k \in Nat /\ n % 10 \in 0 .. 9
  BY ONLY n \in Nat, Tenth
<1>5. d \in Digits
  BY ONLY <1>4, DigitsAre
<1>6. Decimal(k) \in Seq(Digits)
  BY ONLY <1>4, DecimalStep
<1> HIDE DEF Z, D, k, d
<1>7. n < 10 => /\ Z \o D = Append(Z, Numerals[n + 1])
                /\ D # <<>>
  <2>1. ASSUME n < 10
        PROVE  /\ Z \o D = Append(Z, Numerals[n + 1])
               /\ D # <<>>
    <3>1. n \in 0 .. 9
      BY ONLY <2>1, n \in Nat
    <3>2. Numerals[n + 1] \in Digits
      BY ONLY <3>1, DigitsAre
    <3>3. D = <<Numerals[n + 1]>>
      BY ONLY <1>3, <2>1
    <3>4. Append(Z, Numerals[n + 1]) = Z \o <<Numerals[n + 1]>>
      BY ONLY <1>2, <3>2, AppendIsConcat
    <3>5. D # <<>>
      BY ONLY <3>3
    <3>6. QED
      BY ONLY <3>3, <3>4, <3>5
  <2>2. QED
    BY <2>1
<1>8. n >= 10 => /\ Z \o D = Append(Z \o Decimal(k), d)
                 /\ D # <<>>
  <2>1. ASSUME n >= 10
        PROVE  /\ Z \o D = Append(Z \o Decimal(k), d)
               /\ D # <<>>
    <3> DEFINE K == Decimal(k)
               e == <<d>>
    <3>1. D = Append(K, d)
      BY ONLY <1>3, <2>1
    <3>2. K \in Seq(Digits) /\ Z \o K \in Seq(Digits) /\ e \in Seq(Digits)
      BY ONLY <1>2, <1>5, <1>6, ConcatProperties, SingleIs
    <3> HIDE DEF K
    <3>3. D = K \o e /\ Append(Z \o K, d) = (Z \o K) \o e
      BY ONLY <1>5, <3>1, <3>2, AppendIsConcat
    <3>4. D # <<>>
      BY ONLY <1>5, <3>1, <3>2, AppendProperties
    <3> HIDE DEF e
    <3>5. Z \o (K \o e) = (Z \o K) \o e
      BY ONLY <1>2, <3>2, Regroup
    <3>6. Z \o D = Append(Z \o K, d)
      BY ONLY <3>3, <3>5
    <3>7. QED
      BY ONLY <3>4, <3>6 DEF K
  <2>2. QED
    BY <2>1
<1>9. D # <<>>
  <2>1. n < 10 \/ n >= 10
    BY ONLY n \in Nat
  <2>2. QED
    BY ONLY <1>7, <1>8, <2>1
<1>10. Len(D) \in Nat /\ Len(D) >= 1
  <2>1. Len(D) \in Nat /\ Len(D) # 0
    BY ONLY <1>3, <1>9, EmptySeq, LenProperties
  <2>2. QED
    BY ONLY <2>1
<1>11. Z \o D \in Seq(Digits) /\ Len(Z \o D) = z + Len(D)
  BY ONLY <1>2, <1>3, ConcatProperties
<1>12. QED
  BY ONLY <1>7, <1>8, <1>10, <1>11 DEF Padded, Z, D, k, d

\* Zeros alone stand for nothing, and in front they do not count.
LEMMA ZeroIs == "0" \in Digits /\ DigitValue("0") = 0 /\ Numerals[0 + 1] = "0"
<1>1. 0 \in 0 .. 9 /\ 0 + 1 = 1
  BY ONLY TRUE
<1>2. Numerals[0 + 1] = "0"
  BY ONLY <1>1, NumeralsAre
<1>3. Numerals[0 + 1] \in Digits /\ DigitValue(Numerals[0 + 1]) = 0
  BY ONLY <1>1, DigitsAre
<1>4. QED
  BY ONLY <1>2, <1>3

LEMMA MagnitudeZeros ==
  ASSUME NEW z \in Nat
  PROVE  Magnitude(Repeat("0", z)) = 0
<1> DEFINE T == {k \in Nat : Magnitude(Repeat("0", k)) = 0}
<1>1. PICK o \in Digits : o = "0" /\ DigitValue(o) = 0
  BY ZeroIs
<1>2. 0 \in T
  <2>1. <<>> \in Seq(Digits)
    BY EmptySeq
  <2>2. Magnitude(<<>>) = 0
    BY ONLY <1>1, <2>1, MagnitudeAppend
  <2>3. Repeat("0", 0) = <<>>
    BY ONLY RepeatNone
  <2>4. QED
    BY <2>2, <2>3
<1>3. ASSUME NEW k \in Nat, k \in T
      PROVE  k + 1 \in T
  <2>1. Repeat(o, k) \in Seq(Digits) /\ Append(Repeat(o, k), o) = Repeat(o, k + 1)
    BY ONLY <1>1, k \in Nat, RepeatIs, RepeatMore
  <2>2. Magnitude(Repeat(o, k)) = 0
    BY <1>1, <1>3
  <2> DEFINE x == Repeat(o, k)
  <2> HIDE DEF x
  <2>3. Magnitude(Append(x, o)) = 10 * Magnitude(x) + DigitValue(o)
    BY ONLY <2>1, MagnitudeAppend DEF x
  <2>4. DigitValue(o) = 0
    BY <1>1
  <2>5. Magnitude(Append(x, o)) = 0
    BY ONLY <2>2, <2>3, <2>4 DEF x
  <2>6. Magnitude(Repeat(o, k + 1)) = 0
    BY ONLY <2>1, <2>5 DEF x
  <2>7. Magnitude(Repeat("0", k + 1)) = 0
    BY ONLY <1>1, <2>6
  <2>8. QED
    BY ONLY <2>7, k \in Nat
<1>4. \A k \in Nat : k \in T
  <2> HIDE DEF T
  <2>1. QED
    BY ONLY <1>2, <1>3, Induction
<1>5. QED
  BY <1>4

LEMMA MagnitudePadded ==
  ASSUME NEW z \in Nat, NEW n \in Nat
  PROVE  Magnitude(Padded(z, n)) = n
<1> DEFINE Bad == {m \in Nat : Magnitude(Padded(z, m)) # m}
<1>1. SUFFICES ASSUME Bad # {} PROVE FALSE
  OBVIOUS
<1>2. PICK m \in Bad : \A j \in Bad : m <= j
  <2>1. Bad \in SUBSET Nat
    BY ONLY TRUE
  <2>2. QED
    BY <1>1, <2>1, LeastNumber
<1>3. m \in Nat /\ Magnitude(Padded(z, m)) # m
  BY ONLY <1>2
<1> DEFINE k == m \div 10
           r == m % 10
<1>4. k \in Nat /\ r \in 0 .. 9 /\ m = 10 * k + r /\ (m >= 10 => k < m)
  BY ONLY <1>3, Tenth
<1>5. /\ Padded(z, k) \in Seq(Digits)
      /\ m < 10 => Padded(z, m) = Append(Repeat("0", z), Numerals[m + 1])
      /\ m >= 10 => Padded(z, m) = Append(Padded(z, k), Numerals[r + 1])
  BY ONLY <1>3, <1>4, z \in Nat, PaddedStep
<1> HIDE DEF k, r
<1>6. CASE m < 10
  <2> DEFINE Z == Repeat("0", z)
  <2>1. m \in 0 .. 9
    BY ONLY <1>3, <1>6
  <2>2. Numerals[m + 1] \in Digits /\ DigitValue(Numerals[m + 1]) = m
    BY ONLY <2>1, DigitsAre
  <2>3. Magnitude(Z) = 0
    BY ONLY z \in Nat, MagnitudeZeros
  <2>4. Z \in Seq(Digits)
    BY ONLY z \in Nat, ZeroIs, RepeatIs
  <2> HIDE DEF Z
  <2>5. Magnitude(Append(Z, Numerals[m + 1])) = 10 * Magnitude(Z) + DigitValue(Numerals[m + 1])
    BY ONLY <2>2, <2>4, MagnitudeAppend
  <2>6. Magnitude(Append(Z, Numerals[m + 1])) = m
    BY ONLY <1>3, <2>2, <2>3, <2>5
  <2>7. QED
    BY ONLY <1>3, <1>5, <1>6, <2>6 DEF Z
<1>7. CASE m >= 10
  <2> DEFINE P == Padded(z, k)
  <2>1. k \in Nat /\ ~(m <= k)
    BY ONLY <1>3, <1>4, <1>7
  <2>2. k \notin Bad
    BY ONLY <1>2, <2>1
  <2>3. Magnitude(P) = k
    BY ONLY <2>1, <2>2
  <2>4. Numerals[r + 1] \in Digits /\ DigitValue(Numerals[r + 1]) = r
    BY ONLY <1>4, DigitsAre
  <2> HIDE DEF P
  <2>5. Magnitude(Append(P, Numerals[r + 1])) = 10 * Magnitude(P) + DigitValue(Numerals[r + 1])
    BY ONLY <1>5, <2>4, MagnitudeAppend DEF P
  <2>6. Magnitude(Append(P, Numerals[r + 1])) = m
    BY ONLY <1>4, <2>3, <2>4, <2>5
  <2>7. QED
    BY ONLY <1>3, <1>5, <1>7, <2>6 DEF P
<1>8. QED
  BY ONLY <1>3, <1>6, <1>7

\* Digits are zeros in front of the notation of their number, unless they are zeros
\* only.
Stripped(w) ==
  \/ Magnitude(w) = 0 /\ \E z \in Nat : w = Repeat("0", z)
  \/ Magnitude(w) >= 1 /\ \E z \in Nat : w = Padded(z, Magnitude(w))

LEMMA StripZeros ==
  ASSUME NEW d \in Digits, NEW z \in Nat, Magnitude(Repeat("0", z)) = 0
  PROVE  Stripped(Append(Repeat("0", z), d))
<1> DEFINE v == DigitValue(d)
           Z == Repeat("0", z)
           w == Append(Z, d)
<1>1. v \in 0 .. 9 /\ Numerals[v + 1] = d
  BY ONLY d \in Digits, DigitsAre
<1>2. Z \in Seq(Digits)
  BY ONLY z \in Nat, ZeroIs, RepeatIs
<1>3. Magnitude(w) = 10 * Magnitude(Z) + v
  BY ONLY <1>2, d \in Digits, MagnitudeAppend
<1> HIDE DEF v
<1>4. Magnitude(w) = v
  <2>1. Magnitude(Z) = 0
    OBVIOUS
  <2> HIDE DEF Z
  <2>2. QED
    BY ONLY <1>1, <1>3, <2>1
<1>5. CASE v = 0
  <2>1. d = "0"
    BY ONLY <1>1, <1>5, ZeroIs
  <2>2. PICK o \in Digits : o = "0"
    BY ONLY ZeroIs
  <2>3. Append(Repeat(o, z), o) = Repeat(o, z + 1)
    BY ONLY <2>2, z \in Nat, RepeatMore
  <2>4. w = Repeat("0", z + 1) /\ z + 1 \in Nat
    BY ONLY <2>1, <2>2, <2>3, z \in Nat
  <2>5. QED
    BY ONLY <1>4, <1>5, <2>4 DEF Stripped
<1>6. CASE v # 0
  <2>1. v \in Nat /\ v < 10 /\ v >= 1
    BY ONLY <1>1, <1>6
  <2>2. Padded(z, v) = Append(Z, Numerals[v + 1])
    BY ONLY <2>1, z \in Nat, PaddedStep
  <2>3. w = Padded(z, v)
    BY ONLY <1>1, <2>2
  <2> HIDE DEF w
  <2>4. QED
    BY ONLY <1>4, <2>1, <2>3, z \in Nat DEF Stripped, w
<1>7. QED
  BY ONLY <1>5, <1>6

LEMMA StripMore ==
  ASSUME NEW w \in Seq(Digits), NEW d \in Digits, Stripped(w)
  PROVE  Stripped(Append(w, d))
<1>1. CASE Magnitude(w) = 0 /\ \E z \in Nat : w = Repeat("0", z)
  BY <1>1, StripZeros
<1>2. CASE Magnitude(w) >= 1 /\ \E z \in Nat : w = Padded(z, Magnitude(w))
  <2> DEFINE v == DigitValue(d)
             n == Magnitude(w)
             m == 10 * n + v
  <2>1. PICK z \in Nat : w = Padded(z, n)
    BY <1>2
  <2>2. v \in 0 .. 9 /\ Numerals[v + 1] = d
    BY ONLY d \in Digits, DigitsAre
  <2>3. n \in Nat /\ n >= 1 /\ Magnitude(Append(w, d)) = m
    BY ONLY <1>2, w \in Seq(Digits), d \in Digits, MagnitudeAppend
  <2> HIDE DEF v, n
  <2>4. m \in Nat /\ m >= 10 /\ m >= 1 /\ m \div 10 = n /\ m % 10 = v
    BY ONLY <2>2, <2>3
  <2> HIDE DEF m
  <2>5. Padded(z, m) = Append(Padded(z, m \div 10), Numerals[(m % 10) + 1])
    BY ONLY <2>4, z \in Nat, PaddedStep
  <2>6. Append(w, d) = Padded(z, m)
    BY ONLY <2>1, <2>2, <2>4, <2>5
  <2>7. QED
    BY ONLY <2>3, <2>4, <2>6, z \in Nat DEF Stripped
<1>3. QED
  BY <1>1, <1>2 DEF Stripped

LEMMA StripIs ==
  ASSUME NEW w \in Seq(Digits)
  PROVE  Stripped(w)
<1> DEFINE T == {v \in Seq(Digits) : Stripped(v)}
<1>1. <<>> \in T
  <2>1. <<>> \in Seq(Digits)
    BY EmptySeq
  <2>2. Magnitude(<<>>) = 0
    BY ONLY <2>1, ZeroIs, MagnitudeAppend
  <2>3. 0 \in Nat /\ <<>> = Repeat("0", 0)
    BY ONLY RepeatNone
  <2>4. QED
    BY ONLY <2>1, <2>2, <2>3 DEF Stripped
<1>2. \A v \in Seq(Digits) : \A d \in Digits : v \in T => Append(v, d) \in T
  BY StripMore, AppendProperties
<1>3. \A v \in Seq(Digits) : v \in T
  <2> HIDE DEF T
  <2>1. QED
    BY ONLY <1>1, <1>2, Appending
<1>4. QED
  BY ONLY <1>3, w \in Seq(Digits)

\* The end of a run of characters.
LEMMA AfterIs ==
  ASSUME NEW C, NEW s \in Seq(C), NEW S, NEW p \in 1 .. Len(s) + 1
  PROVE  /\ After(s, S, p) \in p .. Len(s) + 1
         /\ \A r \in p .. After(s, S, p) - 1 : s[r] \in S
         /\ After(s, S, p) <= Len(s) => s[After(s, S, p)] \notin S
<1> DEFINE I == {i \in p .. Len(s) : s[i] \notin S}
           q == After(s, S, p)
<1>1. Len(s) \in Nat /\ p \in Nat /\ p # 0 /\ p <= Len(s) + 1
  BY LenProperties
<1>2. q = IF I # {} THEN IF Min(I) = 0 THEN Len(s) + 1 ELSE Min(I) ELSE Len(s) + 1
  BY DEF After, SelectInSubSeq
<1>3. I \in SUBSET (p .. Len(s))
  OBVIOUS
<1>4. \A i \in p .. Len(s) : i \in I <=> s[i] \notin S
  OBVIOUS
<1> HIDE DEF I, q
<1>5. /\ q \in p .. Len(s) + 1
      /\ \A r \in p .. q - 1 : r \in p .. Len(s) /\ r \notin I
      /\ q <= Len(s) => q \in I
  BY ONLY <1>1, <1>2, <1>3, FirstOf
<1>6. \A r \in p .. q - 1 : s[r] \in S
  BY ONLY <1>4, <1>5
<1>7. q <= Len(s) => s[q] \notin S
  BY ONLY <1>3, <1>4, <1>5
<1>8. QED
  BY <1>5, <1>6, <1>7 DEF q

LEMMA AfterAt ==
  ASSUME NEW C, NEW s \in Seq(C), NEW S, NEW p \in 1 .. Len(s) + 1,
         NEW a \in p .. Len(s) + 1, \A r \in p .. a - 1 : s[r] \in S,
         a <= Len(s) => s[a] \notin S
  PROVE  After(s, S, p) = a
<1> DEFINE q == After(s, S, p)
           n == Len(s)
<1>1. n \in Nat /\ p \in Nat /\ p >= 1
  BY ONLY s \in Seq(C), p \in 1 .. n + 1, LenProperties
<1>2. q \in p .. n + 1
  BY AfterIs
<1>3. (\A r \in p .. q - 1 : s[r] \in S) /\ (q <= n => s[q] \notin S)
  BY AfterIs
<1> HIDE DEF q
<1>4. ~(q < a)
  <2>1. q < a => q \in p .. a - 1 /\ q <= n
    BY ONLY <1>1, <1>2, a \in p .. n + 1
  <2>2. QED
    BY <1>3, <2>1
<1>5. ~(a < q)
  <2>1. a < q => a \in p .. q - 1 /\ a <= n
    BY ONLY <1>1, <1>2, a \in p .. n + 1
  <2>2. QED
    BY <1>3, <2>1
<1>6. q = a
  BY ONLY <1>1, <1>2, <1>4, <1>5, a \in p .. n + 1
<1>7. QED
  BY <1>6 DEF q

\* Digits between blanks.
Run(s, b, w, e) ==
  /\ b \in Nat /\ e \in Nat /\ w \in Seq(Digits) /\ w # <<>>
  /\ s = (Repeat(" ", b) \o w) \o Repeat(" ", e)

\* What each character of a run is.
Spelled(C, s, b, w, e) ==
  /\ s \in Seq(C) /\ b \in Nat /\ e \in Nat /\ Len(w) \in Nat /\ Len(w) >= 1
  /\ Len(s) = b + Len(w) + e
  /\ \A i \in 1 .. b : s[i] = " "
  /\ \A i \in 1 .. Len(w) : s[b + i] = w[i] /\ w[i] \in Digits
  /\ \A i \in 1 .. e : s[b + Len(w) + i] = " "

LEMMA RunIs ==
  ASSUME NEW C, " " \in C, Digits \subseteq C, NEW s, NEW b, NEW w, NEW e, Run(s, b, w, e)
  PROVE  Spelled(C, s, b, w, e)
<1> DEFINE B == Repeat(" ", b)
           E == Repeat(" ", e)
<1>1. b \in Nat /\ e \in Nat /\ w \in Seq(Digits) /\ w # <<>> /\ s = (B \o w) \o E
  BY DEF Run
<1>2. PICK c \in C : c = " "
  OBVIOUS
<1>3. B \in Seq(C) /\ Len(B) = b /\ \A i \in 1 .. b : B[i] = c
  BY ONLY <1>1, <1>2, RepeatIs
<1>4. E \in Seq(C) /\ Len(E) = e /\ \A i \in 1 .. e : E[i] = c
  BY ONLY <1>1, <1>2, RepeatIs
<1>5. w \in Seq(C) /\ \A i \in 1 .. Len(w) : w[i] \in Digits
  BY ONLY <1>1, Digits \subseteq C, SeqMonotonic, ElementOfSeq
<1>6. Len(w) \in Nat /\ Len(w) >= 1
  <2>1. Len(w) \in Nat /\ Len(w) # 0
    BY ONLY <1>1, EmptySeq, LenProperties
  <2>2. QED
    BY ONLY <2>1
<1> HIDE DEF B, E
<1>7. LET x == (B \o w) \o E
      IN /\ x \in Seq(C) /\ Len(x) = Len(B) + Len(w) + Len(E)
         /\ \A i \in 1 .. Len(w) : x[Len(B) + i] = w[i]
         /\ \A i \in 1 .. Len(E) : x[Len(B) + Len(w) + i] = E[i]
  <2>1. B \in Seq(C) /\ w \in Seq(C) /\ E \in Seq(C)
    BY <1>3, <1>4, <1>5
  <2>2. QED
    BY ONLY <2>1, PiecesAre
<1>8. /\ s \in Seq(C) /\ Len(s) = b + Len(w) + e
      /\ \A i \in 1 .. Len(w) : s[b + i] = w[i]
      /\ \A i \in 1 .. e : s[b + Len(w) + i] = E[i]
  BY ONLY <1>1, <1>3, <1>4, <1>7
<1>9. \A i \in 1 .. b : s[i] = B[i]
  <2>1. /\ B \o w \in Seq(C) /\ Len(B \o w) = Len(B) + Len(w)
        /\ \A i \in 1 .. Len(B) + Len(w) : (B \o w)[i] = IF i <= Len(B) THEN B[i] ELSE w[i - Len(B)]
    BY ONLY <1>3, <1>5, ConcatProperties
  <2> DEFINE x == B \o w
  <2> HIDE DEF x
  <2>2. \A i \in 1 .. Len(x) + Len(E) : (x \o E)[i] = IF i <= Len(x) THEN x[i] ELSE E[i - Len(x)]
    BY ONLY <1>4, <2>1, ConcatProperties DEF x
  <2>3. \A i \in 1 .. b : /\ i \in 1 .. (b + Len(w)) + e /\ i <= b + Len(w)
                          /\ i \in 1 .. b + Len(w) /\ i <= b
    BY ONLY <1>1, <1>6
  <2>4. Len(x) = b + Len(w) /\ \A i \in 1 .. b + Len(w) : x[i] = IF i <= b THEN B[i] ELSE w[i - b]
    BY ONLY <1>3, <2>1 DEF x
  <2>5. \A i \in 1 .. (b + Len(w)) + e : s[i] = IF i <= b + Len(w) THEN x[i] ELSE E[i - (b + Len(w))]
    BY ONLY <1>1, <1>4, <2>2, <2>4 DEF x
  <2>6. QED
    BY ONLY <2>3, <2>4, <2>5
<1>10. (\A i \in 1 .. b : s[i] = c) /\ (\A i \in 1 .. e : s[b + Len(w) + i] = c)
  BY ONLY <1>3, <1>4, <1>8, <1>9
<1>11. QED
  BY ONLY <1>1, <1>2, <1>5, <1>6, <1>8, <1>10 DEF Spelled

\* Where the extraction of a number stops in a run.
LEMMA RunStops ==
  ASSUME NEW C, " " \in C, Digits \subseteq C, NEW s, NEW b, NEW w, NEW e, Run(s, b, w, e)
  PROVE  LET end == b + 1 + Len(w)
         IN /\ After(s, {" "}, 1) = b + 1 /\ b + 1 <= Len(s) /\ s[b + 1] \in Digits
            /\ After(s, Digits, b + 1) = end /\ end > b + 1
            /\ SubSeq(s, b + 1, end - 1) = w
            /\ After(s, {" "}, end) > Len(s)
<1> DEFINE k == Len(w)
           n == Len(s)
           end == b + 1 + k
<1>1. /\ s \in Seq(C) /\ b \in Nat /\ e \in Nat /\ k \in Nat /\ k >= 1
      /\ n = b + k + e
      /\ \A i \in 1 .. b : s[i] = " "
      /\ \A i \in 1 .. k : s[b + i] = w[i] /\ w[i] \in Digits
      /\ \A i \in 1 .. e : s[b + k + i] = " "
  <2>1. Spelled(C, s, b, w, e)
    BY RunIs
  <2>2. QED
    BY ONLY <2>1 DEF Spelled
<1>2. w \in Seq(Digits)
  BY DEF Run
<1> HIDE DEF k, n
<1>3. b \in Nat /\ e \in Nat /\ k \in Nat /\ k >= 1 /\ n = b + k + e
  BY <1>1
<1>4. /\ 1 \in 1 .. n + 1 /\ b + 1 \in 1 .. n + 1 /\ end \in b + 1 .. n + 1 /\ end \in 1 .. n + 1
      /\ n + 1 \in end .. n + 1 /\ ~(n + 1 <= n) /\ b + 1 <= n /\ end > b + 1
      /\ 1 \in 1 .. k /\ n + 1 > n
  BY ONLY <1>3
<1>5. \A r \in b + 1 .. end - 1 : r - b \in 1 .. k /\ b + (r - b) = r
  BY ONLY <1>3
<1>6. \A r \in b + 1 .. end - 1 : s[r] \in Digits
  BY ONLY <1>1, <1>5
<1>7. s[b + 1] \in Digits /\ s[b + 1] # " "
  <2>1. s[b + 1] \in Digits
    BY ONLY <1>1, <1>4
  <2>2. QED
    BY ONLY <2>1, DigitsAre
<1>8. \A r \in end .. (n + 1) - 1 : s[r] = " "
  <2>1. \A r \in end .. (n + 1) - 1 : r - (b + k) \in 1 .. e /\ b + k + (r - (b + k)) = r
    BY ONLY <1>3
  <2>2. QED
    BY ONLY <1>1, <2>1
<1>9. After(s, {" "}, 1) = b + 1
  <2>1. \A r \in 1 .. (b + 1) - 1 : s[r] \in {" "}
    <3>1. (b + 1) - 1 = b
      BY ONLY <1>3
    <3>2. QED
      BY <1>1, <3>1
  <2>2. s[b + 1] \notin {" "}
    BY <1>7
  <2>3. s \in Seq(C)
    BY <1>1
  <2> DEFINE S == {" "}
             a == b + 1
  <2> HIDE DEF S, a
  <2>4. After(s, S, 1) = a
    BY ONLY <1>4, <2>1, <2>2, <2>3, AfterAt DEF n, S, a
  <2>5. QED
    BY <2>4 DEF S, a
<1>10. After(s, Digits, b + 1) = end
  <2>1. end <= n => s[end] \notin Digits
    <3>1. end <= n => end \in end .. (n + 1) - 1
      BY ONLY <1>3
    <3>2. QED
      BY <1>8, <3>1, DigitsAre
  <2>2. s \in Seq(C)
    BY <1>1
  <2> DEFINE a == b + 1
  <2> HIDE DEF a, end
  <2>3. After(s, Digits, a) = end
    BY ONLY <1>4, <1>6, <2>1, <2>2, AfterAt DEF n, a
  <2>4. QED
    BY <2>3 DEF a
<1>11. After(s, {" "}, end) = n + 1
  <2>1. s \in Seq(C) /\ \A r \in end .. (n + 1) - 1 : s[r] \in {" "}
    BY <1>1, <1>8
  <2> DEFINE S == {" "}
  <2> HIDE DEF S, end
  <2>2. After(s, S, end) = n + 1
    BY ONLY <1>4, <2>1, AfterAt DEF n, S
  <2>3. QED
    BY <2>2 DEF S
<1>12. SubSeq(s, b + 1, end - 1) = w
  <2>1. (IF b + 1 <= end - 1 + 1 THEN (end - 1) - (b + 1) + 1 ELSE 0) = k
    BY ONLY <1>3
  <2>2. SubSeq(s, b + 1, end - 1) = [i \in 1 .. k |-> s[b + 1 + i - 1]]
    BY ONLY <1>3, <2>1
  <2>3. \A i \in 1 .. k : b + 1 + i - 1 = b + i
    BY ONLY <1>3
  <2>4. \A i \in 1 .. k : s[b + 1 + i - 1] = w[i]
    BY ONLY <1>1, <2>3
  <2>5. w = [i \in 1 .. k |-> w[i]]
    BY ONLY <1>2, LenProperties DEF k
  <2>6. QED
    BY ONLY <2>2, <2>4, <2>5
<1>13. After(s, {" "}, end) > n
  BY ONLY <1>4, <1>11
<1>14. QED
  BY ONLY <1>4, <1>7, <1>9, <1>10, <1>12, <1>13 DEF n, k

\* Where the extraction of a number accepts a text, the text is a run.
LEMMA StopsRun ==
  ASSUME NEW C, " " \in C, NEW s \in Seq(C)
  PROVE  LET start == After(s, {" "}, 1)
             end == After(s, Digits, start)
         IN end > start /\ After(s, {" "}, end) > Len(s) =>
              Run(s, start - 1, SubSeq(s, start, end - 1), Len(s) + 1 - end)
<1> DEFINE n == Len(s)
           start == After(s, {" "}, 1)
           end == After(s, Digits, start)
           w == SubSeq(s, start, end - 1)
           b == start - 1
           e == n + 1 - end
<1> SUFFICES ASSUME end > start, After(s, {" "}, end) > n
             PROVE  Run(s, b, w, e)
  OBVIOUS
<1>1. n \in Nat /\ 1 \in 1 .. n + 1
  <2>1. n \in Nat
    BY ONLY s \in Seq(C), LenProperties
  <2>2. QED
    BY ONLY <2>1
<1>2. start \in 1 .. n + 1 /\ \A r \in 1 .. start - 1 : s[r] \in {" "}
  BY <1>1, AfterIs
<1> HIDE DEF start
<1>3. end \in start .. n + 1 /\ \A r \in start .. end - 1 : s[r] \in Digits
  BY <1>2, AfterIs
<1>4. end > start
  OBVIOUS
<1> HIDE DEF end
<1>5. start \in Nat /\ end \in Nat /\ start >= 1 /\ end <= n + 1 /\ end > start
  <2>1. start \in 1 .. n + 1 /\ end \in start .. n + 1
    BY <1>2, <1>3
  <2>2. QED
    BY ONLY <1>4, <1>1, <2>1
<1>6. \A r \in end .. n : s[r] = " "
  <2> DEFINE q == After(s, {" "}, end)
  <2>1. end \in 1 .. n + 1
    BY ONLY <1>1, <1>5
  <2>2. q \in end .. n + 1 /\ \A r \in end .. q - 1 : s[r] \in {" "}
    BY <2>1, AfterIs
  <2>3. q > n
    OBVIOUS
  <2> HIDE DEF q
  <2>4. q \in end .. n + 1
    BY <2>2
  <2>5. \A r \in end .. n : r \in end .. q - 1
    BY ONLY <1>1, <1>5, <2>3, <2>4
  <2>6. QED
    BY <2>2, <2>5
<1>7. /\ w \in Seq(Digits) /\ Len(w) = end - start
      /\ \A i \in 1 .. end - start : w[i] = s[start + i - 1]
  <2>1. start \in Int /\ end - 1 \in Int /\ start <= end - 1
        /\ (end - 1) - start + 1 = end - start
    BY ONLY <1>5
  <2>2. /\ w \in Seq(Digits) /\ Len(w) = (IF start <= end - 1 THEN (end - 1) - start + 1 ELSE 0)
        /\ \A i \in 1 .. (end - 1) - start + 1 : w[i] = s[start + i - 1]
    BY ONLY <1>3, <2>1, SubSeqProperties
  <2>3. QED
    BY ONLY <2>1, <2>2
<1> HIDE DEF w
<1>8. b \in Nat /\ e \in Nat
  BY ONLY <1>1, <1>5
<1>9. w # <<>>
  <2>1. Len(w) # 0
    BY ONLY <1>5, <1>7
  <2>2. QED
    BY ONLY <2>1, EmptySeq
<1> DEFINE x == (Repeat(" ", b) \o w) \o Repeat(" ", e)
<1> HIDE DEF b, e
<1>10. Run(x, b, w, e)
  BY <1>7, <1>8, <1>9 DEF Run
<1> DEFINE A == C \cup Digits
<1>11. " " \in A /\ Digits \subseteq A
  OBVIOUS
<1> HIDE DEF A, x
<1>12. /\ x \in Seq(A) /\ Len(x) = b + Len(w) + e
       /\ \A i \in 1 .. b : x[i] = " "
       /\ \A i \in 1 .. Len(w) : x[b + i] = w[i]
       /\ \A i \in 1 .. e : x[b + Len(w) + i] = " "
  <2>1. Spelled(A, x, b, w, e)
    BY ONLY <1>10, <1>11, RunIs
  <2>2. QED
    BY ONLY <2>1 DEF Spelled
<1>13. Len(x) = n
  <2>1. Len(x) = b + Len(w) + e /\ Len(w) = end - start
    BY <1>7, <1>12
  <2>2. QED
    BY ONLY <1>1, <1>5, <2>1 DEF b, e
<1>14. ASSUME NEW i \in 1 .. n
       PROVE  x[i] = s[i]
  <2>1. CASE i < start
    <3>1. i \in 1 .. b /\ i \in 1 .. start - 1
      BY ONLY <1>1, <1>5, <2>1, i \in 1 .. n DEF b
    <3>2. QED
      BY <1>2, <1>12, <3>1
  <2>2. CASE start <= i /\ i < end
    <3>1. i - b \in 1 .. end - start /\ b + (i - b) = i /\ start + (i - b) - 1 = i
      BY ONLY <1>1, <1>5, <2>2, i \in 1 .. n DEF b
    <3>2. Len(w) = end - start
      BY <1>7
    <3>3. x[b + (i - b)] = w[i - b] /\ w[i - b] = s[start + (i - b) - 1]
      BY <1>7, <1>12, <3>1, <3>2
    <3>4. QED
      BY ONLY <3>1, <3>3
  <2>3. CASE end <= i
    <3>1. Len(w) = end - start
      BY <1>7
    <3>2. i - (b + Len(w)) \in 1 .. e /\ b + Len(w) + (i - (b + Len(w))) = i /\ i \in end .. n
      BY ONLY <1>1, <1>5, <2>3, <3>1, i \in 1 .. n DEF b, e
    <3>3. x[b + Len(w) + (i - (b + Len(w)))] = " "
      BY <1>12, <3>2
    <3>4. s[i] = " "
      BY <1>6, <3>2
    <3>5. QED
      BY <3>2, <3>3, <3>4
  <2>4. i < start \/ (start <= i /\ i < end) \/ end <= i
    BY ONLY <1>1, <1>5, i \in 1 .. n
  <2>5. QED
    BY ONLY <2>1, <2>2, <2>3, <2>4
<1>15. x = [i \in 1 .. n |-> x[i]] /\ s = [i \in 1 .. n |-> s[i]]
  <2>1. x \in Seq(A)
    BY <1>12
  <2>2. QED
    BY ONLY <1>13, <2>1, s \in Seq(C), LenProperties
<1>16. x = s
  BY ONLY <1>14, <1>15
<1>17. QED
  BY ONLY <1>10, <1>16 DEF b, e

\* What is extracted from a text without a sign.
LEMMA ExtractIs ==
  ASSUME NEW s, NEW start, start = After(s, {" "}, 1),
         start <= Len(s) => s[start] \notin {"+", "-"},
         NEW end, end = After(s, Digits, start)
  PROVE  /\ extract(s).good <=> /\ end > start
                                /\ Magnitude(SubSeq(s, start, end - 1)) <= MaxValue
         /\ extract(s).value = Magnitude(SubSeq(s, start, end - 1))
         /\ extract(s).end = end
<1> DEFINE sign == IF start <= Len(s) THEN s[start] ELSE " "
           first == IF sign \in {"+", "-"} THEN start + 1 ELSE start
           last == After(s, Digits, first)
           m == Magnitude(SubSeq(s, first, last - 1))
           x == [good |-> last > first /\ m <= MaxValue,
                 value |-> IF sign = "-" THEN (MaxValue + 1 - m) % (MaxValue + 1) ELSE m,
                 end |-> last]
<1>1. sign # "+" /\ sign # "-"
  OBVIOUS
<1>2. extract(s) = x
  BY DEF extract
<1> HIDE DEF sign
<1>3. first = start
  BY <1>1
<1> HIDE DEF first
<1>4. last = end
  BY <1>3
<1> HIDE DEF last
<1>5. x = [good |-> end > start /\ m <= MaxValue, value |-> m, end |-> end]
  BY ONLY <1>1, <1>3, <1>4
<1>6. m = Magnitude(SubSeq(s, start, end - 1))
  BY ONLY <1>3, <1>4
<1> HIDE DEF m, x
<1>7. /\ x.good <=> end > start /\ m <= MaxValue
      /\ x.value = m /\ x.end = end
  BY ONLY <1>5
<1>8. QED
  BY ONLY <1>2, <1>6, <1>7

\* A number is extracted from a run, up to its blanks.
LEMMA RunRead ==
  ASSUME NEW s, NEW b, NEW w, NEW e, Run(s, b, w, e)
  PROVE  /\ extract(s).good <=> Magnitude(w) <= MaxValue
         /\ extract(s).value = Magnitude(w)
         /\ ~MoreAfter(s, extract(s).end)
         /\ b = 0 => s # <<>> /\ s[1] \in Digits
<1> DEFINE C == {" "} \cup Digits
           end == b + 1 + Len(w)
<1>1. " " \in C /\ Digits \subseteq C
  OBVIOUS
<1> HIDE DEF C
<1>2. Spelled(C, s, b, w, e)
  BY ONLY <1>1, Run(s, b, w, e), RunIs
<1>3. /\ After(s, {" "}, 1) = b + 1 /\ b + 1 <= Len(s) /\ s[b + 1] \in Digits
      /\ After(s, Digits, b + 1) = end /\ end > b + 1
      /\ SubSeq(s, b + 1, end - 1) = w
      /\ After(s, {" "}, end) > Len(s)
  BY <1>1, RunStops
<1>4. b \in Nat /\ Len(w) \in Nat /\ e \in Nat /\ Len(w) >= 1 /\ Len(s) = b + Len(w) + e
  BY ONLY <1>2 DEF Spelled
<1> HIDE DEF end
<1>5. s[b + 1] \notin {"+", "-"}
  <2>1. s[b + 1] \in Digits
    BY <1>3
  <2>2. QED
    BY ONLY <2>1, DigitsAre
<1>6. /\ extract(s).good <=> end > b + 1 /\ Magnitude(SubSeq(s, b + 1, end - 1)) <= MaxValue
      /\ extract(s).value = Magnitude(SubSeq(s, b + 1, end - 1))
      /\ extract(s).end = end
  <2>1. b + 1 = After(s, {" "}, 1) /\ end = After(s, Digits, b + 1)
    BY <1>3
  <2>2. QED
    BY ONLY <1>5, <2>1, ExtractIs
<1>7. ~MoreAfter(s, end)
  <2> DEFINE q == After(s, {" "}, end)
  <2>1. q > Len(s) /\ end \in 1 .. Len(s) + 1 /\ s \in Seq(C)
    <3>1. end \in 1 .. Len(s) + 1
      BY ONLY <1>4 DEF end
    <3>2. q > Len(s)
      BY <1>3
    <3>3. s \in Seq(C)
      BY ONLY <1>2 DEF Spelled
    <3>4. QED
      BY ONLY <3>1, <3>2, <3>3
  <2>2. q \in end .. Len(s) + 1
    BY ONLY <2>1, AfterIs
  <2> HIDE DEF q
  <2>3. end \in Nat /\ Len(s) \in Nat
    BY ONLY <1>4 DEF end
  <2>4. q > Len(s)
    BY ONLY <2>1
  <2>5. ~(q <= Len(s))
    BY ONLY <2>2, <2>3, <2>4
  <2>6. QED
    BY ONLY <2>5 DEF MoreAfter, q
<1>8. b = 0 => s # <<>> /\ s[1] \in Digits
  <2>1. s # <<>>
    <3>1. Len(s) # 0
      BY ONLY <1>4
    <3>2. QED
      BY ONLY <3>1, EmptySeq
  <2>2. b = 0 => b + 1 = 1
    BY ONLY TRUE
  <2>3. s[b + 1] \in Digits
    BY <1>3
  <2>4. QED
    BY ONLY <2>1, <2>2, <2>3
<1>9. SubSeq(s, b + 1, end - 1) = w /\ end > b + 1
  BY ONLY <1>3
<1>10. QED
  BY ONLY <1>6, <1>7, <1>8, <1>9

\* The first character that is not blank is not a sign.
Unsigned(s) ==
  LET start == After(s, {" "}, 1) IN start <= Len(s) => s[start] \notin {"+", "-"}

\* A text from which a number without a sign is extracted, with nothing but blanks
\* behind it, is a run.
LEMMA ReadRun ==
  ASSUME NEW C, " " \in C, NEW s \in Seq(C), Unsigned(s),
         extract(s).good, ~MoreAfter(s, extract(s).end)
  PROVE  \E b, w, e :
           /\ b \in 0 .. Len(s)
           /\ Run(s, b, w, e) /\ extract(s).value = Magnitude(w)
           /\ Magnitude(w) <= MaxValue
           /\ s # <<>> /\ s[1] \in Digits => b = 0
<1> DEFINE n == Len(s)
           start == After(s, {" "}, 1)
           end == After(s, Digits, start)
           w == SubSeq(s, start, end - 1)
<1>1. n \in Nat /\ DOMAIN s = 1 .. n
  BY ONLY s \in Seq(C), LenProperties
<1>2. 1 \in 1 .. n + 1
  BY ONLY <1>1
<1>3. start \in 1 .. n + 1 /\ \A r \in 1 .. start - 1 : s[r] \in {" "}
  BY <1>2, AfterIs
<1>4. end \in start .. n + 1
  <2> HIDE DEF start
  <2>1. start \in 1 .. n + 1
    BY <1>3
  <2>2. QED
    BY ONLY <2>1, s \in Seq(C), AfterIs
<1>5. start <= n => s[start] \notin {"+", "-"}
  BY ONLY Unsigned(s) DEF Unsigned
<1>6. /\ extract(s).good <=> end > start /\ Magnitude(w) <= MaxValue
      /\ extract(s).value = Magnitude(w)
      /\ extract(s).end = end
  BY ONLY <1>5, ExtractIs
<1>7. end > start /\ Magnitude(w) <= MaxValue /\ ~MoreAfter(s, end)
  BY <1>6
<1>8. After(s, {" "}, end) > n
  <2> DEFINE q == After(s, {" "}, end)
  <2>1. ~(q <= n)
    BY <1>7 DEF MoreAfter
  <2>2. end \in 1 .. n + 1
    <3> HIDE DEF end, start
    <3>1. start \in 1 .. n + 1
      BY <1>3
    <3>2. QED
      BY ONLY <1>1, <1>4, <3>1
  <2> HIDE DEF end
  <2>3. q \in end .. n + 1
    BY ONLY <2>2, s \in Seq(C), AfterIs
  <2> HIDE DEF q
  <2>4. q > n
    BY ONLY <1>1, <2>1, <2>2, <2>3
  <2>5. QED
    BY ONLY <2>4 DEF q
<1>9. Run(s, start - 1, w, n + 1 - end)
  BY <1>7, <1>8, StopsRun
<1>10. s # <<>> /\ s[1] \in Digits => start - 1 = 0
  <2>1. ASSUME s[1] \in Digits, start # 1
        PROVE  FALSE
    <3> HIDE DEF start
    <3>1. start \in 1 .. n + 1
      BY <1>3
    <3>2. 1 \in 1 .. start - 1
      BY ONLY <1>1, <2>1, <3>1
    <3>3. s[1] = " "
      BY <1>3, <3>2
    <3>4. QED
      BY ONLY <2>1, <3>3, DigitsAre
  <2>2. start = 1 => start - 1 = 0
    <3> HIDE DEF start
    <3>1. QED
      BY ONLY TRUE
  <2>3. QED
    BY <2>1, <2>2
<1>11. start - 1 \in 0 .. n
  <2> HIDE DEF start
  <2>1. start \in 1 .. n + 1
    BY <1>3
  <2>2. QED
    BY ONLY <1>1, <2>1
<1> HIDE DEF start, end, w
<1>12. QED
  BY ONLY <1>6, <1>7, <1>9, <1>10, <1>11 DEF n

\* A text writes a positive number exactly if it is a run of that magnitude.
LEMMA WritesRun ==
  ASSUME NEW s, NEW n \in Nat, n >= 1, NEW blanks \in Nat
  PROVE  Writes(s, blanks, n) <=>
           \E b, w, e : b \in 0 .. blanks /\ Run(s, b, w, e) /\ Magnitude(w) = n
<1> DEFINE C == {" "} \cup Digits
           Written(i, j, k) == Repeat(" ", i) \o Repeat("0", j) \o Decimal(n) \o Repeat(" ", k)
           Grouped(i, j, k) == (Repeat(" ", i) \o Padded(j, n)) \o Repeat(" ", k)
<1>1. \A z \in Nat : /\ Padded(z, n) \in Seq(Digits)
                     /\ Len(Padded(z, n)) = z + Len(Decimal(n)) /\ Len(Decimal(n)) \in Nat
                     /\ Len(Decimal(n)) >= 1
  BY ONLY n \in Nat, PaddedStep
<1>2. Decimal(n) \in Seq(Digits)
  BY ONLY n \in Nat, DecimalStep
<1>3. ASSUME NEW b \in Nat, NEW z \in Nat, NEW e \in Nat
      PROVE  Written(b, z, e) = Grouped(b, z, e)
  <2>1. PICK c \in C : c = " "
    OBVIOUS
  <2>2. PICK o \in C : o = "0"
    BY ZeroIs
  <2>3. Repeat(" ", b) \in Seq(C) /\ Repeat("0", z) \in Seq(C)
    BY ONLY <2>1, <2>2, b \in Nat, z \in Nat, RepeatIs
  <2>4. Decimal(n) \in Seq(C)
    BY <1>2, SeqMonotonic
  <2>5. Repeat(" ", b) \o (Repeat("0", z) \o Decimal(n))
          = (Repeat(" ", b) \o Repeat("0", z)) \o Decimal(n)
    <3> DEFINE x == Repeat(" ", b)
               y == Repeat("0", z)
               d == Decimal(n)
    <3> HIDE DEF x, y, d, C
    <3>1. x \in Seq(C) /\ y \in Seq(C) /\ d \in Seq(C)
      BY ONLY <2>3, <2>4 DEF x, y, d
    <3>2. x \o (y \o d) = (x \o y) \o d
      BY ONLY <3>1, Regroup
    <3>3. QED
      BY ONLY <3>2 DEF x, y, d
  <2>6. QED
    BY ONLY <2>5 DEF Padded
<1>4. ASSUME Writes(s, blanks, n)
      PROVE  \E b, w, e : b \in 0 .. blanks /\ Run(s, b, w, e) /\ Magnitude(w) = n
  <2>1. PICK b \in 0 .. blanks, z \in 0 .. Len(s), e \in 0 .. Len(s) :
          /\ b + z + e + Len(Decimal(n)) = Len(s)
          /\ s = Repeat(" ", b) \o Repeat("0", z) \o Decimal(n) \o Repeat(" ", e)
    BY ONLY <1>4 DEF Writes
  <2>2. \A m : \A i \in 0 .. m : i \in Int /\ i >= 0
    BY ONLY TRUE
  <2>3. b \in Nat /\ z \in Nat /\ e \in Nat
    BY ONLY <2>2, b \in 0 .. blanks, z \in 0 .. Len(s), e \in 0 .. Len(s)
  <2>4. s = (Repeat(" ", b) \o Padded(z, n)) \o Repeat(" ", e)
    <3>1. s = Written(b, z, e)
      BY ONLY <2>1
    <3> HIDE DEF Written, Grouped
    <3>2. s = Grouped(b, z, e)
      BY ONLY <1>3, <2>3, <3>1
    <3>3. QED
      BY ONLY <3>2 DEF Grouped
  <2>5. Padded(z, n) \in Seq(Digits) /\ Padded(z, n) # <<>> /\ Magnitude(Padded(z, n)) = n
    <3>1. Padded(z, n) \in Seq(Digits) /\ Len(Padded(z, n)) # 0
      BY ONLY <1>1, <2>3
    <3>2. Padded(z, n) # <<>>
      BY ONLY <3>1, EmptySeq
    <3>3. QED
      BY ONLY <2>3, <3>1, <3>2, n \in Nat, MagnitudePadded
  <2>6. Run(s, b, Padded(z, n), e)
    BY ONLY <2>3, <2>4, <2>5 DEF Run
  <2>7. QED
    BY ONLY <2>5, <2>6, b \in 0 .. blanks
<1>5. ASSUME NEW b \in 0 .. blanks, NEW w, NEW e, Run(s, b, w, e), Magnitude(w) = n
      PROVE  Writes(s, blanks, n)
  <2>1. b \in Nat /\ e \in Nat /\ w \in Seq(Digits)
        /\ s = (Repeat(" ", b) \o w) \o Repeat(" ", e)
    BY <1>5 DEF Run
  <2>2. PICK z \in Nat : w = Padded(z, n)
    <3>1. Stripped(w)
      BY ONLY <2>1, StripIs
    <3>2. Magnitude(w) # 0
      BY ONLY <1>5, n \in Nat, n >= 1
    <3>3. QED
      BY ONLY <1>5, <3>1, <3>2 DEF Stripped
  <2>3. s = Repeat(" ", b) \o Repeat("0", z) \o Decimal(n) \o Repeat(" ", e)
    <3> DEFINE l == Repeat(" ", b)
               d == Padded(z, n)
               r == Repeat(" ", e)
    <3>1. s = (l \o w) \o r /\ w = d
      BY ONLY <2>1, <2>2
    <3> HIDE DEF l, d, r
    <3>2. s = (l \o d) \o r
      BY ONLY <3>1
    <3>3. s = Grouped(b, z, e)
      BY ONLY <3>2 DEF l, d, r
    <3> HIDE DEF Written, Grouped
    <3>4. s = Written(b, z, e)
      BY ONLY <1>3, <2>1, <3>3, z \in Nat
    <3>5. QED
      BY ONLY <3>4 DEF Written
  <2>4. Len(s) = b + Len(w) + e /\ Len(w) \in Nat
    <3>1. " " \in C /\ Digits \subseteq C
      OBVIOUS
    <3> HIDE DEF C
    <3>2. Spelled(C, s, b, w, e)
      BY ONLY <1>5, <3>1, RunIs
    <3>3. QED
      BY ONLY <3>2 DEF Spelled
  <2>5. Len(w) = z + Len(Decimal(n)) /\ Len(Decimal(n)) \in Nat
    BY ONLY <1>1, <2>2
  <2>6. /\ b + z + e + Len(Decimal(n)) = Len(s)
        /\ z \in 0 .. Len(s) /\ e \in 0 .. Len(s)
    <3> DEFINE d == Len(Decimal(n))
               k == Len(w)
               l == Len(s)
    <3>1. b \in Nat /\ e \in Nat
      BY <2>1
    <3>2. l = b + k + e /\ k = z + d /\ d \in Nat
      BY <2>4, <2>5
    <3> HIDE DEF d, k, l
    <3>3. b + z + e + d = l /\ z \in 0 .. l /\ e \in 0 .. l
      BY ONLY <3>1, <3>2, z \in Nat
    <3>4. QED
      BY ONLY <3>3 DEF d, l
  <2>7. QED
    BY ONLY <2>3, <2>6, b \in 0 .. blanks DEF Writes
<1>6. QED
  BY <1>4, <1>5

\* The magnitude of a run is a number.
LEMMA MagnitudeNat ==
  ASSUME NEW s, NEW b, NEW w, NEW e, Run(s, b, w, e)
  PROVE  Magnitude(w) \in Nat
<1>1. w \in Seq(Digits)
  BY DEF Run
<1>2. "0" \in Digits
  BY ZeroIs
<1>3. QED
  BY <1>1, <1>2, MagnitudeAppend

\* A text without a sign is read whole as n exactly if it is a run of that magnitude.
LEMMA ReadsRun ==
  ASSUME NEW C, " " \in C, NEW s \in Seq(C), Unsigned(s), NEW n
  PROVE  (extract(s).good /\ ~MoreAfter(s, extract(s).end) /\ extract(s).value = n) <=>
           \E b, w, e :
             b \in 0 .. Len(s) /\ Run(s, b, w, e) /\ Magnitude(w) = n /\ n <= MaxValue
<1>1. ASSUME extract(s).good, ~MoreAfter(s, extract(s).end), extract(s).value = n
      PROVE  \E b, w, e :
               b \in 0 .. Len(s) /\ Run(s, b, w, e) /\ Magnitude(w) = n /\ n <= MaxValue
  <2>1. PICK b, w, e :
          /\ b \in 0 .. Len(s) /\ Run(s, b, w, e)
          /\ extract(s).value = Magnitude(w) /\ Magnitude(w) <= MaxValue
    BY <1>1, ReadRun
  <2>2. Magnitude(w) = n /\ n <= MaxValue
    BY ONLY <1>1, <2>1
  <2>3. QED
    BY ONLY <2>1, <2>2
<1>2. ASSUME NEW b \in 0 .. Len(s), NEW w, NEW e,
             Run(s, b, w, e), Magnitude(w) = n, n <= MaxValue
      PROVE  extract(s).good /\ ~MoreAfter(s, extract(s).end) /\ extract(s).value = n
  <2>1. /\ extract(s).good <=> Magnitude(w) <= MaxValue
        /\ extract(s).value = Magnitude(w) /\ ~MoreAfter(s, extract(s).end)
    BY ONLY <1>2, RunRead
  <2>2. QED
    BY ONLY <1>2, <2>1
<1>3. QED
  BY ONLY <1>1, <1>2

\* What checkPort accepts.
LEMMA PortRead ==
  ASSUME NEW C, " " \in C, NEW s \in Seq(C), "+" \notin Range(s), "-" \notin Range(s)
  PROVE  checkPort(s) = {n \in 1 .. MaxPort : Writes(s, Len(s), n)}
<1>1. Unsigned(s)
  <2> DEFINE start == After(s, {" "}, 1)
  <2>1. Len(s) \in Nat /\ DOMAIN s = 1 .. Len(s)
    BY ONLY s \in Seq(C), LenProperties
  <2>2. 1 \in 1 .. Len(s) + 1
    BY ONLY <2>1
  <2>3. start \in 1 .. Len(s) + 1
    BY <2>2, AfterIs
  <2> HIDE DEF start
  <2>4. start <= Len(s) => start \in DOMAIN s
    BY ONLY <2>1, <2>3
  <2>5. start <= Len(s) => s[start] \notin {"+", "-"}
    BY <2>4 DEF Range
  <2>6. QED
    BY ONLY <2>5 DEF Unsigned, start
<1> DEFINE accepted(n) == extract(s).good /\ ~MoreAfter(s, extract(s).end) /\ extract(s).value = n
<1>2. ASSUME NEW n \in 1 .. MaxPort
      PROVE  accepted(n) <=> Writes(s, Len(s), n)
  <2>1. n \in Nat /\ n >= 1 /\ n <= MaxValue
    BY ONLY NumberAssumption, n \in 1 .. MaxPort
  <2>2. Len(s) \in Nat
    BY ONLY s \in Seq(C), LenProperties
  <2>3. Writes(s, Len(s), n) <=>
          \E b, w, e : b \in 0 .. Len(s) /\ Run(s, b, w, e) /\ Magnitude(w) = n
    BY ONLY <2>1, <2>2, WritesRun
  <2>4. accepted(n) <=>
          \E b, w, e :
            b \in 0 .. Len(s) /\ Run(s, b, w, e) /\ Magnitude(w) = n /\ n <= MaxValue
    BY <1>1, ReadsRun
  <2>5. QED
    BY ONLY <2>1, <2>3, <2>4
<1>3. checkPort(s) = {n \in 1 .. MaxPort : accepted(n)}
  BY ONLY TRUE DEF checkPort
<1> HIDE DEF accepted
<1>4. QED
  BY ONLY <1>2, <1>3

\* What parsePositiveUserLimit accepts: with a digit in front, the run has no blanks
\* before it and the text no sign.
LEMMA LimitRead ==
  ASSUME NEW C, " " \in C, NEW s \in Seq(C)
  PROVE  parsePositiveUserLimit(s) = {n \in 1 .. MaxValue : Writes(s, 0, n)}
<1> DEFINE digit == s # <<>> /\ s[1] \in Digits
           accepted(n) == extract(s).good /\ ~MoreAfter(s, extract(s).end) /\ extract(s).value = n
<1>1. Len(s) \in Nat
  BY ONLY s \in Seq(C), LenProperties
<1>2. ASSUME digit PROVE Unsigned(s)
  <2>1. Len(s) # 0
    BY ONLY <1>2, s \in Seq(C), EmptySeq
  <2>2. 1 \in 1 .. Len(s) + 1 /\ Len(s) + 1 >= 1 /\ \A r \in 1 .. 1 - 1 : s[r] \in {" "}
    BY ONLY <1>1
  <2>3. s[1] \notin {" "} /\ s[1] \notin {"+", "-"}
    BY ONLY <1>2, DigitsAre
  <2>4. After(s, {" "}, 1) = 1
    BY ONLY <2>2, <2>3, s \in Seq(C), AfterAt
  <2>5. QED
    BY ONLY <2>3, <2>4 DEF Unsigned
<1>3. ASSUME NEW n \in Nat, n >= 1, n <= MaxValue
      PROVE  (digit /\ accepted(n)) <=> Writes(s, 0, n)
  <2>1. Writes(s, 0, n) <=> \E b, w, e : b \in 0 .. 0 /\ Run(s, b, w, e) /\ Magnitude(w) = n
    BY ONLY <1>3, WritesRun
  <2>2. ASSUME digit, accepted(n) PROVE Writes(s, 0, n)
    <3>1. PICK b, w, e :
            /\ b \in 0 .. Len(s)
            /\ Run(s, b, w, e) /\ extract(s).value = Magnitude(w)
            /\ s # <<>> /\ s[1] \in Digits => b = 0
      BY <1>2, <2>2, ReadRun
    <3>2. Magnitude(w) = n
      BY ONLY <2>2, <3>1
    <3>3. b = 0 /\ 0 \in 0 .. 0
      BY ONLY <2>2, <3>1
    <3>4. QED
      BY ONLY <2>1, <3>1, <3>2, <3>3
  <2>3. ASSUME Writes(s, 0, n) PROVE digit /\ accepted(n)
    <3>1. PICK b, w, e : b \in 0 .. 0 /\ Run(s, b, w, e) /\ Magnitude(w) = n
      BY ONLY <2>1, <2>3
    <3>2. b = 0
      BY ONLY <3>1
    <3>3. /\ extract(s).good <=> Magnitude(w) <= MaxValue
          /\ extract(s).value = Magnitude(w) /\ ~MoreAfter(s, extract(s).end)
          /\ b = 0 => s # <<>> /\ s[1] \in Digits
      BY ONLY <3>1, RunRead
    <3>4. QED
      BY ONLY <1>3, <3>1, <3>2, <3>3
  <2>4. QED
    BY ONLY <2>2, <2>3
<1>4. ASSUME digit, NEW n, accepted(n), n # 0
      PROVE  n \in Nat /\ n >= 1 /\ n <= MaxValue
  <2>1. PICK b, w, e :
          /\ b \in 0 .. Len(s)
          /\ Run(s, b, w, e) /\ extract(s).value = Magnitude(w) /\ Magnitude(w) <= MaxValue
    BY <1>2, <1>4, ReadRun
  <2>2. Magnitude(w) \in Nat
    BY ONLY <2>1, MagnitudeNat
  <2>3. n = Magnitude(w)
    BY ONLY <1>4, <2>1
  <2>4. QED
    BY ONLY <1>4, <2>1, <2>2, <2>3
<1>5. parsePositiveUserLimit(s) = {n \in {extract(s).value} : digit /\ accepted(n) /\ n # 0}
  BY ONLY TRUE DEF parsePositiveUserLimit
<1>6. \A n : accepted(n) => n \in {extract(s).value}
  OBVIOUS
<1>7. \A n : n \in 1 .. MaxValue <=> n \in Nat /\ n >= 1 /\ n <= MaxValue
  BY ONLY NumberAssumption
<1>8. \A n \in 1 .. MaxValue : n # 0
  BY ONLY NumberAssumption
<1> HIDE DEF digit, accepted
<1>9. QED
  BY ONLY <1>3, <1>4, <1>5, <1>6, <1>7, <1>8

\* parsePositiveUserLimit accepts a text exactly if it is a positive number that
\* fits into size_t, written from its first character on, and returns that number:
\* for texts of every length and every range of size_t (ModeApply.cpp:11).
THEOREM LimitCorrect == Spec => []LimitExact
<1>1. ASSUME Typed PROVE LimitExact
  <2> DEFINE C == Alphabet[kind] \cup {" "}
  <2>1. text \in Seq(C)
    BY <1>1, SeqMonotonic DEF Typed
  <2>2. " " \in C
    OBVIOUS
  <2> HIDE DEF C
  <2>3. QED
    BY ONLY <2>1, <2>2, LimitRead DEF LimitExact
<1>2. QED
  BY <1>1, TypedAlways, PTL

\* checkPort accepts a text without a sign exactly if it writes a number that is not
\* 0 and not greater than MaxPort (main.cpp:21), with blanks before and behind it
\* allowed, and returns that number; MaxPort itself is accepted.
THEOREM PortCorrect == Spec => []UnsignedPortExact
<1>1. ASSUME Typed PROVE UnsignedPortExact
  <2> DEFINE C == Alphabet[kind] \cup {" "}
  <2>1. text \in Seq(C)
    BY <1>1, SeqMonotonic DEF Typed
  <2>2. " " \in C
    OBVIOUS
  <2> HIDE DEF C
  <2>3. {"+", "-"} \cap Range(text) = {} => "+" \notin Range(text) /\ "-" \notin Range(text)
    BY ONLY TRUE
  <2>4. QED
    BY ONLY <2>1, <2>2, <2>3, PortRead DEF UnsignedPortExact
<1>2. QED
  BY <1>1, TypedAlways, PTL
=============================================================================
