--------------------------- MODULE NumberParsing ---------------------------
(***************************************************************************)
(* The two places where a text becomes a number: the port given to main()  *)
(* and the argument of MODE +l.  Both read an unsigned integer from an     *)
(* istringstream and then test that no other character follows.            *)
(***************************************************************************)
EXTENDS Integers, Sequences, SequencesExt

CONSTANTS
  MaxValue,  \* ULONG_MAX and the largest size_t, 2^64 - 1 in the build
  MaxPort    \* 65535

ASSUME NumberAssumption == MaxValue \in Nat /\ MaxPort \in 1 .. MaxValue

-----------------------------------------------------------------------------
(* External: istringstream >> unsigned, in the default (decimal) format. *)

Numerals == <<"0", "1", "2", "3", "4", "5", "6", "7", "8", "9">>
Digits == Range(Numerals)
DigitValue(d) == CHOOSE v \in 0 .. 9 : Numerals[v + 1] = d

\* The number that a run of digits stands for.
Magnitude(digits) ==
  LET value[p \in 0 .. Len(digits)] ==
        IF p = 0 THEN 0 ELSE 10 * value[p - 1] + DigitValue(digits[p])
  IN value[Len(digits)]

\* The first position from p on whose character is not in S, or past the end.
After(text, S, p) ==
  LET q == SelectInSubSeq(text, p, Len(text), LAMBDA c : c \notin S)
  IN IF q = 0 THEN Len(text) + 1 ELSE q

\* Leading white space is skipped and a sign accepted; no digit, or a magnitude
\* beyond MaxValue, is a failure; the value of a negative number is its
\* complement.  end is where the next extraction begins.
extract(text) ==
  LET start == After(text, {" "}, 1)
      sign == IF start <= Len(text) THEN text[start] ELSE " "
      first == IF sign \in {"+", "-"} THEN start + 1 ELSE start
      end == After(text, Digits, first)
      magnitude == Magnitude(SubSeq(text, first, end - 1))
  IN [good |-> end > first /\ magnitude <= MaxValue,
      value |-> IF sign = "-" THEN (MaxValue + 1 - magnitude) % (MaxValue + 1)
                              ELSE magnitude,
      end |-> end]

\* A further character, white space aside.
MoreAfter(text, p) == After(text, {" "}, p) <= Len(text)

-----------------------------------------------------------------------------
(* The program: the set with the number accepted, empty when refused. *)

\* Mutant: what follows the number is not looked at.
checkPortPrefix(text) ==
  LET port == extract(text)
  IN IF port.good /\ port.value \in 1 .. MaxPort THEN {port.value} ELSE {}

checkPort(text) ==
  LET port == extract(text)
  IN IF port.good /\ ~MoreAfter(text, port.end) /\ port.value \in 1 .. MaxPort
     THEN {port.value} ELSE {}

\* Mutant: without the test of the first character.
parsePositiveUserLimitSigned(text) ==
  LET limit == extract(text)
  IN IF limit.good /\ ~MoreAfter(text, limit.end) /\ limit.value # 0
     THEN {limit.value} ELSE {}

parsePositiveUserLimit(text) ==
  LET limit == extract(text)
  IN IF /\ text # <<>> /\ text[1] \in Digits
        /\ limit.good /\ ~MoreAfter(text, limit.end) /\ limit.value # 0
     THEN {limit.value} ELSE {}

-----------------------------------------------------------------------------
(* The reference *)

\* The usual decimal notation of n.
Decimal(n) ==
  LET digits[m \in 0 .. n] ==
        IF m < 10 THEN <<Numerals[m + 1]>>
        ELSE Append(digits[m \div 10], Numerals[(m % 10) + 1])
  IN digits[n]

Repeat(c, n) == [p \in 1 .. n |-> c]

\* text is n in decimal, after some blanks and zeros and before some blanks.
Writes(text, blanks, n) ==
  \E b \in 0 .. blanks, z, e \in 0 .. Len(text) :
    /\ b + z + e + Len(Decimal(n)) = Len(text)
    /\ text = Repeat(" ", b) \o Repeat("0", z) \o Decimal(n) \o Repeat(" ", e)
=============================================================================
