------------------------------ MODULE MCTexts ------------------------------
(***************************************************************************)
(* A small instance of Texts for TLC.                                      *)
(***************************************************************************)
EXTENDS Texts

MCCharacters == {" ", ":", "#", "@", "b", "B"}
MCUpper == [c \in MCCharacters |-> IF c = "b" THEN "B" ELSE c]
MCOtherCase ==
  [c \in MCCharacters |-> CASE c = "b" -> "B" [] c = "B" -> "b" [] OTHER -> c]

MCAlphabet ==
  [k \in Kinds |-> CASE k = "line" -> {" ", ":", "#", "b"}
                     [] k = "names" -> {" ", ":", "#", "@", "b"}
                     [] k = "modes" -> {"+", "-", "i", "k", "o", "l", "?"}
                     [] k = "number" -> {"0", "1", "2", " ", "+", "-", "x"}]

\* Nine characters hold a name and four parameters, six a channel whose name has
\* two words and two nicknames.
MCMaxLength ==
  [k \in Kinds |-> CASE k = "line" -> 9 [] k = "names" -> 6 [] OTHER -> 5]
=============================================================================
