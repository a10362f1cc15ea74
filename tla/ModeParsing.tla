---------------------------- MODULE ModeParsing ----------------------------
(***************************************************************************)
(* The parse of a mode string such as "+ik-o" with the arguments that      *)
(* follow it, into the list of changes that IrcServer applies.  An         *)
(* argument is a value, a mode string a sequence of characters.            *)
(***************************************************************************)
EXTENDS Naturals, FiniteSets, Sequences, SequencesExt, Positions

Signs == {"+", "-"}

-----------------------------------------------------------------------------
(* parseChannelModeChanges *)

modeNeedsArgument(mode, adding) == mode \in {"k", "o"} \/ (mode = "l" /\ adding)

ModeChange(adding, mode, argument) ==
  [adding |-> adding, mode |-> mode, argument |-> argument]

NoArgument == <<>>

\* The variables of the loop before the first character.
Start == [good |-> TRUE, adding |-> TRUE, signSeen |-> FALSE,
          argumentIndex |-> 1, changes |-> <<>>]

\* Mutant: an argument is taken by every mode that is added.
takesArgumentAdding(mode, adding) == adding
takesArgument(mode, adding) == modeNeedsArgument(mode, adding)

\* One turn of the loop.
parseMode(args, s, c) ==
  LET needs == takesArgument(c, s.adding)
  IN CASE ~s.good -> s
       [] s.good /\ c \in Signs ->
            [s EXCEPT !.adding = (c = "+"), !.signSeen = TRUE]
       [] s.good /\ c \notin Signs
            /\ (~s.signSeen \/ (needs /\ s.argumentIndex > Len(args))) ->
            [s EXCEPT !.good = FALSE]
       [] OTHER ->
            [s EXCEPT !.argumentIndex = IF needs THEN @ + 1 ELSE @,
                      !.changes = Append(@, ModeChange(s.adding, c,
                        IF needs THEN <<args[s.argumentIndex]>> ELSE NoArgument))]

\* The loop over the mode string: its variables after each turn.
modeLoop(string, args) ==
  LET loop[p \in 0 .. Len(string)] ==
        IF p = 0 THEN Start ELSE parseMode(args, loop[p - 1], string[p])
  IN loop

\* The list of changes; an empty list when the request is rejected.
parseChannelModeChanges(string, args) ==
  LET end == modeLoop(string, args)[Len(string)]
  IN IF end.good THEN end.changes ELSE <<>>

\* Mutant: the argument is left out of the line.
broadcastWithoutArgument(change) ==
  [string |-> <<IF change.adding THEN "+" ELSE "-", change.mode>>, args |-> <<>>]

\* broadcastModeChange: the mode string and arguments of the line about a change.
broadcastModeChange(change) ==
  [string |-> <<IF change.adding THEN "+" ELSE "-", change.mode>>,
   args |-> change.argument]

-----------------------------------------------------------------------------
(* The reference *)

\* The letters of a mode string, the nearest sign to the left of a position, and
\* the letters that need an argument.
Letters(string) == {p \in DOMAIN string : string[p] \notin Signs}
SignsTo(string, p) == {q \in 1 .. p : string[q] \in Signs}
Adds(string, p) == string[Max(SignsTo(string, p))] = "+"
Needing(string) ==
  {p \in Letters(string) : modeNeedsArgument(string[p], Adds(string, p))}

\* What the letter at p stands for: those that need an argument share the
\* arguments in order.
Change(string, args, p) ==
  ModeChange(Adds(string, p), string[p],
             IF p \in Needing(string) THEN <<args[Rank(Needing(string), p)]>>
                                      ELSE NoArgument)

\* The changes a mode string stands for: one for each letter, in order; none at
\* all if a letter has no sign before it or there are not enough arguments.
\* Arguments left over are ignored.
Meaning(string, args) ==
  IF \/ \E p \in Letters(string) : SignsTo(string, p) = {}
     \/ Cardinality(Needing(string)) > Len(args)
  THEN <<>>
  ELSE [j \in 1 .. Cardinality(Letters(string)) |->
          Change(string, args, Nth(Letters(string), j))]
=============================================================================
