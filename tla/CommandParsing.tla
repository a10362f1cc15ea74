--------------------------- MODULE CommandParsing ---------------------------
(***************************************************************************)
(* Command::parse, from a line to a name and parameters, and the way back: *)
(* the lines that handlers build from those parameters for other clients,  *)
(* and what a client with the same grammar reads in them.                  *)
(***************************************************************************)
EXTENDS Naturals, Sequences, SequencesExt, Positions

CONSTANTS
  Upper,         \* uppercaseAscii, as a function on characters
  OtherCase,     \* the other character with the same ircCaseFold, or itself
  MaxParameters  \* MAX_COMMAND_PARAMETERS

ASSUME CommandAssumption == MaxParameters \in Nat /\ MaxParameters >= 2

ASSUME CaseAssumption ==
  \A c \in DOMAIN OtherCase : OtherCase[c] \in {" ", ":"} => OtherCase[c] = c

-----------------------------------------------------------------------------
(* Command::parse.  A position past the end is Len(s) + 1. *)

FirstFrom(s, p, Test(_)) ==
  LET q == SelectInSubSeq(s, p, Len(s), Test) IN IF q = 0 THEN Len(s) + 1 ELSE q

\* Mutant: at most one space between parameters.
skipOneSpace(s, p) == IF p <= Len(s) /\ s[p] = " " THEN p + 1 ELSE p

skipSpaces(s, p) == FirstFrom(s, p, LAMBDA c : c # " ")
tokenEnd(s, p) == FirstFrom(s, p, LAMBDA c : c = " ")

normalizeName(name) == [p \in DOMAIN name |-> Upper[name[p]]]

\* The loop over the parameters, from position p on.
parameters(s, p) ==
  LET from[q \in 1 .. Len(s) + 1] ==
        LET start == skipSpaces(s, q)
            end == tokenEnd(s, start)
        IN IF start > Len(s) THEN <<>>
           ELSE IF s[start] = ":" THEN <<SubSeq(s, start + 1, Len(s))>>
           ELSE <<SubSeq(s, start, end - 1)>> \o from[end]
  IN from[p]

\* One parameter too many makes the command invalid.
TooMany(ps) == Len(ps) > MaxParameters

Invalid == [valid |-> FALSE]

parse(s) ==
  LET start == skipSpaces(s, 1)
      end == tokenEnd(s, start)
      ps == parameters(s, end)
  IN IF start > Len(s) THEN Invalid
     ELSE IF s[start] = ":" \/ TooMany(ps) THEN Invalid
     ELSE [valid |-> TRUE, name |-> normalizeName(SubSeq(s, start, end - 1)),
           parameters |-> ps]

-----------------------------------------------------------------------------
(* Lines that tell other clients of a command.  Prefix and command are one letter
   each; ps are the parameters of the command that a handler has accepted. *)

Header == <<":", "B", " ", "B">>

Spaced(ps) == FlattenSeq([j \in DOMAIN ps |-> <<" ">> \o ps[j]])

\* Mutant: the last parameter goes out without its colon.
withTrailingBare(words, last) == Header \o Spaced(Append(words, last))

withTrailing(words, last) == Header \o Spaced(words) \o <<" ", ":">> \o last

\* The spellings of a name that ircCaseFold does not tell apart.
Spellings(n) ==
  LET other(p) == OtherCase[n[p]]
  IN {[p \in DOMAIN n |-> IF p \in S THEN other(p) ELSE n[p]] :
        S \in SUBSET {p \in DOMAIN n : other(p) # n[p]}}

\* JOIN and PRIVMSG tell a channel from a nickname by the first character.
namesChannel(n) == n # <<>> /\ n[1] \in {"#", "&"}

\* Texts of the server's own: "Client Quit", "Connection closed", a nickname.
ClientQuit == <<"b", " ", "b">>
ConnectionClosed == <<"b", " ", "B">>
Issuer == <<"b">>

\* handleQuit, then cleanupClientIrcState: the reason is never empty.
quitLine(ps) ==
  LET reason == IF ps = <<>> THEN ClientQuit ELSE ps[1]
  IN withTrailing(<<>>, IF reason = <<>> THEN ConnectionClosed ELSE reason)

nickLine(ps) == withTrailing(<<>>, ps[1])

\* The channel in the spelling of whoever created it.
joinLine(name) == withTrailing(<<>>, name)

topicLine(ps) == withTrailing(<<ps[1]>>, ps[2])
inviteLine(ps) == withTrailing(<<ps[1]>>, ps[2])

\* A channel as it was addressed, a client in its own spelling.
privmsgLine(ps, owner) ==
  withTrailing(<<IF namesChannel(ps[1]) THEN ps[1] ELSE owner>>, ps[2])

kickLine(ps) ==
  withTrailing(<<ps[1], ps[2]>>, IF Len(ps) >= 3 THEN ps[3] ELSE Issuer)

\* broadcastModeChange: the channel in its creator's spelling, a sign and a letter,
\* and at most one argument, all bare.
modeLine(name, change, args) == Header \o Spaced(<<name, change>> \o args)

\* External: a client drops the prefix and the command, and reads the rest by the
\* same grammar.
ClientReads(wire) ==
  parameters(wire, tokenEnd(wire, skipSpaces(wire, tokenEnd(wire, 1))))

-----------------------------------------------------------------------------
(* The reference *)

\* Where the words of a line begin, and the word that begins at p.
Starts(s) == {p \in DOMAIN s : s[p] # " " /\ (p = 1 \/ s[p - 1] = " ")}
WordAt(s, p) ==
  SubSeq(s, p, Max({q \in p .. Len(s) : \A r \in p .. q : s[r] # " "}))

\* The parameters among the words that begin at the positions in S: the first one
\* with a colon begins the trailing parameter, which takes the rest of the line
\* as it is; those before it are parameters themselves.
Colons(s, S) == {p \in S : s[p] = ":"}
Middles(s, S) == {p \in S : \A q \in Colons(s, S) : p < q}
Trailing(s, S) ==
  IF Colons(s, S) = {} THEN <<>> ELSE <<SubSeq(s, Min(Colons(s, S)) + 1, Len(s))>>
ParametersAt(s, S) ==
  [j \in 1 .. Cardinality(Middles(s, S)) |-> WordAt(s, Nth(Middles(s, S), j))]
    \o Trailing(s, S)

\* The grammar: words are separated by spaces; the first is the name.
Grammar(s) ==
  LET name == Min(Starts(s))
      ps == ParametersAt(s, Starts(s) \ {name})
  IN IF Starts(s) = {} THEN Invalid
     ELSE IF s[name] = ":" \/ Len(ps) > MaxParameters THEN Invalid
     ELSE [valid |-> TRUE, parameters |-> ps, name |-> normalizeName(WordAt(s, name))]
=============================================================================
