------------------------------- MODULE Texts -------------------------------
(***************************************************************************)
(* The parsers at work.  A text is typed character by character, so that   *)
(* every text within the bounds is a state; its kind says where the server *)
(* reads it: as a command line, which is also tried as a nickname, as the  *)
(* names in the answer to JOIN, as the mode string of a MODE command, or   *)
(* as a number.                                                            *)
(***************************************************************************)
EXTENDS NameSyntax, ModeParsing, NumberParsing

CONSTANTS
  Alphabet,   \* the characters of each kind of text
  MaxLength,  \* bound on the length of each kind of text
  Args        \* arguments of a mode string

Kinds == {"line", "names", "modes", "number"}

ASSUME TextAssumption ==
  /\ DOMAIN Alphabet = Kinds /\ DOMAIN MaxLength = Kinds
  /\ \A k \in Kinds : MaxLength[k] \in Nat
  /\ Alphabet["line"] \subseteq DOMAIN OtherCase

VARIABLES kind, text

vars == <<kind, text>>

-----------------------------------------------------------------------------

Init == kind \in Kinds /\ text = <<>>

Type(c) ==
  /\ Len(text) < MaxLength[kind]
  /\ text' = Append(text, c)
  /\ UNCHANGED kind

Next == \E c \in Alphabet[kind] : Type(c)

Spec == Init /\ [][Next]_vars

-----------------------------------------------------------------------------
(* Command lines *)

\* Command::parse reads every line as the grammar says, whatever the number and
\* place of spaces and colons, also with the most parameters allowed and with
\* one more, when the whole command is dropped (Command.cpp:63).
ParseExact == kind = "line" => parse(text) = Grammar(text)

\* What a client reads as one parameter without a colon.
Word(w) == w # <<>> /\ w[1] # ":" /\ " " \notin Range(w)

\* QUIT is told with exactly one reason, never empty; it is the one given, if any.
QuitTold(ps) ==
  LET read == ClientReads(quitLine(ps))
  IN /\ Len(read) = 1 /\ read[1] # <<>>
     /\ ps # <<>> /\ ps[1] # <<>> => read = <<ps[1]>>

\* NICK is told as it was sent, JOIN in the creator's spelling of the channel.
OneTold(ps) ==
  /\ ClientReads(nickLine(ps)) = <<ps[1]>>
  /\ \A name \in Spellings(ps[1]) : ClientReads(joinLine(name)) = <<name>>

\* TOPIC, INVITE and a PRIVMSG to a channel are told as they were sent, a PRIVMSG
\* to a client with that client's spelling of its nickname.
TwoTold(ps) ==
  /\ ClientReads(topicLine(ps)) = <<ps[1], ps[2]>>
  /\ ClientReads(inviteLine(ps)) = <<ps[1], ps[2]>>
  /\ \A owner \in Spellings(ps[1]) :
       LET target == IF namesChannel(ps[1]) THEN ps[1] ELSE owner
       IN ClientReads(privmsgLine(ps, owner)) = <<target, ps[2]>>

\* KICK finds its target by a nickname, hence a valid one; without a reason it
\* gives the issuer's.
KickTold(ps) ==
  isValidNickname(ps[2]) =>
    ClientReads(kickLine(ps)) =
      <<ps[1], ps[2], IF Len(ps) >= 3 THEN ps[3] ELSE Issuer>>

\* MODE without an argument is told as it was applied, with an argument only if
\* that is itself a word.
ModeTold(ps) ==
  \A name \in Spellings(ps[1]) :
    /\ ClientReads(modeLine(name, <<"+", "i">>, <<>>)) = <<name, <<"+", "i">> >>
    /\ Len(ps) >= 3 =>
         (ClientReads(modeLine(name, <<"+", "k">>, <<ps[3]>>)) =
            <<name, <<"+", "k">>, ps[3]>> <=> Word(ps[3]))

\* What the client on the other side reads in the line that each command is told
\* with is what the sender wrote, whatever spaces and colons are in its last
\* parameter, but for the spelling of names and the server's own reasons; only a
\* MODE argument, which goes out without a colon, may come apart.
RelayFaithful ==
  kind = "line" /\ parse(text).valid =>
    LET ps == parse(text).parameters
    IN /\ QuitTold(ps)
       /\ Len(ps) >= 1 => OneTold(ps)
       /\ Len(ps) >= 2 => TwoTold(ps) /\ KickTold(ps) /\ ModeTold(ps)

-----------------------------------------------------------------------------
(* Nicknames and channels *)

\* Every nickname that NICK accepts can be used again: it is read back whole
\* where KICK, INVITE, MODE and PRIVMSG expect it, in front of other parameters.
NicknameAddressable ==
  kind = "line" /\ isValidNickname(text) =>
    parse(<<"B", " ">> \o text \o <<" ", "b">>).parameters = <<text, <<"b">> >>

\* The text cut in three: a channel and two of its members.
Part(c, d) == SubSeq(text, c + 1, d)
Members(c, d) == <<Part(c, d), Part(d, Len(text))>>
Listed(members, ops) ==
  [j \in 1 .. 2 |-> [op |-> j \in ops, nick |-> members[j]]]

\* The answer to JOIN names the channel, every member and every operator, and
\* nobody else, as long as no nickname begins with the operators' mark, which
\* isValidNickname does not refuse.  It does so exactly if the name of the channel
\* has no space: JOIN looks at its first character alone (Join.cpp:39), and
\* sendChannelNames writes it without a colon.
NamesListReadable ==
  kind = "names" =>
    \A c, d \in 1 .. Len(text) - 1 :
      LET channel == SubSeq(text, 1, c)
          members == Members(c, d)
      IN /\ c < d /\ namesChannel(channel)
         /\ \A j \in 1 .. 2 : isValidNickname(members[j]) /\ members[j][1] # "@"
         => \A ops \in SUBSET (1 .. 2) :
              ClientReadsNames(sendChannelNames(channel, members, ops)) =
                [channel |-> channel, names |-> Listed(members, ops)]
              <=> " " \notin Range(channel)

-----------------------------------------------------------------------------
(* Mode strings, with every list of up to two arguments *)

ArgLists == {<<>>} \cup {<<a>> : a \in Args} \cup {<<a, b>> : a, b \in Args}

\* The parse gives every letter its own sign and its own argument, however signs
\* and letters are mixed, and rejects the whole request if a sign or an argument
\* is missing anywhere in it: no change is applied from half a request.
ModeParseExact ==
  kind = "modes" =>
    \A args \in ArgLists : parseChannelModeChanges(text, args) = Meaning(text, args)

\* What the members are told about a change is itself a mode request for exactly
\* that change, so a line never claims another mode, sign or argument.
ChangesReplay ==
  kind = "modes" =>
    \A args \in ArgLists :
      LET changes == parseChannelModeChanges(text, args)
      IN \A j \in DOMAIN changes :
           LET told == broadcastModeChange(changes[j])
           IN parseChannelModeChanges(told.string, told.args) = <<changes[j]>>

-----------------------------------------------------------------------------
(* Numbers *)

\* MODE +l accepts a text exactly if it writes a positive number within the
\* range of size_t, and then sets that number: no sign, no overflow and nothing
\* but blanks after the digits gets through (ModeApply.cpp:11).
LimitExact ==
  kind = "number" =>
    parsePositiveUserLimit(text) = {n \in 1 .. MaxValue : Writes(text, 0, n)}

\* A port without a sign is accepted exactly if it writes a number that is not 0
\* and not greater than 65535, the comparisons of main.cpp:21, and is then that
\* number: 65535 itself is accepted, which "lower than 65535" (main.cpp:8) rules out.
UnsignedPortExact ==
  kind = "number" /\ {"+", "-"} \cap Range(text) = {} =>
    checkPort(text) = {n \in 1 .. MaxPort : Writes(text, Len(text), n)}

\* The comment on checkPort (main.cpp:7-8), "checking valid TCP port num [...] no
\* char": every text accepted writes that port, a plus sign aside.
PortExact ==
  kind = "number" /\ "+" \notin Range(text) =>
    checkPort(text) \subseteq {n \in 1 .. MaxPort : Writes(text, Len(text), n)}
=============================================================================
