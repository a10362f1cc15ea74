----------------------------- MODULE NameSyntax -----------------------------
(***************************************************************************)
(* Which nicknames the server accepts, and whether they survive the trip   *)
(* through the protocol: as a parameter of other commands and in the list  *)
(* of names that JOIN is answered with.                                    *)
(***************************************************************************)
EXTENDS CommandParsing

\* Mutant: a colon may come first.
isValidNicknameColon(n) ==
  /\ n # <<>> /\ n[1] \notin {"#", "&"}
  /\ Range(n) \cap {" ", ",", "\r", "\t"} = {}

\* A line holds no newline.
isValidNickname(n) ==
  /\ n # <<>> /\ n[1] \notin {"#", "&", ":"}
  /\ Range(n) \cap {" ", ",", "\r", "\t"} = {}

\* Mutant: a name follows its predecessor at once after an operator's mark.
namesListGlued(members, ops) ==
  LET shown(j) == (IF j \in ops THEN <<"@">> ELSE <<" ">>) \o members[j]
  IN FlattenSeq([j \in DOMAIN members |-> shown(j)])

\* sendChannelNames: the list of a 353 line, for members in the order of their
\* descriptors; ops are the positions of the operators.
namesList(members, ops) ==
  LET shown(j) == (IF j \in ops THEN <<"@">> ELSE <<>>) \o members[j]
  IN Tail(Spaced([j \in DOMAIN members |-> shown(j)]))

\* The 353 line: the client it is for, "=", the channel and the list.
sendChannelNames(channel, members, ops) ==
  withTrailing(<< Issuer, <<"=">>, channel >>, namesList(members, ops))

\* External: a client takes the third parameter for the channel, splits the fourth
\* at its spaces and takes a leading "@" for the mark of an operator.
ClientReadsNames(wire) ==
  LET ps == ClientReads(wire)
      words == parameters(ps[4], 1)
      marked(w) == w[1] = "@"
  IN [channel |-> ps[3],
      names |-> [j \in DOMAIN words |->
                   [op |-> marked(words[j]),
                    nick |-> IF marked(words[j]) THEN Tail(words[j]) ELSE words[j]]]]
=============================================================================
