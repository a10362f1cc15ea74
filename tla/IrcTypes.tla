------------------------------ MODULE IrcTypes ------------------------------
(***************************************************************************)
(* Constants, records and maps shared by the modules that model ft_irc.    *)
(* A std::map is a function whose domain is the set of present keys.       *)
(***************************************************************************)
EXTENDS Naturals, FiniteSets, Sequences

CONSTANTS
  Fds,          \* descriptors accept() can return for a client connection
  Nicks,        \* nickname spellings that isValidNickname accepts
  ChanNames,    \* channel spellings, each starting with '#' or '&'
  Fold,         \* ircCaseFold, as a function on the two kinds of spelling
  Keys,         \* non-empty channel keys (MODE +k, second argument of JOIN)
  Topics,       \* non-empty channel topics
  SlowReaders,  \* clients whose output buffer may reach MAX_PENDING_OUTPUT
  ModeLines,    \* parsed argument lists of the MODE commands clients send
  NoNick, NoKey, NoTopic,  \* the empty string, as nickname, key and topic
  Idle          \* no MODE command is being applied

NickIds == {Fold[n] : n \in Nicks}
ChanIds == {Fold[c] : c \in ChanNames}

(***************************************************************************)
(* A parsed mode change.  arg is a nickname for 'o', a key for 'k', for 'l' *)
(* the parsed limit (0 for every text that parsePositiveUserLimit refuses), *)
(* and NoKey for the modes that take no argument.                          *)
(***************************************************************************)
ModeChange ==
       [adding : BOOLEAN, mode : {"i", "t", "?"}, arg : {NoKey}]
  \cup [adding : BOOLEAN, mode : {"k"}, arg : Keys \cup {NoKey}]
  \cup [adding : BOOLEAN, mode : {"o"}, arg : Nicks]
  \cup [adding : BOOLEAN, mode : {"l"}, arg : Nat]

ASSUME NameAssumption ==
  /\ NoNick \notin Nicks
  /\ NoKey \notin Keys
  /\ NoTopic \notin Topics

ASSUME ModeAssumption ==
  \A line \in ModeLines : line # <<>> /\ line \in Seq(ModeChange)

\* Client: the registration state and the pending-disconnect flag of one
\* connection.  User and real names, the disconnect reason and the bytes of
\* the buffers influence no decision modelled here.
Client == [nickname : Nicks \cup {NoNick}, passwordAccepted : BOOLEAN,
           hasUser : BOOLEAN, registered : BOOLEAN,
           disconnectRequested : BOOLEAN]

NewClient == [nickname |-> NoNick, passwordAccepted |-> FALSE,
              hasUser |-> FALSE, registered |-> FALSE,
              disconnectRequested |-> FALSE]

\* Channel: the MemberMap is the pair (members, operators); _hasKey and
\* _hasUserLimit are key # NoKey and userLimit # 0, because setKey is called
\* with non-empty keys only and setUserLimit with positive limits only.
Channel == [name : ChanNames, topic : Topics \cup {NoTopic},
            members : SUBSET Fds, operators : SUBSET Fds,
            invitedUsers : SUBSET NickIds,
            inviteOnly : BOOLEAN, topicRestricted : BOOLEAN,
            key : Keys \cup {NoKey}, userLimit : Nat]

\* new Channel(name) followed by addMember(fd, true).
NewChannel(name, fd) ==
  [name |-> name, topic |-> NoTopic, members |-> {fd}, operators |-> {fd},
   invitedUsers |-> {}, inviteOnly |-> FALSE, topicRestricted |-> FALSE,
   key |-> NoKey, userLimit |-> 0]

removeMember(ch, fd) ==
  [ch EXCEPT !.members = @ \ {fd}, !.operators = @ \ {fd}]

\* std::map operations: the empty map, erase a set of keys, assign one key.
EmptyMap == [x \in {} |-> x]
Without(f, S) == [x \in DOMAIN f \ S |-> f[x]]
With(f, x, v) == [y \in DOMAIN f \cup {x} |-> IF y = x THEN v ELSE f[y]]
=============================================================================
