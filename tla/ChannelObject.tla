--------------------------- MODULE ChannelObject ---------------------------
(***************************************************************************)
(* Class Channel as it is stored, one object from its creation to its      *)
(* deletion: a map from descriptors to members with an operator flag, a    *)
(* flag next to the key and to the limit, and the calls that the handlers  *)
(* make on it under their guards.  IrcServer works with the record of      *)
(* IrcTypes instead; the property says that nothing is lost by it.         *)
(***************************************************************************)
EXTENDS IrcTypes

CONSTANTS
  NickOf,    \* the nickname of each client, which stays
  Name,      \* the channel's name
  Limits,    \* limits that parsePositiveUserLimit accepts
  NoChannel  \* there is no object

ASSUME ChannelAssumption ==
  /\ NickOf \in [Fds -> Nicks]
  /\ \A f, g \in Fds : Fold[NickOf[f]] = Fold[NickOf[g]] => f = g
  /\ Limits \subseteq Nat \ {0}

VARIABLE channel

Changes ==
       [adding : BOOLEAN, mode : {"i", "t", "?"}, arg : {NoKey}]
  \cup [adding : BOOLEAN, mode : {"k"}, arg : Keys \cup {NoKey}]
  \cup [adding : BOOLEAN, mode : {"o"}, arg : {NickOf[fd] : fd \in Fds}]
  \cup [adding : BOOLEAN, mode : {"l"}, arg : Limits \cup {0}]

-----------------------------------------------------------------------------
(* class Channel *)

newChannel ==
  [topic |-> NoTopic, members |-> EmptyMap, invitedUsers |-> {},
   inviteOnly |-> FALSE, topicRestricted |-> FALSE,
   hasKey |-> FALSE, key |-> NoKey, hasUserLimit |-> FALSE, userLimit |-> 0]

hasMember(c, fd) == fd \in DOMAIN c.members
IsMemberOperator(c, fd) == hasMember(c, fd) /\ c.members[fd]
getMemberCount(c) == Cardinality(DOMAIN c.members)

addMember(c, fd, makeOperator) ==
  IF hasMember(c, fd) THEN c
  ELSE [c EXCEPT !.members = With(@, fd, makeOperator)]

eraseMember(c, fd) == [c EXCEPT !.members = Without(@, {fd})]

setMemberOperator(c, fd, enabled) ==
  IF hasMember(c, fd) THEN [c EXCEPT !.members[fd] = enabled] ELSE c

addInvite(c, n) == [c EXCEPT !.invitedUsers = @ \cup {Fold[n]}]
removeInvite(c, n) == [c EXCEPT !.invitedUsers = @ \ {Fold[n]}]
isInvited(c, n) == Fold[n] \in c.invitedUsers

setKey(c, key) == [c EXCEPT !.hasKey = TRUE, !.key = key]
removeKey(c) == [c EXCEPT !.hasKey = FALSE, !.key = NoKey]
setUserLimit(c, limit) == [c EXCEPT !.hasUserLimit = TRUE, !.userLimit = limit]

\* Mutant: the flag stays set.
removeUserLimitKeepsFlag(c) == [c EXCEPT !.userLimit = 0]
removeUserLimit(c) == [c EXCEPT !.hasUserLimit = FALSE, !.userLimit = 0]

-----------------------------------------------------------------------------
(* The handlers' calls *)

\* The checks of JOIN.
mayJoin(c, fd, suppliedKey) ==
  /\ c.inviteOnly => isInvited(c, NickOf[fd])
  /\ c.hasKey => suppliedKey = c.key
  /\ c.hasUserLimit => getMemberCount(c) < c.userLimit

join(c, fd) == removeInvite(addMember(c, fd, FALSE), NickOf[fd])

Owner(n) == CHOOSE fd \in Fds : NickOf[fd] = n

\* The channel after one mode change, whether or not it was refused or silent.
applyMode(c, m) ==
  CASE m.mode = "i" -> [c EXCEPT !.inviteOnly = m.adding]
    [] m.mode = "t" -> [c EXCEPT !.topicRestricted = m.adding]
    [] m.mode = "k" /\ m.adding /\ m.arg # NoKey -> setKey(c, m.arg)
    [] m.mode = "k" /\ ~m.adding -> removeKey(c)
    [] m.mode = "o" /\ hasMember(c, Owner(m.arg)) ->
         setMemberOperator(c, Owner(m.arg), m.adding)
    [] m.mode = "l" /\ m.adding /\ m.arg # 0 -> setUserLimit(c, m.arg)
    [] m.mode = "l" /\ ~m.adding -> removeUserLimit(c)
    [] OTHER -> c

\* Whether the members are told: the early returns of the apply functions.
announced(c, m) ==
  CASE m.mode = "i" -> c.inviteOnly # m.adding
    [] m.mode = "t" -> c.topicRestricted # m.adding
    [] m.mode = "k" -> IF m.adding THEN m.arg # NoKey /\ ~(c.hasKey /\ c.key = m.arg)
                                   ELSE c.hasKey
    [] m.mode = "o" -> /\ hasMember(c, Owner(m.arg))
                       /\ IsMemberOperator(c, Owner(m.arg)) # m.adding
    [] m.mode = "l" -> IF m.adding THEN /\ m.arg # 0
                                        /\ ~(c.hasUserLimit /\ c.userLimit = m.arg)
                                   ELSE c.hasUserLimit
    [] OTHER -> FALSE

-----------------------------------------------------------------------------
(* Specification *)

Init == channel = NoChannel

Create(fd) == channel = NoChannel /\ channel' = addMember(newChannel, fd, TRUE)

Join(fd, key) ==
  /\ channel # NoChannel /\ ~hasMember(channel, fd) /\ mayJoin(channel, fd, key)
  /\ channel' = join(channel, fd)

\* KICK, or the removal of a client.
Leave(fd) ==
  /\ channel # NoChannel /\ hasMember(channel, fd)
  /\ channel' = IF DOMAIN channel.members = {fd} THEN NoChannel
                ELSE eraseMember(channel, fd)

Invite(fd) ==
  /\ channel # NoChannel /\ ~hasMember(channel, fd)
  /\ channel' = addInvite(channel, NickOf[fd])

Topic(topic) ==
  /\ channel # NoChannel
  /\ channel' = [channel EXCEPT !.topic = topic]

Mode(m) == channel # NoChannel /\ channel' = applyMode(channel, m)

Next ==
  \/ \E fd \in Fds : Create(fd) \/ Leave(fd) \/ Invite(fd)
  \/ \E fd \in Fds, key \in Keys \cup {NoKey} : Join(fd, key)
  \/ \E topic \in Topics \cup {NoTopic} : Topic(topic)
  \/ \E m \in Changes : Mode(m)

Spec == Init /\ [][Next]_channel

-----------------------------------------------------------------------------
(* Properties *)

\* The record of IrcTypes that stands for the object.
Record(c) ==
  [name |-> Name, topic |-> c.topic, members |-> DOMAIN c.members,
   operators |-> {fd \in DOMAIN c.members : c.members[fd]},
   invitedUsers |-> c.invitedUsers, inviteOnly |-> c.inviteOnly,
   topicRestricted |-> c.topicRestricted, key |-> c.key, userLimit |-> c.userLimit]

\* IrcServer with this channel and the clients of NickOf.
Irc == INSTANCE IrcServer WITH
  clients <- [fd \in Fds |-> [NewClient EXCEPT !.nickname = NickOf[fd]]],
  nicknameIndex <- [id \in {Fold[NickOf[fd]] : fd \in Fds} |->
                      CHOOSE fd \in Fds : Fold[NickOf[fd]] = id],
  channels <- IF channel = NoChannel THEN EmptyMap
              ELSE [k \in {Fold[Name]} |-> Record(channel)],
  modeRun <- Idle,
  view <- EmptyMap

\* IrcServer's key and limit without flags lose nothing: after any sequence of
\* handlers, JOIN admits the same clients, and every JOIN, departure and mode
\* change has the same effect and is announced to the members in the same cases,
\* as on the object with its flags.
RecordFaithful ==
  channel # NoChannel =>
    LET r == Record(channel)
    IN /\ \A fd \in Fds \ r.members, key \in Keys \cup {NoKey} :
            mayJoin(channel, fd, key) <=> Irc!Admitted(fd, r, key)
       /\ \A fd \in Fds \ r.members : Record(join(channel, fd)) = Irc!Joined(fd, r)
       /\ \A fd \in Fds : Record(eraseMember(channel, fd)) = removeMember(r, fd)
       /\ \A m \in Changes :
            LET new == IF Irc!ModeRefused(r, m) THEN r ELSE Irc!ModeApplied(r, m)
            IN /\ Record(applyMode(channel, m)) = new
               /\ announced(channel, m) <=> new # r
=============================================================================
