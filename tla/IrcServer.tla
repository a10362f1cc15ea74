------------------------------ MODULE IrcServer ------------------------------
(***************************************************************************)
(* The IRC layer of class Server: the three maps it owns (_clients,        *)
(* _nicknameIndex, _channels), every command handler, and the arrival and  *)
(* removal of connections.                                                 *)
(*                                                                         *)
(* The server is one thread and a handler runs to its end before the next  *)
(* event, so a handler is one step.  MODE is the exception: it applies its *)
(* list of changes one by one, each step looking up nicknames and queueing *)
(* lines again, so modeRun holds the changes still to apply and excludes   *)
(* every other step until the list is empty.                               *)
(*                                                                         *)
(* Any client may send any command at any time and a connection may be     *)
(* lost at any time; which client is served when is the event loop's       *)
(* business.  A client marked disconnectRequested is still in every map    *)
(* until removeClient runs, and may still have a line handled before that. *)
(***************************************************************************)
EXTENDS IrcReplica

VARIABLES
  clients,        \* Server::_clients
  nicknameIndex,  \* Server::_nicknameIndex, folded nickname -> fd
  channels,       \* Server::_channels, folded name -> Channel
  modeRun,        \* the MODE command being applied, or Idle
  view            \* observer: what each client knows from the lines sent to it

vars == <<clients, nicknameIndex, channels, modeRun, view>>

ModeRun == [fd : Fds, chan : ChanIds, changes : Seq(ModeChange)]

-----------------------------------------------------------------------------
(* Lookups: a set with the object found, or the empty set for NULL. *)

findClientByNickname(n) ==
  IF Fold[n] \in DOMAIN nicknameIndex
  THEN {nicknameIndex[Fold[n]]} \cap DOMAIN clients ELSE {}

ChannelsOf(fd) == {k \in DOMAIN channels : fd \in channels[k].members}

\* Everybody who shares a channel with fd, fd included when it is on one.
Peers(fd) == UNION {channels[k].members : k \in ChannelsOf(fd)}

Registered(fd) == clients[fd].registered
IsOperator(fd, k) == k \in DOMAIN channels /\ fd \in channels[k].operators
IsMember(fd, k) == k \in DOMAIN channels /\ fd \in channels[k].members

-----------------------------------------------------------------------------
(* Output *)

\* Mutant: a client over its limit is deleted on the spot.
queueLineErasing(cl, full) == Without(cl, full)

\* queueRaw refuses lines to a client already marked, and marks a client whose
\* output buffer is full instead of queueing the line.
queueLine(cl, full) ==
  [fd \in DOMAIN cl |->
     IF fd \in full THEN [cl[fd] EXCEPT !.disconnectRequested = TRUE]
     ELSE cl[fd]]

\* One handler's output: cl is _clients after the handler's own assignments,
\* out maps each recipient to the line queued for it.  Any slow reader among
\* the recipients may be found at its limit.
Emit(cl, out) ==
  \E full \in SUBSET (DOMAIN out \cap SlowReaders) :
    /\ clients' = queueLine(cl, full)
    /\ view' = [fd \in DOMAIN cl |->
                  IF cl[fd].disconnectRequested \/ fd \in full THEN BlankView
                  ELSE IF fd \in DOMAIN out
                       THEN ClientApply(view[fd], cl[fd].nickname, out[fd])
                       ELSE view[fd]]

\* Lines that change nothing a client knows about channels: numerics, PONG,
\* CAP replies, PRIVMSG, INVITE, and the modes i, t, k, l.
Other == [cmd |-> "OTHER"]

broadcastToChannel(ch, m) == [fd \in ch.members |-> m]

\* The answer of a handler that returns early, or only answers its client.
sendNumeric(fd) ==
  /\ Emit(clients, [x \in {fd} |-> Other])
  /\ UNCHANGED <<nicknameIndex, channels, modeRun>>

-----------------------------------------------------------------------------
(* Registration *)

isRegistrationReady(c) ==
  c.passwordAccepted /\ c.nickname # NoNick /\ c.hasUser

tryCompleteRegistration(c) ==
  [c EXCEPT !.registered = @ \/ isRegistrationReady(c)]

\* Store c, the updated Client of fd, after tryCompleteRegistration, and send
\* the welcome lines if that completed the registration.
Progress(fd, c) ==
  LET done == tryCompleteRegistration(c)
  IN Emit([clients EXCEPT ![fd] = done],
          [x \in (IF done.registered THEN {fd} ELSE {}) |-> Other])

handlePass(fd, correct) ==
  IF Registered(fd) \/ ~correct
  THEN sendNumeric(fd)
  ELSE /\ Progress(fd, [clients[fd] EXCEPT !.passwordAccepted = TRUE])
       /\ UNCHANGED <<nicknameIndex, channels, modeRun>>

\* Mutant: USER does not try to complete the registration.
handleUserNoTry(fd) ==
  IF Registered(fd) THEN sendNumeric(fd)
  ELSE /\ Emit([clients EXCEPT ![fd].hasUser = TRUE], EmptyMap)
       /\ UNCHANGED <<nicknameIndex, channels, modeRun>>

handleUser(fd) ==
  IF Registered(fd)
  THEN sendNumeric(fd)
  ELSE /\ Progress(fd, [clients[fd] EXCEPT !.hasUser = TRUE])
       /\ UNCHANGED <<nicknameIndex, channels, modeRun>>

\* Mutants: the invitation stays under the old name, or moves unfolded.
MoveInviteForgotten(invited, old, new) == invited
MoveInviteUnfolded(invited, old, new) ==
  IF old # NoNick /\ Fold[old] \in invited
  THEN (invited \ {Fold[old]}) \cup {new} ELSE invited

\* An invitation is a folded nickname and follows its owner's change of name.
MoveInvite(invited, old, new) ==
  IF old # NoNick /\ Fold[old] \in invited
  THEN (invited \ {Fold[old]}) \cup {Fold[new]} ELSE invited

\* Mutant: the old nickname stays taken.
DropNickForgotten(old) == nicknameIndex

\* _nicknameIndex without the entry of a nickname given up.
DropNick(old) ==
  IF old = NoNick THEN nicknameIndex ELSE Without(nicknameIndex, {Fold[old]})

\* Mutant: spellings are compared, not folded nicknames.
NickInUseSpelling(fd, n) ==
  \E other \in DOMAIN clients \ {fd} : clients[other].nickname = n

NickInUse(fd, n) ==
  Fold[n] \in DOMAIN nicknameIndex /\ nicknameIndex[Fold[n]] # fd

\* Mutant: only the first channel of the client is told.
NickRecipientsFirst(fd) ==
  IF ~Registered(fd) THEN {}
  ELSE {fd} \cup IF ChannelsOf(fd) = {} THEN {}
                 ELSE channels[CHOOSE k \in ChannelsOf(fd) : TRUE].members

\* Who is told of a nickname change; nobody for the first NICK.
NickRecipients(fd) == IF Registered(fd) THEN Peers(fd) \cup {fd} ELSE {}

handleNick(fd, n) ==
  LET old == clients[fd].nickname
      renamed == [clients[fd] EXCEPT !.nickname = n]
  IN IF NickInUse(fd, n) THEN sendNumeric(fd)
     ELSE IF old = n THEN UNCHANGED vars
     ELSE /\ channels' = [k \in DOMAIN channels |->
               [channels[k] EXCEPT !.invitedUsers = MoveInvite(@, old, n)]]
          /\ nicknameIndex' = With(DropNick(old), Fold[n], fd)
          /\ IF Registered(fd)
             THEN Emit([clients EXCEPT ![fd] = renamed],
                       [x \in NickRecipients(fd) |->
                          [cmd |-> "NICK", nick |-> old, new |-> n]])
             ELSE Progress(fd, renamed)
          /\ UNCHANGED modeRun

-----------------------------------------------------------------------------
(* Commands with no effect on the three maps *)

handlePing(fd) == sendNumeric(fd)
handleCap(fd) == sendNumeric(fd)
handleUnknownCommand(fd) == sendNumeric(fd)

\* A command whose parameters are missing, or a nickname or channel name no
\* handler accepts: 403, 411, 412, 431, 432, 451 or 461 and nothing else.
RefusedCommand(fd) == sendNumeric(fd)

\* PRIVMSG: a spelling of a channel, or of a nickname.
PrivmsgRecipients(fd, target) ==
  IF target \in ChanNames
  THEN IF IsMember(fd, Fold[target])
       THEN channels[Fold[target]].members \ {fd} ELSE {}
  ELSE findClientByNickname(target)

PrivmsgRefused(fd, target) ==
  \/ ~Registered(fd)
  \/ target \in ChanNames /\ ~IsMember(fd, Fold[target])
  \/ target \in Nicks /\ findClientByNickname(target) = {}

handlePrivmsg(fd, target) ==
  IF PrivmsgRefused(fd, target)
  THEN sendNumeric(fd)
  ELSE /\ Emit(clients, [x \in PrivmsgRecipients(fd, target) |-> Other])
       /\ UNCHANGED <<nicknameIndex, channels, modeRun>>

\* QUIT only marks the client; removeClient announces it.
handleQuit(fd) ==
  /\ clients' = [clients EXCEPT ![fd].disconnectRequested = TRUE]
  /\ view' = [view EXCEPT ![fd] = BlankView]
  /\ UNCHANGED <<nicknameIndex, channels, modeRun>>

-----------------------------------------------------------------------------
(* Channels *)

\* The lines JOIN queues: the JOIN line to every member and to the joiner also
\* the topic (331/332) and the names (353/366), read after addMember.
JoinLines(fd, k, ch) ==
  LET nick(x) == clients[x].nickname
      joined == [cmd |-> "JOINED", chan |-> k, topic |-> ch.topic,
                 names |-> {nick(x) : x \in ch.members},
                 ops |-> {nick(x) : x \in ch.operators}]
  IN [x \in ch.members |->
        IF x = fd THEN joined
        ELSE [cmd |-> "JOIN", chan |-> k, nick |-> nick(fd)]]

\* Mutant: off by one in the user limit.
AdmittedOneMore(fd, ch, key) ==
  /\ ch.inviteOnly => Fold[clients[fd].nickname] \in ch.invitedUsers
  /\ ch.key # NoKey => key = ch.key
  /\ ch.userLimit # 0 => Cardinality(ch.members) <= ch.userLimit

\* The +i, +k and +l checks, with the key given (NoKey when absent).
Admitted(fd, ch, key) ==
  /\ ch.inviteOnly => Fold[clients[fd].nickname] \in ch.invitedUsers
  /\ ch.key # NoKey => key = ch.key
  /\ ch.userLimit # 0 => Cardinality(ch.members) < ch.userLimit

\* addMember(fd, false), then removeInvite(nickname).
Joined(fd, ch) ==
  [ch EXCEPT !.members = @ \cup {fd},
             !.invitedUsers = @ \ {Fold[clients[fd].nickname]}]

handleJoin(fd, name, key) ==
  LET k == Fold[name]
      ch == IF k \in DOMAIN channels THEN Joined(fd, channels[k])
                                     ELSE NewChannel(name, fd)
  IN IF ~Registered(fd) THEN sendNumeric(fd)
     ELSE IF IsMember(fd, k) THEN UNCHANGED vars
     ELSE IF k \in DOMAIN channels /\ ~Admitted(fd, channels[k], key)
          THEN sendNumeric(fd)
     ELSE /\ channels' = With(channels, k, ch)
          /\ Emit(clients, JoinLines(fd, k, ch))
          /\ UNCHANGED <<nicknameIndex, modeRun>>

\* Mutant: an empty channel stays.
removeMemberFromChannelKept(k, fd) ==
  [channels EXCEPT ![k] = removeMember(@, fd)]

\* A channel left by its last member is erased and deleted.
removeMemberFromChannel(k, fd) ==
  LET ch == removeMember(channels[k], fd)
  IN IF ch.members # {} THEN [channels EXCEPT ![k] = ch]
     ELSE Without(channels, {Fold[ch.name]})

\* The member a KICK names, if the client may kick it.
KickTargets(fd, k, n) ==
  IF Registered(fd) /\ IsOperator(fd, k)
  THEN findClientByNickname(n) \cap channels[k].members ELSE {}

\* Mutant: the KICK line goes out after the removal, so not to the target.
handleKickLate(fd, name, n) ==
  LET k == Fold[name]
  IN IF KickTargets(fd, k, n) = {} THEN sendNumeric(fd)
     ELSE \E target \in KickTargets(fd, k, n) :
            /\ channels' = removeMemberFromChannel(k, target)
            /\ Emit(clients, broadcastToChannel(removeMember(channels[k], target),
                       [cmd |-> "KICK", chan |-> k, nick |-> n]))
            /\ UNCHANGED <<nicknameIndex, modeRun>>

\* The KICK line goes out before the membership is removed, to the target too.
handleKick(fd, name, n) ==
  LET k == Fold[name]
  IN IF KickTargets(fd, k, n) = {} THEN sendNumeric(fd)
     ELSE \E target \in KickTargets(fd, k, n) :
            /\ channels' = removeMemberFromChannel(k, target)
            /\ Emit(clients, broadcastToChannel(channels[k],
                       [cmd |-> "KICK", chan |-> k, nick |-> n]))
            /\ UNCHANGED <<nicknameIndex, modeRun>>

\* The client an INVITE names, if it may be invited by this client.
InviteTargets(fd, k, n) ==
  IF Registered(fd) /\ IsOperator(fd, k)
  THEN findClientByNickname(n) \ channels[k].members ELSE {}

handleInvite(fd, n, name) ==
  LET k == Fold[name]
      targets == InviteTargets(fd, k, n)
  IN IF targets = {} THEN sendNumeric(fd)
     ELSE /\ channels' = [channels EXCEPT ![k].invitedUsers = @ \cup {Fold[n]}]
          /\ Emit(clients, [x \in {fd} \cup targets |-> Other])
          /\ UNCHANGED <<nicknameIndex, modeRun>>

\* TOPIC with one parameter is answered with 331 or 332.
handleTopicQuery(fd, name) == sendNumeric(fd)

MaySetTopic(fd, k) ==
  /\ Registered(fd) /\ IsMember(fd, k)
  /\ channels[k].topicRestricted => IsOperator(fd, k)

handleTopic(fd, name, topic) ==
  LET k == Fold[name]
  IN IF ~MaySetTopic(fd, k) THEN sendNumeric(fd)
     ELSE /\ channels' = [channels EXCEPT ![k].topic = topic]
          /\ Emit(clients, broadcastToChannel(channels[k],
                     [cmd |-> "TOPIC", chan |-> k, topic |-> topic]))
          /\ UNCHANGED <<nicknameIndex, modeRun>>

-----------------------------------------------------------------------------
(* MODE: each operator is the channel after one change. *)

applyInviteOnlyMode(ch, m) == [ch EXCEPT !.inviteOnly = m.adding]
applyTopicRestrictedMode(ch, m) == [ch EXCEPT !.topicRestricted = m.adding]
applyKeyMode(ch, m) == [ch EXCEPT !.key = IF m.adding THEN m.arg ELSE NoKey]
applyUserLimitMode(ch, m) ==
  [ch EXCEPT !.userLimit = IF m.adding THEN m.arg ELSE 0]
applyOperatorMode(ch, m) ==
  LET target == findClientByNickname(m.arg)
  IN [ch EXCEPT !.operators = IF m.adding THEN @ \cup target ELSE @ \ target]

\* 696, 401, 441 and 472: the change is answered with an error.
ModeRefused(ch, m) ==
  \/ m.mode = "k" /\ m.adding /\ m.arg = NoKey
  \/ m.mode = "l" /\ m.adding /\ m.arg = 0
  \/ m.mode = "o" /\ findClientByNickname(m.arg) \cap ch.members = {}
  \/ m.mode = "?"

ModeApplied(ch, m) ==
  CASE m.mode = "i" -> applyInviteOnlyMode(ch, m)
    [] m.mode = "t" -> applyTopicRestrictedMode(ch, m)
    [] m.mode = "k" -> applyKeyMode(ch, m)
    [] m.mode = "o" -> applyOperatorMode(ch, m)
    [] m.mode = "l" -> applyUserLimitMode(ch, m)
    [] OTHER -> ch

\* The line about one change; clients follow the operators of a channel.
broadcastModeChange(k, ch, m) ==
  broadcastToChannel(ch,
    IF m.mode = "o" THEN [cmd |-> "MODE", chan |-> k, adding |-> m.adding,
                          nick |-> m.arg]
    ELSE Other)

\* The permission is checked once, before the list of changes is applied.
handleMode(fd, name, line) ==
  IF Registered(fd) /\ IsOperator(fd, Fold[name])
  THEN /\ modeRun' = [fd |-> fd, chan |-> Fold[name], changes |-> line]
       /\ UNCHANGED <<clients, nicknameIndex, channels, view>>
  ELSE sendNumeric(fd)

\* One iteration of the loop over the changes.  A change that alters nothing
\* is silent.
applyChannelModeChange ==
  LET k == modeRun.chan
      ch == channels[k]
      m == Head(modeRun.changes)
      new == ModeApplied(ch, m)
  IN /\ modeRun # Idle
     /\ modeRun' = IF Len(modeRun.changes) = 1 THEN Idle
                   ELSE [modeRun EXCEPT !.changes = Tail(@)]
     /\ UNCHANGED nicknameIndex
     /\ IF ModeRefused(ch, m)
        THEN Emit(clients, [x \in {modeRun.fd} |-> Other]) /\ UNCHANGED channels
        ELSE IF new = ch THEN UNCHANGED <<clients, channels, view>>
        ELSE /\ channels' = [channels EXCEPT ![k] = new]
             /\ Emit(clients, broadcastModeChange(k, new, m))

-----------------------------------------------------------------------------
(* Connections *)

\* The kernel returns a descriptor that is not open; a Client closes its own
\* only when it is deleted.
acceptClient(fd) ==
  /\ fd \notin DOMAIN clients
  /\ clients' = With(clients, fd, NewClient)
  /\ view' = With(view, fd, BlankView)
  /\ UNCHANGED <<nicknameIndex, channels, modeRun>>

\* Mutant: the invitations of a lost client stay.
ChannelsWithoutMember(fd, nick) ==
  LET left == [k \in DOMAIN channels |-> removeMember(channels[k], fd)]
  IN Without(left, {k \in DOMAIN left : left[k].members = {}})

\* Channels without the client and its invitations, the empty ones erased.
ChannelsWithout(fd, nick) ==
  LET left == [k \in DOMAIN channels |->
                [removeMember(channels[k], fd) EXCEPT !.invitedUsers =
                   IF nick = NoNick THEN @ ELSE @ \ {Fold[nick]}]]
  IN Without(left, {k \in DOMAIN left : left[k].members = {}})

\* Mutant: the index keeps the nickname of a lost client.
IndexWithoutForgotten(fd, nick) == nicknameIndex

\* The index entry goes only if it still belongs to this descriptor.
IndexWithout(fd, nick) ==
  Without(nicknameIndex,
          {id \in DOMAIN nicknameIndex : /\ nick # NoNick
                                         /\ id = Fold[nick]
                                         /\ nicknameIndex[id] = fd})

QuitRecipients(fd) == IF Registered(fd) THEN Peers(fd) \ {fd} ELSE {}

\* removeClient: on a lost connection, a read or write error, an input buffer
\* over its limit, or in removeDisconnectedClients.
removeClient(fd) ==
  LET nick == clients[fd].nickname
  IN /\ channels' = ChannelsWithout(fd, nick)
     /\ nicknameIndex' = IndexWithout(fd, nick)
     /\ Emit(Without(clients, {fd}),
             [x \in QuitRecipients(fd) |-> [cmd |-> "QUIT", nick |-> nick]])
     /\ UNCHANGED modeRun

-----------------------------------------------------------------------------
(* Specification *)

Init ==
  /\ clients = EmptyMap
  /\ nicknameIndex = EmptyMap
  /\ channels = EmptyMap
  /\ modeRun = Idle
  /\ view = EmptyMap

\* dispatchCommand
dispatchCommand(fd) ==
  \/ handlePing(fd)
  \/ handleQuit(fd)
  \/ handleCap(fd)
  \/ \E correct \in BOOLEAN : handlePass(fd, correct)
  \/ handleUser(fd)
  \/ \E n \in Nicks : handleNick(fd, n)
  \/ \E target \in Nicks \cup ChanNames : handlePrivmsg(fd, target)
  \/ \E name \in ChanNames, key \in Keys \cup {NoKey} : handleJoin(fd, name, key)
  \/ \E name \in ChanNames : handleTopicQuery(fd, name)
  \/ \E name \in ChanNames, topic \in Topics \cup {NoTopic} :
       handleTopic(fd, name, topic)
  \/ \E name \in ChanNames, n \in Nicks : handleKick(fd, name, n)
  \/ \E name \in ChanNames, n \in Nicks : handleInvite(fd, n, name)
  \/ \E name \in ChanNames, line \in ModeLines : handleMode(fd, name, line)
  \/ handleUnknownCommand(fd)
  \/ RefusedCommand(fd)

Next ==
  \/ /\ modeRun = Idle
     /\ \/ \E fd \in Fds : acceptClient(fd)
        \/ \E fd \in DOMAIN clients : dispatchCommand(fd) \/ removeClient(fd)
  \/ applyChannelModeChange

Spec == Init /\ [][Next]_vars

-----------------------------------------------------------------------------
(* Properties *)

\* The maps hold objects of their classes, and the command in progress is a
\* list of parsed changes with at least one left.
TypeOK ==
  /\ DOMAIN clients \subseteq Fds
  /\ \A fd \in DOMAIN clients : clients[fd] \in Client
  /\ DOMAIN nicknameIndex \subseteq NickIds
  /\ \A id \in DOMAIN nicknameIndex : nicknameIndex[id] \in Fds
  /\ DOMAIN channels \subseteq ChanIds
  /\ \A k \in DOMAIN channels : channels[k] \in Channel
  /\ modeRun # Idle => modeRun \in ModeRun /\ modeRun.changes # <<>>
  /\ DOMAIN view = DOMAIN clients

\* Through every order of NICK, renaming, QUIT, lost connections and reuse of
\* descriptors, _nicknameIndex holds exactly the nicknames of the connected
\* clients, each under its folded form and with the owner's descriptor: no two
\* clients share a nickname, a nickname given up or left behind is free at once,
\* and findClientByNickname never reaches a dead or another client.
NicknameIndexExact ==
  /\ \A id \in DOMAIN nicknameIndex :
       /\ nicknameIndex[id] \in DOMAIN clients
       /\ clients[nicknameIndex[id]].nickname # NoNick
       /\ Fold[clients[nicknameIndex[id]].nickname] = id
  /\ \A fd \in DOMAIN clients :
       clients[fd].nickname # NoNick =>
         /\ Fold[clients[fd].nickname] \in DOMAIN nicknameIndex
         /\ nicknameIndex[Fold[clients[fd].nickname]] = fd

\* Every channel has a member, every member is a connected and registered
\* client, operators are members, and a channel is filed under its folded name:
\* a reused descriptor inherits neither membership nor operator status
\* (Server.cpp:163), and no empty channel keeps its modes for the next comer.
MembershipSound ==
  \A k \in DOMAIN channels :
    /\ channels[k].members # {}
    /\ channels[k].operators \subseteq channels[k].members
    /\ Fold[channels[k].name] = k
    /\ \A fd \in channels[k].members :
         fd \in DOMAIN clients /\ clients[fd].registered

\* An invitation always names a connected client that is not on the channel:
\* it moves with a change of nickname, is spent by JOIN and ends with the
\* connection, so whoever takes a free nickname inherits no invitation.
InvitationsSound ==
  \A k \in DOMAIN channels : \A id \in channels[k].invitedUsers :
    /\ id \in DOMAIN nicknameIndex
    /\ nicknameIndex[id] \notin channels[k].members

\* PASS, NICK and USER complete the registration in whatever order they
\* succeed, the last of the three at once, and nothing else does: no order of
\* commands registers a client without the password, or leaves one that gave all
\* three unregistered for ever.
RegistrationExact ==
  \A fd \in DOMAIN clients :
    clients[fd].registered <=> /\ clients[fd].passwordAccepted
                               /\ clients[fd].hasUser
                               /\ clients[fd].nickname # NoNick

\* The Channel& and Client& that handleMode holds stay valid until the last
\* change is applied, even when the changes take the issuer's own rights away.
ModeTargetsAlive ==
  modeRun # Idle => /\ modeRun.fd \in DOMAIN clients
                    /\ modeRun.chan \in DOMAIN channels
                    /\ modeRun.fd \in channels[modeRun.chan].members

\* What the members of a channel are, seen from the server.
Actual(k) ==
  [names |-> {clients[x].nickname : x \in channels[k].members},
   ops |-> {clients[x].nickname : x \in channels[k].operators},
   topic |-> channels[k].topic]

\* A client that has not been cut off can tell from the lines sent to it, and
\* from nothing else, exactly which channels it is on, who else is on them under
\* which nickname, who is operator and what the topic is: no join, kick, quit,
\* rename, operator or topic change fails to reach it, or reaches it from a channel
\* it is not on.
ViewsConsistent ==
  \A fd \in DOMAIN clients :
    ~clients[fd].disconnectRequested =>
      view[fd] = [synced |-> TRUE,
                  chans |-> [k \in ChannelsOf(fd) |-> Actual(k)]]

\* No step moves an index entry from one connection to another.
OwnersKept ==
  \A id \in DOMAIN nicknameIndex \cap DOMAIN nicknameIndex' :
    nicknameIndex'[id] = nicknameIndex[id]

\* A nickname, in whatever spelling, changes hands only after its owner gave it
\* up or was removed: NICK never takes it over (433, Nick.cpp:47).
NicknamesNotStolen == [][OwnersKept]_vars
=============================================================================
