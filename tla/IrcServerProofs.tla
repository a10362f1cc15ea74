-------------------------- MODULE IrcServerProofs --------------------------
(***************************************************************************)
(* The invariants of IrcServer, for every value of the constants.          *)
(*                                                                         *)
(* Sound(cl, idx, chs) states the invariants of the three maps about any   *)
(* three maps, so that each lemma below speaks of one change to them and   *)
(* not of a step.  Queueing lines only marks clients (EmitKeepsIdentities) *)
(* and marks do not matter to Sound (MarksDoNotMatter), so a step keeps    *)
(* the invariants if the assignments of its handler do.                    *)
(***************************************************************************)
EXTENDS IrcServer, SequenceTheorems, TLAPS

ClientMap(cl) == DOMAIN cl \subseteq Fds /\ \A fd \in DOMAIN cl : cl[fd] \in Client

RegistrationSound(cl) ==
  \A fd \in DOMAIN cl : cl[fd].registered <=> /\ cl[fd].passwordAccepted
                                              /\ cl[fd].hasUser
                                              /\ cl[fd].nickname # NoNick

IndexSound(cl, idx) ==
  /\ DOMAIN idx \subseteq NickIds
  /\ \A id \in DOMAIN idx : /\ idx[id] \in DOMAIN cl
                            /\ cl[idx[id]].nickname # NoNick
                            /\ Fold[cl[idx[id]].nickname] = id
  /\ \A fd \in DOMAIN cl : cl[fd].nickname # NoNick =>
                             /\ Fold[cl[fd].nickname] \in DOMAIN idx
                             /\ idx[Fold[cl[fd].nickname]] = fd

\* What one channel, filed under k, must satisfy.
ChannelSound(cl, idx, k, ch) ==
  /\ ch \in Channel
  /\ ch.members # {}
  /\ ch.operators \subseteq ch.members
  /\ Fold[ch.name] = k
  /\ \A fd \in ch.members : fd \in DOMAIN cl /\ cl[fd].registered
  /\ \A id \in ch.invitedUsers : id \in DOMAIN idx /\ idx[id] \notin ch.members

ChannelsSound(cl, idx, chs) ==
  /\ DOMAIN chs \subseteq ChanIds
  /\ \A k \in DOMAIN chs : ChannelSound(cl, idx, k, chs[k])

Sound(cl, idx, chs) ==
  /\ ClientMap(cl) /\ RegistrationSound(cl)
  /\ IndexSound(cl, idx) /\ ChannelsSound(cl, idx, chs)

ModeSound ==
  modeRun # Idle => /\ modeRun \in ModeRun
                    /\ modeRun.changes # <<>>
                    /\ modeRun.fd \in DOMAIN clients
                    /\ modeRun.chan \in DOMAIN channels
                    /\ modeRun.fd \in channels[modeRun.chan].members

\* The inductive invariant.
IInv == /\ Sound(clients, nicknameIndex, channels)
        /\ ModeSound
        /\ DOMAIN view = DOMAIN clients

\* Two client maps that differ at most in the pending-disconnect flags.
SameIdentities(cl, cl2) ==
  /\ DOMAIN cl2 = DOMAIN cl
  /\ \A fd \in DOMAIN cl : /\ cl2[fd].nickname = cl[fd].nickname
                           /\ cl2[fd].registered = cl[fd].registered
                           /\ cl2[fd].passwordAccepted = cl[fd].passwordAccepted
                           /\ cl2[fd].hasUser = cl[fd].hasUser

-----------------------------------------------------------------------------
(* Facts about the maps *)

\* Queueing lines (queueRaw) marks clients and changes nothing else about them.
LEMMA EmitKeepsIdentities ==
  ASSUME NEW cl, ClientMap(cl), NEW out, Emit(cl, out)
  PROVE  /\ ClientMap(clients')
         /\ SameIdentities(cl, clients')
         /\ DOMAIN view' = DOMAIN cl
<1>1. PICK full \in SUBSET (DOMAIN out \cap SlowReaders) :
        /\ clients' = queueLine(cl, full)
        /\ DOMAIN view' = DOMAIN cl
  BY DEF Emit
<1>2. DOMAIN clients' = DOMAIN cl
  BY <1>1 DEF queueLine
<1>3. ASSUME NEW fd \in DOMAIN cl
      PROVE  /\ clients'[fd] \in Client
             /\ clients'[fd].nickname = cl[fd].nickname
             /\ clients'[fd].registered = cl[fd].registered
             /\ clients'[fd].passwordAccepted = cl[fd].passwordAccepted
             /\ clients'[fd].hasUser = cl[fd].hasUser
  BY <1>1 DEF queueLine, ClientMap, Client
<1>4. QED
  BY <1>1, <1>2, <1>3 DEF ClientMap, SameIdentities

\* The pending-disconnect flags do not matter to the invariants of the maps.
LEMMA MarksDoNotMatter ==
  ASSUME NEW cl, NEW cl2, NEW idx, NEW chs,
         Sound(cl, idx, chs), ClientMap(cl2), SameIdentities(cl, cl2)
  PROVE  Sound(cl2, idx, chs)
<1>1. RegistrationSound(cl2)
  BY DEF Sound, SameIdentities, RegistrationSound
<1>2. IndexSound(cl2, idx)
  BY DEF Sound, SameIdentities, IndexSound
<1>3. ChannelsSound(cl2, idx, chs)
  BY DEF Sound, SameIdentities, ChannelsSound, ChannelSound
<1>4. QED
  BY <1>1, <1>2, <1>3 DEF Sound

\* A handler that leaves sound maps behind, and then queues lines, is sound.
LEMMA EmitKeepsSound ==
  ASSUME NEW cl, NEW out, Sound(cl, nicknameIndex', channels'), Emit(cl, out)
  PROVE  /\ Sound(clients', nicknameIndex', channels')
         /\ DOMAIN clients' = DOMAIN cl
         /\ DOMAIN view' = DOMAIN clients'
<1>1. ClientMap(cl)
  BY DEF Sound
<1>2. /\ ClientMap(clients')
      /\ SameIdentities(cl, clients')
      /\ DOMAIN view' = DOMAIN cl
  BY <1>1, EmitKeepsIdentities
<1>3. Sound(clients', nicknameIndex', channels')
  BY <1>2, MarksDoNotMatter
<1>4. QED
  BY <1>2, <1>3 DEF SameIdentities

\* Storing one sound channel keeps the channels sound.
LEMMA StoreChannel ==
  ASSUME NEW cl, NEW idx, NEW chs, NEW k \in ChanIds, NEW ch,
         Sound(cl, idx, chs), ChannelSound(cl, idx, k, ch)
  PROVE  Sound(cl, idx, With(chs, k, ch))
<1>1. /\ DOMAIN With(chs, k, ch) = DOMAIN chs \cup {k}
      /\ \A x \in DOMAIN chs \cup {k} :
           With(chs, k, ch)[x] = IF x = k THEN ch ELSE chs[x]
  BY DEF With
<1>2. ChannelsSound(cl, idx, With(chs, k, ch))
  BY <1>1 DEF Sound, ChannelsSound
<1>3. QED
  BY <1>2 DEF Sound

\* Erasing channels keeps the others sound.
LEMMA EraseChannels ==
  ASSUME NEW cl, NEW idx, NEW chs, NEW S, Sound(cl, idx, chs)
  PROVE  Sound(cl, idx, Without(chs, S))
<1>1. ChannelsSound(cl, idx, Without(chs, S))
  BY DEF Sound, ChannelsSound, Without
<1>2. QED
  BY <1>1 DEF Sound

-----------------------------------------------------------------------------
(* One lemma per way a handler changes the maps *)

\* Registration: a client that keeps its nickname may store whatever flags agree
\* with each other, as long as it does not lose its registration.
LEMMA StoreClient ==
  ASSUME NEW cl, NEW idx, NEW chs, Sound(cl, idx, chs),
         NEW fd \in DOMAIN cl, NEW c \in Client,
         c.nickname = cl[fd].nickname,
         cl[fd].registered => c.registered,
         c.registered <=> /\ c.passwordAccepted
                          /\ c.hasUser
                          /\ c.nickname # NoNick
  PROVE  Sound([cl EXCEPT ![fd] = c], idx, chs)
<1> DEFINE new == [cl EXCEPT ![fd] = c]
<1>1. /\ DOMAIN new = DOMAIN cl
      /\ new[fd] = c
      /\ \A x \in DOMAIN cl : x # fd => new[x] = cl[x]
  OBVIOUS
<1> HIDE DEF new
<1>2. ClientMap(new) /\ RegistrationSound(new)
  BY <1>1 DEF Sound, ClientMap, RegistrationSound
<1>3. IndexSound(new, idx)
  BY <1>1 DEF Sound, IndexSound
<1>4. ChannelsSound(new, idx, chs)
  BY <1>1 DEF Sound, ChannelsSound, ChannelSound
<1>5. Sound(new, idx, chs)
  BY <1>2, <1>3, <1>4 DEF Sound
<1>6. QED
  BY <1>5 DEF new

\* PASS and USER: the client stored by Progress is registered exactly when it has
\* given all three of password, nickname and user.
LEMMA ProgressKeepsSound ==
  ASSUME Sound(clients, nicknameIndex, channels),
         NEW fd \in DOMAIN clients, NEW c \in Client,
         ~clients[fd].registered,
         c.nickname = clients[fd].nickname, ~c.registered
  PROVE  Sound([clients EXCEPT ![fd] = tryCompleteRegistration(c)],
               nicknameIndex, channels)
<1>1. /\ tryCompleteRegistration(c) \in Client
      /\ tryCompleteRegistration(c).nickname = c.nickname
      /\ tryCompleteRegistration(c).registered <=>
           /\ tryCompleteRegistration(c).passwordAccepted
           /\ tryCompleteRegistration(c).hasUser
           /\ tryCompleteRegistration(c).nickname # NoNick
  BY DEF tryCompleteRegistration, isRegistrationReady, Client
<1>2. QED
  BY <1>1, StoreClient

\* NICK: the index entry and the invitations move together with the nickname.
LEMMA RenameKeepsSound ==
  ASSUME Sound(clients, nicknameIndex, channels),
         NEW fd \in DOMAIN clients, NEW n \in Nicks, ~NickInUse(fd, n),
         NEW c \in Client, c.nickname = n,
         clients[fd].registered => c.registered,
         c.registered <=> c.passwordAccepted /\ c.hasUser,
         NoNick \notin Nicks
  PROVE  Sound([clients EXCEPT ![fd] = c],
               With(DropNick(clients[fd].nickname), Fold[n], fd),
               [k \in DOMAIN channels |->
                  [channels[k] EXCEPT !.invitedUsers =
                     MoveInvite(@, clients[fd].nickname, n)]])
<1> DEFINE old == clients[fd].nickname
           cl  == [clients EXCEPT ![fd] = c]
           idx == With(DropNick(old), Fold[n], fd)
           chs == [k \in DOMAIN channels |->
                    [channels[k] EXCEPT !.invitedUsers = MoveInvite(@, old, n)]]
<1>1. /\ DOMAIN cl = DOMAIN clients
      /\ cl[fd] = c
      /\ \A x \in DOMAIN clients : x # fd => cl[x] = clients[x]
  OBVIOUS
<1>2. /\ DOMAIN idx = {id \in DOMAIN nicknameIndex :
                         old = NoNick \/ id # Fold[old]} \cup {Fold[n]}
      /\ idx[Fold[n]] = fd
      /\ \A id \in DOMAIN idx : id # Fold[n] => idx[id] = nicknameIndex[id]
  BY DEF With, DropNick, Without
<1>3. /\ DOMAIN chs = DOMAIN channels
      /\ \A k \in DOMAIN channels :
           chs[k] = [channels[k] EXCEPT !.invitedUsers =
                       MoveInvite(channels[k].invitedUsers, old, n)]
  OBVIOUS
<1>4. /\ old # NoNick => /\ Fold[old] \in DOMAIN nicknameIndex
                         /\ nicknameIndex[Fold[old]] = fd
      /\ \A id \in DOMAIN nicknameIndex :
           nicknameIndex[id] = fd => old # NoNick /\ id = Fold[old]
      /\ Fold[n] \in DOMAIN nicknameIndex => nicknameIndex[Fold[n]] = fd
      /\ Fold[n] \in NickIds
  BY DEF Sound, IndexSound, NickInUse, NickIds
<1> HIDE DEF cl, idx, chs
<1>5. ClientMap(cl) /\ RegistrationSound(cl)
  BY <1>1 DEF Sound, ClientMap, RegistrationSound
<1>6. IndexSound(cl, idx)
  <2>1. DOMAIN idx \subseteq NickIds
    BY <1>2, <1>4 DEF Sound, IndexSound
  <2>2. ASSUME NEW id \in DOMAIN idx
        PROVE  /\ idx[id] \in DOMAIN cl
               /\ cl[idx[id]].nickname # NoNick
               /\ Fold[cl[idx[id]].nickname] = id
    <3>1. CASE id = Fold[n]
      BY <3>1, <1>1, <1>2
    <3>2. CASE id # Fold[n]
      BY <3>2, <1>1, <1>2, <1>4 DEF Sound, IndexSound
    <3>3. QED
      BY <3>1, <3>2
  <2>3. ASSUME NEW x \in DOMAIN cl, cl[x].nickname # NoNick
        PROVE  /\ Fold[cl[x].nickname] \in DOMAIN idx
               /\ idx[Fold[cl[x].nickname]] = x
    <3>1. CASE x = fd
      BY <3>1, <1>1, <1>2
    <3>2. CASE x # fd
      BY <3>2, <2>3, <1>1, <1>2, <1>4 DEF Sound, IndexSound
    <3>3. QED
      BY <3>1, <3>2
  <2>4. QED
    BY <2>1, <2>2, <2>3 DEF IndexSound
<1>7. ASSUME NEW k \in DOMAIN channels
      PROVE  ChannelSound(cl, idx, k, chs[k])
  <2> DEFINE moved == MoveInvite(channels[k].invitedUsers, old, n)
  <2>1. /\ channels[k] \in Channel
        /\ channels[k].invitedUsers \subseteq NickIds
        /\ ChannelSound(clients, nicknameIndex, k, channels[k])
    BY DEF Sound, ChannelsSound, ChannelSound, Channel
  <2>2. moved \subseteq NickIds
    BY <1>4, <2>1 DEF MoveInvite
  <2>3. \A id \in moved : id \in DOMAIN idx /\ idx[id] \notin channels[k].members
    BY <1>2, <1>4, <2>1 DEF MoveInvite, ChannelSound
  <2> HIDE DEF moved
  <2>4. /\ chs[k] \in Channel
        /\ chs[k].members = channels[k].members
        /\ chs[k].operators = channels[k].operators
        /\ chs[k].name = channels[k].name
        /\ chs[k].invitedUsers = moved
    BY <1>3, <2>1, <2>2 DEF Channel, moved
  <2>5. \A x \in channels[k].members : x \in DOMAIN cl /\ cl[x].registered
    BY <1>1, <2>1 DEF ChannelSound
  <2>6. QED
    BY <2>1, <2>3, <2>4, <2>5 DEF ChannelSound
<1>8. ChannelsSound(cl, idx, chs)
  BY <1>3, <1>7 DEF Sound, ChannelsSound
<1>9. Sound(cl, idx, chs)
  BY <1>5, <1>6, <1>8 DEF Sound
<1>10. QED
  BY <1>9 DEF cl, idx, chs

\* JOIN: whether it makes the channel or enters it.
LEMMA JoinKeepsSound ==
  ASSUME Sound(clients, nicknameIndex, channels),
         NEW fd \in DOMAIN clients, clients[fd].registered,
         NEW name \in ChanNames,
         NoNick \notin Nicks
  PROVE  /\ Fold[name] \notin DOMAIN channels =>
              ChannelSound(clients, nicknameIndex, Fold[name], NewChannel(name, fd))
         /\ Fold[name] \in DOMAIN channels =>
              ChannelSound(clients, nicknameIndex, Fold[name],
                           Joined(fd, channels[Fold[name]]))
<1> DEFINE k == Fold[name]
<1>1. fd \in Fds /\ clients[fd] \in Client /\ clients[fd].nickname # NoNick
  BY DEF Sound, ClientMap, RegistrationSound
<1>2. ChannelSound(clients, nicknameIndex, k, NewChannel(name, fd))
  BY <1>1 DEF ChannelSound, NewChannel, Channel
<1>3. ASSUME k \in DOMAIN channels
      PROVE  ChannelSound(clients, nicknameIndex, k, Joined(fd, channels[k]))
  <2> DEFINE ch == channels[k]
             new == Joined(fd, ch)
  <2>1. ChannelSound(clients, nicknameIndex, k, ch)
    BY <1>3 DEF Sound, ChannelsSound
  <2> HIDE DEF ch
  <2>2. /\ new \in Channel
        /\ new.members = ch.members \cup {fd}
        /\ new.operators = ch.operators
        /\ new.name = ch.name
        /\ new.invitedUsers = ch.invitedUsers \ {Fold[clients[fd].nickname]}
    BY <1>1, <2>1 DEF ChannelSound, Joined, Channel
  <2> HIDE DEF new
  <2>3. \A id \in DOMAIN nicknameIndex :
          nicknameIndex[id] = fd => id = Fold[clients[fd].nickname]
    BY DEF Sound, IndexSound
  <2>4. ChannelSound(clients, nicknameIndex, k, new)
    BY <2>1, <2>2, <2>3 DEF ChannelSound
  <2>5. QED
    BY <2>4 DEF new, ch
<1>4. QED
  BY <1>2, <1>3

\* KICK: the channel loses a member, and goes with its last one.
LEMMA KickKeepsSound ==
  ASSUME Sound(clients, nicknameIndex, channels),
         NEW k \in DOMAIN channels, NEW fd
  PROVE  Sound(clients, nicknameIndex, removeMemberFromChannel(k, fd))
<1> DEFINE old == channels[k]
           ch  == removeMember(old, fd)
<1>1. ChannelSound(clients, nicknameIndex, k, old) /\ k \in ChanIds
  BY DEF Sound, ChannelsSound
<1> HIDE DEF old
<1>2. /\ ch \in Channel
      /\ ch.members = old.members \ {fd}
      /\ ch.operators = old.operators \ {fd}
      /\ ch.name = old.name
      /\ ch.invitedUsers = old.invitedUsers
  BY <1>1 DEF ChannelSound, removeMember, Channel
<1> HIDE DEF ch
<1>3. removeMemberFromChannel(k, fd) =
        IF ch.members # {} THEN [channels EXCEPT ![k] = ch]
        ELSE Without(channels, {Fold[ch.name]})
  BY DEF removeMemberFromChannel, ch, old
<1>4. CASE ch.members # {}
  <2>1. ChannelSound(clients, nicknameIndex, k, ch)
    BY <1>1, <1>2, <1>4 DEF ChannelSound
  <2>2. [channels EXCEPT ![k] = ch] = With(channels, k, ch)
    BY DEF With
  <2>3. Sound(clients, nicknameIndex, With(channels, k, ch))
    BY <1>1, <2>1, StoreChannel
  <2>4. QED
    BY <1>3, <1>4, <2>2, <2>3
<1>5. CASE ch.members = {}
  BY <1>3, <1>5, EraseChannels
<1>6. QED
  BY <1>4, <1>5

\* INVITE: the invitation is for a connected client that is not on the channel.
LEMMA InviteKeepsSound ==
  ASSUME Sound(clients, nicknameIndex, channels),
         NEW k \in DOMAIN channels, NEW fd, NEW n \in Nicks,
         InviteTargets(fd, k, n) # {}
  PROVE  Sound(clients, nicknameIndex,
               [channels EXCEPT ![k].invitedUsers = @ \cup {Fold[n]}])
<1> DEFINE old == channels[k]
           ch  == [old EXCEPT !.invitedUsers = @ \cup {Fold[n]}]
<1>1. ChannelSound(clients, nicknameIndex, k, old) /\ k \in ChanIds
  BY DEF Sound, ChannelsSound
<1>2. Fold[n] \in DOMAIN nicknameIndex /\ nicknameIndex[Fold[n]] \notin old.members
  BY DEF InviteTargets, findClientByNickname
<1> HIDE DEF old
<1>3. /\ ch \in Channel
      /\ ch.members = old.members
      /\ ch.operators = old.operators
      /\ ch.name = old.name
      /\ ch.invitedUsers = old.invitedUsers \cup {Fold[n]}
  BY <1>1 DEF ChannelSound, Channel, NickIds
<1> HIDE DEF ch
<1>4. ChannelSound(clients, nicknameIndex, k, ch)
  BY <1>1, <1>2, <1>3 DEF ChannelSound
<1>5. [channels EXCEPT ![k].invitedUsers = @ \cup {Fold[n]}] = With(channels, k, ch)
  BY DEF With, ch, old
<1>6. Sound(clients, nicknameIndex, With(channels, k, ch))
  BY <1>1, <1>4, StoreChannel
<1>7. QED
  BY <1>5, <1>6

\* TOPIC and MODE: settings are free, operators must be members.
LEMMA SettingsKeepSound ==
  ASSUME Sound(clients, nicknameIndex, channels),
         NEW k \in DOMAIN channels, NEW ch \in Channel,
         ch.name = channels[k].name,
         ch.members = channels[k].members,
         ch.operators \subseteq channels[k].members,
         ch.invitedUsers = channels[k].invitedUsers
  PROVE  Sound(clients, nicknameIndex, [channels EXCEPT ![k] = ch])
<1>1. ChannelSound(clients, nicknameIndex, k, channels[k]) /\ k \in ChanIds
  BY DEF Sound, ChannelsSound
<1>2. ChannelSound(clients, nicknameIndex, k, ch)
  BY <1>1 DEF ChannelSound
<1>3. [channels EXCEPT ![k] = ch] = With(channels, k, ch)
  BY DEF With
<1>4. Sound(clients, nicknameIndex, With(channels, k, ch))
  BY <1>1, <1>2, StoreChannel
<1>5. QED
  BY <1>3, <1>4

\* acceptClient: the new client has no nickname and is on no channel.
LEMMA AcceptKeepsSound ==
  ASSUME Sound(clients, nicknameIndex, channels),
         NEW fd \in Fds, fd \notin DOMAIN clients
  PROVE  Sound(With(clients, fd, NewClient), nicknameIndex, channels)
<1> DEFINE cl == With(clients, fd, NewClient)
<1>1. /\ DOMAIN cl = DOMAIN clients \cup {fd}
      /\ cl[fd] = NewClient
      /\ \A x \in DOMAIN clients : cl[x] = clients[x]
  BY DEF With
<1> HIDE DEF cl
<1>2. /\ NewClient \in Client /\ NewClient.nickname = NoNick
      /\ ~NewClient.registered /\ ~NewClient.passwordAccepted
  BY DEF NewClient, Client
<1>3. ClientMap(cl) /\ RegistrationSound(cl)
  BY <1>1, <1>2 DEF Sound, ClientMap, RegistrationSound
<1>4. IndexSound(cl, nicknameIndex)
  BY <1>1, <1>2 DEF Sound, IndexSound
<1>5. ChannelsSound(cl, nicknameIndex, channels)
  BY <1>1 DEF Sound, ChannelsSound, ChannelSound
<1>6. QED
  BY <1>3, <1>4, <1>5 DEF Sound, cl

\* removeClient: every reference to the client goes with it.
LEMMA RemoveKeepsSound ==
  ASSUME Sound(clients, nicknameIndex, channels), NEW fd \in DOMAIN clients
  PROVE  Sound(Without(clients, {fd}),
               IndexWithout(fd, clients[fd].nickname),
               ChannelsWithout(fd, clients[fd].nickname))
<1> DEFINE nick == clients[fd].nickname
           cl   == Without(clients, {fd})
           idx  == IndexWithout(fd, nick)
           gone == IF nick = NoNick THEN {} ELSE {Fold[nick]}
           left == [k \in DOMAIN channels |->
                     [removeMember(channels[k], fd) EXCEPT !.invitedUsers =
                        IF nick = NoNick THEN @ ELSE @ \ {Fold[nick]}]]
           chs  == ChannelsWithout(fd, nick)
<1>1. /\ DOMAIN cl = DOMAIN clients \ {fd}
      /\ \A x \in DOMAIN cl : cl[x] = clients[x]
  BY DEF Without
<1>2. \A id \in DOMAIN nicknameIndex : id \in gone <=> nicknameIndex[id] = fd
  BY DEF Sound, IndexSound
<1>3. /\ DOMAIN idx = DOMAIN nicknameIndex \ gone
      /\ \A id \in DOMAIN idx : idx[id] = nicknameIndex[id]
  BY <1>2 DEF IndexWithout, Without
<1>4. /\ DOMAIN chs = {k \in DOMAIN channels : left[k].members # {}}
      /\ \A k \in DOMAIN chs : chs[k] = left[k]
  BY DEF ChannelsWithout, Without
<1>5. ASSUME NEW k \in DOMAIN channels
      PROVE  /\ left[k] \in Channel
             /\ left[k].members = channels[k].members \ {fd}
             /\ left[k].operators = channels[k].operators \ {fd}
             /\ left[k].name = channels[k].name
             /\ left[k].invitedUsers = channels[k].invitedUsers \ gone
  <2>1. channels[k] \in Channel
    BY DEF Sound, ChannelsSound, ChannelSound
  <2>2. left[k] = [removeMember(channels[k], fd) EXCEPT !.invitedUsers =
                     channels[k].invitedUsers \ gone]
    BY <2>1 DEF removeMember, Channel
  <2> HIDE DEF left, gone
  <2>3. QED
    BY <2>1, <2>2, ZenonT(30) DEF removeMember, Channel
<1> HIDE DEF cl, idx, chs, left, gone
<1>6. ClientMap(cl) /\ RegistrationSound(cl)
  BY <1>1 DEF Sound, ClientMap, RegistrationSound
<1>7. IndexSound(cl, idx)
  BY <1>1, <1>2, <1>3 DEF Sound, IndexSound
<1>8. ASSUME NEW k \in DOMAIN chs
      PROVE  ChannelSound(cl, idx, k, chs[k])
  <2>1. ChannelSound(clients, nicknameIndex, k, channels[k])
    BY <1>4 DEF Sound, ChannelsSound
  <2>2. k \in DOMAIN channels /\ chs[k] = left[k] /\ left[k].members # {}
    BY <1>4
  <2>3. \A x \in left[k].members : x \in DOMAIN cl /\ cl[x].registered
    BY <1>1, <1>5, <2>1, <2>2 DEF ChannelSound
  <2>4. \A id \in left[k].invitedUsers :
          id \in DOMAIN idx /\ idx[id] \notin left[k].members
    BY <1>3, <1>5, <2>1, <2>2 DEF ChannelSound
  <2>5. QED
    BY <1>5, <2>1, <2>2, <2>3, <2>4 DEF ChannelSound
<1>9. ChannelsSound(cl, idx, chs)
  BY <1>4, <1>8 DEF Sound, ChannelsSound
<1>10. QED
  BY <1>6, <1>7, <1>9 DEF Sound, cl, idx, chs

\* The list of changes after its first one.
LEMMA MoreChanges ==
  ASSUME NEW s \in Seq(ModeChange), s # <<>>
  PROVE  /\ Head(s) \in ModeChange
         /\ Tail(s) \in Seq(ModeChange)
         /\ Len(s) # 1 => Tail(s) # <<>>
<1>1. /\ Head(s) \in ModeChange
      /\ Tail(s) \in Seq(ModeChange)
      /\ Len(Tail(s)) = Len(s) - 1
  BY HeadTailProperties
<1>2. Len(s) \in Nat \ {0}
  BY EmptySeq
<1>3. Len(<<>>) = 0
  BY EmptySeq
<1>4. Len(s) # 1 => Len(Tail(s)) # 0
  BY <1>1, <1>2
<1>5. QED
  BY <1>1, <1>3, <1>4

\* One accepted MODE change touches settings and the status of a member only.
LEMMA ModeAppliedSettings ==
  ASSUME NEW ch \in Channel, ch.operators \subseteq ch.members,
         NEW m \in ModeChange, ~ModeRefused(ch, m)
  PROVE  /\ ModeApplied(ch, m) \in Channel
         /\ ModeApplied(ch, m).name = ch.name
         /\ ModeApplied(ch, m).members = ch.members
         /\ ModeApplied(ch, m).operators \subseteq ch.members
         /\ ModeApplied(ch, m).invitedUsers = ch.invitedUsers
         /\ ModeApplied(ch, m).topic = ch.topic
<1>1. m.mode \in {"i", "t", "k", "o", "l"} /\ m.adding \in BOOLEAN
  BY DEF ModeChange, ModeRefused
<1>2. CASE m.mode = "i"
  BY <1>1, <1>2 DEF ModeApplied, applyInviteOnlyMode, Channel
<1>3. CASE m.mode = "t"
  BY <1>1, <1>3 DEF ModeApplied, applyTopicRestrictedMode, Channel
<1>4. CASE m.mode = "k"
  <2>1. m.arg \in Keys \cup {NoKey}
    BY <1>4 DEF ModeChange
  <2>2. QED
    BY <1>1, <1>4, <2>1 DEF ModeApplied, applyKeyMode, Channel
<1>5. CASE m.mode = "o"
  <2> DEFINE target == findClientByNickname(m.arg)
             ops == IF m.adding THEN ch.operators \cup target
                                ELSE ch.operators \ target
  <2>1. target \subseteq ch.members
    BY <1>5 DEF ModeRefused, findClientByNickname
  <2>2. ModeApplied(ch, m) = [ch EXCEPT !.operators = ops]
    BY <1>5 DEF ModeApplied, applyOperatorMode
  <2>3. ops \subseteq ch.members
    BY <2>1
  <2> HIDE DEF ops
  <2>4. QED
    BY <2>2, <2>3 DEF Channel
<1>6. CASE m.mode = "l"
  <2>1. m.arg \in Nat
    BY <1>6 DEF ModeChange
  <2>2. QED
    BY <1>1, <1>6, <2>1 DEF ModeApplied, applyUserLimitMode, Channel
<1>7. QED
  BY <1>1, <1>2, <1>3, <1>4, <1>5, <1>6

-----------------------------------------------------------------------------
(* One lemma per action *)

\* A handler that ends with no MODE command in progress.
LEMMA HandlerKeepsIInv ==
  ASSUME NEW cl, NEW out, Sound(cl, nicknameIndex', channels'), Emit(cl, out),
         modeRun' = Idle
  PROVE  IInv'
BY EmitKeepsSound DEF IInv, ModeSound

\* PING, CAP, unknown and refused commands, and every early return.
LEMMA AnswerKeepsIInv ==
  ASSUME IInv, modeRun = Idle, NEW fd, sendNumeric(fd)
  PROVE  IInv'
<1>1. Sound(clients, nicknameIndex', channels') /\ modeRun' = Idle
  BY DEF sendNumeric, IInv
<1>2. Emit(clients, [x \in {fd} |-> Other])
  BY DEF sendNumeric
<1>3. QED
  BY <1>1, <1>2, HandlerKeepsIInv

\* A command that changes nothing, such as JOIN on a channel one is on.
LEMMA StutterKeepsIInv ==
  ASSUME IInv, UNCHANGED vars
  PROVE  IInv'
BY DEF IInv, ModeSound, vars

\* PASS and USER.
LEMMA ProgressKeepsIInv ==
  ASSUME IInv, modeRun = Idle, NEW fd \in DOMAIN clients, NEW c \in Client,
         ~clients[fd].registered,
         c.nickname = clients[fd].nickname, ~c.registered,
         Progress(fd, c), UNCHANGED <<nicknameIndex, channels, modeRun>>
  PROVE  IInv'
<1> DEFINE cl == [clients EXCEPT ![fd] = tryCompleteRegistration(c)]
<1>1. Sound(cl, nicknameIndex, channels)
  BY ProgressKeepsSound DEF IInv
<1> HIDE DEF cl
<1>2. PICK out : Emit(cl, out)
  BY DEF Progress, cl
<1>3. QED
  BY <1>1, <1>2, HandlerKeepsIInv

\* handlePass keeps the invariant.
LEMMA PassKeepsIInv ==
  ASSUME IInv, modeRun = Idle, NEW fd \in DOMAIN clients, NEW correct,
         handlePass(fd, correct)
  PROVE  IInv'
<1>1. CASE Registered(fd) \/ ~correct
  BY <1>1, AnswerKeepsIInv DEF handlePass
<1>2. CASE ~(Registered(fd) \/ ~correct)
  <2> DEFINE c == [clients[fd] EXCEPT !.passwordAccepted = TRUE]
  <2>1. clients[fd] \in Client /\ ~clients[fd].registered
    BY <1>2 DEF IInv, Sound, ClientMap, Registered
  <2>2. /\ c \in Client
        /\ c.nickname = clients[fd].nickname /\ ~c.registered
    BY <2>1 DEF Client
  <2>3. Progress(fd, c) /\ UNCHANGED <<nicknameIndex, channels, modeRun>>
    BY <1>2 DEF handlePass
  <2> HIDE DEF c
  <2>4. QED
    BY <2>1, <2>2, <2>3, ProgressKeepsIInv
<1>3. QED
  BY <1>1, <1>2

\* handleUser keeps the invariant.
LEMMA UserKeepsIInv ==
  ASSUME IInv, modeRun = Idle, NEW fd \in DOMAIN clients, handleUser(fd)
  PROVE  IInv'
<1>1. CASE Registered(fd)
  BY <1>1, AnswerKeepsIInv DEF handleUser
<1>2. CASE ~Registered(fd)
  <2> DEFINE c == [clients[fd] EXCEPT !.hasUser = TRUE]
  <2>1. clients[fd] \in Client /\ ~clients[fd].registered
    BY <1>2 DEF IInv, Sound, ClientMap, Registered
  <2>2. /\ c \in Client
        /\ c.nickname = clients[fd].nickname /\ ~c.registered
    BY <2>1 DEF Client
  <2>3. Progress(fd, c) /\ UNCHANGED <<nicknameIndex, channels, modeRun>>
    BY <1>2 DEF handleUser
  <2> HIDE DEF c
  <2>4. QED
    BY <2>1, <2>2, <2>3, ProgressKeepsIInv
<1>3. QED
  BY <1>1, <1>2

\* handleNick keeps the invariant, before and after the registration.
LEMMA NickKeepsIInv ==
  ASSUME IInv, modeRun = Idle, NEW fd \in DOMAIN clients, NEW n \in Nicks,
         handleNick(fd, n)
  PROVE  IInv'
<1> DEFINE old == clients[fd].nickname
           renamed == [clients[fd] EXCEPT !.nickname = n]
           idx == With(DropNick(old), Fold[n], fd)
           chs == [k \in DOMAIN channels |->
                    [channels[k] EXCEPT !.invitedUsers = MoveInvite(@, old, n)]]
           lines == [x \in NickRecipients(fd) |->
                       [cmd |-> "NICK", nick |-> old, new |-> n]]
<1>1. CASE NickInUse(fd, n)
  BY <1>1, AnswerKeepsIInv DEF handleNick
<1>2. CASE ~NickInUse(fd, n) /\ old = n
  BY <1>2, StutterKeepsIInv DEF handleNick
<1>3. CASE ~NickInUse(fd, n) /\ old # n
  <2>1. /\ nicknameIndex' = idx /\ channels' = chs /\ modeRun' = Idle
        /\ IF Registered(fd)
           THEN Emit([clients EXCEPT ![fd] = renamed], lines)
           ELSE Progress(fd, renamed)
    BY <1>3 DEF handleNick
  <2>2. /\ clients[fd] \in Client
        /\ clients[fd].registered <=> /\ clients[fd].passwordAccepted
                                      /\ clients[fd].hasUser
                                      /\ clients[fd].nickname # NoNick
    BY DEF IInv, Sound, ClientMap, RegistrationSound
  <2>3. /\ renamed \in Client
        /\ renamed.nickname = n
        /\ renamed.registered = clients[fd].registered
        /\ renamed.passwordAccepted = clients[fd].passwordAccepted
        /\ renamed.hasUser = clients[fd].hasUser
    BY <2>2 DEF Client
  <2> HIDE DEF renamed, idx, chs, lines
  <2>4. ASSUME NEW c \in Client, c.nickname = n,
               clients[fd].registered => c.registered,
               c.registered <=> c.passwordAccepted /\ c.hasUser
        PROVE  Sound([clients EXCEPT ![fd] = c], idx, chs)
    BY <1>3, <2>4, RenameKeepsSound, NameAssumption DEF IInv, idx, chs
  <2>5. CASE Registered(fd)
    <3>1. Sound([clients EXCEPT ![fd] = renamed], idx, chs)
      BY <2>2, <2>3, <2>4, <2>5 DEF Registered
    <3>2. QED
      BY <2>1, <2>5, <3>1, HandlerKeepsIInv
  <2>6. CASE ~Registered(fd)
    <3> DEFINE done == tryCompleteRegistration(renamed)
    <3>1. /\ done \in Client
          /\ done.nickname = n
          /\ done.registered <=> done.passwordAccepted /\ done.hasUser
      BY <2>3, <2>6, NameAssumption
      DEF tryCompleteRegistration, isRegistrationReady, Client, Registered
    <3> HIDE DEF done
    <3>2. Sound([clients EXCEPT ![fd] = done], idx, chs)
      BY <2>4, <2>6, <3>1 DEF Registered
    <3>3. PICK out : Emit([clients EXCEPT ![fd] = done], out)
      BY <2>1, <2>6 DEF Progress, done
    <3>4. QED
      BY <2>1, <3>2, <3>3, HandlerKeepsIInv
  <2>7. QED
    BY <2>5, <2>6
<1>4. QED
  BY <1>1, <1>2, <1>3

\* handleQuit marks the client and leaves everything else to removeClient.
LEMMA QuitKeepsIInv ==
  ASSUME IInv, modeRun = Idle, NEW fd \in DOMAIN clients, handleQuit(fd)
  PROVE  IInv'
<1>1. ClientMap(clients)
  BY DEF IInv, Sound
<1>2. ClientMap(clients') /\ SameIdentities(clients, clients')
  BY <1>1 DEF handleQuit, ClientMap, SameIdentities, Client
<1>3. Sound(clients', nicknameIndex, channels)
  BY <1>2, MarksDoNotMatter DEF IInv
<1>4. DOMAIN view' = DOMAIN clients'
  BY DEF handleQuit, IInv
<1>5. QED
  BY <1>3, <1>4 DEF handleQuit, IInv, ModeSound

\* handlePrivmsg only queues lines.
LEMMA PrivmsgKeepsIInv ==
  ASSUME IInv, modeRun = Idle, NEW fd \in DOMAIN clients, NEW target,
         handlePrivmsg(fd, target)
  PROVE  IInv'
<1>1. CASE PrivmsgRefused(fd, target)
  BY <1>1, AnswerKeepsIInv DEF handlePrivmsg
<1>2. CASE ~PrivmsgRefused(fd, target)
  <2>1. /\ Emit(clients, [x \in PrivmsgRecipients(fd, target) |-> Other])
        /\ UNCHANGED <<nicknameIndex, channels, modeRun>>
    BY <1>2 DEF handlePrivmsg
  <2>2. Sound(clients, nicknameIndex', channels') /\ modeRun' = Idle
    BY <2>1 DEF IInv
  <2>3. QED
    BY <2>1, <2>2, HandlerKeepsIInv
<1>3. QED
  BY <1>1, <1>2

\* handleJoin keeps the invariant, whether it makes the channel or enters it.
LEMMA JoinKeepsIInv ==
  ASSUME IInv, modeRun = Idle, NEW fd \in DOMAIN clients,
         NEW name \in ChanNames, NEW key, handleJoin(fd, name, key)
  PROVE  IInv'
<1> DEFINE k == Fold[name]
           ch == IF k \in DOMAIN channels THEN Joined(fd, channels[k])
                                          ELSE NewChannel(name, fd)
           refused == k \in DOMAIN channels /\ ~Admitted(fd, channels[k], key)
<1>1. CASE ~Registered(fd)
  BY <1>1, AnswerKeepsIInv DEF handleJoin
<1>2. CASE Registered(fd) /\ IsMember(fd, k)
  BY <1>2, StutterKeepsIInv DEF handleJoin
<1>3. CASE Registered(fd) /\ ~IsMember(fd, k) /\ refused
  BY <1>3, AnswerKeepsIInv DEF handleJoin
<1>4. CASE Registered(fd) /\ ~IsMember(fd, k) /\ ~refused
  <2>1. /\ channels' = With(channels, k, ch)
        /\ Emit(clients, JoinLines(fd, k, ch))
        /\ UNCHANGED <<nicknameIndex, modeRun>>
    BY <1>4 DEF handleJoin
  <2>2. ChannelSound(clients, nicknameIndex, k, ch)
    BY <1>4, JoinKeepsSound, NameAssumption DEF IInv, Registered
  <2>3. k \in ChanIds
    BY DEF ChanIds
  <2> HIDE DEF k, ch
  <2>4. Sound(clients, nicknameIndex, With(channels, k, ch))
    BY <2>2, <2>3, StoreChannel DEF IInv
  <2>5. QED
    BY <2>1, <2>4, HandlerKeepsIInv
<1>5. QED
  BY <1>1, <1>2, <1>3, <1>4

\* handleKick keeps the invariant, also when the last member kicks itself.
LEMMA KickKeepsIInv ==
  ASSUME IInv, modeRun = Idle, NEW fd \in DOMAIN clients,
         NEW name \in ChanNames, NEW n \in Nicks, handleKick(fd, name, n)
  PROVE  IInv'
<1> DEFINE k == Fold[name]
           line == [cmd |-> "KICK", chan |-> k, nick |-> n]
<1>1. CASE KickTargets(fd, k, n) = {}
  BY <1>1, AnswerKeepsIInv DEF handleKick
<1>2. CASE KickTargets(fd, k, n) # {}
  <2>1. PICK target \in KickTargets(fd, k, n) :
          /\ channels' = removeMemberFromChannel(k, target)
          /\ Emit(clients, broadcastToChannel(channels[k], line))
          /\ UNCHANGED <<nicknameIndex, modeRun>>
    BY <1>2 DEF handleKick
  <2>2. k \in DOMAIN channels
    BY <1>2 DEF KickTargets, IsOperator
  <2> HIDE DEF k, line
  <2>3. Sound(clients, nicknameIndex, removeMemberFromChannel(k, target))
    BY <2>2, KickKeepsSound DEF IInv
  <2>4. QED
    BY <2>1, <2>3, HandlerKeepsIInv
<1>3. QED
  BY <1>1, <1>2

\* handleInvite keeps the invariant.
LEMMA InviteKeepsIInv ==
  ASSUME IInv, modeRun = Idle, NEW fd \in DOMAIN clients,
         NEW name \in ChanNames, NEW n \in Nicks, handleInvite(fd, n, name)
  PROVE  IInv'
<1> DEFINE k == Fold[name]
           chs == [channels EXCEPT ![k].invitedUsers = @ \cup {Fold[n]}]
           out == [x \in {fd} \cup InviteTargets(fd, k, n) |-> Other]
<1>1. CASE InviteTargets(fd, k, n) = {}
  BY <1>1, AnswerKeepsIInv DEF handleInvite
<1>2. CASE InviteTargets(fd, k, n) # {}
  <2>1. /\ channels' = chs
        /\ Emit(clients, out)
        /\ UNCHANGED <<nicknameIndex, modeRun>>
    BY <1>2 DEF handleInvite
  <2>2. k \in DOMAIN channels
    BY <1>2 DEF InviteTargets, IsOperator
  <2> HIDE DEF k, out
  <2>3. Sound(clients, nicknameIndex, chs)
    BY <1>2, <2>2, InviteKeepsSound DEF IInv
  <2> HIDE DEF chs
  <2>4. QED
    BY <2>1, <2>3, HandlerKeepsIInv
<1>3. QED
  BY <1>1, <1>2

\* handleTopic keeps the invariant.
LEMMA TopicKeepsIInv ==
  ASSUME IInv, modeRun = Idle, NEW fd \in DOMAIN clients,
         NEW name \in ChanNames, NEW topic \in Topics \cup {NoTopic},
         handleTopic(fd, name, topic)
  PROVE  IInv'
<1> DEFINE k == Fold[name]
           ch == [channels[k] EXCEPT !.topic = topic]
           line == [cmd |-> "TOPIC", chan |-> k, topic |-> topic]
<1>1. CASE ~MaySetTopic(fd, k)
  BY <1>1, AnswerKeepsIInv DEF handleTopic
<1>2. CASE MaySetTopic(fd, k)
  <2>1. /\ channels' = [channels EXCEPT ![k] = ch]
        /\ Emit(clients, broadcastToChannel(channels[k], line))
        /\ UNCHANGED <<nicknameIndex, modeRun>>
    BY <1>2 DEF handleTopic
  <2>2. k \in DOMAIN channels
    BY <1>2 DEF MaySetTopic, IsMember
  <2>3. channels[k] \in Channel /\ channels[k].operators \subseteq channels[k].members
    BY <2>2 DEF IInv, Sound, ChannelsSound, ChannelSound
  <2> HIDE DEF k, line
  <2>4. /\ ch \in Channel
        /\ ch.name = channels[k].name
        /\ ch.members = channels[k].members
        /\ ch.operators = channels[k].operators
        /\ ch.invitedUsers = channels[k].invitedUsers
    BY <2>3 DEF Channel
  <2> HIDE DEF ch
  <2>5. Sound(clients, nicknameIndex, [channels EXCEPT ![k] = ch])
    BY <2>2, <2>3, <2>4, SettingsKeepSound DEF IInv
  <2>6. QED
    BY <2>1, <2>5, HandlerKeepsIInv
<1>3. QED
  BY <1>1, <1>2

\* handleMode starts a list of changes only for an operator, who is a member.
LEMMA ModeKeepsIInv ==
  ASSUME IInv, modeRun = Idle, NEW fd \in DOMAIN clients,
         NEW name \in ChanNames, NEW line \in ModeLines, handleMode(fd, name, line)
  PROVE  IInv'
<1> DEFINE k == Fold[name]
<1>1. CASE Registered(fd) /\ IsOperator(fd, k)
  <2>1. /\ modeRun' = [fd |-> fd, chan |-> k, changes |-> line]
        /\ UNCHANGED <<clients, nicknameIndex, channels, view>>
    BY <1>1 DEF handleMode
  <2>2. k \in DOMAIN channels /\ fd \in channels[k].members
    BY <1>1 DEF IsOperator, IInv, Sound, ChannelsSound, ChannelSound
  <2>3. line \in Seq(ModeChange) /\ line # <<>>
    BY ModeAssumption
  <2>4. fd \in Fds /\ k \in ChanIds
    BY DEF IInv, Sound, ClientMap, ChanIds
  <2>5. ModeSound'
    BY <2>1, <2>2, <2>3, <2>4 DEF ModeSound, ModeRun
  <2>6. QED
    BY <2>1, <2>5 DEF IInv
<1>2. CASE ~(Registered(fd) /\ IsOperator(fd, k))
  BY <1>2, AnswerKeepsIInv DEF handleMode
<1>3. QED
  BY <1>1, <1>2

\* One change of a MODE command keeps the invariant: the channel and the issuer
\* the next change needs are still there.
LEMMA ModeChangeKeepsIInv ==
  ASSUME IInv, applyChannelModeChange
  PROVE  IInv'
<1> DEFINE k == modeRun.chan
           ch == channels[k]
           m == Head(modeRun.changes)
           new == ModeApplied(ch, m)
           rest == IF Len(modeRun.changes) = 1 THEN Idle
                   ELSE [modeRun EXCEPT !.changes = Tail(@)]
<1>1. /\ modeRun # Idle
      /\ modeRun' = rest
      /\ nicknameIndex' = nicknameIndex
  BY DEF applyChannelModeChange
<1>2. /\ modeRun \in ModeRun /\ modeRun.changes # <<>>
      /\ modeRun.fd \in DOMAIN clients
      /\ k \in DOMAIN channels
      /\ modeRun.fd \in ch.members
  BY <1>1 DEF IInv, ModeSound
<1>3. /\ m \in ModeChange
      /\ rest # Idle => /\ rest \in ModeRun /\ rest.changes # <<>>
                        /\ rest.fd = modeRun.fd /\ rest.chan = k
  <2>1. modeRun.changes \in Seq(ModeChange)
    BY <1>2 DEF ModeRun
  <2>2. /\ m \in ModeChange
        /\ Tail(modeRun.changes) \in Seq(ModeChange)
        /\ Len(modeRun.changes) # 1 => Tail(modeRun.changes) # <<>>
    BY <1>2, <2>1, MoreChanges
  <2>3. CASE Len(modeRun.changes) = 1
    BY <2>2, <2>3
  <2>4. CASE Len(modeRun.changes) # 1
    BY <1>2, <2>2, <2>4 DEF ModeRun
  <2>5. QED
    BY <2>3, <2>4
<1>4. /\ ch \in Channel
      /\ ch.operators \subseteq ch.members
  BY <1>2 DEF IInv, Sound, ChannelsSound, ChannelSound
<1> HIDE DEF m, rest
<1>5. ASSUME DOMAIN clients' = DOMAIN clients, k \in DOMAIN channels',
             channels'[k].members = ch.members
      PROVE  ModeSound'
  BY <1>1, <1>2, <1>3, <1>5 DEF ModeSound
<1>6. CASE ModeRefused(ch, m)
  <2>1. Emit(clients, [x \in {modeRun.fd} |-> Other]) /\ channels' = channels
    BY <1>6 DEF applyChannelModeChange, m
  <2>2. Sound(clients, nicknameIndex', channels')
    BY <1>1, <2>1 DEF IInv
  <2>3. /\ Sound(clients', nicknameIndex', channels')
        /\ DOMAIN clients' = DOMAIN clients
        /\ DOMAIN view' = DOMAIN clients'
    BY <2>1, <2>2, EmitKeepsSound
  <2>4. QED
    BY <1>2, <1>5, <2>1, <2>3 DEF IInv
<1>7. CASE ~ModeRefused(ch, m) /\ new = ch
  <2>1. UNCHANGED <<clients, channels, view>>
    BY <1>7 DEF applyChannelModeChange, m
  <2>2. QED
    BY <1>1, <1>2, <1>5, <2>1 DEF IInv
<1>8. CASE ~ModeRefused(ch, m) /\ new # ch
  <2>1. /\ channels' = [channels EXCEPT ![k] = new]
        /\ Emit(clients, broadcastModeChange(k, new, m))
    BY <1>8 DEF applyChannelModeChange, m
  <2>2. /\ new \in Channel
        /\ new.name = ch.name
        /\ new.members = ch.members
        /\ new.operators \subseteq ch.members
        /\ new.invitedUsers = ch.invitedUsers
    BY <1>3, <1>4, <1>8, ModeAppliedSettings
  <2> HIDE DEF new
  <2>3. Sound(clients, nicknameIndex, [channels EXCEPT ![k] = new])
    BY <1>2, <2>2, SettingsKeepSound DEF IInv
  <2>4. Sound(clients, nicknameIndex', channels')
    BY <1>1, <2>1, <2>3
  <2>5. /\ Sound(clients', nicknameIndex', channels')
        /\ DOMAIN clients' = DOMAIN clients
        /\ DOMAIN view' = DOMAIN clients'
    BY <2>1, <2>4, EmitKeepsSound
  <2>6. k \in DOMAIN channels' /\ channels'[k].members = ch.members
    BY <1>2, <2>1, <2>2
  <2>7. QED
    BY <1>5, <2>5, <2>6 DEF IInv
<1>9. QED
  BY <1>6, <1>7, <1>8

\* acceptClient keeps the invariant.
LEMMA AcceptKeepsIInv ==
  ASSUME IInv, modeRun = Idle, NEW fd \in Fds, acceptClient(fd)
  PROVE  IInv'
<1>1. Sound(clients', nicknameIndex', channels')
  BY AcceptKeepsSound DEF acceptClient, IInv
<1>2. DOMAIN view' = DOMAIN clients'
  BY DEF acceptClient, With, IInv
<1>3. QED
  BY <1>1, <1>2 DEF acceptClient, IInv, ModeSound

\* removeClient keeps the invariant.
LEMMA RemoveKeepsIInv ==
  ASSUME IInv, modeRun = Idle, NEW fd \in DOMAIN clients, removeClient(fd)
  PROVE  IInv'
<1> DEFINE nick == clients[fd].nickname
           out == [x \in QuitRecipients(fd) |-> [cmd |-> "QUIT", nick |-> nick]]
<1>1. /\ channels' = ChannelsWithout(fd, nick)
      /\ nicknameIndex' = IndexWithout(fd, nick)
      /\ Emit(Without(clients, {fd}), out)
      /\ modeRun' = Idle
  BY DEF removeClient
<1> HIDE DEF out
<1>2. Sound(Without(clients, {fd}), nicknameIndex', channels')
  BY <1>1, RemoveKeepsSound DEF IInv
<1>3. QED
  BY <1>1, <1>2, HandlerKeepsIInv

-----------------------------------------------------------------------------
(* The specification *)

\* The server starts with empty maps.
LEMMA InitIInv == Init => IInv
BY DEF Init, EmptyMap, IInv, Sound, ClientMap, RegistrationSound, IndexSound,
       ChannelsSound, ModeSound

\* Every step of the server keeps the inductive invariant.
LEMMA NextIInv == IInv /\ [Next]_vars => IInv'
<1> SUFFICES ASSUME IInv, [Next]_vars PROVE IInv'
  OBVIOUS
<1>1. CASE UNCHANGED vars
  BY <1>1, StutterKeepsIInv
<1>2. CASE applyChannelModeChange
  BY <1>2, ModeChangeKeepsIInv
<1>3. ASSUME modeRun = Idle, NEW fd \in Fds, acceptClient(fd)
      PROVE  IInv'
  BY <1>3, AcceptKeepsIInv
<1>4. ASSUME modeRun = Idle, NEW fd \in DOMAIN clients, removeClient(fd)
      PROVE  IInv'
  BY <1>4, RemoveKeepsIInv
<1>5. ASSUME modeRun = Idle, NEW fd \in DOMAIN clients, dispatchCommand(fd)
      PROVE  IInv'
  <2>1. CASE sendNumeric(fd)
    BY <1>5, <2>1, AnswerKeepsIInv
  <2>2. CASE handleQuit(fd)
    BY <1>5, <2>2, QuitKeepsIInv
  <2>3. ASSUME NEW correct \in BOOLEAN, handlePass(fd, correct)
        PROVE  IInv'
    BY <1>5, <2>3, PassKeepsIInv
  <2>4. CASE handleUser(fd)
    BY <1>5, <2>4, UserKeepsIInv
  <2>5. ASSUME NEW n \in Nicks, handleNick(fd, n)
        PROVE  IInv'
    BY <1>5, <2>5, NickKeepsIInv
  <2>6. ASSUME NEW target, handlePrivmsg(fd, target)
        PROVE  IInv'
    BY <1>5, <2>6, PrivmsgKeepsIInv
  <2>7. ASSUME NEW name \in ChanNames, NEW key, handleJoin(fd, name, key)
        PROVE  IInv'
    BY <1>5, <2>7, JoinKeepsIInv
  <2>8. ASSUME NEW name \in ChanNames, NEW topic \in Topics \cup {NoTopic},
               handleTopic(fd, name, topic)
        PROVE  IInv'
    BY <1>5, <2>8, TopicKeepsIInv
  <2>9. ASSUME NEW name \in ChanNames, NEW n \in Nicks, handleKick(fd, name, n)
        PROVE  IInv'
    BY <1>5, <2>9, KickKeepsIInv
  <2>10. ASSUME NEW name \in ChanNames, NEW n \in Nicks, handleInvite(fd, n, name)
         PROVE  IInv'
    BY <1>5, <2>10, InviteKeepsIInv
  <2>11. ASSUME NEW name \in ChanNames, NEW line \in ModeLines,
                handleMode(fd, name, line)
         PROVE  IInv'
    BY <1>5, <2>11, ModeKeepsIInv
  <2>12. QED
    BY <1>5, <2>1, <2>2, <2>3, <2>4, <2>5, <2>6, <2>7, <2>8, <2>9, <2>10, <2>11
    DEF dispatchCommand, handlePing, handleCap, handleUnknownCommand,
        RefusedCommand, handleTopicQuery
<1>6. QED
  BY <1>1, <1>2, <1>3, <1>4, <1>5 DEF Next

\* IInv holds in every reachable state.
THEOREM Invariance == Spec => []IInv
BY InitIInv, NextIInv, PTL DEF Spec

\* The maps of the server always hold objects of their classes.
THEOREM TypeCorrect == Spec => []TypeOK
<1>1. IInv => TypeOK
  BY DEF IInv, Sound, ClientMap, IndexSound, ChannelsSound, ChannelSound,
         ModeSound, TypeOK
<1>2. QED
  BY <1>1, Invariance, PTL

\* _nicknameIndex (Nick.cpp:122, Server.cpp:231) is always exact.
THEOREM IndexCorrect == Spec => []NicknameIndexExact
<1>1. IInv => NicknameIndexExact
  BY DEF IInv, Sound, IndexSound, NicknameIndexExact
<1>2. QED
  BY <1>1, Invariance, PTL

\* Channels always have members, all of them live and registered, and no
\* reused descriptor inherits a place (Server.cpp:163).
THEOREM MembershipCorrect == Spec => []MembershipSound
<1>1. IInv => MembershipSound
  BY DEF IInv, Sound, ChannelsSound, ChannelSound, MembershipSound
<1>2. QED
  BY <1>1, Invariance, PTL

\* Invitations always belong to connected clients that are not on the channel
\* (Server.cpp:163, Nick.cpp:107, Join.cpp:99).
THEOREM InvitationsCorrect == Spec => []InvitationsSound
<1>1. IInv => InvitationsSound
  BY DEF IInv, Sound, ChannelsSound, ChannelSound, InvitationsSound
<1>2. QED
  BY <1>1, Invariance, PTL

\* Registration is complete exactly when PASS, NICK and USER succeeded.
THEOREM RegistrationCorrect == Spec => []RegistrationExact
<1>1. IInv => RegistrationExact
  BY DEF IInv, Sound, RegistrationSound, RegistrationExact
<1>2. QED
  BY <1>1, Invariance, PTL

\* The references handleMode holds while it applies its changes stay valid.
THEOREM ModeTargetsCorrect == Spec => []ModeTargetsAlive
<1>1. IInv => ModeTargetsAlive
  BY DEF IInv, ModeSound, ModeTargetsAlive
<1>2. QED
  BY <1>1, Invariance, PTL

\* NICK never takes a nickname from another connection (Nick.cpp:47).
THEOREM NoTheft == Spec => NicknamesNotStolen
<1>1. ASSUME [Next]_vars
      PROVE  [OwnersKept]_vars
  <2>1. ASSUME UNCHANGED nicknameIndex
        PROVE  OwnersKept
    BY <2>1 DEF OwnersKept
  <2>2. ASSUME NEW fd \in DOMAIN clients, removeClient(fd)
        PROVE  OwnersKept
    BY <2>2 DEF removeClient, IndexWithout, Without, OwnersKept
  <2>3. ASSUME NEW fd \in DOMAIN clients, NEW n \in Nicks, handleNick(fd, n),
               nicknameIndex' # nicknameIndex
        PROVE  OwnersKept
    <3>1. /\ ~NickInUse(fd, n)
          /\ nicknameIndex' = With(DropNick(clients[fd].nickname), Fold[n], fd)
      BY <2>3 DEF handleNick, sendNumeric, vars
    <3>2. QED
      BY <3>1 DEF NickInUse, With, DropNick, Without, OwnersKept
  <2>4. ASSUME applyChannelModeChange
        PROVE  OwnersKept
    <3>1. UNCHANGED nicknameIndex
      BY <2>4 DEF applyChannelModeChange
    <3>2. QED
      BY <2>1, <3>1
  <2>5. ASSUME NEW fd \in Fds, acceptClient(fd)
        PROVE  OwnersKept
    BY <2>1, <2>5 DEF acceptClient
  <2>6. ASSUME NEW fd \in DOMAIN clients, dispatchCommand(fd)
        PROVE  OwnersKept
    <3>1. CASE \E n \in Nicks : handleNick(fd, n)
      <4>1. PICK n \in Nicks : handleNick(fd, n)
        BY <3>1
      <4>2. QED
        BY <2>1, <2>3, <4>1
    <3>2. CASE ~ \E n \in Nicks : handleNick(fd, n)
      <4>1. UNCHANGED nicknameIndex
        BY <2>6, <3>2
        DEF dispatchCommand, handlePing, handleQuit, handleCap, handlePass,
            handleUser, handlePrivmsg, handleJoin, handleTopicQuery, handleTopic,
            handleKick, handleInvite, handleMode, handleUnknownCommand,
            RefusedCommand, sendNumeric, vars
      <4>2. QED
        BY <2>1, <4>1
    <3>3. QED
      BY <3>1, <3>2
  <2>7. CASE UNCHANGED vars
    BY <2>7
  <2>8. QED
    BY <1>1, <2>2, <2>4, <2>5, <2>6, <2>7 DEF Next
<1>2. QED
  BY <1>1, PTL DEF Spec, NicknamesNotStolen
=============================================================================
