------------------------ MODULE IrcRefinementProofs ------------------------
(***************************************************************************)
(* The server implements the access policy, for every value of the         *)
(* constants: each step of IrcServer is a step of IrcPolicy, or leaves     *)
(* everything the policy speaks of as it was.                              *)
(*                                                                         *)
(* Seen(cl, ch) is what the policy sees of a channel when _clients is cl;  *)
(* the lemmas compare it before and after one change to the maps.          *)
(***************************************************************************)
EXTENDS IrcRefinement, IrcServerProofs

Authed(cl) == {fd \in DOMAIN cl : cl[fd].registered}

Guests(cl, ch) == {fd \in DOMAIN cl : /\ cl[fd].nickname # NoNick
                                      /\ Fold[cl[fd].nickname] \in ch.invitedUsers}

Seen(cl, ch) ==
  [members |-> ch.members, operators |-> ch.operators, invited |-> Guests(cl, ch),
   inviteOnly |-> ch.inviteOnly, topicRestricted |-> ch.topicRestricted,
   topic |-> ch.topic, key |-> ch.key, userLimit |-> ch.userLimit]

SeenAll(cl, chs) == [k \in DOMAIN chs |-> Seen(cl, chs[k])]

Acting(run) == IF run = Idle THEN Idle ELSE <<run.fd, run.chan>>

-----------------------------------------------------------------------------
(* The policy's variables *)

\* The refinement mapping, before and after a step.
LEMMA Mapping ==
  /\ AbstractChannels = SeenAll(clients, channels)
  /\ AbstractChannels' = SeenAll(clients', channels')
BY DEF AbstractChannels, AbstractChannel, Invited, SeenAll, Seen, Guests

\* A step that changes nothing the policy speaks of.
LEMMA Unseen ==
  ASSUME DOMAIN clients' = DOMAIN clients, Authed(clients') = Authed(clients),
         SeenAll(clients', channels') = SeenAll(clients, channels),
         modeRun' = modeRun
  PROVE  UNCHANGED Policy!vars
BY Mapping DEF Policy!vars, Authed

\* The policy lets a connection act while no MODE command is being applied.
LEMMA PolicyStep ==
  ASSUME modeRun = Idle, NEW fd \in Fds,
         \/ Policy!Connect(fd) \/ Policy!Authenticate(fd) \/ Policy!Leave(fd)
         \/ \E k \in ChanIds :
              \/ Policy!Create(fd, k) \/ Policy!BeginMode(fd, k)
              \/ \E key \in Keys \cup {NoKey} : Policy!Join(fd, k, key)
              \/ \E topic \in Topics \cup {NoTopic} : Policy!SetTopic(fd, k, topic)
              \/ \E t \in Fds : Policy!Invite(fd, t, k) \/ Policy!Kick(fd, t, k)
  PROVE  Policy!Next
BY DEF Policy!Next

-----------------------------------------------------------------------------
(* Facts about what is seen *)

\* A pending disconnect is not seen, so queueing lines shows nothing.
LEMMA EmitUnseen ==
  ASSUME NEW cl, ClientMap(cl), NEW out, Emit(cl, out)
  PROVE  /\ DOMAIN clients' = DOMAIN cl
         /\ Authed(clients') = Authed(cl)
         /\ \A ch : Guests(clients', ch) = Guests(cl, ch)
         /\ \A chs : SeenAll(clients', chs) = SeenAll(cl, chs)
<1>1. SameIdentities(cl, clients')
  BY EmitKeepsIdentities
<1>2. DOMAIN clients' = DOMAIN cl /\ Authed(clients') = Authed(cl)
  BY <1>1 DEF SameIdentities, Authed
<1>3. \A ch : Guests(clients', ch) = Guests(cl, ch)
  BY <1>1 DEF SameIdentities, Guests
<1>4. \A chs : SeenAll(clients', chs) = SeenAll(cl, chs)
  BY <1>3 DEF SeenAll, Seen
<1>5. QED
  BY <1>2, <1>3, <1>4

\* A handler that only answers or relays.
LEMMA AnswerUnseen ==
  ASSUME IInv, NEW out, Emit(clients, out), UNCHANGED <<channels, modeRun>>
  PROVE  UNCHANGED Policy!vars
<1>1. ClientMap(clients)
  BY DEF IInv, Sound
<1>2. /\ DOMAIN clients' = DOMAIN clients
      /\ Authed(clients') = Authed(clients)
      /\ SeenAll(clients', channels') = SeenAll(clients, channels)
  BY <1>1, EmitUnseen
<1>3. QED
  BY <1>2, Unseen

\* Nicknames with the same fold belong to one connection.
LEMMA OneOwner ==
  ASSUME IInv, NEW x \in DOMAIN clients, NEW y \in DOMAIN clients,
         clients[x].nickname # NoNick, clients[y].nickname # NoNick,
         Fold[clients[x].nickname] = Fold[clients[y].nickname]
  PROVE  x = y
BY DEF IInv, Sound, IndexSound

\* What findClientByNickname finds is the connection with that nickname.
LEMMA Found ==
  ASSUME IInv, NEW n, NEW t \in findClientByNickname(n)
  PROVE  /\ t \in DOMAIN clients /\ clients[t].nickname # NoNick
         /\ Fold[clients[t].nickname] = Fold[n]
BY DEF IInv, Sound, IndexSound, findClientByNickname

\* A sound channel is seen as a channel of the policy.
LEMMA SeenTyped ==
  ASSUME ClientMap(clients), NEW ch \in Channel
  PROVE  Seen(clients, ch) \in Policy!Chan
<1>1. Guests(clients, ch) \subseteq Fds
  BY DEF Guests, ClientMap
<1>2. QED
  BY <1>1 DEF Seen, Policy!Chan, Channel

\* A channel of the policy that looks like ch is what the policy sees of ch.
LEMMA SeenIs ==
  ASSUME ClientMap(clients), NEW ch \in Channel, NEW b \in Policy!Chan,
         b.members = ch.members, b.operators = ch.operators,
         b.invited = Guests(clients, ch), b.inviteOnly = ch.inviteOnly,
         b.topicRestricted = ch.topicRestricted, b.topic = ch.topic,
         b.key = ch.key, b.userLimit = ch.userLimit
  PROVE  Seen(clients, ch) = b
BY DEF Seen, Policy!Chan

\* One channel is stored: the policy sees the others as before.
LEMMA StoreSeen ==
  ASSUME IInv, NEW out, Emit(clients, out), NEW k, NEW ch,
         \/ channels' = With(channels, k, ch)
         \/ k \in DOMAIN channels /\ channels' = [channels EXCEPT ![k] = ch]
  PROVE  /\ DOMAIN clients' = DOMAIN clients
         /\ Authed(clients') = Authed(clients)
         /\ SeenAll(clients', channels') =
              [x \in DOMAIN channels \cup {k} |->
                 IF x = k THEN Seen(clients, ch) ELSE Seen(clients, channels[x])]
<1>1. ClientMap(clients)
  BY DEF IInv, Sound
<1>2. /\ DOMAIN clients' = DOMAIN clients
      /\ Authed(clients') = Authed(clients)
      /\ SeenAll(clients', channels') = SeenAll(clients, channels')
  BY <1>1, EmitUnseen
<1>3. /\ DOMAIN channels' = DOMAIN channels \cup {k}
      /\ \A x \in DOMAIN channels \cup {k} :
           channels'[x] = IF x = k THEN ch ELSE channels[x]
  BY DEF With
<1>4. SeenAll(clients, channels') =
        [x \in DOMAIN channels \cup {k} |->
           IF x = k THEN Seen(clients, ch) ELSE Seen(clients, channels[x])]
  BY <1>3 DEF SeenAll
<1>5. QED
  BY <1>2, <1>4

-----------------------------------------------------------------------------
(* One lemma per handler *)

\* PASS and USER: the registration is completed, or nothing is seen.
LEMMA ProgressAllowed ==
  ASSUME IInv, modeRun = Idle, NEW fd \in DOMAIN clients, NEW c \in Client,
         ~clients[fd].registered, c.nickname = clients[fd].nickname,
         Progress(fd, c), UNCHANGED <<channels, modeRun>>
  PROVE  [Policy!Next]_(Policy!vars)
<1> DEFINE done == tryCompleteRegistration(c)
           cl == [clients EXCEPT ![fd] = done]
<1>1. PICK out : Emit(cl, out)
  BY DEF Progress
<1>2. done \in Client /\ done.nickname = clients[fd].nickname
  BY DEF tryCompleteRegistration, isRegistrationReady, Client
<1> HIDE DEF done
<1>3. /\ DOMAIN cl = DOMAIN clients /\ cl[fd] = done
      /\ \A x \in DOMAIN clients : x # fd => cl[x] = clients[x]
      /\ ClientMap(clients)
  BY DEF IInv, Sound
<1> HIDE DEF cl
<1>4. ClientMap(cl)
  BY <1>2, <1>3 DEF ClientMap
<1>5. /\ DOMAIN clients' = DOMAIN clients
      /\ Authed(clients') = Authed(cl)
      /\ SeenAll(clients', channels') = SeenAll(cl, channels)
  BY <1>1, <1>3, <1>4, EmitUnseen
<1>6. SeenAll(cl, channels) = SeenAll(clients, channels)
  <2>1. \A ch : Guests(cl, ch) = Guests(clients, ch)
    BY <1>2, <1>3 DEF Guests
  <2>2. QED
    BY <2>1 DEF SeenAll, Seen
<1>7. CASE done.registered
  <2>1. Authed(cl) = Authed(clients) \cup {fd}
    BY <1>3, <1>7 DEF Authed
  <2>2. fd \in DOMAIN clients \ Authed(clients) /\ fd \in Fds
    BY <1>3 DEF Authed, ClientMap
  <2>3. Policy!Authenticate(fd)
    BY <1>5, <1>6, <2>1, <2>2, Mapping DEF Policy!Authenticate, Authed
  <2>4. QED
    BY <2>2, <2>3, PolicyStep
<1>8. CASE ~done.registered
  <2>1. Authed(cl) = Authed(clients)
    BY <1>3, <1>8 DEF Authed
  <2>2. QED
    BY <1>5, <1>6, <2>1, Unseen
<1>9. QED
  BY <1>7, <1>8

\* NICK: the invitations follow the connection, so renaming is not seen, except
\* that the first NICK may complete the registration.
LEMMA NickAllowed ==
  ASSUME IInv, modeRun = Idle, NEW fd \in DOMAIN clients, NEW n \in Nicks,
         handleNick(fd, n)
  PROVE  [Policy!Next]_(Policy!vars)
<1> DEFINE old == clients[fd].nickname
           renamed == [clients[fd] EXCEPT !.nickname = n]
           done == tryCompleteRegistration(renamed)
           chs == [k \in DOMAIN channels |->
                    [channels[k] EXCEPT !.invitedUsers = MoveInvite(@, old, n)]]
<1>1. CASE NickInUse(fd, n)
  BY <1>1, AnswerUnseen DEF handleNick, sendNumeric
<1>2. CASE ~NickInUse(fd, n) /\ old = n
  <2>1. UNCHANGED vars
    BY <1>2 DEF handleNick
  <2>2. QED
    BY <2>1, Unseen DEF vars
<1>3. CASE ~NickInUse(fd, n) /\ old # n
  <2>1. /\ channels' = chs /\ modeRun' = modeRun
        /\ IF Registered(fd)
           THEN \E out : Emit([clients EXCEPT ![fd] = renamed], out)
           ELSE \E out : Emit([clients EXCEPT ![fd] = done], out)
    BY <1>3 DEF handleNick, Progress
  <2>2. ClientMap(clients) /\ clients[fd] \in Client /\ n # NoNick
    BY NameAssumption DEF IInv, Sound, ClientMap
  <2>3. /\ renamed \in Client /\ renamed.nickname = n
        /\ renamed.registered = clients[fd].registered
    BY <2>2 DEF Client
  <2> HIDE DEF renamed
  <2>4. done \in Client /\ done.nickname = n
    BY <2>3 DEF tryCompleteRegistration, isRegistrationReady, Client
  <2> HIDE DEF done, chs
  <2>5. PICK c \in Client :
          /\ c.nickname = n
          /\ clients[fd].registered => c.registered
          /\ \E out : Emit([clients EXCEPT ![fd] = c], out)
    <3>1. CASE Registered(fd)
      <4>1. clients[fd].registered => renamed.registered
        BY <2>3
      <4>2. PICK out : Emit([clients EXCEPT ![fd] = renamed], out)
        BY <2>1, <3>1
      <4>3. QED
        BY <2>3, <4>1, <4>2
    <3>2. CASE ~Registered(fd)
      <4>1. PICK out : Emit([clients EXCEPT ![fd] = done], out)
        BY <2>1, <3>2
      <4>2. QED
        BY <2>4, <3>2, <4>1 DEF Registered
    <3>3. QED
      BY <3>1, <3>2
  <2> DEFINE cl == [clients EXCEPT ![fd] = c]
  <2>6. /\ DOMAIN cl = DOMAIN clients /\ cl[fd] = c
        /\ \A x \in DOMAIN clients : x # fd => cl[x] = clients[x]
    OBVIOUS
  <2>7. PICK out : Emit(cl, out)
    BY <2>5
  <2> HIDE DEF cl
  <2>8. ClientMap(cl)
    BY <2>2, <2>6 DEF ClientMap
  <2>9. /\ DOMAIN clients' = DOMAIN clients
        /\ Authed(clients') = Authed(cl)
        /\ SeenAll(clients', channels') = SeenAll(cl, chs)
    BY <2>1, <2>6, <2>7, <2>8, EmitUnseen
  <2>10. ASSUME NEW k \in DOMAIN channels
         PROVE  Seen(cl, chs[k]) = Seen(clients, channels[k])
    <3> DEFINE invited == channels[k].invitedUsers
               moved == MoveInvite(invited, old, n)
    <3>1. /\ channels[k] \in Channel
          /\ \A id \in invited : id \in DOMAIN nicknameIndex
      BY DEF IInv, Sound, ChannelsSound, ChannelSound
    <3>2. chs[k] = [channels[k] EXCEPT !.invitedUsers = moved]
      BY DEF chs
    <3>3. \A x \in DOMAIN clients \ {fd} : clients[x].nickname # NoNick =>
            /\ Fold[clients[x].nickname] # Fold[n]
            /\ old # NoNick => Fold[clients[x].nickname] # Fold[old]
      BY <1>3 DEF IInv, Sound, IndexSound, NickInUse
    <3>4. \A x \in DOMAIN clients \ {fd} : clients[x].nickname # NoNick =>
            (Fold[clients[x].nickname] \in moved <=> Fold[clients[x].nickname] \in invited)
      BY <3>3 DEF MoveInvite
    <3>5. Fold[n] \in moved <=> old # NoNick /\ Fold[old] \in invited
      <4>1. Fold[n] \in invited => old # NoNick /\ Fold[old] = Fold[n]
        BY <1>3, <3>1 DEF IInv, Sound, IndexSound, NickInUse
      <4>2. QED
        BY <4>1 DEF MoveInvite
    <3> HIDE DEF moved, old
    <3>6. chs[k].invitedUsers = moved
      BY <3>1, <3>2 DEF Channel
    <3>7. Guests(cl, chs[k]) = Guests(clients, channels[k])
      <4>1. ASSUME NEW x \in DOMAIN clients
            PROVE  x \in Guests(cl, chs[k]) <=> x \in Guests(clients, channels[k])
        <5>1. CASE x = fd
          BY <2>2, <2>5, <2>6, <3>5, <3>6, <5>1 DEF Guests, old
        <5>2. CASE x # fd
          BY <2>6, <3>4, <3>6, <5>2 DEF Guests
        <5>3. QED
          BY <5>1, <5>2
      <4>2. QED
        BY <2>6, <4>1 DEF Guests
    <3>8. QED
      BY <3>1, <3>2, <3>7 DEF Seen, Channel
  <2>11. SeenAll(cl, chs) = SeenAll(clients, channels)
    <3>1. DOMAIN chs = DOMAIN channels
      BY DEF chs
    <3>2. QED
      BY <2>10, <3>1 DEF SeenAll
  <2>12. CASE c.registered = clients[fd].registered
    <3>1. Authed(cl) = Authed(clients)
      BY <2>6, <2>12 DEF Authed
    <3>2. QED
      BY <2>1, <2>9, <2>11, <3>1, Unseen
  <2>13. CASE c.registered # clients[fd].registered
    <3>1. ~clients[fd].registered /\ c.registered
      BY <2>2, <2>5, <2>13 DEF Client
    <3>2. Authed(cl) = Authed(clients) \cup {fd}
      BY <2>6, <3>1 DEF Authed
    <3>3. fd \in DOMAIN clients \ Authed(clients) /\ fd \in Fds
      BY <2>2, <3>1 DEF Authed, ClientMap
    <3>4. Policy!Authenticate(fd)
      BY <2>1, <2>9, <2>11, <3>2, <3>3, Mapping DEF Policy!Authenticate, Authed
    <3>5. QED
      BY <3>3, <3>4, PolicyStep
  <2>14. QED
    BY <2>12, <2>13
<1>4. QED
  BY <1>1, <1>2, <1>3

\* JOIN of a channel that does not exist.
LEMMA CreateAllowed ==
  ASSUME IInv, modeRun = Idle, NEW fd \in DOMAIN clients, clients[fd].registered,
         NEW name \in ChanNames, Fold[name] \notin DOMAIN channels,
         NEW out, Emit(clients, out), UNCHANGED modeRun,
         channels' = With(channels, Fold[name], NewChannel(name, fd))
  PROVE  Policy!Next
<1> DEFINE k == Fold[name]
<1>1. /\ DOMAIN clients' = DOMAIN clients
      /\ Authed(clients') = Authed(clients)
      /\ SeenAll(clients', channels') =
           [x \in DOMAIN channels \cup {k} |->
              IF x = k THEN Seen(clients, NewChannel(name, fd))
              ELSE Seen(clients, channels[x])]
  BY StoreSeen
<1>2. Seen(clients, NewChannel(name, fd)) = Policy!Fresh(fd)
  BY DEF Seen, Guests, NewChannel, Policy!Fresh
<1>3. fd \in Authed(clients) /\ fd \in Fds /\ k \in ChanIds
  BY DEF Authed, IInv, Sound, ClientMap, ChanIds
<1>4. Policy!Create(fd, k)
  BY <1>1, <1>2, <1>3, Mapping DEF Policy!Create, Authed, SeenAll
<1>5. QED
  BY <1>3, <1>4, PolicyStep

\* JOIN of a channel that admits the client: under +i the invitation found under
\* its nickname is its own, and it is spent.
LEMMA EnterAllowed ==
  ASSUME IInv, modeRun = Idle, NEW fd \in DOMAIN clients, clients[fd].registered,
         NEW k \in DOMAIN channels, NEW key \in Keys \cup {NoKey},
         ~IsMember(fd, k), Admitted(fd, channels[k], key),
         NEW out, Emit(clients, out), UNCHANGED modeRun,
         channels' = With(channels, k, Joined(fd, channels[k]))
  PROVE  Policy!Next
<1> DEFINE ch == channels[k]
           new == Joined(fd, ch)
           before == Seen(clients, ch)
           after == [before EXCEPT !.members = @ \cup {fd}, !.invited = @ \ {fd}]
<1> HIDE DEF new
<1>1. /\ DOMAIN clients' = DOMAIN clients
      /\ Authed(clients') = Authed(clients)
      /\ SeenAll(clients', channels') =
           [x \in DOMAIN channels \cup {k} |->
              IF x = k THEN Seen(clients, new) ELSE Seen(clients, channels[x])]
  <2>1. channels' = With(channels, k, new)
    BY DEF new
  <2>2. IInv /\ Emit(clients, out)
    OBVIOUS
  <2>3. QED
    BY ONLY <2>1, <2>2, StoreSeen
<1>2. /\ fd \in Authed(clients) /\ fd \in Fds /\ k \in ChanIds
      /\ ch \in Channel /\ clients[fd].nickname # NoNick
  BY DEF Authed, IInv, Sound, ClientMap, RegistrationSound, ChannelsSound, ChannelSound
<1> HIDE DEF ch
<1>3. /\ new.members = ch.members \cup {fd} /\ new.operators = ch.operators
      /\ new.invitedUsers = ch.invitedUsers \ {Fold[clients[fd].nickname]}
      /\ new.inviteOnly = ch.inviteOnly /\ new.topicRestricted = ch.topicRestricted
      /\ new.topic = ch.topic /\ new.key = ch.key /\ new.userLimit = ch.userLimit
  BY <1>2 DEF Joined, Channel, new
<1>4. Guests(clients, new) = Guests(clients, ch) \ {fd}
  <2>1. \A x \in DOMAIN clients \ {fd} : clients[x].nickname # NoNick =>
          Fold[clients[x].nickname] # Fold[clients[fd].nickname]
    BY <1>2, OneOwner
  <2>2. QED
    BY <1>3, <2>1 DEF Guests
<1>5. Seen(clients, new) = after
  <2>1. new \in Channel /\ ClientMap(clients)
    BY <1>2 DEF Joined, Channel, new, IInv, Sound
  <2>2. Seen(clients, new) \in Policy!Chan /\ before \in Policy!Chan
    BY <1>2, <2>1, SeenTyped
  <2>3. /\ before.members = ch.members /\ before.operators = ch.operators
        /\ before.invited = Guests(clients, ch) /\ before.inviteOnly = ch.inviteOnly
        /\ before.topicRestricted = ch.topicRestricted /\ before.topic = ch.topic
        /\ before.key = ch.key /\ before.userLimit = ch.userLimit
    BY DEF Seen
  <2> HIDE DEF before
  <2>4. /\ after \in Policy!Chan
        /\ after.members = before.members \cup {fd} /\ after.operators = before.operators
        /\ after.invited = before.invited \ {fd} /\ after.inviteOnly = before.inviteOnly
        /\ after.topicRestricted = before.topicRestricted /\ after.topic = before.topic
        /\ after.key = before.key /\ after.userLimit = before.userLimit
    BY <1>2, <2>2 DEF Policy!Chan
  <2> HIDE DEF after
  <2>5. /\ after.members = new.members /\ after.operators = new.operators
        /\ after.invited = Guests(clients, new) /\ after.inviteOnly = new.inviteOnly
        /\ after.topicRestricted = new.topicRestricted /\ after.topic = new.topic
        /\ after.key = new.key /\ after.userLimit = new.userLimit
    BY <1>3, <1>4, <2>3, <2>4
  <2>6. QED
    BY <2>1, <2>4, <2>5, SeenIs
<1>6. [SeenAll(clients, channels) EXCEPT ![k].members = @ \cup {fd}, ![k].invited = @ \ {fd}]
        = [x \in DOMAIN channels \cup {k} |->
             IF x = k THEN after ELSE Seen(clients, channels[x])]
  BY DEF SeenAll, ch
<1>7. /\ k \in DOMAIN SeenAll(clients, channels)
      /\ SeenAll(clients, channels)[k] = before
      /\ fd \notin before.members
      /\ before.inviteOnly => fd \in before.invited
      /\ before.key # NoKey => key = before.key
      /\ before.userLimit # 0 => Cardinality(before.members) < before.userLimit
  BY <1>2 DEF SeenAll, Seen, Guests, Admitted, IsMember, ch
<1> HIDE DEF before, after
<1>8. SeenAll(clients', channels') =
        [SeenAll(clients, channels) EXCEPT ![k].members = @ \cup {fd}, ![k].invited = @ \ {fd}]
  BY <1>1, <1>5, <1>6
<1>9. Policy!Join(fd, k, key)
  <2>1. AbstractChannels' =
          [AbstractChannels EXCEPT ![k].members = @ \cup {fd}, ![k].invited = @ \ {fd}]
    BY <1>8, Mapping
  <2>2. k \in DOMAIN AbstractChannels /\ AbstractChannels[k] = before
    BY <1>7, Mapping
  <2>3. /\ fd \in {x \in DOMAIN clients : clients[x].registered}
        /\ UNCHANGED <<DOMAIN clients, {x \in DOMAIN clients : clients[x].registered}, modeRun>>
    BY <1>1, <1>2 DEF Authed
  <2>4. Policy!Cardinality(before.members) = Cardinality(before.members)
    BY Zenon DEF Policy!Cardinality, Cardinality
  <2>5. QED
    BY <1>7, <2>1, <2>2, <2>3, <2>4 DEF Policy!Join
<1>10. QED
  BY <1>2, <1>9, PolicyStep

\* handleJoin, with its early returns.
LEMMA JoinAllowed ==
  ASSUME IInv, modeRun = Idle, NEW fd \in DOMAIN clients,
         NEW name \in ChanNames, NEW key \in Keys \cup {NoKey},
         handleJoin(fd, name, key)
  PROVE  [Policy!Next]_(Policy!vars)
<1> DEFINE k == Fold[name]
           refused == k \in DOMAIN channels /\ ~Admitted(fd, channels[k], key)
<1>1. CASE ~Registered(fd)
  BY <1>1, AnswerUnseen DEF handleJoin, sendNumeric
<1>2. CASE Registered(fd) /\ IsMember(fd, k)
  <2>1. UNCHANGED vars
    BY <1>2 DEF handleJoin
  <2>2. QED
    BY <2>1, Unseen DEF vars
<1>3. CASE Registered(fd) /\ ~IsMember(fd, k) /\ refused
  BY <1>3, AnswerUnseen DEF handleJoin, sendNumeric
<1>4. CASE Registered(fd) /\ ~IsMember(fd, k) /\ ~refused
  <2>1. PICK ch, out :
          /\ ch = IF k \in DOMAIN channels THEN Joined(fd, channels[k])
                  ELSE NewChannel(name, fd)
          /\ channels' = With(channels, k, ch)
          /\ Emit(clients, out)
          /\ modeRun' = modeRun
    BY <1>4 DEF handleJoin
  <2>2. clients[fd].registered
    BY <1>4 DEF Registered
  <2>3. CASE k \in DOMAIN channels
    BY <1>4, <2>1, <2>2, <2>3, EnterAllowed
  <2>4. CASE k \notin DOMAIN channels
    BY <2>1, <2>2, <2>4, CreateAllowed
  <2>5. QED
    BY <2>3, <2>4
<1>5. QED
  BY <1>1, <1>2, <1>3, <1>4

\* KICK: the target named is a member, and an emptied channel is gone.
LEMMA KickAllowed ==
  ASSUME IInv, modeRun = Idle, NEW fd \in DOMAIN clients,
         NEW name \in ChanNames, NEW n \in Nicks, handleKick(fd, name, n)
  PROVE  [Policy!Next]_(Policy!vars)
<1> DEFINE k == Fold[name]
<1>1. CASE KickTargets(fd, k, n) = {}
  BY <1>1, AnswerUnseen DEF handleKick, sendNumeric
<1>2. CASE KickTargets(fd, k, n) # {}
  <2>1. PICK t \in KickTargets(fd, k, n) :
          /\ channels' = removeMemberFromChannel(k, t)
          /\ \E out : Emit(clients, out)
          /\ UNCHANGED modeRun
    BY <1>2 DEF handleKick
  <2>2. PICK out : Emit(clients, out)
    BY <2>1
  <2> DEFINE ch == channels[k]
             new == removeMember(ch, t)
             before == Seen(clients, ch)
             after == Policy!Without(before, t)
  <2>3. /\ clients[fd].registered /\ k \in DOMAIN channels /\ fd \in ch.operators
        /\ t \in ch.members
    BY <1>2 DEF KickTargets, Registered, IsOperator
  <2>4. /\ ClientMap(clients) /\ fd \in Fds /\ t \in Fds /\ k \in ChanIds
        /\ ch \in Channel /\ Fold[ch.name] = k
        /\ \A x \in DOMAIN channels : channels[x].members # {}
    BY <2>3 DEF IInv, Sound, ClientMap, ChannelsSound, ChannelSound
  <2>5. channels' = IF new.members # {} THEN [channels EXCEPT ![k] = new]
                    ELSE Without(channels, {Fold[new.name]})
    BY <2>1 DEF removeMemberFromChannel
  <2> HIDE DEF ch
  <2>6. /\ new \in Channel /\ new.name = ch.name
        /\ new.members = ch.members \ {t} /\ new.operators = ch.operators \ {t}
        /\ new.invitedUsers = ch.invitedUsers /\ new.inviteOnly = ch.inviteOnly
        /\ new.topicRestricted = ch.topicRestricted /\ new.topic = ch.topic
        /\ new.key = ch.key /\ new.userLimit = ch.userLimit
    BY <2>4 DEF removeMember, Channel
  <2> HIDE DEF new
  <2>7. /\ before \in Policy!Chan
        /\ before.members = ch.members /\ before.operators = ch.operators
        /\ before.invited = Guests(clients, ch) /\ before.inviteOnly = ch.inviteOnly
        /\ before.topicRestricted = ch.topicRestricted /\ before.topic = ch.topic
        /\ before.key = ch.key /\ before.userLimit = ch.userLimit
    BY <2>4, SeenTyped DEF Seen
  <2> HIDE DEF before
  <2>8. Guests(clients, new) = Guests(clients, ch)
    BY <2>6 DEF Guests
  <2>9. /\ after \in Policy!Chan
        /\ after.members = before.members \ {t} /\ after.operators = before.operators \ {t}
        /\ after.invited = before.invited /\ after.inviteOnly = before.inviteOnly
        /\ after.topicRestricted = before.topicRestricted /\ after.topic = before.topic
        /\ after.key = before.key /\ after.userLimit = before.userLimit
    BY <2>7 DEF Policy!Chan, Policy!Without
  <2> HIDE DEF after
  <2>10. Seen(clients, new) = after
    <3>1. /\ after.members = new.members /\ after.operators = new.operators
          /\ after.invited = Guests(clients, new) /\ after.inviteOnly = new.inviteOnly
          /\ after.topicRestricted = new.topicRestricted /\ after.topic = new.topic
          /\ after.key = new.key /\ after.userLimit = new.userLimit
      BY <2>6, <2>7, <2>8, <2>9
    <3>2. QED
      BY <2>4, <2>6, <2>9, <3>1, SeenIs
  <2>11. /\ DOMAIN channels' = {x \in DOMAIN channels : x # k \/ new.members # {}}
         /\ \A x \in DOMAIN channels' :
              channels'[x] = IF x = k THEN new ELSE channels[x]
    BY <2>3, <2>4, <2>5, <2>6 DEF Without
  <2> DEFINE F == [AbstractChannels EXCEPT ![k] = Policy!Without(@, t)]
  <2>12. /\ DOMAIN F = DOMAIN channels
         /\ \A x \in DOMAIN channels :
              F[x] = IF x = k THEN after ELSE Seen(clients, channels[x])
    BY <2>3, Mapping DEF SeenAll, after, before, ch
  <2>13. \A x \in DOMAIN channels : Seen(clients, channels[x]).members = channels[x].members
    BY DEF Seen
  <2> HIDE DEF F
  <2>14. {x \in DOMAIN F : F[x].members # {}} = DOMAIN channels'
    BY <2>4, <2>6, <2>7, <2>9, <2>11, <2>12, <2>13
  <2>15. \A x \in DOMAIN channels' : F[x] = Seen(clients, channels'[x])
    BY <2>10, <2>11, <2>12
  <2>16. AbstractChannels' = Policy!Surviving(F)
    <3>1. SeenAll(clients', channels') = SeenAll(clients, channels')
      BY <2>2, <2>4, EmitUnseen
    <3>2. Policy!Surviving(F) = [x \in DOMAIN channels' |-> F[x]]
      BY <2>14 DEF Policy!Surviving
    <3>3. QED
      BY <2>15, <3>1, <3>2, Mapping DEF SeenAll
  <2>17. /\ k \in DOMAIN AbstractChannels /\ AbstractChannels[k] = before
    BY <2>3, Mapping DEF SeenAll, before, ch
  <2>18. /\ fd \in {x \in DOMAIN clients : clients[x].registered}
         /\ UNCHANGED <<DOMAIN clients, {x \in DOMAIN clients : clients[x].registered}, modeRun>>
    BY <2>1, <2>2, <2>3, <2>4, EmitUnseen DEF Authed
  <2>19. Policy!Kick(fd, t, k)
    BY <2>3, <2>7, <2>16, <2>17, <2>18 DEF Policy!Kick, F
  <2>20. QED
    BY <2>4, <2>19, PolicyStep
<1>3. QED
  BY <1>1, <1>2

\* INVITE: the invitation, stored under a folded nickname, reaches exactly the
\* connection that findClientByNickname found.
LEMMA InviteAllowed ==
  ASSUME IInv, modeRun = Idle, NEW fd \in DOMAIN clients,
         NEW name \in ChanNames, NEW n \in Nicks, handleInvite(fd, n, name)
  PROVE  [Policy!Next]_(Policy!vars)
<1> DEFINE k == Fold[name]
<1>1. CASE InviteTargets(fd, k, n) = {}
  BY <1>1, AnswerUnseen DEF handleInvite, sendNumeric
<1>2. CASE InviteTargets(fd, k, n) # {}
  <2> DEFINE ch == channels[k]
             new == [ch EXCEPT !.invitedUsers = @ \cup {Fold[n]}]
             before == Seen(clients, ch)
  <2>1. /\ channels' = [channels EXCEPT ![k] = new]
        /\ \E out : Emit(clients, out)
        /\ UNCHANGED modeRun
    BY <1>2 DEF handleInvite
  <2>2. PICK out : Emit(clients, out)
    BY <2>1
  <2>3. PICK t \in InviteTargets(fd, k, n) : TRUE
    BY <1>2
  <2> DEFINE after == [before EXCEPT !.invited = @ \cup {t}]
  <2>4. /\ clients[fd].registered /\ k \in DOMAIN channels /\ fd \in ch.operators
        /\ t \in findClientByNickname(n) /\ t \notin ch.members
    BY <1>2 DEF InviteTargets, Registered, IsOperator
  <2>5. /\ t \in DOMAIN clients /\ clients[t].nickname # NoNick
        /\ Fold[clients[t].nickname] = Fold[n]
    BY <2>4, Found
  <2>6. /\ ClientMap(clients) /\ fd \in Fds /\ t \in Fds /\ k \in ChanIds
        /\ ch \in Channel /\ Fold[n] \in NickIds
    BY <2>4, <2>5 DEF IInv, Sound, ClientMap, ChannelsSound, ChannelSound, NickIds
  <2> HIDE DEF ch
  <2>7. /\ new \in Channel
        /\ new.members = ch.members /\ new.operators = ch.operators
        /\ new.invitedUsers = ch.invitedUsers \cup {Fold[n]}
        /\ new.inviteOnly = ch.inviteOnly
        /\ new.topicRestricted = ch.topicRestricted /\ new.topic = ch.topic
        /\ new.key = ch.key /\ new.userLimit = ch.userLimit
    BY <2>6 DEF Channel
  <2> HIDE DEF new
  <2>8. /\ before \in Policy!Chan
        /\ before.members = ch.members /\ before.operators = ch.operators
        /\ before.invited = Guests(clients, ch) /\ before.inviteOnly = ch.inviteOnly
        /\ before.topicRestricted = ch.topicRestricted /\ before.topic = ch.topic
        /\ before.key = ch.key /\ before.userLimit = ch.userLimit
    BY <2>6, SeenTyped DEF Seen
  <2> HIDE DEF before
  <2>9. Guests(clients, new) = Guests(clients, ch) \cup {t}
    <3>1. \A x \in DOMAIN clients : clients[x].nickname # NoNick =>
            (Fold[clients[x].nickname] = Fold[n] <=> x = t)
      BY <2>5, OneOwner
    <3>2. QED
      BY <2>5, <2>7, <3>1 DEF Guests
  <2>10. /\ after \in Policy!Chan
         /\ after.members = before.members /\ after.operators = before.operators
         /\ after.invited = before.invited \cup {t}
         /\ after.inviteOnly = before.inviteOnly
         /\ after.topicRestricted = before.topicRestricted /\ after.topic = before.topic
         /\ after.key = before.key /\ after.userLimit = before.userLimit
    BY <2>6, <2>8 DEF Policy!Chan
  <2>11. Seen(clients, new) = after
    <3> HIDE DEF after
    <3>1. /\ after.members = new.members /\ after.operators = new.operators
          /\ after.invited = Guests(clients, new) /\ after.inviteOnly = new.inviteOnly
          /\ after.topicRestricted = new.topicRestricted /\ after.topic = new.topic
          /\ after.key = new.key /\ after.userLimit = new.userLimit
      BY <2>7, <2>8, <2>9, <2>10
    <3>2. QED
      BY <2>6, <2>7, <2>10, <3>1, SeenIs
  <2>12. /\ DOMAIN clients' = DOMAIN clients
         /\ Authed(clients') = Authed(clients)
         /\ SeenAll(clients', channels') =
              [x \in DOMAIN channels \cup {k} |->
                 IF x = k THEN Seen(clients, new) ELSE Seen(clients, channels[x])]
    BY <2>1, <2>2, <2>4, StoreSeen, ZenonT(30)
  <2>13. AbstractChannels' = [AbstractChannels EXCEPT ![k].invited = @ \cup {t}]
    <3>1. AbstractChannels' = [x \in DOMAIN channels |->
            IF x = k THEN after ELSE Seen(clients, channels[x])]
      BY <2>4, <2>11, <2>12, Mapping
    <3>2. AbstractChannels = [x \in DOMAIN channels |-> Seen(clients, channels[x])]
      BY Mapping DEF SeenAll
    <3>3. after = [Seen(clients, channels[k]) EXCEPT !.invited = @ \cup {t}]
      BY DEF before, ch
    <3> HIDE DEF after
    <3>4. QED
      BY <2>4, <3>1, <3>2, <3>3
  <2>14. /\ k \in DOMAIN AbstractChannels /\ AbstractChannels[k] = before
    BY <2>4, Mapping DEF SeenAll, before, ch
  <2>15. /\ fd \in {x \in DOMAIN clients : clients[x].registered}
         /\ UNCHANGED <<DOMAIN clients, {x \in DOMAIN clients : clients[x].registered}, modeRun>>
    BY <2>1, <2>4, <2>12 DEF Authed
  <2>16. Policy!Invite(fd, t, k)
    BY <2>4, <2>5, <2>8, <2>13, <2>14, <2>15 DEF Policy!Invite
  <2>17. QED
    BY <2>6, <2>16, PolicyStep
<1>3. QED
  BY <1>1, <1>2

\* TOPIC: only a member sets it, and under +t only an operator.
LEMMA TopicAllowed ==
  ASSUME IInv, modeRun = Idle, NEW fd \in DOMAIN clients,
         NEW name \in ChanNames, NEW topic \in Topics \cup {NoTopic},
         handleTopic(fd, name, topic)
  PROVE  [Policy!Next]_(Policy!vars)
<1> DEFINE k == Fold[name]
<1>1. CASE ~MaySetTopic(fd, k)
  BY <1>1, AnswerUnseen DEF handleTopic, sendNumeric
<1>2. CASE MaySetTopic(fd, k)
  <2> DEFINE ch == channels[k]
             new == [ch EXCEPT !.topic = topic]
             before == Seen(clients, ch)
             after == [before EXCEPT !.topic = topic]
  <2>1. /\ channels' = [channels EXCEPT ![k] = new]
        /\ \E out : Emit(clients, out)
        /\ UNCHANGED modeRun
    BY <1>2 DEF handleTopic
  <2>2. PICK out : Emit(clients, out)
    BY <2>1
  <2>3. /\ clients[fd].registered /\ k \in DOMAIN channels /\ fd \in ch.members
        /\ ch.topicRestricted => fd \in ch.operators
    BY <1>2 DEF MaySetTopic, Registered, IsMember, IsOperator
  <2>4. /\ ClientMap(clients) /\ fd \in Fds /\ k \in ChanIds /\ ch \in Channel
    BY <2>3 DEF IInv, Sound, ClientMap, ChannelsSound, ChannelSound
  <2> HIDE DEF ch
  <2>5. /\ new \in Channel
        /\ new.members = ch.members /\ new.operators = ch.operators
        /\ new.invitedUsers = ch.invitedUsers /\ new.inviteOnly = ch.inviteOnly
        /\ new.topicRestricted = ch.topicRestricted /\ new.topic = topic
        /\ new.key = ch.key /\ new.userLimit = ch.userLimit
    BY <2>4 DEF Channel
  <2> HIDE DEF new
  <2>6. /\ before \in Policy!Chan
        /\ before.members = ch.members /\ before.operators = ch.operators
        /\ before.invited = Guests(clients, ch) /\ before.inviteOnly = ch.inviteOnly
        /\ before.topicRestricted = ch.topicRestricted
        /\ before.key = ch.key /\ before.userLimit = ch.userLimit
    BY <2>4, SeenTyped DEF Seen
  <2> HIDE DEF before
  <2>7. Guests(clients, new) = Guests(clients, ch)
    BY <2>5 DEF Guests
  <2>8. /\ after \in Policy!Chan
        /\ after.members = before.members /\ after.operators = before.operators
        /\ after.invited = before.invited /\ after.inviteOnly = before.inviteOnly
        /\ after.topicRestricted = before.topicRestricted /\ after.topic = topic
        /\ after.key = before.key /\ after.userLimit = before.userLimit
    BY <2>6 DEF Policy!Chan
  <2>9. Seen(clients, new) = after
    <3> HIDE DEF after
    <3>1. /\ after.members = new.members /\ after.operators = new.operators
          /\ after.invited = Guests(clients, new) /\ after.inviteOnly = new.inviteOnly
          /\ after.topicRestricted = new.topicRestricted /\ after.topic = new.topic
          /\ after.key = new.key /\ after.userLimit = new.userLimit
      BY <2>5, <2>6, <2>7, <2>8
    <3>2. QED
      BY <2>4, <2>5, <2>8, <3>1, SeenIs
  <2>10. /\ DOMAIN clients' = DOMAIN clients
         /\ Authed(clients') = Authed(clients)
         /\ SeenAll(clients', channels') =
              [x \in DOMAIN channels \cup {k} |->
                 IF x = k THEN Seen(clients, new) ELSE Seen(clients, channels[x])]
    <3>1. k \in DOMAIN channels /\ channels' = [channels EXCEPT ![k] = new]
      BY <2>1, <2>3
    <3> HIDE DEF k
    <3>2. QED
      BY <2>2, <3>1, StoreSeen
  <2>11. AbstractChannels' = [AbstractChannels EXCEPT ![k].topic = topic]
    <3>1. AbstractChannels' = [x \in DOMAIN channels |->
            IF x = k THEN after ELSE Seen(clients, channels[x])]
      BY <2>3, <2>9, <2>10, Mapping
    <3>2. AbstractChannels = [x \in DOMAIN channels |-> Seen(clients, channels[x])]
      BY Mapping DEF SeenAll
    <3>3. after = [Seen(clients, channels[k]) EXCEPT !.topic = topic]
      BY DEF before, ch
    <3> HIDE DEF after
    <3>4. QED
      BY <2>3, <3>1, <3>2, <3>3
  <2>12. /\ k \in DOMAIN AbstractChannels /\ AbstractChannels[k] = before
    BY <2>3, Mapping DEF SeenAll, before, ch
  <2>13. /\ fd \in {x \in DOMAIN clients : clients[x].registered}
         /\ UNCHANGED <<DOMAIN clients, {x \in DOMAIN clients : clients[x].registered}, modeRun>>
    BY <2>1, <2>3, <2>10 DEF Authed
  <2>14. Policy!SetTopic(fd, k, topic)
    BY <2>3, <2>6, <2>11, <2>12, <2>13 DEF Policy!SetTopic
  <2>15. QED
    BY <2>4, <2>14, PolicyStep
<1>3. QED
  BY <1>1, <1>2

\* handleMode: only an operator's list of changes is begun.
LEMMA ModeAllowed ==
  ASSUME IInv, modeRun = Idle, NEW fd \in DOMAIN clients,
         NEW name \in ChanNames, NEW line \in ModeLines, handleMode(fd, name, line)
  PROVE  [Policy!Next]_(Policy!vars)
<1> DEFINE k == Fold[name]
<1>1. CASE ~(Registered(fd) /\ IsOperator(fd, k))
  BY <1>1, AnswerUnseen DEF handleMode, sendNumeric
<1>2. CASE Registered(fd) /\ IsOperator(fd, k)
  <2>1. /\ modeRun' = [fd |-> fd, chan |-> k, changes |-> line]
        /\ modeRun'.fd = fd /\ modeRun'.chan = k
        /\ UNCHANGED <<clients, channels>>
    BY <1>2 DEF handleMode
  <2>2. /\ clients[fd].registered /\ k \in DOMAIN channels /\ fd \in channels[k].operators
        /\ fd \in Fds /\ k \in ChanIds
    BY <1>2 DEF Registered, IsOperator, IInv, Sound, ClientMap, ChannelsSound
  <2>3. /\ k \in DOMAIN AbstractChannels
        /\ AbstractChannels[k].operators = channels[k].operators
        /\ AbstractChannels' = AbstractChannels
    BY <2>1, <2>2, Mapping DEF SeenAll, Seen
  <2>4. CASE modeRun' # Idle
    <3>1. Policy!BeginMode(fd, k)
      BY <2>1, <2>2, <2>3, <2>4 DEF Policy!BeginMode
    <3>2. QED
      BY <2>2, <3>1, PolicyStep
  <2>5. CASE modeRun' = Idle
    BY <2>1, <2>5, Unseen
  <2>6. QED
    BY <2>4, <2>5
<1>3. QED
  BY <1>1, <1>2

\* One change of a MODE command: settings and the status of members, on the
\* channel the command is about.
LEMMA ModeChangeAllowed ==
  ASSUME IInv, applyChannelModeChange
  PROVE  Policy!Next
<1> DEFINE k == modeRun.chan
           ch == channels[k]
           m == Head(modeRun.changes)
           new == ModeApplied(ch, m)
<1>1. /\ modeRun # Idle /\ modeRun \in ModeRun /\ modeRun.changes # <<>>
      /\ modeRun.fd \in DOMAIN clients /\ k \in DOMAIN channels
  BY DEF applyChannelModeChange, IInv, ModeSound
<1>2. modeRun' = Idle \/ (modeRun'.fd = modeRun.fd /\ modeRun'.chan = k)
  BY <1>1 DEF applyChannelModeChange, ModeRun
<1>3. /\ ClientMap(clients) /\ ch \in Channel /\ ch.operators \subseteq ch.members
      /\ m \in ModeChange
  <2>1. modeRun.changes \in Seq(ModeChange)
    BY <1>1 DEF ModeRun
  <2>2. QED
    BY <1>1, <2>1, MoreChanges DEF IInv, Sound, ChannelsSound, ChannelSound
<1> HIDE DEF m
<1>4. PICK to \in Channel :
        /\ to.members = ch.members /\ to.operators \subseteq ch.members
        /\ to.invitedUsers = ch.invitedUsers /\ to.topic = ch.topic
        /\ DOMAIN channels' = DOMAIN channels
        /\ channels'[k] = to
        /\ \A x \in DOMAIN channels \ {k} : channels'[x] = channels[x]
        /\ DOMAIN clients' = DOMAIN clients
        /\ Authed(clients') = Authed(clients)
        /\ \A x : Guests(clients', x) = Guests(clients, x)
  <2>1. CASE ModeRefused(ch, m)
    <3>1. (\E out : Emit(clients, out)) /\ channels' = channels
      BY <2>1 DEF applyChannelModeChange, m
    <3>2. /\ DOMAIN clients' = DOMAIN clients
          /\ Authed(clients') = Authed(clients)
          /\ \A x : Guests(clients', x) = Guests(clients, x)
      BY <1>3, <3>1, EmitUnseen
    <3>3. QED
      BY <1>3, <3>1, <3>2
  <2>2. CASE ~ModeRefused(ch, m) /\ new = ch
    <3>1. UNCHANGED <<clients, channels>>
      BY <2>2 DEF applyChannelModeChange, m
    <3>2. QED
      BY <1>3, <3>1
  <2>3. CASE ~ModeRefused(ch, m) /\ new # ch
    <3>1. channels' = [channels EXCEPT ![k] = new] /\ \E out : Emit(clients, out)
      BY <2>3 DEF applyChannelModeChange, m
    <3>2. /\ DOMAIN clients' = DOMAIN clients
          /\ Authed(clients') = Authed(clients)
          /\ \A x : Guests(clients', x) = Guests(clients, x)
      BY <1>3, <3>1, EmitUnseen
    <3>3. /\ new \in Channel
          /\ new.members = ch.members /\ new.operators \subseteq ch.members
          /\ new.invitedUsers = ch.invitedUsers /\ new.topic = ch.topic
      BY <1>3, <2>3, ModeAppliedSettings
    <3> HIDE DEF new
    <3>4. /\ DOMAIN channels' = DOMAIN channels /\ channels'[k] = new
          /\ \A x \in DOMAIN channels \ {k} : channels'[x] = channels[x]
      BY <1>1, <3>1
    <3>5. QED
      BY <3>2, <3>3, <3>4
  <2>4. QED
    BY <2>1, <2>2, <2>3
<1> HIDE DEF new
<1>5. \A x : Seen(clients', x) = Seen(clients, x)
  BY <1>4 DEF Seen
<1>6. /\ DOMAIN AbstractChannels = DOMAIN channels
      /\ DOMAIN AbstractChannels' = DOMAIN channels
      /\ \A x \in DOMAIN channels \ {k} : AbstractChannels'[x] = AbstractChannels[x]
      /\ AbstractChannels[k] = Seen(clients, ch)
      /\ AbstractChannels'[k] = Seen(clients, to)
  BY <1>1, <1>4, <1>5, Mapping DEF SeenAll
<1>7. Guests(clients, to) = Guests(clients, ch)
  BY <1>4 DEF Guests
<1>8. /\ Seen(clients, to) \in Policy!Chan
      /\ Seen(clients, to).members = Seen(clients, ch).members
      /\ Seen(clients, to).operators \subseteq Seen(clients, ch).members
      /\ Seen(clients, to).invited = Seen(clients, ch).invited
      /\ Seen(clients, to).topic = Seen(clients, ch).topic
  <2>1. Seen(clients, to) \in Policy!Chan
    BY <1>3, SeenTyped
  <2>2. QED
    BY <1>4, <1>7, <2>1 DEF Seen
<1> DEFINE acting == IF modeRun = Idle THEN Idle ELSE <<modeRun.fd, modeRun.chan>>
<1>9. acting = <<modeRun.fd, k>> /\ acting' \in {acting, Idle}
  BY <1>1, <1>2
<1>10. UNCHANGED <<DOMAIN clients, {x \in DOMAIN clients : clients[x].registered}>>
  BY <1>4 DEF Authed
<1> HIDE DEF ch
<1>11. Policy!ChangeMode
  BY <1>1, <1>6, <1>8, <1>9, <1>10 DEF Policy!ChangeMode
<1>12. QED
  BY <1>11 DEF Policy!Next

\* acceptClient: a fresh connection has no nickname, hence no invitation.
LEMMA AcceptAllowed ==
  ASSUME IInv, modeRun = Idle, NEW fd \in Fds, acceptClient(fd)
  PROVE  Policy!Next
<1>1. /\ fd \notin DOMAIN clients /\ clients' = With(clients, fd, NewClient)
      /\ UNCHANGED <<channels, modeRun>>
  BY DEF acceptClient
<1>2. /\ DOMAIN clients' = DOMAIN clients \cup {fd}
      /\ clients'[fd] = NewClient
      /\ \A x \in DOMAIN clients : x # fd /\ clients'[x] = clients[x]
  BY <1>1 DEF With
<1>3. NewClient.nickname = NoNick /\ ~NewClient.registered
  BY DEF NewClient
<1>4. Authed(clients') = Authed(clients)
  BY <1>2, <1>3 DEF Authed
<1>5. \A ch : Guests(clients', ch) = Guests(clients, ch)
  BY <1>2, <1>3 DEF Guests
<1>6. SeenAll(clients', channels') = SeenAll(clients, channels)
  BY <1>1, <1>5 DEF SeenAll, Seen
<1>7. Policy!Connect(fd)
  BY <1>1, <1>2, <1>4, <1>6, Mapping DEF Policy!Connect, Authed
<1>8. QED
  BY <1>7, PolicyStep

\* removeClient: every right goes with the connection, and nobody else's does.
LEMMA RemoveAllowed ==
  ASSUME IInv, modeRun = Idle, NEW fd \in DOMAIN clients, removeClient(fd)
  PROVE  Policy!Next
<1> DEFINE nick == clients[fd].nickname
           gone == IF nick = NoNick THEN {} ELSE {Fold[nick]}
           cl == Without(clients, {fd})
           left == [k \in DOMAIN channels |->
                     [removeMember(channels[k], fd) EXCEPT !.invitedUsers =
                        IF nick = NoNick THEN @ ELSE @ \ {Fold[nick]}]]
           F == [k \in DOMAIN AbstractChannels |->
                  [Policy!Without(AbstractChannels[k], fd) EXCEPT !.invited = @ \ {fd}]]
<1>1. /\ channels' = Without(left, {k \in DOMAIN left : left[k].members = {}})
      /\ UNCHANGED modeRun /\ \E out : Emit(cl, out)
  BY DEF removeClient, ChannelsWithout
<1>2. ClientMap(clients) /\ fd \in Fds
  BY DEF IInv, Sound, ClientMap
<1>3. /\ DOMAIN cl = DOMAIN clients \ {fd}
      /\ \A x \in DOMAIN cl : cl[x] = clients[x]
  BY DEF Without
<1>4. ClientMap(cl)
  BY <1>2, <1>3 DEF ClientMap
<1>5. PICK out : Emit(cl, out)
  BY <1>1
<1>6. /\ DOMAIN clients' = DOMAIN clients \ {fd}
      /\ Authed(clients') = Authed(cl)
      /\ SeenAll(clients', channels') = SeenAll(cl, channels')
  BY <1>3, <1>4, <1>5, EmitUnseen
<1>7. Authed(cl) = Authed(clients) \ {fd}
  BY <1>3 DEF Authed
<1>8. /\ DOMAIN channels' = {k \in DOMAIN channels : left[k].members # {}}
      /\ \A k \in DOMAIN channels' : channels'[k] = left[k]
  BY <1>1 DEF Without
<1>9. /\ DOMAIN F = DOMAIN channels
      /\ \A k \in DOMAIN channels :
           F[k] = [Policy!Without(Seen(clients, channels[k]), fd) EXCEPT !.invited = @ \ {fd}]
  BY Mapping DEF SeenAll
<1>10. ASSUME NEW k \in DOMAIN channels
       PROVE  /\ left[k] \in Channel
              /\ left[k].members = channels[k].members \ {fd}
              /\ left[k].operators = channels[k].operators \ {fd}
              /\ left[k].invitedUsers = channels[k].invitedUsers \ gone
              /\ left[k].inviteOnly = channels[k].inviteOnly
              /\ left[k].topicRestricted = channels[k].topicRestricted
              /\ left[k].topic = channels[k].topic
              /\ left[k].key = channels[k].key
              /\ left[k].userLimit = channels[k].userLimit
  <2>1. channels[k] \in Channel
    BY DEF IInv, Sound, ChannelsSound, ChannelSound
  <2>2. left[k] = [removeMember(channels[k], fd) EXCEPT !.invitedUsers =
                     channels[k].invitedUsers \ gone]
    BY <2>1 DEF removeMember, Channel
  <2> HIDE DEF left, gone
  <2>3. QED
    BY <2>1, <2>2, ZenonT(30) DEF removeMember, Channel
<1> HIDE DEF cl, left, F
<1>11. ASSUME NEW k \in DOMAIN channels
       PROVE  F[k] = Seen(cl, left[k])
  <2> DEFINE ch == channels[k]
             new == left[k]
             before == Seen(clients, ch)
             after == F[k]
  <2>1. ch \in Channel
    BY DEF IInv, Sound, ChannelsSound, ChannelSound
  <2>2. /\ before \in Policy!Chan
        /\ before.members = ch.members /\ before.operators = ch.operators
        /\ before.invited = Guests(clients, ch) /\ before.inviteOnly = ch.inviteOnly
        /\ before.topicRestricted = ch.topicRestricted /\ before.topic = ch.topic
        /\ before.key = ch.key /\ before.userLimit = ch.userLimit
    BY <1>2, <2>1, SeenTyped DEF Seen
  <2>3. after = [Policy!Without(before, fd) EXCEPT !.invited = @ \ {fd}]
    BY <1>9
  <2> HIDE DEF before, after
  <2>4. /\ after \in Policy!Chan
        /\ after.members = before.members \ {fd} /\ after.operators = before.operators \ {fd}
        /\ after.invited = before.invited \ {fd} /\ after.inviteOnly = before.inviteOnly
        /\ after.topicRestricted = before.topicRestricted /\ after.topic = before.topic
        /\ after.key = before.key /\ after.userLimit = before.userLimit
    BY <2>2, <2>3 DEF Policy!Chan, Policy!Without
  <2>5. Guests(cl, new) = Guests(clients, ch) \ {fd}
    <3>1. \A x \in DOMAIN clients \ {fd} : clients[x].nickname # NoNick =>
            Fold[clients[x].nickname] \notin gone
      BY OneOwner
    <3>2. QED
      BY <1>3, <1>10, <3>1 DEF Guests
  <2>6. /\ after.members = new.members /\ after.operators = new.operators
        /\ after.invited = Guests(cl, new) /\ after.inviteOnly = new.inviteOnly
        /\ after.topicRestricted = new.topicRestricted /\ after.topic = new.topic
        /\ after.key = new.key /\ after.userLimit = new.userLimit
    BY <1>10, <2>2, <2>4, <2>5
  <2>7. after = Seen(cl, new)
    <3> HIDE DEF new
    <3>1. QED
      BY <2>4, <2>6 DEF Seen, Policy!Chan
  <2>8. QED
    BY <2>7 DEF after
<1>12. {k \in DOMAIN F : F[k].members # {}} = DOMAIN channels'
  <2>1. ASSUME NEW k \in DOMAIN channels
        PROVE  F[k].members = left[k].members
    <3>1. Seen(cl, left[k]).members = left[k].members
      BY DEF Seen
    <3>2. F[k] = Seen(cl, left[k])
      BY <1>11
    <3>3. QED
      BY <3>1, <3>2
  <2>2. QED
    BY <1>8, <1>9, <2>1
<1>13. AbstractChannels' = Policy!Surviving(F)
  <2>1. Policy!Surviving(F) = [k \in DOMAIN channels' |-> F[k]]
    BY <1>12 DEF Policy!Surviving
  <2>2. \A k \in DOMAIN channels' : F[k] = Seen(cl, channels'[k])
    BY <1>8, <1>11
  <2>3. QED
    BY <1>6, <2>1, <2>2, Mapping DEF SeenAll
<1>14. Policy!Leave(fd)
  BY <1>1, <1>6, <1>7, <1>13 DEF Policy!Leave, Authed, F
<1>15. QED
  BY <1>2, <1>14, PolicyStep

-----------------------------------------------------------------------------
(* The refinement *)

\* The server starts where the policy does.
LEMMA InitAllowed == Init => Policy!Init
BY Mapping DEF Init, EmptyMap, Policy!Init, SeenAll

\* Every command and every change of the connections is a step of the policy.
LEMMA DispatchAllowed ==
  ASSUME IInv, modeRun = Idle, NEW fd \in DOMAIN clients, dispatchCommand(fd)
  PROVE  [Policy!Next]_(Policy!vars)
<1>1. CASE sendNumeric(fd)
  BY <1>1, AnswerUnseen DEF sendNumeric
<1>2. CASE handleQuit(fd)
  <2>1. ClientMap(clients)
    BY DEF IInv, Sound
  <2>2. SameIdentities(clients, clients') /\ UNCHANGED <<channels, modeRun>>
    BY <1>2, <2>1 DEF handleQuit, ClientMap, SameIdentities, Client
  <2>3. DOMAIN clients' = DOMAIN clients /\ Authed(clients') = Authed(clients)
    BY <2>2 DEF SameIdentities, Authed
  <2>4. \A ch : Guests(clients', ch) = Guests(clients, ch)
    BY <2>2 DEF SameIdentities, Guests
  <2>5. SeenAll(clients', channels') = SeenAll(clients, channels)
    BY <2>2, <2>4 DEF SeenAll, Seen
  <2>6. QED
    BY <2>2, <2>3, <2>5, Unseen
<1>3. ASSUME NEW correct \in BOOLEAN, handlePass(fd, correct)
      PROVE  [Policy!Next]_(Policy!vars)
  <2>1. CASE Registered(fd) \/ ~correct
    BY <1>3, <2>1, AnswerUnseen DEF handlePass, sendNumeric
  <2>2. CASE ~(Registered(fd) \/ ~correct)
    <3> DEFINE c == [clients[fd] EXCEPT !.passwordAccepted = TRUE]
    <3>1. clients[fd] \in Client /\ ~clients[fd].registered
      BY <2>2 DEF IInv, Sound, ClientMap, Registered
    <3>2. c \in Client /\ c.nickname = clients[fd].nickname
      BY <3>1 DEF Client
    <3>3. Progress(fd, c) /\ UNCHANGED <<channels, modeRun>>
      BY <1>3, <2>2 DEF handlePass
    <3> HIDE DEF c
    <3>4. QED
      BY <3>1, <3>2, <3>3, ProgressAllowed
  <2>3. QED
    BY <2>1, <2>2
<1>4. CASE handleUser(fd)
  <2>1. CASE Registered(fd)
    BY <1>4, <2>1, AnswerUnseen DEF handleUser, sendNumeric
  <2>2. CASE ~Registered(fd)
    <3> DEFINE c == [clients[fd] EXCEPT !.hasUser = TRUE]
    <3>1. clients[fd] \in Client /\ ~clients[fd].registered
      BY <2>2 DEF IInv, Sound, ClientMap, Registered
    <3>2. c \in Client /\ c.nickname = clients[fd].nickname
      BY <3>1 DEF Client
    <3>3. Progress(fd, c) /\ UNCHANGED <<channels, modeRun>>
      BY <1>4, <2>2 DEF handleUser
    <3> HIDE DEF c
    <3>4. QED
      BY <3>1, <3>2, <3>3, ProgressAllowed
  <2>3. QED
    BY <2>1, <2>2
<1>5. ASSUME NEW n \in Nicks, handleNick(fd, n)
      PROVE  [Policy!Next]_(Policy!vars)
  BY <1>5, NickAllowed
<1>6. ASSUME NEW target, handlePrivmsg(fd, target)
      PROVE  [Policy!Next]_(Policy!vars)
  <2>1. (\E out : Emit(clients, out)) /\ UNCHANGED <<channels, modeRun>>
    BY <1>6 DEF handlePrivmsg, sendNumeric
  <2>2. QED
    BY <2>1, AnswerUnseen
<1>7. ASSUME NEW name \in ChanNames, NEW key \in Keys \cup {NoKey},
             handleJoin(fd, name, key)
      PROVE  [Policy!Next]_(Policy!vars)
  BY <1>7, JoinAllowed
<1>8. ASSUME NEW name \in ChanNames, NEW topic \in Topics \cup {NoTopic},
             handleTopic(fd, name, topic)
      PROVE  [Policy!Next]_(Policy!vars)
  BY <1>8, TopicAllowed
<1>9. ASSUME NEW name \in ChanNames, NEW n \in Nicks,
             handleKick(fd, name, n) \/ handleInvite(fd, n, name)
      PROVE  [Policy!Next]_(Policy!vars)
  BY <1>9, KickAllowed, InviteAllowed
<1>10. ASSUME NEW name \in ChanNames, NEW line \in ModeLines,
              handleMode(fd, name, line)
       PROVE  [Policy!Next]_(Policy!vars)
  BY <1>10, ModeAllowed
<1>11. QED
  BY <1>1, <1>2, <1>3, <1>4, <1>5, <1>6, <1>7, <1>8, <1>9, <1>10
  DEF dispatchCommand, handlePing, handleCap, handleUnknownCommand,
      RefusedCommand, handleTopicQuery

\* Every step maps to a step of the policy or to none.
LEMMA StepAllowed ==
  ASSUME IInv, [Next]_vars
  PROVE  [Policy!Next]_(Policy!vars)
<1>1. CASE UNCHANGED vars
  BY <1>1, Unseen DEF vars
<1>2. CASE applyChannelModeChange
  BY <1>2, ModeChangeAllowed
<1>3. ASSUME modeRun = Idle, NEW fd \in Fds, acceptClient(fd)
      PROVE  Policy!Next
  BY <1>3, AcceptAllowed
<1>4. ASSUME modeRun = Idle, NEW fd \in DOMAIN clients, removeClient(fd)
      PROVE  Policy!Next
  BY <1>4, RemoveAllowed
<1>5. ASSUME modeRun = Idle, NEW fd \in DOMAIN clients, dispatchCommand(fd)
      PROVE  [Policy!Next]_(Policy!vars)
  BY <1>5, DispatchAllowed
<1>6. QED
  BY <1>1, <1>2, <1>3, <1>4, <1>5 DEF Next

\* The server implements the access policy: rights kept under nicknames, and
\* found through _nicknameIndex, behave like rights of connections.
THEOREM PolicyImplemented == Spec => PolicyKept
<1>1. Init => Policy!Init
  BY InitAllowed
<1>2. IInv /\ [Next]_vars => [Policy!Next]_(Policy!vars)
  BY StepAllowed
<1>3. QED
  BY <1>1, <1>2, Invariance, PTL DEF Spec, PolicyKept, Policy!Spec
=============================================================================
