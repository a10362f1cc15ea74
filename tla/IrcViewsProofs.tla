--------------------------- MODULE IrcViewsProofs ---------------------------
(***************************************************************************)
(* ViewsConsistent of IrcServer, for every value of the constants: what a  *)
(* client learns from its lines is what the server's maps say.             *)
(*                                                                         *)
(* Given the inductive invariant IInv of IrcServerProofs, ViewsConsistent  *)
(* is inductive.  A step stores some client and channel maps and queues    *)
(* lines; EmitShows reduces it to one fact about each recipient: the line  *)
(* turns the pictures it had of its channels into the pictures of the new  *)
(* maps.  That fact rests on SameNick: on a channel a spelling is about at *)
(* most one member, because the nickname index is exact.                   *)
(***************************************************************************)
EXTENDS IrcServerProofs

\* The nicknames of the clients in S, and what a member sees of a channel.
NicksOf(cl, S) == {cl[x].nickname : x \in S}

Picture(cl, ch) ==
  [names |-> NicksOf(cl, ch.members), ops |-> NicksOf(cl, ch.operators),
   topic |-> ch.topic]

PictureSet == [names : SUBSET Nicks, ops : SUBSET Nicks,
               topic : Topics \cup {NoTopic}]

On(chs, fd) == {k \in DOMAIN chs : fd \in chs[k].members}
Pictures(cl, chs, fd) == [k \in On(chs, fd) |-> Picture(cl, chs[k])]
Shown(cl, chs, fd) == [synced |-> TRUE, chans |-> Pictures(cl, chs, fd)]

\* What a NICK line makes of one picture.
Renamed(p, old, new) ==
  [p EXCEPT !.names = Rename(@, old, new), !.ops = Rename(@, old, new)]

\* The inductive invariant.
VInv == IInv /\ ViewsConsistent

-----------------------------------------------------------------------------
(* Nicknames and pictures *)

\* ViewsConsistent, with the maps as parameters.
LEMMA ViewIs ==
  ASSUME ViewsConsistent, NEW fd \in DOMAIN clients,
         ~clients[fd].disconnectRequested
  PROVE  view[fd] = Shown(clients, channels, fd)
BY DEF ViewsConsistent, Shown, Pictures, On, Picture, NicksOf, ChannelsOf, Actual

\* The clients of a channel have nicknames, and no two of them the same one.
LEMMA Named ==
  ASSUME IInv, NEW k \in DOMAIN channels
  PROVE  /\ channels[k] \in Channel
         /\ channels[k].operators \subseteq channels[k].members
         /\ channels[k].members \subseteq DOMAIN clients
         /\ \A x \in channels[k].members :
              clients[x].registered /\ clients[x].nickname \in Nicks
<1>1. ChannelSound(clients, nicknameIndex, k, channels[k])
  BY DEF IInv, Sound, ChannelsSound
<1>2. \A x \in DOMAIN clients :
        clients[x] \in Client /\ (clients[x].registered => clients[x].nickname # NoNick)
  BY DEF IInv, Sound, ClientMap, RegistrationSound
<1>3. QED
  BY <1>1, <1>2 DEF ChannelSound, Client

\* Nicknames that fold alike belong to one client.
LEMMA OneHolder ==
  ASSUME IInv, NEW x \in DOMAIN clients, NEW y \in DOMAIN clients,
         clients[x].nickname # NoNick, clients[y].nickname # NoNick,
         Fold[clients[x].nickname] = Fold[clients[y].nickname]
  PROVE  x = y
BY DEF IInv, Sound, IndexSound

\* A spelling of a client's nickname is about that client and nobody else.
LEMMA SameNick ==
  ASSUME IInv, NEW S \in SUBSET DOMAIN clients,
         \A x \in S : clients[x].nickname # NoNick,
         NEW t \in DOMAIN clients, clients[t].nickname # NoNick,
         NEW n, Fold[n] = Fold[clients[t].nickname]
  PROVE  /\ Same(NicksOf(clients, S), n) =
              IF t \in S THEN {clients[t].nickname} ELSE {}
         /\ NicksOf(clients, S) \ Same(NicksOf(clients, S), n) =
              NicksOf(clients, S \ {t})
<1>1. \A x \in S : Fold[clients[x].nickname] = Fold[n] => x = t
  BY OneHolder
<1>2. Same(NicksOf(clients, S), n) = IF t \in S THEN {clients[t].nickname} ELSE {}
  BY <1>1 DEF Same, NicksOf
<1>3. ASSUME NEW x \in S, x # t
      PROVE  clients[x].nickname # clients[t].nickname
  BY <1>1, <1>3
<1>4. NicksOf(clients, S) \ Same(NicksOf(clients, S), n) = NicksOf(clients, S \ {t})
  BY <1>2, <1>3 DEF NicksOf
<1>5. QED
  BY <1>2, <1>4

\* A picture of a sound channel is a record of nicknames and a topic.
LEMMA PictureTyped ==
  ASSUME NEW cl, NEW ch, ch.operators \subseteq ch.members,
         ch.topic \in Topics \cup {NoTopic},
         \A x \in ch.members : cl[x].nickname \in Nicks
  PROVE  /\ Picture(cl, ch) \in PictureSet
         /\ Picture(cl, ch).names = NicksOf(cl, ch.members)
         /\ Picture(cl, ch).ops = NicksOf(cl, ch.operators)
         /\ Picture(cl, ch).topic = ch.topic
BY DEF Picture, PictureSet, NicksOf

\* Pictures with equal parts are equal.
LEMMA SamePicture ==
  ASSUME NEW p \in PictureSet, NEW q \in PictureSet,
         p.names = q.names, p.ops = q.ops, p.topic = q.topic
  PROVE  p = q
BY DEF PictureSet

\* The nicknames in a set depend on the nicknames of its elements only.
LEMMA SameNicks ==
  ASSUME NEW cl, NEW cl2, NEW S, \A x \in S : cl2[x].nickname = cl[x].nickname
  PROVE  NicksOf(cl2, S) = NicksOf(cl, S)
BY DEF NicksOf

\* What a client sees depends on the members, operators, topics and nicknames of
\* its own channels only.
LEMMA SameShown ==
  ASSUME NEW cl, NEW cl2, NEW chs, NEW chs2, NEW fd,
         On(chs2, fd) = On(chs, fd),
         \A k \in On(chs, fd) : /\ chs2[k].members = chs[k].members
                                /\ chs2[k].operators = chs[k].operators
                                /\ chs2[k].topic = chs[k].topic
                                /\ chs[k].operators \subseteq chs[k].members
                                /\ \A x \in chs[k].members :
                                     cl2[x].nickname = cl[x].nickname
  PROVE  Shown(cl2, chs2, fd) = Shown(cl, chs, fd)
<1>1. ASSUME NEW k \in On(chs, fd)
      PROVE  Picture(cl2, chs2[k]) = Picture(cl, chs[k])
  <2>1. /\ NicksOf(cl2, chs[k].members) = NicksOf(cl, chs[k].members)
        /\ NicksOf(cl2, chs[k].operators) = NicksOf(cl, chs[k].operators)
    BY SameNicks
  <2>2. QED
    BY <2>1 DEF Picture
<1>2. Pictures(cl2, chs2, fd) = Pictures(cl, chs, fd)
  BY <1>1 DEF Pictures
<1>3. QED
  BY <1>2 DEF Shown

-----------------------------------------------------------------------------
(* The lines *)

\* A step whose lines leave every client with the pictures of the new maps.
LEMMA EmitShows ==
  ASSUME NEW cl, NEW out, Sound(cl, nicknameIndex', channels'), Emit(cl, out),
         \A fd \in DOMAIN cl : ~cl[fd].disconnectRequested =>
           /\ fd \in DOMAIN out =>
                ClientApply(view[fd], cl[fd].nickname, out[fd]) =
                  Shown(cl, channels', fd)
           /\ fd \notin DOMAIN out => view[fd] = Shown(cl, channels', fd)
  PROVE  ViewsConsistent'
<1>1. PICK full \in SUBSET (DOMAIN out \cap SlowReaders) :
        /\ clients' = queueLine(cl, full)
        /\ view' = [fd \in DOMAIN cl |->
                      IF cl[fd].disconnectRequested \/ fd \in full THEN BlankView
                      ELSE IF fd \in DOMAIN out
                           THEN ClientApply(view[fd], cl[fd].nickname, out[fd])
                           ELSE view[fd]]
  BY DEF Emit
<1>2. ClientMap(cl)
  BY DEF Sound
<1>3. SameIdentities(cl, clients')
  BY <1>2, EmitKeepsIdentities
<1>4. ASSUME NEW fd \in DOMAIN cl, ~clients'[fd].disconnectRequested
      PROVE  ~cl[fd].disconnectRequested /\ fd \notin full
  BY <1>1, <1>2, <1>4 DEF queueLine, ClientMap, Client
<1>5. ASSUME NEW fd \in DOMAIN cl, ~clients'[fd].disconnectRequested
      PROVE  view'[fd] = Shown(cl, channels', fd)
  BY <1>1, <1>4, <1>5
<1>6. ASSUME NEW fd \in DOMAIN cl
      PROVE  Shown(clients', channels', fd) = Shown(cl, channels', fd)
  <2>1. ASSUME NEW k \in On(channels', fd)
        PROVE  /\ channels'[k].operators \subseteq channels'[k].members
               /\ \A x \in channels'[k].members :
                    clients'[x].nickname = cl[x].nickname
    BY <1>3 DEF Sound, ChannelsSound, ChannelSound, SameIdentities, On
  <2>2. QED
    BY <2>1, SameShown
<1>7. DOMAIN clients' = DOMAIN cl
  BY <1>3 DEF SameIdentities
<1>8. ASSUME NEW fd \in DOMAIN clients', ~clients'[fd].disconnectRequested
      PROVE  view'[fd] = Shown(clients', channels', fd)
  BY <1>5, <1>6, <1>7, <1>8
<1>9. QED
  BY <1>8
  DEF ViewsConsistent, Shown, Pictures, On, Picture, NicksOf, ChannelsOf, Actual

\* A line that makes sense to a client in sync is applied.
LEMMA Applying ==
  ASSUME NEW c, NEW self, NEW m, NEW v, v = [synced |-> TRUE, chans |-> c],
         Sensible(v, self, m)
  PROVE  ClientApply(v, self, m) = [synced |-> TRUE, chans |-> Applied(c, self, m)]
<1>1. ClientApply(v, self, m) = [v EXCEPT !.chans = Applied(c, self, m)]
  BY DEF ClientApply
<1>2. QED
  BY <1>1

\* Numerics, PONG, PRIVMSG, INVITE and the modes i, t, k, l teach nothing.
LEMMA OtherApplied ==
  ASSUME NEW c, NEW self, NEW v, v = [synced |-> TRUE, chans |-> c]
  PROVE  ClientApply(v, self, Other) = v
<1>1. Sensible(v, self, Other) /\ Applied(c, self, Other) = c
  BY DEF Sensible, Applied, Other
<1>2. QED
  BY <1>1, Applying, ZenonT(30)

\* A client on channel k with a member named n.
LEMMA KickApplied ==
  ASSUME NEW c, NEW self, NEW v, v = [synced |-> TRUE, chans |-> c],
         NEW k \in DOMAIN c, NEW n, Same(c[k].names, n) # {}
  PROVE  ClientApply(v, self, [cmd |-> "KICK", chan |-> k, nick |-> n]) =
           [synced |-> TRUE,
            chans |-> IF Fold[n] = Fold[self] THEN Without(c, {k})
                      ELSE [c EXCEPT ![k] = Drop(c[k], n)]]
<1> DEFINE m == [cmd |-> "KICK", chan |-> k, nick |-> n]
<1>1. m.cmd = "KICK" /\ m.chan = k /\ m.nick = n
  OBVIOUS
<1> HIDE DEF m
<1>2. Sensible(v, self, m)
  BY <1>1 DEF Sensible
<1>3. Applied(c, self, m) = IF Fold[n] = Fold[self] THEN Without(c, {k})
                            ELSE [c EXCEPT ![k] = Drop(c[k], n)]
  BY <1>1 DEF Applied
<1>4. ClientApply(v, self, m) = [synced |-> TRUE, chans |-> Applied(c, self, m)]
  BY <1>2, Applying
<1>5. QED
  BY <1>3, <1>4 DEF m

\* A client on a channel with a member named n.
LEMMA QuitApplied ==
  ASSUME NEW c, NEW self, NEW v, v = [synced |-> TRUE, chans |-> c],
         NEW k \in DOMAIN c, NEW n, Same(c[k].names, n) # {}
  PROVE  ClientApply(v, self, [cmd |-> "QUIT", nick |-> n]) =
           [synced |-> TRUE, chans |-> [x \in DOMAIN c |-> Drop(c[x], n)]]
<1> DEFINE m == [cmd |-> "QUIT", nick |-> n]
<1>1. m.cmd = "QUIT" /\ m.nick = n
  OBVIOUS
<1> HIDE DEF m
<1>2. Sensible(v, self, m)
  BY <1>1 DEF Sensible
<1>3. Applied(c, self, m) = [x \in DOMAIN c |-> Drop(c[x], n)]
  BY <1>1 DEF Applied
<1>4. ClientApply(v, self, m) = [synced |-> TRUE, chans |-> Applied(c, self, m)]
  BY <1>2, Applying
<1>5. QED
  BY <1>3, <1>4 DEF m

\* The client itself, or one on a channel with a member named old.
LEMMA NickApplied ==
  ASSUME NEW c, NEW self, NEW v, v = [synced |-> TRUE, chans |-> c],
         NEW old, NEW new,
         new = self \/ \E k \in DOMAIN c : Same(c[k].names, old) # {}
  PROVE  ClientApply(v, self, [cmd |-> "NICK", nick |-> old, new |-> new]) =
           [synced |-> TRUE,
            chans |-> [k \in DOMAIN c |-> Renamed(c[k], old, new)]]
<1> DEFINE m == [cmd |-> "NICK", nick |-> old, new |-> new]
<1>1. m.cmd = "NICK" /\ m.nick = old /\ m.new = new
  OBVIOUS
<1> HIDE DEF m
<1>2. Sensible(v, self, m)
  BY <1>1 DEF Sensible
<1>3. Applied(c, self, m) = [k \in DOMAIN c |-> Renamed(c[k], old, new)]
  BY <1>1 DEF Applied, Renamed
<1>4. ClientApply(v, self, m) = [synced |-> TRUE, chans |-> Applied(c, self, m)]
  BY <1>2, Applying
<1>5. QED
  BY <1>3, <1>4 DEF m

\* A member of channel k is told of somebody new.
LEMMA JoinApplied ==
  ASSUME NEW c, NEW self, NEW v, v = [synced |-> TRUE, chans |-> c],
         NEW k \in DOMAIN c, NEW n, Same(c[k].names, n) = {}
  PROVE  ClientApply(v, self, [cmd |-> "JOIN", chan |-> k, nick |-> n]) =
           [synced |-> TRUE, chans |-> [c EXCEPT ![k].names = @ \cup {n}]]
<1> DEFINE m == [cmd |-> "JOIN", chan |-> k, nick |-> n]
<1>1. m.cmd = "JOIN" /\ m.chan = k /\ m.nick = n
  OBVIOUS
<1> HIDE DEF m
<1>2. Sensible(v, self, m)
  BY <1>1 DEF Sensible
<1>3. Applied(c, self, m) = [c EXCEPT ![k].names = @ \cup {n}]
  BY <1>1 DEF Applied
<1>4. ClientApply(v, self, m) = [synced |-> TRUE, chans |-> Applied(c, self, m)]
  BY <1>2, Applying
<1>5. QED
  BY <1>3, <1>4 DEF m

\* The client that joins gets the topic and the names.
LEMMA JoinedApplied ==
  ASSUME NEW c, NEW self, NEW v, v = [synced |-> TRUE, chans |-> c],
         NEW k, k \notin DOMAIN c, NEW names, NEW ops, NEW topic
  PROVE  ClientApply(v, self, [cmd |-> "JOINED", chan |-> k, topic |-> topic,
                               names |-> names, ops |-> ops]) =
           [synced |-> TRUE,
            chans |-> With(c, k, [names |-> names, ops |-> ops, topic |-> topic])]
<1> DEFINE m == [cmd |-> "JOINED", chan |-> k, topic |-> topic,
                 names |-> names, ops |-> ops]
<1>1. /\ m.cmd = "JOINED" /\ m.chan = k
      /\ m.topic = topic /\ m.names = names /\ m.ops = ops
  OBVIOUS
<1> HIDE DEF m
<1>2. Sensible(v, self, m)
  BY <1>1 DEF Sensible
<1>3. Applied(c, self, m) =
        With(c, k, [names |-> names, ops |-> ops, topic |-> topic])
  BY <1>1 DEF Applied
<1>4. ClientApply(v, self, m) = [synced |-> TRUE, chans |-> Applied(c, self, m)]
  BY <1>2, Applying
<1>5. QED
  BY <1>3, <1>4 DEF m

\* A member of channel k is told of a change of operator.
LEMMA ModeApplies ==
  ASSUME NEW c, NEW self, NEW v, v = [synced |-> TRUE, chans |-> c],
         NEW k \in DOMAIN c, NEW n, NEW adding, Same(c[k].names, n) # {}
  PROVE  ClientApply(v, self, [cmd |-> "MODE", chan |-> k, adding |-> adding,
                               nick |-> n]) =
           [synced |-> TRUE,
            chans |-> [c EXCEPT ![k].ops = IF adding THEN @ \cup Same(c[k].names, n)
                                           ELSE @ \ Same(@, n)]]
<1> DEFINE m == [cmd |-> "MODE", chan |-> k, adding |-> adding, nick |-> n]
<1>1. m.cmd = "MODE" /\ m.chan = k /\ m.nick = n /\ m.adding = adding
  OBVIOUS
<1> HIDE DEF m
<1>2. Sensible(v, self, m)
  BY <1>1 DEF Sensible
<1>3. Applied(c, self, m) =
        [c EXCEPT ![k].ops = IF adding THEN @ \cup Same(c[k].names, n)
                             ELSE @ \ Same(@, n)]
  BY <1>1 DEF Applied
<1>4. ClientApply(v, self, m) = [synced |-> TRUE, chans |-> Applied(c, self, m)]
  BY <1>2, Applying
<1>5. QED
  BY <1>3, <1>4 DEF m

\* A member of channel k is told of its topic.
LEMMA TopicApplied ==
  ASSUME NEW c, NEW self, NEW v, v = [synced |-> TRUE, chans |-> c],
         NEW k \in DOMAIN c, NEW topic
  PROVE  ClientApply(v, self, [cmd |-> "TOPIC", chan |-> k, topic |-> topic]) =
           [synced |-> TRUE, chans |-> [c EXCEPT ![k].topic = topic]]
<1> DEFINE m == [cmd |-> "TOPIC", chan |-> k, topic |-> topic]
<1>1. m.cmd = "TOPIC" /\ m.chan = k /\ m.topic = topic
  OBVIOUS
<1> HIDE DEF m
<1>2. Sensible(v, self, m)
  BY <1>1 DEF Sensible
<1>3. Applied(c, self, m) = [c EXCEPT ![k].topic = topic]
  BY <1>1 DEF Applied
<1>4. ClientApply(v, self, m) = [synced |-> TRUE, chans |-> Applied(c, self, m)]
  BY <1>2, Applying
<1>5. QED
  BY <1>3, <1>4 DEF m

-----------------------------------------------------------------------------
(* Two kinds of step *)

\* A step that changes nothing a member sees, and sends nothing about channels.
LEMMA QuietStep ==
  ASSUME VInv, NEW cl, NEW out, Sound(cl, nicknameIndex', channels'), Emit(cl, out),
         DOMAIN cl = DOMAIN clients,
         \A x \in DOMAIN clients :
           /\ clients[x].disconnectRequested => cl[x].disconnectRequested
           /\ clients[x].registered => cl[x].nickname = clients[x].nickname,
         DOMAIN channels' = DOMAIN channels,
         \A k \in DOMAIN channels :
           /\ channels'[k].members = channels[k].members
           /\ channels'[k].operators = channels[k].operators
           /\ channels'[k].topic = channels[k].topic,
         \A x \in DOMAIN out : out[x] = Other
  PROVE  ViewsConsistent'
<1>1. ASSUME NEW fd \in DOMAIN cl
      PROVE  Shown(cl, channels', fd) = Shown(clients, channels, fd)
  <2>1. On(channels', fd) = On(channels, fd)
    BY DEF On
  <2>2. ASSUME NEW k \in On(channels, fd)
        PROVE  /\ channels[k].operators \subseteq channels[k].members
               /\ \A x \in channels[k].members : cl[x].nickname = clients[x].nickname
    BY Named DEF VInv, On
  <2>3. \A k \in On(channels, fd) : k \in DOMAIN channels
    BY DEF On
  <2>4. QED
    BY <2>1, <2>2, <2>3, SameShown
<1>2. ASSUME NEW fd \in DOMAIN cl, ~cl[fd].disconnectRequested
      PROVE  /\ view[fd] = Shown(cl, channels', fd)
             /\ fd \in DOMAIN out =>
                  ClientApply(view[fd], cl[fd].nickname, out[fd]) = view[fd]
  <2>1. view[fd] = Shown(clients, channels, fd)
    BY <1>2, ViewIs DEF VInv
  <2>2. ClientApply(view[fd], cl[fd].nickname, Other) = view[fd]
    BY <2>1, OtherApplied DEF Shown
  <2>3. QED
    BY <1>1, <2>1, <2>2
<1>3. QED
  BY <1>2, EmitShows

\* A step that changes channel k, and tells whoever is or was on it.
LEMMA ChannelStep ==
  ASSUME VInv, NEW k, NEW out, Sound(clients, nicknameIndex', channels'),
         Emit(clients, out),
         DOMAIN channels' \cup {k} = DOMAIN channels \cup {k},
         \A x \in DOMAIN channels \ {k} : channels'[x] = channels[x],
         \A fd \in DOMAIN clients \ DOMAIN out :
           k \notin On(channels, fd) /\ k \notin On(channels', fd),
         \A fd \in DOMAIN clients \cap DOMAIN out :
           ClientApply(Shown(clients, channels, fd), clients[fd].nickname, out[fd]) =
             Shown(clients, channels', fd)
  PROVE  ViewsConsistent'
<1>1. ASSUME NEW fd \in DOMAIN clients \ DOMAIN out
      PROVE  Shown(clients, channels', fd) = Shown(clients, channels, fd)
  <2>1. \A x \in On(channels, fd) : x \in DOMAIN channels \ {k}
    BY DEF On
  <2>2. \A x \in On(channels', fd) : x \in DOMAIN channels \ {k}
    BY DEF On
  <2>3. On(channels', fd) = On(channels, fd)
    <3>1. On(channels, fd) \subseteq On(channels', fd)
      BY <2>1 DEF On
    <3>2. On(channels', fd) \subseteq On(channels, fd)
      BY <2>2 DEF On
    <3>3. QED
      BY <3>1, <3>2
  <2>4. \A x \in On(channels, fd) : channels[x].operators \subseteq channels[x].members
    BY <2>1, Named DEF VInv
  <2>5. QED
    BY <2>1, <2>3, <2>4, SameShown
<1>2. ASSUME NEW fd \in DOMAIN clients, ~clients[fd].disconnectRequested
      PROVE  /\ fd \in DOMAIN out =>
                  ClientApply(view[fd], clients[fd].nickname, out[fd]) =
                    Shown(clients, channels', fd)
             /\ fd \notin DOMAIN out => view[fd] = Shown(clients, channels', fd)
  <2>1. view[fd] = Shown(clients, channels, fd)
    BY <1>2, ViewIs DEF VInv
  <2>2. QED
    BY <1>1, <2>1
<1>3. QED
  BY <1>2, EmitShows

\* A client on k sees the new picture of k and the old ones of its others.
LEMMA StoredPictures ==
  ASSUME NEW cl, NEW chs, NEW k \in DOMAIN chs, NEW chs2, NEW fd,
         DOMAIN chs2 = DOMAIN chs,
         \A x \in DOMAIN chs \ {k} : chs2[x] = chs[x],
         fd \in chs[k].members, fd \in chs2[k].members
  PROVE  Pictures(cl, chs2, fd) =
           [Pictures(cl, chs, fd) EXCEPT ![k] = Picture(cl, chs2[k])]
<1>1. On(chs2, fd) = On(chs, fd) /\ k \in On(chs, fd)
  BY DEF On
<1>2. \A x \in On(chs, fd) : x \in DOMAIN chs
  BY DEF On
<1>3. QED
  BY <1>1, <1>2 DEF Pictures

-----------------------------------------------------------------------------
(* Steps that nobody sees *)

\* Lines that teach nothing, the maps untouched: PING, CAP, PRIVMSG, unknown and
\* refused commands, every early return, and a refused mode change.
LEMMA OtherLinesShow ==
  ASSUME VInv, NEW out, Emit(clients, out), \A x \in DOMAIN out : out[x] = Other,
         UNCHANGED <<nicknameIndex, channels>>
  PROVE  ViewsConsistent'
<1>1. Sound(clients, nicknameIndex', channels')
  BY DEF VInv, IInv
<1>2. QED
  BY <1>1, QuietStep

\* sendNumeric
LEMMA AnswerShows ==
  ASSUME VInv, NEW fd, sendNumeric(fd)
  PROVE  ViewsConsistent'
<1> DEFINE out == [x \in {fd} |-> Other]
<1>1. Emit(clients, out) /\ UNCHANGED <<nicknameIndex, channels>>
  BY DEF sendNumeric
<1>2. \A x \in DOMAIN out : out[x] = Other
  OBVIOUS
<1> HIDE DEF out
<1>3. QED
  BY <1>1, <1>2, OtherLinesShow

\* A step that leaves the maps and the views alone.
LEMMA StutterShows ==
  ASSUME ViewsConsistent, UNCHANGED <<clients, channels, view>>
  PROVE  ViewsConsistent'
BY DEF ViewsConsistent, ChannelsOf, Actual

\* PASS, USER and the first NICK: an unregistered client is on no channel.
LEMMA ProgressShows ==
  ASSUME VInv, NEW fd \in DOMAIN clients, NEW c \in Client,
         ~clients[fd].registered,
         c.disconnectRequested = clients[fd].disconnectRequested,
         Progress(fd, c),
         Sound([clients EXCEPT ![fd] = tryCompleteRegistration(c)],
               nicknameIndex', channels'),
         DOMAIN channels' = DOMAIN channels,
         \A k \in DOMAIN channels :
           /\ channels'[k].members = channels[k].members
           /\ channels'[k].operators = channels[k].operators
           /\ channels'[k].topic = channels[k].topic
  PROVE  ViewsConsistent'
<1> DEFINE done == tryCompleteRegistration(c)
           cl == [clients EXCEPT ![fd] = done]
           out == [x \in (IF done.registered THEN {fd} ELSE {}) |-> Other]
<1>1. done.disconnectRequested = c.disconnectRequested
  BY DEF tryCompleteRegistration, Client
<1>2. Emit(cl, out)
  BY DEF Progress
<1>3. \A x \in DOMAIN out : out[x] = Other
  OBVIOUS
<1>4. Sound(cl, nicknameIndex', channels')
  OBVIOUS
<1> HIDE DEF done, out
<1>5. DOMAIN cl = DOMAIN clients
  OBVIOUS
<1>6. \A x \in DOMAIN clients :
        /\ clients[x].disconnectRequested => cl[x].disconnectRequested
        /\ clients[x].registered => cl[x].nickname = clients[x].nickname
  BY <1>1
<1> HIDE DEF cl
<1>7. QED
  BY <1>2, <1>3, <1>4, <1>5, <1>6, QuietStep

\* handlePass
LEMMA PassShows ==
  ASSUME VInv, NEW fd \in DOMAIN clients, NEW correct, handlePass(fd, correct)
  PROVE  ViewsConsistent'
<1>1. CASE Registered(fd) \/ ~correct
  BY <1>1, AnswerShows DEF handlePass
<1>2. CASE ~(Registered(fd) \/ ~correct)
  <2> DEFINE c == [clients[fd] EXCEPT !.passwordAccepted = TRUE]
  <2>1. clients[fd] \in Client /\ ~clients[fd].registered
    BY <1>2 DEF VInv, IInv, Sound, ClientMap, Registered
  <2>2. /\ c \in Client
        /\ c.nickname = clients[fd].nickname /\ ~c.registered
        /\ c.disconnectRequested = clients[fd].disconnectRequested
    BY <2>1 DEF Client
  <2>3. Progress(fd, c) /\ UNCHANGED <<nicknameIndex, channels>>
    BY <1>2 DEF handlePass
  <2> HIDE DEF c
  <2>4. Sound([clients EXCEPT ![fd] = tryCompleteRegistration(c)],
              nicknameIndex, channels)
    BY <2>1, <2>2, ProgressKeepsSound DEF VInv, IInv
  <2>5. QED
    BY <2>1, <2>2, <2>3, <2>4, ProgressShows
<1>3. QED
  BY <1>1, <1>2

\* handleUser
LEMMA UserShows ==
  ASSUME VInv, NEW fd \in DOMAIN clients, handleUser(fd)
  PROVE  ViewsConsistent'
<1>1. CASE Registered(fd)
  BY <1>1, AnswerShows DEF handleUser
<1>2. CASE ~Registered(fd)
  <2> DEFINE c == [clients[fd] EXCEPT !.hasUser = TRUE]
  <2>1. clients[fd] \in Client /\ ~clients[fd].registered
    BY <1>2 DEF VInv, IInv, Sound, ClientMap, Registered
  <2>2. /\ c \in Client
        /\ c.nickname = clients[fd].nickname /\ ~c.registered
        /\ c.disconnectRequested = clients[fd].disconnectRequested
    BY <2>1 DEF Client
  <2>3. Progress(fd, c) /\ UNCHANGED <<nicknameIndex, channels>>
    BY <1>2 DEF handleUser
  <2> HIDE DEF c
  <2>4. Sound([clients EXCEPT ![fd] = tryCompleteRegistration(c)],
              nicknameIndex, channels)
    BY <2>1, <2>2, ProgressKeepsSound DEF VInv, IInv
  <2>5. QED
    BY <2>1, <2>2, <2>3, <2>4, ProgressShows
<1>3. QED
  BY <1>1, <1>2

\* handlePrivmsg
LEMMA PrivmsgShows ==
  ASSUME VInv, NEW fd, NEW target, handlePrivmsg(fd, target)
  PROVE  ViewsConsistent'
<1>1. CASE PrivmsgRefused(fd, target)
  BY <1>1, AnswerShows DEF handlePrivmsg
<1>2. CASE ~PrivmsgRefused(fd, target)
  <2> DEFINE out == [x \in PrivmsgRecipients(fd, target) |-> Other]
  <2>1. Emit(clients, out) /\ UNCHANGED <<nicknameIndex, channels>>
    BY <1>2 DEF handlePrivmsg
  <2>2. \A x \in DOMAIN out : out[x] = Other
    OBVIOUS
  <2> HIDE DEF out
  <2>3. QED
    BY <2>1, <2>2, OtherLinesShow
<1>3. QED
  BY <1>1, <1>2

\* handleInvite
LEMMA InviteShows ==
  ASSUME VInv, NEW fd, NEW n \in Nicks, NEW name, handleInvite(fd, n, name)
  PROVE  ViewsConsistent'
<1> DEFINE k == Fold[name]
           chs == [channels EXCEPT ![k].invitedUsers = @ \cup {Fold[n]}]
           out == [x \in {fd} \cup InviteTargets(fd, k, n) |-> Other]
<1>1. CASE InviteTargets(fd, k, n) = {}
  BY <1>1, AnswerShows DEF handleInvite
<1>2. CASE InviteTargets(fd, k, n) # {}
  <2>1. channels' = chs /\ Emit(clients, out) /\ UNCHANGED nicknameIndex
    BY <1>2 DEF handleInvite
  <2>2. k \in DOMAIN channels
    BY <1>2 DEF InviteTargets, IsOperator
  <2>3. \A x \in DOMAIN out : out[x] = Other
    OBVIOUS
  <2> HIDE DEF k, out
  <2>4. Sound(clients, nicknameIndex, chs)
    BY <1>2, <2>2, InviteKeepsSound DEF VInv, IInv
  <2>5. DOMAIN chs = DOMAIN channels
    OBVIOUS
  <2>6. ASSUME NEW x \in DOMAIN channels
        PROVE  /\ chs[x].members = channels[x].members
               /\ chs[x].operators = channels[x].operators
               /\ chs[x].topic = channels[x].topic
    <3>1. channels[x] \in Channel
      BY Named DEF VInv
    <3>2. QED
      BY <3>1 DEF Channel
  <2> HIDE DEF chs
  <2>7. QED
    BY <2>1, <2>3, <2>4, <2>5, <2>6, QuietStep
<1>3. QED
  BY <1>1, <1>2

\* handleMode only starts the list of changes.
LEMMA ModeShows ==
  ASSUME VInv, NEW fd, NEW name, NEW line, handleMode(fd, name, line)
  PROVE  ViewsConsistent'
<1>1. CASE Registered(fd) /\ IsOperator(fd, Fold[name])
  BY <1>1, StutterShows DEF handleMode, VInv
<1>2. CASE ~(Registered(fd) /\ IsOperator(fd, Fold[name]))
  BY <1>2, AnswerShows DEF handleMode
<1>3. QED
  BY <1>1, <1>2

\* handleQuit marks a client; whoever remains sees what it saw.
LEMMA QuitShows ==
  ASSUME VInv, NEW fd \in DOMAIN clients, handleQuit(fd)
  PROVE  ViewsConsistent'
<1>1. ClientMap(clients) /\ DOMAIN view = DOMAIN clients
  BY DEF VInv, IInv, Sound
<1>2. /\ DOMAIN clients' = DOMAIN clients
      /\ clients'[fd].disconnectRequested
      /\ \A x \in DOMAIN clients : /\ clients'[x].nickname = clients[x].nickname
                                   /\ x # fd => clients'[x] = clients[x]
  BY <1>1 DEF handleQuit, ClientMap, Client
<1>3. channels' = channels /\ \A x \in DOMAIN clients : x # fd => view'[x] = view[x]
  BY <1>1 DEF handleQuit
<1>4. ASSUME NEW x \in DOMAIN clients', ~clients'[x].disconnectRequested
      PROVE  view'[x] = Shown(clients', channels', x)
  <2>1. x # fd /\ x \in DOMAIN clients /\ ~clients[x].disconnectRequested
    BY <1>2, <1>4
  <2>2. view'[x] = Shown(clients, channels, x)
    BY <1>3, <2>1, ViewIs DEF VInv
  <2>3. ASSUME NEW k \in On(channels, x)
        PROVE  /\ channels[k].operators \subseteq channels[k].members
               /\ \A y \in channels[k].members :
                    clients'[y].nickname = clients[y].nickname
    BY <1>2, Named DEF VInv, On
  <2>4. Shown(clients', channels, x) = Shown(clients, channels, x)
    BY <2>3, SameShown
  <2>5. QED
    BY <1>3, <2>2, <2>4
<1>5. QED
  BY <1>4
  DEF ViewsConsistent, Shown, Pictures, On, Picture, NicksOf, ChannelsOf, Actual

\* acceptClient: the new client is on no channel and knows of none.
LEMMA AcceptShows ==
  ASSUME VInv, NEW fd \in Fds, acceptClient(fd)
  PROVE  ViewsConsistent'
<1>1. DOMAIN view = DOMAIN clients
  BY DEF VInv, IInv
<1>2. /\ DOMAIN clients' = DOMAIN clients \cup {fd} /\ fd \notin DOMAIN clients
      /\ channels' = channels
      /\ \A x \in DOMAIN clients : clients'[x] = clients[x] /\ view'[x] = view[x]
      /\ view'[fd] = BlankView
  BY <1>1 DEF acceptClient, With
<1>3. ASSUME NEW x \in DOMAIN clients
      PROVE  Shown(clients', channels', x) = Shown(clients, channels, x)
  <2>1. ASSUME NEW k \in On(channels, x)
        PROVE  /\ channels[k].operators \subseteq channels[k].members
               /\ \A y \in channels[k].members :
                    clients'[y].nickname = clients[y].nickname
    BY <1>2, Named DEF VInv, On
  <2>2. QED
    BY <1>2, <2>1, SameShown
<1>4. Shown(clients', channels', fd) = BlankView
  <2>1. \A k \in DOMAIN channels : fd \notin channels[k].members
    BY <1>2, Named DEF VInv
  <2>2. On(channels', fd) = {}
    BY <1>2, <2>1 DEF On
  <2>3. Pictures(clients', channels', fd) = EmptyMap
    BY <2>2 DEF Pictures, EmptyMap
  <2>4. QED
    BY <2>3 DEF Shown, BlankView
<1>5. ASSUME NEW x \in DOMAIN clients', ~clients'[x].disconnectRequested
      PROVE  view'[x] = Shown(clients', channels', x)
  <2>1. CASE x = fd
    BY <1>2, <1>4, <2>1
  <2>2. CASE x # fd
    <3>1. x \in DOMAIN clients /\ ~clients[x].disconnectRequested
      BY <1>2, <1>5, <2>2
    <3>2. view[x] = Shown(clients, channels, x)
      BY <3>1, ViewIs DEF VInv
    <3>3. QED
      BY <1>2, <1>3, <3>1, <3>2
  <2>3. QED
    BY <2>1, <2>2
<1>6. QED
  BY <1>5
  DEF ViewsConsistent, Shown, Pictures, On, Picture, NicksOf, ChannelsOf, Actual

-----------------------------------------------------------------------------
(* Steps that the members of one channel are told of *)

\* The client a nickname finds has that nickname, in some spelling.
LEMMA Found ==
  ASSUME IInv, NEW n, NEW t \in findClientByNickname(n)
  PROVE  /\ t \in DOMAIN clients
         /\ clients[t].nickname # NoNick
         /\ Fold[clients[t].nickname] = Fold[n]
         /\ findClientByNickname(n) = {t}
BY DEF findClientByNickname, IInv, Sound, IndexSound

\* TOPIC and MODE: the members stay and all of them are told.
LEMMA MembersTold ==
  ASSUME VInv, NEW k \in DOMAIN channels, NEW ch,
         ch.members = channels[k].members,
         Sound(clients, nicknameIndex', channels'),
         channels' = [channels EXCEPT ![k] = ch],
         NEW line, Emit(clients, [fd \in ch.members |-> line]),
         \A fd \in ch.members :
           ClientApply(Shown(clients, channels, fd), clients[fd].nickname, line) =
             [synced |-> TRUE,
              chans |-> [Pictures(clients, channels, fd) EXCEPT
                           ![k] = Picture(clients, ch)]]
  PROVE  ViewsConsistent'
<1> DEFINE out == [fd \in ch.members |-> line]
<1>1. DOMAIN out = ch.members /\ \A fd \in ch.members : out[fd] = line
  OBVIOUS
<1>2. Emit(clients, out)
  OBVIOUS
<1> HIDE DEF out
<1>3. /\ DOMAIN channels' = DOMAIN channels
      /\ channels'[k] = ch
      /\ \A x \in DOMAIN channels \ {k} : channels'[x] = channels[x]
  OBVIOUS
<1>4. \A fd \in DOMAIN clients \ DOMAIN out :
        k \notin On(channels, fd) /\ k \notin On(channels', fd)
  BY <1>1, <1>3 DEF On
<1>5. ASSUME NEW fd \in DOMAIN clients \cap DOMAIN out
      PROVE  ClientApply(Shown(clients, channels, fd), clients[fd].nickname, out[fd]) =
               Shown(clients, channels', fd)
  <2>1. fd \in ch.members /\ fd \in channels[k].members /\ out[fd] = line
    BY <1>1
  <2>2. Pictures(clients, channels', fd) =
          [Pictures(clients, channels, fd) EXCEPT ![k] = Picture(clients, channels'[k])]
    BY ONLY k \in DOMAIN channels, <1>3, <2>1, StoredPictures
  <2>3. Shown(clients, channels', fd) =
          [synced |-> TRUE,
           chans |-> [Pictures(clients, channels, fd) EXCEPT ![k] = Picture(clients, ch)]]
    BY <1>3, <2>2 DEF Shown
  <2>4. QED
    BY <2>1, <2>3
<1>6. QED
  BY <1>2, <1>3, <1>4, <1>5, ChannelStep

\* handleTopic
LEMMA TopicShows ==
  ASSUME VInv, NEW fd \in DOMAIN clients, NEW name,
         NEW topic \in Topics \cup {NoTopic}, handleTopic(fd, name, topic)
  PROVE  ViewsConsistent'
<1> DEFINE k == Fold[name]
           old == channels[k]
           ch == [old EXCEPT !.topic = topic]
           line == [cmd |-> "TOPIC", chan |-> k, topic |-> topic]
<1>1. CASE ~MaySetTopic(fd, k)
  BY <1>1, AnswerShows DEF handleTopic
<1>2. CASE MaySetTopic(fd, k)
  <2>1. /\ channels' = [channels EXCEPT ![k] = ch]
        /\ Emit(clients, [x \in old.members |-> line])
        /\ UNCHANGED nicknameIndex
    BY <1>2 DEF handleTopic, broadcastToChannel
  <2>2. k \in DOMAIN channels
    BY <1>2 DEF MaySetTopic, IsMember
  <2>3. /\ old \in Channel /\ old.operators \subseteq old.members
        /\ \A x \in old.members : clients[x].nickname \in Nicks
    BY <2>2, Named DEF VInv
  <2> HIDE DEF k, old
  <2>4. /\ ch \in Channel
        /\ ch.name = old.name
        /\ ch.members = old.members
        /\ ch.operators = old.operators
        /\ ch.invitedUsers = old.invitedUsers
        /\ ch.topic = topic
    BY <2>3 DEF Channel
  <2> HIDE DEF ch
  <2>5. Sound(clients, nicknameIndex, [channels EXCEPT ![k] = ch])
    BY <2>2, <2>3, <2>4, SettingsKeepSound DEF VInv, IInv, old
  <2>6. ASSUME NEW x \in ch.members
        PROVE  ClientApply(Shown(clients, channels, x), clients[x].nickname, line) =
                 [synced |-> TRUE,
                  chans |-> [Pictures(clients, channels, x) EXCEPT
                               ![k] = Picture(clients, ch)]]
    <3> DEFINE c == Pictures(clients, channels, x)
               p == Picture(clients, old)
    <3>1. k \in DOMAIN c /\ c[k] = p
      BY <2>2, <2>4 DEF Pictures, On, old
    <3>2. Shown(clients, channels, x) = [synced |-> TRUE, chans |-> c]
      BY DEF Shown
    <3>3. /\ p \in PictureSet /\ p.names = NicksOf(clients, old.members)
          /\ p.ops = NicksOf(clients, old.operators)
      BY <2>3, PictureTyped DEF Channel
    <3>4. /\ Picture(clients, ch) \in PictureSet
          /\ Picture(clients, ch).names = NicksOf(clients, old.members)
          /\ Picture(clients, ch).ops = NicksOf(clients, old.operators)
          /\ Picture(clients, ch).topic = topic
      BY <2>3, <2>4, PictureTyped
    <3> HIDE DEF c, p
    <3>5. [p EXCEPT !.topic = topic] = Picture(clients, ch)
      <4>1. /\ [p EXCEPT !.topic = topic] \in PictureSet
            /\ [p EXCEPT !.topic = topic].names = p.names
            /\ [p EXCEPT !.topic = topic].ops = p.ops
            /\ [p EXCEPT !.topic = topic].topic = topic
        BY <3>3 DEF PictureSet
      <4>2. QED
        BY <3>3, <3>4, <4>1, SamePicture
    <3>6. ClientApply(Shown(clients, channels, x), clients[x].nickname, line) =
            [synced |-> TRUE, chans |-> [c EXCEPT ![k].topic = topic]]
      BY <3>1, <3>2, TopicApplied
    <3>7. [c EXCEPT ![k].topic = topic] = [c EXCEPT ![k] = Picture(clients, ch)]
      BY <3>1, <3>5
    <3>8. QED
      BY <3>6, <3>7 DEF c
  <2> HIDE DEF line
  <2>7. QED
    BY <2>1, <2>2, <2>4, <2>5, <2>6, MembersTold DEF old
<1>3. QED
  BY <1>1, <1>2

\* applyChannelModeChange: a change of operator is told to the members, the other
\* changes alter nothing that a picture shows.
LEMMA ModeChangeShows ==
  ASSUME VInv, applyChannelModeChange
  PROVE  ViewsConsistent'
<1> DEFINE k == modeRun.chan
           ch == channels[k]
           m == Head(modeRun.changes)
           new == ModeApplied(ch, m)
<1>1. modeRun # Idle /\ nicknameIndex' = nicknameIndex
  BY DEF applyChannelModeChange
<1>2. modeRun \in ModeRun /\ modeRun.changes # <<>> /\ k \in DOMAIN channels
  BY <1>1 DEF VInv, IInv, ModeSound
<1>3. m \in ModeChange
  BY <1>2, MoreChanges DEF ModeRun
<1>4. /\ ch \in Channel /\ ch.operators \subseteq ch.members
      /\ ch.members \subseteq DOMAIN clients
      /\ \A x \in ch.members : clients[x].nickname \in Nicks
  BY <1>2, Named DEF VInv
<1> HIDE DEF m
<1>5. CASE ModeRefused(ch, m)
  <2> DEFINE out == [x \in {modeRun.fd} |-> Other]
  <2>1. Emit(clients, out) /\ channels' = channels
    BY <1>5 DEF applyChannelModeChange, m
  <2>2. \A x \in DOMAIN out : out[x] = Other
    OBVIOUS
  <2> HIDE DEF out
  <2>3. QED
    BY <1>1, <2>1, <2>2, OtherLinesShow
<1>6. CASE ~ModeRefused(ch, m) /\ new = ch
  <2>1. UNCHANGED <<clients, channels, view>>
    BY <1>6 DEF applyChannelModeChange, m
  <2>2. QED
    BY <2>1, StutterShows DEF VInv
<1>7. CASE ~ModeRefused(ch, m) /\ new # ch
  <2>1. /\ channels' = [channels EXCEPT ![k] = new]
        /\ Emit(clients, broadcastModeChange(k, new, m))
    BY <1>7 DEF applyChannelModeChange, m
  <2>2. /\ new \in Channel
        /\ new.name = ch.name
        /\ new.members = ch.members
        /\ new.operators \subseteq ch.members
        /\ new.invitedUsers = ch.invitedUsers
        /\ new.topic = ch.topic
    BY <1>3, <1>4, <1>7, ModeAppliedSettings
  <2>3. m.mode # "o" => new.operators = ch.operators
    BY <1>4 DEF ModeApplied, applyInviteOnlyMode, applyTopicRestrictedMode,
                applyKeyMode, applyUserLimitMode, Channel
  <2>4. m.mode = "o" => new.operators = IF m.adding
                                        THEN ch.operators \cup findClientByNickname(m.arg)
                                        ELSE ch.operators \ findClientByNickname(m.arg)
    BY <1>4 DEF ModeApplied, applyOperatorMode, Channel
  <2> HIDE DEF new
  <2>5. Sound(clients, nicknameIndex', channels')
    <3>1. Sound(clients, nicknameIndex, [channels EXCEPT ![k] = new])
      BY <1>2, <2>2, SettingsKeepSound DEF VInv, IInv
    <3>2. QED
      BY <1>1, <2>1, <3>1
  <2>6. CASE m.mode # "o"
    <3> DEFINE out == broadcastModeChange(k, new, m)
    <3>1. \A x \in DOMAIN out : out[x] = Other
      BY <2>6 DEF broadcastModeChange, broadcastToChannel
    <3> HIDE DEF out
    <3>2. /\ DOMAIN channels' = DOMAIN channels
          /\ \A x \in DOMAIN channels :
               /\ channels'[x].members = channels[x].members
               /\ channels'[x].operators = channels[x].operators
               /\ channels'[x].topic = channels[x].topic
      BY <1>2, <2>1, <2>2, <2>3, <2>6
    <3>3. Emit(clients, out)
      BY <2>1 DEF out
    <3>4. QED
      BY <2>5, <3>1, <3>2, <3>3, QuietStep
  <2>7. CASE m.mode = "o"
    <3> DEFINE n == m.arg
               line == [cmd |-> "MODE", chan |-> k, adding |-> m.adding, nick |-> n]
    <3>1. Emit(clients, [x \in new.members |-> line])
      BY <2>1, <2>7 DEF broadcastModeChange, broadcastToChannel
    <3>2. PICK t \in findClientByNickname(n) : t \in ch.members
      BY <1>7, <2>7 DEF ModeRefused
    <3>3. /\ t \in DOMAIN clients /\ clients[t].nickname # NoNick
          /\ Fold[clients[t].nickname] = Fold[n]
          /\ findClientByNickname(n) = {t}
      BY Found DEF VInv
    <3>4. /\ Same(NicksOf(clients, ch.members), n) = {clients[t].nickname}
          /\ NicksOf(clients, ch.operators) \ Same(NicksOf(clients, ch.operators), n) =
               NicksOf(clients, ch.operators \ {t})
      <4>1. \A x \in ch.members : clients[x].nickname # NoNick
        BY <1>4, NameAssumption
      <4>2. Same(NicksOf(clients, ch.members), n) = {clients[t].nickname}
        <5>1. Same(NicksOf(clients, ch.members), n) =
                IF t \in ch.members THEN {clients[t].nickname} ELSE {}
          BY <1>4, <3>3, <4>1, SameNick DEF VInv
        <5>2. QED
          BY <3>2, <5>1
      <4>3. NicksOf(clients, ch.operators) \ Same(NicksOf(clients, ch.operators), n) =
              NicksOf(clients, ch.operators \ {t})
        <5>1. /\ ch.operators \in SUBSET DOMAIN clients
              /\ \A x \in ch.operators : clients[x].nickname # NoNick
          BY <1>4, <4>1
        <5>2. QED
          BY <3>3, <5>1, SameNick DEF VInv
      <4>4. QED
        BY <4>2, <4>3
    <3>5. NicksOf(clients, ch.operators \cup {t}) =
            NicksOf(clients, ch.operators) \cup {clients[t].nickname}
      BY DEF NicksOf
    <3>6. ASSUME NEW x \in new.members
          PROVE  ClientApply(Shown(clients, channels, x), clients[x].nickname, line) =
                   [synced |-> TRUE,
                    chans |-> [Pictures(clients, channels, x) EXCEPT
                                 ![k] = Picture(clients, new)]]
      <4> DEFINE c == Pictures(clients, channels, x)
                 p == Picture(clients, ch)
                 ops == IF m.adding THEN p.ops \cup Same(p.names, n)
                        ELSE p.ops \ Same(p.ops, n)
      <4>1. k \in DOMAIN c /\ c[k] = p
        BY <1>2, <2>2 DEF Pictures, On
      <4>2. Shown(clients, channels, x) = [synced |-> TRUE, chans |-> c]
        BY DEF Shown
      <4>3. /\ p \in PictureSet /\ p.names = NicksOf(clients, ch.members)
            /\ p.ops = NicksOf(clients, ch.operators) /\ p.topic = ch.topic
        BY <1>4, PictureTyped DEF Channel
      <4>4. /\ Picture(clients, new) \in PictureSet
            /\ Picture(clients, new).names = NicksOf(clients, ch.members)
            /\ Picture(clients, new).ops = NicksOf(clients, new.operators)
            /\ Picture(clients, new).topic = ch.topic
        BY <1>4, <2>2, PictureTyped DEF Channel
      <4>5. ops = NicksOf(clients, new.operators)
        BY <2>4, <2>7, <3>3, <3>4, <3>5, <4>3
      <4> HIDE DEF c, p, ops
      <4>6. [p EXCEPT !.ops = ops] = Picture(clients, new)
        <5> DEFINE q == [p EXCEPT !.ops = ops]
                   r == Picture(clients, new)
        <5>1. ops \subseteq Nicks
          BY <4>4, <4>5 DEF PictureSet
        <5>2. q \in PictureSet /\ q.names = p.names /\ q.ops = ops /\ q.topic = p.topic
          BY <4>3, <5>1 DEF PictureSet
        <5>3. r \in PictureSet /\ r.names = p.names /\ r.ops = ops /\ r.topic = p.topic
          BY <4>3, <4>4, <4>5
        <5> HIDE DEF q, r
        <5>4. q = r
          BY <5>2, <5>3, SamePicture
        <5>5. QED
          BY <5>4 DEF q, r
      <4>7. Same(c[k].names, n) # {}
        BY <3>4, <4>1, <4>3
      <4>8. ClientApply(Shown(clients, channels, x), clients[x].nickname, line) =
              [synced |-> TRUE,
               chans |-> [c EXCEPT ![k].ops = IF m.adding THEN @ \cup Same(c[k].names, n)
                                              ELSE @ \ Same(@, n)]]
        BY <4>1, <4>2, <4>7, ModeApplies, SMTT(30)
      <4>9. [c EXCEPT ![k].ops = IF m.adding THEN @ \cup Same(c[k].names, n)
                                 ELSE @ \ Same(@, n)] =
              [c EXCEPT ![k] = [p EXCEPT !.ops = ops]]
        BY <4>1 DEF ops
      <4>10. QED
        BY <4>6, <4>8, <4>9 DEF c
    <3> HIDE DEF line
    <3>7. QED
      BY <1>2, <2>1, <2>2, <2>5, <3>1, <3>6, MembersTold
  <2>8. QED
    BY <2>6, <2>7
<1>8. QED
  BY <1>5, <1>6, <1>7

\* handleJoin: the members are told of the joiner, the joiner of everything.
LEMMA JoinShows ==
  ASSUME VInv, NEW fd \in DOMAIN clients, NEW name \in ChanNames, NEW key,
         handleJoin(fd, name, key)
  PROVE  ViewsConsistent'
<1> DEFINE k == Fold[name]
           ch == IF k \in DOMAIN channels THEN Joined(fd, channels[k])
                                          ELSE NewChannel(name, fd)
           refused == k \in DOMAIN channels /\ ~Admitted(fd, channels[k], key)
           nick == clients[fd].nickname
           out == JoinLines(fd, k, ch)
<1>1. CASE ~Registered(fd)
  BY <1>1, AnswerShows DEF handleJoin
<1>2. CASE Registered(fd) /\ IsMember(fd, k)
  BY <1>2, StutterShows DEF handleJoin, vars, VInv
<1>3. CASE Registered(fd) /\ ~IsMember(fd, k) /\ refused
  BY <1>3, AnswerShows DEF handleJoin
<1>4. CASE Registered(fd) /\ ~IsMember(fd, k) /\ ~refused
  <2>1. /\ channels' = With(channels, k, ch)
        /\ Emit(clients, out)
        /\ UNCHANGED nicknameIndex
    BY <1>4 DEF handleJoin
  <2>2. /\ clients[fd] \in Client /\ nick # NoNick /\ nick \in Nicks
        /\ ChannelSound(clients, nicknameIndex, k, ch) /\ k \in ChanIds
    <3>1. ChannelSound(clients, nicknameIndex, k, ch)
      BY <1>4, JoinKeepsSound, NameAssumption DEF VInv, IInv, Registered
    <3>2. clients[fd] \in Client /\ nick # NoNick
      BY <1>4 DEF VInv, IInv, Sound, ClientMap, RegistrationSound, Registered
    <3>3. QED
      BY <3>1, <3>2 DEF Client, ChanIds
  <2>3. /\ fd \in ch.members
        /\ k \notin DOMAIN channels => ch.members = {fd}
        /\ k \in DOMAIN channels =>
             /\ ch.members = channels[k].members \cup {fd}
             /\ fd \notin channels[k].members
             /\ ch.operators = channels[k].operators
             /\ ch.topic = channels[k].topic
    <3>1. CASE k \in DOMAIN channels
      <4>1. channels[k] \in Channel
        BY <3>1, Named DEF VInv
      <4>2. QED
        BY <1>4, <3>1, <4>1 DEF Joined, Channel, IsMember
    <3>2. CASE k \notin DOMAIN channels
      BY <3>2 DEF NewChannel
    <3>3. QED
      BY <3>1, <3>2
  <2>4. /\ DOMAIN out = ch.members
        /\ out[fd] = [cmd |-> "JOINED", chan |-> k, topic |-> ch.topic,
                      names |-> NicksOf(clients, ch.members),
                      ops |-> NicksOf(clients, ch.operators)]
        /\ \A x \in ch.members \ {fd} :
             out[x] = [cmd |-> "JOIN", chan |-> k, nick |-> nick]
    BY <2>3 DEF JoinLines, NicksOf
  <2> HIDE DEF k, ch, out
  <2>5. Sound(clients, nicknameIndex', channels')
    BY <2>1, <2>2, StoreChannel DEF VInv, IInv
  <2>6. /\ DOMAIN channels' = DOMAIN channels \cup {k}
        /\ channels'[k] = ch
        /\ \A x \in DOMAIN channels \ {k} : channels'[x] = channels[x]
    BY <2>1 DEF With
  <2>7. \A x \in DOMAIN clients \ DOMAIN out :
          k \notin On(channels, x) /\ k \notin On(channels', x)
    BY <2>3, <2>4, <2>6 DEF On
  <2>8. ClientApply(Shown(clients, channels, fd), nick, out[fd]) =
          Shown(clients, channels', fd)
    <3> DEFINE c == Pictures(clients, channels, fd)
    <3>1. On(channels', fd) = On(channels, fd) \cup {k} /\ k \notin On(channels, fd)
      BY <2>3, <2>6 DEF On
    <3>2. \A x \in On(channels, fd) : x \in DOMAIN channels \ {k}
      BY <3>1 DEF On
    <3>3. Pictures(clients, channels', fd) = With(c, k, Picture(clients, ch))
      BY <2>6, <3>1, <3>2 DEF Pictures, With
    <3>4. k \notin DOMAIN c
      BY <3>1 DEF Pictures
    <3>5. Shown(clients, channels, fd) = [synced |-> TRUE, chans |-> c]
      BY DEF Shown
    <3> HIDE DEF c
    <3>6. ClientApply(Shown(clients, channels, fd), nick, out[fd]) =
            [synced |-> TRUE, chans |-> With(c, k, Picture(clients, ch))]
      BY <2>4, <3>4, <3>5, JoinedApplied DEF Picture
    <3>7. QED
      BY <3>3, <3>6 DEF Shown
  <2>9. ASSUME NEW x \in ch.members \ {fd}
        PROVE  ClientApply(Shown(clients, channels, x), clients[x].nickname, out[x]) =
                 Shown(clients, channels', x)
    <3> DEFINE c == Pictures(clients, channels, x)
               old == channels[k]
               p == Picture(clients, old)
    <3>1. k \in DOMAIN channels /\ x \in old.members
      BY <2>3
    <3>2. /\ old \in Channel /\ old.operators \subseteq old.members
          /\ old.members \subseteq DOMAIN clients
          /\ \A y \in old.members : clients[y].nickname \in Nicks
      BY <3>1, Named DEF VInv
    <3>3. k \in DOMAIN c /\ c[k] = p
      BY <3>1 DEF Pictures, On
    <3>4. Shown(clients, channels, x) = [synced |-> TRUE, chans |-> c]
      BY DEF Shown
    <3>5. /\ p \in PictureSet /\ p.names = NicksOf(clients, old.members)
          /\ p.ops = NicksOf(clients, old.operators) /\ p.topic = old.topic
      BY <3>2, PictureTyped DEF Channel
    <3>6. /\ Picture(clients, ch) \in PictureSet
          /\ Picture(clients, ch).names = NicksOf(clients, ch.members)
          /\ Picture(clients, ch).ops = NicksOf(clients, old.operators)
          /\ Picture(clients, ch).topic = old.topic
      BY <2>2, <2>3, <3>1, <3>2, PictureTyped DEF Channel
    <3>7. NicksOf(clients, ch.members) = NicksOf(clients, old.members) \cup {nick}
      BY <2>3, <3>1 DEF NicksOf
    <3>8. Same(p.names, nick) = {}
      <4>1. \A y \in old.members : clients[y].nickname # NoNick
        BY <3>2, NameAssumption
      <4>2. fd \notin old.members
        BY <2>3, <3>1
      <4>3. QED
        BY <2>2, <3>2, <3>5, <4>1, <4>2, SameNick DEF VInv
    <3> HIDE DEF c, p, old
    <3>9. [p EXCEPT !.names = p.names \cup {nick}] = Picture(clients, ch)
      <4> DEFINE q == [p EXCEPT !.names = p.names \cup {nick}]
                 r == Picture(clients, ch)
      <4>1. /\ q \in PictureSet /\ q.names = p.names \cup {nick}
            /\ q.ops = p.ops /\ q.topic = p.topic
        BY <2>2, <3>5 DEF PictureSet
      <4>2. /\ r \in PictureSet /\ r.names = p.names \cup {nick}
            /\ r.ops = p.ops /\ r.topic = p.topic
        BY <3>5, <3>6, <3>7
      <4> HIDE DEF q, r
      <4>3. q = r
        BY <4>1, <4>2, SamePicture
      <4>4. QED
        BY <4>3 DEF q, r
    <3>10. ClientApply(Shown(clients, channels, x), clients[x].nickname, out[x]) =
             [synced |-> TRUE, chans |-> [c EXCEPT ![k].names = @ \cup {nick}]]
      BY <2>4, <3>3, <3>4, <3>8, JoinApplied
    <3>11. [c EXCEPT ![k].names = @ \cup {nick}] = [c EXCEPT ![k] = Picture(clients, ch)]
      BY <3>3, <3>9
    <3>12. Pictures(clients, channels', x) =
             [c EXCEPT ![k] = Picture(clients, channels'[k])]
      <4>1. DOMAIN channels' = DOMAIN channels /\ x \in channels'[k].members
        BY <2>6, <3>1
      <4>2. x \in channels[k].members
        BY <3>1 DEF old
      <4>3. \A y \in DOMAIN channels \ {k} : channels'[y] = channels[y]
        BY <2>6
      <4>4. k \in DOMAIN channels
        BY <3>1
      <4>5. Pictures(clients, channels', x) =
              [Pictures(clients, channels, x) EXCEPT
                 ![k] = Picture(clients, channels'[k])]
        BY ONLY <4>1, <4>2, <4>3, <4>4, StoredPictures, SMTT(30)
      <4>6. QED
        BY <4>5 DEF c
    <3>13. QED
      BY <2>6, <3>10, <3>11, <3>12 DEF Shown
  <2>10. \A x \in DOMAIN clients \cap DOMAIN out :
           ClientApply(Shown(clients, channels, x), clients[x].nickname, out[x]) =
             Shown(clients, channels', x)
    BY <2>4, <2>8, <2>9
  <2>11. QED
    BY <2>1, <2>5, <2>6, <2>7, <2>10, ChannelStep
<1>5. QED
  BY <1>1, <1>2, <1>3, <1>4

\* A line that a member left turns the picture of its channel into the new one.
LEMMA DroppedPicture ==
  ASSUME IInv, NEW old, NEW ch,
         old.operators \subseteq old.members,
         old.members \subseteq DOMAIN clients,
         old.topic \in Topics \cup {NoTopic},
         \A x \in old.members : clients[x].nickname \in Nicks,
         NEW t \in DOMAIN clients, clients[t].nickname # NoNick,
         NEW n, Fold[n] = Fold[clients[t].nickname],
         ch.members = old.members \ {t}, ch.operators = old.operators \ {t},
         ch.topic = old.topic
  PROVE  Drop(Picture(clients, old), n) = Picture(clients, ch)
<1> DEFINE p == Picture(clients, old)
           q == Drop(p, n)
           r == Picture(clients, ch)
<1>1. /\ p \in PictureSet /\ p.names = NicksOf(clients, old.members)
      /\ p.ops = NicksOf(clients, old.operators) /\ p.topic = old.topic
  BY PictureTyped
<1>2. /\ r \in PictureSet /\ r.names = NicksOf(clients, old.members \ {t})
      /\ r.ops = NicksOf(clients, old.operators \ {t}) /\ r.topic = old.topic
  <2>1. /\ ch.operators \subseteq ch.members /\ ch.topic \in Topics \cup {NoTopic}
        /\ \A x \in ch.members : clients[x].nickname \in Nicks
    OBVIOUS
  <2>2. /\ r \in PictureSet /\ r.names = NicksOf(clients, ch.members)
        /\ r.ops = NicksOf(clients, ch.operators) /\ r.topic = ch.topic
    BY <2>1, PictureTyped
  <2> HIDE DEF r
  <2>3. QED
    BY <2>2
<1>3. \A x \in old.members : clients[x].nickname # NoNick
  BY NameAssumption
<1>4. p.names \ Same(p.names, n) = NicksOf(clients, old.members \ {t})
  BY <1>1, <1>3, SameNick
<1>5. p.ops \ Same(p.ops, n) = NicksOf(clients, old.operators \ {t})
  <2>1. /\ old.operators \in SUBSET DOMAIN clients
        /\ \A x \in old.operators : clients[x].nickname # NoNick
    BY <1>3
  <2>2. QED
    BY <1>1, <2>1, SameNick
<1> HIDE DEF p, r
<1>6. /\ q \in PictureSet /\ q.names = p.names \ Same(p.names, n)
      /\ q.ops = p.ops \ Same(p.ops, n) /\ q.topic = p.topic
  BY <1>1 DEF PictureSet, Drop
<1> HIDE DEF q
<1>7. q = r
  BY <1>1, <1>2, <1>4, <1>5, <1>6, SamePicture, ZenonT(30)
<1>8. QED
  BY <1>7 DEF p, q, r

\* handleKick: the target forgets the channel, the others forget the target.
LEMMA KickShows ==
  ASSUME VInv, NEW fd \in DOMAIN clients, NEW name, NEW n, handleKick(fd, name, n)
  PROVE  ViewsConsistent'
<1> DEFINE k == Fold[name]
           old == channels[k]
           line == [cmd |-> "KICK", chan |-> k, nick |-> n]
           out == [x \in old.members |-> line]
<1>1. CASE KickTargets(fd, k, n) = {}
  BY <1>1, AnswerShows DEF handleKick
<1>2. CASE KickTargets(fd, k, n) # {}
  <2>1. PICK t \in KickTargets(fd, k, n) :
          /\ channels' = removeMemberFromChannel(k, t)
          /\ Emit(clients, out)
          /\ UNCHANGED nicknameIndex
    BY <1>2 DEF handleKick, broadcastToChannel
  <2>2. k \in DOMAIN channels /\ t \in old.members /\ t \in findClientByNickname(n)
    BY <1>2 DEF KickTargets, IsOperator
  <2> DEFINE ch == removeMember(old, t)
  <2>3. /\ old \in Channel /\ old.operators \subseteq old.members
        /\ old.members \subseteq DOMAIN clients
        /\ \A y \in old.members : clients[y].nickname \in Nicks
        /\ Fold[old.name] = k
    BY <2>2, Named DEF VInv, IInv, Sound, ChannelsSound, ChannelSound
  <2>4. /\ DOMAIN out = old.members
        /\ \A x \in old.members : out[x] = line
    OBVIOUS
  <2> HIDE DEF k, out
  <2>5. Sound(clients, nicknameIndex', channels')
    BY <2>1, <2>2, KickKeepsSound DEF VInv, IInv
  <2>6. channels' = IF ch.members # {} THEN [channels EXCEPT ![k] = ch]
                    ELSE Without(channels, {Fold[ch.name]})
    BY <2>1 DEF removeMemberFromChannel
  <2> HIDE DEF old
  <2>7. /\ ch \in Channel /\ ch.name = old.name
        /\ ch.members = old.members \ {t} /\ ch.operators = old.operators \ {t}
        /\ ch.topic = old.topic
    BY <2>3 DEF removeMember, Channel
  <2> HIDE DEF ch, line
  <2>8. /\ DOMAIN channels' \cup {k} = DOMAIN channels \cup {k}
        /\ \A x \in DOMAIN channels \ {k} : channels'[x] = channels[x]
        /\ ch.members # {} => DOMAIN channels' = DOMAIN channels /\ channels'[k] = ch
        /\ ch.members = {} => k \notin DOMAIN channels'
    <3>1. CASE ch.members # {}
      BY <2>2, <2>6, <3>1
    <3>2. CASE ch.members = {}
      <4>1. channels' = Without(channels, {k})
        BY <2>3, <2>6, <2>7, <3>2
      <4>2. QED
        BY <3>2, <4>1, <2>2 DEF Without
    <3>3. QED
      BY <3>1, <3>2
  <2>9. /\ t \in DOMAIN clients /\ clients[t].nickname # NoNick
        /\ Fold[clients[t].nickname] = Fold[n]
    BY <2>2, Found DEF VInv
  <2>10. \A y \in old.members : clients[y].nickname # NoNick
    BY <2>3, NameAssumption
  <2>11. \A x \in DOMAIN clients \ DOMAIN out :
           k \notin On(channels, x) /\ k \notin On(channels', x)
    <3>1. \A x \in DOMAIN clients \ DOMAIN out : x \notin old.members /\ x \notin ch.members
      BY <2>4, <2>7
    <3>2. QED
      BY <2>8, <3>1 DEF On, old
  <2>12. ASSUME NEW x \in old.members
         PROVE  LET c == Pictures(clients, channels, x)
                IN ClientApply(Shown(clients, channels, x), clients[x].nickname, line) =
                     [synced |-> TRUE,
                      chans |-> IF Fold[n] = Fold[clients[x].nickname] THEN Without(c, {k})
                                ELSE [c EXCEPT ![k] = Drop(c[k], n)]]
    <3> DEFINE c == Pictures(clients, channels, x)
    <3>1. k \in DOMAIN c /\ c[k] = Picture(clients, old)
      BY <2>2 DEF Pictures, On, old
    <3>2. Shown(clients, channels, x) = [synced |-> TRUE, chans |-> c]
      BY DEF Shown
    <3> HIDE DEF c
    <3>3. c[k].names = NicksOf(clients, old.members)
      BY <3>1 DEF Picture
    <3>4. Same(c[k].names, n) # {}
      <4> DEFINE S == old.members
      <4>1. /\ IInv /\ S \in SUBSET DOMAIN clients
            /\ \A y \in S : clients[y].nickname # NoNick
            /\ t \in DOMAIN clients /\ clients[t].nickname # NoNick
            /\ Fold[n] = Fold[clients[t].nickname]
        BY <2>3, <2>9, <2>10 DEF VInv
      <4> HIDE DEF S
      <4>2. Same(NicksOf(clients, S), n) = IF t \in S THEN {clients[t].nickname} ELSE {}
        BY ONLY <4>1, SameNick
      <4>3. QED
        BY <2>2, <3>3, <4>2 DEF S
    <3>5. ClientApply(Shown(clients, channels, x), clients[x].nickname, line) =
            [synced |-> TRUE,
             chans |-> IF Fold[n] = Fold[clients[x].nickname] THEN Without(c, {k})
                       ELSE [c EXCEPT ![k] = Drop(c[k], n)]]
      BY <3>1, <3>2, <3>4, KickApplied DEF line
    <3>6. QED
      BY <3>5 DEF c
  <2>13. ClientApply(Shown(clients, channels, t), clients[t].nickname, line) =
           Shown(clients, channels', t)
    <3> DEFINE c == Pictures(clients, channels, t)
    <3>1. On(channels', t) = On(channels, t) \ {k}
      <4>1. k \notin On(channels', t)
        BY <2>7, <2>8 DEF On
      <4>2. QED
        BY <2>8, <4>1 DEF On
    <3>2. \A x \in On(channels', t) : channels'[x] = channels[x]
      BY <2>8, <3>1 DEF On
    <3>3. Pictures(clients, channels', t) = Without(c, {k})
      BY <3>1, <3>2 DEF Pictures, Without
    <3>4. ClientApply(Shown(clients, channels, t), clients[t].nickname, line) =
            [synced |-> TRUE, chans |-> Without(c, {k})]
      BY <2>2, <2>9, <2>12
    <3> HIDE DEF c
    <3>5. QED
      BY <3>3, <3>4 DEF Shown
  <2>14. ASSUME NEW x \in old.members, x # t
         PROVE  ClientApply(Shown(clients, channels, x), clients[x].nickname, line) =
                  Shown(clients, channels', x)
    <3> DEFINE c == Pictures(clients, channels, x)
               p == Picture(clients, old)
    <3>1. k \in DOMAIN c /\ c[k] = p
      BY <2>2 DEF Pictures, On, old
    <3>2. Fold[n] # Fold[clients[x].nickname]
      BY <2>3, <2>9, <2>10, <2>14, OneHolder DEF VInv
    <3>3. ClientApply(Shown(clients, channels, x), clients[x].nickname, line) =
            [synced |-> TRUE, chans |-> [c EXCEPT ![k] = Drop(p, n)]]
      BY <2>12, <3>1, <3>2
    <3>4. Drop(p, n) = Picture(clients, ch)
      <4>1. /\ IInv /\ old.operators \subseteq old.members
            /\ old.members \subseteq DOMAIN clients
            /\ old.topic \in Topics \cup {NoTopic}
            /\ \A y \in old.members : clients[y].nickname \in Nicks
            /\ Fold[n] = Fold[clients[t].nickname]
        BY <2>3, <2>9 DEF VInv, Channel
      <4>2. QED
        BY ONLY <2>7, <2>9, <4>1, DroppedPicture
    <3>5. Pictures(clients, channels', x) =
            [Pictures(clients, channels, x) EXCEPT ![k] = Picture(clients, channels'[k])]
      <4>1. /\ x \in ch.members /\ x \in channels[k].members
            /\ DOMAIN channels' = DOMAIN channels /\ x \in channels'[k].members
        BY <2>7, <2>8, <2>14 DEF old
      <4>2. k \in DOMAIN channels
        BY <2>2
      <4>3. \A y \in DOMAIN channels \ {k} : channels'[y] = channels[y]
        BY <2>8
      <4>4. QED
        BY ONLY <4>1, <4>2, <4>3, StoredPictures
    <3>6. channels'[k] = ch
      BY <2>7, <2>8, <2>14
    <3> HIDE DEF c, p
    <3>7. Pictures(clients, channels', x) = [c EXCEPT ![k] = Picture(clients, ch)]
      BY <3>5, <3>6 DEF c
    <3>8. QED
      BY <3>3, <3>4, <3>7 DEF Shown
  <2>15. \A x \in DOMAIN clients \cap DOMAIN out :
           ClientApply(Shown(clients, channels, x), clients[x].nickname, out[x]) =
             Shown(clients, channels', x)
    BY <2>4, <2>13, <2>14
  <2>16. QED
    BY <2>1, <2>5, <2>8, <2>11, <2>15, ChannelStep
<1>3. QED
  BY <1>1, <1>2

-----------------------------------------------------------------------------
(* Steps about a client on several channels *)

\* A change of nickname, among the nicknames of a set of clients.
LEMMA RenamedNicks ==
  ASSUME IInv, NEW S \in SUBSET DOMAIN clients,
         \A x \in S : clients[x].nickname # NoNick,
         NEW fd \in DOMAIN clients, clients[fd].nickname # NoNick,
         NEW cl, NEW n, cl[fd].nickname = n,
         \A x \in DOMAIN clients \ {fd} : cl[x].nickname = clients[x].nickname
  PROVE  Rename(NicksOf(clients, S), clients[fd].nickname, n) = NicksOf(cl, S)
<1> DEFINE old == clients[fd].nickname
           N == NicksOf(clients, S)
<1>1. /\ Same(N, old) = IF fd \in S THEN {old} ELSE {}
      /\ N \ Same(N, old) = NicksOf(clients, S \ {fd})
  BY SameNick
<1>2. NicksOf(clients, S \ {fd}) = NicksOf(cl, S \ {fd})
  BY DEF NicksOf
<1> HIDE DEF N, old
<1>3. CASE fd \in S
  <2>1. Rename(N, old, n) = NicksOf(cl, S \ {fd}) \cup {n}
    BY <1>1, <1>2, <1>3 DEF Rename
  <2>2. NicksOf(cl, S) = NicksOf(cl, S \ {fd}) \cup {n}
    BY <1>3 DEF NicksOf
  <2>3. QED
    BY <2>1, <2>2 DEF N, old
<1>4. CASE fd \notin S
  <2>1. S \ {fd} = S
    BY <1>4
  <2>2. Rename(N, old, n) = N
    BY <1>1, <1>4 DEF Rename
  <2>3. QED
    BY <1>2, <2>1, <2>2 DEF N, old
<1>5. QED
  BY <1>3, <1>4

\* A NICK line turns the picture of a channel into the new one, whether or not
\* the client that changed its name is on it.
LEMMA RenamedPicture ==
  ASSUME IInv, NEW k \in DOMAIN channels,
         NEW fd \in DOMAIN clients, clients[fd].nickname # NoNick,
         NEW cl, NEW n \in Nicks, cl[fd].nickname = n,
         \A x \in DOMAIN clients \ {fd} : cl[x].nickname = clients[x].nickname,
         NEW ch, ch.members = channels[k].members,
         ch.operators = channels[k].operators, ch.topic = channels[k].topic
  PROVE  Renamed(Picture(clients, channels[k]), clients[fd].nickname, n) =
           Picture(cl, ch)
<1> DEFINE old == channels[k]
           nick == clients[fd].nickname
           p == Picture(clients, old)
           r == Picture(cl, ch)
           q == Renamed(p, nick, n)
<1>1. /\ old \in Channel /\ old.operators \subseteq old.members
      /\ old.members \subseteq DOMAIN clients
      /\ \A x \in old.members : clients[x].nickname \in Nicks
  BY Named
<1>2. \A x \in old.members : clients[x].nickname # NoNick
  BY <1>1, NameAssumption
<1>3. /\ p \in PictureSet /\ p.names = NicksOf(clients, old.members)
      /\ p.ops = NicksOf(clients, old.operators) /\ p.topic = old.topic
  BY <1>1, PictureTyped DEF Channel
<1>4. /\ r \in PictureSet /\ r.names = NicksOf(cl, old.members)
      /\ r.ops = NicksOf(cl, old.operators) /\ r.topic = old.topic
  <2>1. /\ ch.operators \subseteq ch.members /\ ch.topic \in Topics \cup {NoTopic}
        /\ \A x \in ch.members : cl[x].nickname \in Nicks
    BY <1>1 DEF Channel
  <2>2. /\ r \in PictureSet /\ r.names = NicksOf(cl, ch.members)
        /\ r.ops = NicksOf(cl, ch.operators) /\ r.topic = ch.topic
    BY <2>1, PictureTyped
  <2> HIDE DEF r
  <2>3. QED
    BY <2>2
<1>5. Rename(p.names, nick, n) = NicksOf(cl, old.members)
  BY <1>1, <1>2, <1>3, RenamedNicks
<1>6. Rename(p.ops, nick, n) = NicksOf(cl, old.operators)
  <2>1. /\ old.operators \in SUBSET DOMAIN clients
        /\ \A x \in old.operators : clients[x].nickname # NoNick
    BY <1>1, <1>2
  <2>2. QED
    BY <1>3, <2>1, RenamedNicks
<1> HIDE DEF p, r
<1>7. /\ Rename(p.names, nick, n) \subseteq Nicks
      /\ Rename(p.ops, nick, n) \subseteq Nicks
  BY <1>4, <1>5, <1>6 DEF PictureSet
<1>8. /\ q \in PictureSet /\ q.names = Rename(p.names, nick, n)
      /\ q.ops = Rename(p.ops, nick, n) /\ q.topic = p.topic
  BY <1>3, <1>7 DEF PictureSet, Renamed
<1> HIDE DEF q
<1>9. q = r
  BY <1>3, <1>4, <1>5, <1>6, <1>8, SamePicture
<1>10. QED
  BY <1>9 DEF p, q, r

\* NICK of a registered client: everybody who shares a channel with it is told.
LEMMA RenameShows ==
  ASSUME VInv, NEW fd \in DOMAIN clients, clients[fd].registered, NEW n \in Nicks,
         NEW c \in Client, c.nickname = n,
         c.disconnectRequested = clients[fd].disconnectRequested,
         NEW out, out = [x \in Peers(fd) \cup {fd} |->
                           [cmd |-> "NICK", nick |-> clients[fd].nickname, new |-> n]],
         Emit([clients EXCEPT ![fd] = c], out),
         Sound([clients EXCEPT ![fd] = c], nicknameIndex', channels'),
         DOMAIN channels' = DOMAIN channels,
         \A k \in DOMAIN channels :
           /\ channels'[k].members = channels[k].members
           /\ channels'[k].operators = channels[k].operators
           /\ channels'[k].topic = channels[k].topic
  PROVE  ViewsConsistent'
<1> DEFINE old == clients[fd].nickname
           cl == [clients EXCEPT ![fd] = c]
           line == [cmd |-> "NICK", nick |-> old, new |-> n]
<1>1. /\ DOMAIN cl = DOMAIN clients /\ cl[fd] = c
      /\ \A x \in DOMAIN clients \ {fd} : cl[x] = clients[x]
  OBVIOUS
<1>2. old # NoNick
  BY DEF VInv, IInv, Sound, RegistrationSound
<1>3. /\ Emit(cl, out) /\ Sound(cl, nicknameIndex', channels')
      /\ DOMAIN out = Peers(fd) \cup {fd}
      /\ \A x \in DOMAIN out : out[x] = line
  OBVIOUS
<1> HIDE DEF cl
<1>4. ASSUME NEW x
      PROVE  On(channels', x) = On(channels, x)
  BY DEF On
<1>5. ASSUME NEW x \in DOMAIN clients, x \in DOMAIN out
      PROVE  ClientApply(Shown(clients, channels, x), cl[x].nickname, line) =
               Shown(cl, channels', x)
  <2> DEFINE v == Pictures(clients, channels, x)
  <2>1. DOMAIN v = On(channels, x) /\ \A k \in On(channels, x) :
                                        v[k] = Picture(clients, channels[k])
    BY DEF Pictures
  <2>2. Shown(clients, channels, x) = [synced |-> TRUE, chans |-> v]
    BY DEF Shown
  <2> HIDE DEF v
  <2>3. n = cl[x].nickname \/ \E k \in DOMAIN v : Same(v[k].names, old) # {}
    <3>1. CASE x = fd
      BY <1>1, <3>1
    <3>2. CASE x # fd
      <4>1. PICK k \in DOMAIN channels :
              fd \in channels[k].members /\ x \in channels[k].members
        BY <1>3, <1>5, <3>2 DEF Peers, ChannelsOf
      <4>2. k \in DOMAIN v /\ v[k].names = NicksOf(clients, channels[k].members)
        <5>1. k \in On(channels, x)
          BY <4>1 DEF On
        <5>2. Picture(clients, channels[k]).names = NicksOf(clients, channels[k].members)
          BY DEF Picture
        <5>3. QED
          BY <2>1, <5>1, <5>2
      <4>3. old \in NicksOf(clients, channels[k].members)
        BY <4>1 DEF NicksOf
      <4>4. old \in Same(v[k].names, old)
        BY <4>2, <4>3 DEF Same
      <4>5. QED
        BY <4>2, <4>4
    <3>3. QED
      BY <3>1, <3>2
  <2> DEFINE w == [k \in DOMAIN v |-> Renamed(v[k], old, n)]
  <2>4. ClientApply(Shown(clients, channels, x), cl[x].nickname, line) =
          [synced |-> TRUE, chans |-> w]
    <3> DEFINE s == Shown(clients, channels, x)
               self == cl[x].nickname
               was == clients[fd].nickname
    <3>1. s = [synced |-> TRUE, chans |-> v]
      BY <2>2
    <3>2. n = self \/ \E k \in DOMAIN v : Same(v[k].names, was) # {}
      BY <2>3
    <3> HIDE DEF s, self, was
    <3>3. ClientApply(s, self, [cmd |-> "NICK", nick |-> was, new |-> n]) =
            [synced |-> TRUE, chans |-> [k \in DOMAIN v |-> Renamed(v[k], was, n)]]
      BY ONLY <3>1, <3>2, NickApplied
    <3>4. QED
      BY <3>3 DEF s, self, was
  <2>5. ASSUME NEW k \in On(channels, x)
        PROVE  Renamed(v[k], old, n) = Picture(cl, channels'[k])
    <3>1. k \in DOMAIN channels
      BY DEF On
    <3>2. /\ channels'[k].members = channels[k].members
          /\ channels'[k].operators = channels[k].operators
          /\ channels'[k].topic = channels[k].topic
      BY <3>1
    <3>3. /\ IInv /\ old # NoNick /\ cl[fd].nickname = n
          /\ \A y \in DOMAIN clients \ {fd} : cl[y].nickname = clients[y].nickname
      BY <1>1, <1>2 DEF VInv
    <3>4. Renamed(Picture(clients, channels[k]), old, n) = Picture(cl, channels'[k])
      BY <3>1, <3>2, <3>3, RenamedPicture
    <3>5. QED
      BY <2>1, <3>4
  <2>6. w = Pictures(cl, channels', x)
    BY <1>4, <2>1, <2>5 DEF Pictures
  <2> HIDE DEF w
  <2>7. QED
    BY <2>4, <2>6 DEF Shown
<1>6. ASSUME NEW x \in DOMAIN clients, x \notin DOMAIN out
      PROVE  Shown(cl, channels', x) = Shown(clients, channels, x)
  <2>1. ASSUME NEW k \in On(channels, x)
        PROVE  /\ k \in DOMAIN channels
               /\ channels[k].operators \subseteq channels[k].members
               /\ \A y \in channels[k].members : cl[y].nickname = clients[y].nickname
    <3>1. k \in DOMAIN channels /\ x \in channels[k].members
      BY DEF On
    <3>2. fd \notin channels[k].members
      BY <1>3, <1>6, <3>1 DEF Peers, ChannelsOf
    <3>3. QED
      BY <1>1, <3>1, <3>2, Named DEF VInv
  <2>2. QED
    BY <1>4, <2>1, SameShown
<1>7. ASSUME NEW x \in DOMAIN cl, ~cl[x].disconnectRequested
      PROVE  /\ x \in DOMAIN out =>
                  ClientApply(view[x], cl[x].nickname, out[x]) = Shown(cl, channels', x)
             /\ x \notin DOMAIN out => view[x] = Shown(cl, channels', x)
  <2>1. view[x] = Shown(clients, channels, x)
    BY <1>1, <1>7, ViewIs DEF VInv
  <2>2. QED
    BY <1>1, <1>3, <1>5, <1>6, <2>1
<1>8. QED
  BY <1>3, <1>7, EmitShows

\* handleNick
LEMMA NickShows ==
  ASSUME VInv, NEW fd \in DOMAIN clients, NEW n \in Nicks, handleNick(fd, n)
  PROVE  ViewsConsistent'
<1> DEFINE old == clients[fd].nickname
           renamed == [clients[fd] EXCEPT !.nickname = n]
           idx == With(DropNick(old), Fold[n], fd)
           chs == [k \in DOMAIN channels |->
                    [channels[k] EXCEPT !.invitedUsers = MoveInvite(@, old, n)]]
           lines == [x \in Peers(fd) \cup {fd} |->
                       [cmd |-> "NICK", nick |-> old, new |-> n]]
<1>1. CASE NickInUse(fd, n)
  BY <1>1, AnswerShows DEF handleNick
<1>2. CASE ~NickInUse(fd, n) /\ old = n
  BY <1>2, StutterShows DEF handleNick, vars, VInv
<1>3. CASE ~NickInUse(fd, n) /\ old # n
  <2>1. /\ nicknameIndex' = idx /\ channels' = chs
        /\ IF Registered(fd)
           THEN Emit([clients EXCEPT ![fd] = renamed], lines)
           ELSE Progress(fd, renamed)
    BY <1>3 DEF handleNick, NickRecipients
  <2>2. /\ clients[fd] \in Client
        /\ clients[fd].registered <=> /\ clients[fd].passwordAccepted
                                      /\ clients[fd].hasUser
                                      /\ clients[fd].nickname # NoNick
    BY DEF VInv, IInv, Sound, ClientMap, RegistrationSound
  <2>3. /\ renamed \in Client
        /\ renamed.nickname = n
        /\ renamed.registered = clients[fd].registered
        /\ renamed.passwordAccepted = clients[fd].passwordAccepted
        /\ renamed.hasUser = clients[fd].hasUser
        /\ renamed.disconnectRequested = clients[fd].disconnectRequested
    BY <2>2 DEF Client
  <2>4. /\ DOMAIN chs = DOMAIN channels
        /\ \A k \in DOMAIN channels : /\ chs[k].members = channels[k].members
                                      /\ chs[k].operators = channels[k].operators
                                      /\ chs[k].topic = channels[k].topic
    <3>1. \A k \in DOMAIN channels : channels[k] \in Channel
      BY Named DEF VInv
    <3>2. QED
      BY <3>1 DEF Channel
  <2> HIDE DEF renamed, idx, chs
  <2>5. ASSUME NEW c \in Client, c.nickname = n,
               clients[fd].registered => c.registered,
               c.registered <=> c.passwordAccepted /\ c.hasUser
        PROVE  Sound([clients EXCEPT ![fd] = c], idx, chs)
    BY <1>3, <2>5, RenameKeepsSound, NameAssumption DEF VInv, IInv, idx, chs
  <2>6. CASE Registered(fd)
    <3>1. Sound([clients EXCEPT ![fd] = renamed], nicknameIndex', channels')
      BY <2>1, <2>2, <2>3, <2>5, <2>6 DEF Registered
    <3>2. Emit([clients EXCEPT ![fd] = renamed], lines) /\ clients[fd].registered
      BY <2>1, <2>6 DEF Registered
    <3>3. QED
      BY <2>1, <2>3, <2>4, <3>1, <3>2, RenameShows
  <2>7. CASE ~Registered(fd)
    <3> DEFINE done == tryCompleteRegistration(renamed)
    <3>1. /\ done \in Client
          /\ done.nickname = n
          /\ done.registered <=> done.passwordAccepted /\ done.hasUser
      BY <2>3, <2>7, NameAssumption
      DEF tryCompleteRegistration, isRegistrationReady, Client, Registered
    <3> HIDE DEF done
    <3>2. Sound([clients EXCEPT ![fd] = done], nicknameIndex', channels')
      BY <2>1, <2>5, <2>7, <3>1 DEF Registered
    <3>3. Progress(fd, renamed) /\ ~clients[fd].registered
      BY <2>1, <2>7 DEF Registered
    <3>4. QED
      BY <2>1, <2>3, <2>4, <3>2, <3>3, ProgressShows DEF done
  <2>8. QED
    BY <2>6, <2>7
<1>4. QED
  BY <1>1, <1>2, <1>3

\* removeClient: everybody who shares a channel with a registered client is told,
\* once for all of its channels.
LEMMA RemoveShows ==
  ASSUME VInv, NEW fd \in DOMAIN clients, removeClient(fd)
  PROVE  ViewsConsistent'
<1> DEFINE nick == clients[fd].nickname
           cl == Without(clients, {fd})
           line == [cmd |-> "QUIT", nick |-> nick]
           out == [x \in QuitRecipients(fd) |-> line]
           left == [k \in DOMAIN channels |->
                     [removeMember(channels[k], fd) EXCEPT !.invitedUsers =
                        IF nick = NoNick THEN @ ELSE @ \ {Fold[nick]}]]
<1>1. /\ channels' = ChannelsWithout(fd, nick)
      /\ nicknameIndex' = IndexWithout(fd, nick)
      /\ Emit(cl, out)
  BY DEF removeClient
<1>2. Sound(cl, nicknameIndex', channels')
  BY <1>1, RemoveKeepsSound DEF VInv, IInv
<1>3. /\ DOMAIN cl = DOMAIN clients \ {fd}
      /\ \A x \in DOMAIN cl : cl[x] = clients[x]
  BY DEF Without
<1>4. /\ DOMAIN out = QuitRecipients(fd)
      /\ \A x \in DOMAIN out : out[x] = line
  OBVIOUS
<1>5. ASSUME NEW k \in DOMAIN channels
      PROVE  /\ left[k].members = channels[k].members \ {fd}
             /\ left[k].operators = channels[k].operators \ {fd}
             /\ left[k].topic = channels[k].topic
  <2>1. channels[k] \in Channel
    BY Named DEF VInv
  <2> DEFINE ch == removeMember(channels[k], fd)
             inv == IF nick = NoNick THEN ch.invitedUsers
                    ELSE ch.invitedUsers \ {Fold[nick]}
  <2>2. /\ ch \in Channel /\ ch.topic = channels[k].topic
        /\ ch.members = channels[k].members \ {fd}
        /\ ch.operators = channels[k].operators \ {fd}
    BY <2>1 DEF removeMember, Channel
  <2>3. left[k] = [ch EXCEPT !.invitedUsers = inv]
    OBVIOUS
  <2> HIDE DEF left, ch, inv
  <2>4. QED
    BY <2>2, <2>3 DEF Channel
<1>6. /\ DOMAIN channels' = {k \in DOMAIN channels : left[k].members # {}}
      /\ \A k \in DOMAIN channels' : channels'[k] = left[k]
  BY <1>1 DEF ChannelsWithout, Without
<1> HIDE DEF cl, out, left
<1>7. ASSUME NEW x \in DOMAIN cl
      PROVE  /\ On(channels', x) = On(channels, x)
             /\ \A k \in On(channels, x) :
                  /\ k \in DOMAIN channels
                  /\ channels'[k].members = channels[k].members \ {fd}
                  /\ channels'[k].operators = channels[k].operators \ {fd}
                  /\ channels'[k].topic = channels[k].topic
  <2>1. On(channels', x) \subseteq On(channels, x)
    BY <1>5, <1>6 DEF On
  <2>2. On(channels, x) \subseteq On(channels', x)
    BY <1>3, <1>5, <1>6 DEF On
  <2>3. \A k \in On(channels', x) : k \in DOMAIN channels'
    BY DEF On
  <2>4. QED
    BY <1>5, <1>6, <2>1, <2>2, <2>3
<1>8. \A k \in DOMAIN channels : fd \in channels[k].members => Registered(fd)
  BY Named DEF VInv, Registered
<1>9. ASSUME NEW x \in DOMAIN cl, x \in DOMAIN out
      PROVE  ClientApply(Shown(clients, channels, x), cl[x].nickname, line) =
               Shown(cl, channels', x)
  <2> DEFINE v == Pictures(clients, channels, x)
             w == [k \in DOMAIN v |-> Drop(v[k], nick)]
             s == Shown(clients, channels, x)
             self == cl[x].nickname
  <2>1. DOMAIN v = On(channels, x) /\ \A k \in On(channels, x) :
                                        v[k] = Picture(clients, channels[k])
    BY DEF Pictures
  <2>2. s = [synced |-> TRUE, chans |-> v]
    BY DEF Shown
  <2> HIDE DEF v
  <2>3. PICK k \in DOMAIN channels :
          fd \in channels[k].members /\ x \in channels[k].members
    BY <1>4, <1>9 DEF QuitRecipients, Peers, ChannelsOf
  <2>4. nick # NoNick
    <3>1. clients[fd].registered
      BY <1>8, <2>3 DEF Registered
    <3>2. QED
      BY <3>1 DEF VInv, IInv, Sound, RegistrationSound
  <2>5. k \in DOMAIN v /\ Same(v[k].names, nick) # {}
    <3>1. k \in On(channels, x)
      BY <2>3 DEF On
    <3>2. Picture(clients, channels[k]).names = NicksOf(clients, channels[k].members)
      BY DEF Picture
    <3>3. nick \in NicksOf(clients, channels[k].members)
      BY <2>3 DEF NicksOf
    <3>4. v[k].names = NicksOf(clients, channels[k].members)
      BY <2>1, <3>1, <3>2
    <3>5. nick \in Same(v[k].names, nick)
      BY <3>3, <3>4 DEF Same
    <3>6. QED
      BY <2>1, <3>1, <3>5
  <2>6. ClientApply(s, self, line) = [synced |-> TRUE, chans |-> w]
    <3> DEFINE gone == clients[fd].nickname
    <3>1. k \in DOMAIN v /\ Same(v[k].names, gone) # {}
      BY <2>5
    <3> HIDE DEF s, self, gone
    <3>2. ClientApply(s, self, [cmd |-> "QUIT", nick |-> gone]) =
            [synced |-> TRUE, chans |-> [j \in DOMAIN v |-> Drop(v[j], gone)]]
      BY ONLY <2>2, <3>1, QuitApplied
    <3>3. QED
      BY <3>2 DEF gone
  <2>7. ASSUME NEW j \in On(channels, x)
        PROVE  Drop(v[j], nick) = Picture(cl, channels'[j])
    <3> DEFINE old == channels[j]
               ch == channels'[j]
    <3>1. /\ j \in DOMAIN channels /\ ch.members = old.members \ {fd}
          /\ ch.operators = old.operators \ {fd} /\ ch.topic = old.topic
      BY <1>7
    <3>2. /\ old \in Channel /\ old.operators \subseteq old.members
          /\ old.members \subseteq DOMAIN clients
          /\ \A y \in old.members : clients[y].nickname \in Nicks
      BY <3>1, Named DEF VInv
    <3>3. IInv /\ old.topic \in Topics \cup {NoTopic} /\ clients[fd].nickname # NoNick
      BY <2>4, <3>2 DEF VInv, Channel
    <3>4. v[j] = Picture(clients, old)
      BY <2>1
    <3> HIDE DEF old, ch
    <3>5. Drop(Picture(clients, old), clients[fd].nickname) = Picture(clients, ch)
      BY <3>1, <3>2, <3>3, DroppedPicture
    <3>6. /\ NicksOf(cl, ch.members) = NicksOf(clients, ch.members)
          /\ NicksOf(cl, ch.operators) = NicksOf(clients, ch.operators)
      BY <1>3, <3>1, <3>2, SameNicks
    <3>7. Picture(cl, ch) = Picture(clients, ch)
      BY <3>6 DEF Picture
    <3>8. QED
      BY <3>4, <3>5, <3>7 DEF ch
  <2>8. w = Pictures(cl, channels', x)
    BY <1>7, <2>1, <2>7 DEF Pictures
  <2> HIDE DEF w
  <2>9. QED
    BY <2>6, <2>8 DEF Shown
<1>10. ASSUME NEW x \in DOMAIN cl, x \notin DOMAIN out
       PROVE  Shown(cl, channels', x) = Shown(clients, channels, x)
  <2>1. ASSUME NEW k \in On(channels, x)
        PROVE  /\ channels'[k].members = channels[k].members
               /\ channels'[k].operators = channels[k].operators
               /\ channels'[k].topic = channels[k].topic
               /\ channels[k].operators \subseteq channels[k].members
               /\ \A y \in channels[k].members : cl[y].nickname = clients[y].nickname
    <3>1. k \in DOMAIN channels /\ x \in channels[k].members
      BY DEF On
    <3>2. fd \notin channels[k].members
      BY <1>3, <1>4, <1>8, <1>10, <3>1 DEF QuitRecipients, Peers, ChannelsOf
    <3>3. /\ channels[k].operators \subseteq channels[k].members
          /\ channels[k].members \subseteq DOMAIN clients
      BY <3>1, Named DEF VInv
    <3>4. /\ channels'[k].members = channels[k].members \ {fd}
          /\ channels'[k].operators = channels[k].operators \ {fd}
          /\ channels'[k].topic = channels[k].topic
      BY <1>7
    <3>5. /\ channels[k].members \ {fd} = channels[k].members
          /\ channels[k].operators \ {fd} = channels[k].operators
      BY <3>2, <3>3
    <3>6. \A y \in channels[k].members : cl[y].nickname = clients[y].nickname
      BY <1>3, <3>2, <3>3
    <3>7. QED
      BY <3>3, <3>4, <3>5, <3>6
  <2>2. On(channels', x) = On(channels, x)
    BY <1>7
  <2>3. QED
    BY <2>1, <2>2, SameShown
<1>11. ASSUME NEW x \in DOMAIN cl, ~cl[x].disconnectRequested
       PROVE  /\ x \in DOMAIN out =>
                   ClientApply(view[x], cl[x].nickname, out[x]) = Shown(cl, channels', x)
              /\ x \notin DOMAIN out => view[x] = Shown(cl, channels', x)
  <2>1. view[x] = Shown(clients, channels, x)
    BY <1>3, <1>11, ViewIs DEF VInv
  <2>2. QED
    BY <1>4, <1>9, <1>10, <2>1
<1>12. QED
  BY <1>1, <1>2, <1>11, EmitShows

-----------------------------------------------------------------------------
(* The specification *)

\* Every step of the server keeps what the clients know right.
LEMMA NextShows == VInv /\ [Next]_vars => ViewsConsistent'
<1> SUFFICES ASSUME VInv, [Next]_vars PROVE ViewsConsistent'
  OBVIOUS
<1>1. CASE UNCHANGED vars
  BY <1>1, StutterShows DEF VInv, vars
<1>2. CASE applyChannelModeChange
  BY <1>2, ModeChangeShows
<1>3. ASSUME NEW fd \in Fds, acceptClient(fd)
      PROVE  ViewsConsistent'
  BY <1>3, AcceptShows
<1>4. ASSUME NEW fd \in DOMAIN clients, removeClient(fd)
      PROVE  ViewsConsistent'
  BY <1>4, RemoveShows
<1>5. ASSUME NEW fd \in DOMAIN clients, dispatchCommand(fd)
      PROVE  ViewsConsistent'
  <2>1. CASE sendNumeric(fd)
    BY <2>1, AnswerShows
  <2>2. CASE handleQuit(fd)
    BY <2>2, QuitShows
  <2>3. ASSUME NEW correct \in BOOLEAN, handlePass(fd, correct)
        PROVE  ViewsConsistent'
    BY <2>3, PassShows
  <2>4. CASE handleUser(fd)
    BY <2>4, UserShows
  <2>5. ASSUME NEW n \in Nicks, handleNick(fd, n)
        PROVE  ViewsConsistent'
    BY <2>5, NickShows
  <2>6. ASSUME NEW target, handlePrivmsg(fd, target)
        PROVE  ViewsConsistent'
    BY <2>6, PrivmsgShows
  <2>7. ASSUME NEW name \in ChanNames, NEW key, handleJoin(fd, name, key)
        PROVE  ViewsConsistent'
    BY <2>7, JoinShows
  <2>8. ASSUME NEW name \in ChanNames, NEW topic \in Topics \cup {NoTopic},
               handleTopic(fd, name, topic)
        PROVE  ViewsConsistent'
    BY <2>8, TopicShows
  <2>9. ASSUME NEW name \in ChanNames, NEW n \in Nicks, handleKick(fd, name, n)
        PROVE  ViewsConsistent'
    BY <2>9, KickShows
  <2>10. ASSUME NEW name \in ChanNames, NEW n \in Nicks, handleInvite(fd, n, name)
         PROVE  ViewsConsistent'
    BY <2>10, InviteShows
  <2>11. ASSUME NEW name \in ChanNames, NEW line \in ModeLines,
                handleMode(fd, name, line)
         PROVE  ViewsConsistent'
    BY <2>11, ModeShows
  <2>12. QED
    BY <1>5, <2>1, <2>2, <2>3, <2>4, <2>5, <2>6, <2>7, <2>8, <2>9, <2>10, <2>11
    DEF dispatchCommand, handlePing, handleCap, handleUnknownCommand,
        RefusedCommand, handleTopicQuery
<1>6. QED
  BY <1>1, <1>2, <1>3, <1>4, <1>5 DEF Next

\* A client that has not been cut off always knows from its lines exactly the
\* channels it is on, their members, operators and topics (Server.cpp:163,
\* Nick.cpp:122, Join.cpp:99, Kick.cpp, Mode.cpp and Topic.cpp queue the right
\* lines to the right clients, once each).
THEOREM ViewsCorrect == Spec => []ViewsConsistent
<1>1. Init => ViewsConsistent
  BY DEF Init, EmptyMap, ViewsConsistent
<1>2. IInv /\ ViewsConsistent /\ [Next]_vars => ViewsConsistent'
  BY NextShows DEF VInv
<1>3. QED
  BY <1>1, <1>2, Invariance, PTL DEF Spec
=============================================================================
