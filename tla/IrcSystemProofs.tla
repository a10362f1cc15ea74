-------------------------- MODULE IrcSystemProofs --------------------------
(***************************************************************************)
(* The whole server, for every value of the constants: the poll loop and   *)
(* the IRC layer keep what each of them promises when they are put         *)
(* together, and QUIT is the last thing its sender does.                   *)
(***************************************************************************)
EXTENDS IrcSystem, IrcViewsProofs

\* The proofs about the loop, about this module's variables.
LoopProofs == INSTANCE EventLoopProofs WITH clients <- buffers

\* The loop starts in the same states in both.
LEMMA SameInit == Loop!Init <=> LoopProofs!Init
BY DEF Loop!Init, LoopProofs!Init, Loop!EmptyMap, LoopProofs!EmptyMap

\* removeClient is the same action in both.
LEMMA SameRemove ==
  ASSUME NEW n
  PROVE  Loop!removeClient(n) <=> LoopProofs!removeClient(n)
BY DEF Loop!removeClient, LoopProofs!removeClient, Loop!Without, LoopProofs!Without,
       Loop!queued, LoopProofs!queued, Loop!watched, LoopProofs!watched,
       Loop!queueRaw, LoopProofs!queueRaw, Loop!RemoveAt, LoopProofs!RemoveAt

\* The loop takes the same steps in both.
LEMMA SameNext == Loop!Next <=> LoopProofs!Next
<1>1. Loop!installSignalHandlers <=> LoopProofs!installSignalHandlers
  BY DEF Loop!installSignalHandlers, LoopProofs!installSignalHandlers
<1>2. Loop!openListener <=> LoopProofs!openListener
  BY DEF Loop!openListener, LoopProofs!openListener
<1>3. Loop!createListeningSocket <=> LoopProofs!createListeningSocket
  BY DEF Loop!createListeningSocket, LoopProofs!createListeningSocket,
         Loop!closeListener, LoopProofs!closeListener,
         Loop!addPollFd, LoopProofs!addPollFd
<1>4. Loop!checkStop <=> LoopProofs!checkStop
  BY DEF Loop!checkStop, LoopProofs!checkStop,
         Loop!destroy, LoopProofs!destroy,
         Loop!EmptyMap, LoopProofs!EmptyMap
<1>5. Loop!enterPoll <=> LoopProofs!enterPoll
  BY DEF Loop!enterPoll, LoopProofs!enterPoll
<1>6. Loop!poll <=> LoopProofs!poll
  BY DEF Loop!poll, LoopProofs!poll,
         Loop!Reports, LoopProofs!Reports
<1>7. Loop!pollFails <=> LoopProofs!pollFails
  BY DEF Loop!pollFails, LoopProofs!pollFails,
         Loop!destroy, LoopProofs!destroy,
         Loop!EmptyMap, LoopProofs!EmptyMap
<1>8. Loop!sweepEnd <=> LoopProofs!sweepEnd
  BY DEF Loop!sweepEnd, LoopProofs!sweepEnd
<1>9. Loop!skipEntry <=> LoopProofs!skipEntry
  BY DEF Loop!skipEntry, LoopProofs!skipEntry,
         Loop!Sweeping, LoopProofs!Sweeping,
         Loop!nextEntry, LoopProofs!nextEntry,
         Loop!Current, LoopProofs!Current
<1>10. Loop!serveListener <=> LoopProofs!serveListener
  BY DEF Loop!serveListener, LoopProofs!serveListener,
         Loop!Sweeping, LoopProofs!Sweeping,
         Loop!nextEntry, LoopProofs!nextEntry,
         Loop!Current, LoopProofs!Current,
         Loop!Has, LoopProofs!Has,
         Loop!acceptClient, LoopProofs!acceptClient,
         Loop!With, LoopProofs!With,
         Loop!NewClient, LoopProofs!NewClient,
         Loop!addPollFd, LoopProofs!addPollFd
<1>11. Loop!acceptThrows <=> LoopProofs!acceptThrows
  BY DEF Loop!acceptThrows, LoopProofs!acceptThrows,
         Loop!Sweeping, LoopProofs!Sweeping,
         Loop!Current, LoopProofs!Current,
         Loop!Has, LoopProofs!Has,
         Loop!destroy, LoopProofs!destroy,
         Loop!EmptyMap, LoopProofs!EmptyMap
<1>12. Loop!serveError <=> LoopProofs!serveError
  BY SameRemove DEF Loop!serveError, LoopProofs!serveError,
                    Loop!Sweeping, LoopProofs!Sweeping,
                    Loop!Current, LoopProofs!Current,
                    Loop!Has, LoopProofs!Has,
                    Loop!drop, LoopProofs!drop,
                    Loop!nextEntry, LoopProofs!nextEntry,
                    Loop!afterErase, LoopProofs!afterErase
<1>13. Loop!receiveFromClient <=> LoopProofs!receiveFromClient
  BY SameRemove DEF Loop!receiveFromClient, LoopProofs!receiveFromClient,
                    Loop!Sweeping, LoopProofs!Sweeping,
                    Loop!Current, LoopProofs!Current,
                    Loop!Has, LoopProofs!Has,
                    Loop!Bytes, LoopProofs!Bytes,
                    Loop!drop, LoopProofs!drop,
                    Loop!nextEntry, LoopProofs!nextEntry,
                    Loop!afterErase, LoopProofs!afterErase
<1>14. Loop!takeLine <=> LoopProofs!takeLine
  BY DEF Loop!takeLine, LoopProofs!takeLine,
         Loop!HasLine, LoopProofs!HasLine,
         Loop!Current, LoopProofs!Current,
         Loop!popLine, LoopProofs!popLine,
         Loop!Range, LoopProofs!Range
<1>15. Loop!handleQuit <=> LoopProofs!handleQuit
  BY DEF Loop!handleQuit, LoopProofs!handleQuit,
         Loop!afterLine, LoopProofs!afterLine,
         Loop!Current, LoopProofs!Current
<1>16. Loop!handleCompleteLine <=> LoopProofs!handleCompleteLine
  BY DEF Loop!handleCompleteLine, LoopProofs!handleCompleteLine,
         Loop!afterLine, LoopProofs!afterLine,
         Loop!Current, LoopProofs!Current,
         Loop!queued, LoopProofs!queued,
         Loop!watched, LoopProofs!watched,
         Loop!queueRaw, LoopProofs!queueRaw
<1>17. Loop!checkInput <=> LoopProofs!checkInput
  BY SameRemove DEF Loop!checkInput, LoopProofs!checkInput,
                    Loop!HasLine, LoopProofs!HasLine,
                    Loop!Range, LoopProofs!Range,
                    Loop!Current, LoopProofs!Current,
                    Loop!drop, LoopProofs!drop,
                    Loop!nextEntry, LoopProofs!nextEntry,
                    Loop!afterErase, LoopProofs!afterErase
<1>18. Loop!skipInput <=> LoopProofs!skipInput
  BY DEF Loop!skipInput, LoopProofs!skipInput,
         Loop!Sweeping, LoopProofs!Sweeping,
         Loop!Current, LoopProofs!Current,
         Loop!Has, LoopProofs!Has
<1>19. Loop!flushClientOutput <=> LoopProofs!flushClientOutput
  BY SameRemove DEF Loop!flushClientOutput, LoopProofs!flushClientOutput,
                    Loop!Has, LoopProofs!Has,
                    Loop!Current, LoopProofs!Current,
                    Loop!stillWatched, LoopProofs!stillWatched,
                    Loop!drop, LoopProofs!drop,
                    Loop!nextEntry, LoopProofs!nextEntry,
                    Loop!afterErase, LoopProofs!afterErase
<1>20. Loop!skipOutput <=> LoopProofs!skipOutput
  BY DEF Loop!skipOutput, LoopProofs!skipOutput,
         Loop!Has, LoopProofs!Has
<1>21. Loop!checkHangup <=> LoopProofs!checkHangup
  BY SameRemove DEF Loop!checkHangup, LoopProofs!checkHangup,
                    Loop!Has, LoopProofs!Has,
                    Loop!Current, LoopProofs!Current,
                    Loop!drop, LoopProofs!drop,
                    Loop!nextEntry, LoopProofs!nextEntry,
                    Loop!afterErase, LoopProofs!afterErase
<1>22. Loop!removeDisconnectedClients <=> LoopProofs!removeDisconnectedClients
  BY SameRemove DEF Loop!removeDisconnectedClients, LoopProofs!removeDisconnectedClients,
                    Loop!Current, LoopProofs!Current,
                    Loop!isDisconnectRequested, LoopProofs!isDisconnectRequested,
                    Loop!afterErase, LoopProofs!afterErase
<1>23. Loop!handleSignal <=> LoopProofs!handleSignal
  BY DEF Loop!handleSignal, LoopProofs!handleSignal
<1>24. QED
  BY <1>1, <1>2, <1>3, <1>4, <1>5, <1>6, <1>7, <1>8, <1>9, <1>10, <1>11, <1>12,
     <1>13, <1>14, <1>15, <1>16, <1>17, <1>18, <1>19, <1>20, <1>21, <1>22, <1>23
  DEF Loop!Next, LoopProofs!Next, Loop!step, LoopProofs!step,
      Loop!plumbing, LoopProofs!plumbing

-----------------------------------------------------------------------------
(* The inductive invariant *)

\* Both halves of a Client object come and go together and share their flag, and
\* a MODE command is in progress only while its line is being handled.
Joint ==
  /\ VInv
  /\ DOMAIN clients = DOMAIN buffers
  /\ SameFlag
  /\ modeRun # Idle => pc = "handle"

\* A step that touches the clients in S and the memberships of S, and no other
\* client but for marking it.
OnlyTouches(S) ==
  /\ DOMAIN clients' = DOMAIN clients
  /\ \A fd \in DOMAIN clients \ S :
       \/ clients'[fd] = clients[fd]
       \/ clients'[fd] = [clients[fd] EXCEPT !.disconnectRequested = TRUE]
  /\ \A k \in DOMAIN channels' : \A fd \in channels'[k].members \ S : IsMember(fd, k)

-----------------------------------------------------------------------------
(* The loop's side *)

\* Every step of the whole server is one of the loop.
LEMMA StepOfLoop == [SystemNext]_systemVars => [LoopProofs!Next]_(LoopProofs!vars)
<1>1. SystemNext => Loop!Next
  BY DEF SystemNext, plumbing, handleCompleteLine, Loop!Next, Loop!step
<1>2. UNCHANGED systemVars => UNCHANGED LoopProofs!vars
  BY DEF systemVars, LoopProofs!vars
<1>3. QED
  BY <1>1, <1>2, SameNext

\* The loop's invariant holds of the whole server.
LEMMA LoopInvariant == SystemSpec => []LoopProofs!IInv
<1>1. SystemInit => LoopProofs!Init
  BY SameInit DEF SystemInit
<1>2. LoopProofs!Spec => []LoopProofs!IInv
  BY LoopProofs!Invariance, LoopAssumption, PTL
<1>3. SystemSpec => LoopProofs!Spec
  BY <1>1, StepOfLoop, PTL DEF SystemSpec, LoopProofs!Spec
<1>4. QED
  BY <1>2, <1>3, PTL

\* What the proofs below need of it.
LEMMA LoopFacts ==
  ASSUME LoopProofs!IInv
  PROVE  /\ pc = "stopped" => DOMAIN buffers = {}
         /\ pc = "handle" => /\ Loop!Current \in DOMAIN buffers
                             /\ ~buffers[Loop!Current].quit
         /\ \A fd \in DOMAIN buffers : buffers[fd].quit => buffers[fd].doomed
<1>1. CASE LoopProofs!Running
  <2>1. LoopProofs!Alive
    BY <1>1 DEF LoopProofs!IInv
  <2>2. pc # "stopped"
    BY <1>1 DEF LoopProofs!Running
  <2>3. ASSUME pc = "handle"
        PROVE  Loop!Current \in DOMAIN buffers /\ ~buffers[Loop!Current].quit
    <3>1. i \in 2 .. Len(pollFds)
      BY <2>1, <2>3 DEF LoopProofs!Alive, LoopProofs!Position, LoopProofs!Serving
    <3>2. pollFds[i].fd \in DOMAIN buffers
      BY <2>1, <3>1 DEF LoopProofs!Alive, LoopProofs!Tables
    <3>3. ~buffers[pollFds[i].fd].quit
      BY <2>1, <2>3 DEF LoopProofs!Alive, LoopProofs!Lines
    <3>4. QED
      BY <3>2, <3>3 DEF Loop!Current
  <2>4. \A fd \in DOMAIN buffers : buffers[fd].quit => buffers[fd].doomed
    BY <2>1 DEF LoopProofs!Alive, LoopProofs!Buffers, LoopProofs!ClientOK
  <2>5. QED
    BY <2>2, <2>3, <2>4
<1>2. CASE ~LoopProofs!Running
  <2>1. DOMAIN buffers = {}
    BY <1>2 DEF LoopProofs!IInv, LoopProofs!Dead
  <2>2. pc # "handle"
    BY <1>2 DEF LoopProofs!Running
  <2>3. QED
    BY <2>1, <2>2
<1>3. QED
  BY <1>1, <1>2

\* A step that handles no line, and does not end the server, accepts one client,
\* removes one, or keeps them all; while a line is being handled there is none
\* but the signal's.
LEMMA PlumbingClients ==
  ASSUME Loop!plumbing \/ Loop!poll \/ Loop!pollFails \/ Loop!handleSignal
  PROVE  /\ \/ pc' = "stopped"
            \/ DOMAIN buffers' = DOMAIN buffers
            \/ \E fd : DOMAIN buffers' = DOMAIN buffers \ {fd}
            \/ \E fd \in Fds : DOMAIN buffers' = DOMAIN buffers \cup {fd}
         /\ pc = "handle" => pc' = "handle" /\ buffers' = buffers
<1> DEFINE kept == DOMAIN buffers' = DOMAIN buffers
           less == \E fd : DOMAIN buffers' = DOMAIN buffers \ {fd}
           more == \E fd \in Fds : DOMAIN buffers' = DOMAIN buffers \cup {fd}
           goal == pc' = "stopped" \/ kept \/ less \/ more
<1>1. ASSUME NEW n, Loop!removeClient(n)
      PROVE  less
  BY <1>1 DEF Loop!removeClient, Loop!Without, Loop!queued
<1>2. Loop!drop => less
  BY <1>1 DEF Loop!drop
<1>3. ASSUME Loop!acceptClient
      PROVE  kept \/ more
  BY <1>3 DEF Loop!acceptClient, Loop!With
<1> HIDE DEF less, more
<1>4. ASSUME Loop!installSignalHandlers \/ Loop!openListener
               \/ Loop!createListeningSocket \/ Loop!checkStop \/ Loop!enterPoll
      PROVE  goal /\ pc # "handle"
  BY <1>4 DEF Loop!installSignalHandlers, Loop!openListener, Loop!checkStop,
              Loop!createListeningSocket, Loop!enterPoll, Loop!destroy
<1>5. ASSUME Loop!sweepEnd \/ Loop!skipEntry \/ Loop!serveListener
               \/ Loop!acceptThrows \/ Loop!serveError
      PROVE  goal /\ pc # "handle"
  BY <1>2, <1>3, <1>5 DEF Loop!sweepEnd, Loop!skipEntry, Loop!serveListener,
     Loop!acceptThrows, Loop!serveError, Loop!Sweeping, Loop!destroy
<1>6. ASSUME Loop!receiveFromClient
      PROVE  goal /\ pc # "handle"
  BY <1>2, <1>6 DEF Loop!receiveFromClient, Loop!Sweeping
<1>7. ASSUME Loop!takeLine
      PROVE  goal /\ pc # "handle"
  BY <1>7 DEF Loop!takeLine
<1>8. ASSUME Loop!checkInput \/ Loop!skipInput \/ Loop!skipOutput \/ Loop!checkHangup
      PROVE  goal /\ pc # "handle"
  BY <1>2, <1>8 DEF Loop!checkInput, Loop!skipInput, Loop!Sweeping,
     Loop!skipOutput, Loop!checkHangup
<1>9. ASSUME Loop!flushClientOutput
      PROVE  goal /\ pc # "handle"
  BY <1>2, <1>9 DEF Loop!flushClientOutput
<1>10. ASSUME Loop!removeDisconnectedClients
       PROVE  goal /\ pc # "handle"
  BY <1>1, <1>10 DEF Loop!removeDisconnectedClients
<1>11. ASSUME Loop!poll \/ Loop!pollFails
       PROVE  goal /\ pc # "handle"
  BY <1>11 DEF Loop!poll, Loop!pollFails, Loop!destroy
<1>12. ASSUME Loop!handleSignal
       PROVE  kept /\ buffers' = buffers /\ (pc = "handle" => pc' = "handle")
  BY <1>12 DEF Loop!handleSignal
<1> HIDE DEF kept
<1>13. goal
  BY <1>4, <1>5, <1>6, <1>7, <1>8, <1>9, <1>10, <1>11, <1>12 DEF Loop!plumbing
<1>14. pc = "handle" => pc' = "handle" /\ buffers' = buffers
  BY <1>4, <1>5, <1>6, <1>7, <1>8, <1>9, <1>10, <1>11, <1>12 DEF Loop!plumbing
<1>15. QED
  BY <1>13, <1>14 DEF kept, less, more

-----------------------------------------------------------------------------
(* The IRC layer's side *)

\* Queueing lines marks clients, and does nothing else to them.
LEMMA EmitTouches ==
  ASSUME NEW cl, NEW out, Emit(cl, out)
  PROVE  /\ DOMAIN clients' = DOMAIN cl
         /\ \A fd \in DOMAIN cl :
              \/ clients'[fd] = cl[fd]
              \/ clients'[fd] = [cl[fd] EXCEPT !.disconnectRequested = TRUE]
BY DEF Emit, queueLine

\* A handler that stores cl, unlike clients at S only, and queues lines.
LEMMA HandlerTouches ==
  ASSUME NEW S, NEW cl, NEW out, Emit(cl, out), DOMAIN cl = DOMAIN clients,
         \A fd \in DOMAIN clients \ S : cl[fd] = clients[fd],
         \A k \in DOMAIN channels' : \A fd \in channels'[k].members \ S : IsMember(fd, k)
  PROVE  OnlyTouches(S)
BY EmitTouches DEF OnlyTouches

\* The same when the channels stay as they are.
LEMMA AnswerTouches ==
  ASSUME NEW S, NEW cl, NEW out, Emit(cl, out), DOMAIN cl = DOMAIN clients,
         \A fd \in DOMAIN clients \ S : cl[fd] = clients[fd], UNCHANGED channels
  PROVE  OnlyTouches(S)
<1>1. \A k \in DOMAIN channels' : \A fd \in channels'[k].members \ S : IsMember(fd, k)
  BY DEF IsMember
<1>2. QED
  BY <1>1, HandlerTouches

\* A step that changes neither the clients nor the channels.
LEMMA StutterTouches ==
  ASSUME NEW S, UNCHANGED <<clients, channels>>
  PROVE  OnlyTouches(S)
BY DEF OnlyTouches, IsMember

\* NICK changes its sender, and of the channels the invitations only.
LEMMA NickTouches ==
  ASSUME IInv, NEW x \in DOMAIN clients, NEW n, handleNick(x, n)
  PROVE  OnlyTouches({x})
<1> DEFINE old == clients[x].nickname
           renamed == [clients[x] EXCEPT !.nickname = n]
           chs == [k \in DOMAIN channels |->
                    [channels[k] EXCEPT !.invitedUsers = MoveInvite(@, old, n)]]
<1>1. CASE NickInUse(x, n)
  BY <1>1, AnswerTouches DEF handleNick, sendNumeric
<1>2. CASE ~NickInUse(x, n) /\ old = n
  BY <1>2, StutterTouches DEF handleNick, vars
<1>3. CASE ~NickInUse(x, n) /\ old # n
  <2>1. PICK c, out : Emit([clients EXCEPT ![x] = c], out)
    BY <1>3 DEF handleNick, Progress
  <2>2. channels' = chs
    BY <1>3 DEF handleNick
  <2>3. ASSUME NEW k \in DOMAIN channels', NEW fd \in channels'[k].members
        PROVE  IsMember(fd, k)
    <3>1. k \in DOMAIN channels /\ channels[k] \in Channel
      BY <2>2 DEF IInv, Sound, ChannelsSound, ChannelSound
    <3>2. channels'[k].members = channels[k].members
      BY <2>2, <3>1 DEF Channel
    <3>3. QED
      BY <3>1, <3>2 DEF IsMember
  <2> DEFINE cl == [clients EXCEPT ![x] = c]
  <2>4. DOMAIN cl = DOMAIN clients /\ \A fd \in DOMAIN clients \ {x} : cl[fd] = clients[fd]
    OBVIOUS
  <2> HIDE DEF cl
  <2>5. Emit(cl, out)
    BY <2>1 DEF cl
  <2>6. QED
    BY <2>3, <2>4, <2>5, HandlerTouches
<1>4. QED
  BY <1>1, <1>2, <1>3

\* PASS and USER change their sender.
LEMMA ProgressTouches ==
  ASSUME NEW x \in DOMAIN clients, NEW c, Progress(x, c), UNCHANGED channels
  PROVE  OnlyTouches({x})
<1>1. PICK d, out : Emit([clients EXCEPT ![x] = d], out)
  BY DEF Progress
<1> DEFINE cl == [clients EXCEPT ![x] = d]
<1>2. DOMAIN cl = DOMAIN clients /\ \A fd \in DOMAIN clients \ {x} : cl[fd] = clients[fd]
  OBVIOUS
<1> HIDE DEF cl
<1>3. Emit(cl, out)
  BY <1>1 DEF cl
<1>4. QED
  BY <1>2, <1>3, AnswerTouches

\* JOIN enters its sender.
LEMMA JoinTouches ==
  ASSUME IInv, NEW x \in DOMAIN clients, NEW name, NEW key, handleJoin(x, name, key)
  PROVE  OnlyTouches({x})
<1> DEFINE k == Fold[name]
           ch == IF k \in DOMAIN channels THEN Joined(x, channels[k])
                                          ELSE NewChannel(name, x)
<1>1. CASE sendNumeric(x)
  BY <1>1, AnswerTouches DEF sendNumeric
<1>2. CASE UNCHANGED vars
  BY <1>2, StutterTouches DEF vars
<1>3. CASE ~sendNumeric(x) /\ ~UNCHANGED vars
  <2>1. channels' = With(channels, k, ch) /\ Emit(clients, JoinLines(x, k, ch))
    BY <1>3 DEF handleJoin
  <2>2. \A fd \in ch.members \ {x} : IsMember(fd, k)
    <3>1. CASE k \in DOMAIN channels
      <4>1. channels[k] \in Channel
        BY <3>1 DEF IInv, Sound, ChannelsSound, ChannelSound
      <4>2. QED
        BY <3>1, <4>1 DEF Joined, Channel, IsMember
    <3>2. CASE k \notin DOMAIN channels
      BY <3>2 DEF NewChannel
    <3>3. QED
      BY <3>1, <3>2
  <2> HIDE DEF k, ch
  <2>3. \A j \in DOMAIN channels' : \A fd \in channels'[j].members \ {x} : IsMember(fd, j)
    BY <2>1, <2>2 DEF With, IsMember
  <2>4. QED
    BY <2>1, <2>3, HandlerTouches
<1>4. QED
  BY <1>1, <1>2, <1>3

\* KICK enters nobody.
LEMMA KickTouches ==
  ASSUME IInv, NEW x \in DOMAIN clients, NEW name, NEW n, handleKick(x, name, n)
  PROVE  OnlyTouches({x})
<1> DEFINE k == Fold[name]
<1>1. CASE KickTargets(x, k, n) = {}
  BY <1>1, AnswerTouches DEF handleKick, sendNumeric
<1>2. CASE KickTargets(x, k, n) # {}
  <2>1. PICK t \in KickTargets(x, k, n) :
          /\ channels' = removeMemberFromChannel(k, t)
          /\ \E out : Emit(clients, out)
    BY <1>2 DEF handleKick
  <2>2. PICK out : channels' = removeMemberFromChannel(k, t) /\ Emit(clients, out)
    BY <2>1
  <2>3. k \in DOMAIN channels
    BY <1>2 DEF KickTargets, IsOperator
  <2> HIDE DEF k
  <2>4. channels[k] \in Channel
    BY <2>3 DEF IInv, Sound, ChannelsSound, ChannelSound
  <2> DEFINE ch == removeMember(channels[k], t)
  <2>5. ch.members = channels[k].members \ {t}
    BY <2>4 DEF removeMember, Channel
  <2>6. channels' = IF ch.members # {} THEN [channels EXCEPT ![k] = ch]
                    ELSE Without(channels, {Fold[ch.name]})
    BY <2>2 DEF removeMemberFromChannel
  <2> HIDE DEF ch
  <2>7. \A j \in DOMAIN channels' : \A fd \in channels'[j].members : IsMember(fd, j)
    <3>1. CASE ch.members # {}
      BY <2>3, <2>5, <2>6, <3>1 DEF IsMember
    <3>2. CASE ch.members = {}
      BY <2>6, <3>2 DEF IsMember, Without
    <3>3. QED
      BY <3>1, <3>2
  <2>8. QED
    BY <2>2, <2>7, HandlerTouches
<1>3. QED
  BY <1>1, <1>2

\* INVITE and TOPIC keep the members.
LEMMA SettingTouches ==
  ASSUME IInv, NEW S, NEW k \in DOMAIN channels, NEW ch, NEW out,
         channels' = [channels EXCEPT ![k] = ch],
         ch.members = channels[k].members, Emit(clients, out)
  PROVE  OnlyTouches(S)
<1>1. \A j \in DOMAIN channels' : \A fd \in channels'[j].members \ S : IsMember(fd, j)
  BY DEF IsMember
<1>2. QED
  BY <1>1, HandlerTouches

\* handleInvite
LEMMA InviteTouches ==
  ASSUME IInv, NEW x \in DOMAIN clients, NEW name, NEW n, handleInvite(x, n, name)
  PROVE  OnlyTouches({x})
<1> DEFINE k == Fold[name]
           ch == [channels[k] EXCEPT !.invitedUsers = @ \cup {Fold[n]}]
<1>1. CASE InviteTargets(x, k, n) = {}
  BY <1>1, AnswerTouches DEF handleInvite, sendNumeric
<1>2. CASE InviteTargets(x, k, n) # {}
  <2>1. PICK out : channels' = [channels EXCEPT ![k] = ch] /\ Emit(clients, out)
    BY <1>2 DEF handleInvite
  <2>2. k \in DOMAIN channels
    BY <1>2 DEF InviteTargets, IsOperator
  <2>3. channels[k] \in Channel
    BY <2>2 DEF IInv, Sound, ChannelsSound, ChannelSound
  <2> HIDE DEF k
  <2>4. ch.members = channels[k].members
    BY <2>3 DEF Channel
  <2> HIDE DEF ch
  <2>5. QED
    BY <2>1, <2>2, <2>4, SettingTouches
<1>3. QED
  BY <1>1, <1>2

\* handleTopic
LEMMA TopicTouches ==
  ASSUME IInv, NEW x \in DOMAIN clients, NEW name, NEW topic,
         handleTopic(x, name, topic)
  PROVE  OnlyTouches({x})
<1> DEFINE k == Fold[name]
           ch == [channels[k] EXCEPT !.topic = topic]
<1>1. CASE ~MaySetTopic(x, k)
  BY <1>1, AnswerTouches DEF handleTopic, sendNumeric
<1>2. CASE MaySetTopic(x, k)
  <2>1. PICK out : channels' = [channels EXCEPT ![k] = ch] /\ Emit(clients, out)
    BY <1>2 DEF handleTopic
  <2>2. k \in DOMAIN channels
    BY <1>2 DEF MaySetTopic, IsMember
  <2>3. channels[k] \in Channel
    BY <2>2 DEF IInv, Sound, ChannelsSound, ChannelSound
  <2> HIDE DEF k
  <2>4. ch.members = channels[k].members
    BY <2>3 DEF Channel
  <2> HIDE DEF ch
  <2>5. QED
    BY <2>1, <2>2, <2>4, SettingTouches
<1>3. QED
  BY <1>1, <1>2

\* One change of a MODE command touches no client.
LEMMA ModeChangeTouches ==
  ASSUME IInv, applyChannelModeChange
  PROVE  OnlyTouches({})
<1> DEFINE k == modeRun.chan
           ch == channels[k]
           m == Head(modeRun.changes)
           new == ModeApplied(ch, m)
<1>1. /\ modeRun \in ModeRun /\ modeRun.changes # <<>> /\ k \in DOMAIN channels
      /\ ch \in Channel /\ ch.operators \subseteq ch.members
  BY DEF applyChannelModeChange, IInv, ModeSound, Sound, ChannelsSound, ChannelSound
<1>2. m \in ModeChange
  BY <1>1, MoreChanges DEF ModeRun
<1> HIDE DEF m
<1>3. CASE ModeRefused(ch, m)
  <2>1. Emit(clients, [x \in {modeRun.fd} |-> Other]) /\ channels' = channels
    BY <1>3 DEF applyChannelModeChange, m
  <2>2. QED
    BY <2>1, AnswerTouches
<1>4. CASE ~ModeRefused(ch, m) /\ new = ch
  BY <1>4, StutterTouches DEF applyChannelModeChange, m
<1>5. CASE ~ModeRefused(ch, m) /\ new # ch
  <2>1. /\ channels' = [channels EXCEPT ![k] = new]
        /\ Emit(clients, broadcastModeChange(k, new, m))
    BY <1>5 DEF applyChannelModeChange, m
  <2>2. new.members = ch.members
    BY <1>1, <1>2, <1>5, ModeAppliedSettings
  <2> HIDE DEF new
  <2>3. QED
    BY <1>1, <2>1, <2>2, SettingTouches
<1>6. QED
  BY <1>3, <1>4, <1>5

\* A command touches its sender only.
LEMMA CommandTouches ==
  ASSUME IInv, NEW x \in DOMAIN clients, dispatchCommand(x)
  PROVE  OnlyTouches({x})
<1>1. CASE sendNumeric(x)
  BY <1>1, AnswerTouches DEF sendNumeric
<1>2. CASE handleQuit(x)
  BY <1>2 DEF handleQuit, OnlyTouches, IsMember
<1>3. ASSUME NEW correct, handlePass(x, correct)
      PROVE  OnlyTouches({x})
  BY <1>1, <1>3, ProgressTouches DEF handlePass
<1>4. CASE handleUser(x)
  BY <1>1, <1>4, ProgressTouches DEF handleUser
<1>5. ASSUME NEW n, handleNick(x, n)
      PROVE  OnlyTouches({x})
  BY <1>5, NickTouches
<1>6. ASSUME NEW target, handlePrivmsg(x, target)
      PROVE  OnlyTouches({x})
  BY <1>1, <1>6, AnswerTouches DEF handlePrivmsg
<1>7. ASSUME NEW name, NEW key, handleJoin(x, name, key)
      PROVE  OnlyTouches({x})
  BY <1>7, JoinTouches
<1>8. ASSUME NEW name, NEW topic, handleTopic(x, name, topic)
      PROVE  OnlyTouches({x})
  BY <1>8, TopicTouches
<1>9. ASSUME NEW name, NEW n, handleKick(x, name, n)
      PROVE  OnlyTouches({x})
  BY <1>9, KickTouches
<1>10. ASSUME NEW name, NEW n, handleInvite(x, n, name)
       PROVE  OnlyTouches({x})
  BY <1>10, InviteTouches
<1>11. ASSUME NEW name, NEW line, handleMode(x, name, line)
       PROVE  OnlyTouches({x})
  BY <1>1, <1>11, StutterTouches DEF handleMode
<1>12. QED
  BY <1>1, <1>2, <1>3, <1>4, <1>5, <1>6, <1>7, <1>8, <1>9, <1>10, <1>11
  DEF dispatchCommand, handlePing, handleCap, handleUnknownCommand,
      RefusedCommand, handleTopicQuery

-----------------------------------------------------------------------------
(* The two together *)

\* The inductive invariant of the IRC layer alone survives each of its steps.
LEMMA IrcStep == VInv /\ [Next]_vars => VInv'
BY NextIInv, NextShows DEF VInv

\* An empty server satisfies it.
LEMMA EmptyServer == Init => VInv
BY InitIInv DEF VInv, Init, EmptyMap, ViewsConsistent

LEMMA EmptiedServer == destroyIrcState => VInv'
<1> SUFFICES ASSUME destroyIrcState PROVE VInv'
  OBVIOUS
<1>1. /\ DOMAIN clients' = {} /\ DOMAIN nicknameIndex' = {} /\ DOMAIN channels' = {}
      /\ DOMAIN view' = {} /\ modeRun' = Idle
  BY DEF destroyIrcState, EmptyMap
<1>2. IInv'
  BY <1>1 DEF IInv, Sound, ClientMap, RegistrationSound, IndexSound,
              ChannelsSound, ModeSound
<1>3. ViewsConsistent'
  BY <1>1 DEF ViewsConsistent
<1>4. QED
  BY <1>2, <1>3 DEF VInv

\* Without clients there is nothing to agree on.
LEMMA JointInit == SystemInit => Joint
<1> SUFFICES ASSUME SystemInit PROVE Joint
  OBVIOUS
<1>1. VInv /\ modeRun = Idle /\ DOMAIN clients = {}
  BY EmptyServer DEF SystemInit, Init, EmptyMap
<1>2. DOMAIN buffers = {}
  BY DEF SystemInit, Loop!Init, Loop!EmptyMap
<1>3. QED
  BY <1>1, <1>2 DEF Joint, SameFlag

\* removeClient of the IRC layer forgets its client, marks others, and enters
\* nobody anywhere.
LEMMA RemoveTouches ==
  ASSUME IInv, NEW x \in DOMAIN clients, removeClient(x)
  PROVE  /\ DOMAIN clients' = DOMAIN clients \ {x}
         /\ \A fd \in DOMAIN clients' :
              \/ clients'[fd] = clients[fd]
              \/ clients'[fd] = [clients[fd] EXCEPT !.disconnectRequested = TRUE]
         /\ \A k \in DOMAIN channels' : \A fd \in channels'[k].members : IsMember(fd, k)
<1> DEFINE nick == clients[x].nickname
           cl == Without(clients, {x})
<1>1. PICK out : Emit(cl, out)
  BY DEF removeClient
<1>2. DOMAIN cl = DOMAIN clients \ {x} /\ \A fd \in DOMAIN cl : cl[fd] = clients[fd]
  BY DEF Without
<1> HIDE DEF cl
<1>3. /\ DOMAIN clients' = DOMAIN clients \ {x}
      /\ \A fd \in DOMAIN clients' :
           \/ clients'[fd] = clients[fd]
           \/ clients'[fd] = [clients[fd] EXCEPT !.disconnectRequested = TRUE]
  <2>1. /\ DOMAIN clients' = DOMAIN cl
        /\ \A fd \in DOMAIN cl :
             \/ clients'[fd] = cl[fd]
             \/ clients'[fd] = [cl[fd] EXCEPT !.disconnectRequested = TRUE]
    BY ONLY <1>1, EmitTouches
  <2>2. QED
    BY ONLY <1>2, <2>1
<1>4. channels' = ChannelsWithout(x, nick)
  BY DEF removeClient
<1>5. ASSUME NEW k \in DOMAIN channels', NEW fd \in channels'[k].members
      PROVE  IsMember(fd, k)
  <2>1. k \in DOMAIN channels /\ channels[k] \in Channel
    BY <1>4 DEF ChannelsWithout, Without, IInv, Sound, ChannelsSound, ChannelSound
  <2> DEFINE rest == removeMember(channels[k], x)
  <2>2. rest \in Channel /\ rest.members \subseteq channels[k].members
    BY <2>1 DEF removeMember, Channel
  <2>3. channels'[k] = [rest EXCEPT !.invitedUsers =
                          IF nick = NoNick THEN @ ELSE @ \ {Fold[nick]}]
    BY <1>4, <1>5 DEF ChannelsWithout, Without
  <2> HIDE DEF rest
  <2>4. channels'[k].members = rest.members
    BY <2>2, <2>3 DEF Channel
  <2>5. QED
    BY <1>5, <2>1, <2>2, <2>4 DEF IsMember
<1>6. QED
  BY <1>3, <1>5

\* A step that handles no line keeps Joint.
LEMMA PlumbingJoint ==
  ASSUME Joint, LoopProofs!IInv', plumbing
  PROVE  Joint'
<1> DEFINE gone == DOMAIN buffers \ DOMAIN buffers'
           new == DOMAIN buffers' \ DOMAIN buffers
<1>1. /\ VInv /\ IInv /\ DOMAIN clients = DOMAIN buffers
      /\ modeRun # Idle => pc = "handle"
  BY DEF Joint, VInv
<1>2. SameFlag' /\ ircFollows
  BY DEF plumbing
<1>3. /\ \/ pc' = "stopped"
         \/ DOMAIN buffers' = DOMAIN buffers
         \/ \E fd : DOMAIN buffers' = DOMAIN buffers \ {fd}
         \/ \E fd \in Fds : DOMAIN buffers' = DOMAIN buffers \cup {fd}
      /\ pc = "handle" => pc' = "handle" /\ buffers' = buffers
  BY PlumbingClients DEF plumbing
<1>4. CASE pc' = "stopped" /\ destroyIrcState
  <2>1. DOMAIN buffers' = {}
    BY <1>4 DEF LoopProofs!IInv, LoopProofs!Running, LoopProofs!Dead
  <2>2. DOMAIN clients' = {} /\ modeRun' = Idle
    BY <1>4 DEF destroyIrcState, EmptyMap
  <2>3. QED
    BY <1>2, <1>4, <2>1, <2>2, EmptiedServer DEF Joint
<1>5. CASE pc' # "stopped" /\ gone = {} /\ new = {} /\ UNCHANGED vars
  <2>1. VInv'
    BY <1>1, <1>5, IrcStep
  <2>2. clients' = clients /\ modeRun' = modeRun
    BY <1>5 DEF vars
  <2>3. DOMAIN buffers' = DOMAIN buffers
    BY <1>5
  <2>4. QED
    BY <1>1, <1>2, <1>3, <2>1, <2>2, <2>3 DEF Joint
<1>6. ASSUME pc' # "stopped", NEW fd \in gone, removeClient(fd)
      PROVE  Joint'
  <2>1. modeRun = Idle /\ modeRun' = Idle
    BY <1>1, <1>3, <1>6 DEF removeClient
  <2>2. fd \in DOMAIN clients
    BY <1>1
  <2>3. VInv'
    BY <1>1, <1>6, <2>1, <2>2, IrcStep DEF Next
  <2>4. DOMAIN clients' = DOMAIN clients \ {fd}
    BY <1>1, <1>6, <2>2, RemoveTouches
  <2>5. DOMAIN buffers' = DOMAIN buffers \ {fd}
    BY <1>3, <1>6
  <2>6. QED
    BY <1>1, <1>2, <2>1, <2>3, <2>4, <2>5 DEF Joint
<1>7. ASSUME pc' # "stopped", NEW fd \in new, acceptClient(fd)
      PROVE  Joint'
  <2>1. modeRun = Idle /\ modeRun' = Idle
    BY <1>1, <1>3, <1>7 DEF acceptClient
  <2>2. fd \in Fds /\ DOMAIN buffers' = DOMAIN buffers \cup {fd}
    BY <1>3, <1>7
  <2>3. VInv'
    BY <1>1, <1>7, <2>1, <2>2, IrcStep DEF Next
  <2>4. DOMAIN clients' = DOMAIN clients \cup {fd}
    BY <1>7 DEF acceptClient, With
  <2>5. QED
    BY <1>1, <1>2, <2>1, <2>2, <2>3, <2>4 DEF Joint
<1>8. QED
  BY <1>2, <1>4, <1>5, <1>6, <1>7 DEF ircFollows

\* The IRC side of a line: its sender's command, or one change of its MODE.
LEMMA LineStep ==
  ASSUME Joint, LoopProofs!IInv, handleCompleteLine
  PROVE  /\ pc = "handle" /\ Loop!Current \in DOMAIN clients
         /\ Next /\ OnlyTouches({Loop!Current})
         /\ DOMAIN buffers' = DOMAIN buffers
<1>1. IInv /\ DOMAIN clients = DOMAIN buffers
  BY DEF Joint, VInv
<1>2. pc = "handle"
  BY DEF handleCompleteLine, Loop!handleQuit, Loop!handleCompleteLine
<1>3. Loop!Current \in DOMAIN clients
  BY <1>1, <1>2, LoopFacts
<1>4. \/ modeRun = Idle /\ dispatchCommand(Loop!Current)
      \/ applyChannelModeChange
  BY DEF handleCompleteLine, dispatchCommand
<1>5. Next
  BY <1>3, <1>4 DEF Next
<1>6. OnlyTouches({Loop!Current})
  <2>1. CASE dispatchCommand(Loop!Current)
    BY <1>1, <1>3, <2>1, CommandTouches
  <2>2. CASE applyChannelModeChange
    BY <1>1, <2>2, ModeChangeTouches DEF OnlyTouches
  <2>3. QED
    BY <1>4, <2>1, <2>2
<1>7. DOMAIN buffers' = DOMAIN buffers
  BY DEF handleCompleteLine, Loop!handleQuit, Loop!handleCompleteLine, Loop!queued
<1>8. QED
  BY <1>2, <1>3, <1>5, <1>6, <1>7

\* A step that handles a line keeps Joint.
LEMMA LineJoint ==
  ASSUME Joint, LoopProofs!IInv, handleCompleteLine
  PROVE  Joint'
<1>1. VInv /\ DOMAIN clients = DOMAIN buffers
  BY DEF Joint
<1>2. Next /\ DOMAIN clients' = DOMAIN clients /\ DOMAIN buffers' = DOMAIN buffers
  BY LineStep DEF OnlyTouches
<1>3. VInv'
  BY <1>1, <1>2, IrcStep
<1>4. SameFlag' /\ (modeRun' # Idle => pc' = "handle")
  BY DEF handleCompleteLine
<1>5. QED
  BY <1>1, <1>2, <1>3, <1>4 DEF Joint

-----------------------------------------------------------------------------
(* The theorems *)

\* The whole server is an implementation of the poll loop: driving it with the
\* IRC layer's commands adds no step to the ones EventLoop allows.
THEOREM LoopImplemented == SystemSpec => Loop!Spec
<1>1. SystemInit => Loop!Init
  BY DEF SystemInit
<1>2. [SystemNext]_systemVars => [Loop!Next]_(Loop!vars)
  <2>1. SystemNext => Loop!Next
    BY DEF SystemNext, plumbing, handleCompleteLine, Loop!Next, Loop!step
  <2>2. UNCHANGED systemVars => UNCHANGED Loop!vars
    BY DEF systemVars, Loop!vars
  <2>3. QED
    BY <2>1, <2>2
<1>3. QED
  BY <1>1, <1>2, PTL DEF SystemSpec, Loop!Spec

\* The two halves of every Client object stay together, from accept() to its
\* deletion or the end of the server, and what each layer promises on its own
\* (the index, the memberships, the pictures) still holds when the loop decides
\* who acts and who is removed.
THEOREM LayersAgree == SystemSpec => []Joint
<1>1. Joint /\ LoopProofs!IInv /\ LoopProofs!IInv' /\ [SystemNext]_systemVars => Joint'
  <2> SUFFICES ASSUME Joint, LoopProofs!IInv, LoopProofs!IInv', [SystemNext]_systemVars
               PROVE  Joint'
    OBVIOUS
  <2>1. CASE UNCHANGED systemVars
    <3>1. UNCHANGED vars /\ buffers' = buffers /\ pc' = pc
      BY <2>1 DEF systemVars
    <3>2. VInv'
      BY <3>1, IrcStep DEF Joint
    <3>3. clients' = clients /\ modeRun' = modeRun
      BY <3>1 DEF vars
    <3>4. QED
      BY <3>1, <3>2, <3>3 DEF Joint, SameFlag
  <2>2. CASE plumbing
    BY <2>2, PlumbingJoint
  <2>3. CASE handleCompleteLine
    BY <2>3, LineJoint
  <2>4. QED
    BY <2>1, <2>2, <2>3 DEF SystemNext
<1>2. QED
  BY <1>1, JointInit, LoopInvariant, PTL DEF SystemSpec

\* No nickname in the history belongs to a client that has not quit.
Unclaimed == quitters \cap NickIdsOf(FALSE) = {}

LEMMA QuittersUnclaimed == SystemSpec => []Unclaimed
<1>1. SystemInit => Unclaimed
  BY DEF SystemInit, Unclaimed
<1>2. Unclaimed /\ [SystemNext]_systemVars => Unclaimed'
  <2>1. SystemNext => Unclaimed'
    BY DEF SystemNext, recordQuitters, Unclaimed
  <2>2. Unclaimed /\ UNCHANGED systemVars => Unclaimed'
    BY DEF systemVars, vars, Unclaimed, NickIdsOf, HasQuit
  <2>3. QED
    BY <2>1, <2>2
<1>3. QED
  BY <1>1, <1>2, PTL DEF SystemSpec

\* While no client of the server has quit, no client has a nickname of the history.
LEMMA QuittersGone ==
  ASSUME Joint, Unclaimed, LoopProofs!QuitReaped, pc \in {"enter", "poll"}
  PROVE  \A x \in DOMAIN clients :
           clients[x].nickname # NoNick => Fold[clients[x].nickname] \notin quitters
<1> SUFFICES ASSUME NEW x \in DOMAIN clients, clients[x].nickname # NoNick
             PROVE  Fold[clients[x].nickname] \notin quitters
  OBVIOUS
<1>1. HasQuit(x) = FALSE
  BY DEF HasQuit, LoopProofs!QuitReaped
<1>2. Fold[clients[x].nickname] \in NickIdsOf(FALSE)
  BY <1>1 DEF NickIdsOf
<1>3. QED
  BY <1>2 DEF Unclaimed

\* Nothing outlives a QUIT: when the server waits again, the nickname of a client
\* that quit since it last waited is in no index, no invitation and no picture,
\* unless somebody has taken it, and no entry leads to a client that is not there.
\* cleanupClientIrcState (Server.cpp:210-239) clears all of it, and
\* removeDisconnectedClients (Server.cpp:130) calls it in time.
THEOREM NoTraceLeft == SystemSpec => []QuitLeavesNoTrace
<1>1. LoopProofs!Spec => []LoopProofs!QuitReaped
  BY LoopProofs!NoQuitterWaits, LoopAssumption, PTL
<1>2. SystemInit => LoopProofs!Init
  BY SameInit DEF SystemInit
<1>3. SystemSpec => []LoopProofs!QuitReaped
  BY <1>1, <1>2, StepOfLoop, PTL DEF SystemSpec, LoopProofs!Spec
<1>4. Joint /\ Unclaimed /\ LoopProofs!QuitReaped => QuitLeavesNoTrace
  <2> SUFFICES ASSUME Joint, Unclaimed, LoopProofs!QuitReaped, pc \in {"enter", "poll"}
               PROVE  /\ \A id \in quitters :
                           /\ id \notin DOMAIN nicknameIndex
                           /\ \A k \in DOMAIN channels : id \notin channels[k].invitedUsers
                      /\ \A fd \in DOMAIN clients : ~clients[fd].disconnectRequested =>
                           \A k \in DOMAIN view[fd].chans :
                             \A n \in view[fd].chans[k].names : Fold[n] \notin quitters
                      /\ \A id \in DOMAIN nicknameIndex : nicknameIndex[id] \in DOMAIN clients
                      /\ \A k \in DOMAIN channels :
                           /\ channels[k].members # {}
                           /\ channels[k].members \subseteq DOMAIN clients
    BY DEF QuitLeavesNoTrace
  <2>1. \A x \in DOMAIN clients :
          clients[x].nickname # NoNick => Fold[clients[x].nickname] \notin quitters
    BY QuittersGone
  <2>2. VInv /\ IInv
    BY DEF Joint, VInv
  <2>3. \A id \in DOMAIN nicknameIndex :
          /\ nicknameIndex[id] \in DOMAIN clients
          /\ clients[nicknameIndex[id]].nickname # NoNick
          /\ Fold[clients[nicknameIndex[id]].nickname] = id
    BY <2>2 DEF IInv, Sound, IndexSound
  <2>4. \A id \in quitters : id \notin DOMAIN nicknameIndex
    BY <2>1, <2>3
  <2>5. \A k \in DOMAIN channels :
          /\ channels[k].members # {}
          /\ \A id \in channels[k].invitedUsers : id \in DOMAIN nicknameIndex
    BY <2>2 DEF IInv, Sound, ChannelsSound, ChannelSound
  <2>6. \A k \in DOMAIN channels : channels[k].members \subseteq DOMAIN clients
    BY <2>2, Named
  <2>7. ASSUME NEW fd \in DOMAIN clients, ~clients[fd].disconnectRequested,
               NEW k \in DOMAIN view[fd].chans, NEW n \in view[fd].chans[k].names
        PROVE  Fold[n] \notin quitters
    <3>1. view[fd] = Shown(clients, channels, fd)
      BY <2>2, <2>7, ViewIs DEF VInv
    <3>2. k \in DOMAIN channels /\ n \in NicksOf(clients, channels[k].members)
      BY <2>7, <3>1 DEF Shown, Pictures, On, Picture
    <3>3. PICK x \in channels[k].members : n = clients[x].nickname
      BY <3>2 DEF NicksOf
    <3>4. x \in DOMAIN clients /\ clients[x].nickname # NoNick
      BY <2>2, <3>2, Named, NameAssumption
    <3>5. QED
      BY <2>1, <3>3, <3>4
  <2>8. QED
    BY <2>3, <2>4, <2>5, <2>6, <2>7
<1>5. QED
  BY <1>3, <1>4, LayersAgree, QuittersUnclaimed, PTL

\* Marking a client that is marked changes nothing.
LEMMA MarkedTwice ==
  ASSUME NEW c \in Client, c.disconnectRequested
  PROVE  [c EXCEPT !.disconnectRequested = TRUE] = c
BY DEF Client

\* After its QUIT a client takes no further part: no step changes its
\* registration or its nickname, or enters it into a channel, until it is
\* removed (receiveFromClient leaves its loop, ServerSocket.cpp:217).
THEOREM QuitFinal == SystemSpec => QuitIsLast
<1>1. Joint /\ LoopProofs!IInv /\ [SystemNext]_systemVars
        => [QuittersUntouched]_systemVars
  <2> SUFFICES ASSUME Joint, LoopProofs!IInv, SystemNext,
                      NEW fd \in DOMAIN clients \cap DOMAIN clients', HasQuit(fd)
               PROVE  /\ clients'[fd] = clients[fd]
                      /\ \A k \in DOMAIN channels' :
                           fd \in channels'[k].members => IsMember(fd, k)
    BY DEF QuittersUntouched
  <2>1. IInv /\ clients[fd] \in Client
    BY DEF Joint, VInv, IInv, Sound, ClientMap
  <2>2. clients[fd].disconnectRequested
    BY LoopFacts DEF HasQuit, Joint, SameFlag
  <2>3. [clients[fd] EXCEPT !.disconnectRequested = TRUE] = clients[fd]
    BY <2>1, <2>2, MarkedTwice
  <2>4. CASE handleCompleteLine
    <3>1. OnlyTouches({Loop!Current}) /\ pc = "handle"
      BY <2>4, LineStep
    <3>2. fd # Loop!Current
      BY <3>1, LoopFacts DEF HasQuit
    <3>3. QED
      BY <2>3, <3>1, <3>2 DEF OnlyTouches
  <2>5. CASE plumbing
    <3>1. ircFollows
      BY <2>5 DEF plumbing
    <3>2. CASE destroyIrcState
      BY <3>2 DEF destroyIrcState, EmptyMap
    <3>3. CASE UNCHANGED vars
      BY <3>3 DEF vars, IsMember
    <3>4. ASSUME NEW x \in DOMAIN buffers, removeClient(x)
          PROVE  /\ clients'[fd] = clients[fd]
                 /\ \A k \in DOMAIN channels' :
                      fd \in channels'[k].members => IsMember(fd, k)
      <4>1. x \in DOMAIN clients
        BY DEF Joint
      <4>2. QED
        BY <2>1, <2>3, <3>4, <4>1, RemoveTouches
    <3>5. ASSUME NEW x, acceptClient(x)
          PROVE  /\ clients'[fd] = clients[fd]
                 /\ \A k \in DOMAIN channels' :
                      fd \in channels'[k].members => IsMember(fd, k)
      BY <3>5 DEF acceptClient, With, IsMember
    <3>6. QED
      BY <3>1, <3>2, <3>3, <3>4, <3>5 DEF ircFollows
  <2>6. QED
    BY <2>4, <2>5 DEF SystemNext
<1>2. QED
  BY <1>1, LayersAgree, LoopInvariant, PTL DEF SystemSpec, QuitIsLast
=============================================================================
