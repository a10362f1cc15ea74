----------------------------- MODULE IrcSystem -----------------------------
(***************************************************************************)
(* The whole server: the IRC layer of IrcServer driven by the poll loop of *)
(* EventLoop.  A connection is one entry of IrcServer's clients and one of *)
(* EventLoop's (here buffers, the other half of the same Client object).   *)
(* IrcServer alone lets any client act at any time; here a command is      *)
(* handled only when the loop took a complete line off that client's       *)
(* buffer, a client is removed only where the loop removes it, and a line  *)
(* that does not fit a buffer dooms exactly the clients IrcServer marks.   *)
(* A handler queues to any of the clients that IrcServer allows, and may   *)
(* fill other buffers that have room.                                      *)
(***************************************************************************)
EXTENDS IrcServer

CONSTANTS Listener, MaxOutput, MaxInput, Chunk, Events

ASSUME LoopAssumption ==
  /\ Listener \notin Fds
  /\ Events \subseteq {"IN", "OUT", "HUP", "ERR"}
  /\ MaxOutput \in Nat \ {0} /\ MaxInput \in Nat /\ Chunk \in Nat \ {0}

VARIABLES
  pollFds, buffers, open, pc, i, stop, ready,
  quitters  \* history: folded nicknames whose owner quit since the last poll()

Loop == INSTANCE EventLoop WITH clients <- buffers

systemVars == <<vars, pollFds, buffers, open, pc, i, stop, ready, quitters>>

-----------------------------------------------------------------------------

HasQuit(fd) == fd \in DOMAIN buffers /\ buffers[fd].quit

\* The folded nicknames of the connected clients, those that quit or the others.
NickIdsOf(quit) ==
  {Fold[clients[fd].nickname] :
     fd \in {x \in DOMAIN clients : clients[x].nickname # NoNick /\ HasQuit(x) = quit}}

\* The history: the nickname of a client that quits, until somebody takes it or
\* the server has waited once more.  No step reads it.
recordQuitters ==
  quitters' = IF pc = "poll" THEN {}
              ELSE (quitters \cup NickIdsOf(TRUE)') \ NickIdsOf(FALSE)'

\* _disconnectRequested is one field of one object.
SameFlag ==
  \A fd \in DOMAIN buffers : buffers[fd].doomed = clients[fd].disconnectRequested

\* ~Server deletes the channels and the clients.
destroyIrcState ==
  /\ clients' = EmptyMap /\ nicknameIndex' = EmptyMap /\ channels' = EmptyMap
  /\ modeRun' = Idle /\ view' = EmptyMap

\* The IRC side of a step that handles no line: a connection is accepted or
\* removed, the server is destroyed, or nothing.
ircFollows ==
  LET gone == DOMAIN buffers \ DOMAIN buffers'
      new == DOMAIN buffers' \ DOMAIN buffers
  IN \/ pc' = "stopped" /\ destroyIrcState
     \/ pc' # "stopped" /\ gone = {} /\ new = {} /\ UNCHANGED vars
     \/ pc' # "stopped" /\ \E fd \in gone : removeClient(fd)
     \/ pc' # "stopped" /\ \E fd \in new : acceptClient(fd)

\* A line is handled; MODE takes a step for each of its changes.
handleCompleteLine ==
  /\ \/ Loop!handleQuit /\ modeRun = Idle /\ handleQuit(Loop!Current)
     \/ /\ Loop!handleCompleteLine
        /\ IF modeRun = Idle THEN dispatchCommand(Loop!Current)
                            ELSE applyChannelModeChange
  /\ pc' = "handle" <=> modeRun' # Idle
  /\ SameFlag'

plumbing ==
  /\ Loop!plumbing \/ Loop!poll \/ Loop!pollFails \/ Loop!handleSignal
  /\ ircFollows
  /\ SameFlag'

SystemInit == Init /\ Loop!Init /\ quitters = {}
SystemNext == (plumbing \/ handleCompleteLine) /\ recordQuitters
SystemSpec == SystemInit /\ [][SystemNext]_systemVars

-----------------------------------------------------------------------------
(* Properties *)

\* A step leaves those who quit as they are, and enters them into no channel.
QuittersUntouched ==
  \A fd \in DOMAIN clients \cap DOMAIN clients' :
    HasQuit(fd) =>
      /\ clients'[fd] = clients[fd]
      /\ \A k \in DOMAIN channels' : fd \in channels'[k].members => IsMember(fd, k)

\* A QUIT is the last thing its sender does to the IRC state: whatever followed
\* it in the same read, and whoever was served before the sender is removed,
\* the sender's registration and nickname stay as they are and it enters no
\* channel.
QuitIsLast == [][QuittersUntouched]_systemVars

\* When the server waits again, a client that quit since it last waited has left
\* no trace, whoever was served in between (cleanupClientIrcState,
\* Server.cpp:210-239): its nickname is free unless another client has taken it, no
\* invitation waits in its name, nobody who is not about to be cut off sees it on a
\* channel, the index and the channels lead only to connected clients, and a
\* channel that it was the last to leave no longer exists.
QuitLeavesNoTrace ==
  pc \in {"enter", "poll"} =>
    /\ \A id \in quitters :
         /\ id \notin DOMAIN nicknameIndex
         /\ \A k \in DOMAIN channels : id \notin channels[k].invitedUsers
    /\ \A fd \in DOMAIN clients : ~clients[fd].disconnectRequested =>
         \A k \in DOMAIN view[fd].chans : \A n \in view[fd].chans[k].names :
           Fold[n] \notin quitters
    /\ \A id \in DOMAIN nicknameIndex : nicknameIndex[id] \in DOMAIN clients
    /\ \A k \in DOMAIN channels : /\ channels[k].members # {}
                                  /\ channels[k].members \subseteq DOMAIN clients
=============================================================================
