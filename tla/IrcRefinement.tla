--------------------------- MODULE IrcRefinement ---------------------------
(***************************************************************************)
(* The server implements the access policy: invitations kept as folded     *)
(* nicknames, looked up and renamed through _nicknameIndex, behave like    *)
(* invitations given to connections.                                       *)
(***************************************************************************)
EXTENDS IrcServer

\* The connections whose present nickname is on the invitation list.
Invited(ch) == {fd \in DOMAIN clients :
                  /\ clients[fd].nickname # NoNick
                  /\ Fold[clients[fd].nickname] \in ch.invitedUsers}

AbstractChannel(ch) ==
  [members |-> ch.members, operators |-> ch.operators, invited |-> Invited(ch),
   inviteOnly |-> ch.inviteOnly, topicRestricted |-> ch.topicRestricted,
   topic |-> ch.topic, key |-> ch.key, userLimit |-> ch.userLimit]

AbstractChannels == [k \in DOMAIN channels |-> AbstractChannel(channels[k])]

Policy == INSTANCE IrcPolicy WITH
  Conns  <- Fds,
  conns  <- DOMAIN clients,
  authed <- {fd \in DOMAIN clients : clients[fd].registered},
  chans  <- AbstractChannels,
  acting <- IF modeRun = Idle THEN Idle ELSE <<modeRun.fd, modeRun.chan>>

\* Every step of the server is a step the policy allows, or changes nothing the
\* policy speaks of: only an operator's connection invites, kicks and sets modes,
\* only an invited connection enters an invite-only channel, one invitation admits
\* once, and renaming, descriptor reuse and nickname reuse transfer no right.
PolicyKept == Policy!Spec
=============================================================================
