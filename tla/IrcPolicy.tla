------------------------------ MODULE IrcPolicy ------------------------------
(***************************************************************************)
(* What the server promises about access to channels, stated about         *)
(* connections alone: there are no nicknames, no folded strings and no     *)
(* index here.  An invitation is given to a connection and is lost with    *)
(* it; a fresh connection has no rights at all, whatever descriptor or     *)
(* nickname it ends up with; renaming is not even visible.                 *)
(***************************************************************************)
EXTENDS Naturals, FiniteSets

CONSTANTS Conns, ChanIds, Keys, Topics, NoKey, NoTopic, Idle

VARIABLES
  conns,   \* open connections
  authed,  \* those that completed PASS, NICK and USER
  chans,   \* existing channels
  acting   \* <<c, k>> while c's MODE command on k is being applied, or Idle

vars == <<conns, authed, chans, acting>>

Chan == [members : SUBSET Conns, operators : SUBSET Conns,
         invited : SUBSET Conns, inviteOnly : BOOLEAN,
         topicRestricted : BOOLEAN, topic : Topics \cup {NoTopic},
         key : Keys \cup {NoKey}, userLimit : Nat]

Fresh(c) == [members |-> {c}, operators |-> {c}, invited |-> {},
             inviteOnly |-> FALSE, topicRestricted |-> FALSE,
             topic |-> NoTopic, key |-> NoKey, userLimit |-> 0]

\* Channels after every channel was changed by F; one without members is gone.
Surviving(F) == [k \in {x \in DOMAIN F : F[x].members # {}} |-> F[k]]

Without(ch, c) == [ch EXCEPT !.members = @ \ {c}, !.operators = @ \ {c}]

Init == conns = {} /\ authed = {} /\ chans = [k \in {} |-> k] /\ acting = Idle

Connect(c) ==
  /\ c \notin conns
  /\ conns' = conns \cup {c}
  /\ UNCHANGED <<authed, chans, acting>>

Authenticate(c) ==
  /\ c \in conns \ authed
  /\ authed' = authed \cup {c}
  /\ UNCHANGED <<conns, chans, acting>>

\* Everything a connection held goes with it.
Leave(c) ==
  /\ c \in conns
  /\ conns' = conns \ {c}
  /\ authed' = authed \ {c}
  /\ chans' = Surviving([k \in DOMAIN chans |->
                [Without(chans[k], c) EXCEPT !.invited = @ \ {c}]])
  /\ UNCHANGED acting

Create(c, k) ==
  /\ c \in authed
  /\ k \notin DOMAIN chans
  /\ chans' = [x \in DOMAIN chans \cup {k} |->
                 IF x = k THEN Fresh(c) ELSE chans[x]]
  /\ UNCHANGED <<conns, authed, acting>>

\* Entry needs the connection's own invitation under +i, the key under +k, and
\* a free place under +l; it spends the invitation and gives no rights.
Join(c, k, key) ==
  /\ c \in authed
  /\ k \in DOMAIN chans
  /\ c \notin chans[k].members
  /\ chans[k].inviteOnly => c \in chans[k].invited
  /\ chans[k].key # NoKey => key = chans[k].key
  /\ chans[k].userLimit # 0 => Cardinality(chans[k].members) < chans[k].userLimit
  /\ chans' = [chans EXCEPT ![k].members = @ \cup {c}, ![k].invited = @ \ {c}]
  /\ UNCHANGED <<conns, authed, acting>>

Invite(c, t, k) ==
  /\ k \in DOMAIN chans
  /\ c \in authed \cap chans[k].operators
  /\ t \in conns \ chans[k].members
  /\ chans' = [chans EXCEPT ![k].invited = @ \cup {t}]
  /\ UNCHANGED <<conns, authed, acting>>

Kick(c, t, k) ==
  /\ k \in DOMAIN chans
  /\ c \in authed \cap chans[k].operators
  /\ t \in chans[k].members
  /\ chans' = Surviving([chans EXCEPT ![k] = Without(@, t)])
  /\ UNCHANGED <<conns, authed, acting>>

SetTopic(c, k, topic) ==
  /\ k \in DOMAIN chans
  /\ c \in authed \cap chans[k].members
  /\ chans[k].topicRestricted => c \in chans[k].operators
  /\ chans' = [chans EXCEPT ![k].topic = topic]
  /\ UNCHANGED <<conns, authed, acting>>

\* Only an operator starts a MODE command.
BeginMode(c, k) ==
  /\ k \in DOMAIN chans
  /\ c \in authed \cap chans[k].operators
  /\ acting' = <<c, k>>
  /\ UNCHANGED <<conns, authed, chans>>

\* A MODE command changes settings and the status of members of its channel,
\* never who is on it or invited to it.
ChangeMode ==
  \E c \in conns, k \in DOMAIN chans :
    /\ acting = <<c, k>>
    /\ acting' \in {acting, Idle}
    /\ DOMAIN chans' = DOMAIN chans
    /\ \A x \in DOMAIN chans \ {k} : chans'[x] = chans[x]
    /\ chans'[k] \in Chan
    /\ chans'[k].members = chans[k].members
    /\ chans'[k].operators \subseteq chans[k].members
    /\ chans'[k].invited = chans[k].invited
    /\ chans'[k].topic = chans[k].topic
    /\ UNCHANGED <<conns, authed>>

Next ==
  \/ /\ acting = Idle
     /\ \E c \in Conns :
          \/ Connect(c) \/ Authenticate(c) \/ Leave(c)
          \/ \E k \in ChanIds :
               \/ Create(c, k) \/ BeginMode(c, k)
               \/ \E key \in Keys \cup {NoKey} : Join(c, k, key)
               \/ \E topic \in Topics \cup {NoTopic} : SetTopic(c, k, topic)
               \/ \E t \in Conns : Invite(c, t, k) \/ Kick(c, t, k)
  \/ ChangeMode

Spec == Init /\ [][Next]_vars
=============================================================================
