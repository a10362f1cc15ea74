----------------------------- MODULE IrcReplica -----------------------------
(***************************************************************************)
(* The other end of a connection: what an IRC client (irssi, the reference *)
(* client of the repository) knows of the channels it is on, from nothing  *)
(* but the lines the server sent to it.  External to the repository; used  *)
(* to state that the lines the server queues are the right ones.           *)
(***************************************************************************)
EXTENDS IrcTypes

BlankView == [synced |-> TRUE, chans |-> EmptyMap]

\* The nicknames in S that a line naming n is about: clients compare
\* nicknames under the RFC 1459 case mapping.
Same(S, n) == {m \in S : Fold[m] = Fold[n]}

\* The line is about a channel and a user the client knows of; a JOIN about a
\* user it does not yet see.  A NICK line is also sensible when it is about
\* the client itself, on no channel at all.
Sensible(v, self, m) ==
  LET on(k, n) == k \in DOMAIN v.chans /\ Same(v.chans[k].names, n) # {}
  IN CASE m.cmd = "JOINED" -> m.chan \notin DOMAIN v.chans
       [] m.cmd = "JOIN"   -> /\ m.chan \in DOMAIN v.chans
                              /\ ~ on(m.chan, m.nick)
       [] m.cmd \in {"KICK", "MODE"} -> on(m.chan, m.nick)
       [] m.cmd = "TOPIC"  -> m.chan \in DOMAIN v.chans
       [] m.cmd = "QUIT"   -> \E k \in DOMAIN v.chans : on(k, m.nick)
       [] m.cmd = "NICK"   -> \/ m.new = self
                              \/ \E k \in DOMAIN v.chans : on(k, m.nick)
       [] OTHER            -> TRUE

Drop(c, n) == [c EXCEPT !.names = @ \ Same(@, n), !.ops = @ \ Same(@, n)]
Rename(S, old, new) ==
  IF Same(S, old) = {} THEN S ELSE (S \ Same(S, old)) \cup {new}

\* The channels a client knows after line m; self is its own nickname.
Applied(chans, self, m) ==
  CASE m.cmd = "JOINED" ->
         With(chans, m.chan, [names |-> m.names, ops |-> m.ops, topic |-> m.topic])
    [] m.cmd = "JOIN" -> [chans EXCEPT ![m.chan].names = @ \cup {m.nick}]
    [] m.cmd = "KICK" ->
         IF Fold[m.nick] = Fold[self] THEN Without(chans, {m.chan})
         ELSE [chans EXCEPT ![m.chan] = Drop(@, m.nick)]
    [] m.cmd = "QUIT" -> [k \in DOMAIN chans |-> Drop(chans[k], m.nick)]
    [] m.cmd = "NICK" ->
         [k \in DOMAIN chans |->
            [chans[k] EXCEPT !.names = Rename(@, m.nick, m.new),
                             !.ops = Rename(@, m.nick, m.new)]]
    [] m.cmd = "MODE" ->
         [chans EXCEPT ![m.chan].ops =
            IF m.adding THEN @ \cup Same(chans[m.chan].names, m.nick)
                        ELSE @ \ Same(@, m.nick)]
    [] m.cmd = "TOPIC" -> [chans EXCEPT ![m.chan].topic = m.topic]
    [] OTHER -> chans

\* A line that makes no sense to the client leaves it out of sync for good.
ClientApply(v, self, m) ==
  IF Sensible(v, self, m)
  THEN [v EXCEPT !.chans = Applied(@, self, m)]
  ELSE [v EXCEPT !.synced = FALSE]
=============================================================================
