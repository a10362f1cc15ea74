------------------------ MODULE ChannelObjectProofs ------------------------
(***************************************************************************)
(* RecordFaithful of ChannelObject, for every value of the constants: the  *)
(* record that IrcServer keeps for a channel decides, changes and stays    *)
(* silent exactly where the object of class Channel does.                  *)
(*                                                                         *)
(* The record drops the flags _hasKey and _hasUserLimit; that is right     *)
(* because every call of the handlers keeps FlagsRight.  Given that, each  *)
(* operation is compared field by field (SameRecord).                      *)
(***************************************************************************)
EXTENDS ChannelObject, TLAPS

MemberMaps == UNION {[S -> BOOLEAN] : S \in SUBSET Fds}

Object == [topic : Topics \cup {NoTopic}, members : MemberMaps,
           invitedUsers : SUBSET NickIds,
           inviteOnly : BOOLEAN, topicRestricted : BOOLEAN,
           hasKey : BOOLEAN, key : Keys \cup {NoKey},
           hasUserLimit : BOOLEAN, userLimit : Nat]

\* A flag is set exactly when its value is not the one that stands for none.
FlagsRight(c) ==
  /\ c.hasKey <=> c.key # NoKey
  /\ c.hasUserLimit <=> c.userLimit # 0

\* The inductive invariant.
IInv == channel # NoChannel => channel \in Object /\ FlagsRight(channel)

\* What Record makes of an object.
RecordSet == [name : {Name}, topic : Topics \cup {NoTopic},
              members : SUBSET Fds, operators : SUBSET Fds,
              invitedUsers : SUBSET NickIds,
              inviteOnly : BOOLEAN, topicRestricted : BOOLEAN,
              key : Keys \cup {NoKey}, userLimit : Nat]

Operators(f) == {fd \in DOMAIN f : f[fd]}

-----------------------------------------------------------------------------
(* Member maps *)

\* What a member map is.
LEMMA MapIs ==
  ASSUME NEW f \in MemberMaps
  PROVE  /\ DOMAIN f \subseteq Fds
         /\ \A fd \in DOMAIN f : f[fd] \in BOOLEAN
         /\ f = [fd \in DOMAIN f |-> f[fd]]
<1>1. PICK S \in SUBSET Fds : f \in [S -> BOOLEAN]
  BY DEF MemberMaps
<1>2. QED
  BY <1>1

LEMMA IsMap ==
  ASSUME NEW S \in SUBSET Fds, NEW f \in [S -> BOOLEAN]
  PROVE  f \in MemberMaps
BY DEF MemberMaps

\* The empty map, insertion, erasure and assignment.
LEMMA EmptyIsMap == EmptyMap \in MemberMaps /\ DOMAIN EmptyMap = {}
<1>1. {} \in SUBSET Fds /\ EmptyMap \in [{} -> BOOLEAN]
  BY DEF EmptyMap
<1>2. QED
  BY <1>1, IsMap DEF EmptyMap

LEMMA WithIsMap ==
  ASSUME NEW f \in MemberMaps, NEW fd \in Fds, NEW b \in BOOLEAN
  PROVE  /\ With(f, fd, b) \in MemberMaps
         /\ DOMAIN With(f, fd, b) = DOMAIN f \cup {fd}
         /\ fd \notin DOMAIN f =>
              Operators(With(f, fd, b)) = IF b THEN Operators(f) \cup {fd} ELSE Operators(f)
<1> DEFINE g == With(f, fd, b)
<1>1. DOMAIN f \subseteq Fds /\ \A x \in DOMAIN f : f[x] \in BOOLEAN
  BY MapIs
<1>2. DOMAIN f \cup {fd} \in SUBSET Fds /\ g \in [DOMAIN f \cup {fd} -> BOOLEAN]
  BY <1>1 DEF With
<1>3. g \in MemberMaps
  BY <1>2, IsMap
<1>4. DOMAIN g = DOMAIN f \cup {fd} /\ g[fd] = b
      /\ \A x \in DOMAIN f \ {fd} : g[x] = f[x]
  BY DEF With
<1> HIDE DEF g
<1>5. ASSUME fd \notin DOMAIN f
      PROVE  Operators(g) = IF b THEN Operators(f) \cup {fd} ELSE Operators(f)
  BY <1>4, <1>5 DEF Operators
<1>6. QED
  BY <1>3, <1>4, <1>5 DEF g

LEMMA WithoutIsMap ==
  ASSUME NEW f \in MemberMaps, NEW fd
  PROVE  /\ Without(f, {fd}) \in MemberMaps
         /\ DOMAIN Without(f, {fd}) = DOMAIN f \ {fd}
         /\ Operators(Without(f, {fd})) = Operators(f) \ {fd}
<1>1. DOMAIN f \subseteq Fds /\ \A x \in DOMAIN f : f[x] \in BOOLEAN
  BY MapIs
<1>2. DOMAIN f \ {fd} \in SUBSET Fds /\ Without(f, {fd}) \in [DOMAIN f \ {fd} -> BOOLEAN]
  BY <1>1 DEF Without
<1>3. Without(f, {fd}) \in MemberMaps
  BY <1>2, IsMap
<1>4. QED
  BY <1>3 DEF Without, Operators

LEMMA AssignIsMap ==
  ASSUME NEW f \in MemberMaps, NEW fd \in DOMAIN f, NEW b \in BOOLEAN
  PROVE  /\ [f EXCEPT ![fd] = b] \in MemberMaps
         /\ DOMAIN [f EXCEPT ![fd] = b] = DOMAIN f
         /\ Operators([f EXCEPT ![fd] = b])
              = IF b THEN Operators(f) \cup {fd} ELSE Operators(f) \ {fd}
<1> DEFINE g == [f EXCEPT ![fd] = b]
<1>1. /\ DOMAIN f \subseteq Fds /\ \A x \in DOMAIN f : f[x] \in BOOLEAN
      /\ f = [x \in DOMAIN f |-> f[x]]
  BY MapIs
<1>2. DOMAIN f \in SUBSET Fds /\ g \in [DOMAIN f -> BOOLEAN]
  BY <1>1
<1>3. g \in MemberMaps
  BY <1>2, IsMap
<1>4. DOMAIN g = DOMAIN f /\ g[fd] = b /\ \A x \in DOMAIN f \ {fd} : g[x] = f[x]
  OBVIOUS
<1> HIDE DEF g
<1>5. Operators(g) = IF b THEN Operators(f) \cup {fd} ELSE Operators(f) \ {fd}
  BY <1>4 DEF Operators
<1>6. QED
  BY <1>3, <1>4, <1>5 DEF g

-----------------------------------------------------------------------------
(* Records *)

\* The fields of the record of an object.
LEMMA RecordIs ==
  ASSUME NEW c \in Object
  PROVE  /\ Record(c) \in RecordSet
         /\ Record(c).topic = c.topic
         /\ Record(c).members = DOMAIN c.members
         /\ Record(c).operators = Operators(c.members)
         /\ Record(c).invitedUsers = c.invitedUsers
         /\ Record(c).inviteOnly = c.inviteOnly
         /\ Record(c).topicRestricted = c.topicRestricted
         /\ Record(c).key = c.key
         /\ Record(c).userLimit = c.userLimit
<1>1. c.members \in MemberMaps
  BY DEF Object
<1>2. DOMAIN c.members \subseteq Fds /\ Operators(c.members) \subseteq Fds
  BY <1>1, MapIs DEF Operators
<1>3. Record(c) = [name |-> Name, topic |-> c.topic, members |-> DOMAIN c.members,
                   operators |-> Operators(c.members),
                   invitedUsers |-> c.invitedUsers, inviteOnly |-> c.inviteOnly,
                   topicRestricted |-> c.topicRestricted, key |-> c.key,
                   userLimit |-> c.userLimit]
  BY DEF Record, Operators
<1>4. QED
  BY <1>2, <1>3 DEF Object, RecordSet

\* Two records are equal when their fields are.
LEMMA SameRecord ==
  ASSUME NEW r \in RecordSet, NEW s \in RecordSet
  PROVE  r = s <=> /\ r.topic = s.topic /\ r.members = s.members
                   /\ r.operators = s.operators
                   /\ r.invitedUsers = s.invitedUsers
                   /\ r.inviteOnly = s.inviteOnly
                   /\ r.topicRestricted = s.topicRestricted
                   /\ r.key = s.key /\ r.userLimit = s.userLimit
BY DEF RecordSet

\* new is the record of d; it is the record of c when nothing that the record
\* keeps has changed.
LEMMA Compared ==
  ASSUME NEW c \in Object, NEW d \in Object, NEW new \in RecordSet,
         new.topic = d.topic, new.members = DOMAIN d.members,
         new.operators = Operators(d.members),
         new.invitedUsers = d.invitedUsers, new.inviteOnly = d.inviteOnly,
         new.topicRestricted = d.topicRestricted,
         new.key = d.key, new.userLimit = d.userLimit
  PROVE  /\ Record(d) = new
         /\ new = Record(c) <=> /\ c.topic = d.topic
                                /\ DOMAIN c.members = DOMAIN d.members
                                /\ Operators(c.members) = Operators(d.members)
                                /\ c.invitedUsers = d.invitedUsers
                                /\ c.inviteOnly = d.inviteOnly
                                /\ c.topicRestricted = d.topicRestricted
                                /\ c.key = d.key /\ c.userLimit = d.userLimit
<1> DEFINE r == Record(c)
           s == Record(d)
<1>1. /\ r \in RecordSet /\ r.topic = c.topic /\ r.members = DOMAIN c.members
      /\ r.operators = Operators(c.members) /\ r.invitedUsers = c.invitedUsers
      /\ r.inviteOnly = c.inviteOnly /\ r.topicRestricted = c.topicRestricted
      /\ r.key = c.key /\ r.userLimit = c.userLimit
  BY RecordIs
<1>2. /\ s \in RecordSet /\ s.topic = d.topic /\ s.members = DOMAIN d.members
      /\ s.operators = Operators(d.members) /\ s.invitedUsers = d.invitedUsers
      /\ s.inviteOnly = d.inviteOnly /\ s.topicRestricted = d.topicRestricted
      /\ s.key = d.key /\ s.userLimit = d.userLimit
  BY RecordIs
<1> HIDE DEF r, s
<1>3. s = new
  BY <1>2, SameRecord
<1>4. new = r <=> /\ c.topic = d.topic
                  /\ DOMAIN c.members = DOMAIN d.members
                  /\ Operators(c.members) = Operators(d.members)
                  /\ c.invitedUsers = d.invitedUsers
                  /\ c.inviteOnly = d.inviteOnly
                  /\ c.topicRestricted = d.topicRestricted
                  /\ c.key = d.key /\ c.userLimit = d.userLimit
  BY <1>1, SameRecord
<1>5. QED
  BY <1>3, <1>4 DEF r, s

-----------------------------------------------------------------------------
(* Lookups *)

\* A nickname has one owner, which is what IrcServer's index finds.
LEMMA OwnerFound ==
  ASSUME NEW n \in {NickOf[fd] : fd \in Fds}
  PROVE  Owner(n) \in Fds /\ Irc!findClientByNickname(n) = {Owner(n)}
<1> DEFINE index == [id \in {Fold[NickOf[fd]] : fd \in Fds} |->
                       CHOOSE fd \in Fds : Fold[NickOf[fd]] = id]
<1>1. Owner(n) \in Fds /\ NickOf[Owner(n)] = n
  BY DEF Owner
<1>2. Fold[n] \in DOMAIN index
  BY <1>1
<1>3. index[Fold[n]] \in Fds /\ Fold[NickOf[index[Fold[n]]]] = Fold[n]
  BY <1>1, <1>2
<1>4. index[Fold[n]] = Owner(n)
  BY <1>1, <1>3, ChannelAssumption
<1>5. Irc!findClientByNickname(n)
        = IF Fold[n] \in DOMAIN index THEN {index[Fold[n]]} \cap Fds ELSE {}
  BY DEF Irc!findClientByNickname
<1> HIDE DEF index
<1>6. QED
  BY <1>1, <1>2, <1>4, <1>5

\* The nickname that IrcServer sees for a client.
LEMMA NickSeen ==
  ASSUME NEW fd \in Fds
  PROVE  [x \in Fds |-> [NewClient EXCEPT !.nickname = NickOf[x]]][fd].nickname
           = NickOf[fd]
<1>1. NewClient \in Client
  BY DEF NewClient, Client
<1>2. [NewClient EXCEPT !.nickname = NickOf[fd]].nickname = NickOf[fd]
  BY <1>1 DEF Client
<1>3. QED
  BY <1>2

-----------------------------------------------------------------------------
(* The operations *)

\* The checks of JOIN let the same clients in.
LEMMA SameAdmission ==
  ASSUME NEW c \in Object, FlagsRight(c), NEW fd \in Fds, NEW key
  PROVE  mayJoin(c, fd, key) <=> Irc!Admitted(fd, Record(c), key)
<1> DEFINE r == Record(c)
<1>1. /\ r.members = DOMAIN c.members /\ r.invitedUsers = c.invitedUsers
      /\ r.inviteOnly = c.inviteOnly /\ r.key = c.key /\ r.userLimit = c.userLimit
  BY RecordIs
<1> HIDE DEF r
<1> DEFINE cl == [x \in Fds |-> [NewClient EXCEPT !.nickname = NickOf[x]]]
<1>2. Irc!Admitted(fd, r, key) <=>
        /\ r.inviteOnly => Fold[cl[fd].nickname] \in r.invitedUsers
        /\ r.key # NoKey => key = r.key
        /\ r.userLimit # 0 => Cardinality(r.members) < r.userLimit
  BY DEF Irc!Admitted, Irc!Cardinality, Cardinality
<1>3. cl[fd].nickname = NickOf[fd]
  BY NickSeen
<1> HIDE DEF cl
<1>4. QED
  BY <1>1, <1>2, <1>3 DEF mayJoin, FlagsRight, isInvited, getMemberCount, r

\* addMember and removeInvite.
LEMMA SameJoin ==
  ASSUME NEW c \in Object, FlagsRight(c), NEW fd \in Fds, ~hasMember(c, fd)
  PROVE  /\ join(c, fd) \in Object /\ FlagsRight(join(c, fd))
         /\ Record(join(c, fd)) = Irc!Joined(fd, Record(c))
<1> DEFINE f == With(c.members, fd, FALSE)
           id == Fold[NickOf[fd]]
           d == [c EXCEPT !.members = f]
           e == [d EXCEPT !.invitedUsers = @ \ {id}]
           r == Record(c)
           new == [r EXCEPT !.members = @ \cup {fd}, !.invitedUsers = @ \ {id}]
<1>1. /\ f \in MemberMaps /\ DOMAIN f = DOMAIN c.members \cup {fd}
      /\ Operators(f) = Operators(c.members)
  BY WithIsMap DEF Object, hasMember
<1>2. join(c, fd) = e
  BY DEF join, addMember, removeInvite
<1>3. Irc!Joined(fd, r) = new
  BY NickSeen DEF Irc!Joined
<1> HIDE DEF f, id
<1>4. d \in Object /\ d = [c EXCEPT !.members = f]
  BY <1>1 DEF Object
<1> HIDE DEF d
<1>5. e \in Object
  BY <1>4 DEF Object
<1>6. /\ e.topic = c.topic /\ e.members = f /\ e.invitedUsers = c.invitedUsers \ {id}
      /\ e.inviteOnly = c.inviteOnly /\ e.topicRestricted = c.topicRestricted
      /\ e.hasKey = c.hasKey /\ e.key = c.key
      /\ e.hasUserLimit = c.hasUserLimit /\ e.userLimit = c.userLimit
  BY <1>4 DEF Object
<1> HIDE DEF e
<1>7. /\ r \in RecordSet /\ r.topic = c.topic /\ r.members = DOMAIN c.members
      /\ r.operators = Operators(c.members) /\ r.invitedUsers = c.invitedUsers
      /\ r.inviteOnly = c.inviteOnly /\ r.topicRestricted = c.topicRestricted
      /\ r.key = c.key /\ r.userLimit = c.userLimit
  BY RecordIs
<1> HIDE DEF r
<1>8. /\ new \in RecordSet /\ new.topic = r.topic /\ new.members = r.members \cup {fd}
      /\ new.operators = r.operators /\ new.invitedUsers = r.invitedUsers \ {id}
      /\ new.inviteOnly = r.inviteOnly /\ new.topicRestricted = r.topicRestricted
      /\ new.key = r.key /\ new.userLimit = r.userLimit
  BY <1>7 DEF RecordSet
<1> HIDE DEF new
<1>9. Record(e) = new
  <2>1. /\ new.topic = e.topic /\ new.members = DOMAIN e.members
        /\ new.operators = Operators(e.members)
        /\ new.invitedUsers = e.invitedUsers /\ new.inviteOnly = e.inviteOnly
        /\ new.topicRestricted = e.topicRestricted
        /\ new.key = e.key /\ new.userLimit = e.userLimit
    BY <1>1, <1>6, <1>7, <1>8
  <2>2. new \in RecordSet
    BY <1>8
  <2>3. QED
    BY ONLY <1>5, <2>1, <2>2, Compared
<1>10. FlagsRight(e)
  BY <1>6 DEF FlagsRight
<1>11. QED
  BY <1>2, <1>3, <1>5, <1>9, <1>10 DEF r

\* eraseMember.
LEMMA SameDeparture ==
  ASSUME NEW c \in Object, FlagsRight(c), NEW fd
  PROVE  /\ eraseMember(c, fd) \in Object /\ FlagsRight(eraseMember(c, fd))
         /\ Record(eraseMember(c, fd)) = removeMember(Record(c), fd)
<1> DEFINE f == Without(c.members, {fd})
           e == [c EXCEPT !.members = f]
           r == Record(c)
           new == [r EXCEPT !.members = @ \ {fd}, !.operators = @ \ {fd}]
<1>1. /\ f \in MemberMaps /\ DOMAIN f = DOMAIN c.members \ {fd}
      /\ Operators(f) = Operators(c.members) \ {fd}
  BY WithoutIsMap DEF Object
<1>2. eraseMember(c, fd) = e /\ removeMember(r, fd) = new
  BY DEF eraseMember, removeMember
<1> HIDE DEF f
<1>3. e \in Object
  BY <1>1 DEF Object
<1>4. /\ e.topic = c.topic /\ e.members = f /\ e.invitedUsers = c.invitedUsers
      /\ e.inviteOnly = c.inviteOnly /\ e.topicRestricted = c.topicRestricted
      /\ e.hasKey = c.hasKey /\ e.key = c.key
      /\ e.hasUserLimit = c.hasUserLimit /\ e.userLimit = c.userLimit
  BY DEF Object
<1> HIDE DEF e
<1>5. /\ r \in RecordSet /\ r.topic = c.topic /\ r.members = DOMAIN c.members
      /\ r.operators = Operators(c.members) /\ r.invitedUsers = c.invitedUsers
      /\ r.inviteOnly = c.inviteOnly /\ r.topicRestricted = c.topicRestricted
      /\ r.key = c.key /\ r.userLimit = c.userLimit
  BY RecordIs
<1> HIDE DEF r
<1>6. /\ new \in RecordSet /\ new.topic = r.topic /\ new.members = r.members \ {fd}
      /\ new.operators = r.operators \ {fd} /\ new.invitedUsers = r.invitedUsers
      /\ new.inviteOnly = r.inviteOnly /\ new.topicRestricted = r.topicRestricted
      /\ new.key = r.key /\ new.userLimit = r.userLimit
  BY <1>5 DEF RecordSet
<1> HIDE DEF new
<1>7. Record(e) = new
  <2>1. /\ new.topic = e.topic /\ new.members = DOMAIN e.members
        /\ new.operators = Operators(e.members)
        /\ new.invitedUsers = e.invitedUsers /\ new.inviteOnly = e.inviteOnly
        /\ new.topicRestricted = e.topicRestricted
        /\ new.key = e.key /\ new.userLimit = e.userLimit
    BY <1>1, <1>4, <1>5, <1>6
  <2>2. new \in RecordSet
    BY <1>6
  <2>3. QED
    BY ONLY <1>3, <2>1, <2>2, Compared
<1>8. FlagsRight(e)
  BY <1>4 DEF FlagsRight
<1>9. QED
  BY <1>2, <1>3, <1>7, <1>8 DEF r

\* What IrcServer's record becomes with one change of a MODE command.
Answer(r, m) == IF Irc!ModeRefused(r, m) THEN r ELSE Irc!ModeApplied(r, m)

\* The object d that a change makes of c is in order, its record is new, and
\* the change is announced when new is another record than that of c.
Matches(c, d, new, tell) ==
  /\ d \in Object /\ FlagsRight(d)
  /\ Record(d) = new
  /\ tell <=> new # Record(c)

\* A change that is refused, or that no channel knows.
LEMMA RefusedMatches ==
  ASSUME NEW c \in Object, FlagsRight(c)
  PROVE  Matches(c, c, Record(c), FALSE)
BY DEF Matches

\* +i, -i, +t and -t.
LEMMA FlagMatches ==
  ASSUME NEW c \in Object, FlagsRight(c), NEW b \in BOOLEAN
  PROVE  /\ Matches(c, [c EXCEPT !.inviteOnly = b],
                    [Record(c) EXCEPT !.inviteOnly = b], c.inviteOnly # b)
         /\ Matches(c, [c EXCEPT !.topicRestricted = b],
                    [Record(c) EXCEPT !.topicRestricted = b], c.topicRestricted # b)
<1> DEFINE r == Record(c)
<1>1. /\ r \in RecordSet /\ r.topic = c.topic /\ r.members = DOMAIN c.members
      /\ r.operators = Operators(c.members) /\ r.invitedUsers = c.invitedUsers
      /\ r.inviteOnly = c.inviteOnly /\ r.topicRestricted = c.topicRestricted
      /\ r.key = c.key /\ r.userLimit = c.userLimit
  BY RecordIs
<1> HIDE DEF r
<1>2. Matches(c, [c EXCEPT !.inviteOnly = b], [r EXCEPT !.inviteOnly = b],
              c.inviteOnly # b)
  <2> DEFINE d == [c EXCEPT !.inviteOnly = b]
             new == [r EXCEPT !.inviteOnly = b]
  <2>1. /\ d \in Object /\ d.topic = c.topic /\ d.members = c.members
        /\ d.invitedUsers = c.invitedUsers /\ d.inviteOnly = b
        /\ d.topicRestricted = c.topicRestricted
        /\ d.hasKey = c.hasKey /\ d.key = c.key
        /\ d.hasUserLimit = c.hasUserLimit /\ d.userLimit = c.userLimit
    BY DEF Object
  <2>2. new \in RecordSet
    BY <1>1 DEF RecordSet
  <2>3. /\ new.topic = r.topic /\ new.members = r.members
        /\ new.operators = r.operators /\ new.invitedUsers = r.invitedUsers
        /\ new.inviteOnly = b /\ new.topicRestricted = r.topicRestricted
        /\ new.key = r.key /\ new.userLimit = r.userLimit
    BY <1>1 DEF RecordSet
  <2> HIDE DEF d, new
  <2>4. Record(d) = new /\ (new = r <=> c.inviteOnly = b)
    BY <1>1, <2>1, <2>2, <2>3, Compared DEF r
  <2>5. QED
    BY <2>1, <2>4 DEF Matches, FlagsRight, d, new, r
<1>3. Matches(c, [c EXCEPT !.topicRestricted = b], [r EXCEPT !.topicRestricted = b],
              c.topicRestricted # b)
  <2> DEFINE d == [c EXCEPT !.topicRestricted = b]
             new == [r EXCEPT !.topicRestricted = b]
  <2>1. /\ d \in Object /\ d.topic = c.topic /\ d.members = c.members
        /\ d.invitedUsers = c.invitedUsers /\ d.inviteOnly = c.inviteOnly
        /\ d.topicRestricted = b
        /\ d.hasKey = c.hasKey /\ d.key = c.key
        /\ d.hasUserLimit = c.hasUserLimit /\ d.userLimit = c.userLimit
    BY DEF Object
  <2>2. new \in RecordSet
    BY <1>1 DEF RecordSet
  <2>3. /\ new.topic = r.topic /\ new.members = r.members
        /\ new.operators = r.operators /\ new.invitedUsers = r.invitedUsers
        /\ new.inviteOnly = r.inviteOnly /\ new.topicRestricted = b
        /\ new.key = r.key /\ new.userLimit = r.userLimit
    BY <1>1 DEF RecordSet
  <2> HIDE DEF d, new
  <2>4. Record(d) = new /\ (new = r <=> c.topicRestricted = b)
    BY <1>1, <2>1, <2>2, <2>3, Compared DEF r
  <2>5. QED
    BY <2>1, <2>4 DEF Matches, FlagsRight, d, new, r
<1>4. QED
  BY <1>2, <1>3 DEF r

\* setKey, and removeKey with k = NoKey.
LEMMA KeyMatches ==
  ASSUME NEW c \in Object, FlagsRight(c), NEW k \in Keys \cup {NoKey}
  PROVE  Matches(c, [c EXCEPT !.hasKey = (k # NoKey), !.key = k],
                 [Record(c) EXCEPT !.key = k], c.key # k)
<1> DEFINE r == Record(c)
           b == k # NoKey
           d == [c EXCEPT !.hasKey = b, !.key = k]
           new == [r EXCEPT !.key = k]
<1>1. /\ r \in RecordSet /\ r.topic = c.topic /\ r.members = DOMAIN c.members
      /\ r.operators = Operators(c.members) /\ r.invitedUsers = c.invitedUsers
      /\ r.inviteOnly = c.inviteOnly /\ r.topicRestricted = c.topicRestricted
      /\ r.key = c.key /\ r.userLimit = c.userLimit
  BY RecordIs
<1> HIDE DEF r
<1>2. b \in BOOLEAN
  OBVIOUS
<1>3. d \in Object
  BY <1>2 DEF Object
<1>4. /\ d.topic = c.topic /\ d.members = c.members
      /\ d.invitedUsers = c.invitedUsers /\ d.inviteOnly = c.inviteOnly
      /\ d.topicRestricted = c.topicRestricted
      /\ d.hasKey = b /\ d.key = k
      /\ d.hasUserLimit = c.hasUserLimit /\ d.userLimit = c.userLimit
  BY DEF Object
<1>5. FlagsRight(d)
  BY <1>4 DEF FlagsRight
<1>6. /\ new \in RecordSet /\ new.topic = r.topic /\ new.members = r.members
      /\ new.operators = r.operators /\ new.invitedUsers = r.invitedUsers
      /\ new.inviteOnly = r.inviteOnly /\ new.topicRestricted = r.topicRestricted
      /\ new.key = k /\ new.userLimit = r.userLimit
  BY <1>1 DEF RecordSet
<1> HIDE DEF d, new
<1>7. Record(d) = new /\ (new = r <=> c.key = k)
  BY <1>1, <1>3, <1>4, <1>6, Compared DEF r
<1>8. QED
  BY <1>3, <1>5, <1>7 DEF Matches, d, new, r

\* setUserLimit, and removeUserLimit with n = 0.
LEMMA LimitMatches ==
  ASSUME NEW c \in Object, FlagsRight(c), NEW n \in Nat
  PROVE  Matches(c, [c EXCEPT !.hasUserLimit = (n # 0), !.userLimit = n],
                 [Record(c) EXCEPT !.userLimit = n], c.userLimit # n)
<1> DEFINE r == Record(c)
           b == n # 0
           d == [c EXCEPT !.hasUserLimit = b, !.userLimit = n]
           new == [r EXCEPT !.userLimit = n]
<1>1. /\ r \in RecordSet /\ r.topic = c.topic /\ r.members = DOMAIN c.members
      /\ r.operators = Operators(c.members) /\ r.invitedUsers = c.invitedUsers
      /\ r.inviteOnly = c.inviteOnly /\ r.topicRestricted = c.topicRestricted
      /\ r.key = c.key /\ r.userLimit = c.userLimit
  BY RecordIs
<1> HIDE DEF r
<1>2. b \in BOOLEAN
  OBVIOUS
<1>3. d \in Object
  BY <1>2 DEF Object
<1>4. /\ d.topic = c.topic /\ d.members = c.members
      /\ d.invitedUsers = c.invitedUsers /\ d.inviteOnly = c.inviteOnly
      /\ d.topicRestricted = c.topicRestricted
      /\ d.hasKey = c.hasKey /\ d.key = c.key
      /\ d.hasUserLimit = b /\ d.userLimit = n
  BY DEF Object
<1>5. FlagsRight(d)
  BY <1>4 DEF FlagsRight
<1>6. /\ new \in RecordSet /\ new.topic = r.topic /\ new.members = r.members
      /\ new.operators = r.operators /\ new.invitedUsers = r.invitedUsers
      /\ new.inviteOnly = r.inviteOnly /\ new.topicRestricted = r.topicRestricted
      /\ new.key = r.key /\ new.userLimit = n
  BY <1>1 DEF RecordSet
<1> HIDE DEF d, new
<1>7. Record(d) = new /\ (new = r <=> c.userLimit = n)
  BY <1>1, <1>3, <1>4, <1>6, Compared DEF r
<1>8. QED
  BY <1>3, <1>5, <1>7 DEF Matches, d, new, r

\* setMemberOperator of a member.
LEMMA OperatorMatches ==
  ASSUME NEW c \in Object, FlagsRight(c), NEW fd \in DOMAIN c.members, NEW b \in BOOLEAN
  PROVE  Matches(c, [c EXCEPT !.members[fd] = b],
                 [Record(c) EXCEPT !.operators = IF b THEN @ \cup {fd} ELSE @ \ {fd}],
                 c.members[fd] # b)
<1> DEFINE r == Record(c)
           f == [c.members EXCEPT ![fd] = b]
           ops == IF b THEN r.operators \cup {fd} ELSE r.operators \ {fd}
           d == [c EXCEPT !.members = f]
           new == [r EXCEPT !.operators = ops]
<1>1. /\ r \in RecordSet /\ r.topic = c.topic /\ r.members = DOMAIN c.members
      /\ r.operators = Operators(c.members) /\ r.invitedUsers = c.invitedUsers
      /\ r.inviteOnly = c.inviteOnly /\ r.topicRestricted = c.topicRestricted
      /\ r.key = c.key /\ r.userLimit = c.userLimit
  BY RecordIs
<1> HIDE DEF r
<1>2. c.members \in MemberMaps
  BY DEF Object
<1>3. c.members[fd] \in BOOLEAN /\ DOMAIN c.members \subseteq Fds
  BY <1>2, MapIs
<1>4. f \in MemberMaps /\ DOMAIN f = DOMAIN c.members /\ Operators(f) = ops
  BY <1>1, <1>2, AssignIsMap, ZenonT(30)
<1>5. ops = r.operators <=> c.members[fd] = b
  BY <1>1, <1>3 DEF Operators
<1>6. ops \subseteq Fds
  BY <1>1, <1>3 DEF Operators
<1> HIDE DEF f, ops
<1>7. d \in Object
  BY <1>4 DEF Object
<1>8. /\ d.topic = c.topic /\ d.members = f
      /\ d.invitedUsers = c.invitedUsers /\ d.inviteOnly = c.inviteOnly
      /\ d.topicRestricted = c.topicRestricted
      /\ d.hasKey = c.hasKey /\ d.key = c.key
      /\ d.hasUserLimit = c.hasUserLimit /\ d.userLimit = c.userLimit
  BY DEF Object
<1>9. FlagsRight(d)
  BY <1>8 DEF FlagsRight
<1>10. /\ new \in RecordSet /\ new.topic = r.topic /\ new.members = r.members
       /\ new.operators = ops /\ new.invitedUsers = r.invitedUsers
       /\ new.inviteOnly = r.inviteOnly /\ new.topicRestricted = r.topicRestricted
       /\ new.key = r.key /\ new.userLimit = r.userLimit
  BY <1>1, <1>6 DEF RecordSet
<1> HIDE DEF d, new
<1>11. Record(d) = new /\ (new = r <=> ops = r.operators)
  BY <1>1, <1>4, <1>7, <1>8, <1>10, Compared DEF r
<1>12. Matches(c, d, new, c.members[fd] # b)
  BY <1>5, <1>7, <1>9, <1>11 DEF Matches, r
<1>13. QED
  BY <1>12 DEF d, new, f, ops, r

LEMMA MatchesEqual ==
  ASSUME NEW c, NEW d, NEW new, NEW tell, Matches(c, d, new, tell),
         NEW e, NEW other, NEW told, e = d, other = new, told <=> tell
  PROVE  Matches(c, e, other, told)
BY DEF Matches

\* Every change of a MODE command has the same effect on both, and the members
\* are told in the same cases.
LEMMA SameMode ==
  ASSUME NEW c \in Object, FlagsRight(c), NEW m \in Changes
  PROVE  Matches(c, applyMode(c, m), Answer(Record(c), m), announced(c, m))
<1> DEFINE r == Record(c)
<1> SUFFICES Matches(c, applyMode(c, m), Answer(r, m), announced(c, m))
  OBVIOUS
<1>1. /\ r.members = DOMAIN c.members
      /\ c.inviteOnly \in BOOLEAN /\ c.topicRestricted \in BOOLEAN
  BY RecordIs DEF Object
<1>2. m.adding \in BOOLEAN /\ m.mode \in {"i", "t", "?", "k", "o", "l"}
  BY DEF Changes
<1> HIDE DEF r
<1>3. CASE m.mode = "i"
  <2>1. applyMode(c, m) = [c EXCEPT !.inviteOnly = m.adding]
    BY <1>3 DEF applyMode
  <2>2. Answer(r, m) = [r EXCEPT !.inviteOnly = m.adding]
    BY <1>3 DEF Answer, Irc!ModeRefused, Irc!ModeApplied, Irc!applyInviteOnlyMode
  <2>3. announced(c, m) <=> c.inviteOnly # m.adding
    BY <1>3 DEF announced
  <2>4. Matches(c, [c EXCEPT !.inviteOnly = m.adding],
                [r EXCEPT !.inviteOnly = m.adding], c.inviteOnly # m.adding)
    BY <1>2, FlagMatches DEF r
  <2>5. QED
    BY <2>1, <2>2, <2>3, <2>4, MatchesEqual
<1>4. CASE m.mode = "t"
  <2>1. applyMode(c, m) = [c EXCEPT !.topicRestricted = m.adding]
    BY <1>4 DEF applyMode
  <2>2. Answer(r, m) = [r EXCEPT !.topicRestricted = m.adding]
    BY <1>4 DEF Answer, Irc!ModeRefused, Irc!ModeApplied, Irc!applyTopicRestrictedMode
  <2>3. announced(c, m) <=> c.topicRestricted # m.adding
    BY <1>4 DEF announced
  <2>4. Matches(c, [c EXCEPT !.topicRestricted = m.adding],
                [r EXCEPT !.topicRestricted = m.adding], c.topicRestricted # m.adding)
    BY <1>2, FlagMatches DEF r
  <2>5. QED
    BY <2>1, <2>2, <2>3, <2>4, MatchesEqual
<1>5. CASE m.mode = "k"
  <2> DEFINE k == IF m.adding THEN m.arg ELSE NoKey
  <2>1. m.arg \in Keys \cup {NoKey}
    BY <1>5 DEF Changes
  <2>2. CASE m.adding /\ m.arg = NoKey
    <3>1. applyMode(c, m) = c /\ Answer(r, m) = r /\ ~announced(c, m)
      BY <1>5, <2>2 DEF applyMode, Answer, Irc!ModeRefused, announced
    <3>2. QED
      BY <3>1, RefusedMatches DEF Matches, r
  <2>3. CASE ~(m.adding /\ m.arg = NoKey)
    <3>1. applyMode(c, m) = [c EXCEPT !.hasKey = (k # NoKey), !.key = k]
      BY <1>5, <2>3 DEF applyMode, setKey, removeKey
    <3>2. Answer(r, m) = [r EXCEPT !.key = k]
      BY <1>5, <2>3 DEF Answer, Irc!ModeRefused, Irc!ModeApplied, Irc!applyKeyMode
    <3>3. announced(c, m) <=> c.key # k
      BY <1>5, <2>3 DEF announced, FlagsRight
    <3>4. k \in Keys \cup {NoKey}
      BY <2>1
    <3> HIDE DEF k
    <3>5. Matches(c, [c EXCEPT !.hasKey = (k # NoKey), !.key = k],
                  [r EXCEPT !.key = k], c.key # k)
      BY <3>4, KeyMatches DEF r
    <3>6. QED
      BY <3>1, <3>2, <3>3, <3>5, MatchesEqual
  <2>4. QED
    BY <2>2, <2>3
<1>6. CASE m.mode = "l"
  <2> DEFINE n == IF m.adding THEN m.arg ELSE 0
  <2>1. m.arg \in Nat
    <3>1. m.arg \in Limits \cup {0}
      BY <1>6 DEF Changes
    <3>2. Limits \subseteq Nat \ {0}
      BY Zenon, ChannelAssumption
    <3>3. ASSUME NEW x \in Limits \cup {0}
          PROVE  x \in Nat
      <4>1. CASE x \in Limits
        BY <3>2, <4>1
      <4>2. CASE x = 0
        BY <4>2
      <4>3. QED
        BY <4>1, <4>2
    <3>4. QED
      BY <3>1, <3>3
  <2>2. CASE m.adding /\ m.arg = 0
    <3>1. applyMode(c, m) = c /\ Answer(r, m) = r /\ ~announced(c, m)
      BY <1>6, <2>2 DEF applyMode, Answer, Irc!ModeRefused, announced
    <3>2. QED
      BY <3>1, RefusedMatches DEF Matches, r
  <2>3. CASE ~(m.adding /\ m.arg = 0)
    <3>1. applyMode(c, m) = [c EXCEPT !.hasUserLimit = (n # 0), !.userLimit = n]
      BY <1>6, <2>3 DEF applyMode, setUserLimit, removeUserLimit
    <3>2. Answer(r, m) = [r EXCEPT !.userLimit = n]
      BY <1>6, <2>3 DEF Answer, Irc!ModeRefused, Irc!ModeApplied, Irc!applyUserLimitMode
    <3>3. announced(c, m) <=> c.userLimit # n
      BY <1>6, <2>3 DEF announced, FlagsRight
    <3>4. n \in Nat
      BY <2>1
    <3> HIDE DEF n
    <3>5. Matches(c, [c EXCEPT !.hasUserLimit = (n # 0), !.userLimit = n],
                  [r EXCEPT !.userLimit = n], c.userLimit # n)
      BY <3>4, LimitMatches DEF r
    <3>6. QED
      BY <3>1, <3>2, <3>3, <3>5, MatchesEqual
  <2>4. QED
    BY <2>2, <2>3
<1>7. CASE m.mode = "o"
  <2> DEFINE fd == Owner(m.arg)
  <2>1. m.arg \in {NickOf[x] : x \in Fds}
    BY <1>7 DEF Changes
  <2>2. fd \in Fds /\ Irc!findClientByNickname(m.arg) = {fd}
    BY <2>1, OwnerFound
  <2> HIDE DEF fd
  <2>3. CASE ~hasMember(c, fd)
    <3>1. Irc!ModeRefused(r, m)
      BY <1>1, <1>7, <2>2, <2>3 DEF Irc!ModeRefused, hasMember
    <3>2. applyMode(c, m) = c /\ Answer(r, m) = r /\ ~announced(c, m)
      BY <1>7, <2>3, <3>1 DEF applyMode, Answer, announced, fd
    <3>3. QED
      BY <3>2, RefusedMatches DEF Matches, r
  <2>4. CASE hasMember(c, fd)
    <3>1. applyMode(c, m) = [c EXCEPT !.members[fd] = m.adding]
      BY <1>7, <2>4 DEF applyMode, setMemberOperator, fd
    <3>2. ~Irc!ModeRefused(r, m)
      BY <1>1, <1>7, <2>2, <2>4 DEF Irc!ModeRefused, hasMember
    <3>3. Answer(r, m) = Irc!applyOperatorMode(r, m)
      BY <1>7, <3>2 DEF Answer, Irc!ModeApplied
    <3>4. Irc!applyOperatorMode(r, m)
            = [r EXCEPT !.operators = IF m.adding THEN @ \cup {fd} ELSE @ \ {fd}]
      BY <2>2 DEF Irc!applyOperatorMode
    <3>5. c.members[fd] \in BOOLEAN
      BY <2>4, MapIs DEF Object, hasMember
    <3>6. announced(c, m) <=> c.members[fd] # m.adding
      BY <1>2, <1>7, <2>4, <3>5 DEF announced, IsMemberOperator, fd
    <3>7. Matches(c, [c EXCEPT !.members[fd] = m.adding],
                  [r EXCEPT !.operators = IF m.adding THEN @ \cup {fd} ELSE @ \ {fd}],
                  c.members[fd] # m.adding)
      BY <1>2, <2>4, OperatorMatches DEF r, hasMember
    <3>8. QED
      BY <3>1, <3>3, <3>4, <3>6, <3>7, MatchesEqual
  <2>5. QED
    BY <2>3, <2>4
<1>8. CASE m.mode = "?"
  <2>1. applyMode(c, m) = c /\ Answer(r, m) = r /\ ~announced(c, m)
    BY <1>8 DEF applyMode, Answer, Irc!ModeRefused, announced
  <2>2. QED
    BY <2>1, RefusedMatches DEF Matches, r
<1>9. QED
  BY <1>2, <1>3, <1>4, <1>5, <1>6, <1>7, <1>8

-----------------------------------------------------------------------------
(* The specification *)

\* A new channel with its first member.
LEMMA NewObject ==
  ASSUME NEW fd \in Fds
  PROVE  addMember(newChannel, fd, TRUE) \in Object
         /\ FlagsRight(addMember(newChannel, fd, TRUE))
<1>1. newChannel \in Object /\ FlagsRight(newChannel) /\ newChannel.members = EmptyMap
  BY EmptyIsMap DEF newChannel, Object, FlagsRight
<1> DEFINE c == newChannel
           f == With(c.members, fd, TRUE)
<1> HIDE DEF c
<1>2. c \in Object /\ FlagsRight(c) /\ DOMAIN c.members = {}
  BY <1>1, EmptyIsMap DEF c
<1>3. f \in MemberMaps
  BY <1>2, WithIsMap DEF Object
<1>4. addMember(c, fd, TRUE) = [c EXCEPT !.members = f]
  BY <1>2 DEF addMember, hasMember
<1> HIDE DEF f
<1>5. addMember(c, fd, TRUE) \in Object /\ FlagsRight(addMember(c, fd, TRUE))
  BY <1>2, <1>3, <1>4 DEF Object, FlagsRight
<1>6. QED
  BY <1>5 DEF c

\* The handlers keep the flags right.
LEMMA NextFlags == IInv /\ [Next]_channel => IInv'
<1> SUFFICES ASSUME IInv, [Next]_channel PROVE IInv'
  OBVIOUS
<1> DEFINE Good(c) == c \in Object /\ FlagsRight(c)
<1>1. channel # NoChannel => Good(channel)
  BY DEF IInv
<1>2. CASE UNCHANGED channel
  BY <1>2 DEF IInv
<1>3. ASSUME NEW fd \in Fds, Create(fd)
      PROVE  Good(channel')
  BY <1>3, NewObject DEF Create
<1>4. ASSUME NEW fd \in Fds, Leave(fd)
      PROVE  channel' = NoChannel \/ Good(channel')
  <2>1. Good(channel)
    BY <1>1, <1>4 DEF Leave
  <2>2. channel' = NoChannel \/ channel' = eraseMember(channel, fd)
    BY <1>4 DEF Leave
  <2>3. QED
    BY <2>1, <2>2, SameDeparture
<1>5. ASSUME NEW fd \in Fds, Invite(fd)
      PROVE  Good(channel')
  <2>1. Good(channel)
    BY <1>1, <1>5 DEF Invite
  <2>2. Fold[NickOf[fd]] \in NickIds
    BY ChannelAssumption DEF NickIds
  <2>3. channel' = [channel EXCEPT !.invitedUsers = @ \cup {Fold[NickOf[fd]]}]
    BY <1>5 DEF Invite, addInvite
  <2>4. QED
    BY <2>1, <2>2, <2>3 DEF Object, FlagsRight
<1>6. ASSUME NEW fd \in Fds, NEW key, Join(fd, key)
      PROVE  Good(channel')
  <2>1. Good(channel)
    BY <1>1, <1>6 DEF Join
  <2>2. ~hasMember(channel, fd) /\ channel' = join(channel, fd)
    BY <1>6 DEF Join
  <2>3. QED
    BY <2>1, <2>2, SameJoin
<1>7. ASSUME NEW topic \in Topics \cup {NoTopic}, Topic(topic)
      PROVE  Good(channel')
  <2>1. Good(channel)
    BY <1>1, <1>7 DEF Topic
  <2>2. channel' = [channel EXCEPT !.topic = topic]
    BY <1>7 DEF Topic
  <2>3. QED
    BY <2>1, <2>2 DEF Object, FlagsRight
<1>8. ASSUME NEW m \in Changes, Mode(m)
      PROVE  Good(channel')
  <2>1. Good(channel)
    BY <1>1, <1>8 DEF Mode
  <2>2. channel' = applyMode(channel, m)
    BY <1>8 DEF Mode
  <2>3. QED
    BY <2>1, <2>2, SameMode DEF Matches
<1>9. QED
  BY <1>2, <1>3, <1>4, <1>5, <1>6, <1>7, <1>8 DEF Next, IInv

\* With the flags right, the record loses nothing.
LEMMA FlagsSuffice == IInv => RecordFaithful
<1> SUFFICES ASSUME IInv, channel # NoChannel PROVE RecordFaithful
  BY DEF RecordFaithful
<1> DEFINE r == Record(channel)
<1>1. channel \in Object /\ FlagsRight(channel)
  BY DEF IInv
<1>2. r.members = DOMAIN channel.members
  BY <1>1, RecordIs
<1>3. \A fd \in Fds \ r.members, key \in Keys \cup {NoKey} :
        mayJoin(channel, fd, key) <=> Irc!Admitted(fd, r, key)
  BY <1>1, SameAdmission
<1>4. \A fd \in Fds \ r.members : Record(join(channel, fd)) = Irc!Joined(fd, r)
  BY <1>1, <1>2, SameJoin DEF hasMember
<1>5. \A fd \in Fds : Record(eraseMember(channel, fd)) = removeMember(r, fd)
  BY <1>1, SameDeparture
<1>6. \A m \in Changes : /\ Record(applyMode(channel, m)) = Answer(r, m)
                         /\ announced(channel, m) <=> Answer(r, m) # r
  BY <1>1, SameMode DEF Matches
<1>7. QED
  BY <1>3, <1>4, <1>5, <1>6 DEF RecordFaithful, Answer

\* The flags _hasKey and _hasUserLimit of class Channel say nothing that the key
\* and the limit do not: after any sequence of handlers on the object, JOIN
\* admits the same clients, and every JOIN, departure and MODE change has the
\* same effect and is announced in the same cases, as on IrcServer's record
\* (Channel.cpp, Join.cpp, Mode.cpp).
THEOREM RecordCorrect == Spec => []RecordFaithful
<1>1. Init => IInv
  BY DEF Init, IInv
<1>2. QED
  BY <1>1, NextFlags, FlagsSuffice, PTL DEF Spec
=============================================================================
