-------------------------- MODULE EventLoopProofs --------------------------
(***************************************************************************)
(* The safety properties of EventLoop, for every number of descriptors and *)
(* every limit.                                                            *)
(*                                                                         *)
(* Two things change the tables under the loop: a line queued to some      *)
(* clients, and removeClient, which queues lines and then erases an entry. *)
(* QueueEffect and RemoveEffect say once what they do to each entry; every *)
(* action is then a matter of where the index stands before and after.     *)
(***************************************************************************)
EXTENDS EventLoop, SequenceTheorems, FiniteSetTheorems, WellFoundedInduction, TLAPS

-----------------------------------------------------------------------------
(* The inductive invariant *)

\* _pollFds holds the listener, then each client once.
Tables(polls, cl) ==
  /\ polls \in Seq(PollFd) /\ Len(polls) >= 1
  /\ polls[1].fd = Listener
  /\ \A j, k \in 1 .. Len(polls) : polls[j].fd = polls[k].fd => j = k
  /\ DOMAIN cl \subseteq Fds /\ IsFiniteSet(DOMAIN cl)
  /\ Len(polls) = Cardinality(DOMAIN cl) + 1
  /\ \A j \in 2 .. Len(polls) : polls[j].fd \in DOMAIN cl
  /\ \A fd \in DOMAIN cl : \E j \in 2 .. Len(polls) : polls[j].fd = fd

\* A client that quit, or had a line handled late, is doomed.
ClientOK(c) ==
  /\ c \in Client
  /\ c.output <= MaxOutput
  /\ c.late <= 1
  /\ c.quit \/ c.late # 0 => c.doomed

Buffers(polls, cl) ==
  /\ \A fd \in DOMAIN cl : ClientOK(cl[fd])
  /\ \A j \in 2 .. Len(polls) : polls[j].out <=> cl[polls[j].fd].output > 0

Owned(polls) == {polls[j].fd : j \in 1 .. Len(polls)}

\* What is reported from position n on.
Ahead(polls, n) ==
  {polls[j].fd : j \in {x \in n .. Len(polls) : polls[x].revents # {}}}

Clean(c) == ~c.quit /\ c.late = 0

\* The entries that the present sweep, or the reaping after it, vouches for.
Settled(p, n, j) ==
  \/ p \in {"loop", "enter", "poll"}
  \/ p = "reap" /\ j < n
  \/ p = "sweep" /\ j >= n
  \/ p \in Serving /\ j > n
  \/ p = "lines" /\ j = n

\* The only entry whose input may be over the limit.
Reading(p, n, j) == p \in {"lines", "handle", "cut"} /\ j = n

Lines ==
  /\ \A j \in 2 .. Len(pollFds) :
       /\ Settled(pc, i, j) => Clean(clients[pollFds[j].fd])
       /\ Len(clients[pollFds[j].fd].input) <= MaxInput \/ Reading(pc, i, j)
  /\ pc = "handle" => ~clients[pollFds[i].fd].quit

Position ==
  /\ i \in Nat \ {0}
  /\ pc \in Serving => i \in 2 .. Len(pollFds) /\ pollFds[i].revents # {}
  /\ pc \in Serving \cup {"sweep"} => ready = Ahead(pollFds, i)
  /\ pc \in {"reap", "loop", "enter", "poll"} => ready = {} \/ stop

Alive ==
  /\ Tables(pollFds, clients)
  /\ Buffers(pollFds, clients)
  /\ open = Owned(pollFds)
  /\ Position
  /\ Lines

\* Before start-up and after the end there is nothing, but for the listener that
\* is being bound.
Dead ==
  /\ pollFds = <<>> /\ DOMAIN clients = {}
  /\ open = IF pc = "bind" THEN {Listener} ELSE {}
  /\ i \in Nat \ {0}
  /\ pc = "stopped" \/ ready = {}

Locations == {"boot", "socket", "bind", "loop", "enter", "poll", "sweep", "lines",
              "handle", "cut", "flush", "hup", "reap", "stopped"}

IInv ==
  /\ pc \in Locations
  /\ IF Running THEN Alive ELSE Dead

-----------------------------------------------------------------------------
(* Sequences *)

\* A function on the positions of a sequence is a sequence of the same length.
LEMMA SameLength ==
  ASSUME NEW S, NEW T, NEW s \in Seq(S), NEW t, t \in [1 .. Len(s) -> T]
  PROVE  t \in Seq(T) /\ Len(t) = Len(s)
<1>1. Len(s) \in Nat
  BY LenProperties
<1>2. t \in Seq(T)
  BY <1>1, SeqDef
<1>3. QED
  BY <1>1, <1>2, LenProperties

\* RemoveAt (vector::erase) moves the entries behind the position down by one.
LEMMA RemoveAtProperties ==
  ASSUME NEW S, NEW s \in Seq(S), NEW n \in 1 .. Len(s)
  PROVE  /\ RemoveAt(s, n) \in Seq(S)
         /\ Len(RemoveAt(s, n)) = Len(s) - 1
         /\ \A j \in 1 .. Len(s) - 1 :
              RemoveAt(s, n)[j] = s[IF j < n THEN j ELSE j + 1]
<1> DEFINE front == SubSeq(s, 1, n - 1)
           back == SubSeq(s, n + 1, Len(s))
<1>1. Len(s) \in Nat /\ \A j \in 1 .. Len(s) : s[j] \in S
  BY LenProperties, ElementOfSeq
<1>2. /\ front \in Seq(S) /\ Len(front) = n - 1
      /\ \A j \in 1 .. n - 1 : front[j] = s[j]
  <2>1. \A j \in 1 .. n - 1 : s[j] \in S
    BY <1>1
  <2>2. n - 1 \in Int /\ (IF 1 <= n - 1 THEN n - 1 - 1 + 1 ELSE 0) = n - 1
    BY <1>1
  <2>3. /\ front \in Seq(S)
        /\ Len(front) = (IF 1 <= n - 1 THEN n - 1 - 1 + 1 ELSE 0)
        /\ \A j \in 1 .. n - 1 - 1 + 1 : front[j] = s[1 + j - 1]
    BY <2>1, <2>2, SubSeqProperties
  <2>4. QED
    BY <1>1, <2>2, <2>3
<1>3. /\ back \in Seq(S) /\ Len(back) = Len(s) - n
      /\ \A j \in 1 .. Len(s) - n : back[j] = s[n + j]
  <2>1. \A j \in n + 1 .. Len(s) : s[j] \in S
    BY <1>1
  <2>2. n + 1 \in Int /\ Len(s) \in Int
    BY <1>1
  <2>3. /\ back \in Seq(S)
        /\ Len(back) = (IF n + 1 <= Len(s) THEN Len(s) - (n + 1) + 1 ELSE 0)
        /\ \A j \in 1 .. Len(s) - (n + 1) + 1 : back[j] = s[n + 1 + j - 1]
    BY <2>1, <2>2, SubSeqProperties
  <2>4. QED
    BY <1>1, <2>3
<1> HIDE DEF front, back
<1>4. /\ front \o back \in Seq(S)
      /\ Len(front \o back) = Len(front) + Len(back)
      /\ \A j \in 1 .. Len(front) + Len(back) :
           (front \o back)[j] = IF j <= Len(front) THEN front[j]
                                ELSE back[j - Len(front)]
  BY <1>2, <1>3, ConcatProperties
<1>5. RemoveAt(s, n) = front \o back
  BY DEF RemoveAt, front, back
<1>6. ASSUME NEW j \in 1 .. Len(s) - 1
      PROVE  (front \o back)[j] = s[IF j < n THEN j ELSE j + 1]
  BY <1>1, <1>2, <1>3, <1>4
<1>7. Len(front \o back) = Len(s) - 1
  BY <1>1, <1>2, <1>3, <1>4
<1>8. QED
  BY <1>4, <1>5, <1>6, <1>7

-----------------------------------------------------------------------------
(* What happens to the entries *)

\* d is c after lines were queued to it.
Grown(c, d) ==
  /\ ClientOK(d)
  /\ d.input = c.input /\ d.quit = c.quit /\ d.late = c.late
  /\ c.doomed => d.doomed

\* queueRaw respects the limit, and only ever adds output or dooms the client.
LEMMA QueueRawEffect ==
  ASSUME NEW c, ClientOK(c)
  PROVE  Grown(c, queueRaw(c)) /\ queueRaw(c).output >= c.output
<1>1. /\ MaxOutput \in Nat /\ c \in Client /\ c.output \in Nat
      /\ c.output <= MaxOutput
  BY LimitAssumption DEF ClientOK, Client
<1>2. CASE c.doomed
  BY <1>1, <1>2 DEF ClientOK, Grown, queueRaw
<1>3. CASE ~c.doomed /\ c.output > MaxOutput - 1
  <2>1. queueRaw(c) = [c EXCEPT !.doomed = TRUE]
    BY <1>3 DEF queueRaw
  <2>2. /\ queueRaw(c) \in Client /\ queueRaw(c).doomed
        /\ queueRaw(c).output = c.output /\ queueRaw(c).input = c.input
        /\ queueRaw(c).quit = c.quit /\ queueRaw(c).late = c.late
    BY <1>1, <2>1 DEF Client
  <2>3. QED
    BY <1>1, <2>2 DEF ClientOK, Grown
<1>4. CASE ~c.doomed /\ ~(c.output > MaxOutput - 1)
  <2>1. queueRaw(c) = [c EXCEPT !.output = c.output + 1]
    BY <1>4 DEF queueRaw
  <2>2. c.output + 1 \in Nat /\ c.output + 1 <= MaxOutput
    BY <1>1, <1>4
  <2>3. QED
    BY <1>1, <2>1, <2>2 DEF ClientOK, Grown, Client
<1>5. QED
  BY <1>2, <1>3, <1>4

\* Queueing a line to S keeps POLLOUT exact, whichever clients overflow.
LEMMA QueueEffect ==
  ASSUME NEW polls \in Seq(PollFd), NEW cl, NEW S,
         \A fd \in DOMAIN cl : ClientOK(cl[fd]),
         \A j \in 1 .. Len(polls) : polls[j].fd \in DOMAIN cl =>
           (polls[j].out <=> cl[polls[j].fd].output > 0)
  PROVE  /\ watched(cl, S, polls) \in Seq(PollFd)
         /\ Len(watched(cl, S, polls)) = Len(polls)
         /\ DOMAIN queued(cl, S) = DOMAIN cl
         /\ \A fd \in DOMAIN cl : Grown(cl[fd], queued(cl, S)[fd])
         /\ \A j \in 1 .. Len(polls) :
              /\ watched(cl, S, polls)[j].fd = polls[j].fd
              /\ watched(cl, S, polls)[j].revents = polls[j].revents
              /\ polls[j].fd \in DOMAIN cl =>
                   (watched(cl, S, polls)[j].out
                      <=> queued(cl, S)[polls[j].fd].output > 0)
<1> DEFINE polls2 == watched(cl, S, polls)
           cl2 == queued(cl, S)
<1>1. /\ Len(polls) \in Nat /\ DOMAIN polls = 1 .. Len(polls)
      /\ \A j \in 1 .. Len(polls) : polls[j] \in PollFd
  BY LenProperties, ElementOfSeq
<1>2. /\ DOMAIN cl2 = DOMAIN cl
      /\ \A fd \in DOMAIN cl : cl2[fd] = IF fd \in S THEN queueRaw(cl[fd]) ELSE cl[fd]
  BY DEF queued
<1>3. \A fd \in DOMAIN cl : Grown(cl[fd], queueRaw(cl[fd])) /\ Grown(cl[fd], cl[fd])
  BY QueueRawEffect DEF Grown
<1>4. \A fd \in DOMAIN cl : Grown(cl[fd], cl2[fd])
  BY <1>2, <1>3
<1>5. ASSUME NEW j \in 1 .. Len(polls)
      PROVE  /\ polls2[j] \in PollFd
             /\ polls2[j].fd = polls[j].fd
             /\ polls2[j].revents = polls[j].revents
             /\ polls[j].fd \in DOMAIN cl =>
                  (polls2[j].out <=> cl2[polls[j].fd].output > 0)
  <2> DEFINE more == /\ polls[j].fd \in S \cap DOMAIN cl
                     /\ queueRaw(cl[polls[j].fd]).output > cl[polls[j].fd].output
  <2>1. polls2[j] = [polls[j] EXCEPT !.out = polls[j].out \/ more]
    BY <1>1 DEF watched
  <2> HIDE DEF more, polls2
  <2>2. /\ polls2[j] \in PollFd
        /\ polls2[j].fd = polls[j].fd
        /\ polls2[j].revents = polls[j].revents
        /\ polls2[j].out <=> polls[j].out \/ more
    BY <1>1, <2>1 DEF PollFd
  <2>3. ASSUME polls[j].fd \in DOMAIN cl
        PROVE  polls2[j].out <=> cl2[polls[j].fd].output > 0
    <3> DEFINE c == cl[polls[j].fd]
    <3>1. /\ c.output \in Nat /\ queueRaw(c).output \in Nat
          /\ queueRaw(c).output >= c.output
          /\ polls[j].out <=> c.output > 0
      BY <2>3, <1>3, QueueRawEffect DEF Grown, ClientOK, Client
    <3>2. more <=> polls[j].fd \in S /\ queueRaw(c).output > c.output
      BY <2>3 DEF more
    <3>3. cl2[polls[j].fd] = IF polls[j].fd \in S THEN queueRaw(c) ELSE c
      BY <2>3, <1>2
    <3> HIDE DEF c, cl2
    <3>4. CASE polls[j].fd \in S
      BY <3>1, <3>2, <3>3, <3>4, <2>2
    <3>5. CASE polls[j].fd \notin S
      BY <3>1, <3>2, <3>3, <3>5, <2>2
    <3>6. QED
      BY <3>4, <3>5
  <2>4. QED
    BY <2>2, <2>3
<1>6. polls2 \in [1 .. Len(polls) -> PollFd]
  <2>1. polls2 = [j \in 1 .. Len(polls) |-> polls2[j]]
    BY <1>1 DEF watched
  <2> HIDE DEF polls2
  <2>2. QED
    BY <1>5, <2>1
<1>7. polls2 \in Seq(PollFd) /\ Len(polls2) = Len(polls)
  BY <1>6, SameLength
<1>8. QED
  BY <1>2, <1>4, <1>5, <1>7

\* The position that an entry had before the one at n was erased.
Old(n, j) == IF j < n THEN j ELSE j + 1

\* removeClient erases one client from both tables and from the kernel's, and
\* queues lines to others; everything else about the other entries stays.
LEMMA RemoveEffect ==
  ASSUME Tables(pollFds, clients), Buffers(pollFds, clients), open = Owned(pollFds),
         NEW n \in 2 .. Len(pollFds), removeClient(n)
  PROVE  /\ Tables(pollFds', clients')
         /\ Buffers(pollFds', clients')
         /\ open' = Owned(pollFds')
         /\ Len(pollFds') = Len(pollFds) - 1
         /\ \A j \in 1 .. Len(pollFds') :
              /\ pollFds'[j].fd = pollFds[Old(n, j)].fd
              /\ pollFds'[j].revents = pollFds[Old(n, j)].revents
         /\ \A j \in 2 .. Len(pollFds') :
              Grown(clients[pollFds[Old(n, j)].fd], clients'[pollFds'[j].fd])
<1> DEFINE fd == pollFds[n].fd
           rest == Without(clients, fd)
<1>1. PICK peers \in SUBSET DOMAIN rest :
        /\ clients' = queued(rest, peers)
        /\ pollFds' = RemoveAt(watched(rest, peers, pollFds), n)
        /\ open' = open \ {fd}
  BY DEF removeClient
<1> DEFINE told == watched(rest, peers, pollFds)
<1>2. /\ pollFds \in Seq(PollFd) /\ Len(pollFds) \in Nat /\ n \in 1 .. Len(pollFds)
      /\ fd \in DOMAIN clients
  BY LenProperties DEF Tables
<1>3. /\ pollFds[1].fd = Listener
      /\ \A j, k \in 1 .. Len(pollFds) : pollFds[j].fd = pollFds[k].fd => j = k
      /\ \A j \in 2 .. Len(pollFds) : pollFds[j].fd \in DOMAIN clients
  BY DEF Tables
<1>4. /\ DOMAIN rest = DOMAIN clients \ {fd}
      /\ \A x \in DOMAIN rest : rest[x] = clients[x]
  BY DEF Without
<1>5. /\ \A x \in DOMAIN rest : ClientOK(rest[x])
      /\ \A j \in 1 .. Len(pollFds) : pollFds[j].fd \in DOMAIN rest =>
           (pollFds[j].out <=> rest[pollFds[j].fd].output > 0)
  <2>1. \A j \in 1 .. Len(pollFds) : pollFds[j].fd \in DOMAIN rest => j \in 2 .. Len(pollFds)
    BY <1>2, <1>4, LimitAssumption DEF Tables
  <2>2. QED
    BY <1>4, <2>1 DEF Buffers
<1>6. /\ told \in Seq(PollFd)
      /\ Len(told) = Len(pollFds)
      /\ DOMAIN clients' = DOMAIN rest
      /\ \A x \in DOMAIN rest : Grown(rest[x], clients'[x])
      /\ \A j \in 1 .. Len(pollFds) :
           /\ told[j].fd = pollFds[j].fd
           /\ told[j].revents = pollFds[j].revents
           /\ pollFds[j].fd \in DOMAIN rest =>
                (told[j].out <=> clients'[pollFds[j].fd].output > 0)
  <2> HIDE DEF rest
  <2>1. QED
    BY <1>1, <1>2, <1>5, QueueEffect
<1> HIDE DEF told, rest
<1>7. /\ pollFds' \in Seq(PollFd)
      /\ Len(pollFds') = Len(pollFds) - 1
      /\ \A j \in 1 .. Len(pollFds) - 1 : pollFds'[j] = told[Old(n, j)]
  BY <1>1, <1>2, <1>6, RemoveAtProperties DEF Old, told
<1>8. \A j \in 1 .. Len(pollFds') :
        /\ Old(n, j) \in 1 .. Len(pollFds) /\ Old(n, j) # n
        /\ j >= 2 => Old(n, j) \in 2 .. Len(pollFds)
        /\ pollFds'[j].fd = pollFds[Old(n, j)].fd
        /\ pollFds'[j].revents = pollFds[Old(n, j)].revents
        /\ pollFds'[j].out = told[Old(n, j)].out
  BY <1>2, <1>6, <1>7 DEF Old
<1>9. \A j \in 2 .. Len(pollFds') : pollFds'[j].fd \in DOMAIN rest
  <2>1. TAKE j \in 2 .. Len(pollFds')
  <2>2. j \in 1 .. Len(pollFds') /\ j >= 2
    BY <1>2, <1>7
  <2>3. Old(n, j) \in 2 .. Len(pollFds) /\ Old(n, j) \in 1 .. Len(pollFds)
    BY <1>8, <2>2
  <2>4. pollFds[Old(n, j)].fd \in DOMAIN clients /\ pollFds[Old(n, j)].fd # fd
    BY <1>2, <1>3, <1>8, <2>2, <2>3
  <2>5. QED
    BY <1>4, <1>8, <2>2, <2>4
<1>10. Tables(pollFds', clients')
  <2>1. Len(pollFds') >= 1 /\ pollFds'[1].fd = Listener
    <3>1. Len(pollFds') >= 1 /\ Old(n, 1) = 1
      BY <1>2, <1>7 DEF Old
    <3>2. 1 \in 1 .. Len(pollFds')
      BY <1>2, <1>7
    <3>3. QED
      BY <1>3, <1>8, <3>1, <3>2
  <2>2. ASSUME NEW j \in 1 .. Len(pollFds'), NEW k \in 1 .. Len(pollFds'),
               pollFds'[j].fd = pollFds'[k].fd
        PROVE  j = k
    <3>1. Old(n, j) = Old(n, k)
      BY <1>3, <1>8, <2>2
    <3>2. QED
      BY <1>2, <3>1 DEF Old
  <2>3. /\ DOMAIN clients' \subseteq Fds
        /\ IsFiniteSet(DOMAIN clients')
        /\ Len(pollFds') = Cardinality(DOMAIN clients') + 1
    <3>1. IsFiniteSet(DOMAIN clients) /\ Cardinality(DOMAIN clients) \in Nat
      BY FS_CardinalityType DEF Tables
    <3>2. /\ IsFiniteSet(DOMAIN clients \ {fd})
          /\ Cardinality(DOMAIN clients \ {fd}) = Cardinality(DOMAIN clients) - 1
      BY <1>2, <3>1, FS_RemoveElement
    <3>3. QED
      BY <1>2, <1>4, <1>6, <1>7, <3>1, <3>2 DEF Tables
  <2>4. ASSUME NEW x \in DOMAIN clients'
        PROVE  \E j \in 2 .. Len(pollFds') : pollFds'[j].fd = x
    <3>1. PICK o \in 2 .. Len(pollFds) : pollFds[o].fd = x
      BY <1>4, <1>6 DEF Tables
    <3>2. o # n
      BY <1>4, <1>6, <3>1
    <3> DEFINE j == IF o < n THEN o ELSE o - 1
    <3>3. j \in 2 .. Len(pollFds') /\ Old(n, j) = o
      BY <1>2, <1>7, <3>2 DEF Old
    <3> HIDE DEF j
    <3>4. j \in 1 .. Len(pollFds')
      BY <1>2, <1>7, <3>3
    <3>5. pollFds'[j].fd = x
      BY <1>8, <3>1, <3>3, <3>4
    <3>6. QED
      BY <3>3, <3>5
  <2>5. QED
    BY <1>6, <1>7, <1>9, <2>1, <2>2, <2>3, <2>4 DEF Tables
<1>11. Buffers(pollFds', clients')
  <2>1. \A x \in DOMAIN clients' : ClientOK(clients'[x])
    BY <1>6 DEF Grown
  <2>2. ASSUME NEW j \in 2 .. Len(pollFds')
        PROVE  pollFds'[j].out <=> clients'[pollFds'[j].fd].output > 0
    <3>1. j \in 1 .. Len(pollFds')
      BY <1>2, <1>7
    <3>2. QED
      BY <1>6, <1>8, <1>9, <3>1
  <2>3. QED
    BY <2>1, <2>2 DEF Buffers
<1>12. open' = Owned(pollFds')
  <2>1. ASSUME NEW x \in open' PROVE x \in Owned(pollFds')
    <3>1. PICK o \in 1 .. Len(pollFds) : pollFds[o].fd = x /\ o # n
      BY <1>1, <2>1 DEF Owned
    <3> DEFINE j == IF o < n THEN o ELSE o - 1
    <3>2. j \in 1 .. Len(pollFds') /\ Old(n, j) = o
      BY <1>2, <1>7, <3>1 DEF Old
    <3> HIDE DEF j
    <3>3. QED
      BY <1>8, <3>1, <3>2 DEF Owned
  <2>2. ASSUME NEW x \in Owned(pollFds') PROVE x \in open'
    <3>1. PICK j \in 1 .. Len(pollFds') : pollFds'[j].fd = x
      BY DEF Owned
    <3>2. /\ Old(n, j) \in 1 .. Len(pollFds) /\ Old(n, j) # n
          /\ x = pollFds[Old(n, j)].fd
      BY <1>8, <3>1
    <3>3. x \in Owned(pollFds) /\ x # fd
      BY <1>2, <3>2 DEF Owned, Tables
    <3>4. QED
      BY <1>1, <3>3
  <2>3. QED
    BY <2>1, <2>2
<1>13. \A j \in 2 .. Len(pollFds') :
         Grown(clients[pollFds[Old(n, j)].fd], clients'[pollFds'[j].fd])
  <2>1. TAKE j \in 2 .. Len(pollFds')
  <2>2. j \in 1 .. Len(pollFds')
    BY <1>2, <1>7
  <2>3. QED
    BY <1>4, <1>6, <1>8, <1>9, <2>2
<1>14. QED
  BY <1>7, <1>8, <1>10, <1>11, <1>12, <1>13

\* Entries that keep their descriptors keep the tables in agreement.
LEMMA SameEntries ==
  ASSUME Tables(pollFds, clients),
         NEW polls \in Seq(PollFd), Len(polls) = Len(pollFds),
         \A j \in 1 .. Len(pollFds) : polls[j].fd = pollFds[j].fd,
         NEW cl, DOMAIN cl = DOMAIN clients
  PROVE  Tables(polls, cl) /\ Owned(polls) = Owned(pollFds)
<1>1. Len(pollFds) \in Nat
  BY LenProperties DEF Tables
<1>2. 1 \in 1 .. Len(polls) /\ 2 .. Len(polls) \subseteq 1 .. Len(polls)
  BY <1>1 DEF Tables
<1>3. \A j, k \in 1 .. Len(polls) : polls[j].fd = polls[k].fd => j = k
  BY DEF Tables
<1>4. polls[1].fd = Listener
  BY <1>2 DEF Tables
<1>5. /\ \A j \in 2 .. Len(polls) : polls[j].fd \in DOMAIN cl
      /\ \A fd \in DOMAIN cl : \E j \in 2 .. Len(polls) : polls[j].fd = fd
  BY <1>2 DEF Tables
<1>6. Tables(polls, cl)
  BY <1>3, <1>4, <1>5 DEF Tables
<1>7. QED
  BY <1>6 DEF Owned

\* What run() may rely on while there are tables.
LEMMA Basics ==
  ASSUME Alive
  PROVE  /\ Len(pollFds) \in Nat /\ Len(pollFds) >= 1 /\ i \in Nat \ {0}
         /\ pollFds \in Seq(PollFd) /\ DOMAIN pollFds = 1 .. Len(pollFds)
         /\ \A j \in 1 .. Len(pollFds) : pollFds[j] \in PollFd
         /\ \A j \in 2 .. Len(pollFds) :
              /\ pollFds[j].fd # Listener
              /\ pollFds[j].fd \in DOMAIN clients
              /\ ClientOK(clients[pollFds[j].fd])
         /\ pollFds[1].fd = Listener
         /\ pc \in Serving => i \in 2 .. Len(pollFds)
         /\ Sweeping /\ Current # Listener => i \in 2 .. Len(pollFds)
<1>1. /\ pollFds \in Seq(PollFd) /\ Len(pollFds) \in Nat /\ i \in Nat \ {0}
      /\ DOMAIN pollFds = 1 .. Len(pollFds) /\ Len(pollFds) >= 1
      /\ \A j \in 1 .. Len(pollFds) : pollFds[j] \in PollFd
  BY LenProperties, ElementOfSeq DEF Alive, Tables, Position
<1>2. /\ pollFds[1].fd = Listener
      /\ \A j \in 2 .. Len(pollFds) : /\ pollFds[j].fd \in DOMAIN clients
                                      /\ pollFds[j].fd \in Fds
                                      /\ ClientOK(clients[pollFds[j].fd])
  BY DEF Alive, Tables, Buffers
<1>3. pc \in Serving => i \in 2 .. Len(pollFds)
  BY DEF Alive, Position
<1>4. Sweeping /\ Current # Listener => i \in 2 .. Len(pollFds)
  BY <1>1, <1>2 DEF Sweeping, Current
<1>5. QED
  BY <1>1, <1>2, <1>3, <1>4, LimitAssumption

\* What is ahead of the next position, when the entry at n was the listener's or
\* a client's.
LEMMA AheadNext ==
  ASSUME Tables(pollFds, clients), NEW n \in 1 .. Len(pollFds)
  PROVE  Ahead(pollFds, n + 1) = Ahead(pollFds, n) \ {pollFds[n].fd}
<1>1. Len(pollFds) \in Nat
  BY LenProperties DEF Tables
<1>2. \A j \in n .. Len(pollFds) : j # n <=> j \in n + 1 .. Len(pollFds)
  BY <1>1
<1>3. \A j \in n .. Len(pollFds) : pollFds[j].fd = pollFds[n].fd <=> j = n
  <2>1. \A j, k \in 1 .. Len(pollFds) : pollFds[j].fd = pollFds[k].fd => j = k
    BY DEF Tables
  <2>2. QED
    BY <1>1, <2>1
<1>4. n + 1 .. Len(pollFds) \subseteq n .. Len(pollFds)
  BY <1>1
<1>5. QED
  BY <1>2, <1>3, <1>4 DEF Ahead

-----------------------------------------------------------------------------
(* One lemma per kind of step *)

\* A step that leaves the tables alone only has to account for its position.
LEMMA TablesUntouched ==
  ASSUME Alive, UNCHANGED <<pollFds, clients, open>>, Position', Lines'
  PROVE  Alive'
BY DEF Alive

\* removeClient(i); continue: the index now denotes the entry that followed.
LEMMA DropStep ==
  ASSUME Alive, pc \in Serving \cup {"sweep"}, i \in 2 .. Len(pollFds), drop
  PROVE  Alive' /\ pc' = "sweep"
<1>1. /\ removeClient(i) /\ i' = i /\ pc' = "sweep"
      /\ ready' = ready \ {pollFds[i].fd}
  BY DEF drop, nextEntry, afterErase, Current
<1>2. /\ Tables(pollFds, clients) /\ Buffers(pollFds, clients)
      /\ open = Owned(pollFds)
  BY DEF Alive
<1>3. /\ Tables(pollFds', clients')
      /\ Buffers(pollFds', clients')
      /\ open' = Owned(pollFds')
      /\ Len(pollFds') = Len(pollFds) - 1
      /\ \A j \in 1 .. Len(pollFds') :
           /\ pollFds'[j].fd = pollFds[Old(i, j)].fd
           /\ pollFds'[j].revents = pollFds[Old(i, j)].revents
      /\ \A j \in 2 .. Len(pollFds') :
           Grown(clients[pollFds[Old(i, j)].fd], clients'[pollFds'[j].fd])
  BY <1>1, <1>2, RemoveEffect
<1>4. Len(pollFds) \in Nat /\ i \in Nat \ {0}
  BY Basics
<1>5. Ahead(pollFds', i) = Ahead(pollFds, i + 1)
  <2>1. ASSUME NEW j \in i .. Len(pollFds')
        PROVE  /\ j + 1 \in i + 1 .. Len(pollFds)
               /\ pollFds'[j].fd = pollFds[j + 1].fd
               /\ pollFds'[j].revents = pollFds[j + 1].revents
    <3>1. j \in 1 .. Len(pollFds') /\ Old(i, j) = j + 1 /\ j + 1 \in i + 1 .. Len(pollFds)
      BY <1>3, <1>4 DEF Old
    <3>2. QED
      BY <1>3, <3>1
  <2>2. \A k \in i + 1 .. Len(pollFds) : \E j \in i .. Len(pollFds') : k = j + 1
    <3>1. TAKE k \in i + 1 .. Len(pollFds)
    <3>2. k - 1 \in i .. Len(pollFds') /\ k = (k - 1) + 1
      BY <1>3, <1>4
    <3>3. QED
      BY <3>2
  <2>3. Ahead(pollFds', i) \subseteq Ahead(pollFds, i + 1)
    BY <2>1 DEF Ahead
  <2>4. Ahead(pollFds, i + 1) \subseteq Ahead(pollFds', i)
    BY <2>1, <2>2 DEF Ahead
  <2>5. QED
    BY <2>3, <2>4
<1>6. Position'
  <2>1. ready' = Ahead(pollFds', i')
    BY <1>1, <1>2, <1>4, <1>5, AheadNext DEF Alive, Position
  <2>2. QED
    BY <1>1, <1>4, <2>1 DEF Position, Serving
<1>7. Lines'
  <2>1. ASSUME NEW j \in 2 .. Len(pollFds')
        PROVE  /\ Settled("sweep", i, j) => Clean(clients'[pollFds'[j].fd])
               /\ Len(clients'[pollFds'[j].fd].input) <= MaxInput
    <3> DEFINE o == Old(i, j)
    <3>1. /\ o \in 2 .. Len(pollFds) /\ o # i
          /\ j >= i => o > i
      BY <1>3, <1>4 DEF Old
    <3>2. Grown(clients[pollFds[o].fd], clients'[pollFds'[j].fd])
      BY <1>3
    <3> HIDE DEF o
    <3>3. /\ Settled(pc, i, o) => Clean(clients[pollFds[o].fd])
          /\ Len(clients[pollFds[o].fd].input) <= MaxInput
      BY <3>1 DEF Alive, Lines, Reading
    <3>4. Settled("sweep", i, j) => Settled(pc, i, o)
      BY <1>4, <3>1 DEF Settled, Serving
    <3>5. QED
      BY <3>2, <3>3, <3>4 DEF Grown, Clean
  <2>2. QED
    BY <1>1, <2>1 DEF Lines
<1>8. QED
  BY <1>1, <1>3, <1>6, <1>7 DEF Alive

\* The destructor leaves nothing behind.
LEMMA DestroyStep ==
  ASSUME Alive, destroy
  PROVE  Dead' /\ pc' = "stopped"
<1>1. open' = {}
  <2>1. \A j \in 1 .. Len(pollFds) : j = 1 \/ j \in 2 .. Len(pollFds)
    BY Basics
  <2>2. open \subseteq DOMAIN clients \cup {Listener}
    BY <2>1, Basics DEF Alive, Owned
  <2>3. QED
    BY <2>2 DEF destroy
<1>2. QED
  BY <1>1, Basics DEF destroy, Dead, EmptyMap

\* The steps of the constructor: a failure leaves nothing open.
LEMMA StartStep ==
  ASSUME IInv, installSignalHandlers \/ openListener \/ createListeningSocket
  PROVE  IInv'
<1>1. Dead /\ pc \in {"boot", "socket", "bind"}
  BY DEF IInv, Running, installSignalHandlers, openListener, createListeningSocket
<1>2. CASE installSignalHandlers
  BY <1>1, <1>2 DEF installSignalHandlers, Dead, IInv, Running, Locations
<1>3. CASE openListener
  BY <1>1, <1>3 DEF openListener, Dead, IInv, Running, Locations
<1>4. CASE createListeningSocket /\ pc' = "stopped"
  BY <1>1, <1>4 DEF createListeningSocket, closeListener, Dead, IInv, Running, Locations
<1>5. CASE createListeningSocket /\ pc' # "stopped"
  <2> DEFINE entry == [fd |-> Listener, out |-> FALSE, revents |-> {}]
  <2>1. /\ pc = "bind" /\ pc' = "loop" /\ pollFds' = Append(pollFds, entry)
        /\ UNCHANGED <<clients, open, i, ready>>
    BY <1>5 DEF createListeningSocket, addPollFd
  <2>2. entry \in PollFd /\ entry.fd = Listener
    BY DEF PollFd
  <2>3. pollFds = <<>> /\ pollFds \in Seq(PollFd) /\ Len(pollFds) = 0
    BY <1>1, EmptySeq DEF Dead
  <2> HIDE DEF entry
  <2>4. pollFds' \in Seq(PollFd) /\ Len(pollFds') = 1 /\ pollFds'[1] = entry
    BY <2>1, <2>2, <2>3, AppendProperties
  <2>5. 1 .. Len(pollFds') = {1} /\ 2 .. Len(pollFds') = {}
    BY <2>4
  <2>6. Tables(pollFds', clients') /\ Buffers(pollFds', clients')
    BY <1>1, <2>1, <2>2, <2>4, <2>5, FS_EmptySet DEF Dead, Tables, Buffers
  <2>7. open' = Owned(pollFds')
    BY <1>1, <2>1, <2>2, <2>4, <2>5 DEF Dead, Owned
  <2>8. Position' /\ Lines'
    BY <1>1, <2>1, <2>5 DEF Dead, Position, Lines, Serving
  <2>9. QED
    BY <2>1, <2>6, <2>7, <2>8 DEF IInv, Alive, Running, Locations
<1>6. QED
  BY <1>2, <1>3, <1>4, <1>5

\* Steps before and after the wait in poll().
LEMMA WaitStep ==
  ASSUME IInv, checkStop \/ enterPoll \/ pollFails
  PROVE  IInv'
<1>1. Alive /\ pc \in {"loop", "enter", "poll"}
  BY DEF IInv, Running, checkStop, enterPoll, pollFails
<1>2. CASE destroy
  BY <1>1, <1>2, DestroyStep DEF IInv, Running, Locations
<1>3. CASE ~destroy
  <2>1. /\ UNCHANGED <<pollFds, clients, open, i, stop, ready>>
        /\ pc' \in {"enter", "poll"}
    BY <1>3 DEF checkStop, enterPoll, pollFails
  <2>2. Position'
    BY <1>1, <2>1 DEF Alive, Position, Serving
  <2>3. Lines'
    BY <1>1, <2>1 DEF Alive, Lines, Settled, Reading
  <2>4. QED
    BY <1>1, <2>1, <2>2, <2>3, TablesUntouched DEF IInv, Running, Locations
<1>4. QED
  BY <1>2, <1>3

\* A signal may arrive anywhere; inside poll() it ends the wait.
LEMMA SignalStep ==
  ASSUME IInv, handleSignal
  PROVE  IInv'
<1>1. /\ UNCHANGED <<pollFds, clients, open, i, ready>>
      /\ stop' = TRUE
      /\ pc' = pc \/ (pc = "poll" /\ pc' = "loop")
  BY DEF handleSignal
<1>2. CASE Dead /\ ~Running
  BY <1>1, <1>2 DEF IInv, Dead, Running
<1>3. CASE Alive /\ Running
  <2>1. Position'
    BY <1>1, <1>3 DEF Alive, Position, Serving
  <2>2. Lines'
    BY <1>1, <1>3 DEF Alive, Lines, Settled, Reading, Serving
  <2>3. QED
    BY <1>1, <1>3, <2>1, <2>2, TablesUntouched DEF IInv, Running, Locations
<1>4. QED
  BY <1>2, <1>3 DEF IInv

\* Going on to the next entry.
LEMMA NextEntryStep ==
  ASSUME Alive, pc \in {"sweep", "hup"}, i \in 1 .. Len(pollFds),
         nextEntry(i + 1), UNCHANGED <<pollFds, clients, open, stop>>
  PROVE  Alive' /\ pc' = "sweep"
<1>1. /\ i' = i + 1 /\ pc' = "sweep"
      /\ ready' = ready \ {pollFds[i].fd}
  BY DEF nextEntry, Current
<1>2. Len(pollFds) \in Nat /\ i \in Nat \ {0}
  BY Basics
<1>3. Position'
  <2>1. ready' = Ahead(pollFds, i + 1)
    BY <1>1, AheadNext DEF Alive, Position, Serving
  <2>2. QED
    BY <1>1, <1>2, <2>1 DEF Position, Serving
<1>4. Lines'
  <2>1. \A j \in 2 .. Len(pollFds) :
          Settled("sweep", i + 1, j) => Settled(pc, i, j)
    BY <1>2 DEF Settled, Serving
  <2>2. QED
    BY <1>1, <2>1 DEF Alive, Lines, Reading
<1>5. QED
  BY <1>1, <1>3, <1>4, TablesUntouched

\* Steps inside the sweep that leave the tables alone.
LEMMA SkipStep ==
  ASSUME IInv, skipEntry \/ skipInput \/ skipOutput
  PROVE  IInv'
<1>1. /\ Alive /\ pc \in {"sweep", "flush"}
      /\ UNCHANGED <<pollFds, clients, open, stop>>
  BY DEF IInv, Running, skipEntry, skipInput, skipOutput, Sweeping
<1>2. CASE skipEntry
  <2>1. i \in 1 .. Len(pollFds) /\ nextEntry(i + 1) /\ pc = "sweep"
    BY <1>1, <1>2, Basics DEF skipEntry, Sweeping
  <2>2. QED
    BY <1>1, <2>1, NextEntryStep DEF IInv, Running, Locations
<1>3. CASE skipInput \/ skipOutput
  <2>1. /\ i \in 2 .. Len(pollFds) /\ pollFds[i].revents # {}
        /\ UNCHANGED <<i, ready>> /\ pc' \in {"flush", "hup"}
    BY <1>1, <1>3, Basics DEF skipInput, skipOutput, Alive, Position, Serving
  <2>2. Position'
    BY <1>1, <2>1 DEF Alive, Position, Serving
  <2>3. Lines'
    <3>1. \A j \in 2 .. Len(pollFds) : Settled(pc', i, j) => Settled(pc, i, j)
      BY <1>1, <2>1, Basics DEF Settled, Serving
    <3>2. QED
      BY <1>1, <2>1, <3>1 DEF Alive, Lines, Reading
  <2>4. QED
    BY <1>1, <2>1, <2>2, <2>3, TablesUntouched DEF IInv, Running, Locations
<1>4. QED
  BY <1>2, <1>3

\* The other removals, with their alternatives.
LEMMA ServeStep ==
  ASSUME IInv, serveError \/ checkInput \/ checkHangup
  PROVE  IInv'
<1>1. /\ Alive /\ UNCHANGED stop /\ i \in 2 .. Len(pollFds)
      /\ pc \in {"sweep", "lines", "cut", "hup"}
  BY Basics DEF IInv, Running, serveError, checkInput, checkHangup, Sweeping, Serving
<1>2. CASE drop
  BY <1>1, <1>2, DropStep DEF IInv, Running, Locations, Serving
<1>3. CASE checkInput /\ ~drop
  <2>1. /\ pc \in {"lines", "cut"} /\ pc' = "flush"
        /\ ~(Len(clients[pollFds[i].fd].input) > MaxInput)
        /\ UNCHANGED <<pollFds, clients, open, i, ready>>
    BY <1>3 DEF checkInput, Current
  <2>2. Position'
    BY <1>1, <2>1 DEF Alive, Position, Serving
  <2>3. Lines'
    <3>1. \A j \in 2 .. Len(pollFds) : Settled("flush", i, j) => Settled(pc, i, j)
      BY <2>1 DEF Settled, Serving
    <3>2. Len(clients[pollFds[i].fd].input) <= MaxInput
      <4>1. clients[pollFds[i].fd].input \in Seq(Bytes)
        BY <1>1, Basics DEF ClientOK, Client
      <4>2. Len(clients[pollFds[i].fd].input) \in Nat /\ MaxInput \in Nat
        BY <4>1, LenProperties, LimitAssumption
      <4>3. QED
        BY <2>1, <4>2
    <3>3. \A j \in 2 .. Len(pollFds) : Len(clients[pollFds[j].fd].input) <= MaxInput
      BY <1>1, <3>2 DEF Alive, Lines, Reading
    <3>4. QED
      BY <1>1, <2>1, <3>1, <3>3 DEF Alive, Lines
  <2>4. QED
    BY <1>1, <2>1, <2>2, <2>3, TablesUntouched DEF IInv, Running, Locations
<1>4. CASE checkHangup /\ ~drop
  <2>1. pc = "hup" /\ nextEntry(i + 1) /\ UNCHANGED <<pollFds, clients, open>>
    BY <1>4 DEF checkHangup
  <2>2. i \in 1 .. Len(pollFds)
    BY <1>1, Basics
  <2>3. QED
    BY <1>1, <2>1, <2>2, NextEntryStep DEF IInv, Running, Locations
<1>5. QED
  BY <1>2, <1>3, <1>4 DEF serveError

\* poll() and the end of the sweep write revents and nothing else in the tables.
LEMMA ReventsEffect ==
  ASSUME Alive, UNCHANGED <<clients, open>>,
         NEW f \in [1 .. Len(pollFds) -> SUBSET Events],
         pollFds' = [j \in DOMAIN pollFds |-> [pollFds[j] EXCEPT !.revents = f[j]]]
  PROVE  /\ Tables(pollFds', clients') /\ Buffers(pollFds', clients')
         /\ open' = Owned(pollFds')
         /\ Len(pollFds') = Len(pollFds)
         /\ \A j \in 1 .. Len(pollFds) : /\ pollFds'[j].fd = pollFds[j].fd
                                         /\ pollFds'[j].revents = f[j]
<1>1. \A j \in 1 .. Len(pollFds) : /\ pollFds'[j] \in PollFd
                                   /\ pollFds'[j].fd = pollFds[j].fd
                                   /\ pollFds'[j].out = pollFds[j].out
                                   /\ pollFds'[j].revents = f[j]
  BY Basics DEF PollFd
<1>2. pollFds' = [j \in 1 .. Len(pollFds) |-> pollFds'[j]]
  BY Basics
<1>3. pollFds' \in [1 .. Len(pollFds) -> PollFd]
  BY <1>1, <1>2
<1>4. pollFds' \in Seq(PollFd) /\ Len(pollFds') = Len(pollFds)
  BY <1>3, Basics, SameLength
<1>5. Tables(pollFds', clients') /\ Owned(pollFds') = Owned(pollFds)
  BY <1>1, <1>4, SameEntries DEF Alive
<1>6. Buffers(pollFds', clients')
  <2>1. 2 .. Len(pollFds) \subseteq 1 .. Len(pollFds)
    BY Basics
  <2>2. QED
    BY <1>1, <1>4, <2>1 DEF Alive, Buffers
<1>7. QED
  BY <1>1, <1>4, <1>5, <1>6 DEF Alive

\* poll() returns: all that it reported lies ahead of the first position.
LEMMA PollStep ==
  ASSUME IInv, poll
  PROVE  IInv'
<1>1. Alive /\ pc = "poll" /\ pc' = "sweep" /\ i' = 1 /\ UNCHANGED <<clients, open, stop>>
  BY DEF IInv, Running, poll
<1>2. PICK f \in [DOMAIN pollFds -> SUBSET Events] :
        /\ pollFds' = [j \in DOMAIN pollFds |-> [pollFds[j] EXCEPT !.revents = f[j]]]
        /\ ready' = {pollFds[j].fd : j \in {x \in DOMAIN pollFds : f[x] # {}}}
  BY DEF poll
<1>3. DOMAIN pollFds = 1 .. Len(pollFds)
  BY <1>1, Basics
<1>4. /\ Tables(pollFds', clients') /\ Buffers(pollFds', clients')
      /\ open' = Owned(pollFds')
      /\ Len(pollFds') = Len(pollFds)
      /\ \A j \in 1 .. Len(pollFds) : /\ pollFds'[j].fd = pollFds[j].fd
                                      /\ pollFds'[j].revents = f[j]
  BY <1>1, <1>2, <1>3, ReventsEffect
<1>5. ready' = Ahead(pollFds', 1)
  BY <1>2, <1>3, <1>4 DEF Ahead
<1>6. Position'
  BY <1>1, <1>5 DEF Position, Serving
<1>7. Lines'
  <2>1. \A j \in 2 .. Len(pollFds') : j \in 2 .. Len(pollFds) /\ pollFds'[j].fd = pollFds[j].fd
    BY <1>1, <1>4, Basics
  <2>2. QED
    BY <1>1, <2>1 DEF Alive, Lines, Settled, Reading
<1>8. QED
  BY <1>1, <1>4, <1>6, <1>7 DEF IInv, Alive, Running, Locations

\* The sweep is over: nothing is left ahead, or the server is stopping.
LEMMA SweepEndStep ==
  ASSUME IInv, sweepEnd
  PROVE  IInv'
<1>1. /\ Alive /\ pc = "sweep" /\ pc' = "reap" /\ i' = 1
      /\ i > Len(pollFds) \/ stop
      /\ UNCHANGED <<clients, open, stop, ready>>
  BY DEF IInv, Running, sweepEnd
<1> DEFINE f == [j \in 1 .. Len(pollFds) |-> {}]
<1>2. /\ f \in [1 .. Len(pollFds) -> SUBSET Events]
      /\ pollFds' = [j \in DOMAIN pollFds |-> [pollFds[j] EXCEPT !.revents = f[j]]]
  BY <1>1, Basics DEF sweepEnd
<1> HIDE DEF f
<1>3. /\ Tables(pollFds', clients') /\ Buffers(pollFds', clients')
      /\ open' = Owned(pollFds')
      /\ Len(pollFds') = Len(pollFds)
      /\ \A j \in 1 .. Len(pollFds) : pollFds'[j].fd = pollFds[j].fd
  BY <1>1, <1>2, ReventsEffect
<1>4. ready = {} \/ stop
  <2>1. i > Len(pollFds) => i .. Len(pollFds) = {}
    BY <1>1, Basics
  <2>2. i > Len(pollFds) => Ahead(pollFds, i) = {}
    BY <2>1 DEF Ahead
  <2>3. QED
    BY <1>1, <2>2 DEF Alive, Position
<1>5. Position'
  BY <1>1, <1>4 DEF Position, Serving
<1>6. Lines'
  <2>1. \A j \in 2 .. Len(pollFds') : /\ j \in 2 .. Len(pollFds)
                                      /\ pollFds'[j].fd = pollFds[j].fd
                                      /\ ~(j < 1)
    BY <1>1, <1>3, Basics
  <2>2. QED
    BY <1>1, <2>1 DEF Alive, Lines, Settled, Reading, Serving
<1>7. QED
  BY <1>1, <1>3, <1>5, <1>6 DEF IInv, Alive, Running, Locations

\* accept() returns a descriptor that is not open, hence in neither table: the
\* new entry is last, reports nothing and belongs to a fresh client.
LEMMA AcceptEffect ==
  ASSUME Alive, pc = "sweep", NEW fd \in Fds \ open,
         open' = open \cup {fd}, clients' = With(clients, fd, NewClient),
         pollFds' = addPollFd(fd)
  PROVE  /\ Tables(pollFds', clients') /\ Buffers(pollFds', clients')
         /\ open' = Owned(pollFds')
         /\ Len(pollFds') = Len(pollFds) + 1
         /\ \A j \in 1 .. Len(pollFds) : pollFds'[j] = pollFds[j]
         /\ pollFds'[Len(pollFds) + 1].fd = fd
         /\ pollFds'[Len(pollFds) + 1].revents = {}
         /\ clients'[fd] = NewClient
         /\ \A x \in DOMAIN clients : x # fd /\ clients'[x] = clients[x]
<1> DEFINE entry == [fd |-> fd, out |-> FALSE, revents |-> {}]
           n == Len(pollFds)
<1>1. entry \in PollFd /\ entry.fd = fd /\ entry.out = FALSE /\ entry.revents = {}
  BY DEF PollFd
<1> HIDE DEF entry
<1>2. /\ pollFds' \in Seq(PollFd) /\ Len(pollFds') = n + 1
      /\ \A j \in 1 .. n : pollFds'[j] = pollFds[j]
      /\ pollFds'[n + 1] = entry
  BY <1>1, Basics, AppendProperties DEF addPollFd, entry
<1>3. n \in Nat /\ n >= 1 /\ \A j \in 1 .. n + 1 : j \in 1 .. n \/ j = n + 1
  BY Basics
<1>4. \A j \in 1 .. n : pollFds[j].fd # fd
  BY DEF Alive, Owned
<1>5. fd \notin DOMAIN clients
  <2>1. \A x \in DOMAIN clients : \E j \in 2 .. n : pollFds[j].fd = x
    BY DEF Alive, Tables
  <2>2. 2 .. n \subseteq 1 .. n
    BY <1>3
  <2>3. QED
    BY <1>4, <2>1, <2>2
<1>6. /\ DOMAIN clients' = DOMAIN clients \cup {fd}
      /\ clients'[fd] = NewClient
      /\ \A x \in DOMAIN clients : x # fd /\ clients'[x] = clients[x]
  BY <1>5 DEF With
<1>7. Tables(pollFds', clients')
  <2>1. pollFds'[1].fd = Listener
    <3>1. 1 \in 1 .. n
      BY <1>3
    <3>2. QED
      BY <1>2, <3>1, Basics
  <2>2. \A j, k \in 1 .. n + 1 : pollFds'[j].fd = pollFds'[k].fd => j = k
    <3>1. \A j, k \in 1 .. n : pollFds[j].fd = pollFds[k].fd => j = k
      BY DEF Alive, Tables
    <3>2. QED
      BY <1>1, <1>2, <1>3, <1>4, <3>1
  <2>3. /\ DOMAIN clients' \subseteq Fds /\ IsFiniteSet(DOMAIN clients')
        /\ n + 1 = Cardinality(DOMAIN clients') + 1
    <3>1. /\ DOMAIN clients \subseteq Fds /\ IsFiniteSet(DOMAIN clients)
          /\ n = Cardinality(DOMAIN clients) + 1
      BY DEF Alive, Tables
    <3>2. /\ IsFiniteSet(DOMAIN clients \cup {fd})
          /\ Cardinality(DOMAIN clients \cup {fd}) = Cardinality(DOMAIN clients) + 1
      BY <1>5, <3>1, FS_AddElement
    <3>3. QED
      BY <1>6, <3>1, <3>2
  <2>4. \A j \in 2 .. n + 1 : pollFds'[j].fd \in DOMAIN clients'
    <3>1. \A j \in 2 .. n + 1 : j = n + 1 \/ (j \in 1 .. n /\ j \in 2 .. n)
      BY <1>3
    <3>2. QED
      BY <1>1, <1>2, <1>6, <3>1, Basics
  <2>5. \A x \in DOMAIN clients' : \E j \in 2 .. n + 1 : pollFds'[j].fd = x
    <3>1. /\ 2 .. n \subseteq 1 .. n /\ 2 .. n \subseteq 2 .. n + 1
          /\ n + 1 \in 2 .. n + 1
      BY <1>3
    <3>2. \A x \in DOMAIN clients : \E j \in 2 .. n : pollFds[j].fd = x
      BY DEF Alive, Tables
    <3>3. QED
      BY <1>1, <1>2, <1>6, <3>1, <3>2
  <2>6. QED
    BY <1>2, <1>3, <2>1, <2>2, <2>3, <2>4, <2>5 DEF Tables
<1>8. Buffers(pollFds', clients')
  <2>1. ClientOK(NewClient) /\ NewClient.output = 0
    BY LimitAssumption, EmptySeq DEF ClientOK, NewClient, Client
  <2>2. \A x \in DOMAIN clients' : ClientOK(clients'[x])
    BY <1>6, <2>1 DEF Alive, Buffers
  <2>3. ASSUME NEW j \in 2 .. n + 1
        PROVE  pollFds'[j].out <=> clients'[pollFds'[j].fd].output > 0
    <3>1. CASE j = n + 1
      BY <1>1, <1>2, <1>6, <2>1, <3>1
    <3>2. CASE j # n + 1
      <4>1. j \in 2 .. n /\ j \in 1 .. n
        BY <1>3, <3>2
      <4>2. pollFds'[j] = pollFds[j] /\ clients'[pollFds[j].fd] = clients[pollFds[j].fd]
        BY <1>2, <1>6, <4>1, Basics
      <4>3. QED
        BY <4>1, <4>2 DEF Alive, Buffers
    <3>3. QED
      BY <3>1, <3>2
  <2>4. QED
    BY <1>2, <2>2, <2>3 DEF Buffers
<1>9. open' = Owned(pollFds')
  <2>1. \A j \in 1 .. n : j \in 1 .. n + 1
    BY <1>3
  <2>2. n + 1 \in 1 .. n + 1
    BY <1>3
  <2>3. QED
    BY <1>1, <1>2, <1>3, <2>1, <2>2 DEF Alive, Owned
<1>10. QED
  BY <1>1, <1>2, <1>6, <1>7, <1>8, <1>9

\* The listener's entry: a new client cannot disturb the sweep it comes in.
LEMMA ListenerStep ==
  ASSUME IInv, serveListener \/ acceptThrows
  PROVE  IInv'
<1>1. Alive /\ pc = "sweep" /\ i \in 1 .. Len(pollFds) /\ Len(pollFds) \in Nat
  BY Basics DEF IInv, Running, serveListener, acceptThrows, Sweeping
<1>2. CASE acceptThrows
  BY <1>1, <1>2, DestroyStep DEF acceptThrows, IInv, Running, Locations
<1>3. CASE serveListener /\ UNCHANGED <<clients, pollFds, open>>
  <2>1. nextEntry(i + 1) /\ UNCHANGED stop
    BY <1>3 DEF serveListener
  <2>2. QED
    BY <1>1, <1>3, <2>1, NextEntryStep DEF IInv, Running, Locations
<1>4. CASE serveListener /\ ~UNCHANGED <<clients, pollFds, open>>
  <2>1. PICK fd \in Fds \ open : /\ open' = open \cup {fd}
                                 /\ clients' = With(clients, fd, NewClient)
                                 /\ pollFds' = addPollFd(fd)
    BY <1>4 DEF serveListener, acceptClient
  <2>2. /\ i' = i + 1 /\ pc' = "sweep" /\ UNCHANGED stop
        /\ ready' = ready \ {pollFds[i].fd}
    BY <1>4 DEF serveListener, nextEntry, Current
  <2>3. /\ Tables(pollFds', clients') /\ Buffers(pollFds', clients')
        /\ open' = Owned(pollFds')
        /\ Len(pollFds') = Len(pollFds) + 1
        /\ \A j \in 1 .. Len(pollFds) : pollFds'[j] = pollFds[j]
        /\ pollFds'[Len(pollFds) + 1].fd = fd
        /\ pollFds'[Len(pollFds) + 1].revents = {}
        /\ clients'[fd] = NewClient
        /\ \A x \in DOMAIN clients : x # fd /\ clients'[x] = clients[x]
    BY <1>1, <2>1, AcceptEffect
  <2>4. Ahead(pollFds', i + 1) = Ahead(pollFds, i + 1)
    <3>1. \A j \in i + 1 .. Len(pollFds') :
            j = Len(pollFds) + 1 \/ (j \in i + 1 .. Len(pollFds) /\ j \in 1 .. Len(pollFds))
      BY <1>1, <2>3
    <3>2. \A j \in i + 1 .. Len(pollFds) : j \in i + 1 .. Len(pollFds') /\ j \in 1 .. Len(pollFds)
      BY <1>1, <2>3
    <3>3. Ahead(pollFds', i + 1) \subseteq Ahead(pollFds, i + 1)
      BY <2>3, <3>1 DEF Ahead
    <3>4. Ahead(pollFds, i + 1) \subseteq Ahead(pollFds', i + 1)
      BY <2>3, <3>2 DEF Ahead
    <3>5. QED
      BY <3>3, <3>4
  <2>5. Position'
    <3>1. ready' = Ahead(pollFds', i')
      BY <1>1, <2>2, <2>4, AheadNext DEF Alive, Position
    <3>2. QED
      BY <1>1, <2>2, <3>1 DEF Position, Serving
  <2>6. Lines'
    <3>1. ASSUME NEW j \in 2 .. Len(pollFds')
          PROVE  /\ Settled("sweep", i + 1, j) => Clean(clients'[pollFds'[j].fd])
                 /\ Len(clients'[pollFds'[j].fd].input) <= MaxInput
      <4>1. CASE j = Len(pollFds) + 1
        <5>1. clients'[pollFds'[j].fd] = NewClient
          BY <2>3, <4>1
        <5>2. Clean(NewClient) /\ Len(NewClient.input) = 0 /\ MaxInput \in Nat
          BY LimitAssumption, EmptySeq DEF Clean, NewClient
        <5>3. QED
          BY <5>1, <5>2
      <4>2. CASE j # Len(pollFds) + 1
        <5>1. j \in 2 .. Len(pollFds) /\ j \in 1 .. Len(pollFds)
          BY <1>1, <2>3, <4>2
        <5>2. clients'[pollFds'[j].fd] = clients[pollFds[j].fd]
          BY <1>1, <2>3, <5>1, Basics
        <5>3. Settled("sweep", i + 1, j) => Settled("sweep", i, j)
          BY <1>1 DEF Settled, Serving
        <5>4. QED
          BY <1>1, <5>1, <5>2, <5>3 DEF Alive, Lines, Reading
      <4>3. QED
        BY <4>1, <4>2
    <3>2. QED
      BY <2>2, <3>1 DEF Lines
  <2>7. QED
    BY <2>2, <2>3, <2>5, <2>6 DEF IInv, Alive, Running, Locations
<1>5. QED
  BY <1>2, <1>3, <1>4

\* A step of the client being served that leaves every entry in its place: the
\* others may only receive output.
LEMMA ServedStep ==
  ASSUME Alive, pc \in Serving \cup {"sweep"}, pc' \in Serving,
         i \in 2 .. Len(pollFds), pollFds[i].revents # {},
         UNCHANGED <<open, i, ready>>,
         pollFds' \in Seq(PollFd), Len(pollFds') = Len(pollFds),
         \A j \in 1 .. Len(pollFds) : /\ pollFds'[j].fd = pollFds[j].fd
                                      /\ pollFds'[j].revents = pollFds[j].revents,
         DOMAIN clients' = DOMAIN clients, Buffers(pollFds', clients'),
         \A j \in 2 .. Len(pollFds) : j # i =>
           Grown(clients[pollFds[j].fd], clients'[pollFds[j].fd]),
         \/ Len(clients'[pollFds[i].fd].input) <= MaxInput
         \/ pc' \in {"lines", "handle", "cut"},
         pc' = "lines" => Clean(clients'[pollFds[i].fd]),
         pc' = "handle" => ~clients'[pollFds[i].fd].quit
  PROVE  Alive'
<1>1. Tables(pollFds', clients') /\ open' = Owned(pollFds')
  BY SameEntries DEF Alive
<1>2. /\ Len(pollFds) \in Nat /\ i \in 1 .. Len(pollFds)
      /\ \A j \in i .. Len(pollFds) : j \in 1 .. Len(pollFds)
      /\ \A j \in 2 .. Len(pollFds) : j \in 1 .. Len(pollFds)
  BY Basics
<1>3. Ahead(pollFds', i) = Ahead(pollFds, i)
  BY <1>2 DEF Ahead
<1>4. Position'
  <2>1. ready' = Ahead(pollFds', i')
    BY <1>3 DEF Alive, Position
  <2>2. i' \in Nat \ {0} /\ i' \in 2 .. Len(pollFds') /\ pollFds'[i'].revents # {}
    BY <1>2
  <2>3. QED
    BY <2>1, <2>2 DEF Position, Serving
<1>5. Lines'
  <2>1. ASSUME NEW j \in 2 .. Len(pollFds), j # i
        PROVE  /\ Settled(pc', i, j) => Clean(clients'[pollFds[j].fd])
               /\ Len(clients'[pollFds[j].fd].input) <= MaxInput
    <3>1. Settled(pc', i, j) => Settled(pc, i, j)
      BY <1>2, <2>1 DEF Settled, Serving
    <3>2. /\ Settled(pc, i, j) => Clean(clients[pollFds[j].fd])
          /\ Len(clients[pollFds[j].fd].input) <= MaxInput
      BY <2>1 DEF Alive, Lines, Reading
    <3>3. QED
      BY <2>1, <3>1, <3>2 DEF Grown, Clean
  <2>2. /\ Settled(pc', i, i) => Clean(clients'[pollFds[i].fd])
        /\ Len(clients'[pollFds[i].fd].input) <= MaxInput \/ Reading(pc', i, i)
    BY <1>2 DEF Settled, Serving, Reading
  <2>3. \A j \in 2 .. Len(pollFds') :
          /\ Settled(pc', i', j) => Clean(clients'[pollFds'[j].fd])
          /\ Len(clients'[pollFds'[j].fd].input) <= MaxInput \/ Reading(pc', i', j)
    BY <1>2, <2>1, <2>2
  <2>4. pc' = "handle" => ~clients'[pollFds'[i'].fd].quit
    BY <1>2
  <2>5. QED
    BY <2>3, <2>4 DEF Lines
<1>6. QED
  BY <1>1, <1>4, <1>5 DEF Alive

\* The same, when the client being served becomes c and nobody else changes.
LEMMA ReplaceStep ==
  ASSUME Alive, pc \in Serving \cup {"sweep"}, pc' \in Serving,
         i \in 2 .. Len(pollFds), pollFds[i].revents # {},
         UNCHANGED <<open, i, ready>>,
         NEW c, ClientOK(c),
         \/ clients' = [clients EXCEPT ![pollFds[i].fd] = c]
         \/ clients' = clients /\ c = clients[pollFds[i].fd],
         NEW out \in BOOLEAN, out <=> c.output > 0,
         \/ pollFds' = [pollFds EXCEPT ![i].out = out]
         \/ pollFds' = pollFds /\ c.output = clients[pollFds[i].fd].output,
         Len(c.input) <= MaxInput \/ pc' \in {"lines", "handle", "cut"},
         pc' = "lines" => Clean(c),
         pc' = "handle" => ~c.quit
  PROVE  Alive'
<1> DEFINE fd == pollFds[i].fd
<1>1. /\ Len(pollFds) \in Nat /\ i \in 1 .. Len(pollFds) /\ pollFds \in Seq(PollFd)
      /\ DOMAIN pollFds = 1 .. Len(pollFds) /\ fd \in DOMAIN clients
      /\ \A j \in 1 .. Len(pollFds) : pollFds[j] \in PollFd
      /\ \A j \in 2 .. Len(pollFds) : /\ j \in 1 .. Len(pollFds)
                                      /\ pollFds[j].fd \in DOMAIN clients
  BY Basics
<1>2. /\ DOMAIN clients' = DOMAIN clients /\ clients'[fd] = c
      /\ \A x \in DOMAIN clients : x # fd => clients'[x] = clients[x]
  BY <1>1
<1>3. \A j \in 2 .. Len(pollFds) : j # i => pollFds[j].fd # fd
  BY <1>1 DEF Alive, Tables
<1>4. /\ \A x \in DOMAIN clients : ClientOK(clients[x])
      /\ \A j \in 2 .. Len(pollFds) : pollFds[j].out <=> clients[pollFds[j].fd].output > 0
  BY DEF Alive, Buffers
<1>5. /\ pollFds' \in Seq(PollFd) /\ Len(pollFds') = Len(pollFds)
      /\ \A j \in 1 .. Len(pollFds) : /\ pollFds'[j].fd = pollFds[j].fd
                                      /\ pollFds'[j].revents = pollFds[j].revents
                                      /\ j # i => pollFds'[j] = pollFds[j]
      /\ pollFds'[i].out <=> c.output > 0
  <2>1. CASE pollFds' = pollFds /\ c.output = clients[fd].output
    BY <1>1, <1>4, <2>1
  <2>2. CASE pollFds' = [pollFds EXCEPT ![i].out = out]
    <3>1. \A j \in 1 .. Len(pollFds) : /\ pollFds'[j] \in PollFd
                                       /\ pollFds'[j].fd = pollFds[j].fd
                                       /\ pollFds'[j].revents = pollFds[j].revents
                                       /\ j # i => pollFds'[j] = pollFds[j]
      BY <1>1, <2>2 DEF PollFd
    <3>2. pollFds'[i].out = out
      BY <1>1, <2>2 DEF PollFd
    <3>3. pollFds' \in [1 .. Len(pollFds) -> PollFd]
      <4>1. pollFds' = [j \in 1 .. Len(pollFds) |-> pollFds'[j]]
        BY <1>1, <2>2
      <4>2. QED
        BY <3>1, <4>1
    <3>4. QED
      BY <1>1, <3>1, <3>2, <3>3, SameLength
  <2>3. QED
    BY <2>1, <2>2
<1>6. Buffers(pollFds', clients')
  <2>1. \A x \in DOMAIN clients' : ClientOK(clients'[x])
    BY <1>2, <1>4
  <2>2. ASSUME NEW j \in 2 .. Len(pollFds')
        PROVE  pollFds'[j].out <=> clients'[pollFds'[j].fd].output > 0
    <3>1. j \in 2 .. Len(pollFds) /\ j \in 1 .. Len(pollFds)
      BY <1>1, <1>5
    <3>2. CASE j = i
      BY <1>1, <1>2, <1>5, <3>2
    <3>3. CASE j # i
      <4>1. pollFds'[j] = pollFds[j] /\ clients'[pollFds[j].fd] = clients[pollFds[j].fd]
        BY <1>1, <1>2, <1>3, <1>5, <3>1, <3>3
      <4>2. QED
        BY <1>4, <3>1, <4>1
    <3>4. QED
      BY <3>2, <3>3
  <2>3. QED
    BY <2>1, <2>2 DEF Buffers
<1>7. \A j \in 2 .. Len(pollFds) : j # i =>
        Grown(clients[pollFds[j].fd], clients'[pollFds[j].fd])
  BY <1>1, <1>2, <1>3, <1>4 DEF Grown
<1>8. QED
  BY <1>1, <1>2, <1>5, <1>6, <1>7, ServedStep

\* popLine: a buffer with a newline has a first one, and what follows it is a
\* shorter buffer.
LEMMA PopLineEffect ==
  ASSUME NEW input \in Seq(Bytes), HasLine(input)
  PROVE  popLine(input) \in Seq(Bytes) /\ Len(popLine(input)) < Len(input)
<1> DEFINE T == {p \in 1 .. Len(input) : input[p] = "n"}
           R == OpToRel(<, Nat)
<1>1. /\ Len(input) \in Nat /\ DOMAIN input = 1 .. Len(input)
      /\ \A p \in 1 .. Len(input) : input[p] \in Bytes
  BY LenProperties, ElementOfSeq
<1>2. T \subseteq Nat /\ T # {}
  BY <1>1 DEF HasLine, Range
<1>3. \A x, y \in Nat : <<y, x>> \in R <=> y < x
  BY DEF OpToRel
<1>4. \E x \in T : \A y \in T : ~(<<y, x>> \in R)
  <2> HIDE DEF T, R
  <2>1. IsWellFoundedOn(R, Nat)
    BY NatLessThanWellFounded DEF R
  <2>2. QED
    BY <1>2, <2>1, WFMin
<1> HIDE DEF R
<1>5. PICK first \in T : \A y \in T : ~(y < first)
  BY <1>2, <1>3, <1>4
<1> DEFINE newline == CHOOSE p \in DOMAIN input :
                        input[p] = "n" /\ \A q \in 1 .. p - 1 : input[q] # "n"
<1>6. \E p \in DOMAIN input : input[p] = "n" /\ \A q \in 1 .. p - 1 : input[q] # "n"
  <2>1. first \in DOMAIN input /\ input[first] = "n"
    BY <1>1
  <2>2. \A q \in 1 .. first - 1 : q \in 1 .. Len(input) /\ q < first
    BY <1>1
  <2>3. \A q \in 1 .. first - 1 : input[q] # "n"
    BY <1>5, <2>2
  <2>4. QED
    BY <2>1, <2>3
<1>7. newline \in 1 .. Len(input)
  BY <1>1, <1>6
<1>8. popLine(input) = SubSeq(input, newline + 1, Len(input))
  BY DEF popLine
<1> HIDE DEF newline, T
<1>9. /\ newline + 1 \in Int /\ Len(input) \in Int
      /\ \A p \in newline + 1 .. Len(input) : input[p] \in Bytes
  BY <1>1, <1>7
<1>10. /\ popLine(input) \in Seq(Bytes)
       /\ Len(popLine(input)) = IF newline + 1 <= Len(input)
                                THEN Len(input) - (newline + 1) + 1 ELSE 0
  BY <1>8, <1>9, SubSeqProperties
<1>11. newline \in Nat /\ newline >= 1 /\ newline <= Len(input)
  BY <1>1, <1>7
<1>12. (IF newline + 1 <= Len(input) THEN Len(input) - (newline + 1) + 1 ELSE 0)
         < Len(input)
  BY <1>1, <1>11
<1>13. QED
  BY <1>10, <1>12

\* receiveFromClient: bytes come in for a client without a late line.
LEMMA ReceiveStep ==
  ASSUME IInv, receiveFromClient
  PROVE  IInv'
<1> DEFINE fd == pollFds[i].fd
<1>1. /\ Alive /\ pc = "sweep" /\ i \in 2 .. Len(pollFds) /\ pollFds[i].revents # {}
      /\ UNCHANGED stop
  BY Basics DEF IInv, Running, receiveFromClient, Sweeping, Has
<1>2. CASE drop
  BY <1>1, <1>2, DropStep DEF IInv, Running, Locations
<1>3. CASE ~drop
  <2>1. PICK n \in 1 .. Chunk : \E bytes \in [1 .. n -> Bytes] :
          /\ clients' = [clients EXCEPT ![fd].input = @ \o bytes]
          /\ pc' = "lines"
          /\ UNCHANGED <<pollFds, open, i, ready>>
    BY <1>3 DEF receiveFromClient, Current
  <2>2. PICK bytes \in [1 .. n -> Bytes] :
          /\ clients' = [clients EXCEPT ![fd].input = @ \o bytes]
          /\ pc' = "lines"
          /\ UNCHANGED <<pollFds, open, i, ready>>
    BY <2>1
  <2>3. n \in Nat
    BY LimitAssumption
  <2>4. bytes \in Seq(Bytes)
    BY <2>3, SeqDef
  <2>5. fd \in DOMAIN clients /\ ClientOK(clients[fd]) /\ Clean(clients[fd])
    BY <1>1, Basics DEF Alive, Lines, Settled
  <2> DEFINE c == [clients[fd] EXCEPT !.input = clients[fd].input \o bytes]
  <2>6. clients[fd].input \o bytes \in Seq(Bytes)
    BY <2>4, <2>5, ConcatProperties DEF ClientOK, Client
  <2>7. /\ c \in Client /\ c.output = clients[fd].output /\ c.doomed = clients[fd].doomed
        /\ c.quit = clients[fd].quit /\ c.late = clients[fd].late
    BY <2>5, <2>6 DEF ClientOK, Client
  <2>8. clients' = [clients EXCEPT ![fd] = c]
    BY <2>2
  <2> HIDE DEF c, fd
  <2>9. ClientOK(c) /\ Clean(c)
    BY <2>5, <2>7 DEF ClientOK, Clean
  <2>10. Alive'
    BY <1>1, <2>2, <2>7, <2>8, <2>9, ReplaceStep DEF Serving, fd
  <2>11. QED
    BY <2>2, <2>10 DEF IInv, Running, Locations
<1>4. QED
  BY <1>2, <1>3

\* The next complete line is taken: only a doomed client's counts as late, and
\* it is the first.
LEMMA TakeLineStep ==
  ASSUME IInv, takeLine
  PROVE  IInv'
<1> DEFINE fd == pollFds[i].fd
           old == clients[fd]
<1>1. /\ Alive /\ pc = "lines" /\ pc' = "handle" /\ HasLine(old.input)
      /\ UNCHANGED <<pollFds, open, i, stop, ready>>
      /\ i \in 2 .. Len(pollFds) /\ pollFds[i].revents # {}
  BY DEF IInv, Running, takeLine, Current, Alive, Position, Serving
<1>2. fd \in DOMAIN clients /\ ClientOK(old) /\ Clean(old)
  BY <1>1, Basics DEF Alive, Lines, Settled
<1> DEFINE late == IF old.doomed THEN old.late + 1 ELSE old.late
           rest == popLine(old.input)
           c == [old EXCEPT !.input = rest, !.late = late]
<1>3. clients' = [clients EXCEPT ![fd] = c]
  BY <1>2 DEF takeLine, Current
<1>4. rest \in Seq(Bytes) /\ old \in Client
  BY <1>1, <1>2, PopLineEffect DEF ClientOK, Client
<1>5. late \in 0 .. 1 /\ late \in Nat /\ (late # 0 => old.doomed)
  BY <1>2 DEF Clean
<1> HIDE DEF late, rest, old
<1>6. /\ c \in Client /\ c.output = old.output /\ c.doomed = old.doomed
      /\ c.quit = old.quit /\ c.late = late
  BY <1>4, <1>5 DEF Client
<1> HIDE DEF c
<1>7. ClientOK(c) /\ ~c.quit
  BY <1>2, <1>5, <1>6 DEF ClientOK, Clean
<1> HIDE DEF fd
<1>8. Alive'
  BY <1>1, <1>3, <1>6, <1>7, ReplaceStep DEF Serving, fd, old
<1>9. QED
  BY <1>1, <1>8 DEF IInv, Running, Locations

\* QUIT dooms the client, so its lines are cut off there.
LEMMA QuitStep ==
  ASSUME IInv, handleQuit
  PROVE  IInv'
<1> DEFINE fd == pollFds[i].fd
           old == clients[fd]
           c == [old EXCEPT !.doomed = TRUE, !.quit = TRUE]
<1>1. /\ Alive /\ pc = "handle" /\ UNCHANGED <<pollFds, open, i, stop, ready>>
      /\ i \in 2 .. Len(pollFds) /\ pollFds[i].revents # {}
  BY DEF IInv, Running, handleQuit, Alive, Position, Serving
<1>2. fd \in DOMAIN clients /\ ClientOK(old) /\ old \in Client
  BY <1>1, Basics DEF ClientOK
<1>3. clients' = [clients EXCEPT ![fd] = c]
  BY <1>2 DEF handleQuit, Current
<1>4. /\ c \in Client /\ c.output = old.output /\ c.doomed /\ c.late = old.late
  BY <1>2 DEF Client
<1>5. pc' = "cut"
  <2>1. clients'[pollFds'[i'].fd] = c
    BY <1>1, <1>2, <1>3
  <2>2. QED
    BY <1>1, <1>4, <2>1 DEF handleQuit, afterLine, Current
<1> HIDE DEF c
<1>6. ClientOK(c)
  BY <1>2, <1>4 DEF ClientOK
<1> HIDE DEF old, fd
<1>7. Alive'
  BY <1>1, <1>3, <1>4, <1>5, <1>6, ReplaceStep DEF Serving, fd, old
<1>8. QED
  BY <1>1, <1>5, <1>7 DEF IInv, Running, Locations

\* Any other command: lines are queued, to the client itself too, and it may
\* overflow; then its lines are cut off.
LEMMA HandleStep ==
  ASSUME IInv, handleCompleteLine
  PROVE  IInv'
<1> DEFINE fd == pollFds[i].fd
<1>1. /\ Alive /\ pc = "handle" /\ UNCHANGED <<open, i, stop, ready>>
      /\ i \in 2 .. Len(pollFds) /\ pollFds[i].revents # {}
      /\ ~clients[fd].quit
  BY DEF IInv, Running, handleCompleteLine, Alive, Position, Serving, Lines
<1>2. PICK S \in SUBSET DOMAIN clients : /\ clients' = queued(clients, S)
                                         /\ pollFds' = watched(clients, S, pollFds)
  BY DEF handleCompleteLine
<1>3. /\ pollFds \in Seq(PollFd) /\ Len(pollFds) \in Nat
      /\ i \in 1 .. Len(pollFds) /\ fd \in DOMAIN clients
      /\ \A j \in 2 .. Len(pollFds) : /\ j \in 1 .. Len(pollFds)
                                      /\ pollFds[j].fd \in DOMAIN clients
  BY <1>1, Basics
<1>4. /\ \A x \in DOMAIN clients : ClientOK(clients[x])
      /\ \A j \in 1 .. Len(pollFds) : pollFds[j].fd \in DOMAIN clients =>
           (pollFds[j].out <=> clients[pollFds[j].fd].output > 0)
  <2>1. \A j \in 1 .. Len(pollFds) : pollFds[j].fd \in DOMAIN clients => j \in 2 .. Len(pollFds)
    BY <1>1, <1>3, LimitAssumption DEF Alive, Tables
  <2>2. QED
    BY <1>1, <2>1 DEF Alive, Buffers
<1>5. /\ pollFds' \in Seq(PollFd)
      /\ Len(pollFds') = Len(pollFds)
      /\ DOMAIN clients' = DOMAIN clients
      /\ \A x \in DOMAIN clients : Grown(clients[x], clients'[x])
      /\ \A j \in 1 .. Len(pollFds) :
           /\ pollFds'[j].fd = pollFds[j].fd
           /\ pollFds'[j].revents = pollFds[j].revents
           /\ pollFds[j].fd \in DOMAIN clients =>
                (pollFds'[j].out <=> clients'[pollFds[j].fd].output > 0)
  BY <1>2, <1>3, <1>4, QueueEffect
<1>6. Buffers(pollFds', clients')
  <2>1. \A x \in DOMAIN clients' : ClientOK(clients'[x])
    BY <1>5 DEF Grown
  <2>2. \A j \in 2 .. Len(pollFds') : pollFds'[j].out <=> clients'[pollFds'[j].fd].output > 0
    BY <1>3, <1>5
  <2>3. QED
    BY <2>1, <2>2 DEF Buffers
<1>7. /\ pc' \in {"handle", "cut", "lines"}
      /\ pc' = "lines" => ~clients'[fd].doomed
  <2>1. pollFds'[i'].fd = fd
    BY <1>1, <1>3, <1>5
  <2>2. QED
    BY <2>1 DEF handleCompleteLine, afterLine, Current
<1>8. /\ ~clients'[fd].quit
      /\ ~clients'[fd].doomed => Clean(clients'[fd])
  BY <1>1, <1>3, <1>5 DEF Grown, ClientOK, Clean
<1>9. Alive'
  <2>1. pc \in Serving \cup {"sweep"} /\ pc' \in Serving
    BY <1>1, <1>7 DEF Serving
  <2>2. \A j \in 2 .. Len(pollFds) : j # i =>
          Grown(clients[pollFds[j].fd], clients'[pollFds[j].fd])
    BY <1>3, <1>5
  <2>3. QED
    BY <1>1, <1>5, <1>6, <1>7, <1>8, <2>1, <2>2, ServedStep
<1>10. QED
  BY <1>7, <1>9 DEF IInv, Running, Locations

\* send(): POLLOUT stays exactly as long as something is left.
LEMMA FlushStep ==
  ASSUME IInv, flushClientOutput
  PROVE  IInv'
<1> DEFINE fd == pollFds[i].fd
           old == clients[fd]
<1>1. /\ Alive /\ pc = "flush" /\ UNCHANGED stop
      /\ i \in 2 .. Len(pollFds) /\ pollFds[i].revents # {}
  BY DEF IInv, Running, flushClientOutput, Alive, Position, Serving
<1>2. /\ fd \in DOMAIN clients /\ ClientOK(old) /\ old \in Client /\ old.output \in Nat
      /\ Len(old.input) <= MaxInput
  BY <1>1, Basics DEF ClientOK, Client, Alive, Lines, Reading
<1>3. CASE drop
  BY <1>1, <1>3, DropStep DEF IInv, Running, Locations, Serving
<1>4. CASE ~drop /\ old.output = 0
  <2>1. /\ pollFds' = [pollFds EXCEPT ![i].out = FALSE] /\ pc' = "hup"
        /\ UNCHANGED <<clients, open, i, ready>>
    BY <1>4 DEF flushClientOutput, Current
  <2>2. FALSE \in BOOLEAN /\ ~(old.output > 0)
    BY <1>4
  <2>3. Alive'
    BY <1>1, <1>2, <2>1, <2>2, ReplaceStep DEF Serving
  <2>4. QED
    BY <2>1, <2>3 DEF IInv, Running, Locations
<1>5. CASE ~drop /\ old.output # 0
  <2>1. PICK sent \in 1 .. old.output :
          /\ clients' = [clients EXCEPT ![fd].output = @ - sent]
          /\ pollFds' = [pollFds EXCEPT ![i].out = old.output > sent]
          /\ pc' = "hup"
          /\ UNCHANGED <<open, i, ready>>
    BY <1>5 DEF flushClientOutput, Current, stillWatched
  <2> DEFINE left == old.output - sent
             c == [old EXCEPT !.output = left]
  <2>2. clients' = [clients EXCEPT ![fd] = c]
    BY <1>2, <2>1
  <2>3. /\ left \in Nat /\ left <= old.output
        /\ old.output > sent <=> left > 0
    BY <1>2
  <2> HIDE DEF left
  <2>4. /\ c \in Client /\ c.output = left /\ c.doomed = old.doomed
        /\ c.input = old.input /\ c.quit = old.quit /\ c.late = old.late
    BY <1>2, <2>3 DEF Client
  <2> HIDE DEF c
  <2>5. ClientOK(c)
    <3>1. MaxOutput \in Nat
      BY LimitAssumption
    <3>2. QED
      BY <1>2, <2>3, <2>4, <3>1 DEF ClientOK
  <2>6. (old.output > sent) \in BOOLEAN
    OBVIOUS
  <2> HIDE DEF old, fd
  <2>7. Alive'
    BY <1>1, <1>2, <2>1, <2>2, <2>3, <2>4, <2>5, <2>6, ReplaceStep DEF Serving, fd
  <2>8. QED
    BY <2>1, <2>7 DEF IInv, Running, Locations
<1>6. QED
  BY <1>3, <1>4, <1>5

\* removeDisconnectedClients: behind its index nobody is left who quit, although
\* every removal moves the entries and may doom others.
LEMMA ReapStep ==
  ASSUME IInv, removeDisconnectedClients
  PROVE  IInv'
<1>1. /\ Alive /\ pc = "reap" /\ UNCHANGED <<stop, ready>>
      /\ Len(pollFds) \in Nat /\ i \in Nat \ {0}
  BY Basics DEF IInv, Running, removeDisconnectedClients
<1>2. /\ \A j \in 2 .. Len(pollFds) :
           /\ j < i => Clean(clients[pollFds[j].fd])
           /\ Len(clients[pollFds[j].fd].input) <= MaxInput
      /\ ready = {} \/ stop
  BY <1>1 DEF Alive, Lines, Position, Settled, Reading
<1>3. CASE i > Len(pollFds)
  <2>1. pc' = "loop" /\ i' = 1 /\ UNCHANGED <<pollFds, clients, open>>
    BY <1>3 DEF removeDisconnectedClients
  <2>2. Position'
    BY <1>1, <1>2, <2>1 DEF Position, Serving
  <2>3. Lines'
    <3>1. \A j \in 2 .. Len(pollFds) : j < i
      BY <1>1, <1>3
    <3>2. QED
      BY <1>2, <2>1, <3>1 DEF Lines
  <2>4. QED
    BY <1>1, <2>1, <2>2, <2>3, TablesUntouched DEF IInv, Running, Locations
<1>4. CASE ~(i > Len(pollFds)) /\ Current # Listener /\ isDisconnectRequested(Current)
  <2>1. pc' = "reap" /\ i' = i /\ removeClient(i)
    BY <1>1, <1>4 DEF removeDisconnectedClients, afterErase
  <2>2. i \in 2 .. Len(pollFds)
    BY <1>1, <1>4, Basics DEF Current
  <2>3. /\ Tables(pollFds', clients')
        /\ Buffers(pollFds', clients')
        /\ open' = Owned(pollFds')
        /\ Len(pollFds') = Len(pollFds) - 1
        /\ \A j \in 2 .. Len(pollFds') :
             Grown(clients[pollFds[Old(i, j)].fd], clients'[pollFds'[j].fd])
    BY <1>1, <2>1, <2>2, RemoveEffect DEF Alive
  <2>4. Position'
    BY <1>1, <1>2, <2>1 DEF Position, Serving
  <2>5. Lines'
    <3>1. ASSUME NEW j \in 2 .. Len(pollFds')
          PROVE  /\ j < i => Clean(clients'[pollFds'[j].fd])
                 /\ Len(clients'[pollFds'[j].fd].input) <= MaxInput
      <4>1. Old(i, j) \in 2 .. Len(pollFds) /\ (j < i => Old(i, j) < i)
        BY <1>1, <2>3 DEF Old
      <4>2. QED
        BY <1>2, <2>3, <4>1 DEF Grown, Clean
    <3>2. QED
      BY <2>1, <3>1 DEF Lines, Settled, Serving
  <2>6. QED
    BY <2>1, <2>3, <2>4, <2>5 DEF IInv, Alive, Running, Locations
<1>5. CASE ~(i > Len(pollFds)) /\ ~(Current # Listener /\ isDisconnectRequested(Current))
  <2>1. pc' = "reap" /\ i' = i + 1 /\ UNCHANGED <<pollFds, clients, open>>
    BY <1>1, <1>5 DEF removeDisconnectedClients
  <2>2. i = 1 \/ (i \in 2 .. Len(pollFds) /\ ~clients[pollFds[i].fd].doomed)
    BY <1>1, <1>5, Basics DEF Current, isDisconnectRequested
  <2>3. i = 1 \/ Clean(clients[pollFds[i].fd])
    BY <1>1, <2>2, Basics DEF ClientOK, Clean
  <2>4. Position'
    BY <1>1, <1>2, <2>1 DEF Position, Serving
  <2>5. Lines'
    <3>1. \A j \in 2 .. Len(pollFds) : j < i + 1 => j < i \/ (j = i /\ i # 1)
      BY <1>1
    <3>2. \A j \in 2 .. Len(pollFds) : j < i + 1 => Clean(clients[pollFds[j].fd])
      BY <1>2, <2>3, <3>1
    <3>3. QED
      BY <1>2, <2>1, <3>2 DEF Lines, Settled, Serving
  <2>6. QED
    BY <1>1, <2>1, <2>4, <2>5, TablesUntouched DEF IInv, Running, Locations
<1>6. QED
  BY <1>3, <1>4, <1>5

-----------------------------------------------------------------------------
(* Theorems *)

\* The invariant is inductive.
LEMMA NextStep ==
  ASSUME IInv, [Next]_vars
  PROVE  IInv'
<1>1. CASE UNCHANGED vars
  BY <1>1 DEF vars, IInv, Alive, Dead, Running, Position, Lines
<1>2. CASE handleQuit
  BY <1>2, QuitStep
<1>3. CASE handleCompleteLine
  BY <1>3, HandleStep
<1>4. CASE poll \/ pollFails \/ handleSignal
  BY <1>4, PollStep, WaitStep, SignalStep
<1>5. CASE plumbing
  BY <1>5, StartStep, WaitStep, SweepEndStep, SkipStep, ListenerStep, ServeStep,
     ReceiveStep, TakeLineStep, FlushStep, ReapStep DEF plumbing
<1>6. QED
  BY <1>1, <1>2, <1>3, <1>4, <1>5 DEF Next, step

\* It holds from main() to the end.
THEOREM Invariance == Spec => []IInv
<1>1. Init => IInv
  BY DEF Init, IInv, Dead, Running, Locations, EmptyMap
<1>2. IInv /\ [Next]_vars => IInv'
  BY NextStep
<1>3. QED
  BY <1>1, <1>2, PTL DEF Spec

\* While an entry is served, run()'s index denotes a client, however many were
\* accepted or erased since poll() returned.
THEOREM TypeCorrect == Spec => []TypeOK
<1>1. IInv => TypeOK
  <2>1. SUFFICES ASSUME IInv PROVE TypeOK
    OBVIOUS
  <2>2. CASE ~Running
    <3>1. Dead /\ pollFds \in Seq(PollFd)
      BY <2>1, <2>2, EmptySeq DEF IInv, Dead
    <3>2. QED
      BY <2>1, <2>2, <3>1 DEF IInv, Dead, Running, TypeOK, Serving, Locations
  <2>3. CASE Running
    <3>1. Alive
      BY <2>1, <2>3 DEF IInv
    <3>2. open \subseteq Fds \cup {Listener}
      BY <3>1, Basics DEF Alive, Owned, PollFd
    <3>3. pc \in Serving => i \in DOMAIN pollFds /\ Current # Listener
      <4>1. pc \in Serving => i \in 2 .. Len(pollFds) /\ i \in 1 .. Len(pollFds)
        BY <3>1, Basics
      <4>2. QED
        BY <3>1, <4>1, Basics DEF Current
    <3>4. \A fd \in DOMAIN clients : clients[fd] \in Client
      BY <3>1 DEF Alive, Buffers, ClientOK
    <3>5. pollFds \in Seq(PollFd) /\ DOMAIN clients \subseteq Fds
      BY <3>1 DEF Alive, Tables
    <3>6. QED
      BY <2>1, <3>2, <3>3, <3>4, <3>5 DEF IInv, TypeOK, Locations
  <2>4. QED
    BY <2>2, <2>3
<1>2. QED
  BY <1>1, Invariance, PTL

\* _pollFds and _clients agree, whatever the order of connections, removals
\* under the sweep and removals by the reaping.
THEOREM Agreement == Spec => []TablesAgree
<1>1. IInv => TablesAgree
  <2>1. SUFFICES ASSUME IInv, Running PROVE TablesAgree
    BY DEF TablesAgree
  <2>2. Alive
    BY <2>1 DEF IInv
  <2>3. {pollFds[j].fd : j \in 2 .. Len(pollFds)} = DOMAIN clients
    <3>1. \A j \in 2 .. Len(pollFds) : pollFds[j].fd \in DOMAIN clients
      BY <2>2 DEF Alive, Tables
    <3>2. \A fd \in DOMAIN clients : \E j \in 2 .. Len(pollFds) : pollFds[j].fd = fd
      BY <2>2 DEF Alive, Tables
    <3>3. QED
      BY <3>1, <3>2
  <2>4. QED
    BY <2>2, <2>3 DEF Alive, Tables, TablesAgree
<1>2. QED
  BY <1>1, Invariance, PTL

\* No descriptor leaks and none is closed under the loop: not by a removal, a
\* failed start, an exception or a stop.
THEOREM Ownership == Spec => []DescriptorsOwned
<1>1. IInv => DescriptorsOwned
  <2>1. SUFFICES ASSUME IInv PROVE DescriptorsOwned
    OBVIOUS
  <2>2. CASE ~Running
    BY <2>1, <2>2 DEF IInv, Dead, DescriptorsOwned
  <2>3. CASE Running
    <3>1. Alive /\ pc # "bind"
      BY <2>1, <2>3 DEF IInv, Running
    <3>2. open = Owned(pollFds) /\ DOMAIN pollFds = 1 .. Len(pollFds)
      BY <3>1, Basics DEF Alive
    <3>3. QED
      BY <3>1, <3>2 DEF Owned, DescriptorsOwned
  <2>4. QED
    BY <2>2, <2>3
<1>2. QED
  BY <1>1, Invariance, PTL

\* Whoever has output is polled for writing, and nobody else.
THEOREM Writable == Spec => []PollOutExact
<1>1. IInv => PollOutExact
  <2>1. SUFFICES ASSUME IInv PROVE PollOutExact
    OBVIOUS
  <2>2. CASE ~Running
    BY <2>1, <2>2 DEF IInv, Dead, PollOutExact
  <2>3. CASE Running
    <3>1. Alive
      BY <2>1, <2>3 DEF IInv
    <3>2. \A j \in DOMAIN pollFds : pollFds[j].fd # Listener => j \in 2 .. Len(pollFds)
      BY <3>1, Basics
    <3>3. QED
      BY <3>1, <3>2 DEF Alive, Buffers, PollOutExact
  <2>4. QED
    BY <2>2, <2>3
<1>2. QED
  BY <1>1, Invariance, PTL

\* Each reported descriptor is served once although entries move under the index.
THEOREM SweepCorrect == Spec => []SweepExact
<1>1. IInv => SweepExact
  <2>1. SUFFICES ASSUME IInv PROVE SweepExact
    OBVIOUS
  <2>2. CASE ~Running
    BY <2>1, <2>2 DEF Running, SweepExact, Serving
  <2>3. CASE Running
    <3>1. Alive
      BY <2>1, <2>3 DEF IInv
    <3>2. pc \in Serving => Current \in Ahead(pollFds, i)
      <4>1. pc \in Serving => i \in i .. Len(pollFds) /\ pollFds[i].revents # {}
        BY <3>1, Basics DEF Alive, Position
      <4>2. QED
        BY <4>1 DEF Ahead, Current
    <3>3. QED
      BY <3>1, <3>2 DEF Alive, Position, SweepExact, Ahead
  <2>4. QED
    BY <2>2, <2>3
<1>2. QED
  BY <1>1, Invariance, PTL

\* Nothing is handled after a QUIT, at most one line after an overflow.
THEOREM LinesCutOff == Spec => []LateLines
<1>1. IInv => LateLines
  <2>1. SUFFICES ASSUME IInv PROVE LateLines
    OBVIOUS
  <2>2. CASE ~Running
    BY <2>1, <2>2 DEF IInv, Dead, Running, LateLines
  <2>3. CASE Running
    <3>1. Alive
      BY <2>1, <2>3 DEF IInv
    <3>2. pc = "lines" => ~clients[Current].quit
      <4>1. pc = "lines" => i \in 2 .. Len(pollFds) /\ Settled(pc, i, i)
        BY <3>1, Basics DEF Serving, Settled
      <4>2. QED
        BY <3>1, <4>1 DEF Alive, Lines, Clean, Current
    <3>3. pc = "handle" => ~clients[Current].quit
      BY <3>1 DEF Alive, Lines, Current
    <3>4. QED
      BY <3>1, <3>2, <3>3 DEF Alive, Buffers, ClientOK, LateLines
  <2>4. QED
    BY <2>2, <2>3
<1>2. QED
  BY <1>1, Invariance, PTL

\* The server never goes back to waiting with a client that sent QUIT.
THEOREM NoQuitterWaits == Spec => []QuitReaped
<1>1. IInv => QuitReaped
  <2>1. SUFFICES ASSUME IInv, pc \in {"enter", "poll"}, NEW fd \in DOMAIN clients
                 PROVE  ~clients[fd].quit
    BY DEF QuitReaped
  <2>2. Alive
    BY <2>1 DEF IInv, Running
  <2>3. PICK j \in 2 .. Len(pollFds) : pollFds[j].fd = fd
    BY <2>2 DEF Alive, Tables
  <2>4. Settled(pc, i, j)
    BY <2>1 DEF Settled
  <2>5. QED
    BY <2>2, <2>3, <2>4 DEF Alive, Lines, Clean
<1>2. QED
  BY <1>1, Invariance, PTL

\* Output never exceeds its limit, and input does only while it is being read.
THEOREM BuffersKept == Spec => []BuffersBounded
<1>1. IInv => BuffersBounded
  <2>1. SUFFICES ASSUME IInv, NEW fd \in DOMAIN clients
                 PROVE  /\ clients[fd].output <= MaxOutput
                        /\ pc \in {"enter", "poll"} => Len(clients[fd].input) <= MaxInput
    BY DEF BuffersBounded
  <2>2. Alive
    BY <2>1 DEF IInv, Dead
  <2>3. PICK j \in 2 .. Len(pollFds) : pollFds[j].fd = fd
    BY <2>2 DEF Alive, Tables
  <2>4. pc \in {"enter", "poll"} => ~Reading(pc, i, j)
    BY DEF Reading
  <2>5. QED
    BY <2>2, <2>3, <2>4 DEF Alive, Buffers, ClientOK, Lines
<1>2. QED
  BY <1>1, Invariance, PTL
=============================================================================
