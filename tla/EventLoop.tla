------------------------------ MODULE EventLoop ------------------------------
(***************************************************************************)
(* The life of class Server: its start-up, run() with one poll() loop over *)
(* the listener and the clients, the non-blocking reads and writes it      *)
(* triggers, the deferred removal of clients, the signal handler that asks *)
(* it to stop, the exceptions that leave run(), and the destructor.        *)
(*                                                                         *)
(* What a command does is IrcServer's subject; here a complete line either *)
(* is a QUIT or queues lines to clients, any number of times.  Bytes come  *)
(* in units: an input buffer is a sequence of "x" (a byte other than a      *)
(* newline) and "n" (a newline), an output buffer is its size, and every   *)
(* queued line has size 1.  The kernel and the peers are external: poll()  *)
(* may report anything it was asked for, and accept(), recv() and send()   *)
(* may return anything they can return.                                    *)
(***************************************************************************)
EXTENDS Naturals, Sequences, FiniteSets, SequencesExt

CONSTANTS
  Listener,   \* _listenerFd
  Fds,        \* descriptors left for connections; accept() fails without one
  MaxOutput,  \* MAX_PENDING_OUTPUT, in lines
  MaxInput,   \* MAX_PENDING_INPUT, in bytes
  Chunk,      \* size of the buffer of one recv()
  Events      \* what poll() may report

ASSUME LimitAssumption ==
  /\ Listener \notin Fds
  /\ Events \subseteq {"IN", "OUT", "HUP", "ERR"}
  /\ MaxOutput \in Nat \ {0} /\ MaxInput \in Nat /\ Chunk \in Nat \ {0}

VARIABLES
  pollFds,  \* _pollFds: [fd, out, revents]; POLLIN is always requested
  clients,  \* _clients: [input, output, doomed], and observers quit and late
  open,     \* descriptors the process holds, as the kernel sees them
  pc,       \* where the program is
  i,        \* index of its for loop, or of removeDisconnectedClients
  stop,     \* _stopRequested
  ready     \* observer: descriptors poll() reported and run() has not served

vars == <<pollFds, clients, open, pc, i, stop, ready>>

Bytes == {"x", "n"}

Client == [input : Seq(Bytes), output : Nat, doomed : BOOLEAN,
           quit : BOOLEAN, late : Nat]
PollFd == [fd : Fds \cup {Listener}, out : BOOLEAN, revents : SUBSET Events]

NewClient == [input |-> <<>>, output |-> 0, doomed |-> FALSE,
              quit |-> FALSE, late |-> 0]

EmptyMap == [x \in {} |-> x]
Without(f, x) == [y \in DOMAIN f \ {x} |-> f[y]]
With(f, x, v) == [y \in DOMAIN f \cup {x} |-> IF y = x THEN v ELSE f[y]]

Current == pollFds[i].fd
Running == pc \notin {"boot", "socket", "bind", "stopped"}
Serving == {"lines", "handle", "cut", "flush", "hup"}
Has(event) == event \in pollFds[i].revents

-----------------------------------------------------------------------------
(* Buffers *)

\* Mutant: off by one at the limit.
queueRawOneMore(c) ==
  IF c.doomed THEN c
  ELSE IF c.output > MaxOutput THEN [c EXCEPT !.doomed = TRUE]
  ELSE [c EXCEPT !.output = @ + 1]

\* queueRaw: what becomes of one client to which a line is queued.
queueRaw(c) ==
  IF c.doomed THEN c
  ELSE IF c.output > MaxOutput - 1 THEN [c EXCEPT !.doomed = TRUE]
  ELSE [c EXCEPT !.output = @ + 1]

\* A line queued to every client of S, POLLOUT enabled with it.
queued(cl, S) == [fd \in DOMAIN cl |-> IF fd \in S THEN queueRaw(cl[fd]) ELSE cl[fd]]
watched(cl, S, polls) ==
  [j \in DOMAIN polls |->
     [polls[j] EXCEPT !.out = @ \/ /\ polls[j].fd \in S \cap DOMAIN cl
                                   /\ queueRaw(cl[polls[j].fd]).output
                                        > cl[polls[j].fd].output]]

\* POLLOUT stays requested while consumeOutput leaves something.  Mutant: it is
\* cleared after every send().
stillWatchedNever(c, sent) == FALSE
stillWatched(c, sent) == c.output > sent

\* popLine: position of the first newline, and the rest of the buffer.
HasLine(input) == "n" \in Range(input)
popLine(input) ==
  LET newline == CHOOSE p \in DOMAIN input :
                   input[p] = "n" /\ \A q \in 1 .. p - 1 : input[q] # "n"
  IN SubSeq(input, newline + 1, Len(input))

-----------------------------------------------------------------------------
(* Connections *)

addPollFd(fd) == Append(pollFds, [fd |-> fd, out |-> FALSE, revents |-> {}])

\* ~Server: every Client closes its socket, then the listener is closed.
destroy ==
  /\ open' = open \ (DOMAIN clients \cup {Listener})
  /\ clients' = EmptyMap
  /\ pollFds' = <<>>
  /\ pc' = "stopped"
  /\ UNCHANGED <<i, stop, ready>>

\* accept() fails, or returns a descriptor that is not open.
acceptClient ==
  \/ UNCHANGED <<clients, pollFds, open>>
  \/ \E fd \in Fds \ open :
       /\ open' = open \cup {fd}
       /\ clients' = With(clients, fd, NewClient)
       /\ pollFds' = addPollFd(fd)

\* Mutants: the pollfd stays behind, or the Client is erased and not deleted.
removeClientKeepsPollFd(index) ==
  LET rest == Without(clients, pollFds[index].fd)
  IN \E peers \in SUBSET DOMAIN rest :
       /\ clients' = queued(rest, peers)
       /\ pollFds' = watched(rest, peers, pollFds)
       /\ open' = open \ {pollFds[index].fd}
removeClientLeaks(index) ==
  LET rest == Without(clients, pollFds[index].fd)
  IN \E peers \in SUBSET DOMAIN rest :
       /\ clients' = queued(rest, peers)
       /\ pollFds' = RemoveAt(watched(rest, peers, pollFds), index)
       /\ UNCHANGED open

\* removeClient: its peers, some of the other clients, are told; then the
\* client is deleted, which closes its descriptor, and its pollfd erased.
removeClient(index) ==
  LET fd == pollFds[index].fd
      rest == Without(clients, fd)
  IN \E peers \in SUBSET DOMAIN rest :
       /\ clients' = queued(rest, peers)
       /\ pollFds' = RemoveAt(watched(rest, peers, pollFds), index)
       /\ open' = open \ {fd}

-----------------------------------------------------------------------------
(* Start-up *)

\* The constructor's first step: sigaction() fails, and the constructor throws,
\* or SIGINT and SIGTERM are handled from here on.
installSignalHandlers ==
  /\ pc = "boot"
  /\ pc' \in {"socket", "stopped"}
  /\ UNCHANGED <<pollFds, clients, open, i, stop, ready>>

\* createListeningSocket: socket() fails, or returns the temporary descriptor.
openListener ==
  /\ pc = "socket"
  /\ \/ pc' = "stopped" /\ UNCHANGED open
     \/ pc' = "bind" /\ open' = open \cup {Listener}
  /\ UNCHANGED <<pollFds, clients, i, stop, ready>>

\* The temporary descriptor is closed before the exception is thrown: the
\* destructor does not run for an object whose constructor threw.
closeListener == open \ {Listener}

\* Its other calls: one of them fails, or the listener is watched.
createListeningSocket ==
  /\ pc = "bind"
  /\ \/ pc' = "stopped" /\ open' = closeListener /\ UNCHANGED pollFds
     \/ pc' = "loop" /\ pollFds' = addPollFd(Listener) /\ UNCHANGED open
  /\ UNCHANGED <<clients, i, stop, ready>>

-----------------------------------------------------------------------------
(* One iteration of run() *)

\* Mutant: for (;;).
checkStopNever ==
  /\ pc = "loop"
  /\ pc' = "enter"
  /\ UNCHANGED <<clients, pollFds, open, i, stop, ready>>

\* while (!_stopRequested); main() then destroys the server.
checkStop ==
  /\ pc = "loop"
  /\ IF stop THEN destroy
     ELSE pc' = "enter" /\ UNCHANGED <<clients, pollFds, open, i, stop, ready>>

enterPoll ==
  /\ pc = "enter"
  /\ pc' = "poll"
  /\ UNCHANGED <<pollFds, clients, open, i, stop, ready>>

\* Kernel: what poll() may report for an entry.
Reports(p) ==
  IF p.fd = Listener THEN SUBSET (Events \cap {"IN", "ERR"})
  ELSE {e \in SUBSET Events : "OUT" \in e => p.out}

\* poll() returns with an event on at least one entry.
poll ==
  /\ pc = "poll"
  /\ \E revents \in [DOMAIN pollFds -> SUBSET Events] :
       /\ \A j \in DOMAIN pollFds : revents[j] \in Reports(pollFds[j])
       /\ \E j \in DOMAIN pollFds : revents[j] # {}
       /\ pollFds' = [j \in DOMAIN pollFds |->
                        [pollFds[j] EXCEPT !.revents = revents[j]]]
       /\ ready' = {pollFds[j].fd : j \in {x \in DOMAIN pollFds : revents[x] # {}}}
  /\ pc' = "sweep" /\ i' = 1
  /\ UNCHANGED <<clients, open, stop>>

\* poll() fails without a signal: the exception leaves run() and main() destroys
\* the server.
pollFails ==
  /\ pc = "poll"
  /\ destroy

\* removeClient moves the following entries down, so the index stays.  Mutant:
\* it advances.
afterEraseNext == i + 1
afterErase == i

\* The entry at i is done with.
nextEntry(next) ==
  /\ i' = next
  /\ pc' = "sweep"
  /\ ready' = ready \ {Current}

\* removeClient(i); continue;  Mutant: without the continue.
dropNoContinue == removeClient(i) /\ pc' = "hup" /\ UNCHANGED <<i, ready>>
drop == removeClient(i) /\ nextEntry(afterErase)

\* The for loop ends.  Nobody reads revents again before poll() writes it.
sweepEnd ==
  /\ pc = "sweep"
  /\ i > Len(pollFds) \/ stop
  /\ pc' = "reap" /\ i' = 1
  /\ pollFds' = [j \in DOMAIN pollFds |-> [pollFds[j] EXCEPT !.revents = {}]]
  /\ UNCHANGED <<clients, open, stop, ready>>

Sweeping == pc = "sweep" /\ i <= Len(pollFds) /\ ~stop

\* Mutant: forgets to advance.
skipEntryStays ==
  /\ Sweeping
  /\ pollFds[i].revents = {}
  /\ UNCHANGED vars

skipEntry ==
  /\ Sweeping
  /\ pollFds[i].revents = {}
  /\ nextEntry(i + 1)
  /\ UNCHANGED <<pollFds, clients, open, stop>>

serveListener ==
  /\ Sweeping /\ Current = Listener
  /\ pollFds[i].revents # {}
  /\ IF Has("IN") THEN acceptClient ELSE UNCHANGED <<clients, pollFds, open>>
  /\ nextEntry(i + 1)
  /\ UNCHANGED stop

\* setNonBlocking fails for an accepted descriptor: acceptClient closes it and
\* the exception ends the server.
acceptThrows ==
  /\ Sweeping /\ Current = Listener
  /\ Has("IN") /\ Fds \ open # {}
  /\ destroy

serveError ==
  /\ Sweeping /\ Current # Listener
  /\ Has("ERR")
  /\ drop
  /\ UNCHANGED stop

\* receiveFromClient up to its loop: recv() fails or reports the end of the
\* stream, or returns some bytes, up to the size of its buffer.
receiveFromClient ==
  /\ Sweeping /\ Current # Listener
  /\ Has("IN") /\ ~Has("ERR")
  /\ UNCHANGED stop
  /\ \/ drop
     \/ \E n \in 1 .. Chunk : \E bytes \in [1 .. n -> Bytes] :
          /\ clients' = [clients EXCEPT ![Current].input = @ \o bytes]
          /\ pc' = "lines"
          /\ UNCHANGED <<pollFds, open, i, ready>>

\* The loop is left when the client is doomed.  Mutant: it goes on.
afterLineGoesOn(c) == "lines"
afterLine(c) == IF c.doomed THEN "cut" ELSE "lines"

\* The next complete line is taken and will be handled whatever the client's
\* state, which is looked at only afterwards.
takeLine ==
  /\ pc = "lines"
  /\ HasLine(clients[Current].input)
  /\ clients' = [clients EXCEPT ![Current].input = popLine(@),
                               ![Current].late = IF clients[Current].doomed
                                                 THEN @ + 1 ELSE @]
  /\ pc' = "handle"
  /\ UNCHANGED <<pollFds, open, i, stop, ready>>

handleQuit ==
  /\ pc = "handle"
  /\ clients' = [clients EXCEPT ![Current].doomed = TRUE, ![Current].quit = TRUE]
  /\ pc' = afterLine(clients'[Current])
  /\ UNCHANGED <<pollFds, open, i, stop, ready>>

\* Any other command queues a line to some clients, once or several times.
handleCompleteLine ==
  /\ pc = "handle"
  /\ \E S \in SUBSET DOMAIN clients :
       /\ clients' = queued(clients, S)
       /\ pollFds' = watched(clients, S, pollFds)
  /\ pc' \in {"handle", afterLine(clients'[Current])}
  /\ UNCHANGED <<open, i, stop, ready>>

\* After the loop: a client with too much left in its buffer is removed.
checkInput ==
  /\ pc \in {"lines", "cut"}
  /\ pc = "lines" => ~HasLine(clients[Current].input)
  /\ IF Len(clients[Current].input) > MaxInput
     THEN drop
     ELSE pc' = "flush" /\ UNCHANGED <<pollFds, clients, open, i, ready>>
  /\ UNCHANGED stop

\* An entry without POLLIN goes straight to its POLLOUT.
skipInput ==
  /\ Sweeping /\ Current # Listener
  /\ pollFds[i].revents # {} /\ ~Has("ERR") /\ ~Has("IN")
  /\ pc' = "flush"
  /\ UNCHANGED <<pollFds, clients, open, i, stop, ready>>

\* send() fails, or takes some of the output.
flushClientOutput ==
  /\ pc = "flush" /\ Has("OUT")
  /\ UNCHANGED stop
  /\ IF clients[Current].output = 0
     THEN /\ pollFds' = [pollFds EXCEPT ![i].out = FALSE]
          /\ pc' = "hup"
          /\ UNCHANGED <<clients, open, i, ready>>
     ELSE \/ drop
          \/ \E sent \in 1 .. clients[Current].output :
               /\ clients' = [clients EXCEPT ![Current].output = @ - sent]
               /\ pollFds' = [pollFds EXCEPT ![i].out =
                                stillWatched(clients[Current], sent)]
               /\ pc' = "hup"
               /\ UNCHANGED <<open, i, ready>>

skipOutput ==
  /\ pc = "flush" /\ ~Has("OUT")
  /\ pc' = "hup"
  /\ UNCHANGED <<pollFds, clients, open, i, stop, ready>>

checkHangup ==
  /\ pc = "hup"
  /\ IF Has("HUP") THEN drop
     ELSE nextEntry(i + 1) /\ UNCHANGED <<pollFds, clients, open>>
  /\ UNCHANGED stop

\* Mutant: only those who sent QUIT are removed.
isDisconnectRequestedQuit(fd) == clients[fd].quit
isDisconnectRequested(fd) == clients[fd].doomed

\* One turn of the loop of removeDisconnectedClients, or its end.
removeDisconnectedClients ==
  /\ pc = "reap"
  /\ UNCHANGED <<stop, ready>>
  /\ IF i > Len(pollFds)
     THEN pc' = "loop" /\ i' = 1 /\ UNCHANGED <<pollFds, clients, open>>
     ELSE /\ UNCHANGED pc
          /\ IF Current # Listener /\ isDisconnectRequested(Current)
             THEN removeClient(i) /\ i' = afterErase
             ELSE i' = i + 1 /\ UNCHANGED <<pollFds, clients, open>>

-----------------------------------------------------------------------------
(* Signals *)

\* handleSignal, once it is installed.  A signal that finds the server inside
\* poll() makes it return with EINTR, and run() leaves its loop.
handleSignal ==
  /\ pc \notin {"boot", "stopped"}
  /\ stop' = TRUE
  /\ pc' = IF pc = "poll" THEN "loop" ELSE pc
  /\ UNCHANGED <<pollFds, clients, open, i, ready>>

-----------------------------------------------------------------------------
(* Specification *)

Init ==
  /\ pollFds = <<>>
  /\ clients = EmptyMap
  /\ open = {}
  /\ pc = "boot" /\ i = 1
  /\ stop = FALSE
  /\ ready = {}

\* The steps that handle no line.
plumbing ==
  \/ installSignalHandlers \/ openListener \/ createListeningSocket
  \/ checkStop \/ enterPoll
  \/ sweepEnd \/ skipEntry \/ serveListener \/ acceptThrows \/ serveError
  \/ receiveFromClient \/ takeLine \/ checkInput \/ skipInput
  \/ flushClientOutput \/ skipOutput \/ checkHangup
  \/ removeDisconnectedClients

\* Every step of the server's own; poll() returns when the kernel likes.
step == plumbing \/ handleQuit \/ handleCompleteLine

Next == step \/ poll \/ pollFails \/ handleSignal

Spec == Init /\ [][Next]_vars

\* The server is a running process: it takes its next step when it has one.
\* Nothing is assumed of the network or of signals.
FairSpec == Spec /\ WF_vars(step)

-----------------------------------------------------------------------------
(* Properties *)

\* The tables hold objects of their classes, and while an entry is being served
\* the index still denotes a client: no handler erases the entry under run().
TypeOK ==
  /\ pollFds \in Seq(PollFd)
  /\ DOMAIN clients \subseteq Fds
  /\ \A fd \in DOMAIN clients : clients[fd] \in Client
  /\ open \subseteq Fds \cup {Listener}
  /\ pc \in {"boot", "socket", "bind", "loop", "enter", "poll", "sweep", "lines",
             "handle", "cut", "flush", "hup", "reap", "stopped"}
  /\ pc \in Serving =>
       i \in DOMAIN pollFds /\ Current # Listener

\* _pollFds holds the listener, then each of _clients once: whatever order
\* connections come and go in, none is unwatched, watched after it was closed or
\* watched twice, so addPollFd never throws and findClient never fails.
TablesAgree ==
  Running =>
    /\ pollFds[1].fd = Listener
    /\ {pollFds[j].fd : j \in 2 .. Len(pollFds)} = DOMAIN clients
    /\ Len(pollFds) = Cardinality(DOMAIN clients) + 1

\* The process holds exactly the descriptors it watches: none stays open after
\* its client was removed, none is closed while it is still watched, and none is
\* left after a failed start ("partial startup shouldn't leak a file descriptor",
\* ServerSocket.cpp:14), an exception or a stop.  So accept() never returns a
\* descriptor of a present client, and its two internal errors cannot occur.
DescriptorsOwned ==
  open = {pollFds[j].fd : j \in DOMAIN pollFds}
           \cup (IF pc = "bind" THEN {Listener} ELSE {})

\* POLLOUT is requested exactly for the clients with output: none is forgotten
\* with lines queued by another client's command or departure, and poll() never
\* spins on a writable socket with nothing to write.
PollOutExact ==
  \A j \in DOMAIN pollFds :
    pollFds[j].fd # Listener =>
      (pollFds[j].out <=> clients[pollFds[j].fd].output > 0)

\* Although removeClient shifts the entries under the loop, run() serves each
\* descriptor that poll() reported once, and no other: what is still to be
\* served is exactly what lies ahead of the index, and nothing is left at the
\* end of a sweep unless the server is stopping.
SweepExact ==
  /\ pc = "sweep" =>
       ready = {pollFds[j].fd : j \in {x \in i .. Len(pollFds) : pollFds[x].revents # {}}}
  /\ pc \in Serving => Current \in ready
  /\ pc \in {"reap", "loop", "enter", "poll"} => ready = {} \/ stop

\* No command of a client is handled after its QUIT, even when both came in one
\* read (ServerSocket.cpp:217), and at most one after its output overflowed.
LateLines ==
  /\ \A fd \in DOMAIN clients : clients[fd].late <= 1
  /\ pc \in {"lines", "handle"} => ~clients[Current].quit

\* When the server goes back to waiting, everybody who asked to leave is gone.
QuitReaped ==
  pc \in {"enter", "poll"} => \A fd \in DOMAIN clients : ~clients[fd].quit

\* A buffer never holds more than its limit when the server waits for input.
BuffersBounded ==
  /\ \A fd \in DOMAIN clients : clients[fd].output <= MaxOutput
  /\ pc \in {"enter", "poll"} =>
       \A fd \in DOMAIN clients : Len(clients[fd].input) <= MaxInput

\* Every sweep over the descriptors comes to its end, although clients are added
\* and erased under the index, and then every removal that is due is made, unless
\* an exception ends the server.
SweepEnds == pc = "sweep" ~> pc \in {"loop", "stopped"}

\* As long as poll() keeps returning, a client marked for disconnection is
\* removed, also one whose output overflowed while removeDisconnectedClients was
\* already past its entry and which therefore waits for the next wake-up.
DoomedRemoved ==
  []<>(pc = "sweep") =>
    \A fd \in Fds : (fd \in DOMAIN clients /\ clients[fd].doomed)
                      ~> (fd \in DOMAIN clients => ~clients[fd].doomed)

\* A stop request stops the server, unless it falls between the test of
\* _stopRequested and poll(), which then blocks until the next event.
StopHonoured == (stop /\ pc \notin {"enter", "poll"}) ~> pc = "stopped"
=============================================================================
