# A verification of ircserv

`ircserv` is an IRC server in C++98: one process, one thread, one `poll()` loop,
non-blocking sockets, no persistent state. This directory models it in TLA+, checks
small instances with TLC and proves the safety properties of the server with TLAPS.

## 1. The system

| component | source (under `src/`) | state | operations |
|---|---|---|---|
| Poll loop and signals | `srcs/Server/Server.cpp`, `ServerSocket.cpp`, `ServerUtils.cpp` | `_pollFds`, `_stopRequested`, the loop index | `run`, `acceptClient`, `receiveFromClient`, `flushClientOutput`, `removeClient`, `removeDisconnectedClients`, `handleSignal` |
| Buffers and line framing | `srcs/Client.cpp`, `srcs/Server/ServerSend.cpp` | input and output buffer of a `Client`, `_disconnectRequested` | `appendInput`, `popLine`, `queueRaw`, `consumeOutput`, `requestDisconnect` |
| Command parsing | `srcs/Command/Command.cpp` | none | `parse`, `normalizeName` |
| IRC state | `includes/Server.hpp`, `Client.hpp`, `Channel.hpp`, `srcs/Channel.cpp` | `_clients` (fd → Client), `_nicknameIndex` (folded nickname → fd), `_channels` (folded name → Channel) | lookups, insertion, removal |
| Registration | `srcs/ClientRegister.cpp`, `srcs/Command/{Pass,Nick,User,Cap}.cpp` | password accepted, nickname, user, registered | `handlePass`, `handleNick`, `handleUser`, `handleCap`, `tryCompleteRegistration` |
| Messages | `srcs/Command/{Privmsg,Ping,Quit}.cpp`, `srcs/Server/ServerCommand.cpp` | – | `handlePrivmsg`, `handlePing`, `handleQuit`, unknown commands |
| Channels | `srcs/Command/{Join,Kick,Invite,Topic}.cpp` | members, operators, invitations, topic | one handler each |
| Channel modes | `srcs/Command/{Mode,ModeApply}.cpp` | `i`, `t`, `k`, `l` of a channel, its operators | `parseChannelModeChanges`, `applyChannelModeChange` |
| Case mapping, nickname syntax | `srcs/Utils.cpp`, `ServerUtils.cpp` | – | `ircCaseFold`, `isValidNickname` |
| Start-up and end | `srcs/main.cpp`, `Server.cpp`, `ServerSocket.cpp` | open descriptors | `checkPort`, `installSignalHandlers`, `createListeningSocket`, `~Server` |
| Logging | everywhere | – | stateless |

**Interaction.** `run()` finds an event, reads bytes into a client's input buffer, pops
complete lines, parses each and calls `dispatchCommand`. Handlers change the three maps
and answer by `queueRaw`, which appends to the output buffers of *other* clients too and
switches `POLLOUT` on for them. A client whose output would pass the limit, or who sent
QUIT, is only *marked*; `removeDisconnectedClients` removes the marked ones after the
sweep. `removeClient` itself queues QUIT lines and may so mark more clients.

**What is hard.** There is no concurrency inside the server, so the difficulties are
sequences and stale references: entries erased from `_pollFds` under the loop index;
descriptors, nicknames and channel names that are reused; invitations held as *folded
nicknames*, while membership is held as *descriptors*; a list of MODE changes applied
after one permission check; a broadcast that cuts off some of its recipients; output
queued for a client that is not the one being served; partial reads and writes; several
commands in one read; a signal between the stop test and `poll()`. `PROJECT.json` lists
each with its line under "hazards".

**What makes each part correct.**

* Poll loop: `_pollFds` and `_clients` describe the same connections; each reported
  descriptor is served once; `POLLOUT` is requested exactly when there is output; the
  sweep ends; marked clients are removed; a stop request is honoured; the open
  descriptors are those watched, on every way in and out, exceptions included.
* Buffers and framing: limits hold at their boundary; nothing is handled after QUIT; the
  lines handled are the lines sent, however TCP cuts them.
* Parsing: commands, mode strings, limits and ports mean what their grammar says; what is
  relayed to another client is read there as it was sent.
* IRC state: the index is exact; channels are never empty; members are live, registered
  clients; a reused descriptor or nickname inherits nothing.
* Registration: exactly PASS, NICK and USER, in any order, register a client; a nickname
  is never taken from its owner.
* Channels and modes: the access rules of `+i +k +l +t` and of operators hold for
  *connections*, whatever they are called; references held by MODE stay valid.
* Output: what a client is told is enough, and right, to know its channels.
* Whole server: a QUIT is its sender's last act, and when the server waits again its
  nickname is free, and nobody is invited, listed or shown under it any more.

## 2. The modules

| module | what it is |
|---|---|
| `IrcTypes` | constants, records of `Client` and `Channel`, `std::map` operations |
| `IrcReplica` | external: what an IRC client concludes from the lines it receives |
| `IrcServer` | the three maps, every command handler, arrival and removal of clients; properties |
| `IrcPolicy` | abstract specification of access to channels, over connections only |
| `IrcRefinement` | the refinement mapping from `IrcServer` to `IrcPolicy` |
| `IrcServerProofs` | proofs: the invariants of `IrcServer` |
| `IrcViewsProofs` | proof: every client's picture of its channels is right |
| `IrcRefinementProofs` | proof: `IrcServer` implements `IrcPolicy` |
| `EventLoop` | start-up, `run()` and everything below it, the destructor, over a nondeterministic kernel; properties |
| `EventLoopProofs` | proofs: the invariants of `EventLoop` |
| `IrcSystem` | `IrcServer` driven by `EventLoop`: the whole server |
| `IrcSystemProofs` | proofs: both layers keep their promises together, and QUIT is final |
| `LineFraming` | one connection, from the bytes of its peer to the lines handled |
| `LineFramingProofs` | proofs: the lines handled are the lines sent, and the input limit |
| `CommandParsing` | operators: `Command::parse`, and the line that each command is told to others with, read back |
| `NameSyntax` | operators: `isValidNickname` and the names list, on top of `CommandParsing` |
| `ModeParsing` | operators: `parseChannelModeChanges` and the line about a change |
| `NumberParsing` | operators: `checkPort` and `parsePositiveUserLimit` |
| `Positions` | rank and selection in a set of positions, for the parsers' references |
| `Texts` | every text within a bound, given to the parser that reads its kind; properties |
| `TextsProofs` | proofs: the parsers, for texts of every length over every alphabet |
| `ChannelObject` | class `Channel` with its flags, against the record of `IrcTypes` |
| `ChannelObjectProofs` | proof: the record loses nothing |
| `MCIrcServer`, `MCEventLoop`, `MCIrcSystem`, `MCTexts`, `MCChannelObject` | instances for TLC |

Definitions keep the names of the functions they model. Operators commented "Mutant"
are faulty variants that no specification uses; each stands directly before the
definition it is a variant of and shows which fault a property would reveal.

### IrcServer

| variable | code |
|---|---|
| `clients` | `_clients`: nickname, password accepted, user given, registered, `_disconnectRequested` |
| `nicknameIndex` | `_nicknameIndex` |
| `channels` | `_channels`; a `MemberMap` is the pair `members`, `operators` |
| `modeRun` | the local variables of a `handleMode` that is applying its list |
| `view` | observer: each client's picture of its channels (`IrcReplica`) |

A handler runs to its end before the next event, so it is one action. MODE is split:
`handleMode` checks the permission once and `applyChannelModeChange` applies one change
per step; no other step is possible in between, as in the code. A lookup that may
return NULL is a set with at most one element. `Emit` is the output of one handler: every
recipient gets its line unless it is marked already, and any recipient in `SlowReaders`
may be found full and become marked.

Data is reduced to what decisions read. The password is right or wrong; `Fold`
(`ircCaseFold`) is a constant function, so that two spellings of a name exist without
characters; a limit argument that `parsePositiveUserLimit` refuses is 0; user names,
message texts and reasons are left out. Commands with missing or malformed parameters
are one action, `RefusedCommand`. Paths of a handler that return without any effect (a
MODE query, MODE on a user, a mode string that does not parse, a line that is no valid
command) are stuttering steps.

`IrcServer` lets a marked client send any number of further commands before it is
removed. The code allows at most one (`EventLoop`, `LateLines`), so the model has more
behaviours than the code and its invariants hold for the code as well.

### EventLoop

`pc` and `i` are the position in the program; `pollFds`, `clients` and `stop` are
`_pollFds`, `_clients` and `_stopRequested`, and `open` is what the kernel has open for
the process. The program starts with its signal handlers and its listening socket, each
call of which may fail, and ends with the destructor, after a stop request or an
exception: `poll()` failing, or `setNonBlocking` failing for an accepted descriptor.
Each branch of the loop body is an action; the reads, the handling of each line, the
writes and the hang-up test are separate, since each reads `clients` again. A line is a
QUIT or queues a line to any set of clients, once or several times, which covers every
handler of `IrcServer`. Every line has size 1, so the limit is met exactly and passed by
one; that `queueRaw` compares by subtraction (ServerSend.cpp:66) is not exercised. Bytes are `"x"` or `"n"` (newline), output is counted in lines.
`poll()` reports any combination of the constant `Events` that was asked for, `accept()`,
`recv()` and `send()` fail or succeed partially as they like. `POLLNVAL` is treated as
`POLLERR`, as by the code. `ready`, `quit` and `late` are observers.

Left out: allocation failures, and `poll()` returning 0, which it does not without a
time limit.

### IrcSystem

A connection is an entry of `clients` (the IRC half of a `Client`) and one of `buffers`
(the other half), created and removed in the same step; `SameFlag` says that
`_disconnectRequested` is one field. A command of `IrcServer` is handled exactly where
`EventLoop` has taken a line, for that client; MODE stays at `pc = "handle"` for as many
steps as it has changes. A handler dooms exactly the clients whose buffer was full. It may
also fill buffers of clients it did not address: output is over-approximated. On the IRC
side a handler has one unit of output per recipient; an answer of several lines that
overflows halfway dooms its recipient like one that overflows at once.

`quitters` is a history: the folded nicknames of clients that sent QUIT since the last
`poll()`, less those that somebody took again. No step reads it. It is what
`QuitLeavesNoTrace` speaks of, because a client that was removed is in no map any more
and can only be recognised by what it was called.

### LineFraming

The peer's `stream` is chosen at the start; `recv()` returns any part of it up to `Chunk`
bytes. With `POLLHUP` the peer has closed, so all of it has arrived and `recv()` fills its
buffer. Other clients' commands may doom the client at any time it is not being served.
The reference `Lines` does not scan: the k-th line of a text is what stands between its
newlines number k - 1 and k.

### The parsers

Each parser is an operator; a loop is a recursive function over positions. `Texts` types a
text character by character, so that TLC's states are all texts within the bound, and
applies the parsers of its kind to it: a text of kind `names` is cut into a channel and two
nicknames in every way. For each command `CommandParsing` has the line that tells others
of it, from the parameters that its handler accepted: `quitLine` with the two reasons that
the server supplies itself (Quit.cpp:10, Server.cpp:195), `joinLine` with the spelling of
the channel's creator, `privmsgLine` with that of the recipient, `kickLine` with the
issuer's nickname for a missing reason, and `modeLine`, which has no colon. `Spellings`
are the names that `ircCaseFold` does not tell apart; `OtherCase` gives each character the
one it is folded together with, of which there is at most one. The references speak of sets of positions instead
of a left-to-right scan, with `Rank` and `Nth` of `Positions` to count in them: in
`Grammar` a word begins where no space is and none, or a space, came before, and the
first word with a colon (`Colons`) ends the `Middles`; in `Meaning` the k-th letter has the
sign of the nearest position to its left that holds one, and the k-th letter that needs an
argument has the k-th argument; `Writes` builds the text from a number by division.
`NumberParsing` models `istringstream >> unsigned` as an external function, with its sign
and its range: `MaxValue` stands for `ULONG_MAX`, `MaxPort` for 65535. In TLC's alphabet
for `ModeParsing` the mode `t` is left out because it is parsed like `i`.

### ChannelObject

`IrcServer` drops `_hasKey` and `_hasUserLimit` and keeps operators as a set.
`RecordFaithful` compares, in every state one channel object can reach, each call of a
handler on the object with `IrcServer`'s own operator on the record (an `INSTANCE` of
`IrcServer`), including when a mode change is announced.

## 3. What TLC checks

| run | instance | properties |
|---|---|---|
| `names` | 3 descriptors, nicknames al/AL/bo/cy, 1 channel, +i/-i | `TypeOK`, `RegistrationExact`, `NicknameIndexExact`, `InvitationsSound`, `NicknamesNotStolen`, `PolicyKept` |
| `modes` | 2 descriptors, al/AL/bo, #c/#C, key, topic, every mode with good and bad arguments | `MembershipSound`, `PolicyKept` |
| `overflow` | 3 descriptors, all of which may overflow at any line, operator changes | `ModeTargetsAlive`, `ViewsConsistent` |
| `channels` | 3 descriptors, 2 channels | `ViewsConsistent` |
| `sweep` | 3 descriptors, buffers of size 1 | `TablesAgree`, `DescriptorsOwned`, `SweepExact` |
| `buffers` | 2 descriptors, 2 lines of output, 1 byte of input kept, reads of 2 bytes | `TypeOK`, `PollOutExact`, `LateLines`, `QuitReaped`, `BuffersBounded` |
| `progress` | 2 descriptors, with fairness | `SweepEnds`, `DoomedRemoved`, `StopHonoured` |
| `system` | 2 descriptors, 2 nicknames, 1 channel, a MODE of two changes, reads of 2 bytes | `QuitLeavesNoTrace`, `QuitIsLast` |
| `framing` | streams of up to 6 bytes, reads of 2, limit 2, with fairness | `LinesExact`, `LongLinesOnly`, `EveryLineHandled` |
| `texts` | lines of up to 9 characters with 3 parameters; channel and nicknames of up to 6 characters together; mode strings of up to 5 characters, 2 arguments; numbers of up to 5 characters, values up to 21, ports up to 12 | `ParseExact`, `RelayFaithful`, `NicknameAddressable`, `NamesListReadable`, `ModeParseExact`, `ChangesReplay`, `LimitExact`, `UnsignedPortExact` |
| `object` | 3 clients, 2 keys, 2 limits | `RecordFaithful` |
| `port` | as `texts` | `PortExact`, an expected violation, see below |

* **names** – whoever connects, renames, leaves or reuses a name or a descriptor in
  whatever order, the index is exact, invitations follow their owner and end with the
  connection, and no right passes from one connection to another.
* **modes** – the access policy under every mode, including a list whose first change
  deprives the issuer, and a limit below the number of members.
* **overflow** – cutting off some recipients in the middle of a command leaves no
  dangling reference and no client with a wrong picture.
* **channels** – peers that share two channels are told of renames and departures through
  either. What a line does to a client's picture is the same when it comes twice, so a
  line sent twice would not show.
* **sweep** – `erase` under the index skips nobody and serves nobody twice.
* **buffers** – limits, partial transfers and several lines per read.
* **progress** – liveness.
* **system** – what follows a QUIT in the same read is never handled, also when others are
  served before the sender is removed and name it in their commands; when the server waits
  again, the sender's nickname is in no index entry, no invitation and nobody's picture,
  unless somebody has taken it, and every entry leads to a connected client.
* **framing** – a CR and its newline may come in different reads, lines may be bunched or
  cut; the same lines are handled. A peer within the limit is never cut off for its input.
* **texts** – the parsers against their references, at the limit of parameters, arguments
  and range; what NICK accepts can be named and read back; what others are told of a
  command is read as it was sent, but for spellings and the server's own reasons; the
  names list is read as it was written, exactly for channels without a space.
* **object** – the record that `IrcServer` works with loses nothing.

The run `port` shows that the code departs from its comment ("no char, lower than 65535",
main.cpp:8). `operator>>` into an unsigned type accepts a minus sign and wraps, so
`-18446744073709551615` is accepted as port 1; `parsePositiveUserLimit` has the test that is
missing.

More places where modelling met less than a reader expects, or a comment that says more
than the code does:

* The same comment wants a port "lower than 65535"; the code refuses only what is greater
  (main.cpp:21), so 65535 is accepted. `UnsignedPortExact` states what the code does
  and so contradicts the comment in exactly that one value.
* JOIN looks only at the first character of a channel name (Join.cpp:39), so a name sent
  as a trailing parameter may have spaces in it: `JOIN :#a :b` is accepted, and the 353
  line, which has the name without a colon (ServerUtils.cpp:162), is read as another
  channel with other members. `NamesListReadable` states this exactly: the answer is
  readable if and only if the name has no space. The topic replies 331 and 332 and the end
  of the list, 366, write the name in the same way.
* The argument of a MODE line goes out without a colon (ModeApply.cpp:212), so a key with
  a space, an empty one, or one that begins with a colon is read differently by the
  members. `RelayFaithful` states this exactly: the MODE line is faithful if and only if
  its argument is a word.
* Other lines are not always what was sent either, by design: JOIN is told in the spelling
  of the channel's creator (Join.cpp:102), PRIVMSG to a client in that client's spelling
  (Privmsg.cpp:106), and an empty QUIT reason becomes "Connection closed"
  (Server.cpp:195). `RelayFaithful` has these as they are.
* MODE with a channel alone is not answered: Mode.cpp:119 says that it is, Mode.cpp:164
  says why it is not.
* With POLLHUP and more unread bytes than one `recv()` takes, the last lines are lost
  (Server.cpp:55 speaks of the final bytes). `LinesExact` therefore promises only the
  complete lines among the bytes that were read. It takes a kernel that reports POLLHUP
  while bytes are unread.

`ViewsConsistent` is the strongest of these: it ties every line the server queues to the
state of the channels. `PolicyKept` is a refinement: `IrcPolicy` knows no nicknames and
no index, so it could not even express a right that passes through a name.

**Bounds.** Three connections are the fewest with an issuer, a target and a bystander;
four nickname spellings leave a free name with three clients, and one name in two
spellings; two channels are the fewest that two peers can share twice. Two connections
suffice where the question is about one channel's modes, or about one entry and another
one queueing output to it. Three entries after the listener have one before, one at and
one after the index. All sets are closed: nothing is cut off by a state constraint, and
every state space is explored to its end. Descriptors are symmetric; nicknames are only
in `system`, where no mode line names one. `progress` uses no symmetry. `system` leaves
POLLERR and POLLHUP to the runs of `EventLoop`: they lead to the same removal as a failed
read, which it has. Nine characters hold a name and four parameters with a space to
spare, one more than the limit; six hold a channel name of two words and two nicknames;
five mode characters hold two signs and three letters;
six bytes are one more than the longest line that can get through at limit 2 and reads
of 2. The values up to 21 let every kind of number (a port, too large for a port, too
large for the type, and a complement that is a port) occur in five characters.

**Deadlock** is checked for `IrcServer`. The poll loop really stops after a signal, so
`CHECK_DEADLOCK FALSE` is set there, as it is where a text reaches its bound and where a
connection is removed.

**Fairness.** `FairSpec` has weak fairness on `step`, the server's own next step: the
process is runnable and no call in it blocks, since all sockets are non-blocking.
`poll()` is the only blocking call; its return, the peers and signals get no fairness.
`DoomedRemoved` therefore says "if `poll()` keeps returning": a client that overflows
while `removeDisconnectedClients` is past its entry waits for the next wake-up.
`StopHonoured` leaves out the window between the test of `_stopRequested` and `poll()`,
where a signal is noticed only at the next event. `LineFraming` has weak fairness on the
server's steps as well, with the return of `poll()` for a descriptor that has bytes to
read, which the kernel guarantees; that the peer closes is not assumed.

## 4. What is proved

Each theorem holds for every value of the constants: any number of descriptors, names,
keys, topics and mode lines, every folding function, every limit and every size of a
read, every text. Every safety property that a passing run checks is proved.

| module | theorem | states |
|---|---|---|
| `IrcServerProofs` | `TypeCorrect` | `Spec => []TypeOK` |
| | `IndexCorrect` | `Spec => []NicknameIndexExact` |
| | `MembershipCorrect` | `Spec => []MembershipSound` |
| | `InvitationsCorrect` | `Spec => []InvitationsSound` |
| | `RegistrationCorrect` | `Spec => []RegistrationExact` |
| | `ModeTargetsCorrect` | `Spec => []ModeTargetsAlive` |
| | `NoTheft` | `Spec => NicknamesNotStolen` |
| `IrcViewsProofs` | `ViewsCorrect` | `Spec => []ViewsConsistent` |
| `IrcRefinementProofs` | `PolicyImplemented` | `Spec => PolicyKept` |
| `ChannelObjectProofs` | `RecordCorrect` | `Spec => []RecordFaithful` |
| `EventLoopProofs` | `TypeCorrect` | `Spec => []TypeOK` |
| | `Agreement` | `Spec => []TablesAgree` |
| | `Ownership` | `Spec => []DescriptorsOwned` |
| | `Writable` | `Spec => []PollOutExact` |
| | `SweepCorrect` | `Spec => []SweepExact` |
| | `LinesCutOff` | `Spec => []LateLines` |
| | `NoQuitterWaits` | `Spec => []QuitReaped` |
| | `BuffersKept` | `Spec => []BuffersBounded` |
| `IrcSystemProofs` | `LoopImplemented` | `SystemSpec => Loop!Spec` |
| | `LayersAgree` | `SystemSpec => []Joint` |
| | `NoTraceLeft` | `SystemSpec => []QuitLeavesNoTrace` |
| | `QuitFinal` | `SystemSpec => QuitIsLast` |
| `LineFramingProofs` | `LinesCorrect` | `Spec => []LinesExact` |
| | `LimitCorrect` | `Spec => []LongLinesOnly` |
| `TextsProofs` | `ParseCorrect` | `Spec => []ParseExact` |
| | `RelayCorrect` | `Spec => []RelayFaithful` |
| | `AddressableCorrect` | `Spec => []NicknameAddressable` |
| | `NamesCorrect` | `Spec => []NamesListReadable` |
| | `ModesCorrect` | `Spec => []ModeParseExact` |
| | `ReplayCorrect` | `Spec => []ChangesReplay` |
| | `LimitCorrect` | `Spec => []LimitExact` |
| | `PortCorrect` | `Spec => []UnsignedPortExact` |

**Assumptions.** The empty string is no nickname, key or topic (`NameAssumption`); a
parsed MODE command is a non-empty list of changes (`ModeAssumption`; an empty list
changes nothing and is a stuttering step); the listener is no client's descriptor, the
output limit and the size of a read are positive, the input limit is a number
(`LoopAssumption`, `FramingAssumption`). A command may have at least two parameters (the
code has 15, Command.cpp:6; KICK, PRIVMSG and MODE need as many), and `MaxPort` lies
within the range of the extracted type (`CommandAssumption`, `NumberAssumption`).
`ircCaseFold` equates neither a space nor a colon with another character
(`CaseAssumption`), and `OtherCase` is defined for the characters of lines
(`TextAssumption`). Nothing is assumed about `Fold`, `Upper` or the alphabets. TLC evaluates all of them on its
instances.

### The IRC layer

`IInv` of `IrcServerProofs` joins the seven invariants, because none is inductive alone:
that a new member is a registered client needs the registration; that its invitation is
spent and nobody else's needs the index to be exact; that a rename carries the right
invitation needs both; that `handleMode`'s references survive needs that a change never
removes a member. `Sound(clients, nicknameIndex, channels)` states the state part about
arbitrary maps, so that a lemma can speak of intermediate values.

`EmitKeepsIdentities` and `MarksDoNotMatter` show that queueing lines changes nothing
`Sound` speaks of, whichever recipients overflow. `StoreChannel`, `EraseChannels` and
`StoreClient` say when one replaced or erased entry keeps the rest sound.
`RenameKeepsSound`, `JoinKeepsSound`, `KickKeepsSound`, `InviteKeepsSound`,
`SettingsKeepSound`, `AcceptKeepsSound` and `RemoveKeepsSound` prove the state change of
each kind of command; one lemma per action lifts them to steps; `NextIInv` splits `Next`.

*Pictures.* Given `IInv`, `ViewsConsistent` is inductive (`VInv`). `EmitShows` reduces a
step to one fact about each recipient: its line turns the pictures it had into the
pictures of the new maps. A line names a client by its nickname, so this rests on
`SameNick`: on a channel a spelling is about at most one member, which is true because
the index is exact.

*Policy.* `Seen` is what the policy sees of a channel. Most handlers change nothing of it
(`AnswerUnseen`); the others are matched with one policy action each. The step that could
go wrong is the one the hazards name: the set of invited *connections* is computed from
folded nicknames, so renames, departures and arrivals must leave it alone. `OneOwner`
(again the index) gives that.

*Class Channel.* The record without `_hasKey` and `_hasUserLimit` is right as long as each
flag says whether its value is there (`FlagsRight`), which every call preserves; each
operation is then compared field by field.

### The poll loop

While the server runs, the inductive invariant is `Alive`: the listener and each client
stand once in `_pollFds` (`Tables`); limits hold and `POLLOUT` is set exactly where there
is output (`Buffers`); what is open is what is watched; what is still reported lies at or
after the index (`Position`); and clients that quit or got a line through late are found
only where the sweep or the reaping has not vouched for the entry yet (`Lines`, with
`Settled`). Before and after, `Dead` says that only a listener being bound is open. Two
things change the tables under the loop: queueing lines and `removeClient`.
`QueueEffect` and `RemoveEffect` say once what they do to each entry, and each action is
then a matter of where the index stands before and after. That `SweepExact` survives an
erase needs that no descriptor stands twice in the table.

### The whole server

`LoopImplemented` is a refinement, so the theorems about `EventLoop` carry over. The
converse is not immediate: a step of `SystemSpec` is one of `IrcServer` only because the
two halves of a `Client` have the same descriptors and the same flag and a MODE command is
in progress only while its line is handled. `Joint` says so and contains `VInv`;
`LayersAgree` proves it inductive with the loop's invariant. `NoTraceLeft` combines both
layers. By construction of the history, no connected client that has not quit bears a
nickname in `quitters` (`QuittersUnclaimed`, an invariant of its own); by the loop's
invariant, no client that quit is connected when the server waits (`QuittersGone`). The
index, every invitation and every picture hold only nicknames of connected clients, which
is the part that `cleanupClientIrcState` has to establish (`IInv`, `VInv`); so none of
them holds one of `quitters`. `QuitFinal` needs what a
command touches besides its sender (`OnlyTouches`): nothing but marks, and memberships
only taken away.

### Line framing

The buffer is always the part of the stream between the last newline handled and the last
byte read (`Buffer`), and as many lines were handled as there are newlines before it
(`Handled`). The lemmas about `Count` connect this with the reference, which speaks of the
k-th newline. Facts about every position of a stream of any length are proved with the
least position where they would fail (`WFMin`), a form of induction without an operator
parameter. `Runs` bounds the stretches without a newline.

### The parsers

The library states recursion and induction with an operator as a parameter, out of the
provers' reach. `TextsProofs` therefore begins with both for sets and functions:
`Recursion` gives a function on a domain with a rank its equation, `Induction` speaks of a
set of numbers that holds 0 and with each number the next. Each parser's loop gets its
equation from the first (`LoopTurns`, `ParametersStep`, `MagnitudeTurns`, `DecimalTurns`),
and its meaning from the second.

*Mode strings.* `Parsed` is the loop's invariant: after p characters, a request is still
good exactly if every letter so far has a sign to its left and the letters so far that need
an argument are no more than the arguments; then the sign, the next argument and the list
are what `Adds` and `Rank` say of the positions up to p. `ChangesReplay` follows because
each change in the list is the parse of its own two characters.

*Command lines.* `WordsLeft` says that one turn of the loop takes the first of the words
that begin from a position on, and `ParametersAre` that a loop started between two words
yields what the reference makes of those words. In the other direction `ReadWords` says
that words written each behind a space are read back one by one, whatever stands before
and behind them; with `ReadTrailing` for the text behind a colon this gives `RelayRead`.
`ParametersShape` closes the circle: all parameters but the last are words, which is what
makes relaying them safe; `SpellingIs` carries it over to the spellings the server puts in
their place. `RelayCorrect` applies it to the line of each command. That a MODE line with an argument that is not a word is *not*
read back needs the converse (`ModeRead`). `AddressableCorrect` and `NamesCorrect` rest
on `NicknameIsWord`; for the names list the words are read a second time as the words of
its trailing parameter (`ReadList`). That a channel with a space is never read back is
`ThirdRead`: what is read behind two words is again a word, whatever was written.

*Numbers.* `MagnitudePadded` shows that the decimal notation of a number, behind any zeros,
has that number as its magnitude, and `StripIs` that there are no other digits with it.
A text is accepted exactly if it is a `Run` of digits between blanks (`RunRead`,
`ReadsRun`), and it writes a number exactly if it is a run of that magnitude
(`WritesRun`). The range of the type enters only where the magnitude is compared with
`MaxValue`; that a sign is refused enters through `Unsigned`, which the first character
establishes for MODE +l (`LimitCorrect`) and nothing does for a port: hence the run
`port`, and the hypothesis of `UnsignedPortExact`.

### Only model-checked

* Liveness, which needs fairness and `ENABLED`: `SweepEnds`, `DoomedRemoved`,
  `StopHonoured`, `EveryLineHandled`.
* `PortExact` is false, see the run `port`.

## 5. What is not modelled

Not modelled: logging; the table of characters that `ircCaseFold` equates (`Fold` is an
arbitrary function and `OtherCase` nearly so, so nothing depends on it); the tests of `argc` and of an empty
password in `main()`; texts that no decision reads (user and real names, reasons, the
wording of numerics); allocation failures.

A nickname may begin with `@`, which the names list cannot tell from an operator's mark;
nothing in the repository says which nicknames are meant to be valid, so
`NamesListReadable` leaves them out. Lines delivered twice, and descriptors closed twice,
cannot be expressed: output is one line per recipient and step, open descriptors are a set.
