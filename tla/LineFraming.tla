---------------------------- MODULE LineFraming ----------------------------
(***************************************************************************)
(* One connection, from the bytes its peer sends to the lines the server   *)
(* handles: TCP cuts the stream anywhere, receiveFromClient() appends each *)
(* piece to _inputBuffer, and Client::popLine() takes complete lines off   *)
(* it.  The other connections appear only in that their commands may       *)
(* overflow this client's output and so doom it.                           *)
(*                                                                         *)
(* A byte is "n" (newline), "r" (carriage return), "q" (a line that is     *)
(* just this byte is a QUIT) or "x" (any other).                           *)
(***************************************************************************)
EXTENDS Naturals, Sequences, FiniteSets, SequencesExt

CONSTANTS
  MaxStream,  \* bound: bytes the peer sends
  MaxInput,   \* MAX_PENDING_INPUT
  Chunk       \* size of the buffer of one recv()

ASSUME FramingAssumption ==
  MaxStream \in Nat /\ MaxInput \in Nat /\ Chunk \in Nat \ {0}

VARIABLES
  stream,   \* what the peer sends, chosen at the start
  read,     \* how much of it recv() has returned
  input,    \* _inputBuffer
  handled,  \* the lines given to handleCompleteLine
  doomed,   \* _disconnectRequested
  hangup,   \* POLLHUP is among the events being served
  pc,       \* "poll", "lines", "check", "served", "gone"
  why       \* why the client was removed

vars == <<stream, read, input, handled, doomed, hangup, pc, why>>

Bytes == {"x", "q", "r", "n"}
Streams == UNION {[1 .. n -> Bytes] : n \in 0 .. MaxStream}

IsQuit(line) == line = <<"q">>

-----------------------------------------------------------------------------
(* class Client *)

HasLine(buffer) == "n" \in Range(buffer)
Newline(buffer) == CHOOSE p \in DOMAIN buffer :
                     buffer[p] = "n" /\ \A q \in 1 .. p - 1 : buffer[q] # "n"

\* One carriage return before the newline is not part of the line.  Mutant: it is.
chompNothing(line) == line
chomp(line) ==
  IF line # <<>> /\ Last(line) = "r" THEN Front(line) ELSE line

\* popLine: the line it returns, and what it leaves.
popLine(buffer) == chomp(SubSeq(buffer, 1, Newline(buffer) - 1))
rest(buffer) == SubSeq(buffer, Newline(buffer) + 1, Len(buffer))

-----------------------------------------------------------------------------
(* class Server *)

remove(reason) ==
  /\ pc' = "gone" /\ why' = reason
  /\ UNCHANGED <<stream, read, input, handled, doomed>>

\* The rest of the stream has arrived in part, or, once the peer has hung up, in
\* full: what one recv() may return.
Received ==
  LET left == Len(stream) - read
      most == IF left < Chunk THEN left ELSE Chunk
  IN IF hangup' THEN {most} ELSE 1 .. most

\* poll() reports POLLIN, with POLLHUP if the kernel says so of a peer that has
\* closed, and recv() returns bytes.
receiveFromClient ==
  /\ pc = "poll" /\ read < Len(stream)
  /\ hangup' \in BOOLEAN
  /\ \E n \in Received :
       /\ input' = input \o SubSeq(stream, read + 1, read + n)
       /\ read' = read + n
  /\ pc' = "lines"
  /\ UNCHANGED <<stream, handled, doomed, why>>

\* The peer closes, and recv() returns 0 once everything was read.
endOfStream ==
  /\ pc = "poll" /\ read = Len(stream)
  /\ remove("eof")
  /\ UNCHANGED hangup

\* POLLERR, or recv() or send() fails.
connectionFails ==
  /\ pc = "poll"
  /\ remove("error")
  /\ UNCHANGED hangup

\* The loop goes on to the next complete line unless this one doomed the client.
afterLine(gone) == IF gone THEN "check" ELSE "lines"

\* QUIT dooms the client, and so may any line whose answer overflows its output.
handleCompleteLine ==
  /\ pc = "lines" /\ HasLine(input)
  /\ handled' = Append(handled, popLine(input))
  /\ input' = rest(input)
  /\ doomed' \in IF doomed \/ IsQuit(popLine(input)) THEN {TRUE} ELSE BOOLEAN
  /\ pc' = afterLine(doomed')
  /\ UNCHANGED <<stream, read, hangup, why>>

\* Mutant: the loop waits for the end of the line.
noMoreLinesWaits ==
  /\ pc = "lines" /\ ~HasLine(input)
  /\ UNCHANGED vars

noMoreLines ==
  /\ pc = "lines" /\ ~HasLine(input)
  /\ pc' = "check"
  /\ UNCHANGED <<stream, read, input, handled, doomed, hangup, why>>

\* Mutant: a full buffer is too long.
tooLongAtLimit(buffer) == Len(buffer) >= MaxInput
tooLong(buffer) == Len(buffer) > MaxInput

\* After the loop: the input limit, and, when poll() had reported it, POLLHUP.
checkInput ==
  /\ pc = "check"
  /\ UNCHANGED hangup
  /\ IF tooLong(input) THEN remove("long")
     ELSE IF hangup THEN remove("hup")
     ELSE /\ pc' = "served"
          /\ UNCHANGED <<stream, read, input, handled, doomed, why>>

\* Another client's command overflows this client's output, before or after this
\* client is served, or while removeDisconnectedClients is past its entry.
overflow ==
  /\ pc \in {"poll", "served"} /\ ~doomed
  /\ doomed' = TRUE
  /\ UNCHANGED <<stream, read, input, handled, hangup, pc, why>>

removeDisconnectedClients ==
  /\ pc = "served"
  /\ UNCHANGED hangup
  /\ IF doomed THEN remove("doomed")
     ELSE pc' = "poll" /\ UNCHANGED <<stream, read, input, handled, doomed, why>>

-----------------------------------------------------------------------------
(* Specification *)

Init ==
  /\ stream \in Streams
  /\ read = 0
  /\ input = <<>> /\ handled = <<>>
  /\ doomed = FALSE /\ hangup = FALSE
  /\ pc = "poll" /\ why = "here"

step ==
  \/ receiveFromClient \/ handleCompleteLine \/ noMoreLines
  \/ checkInput \/ removeDisconnectedClients

Next == step \/ endOfStream \/ connectionFails \/ overflow

\* The server takes its steps, and poll() is level-triggered: it keeps reporting
\* a descriptor with bytes to read.  The peer need not ever close.
Spec == Init /\ [][Next]_vars /\ WF_vars(step)

-----------------------------------------------------------------------------
(* Properties *)

\* The reference: the lines of a text are what stands between its newlines.
Newlines(text) == {p \in DOMAIN text : text[p] = "n"}
NthNewline(text, k) ==
  CHOOSE p \in Newlines(text) : Cardinality({q \in Newlines(text) : q <= p}) = k
Bare(line) ==
  IF line # <<>> /\ line[Len(line)] = "r" THEN SubSeq(line, 1, Len(line) - 1) ELSE line
NthLine(text, k) ==
  Bare(SubSeq(text, IF k = 1 THEN 1 ELSE NthNewline(text, k - 1) + 1,
                    NthNewline(text, k) - 1))
Lines(text) == [k \in 1 .. Cardinality(Newlines(text)) |-> NthLine(text, k)]

Got == SubSeq(stream, 1, read)
Complete == Lines(Got)

\* However TCP cuts the stream, the lines handled are the lines sent, in order,
\* each once and without its line ending; none is skipped, and none follows a
\* QUIT.  When the server turns to another descriptor every complete line it has
\* received is handled, unless the client is doomed, and so it is when the client
\* is removed because its peer closed.
LinesExact ==
  /\ IsPrefix(handled, Complete)
  /\ \A k \in 1 .. Len(handled) - 1 : ~IsQuit(handled[k])
  /\ pc \in {"poll", "served"} \/ why \in {"eof", "hup"} =>
       doomed \/ handled = Complete

\* A peer is removed for its input only when it sent a line longer than the
\* limit, however its lines are cut or bunched into reads, or when it was doomed
\* anyway; and no line longer than the limit and one read gets through.
LongLinesOnly ==
  LET Unterminated(a, b) == \A p \in a .. b : stream[p] # "n"
  IN /\ why = "long" =>
          doomed \/ \E a \in 1 .. read :
                      /\ a + MaxInput <= read
                      /\ Unterminated(a, a + MaxInput)
     /\ \A a \in 1 .. read :
          a + MaxInput + Chunk <= read => ~Unterminated(a, a + MaxInput + Chunk)

\* Every line is handled in the end, unless the client is removed: a complete
\* line never stays in the buffer to wait for bytes that need not come.
EveryLineHandled == <>(handled = Lines(stream) \/ pc = "gone")
=============================================================================
