----------------------------- MODULE EmuConsole -----------------------------
(***************************************************************************)
(* The raw TCP console of the emulator (terminal/tcpConsole.cpp), the      *)
(* queues of ACIA 1 (devices/acia.cpp) and the run loop between them       *)
(* (emu.cpp, run).  Clients connect, send, read and hang up at any moment, *)
(* also between two system calls of poll(); the CPU runs any program.      *)
(*                                                                         *)
(* A byte is its origin and its number: a byte a client sends carries the  *)
(* client, a byte the CPU writes carries the client connected as it did.   *)
(***************************************************************************)
EXTENDS Integers, Sequences, FiniteSetsExt

CONSTANTS Clients,      \* the clients that may ever connect
          NoClient,     \* client_ is -1
          BufferLimit,  \* capacity of input and of output: 65536
          SocketLimit,  \* bytes the kernel holds for a slow client
          PollCycles,   \* CPU steps between two polls: about 1000 cycles
          Backlog,      \* listen(listener_, 4)
          MaxSent,      \* bound: bytes of a client
          MaxWritten    \* bound: bytes of the CPU

ASSUME ConsoleAssumption ==
  /\ NoClient \notin Clients
  /\ {BufferLimit, SocketLimit, PollCycles, Backlog} \subseteq Nat \ {0}
  /\ {MaxSent, MaxWritten} \subseteq Nat

VARIABLES loop,      \* where run() is
          sincePoll, \* cycles - last_tcp_poll
          peer,      \* how each client sees its connection
          backlog,   \* connections accept() has not returned
          client,    \* client_
          wireIn,    \* what each client sent and recv() has not returned
          wireOut,   \* what send() took for the client connected last
          input, output,    \* input_, output_
          aciaIn, aciaOut,  \* the two queues of ACIA 1
          sent,      \* how many bytes each client sent
          written,   \* how many bytes the CPU wrote to the data register
          heard,     \* history: bytes of each client the CPU has read
          shown      \* history: what the client connected last has read

network == <<peer, backlog, wireIn, wireOut, sent, shown>>
acia == <<aciaIn, aciaOut, written, heard>>
emulator == <<loop, sincePoll, client, input, output, acia>>
consoleVars == <<network, emulator>>

From(c, n) == [by |-> c, number |-> n]

ConsoleInit ==
  /\ loop = "top" /\ sincePoll = 0
  /\ peer = [c \in Clients |-> "new"]
  /\ backlog = <<>> /\ client = NoClient
  /\ wireIn = [c \in Clients |-> <<>>] /\ wireOut = <<>>
  /\ input = <<>> /\ output = <<>> /\ aciaIn = <<>> /\ aciaOut = <<>>
  /\ sent = [c \in Clients |-> 0] /\ heard = [c \in Clients |-> 0]
  /\ written = 0 /\ shown = <<>>

-----------------------------------------------------------------------------
(* Clients.                                                                *)

Connects(c) ==
  /\ loop # "exited"
  /\ peer[c] = "new"
  /\ Len(backlog) < Backlog
  /\ peer' = [peer EXCEPT ![c] = "up"]
  /\ backlog' = Append(backlog, c)
  /\ UNCHANGED <<wireIn, wireOut, sent, shown, emulator>>

Types(c) ==
  /\ peer[c] = "up"
  /\ sent[c] < MaxSent
  /\ sent' = [sent EXCEPT ![c] = @ + 1]
  /\ wireIn' = [wireIn EXCEPT ![c] = Append(@, From(c, sent[c] + 1))]
  /\ UNCHANGED <<peer, backlog, wireOut, shown, emulator>>

Reads(c) ==
  /\ client = c /\ peer[c] = "up"
  /\ wireOut # <<>>
  /\ shown' = Append(shown, Head(wireOut))
  /\ wireOut' = Tail(wireOut)
  /\ UNCHANGED <<peer, backlog, wireIn, sent, emulator>>

HangsUp(c) ==
  /\ peer[c] = "up"
  /\ peer' = [peer EXCEPT ![c] = "gone"]
  /\ UNCHANGED <<backlog, wireIn, wireOut, sent, shown, emulator>>

-----------------------------------------------------------------------------
(* TcpConsole::poll(), one action for each outcome of a system call.       *)

\* Mutant: the output of the last client is kept for the next.
DisconnectKeepsOutput ==
  /\ client' = NoClient
  /\ peer' = [peer EXCEPT ![client] = IF @ = "up" THEN "refused" ELSE @]
  /\ input' = <<>> /\ output' = output

Disconnect ==
  /\ client' = NoClient
  /\ peer' = [peer EXCEPT ![client] = IF @ = "up" THEN "refused" ELSE @]
  /\ input' = <<>> /\ output' = <<>>

\* Mutant: the newest connection takes the console over.
TakesClientOver(c) ==
  /\ client' = c
  /\ peer' = IF client = NoClient THEN peer ELSE [peer EXCEPT ![client] = "refused"]
  /\ wireOut' = <<>> /\ shown' = <<>>

\* The descriptor becomes client_, or is closed when there is one.
TakesClient(c) ==
  IF client = NoClient
    THEN client' = c /\ wireOut' = <<>> /\ shown' = <<>> /\ UNCHANGED peer
    ELSE /\ peer' = [peer EXCEPT ![c] = IF @ = "up" THEN "refused" ELSE @]
         /\ UNCHANGED <<client, wireOut, shown>>

Accepts ==
  /\ loop = "accept"
  /\ backlog # <<>>
  /\ backlog' = Tail(backlog)
  /\ TakesClient(Head(backlog))
  /\ UNCHANGED <<loop, sincePoll, input, output, wireIn, sent, acia>>

AcceptStops ==
  /\ loop = "accept"
  /\ backlog = <<>>
  /\ loop' = IF client = NoClient THEN "check" ELSE "receive"
  /\ UNCHANGED <<sincePoll, client, input, output, network, acia>>

Room == BufferLimit - Len(input)

Receives ==
  /\ loop = "receive"
  /\ Len(input) < BufferLimit
  /\ wireIn[client] # <<>>
  /\ LET count == Min({Room, Len(wireIn[client])}) IN
       /\ input' = SubSeq(input \o wireIn[client], 1,
                          Min({BufferLimit, Len(input) + count}))
       /\ wireIn' = [wireIn EXCEPT ![client] = SubSeq(@, count + 1, Len(@))]
  /\ UNCHANGED <<loop, sincePoll, client, output, peer, backlog, wireOut, sent, shown, acia>>

\* recv() returns 0 after the last byte, or the reset the client's kernel
\* answered with.
ReceivesEnd ==
  /\ loop = "receive"
  /\ Len(input) < BufferLimit
  /\ peer[client] = "gone"
  /\ Disconnect
  /\ loop' = "check"
  /\ UNCHANGED <<sincePoll, backlog, wireIn, wireOut, sent, shown, acia>>

ReceiveStops ==
  /\ loop = "receive"
  /\ \/ Len(input) = BufferLimit
     \/ wireIn[client] = <<>> /\ peer[client] = "up"
  /\ loop' = "send"
  /\ UNCHANGED <<sincePoll, client, input, output, network, acia>>

\* send() takes part of the output, also for a client that is gone.
Sends ==
  /\ loop = "send"
  /\ output # <<>>
  /\ Len(wireOut) < SocketLimit
  /\ LET count == Min({SocketLimit - Len(wireOut), Len(output)}) IN
       /\ wireOut' = wireOut \o SubSeq(output, 1, count)
       /\ output' = SubSeq(output, count + 1, Len(output))
  /\ UNCHANGED <<loop, sincePoll, client, input, peer, backlog, wireIn, sent, shown, acia>>

SendFails ==
  /\ loop = "send"
  /\ output # <<>>
  /\ peer[client] = "gone"
  /\ Disconnect
  /\ loop' = "check"
  /\ UNCHANGED <<sincePoll, backlog, wireIn, wireOut, sent, shown, acia>>

SendStops ==
  /\ loop = "send"
  /\ output = <<>> \/ Len(wireOut) = SocketLimit
  /\ loop' = "check"
  /\ UNCHANGED <<sincePoll, client, input, output, network, acia>>

-----------------------------------------------------------------------------
(* run().                                                                  *)

Paused == client = NoClient \/ Len(output) = BufferLimit

PollIsDue == Paused \/ sincePoll = PollCycles

Tops ==
  /\ loop = "top"
  /\ loop' = IF PollIsDue THEN "accept" ELSE "move"
  /\ sincePoll' = IF PollIsDue THEN 0 ELSE sincePoll
  /\ UNCHANGED <<client, input, output, network, acia>>

\* Mutant: a machine that is paused sleeps on without another poll.
SleepsOn ==
  /\ loop = "check"
  /\ loop' = IF Paused THEN "check" ELSE "move"
  /\ UNCHANGED <<sincePoll, client, input, output, network, acia>>

\* usleep(1000) and continue, or on to the ACIA.
Checks ==
  /\ loop = "check"
  /\ loop' = IF Paused THEN "top" ELSE "move"
  /\ UNCHANGED <<sincePoll, client, input, output, network, acia>>

\* Mutant: bytes are pushed into the ACIA as fast as they arrive.
AciaTakesAny == input # <<>>

AciaTakes == aciaIn = <<>> /\ input # <<>>

Moves ==
  /\ loop = "move"
  /\ IF AciaTakes
       THEN aciaIn' = Append(aciaIn, Head(input)) /\ input' = Tail(input)
       ELSE UNCHANGED <<aciaIn, input>>
  /\ IF aciaOut = <<>>
       THEN loop' = "step" /\ UNCHANGED <<aciaOut, output>>
       ELSE IF Len(output) < BufferLimit
         THEN /\ loop' = "step"
              /\ output' = Append(output, Head(aciaOut)) /\ aciaOut' = Tail(aciaOut)
         ELSE \* write() throws and ends the run
              /\ loop' = "exited"
              /\ aciaOut' = Tail(aciaOut) /\ UNCHANGED output
  /\ UNCHANGED <<sincePoll, client, network, written, heard>>

\* The CPU executes one instruction: it reads the data register, writes it,
\* or does neither.  An instruction stores at most one byte in it.
AciaRead ==
  /\ aciaIn # <<>>
  /\ heard' = [heard EXCEPT ![Head(aciaIn).by] = Head(aciaIn).number]
  /\ aciaIn' = Tail(aciaIn)
  /\ UNCHANGED <<aciaOut, written>>

AciaWrite ==
  /\ written < MaxWritten
  /\ written' = written + 1
  /\ aciaOut' = Append(aciaOut, From(client, written + 1))
  /\ UNCHANGED <<aciaIn, heard>>

CpuSteps ==
  /\ loop = "step"
  /\ AciaRead \/ AciaWrite \/ UNCHANGED acia
  /\ loop' = "top"
  /\ sincePoll' = Min({PollCycles, sincePoll + 1})
  /\ UNCHANGED <<client, input, output, network>>

\* A signal, Ctrl-] on the launching terminal or an instruction that
\* branches to itself: run() returns and ~TcpConsole closes the socket.
Exits ==
  /\ loop \in {"top", "step"}
  /\ loop' = "exited"
  /\ IF client = NoClient THEN UNCHANGED <<client, peer, input, output>> ELSE Disconnect
  /\ UNCHANGED <<sincePoll, backlog, wireIn, wireOut, sent, shown, acia>>

PollSteps == \/ Accepts \/ AcceptStops
             \/ Receives \/ ReceivesEnd \/ ReceiveStops
             \/ Sends \/ SendFails \/ SendStops

LoopSteps == Tops \/ PollSteps \/ Checks \/ Moves \/ CpuSteps

ConsoleNext ==
  \/ \E c \in Clients : Connects(c) \/ Types(c) \/ Reads(c) \/ HangsUp(c)
  \/ LoopSteps
  \/ Exits

ConsoleSpec == ConsoleInit /\ [][ConsoleNext]_consoleVars

\* The emulator's process is scheduled, and a client that stays reads what
\* arrives.
FairConsoleSpec ==
  /\ ConsoleSpec
  /\ WF_consoleVars(LoopSteps)
  /\ \A c \in Clients : WF_consoleVars(Reads(c))

-----------------------------------------------------------------------------
Numbers(queue) == [i \in DOMAIN queue |-> queue[i].number]
Interval(first, last) == [i \in 1 .. last - first + 1 |-> first + i - 1]

\* A queue without the byte of an earlier client at its head.
Own(queue, c) == IF queue # <<>> /\ Head(queue).by # c THEN Tail(queue) ELSE queue

\* The bytes of the connected client reach the CPU in their order, none lost
\* and none twice, however poll(), the loop and the CPU interleave; of the
\* clients before it the CPU can read one byte at most, the one the ACIA held.
InboundIsExact ==
  client # NoClient =>
    Own(aciaIn \o input \o wireIn[client], client)
      = [i \in 1 .. sent[client] - heard[client] |-> From(client, heard[client] + i)]

\* What the CPU wrote reaches the connected client in its order, without gaps,
\* through the queue limit, slow reads and short sends; at most one byte was
\* written before it connected, the one the ACIA still held.
OutboundIsExact ==
  client # NoClient =>
    LET stream == shown \o wireOut \o output \o aciaOut IN
      /\ Numbers(stream) = Interval(written - Len(stream) + 1, written)
      /\ \A i \in 2 .. Len(stream) : stream[i].by = client

\* A client that stays connected keeps the console until the emulator exits,
\* whoever else connects; nobody is hung up on while the console is free.
LiveClientIsKept ==
  [][loop' # "exited" =>
       /\ client # NoClient /\ peer[client] = "up" => client' = client
       /\ \A c \in Clients :
            peer[c] = "up" /\ peer'[c] = "refused" => client \notin {c, NoClient}]_consoleVars

OnTheWayOut == wireOut \o output \o aciaOut

\* While a client stays connected and reads, the CPU keeps running, and when
\* it has written its last byte (MaxWritten) nothing stays on the way to the
\* client: backpressure always ends.
ServesItsClient ==
  \A c \in Clients :
    /\ client = c ~> loop \in {"step", "exited"} \/ peer[c] = "gone"
    /\ client = c ~> loop = "exited" \/ peer[c] = "gone" \/ OnTheWayOut = <<>>
=============================================================================
