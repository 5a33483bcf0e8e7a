-------------------------- MODULE EmuConsoleProofs --------------------------
(***************************************************************************)
(* Theorems about the emulator's console, for any clients, any capacity of *)
(* the queues and any polling interval: who is connected stays connected,  *)
(* and no byte is lost, repeated or reordered on the way in or out.        *)
(***************************************************************************)
EXTENDS EmuConsole, SequenceTheorems, TLAPS

-----------------------------------------------------------------------------
(* The inductive invariant.                                                *)

Loops == {"top", "accept", "receive", "send", "check", "move", "step", "exited"}
Bytes == [by : Clients, number : Int]

ConsoleTypeOK ==
  /\ loop \in Loops
  /\ peer \in [Clients -> {"new", "up", "gone", "refused"}]
  /\ backlog \in Seq(Clients)
  /\ client \in Clients \cup {NoClient}
  /\ wireIn \in [Clients -> Seq(Bytes)]
  /\ wireOut \in Seq(Bytes) /\ shown \in Seq(Bytes)
  /\ input \in Seq(Bytes) /\ output \in Seq(Bytes)
  /\ aciaIn \in Seq(Bytes) /\ aciaOut \in Seq(Bytes)
  /\ sent \in [Clients -> Nat] /\ heard \in [Clients -> Int]
  /\ written \in Nat

\* Where run() is says what it has: a client to serve, and room in its queues.
LoopInv ==
  /\ loop \in {"receive", "send", "move", "step"} => client # NoClient
  /\ loop = "step" => aciaOut = <<>>
  /\ loop = "move" => Len(output) < BufferLimit
  /\ Len(output) <= BufferLimit
  /\ Len(aciaIn) <= 1 /\ Len(aciaOut) <= 1
  /\ client = NoClient => input = <<>> /\ output = <<>>

\* A connection waits in the backlog once, and never after it was taken.
BacklogInv ==
  /\ \A i, j \in DOMAIN backlog : backlog[i] = backlog[j] => i = j
  /\ \A i \in DOMAIN backlog : peer[backlog[i]] # "new" /\ backlog[i] # client
  /\ client # NoClient => peer[client] # "new"

\* What recv() has not returned ends with the last byte that was sent.
WireInv ==
  \A c \in Clients : \A i \in DOMAIN wireIn[c] :
    wireIn[c][i] = From(c, sent[c] - Len(wireIn[c]) + i)

\* Nothing of a client that was not taken yet has gone past the wire.
Untaken(c) == peer[c] = "new" \/ \E i \in DOMAIN backlog : backlog[i] = c

UntakenInv ==
  \A c \in Clients : Untaken(c) =>
    /\ heard[c] = 0
    /\ Len(wireIn[c]) = sent[c]
    /\ \A i \in DOMAIN aciaIn : aciaIn[i].by # c

\* The number of the last byte of the client that recv() returned and that
\* is not in input.
Passed(c) == sent[c] - Len(wireIn[c]) - Len(input)

\* The queues hold consecutive bytes of the client, behind what it was heard
\* to say; the ACIA may hold another's.
InboundInv ==
  client # NoClient =>
    /\ \A i \in DOMAIN input : input[i] = From(client, Passed(client) + i)
    /\ \A i \in DOMAIN aciaIn : aciaIn[i].by = client =>
         aciaIn[i] = From(client, Passed(client))
    /\ heard[client] = IF aciaIn # <<>> /\ aciaIn[1].by = client
                         THEN Passed(client) - 1 ELSE Passed(client)

\* The queue's bytes have consecutive numbers that end with the given one.
Numbered(q, last) == \A i \in DOMAIN q : q[i].number = last - Len(q) + i

\* The queue's bytes were written for the client, the first of the stream
\* perhaps for the one before it.
WrittenFor(q, c, first) == \A i \in DOMAIN q : q[i].by = c \/ (i = 1 /\ first)

\* What is behind the ACIA is what the CPU wrote, up to the last byte.
OutboundInv ==
  /\ Numbered(aciaOut, written)
  /\ client # NoClient =>
       /\ Numbered(output, written - Len(aciaOut))
       /\ Numbered(wireOut, written - Len(aciaOut) - Len(output))
       /\ Numbered(shown, written - Len(aciaOut) - Len(output) - Len(wireOut))
       /\ WrittenFor(aciaOut, client, output = <<>> /\ wireOut = <<>> /\ shown = <<>>)
       /\ WrittenFor(output, client, wireOut = <<>> /\ shown = <<>>)
       /\ WrittenFor(wireOut, client, shown = <<>>)
       /\ WrittenFor(shown, client, TRUE)

ConsoleInv ==
  /\ ConsoleTypeOK /\ LoopInv /\ BacklogInv /\ WireInv
  /\ UntakenInv /\ InboundInv /\ OutboundInv

-----------------------------------------------------------------------------

(* Queues.                                                                 *)

\* The smaller of two numbers.
LEMMA MinOfTwo ==
  ASSUME NEW a \in Int, NEW b \in Int
  PROVE  Min({a, b}) = IF a <= b THEN a ELSE b
PROOF
  <1>1. CASE a <= b
    <2>1. \A x \in {a, b} : (\A y \in {a, b} : x <= y) <=> x = a
      BY <1>1
    <2>. QED
      BY <1>1, <2>1 DEF Min
  <1>2. CASE ~(a <= b)
    <2>1. \A x \in {a, b} : (\A y \in {a, b} : x <= y) <=> x = b
      BY <1>2
    <2>. QED
      BY <1>2, <2>1 DEF Min
  <1>. QED
    BY <1>1, <1>2

\* A queue with one more byte at its end,
LEMMA AppendOf ==
  ASSUME NEW S, NEW q \in Seq(S), NEW e \in S
  PROVE  /\ Append(q, e) \in Seq(S)
         /\ Len(Append(q, e)) = Len(q) + 1
         /\ Append(q, e)[Len(q) + 1] = e
         /\ \A i \in 1 .. Len(q) : Append(q, e)[i] = q[i]
PROOF
  OBVIOUS

\* without the one at its head,
LEMMA TailOf ==
  ASSUME NEW S, NEW q \in Seq(S), q # <<>>
  PROVE  /\ Head(q) = q[1] /\ Head(q) \in S
         /\ Len(q) >= 1
         /\ Tail(q) \in Seq(S) /\ Len(Tail(q)) = Len(q) - 1
         /\ \A i \in 1 .. Len(q) - 1 : Tail(q)[i] = q[i + 1]
PROOF
  BY HeadTailProperties

\* its first bytes and the others,
LEMMA PartsOf ==
  ASSUME NEW S, NEW q \in Seq(S), NEW k \in 0 .. Len(q)
  PROVE  /\ SubSeq(q, 1, k) \in Seq(S) /\ Len(SubSeq(q, 1, k)) = k
         /\ \A i \in 1 .. k : SubSeq(q, 1, k)[i] = q[i]
         /\ SubSeq(q, k + 1, Len(q)) \in Seq(S)
         /\ Len(SubSeq(q, k + 1, Len(q))) = Len(q) - k
         /\ \A i \in 1 .. Len(q) - k : SubSeq(q, k + 1, Len(q))[i] = q[k + i]
PROOF
  <1>1. Len(q) \in Nat /\ \A i \in 1 .. Len(q) : q[i] \in S
    OBVIOUS
  <1>2. /\ SubSeq(q, 1, k) \in Seq(S)
        /\ Len(SubSeq(q, 1, k)) = IF 1 <= k THEN k - 1 + 1 ELSE 0
        /\ \A i \in 1 .. k - 1 + 1 : SubSeq(q, 1, k)[i] = q[1 + i - 1]
    BY <1>1, SubSeqProperties
  <1>3. /\ SubSeq(q, k + 1, Len(q)) \in Seq(S)
        /\ Len(SubSeq(q, k + 1, Len(q)))
             = IF k + 1 <= Len(q) THEN Len(q) - (k + 1) + 1 ELSE 0
        /\ \A i \in 1 .. Len(q) - (k + 1) + 1 :
             SubSeq(q, k + 1, Len(q))[i] = q[(k + 1) + i - 1]
    <2>1. k + 1 \in Int /\ Len(q) \in Int /\ \A i \in k + 1 .. Len(q) : q[i] \in S
      BY <1>1
    <2>. QED
      BY <2>1, SubSeqProperties
  <1>. QED
    BY <1>1, <1>2, <1>3

\* and behind another queue, or behind its own end.
LEMMA JoinedOf ==
  ASSUME NEW S, NEW p \in Seq(S), NEW q \in Seq(S)
  PROVE  /\ p \o q \in Seq(S) /\ Len(p \o q) = Len(p) + Len(q)
         /\ \A i \in 1 .. Len(p) : (p \o q)[i] = p[i]
         /\ \A i \in 1 .. Len(q) : (p \o q)[Len(p) + i] = q[i]
PROOF
  OBVIOUS

-----------------------------------------------------------------------------
(* What a step does to the queues.                                         *)

\* recv() moves the first bytes of the wire behind the input.
Received(k, w) ==
  /\ input' \in Seq(Bytes) /\ Len(input') = Len(input) + k
  /\ \A i \in 1 .. Len(input) : input'[i] = input[i]
  /\ \A i \in 1 .. k : input'[Len(input) + i] = wireIn[client][i]
  /\ wireIn' = [wireIn EXCEPT ![client] = w]
  /\ w \in Seq(Bytes) /\ Len(w) = Len(wireIn[client]) - k
  /\ \A i \in 1 .. Len(w) : w[i] = wireIn[client][k + i]

LEMMA ReceivesBytes ==
  ASSUME ConsoleTypeOK, client # NoClient, Receives
  PROVE  \E k \in 0 .. Len(wireIn[client]), w \in Seq(Bytes) : Received(k, w)
PROOF
  <1>. DEFINE wire == wireIn[client]
              room == BufferLimit - Len(input)
              count == Min({room, Len(wire)})
              joined == input \o wire
              w == SubSeq(wire, count + 1, Len(wire))
  <1>1. /\ client \in Clients /\ wireIn \in [Clients -> Seq(Bytes)]
        /\ wire \in Seq(Bytes) /\ input \in Seq(Bytes)
        /\ Len(wire) \in Nat /\ Len(input) \in Nat
    BY DEF ConsoleTypeOK
  <1>2. /\ input' = SubSeq(joined, 1, Min({BufferLimit, Len(input) + count}))
        /\ wireIn' = [wireIn EXCEPT ![client] = w]
        /\ Len(input) < BufferLimit
    BY DEF Receives, Room
  <1>3. BufferLimit \in Nat /\ room \in Nat
    BY <1>1, <1>2, ConsoleAssumption
  <1>. HIDE DEF wire, joined, w, room
  <1>4. count = IF room <= Len(wire) THEN room ELSE Len(wire)
    <2>1. room \in Int /\ Len(wire) \in Int
      BY <1>1, <1>3
    <2>. QED
      BY <2>1, MinOfTwo
  <1>. HIDE DEF count
  <1>5. count \in 0 .. Len(wire) /\ Len(input) + count <= BufferLimit
    BY <1>1, <1>3, <1>4 DEF room
  <1>6. Min({BufferLimit, Len(input) + count}) = Len(input) + count
    <2>1. Len(input) + count \in Int /\ BufferLimit \in Int
      BY <1>1, <1>3, <1>5
    <2>2. Min({BufferLimit, Len(input) + count})
            = IF BufferLimit <= Len(input) + count THEN BufferLimit ELSE Len(input) + count
      BY <2>1, MinOfTwo
    <2>. QED
      BY <2>1, <2>2, <1>5
  <1>7. /\ joined \in Seq(Bytes) /\ Len(joined) = Len(input) + Len(wire)
        /\ \A i \in 1 .. Len(input) : joined[i] = input[i]
        /\ \A i \in 1 .. Len(wire) : joined[Len(input) + i] = wire[i]
    BY <1>1, JoinedOf DEF joined
  <1>8. input' = SubSeq(joined, 1, Len(input) + count)
    BY <1>2, <1>6
  <1>9. Len(input) + count \in 0 .. Len(joined)
    BY <1>1, <1>5, <1>7
  <1>10. /\ input' \in Seq(Bytes) /\ Len(input') = Len(input) + count
         /\ \A i \in 1 .. Len(input) + count : input'[i] = joined[i]
    BY <1>7, <1>8, <1>9, PartsOf
  <1>11. /\ w \in Seq(Bytes) /\ Len(w) = Len(wire) - count
         /\ \A i \in 1 .. Len(w) : w[i] = wire[count + i]
    BY <1>1, <1>5, PartsOf DEF w
  <1>12. /\ \A i \in 1 .. Len(input) : input'[i] = input[i]
         /\ \A i \in 1 .. count : input'[Len(input) + i] = wire[i]
    <2>1. ASSUME NEW i \in 1 .. Len(input) PROVE input'[i] = input[i]
      <3>1. i \in 1 .. Len(input) + count
        BY <1>1, <1>5
      <3>. QED
        BY <3>1, <1>7, <1>10
    <2>2. ASSUME NEW i \in 1 .. count PROVE input'[Len(input) + i] = wire[i]
      <3>1. Len(input) + i \in 1 .. Len(input) + count /\ i \in 1 .. Len(wire)
        BY <1>1, <1>5
      <3>. QED
        BY <3>1, <1>7, <1>10
    <2>. QED
      BY <2>1, <2>2
  <1>13. Received(count, w)
    BY <1>2, <1>10, <1>11, <1>12 DEF Received, wire
  <1>. QED
    BY <1>5, <1>11, <1>13 DEF wire

\* send() moves the first bytes of the output behind what it took before.
Sent(k) ==
  /\ wireOut' \in Seq(Bytes) /\ Len(wireOut') = Len(wireOut) + k
  /\ \A i \in 1 .. Len(wireOut) : wireOut'[i] = wireOut[i]
  /\ \A i \in 1 .. k : wireOut'[Len(wireOut) + i] = output[i]
  /\ output' \in Seq(Bytes) /\ Len(output') = Len(output) - k
  /\ \A i \in 1 .. Len(output') : output'[i] = output[k + i]

LEMMA SendsBytes ==
  ASSUME ConsoleTypeOK, Sends
  PROVE  \E k \in 0 .. Len(output) : Sent(k)
PROOF
  <1>. DEFINE room == SocketLimit - Len(wireOut)
              count == Min({room, Len(output)})
              part == SubSeq(output, 1, count)
  <1>1. /\ output \in Seq(Bytes) /\ wireOut \in Seq(Bytes)
        /\ Len(output) \in Nat /\ Len(wireOut) \in Nat
    BY DEF ConsoleTypeOK
  <1>2. /\ wireOut' = wireOut \o part
        /\ output' = SubSeq(output, count + 1, Len(output))
        /\ Len(wireOut) < SocketLimit
    BY DEF Sends
  <1>3. room \in Nat
    BY <1>1, <1>2, ConsoleAssumption
  <1>. HIDE DEF room, part
  <1>4. count = IF room <= Len(output) THEN room ELSE Len(output)
    BY <1>1, <1>3, MinOfTwo
  <1>. HIDE DEF count
  <1>5. count \in 0 .. Len(output)
    BY <1>1, <1>3, <1>4
  <1>6. /\ part \in Seq(Bytes) /\ Len(part) = count
        /\ \A i \in 1 .. count : part[i] = output[i]
        /\ output' \in Seq(Bytes) /\ Len(output') = Len(output) - count
        /\ \A i \in 1 .. Len(output) - count : output'[i] = output[count + i]
    BY <1>1, <1>2, <1>5, PartsOf DEF part
  <1>7. /\ wireOut' \in Seq(Bytes) /\ Len(wireOut') = Len(wireOut) + count
        /\ \A i \in 1 .. Len(wireOut) : wireOut'[i] = wireOut[i]
        /\ \A i \in 1 .. count : wireOut'[Len(wireOut) + i] = part[i]
    <2>1. /\ wireOut' \in Seq(Bytes) /\ Len(wireOut') = Len(wireOut) + Len(part)
          /\ \A i \in 1 .. Len(wireOut) : wireOut'[i] = wireOut[i]
          /\ \A i \in 1 .. Len(part) : wireOut'[Len(wireOut) + i] = part[i]
      <3>1. wireOut' = wireOut \o part /\ wireOut \in Seq(Bytes) /\ part \in Seq(Bytes)
        BY <1>1, <1>2, <1>6
      <3>. QED
        BY <3>1, JoinedOf
    <2>. QED
      BY <1>6, <2>1
  <1>8. Sent(count)
    BY <1>6, <1>7 DEF Sent
  <1>. QED
    BY <1>5, <1>8

-----------------------------------------------------------------------------
(* The invariant, part by part.                                            *)

LEMMA ConsoleInvInit == ConsoleInit => ConsoleInv
PROOF
  <1>1. SUFFICES ASSUME ConsoleInit PROVE ConsoleInv
    OBVIOUS
  <1>2. ConsoleTypeOK
    BY <1>1 DEF ConsoleInit, ConsoleTypeOK, Loops
  <1>3. LoopInv /\ BacklogInv /\ WireInv /\ UntakenInv /\ InboundInv /\ OutboundInv
    BY <1>1, ConsoleAssumption DEF ConsoleInit, LoopInv, BacklogInv, WireInv, UntakenInv, InboundInv,
         OutboundInv, Numbered, WrittenFor
  <1>. QED
    BY <1>2, <1>3 DEF ConsoleInv

\* What a step that is not run()'s can do.
ClientSteps(c) == Connects(c) \/ Types(c) \/ Reads(c) \/ HangsUp(c)

LEMMA DisconnectTypes ==
  ASSUME peer \in [Clients -> {"new", "up", "gone", "refused"}], Disconnect
  PROVE  /\ peer' \in [Clients -> {"new", "up", "gone", "refused"}]
         /\ input' \in Seq(Bytes) /\ output' \in Seq(Bytes) /\ client' = NoClient
PROOF
  <1>1. peer' = [peer EXCEPT ![client] = IF @ = "up" THEN "refused" ELSE @]
    BY DEF Disconnect
  <1>2. ASSUME NEW c \in Clients
        PROVE  peer'[c] \in {"new", "up", "gone", "refused"}
    BY <1>1
  <1>3. peer' = [c \in Clients |-> peer'[c]]
    BY <1>1
  <1>4. peer' \in [Clients -> {"new", "up", "gone", "refused"}]
    BY <1>2, <1>3, Zenon
  <1>5. <<>> \in Seq(Bytes)
    OBVIOUS
  <1>. QED
    BY <1>4, <1>5 DEF Disconnect

LEMMA TypeStep ==
  ASSUME ConsoleTypeOK, LoopInv, ConsoleNext
  PROVE  ConsoleTypeOK'
PROOF
  <1>. USE DEF ConsoleTypeOK
  <1>0. NoClient \notin Clients
    BY ConsoleAssumption
  <1>1. ASSUME NEW c \in Clients, Connects(c) PROVE ConsoleTypeOK'
    BY <1>1 DEF Connects, emulator, acia
  <1>2. ASSUME NEW c \in Clients, Types(c) PROVE ConsoleTypeOK'
    <2>1. From(c, sent[c] + 1) \in Bytes
      BY DEF From, Bytes
    <2>2. Append(wireIn[c], From(c, sent[c] + 1)) \in Seq(Bytes)
      BY <2>1, AppendOf
    <2>3. wireIn' \in [Clients -> Seq(Bytes)]
      BY <1>2, <2>2 DEF Types
    <2>4. sent' \in [Clients -> Nat]
      BY <1>2, SMTT(30) DEF Types
    <2>. QED
      BY <1>2, <2>3, <2>4 DEF Types, emulator, acia
  <1>3. ASSUME NEW c \in Clients, Reads(c) PROVE ConsoleTypeOK'
    <2>1. Head(wireOut) \in Bytes /\ Tail(wireOut) \in Seq(Bytes)
      BY <1>3, TailOf DEF Reads
    <2>2. shown' \in Seq(Bytes) /\ wireOut' \in Seq(Bytes)
      BY <1>3, <2>1, AppendOf DEF Reads
    <2>. QED
      BY <1>3, <2>2 DEF Reads, emulator, acia
  <1>4. ASSUME NEW c \in Clients, HangsUp(c) PROVE ConsoleTypeOK'
    BY <1>4 DEF HangsUp, emulator, acia
  <1>5. CASE Accepts
    <2>1. Head(backlog) \in Clients /\ Tail(backlog) \in Seq(Clients)
      BY <1>5, TailOf DEF Accepts
    <2>2. <<>> \in Seq(Bytes)
      OBVIOUS
    <2>. QED
      BY <1>5, <2>1, <2>2 DEF Accepts, TakesClient, acia
  <1>6. CASE Receives
    <2>1. client \in Clients
      BY <1>6 DEF Receives, LoopInv
    <2>2. PICK k \in 0 .. Len(wireIn[client]), w \in Seq(Bytes) : Received(k, w)
      BY <1>6, <2>1, <1>0, ReceivesBytes
    <2>3. input' \in Seq(Bytes) /\ wireIn' \in [Clients -> Seq(Bytes)]
      BY <2>1, <2>2 DEF Received
    <2>. QED
      BY <1>6, <2>3 DEF Receives, acia
  <1>7. CASE ReceivesEnd \/ SendFails
    <2>1. Disconnect /\ loop' = "check"
      BY <1>7 DEF ReceivesEnd, SendFails
    <2>2. /\ peer' \in [Clients -> {"new", "up", "gone", "refused"}]
          /\ input' \in Seq(Bytes) /\ output' \in Seq(Bytes) /\ client' = NoClient
      BY <2>1, DisconnectTypes
    <2>3. UNCHANGED <<backlog, wireIn, wireOut, sent, shown, acia>>
      BY <1>7 DEF ReceivesEnd, SendFails
    <2>. QED
      BY <2>1, <2>2, <2>3 DEF acia, Loops
  <1>8. CASE Sends
    <2>1. wireOut' \in Seq(Bytes) /\ output' \in Seq(Bytes)
      BY <1>8, SendsBytes DEF Sent
    <2>. QED
      BY <1>8, <2>1 DEF Sends, acia
  <1>9. CASE AcceptStops \/ ReceiveStops \/ SendStops \/ Checks
    BY <1>9 DEF AcceptStops, ReceiveStops, SendStops, Checks, network, acia, Loops
  <1>10. CASE Tops
    BY <1>10 DEF Tops, network, acia, Loops
  <1>11. CASE Moves
    <2>1. aciaIn' \in Seq(Bytes) /\ input' \in Seq(Bytes)
      <3>1. CASE AciaTakes
        <4>1. Head(input) \in Bytes /\ Tail(input) \in Seq(Bytes)
          BY <3>1, TailOf DEF AciaTakes
        <4>2. Append(aciaIn, Head(input)) \in Seq(Bytes)
          BY <4>1, AppendOf
        <4>. QED
          BY <1>11, <3>1, <4>1, <4>2 DEF Moves
      <3>2. CASE ~AciaTakes
        BY <1>11, <3>2 DEF Moves
      <3>. QED
        BY <3>1, <3>2
    <2>2. aciaOut' \in Seq(Bytes) /\ output' \in Seq(Bytes)
      <3>1. CASE aciaOut = <<>>
        BY <1>11, <3>1 DEF Moves
      <3>2. CASE aciaOut # <<>>
        <4>1. Head(aciaOut) \in Bytes /\ Tail(aciaOut) \in Seq(Bytes)
          BY <3>2, TailOf
        <4>2. Append(output, Head(aciaOut)) \in Seq(Bytes)
          BY <4>1, AppendOf
        <4>. QED
          BY <1>11, <3>2, <4>1, <4>2 DEF Moves
      <3>. QED
        BY <3>1, <3>2
    <2>3. loop' \in Loops
      BY <1>11 DEF Moves, Loops
    <2>. QED
      BY <1>11, <2>1, <2>2, <2>3 DEF Moves, network
  <1>12. CASE CpuSteps
    <2>1. CASE AciaRead
      <3>1. Head(aciaIn) \in Bytes /\ Tail(aciaIn) \in Seq(Bytes)
        BY <2>1, TailOf DEF AciaRead
      <3>2. Head(aciaIn).by \in Clients /\ Head(aciaIn).number \in Int
        BY <3>1 DEF Bytes
      <3>3. heard' \in [Clients -> Int]
        BY <2>1, <3>2 DEF AciaRead
      <3>. QED
        BY <1>12, <2>1, <3>1, <3>3 DEF CpuSteps, AciaRead, network, Loops
    <2>2. CASE AciaWrite
      <3>1. client \in Clients
        BY <1>12 DEF CpuSteps, LoopInv
      <3>2. From(client, written + 1) \in Bytes
        BY <3>1 DEF From, Bytes
      <3>3. aciaOut' \in Seq(Bytes)
        BY <2>2, <3>2, AppendOf DEF AciaWrite
      <3>. QED
        BY <1>12, <2>2, <3>3 DEF CpuSteps, AciaWrite, network, Loops
    <2>3. CASE UNCHANGED acia
      BY <1>12, <2>3 DEF CpuSteps, network, acia, Loops
    <2>. QED
      BY <1>12, <2>1, <2>2, <2>3 DEF CpuSteps
  <1>13. CASE Exits
    <2>1. /\ peer' \in [Clients -> {"new", "up", "gone", "refused"}]
          /\ input' \in Seq(Bytes) /\ output' \in Seq(Bytes)
          /\ client' \in Clients \cup {NoClient}
      <3>1. CASE client = NoClient
        BY <1>13, <3>1 DEF Exits
      <3>2. CASE client # NoClient
        BY <1>13, <3>2, DisconnectTypes DEF Exits
      <3>. QED
        BY <3>1, <3>2
    <2>. QED
      BY <1>13, <2>1 DEF Exits, acia, Loops
  <1>. QED
    BY <1>1, <1>2, <1>3, <1>4, <1>5, <1>6, <1>7, <1>8, <1>9, <1>10, <1>11, <1>12, <1>13
    DEF ConsoleNext, LoopSteps, PollSteps

LEMMA LoopStep ==
  ASSUME ConsoleTypeOK, LoopInv, ConsoleNext
  PROVE  LoopInv'
PROOF
  <1>0. /\ NoClient \notin Clients
        /\ aciaIn \in Seq(Bytes) /\ aciaOut \in Seq(Bytes)
        /\ input \in Seq(Bytes) /\ backlog \in Seq(Clients)
        /\ output \in Seq(Bytes) /\ Len(output) \in Nat
        /\ BufferLimit \in Nat /\ BufferLimit > 0
        /\ Len(<<>>) = 0
    BY ConsoleAssumption, SMTT(30) DEF ConsoleTypeOK
  <1>1. ASSUME NEW c \in Clients, Connects(c) \/ Types(c) \/ Reads(c) \/ HangsUp(c)
        PROVE  LoopInv'
    BY <1>1 DEF Connects, Types, Reads, HangsUp, emulator, acia, LoopInv
  <1>2. CASE Accepts
    <2>1. Head(backlog) \in Clients
      BY <1>0, <1>2, TailOf DEF Accepts
    <2>. QED
      BY <1>0, <1>2, <2>1 DEF Accepts, TakesClient, acia, LoopInv
  <1>3. CASE Receives
    BY <1>3 DEF Receives, acia, LoopInv
  <1>4. CASE ReceivesEnd \/ SendFails
    BY <1>0, <1>4 DEF ReceivesEnd, SendFails, Disconnect, acia, LoopInv
  <1>5. CASE Sends
    <2>1. PICK k \in 0 .. Len(output) : Sent(k)
      BY <1>5, SendsBytes
    <2>2. Len(output') <= BufferLimit
      <3>. DEFINE n == Len(output)
      <3>1. Len(output') = n - k /\ n \in Nat /\ n <= BufferLimit /\ k \in 0 .. n
        BY <1>0, <2>1 DEF Sent, LoopInv
      <3>. HIDE DEF n
      <3>. QED
        BY <1>0, <3>1
    <2>3. loop' = "send" /\ client # NoClient /\ UNCHANGED <<client, input, acia>>
      BY <1>5 DEF Sends, LoopInv
    <2>. QED
      BY <2>2, <2>3 DEF acia, LoopInv
  <1>6. CASE AcceptStops \/ ReceiveStops \/ SendStops
    BY <1>6 DEF AcceptStops, ReceiveStops, SendStops, network, acia, LoopInv
  <1>7. CASE Checks
    <2>1. loop' = "move" => Len(output) # BufferLimit /\ client # NoClient
      BY <1>7 DEF Checks, Paused
    <2>2. Len(output) # BufferLimit => Len(output) < BufferLimit
      BY <1>0 DEF LoopInv
    <2>. QED
      BY <1>7, <2>1, <2>2 DEF Checks, network, acia, LoopInv
  <1>8. CASE Tops
    <2>1. loop' = "move" => Len(output) # BufferLimit /\ client # NoClient
      BY <1>8 DEF Tops, PollIsDue, Paused
    <2>2. Len(output) # BufferLimit => Len(output) < BufferLimit
      BY <1>0 DEF LoopInv
    <2>. QED
      BY <1>8, <2>1, <2>2 DEF Tops, network, acia, LoopInv
  <1>9. CASE Moves
    <2>1. client # NoClient /\ UNCHANGED client
      BY <1>9 DEF Moves, LoopInv
    <2>2. Len(aciaIn') <= 1
      <3>1. CASE AciaTakes
        <4>1. aciaIn = <<>> /\ aciaIn' = Append(aciaIn, Head(input))
          BY <1>9, <3>1 DEF Moves, AciaTakes
        <4>. QED
          BY <4>1
      <3>2. CASE ~AciaTakes
        BY <1>9, <3>2 DEF Moves, LoopInv
      <3>. QED
        BY <3>1, <3>2
    <2>3. aciaOut' = <<>>
      <3>1. CASE aciaOut = <<>>
        BY <1>9, <3>1 DEF Moves
      <3>2. CASE aciaOut # <<>>
        <4>1. Len(aciaOut) = 1
          <5>. DEFINE n == Len(aciaOut)
          <5>1. n >= 1 /\ n \in Nat /\ n <= 1
            BY <1>0, <3>2, TailOf DEF LoopInv
          <5>. HIDE DEF n
          <5>2. n = 1
            BY <5>1
          <5>. QED
            BY <5>2 DEF n
        <4>2. aciaOut' = Tail(aciaOut)
          BY <1>9, <3>2 DEF Moves
        <4>3. Len(aciaOut') = 0 /\ aciaOut' \in Seq(Bytes)
          BY <1>0, <3>2, <4>1, <4>2, TailOf
        <4>. QED
          BY <4>3
      <3>. QED
        BY <3>1, <3>2
    <2>4. Len(output') <= BufferLimit /\ loop' \in {"step", "exited"}
      <3>1. CASE aciaOut # <<>>
        <4>1. output' = Append(output, Head(aciaOut)) /\ loop' = "step"
          BY <1>9, <3>1 DEF Moves, LoopInv
        <4>2. Len(output') = Len(output) + 1
          BY <1>0, <3>1, <4>1, AppendOf, TailOf
        <4>3. Len(output) < BufferLimit
          BY <1>9 DEF Moves, LoopInv
        <4>. DEFINE n == Len(output)
        <4>4. n \in Nat /\ n < BufferLimit
          BY <1>0, <4>3
        <4>. HIDE DEF n
        <4>5. n + 1 <= BufferLimit
          BY <1>0, <4>4
        <4>. QED
          BY <4>1, <4>2, <4>5 DEF n
      <3>2. CASE aciaOut = <<>>
        BY <1>9, <3>2 DEF Moves, LoopInv
      <3>. QED
        BY <3>1, <3>2
    <2>. QED
      BY <2>1, <2>2, <2>3, <2>4 DEF LoopInv
  <1>10. CASE CpuSteps
    <2>1. /\ client # NoClient /\ aciaOut = <<>> /\ loop' = "top"
          /\ UNCHANGED <<client, output>> /\ Len(output) <= BufferLimit
      BY <1>10 DEF CpuSteps, LoopInv
    <2>2. Len(aciaIn') <= 1
      <3>1. CASE AciaRead
        BY <1>0, <3>1, TailOf DEF AciaRead, LoopInv
      <3>2. CASE AciaWrite \/ UNCHANGED acia
        BY <3>2 DEF AciaWrite, acia, LoopInv
      <3>. QED
        BY <1>10, <3>1, <3>2 DEF CpuSteps
    <2>3. Len(aciaOut') <= 1
      <3>1. CASE AciaWrite
        BY <2>1, <3>1 DEF AciaWrite
      <3>2. CASE AciaRead \/ UNCHANGED acia
        BY <3>2 DEF AciaRead, acia, LoopInv
      <3>. QED
        BY <1>10, <3>1, <3>2 DEF CpuSteps
    <2>. QED
      BY <2>1, <2>2, <2>3 DEF LoopInv
  <1>11. CASE Exits
    BY <1>0, <1>11 DEF Exits, Disconnect, acia, LoopInv
  <1>. QED
    BY <1>1, <1>2, <1>3, <1>4, <1>5, <1>6, <1>7, <1>8, <1>9, <1>10, <1>11
    DEF ConsoleNext, LoopSteps, PollSteps

LEMMA BacklogStep ==
  ASSUME ConsoleTypeOK, LoopInv, BacklogInv, ConsoleNext
  PROVE  BacklogInv'
PROOF
  <1>0. /\ NoClient \notin Clients
        /\ peer \in [Clients -> {"new", "up", "gone", "refused"}]
        /\ client \in Clients \cup {NoClient}
        /\ backlog \in Seq(Clients)
        /\ DOMAIN backlog = 1 .. Len(backlog)
        /\ \A i \in DOMAIN backlog : backlog[i] \in Clients
    BY ConsoleAssumption, SMTT(30) DEF ConsoleTypeOK
  <1>1. ASSUME NEW c \in Clients, Connects(c) PROVE BacklogInv'
    <2>1. peer[c] = "new" /\ UNCHANGED client /\ peer' = [peer EXCEPT ![c] = "up"]
      BY <1>1 DEF Connects, emulator
    <2>2. /\ backlog' \in Seq(Clients) /\ Len(backlog') = Len(backlog) + 1
          /\ backlog'[Len(backlog) + 1] = c
          /\ \A i \in 1 .. Len(backlog) : backlog'[i] = backlog[i]
      BY <1>0, <1>1, AppendOf DEF Connects
    <2>3. DOMAIN backlog' = 1 .. Len(backlog) + 1
      BY <2>2
    <2>4. \A i \in 1 .. Len(backlog) : backlog[i] # c
      BY <1>0, <2>1 DEF BacklogInv
    <2>5. client # c
      BY <1>0, <2>1 DEF BacklogInv
    <2>6. \A i, j \in DOMAIN backlog' : backlog'[i] = backlog'[j] => i = j
      BY <1>0, <2>2, <2>3, <2>4 DEF BacklogInv
    <2>7. \A i \in DOMAIN backlog' : peer'[backlog'[i]] # "new" /\ backlog'[i] # client'
      BY <1>0, <2>1, <2>2, <2>3, <2>5 DEF BacklogInv
    <2>. QED
      BY <1>0, <2>1, <2>6, <2>7 DEF BacklogInv
  <1>2. ASSUME NEW c \in Clients, Types(c) \/ Reads(c) PROVE BacklogInv'
    BY <1>2 DEF Types, Reads, emulator, BacklogInv
  <1>3. ASSUME NEW c \in Clients, HangsUp(c) PROVE BacklogInv'
    BY <1>0, <1>3 DEF HangsUp, emulator, BacklogInv
  <1>4. CASE Accepts
    <2>. DEFINE c == Head(backlog)
    <2>1. /\ c = backlog[1] /\ c \in Clients /\ backlog' = Tail(backlog)
          /\ Len(backlog) >= 1
          /\ backlog' \in Seq(Clients) /\ Len(backlog') = Len(backlog) - 1
          /\ \A i \in 1 .. Len(backlog) - 1 : backlog'[i] = backlog[i + 1]
      BY <1>0, <1>4, TailOf DEF Accepts
    <2>2. DOMAIN backlog' = 1 .. Len(backlog) - 1
      BY <2>1
    <2>. HIDE DEF c
    <2>3. \A i \in DOMAIN backlog' : i + 1 \in DOMAIN backlog /\ i + 1 # 1
      BY <1>0, <2>2
    <2>4. \A i, j \in DOMAIN backlog' : backlog'[i] = backlog'[j] => i = j
      BY <1>0, <2>1, <2>2, <2>3 DEF BacklogInv
    <2>5. \A i \in DOMAIN backlog' : backlog'[i] # c /\ backlog'[i] # client
      BY <1>0, <2>1, <2>2, <2>3 DEF BacklogInv
    <2>6. \A d \in Clients : peer[d] # "new" => peer'[d] # "new"
      BY <1>0, <1>4, <2>1 DEF Accepts, TakesClient, c
    <2>7. \A i \in DOMAIN backlog' : peer'[backlog'[i]] # "new"
      BY <1>0, <2>1, <2>2, <2>3, <2>6 DEF BacklogInv
    <2>8. client' \in {client, c}
      BY <1>4 DEF Accepts, TakesClient, c
    <2>9. peer[c] # "new"
      BY <1>0, <2>1 DEF BacklogInv
    <2>10. client' # NoClient => peer'[client'] # "new"
      BY <1>0, <2>1, <2>6, <2>8, <2>9 DEF BacklogInv
    <2>. QED
      BY <2>4, <2>5, <2>7, <2>8, <2>10 DEF BacklogInv
  <1>5. CASE ReceivesEnd \/ SendFails \/ (Exits /\ client # NoClient)
    <2>1. Disconnect /\ UNCHANGED backlog
      BY <1>5 DEF ReceivesEnd, SendFails, Exits
    <2>2. \A d \in Clients : peer[d] # "new" => peer'[d] # "new"
      BY <1>0, <2>1 DEF Disconnect
    <2>. QED
      BY <1>0, <2>1, <2>2 DEF Disconnect, BacklogInv
  <1>6. CASE \/ Receives \/ Sends \/ AcceptStops \/ ReceiveStops \/ SendStops \/ Checks
             \/ Tops \/ Moves \/ CpuSteps \/ (Exits /\ client = NoClient)
    <2>1. UNCHANGED <<peer, backlog, client>>
      BY <1>6 DEF Receives, Sends, AcceptStops, ReceiveStops, SendStops, Checks, Tops,
                  Moves, CpuSteps, Exits, network
    <2>. QED
      BY <2>1 DEF BacklogInv
  <1>. QED
    BY <1>1, <1>2, <1>3, <1>4, <1>5, <1>6 DEF ConsoleNext, LoopSteps, PollSteps

LEMMA WireStep ==
  ASSUME ConsoleTypeOK, LoopInv, WireInv, ConsoleNext
  PROVE  WireInv'
PROOF
  <1>0. /\ NoClient \notin Clients
        /\ wireIn \in [Clients -> Seq(Bytes)] /\ sent \in [Clients -> Nat]
    BY ConsoleAssumption DEF ConsoleTypeOK
  <1>1. ASSUME NEW c \in Clients, Types(c) PROVE WireInv'
    <2>. DEFINE wire == wireIn[c]
                b == From(c, sent[c] + 1)
    <2>1. /\ sent' = [sent EXCEPT ![c] = @ + 1]
          /\ wireIn' = [wireIn EXCEPT ![c] = Append(wire, b)]
      BY <1>1 DEF Types
    <2>2. wire \in Seq(Bytes) /\ b \in Bytes /\ sent[c] \in Nat
      <3>1. wire \in Seq(Bytes) /\ sent[c] \in Nat
        BY <1>0
      <3>2. b \in Bytes
        BY <3>1 DEF From, Bytes
      <3>. QED
        BY <3>1, <3>2
    <2>3. /\ Append(wire, b) \in Seq(Bytes)
          /\ Len(Append(wire, b)) = Len(wire) + 1
          /\ Append(wire, b)[Len(wire) + 1] = b
          /\ \A i \in 1 .. Len(wire) : Append(wire, b)[i] = wire[i]
      BY <2>2, AppendOf
    <2>4. \A i \in 1 .. Len(wire) : wire[i] = From(c, sent[c] - Len(wire) + i)
      BY <2>2 DEF WireInv
    <2>5. wireIn'[c] = Append(wire, b) /\ sent'[c] = sent[c] + 1
      BY <1>0, <2>1
    <2>. HIDE DEF wire
    <2>6. ASSUME NEW i \in DOMAIN wireIn'[c]
          PROVE  wireIn'[c][i] = From(c, sent'[c] - Len(wireIn'[c]) + i)
      <3>1. Len(wire) \in Nat /\ i \in 1 .. Len(wire) + 1
        BY <2>2, <2>3, <2>5
      <3>2. sent'[c] - Len(wireIn'[c]) = sent[c] - Len(wire)
        <4>. DEFINE n == Len(wire)
                    m == sent[c]
        <4>1. sent'[c] - Len(wireIn'[c]) = (m + 1) - (n + 1)
          BY <2>3, <2>5
        <4>2. n \in Nat /\ m \in Nat
          BY <2>2, <3>1
        <4>. HIDE DEF n, m
        <4>3. (m + 1) - (n + 1) = m - n
          BY <4>2
        <4>. QED
          BY <4>1, <4>3 DEF n, m
      <3>3. CASE i = Len(wire) + 1
        BY <2>2, <2>3, <2>5, <3>1, <3>2, <3>3
      <3>4. CASE i \in 1 .. Len(wire)
        BY <2>3, <2>4, <2>5, <3>2, <3>4
      <3>. QED
        BY <3>1, <3>3, <3>4
    <2>7. \A d \in Clients \ {c} : wireIn'[d] = wireIn[d] /\ sent'[d] = sent[d]
      BY <1>0, <2>1
    <2>. QED
      BY <2>6, <2>7 DEF WireInv
  <1>2. CASE Receives
    <2>1. client \in Clients /\ UNCHANGED sent
      BY <1>2 DEF Receives, LoopInv, ConsoleTypeOK
    <2>2. PICK k \in 0 .. Len(wireIn[client]), w \in Seq(Bytes) : Received(k, w)
      BY <1>0, <1>2, <2>1, ReceivesBytes
    <2>3. /\ wireIn' = [wireIn EXCEPT ![client] = w]
          /\ w \in Seq(Bytes) /\ Len(w) = Len(wireIn[client]) - k
          /\ \A i \in 1 .. Len(w) : w[i] = wireIn[client][k + i]
      BY <2>2 DEF Received
    <2>4. wireIn'[client] = w
      BY <1>0, <2>1, <2>3
    <2>5. ASSUME NEW i \in DOMAIN w
          PROVE  w[i] = From(client, sent[client] - Len(w) + i)
      <3>. DEFINE wire == wireIn[client]
      <3>1. /\ wire \in Seq(Bytes) /\ Len(wire) \in Nat /\ sent[client] \in Nat
            /\ k \in Nat /\ Len(w) = Len(wire) - k
        BY <1>0, <2>1, <2>3
      <3>2. i \in 1 .. Len(w) /\ k + i \in 1 .. Len(wire)
        BY <2>3, <3>1
      <3>3. k + i \in DOMAIN wire
        BY <3>1, <3>2
      <3>4. wire[k + i] = From(client, sent[client] - Len(wire) + (k + i))
        BY <2>1, <3>3 DEF WireInv
      <3>5. sent[client] - Len(wire) + (k + i) = sent[client] - Len(w) + i
        <4>. HIDE DEF wire
        <4>. QED
          BY <3>1, <3>2
      <3>. QED
        BY <2>3, <3>2, <3>4, <3>5
    <2>6. \A d \in Clients \ {client} : wireIn'[d] = wireIn[d]
      BY <1>0, <2>3
    <2>. QED
      BY <2>1, <2>4, <2>5, <2>6 DEF WireInv
  <1>3. ASSUME NEW c \in Clients, Connects(c) \/ Reads(c) \/ HangsUp(c) PROVE WireInv'
    BY <1>3 DEF Connects, Reads, HangsUp, WireInv
  <1>4. CASE \/ Accepts \/ AcceptStops \/ ReceivesEnd \/ ReceiveStops
             \/ Sends \/ SendFails \/ SendStops
             \/ Tops \/ Checks \/ Moves \/ CpuSteps \/ Exits
    <2>1. UNCHANGED <<wireIn, sent>>
      BY <1>4 DEF Accepts, AcceptStops, ReceivesEnd, ReceiveStops, Sends, SendFails,
                  SendStops, Tops, Checks, Moves, CpuSteps, Exits, network
    <2>. QED
      BY <2>1 DEF WireInv
  <1>. QED
    BY <1>1, <1>2, <1>3, <1>4 DEF ConsoleNext, LoopSteps, PollSteps

\* A connection that is waiting was waiting, or was not made.
LEMMA UntakenBefore ==
  ASSUME ConsoleTypeOK, ConsoleNext, NEW c \in Clients, Untaken(c)'
  PROVE  Untaken(c)
PROOF
  <1>0. /\ peer \in [Clients -> {"new", "up", "gone", "refused"}]
        /\ backlog \in Seq(Clients)
        /\ DOMAIN backlog = 1 .. Len(backlog)
    BY DEF ConsoleTypeOK
  <1>1. ASSUME NEW d \in Clients, Connects(d) PROVE Untaken(c)
    <2>1. peer[d] = "new" /\ peer' = [peer EXCEPT ![d] = "up"]
      BY <1>1 DEF Connects
    <2>2. /\ DOMAIN backlog' = 1 .. Len(backlog) + 1
          /\ backlog'[Len(backlog) + 1] = d
          /\ \A i \in 1 .. Len(backlog) : backlog'[i] = backlog[i]
      BY <1>0, <1>1, AppendOf DEF Connects
    <2>3. CASE c = d
      BY <2>1, <2>3 DEF Untaken
    <2>4. CASE c # d
      BY <1>0, <2>1, <2>2, <2>4 DEF Untaken
    <2>. QED
      BY <2>3, <2>4
  <1>2. ASSUME NEW d \in Clients, HangsUp(d) PROVE Untaken(c)
    BY <1>0, <1>2 DEF HangsUp, Untaken
  <1>3. CASE Accepts
    <2>1. /\ Len(backlog) >= 1
          /\ backlog' \in Seq(Clients) /\ Len(backlog') = Len(backlog) - 1
          /\ \A i \in 1 .. Len(backlog) - 1 : backlog'[i] = backlog[i + 1]
      BY <1>0, <1>3, TailOf DEF Accepts
    <2>2. DOMAIN backlog' = 1 .. Len(backlog) - 1
      BY <2>1
    <2>3. \A i \in DOMAIN backlog' : i + 1 \in DOMAIN backlog /\ backlog'[i] = backlog[i + 1]
      BY <1>0, <2>1, <2>2
    <2>4. peer'[c] = "new" => peer[c] = "new"
      BY <1>0, <1>3 DEF Accepts, TakesClient
    <2>. QED
      BY <2>3, <2>4 DEF Untaken
  <1>4. CASE ReceivesEnd \/ SendFails \/ (Exits /\ client # NoClient)
    <2>1. Disconnect /\ UNCHANGED backlog
      BY <1>4 DEF ReceivesEnd, SendFails, Exits
    <2>. QED
      BY <1>0, <2>1 DEF Disconnect, Untaken
  <1>5. CASE \/ Receives \/ Sends \/ AcceptStops \/ ReceiveStops \/ SendStops \/ Checks
             \/ Tops \/ Moves \/ CpuSteps \/ (Exits /\ client = NoClient)
             \/ \E d \in Clients : Types(d) \/ Reads(d)
    <2>1. UNCHANGED <<peer, backlog>>
      BY <1>5 DEF Receives, Sends, AcceptStops, ReceiveStops, SendStops, Checks, Tops,
                  Moves, CpuSteps, Exits, network, Types, Reads
    <2>. QED
      BY <2>1 DEF Untaken
  <1>. QED
    BY <1>1, <1>2, <1>3, <1>4, <1>5 DEF ConsoleNext, LoopSteps, PollSteps

LEMMA UntakenStep ==
  ASSUME ConsoleTypeOK, LoopInv, BacklogInv, UntakenInv, InboundInv, ConsoleNext
  PROVE  UntakenInv'
PROOF
  <1>. SUFFICES ASSUME NEW c \in Clients, Untaken(c)'
                PROVE  /\ heard'[c] = 0
                       /\ Len(wireIn'[c]) = sent'[c]
                       /\ \A i \in DOMAIN aciaIn' : aciaIn'[i].by # c
    BY DEF UntakenInv
  <1>0. /\ NoClient \notin Clients
        /\ wireIn \in [Clients -> Seq(Bytes)] /\ sent \in [Clients -> Nat]
        /\ heard \in [Clients -> Int]
        /\ input \in Seq(Bytes) /\ aciaIn \in Seq(Bytes)
    BY ConsoleAssumption DEF ConsoleTypeOK
  <1>1. /\ heard[c] = 0 /\ Len(wireIn[c]) = sent[c]
        /\ \A i \in DOMAIN aciaIn : aciaIn[i].by # c
    BY UntakenBefore DEF UntakenInv
  <1>2. client # c
    BY <1>0, UntakenBefore DEF BacklogInv, Untaken
  <1>3. ASSUME NEW d \in Clients, Types(d) PROVE Len(wireIn'[c]) = sent'[c]
    <2>1. CASE d = c
      <3>1. /\ sent' = [sent EXCEPT ![c] = @ + 1]
            /\ wireIn' = [wireIn EXCEPT ![c] = Append(@, From(c, sent[c] + 1))]
        BY <1>3, <2>1 DEF Types
      <3>2. From(c, sent[c] + 1) \in Bytes /\ wireIn[c] \in Seq(Bytes)
        <4>1. wireIn[c] \in Seq(Bytes) /\ sent[c] \in Nat
          BY <1>0
        <4>2. From(c, sent[c] + 1) \in Bytes
          BY <4>1 DEF From, Bytes
        <4>. QED
          BY <4>1, <4>2
      <3>3. Len(Append(wireIn[c], From(c, sent[c] + 1))) = Len(wireIn[c]) + 1
        BY <3>2, AppendOf
      <3>. QED
        BY <1>0, <1>1, <3>1, <3>3
    <2>2. CASE d # c
      BY <1>0, <1>1, <1>3, <2>2 DEF Types
    <2>. QED
      BY <2>1, <2>2
  <1>4. ASSUME NEW d \in Clients, Types(d) PROVE UNCHANGED <<heard, aciaIn>>
    BY <1>4 DEF Types, emulator, acia
  <1>5. CASE Receives
    <2>1. client \in Clients /\ UNCHANGED <<heard, aciaIn, sent>>
      BY <1>5 DEF Receives, acia, LoopInv, ConsoleTypeOK
    <2>2. PICK k \in 0 .. Len(wireIn[client]), w \in Seq(Bytes) : Received(k, w)
      BY <1>0, <1>5, <2>1, ReceivesBytes
    <2>3. wireIn'[c] = wireIn[c]
      BY <1>0, <1>2, <2>2 DEF Received
    <2>. QED
      BY <1>1, <2>1, <2>3
  <1>6. CASE Moves
    <2>1. UNCHANGED <<heard, wireIn, sent>>
      BY <1>6 DEF Moves, network
    <2>2. CASE AciaTakes
      <3>1. /\ aciaIn = <<>> /\ input # <<>>
            /\ aciaIn' = Append(aciaIn, Head(input))
        BY <1>6, <2>2 DEF Moves, AciaTakes
      <3>2. Head(input) = input[1] /\ 1 \in DOMAIN input
        BY <1>0, <3>1, TailOf
      <3>3. Head(input).by = client
        BY <1>6, <3>2 DEF Moves, LoopInv, InboundInv, From
      <3>4. DOMAIN aciaIn' = {1} /\ aciaIn'[1] = Head(input)
        BY <3>1
      <3>. QED
        BY <1>1, <1>2, <2>1, <3>3, <3>4
    <2>3. CASE ~AciaTakes
      BY <1>1, <1>6, <2>1, <2>3 DEF Moves
    <2>. QED
      BY <2>2, <2>3
  <1>7. CASE CpuSteps
    <2>1. UNCHANGED <<wireIn, sent>>
      BY <1>7 DEF CpuSteps, network
    <2>2. CASE AciaRead
      <3>1. /\ aciaIn # <<>> /\ aciaIn' = Tail(aciaIn)
            /\ heard' = [heard EXCEPT ![Head(aciaIn).by] = Head(aciaIn).number]
        BY <2>2 DEF AciaRead
      <3>2. /\ Head(aciaIn) = aciaIn[1] /\ 1 \in DOMAIN aciaIn
            /\ DOMAIN aciaIn' = 1 .. Len(aciaIn) - 1
            /\ \A i \in 1 .. Len(aciaIn) - 1 :
                 aciaIn'[i] = aciaIn[i + 1] /\ i + 1 \in DOMAIN aciaIn
        BY <1>0, <3>1, TailOf
      <3>3. heard'[c] = heard[c]
        BY <1>0, <1>1, <3>1, <3>2
      <3>. QED
        BY <1>1, <2>1, <3>2, <3>3
    <2>3. CASE AciaWrite \/ UNCHANGED acia
      BY <1>1, <2>1, <2>3 DEF AciaWrite, acia
    <2>. QED
      BY <1>7, <2>2, <2>3 DEF CpuSteps
  <1>8. CASE \/ Accepts \/ AcceptStops \/ ReceivesEnd \/ ReceiveStops
             \/ Sends \/ SendFails \/ SendStops \/ Tops \/ Checks \/ Exits
             \/ \E d \in Clients : Connects(d) \/ Reads(d) \/ HangsUp(d)
    <2>1. UNCHANGED <<heard, wireIn, sent, aciaIn>>
      BY <1>8 DEF Accepts, AcceptStops, ReceivesEnd, ReceiveStops, Sends, SendFails,
                  SendStops, Tops, Checks, Exits, Connects, Reads, HangsUp,
                  network, emulator, acia
    <2>. QED
      BY <1>1, <2>1
  <1>. QED
    BY <1>1, <1>3, <1>4, <1>5, <1>6, <1>7, <1>8 DEF ConsoleNext, LoopSteps, PollSteps

LEMMA InboundStep ==
  ASSUME ConsoleTypeOK, LoopInv, BacklogInv, WireInv, UntakenInv, InboundInv, ConsoleNext
  PROVE  InboundInv'
PROOF
  <1>0. /\ NoClient \notin Clients /\ client \in Clients \cup {NoClient}
        /\ wireIn \in [Clients -> Seq(Bytes)] /\ sent \in [Clients -> Nat]
        /\ heard \in [Clients -> Int]
        /\ input \in Seq(Bytes) /\ aciaIn \in Seq(Bytes)
        /\ Len(input) \in Nat /\ Len(aciaIn) \in Nat
        /\ \A c \in Clients : Len(wireIn[c]) \in Nat
    <2>1. /\ NoClient \notin Clients /\ client \in Clients \cup {NoClient}
          /\ wireIn \in [Clients -> Seq(Bytes)] /\ sent \in [Clients -> Nat]
          /\ heard \in [Clients -> Int]
          /\ input \in Seq(Bytes) /\ aciaIn \in Seq(Bytes)
      BY ConsoleAssumption DEF ConsoleTypeOK
    <2>2. \A q \in Seq(Bytes) : Len(q) \in Nat
      OBVIOUS
    <2>3. \A c \in Clients : wireIn[c] \in Seq(Bytes)
      BY <2>1
    <2>. QED
      BY <2>1, <2>2, <2>3
  <1>1. ASSUME NEW c \in Clients, Types(c) PROVE InboundInv'
    <2>1. UNCHANGED <<client, input, aciaIn, heard>>
      BY <1>1 DEF Types, emulator, acia
    <2>2. \A d \in Clients : sent'[d] - Len(wireIn'[d]) = sent[d] - Len(wireIn[d])
      <3>1. \A d \in Clients \ {c} : wireIn'[d] = wireIn[d] /\ sent'[d] = sent[d]
        BY <1>0, <1>1 DEF Types
      <3>2. wireIn'[c] = Append(wireIn[c], From(c, sent[c] + 1)) /\ sent'[c] = sent[c] + 1
        BY <1>0, <1>1 DEF Types
      <3>3. wireIn[c] \in Seq(Bytes) /\ sent[c] \in Nat
        BY <1>0
      <3>4. From(c, sent[c] + 1) \in Bytes
        BY <3>3 DEF From, Bytes
      <3>. DEFINE n == Len(wireIn[c])
                  m == sent[c]
      <3>5. Len(wireIn'[c]) = n + 1
        BY <3>2, <3>3, <3>4, AppendOf
      <3>6. sent'[c] - Len(wireIn'[c]) = (m + 1) - (n + 1)
        BY <3>2, <3>5
      <3>7. n \in Nat /\ m \in Nat
        BY <3>3
      <3>. HIDE DEF n, m
      <3>8. (m + 1) - (n + 1) = m - n
        BY <3>7
      <3>9. sent'[c] - Len(wireIn'[c]) = sent[c] - Len(wireIn[c])
        BY <3>6, <3>8 DEF n, m
      <3>. QED
        BY <3>1, <3>9
    <2>3. client # NoClient => Passed(client)' = Passed(client)
      BY <1>0, <2>1, <2>2 DEF Passed
    <2>. QED
      BY <2>1, <2>3 DEF InboundInv
  <1>2. CASE Accepts /\ client = NoClient
    <2>1. backlog \in Seq(Clients) /\ backlog # <<>> /\ DOMAIN backlog = 1 .. Len(backlog)
      BY <1>2 DEF Accepts, ConsoleTypeOK
    <2>2. PICK c \in Clients : c = Head(backlog) /\ c = backlog[1] /\ 1 \in DOMAIN backlog
      BY <2>1, TailOf
    <2>3. /\ client' = c /\ UNCHANGED <<input, aciaIn, wireIn, sent, heard>>
      BY <1>2, <2>2 DEF Accepts, TakesClient, acia
    <2>4. input = <<>>
      BY <1>2 DEF LoopInv
    <2>5. /\ heard[c] = 0 /\ Len(wireIn[c]) = sent[c]
          /\ \A i \in DOMAIN aciaIn : aciaIn[i].by # c
      BY <2>2 DEF UntakenInv, Untaken
    <2>6. aciaIn # <<>> => 1 \in DOMAIN aciaIn
      BY <1>0
    <2>7. Passed(client)' = 0
      <3>. DEFINE e == sent[c]
      <3>1. Passed(client)' = e - e - 0
        BY <2>3, <2>4, <2>5 DEF Passed
      <3>2. e \in Nat
        BY <1>0
      <3>. HIDE DEF e
      <3>3. e - e - 0 = 0
        BY <3>2
      <3>. QED
        BY <3>1, <3>3
    <2>8. DOMAIN input' = {}
      BY <2>3, <2>4
    <2>9. /\ heard'[client'] = 0
          /\ \A i \in DOMAIN aciaIn' : aciaIn'[i].by # client'
          /\ aciaIn' # <<>> => aciaIn'[1].by # client'
      BY <2>3, <2>5, <2>6
    <2>. QED
      BY <2>7, <2>8, <2>9 DEF InboundInv
  <1>3. CASE Receives
    <2>1. /\ client \in Clients /\ client # NoClient
          /\ UNCHANGED <<client, heard, aciaIn, sent>>
      BY <1>0, <1>3 DEF Receives, acia, LoopInv
    <2>2. PICK k \in 0 .. Len(wireIn[client]), w \in Seq(Bytes) : Received(k, w)
      BY <1>3, <2>1, ReceivesBytes
    <2>. DEFINE wire == wireIn[client]
                n == Len(wire)
                m == Len(input)
                s == sent[client]
    <2>3. n \in Nat /\ m \in Nat /\ s \in Nat /\ k \in 0 .. n /\ wire \in Seq(Bytes)
      BY <1>0, <2>1, <2>2
    <2>4. /\ wireIn'[client] = w /\ Len(w) = n - k
          /\ Len(input') = m + k /\ input' \in Seq(Bytes)
          /\ \A i \in 1 .. m : input'[i] = input[i]
          /\ \A i \in 1 .. k : input'[m + i] = wire[i]
      BY <1>0, <2>1, <2>2 DEF Received
    <2>5. Passed(client)' = s - (n - k) - (m + k) /\ Passed(client) = s - n - m
      BY <2>1, <2>4 DEF Passed
    <2>6. \A i \in 1 .. n : wire[i] = From(client, s - n + i)
      BY <2>1, <2>3 DEF WireInv
    <2>7. \A i \in 1 .. m : input[i] = From(client, s - n - m + i)
      <3>1. DOMAIN input = 1 .. m
        BY <1>0
      <3>2. \A i \in DOMAIN input : input[i] = From(client, Passed(client) + i)
        BY <2>1 DEF InboundInv
      <3>. QED
        BY <2>5, <3>1, <3>2
    <2>8. DOMAIN input' = 1 .. m + k
      BY <2>4
    <2>. HIDE DEF wire, n, m, s
    <2>9. s - (n - k) - (m + k) = s - n - m
      BY <2>3
    <2>10. ASSUME NEW i \in DOMAIN input' PROVE input'[i] = From(client, s - n - m + i)
      <3>1. CASE i \in 1 .. m
        BY <2>4, <2>7, <3>1
      <3>2. CASE i \notin 1 .. m
        <4>1. i - m \in 1 .. k /\ i - m \in 1 .. n /\ m + (i - m) = i
          BY <2>3, <2>8, <3>2
        <4>2. input'[i] = From(client, s - n + (i - m))
          BY <2>4, <2>6, <4>1
        <4>3. s - n + (i - m) = s - n - m + i
          BY <2>3, <2>8
        <4>. QED
          BY <4>2, <4>3
      <3>. QED
        BY <3>1, <3>2
    <2>11. Passed(client)' = Passed(client) /\ Passed(client) = s - n - m
      BY <2>5, <2>9
    <2>. QED
      BY <2>1, <2>10, <2>11 DEF InboundInv
  <1>4. CASE Moves
    <2>1. UNCHANGED <<client, heard, wireIn, sent>> /\ client # NoClient
      BY <1>4 DEF Moves, network, LoopInv
    <2>2. CASE AciaTakes
      <3>1. /\ aciaIn = <<>> /\ input # <<>>
            /\ aciaIn' = Append(aciaIn, Head(input)) /\ input' = Tail(input)
        BY <1>4, <2>2 DEF Moves, AciaTakes
      <3>. DEFINE m == Len(input)
                  e == sent[client] - Len(wireIn[client])
      <3>2. /\ Head(input) = input[1] /\ m >= 1 /\ m \in Nat
            /\ Len(input') = m - 1 /\ input' \in Seq(Bytes)
            /\ \A i \in 1 .. m - 1 : input'[i] = input[i + 1]
        BY <1>0, <3>1, TailOf
      <3>3. aciaIn' # <<>> /\ DOMAIN aciaIn' = {1} /\ aciaIn'[1] = input[1]
        BY <3>1, <3>2
      <3>4. e \in Int
        <4>1. sent[client] \in Nat /\ Len(wireIn[client]) \in Nat
          BY <1>0, <2>1
        <4>. QED
          BY <4>1
      <3>5. Passed(client) = e - m /\ Passed(client)' = e - (m - 1)
        BY <2>1, <3>2 DEF Passed
      <3>6. DOMAIN input' = 1 .. m - 1
        BY <3>2
      <3>7. \A i \in 1 .. m : input[i] = From(client, e - m + i)
        BY <1>0, <2>1, <3>5, SMTT(30) DEF InboundInv
      <3>8. heard[client] = e - m
        BY <2>1, <3>1, <3>5 DEF InboundInv
      <3>. HIDE DEF m, e
      <3>9. input[1] = From(client, e - (m - 1))
        <4>1. e - m + 1 = e - (m - 1) /\ 1 \in 1 .. m
          BY <3>2, <3>4
        <4>. QED
          BY <3>7, <4>1
      <3>10. ASSUME NEW i \in DOMAIN input' PROVE input'[i] = From(client, e - (m - 1) + i)
        <4>1. i \in 1 .. m - 1 /\ i + 1 \in 1 .. m /\ e - m + (i + 1) = e - (m - 1) + i
          BY <3>2, <3>4, <3>6
        <4>. QED
          BY <3>2, <3>7, <4>1
      <3>11. heard[client] = e - (m - 1) - 1
        BY <3>2, <3>4, <3>8
      <3>12. aciaIn'[1].by = client
        BY <3>3, <3>9 DEF From
      <3>. QED
        BY <2>1, <3>3, <3>5, <3>9, <3>10, <3>11, <3>12 DEF InboundInv
    <2>3. CASE ~AciaTakes
      <3>1. UNCHANGED <<aciaIn, input>>
        BY <1>4, <2>3 DEF Moves
      <3>. QED
        BY <2>1, <3>1 DEF InboundInv, Passed
    <2>. QED
      BY <2>2, <2>3
  <1>5. CASE CpuSteps /\ AciaRead
    <2>. DEFINE b == Head(aciaIn)
    <2>1. /\ UNCHANGED <<client, input, wireIn, sent>> /\ client # NoClient
          /\ aciaIn # <<>> /\ aciaIn' = Tail(aciaIn)
          /\ heard' = [heard EXCEPT ![b.by] = b.number]
      BY <1>5 DEF CpuSteps, AciaRead, network, LoopInv
    <2>2. b = aciaIn[1] /\ b \in Bytes /\ 1 \in DOMAIN aciaIn
      BY <1>0, <2>1, TailOf
    <2>3. Len(aciaIn) = 1
      <3>. DEFINE n == Len(aciaIn)
      <3>1. n >= 1 /\ n <= 1 /\ n \in Nat
        BY <1>0, <2>1, TailOf DEF LoopInv
      <3>. HIDE DEF n
      <3>2. n = 1
        BY <3>1
      <3>. QED
        BY <3>2 DEF n
    <2>4. aciaIn' = <<>>
      <3>1. aciaIn' \in Seq(Bytes) /\ Len(aciaIn') = 0
        BY <1>0, <2>1, <2>3, TailOf
      <3>. QED
        BY <3>1
    <2>. HIDE DEF b
    <2>5. heard'[client] = IF b.by = client THEN b.number ELSE heard[client]
      BY <1>0, <2>1
    <2>6. b.by = client => b = From(client, Passed(client))
      BY <2>1, <2>2 DEF InboundInv
    <2>7. b.by # client => heard[client] = Passed(client)
      BY <2>1, <2>2 DEF InboundInv
    <2>8. heard'[client] = Passed(client)
      BY <2>5, <2>6, <2>7 DEF From
    <2>9. Passed(client)' = Passed(client)
      BY <2>1 DEF Passed
    <2>10. DOMAIN aciaIn' = {}
      BY <2>4
    <2>. QED
      BY <2>1, <2>4, <2>8, <2>9, <2>10 DEF InboundInv
  <1>6. CASE CpuSteps /\ (AciaWrite \/ UNCHANGED acia)
    <2>1. UNCHANGED <<client, input, wireIn, sent, aciaIn, heard>>
      BY <1>6 DEF CpuSteps, AciaWrite, network, acia
    <2>. QED
      BY <2>1 DEF InboundInv, Passed
  <1>7. CASE ReceivesEnd \/ SendFails \/ (Exits /\ client # NoClient)
    <2>1. client' = NoClient
      BY <1>7 DEF ReceivesEnd, SendFails, Exits, Disconnect
    <2>. QED
      BY <2>1 DEF InboundInv
  <1>8. CASE \/ (Accepts /\ client # NoClient) \/ AcceptStops \/ ReceiveStops
             \/ Sends \/ SendStops \/ Tops \/ Checks \/ (Exits /\ client = NoClient)
             \/ \E d \in Clients : Connects(d) \/ Reads(d) \/ HangsUp(d)
    <2>1. UNCHANGED <<client, input, wireIn, sent, aciaIn, heard>>
      BY <1>8 DEF Accepts, TakesClient, AcceptStops, ReceiveStops, Sends, SendStops, Tops,
                  Checks, Exits, Connects, Reads, HangsUp, network, emulator, acia
    <2>. QED
      BY <2>1 DEF InboundInv, Passed
  <1>. QED
    BY <1>1, <1>2, <1>3, <1>4, <1>5, <1>6, <1>7, <1>8
    DEF ConsoleNext, LoopSteps, PollSteps, CpuSteps

\* Consecutive numbers stay consecutive when the next byte is written,
LEMMA NumberedAppend ==
  ASSUME NEW q \in Seq(Bytes), NEW last \in Int, NEW e \in Bytes,
         Numbered(q, last), e.number = last + 1
  PROVE  Numbered(Append(q, e), last + 1)
PROOF
  <1>. DEFINE n == Len(q)
              a == Append(q, e)
  <1>1. /\ Len(a) = n + 1 /\ a[n + 1] = e /\ DOMAIN a = 1 .. n + 1 /\ n \in Nat
        /\ \A i \in 1 .. n : a[i] = q[i]
    BY AppendOf
  <1>2. \A i \in 1 .. n : q[i].number = last - n + i
    BY DEF Numbered
  <1>. HIDE DEF n, a
  <1>3. ASSUME NEW i \in 1 .. n + 1 PROVE a[i].number = last + 1 - (n + 1) + i
    <2>1. CASE i = n + 1
      <3>1. last + 1 - (n + 1) + (n + 1) = last + 1
        BY <1>1
      <3>. QED
        BY <1>1, <2>1, <3>1
    <2>2. CASE i \in 1 .. n
      <3>1. last + 1 - (n + 1) + i = last - n + i
        BY <1>1, <2>2
      <3>2. a[i] = q[i]
        BY <1>1, <2>2
      <3>. QED
        BY <1>2, <2>2, <3>1, <3>2
    <2>3. i = n + 1 \/ i \in 1 .. n
      BY <1>1
    <2>. QED
      BY <2>1, <2>2, <2>3
  <1>4. Numbered(a, last + 1)
    BY <1>1, <1>3 DEF Numbered
  <1>. QED
    BY <1>4 DEF a

\* and when the first one is taken.
LEMMA NumberedTail ==
  ASSUME NEW q \in Seq(Bytes), NEW last \in Int, q # <<>>, Numbered(q, last)
  PROVE  /\ Head(q).number = last - Len(q) + 1
         /\ Numbered(Tail(q), last)
PROOF
  <1>. DEFINE n == Len(q)
              t == Tail(q)
  <1>1. /\ Head(q) = q[1] /\ n >= 1 /\ n \in Nat
        /\ Len(t) = n - 1 /\ DOMAIN t = 1 .. n - 1
        /\ \A i \in 1 .. n - 1 : t[i] = q[i + 1]
    BY TailOf
  <1>2. \A i \in 1 .. n : q[i].number = last - n + i
    BY DEF Numbered
  <1>. HIDE DEF n, t
  <1>3. ASSUME NEW i \in 1 .. n - 1 PROVE t[i].number = last - (n - 1) + i
    <2>1. i + 1 \in 1 .. n /\ last - n + (i + 1) = last - (n - 1) + i
      BY <1>1
    <2>. QED
      BY <1>1, <1>2, <2>1
  <1>4. Numbered(t, last)
    BY <1>1, <1>3 DEF Numbered
  <1>5. 1 \in 1 .. n
    BY <1>1
  <1>. QED
    BY <1>1, <1>2, <1>4, <1>5 DEF n, t

\* send() keeps them consecutive in both of its queues.
LEMMA NumberedSent ==
  ASSUME output \in Seq(Bytes), wireOut \in Seq(Bytes),
         NEW last \in Int, NEW k \in 0 .. Len(output), Sent(k),
         Numbered(output, last), Numbered(wireOut, last - Len(output))
  PROVE  Numbered(output', last) /\ Numbered(wireOut', last - Len(output'))
PROOF
  <1>. DEFINE n == Len(output)
              m == Len(wireOut)
  <1>1. /\ n \in Nat /\ m \in Nat /\ k \in 0 .. n
        /\ Len(output') = n - k /\ DOMAIN output' = 1 .. n - k
        /\ \A i \in 1 .. n - k : output'[i] = output[k + i]
        /\ Len(wireOut') = m + k /\ DOMAIN wireOut' = 1 .. m + k
        /\ \A i \in 1 .. m : wireOut'[i] = wireOut[i]
        /\ \A i \in 1 .. k : wireOut'[m + i] = output[i]
    BY DEF Sent
  <1>2. /\ \A i \in 1 .. n : output[i].number = last - n + i
        /\ \A i \in 1 .. m : wireOut[i].number = last - n - m + i
    BY DEF Numbered
  <1>. HIDE DEF n, m
  <1>3. ASSUME NEW i \in 1 .. n - k PROVE output'[i].number = last - (n - k) + i
    <2>1. k + i \in 1 .. n /\ last - n + (k + i) = last - (n - k) + i
      BY <1>1
    <2>. QED
      BY <1>1, <1>2, <2>1
  <1>4. ASSUME NEW i \in 1 .. m + k
        PROVE  wireOut'[i].number = last - (n - k) - (m + k) + i
    <2>1. CASE i \in 1 .. m
      <3>1. last - n - m + i = last - (n - k) - (m + k) + i
        BY <1>1
      <3>. QED
        BY <1>1, <1>2, <2>1, <3>1
    <2>2. CASE i \notin 1 .. m
      <3>1. /\ i - m \in 1 .. k /\ i - m \in 1 .. n /\ m + (i - m) = i
            /\ last - n + (i - m) = last - (n - k) - (m + k) + i
        BY <1>1, <2>2
      <3>2. wireOut'[i] = output[i - m]
        BY <1>1, <3>1
      <3>. QED
        BY <1>2, <3>1, <3>2
    <2>. QED
      BY <2>1, <2>2
  <1>. QED
    BY <1>1, <1>3, <1>4 DEF Numbered

LEMMA OutboundStep ==
  ASSUME ConsoleTypeOK, LoopInv, OutboundInv, ConsoleNext
  PROVE  OutboundInv'
PROOF
  <1>. DEFINE a == written - Len(aciaOut)
              o == a - Len(output)
              w == o - Len(wireOut)
  <1>0. /\ NoClient \notin Clients /\ client \in Clients \cup {NoClient}
        /\ output \in Seq(Bytes) /\ wireOut \in Seq(Bytes)
        /\ shown \in Seq(Bytes) /\ aciaOut \in Seq(Bytes) /\ written \in Nat
    BY ConsoleAssumption DEF ConsoleTypeOK
  <1>00. /\ Len(output) \in Nat /\ Len(wireOut) \in Nat /\ Len(shown) \in Nat
         /\ Len(aciaOut) \in Nat
    BY <1>0
  <1>000. a \in Int /\ o \in Int /\ w \in Int
    BY <1>0, <1>00
  <1>1. ASSUME NEW c \in Clients, Reads(c) PROVE OutboundInv'
    <2>. DEFINE b == Head(wireOut)
                n == Len(wireOut)
    <2>1. /\ client = c /\ wireOut # <<>> /\ wireOut' = Tail(wireOut)
          /\ shown' = Append(shown, b) /\ UNCHANGED <<client, output, aciaOut, written>>
      BY <1>1 DEF Reads, emulator, acia
    <2>2. client # NoClient
      BY <1>0, <2>1
    <2>3. /\ b = wireOut[1] /\ b \in Bytes /\ n >= 1 /\ n \in Nat
          /\ wireOut' \in Seq(Bytes) /\ Len(wireOut') = n - 1
          /\ \A i \in 1 .. n - 1 : wireOut'[i] = wireOut[i + 1]
      BY <1>0, <2>1, TailOf
    <2>4. Numbered(aciaOut, written) /\ Numbered(output, a)
      BY <2>2 DEF OutboundInv
    <2>5. b.number = o - n + 1 /\ Numbered(wireOut', o)
      BY <1>0, <1>000, <2>1, <2>2, NumberedTail DEF OutboundInv
    <2>6. Numbered(shown, w)
      BY <2>2 DEF OutboundInv
    <2>7. Numbered(shown', w + 1)
      <3>1. b.number = w + 1
        BY <2>5
      <3>2. Numbered(Append(shown, b), w + 1)
        BY <1>0, <1>000, <2>3, <2>6, <3>1, NumberedAppend
      <3>. QED
        BY <2>1, <3>2
    <2>8. w + 1 = o - Len(wireOut')
      <3>1. w = o - n
        OBVIOUS
      <3>. HIDE DEF o, w, n
      <3>2. o - (n - 1) = w + 1
        BY <1>000, <2>3, <3>1
      <3>. QED
        BY <2>3, <3>2
    <2>9. WrittenFor(wireOut', client, FALSE)
      <3>1. DOMAIN wireOut' = 1 .. n - 1
        BY <2>3
      <3>2. ASSUME NEW i \in 1 .. n - 1 PROVE wireOut'[i].by = client
        <4>1. i + 1 \in DOMAIN wireOut /\ i + 1 # 1
          BY <1>0, <2>3
        <4>2. wireOut[i + 1].by = client
          BY <2>2, <4>1 DEF OutboundInv, WrittenFor
        <4>. QED
          BY <2>3, <4>2
      <3>. QED
        BY <3>1, <3>2 DEF WrittenFor
    <2>10. WrittenFor(aciaOut, client, FALSE) /\ WrittenFor(output, client, FALSE)
      BY <2>1, <2>2 DEF OutboundInv, WrittenFor
    <2>11. WrittenFor(shown', client, TRUE)
      <3>. DEFINE m == Len(shown)
      <3>1. /\ DOMAIN shown' = 1 .. m + 1 /\ shown'[m + 1] = b /\ m \in Nat
            /\ \A i \in 1 .. m : shown'[i] = shown[i]
        BY <1>0, <2>1, <2>3, AppendOf
      <3>2. \A i \in 1 .. m : shown[i].by = client \/ i = 1
        BY <1>0, <2>2 DEF OutboundInv, WrittenFor
      <3>3. b.by = client \/ m + 1 = 1
        <4>1. 1 \in DOMAIN wireOut
          BY <1>0, <2>3
        <4>2. wireOut[1].by = client \/ shown = <<>>
          BY <2>2, <4>1 DEF OutboundInv, WrittenFor
        <4>3. shown = <<>> => m + 1 = 1
          OBVIOUS
        <4>. QED
          BY <2>3, <4>2, <4>3
      <3>. HIDE DEF m
      <3>4. ASSUME NEW i \in 1 .. m + 1 PROVE shown'[i].by = client \/ i = 1
        <4>1. i = m + 1 \/ i \in 1 .. m
          BY <3>1
        <4>. QED
          BY <3>1, <3>2, <3>3, <4>1
      <3>. QED
        BY <3>1, <3>4 DEF WrittenFor
    <2>. QED
      BY <2>1, <2>4, <2>5, <2>7, <2>8, <2>9, <2>10, <2>11 DEF OutboundInv, WrittenFor
  <1>2. CASE Accepts /\ client = NoClient
    <2>1. output = <<>>
      BY <1>2 DEF LoopInv
    <2>2. /\ wireOut' = <<>> /\ shown' = <<>> /\ UNCHANGED <<output, aciaOut, written>>
      BY <1>2 DEF Accepts, TakesClient, acia
    <2>3. \A q, last : q = <<>> => Numbered(q, last)
      BY DEF Numbered
    <2>4. \A q, c, first : q = <<>> => WrittenFor(q, c, first)
      BY DEF WrittenFor
    <2>5. /\ Numbered(aciaOut', written') /\ Numbered(output', written' - Len(aciaOut'))
          /\ Numbered(wireOut', written' - Len(aciaOut') - Len(output'))
          /\ Numbered(shown', written' - Len(aciaOut') - Len(output') - Len(wireOut'))
      BY <2>1, <2>2, <2>3 DEF OutboundInv
    <2>6. WrittenFor(aciaOut', client', output' = <<>> /\ wireOut' = <<>> /\ shown' = <<>>)
      <3>1. DOMAIN aciaOut' \subseteq {1}
        <4>1. Len(aciaOut) \in {0, 1}
          <5>. DEFINE n == Len(aciaOut)
          <5>1. n \in Nat /\ n <= 1
            BY <1>00 DEF LoopInv
          <5>. HIDE DEF n
          <5>2. n \in {0, 1}
            BY <5>1
          <5>. QED
            BY <5>2 DEF n
        <4>. QED
          BY <1>0, <2>2, <4>1
      <3>. QED
        BY <2>1, <2>2, <3>1 DEF WrittenFor
    <2>7. /\ WrittenFor(output', client', wireOut' = <<>> /\ shown' = <<>>)
          /\ WrittenFor(wireOut', client', shown' = <<>>)
          /\ WrittenFor(shown', client', TRUE)
      BY <2>1, <2>2, <2>4
    <2>. QED
      BY <2>5, <2>6, <2>7 DEF OutboundInv
  <1>3. CASE Sends
    <2>1. client # NoClient /\ UNCHANGED <<client, aciaOut, written, shown>>
      BY <1>3 DEF Sends, acia, LoopInv
    <2>2. PICK k \in 0 .. Len(output) : Sent(k)
      BY <1>3, SendsBytes
    <2>3. Numbered(aciaOut, written) /\ Numbered(output, a) /\ Numbered(wireOut, o)
      BY <2>1 DEF OutboundInv
    <2>4. Numbered(output', a) /\ Numbered(wireOut', a - Len(output'))
      BY <1>0, <1>000, <2>2, <2>3, NumberedSent
    <2>5. Numbered(shown, w) /\ w = a - Len(output') - Len(wireOut')
      <3>1. Numbered(shown, w)
        BY <2>1 DEF OutboundInv
      <3>. DEFINE n == Len(output)
                  m == Len(wireOut)
      <3>2. /\ Len(output') = n - k /\ Len(wireOut') = m + k /\ w = a - n - m
            /\ n \in Nat /\ m \in Nat /\ k \in 0 .. n
        BY <1>00, <2>2 DEF Sent
      <3>. HIDE DEF n, m, a, w
      <3>3. a - (n - k) - (m + k) = a - n - m
        BY <1>000, <3>2
      <3>. QED
        BY <3>1, <3>2, <3>3
    <2>. DEFINE n == Len(output)
                m == Len(wireOut)
    <2>6. /\ n \in Nat /\ m \in Nat /\ k \in 0 .. n
          /\ DOMAIN output = 1 .. n /\ DOMAIN wireOut = 1 .. m
          /\ DOMAIN output' = 1 .. n - k /\ DOMAIN wireOut' = 1 .. m + k
          /\ Len(output') = n - k /\ Len(wireOut') = m + k
          /\ \A i \in 1 .. n - k : output'[i] = output[k + i]
          /\ \A i \in 1 .. m : wireOut'[i] = wireOut[i]
          /\ \A i \in 1 .. k : wireOut'[m + i] = output[i]
      BY <1>0, <2>2 DEF Sent
    <2>7. /\ output = <<>> <=> n = 0
          /\ wireOut = <<>> <=> m = 0
          /\ output' = <<>> <=> n - k = 0
          /\ wireOut' = <<>> <=> m + k = 0
      <3>1. \A q \in Seq(Bytes) : q = <<>> <=> Len(q) = 0
        OBVIOUS
      <3>2. output' \in Seq(Bytes) /\ wireOut' \in Seq(Bytes)
        BY <2>2 DEF Sent
      <3>. QED
        BY <1>0, <2>6, <3>1, <3>2
    <2>8. /\ \A i \in 1 .. n : output[i].by = client \/ (i = 1 /\ m = 0 /\ shown = <<>>)
          /\ \A i \in 1 .. m : wireOut[i].by = client \/ (i = 1 /\ shown = <<>>)
          /\ \A i \in DOMAIN aciaOut :
               aciaOut[i].by = client \/ (i = 1 /\ n = 0 /\ m = 0 /\ shown = <<>>)
          /\ \A i \in DOMAIN shown : shown[i].by = client \/ i = 1
      BY <2>1, <2>6, <2>7 DEF OutboundInv, WrittenFor
    <2>. HIDE DEF n, m
    <2>9. ASSUME NEW i \in 1 .. n - k
          PROVE  output'[i].by = client \/ (i = 1 /\ m + k = 0 /\ shown = <<>>)
      <3>1. k + i \in 1 .. n /\ (k + i = 1 => i = 1 /\ k = 0)
        BY <2>6
      <3>. QED
        BY <2>6, <2>8, <3>1
    <2>10. ASSUME NEW i \in 1 .. m + k
           PROVE  wireOut'[i].by = client \/ (i = 1 /\ shown = <<>>)
      <3>1. CASE i \in 1 .. m
        BY <2>6, <2>8, <3>1
      <3>2. CASE i \notin 1 .. m
        <4>1. /\ i - m \in 1 .. k /\ i - m \in 1 .. n /\ m + (i - m) = i
              /\ (i - m = 1 /\ m = 0 => i = 1)
          BY <2>6, <3>2
        <4>2. wireOut'[i] = output[i - m]
          BY <2>6, <4>1
        <4>. QED
          BY <2>8, <4>1, <4>2
      <3>. QED
        BY <3>1, <3>2
    <2>11. n = 0 /\ m = 0 => n - k = 0 /\ m + k = 0
      <3>1. SUFFICES ASSUME n = 0, m = 0 PROVE n - k = 0 /\ m + k = 0
        OBVIOUS
      <3>2. k = 0
        <4>1. k \in 0 .. n
          BY <2>6
        <4>. QED
          BY <3>1, <4>1
      <3>. QED
        BY <3>1, <3>2
    <2>12. /\ WrittenFor(aciaOut', client', output' = <<>> /\ wireOut' = <<>> /\ shown' = <<>>)
           /\ WrittenFor(shown', client', TRUE)
      BY <2>1, <2>7, <2>8, <2>11 DEF WrittenFor
    <2>13. WrittenFor(output', client', wireOut' = <<>> /\ shown' = <<>>)
      BY <2>1, <2>6, <2>7, <2>9 DEF WrittenFor
    <2>14. WrittenFor(wireOut', client', shown' = <<>>)
      BY <2>1, <2>6, <2>10 DEF WrittenFor
    <2>15. /\ Numbered(aciaOut', written') /\ Numbered(output', written' - Len(aciaOut'))
           /\ Numbered(wireOut', written' - Len(aciaOut') - Len(output'))
           /\ Numbered(shown', written' - Len(aciaOut') - Len(output') - Len(wireOut'))
      BY <2>1, <2>3, <2>4, <2>5
    <2>. QED
      BY <2>12, <2>13, <2>14, <2>15 DEF OutboundInv
  <1>4. CASE Moves /\ aciaOut # <<>>
    <2>. DEFINE b == Head(aciaOut)
    <2>1. /\ client # NoClient /\ UNCHANGED <<client, written, wireOut, shown>>
          /\ output' = Append(output, b) /\ aciaOut' = Tail(aciaOut)
      BY <1>4 DEF Moves, network, LoopInv
    <2>2. b = aciaOut[1] /\ b \in Bytes /\ Len(aciaOut) = 1 /\ aciaOut' = <<>>
      <3>. DEFINE n == Len(aciaOut)
      <3>1. n >= 1 /\ n <= 1 /\ n \in Nat
        BY <1>0, <1>4, TailOf DEF LoopInv
      <3>. HIDE DEF n
      <3>2. n = 1
        BY <3>1
      <3>3. Len(aciaOut) = 1
        BY <3>2 DEF n
      <3>4. aciaOut' \in Seq(Bytes) /\ Len(aciaOut') = 0
        BY <1>0, <1>4, <2>1, <3>3, TailOf
      <3>5. aciaOut' = <<>>
        BY <3>4
      <3>. QED
        BY <1>0, <1>4, <3>3, <3>5, TailOf
    <2>3. b.number = a + 1 /\ a + 1 = written
      <3>1. Numbered(aciaOut, written) /\ written \in Int
        BY <1>0 DEF OutboundInv
      <3>2. b.number = written - Len(aciaOut) + 1
        BY <1>0, <1>4, <3>1, NumberedTail
      <3>3. a = written - 1
        BY <2>2
      <3>. QED
        BY <1>0, <2>2, <3>2, <3>3
    <2>4. Numbered(output', written)
      <3>1. Numbered(output, a)
        BY <2>1 DEF OutboundInv
      <3>2. Numbered(Append(output, b), a + 1)
        BY <1>0, <1>000, <2>2, <2>3, <3>1, NumberedAppend
      <3>. QED
        BY <2>1, <2>3, <3>2
    <2>5. written - Len(output') = o
      <3>. DEFINE n == Len(output)
      <3>1. Len(output') = n + 1 /\ o = a - n /\ n \in Nat
        BY <1>0, <1>00, <2>1, <2>2, AppendOf
      <3>. HIDE DEF n, a, o
      <3>2. a + 1 - (n + 1) = a - n
        BY <1>000, <3>1
      <3>3. written = a + 1 /\ Len(output') = n + 1
        BY <2>3, <3>1
      <3>4. written - Len(output') = a + 1 - (n + 1)
        BY <1>0, <1>000, <3>1, <3>3
      <3>. QED
        BY <3>1, <3>2, <3>4, Zenon
    <2>6. /\ Numbered(wireOut, o) /\ Numbered(shown, w)
      BY <2>1 DEF OutboundInv
    <2>7. /\ Len(aciaOut') = 0 /\ written - 0 = written
      BY <1>0, <2>2
    <2>8. /\ Numbered(aciaOut', written') /\ Numbered(output', written' - Len(aciaOut'))
          /\ Numbered(wireOut', written' - Len(aciaOut') - Len(output'))
          /\ Numbered(shown', written' - Len(aciaOut') - Len(output') - Len(wireOut'))
      <3>1. Numbered(aciaOut', written')
        BY <2>2 DEF Numbered
      <3>2. /\ written' - Len(aciaOut') = written
            /\ written - Len(output') = o /\ o - Len(wireOut') = w
        BY <2>1, <2>5, <2>7
      <3>. HIDE DEF o, w
      <3>. QED
        BY <2>1, <2>4, <2>6, <3>1, <3>2
    <2>9. WrittenFor(output', client', wireOut' = <<>> /\ shown' = <<>>)
      <3>. DEFINE m == Len(output)
      <3>1. /\ DOMAIN output' = 1 .. m + 1 /\ output'[m + 1] = b /\ m \in Nat
            /\ \A i \in 1 .. m : output'[i] = output[i]
        BY <1>0, <2>1, <2>2, AppendOf
      <3>2. \A i \in 1 .. m : output[i].by = client \/ (i = 1 /\ wireOut = <<>> /\ shown = <<>>)
        BY <1>0, <2>1, SMTT(30) DEF OutboundInv, WrittenFor
      <3>3. b.by = client \/ (m + 1 = 1 /\ wireOut = <<>> /\ shown = <<>>)
        <4>1. 1 \in DOMAIN aciaOut
          BY <1>0, <2>2
        <4>2. b.by = client \/ (output = <<>> /\ wireOut = <<>> /\ shown = <<>>)
          BY <2>1, <2>2, <4>1 DEF OutboundInv, WrittenFor
        <4>3. output = <<>> => m + 1 = 1
          OBVIOUS
        <4>. QED
          BY <4>2, <4>3
      <3>. HIDE DEF m
      <3>4. ASSUME NEW i \in 1 .. m + 1
            PROVE  output'[i].by = client \/ (i = 1 /\ wireOut = <<>> /\ shown = <<>>)
        <4>1. i = m + 1 \/ i \in 1 .. m
          BY <3>1
        <4>. QED
          BY <3>1, <3>2, <3>3, <4>1
      <3>. QED
        BY <2>1, <3>1, <3>4 DEF WrittenFor
    <2>10. /\ WrittenFor(wireOut', client', shown' = <<>>)
           /\ WrittenFor(shown', client', TRUE)
      BY <2>1 DEF OutboundInv
    <2>11. WrittenFor(aciaOut', client', output' = <<>> /\ wireOut' = <<>> /\ shown' = <<>>)
      BY <2>2 DEF WrittenFor
    <2>. QED
      BY <2>8, <2>9, <2>10, <2>11 DEF OutboundInv
  <1>5. CASE CpuSteps /\ AciaWrite
    <2>. DEFINE b == From(client, written + 1)
    <2>1. /\ client # NoClient /\ UNCHANGED <<client, output, wireOut, shown>>
          /\ aciaOut = <<>> /\ aciaOut' = Append(aciaOut, b) /\ written' = written + 1
      BY <1>5 DEF CpuSteps, AciaWrite, network, LoopInv
    <2>2. b \in Bytes /\ b.by = client /\ b.number = written + 1
      BY <1>0, <2>1 DEF From, Bytes
    <2>3. Numbered(aciaOut', written')
      <3>1. written \in Int /\ Numbered(aciaOut, written)
        BY <1>0 DEF OutboundInv
      <3>. HIDE DEF b
      <3>2. Numbered(Append(aciaOut, b), written + 1)
        BY <1>0, <2>2, <3>1, NumberedAppend
      <3>. QED
        BY <2>1, <3>2
    <2>4. DOMAIN aciaOut' = {1} /\ aciaOut'[1] = b /\ Len(aciaOut') = 1
      <3>. HIDE DEF b
      <3>. QED
        BY <2>1
    <2>5. written' - Len(aciaOut') = a
      <3>1. written + 1 - 1 = written - 0
        BY <1>0
      <3>2. Len(aciaOut) = 0
        BY <2>1
      <3>3. written' - Len(aciaOut') = written + 1 - 1
        <4>1. written' = written + 1 /\ Len(aciaOut') = 1
          BY <2>1, <2>4
        <4>2. written' \in Nat /\ Len(aciaOut') \in Nat
          BY <1>0, <4>1
        <4>. QED
          BY <1>0, <4>1, <4>2
      <3>4. a = written - 0
        BY <3>2, Zenon
      <3>. QED
        BY <3>1, <3>3, <3>4, Zenon
    <2>6. /\ Numbered(output', written' - Len(aciaOut'))
          /\ Numbered(wireOut', written' - Len(aciaOut') - Len(output'))
          /\ Numbered(shown', written' - Len(aciaOut') - Len(output') - Len(wireOut'))
      BY <2>1, <2>5 DEF OutboundInv
    <2>7. WrittenFor(aciaOut', client', output' = <<>> /\ wireOut' = <<>> /\ shown' = <<>>)
      BY <2>1, <2>2, <2>4 DEF WrittenFor
    <2>8. /\ WrittenFor(output', client', wireOut' = <<>> /\ shown' = <<>>)
          /\ WrittenFor(wireOut', client', shown' = <<>>)
          /\ WrittenFor(shown', client', TRUE)
      BY <2>1 DEF OutboundInv
    <2>. QED
      BY <2>3, <2>6, <2>7, <2>8 DEF OutboundInv
  <1>6. CASE ReceivesEnd \/ SendFails \/ (Exits /\ client # NoClient)
    <2>1. client' = NoClient /\ UNCHANGED <<aciaOut, written>>
      BY <1>6 DEF ReceivesEnd, SendFails, Exits, Disconnect, acia
    <2>. QED
      BY <2>1 DEF OutboundInv
  <1>7. CASE \/ (Accepts /\ client # NoClient) \/ AcceptStops \/ Receives \/ ReceiveStops
             \/ SendStops \/ Tops \/ Checks \/ (Exits /\ client = NoClient)
             \/ (Moves /\ aciaOut = <<>>) \/ (CpuSteps /\ (AciaRead \/ UNCHANGED acia))
             \/ \E d \in Clients : Connects(d) \/ Types(d) \/ HangsUp(d)
    <2>1. UNCHANGED <<client, output, wireOut, shown, aciaOut, written>>
      BY <1>7 DEF Accepts, TakesClient, AcceptStops, Receives, ReceiveStops, SendStops,
                  Tops, Checks, Exits, Moves, CpuSteps, AciaRead, Connects, Types, HangsUp,
                  network, emulator, acia
    <2>. QED
      BY <2>1 DEF OutboundInv
  <1>. QED
    BY <1>1, <1>2, <1>3, <1>4, <1>5, <1>6, <1>7
    DEF ConsoleNext, LoopSteps, PollSteps, CpuSteps

LEMMA ConsoleInvStep == ConsoleInv /\ [ConsoleNext]_consoleVars => ConsoleInv'
PROOF
  <1>1. ASSUME ConsoleInv, ConsoleNext PROVE ConsoleInv'
    BY <1>1, TypeStep, LoopStep, BacklogStep, WireStep, UntakenStep, InboundStep,
       OutboundStep DEF ConsoleInv
  <1>2. ASSUME ConsoleInv, UNCHANGED consoleVars PROVE ConsoleInv'
    <2>1. UNCHANGED <<loop, peer, backlog, client, wireIn, wireOut, input, output,
                      aciaIn, aciaOut, sent, written, heard, shown>>
      BY <1>2 DEF consoleVars, network, emulator, acia
    <2>2. ConsoleTypeOK' /\ LoopInv' /\ BacklogInv' /\ WireInv'
      BY <1>2, <2>1 DEF ConsoleInv, ConsoleTypeOK, LoopInv, BacklogInv, WireInv
    <2>3. UntakenInv' /\ InboundInv' /\ OutboundInv'
      BY <1>2, <2>1 DEF ConsoleInv, UntakenInv, Untaken, InboundInv, Passed, OutboundInv
    <2>. QED
      BY <2>2, <2>3 DEF ConsoleInv
  <1>. QED
    BY <1>1, <1>2

THEOREM ConsoleInvHolds == ConsoleSpec => []ConsoleInv
PROOF
  BY ConsoleInvInit, ConsoleInvStep, PTL DEF ConsoleSpec

-----------------------------------------------------------------------------
(* What the console promises.                                              *)

\* Whoever else connects, a client that stays keeps the console until the
\* emulator exits, and nobody is hung up on while it is free.
THEOREM ClientIsKept == ConsoleSpec => LiveClientIsKept
PROOF
  <1>. DEFINE Keeps ==
         loop' # "exited" =>
           /\ client # NoClient /\ peer[client] = "up" => client' = client
           /\ \A c \in Clients :
                peer[c] = "up" /\ peer'[c] = "refused" => client \notin {c, NoClient}
  <1>1. ConsoleInv /\ [ConsoleNext]_consoleVars => [Keeps]_consoleVars
    <2>. SUFFICES ASSUME ConsoleInv, ConsoleNext, loop' # "exited"
                  PROVE  /\ client # NoClient /\ peer[client] = "up" => client' = client
                         /\ \A c \in Clients :
                              peer[c] = "up" /\ peer'[c] = "refused"
                                => client \notin {c, NoClient}
      OBVIOUS
    <2>0. /\ peer \in [Clients -> {"new", "up", "gone", "refused"}]
          /\ backlog \in Seq(Clients) /\ BacklogInv
          /\ client \in Clients \cup {NoClient} /\ NoClient \notin Clients
          /\ loop \in {"receive", "send"} => client # NoClient
      BY ConsoleAssumption DEF ConsoleInv, ConsoleTypeOK, LoopInv
    <2>1. ASSUME NEW d \in Clients, Connects(d) \/ HangsUp(d)
          PROVE  UNCHANGED client /\ \A c \in Clients : ~(peer[c] = "up" /\ peer'[c] = "refused")
      BY <2>0, <2>1 DEF Connects, HangsUp, emulator
    <2>2. CASE Accepts
      <3>1. /\ Head(backlog) = backlog[1] /\ 1 \in DOMAIN backlog
        BY <2>0, <2>2, TailOf DEF Accepts
      <3>2. Head(backlog) # client
        BY <2>0, <3>1 DEF BacklogInv
      <3>3. CASE client = NoClient
        BY <2>0, <2>2, <3>3 DEF Accepts, TakesClient
      <3>4. CASE client # NoClient
        BY <2>0, <2>2, <3>2, <3>4 DEF Accepts, TakesClient
      <3>. QED
        BY <3>3, <3>4
    <2>3. CASE ReceivesEnd \/ SendFails
      <3>1. Disconnect /\ peer[client] = "gone" /\ client \in Clients
        BY <2>0, <2>3 DEF ReceivesEnd, SendFails
      <3>. QED
        BY <2>0, <3>1 DEF Disconnect
    <2>4. CASE \/ AcceptStops \/ Receives \/ ReceiveStops \/ Sends \/ SendStops
               \/ Tops \/ Checks \/ Moves \/ CpuSteps
               \/ \E d \in Clients : Types(d) \/ Reads(d)
      <3>1. UNCHANGED <<client, peer>>
        BY <2>4 DEF AcceptStops, Receives, ReceiveStops, Sends, SendStops, Tops, Checks,
                    Moves, CpuSteps, Types, Reads, network, emulator
      <3>. QED
        BY <3>1
    <2>5. ~Exits
      BY DEF Exits
    <2>. QED
      BY <2>1, <2>2, <2>3, <2>4, <2>5 DEF ConsoleNext, LoopSteps, PollSteps
  <1>. QED
    BY <1>1, ConsoleInvHolds, PTL DEF ConsoleSpec, LiveClientIsKept

\* run() pauses the machine in time: write() never meets a full output queue,
\* so it never throws and never ends the run.
THEOREM ConsoleNeverOverflows ==
  ConsoleSpec => [][loop = "move" => loop' # "exited"]_consoleVars
PROOF
  <1>1. ConsoleInv /\ [ConsoleNext]_consoleVars
          => [loop = "move" => loop' # "exited"]_consoleVars
    <2>. SUFFICES ASSUME ConsoleInv, ConsoleNext, loop = "move" PROVE loop' # "exited"
      OBVIOUS
    <2>1. Len(output) < BufferLimit
      BY DEF ConsoleInv, LoopInv
    <2>2. CASE Moves
      BY <2>1, <2>2 DEF Moves
    <2>3. CASE ~Moves
      BY <2>3 DEF ConsoleNext, LoopSteps, PollSteps, Connects, Types, Reads, HangsUp,
                  Accepts, AcceptStops, Receives, ReceivesEnd, ReceiveStops, Sends,
                  SendFails, SendStops, Tops, Checks, CpuSteps, Exits, emulator
    <2>. QED
      BY <2>2, <2>3
  <1>. QED
    BY <1>1, ConsoleInvHolds, PTL DEF ConsoleSpec

\* Two queues with consecutive numbers, one behind the other.
LEMMA NumberedJoined ==
  ASSUME NEW p \in Seq(Bytes), NEW q \in Seq(Bytes), NEW last \in Int,
         Numbered(q, last), Numbered(p, last - Len(q))
  PROVE  Numbered(p \o q, last)
PROOF
  <1>. DEFINE n == Len(q)
              m == Len(p)
              r == p \o q
  <1>1. /\ n \in Nat /\ m \in Nat /\ Len(r) = m + n /\ DOMAIN r = 1 .. m + n
        /\ \A i \in 1 .. m : r[i] = p[i]
        /\ \A i \in 1 .. n : r[m + i] = q[i]
    BY JoinedOf
  <1>2. /\ \A i \in 1 .. n : q[i].number = last - n + i
        /\ \A i \in 1 .. m : p[i].number = last - n - m + i
    BY DEF Numbered
  <1>. HIDE DEF n, m, r
  <1>3. ASSUME NEW i \in 1 .. m + n PROVE r[i].number = last - (m + n) + i
    <2>1. CASE i \in 1 .. m
      <3>1. last - n - m + i = last - (m + n) + i
        BY <1>1
      <3>. QED
        BY <1>1, <1>2, <2>1, <3>1
    <2>2. CASE i \notin 1 .. m
      <3>1. /\ i - m \in 1 .. n /\ m + (i - m) = i
            /\ last - n + (i - m) = last - (m + n) + i
        BY <1>1, <2>2
      <3>2. r[i] = q[i - m]
        BY <1>1, <3>1
      <3>. QED
        BY <1>2, <3>1, <3>2
    <2>. QED
      BY <2>1, <2>2
  <1>4. Numbered(r, last)
    BY <1>1, <1>3 DEF Numbered
  <1>. QED
    BY <1>4 DEF r

\* Two queues written for a client, one behind the other.
LEMMA WrittenForJoined ==
  ASSUME NEW p \in Seq(Bytes), NEW q \in Seq(Bytes), NEW c \in Clients,
         WrittenFor(p, c, TRUE), WrittenFor(q, c, p = <<>>)
  PROVE  WrittenFor(p \o q, c, TRUE)
PROOF
  <1>. DEFINE n == Len(q)
              m == Len(p)
              r == p \o q
  <1>1. /\ n \in Nat /\ m \in Nat /\ DOMAIN r = 1 .. m + n
        /\ \A i \in 1 .. m : r[i] = p[i]
        /\ \A i \in 1 .. n : r[m + i] = q[i]
    BY JoinedOf
  <1>2. p = <<>> => m = 0
    OBVIOUS
  <1>3. /\ \A i \in 1 .. n : q[i].by = c \/ (i = 1 /\ m = 0)
        /\ \A i \in 1 .. m : p[i].by = c \/ i = 1
    BY <1>2 DEF WrittenFor
  <1>. HIDE DEF n, m, r
  <1>4. ASSUME NEW i \in 1 .. m + n PROVE r[i].by = c \/ i = 1
    <2>1. CASE i \in 1 .. m
      BY <1>1, <1>3, <2>1
    <2>2. CASE i \notin 1 .. m
      <3>1. i - m \in 1 .. n /\ m + (i - m) = i /\ (i - m = 1 /\ m = 0 => i = 1)
        BY <1>1, <2>2
      <3>2. r[i] = q[i - m]
        BY <1>1, <3>1
      <3>. QED
        BY <1>3, <3>1, <3>2
    <2>. QED
      BY <2>1, <2>2
  <1>5. WrittenFor(r, c, TRUE)
    BY <1>1, <1>4 DEF WrittenFor
  <1>. QED
    BY <1>5 DEF r

\* Everything the CPU writes reaches the client connected, in its order, and
\* one byte at most that was written for the client before it.
THEOREM OutboundCorrect == ConsoleSpec => []OutboundIsExact
PROOF
  <1>1. ConsoleInv => OutboundIsExact
    <2>. DEFINE first == shown \o wireOut
                second == first \o output
                stream == second \o aciaOut
    <2>1. SUFFICES ASSUME ConsoleInv, client # NoClient
                   PROVE  /\ Numbers(stream) = Interval(written - Len(stream) + 1, written)
                          /\ \A i \in 2 .. Len(stream) : stream[i].by = client
      BY DEF OutboundIsExact
    <2>2. /\ shown \in Seq(Bytes) /\ wireOut \in Seq(Bytes) /\ output \in Seq(Bytes)
          /\ aciaOut \in Seq(Bytes) /\ written \in Int /\ client \in Clients
      BY <2>1 DEF ConsoleInv, ConsoleTypeOK
    <2>3. /\ Len(shown) \in Nat /\ Len(wireOut) \in Nat /\ Len(output) \in Nat
          /\ Len(aciaOut) \in Nat
      BY <2>2
    <2>4. OutboundInv
      BY <2>1 DEF ConsoleInv
    <2>5. first \in Seq(Bytes) /\ second \in Seq(Bytes) /\ stream \in Seq(Bytes)
      BY <2>2, JoinedOf
    <2>6. /\ first = <<>> => wireOut = <<>> /\ shown = <<>>
          /\ wireOut = <<>> /\ shown = <<>> => first = <<>>
          /\ output = <<>> /\ wireOut = <<>> /\ shown = <<>> => second = <<>>
      BY <2>2
    <2>7. Numbered(first, written - Len(aciaOut) - Len(output))
      <3>1. written - Len(aciaOut) - Len(output) \in Int
        BY <2>2, <2>3
      <3>. QED
        BY <2>1, <2>2, <2>4, <3>1, NumberedJoined DEF OutboundInv
    <2>8. WrittenFor(first, client, TRUE)
      BY <2>1, <2>2, <2>4, WrittenForJoined DEF OutboundInv
    <2>. HIDE DEF first
    <2>9. Numbered(second, written - Len(aciaOut))
      <3>1. written - Len(aciaOut) \in Int
        BY <2>2, <2>3
      <3>. QED
        BY <2>1, <2>2, <2>4, <2>5, <2>7, <3>1, NumberedJoined DEF OutboundInv
    <2>10. WrittenFor(second, client, TRUE)
      <3>1. WrittenFor(output, client, first = <<>>)
        BY <2>1, <2>4, <2>6 DEF OutboundInv, WrittenFor
      <3>. QED
        BY <2>2, <2>5, <2>8, <3>1, WrittenForJoined
    <2>. HIDE DEF second
    <2>11. Numbered(stream, written)
      BY <2>2, <2>4, <2>5, <2>9, NumberedJoined DEF OutboundInv
    <2>12. WrittenFor(stream, client, TRUE)
      <3>1. WrittenFor(aciaOut, client, second = <<>>)
        BY <2>1, <2>4, <2>6 DEF OutboundInv, WrittenFor
      <3>. QED
        BY <2>2, <2>5, <2>10, <3>1, WrittenForJoined
    <2>. HIDE DEF stream
    <2>. DEFINE n == Len(stream)
    <2>13. n \in Nat /\ DOMAIN stream = 1 .. n
      BY <2>5
    <2>14. \A i \in 1 .. n : stream[i].number = written - n + i
      BY <2>11, <2>13 DEF Numbered
    <2>. HIDE DEF n
    <2>15. /\ written - (written - n + 1) + 1 = n
           /\ \A i \in 1 .. n : (written - n + 1) + i - 1 = written - n + i
      BY <2>2, <2>13
    <2>16. Numbers(stream) = Interval(written - n + 1, written)
      BY <2>13, <2>14, <2>15 DEF Numbers, Interval
    <2>17. \A i \in 2 .. n : stream[i].by = client
      BY <2>12, <2>13 DEF WrittenFor
    <2>. QED
      BY <2>16, <2>17 DEF n
  <1>. QED
    BY <1>1, ConsoleInvHolds, PTL

\* The bytes of a client in input and on the wire, behind what passed them.
LEMMA BehindTheAcia ==
  ASSUME ConsoleInv, client # NoClient
  PROVE  LET t == input \o wireIn[client]
         IN  /\ t \in Seq(Bytes)
             /\ Passed(client) \in Int /\ Len(t) = sent[client] - Passed(client)
             /\ \A i \in 1 .. Len(t) : t[i] = From(client, Passed(client) + i)
PROOF
  <1>. DEFINE wire == wireIn[client]
              t == input \o wire
              n == Len(wire)
              m == Len(input)
              s == sent[client]
              p == Passed(client)
  <1>1. /\ client \in Clients /\ input \in Seq(Bytes) /\ wire \in Seq(Bytes) /\ s \in Nat
    <2>1. /\ client \in Clients /\ input \in Seq(Bytes)
          /\ wireIn \in [Clients -> Seq(Bytes)] /\ sent \in [Clients -> Nat]
      BY DEF ConsoleInv, ConsoleTypeOK
    <2>. QED
      BY <2>1
  <1>2. /\ n \in Nat /\ m \in Nat
        /\ DOMAIN wire = 1 .. n /\ DOMAIN input = 1 .. m
    BY <1>1
  <1>3. p = s - n - m
    BY DEF Passed
  <1>4. /\ t \in Seq(Bytes) /\ Len(t) = m + n
        /\ \A i \in 1 .. m : t[i] = input[i]
        /\ \A i \in 1 .. n : t[m + i] = wire[i]
    BY <1>1, JoinedOf
  <1>5. \A i \in 1 .. m : input[i] = From(client, p + i)
    BY <1>2 DEF ConsoleInv, InboundInv
  <1>6. \A i \in 1 .. n : wire[i] = From(client, s - n + i)
    BY <1>1, <1>2 DEF ConsoleInv, WireInv
  <1>. HIDE DEF wire, t, n, m, s, p
  <1>7. p \in Int /\ m + n = s - p
    BY <1>1, <1>2, <1>3
  <1>8. ASSUME NEW i \in 1 .. m + n PROVE t[i] = From(client, p + i)
    <2>1. CASE i \in 1 .. m
      BY <1>4, <1>5, <2>1
    <2>2. CASE i \notin 1 .. m
      <3>1. i - m \in 1 .. n /\ m + (i - m) = i /\ s - n + (i - m) = p + i
        BY <1>1, <1>2, <1>3, <2>2
      <3>2. t[i] = wire[i - m]
        BY <1>4, <3>1
      <3>. QED
        BY <1>6, <3>1, <3>2
    <2>. QED
      BY <2>1, <2>2
  <1>9. /\ t \in Seq(Bytes) /\ p \in Int /\ Len(t) = s - p
        /\ \A i \in 1 .. Len(t) : t[i] = From(client, p + i)
    BY <1>4, <1>7, <1>8
  <1>. QED
    BY <1>9 DEF t, p, s, wire

\* Every byte of the client connected reaches the CPU, in its order, and one
\* byte at most of the client before it.
THEOREM InboundCorrect == ConsoleSpec => []InboundIsExact
PROOF
  <1>1. ConsoleInv => InboundIsExact
    <2>. DEFINE t == input \o wireIn[client]
                stream == aciaIn \o input \o wireIn[client]
                heardTo == heard[client]
                target == [i \in 1 .. sent[client] - heardTo |-> From(client, heardTo + i)]
                p == Passed(client)
    <2>1. SUFFICES ASSUME ConsoleInv, client # NoClient
                   PROVE  Own(stream, client) = target
      BY DEF InboundIsExact
    <2>2. /\ client \in Clients /\ aciaIn \in Seq(Bytes) /\ input \in Seq(Bytes)
          /\ wireIn[client] \in Seq(Bytes) /\ sent[client] \in Nat
      <3>1. /\ client \in Clients /\ input \in Seq(Bytes) /\ aciaIn \in Seq(Bytes)
            /\ wireIn \in [Clients -> Seq(Bytes)] /\ sent \in [Clients -> Nat]
        BY <2>1 DEF ConsoleInv, ConsoleTypeOK
      <3>. QED
        BY <3>1
    <2>3. /\ t \in Seq(Bytes) /\ p \in Int /\ Len(t) = sent[client] - p
          /\ \A i \in 1 .. Len(t) : t[i] = From(client, p + i)
      BY <2>1, BehindTheAcia
    <2>4. stream = aciaIn \o t
      <3>. DEFINE wire == wireIn[client]
      <3>1. wire \in Seq(Bytes)
        BY <2>2
      <3>. HIDE DEF wire
      <3>2. (aciaIn \o input) \o wire = aciaIn \o (input \o wire)
        BY <2>2, <3>1, ConcatAssociative, SMTT(30)
      <3>. QED
        BY <3>2 DEF wire
    <2>. HIDE DEF t, stream
    <2>. DEFINE n == Len(t)
    <2>5. n \in Nat /\ t = [i \in 1 .. n |-> t[i]]
      BY <2>3
    <2>6. CASE aciaIn = <<>>
      <3>1. stream = t
        BY <2>3, <2>4, <2>6, ConcatEmptySeq
      <3>2. heardTo = p
        BY <2>1, <2>6 DEF ConsoleInv, InboundInv
      <3>3. t # <<>> => Head(t).by = client
        <4>1. SUFFICES ASSUME t # <<>> PROVE Head(t).by = client
          OBVIOUS
        <4>2. Head(t) = t[1] /\ 1 \in 1 .. Len(t)
          BY <2>3, <4>1, TailOf
        <4>3. t[1] = From(client, p + 1)
          BY <2>3, <4>2
        <4>. QED
          BY <4>2, <4>3 DEF From
      <3>4. Own(stream, client) = t
        BY <3>1, <3>3 DEF Own
      <3>5. t = target
        <4>1. sent[client] - heardTo = n
          BY <2>3, <3>2
        <4>2. \A i \in 1 .. n : t[i] = From(client, heardTo + i)
          BY <2>3, <3>2
        <4>. HIDE DEF n, heardTo
        <4>. QED
          BY <2>5, <4>1, <4>2
      <3>. QED
        BY <3>4, <3>5
    <2>7. CASE aciaIn # <<>>
      <3>. DEFINE b == aciaIn[1]
      <3>1. Len(aciaIn) = 1 /\ b \in Bytes /\ 1 \in DOMAIN aciaIn
        <4>. DEFINE k == Len(aciaIn)
        <4>1. k >= 1 /\ k <= 1 /\ k \in Nat
          BY <2>1, <2>2, <2>7, TailOf DEF ConsoleInv, LoopInv
        <4>. HIDE DEF k
        <4>2. k = 1
          BY <4>1
        <4>3. Len(aciaIn) = 1
          BY <4>2 DEF k
        <4>4. aciaIn[1] \in Bytes /\ 1 \in DOMAIN aciaIn
          <5>1. DOMAIN aciaIn = 1 .. 1
            BY <2>2, <4>3
          <5>2. Head(aciaIn) = aciaIn[1] /\ Head(aciaIn) \in Bytes
            BY <2>2, <2>7, TailOf
          <5>. QED
            BY <5>1, <5>2
        <4>. QED
          BY <4>3, <4>4
      <3>2. /\ stream \in Seq(Bytes) /\ Len(stream) = n + 1 /\ stream[1] = b
            /\ \A i \in 1 .. n : stream[i + 1] = t[i]
        <4>1. /\ stream \in Seq(Bytes) /\ Len(stream) = 1 + n
              /\ stream[1] = b
              /\ \A i \in 1 .. n : stream[1 + i] = t[i]
          <5>1. /\ aciaIn \o t \in Seq(Bytes)
                /\ Len(aciaIn \o t) = Len(aciaIn) + Len(t)
                /\ \A i \in 1 .. Len(aciaIn) : (aciaIn \o t)[i] = aciaIn[i]
                /\ \A i \in 1 .. Len(t) : (aciaIn \o t)[Len(aciaIn) + i] = t[i]
            <6>1. aciaIn \in Seq(Bytes) /\ t \in Seq(Bytes)
              BY <2>2, <2>3
            <6>. QED
              BY <6>1, JoinedOf
          <5>. QED
            BY <2>4, <3>1, <5>1
        <4>2. \A i \in 1 .. n : 1 + i = i + 1
          OBVIOUS
        <4>. QED
          BY <2>5, <4>1, <4>2
      <3>3. stream # <<>> /\ Head(stream) = b
        <4>1. stream # <<>>
          BY <2>5, <3>2
        <4>. QED
          BY <3>2, <4>1, TailOf
      <3>4. CASE b.by # client
        <4>1. Own(stream, client) = Tail(stream)
          BY <3>3, <3>4 DEF Own
        <4>2. /\ Tail(stream) \in Seq(Bytes) /\ Len(Tail(stream)) = n
              /\ \A i \in 1 .. n : Tail(stream)[i] = t[i]
          <5>1. /\ Tail(stream) \in Seq(Bytes) /\ Len(Tail(stream)) = (n + 1) - 1
                /\ \A i \in 1 .. (n + 1) - 1 : Tail(stream)[i] = stream[i + 1]
            BY <3>2, <3>3, TailOf
          <5>2. (n + 1) - 1 = n
            BY <2>5
          <5>. QED
            BY <3>2, <5>1, <5>2
        <4>3. Tail(stream) = t
          BY <2>3, <4>2, SeqEqual
        <4>4. heardTo = p
          BY <2>1, <3>4 DEF ConsoleInv, InboundInv
        <4>5. sent[client] - heardTo = n /\ \A i \in 1 .. n : t[i] = From(client, heardTo + i)
          BY <2>3, <4>4
        <4>6. t = target
          <5>. HIDE DEF n, heardTo
          <5>. QED
            BY <2>5, <4>5
        <4>. QED
          BY <4>1, <4>3, <4>6
      <3>5. CASE b.by = client
        <4>1. Own(stream, client) = stream
          BY <3>3, <3>5 DEF Own
        <4>2. b = From(client, p) /\ heardTo = p - 1
          BY <2>1, <2>7, <3>1, <3>5 DEF ConsoleInv, InboundInv
        <4>3. sent[client] - heardTo = n + 1
          <5>. DEFINE e == sent[client]
          <5>1. e \in Nat /\ n = e - p
            BY <2>2, <2>3
          <5>. HIDE DEF e, n, p, heardTo
          <5>2. e - heardTo = n + 1
            BY <2>3, <4>2, <5>1
          <5>. QED
            BY <5>2 DEF e
        <4>4. ASSUME NEW i \in 1 .. n + 1 PROVE stream[i] = From(client, heardTo + i)
          <5>1. CASE i = 1
            <6>1. heardTo + 1 = p
              BY <2>3, <4>2
            <6>. QED
              BY <3>2, <4>2, <5>1, <6>1
          <5>2. CASE i # 1
            <6>1. i - 1 \in 1 .. n /\ (i - 1) + 1 = i
              BY <2>5, <5>2
            <6>2. p + (i - 1) = heardTo + i
              BY <2>3, <4>2
            <6>3. stream[i] = t[i - 1]
              BY <3>2, <6>1
            <6>4. t[i - 1] = From(client, p + (i - 1))
              BY <2>3, <6>1
            <6>. QED
              BY <6>2, <6>3, <6>4
          <5>. QED
            BY <5>1, <5>2
        <4>5. stream = [i \in 1 .. n + 1 |-> stream[i]]
          BY <3>2
        <4>6. stream = target
          <5>. HIDE DEF n, heardTo
          <5>. QED
            BY <4>3, <4>4, <4>5
        <4>. QED
          BY <4>1, <4>6
      <3>. QED
        BY <3>4, <3>5
    <2>. QED
      BY <2>6, <2>7
  <1>. QED
    BY <1>1, ConsoleInvHolds, PTL
=============================================================================
