------------------------ MODULE If4p5AssemblyProofs ------------------------
(***************************************************************************)
(* What the RCC hands on is whole, or its subframe number gives it away, on  *)
(* a raw socket and with a PRACH thread that is done before the next         *)
(* subframe, for any number of symbols, subframes and losses: proofs about  *)
(* MCIf4p5Assembly, whose uses "lossy" and "lossless" are these.             *)
(*                                                                         *)
(* The packets are read in the order in which they are sent.  A packet has  *)
(* the position <<subframe, key>>, the PRACH packet following the symbols of *)
(* its subframe, and the RRU's frontier is the position of the packet it    *)
(* sends next.  fh_if4p5_asynch_UL, which compares every packet, needs       *)
(* nothing of the order; rx_fh_if4p5, which compares the last one, does.     *)
(***************************************************************************)
EXTENDS MCIf4p5Assembly, TLAPS

Position(p) == <<p.sf, IF p.type = "PRACH" THEN Symbols ELSE p.sym>>

Precedes(a, b) == a[1] < b[1] \/ (a[1] = b[1] /\ a[2] < b[2])

\* Where the RRU is: the packets it sends from now on are at this position or
\* after it.
Frontier ==
    IF pr # "parked" THEN <<prSf, Symbols>>
    ELSE IF fh = "header" THEN <<fhSf, 0>>
    ELSE IF fh \in {"data", "write"} THEN <<fhSf, fhSym>>
    ELSE IF fh = "post" /\ fhSf \in PrachSubframes THEN <<fhSf, Symbols>>
    ELSE <<fhSf + 1, 0>>

\* A packet that is what its header says.
True(p) == /\ p \in Packet
           /\ p.data = Position(p)
           /\ p.type = "PRACH" => p.sf \in PrachSubframes

\* The transmit buffer is filled for the packet at the frontier, and each thread
\* has it to itself: the PRACH thread waits for the symbols, and they for it.
Buffer ==
    /\ pr # "parked" => /\ prSf \in PrachSubframes
                        /\ (fh = "header" /\ fhSf = prSf + 1) \/ (fh = "done" /\ fhSf = prSf)
    /\ fh \in {"data", "write"} => buf.type = "PULFFT" /\ buf.sf = fhSf
    /\ fh = "write" => buf.sym = fhSym /\ buf.data = Frontier
    /\ pr \in {"data", "write"} => buf.type = "PRACH" /\ buf.sf = prSf
    /\ pr = "write" => buf.data = Frontier

\* The link holds true packets in the order of their positions.
Link ==
    \A i \in 1 .. Len(net) :
        /\ True(net[i].packet) /\ net[i].size = Size(net[i].packet.type)
        /\ Precedes(Position(net[i].packet), Frontier)
        /\ \A j \in 1 .. i - 1 : Precedes(Position(net[j].packet), Position(net[i].packet))

\* The position comes before everything that is still to be read.
Past(a) == /\ Precedes(a, Frontier)
           /\ \A i \in 1 .. Len(net) : Precedes(a, Position(net[i].packet))

\* Nothing that is still to be read is of a subframe before this one.
From(sf) == /\ Frontier[1] >= sf
            /\ \A i \in 1 .. Len(net) : net[i].packet.sf >= sf

\* The RCC reads a packet of the type it has looked up.
Lookup == rcc = "payload" => net # <<>> /\ type = Head(net).packet.type

\* A subframe that is handed on is the one counted on.
Handed == rcc = "handed" => ~first /\ got = expected

\* fh_if4p5_asynch_UL stores samples of the subframe it counts on only.
AsynchStored ==
    asynch /\ rcc # "stopped" =>
        /\ first => mask = {}
        /\ ~first => \A s \in mask : rxdataF[s] = <<expected, s>>
        /\ rcc = "handed" => Whole(got)

\* rx_fh_if4p5 stores what it has read, of any subframe: once it is aligned, of none
\* before the one it counts on.
SyncStored ==
    ~asynch /\ rcc # "stopped" =>
        /\ \A s \in mask : \E sf \in 0 .. Last : rxdataF[s] = <<sf, s>> /\ Past(<<sf, s>>)
        /\ aligned /\ ~first /\ rcc # "handed" =>
              From(expected) /\ \A s \in mask : rxdataF[s][1] >= expected
        /\ aligned /\ rcc = "handed" => Whole(got) /\ From(got + 1)

IInv == /\ TypeOK /\ Buffer /\ Link /\ Lookup /\ Handed
        /\ AsynchStored /\ SyncStored

\* The packet at this position has not been read.
ToCome(a) == \/ ~Precedes(a, Frontier)
             \/ \E i \in 1 .. Len(net) : Position(net[i].packet) = a

\* Without loss the RCC begins with the packets of subframe 0, and has all of them
\* when it first compares.
FirstSubframe ==
    ~asynch /\ first /\ rcc # "stopped" =>
        /\ \A s \in AllSymbols :
              IF s \in mask THEN rxdataF[s] = <<0, s>> ELSE ToCome(<<0, s>>)
        /\ 0 \in PrachSubframes => ToCome(<<0, Symbols>>)
        /\ mask = AllSymbols => 0 \in PrachSubframes

Lossless == (~asynch => aligned) /\ FirstSubframe

MCIInv == /\ use # "untimed" => IInv
          /\ use = "lossless" => Lossless

-----------------------------------------------------------------------------
LEMMA ConstantsFacts ==
  /\ Symbols \in Nat /\ Symbols > 0 /\ Last \in Nat
  /\ PrachSubframes \subseteq 0 .. Last
  /\ 0 \in AllSymbols
  /\ AllSymbols \subseteq 0 .. Symbols /\ 0 .. Last \subseteq Nat
  BY ConstantsAssumption DEF AllSymbols

\* Appending and taking the head of a sequence, element by element.
LEMMA Appended ==
  ASSUME NEW S, NEW s \in Seq(S), NEW e \in S
  PROVE  /\ Append(s, e) \in Seq(S)
         /\ Len(Append(s, e)) = Len(s) + 1
         /\ Append(s, e)[Len(s) + 1] = e
         /\ \A i \in 1 .. Len(s) : Append(s, e)[i] = s[i]
  OBVIOUS

LEMMA Tailed ==
  ASSUME NEW S, NEW s \in Seq(S), s # <<>>
  PROVE  /\ Tail(s) \in Seq(S)
         /\ Len(s) > 0 /\ Len(Tail(s)) = Len(s) - 1
         /\ Head(s) = s[1] /\ s[1] \in S
         /\ \A i \in 1 .. Len(s) - 1 : Tail(s)[i] = s[i + 1] /\ i + 1 \in 1 .. Len(s)
         /\ \A i \in 1 .. Len(Tail(s)) : Tail(s)[i] = s[i + 1] /\ i + 1 \in 1 .. Len(s)
  OBVIOUS

-----------------------------------------------------------------------------
\* Type correctness.

LEMMA InitTyped ==
  ASSUME Init
  PROVE  TypeOK /\ Handed
  <1>1. buf \in Packet
    <2>1. 0 \in 0 .. Last /\ 0 \in AllSymbols
      BY ConstantsFacts
    <2>2. QED
      BY <2>1 DEF Init, Packet, Kinds
  <1>2. rxdataF \in [AllSymbols -> Samples \cup {NoSamples}] /\ net \in Seq(Datagram)
    BY DEF Init
  <1>3. 0 \in 0 .. Last /\ 0 \in AllSymbols /\ 0 \in 0 .. Last + 1 /\ 0 \in 0 .. MaxLost
    BY ConstantsFacts, ConstantsAssumption
  <1>4. QED
    BY <1>1, <1>2, <1>3 DEF Init, TypeOK, Handed, Kinds

LEMMA SendTyped ==
  ASSUME TypeOK, NEW kind \in Kinds, Send(kind)
  PROVE  net' \in Seq(Datagram) /\ lost' \in 0 .. MaxLost
  <1>1. [packet |-> buf, size |-> Size(kind)] \in Datagram
    BY DEF TypeOK, Size, Datagram
  <1>2. net \in Seq(Datagram)
    BY DEF TypeOK
  <1>3. Append(net, [packet |-> buf, size |-> Size(kind)]) \in Seq(Datagram)
    BY <1>1, <1>2
  <1>4. lost' \in 0 .. MaxLost
    BY ConstantsAssumption DEF Send, TypeOK
  <1>5. net' \in {net, Append(net, [packet |-> buf, size |-> Size(kind)])}
    BY DEF Send
  <1>6. QED
    BY <1>2, <1>3, <1>4, <1>5

LEMMA RruTyped ==
  ASSUME TypeOK, Handed, Rru
  PROVE  TypeOK' /\ Handed'
  <1>1. UNCHANGED rccVars /\ Handed'
    BY DEF Rru, FhHeader, FhData, FhWrite, Post, PrachBusy, PrHeader, PrData, PrWrite,
           rccVars, Handed
  <1>2. CASE FhHeader
    BY <1>1, <1>2, ConstantsFacts DEF FhHeader, GenHeader, rccVars, TypeOK, Packet, Kinds
  <1>3. CASE FhData
    <2>1. <<fhSf, fhSym>> \in Samples
      BY ConstantsFacts DEF TypeOK, Samples
    <2>2. buf' \in Packet
      BY <1>3, <2>1 DEF FhData, TypeOK, Packet
    <2>3. QED
      BY <1>1, <1>3, <2>2 DEF FhData, rccVars, TypeOK
  <1>4. CASE FhWrite
    <2>1. fhSym' \in AllSymbols
      BY <1>4, ConstantsFacts DEF FhWrite, TypeOK, AllSymbols
    <2>2. QED
      BY <1>1, <1>4, <2>1, SendTyped DEF FhWrite, rccVars, TypeOK, Kinds
  <1>5. CASE Post
    BY <1>1, <1>5, ConstantsFacts DEF Post, rccVars, TypeOK
  <1>6. CASE PrHeader
    BY <1>1, <1>6, ConstantsFacts DEF PrHeader, GenHeader, rccVars, TypeOK, Packet, Kinds
  <1>7. CASE PrData
    <2>1. PrachOf(prSf) \in Samples
      BY ConstantsFacts DEF TypeOK, Samples, PrachOf
    <2>2. buf' \in Packet
      BY <1>7, <2>1 DEF PrData, TypeOK, Packet
    <2>3. QED
      BY <1>1, <1>7, <2>2 DEF PrData, rccVars, TypeOK
  <1>8. CASE PrWrite
    BY <1>1, <1>8, SendTyped DEF PrWrite, rccVars, TypeOK, Kinds
  <1>9. CASE PrachBusy
    BY <1>1, <1>9 DEF PrachBusy, rccVars, TypeOK
  <1>10. QED
    BY <1>2, <1>3, <1>4, <1>5, <1>6, <1>7, <1>8, <1>9 DEF Rru

LEMMA RccTyped ==
  ASSUME TypeOK, Handed, Rcc
  PROVE  TypeOK' /\ Handed'
  <1>1. CASE ReadHeader
    <2>1. net \in Seq(Datagram) /\ net # <<>>
      BY <1>1 DEF ReadHeader, TypeOK
    <2>2. Head(net) \in Datagram /\ Tail(net) \in Seq(Datagram)
      BY <2>1
    <2>3. Head(net).packet.type \in Kinds
      BY <2>2 DEF Datagram, Packet
    <2>4. QED
      BY <1>1, <2>2, <2>3 DEF ReadHeader, rru, TypeOK, Handed
  <1>2. CASE ReadShort
    BY <1>2, Tailed DEF ReadShort, rru, rccVars, TypeOK, Handed
  <1>3. CASE ReadPacket
    <2> DEFINE p == Head(net).packet
    <2>1. p \in Packet /\ net' \in Seq(Datagram)
      <3>1. net \in Seq(Datagram) /\ net # <<>> /\ net' = Tail(net)
        BY <1>3 DEF ReadPacket, TypeOK
      <3>2. Head(net) \in Datagram
        BY <3>1
      <3>3. QED
        BY <3>1, <3>2, Tailed DEF Datagram
    <2>2. /\ p.sf \in 0 .. Last /\ p.sym \in AllSymbols
          /\ p.data \in Samples \cup {NoSamples}
      BY <2>1 DEF Packet
    <2>3. /\ Store(p) /\ got' = p.sf
          /\ rcc' \in {"recv", "handed", "stopped"}
          /\ expected' \in {expected, p.sf} /\ first' \in BOOLEAN
          /\ rcc' = "handed" => expected' = p.sf /\ ~first'
          /\ aligned' \in BOOLEAN
          /\ UNCHANGED <<rru, lost, type, asynch>>
      <3>1. Store(p) /\ got' = p.sf /\ UNCHANGED <<rru, lost, type, asynch>>
        BY <1>3 DEF ReadPacket
      <3>2. /\ rcc' \in {"recv", "handed", "stopped"}
            /\ expected' \in {expected, p.sf}
            /\ first' \in BOOLEAN
            /\ rcc' = "handed" => expected' = p.sf /\ ~first'
        BY <1>3 DEF ReadPacket, Compared, TypeOK
      <3>3. aligned' \in BOOLEAN
        BY <1>3 DEF ReadPacket, TypeOK, Whole
      <3>4. QED
        BY <3>1, <3>2, <3>3
    <2>4. /\ rxdataF' \in [AllSymbols -> Samples \cup {NoSamples}]
          /\ rxsigF' \in Samples \cup {NoSamples}
          /\ mask' \subseteq AllSymbols /\ waiting' \in BOOLEAN
      BY <2>2, <2>3 DEF Store, TypeOK
    <2> HIDE DEF p
    <2>5. QED
      BY <2>1, <2>2, <2>3, <2>4, ConstantsFacts DEF rru, TypeOK, Handed
  <1>4. CASE NextSubframe
    <2>1. expected + 1 \in 0 .. Last + 1
      BY <1>4, ConstantsFacts DEF NextSubframe, Handed, TypeOK
    <2>2. QED
      BY <1>4, <2>1 DEF NextSubframe, rru, TypeOK, Handed
  <1>5. CASE Timeout
    BY <1>5 DEF Timeout, rru, TypeOK, Handed
  <1>6. QED
    BY <1>1, <1>2, <1>3, <1>4, <1>5 DEF Rcc

\* Every variable has its type, whatever the socket and the speed of the threads:
\* the buffers, the link and the RCC's count of subframes.
THEOREM TypeCorrect == Spec => []TypeOK
  <1>1. TypeOK /\ Handed /\ [Next]_vars => TypeOK' /\ Handed'
    <2>1. TypeOK /\ Handed /\ UNCHANGED vars => TypeOK' /\ Handed'
      BY DEF vars, rru, rccVars, TypeOK, Handed
    <2>2. QED
      BY <2>1, RruTyped, RccTyped DEF Next
  <1>2. QED
    BY <1>1, InitTyped, PTL DEF Spec

-----------------------------------------------------------------------------
\* Positions and their order.

Positions == Nat \X (0 .. Symbols)

LEMMA Order ==
  ASSUME NEW a \in Positions, NEW b \in Positions, NEW c \in Positions
  PROVE  /\ Precedes(a, b) /\ Precedes(b, c) => Precedes(a, c)
         /\ ~Precedes(a, a)
         /\ Precedes(a, b) => a[1] <= b[1]
         /\ Precedes(a, b) => ~Precedes(b, a)
         /\ a = <<a[1], a[2]>> /\ a[1] \in Nat /\ a[2] \in 0 .. Symbols
  BY ConstantsFacts DEF Positions, Precedes

LEMMA PositionTyped ==
  ASSUME NEW p \in Packet
  PROVE  Position(p) \in Positions /\ Position(p)[1] = p.sf /\ p.sf \in 0 .. Last
  BY ConstantsFacts DEF Packet, Position, Positions, AllSymbols

LEMMA FrontierTyped ==
  /\ TypeOK => Frontier \in Positions
  /\ TypeOK' => Frontier' \in Positions
  <1>1. /\ 0 \in 0 .. Symbols /\ Symbols \in 0 .. Symbols
        /\ \A n \in 0 .. Last : n \in Nat /\ n + 1 \in Nat
    BY ConstantsFacts
  <1>2. ASSUME TypeOK
        PROVE  Frontier \in Positions
    <2>1. fhSf \in 0 .. Last /\ prSf \in 0 .. Last /\ fhSym \in 0 .. Symbols
      BY <1>2, ConstantsFacts DEF TypeOK
    <2>2. QED
      BY <1>1, <2>1 DEF Frontier, Positions
  <1>3. ASSUME TypeOK'
        PROVE  Frontier' \in Positions
    <2>1. fhSf' \in 0 .. Last /\ prSf' \in 0 .. Last /\ fhSym' \in AllSymbols
      BY <1>3 DEF TypeOK
    <2>2. fhSym' \in 0 .. Symbols
      BY <2>1, ConstantsFacts
    <2>3. QED
      BY <1>1, <2>1, <2>2 DEF Frontier, Positions
  <1>4. QED
    BY <1>2, <1>3

-----------------------------------------------------------------------------
\* The RRU: every step leaves the link alone and goes on to no other packet, or sends
\* the packet at the frontier, which the link takes or loses.

\* A packet is sent from this position, if the RRU gets there.
Used(a) == a[2] < Symbols \/ a[1] \in PrachSubframes

Sends ==
    /\ Precedes(Frontier, Frontier')
    /\ \A a \in Positions : Used(a) /\ Precedes(Frontier, a) => ~Precedes(a, Frontier')
    /\ True(buf) /\ Position(buf) = Frontier
    /\ \/ net' = Append(net, [packet |-> buf, size |-> Size(buf.type)]) /\ UNCHANGED lost
       \/ net' = net /\ lost' = lost + 1

LEMMA RruSends ==
  ASSUME TypeOK, Buffer, Paced, Rru
  PROVE  /\ Buffer' /\ UNCHANGED rccVars
         /\ (Frontier' = Frontier /\ UNCHANGED <<net, lost>>) \/ Sends
  <1> USE ConstantsFacts
  <1>1. CASE FhHeader
    <2>1. Frontier' = Frontier
      BY <1>1 DEF FhHeader, Frontier
    <2>2. Buffer'
      BY <1>1 DEF FhHeader, GenHeader, Buffer, TypeOK, Packet
    <2>3. QED
      BY <1>1, <2>1, <2>2 DEF FhHeader
  <1>2. CASE FhData
    <2>1. Frontier' = Frontier /\ Frontier = <<fhSf, fhSym>>
      BY <1>2 DEF FhData, Frontier, Buffer
    <2>2. Buffer'
      BY <1>2, <2>1 DEF FhData, Buffer, TypeOK, Packet
    <2>3. QED
      BY <1>2, <2>1, <2>2 DEF FhData
  <1>3. CASE FhWrite
    <2>1. /\ pr = "parked" /\ Frontier = <<fhSf, fhSym>>
          /\ buf.type = "PULFFT" /\ buf.sf = fhSf /\ buf.sym = fhSym /\ buf.data = Frontier
      BY <1>3 DEF FhWrite, Frontier, Buffer
    <2>2. True(buf) /\ Position(buf) = Frontier
      BY <2>1 DEF True, Position, TypeOK
    <2>3. /\ Precedes(Frontier, Frontier')
          /\ \A a \in Positions : Used(a) /\ Precedes(Frontier, a) => ~Precedes(a, Frontier')
      <3>1. \/ Frontier' = <<fhSf, fhSym + 1>> /\ fhSym + 1 < Symbols
            \/ Frontier' = <<fhSf, Symbols>> /\ fhSym + 1 = Symbols
            \/ Frontier' = <<fhSf + 1, 0>> /\ fhSym + 1 = Symbols /\ fhSf \notin PrachSubframes
        BY <1>3, <2>1 DEF FhWrite, Frontier, TypeOK, AllSymbols
      <3>2. QED
        BY <2>1, <3>1 DEF Precedes, Positions, Used, TypeOK, AllSymbols
    <2>4. Buffer'
      BY <1>3, <2>1 DEF FhWrite, Buffer
    <2>5. QED
      BY <1>3, <2>1, <2>2, <2>3, <2>4 DEF FhWrite, Send, Sends
  <1>4. CASE Post
    <2>1. pr = "parked"
      BY <1>4 DEF Post, Buffer
    <2>2. Frontier' = Frontier
      BY <1>4, <2>1 DEF Post, Frontier
    <2>3. Buffer'
      BY <1>4, <2>1 DEF Post, Buffer, TypeOK
    <2>4. QED
      BY <1>4, <2>2, <2>3 DEF Post
  <1>5. CASE PrHeader
    <2>1. Frontier' = Frontier
      BY <1>5 DEF PrHeader, Frontier
    <2>2. Buffer'
      BY <1>5 DEF PrHeader, GenHeader, Buffer, TypeOK, Packet
    <2>3. QED
      BY <1>5, <2>1, <2>2 DEF PrHeader
  <1>6. CASE PrData
    <2>1. Frontier' = Frontier /\ Frontier = <<prSf, Symbols>>
      BY <1>6 DEF PrData, Frontier
    <2>2. Buffer'
      BY <1>6, <2>1 DEF PrData, PrachOf, Buffer, TypeOK, Packet
    <2>3. QED
      BY <1>6, <2>1, <2>2 DEF PrData
  <1>7. CASE PrWrite
    <2>1. /\ Frontier = <<prSf, Symbols>> /\ prSf \in PrachSubframes
          /\ buf.type = "PRACH" /\ buf.sf = prSf /\ buf.data = Frontier
      BY <1>7 DEF PrWrite, Frontier, Buffer
    <2>2. True(buf) /\ Position(buf) = Frontier
      BY <2>1 DEF True, Position, TypeOK
    <2>3. /\ Precedes(Frontier, Frontier')
          /\ \A a \in Positions : Used(a) /\ Precedes(Frontier, a) => ~Precedes(a, Frontier')
      <3>1. Frontier' = <<prSf + 1, 0>>
        BY <1>7, <2>1 DEF PrWrite, Frontier, TypeOK, Buffer
      <3>2. QED
        BY <2>1, <3>1 DEF Precedes, Positions, TypeOK
    <2>4. Buffer'
      BY <1>7 DEF PrWrite, Buffer
    <2>5. QED
      BY <1>7, <2>1, <2>2, <2>3, <2>4 DEF PrWrite, Send, Sends
  <1>8. ~PrachBusy
    BY DEF PrachBusy, Buffer
  <1>9. QED
    BY <1>1, <1>2, <1>3, <1>4, <1>5, <1>6, <1>7, <1>8 DEF Rru

-----------------------------------------------------------------------------
\* What lies between the RRU and the RCC.

LEMMA LinkTyped ==
  ASSUME TypeOK, NEW i \in 1 .. Len(net)
  PROVE  /\ net[i].packet \in Packet /\ net[i].packet.sf \in Nat
         /\ Position(net[i].packet) \in Positions
         /\ Position(net[i].packet)[1] = net[i].packet.sf
  <1>1. net[i] \in Datagram
    BY DEF TypeOK
  <1>2. QED
    BY <1>1, PositionTyped, ConstantsFacts DEF Datagram

LEMMA Sent ==
  ASSUME TypeOK, net' = Append(net, [packet |-> buf, size |-> Size(buf.type)])
  PROVE  /\ Len(net) \in Nat /\ Len(net') = Len(net) + 1
         /\ net'[Len(net) + 1] = [packet |-> buf, size |-> Size(buf.type)]
         /\ \A i \in 1 .. Len(net) : net'[i] = net[i]
         /\ \A i \in 1 .. Len(net') : i \in 1 .. Len(net) \/ i = Len(net) + 1
  BY DEF TypeOK

LEMMA RruKeepsLink ==
  ASSUME TypeOK, TypeOK', Buffer, Link, Paced, Rru
  PROVE  Link'
  <1>1. CASE Frontier' = Frontier /\ UNCHANGED <<net, lost>>
    BY <1>1 DEF Link
  <1>2. CASE Sends
    <2>1. \A i \in 1 .. Len(net) :
            /\ True(net[i].packet) /\ net[i].size = Size(net[i].packet.type)
            /\ Precedes(Position(net[i].packet), Frontier)
            /\ Precedes(Position(net[i].packet), Frontier')
            /\ \A j \in 1 .. i - 1 : Precedes(Position(net[j].packet), Position(net[i].packet))
      BY <1>2, LinkTyped, FrontierTyped, Order DEF Link, Sends
    <2>2. CASE net' = net
      BY <2>1, <2>2 DEF Link
    <2>3. CASE net' = Append(net, [packet |-> buf, size |-> Size(buf.type)])
      <3> SUFFICES ASSUME NEW i \in 1 .. Len(net')
                   PROVE  /\ True(net'[i].packet) /\ net'[i].size = Size(net'[i].packet.type)
                          /\ Precedes(Position(net'[i].packet), Frontier')
                          /\ \A j \in 1 .. i - 1 :
                                Precedes(Position(net'[j].packet), Position(net'[i].packet))
        BY DEF Link
      <3>1. CASE i \in 1 .. Len(net)
        BY <2>1, <2>3, <3>1, Sent
      <3>2. CASE i = Len(net) + 1
        <4>1. net'[i].packet = buf /\ net'[i].size = Size(buf.type)
          BY <2>3, <3>2, Sent
        <4>2. \A j \in 1 .. i - 1 : j \in 1 .. Len(net) /\ net'[j] = net[j]
          BY <2>3, <3>2, Sent
        <4>3. QED
          BY <1>2, <2>1, <4>1, <4>2 DEF Sends
      <3>3. QED
        BY <2>3, <3>1, <3>2, Sent
    <2>4. QED
      BY <1>2, <2>2, <2>3 DEF Sends
  <1>3. QED
    BY <1>1, <1>2, RruSends

LEMMA RruKeepsPast ==
  ASSUME TypeOK, TypeOK', Buffer, Paced, Rru, NEW a \in Positions, Past(a)
  PROVE  Past(a)'
  <1>1. CASE Frontier' = Frontier /\ UNCHANGED <<net, lost>>
    BY <1>1 DEF Past
  <1>2. CASE Sends
    <2>1. Precedes(a, Frontier) /\ Precedes(a, Frontier')
      BY <1>2, FrontierTyped, Order DEF Past, Sends
    <2>2. \A i \in 1 .. Len(net') : Precedes(a, Position(net'[i].packet))
      BY <1>2, <2>1, Sent DEF Past, Sends
    <2>3. QED
      BY <2>1, <2>2 DEF Past
  <1>3. QED
    BY <1>1, <1>2, RruSends

LEMMA RruKeepsFrom ==
  ASSUME TypeOK, TypeOK', Buffer, Paced, Rru, NEW sf \in Nat, From(sf)
  PROVE  From(sf)'
  <1>1. CASE Frontier' = Frontier /\ UNCHANGED <<net, lost>>
    BY <1>1 DEF From
  <1>2. CASE Sends
    <2>1. /\ Frontier[1] >= sf /\ Frontier'[1] >= Frontier[1]
          /\ Frontier[1] \in Nat /\ Frontier'[1] \in Nat
      BY <1>2, FrontierTyped, Order DEF From, Sends
    <2>2. buf.sf = Frontier[1]
      BY <1>2 DEF Sends, Position
    <2>3. \A i \in 1 .. Len(net') : net'[i].packet.sf >= sf
      BY <1>2, <2>1, <2>2, Sent DEF From, Sends
    <2>4. QED
      BY <2>1, <2>3 DEF From
  <1>3. QED
    BY <1>1, <1>2, RruSends

\* Without loss, what is to come stays to come until it is read.
LEMMA RruKeepsToCome ==
  ASSUME TypeOK, TypeOK', Buffer, Paced, Rru, UNCHANGED lost,
         NEW a \in Positions, Used(a), ToCome(a)
  PROVE  ToCome(a)'
  <1>1. CASE Frontier' = Frontier /\ UNCHANGED <<net, lost>>
    BY <1>1 DEF ToCome
  <1>2. CASE Sends
    <2>1. net' = Append(net, [packet |-> buf, size |-> Size(buf.type)])
      BY <1>2 DEF Sends, TypeOK
    <2>2. CASE \E i \in 1 .. Len(net) : Position(net[i].packet) = a
      <3>1. \E i \in 1 .. Len(net) : net'[i] = net[i] /\ Position(net[i].packet) = a
        BY <2>1, <2>2, Sent
      <3>2. QED
        BY <2>1, <3>1, Sent DEF ToCome
    <2>3. CASE a = Frontier
      <3>1. Position(net'[Len(net) + 1].packet) = a /\ Len(net) + 1 \in 1 .. Len(net')
        BY <1>2, <2>1, <2>3, Sent DEF Sends
      <3>2. QED
        BY <3>1 DEF ToCome
    <2>4. CASE ~Precedes(a, Frontier) /\ a # Frontier
      <3>1. ~Precedes(a, Frontier')
        <4>1. Precedes(Frontier, a)
          BY <2>4, FrontierTyped DEF Positions, Precedes
        <4>2. QED
          BY <1>2, <4>1 DEF Sends
      <3>2. QED
        BY <3>1 DEF ToCome
    <2>5. QED
      BY <2>2, <2>3, <2>4 DEF ToCome
  <1>3. QED
    BY <1>1, <1>2, RruSends

-----------------------------------------------------------------------------
\* The RCC reads the packets in the order of their positions.

LEMMA FrontierUsed ==
  ASSUME TypeOK, Buffer
  PROVE  Used(Frontier)
  BY ConstantsFacts DEF TypeOK, Buffer, Frontier, Used, AllSymbols

LEMMA TrueUsed ==
  ASSUME NEW p \in Packet, True(p)
  PROVE  Used(Position(p))
  BY ConstantsFacts DEF True, Packet, Kinds, Position, Used, AllSymbols

LEMMA ReadOne ==
  ASSUME TypeOK, Link, Lookup, ReadPacket, NEW p, p = Head(net).packet
  PROVE  /\ p \in Packet /\ True(p) /\ type = p.type
         /\ Frontier' = Frontier
         /\ Precedes(Position(p), Frontier)
         /\ Len(net) \in Nat /\ Len(net') = Len(net) - 1 /\ net[1].packet = p /\ Len(net) > 0
         /\ \A i \in 1 .. Len(net') : net'[i] = net[i + 1] /\ i + 1 \in 1 .. Len(net)
         /\ \A i \in 1 .. Len(net) : i = 1 \/ (i - 1 \in 1 .. Len(net') /\ net'[i - 1] = net[i])
         /\ \A i \in 2 .. Len(net) : Precedes(Position(p), Position(net[i].packet))
  <1>1. net \in Seq(Datagram) /\ net # <<>> /\ net' = Tail(net)
    BY DEF ReadPacket, TypeOK
  <1>2. /\ Len(net) \in Nat /\ Len(net') = Len(net) - 1 /\ net[1].packet = p /\ Len(net) > 0
        /\ 1 \in 1 .. Len(net)
        /\ \A i \in 1 .. Len(net') : net'[i] = net[i + 1] /\ i + 1 \in 1 .. Len(net)
    BY <1>1, Tailed
  <1>3. \A i \in 1 .. Len(net) : i = 1 \/ (i - 1 \in 1 .. Len(net') /\ net'[i - 1] = net[i])
    BY <1>2
  <1>4. p \in Packet /\ True(p) /\ Precedes(Position(p), Frontier)
    BY <1>2, LinkTyped DEF Link
  <1>5. type = p.type /\ Frontier' = Frontier
    BY DEF Lookup, ReadPacket, rru, Frontier
  <1>6. \A i \in 2 .. Len(net) : Precedes(Position(p), Position(net[i].packet))
    <2> SUFFICES ASSUME NEW i \in 2 .. Len(net)
                 PROVE  Precedes(Position(p), Position(net[i].packet))
      OBVIOUS
    <2>1. i \in 1 .. Len(net) /\ 1 \in 1 .. i - 1
      BY <1>2
    <2>2. QED
      BY <1>2, <2>1 DEF Link
  <1>7. QED
    BY <1>2, <1>3, <1>4, <1>5, <1>6

LEMMA ReadKeepsLink ==
  ASSUME TypeOK, Link, Lookup, ReadPacket
  PROVE  Link'
  <1> PICK p : p = Head(net).packet
    OBVIOUS
  <1>1. SUFFICES ASSUME NEW i \in 1 .. Len(net')
                 PROVE  /\ True(net'[i].packet) /\ net'[i].size = Size(net'[i].packet.type)
                        /\ Precedes(Position(net'[i].packet), Frontier')
                        /\ \A j \in 1 .. i - 1 :
                              Precedes(Position(net'[j].packet), Position(net'[i].packet))
    BY DEF Link
  <1>2. /\ net'[i] = net[i + 1] /\ i + 1 \in 1 .. Len(net)
        /\ \A j \in 1 .. i - 1 : net'[j] = net[j + 1] /\ j + 1 \in 1 .. (i + 1) - 1
    BY ReadOne
  <1>3. QED
    BY <1>2, ReadOne DEF Link

\* What comes after everything read and before the rest still does.
LEMMA ReadKeepsPast ==
  ASSUME TypeOK, Link, Lookup, ReadPacket, NEW p, p = Head(net).packet
  PROVE  /\ Past(Position(p))'
         /\ \A a \in Positions : Past(a) => Past(a)' /\ Precedes(a, Position(p))
         /\ \A sf \in Nat : From(sf) => From(sf)' /\ p.sf >= sf
  <1>1. Past(Position(p))'
    <2>1. \A i \in 1 .. Len(net') : Precedes(Position(p), Position(net'[i].packet))
      <3> SUFFICES ASSUME NEW i \in 1 .. Len(net')
                   PROVE  Precedes(Position(p), Position(net'[i].packet))
        OBVIOUS
      <3>1. net'[i] = net[i + 1] /\ i + 1 \in 2 .. Len(net)
        BY ReadOne
      <3>2. QED
        BY <3>1, ReadOne
    <2>2. QED
      BY <2>1, ReadOne DEF Past
  <1>2. \A a \in Positions : Past(a) => Past(a)' /\ Precedes(a, Position(p))
    <2> SUFFICES ASSUME NEW a \in Positions, Past(a)
                 PROVE  Past(a)' /\ Precedes(a, Position(p))
      OBVIOUS
    <2>1. Precedes(a, Position(p)) /\ Precedes(a, Frontier')
      BY ReadOne DEF Past
    <2>2. \A i \in 1 .. Len(net') : Precedes(a, Position(net'[i].packet))
      BY ReadOne DEF Past
    <2>3. QED
      BY <2>1, <2>2 DEF Past
  <1>3. \A sf \in Nat : From(sf) => From(sf)' /\ p.sf >= sf
    <2> SUFFICES ASSUME NEW sf \in Nat, From(sf)
                 PROVE  From(sf)' /\ p.sf >= sf
      OBVIOUS
    <2>1. p.sf >= sf /\ Frontier'[1] >= sf
      BY ReadOne DEF From
    <2>2. \A i \in 1 .. Len(net') : net'[i].packet.sf >= sf
      BY ReadOne DEF From
    <2>3. QED
      BY <2>1, <2>2 DEF From
  <1>4. QED
    BY <1>1, <1>2, <1>3

\* What is to come is read now or comes later.
LEMMA ReadKeepsToCome ==
  ASSUME TypeOK, Link, Lookup, ReadPacket, NEW p, p = Head(net).packet,
         NEW a \in Positions, ToCome(a)
  PROVE  a = Position(p) \/ (ToCome(a)' /\ Precedes(Position(p), a))
  <1>1. CASE ~Precedes(a, Frontier)
    <2>1. Precedes(Position(p), Frontier) /\ Position(p) \in Positions /\ Frontier \in Positions
      BY ReadOne, PositionTyped, FrontierTyped
    <2>2. Precedes(Position(p), a)
      BY <1>1, <2>1 DEF Precedes, Positions
    <2>3. QED
      BY <1>1, <2>2, ReadOne DEF ToCome
  <1>2. ASSUME NEW i \in 1 .. Len(net), Position(net[i].packet) = a
        PROVE  a = Position(p) \/ (ToCome(a)' /\ Precedes(Position(p), a))
    <2>1. CASE i = 1
      BY <1>2, <2>1, ReadOne
    <2>2. CASE i # 1
      <3>1. i \in 2 .. Len(net) /\ i - 1 \in 1 .. Len(net') /\ net'[i - 1] = net[i]
        BY <2>2, ReadOne
      <3>2. QED
        BY <1>2, <3>1, ReadOne DEF ToCome
    <2>3. QED
      BY <2>1, <2>2
  <1>3. QED
    BY <1>1, <1>2 DEF ToCome

-----------------------------------------------------------------------------
\* What the RCC has stored.

LEMMA StoredSamples ==
  ASSUME TypeOK, NEW p \in Packet, True(p), type = p.type, Store(p)
  PROVE  /\ \A s \in mask' : \/ s = p.sym /\ p.type = "PULFFT" /\ rxdataF'[s] = <<p.sf, s>>
                             \/ s \in mask /\ rxdataF'[s] = rxdataF[s]
         /\ p.type = "PRACH" => mask' = mask /\ rxdataF' = rxdataF
         /\ p.type = "PULFFT" => /\ p.sym \in AllSymbols /\ mask' = mask \cup {p.sym}
                                 /\ rxdataF'[p.sym] = <<p.sf, p.sym>>
                                 /\ Position(p) = <<p.sf, p.sym>>
         /\ p.type = "PRACH" => /\ Position(p) = <<p.sf, Symbols>> /\ p.sf \in PrachSubframes
                                /\ rxsigF' = PrachOf(p.sf)
         /\ waiting' = (p.type = "PULFFT" /\ p.sf \in PrachSubframes)
         /\ p.type \in {"PULFFT", "PRACH"}
  <1>1. /\ p.sym \in AllSymbols /\ p.type \in {"PULFFT", "PRACH"}
        /\ p.type = "PULFFT" => Position(p) = <<p.sf, p.sym>>
        /\ p.type = "PRACH" => Position(p) = <<p.sf, Symbols>>
        /\ p.data = Position(p)
        /\ p.type = "PRACH" => p.sf \in PrachSubframes
    BY DEF Packet, Kinds, Position, True
  <1>2. rxdataF \in [AllSymbols -> Samples \cup {NoSamples}] /\ mask \subseteq AllSymbols
    BY DEF TypeOK
  <1>3. CASE p.type = "PULFFT"
    <2>1. /\ rxdataF' = [rxdataF EXCEPT ![p.sym] = p.data] /\ mask' = mask \cup {p.sym}
          /\ waiting' = (p.sf \in PrachSubframes)
      BY <1>3 DEF Store
    <2>2. /\ rxdataF'[p.sym] = <<p.sf, p.sym>>
          /\ \A s \in mask : s # p.sym => rxdataF'[s] = rxdataF[s]
      BY <1>1, <1>2, <1>3, <2>1
    <2>3. QED
      BY <1>1, <1>3, <2>1, <2>2
  <1>4. CASE p.type = "PRACH"
    BY <1>1, <1>4 DEF Store, PrachOf
  <1>5. QED
    BY <1>1, <1>3, <1>4

\* A full mask that waits for no PRACH, all its symbols of one subframe, is whole.
LEMMA CompleteWhole ==
  ASSUME TypeOK, NEW p \in Packet, True(p), type = p.type, Store(p), Complete,
         \A s \in mask : rxdataF[s] = <<p.sf, s>>
  PROVE  Whole(p.sf)'
  <1>1. \A s \in AllSymbols : rxdataF'[s] = <<p.sf, s>>
    BY StoredSamples DEF Complete
  <1>2. p.sf \in PrachSubframes => rxsigF' = PrachOf(p.sf)
    BY StoredSamples DEF Complete
  <1>3. QED
    BY <1>1, <1>2 DEF Whole

\* Nothing of a subframe comes after the packet that makes it whole.
LEMMA LastOfSubframe ==
  ASSUME TypeOK, NEW p \in Packet, True(p), type = p.type, Store(p), Complete, Whole(p.sf)',
         \A s \in mask : \E sf \in 0 .. Last :
            rxdataF[s] = <<sf, s>> /\ Precedes(<<sf, s>>, Position(p)),
         NEW q \in Positions, Used(q), Precedes(Position(p), q)
  PROVE  q[1] >= p.sf + 1
  <1>1. /\ q[1] \in Nat /\ q[2] \in 0 .. Symbols /\ p.sf \in Nat
        /\ Symbols - 1 \in AllSymbols
    BY PositionTyped, ConstantsFacts, Order DEF AllSymbols
  <1>2. CASE p.type = "PRACH"
    <2>1. Position(p) = <<p.sf, Symbols>>
      BY <1>2, StoredSamples
    <2>2. QED
      BY <1>1, <2>1, ConstantsFacts DEF Precedes
  <1>3. CASE p.type = "PULFFT"
    <2>1. /\ Position(p) = <<p.sf, p.sym>> /\ p.sym \in AllSymbols
          /\ p.sf \notin PrachSubframes /\ mask' = AllSymbols
      BY <1>3, StoredSamples DEF Complete
    <2>2. p.sym = Symbols - 1
      <3> SUFFICES ASSUME p.sym # Symbols - 1
                   PROVE  FALSE
        OBVIOUS
      <3>1. Symbols - 1 \in mask /\ rxdataF'[Symbols - 1] = rxdataF[Symbols - 1]
        BY <1>1, <2>1, StoredSamples
      <3>2. rxdataF[Symbols - 1] = <<p.sf, Symbols - 1>>
        BY <1>1, <3>1 DEF Whole
      <3>3. Precedes(<<p.sf, Symbols - 1>>, Position(p))
        BY <3>1, <3>2
      <3>4. QED
        BY <1>1, <2>1, <3>3, ConstantsFacts DEF Precedes, AllSymbols
    <2>3. QED
      BY <1>1, <2>1, <2>2, ConstantsFacts DEF Precedes, Used
  <1>4. QED
    BY <1>2, <1>3, StoredSamples

\* What ReadPacket decides.
LEMMA Decision ==
  ASSUME ReadPacket, NEW p, p = Head(net).packet
  PROVE  /\ Store(p) /\ got' = p.sf /\ UNCHANGED <<rru, lost, type, asynch>>
         /\ IF ~Compared \/ InTime(p)
            THEN /\ rcc' = IF Complete THEN "handed" ELSE "recv"
                 /\ first' = (first /\ ~Compared)
                 /\ expected' = IF Compared THEN p.sf ELSE expected
            ELSE rcc' = "stopped" /\ UNCHANGED <<first, expected>>
         /\ aligned' = IF first /\ rcc' = "handed" THEN Whole(got)' ELSE aligned
         /\ rcc = "payload"
  BY DEF ReadPacket

LEMMA WholeGot ==
  ASSUME NEW sf, got' = sf
  PROVE  Whole(got)' <=> Whole(sf)'
  BY DEF Whole

LEMMA ReadKeepsAsynch ==
  ASSUME TypeOK, Link, Lookup, AsynchStored, ReadPacket
  PROVE  AsynchStored'
  <1> SUFFICES ASSUME asynch, rcc' # "stopped"
               PROVE  /\ first' => mask' = {}
                      /\ ~first' => \A s \in mask' : rxdataF'[s] = <<expected', s>>
                      /\ rcc' = "handed" => Whole(got)'
    BY DEF AsynchStored, ReadPacket
  <1> PICK p : p = Head(net).packet
    OBVIOUS
  <1>1. /\ p \in Packet /\ True(p) /\ type = p.type /\ Store(p)
        /\ got' = p.sf /\ rcc # "stopped"
    BY ReadOne, Decision
  <1>2. InTime(p) /\ ~first' /\ expected' = p.sf /\ (rcc' = "handed" => Complete)
    BY Decision DEF Compared
  <1>3. \A s \in mask : rxdataF[s] = <<p.sf, s>>
    BY <1>1, <1>2 DEF AsynchStored, InTime
  <1>4. \A s \in mask' : rxdataF'[s] = <<expected', s>>
    BY <1>1, <1>2, <1>3, StoredSamples
  <1>5. rcc' = "handed" => Whole(got)'
    BY <1>1, <1>2, <1>3, CompleteWhole, WholeGot
  <1>6. QED
    BY <1>2, <1>4, <1>5

\* A whole subframe has been read to its end.
LEMMA WholeRead ==
  ASSUME TypeOK, TypeOK', Buffer, Link, Link', Lookup, SyncStored, ~asynch, ReadPacket,
         NEW p, p = Head(net).packet, Complete, Whole(p.sf)'
  PROVE  From(p.sf + 1)'
  <1>1. /\ p \in Packet /\ True(p) /\ type = p.type /\ Store(p) /\ rcc # "stopped"
        /\ p.sf \in Nat
    BY ReadOne, Decision, PositionTyped, ConstantsFacts
  <1>2. \A s \in mask : \E sf \in 0 .. Last :
           rxdataF[s] = <<sf, s>> /\ Precedes(<<sf, s>>, Position(p))
    <2>1. \A s \in mask, sf \in 0 .. Last : <<sf, s>> \in Positions
      BY ConstantsFacts DEF TypeOK, Positions
    <2>2. QED
      BY <1>1, <2>1, ReadKeepsPast DEF SyncStored
  <1>3. \A q \in Positions : Used(q) /\ Precedes(Position(p), q) => q[1] >= p.sf + 1
    BY <1>1, <1>2, LastOfSubframe
  <1>4. Frontier'[1] >= p.sf + 1
    BY <1>3, ReadOne, FrontierTyped, FrontierUsed
  <1>5. \A i \in 1 .. Len(net') : net'[i].packet.sf >= p.sf + 1
    <2> SUFFICES ASSUME NEW i \in 1 .. Len(net')
                 PROVE  net'[i].packet.sf >= p.sf + 1
      OBVIOUS
    <2>1. net'[i] = net[i + 1] /\ i + 1 \in 1 .. Len(net) /\ i + 1 \in 2 .. Len(net)
      BY ReadOne
    <2>2. PICK q : q = net[i + 1].packet
      OBVIOUS
    <2>3. /\ q \in Packet /\ True(q) /\ Position(q) \in Positions /\ Position(q)[1] = q.sf
          /\ Precedes(Position(p), Position(q))
      BY <2>1, <2>2, LinkTyped, ReadOne DEF Link
    <2>4. Position(q)[1] >= p.sf + 1
      BY <1>3, <2>3, TrueUsed
    <2>5. QED
      BY <2>1, <2>2, <2>3, <2>4
  <1>6. QED
    BY <1>4, <1>5 DEF From

LEMMA ReadKeepsSync ==
  ASSUME TypeOK, TypeOK', Buffer, Link, Link', Lookup, SyncStored, ReadPacket
  PROVE  SyncStored'
  <1> SUFFICES ASSUME ~asynch, rcc' # "stopped"
               PROVE  /\ \A s \in mask' : \E sf \in 0 .. Last :
                            rxdataF'[s] = <<sf, s>> /\ Past(<<sf, s>>)'
                      /\ aligned' /\ ~first' /\ rcc' # "handed" =>
                            From(expected)' /\ \A s \in mask' : rxdataF'[s][1] >= expected'
                      /\ aligned' /\ rcc' = "handed" => Whole(got)' /\ From(got + 1)'
    BY DEF SyncStored, ReadPacket
  <1> PICK p : p = Head(net).packet
    OBVIOUS
  <1>1. /\ p \in Packet /\ True(p) /\ type = p.type /\ Store(p)
        /\ got' = p.sf /\ rcc # "stopped" /\ rcc # "handed"
        /\ p.sf \in 0 .. Last /\ p.sf \in Nat
        /\ expected \in Nat
    BY ReadOne, Decision, PositionTyped, ConstantsFacts DEF TypeOK
  <1>2. \A s \in mask, sf \in 0 .. Last : <<sf, s>> \in Positions
    BY ConstantsFacts DEF TypeOK, Positions
  <1>3. \A s \in mask' : \E sf \in 0 .. Last : rxdataF'[s] = <<sf, s>> /\ Past(<<sf, s>>)'
    <2> SUFFICES ASSUME NEW s \in mask'
                 PROVE  \E sf \in 0 .. Last : rxdataF'[s] = <<sf, s>> /\ Past(<<sf, s>>)'
      OBVIOUS
    <2>1. CASE s = p.sym /\ p.type = "PULFFT" /\ rxdataF'[s] = <<p.sf, s>>
      <3>1. Position(p) = <<p.sf, s>>
        BY <1>1, <2>1, StoredSamples
      <3>2. Past(<<p.sf, s>>)'
        BY <3>1, ReadKeepsPast
      <3>3. QED
        BY <1>1, <2>1, <3>2
    <2>2. CASE s \in mask /\ rxdataF'[s] = rxdataF[s]
      <3>1. PICK sf \in 0 .. Last : rxdataF[s] = <<sf, s>> /\ Past(<<sf, s>>)
        BY <1>1, <2>2 DEF SyncStored
      <3>2. Past(<<sf, s>>)'
        BY <1>2, <2>2, <3>1, ReadKeepsPast
      <3>3. QED
        BY <2>2, <3>1, <3>2
    <2>3. QED
      BY <1>1, <2>1, <2>2, StoredSamples
  <1>4. CASE ~Complete
    <2>1. rcc' = "recv" /\ first' = first /\ expected' = expected /\ aligned' = aligned
      BY <1>4, Decision DEF Compared, TypeOK
    <2>2. ASSUME aligned, ~first
          PROVE  From(expected)' /\ \A s \in mask' : rxdataF'[s][1] >= expected'
      <3>1. From(expected) /\ \A s \in mask : rxdataF[s][1] >= expected
        BY <1>1, <2>2 DEF SyncStored
      <3>2. PICK e \in Nat : e = expected
        BY <1>1
      <3>3. From(e)' /\ p.sf >= e
        BY <3>1, <3>2, ReadKeepsPast
      <3>4. From(expected)'
        BY <2>1, <3>2, <3>3 DEF From
      <3>5. \A s \in mask' : rxdataF'[s][1] >= expected'
        BY <1>1, <2>1, <3>1, <3>2, <3>3, StoredSamples
      <3>6. QED
        BY <3>4, <3>5
    <2>3. QED
      BY <1>3, <2>1, <2>2
  <1>5. CASE Complete
    <2>1. InTime(p) /\ rcc' = "handed" /\ expected' = p.sf
      BY <1>5, Decision DEF Compared
    <2>2. ASSUME aligned'
          PROVE  Whole(p.sf)'
      <3>1. CASE first
        BY <1>1, <2>1, <2>2, <3>1, Decision, WholeGot
      <3>2. CASE ~first
        <4>1. aligned /\ p.sf = expected
          BY <2>1, <2>2, <3>2, Decision DEF InTime
        <4>2. \A s \in mask : rxdataF[s] = <<p.sf, s>>
          <5> SUFFICES ASSUME NEW s \in mask
                       PROVE  rxdataF[s] = <<p.sf, s>>
            OBVIOUS
          <5>1. PICK sf \in 0 .. Last : rxdataF[s] = <<sf, s>> /\ Past(<<sf, s>>)
            BY <1>1 DEF SyncStored
          <5>2. sf >= p.sf
            BY <1>1, <3>2, <4>1, <5>1 DEF SyncStored
          <5>3. Precedes(<<sf, s>>, Position(p))
            BY <1>2, <5>1, ReadKeepsPast
          <5>4. sf <= p.sf /\ sf \in Nat
            BY <1>1, <1>2, <5>3, Order, PositionTyped, ConstantsFacts
          <5>5. QED
            BY <1>1, <5>1, <5>2, <5>4
        <4>3. QED
          BY <1>1, <1>5, <4>2, CompleteWhole
      <3>3. QED
        BY <3>1, <3>2
    <2>3. ASSUME aligned'
          PROVE  From(got + 1)'
      <3>1. From(p.sf + 1)'
        BY <1>1, <1>5, <2>2, <2>3, WholeRead
      <3>2. QED
        BY <1>1, <3>1 DEF From
    <2>4. QED
      BY <1>1, <1>3, <2>1, <2>2, <2>3, WholeGot
  <1>6. QED
    BY <1>4, <1>5

-----------------------------------------------------------------------------
\* The inductive invariant.

LEMMA InitInvariant ==
  ASSUME Init
  PROVE  IInv
  <1>1. TypeOK /\ Handed
    BY InitTyped
  <1>2. Buffer /\ Link /\ Lookup
    BY DEF Init, Buffer, Link, Lookup
  <1>3. AsynchStored /\ SyncStored
    <2>1. From(0)
      BY ConstantsFacts DEF Init, From, Frontier
    <2>2. QED
      BY <2>1 DEF Init, AsynchStored, SyncStored
  <1>4. QED
    BY <1>1, <1>2, <1>3 DEF IInv

LEMMA RruInvariant ==
  ASSUME IInv, Paced, Rru
  PROVE  IInv'
  <1> USE DEF IInv
  <1>1. TypeOK' /\ Handed'
    BY RruTyped
  <1>2. Buffer' /\ UNCHANGED rccVars
    BY RruSends
  <1>3. Link'
    BY <1>1, RruKeepsLink
  <1>4. Lookup'
    <2>1. ASSUME rcc' = "payload"
          PROVE  net' # <<>> /\ type' = Head(net').packet.type
      <3>1. net # <<>> /\ type = Head(net).packet.type
        BY <1>2, <2>1 DEF Lookup, rccVars
      <3>2. Head(net') = Head(net) /\ net' # <<>>
        BY <3>1, RruSends DEF Sends, TypeOK
      <3>3. QED
        BY <1>2, <3>1, <3>2 DEF rccVars
    <2>2. QED
      BY <2>1 DEF Lookup
  <1>5. AsynchStored'
    BY <1>2 DEF AsynchStored, Whole, rccVars
  <1>6. SyncStored'
    <2> SUFFICES ASSUME ~asynch, rcc # "stopped"
                 PROVE  /\ \A s \in mask : \E sf \in 0 .. Last :
                              rxdataF[s] = <<sf, s>> /\ Past(<<sf, s>>)'
                        /\ aligned /\ ~first /\ rcc # "handed" =>
                              From(expected)' /\ \A s \in mask : rxdataF[s][1] >= expected
                        /\ aligned /\ rcc = "handed" => Whole(got)' /\ From(got + 1)'
      BY <1>2 DEF SyncStored, rccVars
    <2>1. \A s \in mask, sf \in 0 .. Last : <<sf, s>> \in Positions
      BY ConstantsFacts DEF TypeOK, Positions
    <2>2. \A s \in mask : \E sf \in 0 .. Last : rxdataF[s] = <<sf, s>> /\ Past(<<sf, s>>)'
      BY <1>1, <2>1, RruKeepsPast DEF SyncStored
    <2>3. PICK e \in Nat, g \in Nat : e = expected /\ g = got + 1
      BY ConstantsFacts DEF TypeOK
    <2>4. From(e) => From(e)'
      BY <1>1, RruKeepsFrom
    <2>5. From(g) => From(g)'
      BY <1>1, RruKeepsFrom
    <2>6. (From(expected) => From(expected)') /\ (From(got + 1) => From(got + 1)')
      BY <1>2, <2>3, <2>4, <2>5 DEF From, rccVars
    <2>7. Whole(got) => Whole(got)'
      BY <1>2 DEF Whole, rccVars
    <2>8. QED
      BY <2>2, <2>6, <2>7 DEF SyncStored
  <1>7. QED
    BY <1>1, <1>2, <1>3, <1>4, <1>5, <1>6

LEMMA NoneShort ==
  ASSUME TypeOK, Link, Lookup
  PROVE  ~ReadShort
  <1> SUFFICES ASSUME ReadShort
               PROVE  FALSE
    OBVIOUS
  <1>1. /\ net # <<>> /\ type = Head(net).packet.type
        /\ Head(net) = net[1] /\ 1 \in 1 .. Len(net)
        /\ Head(net).size < Size(type)
    BY Tailed DEF ReadShort, Lookup, TypeOK
  <1>2. QED
    BY <1>1 DEF Link, Size

\* Everything of the RCC but the reading of a packet.
LEMMA OtherInvariant ==
  ASSUME IInv, Peek, ReadHeader \/ ReadShort \/ NextSubframe \/ Timeout
  PROVE  IInv'
  <1> USE DEF IInv
  <1>1. TypeOK' /\ Handed'
    BY RccTyped DEF Rcc
  <1>2. /\ UNCHANGED <<rru, net, asynch>>
        /\ Frontier' = Frontier
    <2>1. ~ReadShort
      BY NoneShort
    <2>2. UNCHANGED <<rru, net, asynch>>
      BY <2>1 DEF ReadHeader, NextSubframe, Timeout
    <2>3. QED
      BY <2>2 DEF rru, Frontier
  <1>3. Buffer' /\ Link'
    BY <1>2 DEF rru, Buffer, Link
  <1>4. CASE ReadHeader
    <2>1. /\ rcc = "recv" /\ rcc' = "payload" /\ net # <<>> /\ type' = Head(net).packet.type
          /\ UNCHANGED <<expected, first, got, mask, waiting, rxdataF, rxsigF, aligned>>
      BY <1>4 DEF ReadHeader
    <2>2. Lookup' /\ AsynchStored'
      BY <1>2, <2>1 DEF Lookup, AsynchStored
    <2>3. SyncStored'
      BY <1>2, <2>1 DEF SyncStored, Past, From
    <2>4. QED
      BY <1>1, <1>3, <2>2, <2>3
  <1>5. CASE NextSubframe
    <2>1. /\ rcc = "handed" /\ rcc' = "recv" /\ mask' = {} /\ expected' = got + 1
          /\ ~first' /\ aligned' = aligned
      BY <1>5 DEF NextSubframe, Handed
    <2>2. Lookup' /\ AsynchStored'
      BY <2>1 DEF Lookup, AsynchStored
    <2>3. SyncStored'
      <3>1. From(got + 1) => From(expected)'
        BY <1>2, <2>1 DEF From
      <3>2. QED
        BY <1>2, <2>1, <3>1 DEF SyncStored
    <2>4. QED
      BY <1>1, <1>3, <2>2, <2>3
  <1>6. CASE Timeout
    BY <1>1, <1>3, <1>6 DEF Timeout, Lookup, AsynchStored, SyncStored
  <1>7. CASE ReadShort
    BY <1>7, NoneShort
  <1>8. QED
    BY <1>4, <1>5, <1>6, <1>7

LEMMA ReadInvariant ==
  ASSUME IInv, ReadPacket
  PROVE  IInv'
  <1> USE DEF IInv
  <1>1. TypeOK' /\ Handed'
    BY RccTyped DEF Rcc
  <1>2. Buffer' /\ Lookup'
    <2>1. rcc' # "payload" /\ UNCHANGED rru
      BY DEF ReadPacket
    <2>2. QED
      BY <2>1 DEF rru, Frontier, Buffer, Lookup
  <1>3. Link'
    BY ReadKeepsLink
  <1>4. AsynchStored' /\ SyncStored'
    BY <1>1, <1>3, ReadKeepsAsynch, ReadKeepsSync
  <1>5. QED
    BY <1>1, <1>2, <1>3, <1>4

-----------------------------------------------------------------------------
\* The first subframe when nothing is lost.

LEMMA RruKeepsFirst ==
  ASSUME IInv, Paced, Rru, UNCHANGED lost, Lossless
  PROVE  Lossless'
  <1> USE DEF IInv
  <1>1. TypeOK' /\ UNCHANGED rccVars
    BY RruTyped, RruSends
  <1>2. \A a \in Positions : Used(a) /\ ToCome(a) => ToCome(a)'
    BY <1>1, RruKeepsToCome
  <1>3. \A s \in AllSymbols : <<0, s>> \in Positions /\ Used(<<0, s>>)
    BY ConstantsFacts DEF Positions, Used, AllSymbols
  <1>4. <<0, Symbols>> \in Positions /\ (0 \in PrachSubframes => Used(<<0, Symbols>>))
    BY ConstantsFacts DEF Positions, Used
  <1>5. QED
    BY <1>1, <1>2, <1>3, <1>4 DEF Lossless, FirstSubframe, rccVars

LEMMA RccKeepsFirst ==
  ASSUME IInv, Peek, Rcc, Lossless
  PROVE  Lossless'
  <1> USE DEF IInv
  <1>1. CASE ReadHeader \/ Timeout
    <2>1. /\ UNCHANGED <<asynch, net, aligned, first, mask, rxdataF>>
          /\ Frontier' = Frontier /\ rcc # "stopped"
      BY <1>1 DEF ReadHeader, Timeout, rru, Frontier
    <2>2. QED
      BY <2>1 DEF Lossless, FirstSubframe, ToCome
  <1>2. CASE ReadShort
    BY <1>2, NoneShort
  <1>3. CASE NextSubframe
    BY <1>3 DEF NextSubframe, Handed, Lossless, FirstSubframe
  <1>4. CASE ReadPacket
    <2> SUFFICES ASSUME ~asynch
                 PROVE  aligned' /\ FirstSubframe'
      BY <1>4, Decision DEF Lossless, FirstSubframe
    <2> PICK p : p = Head(net).packet
      OBVIOUS
    <2>1. /\ p \in Packet /\ True(p) /\ type = p.type /\ Store(p) /\ got' = p.sf
          /\ rcc # "stopped" /\ aligned
          /\ Position(p) \in Positions /\ Position(p)[1] = p.sf /\ p.sf \in Nat
      BY <1>4, ReadOne, Decision, PositionTyped, ConstantsFacts DEF Lossless
    <2>2. CASE ~first
      BY <2>1, <2>2, <1>4, Decision DEF FirstSubframe
    <2>3. CASE first
      <3>1. /\ \A s \in AllSymbols : <<0, s>> \in Positions
            /\ <<0, Symbols>> \in Positions
        BY ConstantsFacts DEF Positions
      <3>2. \A a \in Positions :
               ToCome(a) => a = Position(p) \/ (ToCome(a)' /\ Precedes(Position(p), a))
        BY <1>4, ReadKeepsToCome
      <3>3. /\ \A s \in AllSymbols :
                  IF s \in mask THEN rxdataF[s] = <<0, s>> ELSE ToCome(<<0, s>>)
            /\ 0 \in PrachSubframes => ToCome(<<0, Symbols>>)
            /\ mask = AllSymbols => 0 \in PrachSubframes
        BY <2>1, <2>3 DEF Lossless, FirstSubframe
      <3>4. mask \subseteq AllSymbols
        BY DEF TypeOK
      <3>5. p.sf = 0
        <4> SUFFICES ASSUME p.sf # 0
                     PROVE  FALSE
          OBVIOUS
        <4>1. \A n \in Nat : <<0, n>> \in Positions => ~ToCome(<<0, n>>)
          BY <2>1, <3>2 DEF Precedes
        <4>2. \A s \in AllSymbols : s \in mask
          <5>1. \A s \in AllSymbols : s \in Nat
            BY ConstantsFacts DEF AllSymbols
          <5>2. QED
            BY <3>1, <3>3, <4>1, <5>1
        <4>3. QED
          BY <3>1, <3>3, <3>4, <4>1, <4>2, ConstantsFacts
      <3>6. p.type = "PRACH" => mask = AllSymbols
        <4> SUFFICES ASSUME p.type = "PRACH", NEW s \in AllSymbols, s \notin mask
                     PROVE  FALSE
          BY <3>4
        <4>1. Position(p) = <<0, Symbols>>
          BY <2>1, <3>5, StoredSamples
        <4>2. ToCome(<<0, s>>) /\ <<0, s>> \in Positions
          BY <3>1, <3>3
        <4>3. <<0, s>> = Position(p) \/ Precedes(Position(p), <<0, s>>)
          BY <3>2, <4>2
        <4>4. s \in Nat /\ s < Symbols
          BY ConstantsFacts DEF AllSymbols
        <4>5. QED
          BY <4>1, <4>3, <4>4, ConstantsFacts DEF Precedes
      <3>7. \A s \in mask : rxdataF[s] = <<p.sf, s>>
        BY <3>3, <3>4, <3>5
      <3>8. aligned'
        <4>1. rcc' = "handed" => Complete
          BY <1>4, Decision
        <4>2. Complete => Whole(p.sf)'
          BY <2>1, <3>7, CompleteWhole
        <4>3. QED
          BY <1>4, <2>1, <4>1, <4>2, Decision, WholeGot
      <3>9. FirstSubframe'
        <4> SUFFICES ASSUME first', rcc' # "stopped"
                     PROVE  /\ \A s \in AllSymbols :
                                  IF s \in mask' THEN rxdataF'[s] = <<0, s>> ELSE ToCome(<<0, s>>)'
                            /\ 0 \in PrachSubframes => ToCome(<<0, Symbols>>)'
                            /\ mask' = AllSymbols => 0 \in PrachSubframes
          BY DEF FirstSubframe
        <4>1. ~Complete
          BY <1>4, <2>3, Decision DEF Compared, InTime, TypeOK
        <4>2. p.type = "PULFFT"
          BY <2>1, <3>6, <4>1, StoredSamples DEF Complete
        <4>3. Position(p) = <<0, p.sym>> /\ mask' = mask \cup {p.sym} /\ p.sym \in AllSymbols
          BY <2>1, <3>5, <4>2, StoredSamples
        <4>4. \A s \in AllSymbols :
                 IF s \in mask' THEN rxdataF'[s] = <<0, s>> ELSE ToCome(<<0, s>>)'
          <5>1. \A s \in mask' : rxdataF'[s] = <<0, s>>
            BY <2>1, <3>5, <3>7, StoredSamples
          <5>2. ASSUME NEW s \in AllSymbols, s \notin mask'
                PROVE  ToCome(<<0, s>>)'
            <6>1. ToCome(<<0, s>>) /\ <<0, s>> \in Positions /\ <<0, s>> # Position(p)
              BY <3>1, <3>3, <4>3, <5>2
            <6>2. QED
              BY <3>2, <6>1
          <5>3. QED
            BY <5>1, <5>2
        <4>5. 0 \in PrachSubframes => ToCome(<<0, Symbols>>)'
          BY <3>1, <3>2, <3>3, <4>3, ConstantsFacts DEF AllSymbols
        <4>6. mask' = AllSymbols => 0 \in PrachSubframes
          BY <2>1, <3>5, <4>1, <4>2, StoredSamples DEF Complete
        <4>7. QED
          BY <4>4, <4>5, <4>6
      <3>10. QED
        BY <3>8, <3>9
    <2>4. QED
      BY <2>2, <2>3 DEF TypeOK
  <1>5. QED
    BY <1>1, <1>2, <1>3, <1>4 DEF Rcc

-----------------------------------------------------------------------------
THEOREM Invariance ==
  ASSUME Peek, Paced
  PROVE  MCSpec => []MCIInv
  <1>1. MCInit => MCIInv
    <2> SUFFICES ASSUME MCInit
                 PROVE  MCIInv
      OBVIOUS
    <2>1. IInv
      BY InitInvariant DEF MCInit
    <2>2. Lossless
      <3>1. \A s \in AllSymbols : s >= 0
        BY ConstantsFacts
      <3>2. \A n \in Nat : ToCome(<<0, n>>)
        BY DEF MCInit, Init, ToCome, Precedes, Frontier
      <3>3. QED
        BY <3>1, <3>2, ConstantsFacts DEF MCInit, Init, Lossless, FirstSubframe
    <2>3. QED
      BY <2>1, <2>2 DEF MCIInv
  <1>2. MCIInv /\ [MCNext]_<<vars, use>> => MCIInv'
    <2> SUFFICES ASSUME MCIInv, [MCNext]_<<vars, use>>, use # "untimed"
                 PROVE  IInv' /\ (use = "lossless" => Lossless')
      BY DEF MCIInv, MCNext
    <2>1. IInv /\ (use = "lossless" => Lossless)
      BY DEF MCIInv
    <2>2. CASE Rru /\ (use = "lossless" => lost' = lost)
      BY <2>1, <2>2, RruInvariant, RruKeepsFirst
    <2>3. CASE Rcc
      BY <2>1, <2>3, ReadInvariant, OtherInvariant, RccKeepsFirst DEF Rcc
    <2>4. CASE UNCHANGED vars
      <3>1. UNCHANGED <<rru, net, rccVars>> /\ Frontier' = Frontier
        BY <2>4 DEF vars, rru, Frontier
      <3>2. IInv'
        <4>1. TypeOK' /\ Handed'
          BY <2>1, <2>4 DEF vars, rru, rccVars, IInv, TypeOK, Handed
        <4>2. Buffer' /\ Link' /\ Lookup'
          BY <2>1, <3>1 DEF rru, rccVars, IInv, Buffer, Link, Lookup
        <4>3. AsynchStored'
          BY <2>1, <3>1 DEF rccVars, IInv, AsynchStored, Whole
        <4>4. SyncStored'
          BY <2>1, <3>1 DEF rccVars, IInv, SyncStored, Whole, Past, From
        <4>5. QED
          BY <4>1, <4>2, <4>3, <4>4 DEF IInv
      <3>3. Lossless => Lossless'
        BY <3>1 DEF rccVars, Lossless, FirstSubframe, ToCome
      <3>4. QED
        BY <2>1, <3>2, <3>3
    <2>5. QED
      BY <2>2, <2>3, <2>4 DEF MCNext, MCRru
  <1>3. QED
    BY <1>1, <1>2, PTL DEF MCSpec

\* A subframe that the RCC hands on with parts of several, or with parts left over from
\* an earlier one, is never taken for whole: fh_if4p5_asynch_UL never hands one on,
\* rx_fh_if4p5 none after a whole first one, and without loss the first one is whole.
THEOREM MixedIsCaught ==
  ASSUME Peek, Paced
  PROVE  MCSpec => []MixedCaught
  <1>1. MCIInv => MixedCaught
    BY DEF MCIInv, IInv, Lossless, AsynchStored, SyncStored, MixedCaught, InfoComplete, TypeOK
  <1>2. QED
    BY <1>1, Invariance, PTL

=============================================================================
