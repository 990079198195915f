--------------------------- MODULE If4p5Assembly ---------------------------
(***************************************************************************)
(* The uplink of the IF4p5 fronthaul: a remote radio unit (RRU) sends the  *)
(* symbols of a subframe one packet each, its PRACH thread sends the PRACH *)
(* samples of the subframe from the same transmit buffer, and the radio    *)
(* cloud centre (RCC) puts a subframe together with a mask of the symbols  *)
(* that have come (send_IF4p5, recv_IF4p5, rx_fh_if4p5 and, for an RCC     *)
(* that follows another one's timing, fh_if4p5_asynch_UL).                 *)
(*                                                                         *)
(* Abstraction: frame and subframe are one absolute number; the samples of *)
(* a packet are the name of what they were taken from, <<subframe, part>>; *)
(* the link keeps the order, holds at most MaxNet packets and loses at     *)
(* most MaxLost.                                                           *)
(***************************************************************************)
EXTENDS Naturals, Sequences, FiniteSets

CONSTANTS
    Symbols,         \* fp->symbols_per_tti
    Last,            \* Bound: the RRU sends the subframes 0 .. Last
    PrachSubframes,  \* those for which is_prach_subframe holds
    MaxLost,         \* Bound: packets the link loses
    MaxNet,          \* Bound: packets on the link, which no sender overruns
    Peek,            \* the header is read with MSG_PEEK: raw sockets, not UDP
    Paced            \* the PRACH thread is done before the next subframe

ASSUME ConstantsAssumption ==
    /\ Symbols \in Nat \ {0}
    /\ Last \in Nat
    /\ PrachSubframes \subseteq 0 .. Last
    /\ MaxLost \in Nat /\ MaxNet \in Nat \ {0}
    /\ Peek \in BOOLEAN /\ Paced \in BOOLEAN

VARIABLES
    fh,        \* RRU: where the thread that sends the symbols is
    fhSf,      \* RRU: the subframe it sends
    fhSym,     \* RRU: symbol_id
    pr,        \* RRU: where the PRACH thread is
    prSf,      \* RRU: proc->subframe_prach
    buf,       \* RRU: ifbuffer.tx, header and data
    net,       \* the packets on the link
    lost,      \* how many packets the link has lost
    asynch,    \* RCC: fh_if4p5_asynch_UL, not rx_fh_if4p5, assembles
    rcc,       \* RCC: where the receiving thread is
    type,      \* RCC: packet_type
    expected,  \* RCC: the subframe counted locally by eNB_thread_single
    first,     \* RCC: proc->first_rx
    got,       \* RCC: proc->subframe_rx
    mask,      \* RCC: symbol_mask, as a set
    waiting,   \* RCC: prach_rx
    rxdataF,   \* RCC: the frequency domain samples of each symbol
    rxsigF,    \* RCC: the PRACH samples
    aligned    \* history: the first subframe handed on was whole

rru == <<fh, fhSf, fhSym, pr, prSf, buf>>
rccVars == <<asynch, rcc, type, expected, first, got, mask, waiting, rxdataF, rxsigF,
             aligned>>
vars == <<rru, net, lost, rccVars>>

AllSymbols == 0 .. Symbols - 1
Kinds == {"PULFFT", "PRACH"}
Samples == (0 .. Last) \X (0 .. Symbols)
NoSamples == <<>>
PrachOf(sf) == <<sf, Symbols>>

\* A PRACH packet is longer than a symbol at every bandwidth.
Size(kind) == IF kind = "PRACH" THEN 2 ELSE 1

Packet == [type : Kinds, sf : 0 .. Last, sym : AllSymbols,
           data : Samples \cup {NoSamples}]

Datagram == [packet : Packet, size : 1 .. 2]

TypeOK ==
    /\ fh \in {"header", "data", "write", "post", "done", "exit"}
    /\ fhSf \in 0 .. Last /\ fhSym \in AllSymbols
    /\ pr \in {"parked", "header", "data", "write"}
    /\ prSf \in 0 .. Last
    /\ buf \in Packet
    /\ net \in Seq(Datagram)
    /\ lost \in 0 .. MaxLost
    /\ rcc \in {"recv", "payload", "handed", "stopped"}
    /\ type \in Kinds
    /\ expected \in 0 .. Last + 1 /\ got \in 0 .. Last
    /\ asynch \in BOOLEAN /\ first \in BOOLEAN /\ waiting \in BOOLEAN /\ aligned \in BOOLEAN
    /\ mask \subseteq AllSymbols
    /\ rxdataF \in [AllSymbols -> Samples \cup {NoSamples}]
    /\ rxsigF \in Samples \cup {NoSamples}

Init ==
    /\ fh = "header" /\ fhSf = 0 /\ fhSym = 0
    /\ pr = "parked" /\ prSf = 0
    /\ buf = [type |-> "PULFFT", sf |-> 0, sym |-> 0, data |-> NoSamples]
    /\ net = <<>> /\ lost = 0
    /\ asynch \in BOOLEAN
    /\ rcc = "recv" /\ type = "PULFFT" /\ expected = 0 /\ first = TRUE
    /\ got = 0 /\ mask = {} /\ waiting = FALSE
    /\ rxdataF = [s \in AllSymbols |-> NoSamples] /\ rxsigF = NoSamples
    /\ aligned = TRUE

-----------------------------------------------------------------------------
\* The RRU.

\* A header overwrites the buffer that both threads send from.
GenHeader(kind, sf) == [buf EXCEPT !.type = kind, !.sf = sf, !.sym = 0]

\* The link takes the buffer as it is now; the length is the sender's own.
Send(kind) ==
    \/ /\ Len(net) < MaxNet
       /\ net' = Append(net, [packet |-> buf, size |-> Size(kind)])
       /\ UNCHANGED lost
    \/ /\ lost < MaxLost
       /\ lost' = lost + 1
       /\ UNCHANGED net

\* One header per subframe, then only the symbol number changes.
FhHeader ==
    /\ fh = "header"
    /\ Paced => pr = "parked"
    /\ buf' = GenHeader("PULFFT", fhSf)
    /\ fhSym' = 0
    /\ fh' = "data"
    /\ UNCHANGED <<fhSf, pr, prSf, net, lost, rccVars>>

FhData ==
    /\ fh = "data"
    /\ buf' = [buf EXCEPT !.data = <<fhSf, fhSym>>, !.sym = fhSym]
    /\ fh' = "write"
    /\ UNCHANGED <<fhSf, fhSym, pr, prSf, net, lost, rccVars>>

FhWrite ==
    /\ fh = "write"
    /\ Send("PULFFT")
    /\ IF fhSym + 1 < Symbols
       THEN fh' = "data" /\ fhSym' = fhSym + 1
       ELSE fh' = "post" /\ UNCHANGED fhSym
    /\ UNCHANGED <<fhSf, pr, prSf, buf, rccVars>>

\* Mutant: the PRACH thread is left out.
PostNobody ==
    /\ fh = "post"
    /\ IF fhSf = Last THEN fh' = "done" /\ UNCHANGED fhSf
                      ELSE fh' = "header" /\ fhSf' = fhSf + 1
    /\ UNCHANGED <<fhSym, pr, prSf, buf, net, lost, rccVars>>

\* do_prach, after eNB->fep has sent the symbols; then the next subframe.
Post ==
    /\ fh = "post"
    /\ IF fhSf \in PrachSubframes
       THEN pr = "parked" /\ pr' = "header" /\ prSf' = fhSf
       ELSE UNCHANGED <<pr, prSf>>
    /\ IF fhSf = Last THEN fh' = "done" /\ UNCHANGED fhSf
                      ELSE fh' = "header" /\ fhSf' = fhSf + 1
    /\ UNCHANGED <<fhSym, buf, net, lost, rccVars>>

\* "PRACH thread busy": do_prach polls its counter ten times, and ends the program.
PrachBusy ==
    /\ fh = "post" /\ fhSf \in PrachSubframes /\ pr # "parked"
    /\ fh' = "exit"
    /\ UNCHANGED <<fhSf, fhSym, pr, prSf, buf, net, lost, rccVars>>

PrHeader ==
    /\ pr = "header"
    /\ buf' = GenHeader("PRACH", prSf)
    /\ pr' = "data"
    /\ UNCHANGED <<fh, fhSf, fhSym, prSf, net, lost, rccVars>>

PrData ==
    /\ pr = "data"
    /\ buf' = [buf EXCEPT !.data = PrachOf(prSf)]
    /\ pr' = "write"
    /\ UNCHANGED <<fh, fhSf, fhSym, prSf, net, lost, rccVars>>

PrWrite ==
    /\ pr = "write"
    /\ Send("PRACH")
    /\ pr' = "parked"
    /\ UNCHANGED <<fh, fhSf, fhSym, prSf, buf, rccVars>>

-----------------------------------------------------------------------------
\* The RCC.

\* The type of the packet is read before the packet: with MSG_PEEK on a raw
\* socket, by a recvfrom that takes the datagram away on a UDP socket.
ReadHeader ==
    /\ rcc = "recv" /\ net # <<>>
    /\ type' = Head(net).packet.type
    /\ net' = IF Peek THEN net ELSE Tail(net)
    /\ rcc' = "payload"
    /\ UNCHANGED <<asynch, rru, lost, expected, first, got, mask, waiting, rxdataF, rxsigF,
                   aligned>>

\* Datagrams shorter than the type asks for are read over.
ReadShort ==
    /\ rcc = "payload" /\ net # <<>>
    /\ Head(net).size < Size(type)
    /\ net' = Tail(net)
    /\ UNCHANGED <<rru, lost, rccVars>>

\* recv_IF4p5 writes the samples where the header says, then the mask and the
\* need for a PRACH packet are brought up to date.
Store(p) ==
    /\ rxdataF' = IF type = "PULFFT" THEN [rxdataF EXCEPT ![p.sym] = p.data] ELSE rxdataF
    /\ rxsigF' = IF type = "PRACH" THEN p.data ELSE rxsigF
    /\ mask' = IF type = "PULFFT" THEN mask \cup {p.sym} ELSE mask
    /\ waiting' = (type = "PULFFT" /\ p.sf \in PrachSubframes)

Whole(sf) ==
    /\ \A s \in AllSymbols : rxdataF[s] = <<sf, s>>
    /\ sf \in PrachSubframes => rxsigF = PrachOf(sf)

Complete == mask' = AllSymbols /\ ~waiting'

\* fh_if4p5_asynch_UL compares every packet, rx_fh_if4p5 only the last one of a
\* complete subframe; the first one is taken as it comes.
Compared == asynch \/ Complete

\* Mutant: a subframe that is not the one counted on is taken.
AnySubframe(p) == TRUE

\* The packet's subframe is the one counted on, or the first.
InTime(p) == first \/ p.sf = expected

ReadPacket ==
    /\ rcc = "payload" /\ net # <<>>
    /\ Head(net).size >= Size(type)
    /\ net' = Tail(net)
    /\ LET p == Head(net).packet IN
         /\ Store(p)
         /\ got' = p.sf
         /\ IF ~Compared \/ InTime(p)
            THEN /\ rcc' = IF Complete THEN "handed" ELSE "recv"
                 /\ first' = (first /\ ~Compared)
                 /\ expected' = IF Compared THEN p.sf ELSE expected
            ELSE rcc' = "stopped" /\ UNCHANGED <<first, expected>>
    /\ aligned' = IF first /\ rcc' = "handed" THEN Whole(got)' ELSE aligned
    /\ UNCHANGED <<asynch, rru, lost, type>>

\* The subframe is processed; the loop counts on to the next one.
NextSubframe ==
    /\ rcc = "handed"
    /\ expected' = expected + 1
    /\ mask' = {} /\ waiting' = FALSE
    /\ rcc' = "recv"
    /\ UNCHANGED <<asynch, rru, net, lost, type, first, got, rxdataF, rxsigF, aligned>>

\* Mutant: no receive timeout is set, as on a UDP socket.
NoTimeout == FALSE /\ UNCHANGED vars

\* A raw socket is given a receive timeout, and an error of recv ends the
\* program; a UDP socket waits for ever.
Timeout ==
    /\ Peek
    /\ rcc \in {"recv", "payload"} /\ net = <<>>
    /\ fh \in {"done", "exit"} /\ pr = "parked"
    /\ rcc' = "stopped"
    /\ UNCHANGED <<asynch, rru, net, lost, type, expected, first, got, mask, waiting, rxdataF,
                   rxsigF, aligned>>

Rru == FhHeader \/ FhData \/ FhWrite \/ Post \/ PrachBusy \/ PrHeader \/ PrData \/ PrWrite
Rcc == ReadHeader \/ ReadShort \/ ReadPacket \/ NextSubframe \/ Timeout
Next == Rru \/ Rcc

Spec == Init /\ [][Next]_vars

-----------------------------------------------------------------------------
\* "At this point, all information for subframe has been received on FH
\* interface" (lte-enb.c:1314): the subframe handed to the receiver procedures
\* has every symbol, and the PRACH samples when it has any, of itself.
InfoComplete == rcc = "handed" => Whole(got)
=============================================================================
