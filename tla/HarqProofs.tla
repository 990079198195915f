------------------------------ MODULE HarqProofs ------------------------------
(***************************************************************************)
(* The HARQ of one UE slot, in both directions.                             *)
(*                                                                         *)
(* Uplink (UlHarq), for every set of identities and of processes and for    *)
(* every limit.  At any speed of the m2p and cch threads and whatever the   *)
(* UE misses: the UE a DCI is for is in its slot.  With the PHICH built     *)
(* after the DCIs: what the UE is told to send is received.  If moreover it *)
(* misses nothing: no packet is delivered twice.                            *)
(*                                                                         *)
(* Downlink (DlHarq), for every limit and every width of round, when no     *)
(* UE's feedback is processed twice (~Overlap): what a process counts, and  *)
(* when it is ready for a new packet.                                       *)
(***************************************************************************)
EXTENDS MCUlHarq, DlHarq, TLAPS

(* The shape of the records; times, counts and processes may be anything.   *)
IsSlot(s) == s \in [rnti : Rntis \cup {None}, mode : Mode, msg3Active : BOOLEAN,
                    msg3Flag : BOOLEAN, msg3In : {s.msg3In}, errors : {s.errors}]
IsMac(m) == m \in [ue : Rntis \cup {None}, failing : BOOLEAN, sched : {m.sched}]
IsSub(s) == s \in [dci : BOOLEAN, rar : Rntis \cup {None}, hi : {"off", "ack", "nak"},
                   sent : BOOLEAN, m2p : {"clear", "alloc", "flag", "rar", "done"},
                   cch : {"look", "act", "done"}, saw : {"none", "alone", "alloc"}]
Shape == IsSlot(slot) /\ IsMac(mac) /\ IsSub(sub)

(* Msg3_flag is set only while the random access goes on, and cleared with  *)
(* the change of mode: a UE the MAC knows is not removed as a failed Msg3.  *)
Msg3Over == slot.mode = "PUSCH" => ~slot.msg3Flag

(* A random access response is for a slot that is empty until it is sent.   *)
RarIsFree == sub.rar # None /\ sub.m2p # "done" => slot.rnti = None

(* Nothing is scheduled before the MAC scheduler has run. *)
NotYet == phase \in {"rx", "sched"} => ~sub.dci /\ sub.rar = None

IInv == Shape /\ Msg3Over /\ RarIsFree /\ NotYet /\ UeFound

(* process_Msg3 leaves the UE and the mode; it sets Msg3_flag only in mode  *)
(* RA_RESPONSE.                                                             *)
LEMMA PreparedSlot ==
  ASSUME IInv
  PROVE  /\ IsSlot(Prepared)
         /\ Prepared.rnti = slot.rnti /\ Prepared.mode = slot.mode
         /\ slot.mode = "PUSCH" => ~Prepared.msg3Flag
  BY DEF IInv, Shape, IsSlot, Msg3Over, Prepared, Msg3Due, Mode

(* What mac_phy_remove_ue leaves is an empty slot. *)
LEMMA FreedSlot ==
  ASSUME NEW s, IsSlot(s)
  PROVE  /\ IsSlot(FreeSlot(s))
         /\ FreeSlot(s).rnti = None /\ FreeSlot(s).mode = "NOT_SYNCHED"
  BY DEF IsSlot, FreeSlot, Mode

(* The reception of a subframe leaves the schedule alone. *)
LEMMA ReceiveSub ==
  ASSUME IInv, Skip \/ Fail \/ Decode
  PROVE  /\ IsSub(sub') /\ ~sub'.dci /\ sub'.rar = None
         /\ phase' = "sched"
  BY DEF IInv, Shape, IsSub, NotYet, Skip, Fail, Decode, Sending

(* The reception of a subframe. *)
LEMMA ReceiveKeeps ==
  ASSUME IInv, Skip \/ Fail \/ Decode
  PROVE  IInv'
  <1> DEFINE Good == /\ IsSlot(slot') /\ IsMac(mac')
                     /\ slot'.mode = "PUSCH" => ~slot'.msg3Flag
                     /\ mac'.ue # None => slot'.rnti = mac'.ue /\ slot'.mode = "PUSCH"
  <1> SUFFICES Good
    BY ReceiveSub DEF IInv, Shape, Msg3Over, RarIsFree, NotYet, UeFound
  <1>1. CASE Skip
    BY <1>1, PreparedSlot DEF Skip, IInv, Shape, UeFound
  <1>2. CASE Fail /\ FailPacket
    <2>1. /\ IsSlot(slot') /\ slot'.rnti = slot.rnti /\ slot'.mode = slot.mode
          /\ slot.mode = "PUSCH" => ~slot'.msg3Flag
      BY <1>2, PreparedSlot DEF FailPacket, IsSlot
    <2>2. IsMac(mac') /\ mac'.ue = mac.ue
      BY <1>2 DEF FailPacket, IInv, Shape, IsMac
    <2>3. QED
      BY <2>1, <2>2 DEF IInv, UeFound
  <1>3. CASE Decode /\ Deliver
    <2>1. /\ IsSlot(slot') /\ slot'.rnti = slot.rnti /\ slot'.mode = slot.mode
          /\ slot.mode = "PUSCH" => ~slot'.msg3Flag
      BY <1>3, PreparedSlot DEF Deliver, IsSlot
    <2>2. IsMac(mac') /\ mac'.ue = mac.ue
      BY <1>3 DEF Deliver, IInv, Shape, IsMac
    <2>3. QED
      BY <2>1, <2>2 DEF IInv, UeFound
  <1>4. CASE Decode /\ Msg3Ccch
    <2>1. /\ IsSlot(slot') /\ slot'.rnti = slot.rnti /\ slot'.mode = "PUSCH"
          /\ ~slot'.msg3Flag
      BY <1>4, PreparedSlot DEF Msg3Ccch, IsSlot, Mode
    <2>2. IsMac(mac') /\ mac'.ue = slot.rnti
      BY <1>4 DEF Msg3Ccch, NoMac, IInv, Shape, IsSlot, IsMac
    <2>3. QED
      BY <2>1, <2>2
  <1>5. CASE (Fail /\ FailMsg3) \/ (Decode /\ Msg3Crnti)
    <2>1. mac.ue = None /\ mac' = mac
      BY <1>5, PreparedSlot DEF FailMsg3, Msg3Crnti, IInv, UeFound
    <2>2. IsSlot(slot') /\ (slot'.mode = "PUSCH" => ~slot'.msg3Flag)
      <3>1. CASE Decode /\ Msg3Crnti
        BY <3>1, PreparedSlot, FreedSlot DEF Msg3Crnti, IsSlot, Mode
      <3>2. CASE Fail /\ FailMsg3 /\ Naked[now].round = MaxMsg3
        BY <3>2, PreparedSlot, FreedSlot DEF FailMsg3, IsSlot
      <3>3. CASE Fail /\ FailMsg3 /\ Naked[now].round # MaxMsg3
        <4>1. slot.mode # "PUSCH"
          BY <3>3, PreparedSlot DEF FailMsg3
        <4>2. QED
          BY <3>3, <4>1, PreparedSlot DEF FailMsg3, IsSlot
      <3>4. QED
        BY <1>5, <3>1, <3>2, <3>3
    <2>3. QED
      BY <2>1, <2>2 DEF IInv, Shape
  <1>6. QED
    BY <1>1, <1>2, <1>3, <1>4, <1>5 DEF Fail, Decode

(* The choices of the MAC scheduler. *)
LEMMA ScheduleKeeps ==
  ASSUME IInv,
         Drop \/ \E grant \in BOOLEAN, rar \in Rntis \cup {None} : Schedule(grant, rar)
  PROVE  IInv'
  <1>1. /\ IsSlot(Checked) /\ Checked.rnti = slot.rnti /\ Checked.mode = slot.mode
        /\ Checked.msg3Flag = slot.msg3Flag
    BY DEF IInv, Shape, IsSlot, Checked
  <1>2. CASE Drop
    <2>1. IsSlot(slot') /\ slot'.rnti = None /\ slot'.mode = "NOT_SYNCHED"
      BY <1>1, <1>2, FreedSlot DEF Drop
    <2>2. IsMac(mac') /\ mac'.ue = None
      BY <1>2 DEF Drop, NoMac, IsMac
    <2>3. IsSub(sub') /\ ~sub'.dci /\ sub'.rar = None
      BY <1>2 DEF Drop, IInv, Shape, IsSub, NotYet
    <2>4. QED
      BY <2>1, <2>2, <2>3 DEF IInv, Shape, Msg3Over, RarIsFree, NotYet, UeFound
  <1>3. CASE \E grant \in BOOLEAN, rar \in Rntis \cup {None} : Schedule(grant, rar)
    <2>1. PICK grant \in BOOLEAN, rar \in Rntis \cup {None} : Schedule(grant, rar)
      BY <1>3
    <2>2. MacFailing \in BOOLEAN
      BY DEF IInv, Shape, IsMac, MacFailing, Failed
    <2>3. (grant => mac.ue # None) /\ (rar # None => slot.rnti = None) /\ phase' = "tx"
      BY <2>1 DEF Schedule, Grantable
    <2>4. slot' = Checked
      BY <2>1 DEF Schedule
    <2>5. IsMac(mac') /\ mac'.ue = mac.ue
      BY <2>1, <2>2 DEF Schedule, IInv, Shape, IsMac
    <2>6. IsSub(sub') /\ sub'.dci = grant /\ sub'.rar = rar
      BY <2>1 DEF Schedule, IInv, Shape, IsSub
    <2>7. QED
      BY <1>1, <2>3, <2>4, <2>5, <2>6
         DEF IInv, Shape, Msg3Over, RarIsFree, NotYet, UeFound
  <1>4. QED
    BY <1>2, <1>3

(* The m2p thread, the cch thread and the UE. *)
LEMMA TransmitKeeps ==
  ASSUME IInv,
         ClearAlloc \/ ApplyDci \/ SetFlag \/ SendRar \/ Look \/ Act \/ End(FALSE) \/ Leave
  PROVE  IInv'
  <1>1. CASE ClearAlloc \/ ApplyDci \/ SetFlag \/ Look \/ Act
    <2>1. /\ IsSub(sub') /\ sub'.dci = sub.dci /\ sub'.rar = sub.rar
          /\ sub'.m2p = "done" => sub.m2p = "done"
          /\ sub.m2p = "done" => sub'.m2p = "done"
          /\ phase = "tx" /\ phase' = "tx" /\ slot' = slot /\ mac' = mac
      BY <1>1 DEF ClearAlloc, ApplyDci, SetFlag, Look, Act, IInv, Shape, IsSub
    <2>2. QED
      BY <2>1 DEF IInv, Shape, Msg3Over, RarIsFree, NotYet, UeFound
  <1>2. CASE SendRar
    <2>1. /\ IsSub(sub') /\ sub'.dci = sub.dci /\ sub'.m2p = "done"
          /\ phase' = "tx" /\ mac' = mac
      BY <1>2 DEF SendRar, IInv, Shape, IsSub
    <2>2. CASE sub.rar = None
      BY <1>2, <2>1, <2>2 DEF SendRar, IInv, Shape, Msg3Over, RarIsFree, NotYet, UeFound
    <2>3. CASE sub.rar # None
      <3>1. mac.ue = None
        BY <1>2, <2>3, SlotAssumption DEF SendRar, IInv, RarIsFree, UeFound
      <3>2. IsSlot(slot') /\ slot'.mode = "RA_RESPONSE"
        BY <1>2, <2>3 DEF SendRar, Msg3Delay, IInv, Shape, IsSlot, IsSub, Mode
      <3>3. QED
        BY <2>1, <3>1, <3>2 DEF IInv, Shape, Msg3Over, RarIsFree, NotYet, UeFound
    <2>4. QED
      BY <2>2, <2>3
  <1>3. ASSUME NEW leaves \in BOOLEAN, End(leaves)
        PROVE  IInv'
    <2>1. IsSub(sub') /\ ~sub'.dci /\ sub'.rar = None
      BY <1>3 DEF End, Idle, IsSub
    <2>2. /\ IsSlot(slot') /\ slot'.rnti = slot.rnti /\ slot'.mode = slot.mode
          /\ slot'.msg3Flag = slot.msg3Flag
      BY <1>3 DEF End, IInv, Shape, IsSlot
    <2>3. mac' = mac
      BY <1>3 DEF End
    <2>4. QED
      BY <2>1, <2>2, <2>3 DEF IInv, Shape, Msg3Over, RarIsFree, NotYet, UeFound
  <1>4. QED
    BY <1>1, <1>2, <1>3 DEF Leave

LEMMA StartsIn ==
  ASSUME Init
  PROVE  IInv
  <1>1. IsSlot(slot) /\ slot.rnti = None /\ slot.mode = "NOT_SYNCHED"
    BY DEF Init, IsSlot, Mode
  <1>2. IsMac(mac) /\ mac.ue = None /\ IsSub(sub) /\ ~sub.dci /\ sub.rar = None
    BY DEF Init, NoMac, IsMac, Idle, IsSub
  <1>3. QED
    BY <1>1, <1>2 DEF IInv, Shape, Msg3Over, RarIsFree, NotYet, UeFound

LEMMA StepIn ==
  ASSUME IInv, [Next]_vars
  PROVE  IInv'
  <1>1. CASE UNCHANGED vars
    BY <1>1 DEF vars, IInv, Shape, IsSlot, IsMac, IsSub, Msg3Over, RarIsFree, NotYet, UeFound
  <1>2. CASE Next
    BY <1>2, ReceiveKeeps, ScheduleKeeps, TransmitKeeps DEF Next
  <1>3. QED
    BY <1>1, <1>2

\* The inductive invariant.
THEOREM Invariance == Spec => []IInv
  BY StartsIn, StepIn, PTL DEF Spec

\* find_ue finds the UE of every DCI in its slot, and in mode PUSCH: mac2phy_proc
\* never ends the program.
THEOREM DciFindsUe == Spec => []UeFound
  <1>1. IInv => UeFound
    BY DEF IInv
  <1>2. QED
    BY <1>1, Invariance, PTL

-----------------------------------------------------------------------------
(* Types. *)
HarqType == [flag : BOOLEAN, round : Nat, phichActive : BOOLEAN,
             phichAck : BOOLEAN, dciAlloc : BOOLEAN, rarAlloc : BOOLEAN]
UeType == [gone : BOOLEAN, tx : [Process -> {"no", "next", "after"}],
           buf : [Process -> {"empty", "fresh", "delivered"}],
           insync : [Process -> BOOLEAN]]

Clock == now \in Process /\ phase \in {"rx", "sched", "tx"}

(* The failure check of every iteration sees MaxErrors as soon as it is     *)
(* reached.                                                                 *)
Counts == /\ slot.msg3In \in 0 .. Past /\ slot.errors \in 0 .. MaxErrors
          /\ phase # "sched" => slot.errors # MaxErrors

Types == /\ Clock /\ Counts
         /\ harq \in [Process -> HarqType]
         /\ mac.sched \subseteq Pids
         /\ ue \in UeType

TInv == IInv /\ Types

LEMMA Answer ==
  ASSUME NEW h \in HarqType, NEW k \in Nat
  PROVE  LET n == [h EXCEPT !.flag = FALSE, !.phichActive = TRUE, !.phichAck = FALSE,
                            !.round = k]
             a == [h EXCEPT !.flag = FALSE, !.phichActive = TRUE, !.phichAck = TRUE,
                            !.round = k]
         IN  /\ n \in HarqType /\ ~n.flag
             /\ a \in HarqType /\ ~a.flag /\ a.phichAck
  BY DEF HarqType

(* What the operators on the HARQ processes and on the UE return. *)
LEMMA HarqOperators ==
  ASSUME Types
  PROVE  /\ Naked \in [Process -> HarqType]
         /\ Acked \in [Process -> HarqType]
         /\ ~Naked[now].flag /\ ~Acked[now].flag /\ Acked[now].phichAck
         /\ \A p \in Process : p # now => Naked[p] = harq[p] /\ Acked[p] = harq[p]
  <1> DEFINE n == [harq[now] EXCEPT !.flag = FALSE, !.phichActive = TRUE,
                                    !.phichAck = FALSE, !.round = @ + 1]
             a == [harq[now] EXCEPT !.flag = FALSE, !.phichActive = TRUE,
                                    !.phichAck = TRUE, !.round = 0]
  <1>0. harq[now] \in HarqType /\ harq[now].round + 1 \in Nat
    BY DEF Types, Clock, HarqType
  <1>1. n \in HarqType /\ ~n.flag
    BY <1>0, Answer
  <1>2. a \in HarqType /\ ~a.flag /\ a.phichAck
    BY <1>0, Answer
  <1>3. Naked = [harq EXCEPT ![now] = n] /\ Acked = [harq EXCEPT ![now] = a]
    BY DEF Naked, Acked
  <1> HIDE DEF n, a
  <1>4. QED
    BY <1>1, <1>2, <1>3 DEF Types, Clock

LEMMA CleanType ==
  ASSUME NEW h \in [Process -> HarqType]
  PROVE  CleanUlsch(h) \in [Process -> HarqType]
  BY DEF HarqType, CleanUlsch

LEMMA NoUeType == NoUe \in UeType /\ \A p \in Process : NoUe.tx[p] = "no"
  BY DEF NoUe, UeType

LEMMA OnAirType ==
  ASSUME Types
  PROVE  /\ OnAir \in [Process -> {"no", "next", "after"}]
         /\ OnAir[now] # "after"
         /\ OnAir[now] = "next" => ue.tx[now] = "after"
         /\ \A p \in Process : p # now => OnAir[p] = ue.tx[p]
         /\ [ue EXCEPT !.tx = OnAir] \in UeType
         /\ Delivered \in UeType
  <1>1. /\ OnAir \in [Process -> {"no", "next", "after"}]
        /\ OnAir[now] # "after"
        /\ OnAir[now] = "next" => ue.tx[now] = "after"
        /\ \A p \in Process : p # now => OnAir[p] = ue.tx[p]
    BY DEF Types, Clock, UeType, OnAir
  <1>2. [ue EXCEPT !.tx = OnAir] \in UeType /\ Delivered \in UeType
    BY <1>1 DEF Types, Clock, UeType, Delivered
  <1>3. QED
    BY <1>1, <1>2

LEMMA HearType ==
  ASSUME Types, NEW dci \in BOOLEAN, NEW nak \in BOOLEAN, IsSub(sub)
  PROVE  Hear(dci, nak) \in UeType
  BY DEF Types, Clock, UeType, Hear, IsSub

LEMMA Turn ==
  ASSUME NEW n \in Process
  PROVE  (n + 1) % 8 = IF n = 7 THEN 0 ELSE n + 1
  BY DEF Process

LEMMA TwoOn ==
  ASSUME NEW n \in Process
  PROVE  (n + 2) % 8 = IF n \in {6, 7} THEN n - 6 ELSE n + 2
  BY DEF Process

(* process_Msg3 leaves the time of the Msg3 and the count of errors. *)
LEMMA PreparedCounts ==
  ASSUME TInv
  PROVE  Prepared.msg3In = slot.msg3In /\ Prepared.errors = slot.errors
  BY DEF TInv, IInv, Shape, IsSlot, Prepared, Msg3Due

LEMMA ReceiveTypes ==
  ASSUME TInv, Skip \/ Fail \/ Decode
  PROVE  Types'
  <1> DEFINE Good == /\ slot'.msg3In \in 0 .. Past /\ slot'.errors \in 0 .. MaxErrors
                     /\ harq' \in [Process -> HarqType]
                     /\ mac'.sched \subseteq Pids
                     /\ ue' \in UeType
  <1>1. now' = now /\ phase = "rx" /\ phase' = "sched"
    BY DEF Skip, Fail, Decode
  <1> SUFFICES Good
    BY <1>1 DEF TInv, Types, Clock, Counts
  <1>2. /\ IsSlot(Prepared) /\ Prepared.msg3In \in 0 .. Past
        /\ Prepared.errors \in 0 .. MaxErrors /\ Prepared.errors + 1 \in 0 .. MaxErrors
        /\ mac.sched \subseteq Pids /\ IsMac(mac) /\ harq \in [Process -> HarqType]
    BY <1>1, PreparedSlot, PreparedCounts, LimitAssumption
       DEF TInv, Types, Counts, Past, IInv, Shape
  <1>3. CASE Skip
    BY <1>2, <1>3, OnAirType DEF Skip, TInv, Types
  <1>4. CASE Fail /\ FailPacket
    <2>1. slot'.msg3In \in 0 .. Past /\ slot'.errors \in 0 .. MaxErrors
      BY <1>2, <1>4 DEF FailPacket, IsSlot
    <2>2. mac'.sched \subseteq Pids
      BY <1>2, <1>4 DEF FailPacket, IsMac
    <2>3. harq' \in [Process -> HarqType]
      <3>1. Naked[now] \in HarqType
        BY HarqOperators DEF TInv, Types, Clock
      <3>2. [Naked[now] EXCEPT !.round = 0, !.phichActive = FALSE] \in HarqType
        BY <3>1 DEF HarqType
      <3>3. [Naked EXCEPT ![now].round = 0, ![now].phichActive = FALSE]
              = [Naked EXCEPT ![now] = [Naked[now] EXCEPT !.round = 0, !.phichActive = FALSE]]
        BY HarqOperators DEF TInv, Types, Clock
      <3>4. QED
        BY <1>4, <3>2, <3>3, HarqOperators DEF FailPacket, TInv
    <2>4. ue' \in UeType
      BY <1>4, OnAirType DEF FailPacket, TInv
    <2>5. QED
      BY <2>1, <2>2, <2>3, <2>4
  <1>5. CASE Fail /\ FailMsg3
    <2>1. slot'.msg3In \in 0 .. Past /\ slot'.errors \in 0 .. MaxErrors
      <3>1. /\ slot'.msg3In \in {8, Prepared.msg3In}
            /\ slot'.errors \in {0, Prepared.errors}
        BY <1>2, <1>5 DEF FailMsg3, FreeSlot, IsSlot
      <3>2. QED
        BY <1>2, <3>1, LimitAssumption DEF Past
    <2>2. mac' = mac
      BY <1>5 DEF FailMsg3
    <2>3. harq' \in [Process -> HarqType]
      BY <1>5, HarqOperators, CleanType DEF FailMsg3, TInv
    <2>4. ue' \in UeType
      BY <1>5, OnAirType, NoUeType DEF FailMsg3, TInv
    <2>5. QED
      BY <1>2, <2>1, <2>2, <2>3, <2>4
  <1>6. CASE Decode /\ (Deliver \/ Msg3Ccch)
    <2>1. slot'.msg3In \in 0 .. Past /\ slot'.errors \in 0 .. MaxErrors
      <3>1. slot'.msg3In = Prepared.msg3In /\ slot'.errors = 0
        BY <1>2, <1>6 DEF Deliver, Msg3Ccch, IsSlot
      <3>2. QED
        BY <1>2, <3>1, LimitAssumption
    <2>2. mac'.sched \subseteq Pids
      BY <1>2, <1>6 DEF Deliver, Msg3Ccch, IsMac, NoMac
    <2>3. harq' \in [Process -> HarqType] /\ ue' \in UeType
      BY <1>6, HarqOperators, OnAirType DEF Deliver, Msg3Ccch, TInv
    <2>4. QED
      BY <2>1, <2>2, <2>3
  <1>7. CASE Decode /\ Msg3Crnti
    <2>1. slot'.msg3In \in 0 .. Past /\ slot'.errors \in 0 .. MaxErrors
      BY <1>2, <1>7, LimitAssumption DEF Msg3Crnti, FreeSlot, IsSlot
    <2>2. mac' = mac
      BY <1>7 DEF Msg3Crnti
    <2>3. harq' \in [Process -> HarqType] /\ ue' \in UeType
      BY <1>7, HarqOperators, CleanType, NoUeType DEF Msg3Crnti, TInv
    <2>4. QED
      BY <1>2, <2>1, <2>2, <2>3
  <1>8. QED
    BY <1>3, <1>4, <1>5, <1>6, <1>7 DEF Fail, Decode

LEMMA ScheduleTypes ==
  ASSUME TInv,
         Drop \/ \E grant \in BOOLEAN, rar \in Rntis \cup {None} : Schedule(grant, rar)
  PROVE  Types'
  <1>1. /\ IsSlot(Checked) /\ Checked.msg3In = slot.msg3In
        /\ Checked.errors \in 0 .. MaxErrors /\ Checked.errors # MaxErrors
    BY LimitAssumption DEF TInv, IInv, Shape, IsSlot, Types, Counts, Checked, Failed
  <1>2. now' = now /\ phase' = "tx"
    BY DEF Drop, Schedule
  <1>3. CASE Drop
    <2>1. Counts'
      BY <1>1, <1>2, <1>3, LimitAssumption DEF Drop, FreeSlot, IsSlot, TInv, Types, Counts
    <2>2. mac'.sched \subseteq Pids
      BY <1>3 DEF Drop, NoMac
    <2>3. harq' \in [Process -> HarqType] /\ ue' \in UeType
      BY <1>3, CleanType, NoUeType DEF Drop, TInv, Types
    <2>4. QED
      BY <1>2, <2>1, <2>2, <2>3 DEF TInv, Types, Clock
  <1>4. ASSUME NEW grant \in BOOLEAN, NEW rar \in Rntis \cup {None}, Schedule(grant, rar)
        PROVE  Types'
    <2>1. Counts'
      BY <1>1, <1>2, <1>4 DEF Schedule, TInv, Types, Counts
    <2>2. mac'.sched \subseteq Pids
      BY <1>4 DEF Schedule, Grantable, TInv, IInv, Shape, IsMac, Types
    <2>3. harq' = harq /\ ue' = ue
      BY <1>4 DEF Schedule
    <2>4. QED
      BY <1>2, <2>1, <2>2, <2>3 DEF TInv, Types, Clock
  <1>5. QED
    BY <1>3, <1>4

(* One process is written. *)
LEMMA HarqWritten ==
  ASSUME Types, NEW p \in Process, NEW h \in HarqType
  PROVE  [harq EXCEPT ![p] = h] \in [Process -> HarqType]
  BY DEF Types

LEMMA TransmitTypes ==
  ASSUME TInv,
         ClearAlloc \/ ApplyDci \/ SetFlag \/ SendRar \/ Look \/ Act \/ End(FALSE) \/ Leave
  PROVE  Types'
  <1>1. /\ \A p \in Process : harq[p] \in HarqType /\ harq[p].round + 1 \in Nat
        /\ harq \in [Process -> HarqType] /\ now \in Process
        /\ Counts /\ mac.sched \subseteq Pids /\ ue \in UeType
    BY DEF TInv, Types, Clock, HarqType
  <1>2. CASE ClearAlloc \/ ApplyDci \/ SetFlag \/ Look \/ Act
    <2>1. phase' = phase /\ now' = now /\ slot' = slot /\ mac' = mac /\ ue' = ue
      BY <1>2 DEF ClearAlloc, ApplyDci, SetFlag, Look, Act
    <2>2. harq' \in [Process -> HarqType]
      <3>1. CASE ClearAlloc
        BY <1>1, <3>1 DEF ClearAlloc, HarqType
      <3>2. CASE ApplyDci
        BY <1>1, <3>2 DEF ApplyDci, HarqType
      <3>3. CASE SetFlag
        BY <1>1, <3>3 DEF SetFlag, HarqType
      <3>4. CASE Look
        BY <1>1, <3>4 DEF Look
      <3>5. CASE Act
        <4> DEFINE alone == sub.saw = "alone"
                   r == IF alone /\ sub.hi = "ack" THEN 0 ELSE harq[now].round
                   f == IF alone THEN sub.hi = "nak" ELSE harq[now].flag
                   h == [harq[now] EXCEPT !.phichActive = FALSE, !.flag = f, !.round = r]
        <4>1. r \in Nat /\ f \in BOOLEAN
          BY <1>1 DEF HarqType
        <4>2. harq' = [harq EXCEPT ![now] = h]
          BY <3>5 DEF Act
        <4>3. h \in HarqType
          <5> HIDE DEF r, f
          <5>1. QED
            BY <1>1, <4>1 DEF HarqType
        <4> HIDE DEF h
        <4>4. QED
          BY <1>1, <4>2, <4>3
      <3>6. QED
        BY <1>2, <3>1, <3>2, <3>3, <3>4, <3>5
    <2>3. QED
      BY <2>1, <2>2 DEF TInv, Types, Clock, Counts
  <1>3. CASE SendRar
    <2>1. CASE sub.rar = None
      BY <1>3, <2>1 DEF SendRar, TInv, Types, Clock, Counts
    <2>2. CASE sub.rar # None
      <3> DEFINE p == (now + 2) % 8
      <3>1. p \in Process
        BY <1>1, TwoOn DEF Process
      <3>2. Counts'
        <4>1. slot'.msg3In = Msg3Delay /\ slot'.errors = slot.errors
          <5>1. slot' = [slot EXCEPT !.rnti = sub.rar, !.mode = "RA_RESPONSE",
                                     !.msg3Active = TRUE, !.msg3In = Msg3Delay]
            BY <1>3, <2>2 DEF SendRar
          <5>2. QED
            BY <5>1 DEF TInv, IInv, Shape, IsSlot
        <4>2. phase' = "tx" /\ phase = "tx"
          BY <1>3 DEF SendRar
        <4>3. QED
          BY <1>1, <4>1, <4>2 DEF Counts, Msg3Delay, Past
      <3>3. harq' \in [Process -> HarqType]
        <4> DEFINE h == [harq[p] EXCEPT !.rarAlloc = TRUE,
                           !.round = IF harq[p].round = 0 THEN 0 ELSE harq[p].round + 1]
        <4>1. h \in HarqType
          BY <1>1, <3>1 DEF HarqType
        <4>2. harq' = [harq EXCEPT ![p] = h]
          BY <1>3, <2>2 DEF SendRar
        <4> HIDE DEF h, p
        <4>3. QED
          BY <1>1, <3>1, <4>1, <4>2
      <3>4. ue' \in UeType
        <4>1. ue' = [NoUe EXCEPT !.tx[p] = "after", !.buf[p] = "fresh"]
          BY <1>3, <2>2 DEF SendRar
        <4> HIDE DEF p
        <4>2. QED
          BY <3>1, <4>1 DEF NoUe, UeType
      <3>5. QED
        BY <1>1, <1>3, <3>2, <3>3, <3>4 DEF SendRar, TInv, Types, Clock
    <2>3. QED
      BY <2>1, <2>2
  <1>4. ASSUME NEW leaves \in BOOLEAN, End(leaves)
        PROVE  Types'
    <2>1. now' \in Process /\ phase' = "rx"
      BY <1>1, <1>4, Turn DEF End, Process
    <2>2. Counts'
      BY <1>1, <1>4 DEF End, Counts, Msg3Delay, Past, TInv, IInv, Shape, IsSlot
    <2>3. ue' \in UeType
      <3>1. [NoUe EXCEPT !.gone = TRUE] \in UeType
        BY NoUeType DEF UeType
      <3>2. QED
        BY <1>4, <3>1, HearType DEF End, TInv, IInv, Shape
    <2>4. QED
      BY <1>1, <1>4, <2>1, <2>2, <2>3 DEF End, Types, Clock
  <1>5. QED
    BY <1>2, <1>3, <1>4 DEF Leave

LEMMA TypesKeep ==
  ASSUME TInv, [Next]_vars
  PROVE  Types'
  <1>1. CASE UNCHANGED vars
    BY <1>1 DEF vars, TInv, Types, Clock, Counts
  <1>2. CASE Next
    BY <1>2, ReceiveTypes, ScheduleTypes, TransmitTypes DEF Next
  <1>3. QED
    BY <1>1, <1>2

-----------------------------------------------------------------------------
(* The eNB expects what the UE is told to send, when the PHICH is built     *)
(* after the DCIs.                                                          *)

(* A Msg3 of process p is in preparation. *)
Awaits(p) == /\ slot.mode = "RA_RESPONSE" /\ slot.msg3Active
             /\ slot.msg3In # Past /\ now + slot.msg3In \in {p, p + 8, p + 16}

(* It will be received when it is next sent. *)
Coming(p) == /\ Awaits(p) /\ slot.msg3In \in 0 .. 8
             /\ slot.msg3In = 0 => phase = "rx"
             /\ slot.msg3In = 8 => phase # "rx"

(* What the UE sends is waited for: by the flag of the process, or as a     *)
(* Msg3, and in the process of this subframe only as a Msg3, until the UE   *)
(* has heard the subframe out.                                              *)
Expectation(p) ==
    /\ ue.tx[p] = "next" => /\ slot.rnti # None
                            /\ harq[p].flag \/ Coming(p)
    /\ ue.tx[p] = "next" /\ phase # "rx" /\ p = now => Coming(p)
    /\ ue.tx[p] = "after" => /\ slot.rnti # None /\ Awaits(p)
                             /\ slot.msg3In \in 8 .. Msg3Delay
                             /\ slot.msg3In = 8 => phase = "rx"

Expected == \A p \in Process : Expectation(p)

Quiet == phase # "tx" => sub.hi = "off"

(* Once the DCIs have been applied the allocation says whether there was    *)
(* one for the process.                                                     *)
Applied ==
    phase = "tx" =>
        /\ sub.m2p \in {"alloc", "flag"} => sub.dci
        /\ sub.m2p = "flag" => harq[now].dciAlloc /\ ~harq[now].rarAlloc
        /\ sub.m2p \in {"rar", "done"} =>
              /\ harq[now].dciAlloc = sub.dci /\ ~harq[now].rarAlloc
              /\ sub.dci => harq[now].flag

(* The cch thread looks at the allocation after that, and a NAK without a   *)
(* DCI leaves the flag set.                                                 *)
Answered ==
    phase = "tx" =>
        /\ sub.cch = "look" => sub.hi = "off"
        /\ sub.cch # "look" => sub.m2p \in {"rar", "done"}
        /\ sub.cch = "act" => sub.hi # "off"
        /\ sub.hi # "off" => /\ slot.rnti # None
                             /\ sub.saw = "alone" <=> ~sub.dci
        /\ sub.hi = "nak" /\ sub.cch = "done" => harq[now].flag

OInv == Expected /\ Quiet /\ Applied /\ Answered

LEMMA ExpectedIsReceived ==
  ASSUME TInv, OInv
  PROVE  Received
  <1> SUFFICES ASSUME phase = "rx", Sending
               PROVE  Listening
    BY DEF Received
  <1>1. now \in Process /\ slot.msg3In \in 0 .. Past
    BY DEF TInv, Types, Clock, Counts
  <1>2. ue.tx[now] = "next" => slot.rnti # None /\ (harq[now].flag \/ Coming(now))
    BY <1>1 DEF OInv, Expected, Expectation
  <1>3. Coming(now) => Msg3Due
    BY <1>1 DEF Coming, Awaits, Msg3Due, Process, Past
  <1>4. QED
    BY <1>2, <1>3 DEF Sending, Listening

(* A Msg3 that is still to come keeps the reception from touching it. *)
LEMMA StillWaiting ==
  ASSUME TInv, Skip \/ Fail \/ Decode,
         slot.mode = "RA_RESPONSE", slot.msg3Active, slot.msg3In # 0
  PROVE  slot'.mode = slot.mode /\ slot'.msg3Active /\ slot'.msg3In = slot.msg3In
  <1>1. /\ IsSlot(Prepared) /\ Prepared.mode = slot.mode /\ Prepared.msg3Active
        /\ ~Prepared.msg3Flag /\ Prepared.msg3In = slot.msg3In
    BY DEF TInv, IInv, Shape, IsSlot, Prepared, Msg3Due
  <1>2. CASE Skip
    BY <1>1, <1>2 DEF Skip
  <1>3. CASE Fail
    BY <1>1, <1>3 DEF Fail, FailMsg3, FailPacket, IsSlot
  <1>4. CASE Decode
    BY <1>1, <1>4 DEF Decode, Deliver, Msg3Ccch, Msg3Crnti, IsSlot
  <1>5. QED
    BY <1>2, <1>3, <1>4

(* What a reception does to the UE in the slot. *)
LEMMA ReceiveUe ==
  ASSUME TInv, Skip \/ Fail \/ Decode
  PROVE  \/ ue' = NoUe /\ slot'.rnti = None
         \/ /\ slot'.rnti = slot.rnti /\ ue'.tx = OnAir
            /\ \A p \in Process : p # now => harq'[p].flag = harq[p].flag
  <1>1. IsSlot(Prepared) /\ Prepared.rnti = slot.rnti
    BY PreparedSlot DEF TInv
  <1>2. [ue EXCEPT !.tx = OnAir].tx = OnAir /\ Delivered.tx = OnAir
    BY DEF TInv, Types, UeType, Delivered
  <1>3. CASE Skip
    BY <1>1, <1>2, <1>3 DEF Skip
  <1>4. CASE Fail /\ FailPacket
    <2>1. slot'.rnti = slot.rnti
      BY <1>1, <1>4 DEF FailPacket, IsSlot
    <2>2. ue'.tx = OnAir
      BY <1>2, <1>4 DEF FailPacket
    <2>3. \A p \in Process : p # now => harq'[p].flag = harq[p].flag
      BY <1>4, HarqOperators DEF FailPacket, TInv
    <2>4. QED
      BY <2>1, <2>2, <2>3
  <1>5. CASE Fail /\ FailMsg3
    <2>1. CASE Naked[now].round = MaxMsg3
      <3>1. /\ slot' = [FreeSlot(Prepared) EXCEPT !.msg3Active = FALSE]
            /\ ue' = NoUe
        BY <1>5, <2>1 DEF FailMsg3
      <3>2. QED
        BY <1>1, <3>1, FreedSlot DEF IsSlot
    <2>2. CASE Naked[now].round # MaxMsg3
      <3>1. slot'.rnti = slot.rnti
        BY <1>1, <1>5, <2>2 DEF FailMsg3, IsSlot
      <3>2. ue'.tx = OnAir /\ harq' = Naked
        BY <1>2, <1>5, <2>2 DEF FailMsg3
      <3>3. QED
        BY <3>1, <3>2, HarqOperators DEF TInv
    <2>3. QED
      BY <2>1, <2>2
  <1>6. CASE Decode /\ (Deliver \/ Msg3Ccch)
    <2>1. slot'.rnti = slot.rnti
      BY <1>1, <1>6 DEF Deliver, Msg3Ccch, IsSlot
    <2>2. ue'.tx = OnAir /\ harq' = Acked
      BY <1>2, <1>6 DEF Deliver, Msg3Ccch
    <2>3. QED
      BY <2>1, <2>2, HarqOperators DEF TInv
  <1>7. CASE Decode /\ Msg3Crnti
    BY <1>1, <1>7 DEF Msg3Crnti, FreeSlot, IsSlot
  <1>8. QED
    BY <1>3, <1>4, <1>5, <1>6, <1>7 DEF Fail, Decode

LEMMA ReceiveExpected ==
  ASSUME TInv, OInv, Skip \/ Fail \/ Decode
  PROVE  OInv'
  <1>1. /\ now' = now /\ phase = "rx" /\ phase' = "sched" /\ sub'.hi = sub.hi
        /\ now \in Process /\ slot.msg3In \in 0 .. Past
    BY DEF Skip, Fail, Decode, TInv, Types, Clock, Counts, IInv, Shape, IsSub
  <1>2. Quiet' /\ Applied' /\ Answered'
    BY <1>1 DEF OInv, Quiet, Applied, Answered
  <1>3. ASSUME NEW p \in Process
        PROVE  Expectation(p)'
    <2>1. CASE ue' = NoUe
      BY <2>1, NoUeType DEF Expectation
    <2>2. CASE /\ slot'.rnti = slot.rnti /\ ue'.tx = OnAir
               /\ \A q \in Process : q # now => harq'[q].flag = harq[q].flag
      <3>1. Expectation(p)
        BY DEF OInv, Expected
      <3>2. ASSUME Awaits(p), slot.msg3In # 0
            PROVE  Awaits(p)' /\ slot'.msg3In = slot.msg3In
        BY <1>1, <3>2, StillWaiting DEF Awaits
      <3>3. CASE p = now
        <4>1. SUFFICES ASSUME ue'.tx[now] = "next"
                       PROVE  slot'.rnti # None /\ Coming(p)'
          BY <1>1, <2>2, <3>3, OnAirType DEF Expectation, TInv
        <4>2. ue.tx[now] = "after"
          BY <2>2, <4>1, OnAirType DEF TInv
        <4>3. slot.rnti # None /\ Awaits(p) /\ slot.msg3In = 8
          BY <1>1, <3>1, <3>3, <4>2 DEF Expectation, Awaits, Msg3Delay, Past, Process
        <4>4. QED
          BY <1>1, <2>2, <3>2, <3>3, <4>3 DEF Coming
      <3>4. CASE p # now
        <4>1. ue'.tx[p] = ue.tx[p] /\ harq'[p].flag = harq[p].flag
          BY <2>2, <3>4, OnAirType DEF TInv
        <4>2. Coming(p) => slot.msg3In # 0 /\ slot.msg3In # 8 /\ slot.msg3In \in 0 .. 8
          BY <1>1, <3>4 DEF Coming, Awaits, Process, Past
        <4>3. Coming(p) => Coming(p)'
          BY <1>1, <3>2, <4>2 DEF Coming
        <4>4. Awaits(p) /\ slot.msg3In \in 8 .. Msg3Delay => Awaits(p)' /\ slot'.msg3In \in 9 .. Msg3Delay
          BY <1>1, <3>2, <3>4 DEF Awaits, Process, Past, Msg3Delay
        <4>5. QED
          BY <1>1, <2>2, <3>1, <3>4, <4>1, <4>3, <4>4 DEF Expectation, Msg3Delay
      <3>5. QED
        BY <3>3, <3>4
    <2>3. QED
      BY <2>1, <2>2, ReceiveUe
  <1>4. QED
    BY <1>2, <1>3 DEF OInv, Expected

LEMMA ScheduleExpected ==
  ASSUME TInv, OInv,
         Drop \/ \E grant \in BOOLEAN, rar \in Rntis \cup {None} : Schedule(grant, rar)
  PROVE  OInv'
  <1>1. /\ now' = now /\ phase = "sched" /\ phase' = "tx"
        /\ sub'.m2p = "clear" /\ sub'.cch = "look" /\ sub'.hi = "off"
    BY DEF Drop, Schedule, TInv, IInv, Shape, IsSub, OInv, Quiet
  <1>2. Quiet' /\ Applied' /\ Answered'
    BY <1>1 DEF Quiet, Applied, Answered
  <1>3. CASE Drop
    BY <1>2, <1>3, NoUeType DEF Drop, OInv, Expected, Expectation
  <1>4. ASSUME NEW grant \in BOOLEAN, NEW rar \in Rntis \cup {None}, Schedule(grant, rar)
        PROVE  OInv'
    <2>1. harq' = harq /\ ue' = ue /\ slot' = Checked
      BY <1>4 DEF Schedule
    <2>2. /\ slot'.rnti = slot.rnti /\ slot'.mode = slot.mode
          /\ slot'.msg3Active = slot.msg3Active /\ slot'.msg3In = slot.msg3In
      BY <2>1 DEF TInv, IInv, Shape, IsSlot, Checked
    <2>3. QED
      BY <1>1, <1>2, <2>1, <2>2 DEF OInv, Expected, Expectation, Coming, Awaits
  <1>5. QED
    BY <1>3, <1>4

(* A step of the m2p or of the cch thread that leaves the slot and the UE.  *)
LEMMA SameExpectations ==
  ASSUME TInv, Expected, phase = "tx",
         UNCHANGED <<now, phase, slot, ue>>,
         \A p \in Process : p # now /\ harq[p].flag => harq'[p].flag
  PROVE  Expected'
  BY DEF TInv, Types, Clock, Expected, Expectation, Coming, Awaits

LEMMA ThreadsExpected ==
  ASSUME TInv, OInv, InOrder,
         ClearAlloc \/ ApplyDci \/ SetFlag \/ Look \/ Act
  PROVE  OInv'
  <1>1. /\ now \in Process /\ harq \in [Process -> HarqType] /\ IsSub(sub)
        /\ phase = "tx" /\ UNCHANGED <<now, phase, slot, ue>>
    BY DEF TInv, Types, Clock, IInv, Shape, ClearAlloc, ApplyDci, SetFlag, Look, Act
  <1>2. \A p \in Process : p # now => harq'[p] = harq[p]
    BY <1>1 DEF ClearAlloc, ApplyDci, SetFlag, Look, Act
  <1>3. Expected' /\ Quiet'
    BY <1>1, <1>2, SameExpectations DEF OInv, Quiet
  <1>4. CASE ClearAlloc
    <2>1. sub' = [sub EXCEPT !.m2p = IF sub.dci THEN "alloc" ELSE "rar"] /\ sub.m2p = "clear"
      BY <1>4 DEF ClearAlloc
    <2>2. harq'[now].dciAlloc = FALSE /\ harq'[now].rarAlloc = FALSE
      BY <1>1, <1>4 DEF ClearAlloc, HarqType
    <2>3. QED
      BY <1>1, <1>3, <2>1, <2>2 DEF OInv, Applied, Answered, IsSub
  <1>5. CASE ApplyDci
    <2>1. sub' = [sub EXCEPT !.m2p = "flag"] /\ sub.m2p = "alloc"
      BY <1>5 DEF ApplyDci
    <2>2. harq'[now].dciAlloc /\ ~harq'[now].rarAlloc
      BY <1>1, <1>5 DEF ApplyDci, HarqType
    <2>3. QED
      BY <1>1, <1>3, <2>1, <2>2 DEF OInv, Applied, Answered, IsSub
  <1>6. CASE SetFlag
    <2>1. sub' = [sub EXCEPT !.m2p = "rar"] /\ sub.m2p = "flag"
      BY <1>6 DEF SetFlag
    <2>2. /\ harq'[now].flag /\ harq'[now].dciAlloc = harq[now].dciAlloc
          /\ harq'[now].rarAlloc = harq[now].rarAlloc
      BY <1>1, <1>6 DEF SetFlag, HarqType
    <2>3. harq[now].dciAlloc \in BOOLEAN
      BY <1>1 DEF HarqType
    <2>4. QED
      BY <1>1, <1>3, <2>1, <2>2, <2>3 DEF OInv, Applied, Answered, IsSub
  <1>7. CASE Look
    <2>1. sub.m2p \in {"rar", "done"} /\ sub.cch = "look" /\ harq' = harq
      BY <1>7 DEF InOrder, Look
    <2>2. harq[now].dciAlloc = sub.dci /\ ~harq[now].rarAlloc
      BY <1>1, <2>1 DEF OInv, Applied
    <2>3. /\ sub'.m2p = sub.m2p /\ sub'.dci = sub.dci
          /\ \/ sub'.cch = "done" /\ sub'.hi = sub.hi
             \/ /\ slot.rnti # None /\ sub'.cch = "act" /\ sub'.hi # "off"
                /\ sub'.saw = IF sub.dci THEN "alloc" ELSE "alone"
      BY <1>1, <1>7, <2>2 DEF Look, IsSub
    <2>4. sub.dci \in BOOLEAN /\ sub.hi = "off"
      BY <1>1, <2>1 DEF OInv, Answered, IsSub
    <2>5. Applied'
      BY <1>1, <2>1, <2>3 DEF OInv, Applied
    <2>6. Answered'
      BY <1>1, <2>1, <2>3, <2>4 DEF Answered
    <2>7. QED
      BY <1>3, <2>5, <2>6 DEF OInv
  <1>8. CASE Act
    <2>1. sub' = [sub EXCEPT !.cch = "done"] /\ sub.cch = "act"
      BY <1>8 DEF Act
    <2>2. /\ harq'[now].flag = IF sub.saw = "alone" THEN sub.hi = "nak" ELSE harq[now].flag
          /\ harq'[now].dciAlloc = harq[now].dciAlloc
          /\ harq'[now].rarAlloc = harq[now].rarAlloc
      BY <1>1, <1>8 DEF Act, HarqType
    <2>3. /\ sub'.m2p = sub.m2p /\ sub'.cch = "done" /\ sub'.hi = sub.hi
          /\ sub'.dci = sub.dci /\ sub'.saw = sub.saw
      BY <1>1, <2>1 DEF IsSub
    <2>4. /\ sub.m2p \in {"rar", "done"} /\ sub.dci \in BOOLEAN
          /\ sub.hi # "off" => slot.rnti # None /\ (sub.saw = "alone" <=> ~sub.dci)
          /\ sub.dci => harq[now].flag
      BY <1>1, <2>1 DEF OInv, Applied, Answered, IsSub
    <2>5. sub.hi \in {"ack", "nak"}
      BY <1>1, <2>1 DEF OInv, Answered, IsSub
    <2>6. (sub.dci \/ sub.hi = "nak") => harq'[now].flag
      BY <2>2, <2>4, <2>5
    <2>7. Applied'
      BY <1>1, <2>2, <2>3, <2>6 DEF OInv, Applied
    <2>8. Answered'
      BY <1>1, <2>3, <2>4, <2>6 DEF Answered
    <2>9. QED
      BY <1>3, <2>7, <2>8 DEF OInv
  <1>9. QED
    BY <1>4, <1>5, <1>6, <1>7, <1>8

(* fill_rar and the UE whose Msg3 it asks for. *)
LEMMA RarExpected ==
  ASSUME TInv, OInv, SendRar
  PROVE  OInv'
  <1>1. /\ now \in Process /\ harq \in [Process -> HarqType] /\ IsSub(sub)
        /\ phase = "tx" /\ UNCHANGED <<now, phase>>
        /\ sub.m2p = "rar" /\ sub' = [sub EXCEPT !.m2p = "done",
                                                 !.sent = @ /\ sub.rar = None]
    BY DEF TInv, Types, Clock, IInv, Shape, SendRar
  <1>2. Quiet'
    BY <1>1 DEF Quiet
  <1>3. CASE sub.rar = None
    <2>1. UNCHANGED <<slot, harq, ue>>
      BY <1>3 DEF SendRar
    <2>2. Expected'
      BY <1>1, <2>1, SameExpectations DEF OInv
    <2>3. QED
      BY <1>1, <1>2, <2>1, <2>2 DEF OInv, Applied, Answered, IsSub
  <1>4. CASE sub.rar # None
    <2>0. PICK q : q = (now + 2) % 8
      OBVIOUS
    <2>1. q \in Process /\ q # now /\ now + 10 \in {q + 8, q + 16}
      BY <1>1, <2>0, TwoOn DEF Process
    <2>2. /\ slot'.rnti = sub.rar /\ slot'.mode = "RA_RESPONSE"
          /\ slot'.msg3Active /\ slot'.msg3In = Msg3Delay
      <3>1. slot' = [slot EXCEPT !.rnti = sub.rar, !.mode = "RA_RESPONSE",
                                 !.msg3Active = TRUE, !.msg3In = Msg3Delay]
        BY <1>4 DEF SendRar
      <3>2. QED
        BY <3>1 DEF TInv, IInv, Shape, IsSlot
    <2>3. ue'.tx = [NoUe.tx EXCEPT ![q] = "after"]
      <3>1. ue' = [NoUe EXCEPT !.tx[q] = "after", !.buf[q] = "fresh"]
        BY <1>4, <2>0 DEF SendRar
      <3>2. QED
        BY <3>1 DEF NoUe
    <2>4. harq'[now] = harq[now]
      <3>1. PICK h : harq' = [harq EXCEPT ![q] = h]
        BY <1>4, <2>0 DEF SendRar
      <3>2. QED
        BY <1>1, <2>1, <3>1
    <2>5. Expected'
      <3>1. Awaits(q)'
        BY <1>1, <2>1, <2>2 DEF Awaits, Msg3Delay, Past
      <3>2. ue'.tx[q] = "after" /\ \A p \in Process : p # q => ue'.tx[p] = "no"
        BY <2>1, <2>3, NoUeType DEF NoUe
      <3>3. QED
        BY <1>1, <1>4, <2>2, <3>1, <3>2 DEF Expected, Expectation, Msg3Delay, Process
    <2>6. Applied' /\ Answered'
      BY <1>1, <1>4, <2>2, <2>4 DEF OInv, Applied, Answered, IsSub
    <2>7. QED
      BY <1>2, <2>5, <2>6 DEF OInv
  <1>5. QED
    BY <1>3, <1>4

(* What the UE hears changes the process of this subframe only.             *)
LEMMA Heeds ==
  ASSUME TInv, NEW dci \in BOOLEAN, NEW nak \in BOOLEAN
  PROVE  LET h == Hear(dci, nak) IN
         /\ \A p \in Process : p # now => h.tx[p] = ue.tx[p] /\ h.buf[p] = ue.buf[p]
                                          /\ h.insync[p] = ue.insync[p]
         /\ \/ h.tx[now] = ue.tx[now] /\ h.buf[now] = ue.buf[now]
            \/ sub.dci /\ h.tx[now] = "next"
            \/ /\ sub.hi = "nak" /\ sub.sent /\ ~sub.dci
               /\ h.tx[now] = "next" /\ h.buf[now] = ue.buf[now]
  BY DEF TInv, Types, Clock, UeType, IInv, Shape, IsSub, Hear

LEMMA EndExpected ==
  ASSUME TInv, OInv, NEW leaves \in BOOLEAN, End(leaves)
  PROVE  OInv'
  <1>1. /\ now \in Process /\ slot.msg3In \in 0 .. Past
        /\ phase = "tx" /\ phase' = "rx" /\ sub' = Idle /\ harq' = harq
        /\ sub.m2p = "done" /\ sub.cch = "done"
    BY DEF TInv, Types, Clock, Counts, End
  <1>2. now' = IF now = 7 THEN 0 ELSE now + 1
    BY <1>1, Turn DEF End
  <1>3. /\ slot'.rnti = slot.rnti /\ slot'.mode = slot.mode
        /\ slot'.msg3Active = slot.msg3Active
        /\ slot'.msg3In = IF slot.msg3In \in 1 .. Msg3Delay THEN slot.msg3In - 1 ELSE Past
    BY DEF End, TInv, IInv, Shape, IsSlot
  <1>4. Quiet' /\ Applied' /\ Answered'
    BY <1>1 DEF Quiet, Applied, Answered, Idle
  <1>5. ASSUME NEW p \in Process
        PROVE  Expectation(p)'
    <2>1. CASE leaves
      <3>1. ue'.tx[p] = "no"
        BY <2>1, NoUeType DEF End, NoUe
      <3>2. QED
        BY <3>1 DEF Expectation
    <2>2. CASE ~leaves
      <3>1. PICK dci \in BOOLEAN, nak \in BOOLEAN : ue' = Hear(dci, nak)
        BY <2>2 DEF End
      <3>2. Expectation(p)
        BY DEF OInv, Expected
      <3>3. \/ ue'.tx[p] = ue.tx[p]
            \/ p = now /\ ue'.tx[p] = "next" /\ (sub.dci \/ (sub.hi = "nak" /\ ~sub.dci))
        BY <3>1, Heeds
      <3>4. sub.dci \/ sub.hi = "nak" => slot.rnti # None /\ harq[now].flag
        BY <1>1, SlotAssumption
           DEF OInv, Applied, Answered, TInv, IInv, UeFound, Shape, IsMac
      <3>5. Awaits(p) /\ slot.msg3In # 0 => Awaits(p)' /\ slot'.msg3In = slot.msg3In - 1
        BY <1>1, <1>2, <1>3 DEF Awaits, Process, Past, Msg3Delay
      <3>6. CASE ue'.tx[p] = ue.tx[p]
        <4>1. Coming(p) => Coming(p)'
          BY <1>1, <3>5 DEF Coming
        <4>2. Awaits(p) /\ slot.msg3In \in 9 .. Msg3Delay
                => Awaits(p)' /\ slot'.msg3In \in 8 .. Msg3Delay
          BY <3>5 DEF Msg3Delay
        <4>3. QED
          BY <1>1, <1>3, <3>2, <3>6, <4>1, <4>2 DEF Expectation, Msg3Delay
      <3>7. CASE p = now /\ ue'.tx[p] = "next" /\ (sub.dci \/ sub.hi = "nak")
        BY <1>1, <1>3, <3>4, <3>7 DEF Expectation
      <3>8. QED
        BY <3>3, <3>6, <3>7
    <2>3. QED
      BY <2>1, <2>2
  <1>6. QED
    BY <1>4, <1>5 DEF OInv, Expected

LEMMA ExpectedKeeps ==
  ASSUME TInv, OInv, Next, InOrder
  PROVE  OInv'
  <1>1. Leave => End(TRUE)
    BY DEF Leave
  <1>2. QED
    BY <1>1, ReceiveExpected, ScheduleExpected, ThreadsExpected, RarExpected, EndExpected
       DEF Next

-----------------------------------------------------------------------------
(* A UE that hears everything sends a packet until the eNB has it, and not  *)
(* longer.                                                                  *)
Unsent == \A p \in Process : /\ ue.insync[p]
                             /\ ue.tx[p] # "no" => ue.buf[p] = "fresh"

(* A NAK the UE is to read is for a packet the eNB does not have. *)
NakIsTrue ==
    /\ /\ phase # "rx" /\ sub.sent /\ slot.rnti # None
       /\ harq[now].phichActive /\ ~harq[now].phichAck
       => ue.buf[now] = "fresh"
    /\ sub.sent /\ sub.hi = "nak" => ue.buf[now] = "fresh"

FInv == Unsent /\ NakIsTrue

LEMMA ReceiveBuffers ==
  ASSUME TInv, Skip \/ Fail \/ Decode
  PROVE  \/ ue' = NoUe /\ slot'.rnti = None
         \/ /\ ue'.insync = ue.insync /\ ue'.tx = OnAir
            /\ \/ (Skip \/ Fail) /\ ue'.buf = ue.buf
               \/ /\ Decode /\ harq' = Acked
                  /\ ue'.buf = [ue.buf EXCEPT ![now] = "delivered"]
  <1> DEFINE u == [ue EXCEPT !.tx = OnAir]
  <1>1. u.tx = OnAir /\ u.insync = ue.insync /\ u.buf = ue.buf
    BY DEF TInv, Types, UeType
  <1>2. /\ Delivered.tx = OnAir /\ Delivered.insync = ue.insync
        /\ Delivered.buf = [ue.buf EXCEPT ![now] = "delivered"]
    BY DEF TInv, Types, UeType, Delivered
  <1>3. /\ IsSlot(Prepared)
        /\ IsSlot(FreeSlot(Prepared)) /\ FreeSlot(Prepared).rnti = None
    BY PreparedSlot, FreedSlot DEF TInv
  <1>4. CASE Skip \/ Fail
    <2>1. \/ ue' = u
          \/ ue' = NoUe /\ slot' = [FreeSlot(Prepared) EXCEPT !.msg3Active = FALSE]
      BY <1>4 DEF Skip, Fail, FailMsg3, FailPacket
    <2>2. QED
      BY <1>1, <1>3, <1>4, <2>1 DEF IsSlot
  <1>5. CASE Decode
    <2>1. (ue' = NoUe /\ Msg3Crnti) \/ (ue' = Delivered /\ harq' = Acked)
      BY <1>5 DEF Decode, Deliver, Msg3Ccch, Msg3Crnti
    <2>2. Msg3Crnti => slot'.rnti = None
      BY <1>3 DEF Msg3Crnti, IsSlot
    <2>3. QED
      BY <1>2, <1>5, <2>1, <2>2
  <1>6. QED
    BY <1>4, <1>5

LEMMA ReceiveUnsent ==
  ASSUME TInv, OInv, FInv, Skip \/ Fail \/ Decode
  PROVE  FInv'
  <1>1. /\ now' = now /\ now \in Process /\ phase = "rx"
        /\ sub'.hi = sub.hi /\ sub'.sent = Sending /\ sub.hi = "off"
    BY DEF Skip, Fail, Decode, TInv, Types, Clock, IInv, Shape, IsSub, OInv, Quiet
  <1>2. CASE ue' = NoUe /\ slot'.rnti = None
    BY <1>1, <1>2 DEF FInv, Unsent, NakIsTrue, NoUe
  <1>3. CASE ue'.insync = ue.insync /\ ue'.tx = OnAir /\ (Skip \/ Fail) /\ ue'.buf = ue.buf
    <2>1. Unsent'
      BY <1>1, <1>3, OnAirType DEF TInv, FInv, Unsent
    <2>2. Sending => ue.buf[now] = "fresh"
      BY <1>1 DEF Sending, FInv, Unsent
    <2>3. QED
      BY <1>1, <1>3, <2>1, <2>2 DEF FInv, NakIsTrue
  <1>4. CASE /\ ue'.insync = ue.insync /\ ue'.tx = OnAir /\ Decode /\ harq' = Acked
             /\ ue'.buf = [ue.buf EXCEPT ![now] = "delivered"]
    <2>1. OnAir[now] = "no"
      BY <1>1, <1>4, OnAirType DEF Decode, Sending, TInv
    <2>2. Unsent'
      BY <1>1, <1>4, <2>1, OnAirType DEF TInv, Types, UeType, FInv, Unsent
    <2>3. harq'[now].phichAck
      BY <1>4, HarqOperators DEF TInv
    <2>4. QED
      BY <1>1, <2>2, <2>3 DEF FInv, NakIsTrue
  <1>5. QED
    BY <1>2, <1>3, <1>4, ReceiveBuffers

LEMMA ScheduleUnsent ==
  ASSUME TInv, OInv, FInv,
         Drop \/ \E grant \in BOOLEAN, rar \in Rntis \cup {None} : Schedule(grant, rar)
  PROVE  FInv'
  <1>1. /\ now' = now /\ phase = "sched" /\ sub'.hi = "off" /\ sub'.sent = sub.sent
    BY DEF Drop, Schedule, TInv, IInv, Shape, IsSub, OInv, Quiet
  <1>2. /\ IsSlot(Checked) /\ Checked.rnti = slot.rnti
    BY DEF TInv, IInv, Shape, IsSlot, Checked
  <1>3. CASE Drop
    <2>1. slot'.rnti = None /\ ue' = NoUe
      BY <1>2, <1>3, FreedSlot DEF Drop
    <2>2. QED
      BY <1>1, <2>1 DEF FInv, Unsent, NakIsTrue, NoUe
  <1>4. ASSUME NEW grant \in BOOLEAN, NEW rar \in Rntis \cup {None}, Schedule(grant, rar)
        PROVE  FInv'
    BY <1>1, <1>2, <1>4 DEF Schedule, FInv, Unsent, NakIsTrue
  <1>5. QED
    BY <1>3, <1>4

LEMMA TransmitUnsent ==
  ASSUME TInv, OInv, FInv, ClearAlloc \/ ApplyDci \/ SetFlag \/ SendRar \/ Look \/ Act
  PROVE  FInv'
  <1>1. /\ now' = now /\ now \in Process /\ phase = "tx" /\ phase' = "tx"
        /\ harq \in [Process -> HarqType] /\ IsSub(sub)
    BY DEF ClearAlloc, ApplyDci, SetFlag, SendRar, Look, Act, TInv, Types, Clock, IInv, Shape
  <1>2. CASE ClearAlloc \/ ApplyDci \/ SetFlag
    <2>1. /\ UNCHANGED <<slot, ue>> /\ sub'.hi = sub.hi /\ sub'.sent = sub.sent
      BY <1>1, <1>2 DEF ClearAlloc, ApplyDci, SetFlag, IsSub
    <2>2. /\ harq'[now].phichActive = harq[now].phichActive
          /\ harq'[now].phichAck = harq[now].phichAck
      BY <1>1, <1>2 DEF ClearAlloc, ApplyDci, SetFlag, HarqType
    <2>3. QED
      BY <1>1, <2>1, <2>2 DEF FInv, Unsent, NakIsTrue
  <1>3. CASE SendRar /\ sub.rar = None
    <2>1. UNCHANGED <<slot, harq, ue>> /\ sub'.hi = sub.hi /\ (sub'.sent <=> sub.sent)
      BY <1>1, <1>3 DEF SendRar, IsSub
    <2>2. QED
      BY <1>1, <2>1 DEF FInv, Unsent, NakIsTrue
  <1>4. CASE SendRar /\ sub.rar # None
    <2>0. PICK q : q = (now + 2) % 8
      OBVIOUS
    <2>1. q \in Process /\ ue' = [NoUe EXCEPT !.tx[q] = "after", !.buf[q] = "fresh"]
      <3>1. q \in Process
        BY <1>1, <2>0, TwoOn DEF Process
      <3>2. QED
        BY <1>4, <2>0, <3>1 DEF SendRar
    <2>2. ~sub'.sent
      BY <1>1, <1>4 DEF SendRar, IsSub
    <2>3. Unsent'
      BY <2>1 DEF Unsent, NoUe
    <2>4. QED
      BY <2>2, <2>3 DEF FInv, NakIsTrue
  <1>5. CASE Look
    <2>1. /\ UNCHANGED <<slot, ue, harq>> /\ sub'.sent = sub.sent
          /\ \/ sub'.hi = sub.hi
             \/ /\ slot.rnti # None /\ harq[now].phichActive
                /\ sub'.hi = "nak" => ~harq[now].phichAck
      BY <1>1, <1>5 DEF Look, IsSub
    <2>2. QED
      BY <1>1, <2>1 DEF FInv, Unsent, NakIsTrue
  <1>6. CASE Act
    <2>1. /\ UNCHANGED <<slot, ue>> /\ sub'.hi = sub.hi /\ sub'.sent = sub.sent
      BY <1>1, <1>6 DEF Act, IsSub
    <2>2. ~harq'[now].phichActive
      BY <1>1, <1>6 DEF Act, HarqType
    <2>3. QED
      BY <1>1, <2>1, <2>2 DEF FInv, Unsent, NakIsTrue
  <1>7. QED
    BY <1>2, <1>3, <1>4, <1>5, <1>6

LEMMA EndUnsent ==
  ASSUME TInv, FInv, NEW leaves \in BOOLEAN, End(leaves), HearsAll
  PROVE  FInv'
  <1>1. sub' = Idle /\ now \in Process
    BY DEF End, TInv, Types, Clock
  <1>2. NakIsTrue'
    BY <1>1 DEF NakIsTrue, Idle
  <1>3. CASE leaves
    <2>1. ue' = [NoUe EXCEPT !.gone = TRUE]
      BY <1>3 DEF End
    <2>2. QED
      BY <1>2, <2>1 DEF FInv, Unsent, NoUe
  <1>4. CASE ~leaves
    <2>1. ue' = Hear(TRUE, TRUE)
      BY <1>4 DEF HearsAll
    <2>2. /\ \A p \in Process : ue'.insync[p]
          /\ sub.dci /\ ~ue.gone => ue'.buf[now] = "fresh"
          /\ ue.gone => ue' = ue
      BY <1>1, <2>1 DEF Hear, TInv, Types, UeType, FInv, Unsent
    <2>3. \A p \in Process : ue'.tx[p] # "no" => ue'.buf[p] = "fresh"
      <3>1. PICK dci \in BOOLEAN, nak \in BOOLEAN : ue' = Hear(dci, nak)
        BY <2>1
      <3>2. QED
        BY <1>1, <2>2, <3>1, Heeds DEF FInv, Unsent, NakIsTrue
    <2>4. QED
      BY <1>2, <2>2, <2>3 DEF FInv, Unsent
  <1>5. QED
    BY <1>3, <1>4

LEMMA UnsentKeeps ==
  ASSUME TInv, OInv, FInv, Next, HearsAll
  PROVE  FInv'
  <1>1. Leave => End(TRUE)
    BY DEF Leave
  <1>2. QED
    BY <1>1, ReceiveUnsent, ScheduleUnsent, TransmitUnsent, EndUnsent DEF Next

-----------------------------------------------------------------------------
(* What holds at any speed, with the PHICH in order, and without loss.      *)
UseInv == /\ TInv
          /\ use # "untimed" => OInv
          /\ use = "lossless" => FInv

LEMMA InitUse ==
  ASSUME Init
  PROVE  UseInv
  <1>1. IInv
    BY StartsIn
  <1>2. Types
    BY LimitAssumption
       DEF Init, Types, Clock, Counts, Past, Process, HarqType, UeType, NoHarq, NoUe, NoMac
  <1>3. OInv
    BY DEF Init, OInv, Expected, Expectation, Quiet, Applied, Answered, NoUe, Idle
  <1>4. FInv
    BY DEF Init, FInv, Unsent, NakIsTrue, NoUe, Idle
  <1>5. QED
    BY <1>1, <1>2, <1>3, <1>4 DEF UseInv, TInv

LEMMA StepUse ==
  ASSUME UseInv, [MCNext]_<<vars, use>>
  PROVE  UseInv'
  <1>1. TInv'
    BY StepIn, TypesKeep DEF UseInv, TInv, MCNext
  <1>2. CASE UNCHANGED <<vars, use>>
    <2>1. /\ OInv => OInv'
          /\ FInv => FInv'
      BY <1>2 DEF vars, OInv, Expected, Expectation, Coming, Awaits, Quiet, Applied, Answered,
                  FInv, Unsent, NakIsTrue
    <2>2. QED
      BY <1>1, <1>2, <2>1 DEF UseInv
  <1>3. CASE MCNext
    <2>1. use' = use /\ Next
      BY <1>3 DEF MCNext
    <2>2. use # "untimed" => OInv'
      BY <1>3, ExpectedKeeps DEF MCNext, UseInv
    <2>3. use = "lossless" => FInv'
      BY <1>3, UnsentKeeps DEF MCNext, UseInv
    <2>4. QED
      BY <1>1, <2>1, <2>2, <2>3 DEF UseInv
  <1>4. QED
    BY <1>2, <1>3

\* The inductive invariant of the three uses.
THEOREM UseInvariance == MCSpec => []UseInv
  <1>1. MCInit => UseInv
    BY InitUse DEF MCInit
  <1>2. UseInv /\ [MCNext]_<<vars, use>> => UseInv'
    BY StepUse
  <1>3. QED
    BY <1>1, <1>2, PTL DEF MCSpec

\* Everything the UE is told to send is received, whatever it misses, for every set
\* of identities and of processes and every limit, provided that the PHICH is built
\* after the DCIs have been applied.
THEOREM ToldIsReceived == MCSpec => []Heard
  <1>1. UseInv => Heard
    BY ExpectedIsReceived DEF UseInv, Heard
  <1>2. QED
    BY <1>1, UseInvariance, PTL

\* If moreover the UE hears everything, no packet is handed to the MAC twice.
THEOREM DeliveredOnce == MCSpec => NoDuplicate
  <1>1. UseInv => [use = "lossless" /\ Decode => ue.buf[now] # "delivered"]_vars
    <2> SUFFICES ASSUME UseInv, use = "lossless", Decode
                 PROVE  ue.buf[now] # "delivered"
      OBVIOUS
    <2>1. ue.tx[now] = "next" /\ now \in Process
      BY DEF Decode, Sending, UseInv, TInv, Types, Clock
    <2>2. QED
      BY <2>1 DEF UseInv, FInv, Unsent
  <1>2. QED
    BY <1>1, UseInvariance, PTL DEF NoDuplicate

LEMMA TypesAreRight == TInv => TypeOK
  BY DEF TInv, IInv, Shape, Types, Clock, Counts, IsSlot, IsMac, IsSub, HarqType, UeType,
         TypeOK

\* Every field stays in its range, at any speed: the count of errors never passes
\* the value the next failure check looks for.
THEOREM TypeCorrect == Spec => []TypeOK
  <1>1. Init => TInv
    BY InitUse DEF UseInv
  <1>2. TInv /\ [Next]_vars => TInv'
    BY StepIn, TypesKeep DEF TInv
  <1>3. QED
    BY <1>1, <1>2, TypesAreRight, PTL DEF Spec

-----------------------------------------------------------------------------
(* The downlink.  What a HARQ process does when no UE's feedback reaches it *)
(* twice (~Overlap), for every limit and every width of round.              *)

Busy == {"check", "load", "store", "limit"}

\* At most one of the threads brings the feedback of a reception.
OneFeedback ==
    \/ mpc = "tx" /\ ~flag /\ pc["pusch"] = "done" /\ pc["pucch"] = "done"
    \/ mpc = "rx" /\ flag /\ pc["pusch"] = "decode" /\ pc["pucch"] \in {"guard", "done"}
    \/ mpc = "rx" /\ ~flag /\ pc["pusch"] = "done"
                  /\ pc["pucch"] \in {"guard", "sr"} \cup Busy \cup Over
    \/ mpc = "rx" /\ ~flag /\ pc["pusch"] \in Busy \cup Over /\ pc["pucch"] = "done"

\* The feedback of the last transmission has not been counted yet.
Pending ==
    \/ mpc = "tx"
    \/ \E th \in Thread : pc[th] \in {"decode", "guard", "sr", "check", "load", "store"}

IdleInRound0 == status = "SCH_IDLE" => round = 0

Active == status = "ACTIVE" =>
    /\ subframe_tx => harq_id
    /\ sent >= 1
    /\ subframe_tx /\ Pending => sent = round + 1
    /\ ~(subframe_tx /\ Pending) => sent = round

\* What a thread knows on its way through process_HARQ_feedback.
Knows(th) ==
    /\ pc[th] \in {"load", "store", "limit"} => status = "ACTIVE" /\ subframe_tx
    /\ pc[th] \in {"acked", "dropped"} => status = "SCH_IDLE"
    /\ pc[th] = "store" => reg[th] = round + 1
    /\ pc[th] = "limit" => reg[th] = round

Limits ==
    /\ sent <= DLMlimit
    /\ round <= DLMlimit
    /\ round = DLMlimit => \E th \in Thread : pc[th] = "limit"

DLInv ==
    /\ DLTypeOK /\ OneFeedback /\ IdleInRound0 /\ Active /\ Limits
    /\ \A th \in Thread : Knows(th)

-----------------------------------------------------------------------------
LEMMA Ranges ==
  /\ 0 \in 0..(RoundMod - 1)
  /\ 0..(RoundMod - 1) \subseteq Int
  BY HarqAssumption

LEMMA InitEstablishes == DLInit => DLInv
  <1> SUFFICES ASSUME DLInit PROVE DLInv
    OBVIOUS
  <1> USE DEF DLInit, Thread, PC, Over, Busy
  <1>1. DLTypeOK
    BY Ranges DEF DLTypeOK
  <1>2. OneFeedback /\ IdleInRound0 /\ Active
    BY DEF OneFeedback, IdleInRound0, Active
  <1>3. Limits
    BY HarqAssumption DEF Limits
  <1>4. \A th \in Thread : Knows(th)
    BY DEF Knows
  <1>5. QED
    BY <1>1, <1>2, <1>3, <1>4 DEF DLInv

LEMMA TransmitStep ==
  ASSUME ~Overlap, DLInv, Transmit PROVE DLInv'
  <1> USE HarqAssumption DEF DLInv, DLTypeOK, Pending, Goto, Thread, PC, Over, Busy
  <1>1. DLTypeOK'
    BY DEF Transmit
  <1>2. OneFeedback'
    BY DEF OneFeedback, Transmit
  <1>3. IdleInRound0'
    BY DEF IdleInRound0, OneFeedback, Knows, Transmit
  <1>4. Active'
    BY DEF Active, IdleInRound0, OneFeedback, Knows, Limits, Transmit
  <1>5. Limits'
    BY DEF Limits, Active, IdleInRound0, OneFeedback, Knows, Transmit
  <1>6. \A t \in Thread : Knows(t)'
    BY DEF Knows, OneFeedback, Active, Limits, Transmit
  <1>7. QED
    BY <1>1, <1>2, <1>3, <1>4, <1>5, <1>6

LEMMA StartRxStep ==
  ASSUME ~Overlap, DLInv, StartRx PROVE DLInv'
  <1> USE HarqAssumption DEF DLInv, DLTypeOK, Pending, Goto, Thread, PC, Over, Busy
  <1>1. DLTypeOK'
    BY DEF StartRx
  <1>2. OneFeedback'
    BY DEF OneFeedback, StartRx
  <1>3. IdleInRound0'
    BY DEF IdleInRound0, OneFeedback, Knows, StartRx
  <1>4. Active'
    BY DEF Active, IdleInRound0, OneFeedback, Knows, Limits, StartRx
  <1>5. Limits'
    BY DEF Limits, Active, OneFeedback, Knows, StartRx
  <1>6. \A t \in Thread : Knows(t)'
    BY DEF Knows, OneFeedback, Active, Limits, StartRx
  <1>7. QED
    BY <1>1, <1>2, <1>3, <1>4, <1>5, <1>6

LEMMA CollectPuschStep ==
  ASSUME ~Overlap, DLInv, CollectPusch PROVE DLInv'
  <1> USE HarqAssumption DEF DLInv, DLTypeOK, Pending, Goto, Thread, PC, Over, Busy
  <1>1. DLTypeOK'
    BY DEF CollectPusch
  <1>2. OneFeedback'
    BY DEF OneFeedback, CollectPusch
  <1>3. IdleInRound0'
    BY DEF IdleInRound0, OneFeedback, Knows, CollectPusch
  <1>4. Active'
    BY DEF Active, IdleInRound0, OneFeedback, Knows, Limits, CollectPusch
  <1>5. Limits'
    BY DEF Limits, Active, OneFeedback, Knows, CollectPusch
  <1>6. \A t \in Thread : Knows(t)'
    BY DEF Knows, OneFeedback, Active, Limits, CollectPusch
  <1>7. QED
    BY <1>1, <1>2, <1>3, <1>4, <1>5, <1>6

LEMMA EndRxStep ==
  ASSUME ~Overlap, DLInv, EndRx PROVE DLInv'
  <1> USE HarqAssumption DEF DLInv, DLTypeOK, Pending, Goto, Thread, PC, Over, Busy
  <1>1. DLTypeOK'
    BY DEF EndRx
  <1>2. OneFeedback'
    BY DEF OneFeedback, EndRx
  <1>3. IdleInRound0'
    BY DEF IdleInRound0, OneFeedback, Knows, EndRx
  <1>4. Active'
    BY DEF Active, IdleInRound0, OneFeedback, Knows, Limits, EndRx
  <1>5. Limits'
    BY DEF Limits, Active, OneFeedback, Knows, EndRx
  <1>6. \A t \in Thread : Knows(t)'
    BY DEF Knows, OneFeedback, Active, Limits, EndRx
  <1>7. QED
    BY <1>1, <1>2, <1>3, <1>4, <1>5, <1>6

LEMMA GuardStep ==
  ASSUME ~Overlap, DLInv, Guard PROVE DLInv'
  <1> USE HarqAssumption DEF DLInv, DLTypeOK, Pending, Goto, Thread, PC, Over, Busy
  <1>1. DLTypeOK'
    BY DEF Guard
  <1>2. OneFeedback'
    BY DEF OneFeedback, Guard
  <1>3. IdleInRound0'
    BY DEF IdleInRound0, OneFeedback, Knows, Guard
  <1>4. Active'
    BY DEF Active, IdleInRound0, OneFeedback, Knows, Limits, Guard
  <1>5. Limits'
    BY DEF Limits, Active, OneFeedback, Knows, Guard
  <1>6. \A t \in Thread : Knows(t)'
    BY DEF Knows, OneFeedback, Active, Limits, Guard
  <1>7. QED
    BY <1>1, <1>2, <1>3, <1>4, <1>5, <1>6

LEMMA NoSRStep ==
  ASSUME ~Overlap, DLInv, NoSR PROVE DLInv'
  <1> USE HarqAssumption DEF DLInv, DLTypeOK, Pending, Goto, Thread, PC, Over, Busy
  <1>1. DLTypeOK'
    BY DEF NoSR
  <1>2. OneFeedback'
    BY DEF OneFeedback, NoSR
  <1>3. IdleInRound0'
    BY DEF IdleInRound0, OneFeedback, Knows, NoSR
  <1>4. Active'
    BY DEF Active, IdleInRound0, OneFeedback, Knows, Limits, NoSR
  <1>5. Limits'
    BY DEF Limits, Active, OneFeedback, Knows, NoSR
  <1>6. \A t \in Thread : Knows(t)'
    BY DEF Knows, OneFeedback, Active, Limits, NoSR
  <1>7. QED
    BY <1>1, <1>2, <1>3, <1>4, <1>5, <1>6

LEMMA FirstSRStep ==
  ASSUME ~Overlap, DLInv, FirstSR PROVE DLInv'
  <1> USE HarqAssumption DEF DLInv, DLTypeOK, Pending, Goto, Thread, PC, Over, Busy
  <1>1. DLTypeOK'
    BY Ranges DEF FirstSR
  <1>2. OneFeedback'
    BY DEF OneFeedback, FirstSR
  <1>3. IdleInRound0'
    BY DEF IdleInRound0, OneFeedback, Knows, FirstSR
  <1>4. Active'
    BY DEF Active, IdleInRound0, OneFeedback, Knows, Limits, FirstSR
  <1>5. Limits'
    BY DEF Limits, Active, OneFeedback, Knows, FirstSR
  <1>6. \A t \in Thread : Knows(t)'
    BY DEF Knows, OneFeedback, Active, Limits, FirstSR
  <1>7. QED
    BY <1>1, <1>2, <1>3, <1>4, <1>5, <1>6

LEMMA CheckStep ==
  ASSUME ~Overlap, DLInv, NEW th \in Thread, Check(th) PROVE DLInv'
  <1> USE HarqAssumption DEF DLInv, DLTypeOK, Pending, Goto, Thread, PC, Over, Busy
  <1>1. DLTypeOK'
    BY DEF Check
  <1>2. OneFeedback'
    BY DEF OneFeedback, Check
  <1>3. IdleInRound0'
    BY DEF IdleInRound0, OneFeedback, Knows, Check
  <1>4. Active'
    BY DEF Active, IdleInRound0, OneFeedback, Knows, Limits, Check
  <1>5. Limits'
    BY DEF Limits, Active, OneFeedback, Knows, Check
  <1>6. \A t \in Thread : Knows(t)'
    BY DEF Knows, OneFeedback, Active, Limits, Check
  <1>7. QED
    BY <1>1, <1>2, <1>3, <1>4, <1>5, <1>6

LEMMA AckStep ==
  ASSUME ~Overlap, DLInv, NEW th \in Thread, Ack(th) PROVE DLInv'
  <1> USE HarqAssumption DEF DLInv, DLTypeOK, Pending, Goto, Thread, PC, Over, Busy
  <1>1. DLTypeOK'
    BY Ranges DEF Ack
  <1>2. OneFeedback'
    BY DEF OneFeedback, Ack
  <1>3. IdleInRound0'
    BY DEF IdleInRound0, OneFeedback, Knows, Ack
  <1>4. Active'
    BY DEF Active, IdleInRound0, OneFeedback, Knows, Limits, Ack
  <1>5. Limits'
    BY DEF Limits, Active, OneFeedback, Knows, Ack
  <1>6. \A t \in Thread : Knows(t)'
    BY DEF Knows, OneFeedback, Active, Limits, Ack
  <1>7. QED
    BY <1>1, <1>2, <1>3, <1>4, <1>5, <1>6

LEMMA NakStep ==
  ASSUME ~Overlap, DLInv, NEW th \in Thread, Nak(th) PROVE DLInv'
  <1> USE HarqAssumption DEF DLInv, DLTypeOK, Pending, Goto, Thread, PC, Over, Busy
  <1>1. DLTypeOK'
    BY DEF Nak
  <1>2. OneFeedback'
    BY DEF OneFeedback, Nak
  <1>3. IdleInRound0'
    BY DEF IdleInRound0, OneFeedback, Knows, Nak
  <1>4. Active'
    BY DEF Active, IdleInRound0, OneFeedback, Knows, Limits, Nak
  <1>5. Limits'
    BY DEF Limits, Active, OneFeedback, Knows, Nak
  <1>6. \A t \in Thread : Knows(t)'
    BY DEF Knows, OneFeedback, Active, Limits, Nak
  <1>7. QED
    BY <1>1, <1>2, <1>3, <1>4, <1>5, <1>6

LEMMA StoreStep ==
  ASSUME ~Overlap, DLInv, NEW th \in Thread, Store(th) PROVE DLInv'
  <1> USE HarqAssumption DEF DLInv, DLTypeOK, Pending, Goto, Thread, PC, Over, Busy
  <1>1. DLTypeOK'
    BY DEF Store
  <1>2. OneFeedback'
    BY DEF OneFeedback, Store
  <1>3. IdleInRound0'
    BY DEF IdleInRound0, OneFeedback, Knows, Store
  <1>4. Active'
    BY DEF Active, IdleInRound0, OneFeedback, Knows, Limits, Store
  <1>5. Limits'
    BY DEF Limits, Active, OneFeedback, Knows, Store
  <1>6. \A t \in Thread : Knows(t)'
    BY DEF Knows, OneFeedback, Active, Limits, Store
  <1>7. QED
    BY <1>1, <1>2, <1>3, <1>4, <1>5, <1>6

LEMMA LimitStep ==
  ASSUME ~Overlap, DLInv, NEW th \in Thread, Limit(th) PROVE DLInv'
  <1> USE HarqAssumption DEF DLInv, DLTypeOK, Pending, Goto, Thread, PC, Over, Busy, LastRound, Keep
  <1>1. DLTypeOK'
    BY Ranges DEF Limit
  <1>2. OneFeedback'
    BY DEF OneFeedback, Limit
  <1>3. IdleInRound0'
    BY DEF IdleInRound0, OneFeedback, Knows, Limit
  <1>4. Active'
    BY DEF Active, IdleInRound0, OneFeedback, Knows, Limits, Limit
  <1>5. Limits'
    BY DEF Limits, Active, OneFeedback, Knows, Limit
  <1>6. \A t \in Thread : Knows(t)'
    BY DEF Knows, OneFeedback, Active, Limits, Limit
  <1>7. QED
    BY <1>1, <1>2, <1>3, <1>4, <1>5, <1>6

\* DLInv is inductive.
LEMMA StepPreserves == ASSUME ~Overlap, DLInv, [DLNext]_dlVars PROVE DLInv'
  <1>1. CASE Transmit
    BY <1>1, TransmitStep
  <1>2. CASE StartRx
    BY <1>2, StartRxStep
  <1>3. CASE CollectPusch
    BY <1>3, CollectPuschStep
  <1>4. CASE EndRx
    BY <1>4, EndRxStep
  <1>5. CASE Guard
    BY <1>5, GuardStep
  <1>6. CASE NoSR
    BY <1>6, NoSRStep
  <1>7. CASE FirstSR
    BY <1>7, FirstSRStep
  <1>8. ASSUME NEW th \in Thread, Feedback(th) PROVE DLInv'
    BY <1>8, CheckStep, AckStep, NakStep, StoreStep, LimitStep DEF Feedback
  <1>9. CASE UNCHANGED dlVars
    BY <1>9 DEF dlVars, DLInv, DLTypeOK, OneFeedback, Pending, IdleInRound0, Active, Limits, Knows
  <1>10. QED
    BY <1>1, <1>2, <1>3, <1>4, <1>5, <1>6, <1>7, <1>8, <1>9 DEF DLNext

(* While no UE's feedback reaches the process twice, DLInv holds throughout.      *)
THEOREM DLInvariance == ASSUME ~Overlap PROVE DLSpec => []DLInv
  <1>1. DLInv /\ [DLNext]_dlVars => DLInv'
    BY StepPreserves
  <1>2. QED
    BY InitEstablishes, <1>1, PTL DEF DLSpec

(* The fields of a HARQ process keep their ranges: get_ue_active_harq_pid never  *)
(* meets the status on which it aborts.                                          *)
THEOREM DLTypeCorrect == ASSUME ~Overlap PROVE DLSpec => []DLTypeOK
  <1>1. DLInv => DLTypeOK
    BY DEF DLInv
  <1>2. QED
    BY DLInvariance, <1>1, PTL

(* An ACK leaves the process idle and in round 0, whichever thread brings it.    *)
THEOREM AckIsFinal == ASSUME ~Overlap PROVE DLSpec => []AckEndsPacket
  <1>1. DLInv => AckEndsPacket
    BY DEF DLInv, IdleInRound0, Knows, AckEndsPacket
  <1>2. QED
    BY DLInvariance, <1>1, PTL

(* Whenever the MAC may use an idle process, it is in round 0 and can be         *)
(* activated.                                                                    *)
THEOREM IdleProcessUsable == ASSUME ~Overlap PROVE DLSpec => []IdleIsRoundZero
  <1>1. DLInv => IdleIsRoundZero
    BY DEF DLInv, IdleInRound0, IdleIsRoundZero
  <1>2. QED
    BY DLInvariance, <1>1, PTL

(* No packet is transmitted more than DLMlimit times.                              *)
THEOREM TransmissionsLimited == ASSUME ~Overlap PROVE DLSpec => []SentAtMostMlimit
  <1>1. DLInv => SentAtMostMlimit
    BY DEF DLInv, Limits, SentAtMostMlimit
  <1>2. QED
    BY DLInvariance, <1>1, PTL

(* The round get_ue_active_harq_pid reports is the number of transmissions.      *)
THEOREM RoundIsCount == ASSUME ~Overlap PROVE DLSpec => []RoundCountsSent
  <1>1. DLInv => RoundCountsSent
    BY DEF DLInv, Active, RoundCountsSent, ReportedRound
  <1>2. QED
    BY DLInvariance, <1>1, PTL

(* A packet the eNB gives up has been transmitted DLMlimit times.                  *)
THEOREM GivenUpAtLimit == ASSUME ~Overlap PROVE DLSpec => DroppedAtLimit
  <1> DEFINE GivesUp(th) == pc[th] = "limit" /\ pc'[th] = "dropped"
  <1>1. ASSUME DLInv, [DLNext]_dlVars, NEW th \in Thread, GivesUp(th) PROVE sent = DLMlimit
    <2>1. ASSUME NEW t \in Thread, Limit(t), t = th PROVE sent = DLMlimit
      <3>1. reg[th] = round /\ status = "ACTIVE" /\ ~Pending
        BY <1>1 DEF DLInv, Knows, OneFeedback, Pending, Thread, Busy, Over
      <3>2. reg[th] = DLMlimit \/ round = DLMlimit
        BY <1>1, <2>1 DEF DLInv, DLTypeOK, Limit, Keep, Goto
      <3>3. QED
        BY <1>1, <3>1, <3>2 DEF DLInv, Active
    <2>2. ~\E t \in Thread : Feedback(t) /\ ~(Limit(t) /\ t = th)
      BY <1>1 DEF Feedback, Check, Ack, Nak, Store, Limit, LastRound, Keep, Goto, DLInv, DLTypeOK
    <2>3. ~Transmit /\ ~StartRx /\ ~CollectPusch /\ ~EndRx /\ ~Guard /\ ~NoSR /\ ~FirstSR
      BY <1>1 DEF Transmit, StartRx, CollectPusch, EndRx, Guard, NoSR, FirstSR, Goto,
         DLInv, DLTypeOK, Thread
    <2>4. ~UNCHANGED dlVars
      BY <1>1 DEF dlVars
    <2>5. QED
      BY <1>1, <2>1, <2>2, <2>3, <2>4 DEF DLNext
  <1>2. DLInv /\ [DLNext]_dlVars
          => [\A th \in Thread : GivesUp(th) => sent = DLMlimit]_dlVars
    BY <1>1
  <1>3. QED
    BY DLInvariance, <1>2, PTL DEF DLSpec, DroppedAtLimit

(* A new packet never replaces one that is still on its way.                     *)
THEOREM PacketsKept == ASSUME ~Overlap PROVE DLSpec => NoPacketOverwritten
  <1>1. DLInv /\ [DLNext]_dlVars => [Transmit /\ status = "ACTIVE" => round # 0]_dlVars
    BY DEF DLInv, Active, Transmit, DLTypeOK
  <1>2. QED
    BY DLInvariance, <1>1, PTL DEF DLSpec, NoPacketOverwritten

=============================================================================
