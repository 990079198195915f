--------------------------- MODULE DownlinkTxProofs ---------------------------
(***************************************************************************)
(* The subframe the master has built holds its own schedule and nothing      *)
(* else, and nobody writes it any more: proofs about DownlinkTx for any      *)
(* numbering of frames, any UEs and schedules, at any speed of the threads.  *)
(*                                                                         *)
(* A thread that has missed its signal leaves its flag at 0 and the master   *)
(* in its wait; so, flag by flag, what is due is in the buffer or its thread *)
(* is not through (Pending...), and a flag that is set finds its thread      *)
(* parked or about to park (Quiet).                                         *)
(***************************************************************************)
EXTENDS MCDownlinkTx, TLAPS

\* The master builds a subframe; it waits for threads it has signalled.
Building == {"m2p", "cch", "dci", "pdsch", "barrier", "cchwait", "srwait"}
M2pOut   == {"cch", "dci", "pdsch", "barrier", "cchwait", "srwait"}
CchOut   == {"dci", "pdsch", "barrier", "cchwait"}

Plan   == dci_pdu.plan
Buffer == txdataF[SlotOf(t)]

\* A thread is out only between its signal and its flag.
Quiet ==
    /\ mpc \notin M2pOut \/ complete_sch_SR => m2p \in {"top", "wait"}
    /\ mpc \in M2pOut /\ complete_dci => m2p \notin {"woken", "parse", "publish"}
    /\ mpc \in M2pOut \ {"cch", "dci"} => complete_dci
    /\ mpc \notin CchOut \/ complete_cch => cch \in {"top", "wait"}
    /\ mpc = "srwait" => complete_cch
    /\ open <=> mpc = "barrier"
    /\ ~open => todo = {}
    /\ work \subseteq todo

\* What the subframe is for, and the subframe of the control channel thread.
Scheduled ==
    /\ mpc \in Building => Downlink(t) /\ dci_pdu.sf = t /\ due[t] = Content(Plan, t)
    /\ cch \in {"common", "pdcch"} => cch_sf = t

\* The DLSCHs are those of the plan from the parsing of its DCIs until they are
\* modulated.
Allocated ==
    /\ active = IF mpc \in {"cch", "dci", "pdsch"} /\ (complete_dci \/ m2p = "publish")
                THEN Plan.ues ELSE {}
    /\ dlsch_SI <=> m2p \in {"publish", "si"} /\ Plan.si
    /\ dlsch_ra <=> m2p \in {"publish", "si", "ra"} /\ Plan.ra
    /\ mpc = "barrier" => work \subseteq Plan.ues

PendingCommon == mpc \in {"m2p", "cch"} \/ (~complete_cch /\ cch \notin {"pdcch", "done"})
PendingPdcch  == mpc \in {"m2p", "cch"} \/ (~complete_cch /\ cch # "done")
PendingSI     == mpc = "m2p" \/ (~complete_sch_SR /\ m2p \notin {"ra", "done"})
PendingRA     == mpc = "m2p" \/ (~complete_sch_SR /\ m2p # "done")
PendingUE(u)  == mpc \in {"m2p", "cch", "dci", "pdsch"} \/ u \in work

\* What is due is in the buffer or still to come, and nothing else is in it.
Drawn ==
    /\ mpc \in Building =>
        /\ Buffer \subseteq due[t]
        /\ <<"common", t>> \in Buffer \/ PendingCommon
        /\ <<"pdcch", t>> \in Buffer \/ PendingPdcch
        /\ Plan.si => <<"si", t>> \in Buffer \/ PendingSI
        /\ Plan.ra => <<"ra", t>> \in Buffer \/ PendingRA
        /\ \A u \in Plan.ues : <<u, t>> \in Buffer \/ PendingUE(u)
    /\ Built

IInv == TypeOK /\ Quiet /\ Scheduled /\ Allocated /\ Drawn
-----------------------------------------------------------------------------
LEMMA Numbers ==
  /\ NumFrame * NumSubframe \in Nat \ {0}
  /\ \A s \in SF : SlotOf(s) \in Slot /\ s \in Int
  /\ \A s \in SF, n \in Nat : Plus(s, n) \in SF
  /\ 1 \in Nat /\ TxAhead \in Nat /\ 0 \in SF
  <1> USE DownlinkAssumption
  <1>1. NumFrame * NumSubframe \in Nat \ {0}
    OBVIOUS
  <1>2. \A s \in SF : SlotOf(s) \in Slot /\ s \in Int
    BY <1>1 DEF SF, SlotOf, Slot
  <1>3. \A s \in SF, n \in Nat : Plus(s, n) \in SF
    <2> DEFINE m == NumFrame * NumSubframe
    <2>1. \A x \in Nat : x % m \in 0..(m - 1)
      BY <1>1
    <2>2. \A s \in SF, n \in Nat : s + n \in Nat
      BY <1>1 DEF SF
    <2> QED
      BY <2>1, <2>2 DEF Plus, SF
  <1>4. QED
    BY <1>1, <1>2, <1>3 DEF SF

LEMMA PlanTypes ==
  ASSUME NEW p \in Plans \cup {NoPlan}
  PROVE  p.ues \subseteq UE /\ p.si \in BOOLEAN /\ p.ra \in BOOLEAN
  <1>1. CASE p \in Plans
    BY <1>1, DownlinkAssumption
  <1>2. CASE p = NoPlan
    BY <1>2 DEF NoPlan
  <1>3. QED
    BY <1>1, <1>2

LEMMA Marks ==
  ASSUME NEW c \in {"common", "pdcch", "si", "ra"} \cup UE, NEW s \in SF
  PROVE  {<<c, s>>} \subseteq Mark
  BY DEF Mark, Channel

\* The marks of a plan, one by one.
LEMMA Contents ==
  ASSUME NEW p \in Plans \cup {NoPlan}, NEW s \in SF
  PROVE  /\ Content(p, s) \subseteq Mark
         /\ <<"common", s>> \in Content(p, s) /\ <<"pdcch", s>> \in Content(p, s)
         /\ p.si => <<"si", s>> \in Content(p, s)
         /\ p.ra => <<"ra", s>> \in Content(p, s)
         /\ \A u \in p.ues : <<u, s>> \in Content(p, s)
         /\ \A m \in Content(p, s) :
                \/ m = <<"common", s>> \/ m = <<"pdcch", s>>
                \/ (p.si /\ m = <<"si", s>>) \/ (p.ra /\ m = <<"ra", s>>)
                \/ \E u \in p.ues : m = <<u, s>>
  <1>1. p.ues \subseteq UE
    BY PlanTypes
  <1> DEFINE C == {"common", "pdcch"} \cup p.ues \cup (IF p.si THEN {"si"} ELSE {})
                                    \cup (IF p.ra THEN {"ra"} ELSE {})
  <1>2. Content(p, s) = C \X {s}
    BY DEF Content
  <1>3. C \subseteq Channel
    BY <1>1 DEF Channel
  <1>4. Content(p, s) \subseteq Mark
    BY <1>2, <1>3 DEF Mark
  <1>5. \A c \in C : <<c, s>> \in Content(p, s)
    BY <1>2
  <1>6. ASSUME NEW m \in Content(p, s) PROVE \E c \in C : m = <<c, s>>
    <2>1. m[1] \in C /\ m = <<m[1], s>>
      BY <1>2
    <2>2. QED
      BY <2>1
  <1>7. /\ {"common", "pdcch"} \cup p.ues \subseteq C
        /\ p.si => "si" \in C
        /\ p.ra => "ra" \in C
    OBVIOUS
  <1>8. \A c \in C : \/ c \in {"common", "pdcch"} \/ (p.si /\ c = "si") \/ (p.ra /\ c = "ra")
                    \/ c \in p.ues
    <2>1. p.si \in BOOLEAN /\ p.ra \in BOOLEAN
      BY PlanTypes
    <2>2. TAKE c \in C
    <2>3. \/ c \in {"common", "pdcch"} \/ c \in p.ues
          \/ c \in (IF p.si THEN {"si"} ELSE {}) \/ c \in (IF p.ra THEN {"ra"} ELSE {})
      BY <2>2
    <2> HIDE DEF C
    <2>4. c \in (IF p.si THEN {"si"} ELSE {}) => p.si /\ c = "si"
      BY <2>1
    <2>5. c \in (IF p.ra THEN {"ra"} ELSE {}) => p.ra /\ c = "ra"
      BY <2>1
    <2>6. QED
      BY <2>3, <2>4, <2>5
  <1> HIDE DEF C
  <1>9. QED
    BY <1>4, <1>5, <1>6, <1>7, <1>8

\* What a thread that writes a mark does to the buffers.
LEMMA Draws ==
  ASSUME TypeOK, NEW c \in {"common", "pdcch", "si", "ra"} \cup UE, NEW s \in SF,
         NEW of \in SF, Draw(s, c, of)
  PROVE  /\ txdataF' \in [Slot -> SUBSET Mark]
         /\ txdataF'[SlotOf(s)] = txdataF[SlotOf(s)] \cup {<<c, of>>}
  <1>1. SlotOf(s) \in Slot
    BY Numbers
  <1>2. txdataF[SlotOf(s)] \cup {<<c, of>>} \in SUBSET Mark
    BY <1>1, Marks DEF TypeOK
  <1>3. QED
    BY <1>1, <1>2 DEF Draw, TypeOK

LEMMA InitEstablishes == Init => IInv
  <1> SUFFICES ASSUME Init PROVE IInv
    OBVIOUS
  <1>1. TypeOK
    BY Numbers DEF Init, Pool!Init, TypeOK, MasterPC, M2pPC, CchPC, OfdmPC
  <1>2. Quiet /\ Scheduled /\ Allocated /\ Drawn
    BY DEF Init, Pool!Init, Quiet, Scheduled, Allocated, Drawn, Built, Building, M2pOut, CchOut
  <1>3. QED
    BY <1>1, <1>2 DEF IInv

\* The master.
LEMMA MasterKeeps ==
  ASSUME IInv, Master
  PROVE  IInv'
  <1> USE DEF IInv, masterVars, flagVars, m2pVars, cchVars, ofdmVars, dlschVars, poolVars,
              Building, M2pOut, CchOut, Plan, Buffer, Wake, Pool!Open,
              Pool!Close
  <1>0. /\ Plan \in Plans \cup {NoPlan}
        /\ Plan.ues \subseteq UE /\ Plan.si \in BOOLEAN /\ Plan.ra \in BOOLEAN
        /\ {t, rx, dci_pdu.sf, cch_sf} \subseteq SF
        /\ SlotOf(t) \in Slot /\ SlotOf(cch_sf) \in Slot /\ SlotOf(ofdm_sf) \in Slot
    <2>1. Plan \in Plans \cup {NoPlan} /\ {t, rx, dci_pdu.sf, cch_sf, ofdm_sf} \subseteq SF
      BY DEF TypeOK
    <2>2. QED
      BY <2>1, PlanTypes, Numbers
  <1>1. CASE RfWrite
    <2>1. TypeOK'
      BY <1>0, <1>1 DEF RfWrite, TypeOK, MasterPC, M2pPC, CchPC, OfdmPC
    <2>2. Quiet'
      BY <1>0, <1>1 DEF RfWrite, TypeOK, Quiet
    <2>3. Scheduled'
      BY <1>0, <1>1 DEF RfWrite, TypeOK, Quiet, Scheduled
    <2>4. Allocated'
      BY <1>0, <1>1 DEF RfWrite, TypeOK, Quiet, Allocated
    <2>5. Drawn'
      BY <1>0, <1>1 DEF RfWrite, TypeOK, Quiet, Scheduled, Allocated, Drawn, Built,
                         PendingCommon, PendingPdcch, PendingSI, PendingRA, PendingUE
    <2>6. QED
      BY <2>1, <2>2, <2>3, <2>4, <2>5
  <1>2. CASE RfRead
    <2>1. TypeOK'
      <3>1. rx' \in SF
        BY <1>0, <1>2, Numbers DEF RfRead
      <3>2. t' \in SF
        BY <3>1, <1>2, Numbers DEF RfRead
      <3>3. QED
        BY <3>1, <3>2, <1>2 DEF RfRead, TypeOK, MasterPC, M2pPC, CchPC, OfdmPC
    <2>2. Quiet'
      BY <1>0, <1>2 DEF RfRead, TypeOK, Quiet
    <2>3. Scheduled'
      BY <1>0, <1>2 DEF RfRead, TypeOK, Quiet, Scheduled
    <2>4. Allocated'
      BY <1>0, <1>2 DEF RfRead, TypeOK, Quiet, Allocated
    <2>5. Drawn'
      BY <1>0, <1>2 DEF RfRead, TypeOK, Quiet, Scheduled, Allocated, Drawn, Built,
                         PendingCommon, PendingPdcch, PendingSI, PendingRA, PendingUE
    <2>6. QED
      BY <2>1, <2>2, <2>3, <2>4, <2>5
  <1>3. CASE NoDownlink
    <2>1. TypeOK'
      BY <1>0, <1>3 DEF NoDownlink, TypeOK, MasterPC, M2pPC, CchPC, OfdmPC
    <2>2. Quiet'
      BY <1>0, <1>3 DEF NoDownlink, TypeOK, Quiet
    <2>3. Scheduled'
      BY <1>0, <1>3 DEF NoDownlink, TypeOK, Quiet, Scheduled
    <2>4. Allocated'
      BY <1>0, <1>3 DEF NoDownlink, TypeOK, Quiet, Allocated
    <2>5. Drawn'
      BY <1>0, <1>3 DEF NoDownlink, TypeOK, Quiet, Scheduled, Allocated, Drawn, Built,
                         PendingCommon, PendingPdcch, PendingSI, PendingRA, PendingUE
    <2>6. QED
      BY <2>1, <2>2, <2>3, <2>4, <2>5
  <1>4. CASE MacSchedule
    <2>1. TypeOK'
      <3>1. PICK p \in Plans : /\ dci_pdu' = [sf |-> t, plan |-> p]
                               /\ due' = [due EXCEPT ![t] = Content(p, t)]
        BY <1>4 DEF MacSchedule
      <3>2. Content(p, t) \in SUBSET Mark
        BY <1>0, Contents
      <3>3. QED
        BY <1>0, <1>4, <3>1, <3>2 DEF MacSchedule, TypeOK, MasterPC, M2pPC, CchPC, OfdmPC
    <2>2. Quiet'
      BY <1>0, <1>4 DEF MacSchedule, TypeOK, Quiet
    <2>3. Scheduled'
      BY <1>0, <1>4 DEF MacSchedule, TypeOK, Quiet, Scheduled
    <2>4. Allocated'
      BY <1>0, <1>4 DEF MacSchedule, TypeOK, Quiet, Allocated
    <2>5. Drawn'
      BY <1>0, <1>4 DEF MacSchedule, TypeOK, Quiet, Scheduled, Allocated, Drawn, Built,
                         PendingCommon, PendingPdcch, PendingSI, PendingRA, PendingUE
    <2>6. QED
      BY <2>1, <2>2, <2>3, <2>4, <2>5
  <1>5. CASE StartM2p
    <2>1. TypeOK'
      BY <1>0, <1>5 DEF StartM2p, TypeOK, MasterPC, M2pPC, CchPC, OfdmPC
    <2>2. Quiet'
      BY <1>0, <1>5 DEF StartM2p, TypeOK, Quiet
    <2>3. Scheduled'
      BY <1>0, <1>5 DEF StartM2p, TypeOK, Quiet, Scheduled
    <2>4. Allocated'
      BY <1>0, <1>5 DEF StartM2p, TypeOK, Quiet, Allocated
    <2>5. Drawn'
      BY <1>0, <1>5 DEF StartM2p, TypeOK, Quiet, Scheduled, Allocated, Drawn, Built,
                         PendingCommon, PendingPdcch, PendingSI, PendingRA, PendingUE
    <2>6. QED
      BY <2>1, <2>2, <2>3, <2>4, <2>5
  <1>6. CASE StartCch
    <2>1. TypeOK'
      BY <1>0, <1>6 DEF StartCch, TypeOK, MasterPC, M2pPC, CchPC, OfdmPC
    <2>2. Quiet'
      BY <1>0, <1>6 DEF StartCch, TypeOK, Quiet
    <2>3. Scheduled'
      BY <1>0, <1>6 DEF StartCch, TypeOK, Quiet, Scheduled
    <2>4. Allocated'
      BY <1>0, <1>6 DEF StartCch, TypeOK, Quiet, Allocated
    <2>5. Drawn'
      BY <1>0, <1>6 DEF StartCch, TypeOK, Quiet, Scheduled, Allocated, Drawn, Built,
                         PendingCommon, PendingPdcch, PendingSI, PendingRA, PendingUE
    <2>6. QED
      BY <2>1, <2>2, <2>3, <2>4, <2>5
  <1>7. CASE AwaitDci
    <2>1. TypeOK'
      BY <1>0, <1>7 DEF AwaitDci, TypeOK, MasterPC, M2pPC, CchPC, OfdmPC
    <2>2. Quiet'
      BY <1>0, <1>7 DEF AwaitDci, TypeOK, Quiet
    <2>3. Scheduled'
      BY <1>0, <1>7 DEF AwaitDci, TypeOK, Quiet, Scheduled
    <2>4. Allocated'
      BY <1>0, <1>7 DEF AwaitDci, TypeOK, Quiet, Allocated
    <2>5. Drawn'
      BY <1>0, <1>7 DEF AwaitDci, TypeOK, Quiet, Scheduled, Allocated, Drawn, Built,
                         PendingCommon, PendingPdcch, PendingSI, PendingRA, PendingUE
    <2>6. QED
      BY <2>1, <2>2, <2>3, <2>4, <2>5
  <1>8. CASE StartPdsch
    <2>1. TypeOK'
      BY <1>0, <1>8 DEF StartPdsch, TypeOK, MasterPC, M2pPC, CchPC, OfdmPC
    <2>2. Quiet'
      BY <1>0, <1>8 DEF StartPdsch, TypeOK, Quiet
    <2>3. Scheduled'
      BY <1>0, <1>8 DEF StartPdsch, TypeOK, Quiet, Scheduled
    <2>4. Allocated'
      BY <1>0, <1>8 DEF StartPdsch, TypeOK, Quiet, Allocated
    <2>5. Drawn'
      BY <1>0, <1>8 DEF StartPdsch, TypeOK, Quiet, Scheduled, Allocated, Drawn, Built,
                         PendingCommon, PendingPdcch, PendingSI, PendingRA, PendingUE
    <2>6. QED
      BY <2>1, <2>2, <2>3, <2>4, <2>5
  <1>9. CASE AwaitPdsch
    <2>1. TypeOK'
      BY <1>0, <1>9 DEF AwaitPdsch, TypeOK, MasterPC, M2pPC, CchPC, OfdmPC
    <2>2. Quiet'
      BY <1>9 DEF AwaitPdsch, Quiet, TypeOK
    <2>3. Scheduled'
      BY <1>0, <1>9 DEF AwaitPdsch, TypeOK, Quiet, Scheduled
    <2>4. Allocated'
      BY <1>0, <1>9 DEF AwaitPdsch, TypeOK, Quiet, Allocated
    <2>5. Drawn'
      BY <1>0, <1>9 DEF AwaitPdsch, TypeOK, Quiet, Scheduled, Allocated, Drawn, Built,
                         PendingCommon, PendingPdcch, PendingSI, PendingRA, PendingUE
    <2>6. QED
      BY <2>1, <2>2, <2>3, <2>4, <2>5
  <1>10. CASE AwaitCch
    <2>1. TypeOK'
      BY <1>0, <1>10 DEF AwaitCch, TypeOK, MasterPC, M2pPC, CchPC, OfdmPC
    <2>2. Quiet'
      BY <1>0, <1>10 DEF AwaitCch, TypeOK, Quiet
    <2>3. Scheduled'
      BY <1>0, <1>10 DEF AwaitCch, TypeOK, Quiet, Scheduled
    <2>4. Allocated'
      BY <1>0, <1>10 DEF AwaitCch, TypeOK, Quiet, Allocated
    <2>5. Drawn'
      BY <1>0, <1>10 DEF AwaitCch, TypeOK, Quiet, Scheduled, Allocated, Drawn, Built,
                         PendingCommon, PendingPdcch, PendingSI, PendingRA, PendingUE
    <2>6. QED
      BY <2>1, <2>2, <2>3, <2>4, <2>5
  <1>11. CASE AwaitSR
    <2>1. TypeOK'
      BY <1>0, <1>11 DEF AwaitSR, TypeOK, MasterPC, M2pPC, CchPC, OfdmPC
    <2>2. Quiet'
      BY <1>0, <1>11 DEF AwaitSR, TypeOK, Quiet
    <2>3. Scheduled'
      BY <1>0, <1>11 DEF AwaitSR, TypeOK, Quiet, Scheduled
    <2>4. Allocated'
      BY <1>0, <1>11 DEF AwaitSR, TypeOK, Quiet, Allocated
    <2>5. Drawn'
      <3>1. Downlink(t) /\ due[t] = Content(Plan, t) /\ Buffer \subseteq due[t]
        BY <1>11 DEF AwaitSR, Scheduled, Drawn
      <3>2. complete_sch_SR /\ complete_cch /\ work = {}
        BY <1>11 DEF AwaitSR, Quiet, TypeOK
      <3>3. /\ <<"common", t>> \in Buffer /\ <<"pdcch", t>> \in Buffer
            /\ Plan.si => <<"si", t>> \in Buffer
            /\ Plan.ra => <<"ra", t>> \in Buffer
            /\ \A u \in Plan.ues : <<u, t>> \in Buffer
        BY <3>2, <1>11 DEF AwaitSR, Drawn, PendingCommon, PendingPdcch, PendingSI, PendingRA,
                           PendingUE
      <3>4. due[t] \subseteq Buffer
        <4>1. SUFFICES ASSUME NEW m \in Content(Plan, t) PROVE m \in Buffer
          BY <3>1
        <4>2. \/ m = <<"common", t>> \/ m = <<"pdcch", t>>
              \/ (Plan.si /\ m = <<"si", t>>) \/ (Plan.ra /\ m = <<"ra", t>>)
              \/ \E u \in Plan.ues : m = <<u, t>>
          BY <1>0, Contents
        <4>3. QED
          BY <3>3, <4>2
      <3>5. Buffer = due[t]
        BY <3>1, <3>4
      <3>6. QED
        BY <1>11, <3>5 DEF AwaitSR, Drawn, Built
    <2>6. QED
      BY <2>1, <2>2, <2>3, <2>4, <2>5
  <1>12. CASE Spin
    <2>1. TypeOK'
      BY <1>0, <1>12 DEF Spin, vars, TypeOK, MasterPC, M2pPC, CchPC, OfdmPC
    <2>2. Quiet'
      BY <1>0, <1>12 DEF Spin, vars, TypeOK, Quiet
    <2>3. Scheduled'
      BY <1>0, <1>12 DEF Spin, vars, TypeOK, Quiet, Scheduled
    <2>4. Allocated'
      BY <1>0, <1>12 DEF Spin, vars, TypeOK, Quiet, Allocated
    <2>5. Drawn'
      BY <1>0, <1>12 DEF Spin, vars, TypeOK, Quiet, Scheduled, Allocated, Drawn, Built,
                         PendingCommon, PendingPdcch, PendingSI, PendingRA, PendingUE
    <2>6. QED
      BY <2>1, <2>2, <2>3, <2>4, <2>5
  <1>13. CASE StartOfdm
    <2>1. TypeOK'
      BY <1>0, <1>13 DEF StartOfdm, TypeOK, MasterPC, M2pPC, CchPC, OfdmPC
    <2>2. Quiet'
      BY <1>0, <1>13 DEF StartOfdm, TypeOK, Quiet
    <2>3. Scheduled'
      BY <1>0, <1>13 DEF StartOfdm, TypeOK, Quiet, Scheduled
    <2>4. Allocated'
      BY <1>0, <1>13 DEF StartOfdm, TypeOK, Quiet, Allocated
    <2>5. Drawn'
      BY <1>0, <1>13 DEF StartOfdm, TypeOK, Quiet, Scheduled, Allocated, Drawn, Built,
                         PendingCommon, PendingPdcch, PendingSI, PendingRA, PendingUE
    <2>6. QED
      BY <2>1, <2>2, <2>3, <2>4, <2>5
  <1>14. QED
    BY <1>1, <1>2, <1>3, <1>4, <1>5, <1>6, <1>7, <1>8, <1>9, <1>10, <1>11, <1>12, <1>13 DEF Master

\* mac2phy_proc.
LEMMA M2pKeeps ==
  ASSUME IInv, M2p
  PROVE  IInv'
  <1> USE DEF IInv, masterVars, flagVars, m2pVars, cchVars, ofdmVars, dlschVars, poolVars,
              Building, M2pOut, CchOut, Plan, Buffer, M2pGoto
  <1>0. /\ Plan \in Plans \cup {NoPlan}
        /\ Plan.ues \subseteq UE /\ Plan.si \in BOOLEAN /\ Plan.ra \in BOOLEAN
        /\ {t, rx, dci_pdu.sf, cch_sf} \subseteq SF
        /\ SlotOf(t) \in Slot /\ SlotOf(cch_sf) \in Slot /\ SlotOf(ofdm_sf) \in Slot
    <2>1. Plan \in Plans \cup {NoPlan} /\ {t, rx, dci_pdu.sf, cch_sf, ofdm_sf} \subseteq SF
      BY DEF TypeOK
    <2>2. QED
      BY <2>1, PlanTypes, Numbers
  <1>1. CASE M2pWait
    <2>1. TypeOK'
      BY <1>0, <1>1 DEF M2pWait, TypeOK, MasterPC, M2pPC, CchPC, OfdmPC
    <2>2. Quiet'
      BY <1>0, <1>1 DEF M2pWait, TypeOK, Quiet
    <2>3. Scheduled'
      BY <1>0, <1>1 DEF M2pWait, TypeOK, Quiet, Scheduled
    <2>4. Allocated'
      BY <1>0, <1>1 DEF M2pWait, TypeOK, Quiet, Allocated
    <2>5. Drawn'
      BY <1>0, <1>1 DEF M2pWait, TypeOK, Quiet, Scheduled, Allocated, Drawn, Built,
                         PendingCommon, PendingPdcch, PendingSI, PendingRA, PendingUE
    <2>6. QED
      BY <2>1, <2>2, <2>3, <2>4, <2>5
  <1>2. CASE M2pEnter
    <2>1. TypeOK'
      BY <1>0, <1>2 DEF M2pEnter, TypeOK, MasterPC, M2pPC, CchPC, OfdmPC
    <2>2. Quiet'
      BY <1>0, <1>2 DEF M2pEnter, TypeOK, Quiet
    <2>3. Scheduled'
      BY <1>0, <1>2 DEF M2pEnter, TypeOK, Quiet, Scheduled
    <2>4. Allocated'
      BY <1>0, <1>2 DEF M2pEnter, TypeOK, Quiet, Allocated
    <2>5. Drawn'
      BY <1>0, <1>2 DEF M2pEnter, TypeOK, Quiet, Scheduled, Allocated, Drawn, Built,
                         PendingCommon, PendingPdcch, PendingSI, PendingRA, PendingUE
    <2>6. QED
      BY <2>1, <2>2, <2>3, <2>4, <2>5
  <1>3. CASE M2pParse
    <2>1. TypeOK'
      BY <1>0, <1>3 DEF M2pParse, TypeOK, MasterPC, M2pPC, CchPC, OfdmPC
    <2>2. Quiet'
      BY <1>0, <1>3 DEF M2pParse, TypeOK, Quiet
    <2>3. Scheduled'
      BY <1>0, <1>3 DEF M2pParse, TypeOK, Quiet, Scheduled
    <2>4. Allocated'
      BY <1>0, <1>3 DEF M2pParse, TypeOK, Quiet, Allocated
    <2>5. Drawn'
      BY <1>0, <1>3 DEF M2pParse, TypeOK, Quiet, Scheduled, Allocated, Drawn, Built,
                         PendingCommon, PendingPdcch, PendingSI, PendingRA, PendingUE
    <2>6. QED
      BY <2>1, <2>2, <2>3, <2>4, <2>5
  <1>4. CASE M2pPublish
    <2>1. TypeOK'
      BY <1>0, <1>4 DEF M2pPublish, TypeOK, MasterPC, M2pPC, CchPC, OfdmPC
    <2>2. Quiet'
      BY <1>0, <1>4 DEF M2pPublish, TypeOK, Quiet
    <2>3. Scheduled'
      BY <1>0, <1>4 DEF M2pPublish, TypeOK, Quiet, Scheduled
    <2>4. Allocated'
      BY <1>0, <1>4 DEF M2pPublish, TypeOK, Quiet, Allocated
    <2>5. Drawn'
      BY <1>0, <1>4 DEF M2pPublish, TypeOK, Quiet, Scheduled, Allocated, Drawn, Built,
                         PendingCommon, PendingPdcch, PendingSI, PendingRA, PendingUE
    <2>6. QED
      BY <2>1, <2>2, <2>3, <2>4, <2>5
  <1>5. CASE M2pSI
    <2>1. TypeOK'
      BY <1>0, <1>5, Draws DEF M2pSI, TypeOK, MasterPC, M2pPC, CchPC, OfdmPC
    <2>2. Quiet'
      BY <1>0, <1>5 DEF M2pSI, TypeOK, Quiet
    <2>3. Scheduled'
      BY <1>0, <1>5 DEF M2pSI, TypeOK, Quiet, Scheduled
    <2>4. Allocated'
      BY <1>0, <1>5 DEF M2pSI, TypeOK, Quiet, Allocated
    <2>5. Drawn'
      <3>1. mpc \in Building /\ due[t] = Content(Plan, t)
        BY <1>5 DEF M2pSI, Quiet, Scheduled
      <3>2. Buffer' \subseteq Buffer \cup {<<"si", t>>} /\ Buffer \subseteq Buffer'
        BY <1>0, <1>5, Draws DEF M2pSI
      <3>3. dlsch_SI => <<"si", t>> \in Buffer'
        BY <1>0, <1>5, Draws DEF M2pSI
      <3>4. dlsch_SI <=> Plan.si
        BY <1>5 DEF M2pSI, Allocated
      <3>5. Buffer' \subseteq due[t]
        <4>1. Buffer \subseteq due[t]
          BY <3>1 DEF Drawn
        <4>2. CASE Plan.si
          <5>1. <<"si", t>> \in Content(Plan, t)
            BY <1>0, <4>2, Contents
          <5>2. QED
            BY <3>1, <3>2, <4>1, <5>1
        <4>3. CASE ~Plan.si
          BY <1>5, <3>4, <4>1, <4>3 DEF M2pSI
        <4>4. QED
          BY <4>2, <4>3
      <3>6. QED
        BY <1>5, <3>1, <3>2, <3>3, <3>4, <3>5 DEF M2pSI, TypeOK, Quiet, Scheduled, Allocated, Drawn, Built,
                           PendingCommon, PendingPdcch, PendingSI, PendingRA, PendingUE
    <2>6. QED
      BY <2>1, <2>2, <2>3, <2>4, <2>5
  <1>6. CASE M2pRA
    <2>1. TypeOK'
      BY <1>0, <1>6, Draws DEF M2pRA, TypeOK, MasterPC, M2pPC, CchPC, OfdmPC
    <2>2. Quiet'
      BY <1>0, <1>6 DEF M2pRA, TypeOK, Quiet
    <2>3. Scheduled'
      BY <1>0, <1>6 DEF M2pRA, TypeOK, Quiet, Scheduled
    <2>4. Allocated'
      BY <1>0, <1>6 DEF M2pRA, TypeOK, Quiet, Allocated
    <2>5. Drawn'
      <3>1. mpc \in Building /\ due[t] = Content(Plan, t)
        BY <1>6 DEF M2pRA, Quiet, Scheduled
      <3>2. Buffer' \subseteq Buffer \cup {<<"ra", t>>} /\ Buffer \subseteq Buffer'
        BY <1>0, <1>6, Draws DEF M2pRA
      <3>3. dlsch_ra => <<"ra", t>> \in Buffer'
        BY <1>0, <1>6, Draws DEF M2pRA
      <3>4. dlsch_ra <=> Plan.ra
        BY <1>6 DEF M2pRA, Allocated
      <3>5. Buffer' \subseteq due[t]
        <4>1. Buffer \subseteq due[t]
          BY <3>1 DEF Drawn
        <4>2. CASE Plan.ra
          <5>1. <<"ra", t>> \in Content(Plan, t)
            BY <1>0, <4>2, Contents
          <5>2. QED
            BY <3>1, <3>2, <4>1, <5>1
        <4>3. CASE ~Plan.ra
          BY <1>6, <3>4, <4>1, <4>3 DEF M2pRA
        <4>4. QED
          BY <4>2, <4>3
      <3>6. QED
        BY <1>6, <3>1, <3>2, <3>3, <3>4, <3>5 DEF M2pRA, TypeOK, Quiet, Scheduled, Allocated, Drawn, Built,
                           PendingCommon, PendingPdcch, PendingSI, PendingRA, PendingUE
    <2>6. QED
      BY <2>1, <2>2, <2>3, <2>4, <2>5
  <1>7. CASE M2pDone
    <2>1. TypeOK'
      BY <1>0, <1>7 DEF M2pDone, TypeOK, MasterPC, M2pPC, CchPC, OfdmPC
    <2>2. Quiet'
      BY <1>0, <1>7 DEF M2pDone, TypeOK, Quiet
    <2>3. Scheduled'
      BY <1>0, <1>7 DEF M2pDone, TypeOK, Quiet, Scheduled
    <2>4. Allocated'
      BY <1>0, <1>7 DEF M2pDone, TypeOK, Quiet, Allocated
    <2>5. Drawn'
      BY <1>0, <1>7 DEF M2pDone, TypeOK, Quiet, Scheduled, Allocated, Drawn, Built,
                         PendingCommon, PendingPdcch, PendingSI, PendingRA, PendingUE
    <2>6. QED
      BY <2>1, <2>2, <2>3, <2>4, <2>5
  <1>8. QED
    BY <1>1, <1>2, <1>3, <1>4, <1>5, <1>6, <1>7 DEF M2p

\* cch_proc.
LEMMA CchKeeps ==
  ASSUME IInv, Cch
  PROVE  IInv'
  <1> USE DEF IInv, masterVars, flagVars, m2pVars, cchVars, ofdmVars, dlschVars, poolVars,
              Building, M2pOut, CchOut, Plan, Buffer, CchGoto
  <1>0. /\ Plan \in Plans \cup {NoPlan}
        /\ Plan.ues \subseteq UE /\ Plan.si \in BOOLEAN /\ Plan.ra \in BOOLEAN
        /\ {t, rx, dci_pdu.sf, cch_sf} \subseteq SF
        /\ SlotOf(t) \in Slot /\ SlotOf(cch_sf) \in Slot /\ SlotOf(ofdm_sf) \in Slot
    <2>1. Plan \in Plans \cup {NoPlan} /\ {t, rx, dci_pdu.sf, cch_sf, ofdm_sf} \subseteq SF
      BY DEF TypeOK
    <2>2. QED
      BY <2>1, PlanTypes, Numbers
  <1>1. CASE CchWait
    <2>1. TypeOK'
      BY <1>0, <1>1 DEF CchWait, TypeOK, MasterPC, M2pPC, CchPC, OfdmPC
    <2>2. Quiet'
      BY <1>0, <1>1 DEF CchWait, TypeOK, Quiet
    <2>3. Scheduled'
      BY <1>0, <1>1 DEF CchWait, TypeOK, Quiet, Scheduled
    <2>4. Allocated'
      BY <1>0, <1>1 DEF CchWait, TypeOK, Quiet, Allocated
    <2>5. Drawn'
      BY <1>0, <1>1 DEF CchWait, TypeOK, Quiet, Scheduled, Allocated, Drawn, Built,
                         PendingCommon, PendingPdcch, PendingSI, PendingRA, PendingUE
    <2>6. QED
      BY <2>1, <2>2, <2>3, <2>4, <2>5
  <1>2. CASE CchEnter
    <2>1. TypeOK'
      BY <1>0, <1>2 DEF CchEnter, TypeOK, MasterPC, M2pPC, CchPC, OfdmPC
    <2>2. Quiet'
      BY <1>0, <1>2 DEF CchEnter, TypeOK, Quiet
    <2>3. Scheduled'
      BY <1>0, <1>2 DEF CchEnter, TypeOK, Quiet, Scheduled
    <2>4. Allocated'
      BY <1>0, <1>2 DEF CchEnter, TypeOK, Quiet, Allocated
    <2>5. Drawn'
      BY <1>0, <1>2 DEF CchEnter, TypeOK, Quiet, Scheduled, Allocated, Drawn, Built,
                         PendingCommon, PendingPdcch, PendingSI, PendingRA, PendingUE
    <2>6. QED
      BY <2>1, <2>2, <2>3, <2>4, <2>5
  <1>3. CASE CchCommon
    <2>1. TypeOK'
      BY <1>0, <1>3, Draws DEF CchCommon, TypeOK, MasterPC, M2pPC, CchPC, OfdmPC
    <2>2. Quiet'
      BY <1>0, <1>3 DEF CchCommon, TypeOK, Quiet
    <2>3. Scheduled'
      BY <1>0, <1>3 DEF CchCommon, TypeOK, Quiet, Scheduled
    <2>4. Allocated'
      BY <1>0, <1>3 DEF CchCommon, TypeOK, Quiet, Allocated
    <2>5. Drawn'
      <3>1. mpc \in Building /\ due[t] = Content(Plan, t)
        BY <1>3 DEF CchCommon, Quiet, Scheduled
      <3>2. Buffer' = Buffer \cup {<<"common", t>>}
        BY <1>0, <1>3, <3>1, Draws DEF CchCommon, Scheduled
      <3>3. <<"common", t>> \in due[t]
        BY <1>0, <1>3, <3>1, Contents DEF CchCommon, Allocated, Quiet
      <3>5. Buffer' \subseteq due[t]
        BY <3>1, <3>2, <3>3 DEF Drawn
      <3>6. QED
        BY <1>3, <3>1, <3>2, <3>5 DEF CchCommon, TypeOK, Quiet, Scheduled, Allocated, Drawn, Built,
                           PendingCommon, PendingPdcch, PendingSI, PendingRA, PendingUE
    <2>6. QED
      BY <2>1, <2>2, <2>3, <2>4, <2>5
  <1>4. CASE CchPdcch
    <2>1. TypeOK'
      BY <1>0, <1>4, Draws DEF CchPdcch, TypeOK, MasterPC, M2pPC, CchPC, OfdmPC
    <2>2. Quiet'
      BY <1>0, <1>4 DEF CchPdcch, TypeOK, Quiet
    <2>3. Scheduled'
      BY <1>0, <1>4 DEF CchPdcch, TypeOK, Quiet, Scheduled
    <2>4. Allocated'
      BY <1>0, <1>4 DEF CchPdcch, TypeOK, Quiet, Allocated
    <2>5. Drawn'
      <3>1. mpc \in Building /\ due[t] = Content(Plan, t)
        BY <1>4 DEF CchPdcch, Quiet, Scheduled
      <3>2. Buffer' = Buffer \cup {<<"pdcch", t>>}
        BY <1>0, <1>4, <3>1, Draws DEF CchPdcch, Scheduled
      <3>3. <<"pdcch", t>> \in due[t]
        BY <1>0, <1>4, <3>1, Contents DEF CchPdcch, Allocated, Quiet
      <3>5. Buffer' \subseteq due[t]
        BY <3>1, <3>2, <3>3 DEF Drawn
      <3>6. QED
        BY <1>4, <3>1, <3>2, <3>5 DEF CchPdcch, TypeOK, Quiet, Scheduled, Allocated, Drawn, Built,
                           PendingCommon, PendingPdcch, PendingSI, PendingRA, PendingUE
    <2>6. QED
      BY <2>1, <2>2, <2>3, <2>4, <2>5
  <1>5. CASE CchDone
    <2>1. TypeOK'
      BY <1>0, <1>5 DEF CchDone, TypeOK, MasterPC, M2pPC, CchPC, OfdmPC
    <2>2. Quiet'
      BY <1>0, <1>5 DEF CchDone, TypeOK, Quiet
    <2>3. Scheduled'
      BY <1>0, <1>5 DEF CchDone, TypeOK, Quiet, Scheduled
    <2>4. Allocated'
      BY <1>0, <1>5 DEF CchDone, TypeOK, Quiet, Allocated
    <2>5. Drawn'
      BY <1>0, <1>5 DEF CchDone, TypeOK, Quiet, Scheduled, Allocated, Drawn, Built,
                         PendingCommon, PendingPdcch, PendingSI, PendingRA, PendingUE
    <2>6. QED
      BY <2>1, <2>2, <2>3, <2>4, <2>5
  <1>6. QED
    BY <1>1, <1>2, <1>3, <1>4, <1>5 DEF Cch

\* ofdm_proc.
LEMMA OfdmKeeps ==
  ASSUME IInv, Ofdm
  PROVE  IInv'
  <1> USE DEF IInv, masterVars, flagVars, m2pVars, cchVars, ofdmVars, dlschVars, poolVars,
              Building, M2pOut, CchOut, Plan, Buffer, OfdmGoto
  <1>0. /\ Plan \in Plans \cup {NoPlan}
        /\ Plan.ues \subseteq UE /\ Plan.si \in BOOLEAN /\ Plan.ra \in BOOLEAN
        /\ {t, rx, dci_pdu.sf, cch_sf} \subseteq SF
        /\ SlotOf(t) \in Slot /\ SlotOf(cch_sf) \in Slot /\ SlotOf(ofdm_sf) \in Slot
    <2>1. Plan \in Plans \cup {NoPlan} /\ {t, rx, dci_pdu.sf, cch_sf, ofdm_sf} \subseteq SF
      BY DEF TypeOK
    <2>2. QED
      BY <2>1, PlanTypes, Numbers
  <1>1. CASE OfdmWait
    <2>1. TypeOK'
      BY <1>0, <1>1 DEF OfdmWait, TypeOK, MasterPC, M2pPC, CchPC, OfdmPC
    <2>2. Quiet'
      BY <1>0, <1>1 DEF OfdmWait, TypeOK, Quiet
    <2>3. Scheduled'
      BY <1>0, <1>1 DEF OfdmWait, TypeOK, Quiet, Scheduled
    <2>4. Allocated'
      BY <1>0, <1>1 DEF OfdmWait, TypeOK, Quiet, Allocated
    <2>5. Drawn'
      BY <1>0, <1>1 DEF OfdmWait, TypeOK, Quiet, Scheduled, Allocated, Drawn, Built,
                         PendingCommon, PendingPdcch, PendingSI, PendingRA, PendingUE
    <2>6. QED
      BY <2>1, <2>2, <2>3, <2>4, <2>5
  <1>2. CASE OfdmEnter
    <2>1. TypeOK'
      BY <1>0, <1>2 DEF OfdmEnter, TypeOK, MasterPC, M2pPC, CchPC, OfdmPC
    <2>2. Quiet'
      BY <1>0, <1>2 DEF OfdmEnter, TypeOK, Quiet
    <2>3. Scheduled'
      BY <1>0, <1>2 DEF OfdmEnter, TypeOK, Quiet, Scheduled
    <2>4. Allocated'
      BY <1>0, <1>2 DEF OfdmEnter, TypeOK, Quiet, Allocated
    <2>5. Drawn'
      BY <1>0, <1>2 DEF OfdmEnter, TypeOK, Quiet, Scheduled, Allocated, Drawn, Built,
                         PendingCommon, PendingPdcch, PendingSI, PendingRA, PendingUE
    <2>6. QED
      BY <2>1, <2>2, <2>3, <2>4, <2>5
  <1>3. CASE OfdmMod
    <2>1. TypeOK'
      BY <1>0, <1>3 DEF OfdmMod, TypeOK, MasterPC, M2pPC, CchPC, OfdmPC
    <2>2. Quiet'
      BY <1>0, <1>3 DEF OfdmMod, TypeOK, Quiet
    <2>3. Scheduled'
      BY <1>0, <1>3 DEF OfdmMod, TypeOK, Quiet, Scheduled
    <2>4. Allocated'
      BY <1>0, <1>3 DEF OfdmMod, TypeOK, Quiet, Allocated
    <2>5. Drawn'
      BY <1>0, <1>3 DEF OfdmMod, TypeOK, Quiet, Scheduled, Allocated, Drawn, Built,
                         PendingCommon, PendingPdcch, PendingSI, PendingRA, PendingUE
    <2>6. QED
      BY <2>1, <2>2, <2>3, <2>4, <2>5
  <1>4. QED
    BY <1>1, <1>2, <1>3 DEF Ofdm

\* The PDSCH threads.
LEMMA PoolKeeps ==
  ASSUME IInv, NEW u \in UE, (Modulate(u) \/ Serve(u))
  PROVE  IInv'
  <1> USE DEF IInv, masterVars, flagVars, m2pVars, cchVars, ofdmVars, dlschVars, poolVars,
              Building, M2pOut, CchOut, Plan, Buffer,
              Pool!Modulate, Pool!Serve
  <1>0. /\ Plan \in Plans \cup {NoPlan}
        /\ Plan.ues \subseteq UE /\ Plan.si \in BOOLEAN /\ Plan.ra \in BOOLEAN
        /\ {t, rx, dci_pdu.sf, cch_sf} \subseteq SF
        /\ SlotOf(t) \in Slot /\ SlotOf(cch_sf) \in Slot /\ SlotOf(ofdm_sf) \in Slot
    <2>1. Plan \in Plans \cup {NoPlan} /\ {t, rx, dci_pdu.sf, cch_sf, ofdm_sf} \subseteq SF
      BY DEF TypeOK
    <2>2. QED
      BY <2>1, PlanTypes, Numbers
  <1>1. CASE Modulate(u)
    <2>0. /\ u \in work /\ open
          /\ txdataF' \in [Slot -> SUBSET Mark]
          /\ Buffer' = Buffer \cup {<<u, t>>}
      <3>1. u \in work /\ open /\ Draw(t, u, t) /\ UNCHANGED t
        BY <1>1 DEF Modulate
      <3>2. QED
        BY <1>0, <3>1, Draws
    <2>1. TypeOK'
      BY <1>1, <2>0 DEF Modulate, TypeOK, MasterPC, M2pPC, CchPC, OfdmPC
    <2>2. Quiet'
      BY <1>0, <1>1 DEF Modulate, TypeOK, Quiet
    <2>3. Scheduled'
      BY <1>0, <1>1 DEF Modulate, TypeOK, Quiet, Scheduled
    <2>4. Allocated'
      BY <1>0, <1>1 DEF Modulate, TypeOK, Quiet, Allocated
    <2>5. Drawn'
      <3>1. mpc \in Building /\ due[t] = Content(Plan, t)
        BY <1>1 DEF Modulate, Quiet, Scheduled
      <3>2. Buffer' = Buffer \cup {<<u, t>>}
        BY <2>0
      <3>3. <<u, t>> \in due[t]
        <4>1. u \in Plan.ues
          BY <2>0 DEF Allocated, Quiet
        <4>2. \A v \in Plan.ues : <<v, t>> \in Content(Plan, t)
          BY <1>0, Contents
        <4>3. QED
          BY <3>1, <4>1, <4>2
      <3>5. Buffer' \subseteq due[t]
        BY <3>1, <3>2, <3>3 DEF Drawn
      <3>6. QED
        BY <1>1, <3>1, <3>2, <3>5 DEF Modulate, TypeOK, Quiet, Scheduled, Allocated, Drawn, Built,
                           PendingCommon, PendingPdcch, PendingSI, PendingRA, PendingUE
    <2>6. QED
      BY <2>1, <2>2, <2>3, <2>4, <2>5
  <1>2. CASE Serve(u)
    <2>1. TypeOK'
      BY <1>0, <1>2 DEF Serve, TypeOK, MasterPC, M2pPC, CchPC, OfdmPC
    <2>2. Quiet'
      BY <1>0, <1>2 DEF Serve, TypeOK, Quiet
    <2>3. Scheduled'
      BY <1>0, <1>2 DEF Serve, TypeOK, Quiet, Scheduled
    <2>4. Allocated'
      BY <1>0, <1>2 DEF Serve, TypeOK, Quiet, Allocated
    <2>5. Drawn'
      BY <1>0, <1>2 DEF Serve, TypeOK, Quiet, Scheduled, Allocated, Drawn, Built,
                         PendingCommon, PendingPdcch, PendingSI, PendingRA, PendingUE
    <2>6. QED
      BY <2>1, <2>2, <2>3, <2>4, <2>5
  <1>3. QED
    BY <1>1, <1>2

LEMMA StepKeeps ==
  ASSUME IInv, [Next]_vars
  PROVE  IInv'
  <1>1. CASE UNCHANGED vars
    BY <1>1 DEF vars, masterVars, flagVars, m2pVars, cchVars, ofdmVars, dlschVars, poolVars,
                IInv, TypeOK, Quiet, Scheduled, Allocated, Drawn, Built, PendingCommon,
                PendingPdcch, PendingSI, PendingRA, PendingUE, Plan, Buffer
  <1>2. QED
    BY <1>1, MasterKeeps, M2pKeeps, CchKeeps, OfdmKeeps, PoolKeeps DEF Next

\* The inductive invariant.
THEOREM Invariance == Spec => []IInv
  BY InitEstablishes, StepKeeps, PTL DEF Spec

\* Every channel of the subframe, and nothing of another, is in the buffer when the
\* master has passed its four waits (phy_procedures_eNB_TX).
THEOREM BuiltCompletely == Spec => []Built
  <1>1. IInv => Built
    BY DEF IInv, Drawn
  <1>2. QED
    BY <1>1, Invariance, PTL

\* No thread writes txdataF from then until the next schedule.
THEOREM QuietWhileSent == Spec => []BufferQuiet
  <1>1. IInv => BufferQuiet
    BY DEF IInv, Quiet, M2pOut, CchOut, BufferQuiet
  <1>2. QED
    BY <1>1, Invariance, PTL

\* The PDSCH threads find the allocations of the subframe parsed when they start.
THEOREM PoolFindsAll == Spec => ParsedBeforePdsch
  <1>1. IInv /\ [Next]_vars =>
            [StartPdsch => {u \in UE : <<u, t>> \in due[t]} = active]_vars
    <2> SUFFICES ASSUME IInv, StartPdsch PROVE {u \in UE : <<u, t>> \in due[t]} = active
      OBVIOUS
    <2>1. mpc = "pdsch" /\ complete_dci /\ active = Plan.ues /\ due[t] = Content(Plan, t)
      BY DEF StartPdsch, IInv, Quiet, Scheduled, Allocated, Building, M2pOut
    <2>2. QED
      BY <2>1, PlanTypes, DownlinkAssumption DEF Content, IInv, TypeOK
  <1>2. QED
    BY <1>1, Invariance, PTL DEF Spec, ParsedBeforePdsch
-----------------------------------------------------------------------------
(* What Pacing adds: the slot the radio is handed is current.               *)

\* The subframe rx_rf hands to the radio: the one before the last built.
Handed == Plus(rx, WriteAhead)

\* txdataF keeps the subframe last built until the next one is scheduled.
Sent ==
    mpc \in {"ofdm", "write", "read"} /\ ~first_rx /\ Downlink(t)
        => txdataF[SlotOf(t)] = due[t]

\* Nothing has been built before the radio has delivered a first subframe.
Fresh ==
    first_rx => /\ mpc \in {"write", "read"} /\ ofdm \in {"top", "wait"}
                /\ due = [s \in SF |-> {}] /\ txdata = [s \in Slot |-> {}]

\* Nothing is due in a slot without downlink, and nothing is put there.
UplinkEmpty == \A s \in SF : ~Downlink(s) => due[s] = {} /\ txdata[SlotOf(s)] = {}

\* The OFDM thread modulates the subframe last built, while the master is at the
\* radio.
OfdmOnTime ==
    /\ mpc \notin {"write", "read"} => ofdm = "wait"
    /\ ofdm = "mod" => ofdm_sf = t

\* The subframe handed over is modulated, and so is the one just built once the
\* OFDM thread is through with it.
Modulated ==
    ~first_rx =>
        /\ t = Plus(rx, TxAhead)
        /\ txdata[SlotOf(Handed)] = due[Handed]
        /\ mpc \in {"write", "read"} /\ ofdm \in {"top", "wait"} => txdata[SlotOf(t)] = due[t]

AirInv == Sent /\ Fresh /\ UplinkEmpty /\ OfdmOnTime /\ Modulated

PacedInv == IInv /\ (paced => AirInv)

\* A division with a remainder is the division.
LEMMA Remainder ==
  ASSUME NEW n \in Nat \ {0}, NEW q \in Int, NEW r \in 0..(n - 1)
  PROVE  (n * q + r) % n = r
  OBVIOUS

\* Subframe numbers wrap once at most.
LEMMA PlusWraps ==
  ASSUME NEW s \in SF, NEW n \in 0..NumSubframe
  PROVE  Plus(s, n) = IF s + n < NumFrame * NumSubframe THEN s + n
                      ELSE s + n - NumFrame * NumSubframe
  <1> DEFINE M == NumFrame * NumSubframe
  <1>1. M \in Nat \ {0} /\ M >= NumSubframe
    BY DownlinkAssumption
  <1>2. s \in 0..(M - 1) /\ n \in 0..M
    BY <1>1, DownlinkAssumption DEF SF
  <1> HIDE DEF M
  <1>3. CASE s + n < M
    <2>1. (M * 0 + (s + n)) % M = s + n
      BY <1>1, <1>2, <1>3, Remainder
    <2>2. QED
      BY <1>1, <1>2, <1>3, <2>1 DEF Plus, M
  <1>4. CASE ~(s + n < M)
    <2>1. \A r \in 0..(M - 1) : (M * 1 + r) % M = r
      BY <1>1, Remainder
    <2>2. s + n - M \in 0..(M - 1) /\ s + n = M * 1 + (s + n - M)
      BY <1>1, <1>2, <1>4
    <2>3. QED
      BY <1>1, <1>2, <1>4, <2>1, <2>2 DEF Plus, M
  <1>5. QED
    BY <1>3, <1>4 DEF M

\* Two consecutive subframes are in different slots.
LEMMA SlotsDiffer ==
  ASSUME NEW s \in SF
  PROVE  SlotOf(Plus(s, 1)) # SlotOf(s)
  <1> DEFINE M == NumFrame * NumSubframe
  <1>1. NumSubframe \in Nat /\ NumSubframe >= 2 /\ NumFrame \in Nat \ {0}
    BY DownlinkAssumption
  <1>2. s \in 0..(M - 1) /\ M \in Nat
    BY <1>1 DEF SF
  <1>3. PICK q \in Int, r \in 0..(NumSubframe - 1) : s = NumSubframe * q + r
    <2>1. s = NumSubframe * (s \div NumSubframe) + (s % NumSubframe)
      BY <1>1, <1>2
    <2>2. s \div NumSubframe \in Int /\ s % NumSubframe \in 0..(NumSubframe - 1)
      BY <1>1, <1>2
    <2>3. QED
      BY <2>1, <2>2
  <1>4. SlotOf(s) = r
    BY <1>1, <1>3, Remainder DEF SlotOf
  <1>5. Plus(s, 1) = IF s + 1 < M THEN s + 1 ELSE s + 1 - M
    BY <1>1, PlusWraps
  <1>6. CASE s + 1 < M /\ r + 1 < NumSubframe
    <2>1. s + 1 = NumSubframe * q + (r + 1)
      BY <1>1, <1>3
    <2>2. SlotOf(s + 1) = r + 1
      BY <1>1, <1>3, <1>6, <2>1, Remainder DEF SlotOf
    <2>3. QED
      BY <1>4, <1>5, <1>6, <1>3, <2>2
  <1>7. CASE s + 1 < M /\ ~(r + 1 < NumSubframe)
    <2>1. s + 1 = NumSubframe * (q + 1) + 0 /\ r > 0
      BY <1>1, <1>3, <1>7
    <2>2. SlotOf(s + 1) = 0
      BY <1>1, <1>3, <2>1, Remainder DEF SlotOf
    <2>3. QED
      BY <1>4, <1>5, <1>7, <2>1, <2>2
  <1>8. CASE ~(s + 1 < M)
    <2>1. s = NumSubframe * (NumFrame - 1) + (NumSubframe - 1) /\ s + 1 - M = 0
      BY <1>1, <1>2, <1>8
    <2>2. SlotOf(s) = NumSubframe - 1
      BY <1>1, <2>1, Remainder DEF SlotOf
    <2>3. SlotOf(0) = 0
      BY <1>1, Remainder DEF SlotOf
    <2>4. QED
      BY <1>1, <1>5, <1>8, <2>1, <2>2, <2>3
  <1>9. QED
    BY <1>6, <1>7, <1>8

\* The subframe handed over, the one built and the one that follows.
LEMMA Consecutive ==
  ASSUME NEW r \in SF
  PROVE  /\ Plus(r, WriteAhead) \in SF /\ Plus(r, TxAhead) \in SF /\ Plus(r, 1) \in SF
         /\ Plus(Plus(r, 1), WriteAhead) = Plus(r, TxAhead)
         /\ SlotOf(Plus(r, WriteAhead)) # SlotOf(Plus(r, TxAhead))
  <1> DEFINE M == NumFrame * NumSubframe
  <1>1. /\ 1 \in 0..NumSubframe /\ WriteAhead \in 0..NumSubframe /\ TxAhead \in 0..NumSubframe
        /\ TxAhead = WriteAhead + 1 /\ {1, WriteAhead, TxAhead} \subseteq Nat
    BY DownlinkAssumption
  <1>2. Plus(r, WriteAhead) \in SF /\ Plus(r, TxAhead) \in SF /\ Plus(r, 1) \in SF
    BY <1>1, Numbers
  <1>3. M \in Nat \ {0} /\ M >= NumSubframe
    BY DownlinkAssumption
  <1>4. /\ Plus(r, WriteAhead) = IF r + WriteAhead < M THEN r + WriteAhead ELSE r + WriteAhead - M
        /\ Plus(r, TxAhead) = IF r + TxAhead < M THEN r + TxAhead ELSE r + TxAhead - M
        /\ Plus(r, 1) = IF r + 1 < M THEN r + 1 ELSE r + 1 - M
    BY <1>1, PlusWraps
  <1>5. Plus(Plus(r, 1), WriteAhead) =
            IF Plus(r, 1) + WriteAhead < M THEN Plus(r, 1) + WriteAhead
            ELSE Plus(r, 1) + WriteAhead - M
    BY <1>1, <1>2, PlusWraps
  <1>6. Plus(Plus(r, WriteAhead), 1) =
            IF Plus(r, WriteAhead) + 1 < M THEN Plus(r, WriteAhead) + 1
            ELSE Plus(r, WriteAhead) + 1 - M
    BY <1>1, <1>2, PlusWraps
  <1>7. r \in 0..(M - 1)
    BY DEF SF
  <1> HIDE DEF M
  <1>8. Plus(Plus(r, 1), WriteAhead) = Plus(r, TxAhead)
    BY <1>1, <1>3, <1>4, <1>5, <1>7, DownlinkAssumption
  <1>9. Plus(Plus(r, WriteAhead), 1) = Plus(r, TxAhead)
    BY <1>1, <1>3, <1>4, <1>6, <1>7, DownlinkAssumption
  <1>10. QED
    BY <1>2, <1>8, <1>9, SlotsDiffer

LEMMA AirBegins == Init => AirInv
  BY Numbers DEF Init, AirInv, Sent, Fresh, UplinkEmpty, OfdmOnTime, Modulated

\* The steps that leave the radio's side alone: no schedule, no received subframe,
\* no modulation.
LEMMA OthersLeaveAir ==
  ASSUME IInv, IInv', AirInv,
         UNCHANGED <<rx, t, first_rx, due, txdata>>,
         \/ UNCHANGED <<ofdm, ofdm_sf>>
         \/ ofdm = "top" /\ ofdm' = "wait"
         \/ ofdm = "woken" /\ ofdm' = "mod" /\ ofdm_sf' = t,
         mpc' = mpc \/ {mpc, mpc'} \cap {"write", "read"} = {}
                    \/ (mpc = "write" /\ mpc' = "read"),
         mpc \in {"ofdm", "write", "read"} => txdataF' = txdataF
  PROVE  AirInv'
  <1> USE DEF AirInv
  <1>1. Sent'
    <2>1. CASE mpc \in {"ofdm", "write", "read"}
      BY <2>1 DEF Sent
    <2>2. CASE mpc \notin {"ofdm", "write", "read"}
      <3>1. mpc' \in {"ofdm", "write", "read"} => mpc' = "ofdm"
        BY <2>2
      <3>2. Built'
        BY DEF IInv, Drawn
      <3>3. QED
        BY <3>1, <3>2 DEF Built, Sent
    <2>3. QED
      BY <2>1, <2>2
  <1>2. Fresh'
    BY DEF Fresh
  <1>3. UplinkEmpty'
    BY DEF UplinkEmpty
  <1>4. OfdmOnTime'
    BY DEF OfdmOnTime
  <1>5. Modulated'
    BY DEF Modulated, Handed, OfdmOnTime
  <1>6. QED
    BY <1>1, <1>2, <1>3, <1>4, <1>5

LEMMA ReadKeepsAir ==
  ASSUME IInv, AirInv, RfRead, AllParked
  PROVE  AirInv'
  <1> USE DEF AirInv, AllParked
  <1>1. /\ rx \in SF /\ rx' \in SF /\ t' = Plus(rx', TxAhead)
        /\ ~first_rx => rx' = Plus(rx, 1)
        /\ first_rx' = FALSE /\ mpc' = "mac" /\ mpc = "read"
        /\ UNCHANGED <<due, txdata, txdataF, ofdm, ofdm_sf>>
    BY Numbers DEF RfRead, IInv, TypeOK, ofdmVars
  <1>2. Sent' /\ Fresh' /\ OfdmOnTime'
    BY <1>1 DEF Sent, Fresh, OfdmOnTime
  <1>3. UplinkEmpty'
    BY <1>1 DEF UplinkEmpty
  <1>4. txdata[SlotOf(Handed')] = due[Handed']
    <2>1. CASE first_rx
      <3>1. Handed' \in SF /\ SlotOf(Handed') \in Slot
        BY <1>1, Consecutive, Numbers DEF Handed
      <3>2. QED
        BY <2>1, <3>1 DEF Fresh
    <2>2. CASE ~first_rx
      <3>1. Handed' = t
        BY <1>1, <2>2, Consecutive DEF Handed, Modulated
      <3>2. QED
        BY <1>1, <2>2, <3>1 DEF Modulated
    <2>3. QED
      BY <2>1, <2>2
  <1>5. Modulated'
    BY <1>1, <1>4 DEF Modulated, Handed
  <1>6. QED
    BY <1>2, <1>3, <1>5

LEMMA ScheduleKeepsAir ==
  ASSUME IInv, AirInv, MacSchedule
  PROVE  AirInv'
  <1> USE DEF AirInv
  <1>1. /\ mpc = "mac" /\ mpc' = "m2p" /\ Downlink(t) /\ ~first_rx
        /\ rx \in SF /\ t \in SF /\ due \in [SF -> SUBSET Mark]
        /\ UNCHANGED <<rx, t, first_rx, txdata, ofdm, ofdm_sf>>
    BY DEF MacSchedule, Fresh, IInv, TypeOK, ofdmVars
  <1>2. \A s \in SF \ {t} : due'[s] = due[s]
    BY <1>1 DEF MacSchedule
  <1>3. Sent' /\ Fresh' /\ OfdmOnTime'
    BY <1>1 DEF Sent, Fresh, OfdmOnTime
  <1>4. UplinkEmpty'
    BY <1>1, <1>2 DEF UplinkEmpty, Downlink
  <1>5. Modulated'
    <2>1. Handed \in SF \ {t}
      BY <1>1, Consecutive DEF Handed, Modulated
    <2>2. QED
      BY <1>1, <1>2, <2>1 DEF Modulated, Handed
  <1>6. QED
    BY <1>3, <1>4, <1>5

LEMMA SignalKeepsAir ==
  ASSUME IInv, AirInv, StartOfdm
  PROVE  AirInv'
  <1> USE DEF AirInv
  <1>1. /\ mpc = "ofdm" /\ mpc' = "write" /\ ofdm = "wait" /\ ofdm' = "woken" /\ ~first_rx
        /\ UNCHANGED <<rx, t, first_rx, due, txdata, txdataF, ofdm_sf>>
    BY DEF StartOfdm, OfdmOnTime, Fresh, Wake
  <1>2. Sent' /\ Fresh' /\ OfdmOnTime'
    BY <1>1 DEF Sent, Fresh, OfdmOnTime
  <1>3. UplinkEmpty' /\ Modulated'
    BY <1>1 DEF UplinkEmpty, Modulated, Handed
  <1>4. QED
    BY <1>2, <1>3

LEMMA ModKeepsAir ==
  ASSUME IInv, AirInv, OfdmMod
  PROVE  AirInv'
  <1> USE DEF AirInv
  <1>1. /\ ofdm = "mod" /\ ofdm' = "top" /\ ofdm_sf = t /\ mpc \in {"write", "read"} /\ ~first_rx
        /\ rx \in SF /\ t \in SF /\ SlotOf(t) \in Slot /\ txdata \in [Slot -> SUBSET Mark]
        /\ UNCHANGED <<mpc, rx, t, first_rx, due, txdataF, ofdm_sf>>
    BY Numbers DEF OfdmMod, OfdmGoto, OfdmOnTime, Fresh, IInv, TypeOK, masterVars
  <1>2. Sent' /\ Fresh' /\ OfdmOnTime'
    BY <1>1 DEF Sent, Fresh, OfdmOnTime
  <1>3. /\ txdata'[SlotOf(t)] = due[t]
        /\ \A n \in Slot : n # SlotOf(t) => txdata'[n] = txdata[n]
        /\ ~Downlink(t) => txdata' = txdata
    <2>1. CASE Downlink(t)
      <3>1. txdata' = [txdata EXCEPT ![SlotOf(t)] = txdataF[SlotOf(t)]]
        BY <1>1, <2>1 DEF OfdmMod
      <3>2. txdataF[SlotOf(t)] = due[t]
        BY <1>1, <2>1 DEF Sent
      <3>3. QED
        BY <1>1, <2>1, <3>1, <3>2
    <2>2. CASE ~Downlink(t)
      BY <1>1, <2>2 DEF OfdmMod, UplinkEmpty
    <2>3. QED
      BY <2>1, <2>2
  <1>4. UplinkEmpty'
    BY <1>1, <1>3, Numbers DEF UplinkEmpty, Downlink
  <1>5. Modulated'
    <2>1. /\ t = Plus(rx, TxAhead) /\ SlotOf(Handed) # SlotOf(t) /\ SlotOf(Handed) \in Slot
          /\ txdata[SlotOf(Handed)] = due[Handed] /\ Handed' = Handed
      BY <1>1, Consecutive, Numbers DEF Modulated, Handed
    <2>2. QED
      BY <1>1, <1>3, <2>1 DEF Modulated
  <1>6. QED
    BY <1>2, <1>4, <1>5

LEMMA AirKeeps ==
  ASSUME IInv, IInv', AirInv, Next, Pacing
  PROVE  AirInv'
  <1> USE DEF masterVars, flagVars, m2pVars, cchVars, ofdmVars, dlschVars, poolVars
  <1>1. CASE RfRead
    BY <1>1, ReadKeepsAir DEF Pacing
  <1>2. CASE MacSchedule
    BY <1>2, ScheduleKeepsAir
  <1>3. CASE StartOfdm
    BY <1>3, SignalKeepsAir
  <1>4. CASE OfdmMod
    BY <1>4, ModKeepsAir
  <1>5. CASE RfWrite \/ NoDownlink
    BY <1>5, OthersLeaveAir DEF RfWrite, NoDownlink
  <1>6. CASE StartM2p \/ StartCch \/ AwaitDci \/ StartPdsch \/ AwaitPdsch
    BY <1>6, OthersLeaveAir DEF StartM2p, StartCch, AwaitDci, StartPdsch, AwaitPdsch
  <1>7. CASE AwaitCch \/ AwaitSR \/ Spin
    BY <1>7, OthersLeaveAir DEF AwaitCch, AwaitSR, Spin, vars
  <1>8. CASE M2p
    <2>1. m2p \in {"si", "ra"} => mpc \notin {"ofdm", "write", "read"}
      BY DEF IInv, Quiet, M2pOut
    <2>2. QED
      BY <1>8, <2>1, OthersLeaveAir DEF M2p, M2pGoto, M2pWait, M2pEnter, M2pParse, M2pPublish,
            M2pSI, M2pRA, M2pDone
  <1>9. CASE Cch
    <2>1. cch \in {"common", "pdcch"} => mpc \notin {"ofdm", "write", "read"}
      BY DEF IInv, Quiet, CchOut
    <2>2. QED
      BY <1>9, <2>1, OthersLeaveAir DEF Cch, CchGoto, CchWait, CchEnter, CchCommon, CchPdcch,
            CchDone
  <1>10. CASE OfdmWait \/ OfdmEnter
    BY <1>10, OthersLeaveAir DEF OfdmWait, OfdmEnter, OfdmGoto
  <1>11. ASSUME NEW u \in UE, Modulate(u) \/ Serve(u) PROVE AirInv'
    <2>1. mpc = "barrier"
      BY <1>11 DEF Modulate, Serve, Pool!Modulate, Pool!Serve, IInv, Quiet
    <2>2. QED
      BY <1>11, <2>1, OthersLeaveAir DEF Modulate, Serve
  <1>12. QED
    BY <1>1, <1>2, <1>3, <1>4, <1>5, <1>6, <1>7, <1>8, <1>9, <1>10, <1>11
       DEF Next, Master, Ofdm

THEOREM PacedInvariance == MCSpec => []PacedInv
  <1>1. MCInit => PacedInv
    BY InitEstablishes, AirBegins DEF MCInit, PacedInv
  <1>2. PacedInv /\ [MCNext]_<<vars, paced>> => PacedInv'
    <2> SUFFICES ASSUME PacedInv, [MCNext]_<<vars, paced>> PROVE PacedInv'
      OBVIOUS
    <2>1. IInv'
      BY StepKeeps DEF PacedInv, MCNext
    <2>2. CASE MCNext
      BY <2>1, <2>2, AirKeeps DEF PacedInv, MCNext
    <2>3. CASE UNCHANGED <<vars, paced>>
      BY <2>1, <2>3 DEF PacedInv, AirInv, Sent, Fresh, UplinkEmpty, OfdmOnTime, Modulated, Handed,
            vars, masterVars, ofdmVars
    <2>4. QED
      BY <2>2, <2>3
  <1>3. QED
    BY <1>1, <1>2, PTL DEF MCSpec

\* rx_rf hands the radio the samples of the very subframe whose time it is, fully
\* built and modulated, whatever the numbering of frames, if the helpers keep up.
THEOREM RadioGetsCurrent == MCSpec => AirIsCurrent
  <1>1. PacedInv => (paced /\ RfWrite /\ ~first_rx =>
                        txdata[SlotOf(Plus(rx, WriteAhead))] = due[Plus(rx, WriteAhead)])
    BY DEF PacedInv, AirInv, Modulated, Handed
  <1>2. PacedInv => [paced /\ RfWrite /\ ~first_rx =>
          LET s == Plus(rx, WriteAhead) IN txdata[SlotOf(s)] = due[s]]_vars
    BY <1>1
  <1>3. QED
    BY <1>2, PacedInvariance, PTL DEF AirIsCurrent

=============================================================================
