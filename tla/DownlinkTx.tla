------------------------------ MODULE DownlinkTx -----------------------------
(***************************************************************************)
(* The downlink of one eNB in single-thread mode, from the MAC schedule to  *)
(* the samples handed to the radio: the master (eNB_thread_single, rxtx,    *)
(* proc_tx_full, phy_procedures_eNB_TX, rx_rf), the MAC-to-PHY thread       *)
(* (mac2phy_proc), the control-channel thread (cch_proc) and the OFDM       *)
(* thread (ofdm_proc).  The PDSCH threads appear as the round PdschRound    *)
(* states and PdschPool implements.                                        *)
(*                                                                         *)
(* A subframe number is (frame, subframe): SF counts subframes over NumFrame *)
(* frames and Slot is the subframe within the frame, which indexes the      *)
(* buffers.  What a thread writes into a buffer is a mark: which channel,   *)
(* and the subframe whose allocation it carries.                           *)
(***************************************************************************)
EXTENDS Integers

CONSTANTS
    NumSubframe, \* subframes in a frame, slots of txdataF and txdata (10)
    NumFrame,    \* frames told apart
    TxAhead,     \* subframe_tx = subframe_rx + 4
    WriteAhead,  \* tx_sfoffset = 3: the slot rx_rf hands to the radio
    DLSlot,      \* the slots with downlink: all of them in FDD
    UE,
    Plans        \* what the MAC may schedule: [ues, si, ra]

SF   == 0..(NumFrame * NumSubframe - 1)
Slot == 0..(NumSubframe - 1)

ASSUME DownlinkAssumption ==
    /\ NumSubframe \in Nat \ {0} /\ NumFrame \in Nat \ {0}
    /\ TxAhead \in 1..(NumSubframe - 1) /\ WriteAhead = TxAhead - 1
    /\ DLSlot \subseteq Slot
    /\ UE \cap {"common", "pdcch", "si", "ra"} = {}
    /\ Plans \subseteq [ues : SUBSET UE, si : BOOLEAN, ra : BOOLEAN]

NoPlan == [ues |-> {}, si |-> FALSE, ra |-> FALSE]

\* Subframe arithmetic: frame numbers wrap.
Plus(s, n)  == (s + n) % (NumFrame * NumSubframe)
SlotOf(s)   == s % NumSubframe
Downlink(s) == SlotOf(s) \in DLSlot

Channel == {"common", "pdcch", "si", "ra"} \cup UE
Mark    == Channel \X SF

\* What a plan makes of subframe s.
Content(p, s) == ({"common", "pdcch"} \cup p.ues \cup (IF p.si THEN {"si"} ELSE {})
                                     \cup (IF p.ra THEN {"ra"} ELSE {})) \X {s}

VARIABLES
    mpc,          \* where the master is
    rx,           \* proc->frame_rx, subframe_rx
    t,            \* proc_rxtx[0].frame_tx, subframe_tx
    first_rx,
    dci_pdu,      \* the MAC's DCI_pdu: the plan, and the subframe it is for
    due,          \* history: what the schedule of each subframe asks for
    complete_dci, complete_sch_SR, complete_cch,
    m2p, cch, ofdm,               \* where each thread is
    m2p_sf, cch_sf, ofdm_sf,      \* its local frame and subframe
    active, dlsch_SI, dlsch_ra,   \* the DLSCHs set up and not yet modulated
    open, work, todo,             \* the PDSCH round
    txdataF,      \* frequency-domain buffer, per slot
    txdata        \* time-domain buffer, per slot

masterVars == <<mpc, rx, t, first_rx, dci_pdu, due>>
flagVars   == <<complete_dci, complete_sch_SR, complete_cch>>
m2pVars    == <<m2p, m2p_sf>>
cchVars    == <<cch, cch_sf>>
ofdmVars   == <<ofdm, ofdm_sf>>
dlschVars  == <<active, dlsch_SI, dlsch_ra>>
poolVars   == <<open, work, todo>>
vars == <<masterVars, flagVars, m2pVars, cchVars, ofdmVars, dlschVars, poolVars,
          txdataF, txdata>>

Pool == INSTANCE PdschRound

MasterPC == {"write", "read", "mac", "m2p", "cch", "dci", "pdsch", "barrier",
             "cchwait", "srwait", "ofdm"}
M2pPC  == {"top", "wait", "woken", "parse", "publish", "si", "ra", "done"}
CchPC  == {"top", "wait", "woken", "common", "pdcch", "done"}
OfdmPC == {"top", "wait", "woken", "mod"}

TypeOK ==
    /\ mpc \in MasterPC /\ m2p \in M2pPC /\ cch \in CchPC /\ ofdm \in OfdmPC
    /\ {rx, t, m2p_sf, cch_sf, ofdm_sf} \subseteq SF
    /\ {first_rx, complete_dci, complete_sch_SR, complete_cch, dlsch_SI, dlsch_ra,
        open} \subseteq BOOLEAN
    /\ dci_pdu \in [sf : SF, plan : Plans \cup {NoPlan}]
    /\ due \in [SF -> SUBSET Mark]
    /\ active \subseteq UE /\ work \subseteq UE /\ todo \subseteq UE
    /\ txdataF \in [Slot -> SUBSET Mark]
    /\ txdata \in [Slot -> SUBSET Mark]

\* The threads exist and have not reached their pthread_cond_wait.
Init ==
    /\ mpc = "write" /\ rx = 0 /\ t = 0 /\ first_rx = TRUE
    /\ dci_pdu = [sf |-> 0, plan |-> NoPlan] /\ due = [s \in SF |-> {}]
    /\ complete_dci = FALSE /\ complete_sch_SR = FALSE /\ complete_cch = FALSE
    /\ m2p = "top" /\ cch = "top" /\ ofdm = "top"
    /\ m2p_sf = 0 /\ cch_sf = 0 /\ ofdm_sf = 0
    /\ active = {} /\ dlsch_SI = FALSE /\ dlsch_ra = FALSE
    /\ Pool!Init
    /\ txdataF = [s \in Slot |-> {}] /\ txdata = [s \in Slot |-> {}]

\* pthread_cond_signal: a thread that is not parked misses it.
Wake(pc) == IF pc = "wait" THEN "woken" ELSE pc

Draw(s, c, of) == txdataF' = [txdataF EXCEPT ![SlotOf(s)] = @ \cup {<<c, of>>}]

-----------------------------------------------------------------------------
(* The master. *)

\* rx_rf hands the radio the slot WriteAhead after the last one received, once
\* something has been received.
RfWrite ==
    /\ mpc = "write"
    /\ mpc' = "read"
    /\ UNCHANGED <<rx, t, first_rx, dci_pdu, due, flagVars, m2pVars, cchVars,
                   ofdmVars, dlschVars, poolVars, txdataF, txdata>>

\* trx_read returns a subframe of samples, and eNB_thread_single moves
\* proc_rxtx[0] to the subframe TxAhead later.  The first timestamp is any; then
\* they follow each other (rx_rf exits the program when they do not).
RfRead ==
    /\ mpc = "read"
    /\ rx' \in (IF first_rx THEN SF ELSE {Plus(rx, 1)})
    /\ t' = Plus(rx', TxAhead)
    /\ first_rx' = FALSE
    /\ mpc' = "mac"
    /\ UNCHANGED <<dci_pdu, due, flagVars, m2pVars, cchVars, ofdmVars, dlschVars,
                   poolVars, txdataF, txdata>>

\* phy_procedures_eNB_TX of a subframe without downlink returns at once.
NoDownlink ==
    /\ mpc = "mac" /\ ~Downlink(t)
    /\ mpc' = "ofdm"
    /\ UNCHANGED <<rx, t, first_rx, dci_pdu, due, flagVars, m2pVars, cchVars, ofdmVars,
                   dlschVars, poolVars, txdataF, txdata>>

\* eNB_dlsch_ulsch_scheduler fills DCI_pdu; the slot of txdataF is zeroed.
MacSchedule ==
    /\ mpc = "mac" /\ Downlink(t)
    /\ \E p \in Plans :
        /\ dci_pdu' = [sf |-> t, plan |-> p]
        /\ due' = [due EXCEPT ![t] = Content(p, t)]
    /\ txdataF' = [txdataF EXCEPT ![SlotOf(t)] = {}]
    /\ mpc' = "m2p"
    /\ UNCHANGED <<rx, t, first_rx, flagVars, m2pVars, cchVars, ofdmVars, dlschVars,
                   poolVars, txdata>>

\* Mutant: complete_sch_SR is left set by the last subframe.
StartM2pNoReset ==
    /\ mpc = "m2p"
    /\ complete_dci' = FALSE
    /\ m2p' = Wake(m2p)
    /\ mpc' = "cch"
    /\ UNCHANGED <<rx, t, first_rx, dci_pdu, due, complete_sch_SR, complete_cch,
                   m2p_sf, cchVars, ofdmVars, dlschVars, poolVars, txdataF, txdata>>

StartM2p ==
    /\ mpc = "m2p"
    /\ complete_dci' = FALSE /\ complete_sch_SR' = FALSE
    /\ m2p' = Wake(m2p)
    /\ mpc' = "cch"
    /\ UNCHANGED <<rx, t, first_rx, dci_pdu, due, complete_cch, m2p_sf, cchVars,
                   ofdmVars, dlschVars, poolVars, txdataF, txdata>>

StartCch ==
    /\ mpc = "cch"
    /\ complete_cch' = FALSE
    /\ cch' = Wake(cch)
    /\ mpc' = "dci"
    /\ UNCHANGED <<rx, t, first_rx, dci_pdu, due, complete_dci, complete_sch_SR,
                   m2pVars, cch_sf, ofdmVars, dlschVars, poolVars, txdataF, txdata>>

\* while (eNB->complete_dci != 1);
AwaitDci ==
    /\ mpc = "dci" /\ complete_dci
    /\ mpc' = "pdsch"
    /\ UNCHANGED <<rx, t, first_rx, dci_pdu, due, flagVars, m2pVars, cchVars,
                   ofdmVars, dlschVars, poolVars, txdataF, txdata>>

\* The PDSCH threads are signalled, and find the UEs that are active.
StartPdsch ==
    /\ mpc = "pdsch"
    /\ Pool!Open /\ work' = active
    /\ active' = {}
    /\ mpc' = "barrier"
    /\ UNCHANGED <<rx, t, first_rx, dci_pdu, due, flagVars, m2pVars, cchVars,
                   ofdmVars, dlsch_SI, dlsch_ra, txdataF, txdata>>

\* while (eNB->complete_pdsch != NUMBER_OF_UE_MAX);
AwaitPdsch ==
    /\ mpc = "barrier"
    /\ Pool!Close
    /\ mpc' = "cchwait"
    /\ UNCHANGED <<rx, t, first_rx, dci_pdu, due, flagVars, m2pVars, cchVars,
                   ofdmVars, dlschVars, txdataF, txdata>>

\* Mutant: complete_cch is not waited for.
AwaitNoCch ==
    /\ mpc = "cchwait"
    /\ mpc' = "srwait"
    /\ UNCHANGED <<rx, t, first_rx, dci_pdu, due, flagVars, m2pVars, cchVars,
                   ofdmVars, dlschVars, poolVars, txdataF, txdata>>

\* while (eNB->complete_cch != 1);
AwaitCch ==
    /\ mpc = "cchwait" /\ complete_cch
    /\ mpc' = "srwait"
    /\ UNCHANGED <<rx, t, first_rx, dci_pdu, due, flagVars, m2pVars, cchVars,
                   ofdmVars, dlschVars, poolVars, txdataF, txdata>>

\* while (eNB->complete_sch_SR != 1);
AwaitSR ==
    /\ mpc = "srwait" /\ complete_sch_SR
    /\ mpc' = "ofdm"
    /\ UNCHANGED <<rx, t, first_rx, dci_pdu, due, flagVars, m2pVars, cchVars,
                   ofdmVars, dlschVars, poolVars, txdataF, txdata>>

\* Each of the four waits is a busy loop.
Spin ==
    /\ \/ mpc = "dci" /\ ~complete_dci
       \/ mpc = "barrier" /\ todo # {}
       \/ mpc = "cchwait" /\ ~complete_cch
       \/ mpc = "srwait" /\ ~complete_sch_SR
    /\ UNCHANGED vars

\* Mutant: the OFDM thread is not signalled.
StartNoOfdm ==
    /\ mpc = "ofdm"
    /\ mpc' = "write"
    /\ UNCHANGED <<rx, t, first_rx, dci_pdu, due, flagVars, m2pVars, cchVars,
                   ofdmVars, dlschVars, poolVars, txdataF, txdata>>

\* proc_tx_full signals the OFDM thread and does not wait for it.
StartOfdm ==
    /\ mpc = "ofdm"
    /\ ofdm' = Wake(ofdm)
    /\ mpc' = "write"
    /\ UNCHANGED <<rx, t, first_rx, dci_pdu, due, flagVars, m2pVars, cchVars,
                   ofdm_sf, dlschVars, poolVars, txdataF, txdata>>

Master == \/ RfWrite \/ RfRead \/ NoDownlink \/ MacSchedule \/ StartM2p \/ StartCch
          \/ AwaitDci \/ StartPdsch \/ AwaitPdsch \/ AwaitCch \/ AwaitSR \/ Spin
          \/ StartOfdm

-----------------------------------------------------------------------------
(* The PDSCH threads, through PdschRound. *)

Modulate(u) ==
    /\ Pool!Modulate(u)
    /\ Draw(t, u, t)
    /\ UNCHANGED <<masterVars, flagVars, m2pVars, cchVars, ofdmVars, dlschVars, txdata>>

Serve(u) ==
    /\ Pool!Serve(u)
    /\ UNCHANGED <<masterVars, flagVars, m2pVars, cchVars, ofdmVars, dlschVars,
                   txdataF, txdata>>

-----------------------------------------------------------------------------
(* mac2phy_proc. *)

M2pGoto(from, to) == m2p = from /\ m2p' = to

M2pWait ==
    /\ M2pGoto("top", "wait")
    /\ UNCHANGED <<masterVars, flagVars, m2p_sf, cchVars, ofdmVars, dlschVars, poolVars,
                   txdataF, txdata>>

M2pEnter ==
    /\ M2pGoto("woken", "parse")
    /\ m2p_sf' = t
    /\ UNCHANGED <<masterVars, flagVars, cchVars, ofdmVars, dlschVars, poolVars,
                   txdataF, txdata>>

\* Mutant: complete_dci is set before the DCIs are parsed.
M2pParseLate ==
    /\ M2pGoto("parse", "publish")
    /\ complete_dci' = TRUE
    /\ UNCHANGED <<masterVars, complete_sch_SR, complete_cch, m2p_sf, cchVars, ofdmVars,
                   dlschVars, poolVars, txdataF, txdata>>

\* generate_eNB_dlsch_params for every DCI: the DLSCHs become active.
M2pParse ==
    /\ M2pGoto("parse", "publish")
    /\ active' = active \cup dci_pdu.plan.ues
    /\ dlsch_SI' = (dlsch_SI \/ dci_pdu.plan.si)
    /\ dlsch_ra' = (dlsch_ra \/ dci_pdu.plan.ra)
    /\ UNCHANGED <<masterVars, flagVars, m2p_sf, cchVars, ofdmVars, poolVars,
                   txdataF, txdata>>

M2pPublish ==
    /\ M2pGoto("publish", "si")
    /\ complete_dci' = TRUE
    /\ UNCHANGED <<masterVars, complete_sch_SR, complete_cch, m2p_sf, cchVars, ofdmVars,
                   dlschVars, poolVars, txdataF, txdata>>

\* pdsch_procedures reads proc->subframe_tx itself and ends with active = 0.
M2pSI ==
    /\ M2pGoto("si", "ra")
    /\ IF dlsch_SI THEN Draw(t, "si", t) ELSE UNCHANGED txdataF
    /\ dlsch_SI' = FALSE
    /\ UNCHANGED <<masterVars, flagVars, m2p_sf, cchVars, ofdmVars, active, dlsch_ra,
                   poolVars, txdata>>

M2pRA ==
    /\ M2pGoto("ra", "done")
    /\ IF dlsch_ra THEN Draw(t, "ra", t) ELSE UNCHANGED txdataF
    /\ dlsch_ra' = FALSE
    /\ UNCHANGED <<masterVars, flagVars, m2p_sf, cchVars, ofdmVars, active, dlsch_SI,
                   poolVars, txdata>>

M2pDone ==
    /\ M2pGoto("done", "top")
    /\ complete_sch_SR' = TRUE
    /\ UNCHANGED <<masterVars, complete_dci, complete_cch, m2p_sf, cchVars, ofdmVars,
                   dlschVars, poolVars, txdataF, txdata>>

M2p == M2pWait \/ M2pEnter \/ M2pParse \/ M2pPublish \/ M2pSI \/ M2pRA \/ M2pDone

-----------------------------------------------------------------------------
(* cch_proc. *)

CchGoto(from, to) == cch = from /\ cch' = to

CchWait ==
    /\ CchGoto("top", "wait")
    /\ UNCHANGED <<masterVars, flagVars, m2pVars, cch_sf, ofdmVars, dlschVars, poolVars,
                   txdataF, txdata>>

CchEnter ==
    /\ CchGoto("woken", "common")
    /\ cch_sf' = t
    /\ UNCHANGED <<masterVars, flagVars, m2pVars, ofdmVars, dlschVars, poolVars,
                   txdataF, txdata>>

\* common_signal_procedures, or pmch_procedures in an MBSFN subframe.
CchCommon ==
    /\ CchGoto("common", "pdcch")
    /\ Draw(cch_sf, "common", cch_sf)
    /\ UNCHANGED <<masterVars, flagVars, m2pVars, cch_sf, ofdmVars, dlschVars, poolVars,
                   txdata>>

\* get_dci_sdu returns the MAC's DCI_pdu; generate_dci_top and the PHICH.
CchPdcch ==
    /\ CchGoto("pdcch", "done")
    /\ Draw(cch_sf, "pdcch", dci_pdu.sf)
    /\ UNCHANGED <<masterVars, flagVars, m2pVars, cch_sf, ofdmVars, dlschVars, poolVars,
                   txdata>>

\* Mutant: complete_cch is not set.
CchSilent ==
    /\ CchGoto("done", "top")
    /\ UNCHANGED <<masterVars, flagVars, m2pVars, cch_sf, ofdmVars, dlschVars, poolVars,
                   txdataF, txdata>>

CchDone ==
    /\ CchGoto("done", "top")
    /\ complete_cch' = TRUE
    /\ UNCHANGED <<masterVars, complete_dci, complete_sch_SR, m2pVars, cch_sf, ofdmVars,
                   dlschVars, poolVars, txdataF, txdata>>

Cch == CchWait \/ CchEnter \/ CchCommon \/ CchPdcch \/ CchDone

-----------------------------------------------------------------------------
(* ofdm_proc. *)

OfdmGoto(from, to) == ofdm = from /\ ofdm' = to

OfdmWait ==
    /\ OfdmGoto("top", "wait")
    /\ UNCHANGED <<masterVars, flagVars, m2pVars, cchVars, ofdm_sf, dlschVars, poolVars,
                   txdataF, txdata>>

OfdmEnter ==
    /\ OfdmGoto("woken", "mod")
    /\ ofdm_sf' = t
    /\ UNCHANGED <<masterVars, flagVars, m2pVars, cchVars, dlschVars, poolVars,
                   txdataF, txdata>>

\* do_OFDM_mod_rt modulates downlink and special subframes only.
OfdmMod ==
    /\ OfdmGoto("mod", "top")
    /\ IF Downlink(ofdm_sf)
       THEN txdata' = [txdata EXCEPT ![SlotOf(ofdm_sf)] = txdataF[SlotOf(ofdm_sf)]]
       ELSE UNCHANGED txdata
    /\ UNCHANGED <<masterVars, flagVars, m2pVars, cchVars, ofdm_sf, dlschVars, poolVars,
                   txdataF>>

Ofdm == OfdmWait \/ OfdmEnter \/ OfdmMod

Next == Master \/ M2p \/ Cch \/ Ofdm \/ \E u \in UE : Modulate(u) \/ Serve(u)

Spec == Init /\ [][Next]_vars

-----------------------------------------------------------------------------
(* Pacing. *)

AllParked == m2p = "wait" /\ cch = "wait" /\ ofdm = "wait"

\* The real-time assumption: while the master blocks in trx_read for a subframe
\* of samples, the other threads finish what they do and park.
Pacing == RfRead => AllParked

-----------------------------------------------------------------------------
(* What the downlink must do. *)

\* Once the master has passed its four waits the slot holds the control channel
\* and every allocation of its own subframe, and nothing else.
Built == mpc = "ofdm" /\ Downlink(t) => txdataF[SlotOf(t)] = due[t]

\* From there until the next subframe is scheduled nobody writes txdataF, which
\* the OFDM thread reads.
BufferQuiet ==
    mpc \in {"ofdm", "write", "read"} =>
        /\ m2p \notin {"parse", "publish", "si", "ra"}
        /\ cch \notin {"common", "pdcch"}
        /\ todo = {}

\* The PDSCH threads find every UE the MAC scheduled: their round opens with the
\* allocations of the subframe parsed.
ParsedBeforePdsch == [][StartPdsch => {u \in UE : <<u, t>> \in due[t]} = active]_vars

=============================================================================
