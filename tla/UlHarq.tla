------------------------------- MODULE UlHarq -------------------------------
(***************************************************************************)
(* One UE slot of the eNB and its uplink HARQ processes (FDD), from the    *)
(* random access response that fills the slot to the removal that frees    *)
(* it: phy_procedures_eNB_uespec_RX, process_Msg3, add_ue and              *)
(* mac_phy_remove_ue of phy_procedures_lte_eNb.c, the uplink part of       *)
(* mac2phy_proc and cch_proc of lte-enb.c, and generate_phich_top.         *)
(*                                                                         *)
(* The master receives subframe n, then builds subframe n + 4: both belong *)
(* to HARQ process n % 8, as does the PUSCH of n + 8 they prepare.  The    *)
(* m2p thread applies the DCIs of subframe n + 4 while the cch thread, at  *)
(* the same time, sends its PHICH; both write the same HARQ process.       *)
(*                                                                         *)
(* The UE and the choices of the MAC scheduler are external.               *)
(***************************************************************************)
EXTENDS Integers

CONSTANTS
    Rntis,      \* the identities the MAC hands out
    Pids,       \* the HARQ processes the MAC uses (a subset of 0 .. 7)
    Mlimit,     \* ulsch->Mlimit: transmissions of a packet
    MaxMsg3,    \* maxHARQ_Msg3Tx: transmissions of a Msg3
    MaxErrors   \* ULSCH_max_consecutive_errors

None == "none"

ASSUME SlotAssumption == None \notin Rntis

ASSUME LimitAssumption == MaxErrors \in Nat \ {0}

Process == 0 .. 7
Mode == {"NOT_SYNCHED", "PRACH", "RA_RESPONSE", "PUSCH"}
Msg3Delay == 10   \* RAR of iteration n: subframe n + 4, Msg3 6 subframes later
Past == 11        \* a Msg3 time that has gone by

VARIABLES
    now,    \* subframe_rx, modulo the 8 HARQ processes
    phase,  \* where the master is in the iteration
    slot,   \* UE_stats[i] and the fields of ulsch[i] outside the processes
    harq,   \* ulsch[i]->harq_processes
    mac,    \* what the MAC knows of the UE in the slot
    sub,    \* this iteration: what is on air, where m2p and cch are
    ue      \* the UE

vars == <<now, phase, slot, harq, mac, sub, ue>>

NoHarq == [flag |-> FALSE, round |-> 0, phichActive |-> FALSE, phichAck |-> FALSE,
           dciAlloc |-> FALSE, rarAlloc |-> FALSE]
NoUe == [gone |-> FALSE, tx |-> [p \in Process |-> "no"],
         buf |-> [p \in Process |-> "empty"], insync |-> [p \in Process |-> TRUE]]
NoMac == [ue |-> None, failing |-> FALSE, sched |-> {}]
Idle == [dci |-> FALSE, rar |-> None, hi |-> "off", sent |-> FALSE,
         m2p |-> "done", cch |-> "done", saw |-> "none"]

Init == /\ now = 0
        /\ phase = "rx"
        /\ slot = [rnti |-> None, mode |-> "NOT_SYNCHED", msg3Active |-> FALSE,
                   msg3Flag |-> FALSE, msg3In |-> Past, errors |-> 0]
        /\ harq = [p \in Process |-> NoHarq]
        /\ mac = NoMac
        /\ sub = Idle
        /\ ue = NoUe

-----------------------------------------------------------------------------
(* mac_phy_remove_ue: what is left of the slot and of its processes.  A     *)
(* pending PHICH stays; Msg3_active and Msg3_flag are the caller's.         *)
FreeSlot(s) == [s EXCEPT !.rnti = None, !.mode = "NOT_SYNCHED", !.errors = 0]
CleanUlsch(h) == [p \in Process |-> [h[p] EXCEPT !.flag = FALSE, !.phichAck = FALSE,
                                                 !.round = 0]]

(* process_Msg3 at the start of the reception. *)
Msg3Due == slot.mode = "RA_RESPONSE" /\ slot.msg3Active /\ slot.msg3In = 0
Prepared == IF slot.mode = "RA_RESPONSE"
            THEN [slot EXCEPT !.msg3Flag = Msg3Due, !.msg3Active = @ /\ ~Msg3Due]
            ELSE slot
Listening == slot.rnti # None /\ (harq[now].flag \/ Msg3Due)

Sending == ue.tx[now] = "next"
OnAir == [ue.tx EXCEPT ![now] = IF @ = "after" THEN "next" ELSE "no"]

(* The slot is not received: nothing was scheduled. *)
Skip == /\ phase = "rx" /\ ~Listening
        /\ phase' = "sched"
        /\ slot' = Prepared
        /\ ue' = [ue EXCEPT !.tx = OnAir]
        /\ sub' = [sub EXCEPT !.sent = Sending]
        /\ UNCHANGED <<now, harq, mac>>

(* A NAKed process: one more round, and a PHICH to send. *)
Naked == LET h == harq[now] IN
         [harq EXCEPT ![now] = [h EXCEPT !.flag = FALSE, !.phichActive = TRUE,
                                         !.phichAck = FALSE, !.round = h.round + 1]]

\* Mutant: Msg3_active is not set again.
FailMsg3Forgets ==
    /\ Prepared.msg3Flag
    /\ slot' = Prepared
    /\ harq' = [Naked EXCEPT ![now].round = IF @ = MaxMsg3 THEN 0 ELSE @]
    /\ ue' = [ue EXCEPT !.tx = OnAir]
    /\ UNCHANGED mac

(* A Msg3 in error: asked for again in 8 subframes, or, at the limit, the   *)
(* end of the random access.                                                *)
FailMsg3 == /\ Prepared.msg3Flag
            /\ IF Naked[now].round = MaxMsg3
               THEN /\ slot' = [FreeSlot(Prepared) EXCEPT !.msg3Active = FALSE]
                    /\ harq' = CleanUlsch(Naked)
                    /\ ue' = NoUe
               ELSE /\ slot' = [Prepared EXCEPT !.msg3Active = TRUE, !.msg3In = 8]
                    /\ harq' = Naked
                    /\ ue' = [ue EXCEPT !.tx = OnAir]
            /\ UNCHANGED mac

(* Any other packet in error: given up after Mlimit rounds. *)
FailPacket == /\ ~Prepared.msg3Flag
              /\ IF Naked[now].round = Mlimit
                 THEN /\ harq' = [Naked EXCEPT ![now].round = 0, ![now].phichActive = FALSE]
                      /\ slot' = [Prepared EXCEPT !.errors = @ + 1]
                      /\ mac' = [mac EXCEPT !.sched = @ \ {now}]
                 ELSE /\ harq' = Naked
                      /\ slot' = Prepared
                      /\ UNCHANGED mac
              /\ ue' = [ue EXCEPT !.tx = OnAir]

Fail == /\ phase = "rx" /\ Listening
        /\ FailMsg3 \/ FailPacket
        /\ phase' = "sched"
        /\ sub' = [sub EXCEPT !.sent = Sending]
        /\ UNCHANGED now

\* Mutant: no PHICH is prepared, the NAK of the round before stays.
AckedSilent ==
    [harq EXCEPT ![now].flag = FALSE, ![now].phichActive = TRUE, ![now].round = 0]

Acked == [harq EXCEPT ![now] = [@ EXCEPT !.flag = FALSE, !.phichActive = TRUE,
                                         !.phichAck = TRUE, !.round = 0]]
Delivered == [ue EXCEPT !.tx = OnAir, !.buf[now] = "delivered"]

(* A packet is decoded and handed to the MAC, which clears its timers. *)
Deliver == /\ ~Prepared.msg3Flag
           /\ slot' = [Prepared EXCEPT !.errors = 0]
           /\ harq' = Acked
           /\ mac' = IF mac.ue = slot.rnti
                     THEN [mac EXCEPT !.sched = @ \ {now}, !.failing = FALSE]
                     ELSE mac
           /\ ue' = Delivered

(* A Msg3 with a CCCH message: the MAC adds the UE. *)
Msg3Ccch == /\ Prepared.msg3Flag
            /\ slot' = [Prepared EXCEPT !.errors = 0, !.mode = "PUSCH", !.msg3Flag = FALSE]
            /\ harq' = Acked
            /\ mac' = [NoMac EXCEPT !.ue = slot.rnti]
            /\ ue' = Delivered

(* A Msg3 with a C-RNTI: the UE has another slot, and this one is freed.    *)
(* The mode is set last, whatever became of the slot.                       *)
Msg3Crnti == /\ Prepared.msg3Flag
             /\ slot' = [FreeSlot(Prepared) EXCEPT !.msg3Active = FALSE, !.mode = "PUSCH",
                                                   !.msg3Flag = FALSE]
             /\ harq' = CleanUlsch(Acked)
             /\ ue' = NoUe
             /\ UNCHANGED mac

Decode == /\ phase = "rx" /\ Listening /\ Sending
          /\ Deliver \/ Msg3Ccch \/ Msg3Crnti
          /\ phase' = "sched"
          /\ sub' = [sub EXCEPT !.sent = TRUE]
          /\ UNCHANGED now

-----------------------------------------------------------------------------
(* The start of phy_procedures_eNB_TX.  At MaxErrors packets given up in a  *)
(* row the PHY reports the failure; the MAC scheduler then drops the UE     *)
(* (UL failure timer, release timer) or schedules it.  A process in a round *)
(* other than 0 gets no DCI: its PHICH asks for the retransmission.         *)
Failed == slot.errors = MaxErrors

MacFailing == mac.failing \/ (Failed /\ mac.ue = slot.rnti /\ slot.rnti # None)

Checked == [slot EXCEPT !.errors = IF Failed THEN 0 ELSE @]

\* Mutant: the MAC keeps the UE that the PHY removes.
DropPhyOnly ==
    /\ phase = "sched" /\ mac.ue # None
    /\ phase' = "tx"
    /\ slot' = FreeSlot(Checked)
    /\ harq' = CleanUlsch(harq)
    /\ ue' = NoUe
    /\ sub' = [sub EXCEPT !.m2p = "clear", !.cch = "look"]
    /\ UNCHANGED <<now, mac>>

Drop == /\ phase = "sched" /\ mac.ue # None
        /\ phase' = "tx"
        /\ slot' = FreeSlot(Checked)
        /\ harq' = CleanUlsch(harq)
        /\ mac' = NoMac
        /\ ue' = NoUe
        /\ sub' = [sub EXCEPT !.m2p = "clear", !.cch = "look"]
        /\ UNCHANGED now

(* schedule_ulsch_rnti: a DCI for a new packet of process now. *)
Grantable == /\ now \in Pids
             /\ mac.ue = slot.rnti /\ slot.rnti # None
             /\ slot.mode = "PUSCH"
             /\ ~MacFailing
             /\ harq[now].round = 0

Schedule(grant, rar) ==
    /\ phase = "sched"
    /\ grant => Grantable
    /\ rar # None => /\ (now + 2) % 8 \in Pids
                     /\ slot.rnti = None
    /\ phase' = "tx"
    /\ slot' = Checked
    /\ mac' = [mac EXCEPT !.failing = MacFailing,
                          !.sched = IF grant THEN @ \cup {now} ELSE @]
    /\ sub' = [sub EXCEPT !.dci = grant, !.rar = rar, !.m2p = "clear", !.cch = "look"]
    /\ UNCHANGED <<now, harq, ue>>

(* UE_is_to_be_scheduled with no data known: after an idle time, and only   *)
(* when no process is still scheduled.                                      *)
IdleGrant == mac.sched = {} /\ Schedule(TRUE, None)

-----------------------------------------------------------------------------
(* The m2p thread: it clears the allocation of the process, applies a       *)
(* format 0 DCI, and sends the random access response.                      *)
ClearAlloc == /\ phase = "tx" /\ sub.m2p = "clear"
              /\ harq' = [harq EXCEPT ![now] = [@ EXCEPT !.dciAlloc = FALSE, !.rarAlloc = FALSE]]
              /\ sub' = [sub EXCEPT !.m2p = IF sub.dci THEN "alloc" ELSE "rar"]
              /\ UNCHANGED <<now, phase, slot, mac, ue>>

ApplyDci == /\ phase = "tx" /\ sub.m2p = "alloc"
            /\ harq' = [harq EXCEPT ![now] = [@ EXCEPT !.dciAlloc = TRUE, !.rarAlloc = FALSE]]
            /\ sub' = [sub EXCEPT !.m2p = "flag"]
            /\ UNCHANGED <<now, phase, slot, mac, ue>>

SetFlag == /\ phase = "tx" /\ sub.m2p = "flag"
           /\ harq' = [harq EXCEPT ![now].flag = TRUE]
           /\ sub' = [sub EXCEPT !.m2p = "rar"]
           /\ UNCHANGED <<now, phase, slot, mac, ue>>

(* fill_rar, add_ue and generate_eNB_ulsch_params_from_rar: the slot gets a *)
(* UE, whose Msg3 comes Msg3Delay subframes later in process now + 2.       *)
SendRar ==
    /\ phase = "tx" /\ sub.m2p = "rar"
    /\ sub' = [sub EXCEPT !.m2p = "done", !.sent = @ /\ sub.rar = None]
    /\ IF sub.rar = None
       THEN UNCHANGED <<slot, harq, ue>>
       ELSE LET p == (now + 2) % 8
                h == harq[p] IN
            /\ slot' = [slot EXCEPT !.rnti = sub.rar, !.mode = "RA_RESPONSE",
                                    !.msg3Active = TRUE, !.msg3In = Msg3Delay]
            /\ harq' = [harq EXCEPT ![p] =
                           [h EXCEPT !.rarAlloc = TRUE,
                                     !.round = IF h.round = 0 THEN 0 ELSE h.round + 1]]
            /\ ue' = [NoUe EXCEPT !.tx[p] = "after", !.buf[p] = "fresh"]
    /\ UNCHANGED <<now, phase, mac>>

(* The cch thread, generate_phich_top: it sends the PHICH and looks at the  *)
(* allocation; without one it prepares the retransmission itself.           *)
Look == /\ phase = "tx" /\ sub.cch = "look"
        /\ LET h == harq[now]
               alone == ~h.dciAlloc /\ ~h.rarAlloc IN
           sub' = IF slot.rnti # None /\ h.phichActive
                  THEN [sub EXCEPT !.cch = "act",
                                   !.hi = IF h.phichAck THEN "ack" ELSE "nak",
                                   !.saw = IF alone THEN "alone" ELSE "alloc"]
                  ELSE [sub EXCEPT !.cch = "done"]
        /\ UNCHANGED <<now, phase, slot, harq, mac, ue>>

\* Mutant: a NAK does not prepare the retransmission.
ActOnce ==
    /\ phase = "tx" /\ sub.cch = "act"
    /\ harq' = [harq EXCEPT ![now].phichActive = FALSE]
    /\ sub' = [sub EXCEPT !.cch = "done"]
    /\ UNCHANGED <<now, phase, slot, mac, ue>>

Act == /\ phase = "tx" /\ sub.cch = "act"
       /\ LET h == harq[now]
              alone == sub.saw = "alone" IN
          harq' = [harq EXCEPT ![now] =
                     [h EXCEPT !.phichActive = FALSE,
                               !.flag = IF alone THEN sub.hi = "nak" ELSE h.flag,
                               !.round = IF alone /\ sub.hi = "ack" THEN 0 ELSE h.round]]
       /\ sub' = [sub EXCEPT !.cch = "done"]
       /\ UNCHANGED <<now, phase, slot, mac, ue>>

-----------------------------------------------------------------------------
(* The UE hears subframe n + 4, but may miss a DCI or take a PHICH NAK for  *)
(* an ACK.  A DCI counts before a PHICH; it is for new data when its NDI    *)
(* differs from the last one the UE has heard.  A PHICH is only read by a   *)
(* UE that has sent.                                                        *)
Hear(dci, nak) ==
    LET granted == sub.dci /\ dci
        asked == ~sub.dci /\ sub.hi = "nak" /\ sub.sent /\ nak
        new == ue.insync[now] \/ ue.buf[now] = "empty" IN
    IF ue.gone
    THEN ue
    ELSE [ue EXCEPT !.tx[now] = IF granted \/ asked THEN "next" ELSE @,
                    !.insync[now] = IF sub.dci THEN dci \/ ~@ ELSE @,
                    !.buf[now] = IF granted /\ new THEN "fresh" ELSE @]

End(leaves) ==
    /\ phase = "tx" /\ sub.m2p = "done" /\ sub.cch = "done"
    /\ \E dci, nak \in BOOLEAN :
          ue' = IF leaves THEN [NoUe EXCEPT !.gone = TRUE] ELSE Hear(dci, nak)
    /\ phase' = "rx"
    /\ now' = (now + 1) % 8
    /\ slot' = [slot EXCEPT !.msg3In = IF @ \in 1 .. Msg3Delay THEN @ - 1 ELSE Past]
    /\ sub' = Idle
    /\ UNCHANGED <<harq, mac>>

Leave == slot.rnti # None /\ ~ue.gone /\ End(TRUE)

Next == \/ Skip \/ Fail \/ Decode
        \/ Drop
        \/ \E grant \in BOOLEAN, rar \in Rntis \cup {None} : Schedule(grant, rar)
        \/ ClearAlloc \/ ApplyDci \/ SetFlag \/ SendRar
        \/ Look \/ Act
        \/ End(FALSE) \/ Leave

Spec == Init /\ [][Next]_vars

-----------------------------------------------------------------------------
(* Every field stays in its range: a round below the limit of its kind, a   *)
(* count of errors that the next failure check still sees at MaxErrors.     *)
TypeOK ==
    /\ now \in Process
    /\ phase \in {"rx", "sched", "tx"}
    /\ slot \in [rnti : Rntis \cup {None}, mode : Mode, msg3Active : BOOLEAN,
                 msg3Flag : BOOLEAN, msg3In : 0 .. Past, errors : 0 .. MaxErrors]
    /\ harq \in [Process -> [flag : BOOLEAN, round : Nat, phichActive : BOOLEAN,
                             phichAck : BOOLEAN, dciAlloc : BOOLEAN, rarAlloc : BOOLEAN]]
    /\ mac \in [ue : Rntis \cup {None}, failing : BOOLEAN, sched : SUBSET Pids]
    /\ sub \in [dci : BOOLEAN, rar : Rntis \cup {None}, hi : {"off", "ack", "nak"},
                sent : BOOLEAN, m2p : {"clear", "alloc", "flag", "rar", "done"},
                cch : {"look", "act", "done"}, saw : {"none", "alone", "alloc"}]
    /\ ue \in [gone : BOOLEAN, tx : [Process -> {"no", "next", "after"}],
               buf : [Process -> {"empty", "fresh", "delivered"}],
               insync : [Process -> BOOLEAN]]

(* What the UE in the slot sends is received: whoever told it to send - the *)
(* RAR, a DCI of the m2p thread, a PHICH NAK of the cch thread - has also   *)
(* made the eNB listen 8 subframes later.                                   *)
Received == phase = "rx" /\ Sending => Listening

(* A UE the MAC has in its list is the one in the slot, so that find_ue     *)
(* finds the UE of every DCI (mac2phy_proc exits the program otherwise).    *)
UeFound == /\ mac.ue # None => slot.rnti = mac.ue /\ slot.mode = "PUSCH"
           /\ sub.dci => mac.ue # None

(* Once an iteration has ended, no PHICH is left to send: clean_eNb_ulsch   *)
(* leaves it to the transmission.                                           *)
PhichDone == phase = "rx" => \A p \in Process : ~harq[p].phichActive

(* A slot whose UE has been dropped is not in mode PUSCH. *)
FreedNotPusch == slot.rnti = None => slot.mode # "PUSCH"

=============================================================================
