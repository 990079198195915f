-------------------------------- MODULE DlHarq --------------------------------
(***************************************************************************)
(* One downlink HARQ process of one UE (dlsch->harq_processes[p]), from its *)
(* transmission to the ACK or NAK that comes back four subframes later.     *)
(*                                                                         *)
(* Two threads may hand that feedback to process_HARQ_feedback, which takes *)
(* no lock: the master, when it collects the UE's PUSCH, and the PUCCH      *)
(* thread.  The PUCCH thread leaves a UE with a PUSCH to the master if it   *)
(* finds its subframe_scheduling_flag set; the master clears that flag      *)
(* before it calls process_HARQ_feedback.  UplinkRx says when the threads   *)
(* run; here a reception starts both and ends with both.                    *)
(*                                                                         *)
(* In FDD the feedback of a process and its next transmission fall in the   *)
(* same turn of rxtx, reception first, every eighth subframe.  In between,  *)
(* only the first scheduling request touches the process.                   *)
(***************************************************************************)
EXTENDS Integers

CONSTANTS
    DLMlimit,    \* dlsch->Mlimit, transmissions of a packet at most (4)
    RoundMod,  \* 2^8: round is a uint8_t
    Overlap    \* the PUCCH thread may come to the UE after its PUSCH is decoded

ASSUME HarqAssumption ==
    /\ DLMlimit \in Nat \ {0}
    /\ RoundMod \in Nat /\ RoundMod > DLMlimit
    /\ Overlap \in BOOLEAN

VARIABLES
    mpc,          \* what the master is doing: "tx" or "rx"
    pc,           \* where each thread is on its way to the feedback
    status,       \* harq_processes[p]->status
    round,        \* harq_processes[p]->round
    harq_id,      \* harq_ids[dl_subframe] names the process (not Mdlharq)
    subframe_tx,  \* subframe_tx[dl_subframe] = 1
    flag,         \* subframe_scheduling_flag of the uplink process
    first_sr,     \* no scheduling request has come from the UE yet
    reg,          \* the incremented round each thread has in a register
    sent          \* history: transmissions of the packet in the process

dlVars == <<mpc, pc, status, round, harq_id, subframe_tx, flag, first_sr, reg, sent>>

Thread == {"pusch", "pucch"}
Over   == {"done", "acked", "dropped"}
PC     == {"decode", "guard", "sr", "check", "load", "store", "limit"} \cup Over

DLTypeOK ==
    /\ mpc \in {"tx", "rx"}
    /\ pc \in [Thread -> PC]
    /\ status \in {"SCH_IDLE", "ACTIVE"}
    /\ round \in 0..(RoundMod - 1)
    /\ reg \in [Thread -> 0..(RoundMod - 1)]
    /\ harq_id \in BOOLEAN /\ subframe_tx \in BOOLEAN
    /\ flag \in BOOLEAN /\ first_sr \in BOOLEAN
    /\ sent \in Nat

\* new_eNB_dlsch; the random access response sets first_sr.
DLInit ==
    /\ mpc = "tx"
    /\ pc = [th \in Thread |-> "done"]
    /\ status = "SCH_IDLE" /\ round = 0 /\ harq_id = FALSE /\ subframe_tx = FALSE
    /\ flag = FALSE /\ first_sr = TRUE
    /\ reg = [th \in Thread |-> 0]
    /\ sent = 0

Goto(th, from, to) == pc[th] = from /\ pc' = [pc EXCEPT ![th] = to]

-----------------------------------------------------------------------------
(* The master: one transmission opportunity, one reception. *)

\* The round get_ue_active_harq_pid reports to the MAC.
ReportedRound == IF status = "ACTIVE" THEN round ELSE 0

\* The MAC uses the process: for a new packet if it was told round 0, else for a
\* retransmission.  generate_eNB_dlsch_params_from_dci activates the process in
\* its round 0 only, and pdsch_procedures fetches the packet in round 0 only: in
\* any other round the one already there is sent once more.
Transmit ==
    /\ mpc = "tx" /\ ~subframe_tx
    /\ harq_id' = TRUE /\ subframe_tx' = TRUE
    /\ status' = (IF round = 0 THEN "ACTIVE" ELSE status)
    /\ sent' = (IF round = 0 THEN 1 ELSE sent + 1)
    /\ UNCHANGED <<mpc, pc, round, flag, first_sr, reg>>

\* The feedback is due: phy_procedures_eNB_uespec_RX wakes the PUCCH thread, and
\* the PUSCH thread for a UE with an uplink grant.
StartRx ==
    /\ mpc = "tx" /\ mpc' = "rx"
    /\ flag' \in BOOLEAN
    /\ pc' = [pusch |-> IF flag' THEN "decode" ELSE "done", pucch |-> "guard"]
    /\ UNCHANGED <<status, round, harq_id, subframe_tx, first_sr, reg, sent>>

\* Mutant: the master clears the flag and leaves the feedback to the PUCCH thread.
CollectNoFeedback ==
    /\ Overlap \/ pc["pucch"] # "guard"
    /\ Goto("pusch", "decode", "done")
    /\ flag' = FALSE
    /\ UNCHANGED <<mpc, status, round, harq_id, subframe_tx, first_sr, reg, sent>>

\* The PUSCH is decoded and collected: subframe_scheduling_flag = 0.  Unless
\* Overlap, the PUCCH thread has passed this UE by then.
CollectPusch ==
    /\ Overlap \/ pc["pucch"] # "guard"
    /\ Goto("pusch", "decode", "check")
    /\ flag' = FALSE
    /\ UNCHANGED <<mpc, status, round, harq_id, subframe_tx, first_sr, reg, sent>>

\* Every UE is collected and complete_pucch is set; the flags of the subframe are
\* cleared before it is used again for the downlink.
EndRx ==
    /\ mpc = "rx" /\ mpc' = "tx"
    /\ \A th \in Thread : pc[th] \in Over
    /\ pc' = [th \in Thread |-> "done"]
    /\ subframe_tx' = FALSE
    /\ UNCHANGED <<status, round, harq_id, flag, first_sr, reg, sent>>

-----------------------------------------------------------------------------
(* The PUCCH thread, in pucch_procedures. *)

\* Mutant: the UE's uplink grant is not looked at.
GuardAlways ==
    /\ Goto("pucch", "guard", "sr")
    /\ UNCHANGED <<mpc, status, round, harq_id, subframe_tx, flag, first_sr, reg, sent>>

Guard ==
    /\ Goto("pucch", "guard", IF flag THEN "done" ELSE "sr")
    /\ UNCHANGED <<mpc, status, round, harq_id, subframe_tx, flag, first_sr, reg, sent>>

NoSR ==
    /\ Goto("pucch", "sr", "check")
    /\ UNCHANGED <<mpc, status, round, harq_id, subframe_tx, flag, first_sr, reg, sent>>

\* The first scheduling request clears HARQ process 0, used for Msg4: just before
\* the feedback of the process, or in one of the subframes in between.
FirstSR ==
    /\ first_sr /\ first_sr' = FALSE
    /\ \/ Goto("pucch", "sr", "check")
       \/ mpc = "tx" /\ UNCHANGED pc
    /\ round' = 0 /\ status' = "SCH_IDLE"
    /\ UNCHANGED <<mpc, harq_id, subframe_tx, flag, reg, sent>>

-----------------------------------------------------------------------------
(* process_HARQ_feedback, in thread th. *)

Check(th) ==
    /\ Goto(th, "check", IF subframe_tx /\ harq_id /\ status = "ACTIVE"
                         THEN "load" ELSE "done")
    /\ UNCHANGED <<mpc, status, round, harq_id, subframe_tx, flag, first_sr, reg, sent>>

\* Mutant: the round of an acknowledged packet is left standing.
AckKeepRound(th) ==
    /\ Goto(th, "load", "acked")
    /\ status' = "SCH_IDLE" /\ harq_id' = FALSE
    /\ UNCHANGED <<mpc, round, subframe_tx, flag, first_sr, reg, sent>>

Ack(th) ==
    /\ Goto(th, "load", "acked")
    /\ round' = 0 /\ status' = "SCH_IDLE" /\ harq_id' = FALSE
    /\ UNCHANGED <<mpc, subframe_tx, flag, first_sr, reg, sent>>

\* A NAK: round++ is a load, an addition and a store.
Nak(th) ==
    /\ Goto(th, "load", "store")
    /\ reg' = [reg EXCEPT ![th] = IF round = RoundMod - 1 THEN 0 ELSE round + 1]
    /\ UNCHANGED <<mpc, status, round, harq_id, subframe_tx, flag, first_sr, sent>>

\* Mutant: the round is not incremented.
StoreNothing(th) ==
    /\ Goto(th, "store", "limit")
    /\ UNCHANGED <<mpc, status, round, harq_id, subframe_tx, flag, first_sr, reg, sent>>

Store(th) ==
    /\ Goto(th, "store", "limit")
    /\ round' = reg[th]
    /\ UNCHANGED <<mpc, status, harq_id, subframe_tx, flag, first_sr, reg, sent>>

LastRound(th) ==
    /\ Goto(th, "limit", "dropped")
    /\ round' = 0 /\ status' = "SCH_IDLE" /\ harq_id' = FALSE
    /\ reg' = [reg EXCEPT ![th] = 0]
    /\ UNCHANGED <<mpc, subframe_tx, flag, first_sr, sent>>

Keep(th) ==
    /\ Goto(th, "limit", "done")
    /\ reg' = [reg EXCEPT ![th] = 0]
    /\ UNCHANGED <<mpc, status, round, harq_id, subframe_tx, flag, first_sr, sent>>

\* Mutant: the packet is given up one transmission too early.
LimitEarly(th) == \E v \in {reg[th], round} :
    IF v = DLMlimit - 1 THEN LastRound(th) ELSE Keep(th)

\* Mutant: the limit is compared with >.
LimitAbove(th) == \E v \in {reg[th], round} :
    IF v > DLMlimit THEN LastRound(th) ELSE Keep(th)

\* The comparison with Mlimit uses the register or reads round again: the
\* compiler is free to do either.
Limit(th) == \E v \in {reg[th], round} :
    IF v = DLMlimit THEN LastRound(th) ELSE Keep(th)

Feedback(th) == Check(th) \/ Ack(th) \/ Nak(th) \/ Store(th) \/ Limit(th)

DLNext == \/ Transmit \/ StartRx \/ CollectPusch \/ EndRx
        \/ Guard \/ NoSR \/ FirstSR
        \/ \E th \in Thread : Feedback(th)

DLSpec == DLInit /\ [][DLNext]_dlVars

-----------------------------------------------------------------------------
(* What the process must do. *)

\* "Received ACK so set round to 0 and set dlsch_harq_pid IDLE": when a reception
\* in which the packet was acknowledged is over, its process is as new.
AckEndsPacket ==
    (\A th \in Thread : pc[th] \in Over) /\ (\E th \in Thread : pc[th] = "acked")
        => status = "SCH_IDLE" /\ round = 0

\* An idle process is in round 0 whenever the MAC may use it.  One that is not
\* never carries a packet again: it is not activated, so its feedback is ignored,
\* and it sends the packet it held before in place of the one just scheduled.
IdleIsRoundZero == mpc = "tx" /\ status = "SCH_IDLE" => round = 0

\* "This was the last round for DLSCH": a packet is given up after Mlimit
\* transmissions, not before.
DroppedAtLimit ==
    [][\A th \in Thread : pc[th] = "limit" /\ pc'[th] = "dropped" => sent = DLMlimit]_dlVars

\* Mlimit is the "maximum number of HARQ rounds": no packet is sent more often.
SentAtMostMlimit == sent <= DLMlimit

\* The MAC never puts a new packet into a process whose last one is neither
\* acknowledged nor given up: after the feedback an active process is past round 0.
NoPacketOverwritten == [][Transmit /\ status = "ACTIVE" => round # 0]_dlVars

\* The round the MAC is told, from which it takes the redundancy version, counts
\* the transmissions the packet has had.
RoundCountsSent ==
    mpc = "tx" /\ ~subframe_tx /\ status = "ACTIVE" => ReportedRound = sent

=============================================================================
