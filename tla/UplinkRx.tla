------------------------------- MODULE UplinkRx -------------------------------
(***************************************************************************)
(* The uplink of one eNB in one subframe after the other: the master in     *)
(* phy_procedures_eNB_uespec_RX, the PUSCH thread (pusch_proc), the PUCCH   *)
(* thread (pucch_proc) and the turbo threads (turbo_proc).                  *)
(*                                                                         *)
(* The master publishes the UEs with a PUSCH (active_UE), wakes everybody,  *)
(* and collects each active UE once complete_turbo is set.  The PUSCH       *)
(* thread demodulates; one turbo thread, the one that finds every active UE *)
(* demodulated under turbo_status_mutex, claims the subframe and decodes    *)
(* them all; the PUCCH thread looks at every UE whose                       *)
(* subframe_scheduling_flag is 0.  Only the turbo threads take the mutex:   *)
(* the master's resets race with a thread that has not parked.              *)
(*                                                                         *)
(* What a collected transport block does to its HARQ process is not here:   *)
(* only whether its result is of this subframe, and who hands each UE's     *)
(* ACK to process_HARQ_feedback (DlHarq has what follows).                  *)
(***************************************************************************)
EXTENDS Integers, FiniteSets

CONSTANTS
    NumTurbo, \* NUM_THREAD, the turbo threads
    NumUE,    \* NUMBER_OF_UE_MAX
    NumPid    \* subframe2harq_pid counts subframes modulo this (8 in FDD)

UE    == 0..(NumUE - 1)
Turbo == 0..(NumTurbo - 1)
Pid   == 0..(NumPid - 1)
Last  == NumUE - 1
Free  == NumTurbo          \* nobody holds turbo_status_mutex

ASSUME UplinkAssumption == {NumTurbo, NumUE, NumPid} \subseteq Nat \ {0}

VARIABLES
    mpc,            \* where the master is
    k,              \* its loop variable i
    pid,            \* the HARQ process of proc_rxtx[0].frame_rx, subframe_rx
    rnti,           \* the UEs with rnti > 0
    flag,           \* those with subframe_scheduling_flag = 1 in process pid
    active_UE,
    ret,            \* 0 after the reset, then what td returned
    wait_decoding,  \* the UEs the master has not yet gone through
    complete_pusch, complete_turbo, complete_pucch,
    turbo_status, mutex,
    tpc, flag_wait, go, harq_pid, tu,   \* turbo_proc: UE index, local process
    ppc, pu, rx_pid,                    \* pusch_proc, the process rx_ulsch is in
    cpc, cu,                            \* pucch_proc
    demodulated,    \* history: the UEs whose rx_ulsch of this subframe is over
    fed             \* history: the UEs whose feedback was processed in it

masterVars == <<mpc, k, pid, rnti, wait_decoding>>
tableVars  == <<flag, active_UE, ret, complete_pusch>>
flagVars   == <<complete_turbo, complete_pucch, turbo_status>>
turboVars  == <<tpc, flag_wait, go, harq_pid, tu>>
puschVars  == <<ppc, pu, rx_pid>>
pucchVars  == <<cpc, cu>>
histVars   == <<demodulated, fed>>
vars == <<masterVars, tableVars, flagVars, mutex, turboVars, puschVars, pucchVars,
          histVars>>

MasterPC == {"idle", "reset", "prepare", "turbo", "pucch", "pusch", "collect",
             "feedback", "await"}
TurboPC  == {"top", "wait", "woken", "decode", "publish", "lock", "scan", "unlock"}
PuschPC  == {"top", "wait", "woken", "test", "rx"}
PucchPC  == {"top", "wait", "woken", "guard", "feedback", "done"}

TypeOK ==
    /\ mpc \in MasterPC /\ k \in UE \cup Turbo /\ pid \in Pid
    /\ rnti \subseteq UE /\ flag \subseteq UE /\ active_UE \subseteq UE
    /\ wait_decoding \subseteq UE /\ complete_pusch \subseteq UE
    /\ demodulated \subseteq UE /\ fed \subseteq UE
    /\ ret \in [UE -> {"zero", "fresh", "stale"}]
    /\ {complete_turbo, complete_pucch, turbo_status} \subseteq BOOLEAN
    /\ mutex \in Turbo \cup {Free}
    /\ tpc \in [Turbo -> TurboPC] /\ flag_wait \in [Turbo -> BOOLEAN]
    /\ go \in [Turbo -> BOOLEAN] /\ harq_pid \in [Turbo -> Pid] /\ tu \in [Turbo -> UE]
    /\ ppc \in PuschPC /\ pu \in UE /\ rx_pid \in Pid
    /\ cpc \in PucchPC /\ cu \in UE

\* init_eNB_proc creates the threads; they park in their own time.
Init ==
    /\ mpc = "idle" /\ k = 0 /\ pid = 0 /\ rnti = {}
    /\ flag = {} /\ active_UE = {} /\ ret = [u \in UE |-> "zero"]
    /\ wait_decoding = {}
    /\ complete_pusch = {} /\ complete_turbo = FALSE /\ complete_pucch = FALSE
    /\ turbo_status = FALSE /\ mutex = Free
    /\ tpc = [t \in Turbo |-> "top"] /\ flag_wait = [t \in Turbo |-> TRUE]
    /\ go = [t \in Turbo |-> FALSE] /\ harq_pid = [t \in Turbo |-> 0]
    /\ tu = [t \in Turbo |-> 0]
    /\ ppc = "top" /\ pu = 0 /\ rx_pid = 0
    /\ cpc = "top" /\ cu = 0
    /\ demodulated = {} /\ fed = {}

\* pthread_cond_signal: a thread that is not parked misses it.
Wake(pc) == IF pc = "wait" THEN "woken" ELSE pc

-----------------------------------------------------------------------------
(* The master. *)

\* The next subframe with uplink is received.  The MAC, in an earlier subframe,
\* or the PHICH has scheduled some of the UEs that are connected; process_Msg3
\* schedules others.
NewSubframe ==
    /\ mpc = "idle"
    /\ pid' = (IF pid = NumPid - 1 THEN 0 ELSE pid + 1)
    /\ \E S \in SUBSET UE : rnti' = S /\ flag' \in SUBSET S
    /\ demodulated' = {} /\ fed' = {}
    /\ mpc' = "reset"
    /\ UNCHANGED <<k, wait_decoding, active_UE, ret, complete_pusch, flagVars,
                   mutex, turboVars, puschVars, pucchVars>>

\* Mutant: complete_pucch is left at 1 by the last subframe.
ResetNotPucch ==
    /\ mpc = "reset"
    /\ complete_turbo' = FALSE /\ turbo_status' = FALSE
    /\ k' = 0 /\ mpc' = "prepare"
    /\ UNCHANGED <<pid, rnti, wait_decoding, tableVars, complete_pucch, mutex,
                   turboVars, puschVars, pucchVars, histVars>>

\* Mutant: turbo_status is left at 0xFFFF by the last subframe.
ResetNotTurbo ==
    /\ mpc = "reset"
    /\ complete_pucch' = FALSE /\ complete_turbo' = FALSE
    /\ k' = 0 /\ mpc' = "prepare"
    /\ UNCHANGED <<pid, rnti, wait_decoding, tableVars, turbo_status, mutex,
                   turboVars, puschVars, pucchVars, histVars>>

\* The flags of the subframe are zeroed.
Reset ==
    /\ mpc = "reset"
    /\ complete_pucch' = FALSE /\ complete_turbo' = FALSE /\ turbo_status' = FALSE
    /\ k' = 0 /\ mpc' = "prepare"
    /\ UNCHANGED <<pid, rnti, wait_decoding, tableVars, mutex, turboVars,
                   puschVars, pucchVars, histVars>>

\* One turn of the loop that fills active_UE.
Prepare ==
    /\ mpc = "prepare"
    /\ active_UE' = (IF k \in rnti \cap flag THEN active_UE \cup {k} ELSE active_UE \ {k})
    /\ ret' = [ret EXCEPT ![k] = "zero"]
    /\ complete_pusch' = complete_pusch \ {k}
    /\ IF k = Last THEN k' = 0 /\ mpc' = "turbo" ELSE k' = k + 1 /\ mpc' = mpc
    /\ UNCHANGED <<pid, rnti, wait_decoding, flag, flagVars, mutex, turboVars,
                   puschVars, pucchVars, histVars>>

SignalTurbo ==
    /\ mpc = "turbo"
    /\ tpc' = [tpc EXCEPT ![k] = Wake(@)]
    /\ IF k = NumTurbo - 1 THEN k' = 0 /\ mpc' = "pucch" ELSE k' = k + 1 /\ mpc' = mpc
    /\ UNCHANGED <<pid, rnti, wait_decoding, tableVars, flagVars, mutex, flag_wait,
                   go, harq_pid, tu, puschVars, pucchVars, histVars>>

SignalPucch ==
    /\ mpc = "pucch"
    /\ cpc' = Wake(cpc)
    /\ mpc' = "pusch"
    /\ UNCHANGED <<k, pid, rnti, wait_decoding, tableVars, flagVars, mutex,
                   turboVars, puschVars, cu, histVars>>

SignalPusch ==
    /\ mpc = "pusch"
    /\ ppc' = Wake(ppc)
    /\ wait_decoding' = UE
    /\ mpc' = "collect"
    /\ UNCHANGED <<k, pid, rnti, tableVars, flagVars, mutex, turboVars, pu, rx_pid,
                   pucchVars, histVars>>

\* The master turns round wait_decoding: a UE without PUSCH is done with.
PassOver ==
    /\ mpc = "collect"
    /\ \E u \in wait_decoding \ active_UE : wait_decoding' = wait_decoding \ {u}
    /\ UNCHANGED <<mpc, k, pid, rnti, tableVars, flagVars, mutex, turboVars,
                   puschVars, pucchVars, histVars>>

\* A decoded UE: its subframe_scheduling_flag is cleared, its transport block
\* acknowledged or not according to ret.
Collect ==
    /\ mpc = "collect" /\ complete_turbo
    /\ \E u \in wait_decoding \cap active_UE :
        /\ wait_decoding' = wait_decoding \ {u}
        /\ flag' = flag \ {u}
        /\ k' = u
    /\ mpc' = "feedback"
    /\ UNCHANGED <<pid, rnti, active_UE, ret, complete_pusch, flagVars, mutex,
                   turboVars, puschVars, pucchVars, histVars>>

\* process_HARQ_feedback with what came on the PUSCH.
PuschFeedback ==
    /\ mpc = "feedback"
    /\ fed' = fed \cup {k}
    /\ mpc' = "collect"
    /\ UNCHANGED <<k, pid, rnti, wait_decoding, tableVars, flagVars, mutex,
                   turboVars, puschVars, pucchVars, demodulated>>

AllCollected ==
    /\ mpc = "collect" /\ wait_decoding = {}
    /\ k' = 0 /\ mpc' = "await"
    /\ UNCHANGED <<pid, rnti, wait_decoding, tableVars, flagVars, mutex,
                   turboVars, puschVars, pucchVars, histVars>>

\* Mutant: complete_pucch is not waited for.
AwaitNoPucch ==
    /\ mpc = "await"
    /\ mpc' = "idle"
    /\ UNCHANGED <<k, pid, rnti, wait_decoding, tableVars, flagVars, mutex, turboVars,
                   puschVars, pucchVars, histVars>>

\* while (eNB->complete_pucch != 1);
AwaitPucch ==
    /\ mpc = "await" /\ complete_pucch
    /\ mpc' = "idle"
    /\ UNCHANGED <<k, pid, rnti, wait_decoding, tableVars, flagVars, mutex,
                   turboVars, puschVars, pucchVars, histVars>>

\* Both waits are busy loops.
Spin ==
    /\ \/ mpc = "collect" /\ wait_decoding # {} /\ wait_decoding \subseteq active_UE
          /\ ~complete_turbo
       \/ mpc = "await" /\ ~complete_pucch
    /\ UNCHANGED vars

Master == NewSubframe \/ Reset \/ Prepare \/ SignalTurbo \/ SignalPucch \/ SignalPusch
          \/ PassOver \/ Collect \/ PuschFeedback \/ AllCollected \/ AwaitPucch \/ Spin

-----------------------------------------------------------------------------
(* Turbo thread t. *)

TurboGoto(t, from, to) == tpc[t] = from /\ tpc' = [tpc EXCEPT ![t] = to]

\* The head of the loop.
TurboTop(t) ==
    /\ TurboGoto(t, "top", IF flag_wait[t] THEN "wait"
                           ELSE IF go[t] THEN "decode" ELSE "lock")
    /\ UNCHANGED <<masterVars, tableVars, flagVars, mutex, flag_wait, go, harq_pid, tu,
                   puschVars, pucchVars, histVars>>

\* pthread_cond_wait returns: "Update parameters".
TurboEnter(t) ==
    /\ TurboGoto(t, "woken", "lock")
    /\ flag_wait' = [flag_wait EXCEPT ![t] = FALSE]
    /\ go' = [go EXCEPT ![t] = FALSE]
    /\ harq_pid' = [harq_pid EXCEPT ![t] = pid]
    /\ UNCHANGED <<masterVars, tableVars, flagVars, mutex, tu, puschVars, pucchVars,
                   histVars>>

\* ulsch_decoding and td of UE tu, if it is active.
Decode(t) ==
    /\ TurboGoto(t, "decode", IF tu[t] = Last THEN "publish" ELSE "decode")
    /\ IF tu[t] \in active_UE
       THEN ret' = [ret EXCEPT ![tu[t]] = IF tu[t] \in demodulated /\ harq_pid[t] = pid
                                          THEN "fresh" ELSE "stale"]
       ELSE UNCHANGED ret
    /\ tu' = [tu EXCEPT ![t] = IF @ = Last THEN 0 ELSE @ + 1]
    /\ UNCHANGED <<masterVars, flag, active_UE, complete_pusch, flagVars, mutex,
                   flag_wait, go, harq_pid, puschVars, pucchVars, histVars>>

\* complete_turbo = 0xFFFF
PublishDecoded(t) ==
    /\ TurboGoto(t, "publish", "lock")
    /\ complete_turbo' = TRUE
    /\ UNCHANGED <<masterVars, tableVars, complete_pucch, turbo_status, mutex, flag_wait,
                   go, harq_pid, tu, puschVars, pucchVars, histVars>>

\* The mutex is taken; a thread that finds the subframe claimed will park.
TurboLock(t) ==
    /\ mutex = Free /\ mutex' = t
    /\ TurboGoto(t, "lock", IF turbo_status THEN "unlock" ELSE "scan")
    /\ go' = [go EXCEPT ![t] = FALSE]
    /\ flag_wait' = [flag_wait EXCEPT ![t] = @ \/ turbo_status]
    /\ UNCHANGED <<masterVars, tableVars, flagVars, harq_pid, tu, puschVars, pucchVars,
                   histVars>>

\* Mutant: turbo_status is not set by the claim.
ScanNoClaim(t) ==
    /\ tpc[t] = "scan"
    /\ IF tu[t] \in active_UE \ complete_pusch
       THEN TurboGoto(t, "scan", "unlock") /\ UNCHANGED <<tu, turbo_status, go>>
       ELSE IF tu[t] # Last
       THEN tu' = [tu EXCEPT ![t] = @ + 1] /\ UNCHANGED <<tpc, turbo_status, go>>
       ELSE /\ TurboGoto(t, "scan", "unlock")
            /\ go' = [go EXCEPT ![t] = TRUE]
            /\ UNCHANGED <<tu, turbo_status>>
    /\ UNCHANGED <<masterVars, tableVars, complete_turbo, complete_pucch, mutex,
                   flag_wait, harq_pid, puschVars, pucchVars, histVars>>

\* One turn of the loop over active_UE.  A UE not yet demodulated settles it;
\* after the last one the thread claims the subframe.
Scan(t) ==
    /\ tpc[t] = "scan"
    /\ IF tu[t] \in active_UE \ complete_pusch
       THEN TurboGoto(t, "scan", "unlock") /\ UNCHANGED <<tu, turbo_status, go>>
       ELSE IF tu[t] # Last
       THEN tu' = [tu EXCEPT ![t] = @ + 1] /\ UNCHANGED <<tpc, turbo_status, go>>
       ELSE /\ TurboGoto(t, "scan", "unlock")
            /\ turbo_status' = TRUE /\ go' = [go EXCEPT ![t] = TRUE]
            /\ UNCHANGED tu
    /\ UNCHANGED <<masterVars, tableVars, complete_turbo, complete_pucch, mutex,
                   flag_wait, harq_pid, puschVars, pucchVars, histVars>>

TurboUnlock(t) ==
    /\ TurboGoto(t, "unlock", "top")
    /\ mutex' = Free
    /\ tu' = [tu EXCEPT ![t] = 0]
    /\ UNCHANGED <<masterVars, tableVars, flagVars, flag_wait, go, harq_pid, puschVars,
                   pucchVars, histVars>>

TurboStep(t) == TurboTop(t) \/ TurboEnter(t) \/ Decode(t) \/ PublishDecoded(t)
                \/ TurboLock(t) \/ Scan(t) \/ TurboUnlock(t)

-----------------------------------------------------------------------------
(* The PUSCH thread. *)

PuschGoto(from, to) == ppc = from /\ ppc' = to

PuschPark ==
    /\ PuschGoto("top", "wait")
    /\ UNCHANGED <<masterVars, tableVars, flagVars, mutex, turboVars, pu, rx_pid,
                   pucchVars, histVars>>

PuschEnter ==
    /\ PuschGoto("woken", "test")
    /\ pu' = 0
    /\ UNCHANGED <<masterVars, tableVars, flagVars, mutex, turboVars, rx_pid, pucchVars,
                   histVars>>

NextPusch(from) ==
    /\ PuschGoto(from, IF pu = Last THEN "top" ELSE "test")
    /\ pu' = (IF pu = Last THEN 0 ELSE pu + 1)

SkipPusch ==
    /\ pu \notin active_UE
    /\ NextPusch("test")
    /\ UNCHANGED <<masterVars, tableVars, flagVars, mutex, turboVars, rx_pid, pucchVars,
                   histVars>>

\* Mutant: complete_pusch is set before rx_ulsch.
StartRxFlagged ==
    /\ pu \in active_UE
    /\ PuschGoto("test", "rx")
    /\ rx_pid' = pid
    /\ complete_pusch' = complete_pusch \cup {pu}
    /\ UNCHANGED <<masterVars, flag, active_UE, ret, flagVars, mutex, turboVars, pu,
                   pucchVars, histVars>>

\* rx_ulsch reads the subframe itself.
StartRx ==
    /\ pu \in active_UE
    /\ PuschGoto("test", "rx")
    /\ rx_pid' = pid
    /\ UNCHANGED <<masterVars, tableVars, flagVars, mutex, turboVars, pu, pucchVars,
                   histVars>>

\* rx_ulsch returns; complete_pusch[i] = 1.
EndRx ==
    /\ NextPusch("rx")
    /\ demodulated' = (IF rx_pid = pid THEN demodulated \cup {pu} ELSE demodulated)
    /\ rx_pid' = 0
    /\ complete_pusch' = complete_pusch \cup {pu}
    /\ UNCHANGED <<masterVars, flag, active_UE, ret, flagVars, mutex, turboVars, pucchVars,
                   fed>>

Pusch == PuschPark \/ PuschEnter \/ SkipPusch \/ StartRx \/ EndRx

-----------------------------------------------------------------------------
(* The PUCCH thread. *)

PucchGoto(from, to) == cpc = from /\ cpc' = to

PucchPark ==
    /\ PucchGoto("top", "wait")
    /\ UNCHANGED <<masterVars, tableVars, flagVars, mutex, turboVars, puschVars, cu,
                   histVars>>

PucchEnter ==
    /\ PucchGoto("woken", "guard")
    /\ cu' = 0
    /\ UNCHANGED <<masterVars, tableVars, flagVars, mutex, turboVars, puschVars, histVars>>

NextPucch(from) ==
    /\ PucchGoto(from, IF cu = Last THEN "done" ELSE "guard")
    /\ cu' = (IF cu = Last THEN 0 ELSE cu + 1)

\* A UE that is not connected or sends a PUSCH is passed over.
SkipPucch ==
    /\ cu \notin rnti \/ cu \in flag
    /\ NextPucch("guard")
    /\ UNCHANGED <<masterVars, tableVars, flagVars, mutex, turboVars, puschVars, histVars>>

DetectPucch ==
    /\ cu \in rnti \ flag
    /\ PucchGoto("guard", "feedback")
    /\ UNCHANGED <<masterVars, tableVars, flagVars, mutex, turboVars, puschVars, cu,
                   histVars>>

\* process_HARQ_feedback with what came on the PUCCH.
PucchFeedback ==
    /\ NextPucch("feedback")
    /\ fed' = fed \cup {cu}
    /\ UNCHANGED <<masterVars, tableVars, flagVars, mutex, turboVars, puschVars,
                   demodulated>>

PucchDone ==
    /\ PucchGoto("done", "top")
    /\ complete_pucch' = TRUE
    /\ UNCHANGED <<masterVars, tableVars, complete_turbo, turbo_status, mutex, turboVars,
                   puschVars, cu, histVars>>

Pucch == PucchPark \/ PucchEnter \/ SkipPucch \/ DetectPucch \/ PucchFeedback \/ PucchDone

Next == Master \/ Pusch \/ Pucch \/ \E t \in Turbo : TurboStep(t)

Spec == Init /\ [][Next]_vars

-----------------------------------------------------------------------------
(* Pacing. *)

Parked == ppc = "wait" /\ cpc = "wait" /\ \A t \in Turbo : tpc[t] = "wait"

\* The real-time assumption: while the master builds the downlink and blocks in
\* trx_read for a subframe of samples, the uplink threads park.
Pacing == NewSubframe => Parked

-----------------------------------------------------------------------------
(* What the uplink must do. *)

\* When the master has gone through a subframe, the HARQ feedback of every
\* connected UE has been processed, by the PUCCH thread or with its PUSCH: a
\* transmission whose ACK nobody looked for would stay in its process for ever.
FeedbackNotMissed == mpc = "idle" => rnti \subseteq fed

\* Between two subframes nobody is inside process_HARQ_feedback: the downlink
\* the master builds then reads the rounds the feedback has settled.
FeedbackQuiet == mpc \in {"idle", "reset", "prepare", "turbo"} =>
                     cpc \in {"top", "wait", "done"}

\* Turbo thread t is inside td.
Decoding(t) == tpc[t] \in {"decode", "publish"}
=============================================================================
