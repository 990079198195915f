---------------------------- MODULE UplinkRxProofs ----------------------------
(***************************************************************************)
(* No HARQ feedback of a connected UE is missed, nor still being processed   *)
(* when the downlink is built: proofs about UplinkRx for any number of UEs,  *)
(* turbo threads and HARQ processes, at any speed of the threads.           *)
(*                                                                         *)
(* Who processes a UE's feedback is decided by subframe_scheduling_flag,     *)
(* which the master clears in between.  Until the subframe is over each UE   *)
(* is therefore in one of five hands (Due), and complete_pucch closes all    *)
(* of them but the master's own.                                            *)
(***************************************************************************)
EXTENDS MCUplinkRx, TLAPS

\* The phases of the master before and after the PUCCH thread is signalled.
Before == {"idle", "reset", "prepare", "turbo", "pucch"}
After  == {"pusch", "collect", "feedback", "await"}

TypeInv ==
    /\ mpc \in MasterPC
    /\ k \in Nat /\ (mpc = "prepare" => k \in UE)
    /\ rnti \subseteq UE /\ flag \subseteq UE /\ wait_decoding \subseteq UE
    /\ cpc \in PucchPC /\ cu \in UE

\* complete_pucch means that the PUCCH thread is through with this subframe, and
\* it is only signalled once the flag is reset.
Signalled ==
    /\ mpc \in Before \/ complete_pucch => cpc \in {"top", "wait"}
    /\ mpc \in {"prepare", "turbo", "pucch"} => ~complete_pucch

\* A UE with a PUSCH is one the master still has to collect.
Collected ==
    /\ mpc = "prepare" => \A u \in rnti \cap flag : u < k => u \in active_UE
    /\ mpc \in {"turbo", "pucch", "pusch"} => rnti \cap flag \subseteq active_UE
    /\ mpc \in {"collect", "feedback", "await"} =>
           rnti \cap flag \subseteq active_UE \cap wait_decoding
    /\ mpc = "await" => wait_decoding = {}

\* Feedback still to come, and from whom.
Due(u) ==
    \/ u \in flag                                            \* with the PUSCH
    \/ mpc = "feedback" /\ k = u                             \* being collected
    \/ cpc \in {"top", "wait"} /\ ~complete_pucch            \* a missed signal
    \/ cpc = "woken"                                         \* the PUCCH thread
    \/ cpc \in {"guard", "feedback"} /\ cu <= u

NoneMissed ==
    /\ mpc \in After => \A u \in rnti : u \in fed \/ Due(u)
    /\ mpc = "idle" => rnti \subseteq fed

IInv == TypeInv /\ Signalled /\ Collected /\ NoneMissed
-----------------------------------------------------------------------------
LEMMA Sizes ==
  /\ NumUE \in Nat \ {0} /\ NumTurbo \in Nat \ {0}
  /\ 0 \in UE /\ Last \in UE /\ UE \subseteq Nat
  /\ \A u \in UE : u <= Last /\ (u # Last => u + 1 \in UE)
  BY UplinkAssumption DEF UE, Last

LEMMA InitEstablishes == Init => IInv
  BY Sizes DEF Init, IInv, TypeInv, Signalled, Collected, NoneMissed, Before, After, MasterPC,
               PucchPC

\* The master.
LEMMA MasterKeeps ==
  ASSUME IInv, Master
  PROVE  IInv'
  <1> USE Sizes DEF Before, After, MasterPC, PucchPC, masterVars, tableVars, flagVars,
                    turboVars, puschVars, pucchVars, histVars, Wake
  <1>1. CASE NewSubframe
    <2>1. TypeInv'
      BY <1>1 DEF NewSubframe, IInv, TypeInv
    <2>2. Signalled'
      BY <1>1 DEF NewSubframe, IInv, TypeInv, Signalled
    <2>3. Collected'
      BY <1>1 DEF NewSubframe, IInv, TypeInv, Collected
    <2>4. NoneMissed'
      BY <1>1 DEF NewSubframe, IInv, TypeInv, Signalled, Collected, NoneMissed, Due
    <2>5. QED
      BY <2>1, <2>2, <2>3, <2>4 DEF IInv
  <1>2. CASE Reset
    <2>1. TypeInv'
      BY <1>2 DEF Reset, IInv, TypeInv
    <2>2. Signalled'
      BY <1>2 DEF Reset, IInv, TypeInv, Signalled
    <2>3. Collected'
      BY <1>2 DEF Reset, IInv, TypeInv, Collected
    <2>4. NoneMissed'
      BY <1>2 DEF Reset, IInv, TypeInv, Signalled, Collected, NoneMissed, Due
    <2>5. QED
      BY <2>1, <2>2, <2>3, <2>4 DEF IInv
  <1>3. CASE Prepare
    <2>1. TypeInv'
      BY <1>3 DEF Prepare, IInv, TypeInv
    <2>2. Signalled'
      BY <1>3 DEF Prepare, IInv, TypeInv, Signalled
    <2>3. Collected'
      BY <1>3 DEF Prepare, IInv, TypeInv, Collected
    <2>4. NoneMissed'
      BY <1>3 DEF Prepare, IInv, TypeInv, Signalled, Collected, NoneMissed, Due
    <2>5. QED
      BY <2>1, <2>2, <2>3, <2>4 DEF IInv
  <1>4. CASE SignalTurbo
    <2>1. TypeInv'
      BY <1>4 DEF SignalTurbo, IInv, TypeInv
    <2>2. Signalled'
      BY <1>4 DEF SignalTurbo, IInv, TypeInv, Signalled
    <2>3. Collected'
      BY <1>4 DEF SignalTurbo, IInv, TypeInv, Collected
    <2>4. NoneMissed'
      BY <1>4 DEF SignalTurbo, IInv, TypeInv, Signalled, Collected, NoneMissed, Due
    <2>5. QED
      BY <2>1, <2>2, <2>3, <2>4 DEF IInv
  <1>5. CASE SignalPucch
    <2>1. TypeInv'
      BY <1>5 DEF SignalPucch, IInv, TypeInv
    <2>2. Signalled'
      BY <1>5 DEF SignalPucch, IInv, TypeInv, Signalled
    <2>3. Collected'
      BY <1>5 DEF SignalPucch, IInv, TypeInv, Collected
    <2>4. NoneMissed'
      BY <1>5 DEF SignalPucch, IInv, TypeInv, Signalled, Collected, NoneMissed, Due
    <2>5. QED
      BY <2>1, <2>2, <2>3, <2>4 DEF IInv
  <1>6. CASE SignalPusch
    <2>1. TypeInv'
      BY <1>6 DEF SignalPusch, IInv, TypeInv
    <2>2. Signalled'
      BY <1>6 DEF SignalPusch, IInv, TypeInv, Signalled
    <2>3. Collected'
      BY <1>6 DEF SignalPusch, IInv, TypeInv, Collected
    <2>4. NoneMissed'
      BY <1>6 DEF SignalPusch, IInv, TypeInv, Signalled, Collected, NoneMissed, Due
    <2>5. QED
      BY <2>1, <2>2, <2>3, <2>4 DEF IInv
  <1>7. CASE PassOver
    <2>1. TypeInv'
      BY <1>7 DEF PassOver, IInv, TypeInv
    <2>2. Signalled'
      BY <1>7 DEF PassOver, IInv, TypeInv, Signalled
    <2>3. Collected'
      BY <1>7 DEF PassOver, IInv, TypeInv, Collected
    <2>4. NoneMissed'
      BY <1>7 DEF PassOver, IInv, TypeInv, Signalled, Collected, NoneMissed, Due
    <2>5. QED
      BY <2>1, <2>2, <2>3, <2>4 DEF IInv
  <1>8. CASE Collect
    <2>1. TypeInv'
      BY <1>8 DEF Collect, IInv, TypeInv
    <2>2. Signalled'
      BY <1>8 DEF Collect, IInv, TypeInv, Signalled
    <2>3. Collected'
      BY <1>8 DEF Collect, IInv, TypeInv, Collected
    <2>4. NoneMissed'
      BY <1>8 DEF Collect, IInv, TypeInv, Signalled, Collected, NoneMissed, Due
    <2>5. QED
      BY <2>1, <2>2, <2>3, <2>4 DEF IInv
  <1>9. CASE PuschFeedback
    <2>1. TypeInv'
      BY <1>9 DEF PuschFeedback, IInv, TypeInv
    <2>2. Signalled'
      BY <1>9 DEF PuschFeedback, IInv, TypeInv, Signalled
    <2>3. Collected'
      BY <1>9 DEF PuschFeedback, IInv, TypeInv, Collected
    <2>4. NoneMissed'
      BY <1>9 DEF PuschFeedback, IInv, TypeInv, Signalled, Collected, NoneMissed, Due
    <2>5. QED
      BY <2>1, <2>2, <2>3, <2>4 DEF IInv
  <1>10. CASE AllCollected
    <2>1. TypeInv'
      BY <1>10 DEF AllCollected, IInv, TypeInv
    <2>2. Signalled'
      BY <1>10 DEF AllCollected, IInv, TypeInv, Signalled
    <2>3. Collected'
      BY <1>10 DEF AllCollected, IInv, TypeInv, Collected
    <2>4. NoneMissed'
      BY <1>10 DEF AllCollected, IInv, TypeInv, Signalled, Collected, NoneMissed, Due
    <2>5. QED
      BY <2>1, <2>2, <2>3, <2>4 DEF IInv
  <1>11. CASE AwaitPucch
    <2>1. TypeInv'
      BY <1>11 DEF AwaitPucch, IInv, TypeInv
    <2>2. Signalled'
      BY <1>11 DEF AwaitPucch, IInv, TypeInv, Signalled
    <2>3. Collected'
      BY <1>11 DEF AwaitPucch, IInv, TypeInv, Collected
    <2>4. NoneMissed'
      BY <1>11 DEF AwaitPucch, IInv, TypeInv, Signalled, Collected, NoneMissed, Due
    <2>5. QED
      BY <2>1, <2>2, <2>3, <2>4 DEF IInv
  <1>12. CASE Spin
    <2>1. TypeInv'
      BY <1>12 DEF Spin, vars, IInv, TypeInv
    <2>2. Signalled'
      BY <1>12 DEF Spin, vars, IInv, TypeInv, Signalled
    <2>3. Collected'
      BY <1>12 DEF Spin, vars, IInv, TypeInv, Collected
    <2>4. NoneMissed'
      BY <1>12 DEF Spin, vars, IInv, TypeInv, Signalled, Collected, NoneMissed, Due
    <2>5. QED
      BY <2>1, <2>2, <2>3, <2>4 DEF IInv
  <1>13. QED
    BY <1>1, <1>2, <1>3, <1>4, <1>5, <1>6, <1>7, <1>8, <1>9, <1>10, <1>11, <1>12 DEF Master

\* The PUCCH thread.
LEMMA PucchKeeps ==
  ASSUME IInv, Pucch
  PROVE  IInv'
  <1> USE Sizes DEF Before, After, MasterPC, PucchPC, masterVars, tableVars, flagVars,
                    turboVars, puschVars, pucchVars, histVars, PucchGoto,
                    NextPucch
  <1>1. CASE PucchPark
    <2>1. TypeInv'
      BY <1>1 DEF PucchPark, IInv, TypeInv
    <2>2. Signalled'
      BY <1>1 DEF PucchPark, IInv, TypeInv, Signalled
    <2>3. Collected'
      BY <1>1 DEF PucchPark, IInv, TypeInv, Collected
    <2>4. NoneMissed'
      BY <1>1 DEF PucchPark, IInv, TypeInv, Signalled, Collected, NoneMissed, Due
    <2>5. QED
      BY <2>1, <2>2, <2>3, <2>4 DEF IInv
  <1>2. CASE PucchEnter
    <2>1. TypeInv'
      BY <1>2 DEF PucchEnter, IInv, TypeInv
    <2>2. Signalled'
      BY <1>2 DEF PucchEnter, IInv, TypeInv, Signalled
    <2>3. Collected'
      BY <1>2 DEF PucchEnter, IInv, TypeInv, Collected
    <2>4. NoneMissed'
      BY <1>2 DEF PucchEnter, IInv, TypeInv, Signalled, Collected, NoneMissed, Due
    <2>5. QED
      BY <2>1, <2>2, <2>3, <2>4 DEF IInv
  <1>3. CASE SkipPucch
    <2>1. TypeInv'
      BY <1>3 DEF SkipPucch, IInv, TypeInv
    <2>2. Signalled'
      BY <1>3 DEF SkipPucch, IInv, TypeInv, Signalled
    <2>3. Collected'
      BY <1>3 DEF SkipPucch, IInv, TypeInv, Collected
    <2>4. NoneMissed'
      BY <1>3 DEF SkipPucch, IInv, TypeInv, Signalled, Collected, NoneMissed, Due
    <2>5. QED
      BY <2>1, <2>2, <2>3, <2>4 DEF IInv
  <1>4. CASE DetectPucch
    <2>1. TypeInv'
      BY <1>4 DEF DetectPucch, IInv, TypeInv
    <2>2. Signalled'
      BY <1>4 DEF DetectPucch, IInv, TypeInv, Signalled
    <2>3. Collected'
      BY <1>4 DEF DetectPucch, IInv, TypeInv, Collected
    <2>4. NoneMissed'
      BY <1>4 DEF DetectPucch, IInv, TypeInv, Signalled, Collected, NoneMissed, Due
    <2>5. QED
      BY <2>1, <2>2, <2>3, <2>4 DEF IInv
  <1>5. CASE PucchFeedback
    <2>1. TypeInv'
      BY <1>5 DEF PucchFeedback, IInv, TypeInv
    <2>2. Signalled'
      BY <1>5 DEF PucchFeedback, IInv, TypeInv, Signalled
    <2>3. Collected'
      BY <1>5 DEF PucchFeedback, IInv, TypeInv, Collected
    <2>4. NoneMissed'
      BY <1>5 DEF PucchFeedback, IInv, TypeInv, Signalled, Collected, NoneMissed, Due
    <2>5. QED
      BY <2>1, <2>2, <2>3, <2>4 DEF IInv
  <1>6. CASE PucchDone
    <2>1. TypeInv'
      BY <1>6 DEF PucchDone, IInv, TypeInv
    <2>2. Signalled'
      BY <1>6 DEF PucchDone, IInv, TypeInv, Signalled
    <2>3. Collected'
      BY <1>6 DEF PucchDone, IInv, TypeInv, Collected
    <2>4. NoneMissed'
      BY <1>6 DEF PucchDone, IInv, TypeInv, Signalled, Collected, NoneMissed, Due
    <2>5. QED
      BY <2>1, <2>2, <2>3, <2>4 DEF IInv
  <1>7. QED
    BY <1>1, <1>2, <1>3, <1>4, <1>5, <1>6 DEF Pucch

\* The PUSCH and turbo threads write nothing of this.
LEMMA OthersKeep ==
  ASSUME IInv, Pusch \/ \E t \in Turbo : TurboStep(t)
  PROVE  IInv'
  <1>1. UNCHANGED <<mpc, k, rnti, flag, active_UE, wait_decoding, complete_pucch, cpc, cu, fed>>
    BY DEF Pusch, PuschPark, PuschEnter, SkipPusch, StartRx, EndRx, TurboStep, TurboTop,
           TurboEnter, Decode, PublishDecoded, TurboLock, Scan, TurboUnlock, masterVars,
           tableVars, flagVars, pucchVars, histVars
  <1>2. QED
    BY <1>1 DEF IInv, TypeInv, Signalled, Collected, NoneMissed, Due

\* The inductive invariant.
THEOREM Invariance == Spec => []IInv
  <1>1. Init => IInv
    BY InitEstablishes
  <1>2. IInv /\ [Next]_vars => IInv'
    <2> SUFFICES ASSUME IInv, [Next]_vars PROVE IInv'
      OBVIOUS
    <2>1. CASE UNCHANGED vars
      BY <2>1 DEF vars, masterVars, tableVars, flagVars, pucchVars, histVars, IInv, TypeInv,
                  Signalled, Collected, NoneMissed, Due
    <2>2. QED
      BY <2>1, MasterKeeps, PucchKeeps, OthersKeep DEF Next
  <1>3. QED
    BY <1>1, <1>2, PTL DEF Spec

\* When the master has gone through a subframe the feedback of every connected UE
\* has been processed (pucch_procedures, phy_procedures_eNB_uespec_RX).
THEOREM NoFeedbackMissed == Spec => []FeedbackNotMissed
  <1>1. IInv => FeedbackNotMissed
    BY DEF IInv, NoneMissed, FeedbackNotMissed
  <1>2. QED
    BY <1>1, Invariance, PTL

\* The PUCCH thread is out of process_HARQ_feedback when the downlink is built.
THEOREM QuietBetweenSubframes == Spec => []FeedbackQuiet
  <1>1. IInv => FeedbackQuiet
    BY DEF IInv, Signalled, Before, FeedbackQuiet
  <1>2. QED
    BY <1>1, Invariance, PTL
-----------------------------------------------------------------------------
(* What Pacing adds: one decoder, and results of this subframe.  The master's  *)
(* resets race with no thread (Prepared); so turbo_status, set under the mutex *)
(* only, picks one claimer (Claims), who finds every active UE demodulated     *)
(* with the samples of this subframe (Demodulated) and sets complete_turbo     *)
(* when it has decoded them all (Decoded).                                     *)

Types ==
    /\ TypeOK
    /\ mpc \in {"prepare", "feedback"} => k \in UE
    /\ mpc = "turbo" => k \in Turbo

\* The claimer of the subframe: it has set turbo_status and not yet decoded.
Claimed(t) == Decoding(t) \/ (tpc[t] \in {"unlock", "top"} /\ go[t])

\* A subframe starts with the threads parked.
Prepared ==
    mpc \in {"reset", "prepare"} => ppc = "wait" /\ \A t \in Turbo : tpc[t] = "wait"

\* What each place of turbo_proc knows of its locals.
Locals(t) ==
    /\ tpc[t] \in {"scan", "unlock"} <=> mutex = t
    /\ tpc[t] = "scan" => ~turbo_status /\ ~go[t]
    /\ tpc[t] \in {"lock", "scan", "decode", "publish"} \/ Claimed(t) => ~flag_wait[t]
    /\ tpc[t] \notin {"wait", "woken"} /\ ~flag_wait[t] => harq_pid[t] = pid
    /\ tpc[t] \notin {"scan", "unlock", "decode"} => tu[t] = 0

Claims ==
    /\ \A t \in Turbo : Claimed(t) => turbo_status /\ active_UE \subseteq complete_pusch
    /\ \A s, t \in Turbo : Claimed(s) /\ Claimed(t) => s = t
    /\ \A t \in Turbo : tpc[t] = "scan" =>
          \A u \in active_UE : u < tu[t] => u \in complete_pusch

\* complete_pusch means that rx_ulsch of this subframe is over.
Demodulated ==
    /\ ppc = "rx" => rx_pid = pid
    /\ mpc = "prepare" => \A u \in complete_pusch : u >= k
    /\ mpc \notin {"reset", "prepare"} => complete_pusch \subseteq demodulated

\* complete_turbo means that every active UE is decoded.
Decoded ==
    /\ mpc = "prepare" => ~complete_turbo
    /\ mpc \notin {"reset", "prepare"} /\ complete_turbo => \A u \in active_UE : ret[u] = "fresh"
    /\ \A t \in Turbo :
         /\ tpc[t] = "decode" => \A u \in active_UE : u < tu[t] => ret[u] = "fresh"
         /\ tpc[t] = "publish" => \A u \in active_UE : ret[u] = "fresh"

UpInv == Types /\ Prepared /\ (\A t \in Turbo : Locals(t)) /\ Claims /\ Demodulated /\ Decoded

PacedInv == paced => UpInv

LEMMA Ranges ==
  /\ 0 \in Turbo /\ 0 \in Pid /\ NumTurbo - 1 \in Turbo /\ Turbo \subseteq Nat
  /\ \A t \in Turbo : t # NumTurbo - 1 => t + 1 \in Turbo
  /\ Free \notin Turbo
  /\ \A p \in Pid : p # NumPid - 1 => p + 1 \in Pid
  BY UplinkAssumption DEF Turbo, Pid, Free

LEMMA InitTypes == Init => Types
  BY Sizes, Ranges DEF Init, Types, TypeOK, MasterPC, TurboPC, PuschPC, PucchPC

LEMMA MasterTypes ==
  ASSUME Types, Master
  PROVE  Types'
  <1> USE Sizes, Ranges DEF Types, TypeOK, MasterPC, masterVars, tableVars, flagVars,
          turboVars, puschVars, pucchVars, histVars
  <1>1. CASE NewSubframe
    BY <1>1 DEF NewSubframe
  <1>2. CASE Reset
    BY <1>2 DEF Reset
  <1>3. CASE Prepare
    BY <1>3 DEF Prepare
  <1>4. CASE SignalTurbo
    BY <1>4 DEF SignalTurbo, Wake, TurboPC
  <1>5. CASE SignalPucch
    BY <1>5 DEF SignalPucch, Wake, PucchPC
  <1>6. CASE SignalPusch
    BY <1>6 DEF SignalPusch, Wake, PuschPC
  <1>7. CASE PassOver
    BY <1>7 DEF PassOver
  <1>8. CASE Collect
    BY <1>8 DEF Collect
  <1>9. CASE PuschFeedback
    BY <1>9 DEF PuschFeedback
  <1>10. CASE AllCollected
    BY <1>10 DEF AllCollected
  <1>11. CASE AwaitPucch
    BY <1>11 DEF AwaitPucch
  <1>12. CASE Spin
    BY <1>12 DEF Spin, vars
  <1>13. QED
    BY <1>1, <1>2, <1>3, <1>4, <1>5, <1>6, <1>7, <1>8, <1>9, <1>10, <1>11, <1>12 DEF Master

\* The three ways a turn of the loop over active_UE ends.
LEMMA ScanCases ==
  ASSUME NEW t \in Turbo, Scan(t)
  PROVE  /\ tpc[t] = "scan"
         /\ \/ /\ tu[t] \in active_UE \ complete_pusch
               /\ tpc' = [tpc EXCEPT ![t] = "unlock"] /\ UNCHANGED <<tu, turbo_status, go>>
            \/ /\ tu[t] \notin active_UE \ complete_pusch /\ tu[t] # Last
               /\ tu' = [tu EXCEPT ![t] = tu[t] + 1] /\ UNCHANGED <<tpc, turbo_status, go>>
            \/ /\ tu[t] \notin active_UE \ complete_pusch /\ tu[t] = Last
               /\ tpc' = [tpc EXCEPT ![t] = "unlock"]
               /\ turbo_status' = TRUE /\ go' = [go EXCEPT ![t] = TRUE] /\ UNCHANGED tu
  <1>1. CASE tu[t] \in active_UE \ complete_pusch
    BY <1>1 DEF Scan, TurboGoto
  <1>2. CASE tu[t] \notin active_UE \ complete_pusch /\ tu[t] # Last
    BY <1>2 DEF Scan
  <1>3. CASE tu[t] \notin active_UE \ complete_pusch /\ tu[t] = Last
    BY <1>3 DEF Scan, TurboGoto
  <1>4. QED
    BY <1>1, <1>2, <1>3

LEMMA TurboTypes ==
  ASSUME Types, NEW t \in Turbo, TurboStep(t)
  PROVE  Types'
  <1> USE Sizes, Ranges DEF Types, TypeOK, TurboPC, masterVars, tableVars, flagVars,
          turboVars, puschVars, pucchVars, histVars, TurboGoto
  <1>1. CASE TurboTop(t)
    BY <1>1 DEF TurboTop
  <1>2. CASE TurboEnter(t)
    BY <1>2 DEF TurboEnter
  <1>3. CASE Decode(t)
    <2>1. /\ ret' \in [UE -> {"zero", "fresh", "stale"}]
          /\ tu' \in [Turbo -> UE] /\ tpc' \in [Turbo -> TurboPC]
      BY <1>3 DEF Decode
    <2>2. QED
      BY <1>3, <2>1 DEF Decode
  <1>4. CASE PublishDecoded(t)
    BY <1>4 DEF PublishDecoded
  <1>5. CASE TurboLock(t)
    BY <1>5 DEF TurboLock
  <1>6. CASE Scan(t)
    <2>1. tu[t] \in UE /\ (tu[t] # Last => tu[t] + 1 \in UE)
      OBVIOUS
    <2>2. tu' \in [Turbo -> UE]
      <3>1. tu' = tu \/ (tu' = [tu EXCEPT ![t] = tu[t] + 1] /\ tu[t] # Last)
        BY <1>6, ScanCases
      <3>2. QED
        BY <2>1, <3>1
    <2>3. tpc' \in [Turbo -> TurboPC] /\ go' \in [Turbo -> BOOLEAN] /\ turbo_status' \in BOOLEAN
      BY <1>6, ScanCases
    <2>4. QED
      BY <1>6, <2>2, <2>3 DEF Scan
  <1>7. CASE TurboUnlock(t)
    BY <1>7 DEF TurboUnlock
  <1>8. QED
    BY <1>1, <1>2, <1>3, <1>4, <1>5, <1>6, <1>7 DEF TurboStep

LEMMA PuschTypes ==
  ASSUME Types, Pusch \/ Pucch
  PROVE  Types'
  <1> USE Sizes, Ranges DEF Types, TypeOK, PuschPC, PucchPC, masterVars, tableVars, flagVars,
          turboVars, puschVars, pucchVars, histVars
  <1>1. CASE PuschPark \/ PuschEnter \/ SkipPusch \/ StartRx \/ EndRx
    BY <1>1 DEF PuschPark, PuschEnter, SkipPusch, StartRx, EndRx, PuschGoto, NextPusch
  <1>2. CASE PucchPark \/ PucchEnter \/ SkipPucch \/ DetectPucch \/ PucchFeedback \/ PucchDone
    BY <1>2 DEF PucchPark, PucchEnter, SkipPucch, DetectPucch, PucchFeedback, PucchDone,
                PucchGoto, NextPucch
  <1>3. QED
    BY <1>1, <1>2 DEF Pusch, Pucch

LEMMA TypesKeep ==
  ASSUME Types, [Next]_vars
  PROVE  Types'
  <1>1. CASE UNCHANGED vars
    BY <1>1 DEF vars, masterVars, tableVars, flagVars, turboVars, puschVars, pucchVars,
                histVars, Types, TypeOK
  <1>2. QED
    BY <1>1, MasterTypes, TurboTypes, PuschTypes DEF Next

\* Every variable keeps its type, at any speed of the threads.
THEOREM TypeCorrect == Spec => []TypeOK
  <1>1. Types => TypeOK
    BY DEF Types
  <1>2. QED
    BY <1>1, InitTypes, TypesKeep, PTL DEF Spec

LEMMA UpBegins == Init => UpInv
  BY InitTypes, Sizes, Ranges DEF Init, UpInv, Prepared, Locals, Claims, Claimed, Decoding,
     Demodulated, Decoded

\* The master, but for the steps that begin a subframe.
LEMMA MasterKeepsUp ==
  ASSUME UpInv, Types', Master, Pacing
  PROVE  UpInv'
  <1> USE DEF UpInv, masterVars, tableVars, flagVars, turboVars, puschVars, pucchVars, histVars,
              Claimed, Decoding
  <1>1. CASE NewSubframe
    <2>1. ppc = "wait" /\ \A t \in Turbo : tpc[t] = "wait"
      BY <1>1 DEF Pacing, Parked
    <2>2. mpc' = "reset" /\ UNCHANGED <<tpc, ppc, tu, mutex, flag_wait, ret>>
      BY <1>1 DEF NewSubframe
    <2>3. Prepared' /\ Claims' /\ Demodulated' /\ Decoded'
      BY <2>1, <2>2 DEF Prepared, Claims, Demodulated, Decoded
    <2>4. \A t \in Turbo : Locals(t)'
      BY <2>1, <2>2 DEF Locals
    <2>5. QED
      BY <2>3, <2>4
  <1>2. CASE Reset
    <2>1. ppc = "wait" /\ \A t \in Turbo : tpc[t] = "wait"
      BY <1>2 DEF Reset, Prepared
    <2>2. mpc' = "prepare" /\ k' = 0 /\ complete_turbo' = FALSE
          /\ UNCHANGED <<tpc, ppc, tu, mutex, flag_wait, ret, complete_pusch>>
      BY <1>2 DEF Reset
    <2>3. Prepared' /\ Claims' /\ Decoded'
      BY <2>1, <2>2 DEF Prepared, Claims, Decoded
    <2>4. Demodulated'
      BY <2>1, <2>2, Sizes DEF Demodulated, Types, TypeOK, UE
    <2>5. \A t \in Turbo : Locals(t)'
      BY <2>1, <2>2 DEF Locals
    <2>6. QED
      BY <2>3, <2>4, <2>5
  <1>3. CASE Prepare
    <2>1. ppc = "wait" /\ \A t \in Turbo : tpc[t] = "wait"
      BY <1>3 DEF Prepare, Prepared
    <2>2. /\ UNCHANGED <<tpc, ppc, tu, mutex, flag_wait, complete_turbo, demodulated>>
          /\ mpc = "prepare" /\ k \in UE
          /\ complete_pusch' = complete_pusch \ {k}
          /\ (k = Last /\ mpc' = "turbo") \/ (k # Last /\ k' = k + 1 /\ mpc' = "prepare")
          /\ ~complete_turbo /\ complete_pusch \subseteq UE
      BY <1>3 DEF Prepare, Types, TypeOK, Decoded
    <2>3. Prepared' /\ Claims' /\ Decoded'
      BY <2>1, <2>2 DEF Prepared, Claims, Decoded
    <2>4. Demodulated'
      <3>1. \A u \in complete_pusch' : u >= k + 1
        BY <2>2, Sizes DEF Demodulated
      <3>2. k = Last => complete_pusch' = {}
        BY <2>2, <3>1, Sizes
      <3>3. QED
        BY <2>1, <2>2, <3>1, <3>2 DEF Demodulated
    <2>5. \A t \in Turbo : Locals(t)'
      BY <2>1, <2>2 DEF Locals
    <2>6. QED
      BY <2>3, <2>4, <2>5
  <1>4. CASE SignalTurbo
    <2>1. /\ k \in Turbo /\ tpc \in [Turbo -> TurboPC] /\ mpc = "turbo" /\ mpc' \in {"turbo", "pucch"}
          /\ UNCHANGED <<pid, tableVars, flagVars, mutex, flag_wait, go, harq_pid, tu, puschVars,
                         demodulated>>
      BY <1>4 DEF SignalTurbo, Types, TypeOK
    <2>2. \A t \in Turbo : tpc'[t] = tpc[t] \/ (tpc[t] = "wait" /\ tpc'[t] = "woken")
      BY <1>4, <2>1 DEF SignalTurbo, Wake
    <2>3. Prepared' /\ Demodulated'
      BY <2>1 DEF Prepared, Demodulated
    <2>4. Claims' /\ Decoded'
      BY <2>1, <2>2 DEF Claims, Decoded
    <2>5. \A t \in Turbo : Locals(t)'
      BY <2>1, <2>2 DEF Locals
    <2>6. QED
      BY <2>3, <2>4, <2>5
  <1>5. CASE SignalPucch
    BY <1>5 DEF SignalPucch, Prepared, Locals, Claims, Demodulated, Decoded
  <1>6. CASE SignalPusch
    BY <1>6 DEF SignalPusch, Wake, Prepared, Locals, Claims, Demodulated, Decoded
  <1>7. CASE PassOver
    BY <1>7 DEF PassOver, Prepared, Locals, Claims, Demodulated, Decoded
  <1>8. CASE Collect
    BY <1>8 DEF Collect, Prepared, Locals, Claims, Demodulated, Decoded
  <1>9. CASE PuschFeedback
    BY <1>9 DEF PuschFeedback, Prepared, Locals, Claims, Demodulated, Decoded
  <1>10. CASE AllCollected
    BY <1>10 DEF AllCollected, Prepared, Locals, Claims, Demodulated, Decoded
  <1>11. CASE AwaitPucch
    BY <1>11 DEF AwaitPucch, Prepared, Locals, Claims, Demodulated, Decoded
  <1>12. CASE Spin
    BY <1>12 DEF Spin, vars, Prepared, Locals, Claims, Demodulated, Decoded
  <1>13. QED
    BY <1>1, <1>2, <1>3, <1>4, <1>5, <1>6, <1>7, <1>8, <1>9, <1>10, <1>11, <1>12 DEF Master

LEMMA PuschKeepsUp ==
  ASSUME UpInv, Types', Pusch \/ Pucch
  PROVE  UpInv'
  <1> USE DEF UpInv, masterVars, tableVars, flagVars, turboVars, puschVars, pucchVars, histVars,
              Claimed, Decoding
  <1>1. CASE PuschPark \/ PuschEnter \/ SkipPusch \/ StartRx
    BY <1>1 DEF PuschPark, PuschEnter, SkipPusch, StartRx, PuschGoto, NextPusch, Prepared,
                Locals, Claims, Demodulated, Decoded
  <1>2. CASE EndRx
    <2>1. /\ ppc = "rx" /\ ppc' # "rx" /\ rx_pid = pid /\ mpc \notin {"reset", "prepare"}
          /\ demodulated' = demodulated \cup {pu}
          /\ complete_pusch' = complete_pusch \cup {pu}
          /\ UNCHANGED <<mpc, k, pid, active_UE, ret, flagVars, mutex, turboVars>>
      BY <1>2 DEF EndRx, NextPusch, PuschGoto, Demodulated, Prepared
    <2>2. Prepared' /\ Demodulated' /\ Decoded'
      BY <2>1 DEF Prepared, Demodulated, Decoded
    <2>3. Claims'
      BY <2>1 DEF Claims
    <2>4. \A t \in Turbo : Locals(t)'
      BY <2>1 DEF Locals
    <2>5. QED
      BY <2>2, <2>3, <2>4
  <1>3. CASE PucchPark \/ PucchEnter \/ SkipPucch \/ DetectPucch \/ PucchFeedback \/ PucchDone
    <2>1. UNCHANGED <<mpc, k, pid, active_UE, ret, complete_pusch, complete_turbo, turbo_status,
                      mutex, turboVars, puschVars, demodulated>>
      BY <1>3 DEF PucchPark, PucchEnter, SkipPucch, DetectPucch, PucchFeedback, PucchDone,
                  PucchGoto, NextPucch
    <2>2. QED
      BY <2>1 DEF Prepared, Locals, Claims, Demodulated, Decoded
  <1>4. QED
    BY <1>1, <1>2, <1>3 DEF Pusch, Pucch

LEMMA TurboKeepsUp ==
  ASSUME UpInv, Types', NEW t \in Turbo, TurboStep(t)
  PROVE  UpInv'
  <1> USE DEF UpInv, masterVars, tableVars, flagVars, turboVars, puschVars, pucchVars, histVars,
              Claimed, Decoding
  <1>0. /\ tpc \in [Turbo -> TurboPC] /\ flag_wait \in [Turbo -> BOOLEAN]
        /\ go \in [Turbo -> BOOLEAN] /\ harq_pid \in [Turbo -> Pid] /\ tu \in [Turbo -> UE]
        /\ ret \in [UE -> {"zero", "fresh", "stale"}] /\ active_UE \subseteq UE
        /\ mutex \in Turbo \cup {Free} /\ Free \notin Turbo
        /\ {complete_turbo, turbo_status} \subseteq BOOLEAN
    BY Ranges DEF Types, TypeOK
  <1>1. ASSUME NEW from \in TurboPC \ {"wait"}, NEW to, TurboGoto(t, from, to)
        PROVE  /\ tpc[t] = from /\ tpc'[t] = to /\ \A s \in Turbo \ {t} : tpc'[s] = tpc[s]
               /\ mpc \notin {"reset", "prepare"}
    BY <1>0, <1>1 DEF TurboGoto, Prepared
  <1>2. TurboPC \ {"wait"} = {"top", "woken", "decode", "publish", "lock", "scan", "unlock"}
    BY DEF TurboPC
  <1>3. CASE TurboTop(t)
    <2>1. /\ tpc[t] = "top" /\ mpc \notin {"reset", "prepare"}
          /\ tpc'[t] = (IF flag_wait[t] THEN "wait" ELSE IF go[t] THEN "decode" ELSE "lock")
          /\ \A s \in Turbo \ {t} : tpc'[s] = tpc[s]
          /\ UNCHANGED <<masterVars, tableVars, flagVars, mutex, flag_wait, go, harq_pid, tu,
                         puschVars, histVars>>
      BY <1>1, <1>2, <1>3 DEF TurboTop
    <2>2. Prepared' /\ Demodulated'
      BY <2>1 DEF Prepared, Demodulated
    <2>3. \A s \in Turbo : Locals(s)'
      BY <1>0, <2>1 DEF Locals
    <2>4. Claims'
      BY <1>0, <2>1 DEF Claims
    <2>5. tpc'[t] = "decode" => tu[t] = 0
      BY <2>1 DEF Locals
    <2>6. Decoded'
      BY <1>0, <2>1, <2>5, Sizes DEF Decoded
    <2>7. QED
      BY <2>2, <2>3, <2>4, <2>6
  <1>4. CASE TurboEnter(t)
    <2>1. /\ tpc[t] = "woken" /\ tpc'[t] = "lock" /\ mpc \notin {"reset", "prepare"}
          /\ \A s \in Turbo \ {t} : /\ tpc'[s] = tpc[s] /\ flag_wait'[s] = flag_wait[s]
                                    /\ go'[s] = go[s] /\ harq_pid'[s] = harq_pid[s]
          /\ ~flag_wait'[t] /\ ~go'[t] /\ harq_pid'[t] = pid
          /\ UNCHANGED <<masterVars, tableVars, flagVars, mutex, tu, puschVars, histVars>>
      BY <1>0, <1>1, <1>2, <1>4 DEF TurboEnter
    <2>2. Prepared' /\ Demodulated'
      BY <2>1 DEF Prepared, Demodulated
    <2>3. \A s \in Turbo : Locals(s)'
      BY <1>0, <2>1 DEF Locals
    <2>4. Claims'
      BY <1>0, <2>1 DEF Claims
    <2>6. Decoded'
      BY <1>0, <2>1 DEF Decoded
    <2>7. QED
      BY <2>2, <2>3, <2>4, <2>6
  <1>5. CASE Decode(t)
    <2>1. /\ tpc[t] = "decode" /\ tpc'[t] = (IF tu[t] = Last THEN "publish" ELSE "decode")
          /\ mpc \notin {"reset", "prepare"}
          /\ \A s \in Turbo \ {t} : tpc'[s] = tpc[s] /\ tu'[s] = tu[s]
          /\ tu'[t] = (IF tu[t] = Last THEN 0 ELSE tu[t] + 1) /\ tu[t] \in UE
          /\ UNCHANGED <<masterVars, flag, active_UE, complete_pusch, flagVars, mutex, flag_wait,
                         go, harq_pid, puschVars, histVars>>
      BY <1>0, <1>1, <1>2, <1>5 DEF Decode
    <2>2. harq_pid[t] = pid /\ active_UE \subseteq demodulated
      BY <2>1 DEF Locals, Claims, Demodulated, Types
    <2>3. Prepared' /\ Demodulated'
      BY <2>1 DEF Prepared, Demodulated
    <2>4. \A s \in Turbo : Locals(s)'
      BY <1>0, <2>1 DEF Locals
    <2>5. Claims'
      BY <1>0, <2>1 DEF Claims
    <2>6. /\ tu[t] \in active_UE => ret'[tu[t]] = "fresh"
          /\ \A u \in UE \ {tu[t]} : ret'[u] = ret[u]
      BY <1>0, <1>5, <2>1, <2>2 DEF Decode
    <2>7. \A u \in active_UE : ret[u] = "fresh" \/ u = tu[t] => ret'[u] = "fresh"
      BY <1>0, <2>6
    <2>8. Decoded'
      <3>1. \A u \in active_UE : u < tu[t] \/ u = tu[t] => ret'[u] = "fresh"
        BY <2>1, <2>7 DEF Decoded
      <3>2. \A u \in active_UE : u \in Nat /\ u <= Last
        BY <1>0, Sizes
      <3>3. tpc'[t] = "decode" => \A u \in active_UE : u < tu'[t] => ret'[u] = "fresh"
        <4>1. tpc'[t] = "decode" => tu'[t] = tu[t] + 1
          BY <2>1
        <4>2. tu[t] \in Nat
          BY <2>1, Sizes
        <4>3. \A u \in active_UE : u < tu[t] + 1 => u < tu[t] \/ u = tu[t]
          BY <3>2, <4>2
        <4>4. QED
          BY <3>1, <4>1, <4>3
      <3>4. tpc'[t] = "publish" => \A u \in active_UE : ret'[u] = "fresh"
        BY <2>1, <3>1, <3>2, Sizes
      <3>5. QED
        BY <2>1, <2>7, <3>3, <3>4 DEF Decoded
    <2>9. QED
      BY <2>3, <2>4, <2>5, <2>8
  <1>6. CASE PublishDecoded(t)
    <2>1. /\ tpc[t] = "publish" /\ tpc'[t] = "lock" /\ mpc \notin {"reset", "prepare"}
          /\ \A s \in Turbo \ {t} : tpc'[s] = tpc[s]
          /\ UNCHANGED <<masterVars, tableVars, turbo_status, mutex, flag_wait, go, harq_pid, tu,
                         puschVars, histVars>>
      BY <1>1, <1>2, <1>6 DEF PublishDecoded
    <2>2. Prepared' /\ Demodulated'
      BY <2>1 DEF Prepared, Demodulated
    <2>3. \A s \in Turbo : Locals(s)'
      BY <1>0, <2>1 DEF Locals
    <2>4. Claims'
      BY <1>0, <2>1 DEF Claims
    <2>5. Decoded'
      BY <1>0, <2>1 DEF Decoded
    <2>6. QED
      BY <2>2, <2>3, <2>4, <2>5
  <1>7. CASE TurboLock(t)
    <2>1. /\ tpc[t] = "lock" /\ tpc'[t] = (IF turbo_status THEN "unlock" ELSE "scan")
          /\ mpc \notin {"reset", "prepare"} /\ mutex = Free /\ mutex' = t
          /\ \A s \in Turbo \ {t} : tpc'[s] = tpc[s] /\ flag_wait'[s] = flag_wait[s] /\ go'[s] = go[s]
          /\ ~go'[t] /\ (flag_wait'[t] <=> flag_wait[t] \/ turbo_status)
          /\ UNCHANGED <<masterVars, tableVars, flagVars, harq_pid, tu, puschVars, histVars>>
      BY <1>0, <1>1, <1>2, <1>7 DEF TurboLock
    <2>2. Prepared' /\ Demodulated'
      BY <2>1 DEF Prepared, Demodulated
    <2>3. \A s \in Turbo : Locals(s)'
      BY <1>0, <2>1 DEF Locals
    <2>4. tu[t] = 0
      BY <2>1 DEF Locals
    <2>5. Claims'
      BY <1>0, <2>1, <2>4, Sizes DEF Claims
    <2>6. Decoded'
      BY <1>0, <2>1 DEF Decoded
    <2>7. QED
      BY <2>2, <2>3, <2>5, <2>6
  <1>8. CASE TurboUnlock(t)
    <2>1. /\ tpc[t] = "unlock" /\ tpc'[t] = "top" /\ mpc \notin {"reset", "prepare"} /\ mutex' = Free
          /\ \A s \in Turbo \ {t} : tpc'[s] = tpc[s] /\ tu'[s] = tu[s]
          /\ tu'[t] = 0
          /\ UNCHANGED <<masterVars, tableVars, flagVars, flag_wait, go, harq_pid, puschVars, histVars>>
      BY <1>0, <1>1, <1>2, <1>8 DEF TurboUnlock
    <2>2. Prepared' /\ Demodulated'
      BY <2>1 DEF Prepared, Demodulated
    <2>3. mutex = t
      BY <2>1 DEF Locals
    <2>4. \A s \in Turbo : Locals(s)'
      BY <1>0, <2>1, <2>3 DEF Locals
    <2>5. Claims'
      BY <1>0, <2>1 DEF Claims
    <2>6. Decoded'
      BY <1>0, <2>1 DEF Decoded
    <2>7. QED
      BY <2>2, <2>4, <2>5, <2>6
  <1>9. CASE Scan(t)
    <2>0. /\ tpc[t] = "scan" /\ mutex = t /\ ~turbo_status /\ ~go[t] /\ ~flag_wait[t]
          /\ harq_pid[t] = pid /\ tu[t] \in UE /\ mpc \notin {"reset", "prepare"}
          /\ \A s \in Turbo \ {t} : tpc[s] \notin {"scan", "unlock"}
          /\ \A s \in Turbo : ~Claimed(s)
          /\ UNCHANGED <<masterVars, tableVars, complete_turbo, mutex, flag_wait, harq_pid,
                         puschVars, histVars>>
      BY <1>0, <1>9, ScanCases DEF Locals, Claims, Prepared, Scan
    <2>1. Prepared' /\ Demodulated'
      <3>1. tpc' \in [Turbo -> TurboPC]
        BY DEF Types, TypeOK
      <3>2. QED
        BY <2>0 DEF Prepared, Demodulated
    <2>2. CASE tpc' = [tpc EXCEPT ![t] = "unlock"] /\ UNCHANGED <<tu, turbo_status, go>>
      <3>1. tpc'[t] = "unlock" /\ \A s \in Turbo \ {t} : tpc'[s] = tpc[s]
        BY <1>0, <2>2
      <3>2. \A s \in Turbo : Locals(s)'
        BY <1>0, <2>0, <2>2, <3>1 DEF Locals
      <3>3. Claims' /\ Decoded'
        BY <1>0, <2>0, <2>2, <3>1 DEF Claims, Decoded
      <3>4. QED
        BY <2>1, <3>2, <3>3
    <2>3. CASE /\ tu[t] \notin active_UE \ complete_pusch /\ tu[t] # Last
               /\ tu' = [tu EXCEPT ![t] = tu[t] + 1] /\ UNCHANGED <<tpc, turbo_status, go>>
      <3>1. tu'[t] = tu[t] + 1 /\ \A s \in Turbo \ {t} : tu'[s] = tu[s]
        BY <1>0, <2>3
      <3>2. \A s \in Turbo : Locals(s)'
        BY <1>0, <2>0, <2>3, <3>1 DEF Locals
      <3>3. \A u \in active_UE : u < tu[t] + 1 => u \in complete_pusch
        <4>1. \A u \in active_UE : u \in Nat /\ tu[t] \in Nat
          BY <1>0, <2>0, Sizes
        <4>2. \A u \in active_UE : u < tu[t] => u \in complete_pusch
          BY <2>0 DEF Claims
        <4>3. QED
          BY <2>3, <4>1, <4>2
      <3>4. Claims'
        BY <1>0, <2>0, <2>3, <3>1, <3>3 DEF Claims
      <3>5. Decoded'
        BY <1>0, <2>0, <2>3, <3>1 DEF Decoded
      <3>6. QED
        BY <2>1, <3>2, <3>4, <3>5
    <2>4. CASE /\ tu[t] \notin active_UE \ complete_pusch /\ tu[t] = Last
               /\ tpc' = [tpc EXCEPT ![t] = "unlock"]
               /\ turbo_status' = TRUE /\ go' = [go EXCEPT ![t] = TRUE] /\ UNCHANGED tu
      <3>1. /\ tpc'[t] = "unlock" /\ go'[t]
            /\ \A s \in Turbo \ {t} : tpc'[s] = tpc[s] /\ go'[s] = go[s]
        BY <1>0, <2>4
      <3>2. \A s \in Turbo : Locals(s)'
        BY <1>0, <2>0, <2>4, <3>1 DEF Locals
      <3>3. active_UE \subseteq complete_pusch
        <4>1. \A u \in active_UE : u \in Nat /\ u <= tu[t]
          BY <1>0, <2>4, Sizes
        <4>2. \A u \in active_UE : u < tu[t] => u \in complete_pusch
          BY <2>0 DEF Claims
        <4>3. QED
          BY <2>4, <4>1, <4>2, Sizes
      <3>4. Claims'
        BY <1>0, <2>0, <2>4, <3>1, <3>3 DEF Claims
      <3>5. Decoded'
        BY <1>0, <2>0, <2>4, <3>1 DEF Decoded
      <3>6. QED
        BY <2>1, <3>2, <3>4, <3>5
    <2>5. QED
      BY <1>9, <2>2, <2>3, <2>4, ScanCases
  <1>10. QED
    BY <1>3, <1>4, <1>5, <1>6, <1>7, <1>8, <1>9 DEF TurboStep

THEOREM PacedInvariance == MCSpec => []PacedInv
  <1>1. MCInit => PacedInv
    BY UpBegins DEF MCInit, PacedInv
  <1>2. PacedInv /\ [MCNext]_<<vars, paced>> => PacedInv'
    <2> SUFFICES ASSUME PacedInv, [MCNext]_<<vars, paced>>, paced' PROVE UpInv'
      BY DEF PacedInv
    <2>1. paced /\ UpInv /\ [Next /\ Pacing]_vars
      BY DEF PacedInv, MCNext
    <2>2. Types'
      BY <2>1, TypesKeep DEF UpInv
    <2>3. CASE UNCHANGED vars
      BY <2>1, <2>2, <2>3 DEF vars, masterVars, tableVars, flagVars, turboVars, puschVars,
            histVars, UpInv, Prepared, Locals, Claims, Claimed, Decoding, Demodulated, Decoded
    <2>4. CASE Next /\ Pacing
      BY <2>1, <2>2, <2>4, MasterKeepsUp, PuschKeepsUp, TurboKeepsUp DEF Next
    <2>5. QED
      BY <2>1, <2>3, <2>4
  <1>3. QED
    BY <1>1, <1>2, PTL DEF MCSpec

\* Two turbo threads never run td on the same soft bits (turbo_proc), if the
\* threads have parked when a subframe begins.
THEOREM OneThreadDecodes == MCSpec => []OneDecoder
  <1>1. PacedInv => OneDecoder
    BY DEF PacedInv, UpInv, Claims, Claimed, OneDecoder
  <1>2. QED
    BY <1>1, PacedInvariance, PTL

\* What the master acts on in phy_procedures_eNB_uespec_RX is the decoding of this
\* subframe's samples under its own HARQ process.
THEOREM ResultsAreFresh == MCSpec => CollectedFresh
  <1>1. PacedInv => [paced /\ Collect => ret[k'] = "fresh"]_vars
    BY DEF PacedInv, UpInv, Decoded, Collect
  <1>2. QED
    BY <1>1, PacedInvariance, PTL DEF CollectedFresh
=============================================================================
