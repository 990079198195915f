----------------------------- MODULE MCUplinkRx ------------------------------
(***************************************************************************)
(* Small instances of UplinkRx.  Each behaviour is one of two machines.      *)
(* With paced, the threads keep the real-time assumption Pacing and have     *)
(* their CPUs: two turbo threads suffice for a race on turbo_status, two UEs *)
(* for one active and one idle, two HARQ processes for a stale one.  Without,*)
(* a thread has any speed: one turbo thread and one process.                *)
(***************************************************************************)
EXTENDS UplinkRx

VARIABLE paced

Untimed == INSTANCE UplinkRx WITH NumTurbo <- 1, NumPid <- 1

MCInit == (paced = TRUE /\ Init) \/ (paced = FALSE /\ Untimed!Init)

MCNext ==
    \/ paced /\ Next /\ Pacing /\ UNCHANGED paced
    \/ ~paced /\ Untimed!Next /\ UNCHANGED paced

\* Each thread has its CPU (pthread_setaffinity_np).
Fairness ==
    /\ WF_vars(paced /\ Master /\ Pacing)
    /\ WF_vars(paced /\ Pusch) /\ WF_vars(paced /\ Pucch)
    /\ \A t \in Turbo : WF_vars(paced /\ TurboStep(t))

MCSpec == MCInit /\ [][MCNext]_<<vars, paced>> /\ Fairness

\* The result the master acts on is that of a decoding of this subframe's own
\* samples under its own HARQ process: neither the 0 of the reset, which counts
\* as an ACK, nor that of a UE not yet demodulated.
CollectedFresh == [][paced /\ Collect => ret[k'] = "fresh"]_vars

\* One turbo thread decodes a subframe: two would run td on the same soft bits.
OneDecoder == paced => \A s, t \in Turbo : Decoding(s) /\ Decoding(t) => s = t

\* The master never hangs on complete_turbo or complete_pucch.
UplinkServed == []<>(paced => mpc = "idle")

=============================================================================
