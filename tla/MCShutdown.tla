----------------------------- MODULE MCShutdown ------------------------------
(***************************************************************************)
(* Shutdown in the two-thread mode and, with single, in the single-thread    *)
(* mode.                                                                    *)
(***************************************************************************)
EXTENDS Shutdown

VARIABLE single

OneThread == INSTANCE Shutdown WITH Single <- TRUE

MCInit == (single = FALSE /\ Init) \/ (single = TRUE /\ OneThread!Init)

MCNext ==
    /\ (~single /\ Next) \/ (single /\ OneThread!Next)
    /\ UNCHANGED single

\* Every thread runs on when it can, and the program is ended one day.
Fairness ==
    /\ WF_vars(~single /\ Request) /\ WF_vars(~single /\ Main)
    /\ \A h \in Helper : WF_vars(~single /\ HelperStep(h))
    /\ WF_vars(~single /\ PrachStep) /\ WF_vars(~single /\ FhStep)
    /\ \A t \in RxTx : WF_vars(~single /\ RxTxStep(t))

MCSpec == MCInit /\ [][MCNext]_<<vars, single>> /\ Fairness

\* In the two-thread mode kill_eNB_proc returns: no thread it joins sleeps through
\* its wake-up or spins for a helper that has left.
KillReturns == <>(single \/ kpc = "returned")
=============================================================================
