---------------------------- MODULE MCRxTxHandoff ----------------------------
(***************************************************************************)
(* Small instances of RxTxHandoff.  Each behaviour is one of two machines.   *)
(* With paced, the threads keep the real-time assumption Pacing and have     *)
(* their CPUs: two frames, and a PRACH in a subframe of either thread.       *)
(* Without, a thread has any speed and pthread_cond_wait returns when it     *)
(* likes: one frame, one turn of the loop that polls, and no PRACH, which is *)
(* posted twice when the two RXTX threads are late (PrachPostedOnce fails).  *)
(***************************************************************************)
EXTENDS RxTxHandoff

VARIABLE paced

Untimed == INSTANCE RxTxHandoff WITH NumFrame <- 1, PrachSubframe <- {},
                                     MaxPoll <- 1, MaxCount <- 1

MCInit == Init /\ paced \in BOOLEAN

MCNext ==
    \/ paced /\ Step /\ Pacing /\ UNCHANGED paced
    \/ ~paced /\ Untimed!Next /\ UNCHANGED paced

\* Each thread has a CPU of its own and holds a mutex for a few statements.
Fairness ==
    /\ WF_vars(paced /\ FrontHaul /\ Pacing) /\ WF_vars(paced /\ PrachStep)
    /\ \A i \in RxTx : WF_vars(paced /\ RxTxStep(i))

MCSpec == MCInit /\ [][MCNext]_<<vars, paced>> /\ Fairness

\* Threads in time meet none of the hand-over's errors: an RXTX thread goes on with
\* the symbols of the subframe it was given, the even one, whose proc_rxtx the helper
\* threads read, has the subframe four later generated, no PRACH is posted to a busy
\* PRACH thread, and no mutex is found held by a thread that has nothing to do.
PacedHandover ==
    paced => FrontIsOwn /\ GeneratedOwn(0) /\ PrachPostedOnce /\ NoLockError

\* Every received subframe is transmitted for (SlotsImplemented: it is not lost
\* in the slot), and every PRACH looked at.
SubframesServed ==
    /\ \A i \in RxTx : (paced /\ cnt[i] = 0) ~> (pc[i] = "tx")
    /\ \A x \in [frame : {0, 1}, subframe : PrachSubframe] :
          (paced /\ fpc = "poll" /\ rx = x) ~> (pc[Prach] = "detect" /\ box[Prach] = x)
=============================================================================
