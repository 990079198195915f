----------------------------- MODULE MCHalfWork ------------------------------
(***************************************************************************)
(* Two uses of HalfWork: threads of any speed with spurious wake-ups         *)
(* ("any"), and fair threads without them ("fair"), as one of them may keep  *)
(* a call alive that has lost its signal.                                   *)
(***************************************************************************)
EXTENDS HalfWork

VARIABLE use

MCInit == Init /\ use \in {"any", "fair"}

MCNext ==
    /\ \/ use = "any" /\ Next
       \/ use = "fair" /\ Signalled
    /\ UNCHANGED use

\* Both threads run; nothing makes a next call come.
Fair(A) == use = "fair" /\ A /\ UNCHANGED <<worker, use>>

Fairness == WF_<<vars, use>>(Fair(CallerStep)) /\ WF_<<vars, use>>(Fair(HelperStep))

MCSpec == MCInit /\ [][MCNext]_<<vars, use>> /\ Fairness

Called == use = "fair" /\ cpc \notin {"idle", "returned", "exit"}
Ended == cpc \in {"returned", "exit"}

\* Every fep or td call returns, or ends the program on a mutex it did not wait
\* for or a helper still at work: no signal of a thread that holds the mutex is lost.
CallEnds == (Called /\ Locked) ~> Ended

\* "wait for worker to finish": so does every call, te's too.
AnyCallEnds == Called ~> Ended
=============================================================================
