----------------------------- MODULE MCPdschPool -----------------------------
(***************************************************************************)
(* A small instance of PdschPool: NumUE > NumThread as in the code (16 > 4), *)
(* at least two shared UEs so that claims compete, two subframe numbers so   *)
(* that a stale one is told from the current one.  Each behaviour is one of  *)
(* two machines: with paced, the workers keep the real-time assumption       *)
(* Pacing and every thread has its CPU; without, any speed of any thread.    *)
(***************************************************************************)
EXTENDS PdschPoolInv

VARIABLE paced

\* One worker-owned and one shared UE scheduled, then only shared ones, then none.
MCSchedules == {{0, Last}, {NumThread, Last}, {}}

MCInit == Init /\ paced \in BOOLEAN

MCNext ==
    /\ Next
    /\ paced => Pacing
    /\ UNCHANGED paced

\* Every thread has a CPU of its own (pthread_setaffinity_np) and uestatus_mutex
\* is held for a bounded scan: no step that stays possible is put off for ever.
Fairness ==
    /\ WF_vars(paced /\ Master /\ Pacing)
    /\ \A w \in Worker : WF_vars(paced /\ Work(w))

MCSpec == MCInit /\ [][MCNext]_<<vars, paced>> /\ Fairness

\* A thread that works for the master's subframe read that subframe: the frame
\* and subframe multi_sch_proc copies to find the DCIs are those being built.
FreshSubframe == paced => \A w \in Worker : Holds(w) => snap[w] = subframe

\* subframe_tx, from which the uplink later decides whether to look for the
\* ACK of a PDSCH, is set for exactly the UEs scheduled in each subframe.
FlagsRemembered ==
    paced /\ mpc = "rx" =>
        \A u \in UE : subframe_tx[u] = {s \in Subframe : u \in asked[s]}

\* Every dispatched subframe gets past the barrier: no signal is lost, no claim
\* dropped, the count stops at NUMBER_OF_UE_MAX.
BarrierPassed == [](paced /\ mpc = "spin" => <>(mpc = "rx"))

=============================================================================
