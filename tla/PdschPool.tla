------------------------------ MODULE PdschPool ------------------------------
(***************************************************************************)
(* The PDSCH worker pool of one eNB: the part of phy_procedures_eNB_TX that *)
(* dispatches the downlink shared channel of a subframe to NumThread        *)
(* threads, and the loop multi_sch_proc each of those threads runs.         *)
(*                                                                         *)
(* The master (the RXTX thread) zeroes complete_pdsch, frees the shared     *)
(* entries of ue_status, signals every worker and spins until               *)
(* complete_pdsch = NUMBER_OF_UE_MAX.  Worker w first serves UE w, then      *)
(* claims UEs NumThread .. NumUE-1 one at a time under uestatus_mutex.  The  *)
(* master never takes that mutex: its two resets race with the workers, so  *)
(* they are single steps here, and so are the load and the store of         *)
(* complete_pdsch + 1.  All the shared fields are volatile uint8_t: one      *)
(* access per step, in program order.                                       *)
(*                                                                         *)
(* pthread_cond_wait is called without holding its mutex and without a      *)
(* predicate, so a signal moves a thread only if it is parked already.      *)
(***************************************************************************)
EXTENDS Integers, FiniteSets

CONSTANTS
    NumThread,   \* NUM_THREAD, the PDSCH threads
    NumUE,       \* NUMBER_OF_UE_MAX
    NumSubframe, \* subframe_tx counts modulo this (10 in the code)
    CountMod,    \* 2^8: complete_pdsch is a uint8_t
    Schedules    \* the sets of UEs the MAC may give PDSCH in one subframe

UE       == 0..(NumUE - 1)
Worker   == 0..(NumThread - 1)
Shared   == NumThread..(NumUE - 1)     \* the UEs claimed through ue_status
Last     == NumUE - 1
Subframe == 0..(NumSubframe - 1)

ASSUME PoolAssumption ==
    /\ NumThread \in Nat \ {0}
    /\ NumUE \in Nat /\ NumUE > NumThread
    /\ CountMod \in Nat /\ CountMod > NumUE
    /\ NumSubframe \in Nat \ {0}
    /\ Schedules \subseteq SUBSET UE

VARIABLES
    mpc,            \* where the master is in phy_procedures_eNB_TX
    k,              \* its loop variable i
    subframe,       \* proc_rxtx[0].subframe_tx
    active,         \* dlsch[u][0]->active = 1
    subframe_tx,    \* the subframes s with dlsch[u][0]->subframe_tx[s] = 1
    complete_pdsch,
    ue_status,
    mutex,          \* the holder of uestatus_mutex, or NumThread
    pc,             \* where worker w is in multi_sch_proc
    flag_wait,      \* thread_g[w].flag_wait
    UE_id,          \* its local UE_id
    snap,           \* its local copy of the subframe number
    idx,            \* its loop variable i
    tmp,            \* the value of complete_pdsch it has loaded
    handled,        \* history: the UEs counted since complete_pdsch was zeroed
    encoded,        \* history: the UEs modulated since then
    asked           \* history: the UEs scheduled when subframe s last came up

masterVars == <<mpc, k, subframe, asked>>
dlschVars  == <<active, subframe_tx>>
workerVars == <<pc, flag_wait, UE_id, snap, idx, tmp>>
sharedVars == <<complete_pdsch, ue_status, mutex>>
histVars   == <<handled, encoded>>
vars == <<masterVars, dlschVars, workerVars, sharedVars, histVars>>

Free == NumThread                       \* no worker holds uestatus_mutex

MasterPC == {"rx", "zero", "free", "signal", "spin"}
WorkerPC == {"top", "wait", "woken", "test", "encode", "lock", "load", "store",
             "scan", "rescan", "claim", "unlock"}

TypeOK ==
    /\ mpc \in MasterPC
    /\ k \in UE
    /\ subframe \in Subframe
    /\ active \in [UE -> BOOLEAN]
    /\ subframe_tx \in [UE -> SUBSET Subframe]
    /\ complete_pdsch \in 0..(CountMod - 1)
    /\ ue_status \in [UE -> {0, 1}]
    /\ mutex \in 0..NumThread
    /\ pc \in [Worker -> WorkerPC]
    /\ flag_wait \in [Worker -> BOOLEAN]
    /\ UE_id \in [Worker -> UE]
    /\ snap \in [Worker -> Subframe]
    /\ idx \in [Worker -> Shared]
    /\ tmp \in [Worker -> 0..(CountMod - 1)]
    /\ handled \in SUBSET UE
    /\ encoded \in SUBSET UE
    /\ asked \in [Subframe -> SUBSET UE]

\* init_eNB_proc: ue_status is zeroed, flag_wait set and the threads created;
\* they reach their first pthread_cond_wait in their own time.
Init ==
    /\ mpc = "rx" /\ k = 0 /\ subframe = 0
    /\ asked = [s \in Subframe |-> {}]
    /\ active = [u \in UE |-> FALSE]
    /\ subframe_tx = [u \in UE |-> {}]
    /\ complete_pdsch = 0
    /\ ue_status = [u \in UE |-> 0]
    /\ mutex = Free
    /\ pc = [w \in Worker |-> "top"]
    /\ flag_wait = [w \in Worker |-> TRUE]
    /\ UE_id = [w \in Worker |-> w]
    /\ snap = [w \in Worker |-> 0]
    /\ idx = [w \in Worker |-> NumThread]
    /\ tmp = [w \in Worker |-> 0]
    /\ handled = {} /\ encoded = {}

-----------------------------------------------------------------------------
(* The master. *)

\* The next subframe reaches the downlink: eNB_thread_single advances
\* proc_rxtx[0], the MAC schedules, and the MAC-to-PHY thread, for which the
\* master waits (complete_dci), clears every subframe_tx[subframe] and sets up
\* the DLSCH of each scheduled UE.
NextSubframe ==
    /\ mpc = "rx"
    /\ subframe' = (IF subframe = NumSubframe - 1 THEN 0 ELSE subframe + 1)
    /\ \E S \in Schedules :
        /\ asked' = [asked EXCEPT ![subframe'] = S]
        /\ active' = [u \in UE |-> active[u] \/ u \in S]
        /\ subframe_tx' = [u \in UE |-> IF u \in S
                                        THEN subframe_tx[u] \cup {subframe'}
                                        ELSE subframe_tx[u] \ {subframe'}]
    /\ mpc' = "zero"
    /\ UNCHANGED <<k, workerVars, sharedVars, histVars>>

\* Mutant: the count of the last subframe is left standing.
ZeroNothing ==
    /\ mpc = "zero"
    /\ handled' = {} /\ encoded' = {}
    /\ k' = NumThread
    /\ mpc' = "free"
    /\ UNCHANGED <<subframe, asked, dlschVars, workerVars, sharedVars>>

\* eNB->complete_pdsch = 0
ZeroCount ==
    /\ mpc = "zero"
    /\ complete_pdsch' = 0
    /\ handled' = {} /\ encoded' = {}
    /\ k' = NumThread
    /\ mpc' = "free"
    /\ UNCHANGED <<subframe, asked, dlschVars, workerVars, ue_status, mutex>>

\* One turn of the loop that frees the shared UEs.
FreeStatus ==
    /\ mpc = "free"
    /\ ue_status' = [ue_status EXCEPT ![k] = 0]
    /\ IF k = Last THEN k' = 0 /\ mpc' = "signal"
                   ELSE k' = k + 1 /\ mpc' = mpc
    /\ UNCHANGED <<subframe, asked, dlschVars, workerVars, complete_pdsch, mutex,
                   histVars>>

\* Mutant: the last worker is not signalled.
SignalOthers ==
    /\ mpc = "signal"
    /\ pc' = (IF pc[k] = "wait" /\ k # NumThread - 1 THEN [pc EXCEPT ![k] = "woken"] ELSE pc)
    /\ k' = k + 1
    /\ mpc' = (IF k = NumThread - 1 THEN "spin" ELSE "signal")
    /\ UNCHANGED <<subframe, asked, dlschVars, flag_wait, UE_id, snap, idx, tmp,
                   sharedVars, histVars>>

\* One turn of the loop that signals the workers: the signal of a worker that
\* is not parked is lost.
SignalWorker ==
    /\ mpc = "signal"
    /\ pc' = (IF pc[k] = "wait" THEN [pc EXCEPT ![k] = "woken"] ELSE pc)
    /\ k' = k + 1
    /\ mpc' = (IF k = NumThread - 1 THEN "spin" ELSE "signal")
    /\ UNCHANGED <<subframe, asked, dlschVars, flag_wait, UE_id, snap, idx, tmp,
                   sharedVars, histVars>>

\* Mutant: the barrier opens one UE too early.
PassOneEarly ==
    /\ mpc = "spin"
    /\ complete_pdsch = NumUE - 1
    /\ mpc' = "rx"
    /\ UNCHANGED <<k, subframe, asked, dlschVars, workerVars, sharedVars, histVars>>

\* while (eNB->complete_pdsch != NUMBER_OF_UE_MAX); is left.
PassBarrier ==
    /\ mpc = "spin"
    /\ complete_pdsch = NumUE
    /\ mpc' = "rx"
    /\ UNCHANGED <<k, subframe, asked, dlschVars, workerVars, sharedVars, histVars>>

Master == NextSubframe \/ ZeroCount \/ FreeStatus \/ SignalWorker \/ PassBarrier

-----------------------------------------------------------------------------
(* Worker w. *)

Goto(w, l) == pc' = [pc EXCEPT ![w] = l]

\* The head of the loop: a worker that has seen the last UE taken parks.
Top(w) ==
    /\ pc[w] = "top"
    /\ Goto(w, IF flag_wait[w] THEN "wait" ELSE "test")
    /\ UNCHANGED <<masterVars, dlschVars, flag_wait, UE_id, snap, idx, tmp,
                   sharedVars, histVars>>

\* Mutant: the worker does not read the subframe again.
EnterKeepSubframe(w) ==
    /\ pc[w] = "woken"
    /\ flag_wait' = [flag_wait EXCEPT ![w] = FALSE]
    /\ ue_status' = [ue_status EXCEPT ![w] = 1]
    /\ UE_id' = [UE_id EXCEPT ![w] = w]
    /\ Goto(w, "test")
    /\ UNCHANGED <<masterVars, dlschVars, snap, idx, tmp, complete_pdsch, mutex,
                   histVars>>

\* pthread_cond_wait returns: the worker takes its own UE and the subframe.
Enter(w) ==
    /\ pc[w] = "woken"
    /\ flag_wait' = [flag_wait EXCEPT ![w] = FALSE]
    /\ ue_status' = [ue_status EXCEPT ![w] = 1]
    /\ UE_id' = [UE_id EXCEPT ![w] = w]
    /\ snap' = [snap EXCEPT ![w] = subframe]
    /\ Goto(w, "test")
    /\ UNCHANGED <<masterVars, dlschVars, idx, tmp, complete_pdsch, mutex, histVars>>

\* A UE without PDSCH: the flag of the worker's subframe is cleared.
SkipUE(w) ==
    /\ pc[w] = "test" /\ ~active[UE_id[w]]
    /\ subframe_tx' = [subframe_tx EXCEPT ![UE_id[w]] = @ \ {snap[w]}]
    /\ Goto(w, "lock")
    /\ UNCHANGED <<masterVars, active, flag_wait, UE_id, snap, idx, tmp, sharedVars,
                   histVars>>

StartEncode(w) ==
    /\ pc[w] = "test" /\ active[UE_id[w]]
    /\ Goto(w, "encode")
    /\ UNCHANGED <<masterVars, dlschVars, flag_wait, UE_id, snap, idx, tmp,
                   sharedVars, histVars>>

\* Mutant: dlsch->active is left at 1.
FinishStillActive(w) ==
    /\ pc[w] = "encode"
    /\ encoded' = encoded \cup {UE_id[w]}
    /\ Goto(w, "lock")
    /\ UNCHANGED <<masterVars, dlschVars, flag_wait, UE_id, snap, idx, tmp,
                   sharedVars, handled>>

\* Mutant: "if" instead of "else if" after pdsch_procedures, which cleared active.
FinishThenTest(w) ==
    /\ pc[w] = "encode"
    /\ active' = [active EXCEPT ![UE_id[w]] = FALSE]
    /\ encoded' = encoded \cup {UE_id[w]}
    /\ Goto(w, "test")
    /\ UNCHANGED <<masterVars, subframe_tx, flag_wait, UE_id, snap, idx, tmp,
                   sharedVars, handled>>

\* pdsch_procedures: encode, scramble, modulate, then dlsch->active = 0.
FinishEncode(w) ==
    /\ pc[w] = "encode"
    /\ active' = [active EXCEPT ![UE_id[w]] = FALSE]
    /\ encoded' = encoded \cup {UE_id[w]}
    /\ Goto(w, "lock")
    /\ UNCHANGED <<masterVars, subframe_tx, flag_wait, UE_id, snap, idx, tmp,
                   sharedVars, handled>>

\* Mutant: no uestatus_mutex.
LockWithoutWaiting(w) ==
    /\ pc[w] = "lock"
    /\ mutex' = w
    /\ Goto(w, "load")
    /\ UNCHANGED <<masterVars, dlschVars, flag_wait, UE_id, snap, idx, tmp,
                   complete_pdsch, ue_status, histVars>>

Lock(w) ==
    /\ pc[w] = "lock" /\ mutex = Free
    /\ mutex' = w
    /\ Goto(w, "load")
    /\ UNCHANGED <<masterVars, dlschVars, flag_wait, UE_id, snap, idx, tmp,
                   complete_pdsch, ue_status, histVars>>

LoadCount(w) ==
    /\ pc[w] = "load"
    /\ tmp' = [tmp EXCEPT ![w] = complete_pdsch]
    /\ Goto(w, "store")
    /\ UNCHANGED <<masterVars, dlschVars, flag_wait, UE_id, snap, idx, sharedVars,
                   histVars>>

StoreCount(w) ==
    /\ pc[w] = "store"
    /\ complete_pdsch' = (IF tmp[w] + 1 = CountMod THEN 0 ELSE tmp[w] + 1)
    /\ handled' = handled \cup {UE_id[w]}
    /\ idx' = [idx EXCEPT ![w] = NumThread]
    /\ Goto(w, "scan")
    /\ UNCHANGED <<masterVars, dlschVars, flag_wait, UE_id, snap, tmp, ue_status,
                   mutex, encoded>>

\* UE i is taken: look at the next one.
ScanTaken(w) ==
    /\ pc[w] = "scan" /\ idx[w] # Last /\ ue_status[idx[w]] = 1
    /\ idx' = [idx EXCEPT ![w] = @ + 1]
    /\ UNCHANGED <<masterVars, dlschVars, pc, flag_wait, UE_id, snap, tmp,
                   sharedVars, histVars>>

\* Mutant: flag_wait is not set.
ScanLastNoFlag(w) ==
    /\ pc[w] = "scan" /\ idx[w] = Last /\ ue_status[Last] = 1
    /\ Goto(w, "rescan")
    /\ UNCHANGED <<masterVars, dlschVars, flag_wait, UE_id, snap, idx, tmp,
                   sharedVars, histVars>>

\* The last UE is taken: the worker will park.  ue_status[i] is read a second
\* time by the statement that follows.
ScanLast(w) ==
    /\ pc[w] = "scan" /\ idx[w] = Last /\ ue_status[Last] = 1
    /\ flag_wait' = [flag_wait EXCEPT ![w] = TRUE]
    /\ Goto(w, "rescan")
    /\ UNCHANGED <<masterVars, dlschVars, UE_id, snap, idx, tmp, sharedVars, histVars>>

SeeFree(w) ==
    /\ pc[w] \in {"scan", "rescan"} /\ ue_status[idx[w]] = 0
    /\ Goto(w, "claim")
    /\ UNCHANGED <<masterVars, dlschVars, flag_wait, UE_id, snap, idx, tmp,
                   sharedVars, histVars>>

\* Mutant: the claimed UE is not marked.
ClaimUnmarked(w) ==
    /\ pc[w] = "claim"
    /\ UE_id' = [UE_id EXCEPT ![w] = idx[w]]
    /\ Goto(w, "unlock")
    /\ UNCHANGED <<masterVars, dlschVars, flag_wait, snap, idx, tmp, sharedVars,
                   histVars>>

\* UE i was free: UE_id = i; ue_status[i] = 1; break.
Claim(w) ==
    /\ pc[w] = "claim"
    /\ UE_id' = [UE_id EXCEPT ![w] = idx[w]]
    /\ ue_status' = [ue_status EXCEPT ![idx[w]] = 1]
    /\ Goto(w, "unlock")
    /\ UNCHANGED <<masterVars, dlschVars, flag_wait, snap, idx, tmp, complete_pdsch,
                   mutex, histVars>>

ScanEnd(w) ==
    /\ pc[w] = "rescan" /\ ue_status[Last] = 1
    /\ Goto(w, "unlock")
    /\ UNCHANGED <<masterVars, dlschVars, flag_wait, UE_id, snap, idx, tmp,
                   sharedVars, histVars>>

Unlock(w) ==
    /\ pc[w] = "unlock"
    /\ mutex' = Free
    /\ Goto(w, "top")
    /\ UNCHANGED <<masterVars, dlschVars, flag_wait, UE_id, snap, idx, tmp,
                   complete_pdsch, ue_status, histVars>>

Work(w) ==
    \/ Top(w) \/ Enter(w) \/ SkipUE(w) \/ StartEncode(w) \/ FinishEncode(w)
    \/ Lock(w) \/ LoadCount(w) \/ StoreCount(w)
    \/ ScanTaken(w) \/ ScanLast(w) \/ SeeFree(w) \/ Claim(w) \/ ScanEnd(w) \/ Unlock(w)

Next == Master \/ \E w \in Worker : Work(w)

Spec == Init /\ [][Next]_vars

-----------------------------------------------------------------------------
(* Pacing. *)

\* The real-time assumption the code makes without checking it: between the
\* barrier of one subframe and the dispatch of the next, during which the
\* master blocks in trx_read for a subframe of samples, every worker finishes
\* its scan of ue_status and parks.
Pacing == (mpc = "rx" /\ mpc' # "rx") => \A w \in Worker : pc[w] = "wait"

-----------------------------------------------------------------------------
(* What the pool must do. *)

\* Worker w has taken UE_id[w] and not yet counted it.
Holds(w) == pc[w] \in {"test", "encode", "lock", "load", "store"}

\* No two threads encode the same UE: two passes of pdsch_procedures over one
\* DLSCH would fetch two SDUs and mix their symbols in txdataF.
NoSharedUE ==
    \A v, w \in Worker : v # w /\ Holds(v) /\ Holds(w) => UE_id[v] # UE_id[w]

\* Once the master has left the barrier no thread still writes txdataF: the OFDM
\* thread may modulate the subframe.
QuietOutsideRound == mpc = "rx" => \A w \in Worker : ~Holds(w)

\* A UE is counted once: complete_pdsch never reaches NUMBER_OF_UE_MAX because
\* one UE was counted twice.
CountedOnce == [][\A w \in Worker : StoreCount(w) => UE_id[w] \notin handled]_vars

\* The master leaves while (complete_pdsch != NUMBER_OF_UE_MAX) only when every
\* UE has been served and every UE the MAC scheduled in this subframe, and no
\* other, has been modulated.
BarrierComplete ==
    [][PassBarrier => /\ handled = UE
                      /\ encoded = asked[subframe]
                      /\ \A u \in UE : ~active[u]]_vars

\* "clear subframe TX flag since UE is not scheduled for PDSCH in this subframe":
\* multi_sch_proc clears the flag only of a subframe that did not schedule the UE.
ClearsUnscheduled ==
    [][\A w \in Worker : SkipUE(w) => UE_id[w] \notin asked[snap[w]]]_vars

\* The pool implements the abstract round: each scheduled UE is modulated once,
\* each UE is served once, and only then does the subframe close.
Round == INSTANCE PdschRound WITH
    UE   <- UE,
    open <- mpc # "rx",
    work <- {u \in UE : active[u]},
    todo <- CASE mpc = "rx" -> {} [] mpc = "zero" -> UE [] OTHER -> UE \ handled

RoundImplemented == Round!Spec

=============================================================================
