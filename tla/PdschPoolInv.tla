---------------------------- MODULE PdschPoolInv -----------------------------
(***************************************************************************)
(* The inductive invariant of PdschPool.  It ties the three ways the code   *)
(* says "this UE is done": a thread owns it, ue_status marks it taken, and  *)
(* complete_pdsch counts it.                                               *)
(***************************************************************************)
EXTENDS PdschPool

InLock(w) == pc[w] \in {"load", "store", "scan", "rescan", "claim", "unlock"}

\* Worker w has taken UE_id[w], and will serve and count it.
Owns(w) == Holds(w) \/ (pc[w] \in {"unlock", "top"} /\ ~flag_wait[w])

\* Worker w is about to park, or parked, and owns nothing.
Idle(w) == pc[w] = "wait" \/ (pc[w] = "top" /\ flag_wait[w])

Between == mpc \in {"rx", "zero"}

\* The master has freed shared UE u, or signalled worker w, in this subframe.
Freed(u)     == mpc \in {"signal", "spin"} \/ (mpc = "free" /\ u < k)
Signalled(w) == Between \/ mpc = "spin" \/ (mpc = "signal" /\ w < k)

LoopInv ==
    /\ mpc = "free" => k \in Shared
    /\ mpc = "signal" => k \in Worker

MutexInv == \A w \in Worker : InLock(w) <=> mutex = w

\* The count is the number of UEs counted, also between its load and its store.
CountInv ==
    /\ complete_pdsch = Cardinality(handled)
    /\ \A w \in Worker : pc[w] = "store" => tmp[w] = complete_pdsch

OwnInv ==
    /\ \A w \in Worker : Owns(w) => /\ UE_id[w] \notin handled
                                    /\ UE_id[w] = w \/ UE_id[w] \in Shared
    /\ \A v, w \in Worker : v # w /\ Owns(v) /\ Owns(w) => UE_id[v] # UE_id[w]

FlagInv == \A w \in Worker : pc[w] \in {"rescan", "wait"} => flag_wait[w]

\* A shared UE that is counted or owned is marked, one about to be claimed is
\* not; one the master has yet to free still is marked, unless no thread runs, and nobody has it.
StatusInv ==
    /\ \A w \in Worker : pc[w] = "claim" => ue_status[idx[w]] = 0
    /\ \A u \in Shared :
        /\ u \in handled => ue_status[u] = 1
        /\ \A w \in Worker : Owns(w) /\ UE_id[w] = u => ue_status[u] = 1
        /\ ~Freed(u) => ue_status[u] = 1 \/ \A w \in Worker : Idle(w)
        /\ mpc = "free" /\ ~Freed(u) =>
              u \notin handled /\ \A w \in Worker : Owns(w) => UE_id[w] # u

\* A thread's own UE is its own until the signal, and nothing runs for a UE
\* between two subframes.
SignalInv ==
    /\ \A w \in Worker :
        /\ pc[w] = "woken" => w \notin handled
        /\ w \in handled \/ pc[w] = "woken" \/ (Owns(w) /\ UE_id[w] = w)
              => Signalled(w)
    /\ Between => \A w \in Worker : ~Owns(w) /\ pc[w] # "woken"

\* A UE is active from the schedule until it is modulated.
ActiveInv ==
    /\ mpc = "rx" => \A u \in UE : ~active[u]
    /\ mpc = "zero" => \A u \in UE : active[u] <=> u \in asked[subframe]
    /\ ~Between => /\ encoded \subseteq asked[subframe]
                   /\ \A u \in UE : active[u] <=> u \in asked[subframe] \ encoded
                   /\ \A u \in handled : ~active[u]
    /\ \A w \in Worker : /\ pc[w] = "encode" => active[UE_id[w]]
                         /\ pc[w] \in {"lock", "load", "store"} => ~active[UE_id[w]]

IInv == /\ TypeOK /\ LoopInv /\ MutexInv /\ CountInv /\ OwnInv
        /\ FlagInv /\ StatusInv /\ SignalInv /\ ActiveInv

-----------------------------------------------------------------------------
(* What Pacing adds.                                                        *)

\* A thread between its wake-up and its parking is in the subframe it has read.
SnapInv == \A w \in Worker : InLock(w) \/ Owns(w) => snap[w] = subframe

\* A modulated UE is counted, or its thread is on the way to count it.
EncodedInv == \A u \in encoded :
    u \in handled \/ \E w \in Worker : pc[w] \in {"lock", "load", "store"} /\ UE_id[w] = u

\* subframe_tx says in which subframes a UE was scheduled.
RememberedInv == \A u \in UE : subframe_tx[u] = {s \in Subframe : u \in asked[s]}

PacedInv == SnapInv /\ EncodedInv /\ RememberedInv

=============================================================================
