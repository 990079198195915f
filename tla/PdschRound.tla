----------------------------- MODULE PdschRound ------------------------------
(***************************************************************************)
(* What phy_procedures_eNB_TX wants of its PDSCH threads, without threads:  *)
(* a subframe opens with a set of scheduled UEs, each of them is modulated  *)
(* once, every UE is then served once, and the subframe closes when no UE   *)
(* is left.                                                                *)
(***************************************************************************)
CONSTANT UE

VARIABLES
    open,   \* a subframe is being built
    work,   \* the scheduled UEs not yet modulated
    todo    \* the UEs not yet served

vars == <<open, work, todo>>

Init == open = FALSE /\ work = {} /\ todo = {}

Open == /\ ~open
        /\ open' = TRUE
        /\ todo' = UE
        /\ work' \in SUBSET UE

Modulate(u) == /\ open
               /\ u \in work \cap todo
               /\ work' = work \ {u}
               /\ UNCHANGED <<open, todo>>

Serve(u) == /\ open
            /\ u \in todo \ work
            /\ todo' = todo \ {u}
            /\ UNCHANGED <<open, work>>

Close == /\ open
         /\ todo = {}
         /\ open' = FALSE
         /\ UNCHANGED <<work, todo>>

Next == Open \/ Close \/ \E u \in UE : Modulate(u) \/ Serve(u)

Spec == Init /\ [][Next]_vars

=============================================================================
