------------------------------- MODULE Handoff -------------------------------
(***************************************************************************)
(* What a pair of wait_on_condition and release_thread promises: a slot for *)
(* one item of work.  The item is posted when the slot is empty, taken by    *)
(* the thread the slot belongs to, and stays in it until that thread is     *)
(* done: nothing is posted over work in progress, and nothing is done twice. *)
(***************************************************************************)

CONSTANT Item

VARIABLES slot, item

vars == <<slot, item>>

Init == slot = "empty" /\ item \in Item

Post   == /\ slot = "empty"
          /\ slot' = "posted" /\ item' \in Item

Take   == /\ slot = "posted"
          /\ slot' = "taken" /\ UNCHANGED item

Finish == /\ slot = "taken"
          /\ slot' = "empty" /\ UNCHANGED item

Next == Post \/ Take \/ Finish

Spec == Init /\ [][Next]_vars
=============================================================================
