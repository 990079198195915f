------------------------------ MODULE MCUlHarq -------------------------------
(***************************************************************************)
(* A small instance of UlHarq, put to three uses: "untimed", the PHICH and   *)
(* the DCIs in any order and a UE that may miss either; "ordered", a PHICH   *)
(* that is built after the DCIs have been applied, and threads that go on;   *)
(* "lossless", an ordered PHICH and a UE that hears everything.              *)
(***************************************************************************)
EXTENDS UlHarq

VARIABLE use

(* The PHICH is built after the DCIs have been applied. *)
InOrder == Look => sub.m2p \in {"rar", "done"}

(* The UE misses no DCI and takes no NAK for an ACK. *)
HearsAll == End(FALSE) => ue' = Hear(TRUE, TRUE)

MCInit == Init /\ use \in {"ordered", "untimed", "lossless"}

MCNext ==
    /\ Next
    /\ use # "untimed" => InOrder
    /\ use = "lossless" => HearsAll
    /\ UNCHANGED use

\* The threads go on, and a UE the MAC has no news of is granted something sooner
\* or later (UE_is_to_be_scheduled).
Fairness ==
    /\ WF_vars(use = "ordered" /\ MCNext)
    /\ SF_vars(use = "ordered" /\ IdleGrant)

MCSpec == MCInit /\ [][MCNext]_<<vars, use>> /\ Fairness

(* The same threads, with the PHICH and the DCIs in any order. *)
HastySpec ==
    /\ MCInit /\ use = "untimed" /\ [][MCNext]_<<vars, use>>
    /\ WF_vars(Next) /\ SF_vars(IdleGrant)

\* What the UE in the slot sends is received: whoever told it to send - the RAR, a
\* DCI of the m2p thread, a PHICH NAK of the cch thread - has also made the eNB
\* listen 8 subframes later.
Heard == use # "untimed" => Received

\* No packet is handed to the MAC twice, by its retransmissions or by a grant taken
\* for another one.
NoDuplicate == [][use = "lossless" /\ Decode => ue.buf[now] # "delivered"]_vars

\* Nothing is left hanging: a process in a round other than 0, in which the MAC
\* gives it no grant, gets out of it; a random access ends with the UE connected or
\* its slot free; a UE that has left is reported to the MAC or dropped by it.
Settled ==
    /\ \A p \in Pids : (use = "ordered" /\ harq[p].round > 0) ~> (harq[p].round = 0)
    /\ (use = "ordered" /\ slot.mode = "RA_RESPONSE") ~> (slot.mode # "RA_RESPONSE")
    /\ (use = "ordered" /\ ue.gone /\ mac.ue # None) ~> (mac.failing \/ mac.ue = None)

\* A process in a round other than 0 gets out of it, in any order of the PHICH and
\* the DCIs (it does not).
RoundsEnd == \A p \in Pids : (harq[p].round > 0) ~> (harq[p].round = 0)

=============================================================================
