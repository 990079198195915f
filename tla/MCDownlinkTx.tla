---------------------------- MODULE MCDownlinkTx -----------------------------
(***************************************************************************)
(* A small instance of DownlinkTx.  Each behaviour is one of two machines.   *)
(* With paced, the helper threads keep the real-time assumption Pacing and   *)
(* have their CPUs.  Without, a thread has any speed, and the OFDM thread,   *)
(* which only the radio follows, is left where it starts.  Three slots keep  *)
(* the order of the code's offsets (write one before transmit, both behind   *)
(* the frame); two frames tell a slot's content from that of the frame       *)
(* before.                                                                   *)
(***************************************************************************)
EXTENDS DownlinkTx

VARIABLE paced

MCUE == {"u0", "u1"}

MCPlans == {[ues |-> {"u0"}, si |-> TRUE, ra |-> FALSE],
            [ues |-> {"u0", "u1"}, si |-> FALSE, ra |-> TRUE],
            [ues |-> {}, si |-> FALSE, ra |-> FALSE]}

\* TDD: slot 1 is uplink.
MCTddSlots == {0, 2}

MCInit == Init /\ paced \in BOOLEAN

MCNext ==
    /\ Next
    /\ IF paced THEN Pacing ELSE UNCHANGED ofdmVars
    /\ UNCHANGED paced

\* Each thread has its CPU; the PDSCH threads serve every UE (PdschPool).
Fairness ==
    /\ WF_vars(paced /\ Master /\ Pacing)
    /\ WF_vars(paced /\ M2p) /\ WF_vars(paced /\ Cch) /\ WF_vars(paced /\ Ofdm)
    /\ WF_vars(paced /\ \E u \in UE : Modulate(u) \/ Serve(u))

MCSpec == MCInit /\ [][MCNext]_<<vars, paced>> /\ Fairness

\* What the radio is handed is the modulated content of that very subframe, not
\* of the one a frame earlier nor of one half built.
AirIsCurrent ==
    [][paced /\ RfWrite /\ ~first_rx =>
          LET s == Plus(rx, WriteAhead) IN txdata[SlotOf(s)] = due[s]]_vars

\* The radio is served for ever: no wait of the master is left hanging.
RadioServed == []<>(paced => mpc = "write")

=============================================================================
