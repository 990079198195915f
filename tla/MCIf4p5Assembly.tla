--------------------------- MODULE MCIf4p5Assembly ---------------------------
(***************************************************************************)
(* A small instance of If4p5Assembly, put to three uses: "lossy", a raw      *)
(* socket that loses packets and a PRACH thread that is done before the next *)
(* subframe, met by either assembler; "lossless", the same with no loss;     *)
(* "untimed", one loss and a PRACH thread of any speed on the shared buffer. *)
(***************************************************************************)
EXTENDS If4p5Assembly

VARIABLE use

AnySpeed == INSTANCE If4p5Assembly WITH MaxLost <- 1, MaxNet <- 2, Paced <- FALSE

MCInit == /\ Init
          /\ use \in {"lossy", "lossless", "untimed"}
          /\ use = "untimed" => ~asynch

MCRru ==
    \/ use # "untimed" /\ Rru /\ (use = "lossless" => lost' = lost)
    \/ use = "untimed" /\ AnySpeed!Rru

MCNext == (MCRru \/ Rcc) /\ UNCHANGED use

\* The unit and the centre run on.
Fairness == WF_vars(MCRru) /\ WF_vars(Rcc)

MCSpec == MCInit /\ [][MCNext]_<<vars, use>> /\ Fairness

\* What is handed on is whole when nothing is lost; when it is, the frame and
\* subframe numbers of the packets show it: to fh_if4p5_asynch_UL always, to
\* rx_fh_if4p5 once a whole subframe has set its count.
MixedCaught ==
    use # "untimed" /\ (use = "lossless" \/ asynch \/ aligned) => InfoComplete

\* Without loss every subframe the RRU sends reaches the receiver procedures.
AllDelivered ==
    \A sf \in 0 .. Last : <>(use = "lossless" => rcc = "handed" /\ got = sf)

\* Whatever was lost, mixed up or overtaken, an RCC on a raw socket does not
\* wait for ever for the rest of a subframe ("Blocking, we need a timeout on
\* this", lte-enb.c:986): the receive timeout of the socket ends it.
QuietEnds == (fh \in {"done", "exit"} /\ pr = "parked") ~> (rcc = "stopped")
=============================================================================
