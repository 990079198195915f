--------------------------- MODULE ShutdownProofs ---------------------------
(***************************************************************************)
(* With oai_exit polled by main and threads that are in time, no condition  *)
(* variable is signalled once it is destroyed, in either thread mode.       *)
(***************************************************************************)
EXTENDS Shutdown, TLAPS

Place == {"none", "test", "enter", "parked", "work", "lock", "held", "asleep", "woken",
          "release", "uplink", "spinUl", "middle", "downlink", "spinDl", "ofdm", "front",
          "left"}

(* The threads that signal helpers never wait like one. *)
Places ==
    /\ pc \in [Thread -> Place]
    /\ pc["single"] \notin {"parked", "asleep"}
    /\ pc["FH"] \notin {"parked", "asleep"}
    /\ \A t \in RxTx : pc[t] # "parked"

(* Once main goes on to the kill no thread can begin a subframe any more:   *)
(* an RXTX thread that wakes looks at oai_exit first.                       *)
NoneBegins ==
    kpc # "run" =>
        /\ oaiExit
        /\ pc["single"] \in {"none", "left"}
        /\ pc["FH"] \in {"none", "left"}
        /\ \A t \in RxTx : pc[t] \in {"none", "asleep", "lock", "held", "woken", "left"}

IInv == /\ Places /\ NoneBegins
        /\ kpc = "run" => destroyed = {}
        /\ SignalsLive

(* The helpers are where kill_eNB_proc looks for them. *)
LEMMA Kinds == /\ Helper \cup RxTx \cup {"prach", "FH", "single"} = Thread
               /\ Len(Joined) = 7
               /\ \A k \in 1 .. 7 : Joined[k] # "run"
  BY DEF Thread, Joined, Killed

LEMMA HelperKeeps ==
  ASSUME IInv, NEW h \in Helper, HelperStep(h)
  PROVE  IInv'
  BY DEF HelperStep, HelperTest, HelperPark, HelperWork, LoopTest, Goto, mainVars, Helper, RxTx,
         Thread, IInv, Place, Places, NoneBegins, SignalsLive

(* wait_on_condition and release_thread. *)
LEMMA WaitKeeps ==
  ASSUME IInv, NEW t \in Counted, CountedStep(t)
  PROVE  IInv'
  BY DEF CountedStep, Enter, CountTest, Sleep, LoopTest, Goto, mainVars, Counted, RxTx,
         Thread, IInv, Place, Places, NoneBegins, SignalsLive

LEMMA ReleaseKeeps ==
  ASSUME IInv, NEW t \in Thread, Release(t)
  PROVE  IInv'
  BY DEF Release, Goto, mainVars, RxTx, Thread, IInv, Place, Places, NoneBegins, SignalsLive

LEMMA PrachKeeps ==
  ASSUME IInv, Prach
  PROVE  IInv'
  BY DEF Prach, Goto, mainVars, RxTx, Thread, IInv, Place, Places, NoneBegins, SignalsLive

LEMMA BeginKeeps ==
  ASSUME IInv, NEW t \in RxTx, Begin(t)
  PROVE  IInv'
  BY DEF Begin, Goto, mainVars, RxTx, Thread, IInv, Place, Places, NoneBegins, SignalsLive

(* A helper that is woken has nobody's place but its own. *)
LEMMA WokenPlaces ==
  ASSUME NEW p \in [Thread -> Place], NEW h \in Helper
  PROVE  /\ Woken(p, h) \in [Thread -> Place]
         /\ \A s \in Thread \ Helper : Woken(p, h)[s] = p[s]
  BY DEF Woken, Place

LEMMA RousedPlaces ==
  ASSUME NEW p \in [Thread -> Place]
  PROVE  /\ Roused(p, "prach") \in [Thread -> Place]
         /\ \A s \in Thread \ {"prach"} : Roused(p, "prach")[s] = p[s]
  BY DEF Roused, Place

(* The threads that take part in the argument are no helpers. *)
LEMMA NoHelper ==
  /\ "single" \in Thread \ Helper /\ "FH" \in Thread \ Helper
  /\ \A t \in RxTx : t \in Thread \ Helper /\ t \notin {"prach", "single", "FH"}
  /\ "pucch" \in Helper /\ "cch" \in Helper /\ "ofdm" \in Helper
  BY DEF Thread, Helper, RxTx

(* A subframe: its signals come before main stops, when nothing is destroyed. *)
LEMMA SignalKeeps ==
  ASSUME IInv, NEW t \in RxTx \cup {"single"}, NEW h \in Helper,
         pc[t] \in {"uplink", "downlink", "ofdm"},
         NEW p \in [Thread -> Place], NEW to \in Place \ {"parked", "asleep"},
         \A s \in Thread \ (Helper \cup {"prach"}) : p[s] = pc[s],
         pc' = [Woken(p, h) EXCEPT ![t] = to],
         misused' = (misused \/ h \in destroyed),
         kpc' = kpc, destroyed' = destroyed
  PROVE  IInv'
  <1>1. kpc = "run" /\ destroyed = {}
    BY NoHelper DEF IInv, NoneBegins
  <1>2. /\ pc' \in [Thread -> Place]
        /\ pc'[t] = to
        /\ \A s \in Thread \ (Helper \cup {"prach"}) : s # t => pc'[s] = pc[s]
    BY WokenPlaces, NoHelper
  <1>3. Places'
    <2>1. pc'["single"] \notin {"parked", "asleep"} /\ pc'["FH"] \notin {"parked", "asleep"}
      BY <1>2, NoHelper DEF IInv, Places
    <2>2. \A s \in RxTx : pc'[s] # "parked"
      BY <1>2, NoHelper DEF IInv, Places
    <2>3. QED
      BY <1>2, <2>1, <2>2 DEF Places
  <1>4. QED
    BY <1>1, <1>3 DEF IInv, NoneBegins, SignalsLive

LEMMA RunKeeps ==
  ASSUME IInv, NEW t \in RxTx \cup {"single"}, RunStep(t)
  PROVE  IInv'
  <1>1. t \in Thread /\ pc \in [Thread -> Place]
    BY DEF Thread, IInv, Places
  <1>2. CASE Uplink(t)
    <2>1. CASE Signal(t, "pucch", "uplink", "spinUl")
      BY <2>1, <1>1, SignalKeeps, NoHelper DEF Signal, mainVars, Place
    <2>2. CASE ~Signal(t, "pucch", "uplink", "spinUl")
      BY <1>2, <2>2, <1>1, SignalKeeps, RousedPlaces, NoHelper DEF Uplink, mainVars, Place
    <2>3. QED
      BY <2>1, <2>2
  <1>3. CASE Downlink(t) \/ Ofdm(t)
    BY <1>1, <1>3, SignalKeeps, NoHelper DEF Downlink, Ofdm, Signal, mainVars, Place
  <1>4. CASE UplinkDone(t) \/ DownlinkDone(t)
    BY <1>1, <1>4 DEF UplinkDone, DownlinkDone, Await, Goto, mainVars, RxTx, Thread, IInv,
                      Place, Places, NoneBegins, SignalsLive
  <1>5. CASE Middle(t)
    BY <1>1, <1>5 DEF Middle, Goto, mainVars, RxTx, Thread, IInv, Place, Places, NoneBegins,
                      SignalsLive
  <1>6. QED
    BY <1>1, <1>2, <1>3, <1>4, <1>5, ReleaseKeeps DEF RunStep

(* The front end. *)
LEMMA FrontKeeps ==
  ASSUME IInv, SingleTest \/ SingleFront \/ FhTest
  PROVE  IInv'
  BY DEF SingleTest, SingleFront, FhTest, LoopTest, Goto, mainVars, RxTx, Thread, IInv,
         Place, Places, NoneBegins, SignalsLive

LEMMA FhKeeps ==
  ASSUME IInv, FhFront
  PROVE  IInv'
  <1>1. kpc = "run" /\ kpc' = "run" /\ destroyed' = destroyed /\ misused' = misused
    BY DEF FhFront, mainVars, IInv, NoneBegins
  <1>2. Places'
    BY DEF FhFront, Roused, RxTx, Thread, IInv, Place, Places
  <1>3. QED
    BY <1>1, <1>2 DEF IInv, NoneBegins, SignalsLive

(* Main stops when every thread is at rest, and then only wakes the others. *)
LEMMA MainKeeps ==
  ASSUME Polled, Paced, IInv, Request \/ Main
  PROVE  IInv'
  <1>1. CASE Request
    BY <1>1 DEF Request, mainVars, IInv, Place, Places, NoneBegins, SignalsLive
  <1>2. CASE Stop
    <2>1. /\ \A t \in RxTx : AtRest(t)
          /\ AtRest("single") /\ AtRest("FH")
      BY <1>2 DEF Stop, Settled, RxTx, Thread
    <2>2. QED
      BY <1>2, <2>1 DEF Stop, AtRest, IInv, Place, Places, NoneBegins, SignalsLive
  <1>3. CASE Counts \/ \E k \in 1 .. Len(Joined) : Join(k)
    <2>1. kpc # "run" /\ kpc' # "run" /\ pc' = pc /\ oaiExit' = oaiExit /\ misused' = misused
      BY <1>3, Kinds DEF Counts, Join
    <2>2. QED
      BY <2>1 DEF IInv, Place, Places, NoneBegins, SignalsLive
  <1>4. CASE Signals
    <2>1. kpc # "run" /\ kpc' # "run" /\ oaiExit' = oaiExit /\ misused' = misused
      BY <1>4, Kinds DEF Signals
    <2>2. QED
      BY <1>4, <2>1 DEF Signals, Roused, RxTx, Thread, IInv, Place, Places, NoneBegins, SignalsLive
  <1>5. ASSUME NEW h \in Helper, Wake(h)
        PROVE  IInv'
    BY <1>5 DEF Wake, Woken, Helper, RxTx, Thread, IInv, Place, Places, NoneBegins, SignalsLive
  <1>6. QED
    BY <1>1, <1>2, <1>3, <1>4, <1>5 DEF Main

\* The inductive invariant.
THEOREM Invariance ==
  ASSUME Polled, Paced
  PROVE  Spec => []IInv
  <1>1. Init => IInv
    BY DEF Init, Created, Master, RxTx, Helper, Thread, IInv, Place, Places, NoneBegins, SignalsLive
  <1>2. IInv /\ [Next]_vars => IInv'
    <2> SUFFICES ASSUME IInv, [Next]_vars
                 PROVE  IInv'
      OBVIOUS
    <2>1. CASE UNCHANGED vars
      BY <2>1 DEF vars, mainVars, IInv, Place, Places, NoneBegins, SignalsLive
    <2>2. CASE PrachStep \/ \E t \in RxTx : RxTxStep(t)
      BY <2>2, WaitKeeps, ReleaseKeeps, PrachKeeps, BeginKeeps, RunKeeps
         DEF PrachStep, RxTxStep, Counted, Thread
    <2>3. CASE SingleStep \/ FhStep
      BY <2>3, FrontKeeps, FhKeeps, RunKeeps DEF SingleStep, FhStep
    <2>4. QED
      BY <2>1, <2>2, <2>3, HelperKeeps, MainKeeps DEF Next
  <1>3. QED
    BY <1>1, <1>2, PTL DEF Spec

\* kill_eNB_proc destroys no condition variable that a thread may still signal, in the
\* single-thread and in the two-thread mode.
THEOREM NoneMisused ==
  ASSUME Polled, Paced
  PROVE  Spec => []SignalsLive
  <1>1. IInv => SignalsLive
    BY DEF IInv
  <1>2. QED
    BY <1>1, Invariance, PTL

=============================================================================
