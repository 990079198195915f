------------------------------ MODULE Shutdown ------------------------------
(***************************************************************************)
(* The end of the eNB program: oai_exit is set, every thread is to leave    *)
(* its loop, and kill_eNB_proc wakes and joins the threads one by one.      *)
(*                                                                         *)
(* Three helper threads stand for their kinds: PUCCH is signalled in the    *)
(* uplink part of a subframe and waited for, CCH in the downlink part and   *)
(* waited for, OFDM is signalled and not waited for.  RXTX threads and the  *)
(* PRACH thread wait with an instance counter.  With single_thread_flag the *)
(* thread "single" takes the place of FH and the RXTX threads, which are    *)
(* not created.                                                            *)
(***************************************************************************)
EXTENDS Integers, Sequences

CONSTANTS
    Single,     \* single_thread_flag
    Polled,     \* main notices oai_exit up to 100 ms late (built without ITTI)
    Paced       \* every thread is done with a subframe before the next begins

Helper == {"cch", "ofdm", "pucch"}
RxTx   == {"rxtx0", "rxtx1"}
Master == IF Single THEN {"single"} ELSE RxTx
Counted == RxTx \cup {"prach"}
Created == Helper \cup Master \cup {"prach"} \cup (IF Single THEN {} ELSE {"FH"})
Thread == Helper \cup RxTx \cup {"prach", "FH", "single"}

(* The order in which kill_eNB_proc wakes, joins and destroys.              *)
Killed == <<"cch", "ofdm", "pucch">>
Joined == Killed \o <<"FH", "prach", "rxtx0", "rxtx1">>

VARIABLES
    oaiExit,    \* oai_exit
    pc,         \* where each thread is; "none" when it was never created
    cnt,        \* instance_cnt_rxtx, instance_cnt_prach
    complete,   \* the complete_* flag of a helper
    odd,        \* the next subframe goes to rxtx1
    kpc,        \* main: "run", "counts", "signals", then the thread it is at
    waking,     \* main has not signalled the helper it is at
    destroyed,  \* the helpers whose condition variable is destroyed
    misused     \* history: a destroyed condition variable has been signalled

vars == <<oaiExit, pc, cnt, complete, odd, kpc, waking, destroyed, misused>>
mainVars == <<kpc, waking, destroyed>>

Init == /\ oaiExit = FALSE
        /\ pc = [t \in Thread |-> IF t \in Created THEN "test" ELSE "none"]
        /\ cnt = [t \in Counted |-> -1]
        /\ complete = [h \in Helper |-> FALSE]
        /\ odd = FALSE
        /\ kpc = "run" /\ waking = TRUE /\ destroyed = {}
        /\ misused = FALSE

Goto(t, from, to) == pc[t] = from /\ pc' = [pc EXCEPT ![t] = to]
LoopTest(t, to) == Goto(t, "test", IF oaiExit THEN "left" ELSE to)

(* Threads at rest: nothing but main, the front end or a wake-up moves them. *)
AtRest(t) == pc[t] \in {"none", "parked", "asleep", "left"}
Settled == \A t \in Thread \ {"FH", "single"} : AtRest(t)

-----------------------------------------------------------------------------
(* A helper waits without a predicate: a signal finds it parked or is lost. *)
HelperTest(h) == /\ LoopTest(h, "enter")
                 /\ UNCHANGED <<oaiExit, cnt, complete, odd, mainVars, misused>>

HelperPark(h) == /\ Goto(h, "enter", "parked")
                 /\ UNCHANGED <<oaiExit, cnt, complete, odd, mainVars, misused>>

HelperWork(h) == /\ Goto(h, "work", "test")
                 /\ complete' = [complete EXCEPT ![h] = TRUE]
                 /\ UNCHANGED <<oaiExit, cnt, odd, mainVars, misused>>

Woken(p, h) == [p EXCEPT ![h] = IF @ = "parked" THEN "work" ELSE @]

-----------------------------------------------------------------------------
(* wait_on_condition of the RXTX and PRACH threads.  Between the test and   *)
(* the sleep a thread holds its mutex.                                      *)
Enter(t) == /\ LoopTest(t, "lock")
            /\ UNCHANGED <<oaiExit, cnt, complete, odd, mainVars, misused>>

CountTest(t) == /\ Goto(t, "lock", IF cnt[t] < 0 THEN "held" ELSE "woken")
                /\ UNCHANGED <<oaiExit, cnt, complete, odd, mainVars, misused>>

Sleep(t) == /\ Goto(t, "held", "asleep")
            /\ UNCHANGED <<oaiExit, cnt, complete, odd, mainVars, misused>>

Roused(p, t) == [p EXCEPT ![t] = IF @ = "asleep" THEN "lock" ELSE @]

(* release_thread, then the loop again. *)
Release(t) == /\ Goto(t, "release", "test")
              /\ cnt' = IF t \in Counted THEN [cnt EXCEPT ![t] = @ - 1] ELSE cnt
              /\ UNCHANGED <<oaiExit, complete, odd, mainVars, misused>>

Prach == /\ Goto("prach", "woken", "release")
         /\ UNCHANGED <<oaiExit, cnt, complete, odd, mainVars, misused>>

(* An RXTX thread looks at oai_exit again after the wait. *)
Begin(t) == /\ Goto(t, "woken", IF oaiExit THEN "left" ELSE "uplink")
            /\ UNCHANGED <<oaiExit, cnt, complete, odd, mainVars, misused>>

-----------------------------------------------------------------------------
(* rxtx: the uplink part, a look at oai_exit, the downlink part.            *)
Signal(t, h, from, to) ==
    /\ pc[t] = from
    /\ pc' = [Woken(pc, h) EXCEPT ![t] = to]
    /\ complete' = [complete EXCEPT ![h] = FALSE]
    /\ misused' = (misused \/ h \in destroyed)
    /\ UNCHANGED <<oaiExit, odd, mainVars>>

Await(t, h, from, to) ==
    /\ complete[h]
    /\ Goto(t, from, to)
    /\ UNCHANGED <<oaiExit, cnt, complete, odd, mainVars, misused>>

(* The PRACH thread is woken when it is idle, PUCCH in any case. *)
Uplink(t) == \/ Signal(t, "pucch", "uplink", "spinUl") /\ UNCHANGED cnt
             \/ /\ pc[t] = "uplink" /\ cnt["prach"] < 0
                /\ pc["prach"] # "held"
                /\ cnt' = [cnt EXCEPT !["prach"] = @ + 1]
                /\ pc' = [Woken(Roused(pc, "prach"), "pucch") EXCEPT ![t] = "spinUl"]
                /\ complete' = [complete EXCEPT !["pucch"] = FALSE]
                /\ misused' = (misused \/ "pucch" \in destroyed)
                /\ UNCHANGED <<oaiExit, odd, mainVars>>
UplinkDone(t) == Await(t, "pucch", "spinUl", "middle")

(* rxtx returns -1 without releasing the counter. *)
Middle(t) == /\ Goto(t, "middle", IF oaiExit THEN "left" ELSE "downlink")
             /\ UNCHANGED <<oaiExit, cnt, complete, odd, mainVars, misused>>

Downlink(t) == Signal(t, "cch", "downlink", "spinDl") /\ UNCHANGED cnt
DownlinkDone(t) == Await(t, "cch", "spinDl", "ofdm")
Ofdm(t) == Signal(t, "ofdm", "ofdm", "release") /\ UNCHANGED cnt

-----------------------------------------------------------------------------
(* A subframe comes from the front end: to the thread that does all the     *)
(* work, or to FH, which wakes an RXTX thread or, when it is busy or its    *)
(* mutex is held, ends the program.                                         *)
SingleTest == /\ LoopTest("single", "front")
              /\ UNCHANGED <<oaiExit, cnt, complete, odd, mainVars, misused>>

SingleFront == /\ Paced => Settled
               /\ Goto("single", "front", "uplink")
               /\ UNCHANGED <<oaiExit, cnt, complete, odd, mainVars, misused>>

FhTest == /\ LoopTest("FH", "front")
          /\ UNCHANGED <<oaiExit, cnt, complete, odd, mainVars, misused>>

FhFront == LET t == IF odd THEN "rxtx1" ELSE "rxtx0" IN
    /\ Paced => Settled
    /\ pc["FH"] = "front"
    /\ IF cnt[t] = 0 \/ pc[t] = "held"
       THEN /\ pc' = [pc EXCEPT !["FH"] = "left"]
            /\ oaiExit' = TRUE
            /\ UNCHANGED cnt
       ELSE /\ pc' = [Roused(pc, t) EXCEPT !["FH"] = "test"]
            /\ cnt' = [cnt EXCEPT ![t] = @ + 1]
            /\ UNCHANGED oaiExit
    /\ odd' = ~odd
    /\ UNCHANGED <<complete, mainVars, misused>>

-----------------------------------------------------------------------------
(* A signal handler, or exit_fun in any thread. *)
Request == /\ Polled /\ ~oaiExit
           /\ oaiExit' = TRUE
           /\ UNCHANGED <<pc, cnt, complete, odd, mainVars, misused>>

\* Mutant: main does not sleep between setting oai_exit and the kill.
StopAtOnce == /\ kpc = "run" /\ kpc' = "counts"
              /\ oaiExit' = TRUE
              /\ UNCHANGED <<pc, cnt, complete, odd, waking, destroyed, misused>>

(* main: with ITTI it sets oai_exit itself and goes on; without, it finds   *)
(* oai_exit set in a loop that sleeps 100 ms.                               *)
Stop == /\ kpc = "run"
        /\ Polled => oaiExit /\ (Paced => Settled /\ (AtRest("FH") /\ AtRest("single")))
        /\ oaiExit' = TRUE
        /\ kpc' = "counts"
        /\ UNCHANGED <<pc, cnt, complete, odd, waking, destroyed, misused>>

\* Mutant: only the counters of the RXTX threads are set.
CountsRxTx == /\ kpc = "counts" /\ kpc' = "signals"
              /\ cnt' = [cnt EXCEPT !["rxtx0"] = 0, !["rxtx1"] = 0]
              /\ UNCHANGED <<oaiExit, pc, complete, odd, waking, destroyed, misused>>

(* The counters are set and the conditions signalled without their mutexes. *)
Counts == /\ kpc = "counts" /\ kpc' = "signals"
          /\ cnt' = [t \in Counted |-> 0]
          /\ UNCHANGED <<oaiExit, pc, complete, odd, waking, destroyed, misused>>

Signals == /\ kpc = "signals" /\ kpc' = Joined[1]
           /\ pc' = Roused(Roused(Roused(pc, "rxtx0"), "rxtx1"), "prach")
           /\ UNCHANGED <<oaiExit, cnt, complete, odd, waking, destroyed, misused>>

Wake(h) == /\ kpc = h /\ waking
           /\ waking' = FALSE
           /\ pc' = Woken(pc, h)
           /\ UNCHANGED <<oaiExit, cnt, complete, odd, kpc, destroyed, misused>>

(* A thread that was never created is not waited for: pthread_join is given *)
(* a handle that is none, and main goes no further.                         *)
Join(k) == LET t == Joined[k] IN
    /\ kpc = t /\ pc[t] = "left"
    /\ t \in Helper => ~waking
    /\ kpc' = IF k = Len(Joined) THEN "returned" ELSE Joined[k + 1]
    /\ waking' = TRUE
    /\ destroyed' = destroyed \cup ({t} \cap Helper)
    /\ UNCHANGED <<oaiExit, pc, cnt, complete, odd, misused>>

Main == \/ Stop \/ Counts \/ Signals
        \/ \E h \in Helper : Wake(h)
        \/ \E k \in 1 .. Len(Joined) : Join(k)

HelperStep(h) == HelperTest(h) \/ HelperPark(h) \/ HelperWork(h)
CountedStep(t) == Enter(t) \/ CountTest(t) \/ Sleep(t)
RunStep(t) == \/ Uplink(t) \/ UplinkDone(t) \/ Middle(t)
              \/ Downlink(t) \/ DownlinkDone(t) \/ Ofdm(t) \/ Release(t)
PrachStep == CountedStep("prach") \/ Prach \/ Release("prach")
RxTxStep(t) == CountedStep(t) \/ Begin(t) \/ RunStep(t)
SingleStep == SingleTest \/ SingleFront \/ RunStep("single")
FhStep == FhTest \/ FhFront

Next == \/ Request \/ Main
        \/ \E h \in Helper : HelperStep(h)
        \/ PrachStep \/ SingleStep \/ FhStep
        \/ \E t \in RxTx : RxTxStep(t)

Spec == Init /\ [][Next]_vars

-----------------------------------------------------------------------------
TypeOK == /\ oaiExit \in BOOLEAN
          /\ pc \in [Thread -> {"none", "test", "enter", "parked", "work", "lock", "held",
                                "asleep", "woken", "release", "uplink", "spinUl", "middle",
                                "downlink", "spinDl", "ofdm", "front", "left"}]
          /\ cnt \in [Counted -> -1 .. 1]
          /\ complete \in [Helper -> BOOLEAN]
          /\ odd \in BOOLEAN /\ waking \in BOOLEAN /\ misused \in BOOLEAN
          /\ kpc \in {"run", "counts", "signals", "returned"} \cup Thread
          /\ destroyed \subseteq Helper

(* No condition variable is signalled after kill_eNB_proc destroyed it.     *)
SignalsLive == ~misused

(* kill_eNB_proc joins only threads that init_eNB_proc created.             *)
JoinsCreated == kpc \in Thread => kpc \in Created

=============================================================================
