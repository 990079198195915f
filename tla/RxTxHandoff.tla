----------------------------- MODULE RxTxHandoff -----------------------------
(***************************************************************************)
(* The two-thread mode of the eNB (single_thread_flag = 0): the fronthaul    *)
(* thread receives one subframe after the other and hands the even ones to  *)
(* RXTX thread 0, the odd ones to RXTX thread 1; an RXTX thread hands the    *)
(* subframes with a PRACH to the PRACH thread.                              *)
(*                                                                         *)
(* All three hand-overs go through an instance counter: -1 is idle, 0 is    *)
(* posted or in progress.  The owner waits for it with its mutex held and   *)
(* tests it again after pthread_cond_wait, so a lost signal or a spurious   *)
(* return does no harm.  The poster looks at the counter before it takes    *)
(* the mutex, and the fronthaul thread takes it with                        *)
(* pthread_mutex_timedlock, to which it gives 5 ms as an absolute time: any  *)
(* contention is an error, and ends the program (exit_fun).                 *)
(***************************************************************************)
EXTENDS Integers

CONSTANTS
    NumFrame,       \* frames are counted modulo this (1024)
    PrachSubframe,  \* the subframes for which is_prach_subframe says yes
    MaxPoll,        \* turns of the loop that waits for a busy thread (10)
    MaxCount        \* bound of the model on instance_cnt_prach

ASSUME HandoffAssumption ==
    /\ NumFrame \in Nat \ {0}
    /\ PrachSubframe \subseteq 0..9
    /\ MaxPoll \in Nat \ {0}
    /\ MaxCount \in Nat

Time   == [frame : 0..(NumFrame - 1), subframe : 0..9]
RxTx   == {0, 1}
Prach  == 2
Thread == RxTx \cup {Prach}
Fh     == 3                     \* the fronthaul thread, as holder of a mutex
Nobody == 4

VARIABLES
    fpc,       \* where the fronthaul thread is
    tries,     \* its loop variable i
    rx,        \* proc->frame_rx, subframe_rx
    pc,        \* where each thread is
    polls,     \* loop variable i of do_prach in each RXTX thread
    cnt,       \* instance_cnt_rxtx of the RXTX threads, instance_cnt_prach
    mutex,     \* the holder of mutex_rxtx, mutex_prach
    box,       \* proc_rxtx[i].frame_rx, subframe_rx; frame_prach, subframe_prach
    tx,        \* proc_rxtx[i].frame_tx, subframe_tx
    front,     \* history: the subframe whose symbols the front end transformed
    generated  \* history: the subframe the helper threads generated; both are
               \* cleared (Zero) with the end of the thread's subframe

fhVars == <<fpc, tries, rx>>
histVars == <<front, generated>>
vars == <<fhVars, pc, polls, cnt, mutex, box, tx, histVars>>

FhPC == {"rx", "poll", "post", "exit"}
PC   == {"enter", "held", "wait", "woken", "leave",            \* wait_on_condition
         "fep", "prach", "poll", "post", "uespec", "tx",       \* rxtx
         "detect",                                             \* prach_procedures
         "release", "dec", "unlock", "exit"}                   \* release_thread

TypeOK ==
    /\ fpc \in FhPC /\ tries \in 0..MaxPoll /\ rx \in Time
    /\ pc \in [Thread -> PC]
    /\ polls \in [RxTx -> 0..MaxPoll]
    /\ cnt \in [Thread -> -1..MaxCount] /\ \A i \in RxTx : cnt[i] <= 0
    /\ mutex \in [Thread -> Thread \cup {Fh, Nobody}]
    /\ box \in [Thread -> Time] /\ tx \in [RxTx -> Time]
    /\ front \in [RxTx -> Time] /\ generated \in [RxTx -> Time]

Zero == [frame |-> 0, subframe |-> 0]

\* init_eNB_proc
Init ==
    /\ fpc = "rx" /\ tries = 0 /\ rx = Zero
    /\ pc = [t \in Thread |-> "enter"]
    /\ polls = [i \in RxTx |-> 0]
    /\ cnt = [t \in Thread |-> -1]
    /\ mutex = [t \in Thread |-> Nobody]
    /\ box = [t \in Thread |-> Zero] /\ tx = [i \in RxTx |-> Zero]
    /\ front = [i \in RxTx |-> Zero] /\ generated = [i \in RxTx |-> Zero]

Following(x) == IF x.subframe = 9
                THEN [frame |-> (x.frame + 1) % NumFrame, subframe |-> 0]
                ELSE [x EXCEPT !.subframe = @ + 1]

TxTime(x) == [frame |-> IF x.subframe > 5 THEN (x.frame + 1) % NumFrame ELSE x.frame,
              subframe |-> (x.subframe + 4) % 10]

Owner(x) == x.subframe % 2      \* proc_rxtx[subframe_rx & 1]
-----------------------------------------------------------------------------
(* The fronthaul thread. *)

\* rx_fh returns: the next subframe has been received.
FhReceive ==
    /\ fpc = "rx"
    /\ rx' = Following(rx)
    /\ fpc' = "poll"
    /\ UNCHANGED <<tries, pc, polls, cnt, mutex, box, tx, histVars>>

\* Mutant: a busy thread is not looked for.
FhPollBlind ==
    /\ fpc = "poll"
    /\ fpc' = "post"
    /\ UNCHANGED <<tries, rx, pc, polls, cnt, mutex, box, tx, histVars>>

\* "accept some delay in processing": the counter is looked at up to MaxPoll times.
FhPoll ==
    /\ fpc = "poll"
    /\ IF cnt[Owner(rx)] # 0 THEN fpc' = "post" /\ tries' = 0
       ELSE IF tries < MaxPoll THEN tries' = tries + 1 /\ UNCHANGED fpc
       ELSE fpc' = "exit" /\ UNCHANGED tries
    /\ UNCHANGED <<rx, pc, polls, cnt, mutex, box, tx, histVars>>

\* Mutant: the thread keeps the timing of its subframe before.
FhPostStale ==
    LET i == Owner(rx) IN
    /\ fpc = "post" /\ mutex[i] = Nobody
    /\ cnt' = [cnt EXCEPT ![i] = @ + 1]
    /\ pc' = [pc EXCEPT ![i] = IF @ = "wait" THEN "woken" ELSE @]
    /\ fpc' = "rx"
    /\ UNCHANGED <<tries, rx, polls, mutex, box, tx, histVars>>

\* The critical section of wakeup_rxtx: ++cnt, the timing, the signal.
FhPost ==
    LET i == Owner(rx) IN
    /\ fpc = "post" /\ mutex[i] = Nobody
    /\ cnt' = [cnt EXCEPT ![i] = @ + 1]
    /\ box' = [box EXCEPT ![i] = rx]
    /\ tx' = [tx EXCEPT ![i] = TxTime(rx)]
    /\ pc' = [pc EXCEPT ![i] = IF @ = "wait" THEN "woken" ELSE @]
    /\ fpc' = "rx"
    /\ UNCHANGED <<tries, rx, polls, mutex, histVars>>

\* pthread_mutex_timedlock with a time long past: error unless the mutex is free.
FhLockError ==
    /\ fpc = "post" /\ mutex[Owner(rx)] # Nobody
    /\ fpc' = "exit"
    /\ UNCHANGED <<tries, rx, pc, polls, cnt, mutex, box, tx, histVars>>

FrontHaul == FhReceive \/ FhPoll \/ FhPost \/ FhLockError
-----------------------------------------------------------------------------
(* wait_on_condition and release_thread, of any of the three threads. *)

Cleared(t, h) == IF t \in RxTx THEN [h EXCEPT ![t] = Zero] ELSE h

Goto(t, from, to) == pc[t] = from /\ pc' = [pc EXCEPT ![t] = to]

\* pthread_mutex_lock, at the start or inside pthread_cond_wait.
Lock(t) ==
    /\ mutex[t] = Nobody /\ mutex' = [mutex EXCEPT ![t] = t]
    /\ \/ Goto(t, "enter", "held")
       \/ Goto(t, "woken", "held")
       \/ Goto(t, "release", "dec")
    /\ UNCHANGED <<fhVars, polls, cnt, box, tx, histVars>>

\* while (*instance_cnt < 0) pthread_cond_wait(cond, mutex);
Test(t) ==
    /\ IF cnt[t] < 0
       THEN Goto(t, "held", "wait") /\ mutex' = [mutex EXCEPT ![t] = Nobody]
       ELSE Goto(t, "held", "leave") /\ UNCHANGED mutex
    /\ UNCHANGED <<fhVars, polls, cnt, box, tx, histVars>>

\* pthread_cond_wait may return without a signal.
Spurious(t) ==
    /\ Goto(t, "wait", "woken")
    /\ UNCHANGED <<fhVars, polls, cnt, mutex, box, tx, histVars>>

Unlock(t) ==
    /\ \/ Goto(t, "leave", IF t = Prach THEN "detect" ELSE "fep")
       \/ Goto(t, "unlock", "enter")
    /\ mutex' = [mutex EXCEPT ![t] = Nobody]
    /\ UNCHANGED <<fhVars, polls, cnt, box, tx, histVars>>

\* Mutant: release_thread does not count down.
KeepCount(t) ==
    /\ Goto(t, "dec", "unlock")
    /\ UNCHANGED <<fhVars, polls, cnt, mutex, box, tx, histVars>>

CountDown(t) ==
    /\ Goto(t, "dec", "unlock")
    /\ cnt' = [cnt EXCEPT ![t] = @ - 1]
    /\ front' = Cleared(t, front) /\ generated' = Cleared(t, generated)
    /\ UNCHANGED <<fhVars, polls, mutex, box, tx>>

Owning(t) == Lock(t) \/ Test(t) \/ Unlock(t) \/ CountDown(t)
-----------------------------------------------------------------------------
(* rxtx, in RXTX thread i. *)

\* phy_procedures_eNB_common_RX: the front end works on proc->subframe_rx, which
\* is the fronthaul thread's, not proc_rxtx[i].subframe_rx.
Fep(i) ==
    /\ Goto(i, "fep", "prach")
    /\ front' = [front EXCEPT ![i] = rx]
    /\ UNCHANGED <<fhVars, polls, cnt, mutex, box, tx, generated>>

\* do_prach: is proc->subframe_rx one with a PRACH?
NoPrach(i) ==
    /\ rx.subframe \notin PrachSubframe
    /\ Goto(i, "prach", "uespec")
    /\ UNCHANGED <<fhVars, polls, cnt, mutex, box, tx, histVars>>

HasPrach(i) ==
    /\ rx.subframe \in PrachSubframe
    /\ Goto(i, "prach", "poll")
    /\ UNCHANGED <<fhVars, polls, cnt, mutex, box, tx, histVars>>

PrachPoll(i) ==
    /\ pc[i] = "poll"
    /\ IF cnt[Prach] # 0 THEN Goto(i, "poll", "post") /\ polls' = [polls EXCEPT ![i] = 0]
       ELSE IF polls[i] < MaxPoll THEN polls' = [polls EXCEPT ![i] = @ + 1] /\ UNCHANGED pc
       ELSE Goto(i, "poll", "exit") /\ UNCHANGED polls
    /\ UNCHANGED <<fhVars, cnt, mutex, box, tx, histVars>>

\* The critical section of do_prach, behind a lock that waits.
PrachPost(i) ==
    /\ pc[i] = "post" /\ mutex[Prach] = Nobody /\ cnt[Prach] < MaxCount
    /\ cnt' = [cnt EXCEPT ![Prach] = @ + 1]
    /\ box' = [box EXCEPT ![Prach] = rx]
    /\ pc' = [pc EXCEPT ![i] = "uespec",
                        ![Prach] = IF @ = "wait" THEN "woken" ELSE @]
    /\ UNCHANGED <<fhVars, polls, mutex, tx, histVars>>

\* proc_uespec_rx (UplinkRx) works on proc_rxtx[i].
UeSpec(i) ==
    /\ Goto(i, "uespec", "tx")
    /\ UNCHANGED <<fhVars, polls, cnt, mutex, box, tx, histVars>>

\* proc_tx (DownlinkTx): the helper threads it wakes read proc_rxtx[0].
Transmit(i) ==
    /\ Goto(i, "tx", "release")
    /\ generated' = [generated EXCEPT ![i] = tx[0]]
    /\ UNCHANGED <<fhVars, polls, cnt, mutex, box, tx, front>>

RxTxStep(i) == \/ Owning(i) \/ Fep(i) \/ NoPrach(i) \/ HasPrach(i) \/ PrachPoll(i)
               \/ PrachPost(i) \/ UeSpec(i) \/ Transmit(i)

\* prach_procedures, on frame_prach and subframe_prach.
Detect ==
    /\ Goto(Prach, "detect", "release")
    /\ UNCHANGED <<fhVars, polls, cnt, mutex, box, tx, histVars>>

PrachStep == Owning(Prach) \/ Detect

Step == \/ FrontHaul \/ PrachStep
        \/ \E i \in RxTx : RxTxStep(i)

Next == Step \/ \E t \in Thread : Spurious(t)

Spec == Init /\ [][Next]_vars
-----------------------------------------------------------------------------
(* Pacing. *)

\* While the fronthaul thread receives a subframe the thread that is to have it
\* parks, the other one gets past its front end, and the PRACH thread parks.
InTime(i) == /\ pc[Owner(Following(rx))] = "wait" /\ cnt[Owner(Following(rx))] = -1
             /\ pc[i] \notin {"enter", "held", "woken", "leave", "fep", "prach", "poll",
                              "post"}
             /\ pc[Prach] = "wait" /\ cnt[Prach] = -1
Pacing == FhReceive => \A i \in RxTx : InTime(i)

-----------------------------------------------------------------------------
(* What the hand-over must do. *)

Full(t) == pc[t] \in {"enter", "held", "wait", "woken"}

SlotState(i) == IF cnt[i] < 0 THEN "empty" ELSE IF Full(i) THEN "posted" ELSE "taken"

EvenSlot == INSTANCE Handoff WITH Item <- Time, slot <- SlotState(0), item <- box[0]
OddSlot  == INSTANCE Handoff WITH Item <- Time, slot <- SlotState(1), item <- box[1]

\* At any speed, and with spurious wake-ups, each RXTX thread is a slot for one
\* subframe: none is lost, done twice or overwritten while it is worked on.
SlotsImplemented == EvenSlot!Spec /\ OddSlot!Spec

\* "Common RX procedures subframe n": the symbols RXTX thread i goes on with are
\* those of the subframe it was given.
FrontOwn(i) == pc[i] \in {"uespec", "tx"} => front[i] = box[i]

FrontIsOwn == \A i \in RxTx : FrontOwn(i)

\* "accept some delay in processing - up to 5ms": a thread that is not parked yet,
\* but no longer busy, does not end the program by holding its own mutex.
NoLockError == ~(fpc = "post" /\ mutex[Owner(rx)] # Nobody)

\* The PRACH thread is never given a PRACH while it is busy with one ("PRACH thread
\* busy" is an error), so none is looked at twice and none overwritten.
PrachPostedOnce == cnt[Prach] <= 0

\* "we want to generate subframe (n+4)": what RXTX thread i has had generated is
\* the subframe four after its own, also across a frame and the last frame.
GeneratedOwn(i) ==
    /\ cnt[i] = 0 => tx[i] = Following(Following(Following(Following(box[i]))))
    /\ pc[i] = "release" => generated[i] = tx[i]

GeneratedIsOwn == \A i \in RxTx : GeneratedOwn(i)
=============================================================================
