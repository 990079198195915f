--------------------------- MODULE RxTxHandoffProofs ---------------------------
(***************************************************************************)
(* Each RXTX thread is a slot of Handoff, for any number of frames, any set  *)
(* of PRACH subframes, any speed of the threads and any spurious return of   *)
(* pthread_cond_wait.                                                       *)
(*                                                                         *)
(* Neither half of the argument suffices alone.  The poster looks at the     *)
(* counter without the mutex: what it saw stays true because nobody but it   *)
(* counts up.  It then finds the mutex free: the owner is on its way to the  *)
(* test, and not between its count down and its unlock, so that the subframe *)
(* is posted to a thread that has yet to look.                              *)
(***************************************************************************)
EXTENDS MCRxTxHandoff, TLAPS

\* Inside the critical sections of wait_on_condition and release_thread.
Locked == {"held", "leave", "dec", "unlock"}

\* With a subframe of its own.
Serving == {"leave", "fep", "prach", "poll", "post", "uespec", "tx", "detect", "release",
            "dec", "exit"}

Mutual == \A t \in Thread :
    /\ mutex[t] \in {t, Nobody}
    /\ mutex[t] = t <=> pc[t] \in Locked

\* A counter is not idle while its thread serves, and idle at the end of
\* release_thread for a thread that is posted to only when it is idle.
Counters ==
    /\ \A t \in Thread : pc[t] \in Serving => cnt[t] >= 0
    /\ \A i \in RxTx : cnt[i] <= 0 /\ (pc[i] = "unlock" => cnt[i] = -1)

\* What the poster saw is still so.
Polled == fpc = "post" => cnt[Owner(rx)] = -1

IInv == TypeOK /\ Mutual /\ Counters /\ Polled
-----------------------------------------------------------------------------
LEMMA Times ==
  ASSUME NEW x \in Time
  PROVE  /\ Owner(x) \in RxTx
         /\ Following(x) \in Time
         /\ TxTime(x) \in Time
  <1> USE HandoffAssumption
  <1>1. x.subframe \in 0..9 /\ x.frame \in 0..(NumFrame - 1)
    BY DEF Time
  <1>2. Owner(x) \in RxTx
    BY <1>1 DEF Owner, RxTx
  <1>3. (x.frame + 1) % NumFrame \in 0..(NumFrame - 1)
    BY <1>1
  <1>4. Following(x) \in Time
    BY <1>1, <1>3 DEF Following, Time
  <1>5. (x.subframe + 4) % 10 \in 0..9
    BY <1>1
  <1>6. TxTime(x) \in Time
    BY <1>1, <1>3, <1>5 DEF TxTime, Time
  <1>7. QED
    BY <1>2, <1>4, <1>6

LEMMA InitEstablishes == Init => IInv
  <1> SUFFICES ASSUME Init PROVE IInv
    OBVIOUS
  <1> USE HandoffAssumption DEF Init, Thread, RxTx, Prach, Fh, Nobody
  <1>1. Zero \in Time
    BY DEF Zero, Time
  <1>2. TypeOK
    BY <1>1 DEF TypeOK, FhPC, PC
  <1>3. Mutual /\ Counters /\ Polled
    BY DEF Mutual, Counters, Polled, Locked, Serving
  <1>4. QED
    BY <1>2, <1>3 DEF IInv

LEMMA FhReceiveKeeps ==
  ASSUME IInv, FhReceive
  PROVE  IInv'
  <1> USE HandoffAssumption DEF Thread, RxTx, Prach, Fh, Nobody, IInv, fhVars, histVars,
                                FhReceive
  <1>0. /\ {rx, Following(rx), TxTime(rx), Zero} \subseteq Time
        /\ Owner(rx) \in RxTx
    BY Times DEF TypeOK, Zero, Time
  <1>1. TypeOK'
    BY <1>0 DEF TypeOK, FhPC, PC, Counters, Serving, Polled, Mutual, Locked
  <1>2. Mutual'
    BY <1>0 DEF TypeOK, Mutual, Locked
  <1>3. Counters'
    BY <1>0 DEF TypeOK, Counters, Serving, Mutual, Locked, Polled
  <1>4. Polled'
    BY <1>0 DEF TypeOK, Polled, Counters, Serving
  <1>5. QED
    BY <1>1, <1>2, <1>3, <1>4

LEMMA FhPollKeeps ==
  ASSUME IInv, FhPoll
  PROVE  IInv'
  <1> USE HandoffAssumption DEF Thread, RxTx, Prach, Fh, Nobody, IInv, fhVars, histVars,
                                FhPoll
  <1>0. /\ {rx, Following(rx), TxTime(rx), Zero} \subseteq Time
        /\ Owner(rx) \in RxTx
    BY Times DEF TypeOK, Zero, Time
  <1>1. TypeOK'
    BY <1>0 DEF TypeOK, FhPC, PC, Counters, Serving, Polled, Mutual, Locked
  <1>2. Mutual'
    BY <1>0 DEF TypeOK, Mutual, Locked
  <1>3. Counters'
    BY <1>0 DEF TypeOK, Counters, Serving, Mutual, Locked, Polled
  <1>4. Polled'
    BY <1>0 DEF TypeOK, Polled, Counters, Serving
  <1>5. QED
    BY <1>1, <1>2, <1>3, <1>4

LEMMA FhPostKeeps ==
  ASSUME IInv, FhPost
  PROVE  IInv'
  <1> USE HandoffAssumption DEF Thread, RxTx, Prach, Fh, Nobody, IInv, fhVars, histVars,
                                FhPost
  <1>0. /\ {rx, Following(rx), TxTime(rx), Zero} \subseteq Time
        /\ Owner(rx) \in RxTx
    BY Times DEF TypeOK, Zero, Time
  <1>1. TypeOK'
    BY <1>0 DEF TypeOK, FhPC, PC, Counters, Serving, Polled, Mutual, Locked
  <1>2. Mutual'
    BY <1>0 DEF TypeOK, Mutual, Locked
  <1>3. Counters'
    BY <1>0 DEF TypeOK, Counters, Serving, Mutual, Locked, Polled
  <1>4. Polled'
    BY <1>0 DEF TypeOK, Polled, Counters, Serving
  <1>5. QED
    BY <1>1, <1>2, <1>3, <1>4

LEMMA FhLockErrorKeeps ==
  ASSUME IInv, FhLockError
  PROVE  IInv'
  <1> USE HandoffAssumption DEF Thread, RxTx, Prach, Fh, Nobody, IInv, fhVars, histVars,
                                FhLockError
  <1>0. /\ {rx, Following(rx), TxTime(rx), Zero} \subseteq Time
        /\ Owner(rx) \in RxTx
    BY Times DEF TypeOK, Zero, Time
  <1>1. TypeOK'
    BY <1>0 DEF TypeOK, FhPC, PC, Counters, Serving, Polled, Mutual, Locked
  <1>2. Mutual'
    BY <1>0 DEF TypeOK, Mutual, Locked
  <1>3. Counters'
    BY <1>0 DEF TypeOK, Counters, Serving, Mutual, Locked, Polled
  <1>4. Polled'
    BY <1>0 DEF TypeOK, Polled, Counters, Serving
  <1>5. QED
    BY <1>1, <1>2, <1>3, <1>4

LEMMA DetectKeeps ==
  ASSUME IInv, Detect
  PROVE  IInv'
  <1> USE HandoffAssumption DEF Thread, RxTx, Prach, Fh, Nobody, IInv, fhVars, histVars,
                                Detect, Goto
  <1>0. /\ {rx, Following(rx), TxTime(rx), Zero} \subseteq Time
        /\ Owner(rx) \in RxTx
    BY Times DEF TypeOK, Zero, Time
  <1>1. TypeOK'
    BY <1>0 DEF TypeOK, FhPC, PC, Counters, Serving, Polled, Mutual, Locked
  <1>2. Mutual'
    BY <1>0 DEF TypeOK, Mutual, Locked
  <1>3. Counters'
    BY <1>0 DEF TypeOK, Counters, Serving, Mutual, Locked, Polled
  <1>4. Polled'
    BY <1>0 DEF TypeOK, Polled, Counters, Serving
  <1>5. QED
    BY <1>1, <1>2, <1>3, <1>4

LEMMA LockKeeps ==
  ASSUME IInv, NEW t \in Thread, Lock(t)
  PROVE  IInv'
  <1> USE HandoffAssumption DEF Thread, RxTx, Prach, Fh, Nobody, IInv, fhVars, histVars,
                                Lock, Goto
  <1>0. /\ {rx, Following(rx), TxTime(rx), Zero} \subseteq Time
        /\ Owner(rx) \in RxTx
    BY Times DEF TypeOK, Zero, Time
  <1>1. TypeOK'
    BY <1>0 DEF TypeOK, FhPC, PC, Counters, Serving, Polled, Mutual, Locked
  <1>2. Mutual'
    BY <1>0 DEF TypeOK, Mutual, Locked
  <1>3. Counters'
    BY <1>0 DEF TypeOK, Counters, Serving, Mutual, Locked, Polled
  <1>4. Polled'
    BY <1>0 DEF TypeOK, Polled, Counters, Serving
  <1>5. QED
    BY <1>1, <1>2, <1>3, <1>4

LEMMA TestKeeps ==
  ASSUME IInv, NEW t \in Thread, Test(t)
  PROVE  IInv'
  <1> USE HandoffAssumption DEF Thread, RxTx, Prach, Fh, Nobody, IInv, fhVars, histVars,
                                Test, Goto
  <1>0. /\ {rx, Following(rx), TxTime(rx), Zero} \subseteq Time
        /\ Owner(rx) \in RxTx
    BY Times DEF TypeOK, Zero, Time
  <1>1. TypeOK'
    BY <1>0 DEF TypeOK, FhPC, PC, Counters, Serving, Polled, Mutual, Locked
  <1>2. Mutual'
    BY <1>0 DEF TypeOK, Mutual, Locked
  <1>3. Counters'
    BY <1>0 DEF TypeOK, Counters, Serving, Mutual, Locked, Polled
  <1>4. Polled'
    BY <1>0 DEF TypeOK, Polled, Counters, Serving
  <1>5. QED
    BY <1>1, <1>2, <1>3, <1>4

LEMMA UnlockKeeps ==
  ASSUME IInv, NEW t \in Thread, Unlock(t)
  PROVE  IInv'
  <1> USE HandoffAssumption DEF Thread, RxTx, Prach, Fh, Nobody, IInv, fhVars, histVars,
                                Unlock, Goto
  <1>0. /\ {rx, Following(rx), TxTime(rx), Zero} \subseteq Time
        /\ Owner(rx) \in RxTx
    BY Times DEF TypeOK, Zero, Time
  <1>1. TypeOK'
    BY <1>0 DEF TypeOK, FhPC, PC, Counters, Serving, Polled, Mutual, Locked
  <1>2. Mutual'
    BY <1>0 DEF TypeOK, Mutual, Locked
  <1>3. Counters'
    BY <1>0 DEF TypeOK, Counters, Serving, Mutual, Locked, Polled
  <1>4. Polled'
    BY <1>0 DEF TypeOK, Polled, Counters, Serving
  <1>5. QED
    BY <1>1, <1>2, <1>3, <1>4

LEMMA CountDownKeeps ==
  ASSUME IInv, NEW t \in Thread, CountDown(t)
  PROVE  IInv'
  <1> USE HandoffAssumption DEF Thread, RxTx, Prach, Fh, Nobody, IInv, fhVars, histVars,
                                CountDown, Goto, Cleared
  <1>0. /\ {rx, Following(rx), TxTime(rx), Zero} \subseteq Time
        /\ Owner(rx) \in RxTx
    BY Times DEF TypeOK, Zero, Time
  <1>1. TypeOK'
    BY <1>0 DEF TypeOK, FhPC, PC, Counters, Serving, Polled, Mutual, Locked
  <1>2. Mutual'
    BY <1>0 DEF TypeOK, Mutual, Locked
  <1>3. Counters'
    BY <1>0 DEF TypeOK, Counters, Serving, Mutual, Locked, Polled
  <1>4. Polled'
    BY <1>0 DEF TypeOK, Polled, Counters, Serving
  <1>5. QED
    BY <1>1, <1>2, <1>3, <1>4

LEMMA SpuriousKeeps ==
  ASSUME IInv, NEW t \in Thread, Spurious(t)
  PROVE  IInv'
  <1> USE HandoffAssumption DEF Thread, RxTx, Prach, Fh, Nobody, IInv, fhVars, histVars,
                                Spurious, Goto
  <1>0. /\ {rx, Following(rx), TxTime(rx), Zero} \subseteq Time
        /\ Owner(rx) \in RxTx
    BY Times DEF TypeOK, Zero, Time
  <1>1. TypeOK'
    BY <1>0 DEF TypeOK, FhPC, PC, Counters, Serving, Polled, Mutual, Locked
  <1>2. Mutual'
    BY <1>0 DEF TypeOK, Mutual, Locked
  <1>3. Counters'
    BY <1>0 DEF TypeOK, Counters, Serving, Mutual, Locked, Polled
  <1>4. Polled'
    BY <1>0 DEF TypeOK, Polled, Counters, Serving
  <1>5. QED
    BY <1>1, <1>2, <1>3, <1>4

LEMMA FepKeeps ==
  ASSUME IInv, NEW i \in RxTx, Fep(i)
  PROVE  IInv'
  <1> USE HandoffAssumption DEF Thread, RxTx, Prach, Fh, Nobody, IInv, fhVars, histVars,
                                Fep, Goto
  <1>0. /\ {rx, Following(rx), TxTime(rx), Zero} \subseteq Time
        /\ Owner(rx) \in RxTx
    BY Times DEF TypeOK, Zero, Time
  <1>1. TypeOK'
    BY <1>0 DEF TypeOK, FhPC, PC, Counters, Serving, Polled, Mutual, Locked
  <1>2. Mutual'
    BY <1>0 DEF TypeOK, Mutual, Locked
  <1>3. Counters'
    BY <1>0 DEF TypeOK, Counters, Serving, Mutual, Locked, Polled
  <1>4. Polled'
    BY <1>0 DEF TypeOK, Polled, Counters, Serving
  <1>5. QED
    BY <1>1, <1>2, <1>3, <1>4

LEMMA NoPrachKeeps ==
  ASSUME IInv, NEW i \in RxTx, NoPrach(i)
  PROVE  IInv'
  <1> USE HandoffAssumption DEF Thread, RxTx, Prach, Fh, Nobody, IInv, fhVars, histVars,
                                NoPrach, Goto
  <1>0. /\ {rx, Following(rx), TxTime(rx), Zero} \subseteq Time
        /\ Owner(rx) \in RxTx
    BY Times DEF TypeOK, Zero, Time
  <1>1. TypeOK'
    BY <1>0 DEF TypeOK, FhPC, PC, Counters, Serving, Polled, Mutual, Locked
  <1>2. Mutual'
    BY <1>0 DEF TypeOK, Mutual, Locked
  <1>3. Counters'
    BY <1>0 DEF TypeOK, Counters, Serving, Mutual, Locked, Polled
  <1>4. Polled'
    BY <1>0 DEF TypeOK, Polled, Counters, Serving
  <1>5. QED
    BY <1>1, <1>2, <1>3, <1>4

LEMMA HasPrachKeeps ==
  ASSUME IInv, NEW i \in RxTx, HasPrach(i)
  PROVE  IInv'
  <1> USE HandoffAssumption DEF Thread, RxTx, Prach, Fh, Nobody, IInv, fhVars, histVars,
                                HasPrach, Goto
  <1>0. /\ {rx, Following(rx), TxTime(rx), Zero} \subseteq Time
        /\ Owner(rx) \in RxTx
    BY Times DEF TypeOK, Zero, Time
  <1>1. TypeOK'
    BY <1>0 DEF TypeOK, FhPC, PC, Counters, Serving, Polled, Mutual, Locked
  <1>2. Mutual'
    BY <1>0 DEF TypeOK, Mutual, Locked
  <1>3. Counters'
    BY <1>0 DEF TypeOK, Counters, Serving, Mutual, Locked, Polled
  <1>4. Polled'
    BY <1>0 DEF TypeOK, Polled, Counters, Serving
  <1>5. QED
    BY <1>1, <1>2, <1>3, <1>4

LEMMA PrachPollKeeps ==
  ASSUME IInv, NEW i \in RxTx, PrachPoll(i)
  PROVE  IInv'
  <1> USE HandoffAssumption DEF Thread, RxTx, Prach, Fh, Nobody, IInv, fhVars, histVars,
                                PrachPoll, Goto
  <1>0. /\ {rx, Following(rx), TxTime(rx), Zero} \subseteq Time
        /\ Owner(rx) \in RxTx
    BY Times DEF TypeOK, Zero, Time
  <1>1. TypeOK'
    BY <1>0 DEF TypeOK, FhPC, PC, Counters, Serving, Polled, Mutual, Locked
  <1>2. Mutual'
    BY <1>0 DEF TypeOK, Mutual, Locked
  <1>3. Counters'
    BY <1>0 DEF TypeOK, Counters, Serving, Mutual, Locked, Polled
  <1>4. Polled'
    BY <1>0 DEF TypeOK, Polled, Counters, Serving
  <1>5. QED
    BY <1>1, <1>2, <1>3, <1>4

LEMMA PrachPostKeeps ==
  ASSUME IInv, NEW i \in RxTx, PrachPost(i)
  PROVE  IInv'
  <1> USE HandoffAssumption DEF Thread, RxTx, Prach, Fh, Nobody, IInv, fhVars, histVars,
                                PrachPost, Goto
  <1>0. /\ {rx, Following(rx), TxTime(rx), Zero} \subseteq Time
        /\ Owner(rx) \in RxTx
    BY Times DEF TypeOK, Zero, Time
  <1>1. TypeOK'
    BY <1>0 DEF TypeOK, FhPC, PC, Counters, Serving, Polled, Mutual, Locked
  <1>2. Mutual'
    BY <1>0 DEF TypeOK, Mutual, Locked
  <1>3. Counters'
    BY <1>0 DEF TypeOK, Counters, Serving, Mutual, Locked, Polled
  <1>4. Polled'
    BY <1>0 DEF TypeOK, Polled, Counters, Serving
  <1>5. QED
    BY <1>1, <1>2, <1>3, <1>4

LEMMA UeSpecKeeps ==
  ASSUME IInv, NEW i \in RxTx, UeSpec(i)
  PROVE  IInv'
  <1> USE HandoffAssumption DEF Thread, RxTx, Prach, Fh, Nobody, IInv, fhVars, histVars,
                                UeSpec, Goto
  <1>0. /\ {rx, Following(rx), TxTime(rx), Zero} \subseteq Time
        /\ Owner(rx) \in RxTx
    BY Times DEF TypeOK, Zero, Time
  <1>1. TypeOK'
    BY <1>0 DEF TypeOK, FhPC, PC, Counters, Serving, Polled, Mutual, Locked
  <1>2. Mutual'
    BY <1>0 DEF TypeOK, Mutual, Locked
  <1>3. Counters'
    BY <1>0 DEF TypeOK, Counters, Serving, Mutual, Locked, Polled
  <1>4. Polled'
    BY <1>0 DEF TypeOK, Polled, Counters, Serving
  <1>5. QED
    BY <1>1, <1>2, <1>3, <1>4

LEMMA TransmitKeeps ==
  ASSUME IInv, NEW i \in RxTx, Transmit(i)
  PROVE  IInv'
  <1> USE HandoffAssumption DEF Thread, RxTx, Prach, Fh, Nobody, IInv, fhVars, histVars,
                                Transmit, Goto
  <1>0. /\ {rx, Following(rx), TxTime(rx), Zero} \subseteq Time
        /\ Owner(rx) \in RxTx
    BY Times DEF TypeOK, Zero, Time
  <1>1. TypeOK'
    BY <1>0 DEF TypeOK, FhPC, PC, Counters, Serving, Polled, Mutual, Locked
  <1>2. Mutual'
    BY <1>0 DEF TypeOK, Mutual, Locked
  <1>3. Counters'
    BY <1>0 DEF TypeOK, Counters, Serving, Mutual, Locked, Polled
  <1>4. Polled'
    BY <1>0 DEF TypeOK, Polled, Counters, Serving
  <1>5. QED
    BY <1>1, <1>2, <1>3, <1>4

\* The inductive invariant.
LEMMA NextKeeps ==
  ASSUME IInv, [Next]_vars
  PROVE  IInv'
  <1>1. CASE FrontHaul
    BY <1>1, FhReceiveKeeps, FhPollKeeps, FhPostKeeps, FhLockErrorKeeps DEF FrontHaul
  <1>2. CASE PrachStep
    BY <1>2, LockKeeps, TestKeeps, UnlockKeeps, CountDownKeeps, DetectKeeps
    DEF PrachStep, Owning, Thread
  <1>3. ASSUME NEW i \in RxTx, RxTxStep(i) PROVE IInv'
    BY <1>3, LockKeeps, TestKeeps, UnlockKeeps, CountDownKeeps, FepKeeps, NoPrachKeeps,
       HasPrachKeeps, PrachPollKeeps, PrachPostKeeps, UeSpecKeeps, TransmitKeeps
    DEF RxTxStep, Owning, Thread
  <1>4. ASSUME NEW t \in Thread, Spurious(t) PROVE IInv'
    BY <1>4, SpuriousKeeps
  <1>5. CASE UNCHANGED vars
    BY <1>5 DEF vars, fhVars, histVars, IInv, TypeOK, Mutual, Counters, Polled
  <1>6. QED
    BY <1>1, <1>2, <1>3, <1>4, <1>5 DEF Next, Step

THEOREM Invariance == Spec => []IInv
  <1>1. Init => IInv
    BY InitEstablishes
  <1>2. IInv /\ [Next]_vars => IInv'
    BY NextKeeps
  <1>3. QED
    BY <1>1, <1>2, PTL DEF Spec
-----------------------------------------------------------------------------
(* The refinement. *)

\* What a step does to the slot of an RXTX thread.
SlotStep(i) ==
    \/ SlotState(i) = "empty" /\ SlotState(i)' = "posted" /\ box'[i] \in Time
    \/ SlotState(i) = "posted" /\ SlotState(i)' = "taken" /\ box'[i] = box[i]
    \/ SlotState(i) = "taken" /\ SlotState(i)' = "empty" /\ box'[i] = box[i]
    \/ SlotState(i)' = SlotState(i) /\ box'[i] = box[i]

LEMMA FhPostSlot ==
  ASSUME IInv, IInv', FhPost, NEW j \in RxTx
  PROVE  SlotStep(j)
  <1>1. rx \in Time /\ Owner(rx) \in RxTx
    BY Times DEF IInv, TypeOK
  <1>2. QED
    BY <1>1 DEF FhPost, SlotStep, SlotState, Full, IInv, TypeOK, Mutual, Counters, Polled, Locked,
       Serving, Thread, RxTx, Prach, Fh, Nobody, PC, fhVars, histVars

LEMMA LockSlot ==
  ASSUME IInv, IInv', NEW t \in Thread, Lock(t), NEW j \in RxTx
  PROVE  SlotStep(j)
  <1>1. rx \in Time /\ Owner(rx) \in RxTx
    BY Times DEF IInv, TypeOK
  <1>2. QED
    BY <1>1 DEF Lock, Goto, SlotStep, SlotState, Full, IInv, TypeOK, Mutual, Counters, Polled, Locked,
       Serving, Thread, RxTx, Prach, Fh, Nobody, PC, fhVars, histVars

LEMMA TestSlot ==
  ASSUME IInv, IInv', NEW t \in Thread, Test(t), NEW j \in RxTx
  PROVE  SlotStep(j)
  <1>1. rx \in Time /\ Owner(rx) \in RxTx
    BY Times DEF IInv, TypeOK
  <1>2. QED
    BY <1>1 DEF Test, Goto, SlotStep, SlotState, Full, IInv, TypeOK, Mutual, Counters, Polled, Locked,
       Serving, Thread, RxTx, Prach, Fh, Nobody, PC, fhVars, histVars

LEMMA UnlockSlot ==
  ASSUME IInv, IInv', NEW t \in Thread, Unlock(t), NEW j \in RxTx
  PROVE  SlotStep(j)
  <1>1. rx \in Time /\ Owner(rx) \in RxTx
    BY Times DEF IInv, TypeOK
  <1>2. QED
    BY <1>1 DEF Unlock, Goto, SlotStep, SlotState, Full, IInv, TypeOK, Mutual, Counters, Polled, Locked,
       Serving, Thread, RxTx, Prach, Fh, Nobody, PC, fhVars, histVars

LEMMA CountDownSlot ==
  ASSUME IInv, IInv', NEW t \in Thread, CountDown(t), NEW j \in RxTx
  PROVE  SlotStep(j)
  <1>1. rx \in Time /\ Owner(rx) \in RxTx
    BY Times DEF IInv, TypeOK
  <1>2. QED
    BY <1>1 DEF CountDown, Goto, SlotStep, SlotState, Full, IInv, TypeOK, Mutual, Counters, Polled, Locked,
       Serving, Thread, RxTx, Prach, Fh, Nobody, PC, fhVars, histVars

LEMMA SpuriousSlot ==
  ASSUME IInv, IInv', NEW t \in Thread, Spurious(t), NEW j \in RxTx
  PROVE  SlotStep(j)
  <1>1. rx \in Time /\ Owner(rx) \in RxTx
    BY Times DEF IInv, TypeOK
  <1>2. QED
    BY <1>1 DEF Spurious, Goto, SlotStep, SlotState, Full, IInv, TypeOK, Mutual, Counters, Polled, Locked,
       Serving, Thread, RxTx, Prach, Fh, Nobody, PC, fhVars, histVars

LEMMA FepSlot ==
  ASSUME IInv, IInv', NEW i \in RxTx, Fep(i), NEW j \in RxTx
  PROVE  SlotStep(j)
  <1>1. rx \in Time /\ Owner(rx) \in RxTx
    BY Times DEF IInv, TypeOK
  <1>2. QED
    BY <1>1 DEF Fep, Goto, SlotStep, SlotState, Full, IInv, TypeOK, Mutual, Counters, Polled, Locked,
       Serving, Thread, RxTx, Prach, Fh, Nobody, PC, fhVars, histVars

LEMMA NoPrachSlot ==
  ASSUME IInv, IInv', NEW i \in RxTx, NoPrach(i), NEW j \in RxTx
  PROVE  SlotStep(j)
  <1>1. rx \in Time /\ Owner(rx) \in RxTx
    BY Times DEF IInv, TypeOK
  <1>2. QED
    BY <1>1 DEF NoPrach, Goto, SlotStep, SlotState, Full, IInv, TypeOK, Mutual, Counters, Polled, Locked,
       Serving, Thread, RxTx, Prach, Fh, Nobody, PC, fhVars, histVars

LEMMA HasPrachSlot ==
  ASSUME IInv, IInv', NEW i \in RxTx, HasPrach(i), NEW j \in RxTx
  PROVE  SlotStep(j)
  <1>1. rx \in Time /\ Owner(rx) \in RxTx
    BY Times DEF IInv, TypeOK
  <1>2. QED
    BY <1>1 DEF HasPrach, Goto, SlotStep, SlotState, Full, IInv, TypeOK, Mutual, Counters, Polled, Locked,
       Serving, Thread, RxTx, Prach, Fh, Nobody, PC, fhVars, histVars

LEMMA PrachPollSlot ==
  ASSUME IInv, IInv', NEW i \in RxTx, PrachPoll(i), NEW j \in RxTx
  PROVE  SlotStep(j)
  <1>1. rx \in Time /\ Owner(rx) \in RxTx
    BY Times DEF IInv, TypeOK
  <1>2. QED
    BY <1>1 DEF PrachPoll, Goto, SlotStep, SlotState, Full, IInv, TypeOK, Mutual, Counters, Polled, Locked,
       Serving, Thread, RxTx, Prach, Fh, Nobody, PC, fhVars, histVars

LEMMA PrachPostSlot ==
  ASSUME IInv, IInv', NEW i \in RxTx, PrachPost(i), NEW j \in RxTx
  PROVE  SlotStep(j)
  <1>1. rx \in Time /\ Owner(rx) \in RxTx
    BY Times DEF IInv, TypeOK
  <1>2. QED
    BY <1>1 DEF PrachPost, Goto, SlotStep, SlotState, Full, IInv, TypeOK, Mutual, Counters, Polled, Locked,
       Serving, Thread, RxTx, Prach, Fh, Nobody, PC, fhVars, histVars

LEMMA UeSpecSlot ==
  ASSUME IInv, IInv', NEW i \in RxTx, UeSpec(i), NEW j \in RxTx
  PROVE  SlotStep(j)
  <1>1. rx \in Time /\ Owner(rx) \in RxTx
    BY Times DEF IInv, TypeOK
  <1>2. QED
    BY <1>1 DEF UeSpec, Goto, SlotStep, SlotState, Full, IInv, TypeOK, Mutual, Counters, Polled, Locked,
       Serving, Thread, RxTx, Prach, Fh, Nobody, PC, fhVars, histVars

LEMMA TransmitSlot ==
  ASSUME IInv, IInv', NEW i \in RxTx, Transmit(i), NEW j \in RxTx
  PROVE  SlotStep(j)
  <1>1. rx \in Time /\ Owner(rx) \in RxTx
    BY Times DEF IInv, TypeOK
  <1>2. QED
    BY <1>1 DEF Transmit, Goto, SlotStep, SlotState, Full, IInv, TypeOK, Mutual, Counters, Polled, Locked,
       Serving, Thread, RxTx, Prach, Fh, Nobody, PC, fhVars, histVars

LEMMA NextSlot ==
  ASSUME IInv, IInv', [Next]_vars, NEW j \in RxTx
  PROVE  SlotStep(j)
  <1>1. CASE FhReceive \/ FhPoll \/ FhLockError
    BY <1>1 DEF FhReceive, FhPoll, FhLockError, SlotStep, SlotState, Full, histVars
  <1>2. CASE FhPost
    BY <1>2, FhPostSlot
  <1>3. CASE Detect
    BY <1>3 DEF Detect, Goto, SlotStep, SlotState, Full, IInv, TypeOK, RxTx, Prach, Thread, histVars
  <1>4. ASSUME NEW t \in Thread, Owning(t) \/ Spurious(t) PROVE SlotStep(j)
    BY <1>4, LockSlot, TestSlot, UnlockSlot, CountDownSlot, SpuriousSlot DEF Owning
  <1>5. ASSUME NEW i \in RxTx, RxTxStep(i) PROVE SlotStep(j)
    <2>1. i \in Thread
      BY DEF Thread
    <2>2. QED
      BY <1>4, <1>5, <2>1, FepSlot, NoPrachSlot, HasPrachSlot, PrachPollSlot, PrachPostSlot,
         UeSpecSlot, TransmitSlot DEF RxTxStep
  <1>6. CASE UNCHANGED vars
    BY <1>6 DEF vars, SlotStep, SlotState, Full
  <1>7. Prach \in Thread
    BY DEF Thread
  <1>8. QED
    BY <1>1, <1>2, <1>3, <1>4, <1>5, <1>6, <1>7 DEF Next, Step, FrontHaul, PrachStep

\* No subframe is lost, overwritten or worked on twice, in either thread: both
\* implement Handoff, at any speed (wakeup_rxtx, wait_on_condition, release_thread).
THEOREM ThreadsAreSlots == Spec => SlotsImplemented
  <1>1. Init => EvenSlot!Init /\ OddSlot!Init
    <2> SUFFICES ASSUME Init PROVE EvenSlot!Init /\ OddSlot!Init
      OBVIOUS
    <2>1. Zero \in Time
      BY HandoffAssumption DEF Zero, Time
    <2>2. QED
      BY <2>1 DEF Init, EvenSlot!Init, OddSlot!Init, SlotState, Thread, RxTx, Prach
  <1>2. IInv /\ IInv' /\ [Next]_vars => [EvenSlot!Next]_(EvenSlot!vars)
    <2> SUFFICES ASSUME IInv, IInv', [Next]_vars PROVE [EvenSlot!Next]_(EvenSlot!vars)
      OBVIOUS
    <2>1. SlotStep(0)
      BY NextSlot DEF RxTx
    <2>2. QED
      BY <2>1 DEF SlotStep, EvenSlot!Next, EvenSlot!Post, EvenSlot!Take, EvenSlot!Finish,
                  EvenSlot!vars
  <1>3. IInv /\ IInv' /\ [Next]_vars => [OddSlot!Next]_(OddSlot!vars)
    <2> SUFFICES ASSUME IInv, IInv', [Next]_vars PROVE [OddSlot!Next]_(OddSlot!vars)
      OBVIOUS
    <2>1. SlotStep(1)
      BY NextSlot DEF RxTx
    <2>2. QED
      BY <2>1 DEF SlotStep, OddSlot!Next, OddSlot!Post, OddSlot!Take, OddSlot!Finish,
                  OddSlot!vars
  <1>4. QED
    BY <1>1, <1>2, <1>3, Invariance, PTL DEF Spec, SlotsImplemented, EvenSlot!Spec, OddSlot!Spec
-----------------------------------------------------------------------------
(* What Pacing adds: the live frame_rx and subframe_rx, which the front end and *)
(* do_prach read, are those of the subframe the thread was given.             *)

\* Thread i has a subframe it has not taken past the front end and do_prach.
Ahead(i) == cnt[i] = 0 /\ pc[i] \in {"enter", "held", "wait", "woken", "leave",
                                     "fep", "prach", "poll", "post"}

\* A received subframe finds its thread parked, and the PRACH thread idle.
Posting ==
    fpc \in {"poll", "post"} =>
        pc[Owner(rx)] = "wait" /\ cnt[Owner(rx)] = -1 /\ cnt[Prach] = -1

Current == \A i \in RxTx :
    /\ pc[i] = "wait" => cnt[i] = -1
    /\ cnt[i] = 0 => Owner(box[i]) = i
    /\ Ahead(i) => fpc = "rx" /\ box[i] = rx /\ cnt[Prach] = -1
    /\ pc[i] \in {"prach", "poll", "post", "uespec", "tx"} => front[i] = box[i]

Generating ==
    /\ cnt[0] = 0 => tx[0] = TxTime(box[0])
    /\ pc[0] = "release" => generated[0] = tx[0]

TimedInv == IInv /\ Posting /\ Current /\ Generating /\ PrachPostedOnce

PacedInv == paced => TimedInv

\* The four subframes of "subframe (n+4)", across a frame and the last frame.
LEMMA FourLater ==
  ASSUME NEW x \in Time
  PROVE  Following(Following(Following(Following(x)))) = TxTime(x)
  <1> USE HandoffAssumption
  <1>1. PICK f \in 0..(NumFrame - 1), s \in 0..9 : x = [frame |-> f, subframe |-> s]
    BY DEF Time
  <1> DEFINE g == (f + 1) % NumFrame
             At(a, b) == [frame |-> a, subframe |-> b]
  <1>2. /\ \A a, b : b # 9 => Following(At(a, b)) = At(a, b + 1)
        /\ \A a : Following(At(a, 9)) = At((a + 1) % NumFrame, 0)
    BY DEF Following
  <1>3. TxTime(At(f, s)) = At(IF s > 5 THEN g ELSE f, (s + 4) % 10)
    BY DEF TxTime
  <1> HIDE DEF g, At
  <1>4. CASE s \in 0..5
    <2>1. (s + 4) % 10 = s + 4 /\ ~(s > 5)
      BY <1>4
    <2>2. x = At(f, s)
      BY <1>1 DEF At
    <2>3. Following(At(f, s)) = At(f, s + 1) /\ Following(At(f, s + 1)) = At(f, s + 2)
      BY <1>4 DEF At, Following
    <2>4. Following(At(f, s + 2)) = At(f, s + 3) /\ Following(At(f, s + 3)) = At(f, s + 4)
      BY <1>4 DEF At, Following
    <2>5. QED
      BY <1>3, <2>1, <2>2, <2>3, <2>4
  <1>5. CASE s \in 6..9
    <2>1. s = 6 \/ s = 7 \/ s = 8 \/ s = 9
      BY <1>5
    <2>2. \A a : /\ Following(At(a, 6)) = At(a, 7) /\ Following(At(a, 7)) = At(a, 8)
                 /\ Following(At(a, 8)) = At(a, 9)
                 /\ Following(At(a, 0)) = At(a, 1) /\ Following(At(a, 1)) = At(a, 2)
                 /\ Following(At(a, 2)) = At(a, 3)
      BY <1>2
    <2>3. Following(At(f, 9)) = At(g, 0)
      BY <1>2 DEF g
    <2>4. /\ (6 + 4) % 10 = 0 /\ (7 + 4) % 10 = 1 /\ (8 + 4) % 10 = 2 /\ (9 + 4) % 10 = 3
          /\ s > 5
      BY <1>5
    <2>5. x = At(f, s)
      BY <1>1 DEF At
    <2>6. QED
      BY <1>3, <2>1, <2>2, <2>3, <2>4, <2>5
  <1>6. QED
    BY <1>4, <1>5

LEMMA TimedBegins == Init => TimedInv
  BY InitEstablishes DEF Init, TimedInv, Posting, Current, Ahead, Generating, PrachPostedOnce,
     Thread, RxTx, Prach

\* The fronthaul thread.
LEMMA FrontHaulKeepsTime ==
  ASSUME TimedInv, IInv', FrontHaul, Pacing
  PROVE  TimedInv'
  <1> USE DEF TimedInv, fhVars, histVars
  <1>0. /\ rx \in Time /\ Owner(rx) \in RxTx /\ 0 \in RxTx /\ Prach \notin RxTx
        /\ RxTx \subseteq Thread /\ Prach \in Thread
        /\ cnt \in [Thread -> -1..MaxCount] /\ pc \in [Thread -> PC]
        /\ box \in [Thread -> Time] /\ tx \in [RxTx -> Time]
        /\ \A i \in RxTx : cnt[i] <= 0
    BY Times DEF IInv, TypeOK, Thread, RxTx, Prach
  <1>1. CASE FhReceive
    <2>1. /\ fpc = "rx" /\ fpc' = "poll" /\ rx' = Following(rx)
          /\ UNCHANGED <<pc, cnt, box, tx, front, generated>>
      BY <1>1 DEF FhReceive
    <2>2. \A i \in RxTx : InTime(i)
      BY <1>1 DEF Pacing
    <2>3. Posting'
      BY <1>0, <2>1, <2>2 DEF Posting, InTime
    <2>4. \A i \in RxTx : ~Ahead(i)
      BY <2>2 DEF Ahead, InTime, Current
    <2>5. Current'
      BY <2>1, <2>4 DEF Current, Ahead
    <2>6. QED
      BY <2>1, <2>3, <2>5 DEF Generating, PrachPostedOnce
  <1>2. CASE FhPoll
    <2>1. /\ fpc = "poll" /\ fpc' \in {"poll", "post", "exit"}
          /\ UNCHANGED <<rx, pc, cnt, box, tx, front, generated>>
      BY <1>2 DEF FhPoll
    <2>2. \A i \in RxTx : ~Ahead(i)
      BY <2>1 DEF Current
    <2>3. QED
      BY <2>1, <2>2 DEF Posting, Current, Ahead, Generating, PrachPostedOnce
  <1>3. CASE FhPost
    <2> DEFINE o == Owner(rx)
    <2>1. /\ fpc = "post" /\ fpc' = "rx" /\ pc[o] = "wait" /\ cnt[o] = -1 /\ cnt[Prach] = -1
          /\ UNCHANGED <<rx, front, generated>>
      BY <1>3 DEF FhPost, Posting
    <2>2. /\ cnt'[o] = 0 /\ box'[o] = rx /\ tx'[o] = TxTime(rx) /\ pc'[o] = "woken"
          /\ \A t \in Thread \ {o} : cnt'[t] = cnt[t] /\ box'[t] = box[t] /\ pc'[t] = pc[t]
          /\ \A i \in RxTx \ {o} : tx'[i] = tx[i]
      BY <1>0, <1>3, <2>1 DEF FhPost
    <2> HIDE DEF o
    <2>3. o \in RxTx /\ Owner(rx) = o
      BY <1>0 DEF o
    <2>4. Current'
      BY <1>0, <2>1, <2>2, <2>3 DEF Current, Ahead
    <2>5. Generating'
      BY <1>0, <2>1, <2>2, <2>3 DEF Generating
    <2>6. Posting' /\ PrachPostedOnce'
      BY <1>0, <2>1, <2>2, <2>3 DEF Posting, PrachPostedOnce
    <2>7. QED
      BY <2>4, <2>5, <2>6
  <1>4. CASE FhLockError
    BY <1>4 DEF FhLockError, Posting, Current, Ahead, Generating, PrachPostedOnce
  <1>5. QED
    BY <1>1, <1>2, <1>3, <1>4 DEF FrontHaul

\* wait_on_condition and release_thread.
LEMMA OwningKeepsTime ==
  ASSUME TimedInv, IInv', NEW t \in Thread, Owning(t)
  PROVE  TimedInv'
  <1> USE DEF TimedInv, fhVars, histVars, Goto
  <1>0. /\ Owner(rx) \in RxTx /\ 0 \in RxTx /\ Prach \notin RxTx
        /\ RxTx \subseteq Thread /\ Prach \in Thread
        /\ cnt \in [Thread -> -1..MaxCount] /\ pc \in [Thread -> PC]
        /\ front \in [RxTx -> Time] /\ generated \in [RxTx -> Time]
        /\ \A i \in RxTx : cnt[i] <= 0
    BY Times DEF IInv, TypeOK, Thread, RxTx, Prach
  <1>1. CASE Lock(t)
    <2>1. /\ pc[t] \in {"enter", "woken", "release"}
          /\ pc'[t] = (IF pc[t] = "release" THEN "dec" ELSE "held")
          /\ \A s \in Thread \ {t} : pc'[s] = pc[s]
          /\ UNCHANGED <<fpc, rx, cnt, box, tx, front, generated>>
      BY <1>0, <1>1 DEF Lock
    <2>2. QED
      BY <1>0, <2>1 DEF Posting, Current, Ahead, Generating, PrachPostedOnce
  <1>2. CASE Test(t)
    <2>1. /\ pc[t] = "held" /\ pc'[t] = (IF cnt[t] < 0 THEN "wait" ELSE "leave")
          /\ \A s \in Thread \ {t} : pc'[s] = pc[s]
          /\ UNCHANGED <<fpc, rx, cnt, box, tx, front, generated>>
      BY <1>0, <1>2 DEF Test
    <2>2. QED
      BY <1>0, <2>1 DEF Posting, Current, Ahead, Generating, PrachPostedOnce
  <1>3. CASE Unlock(t)
    <2>1. /\ \/ pc[t] = "leave" /\ pc'[t] = (IF t = Prach THEN "detect" ELSE "fep")
             \/ pc[t] = "unlock" /\ pc'[t] = "enter"
          /\ \A s \in Thread \ {t} : pc'[s] = pc[s]
          /\ UNCHANGED <<fpc, rx, cnt, box, tx, front, generated>>
      BY <1>0, <1>3 DEF Unlock
    <2>2. t \in RxTx /\ pc[t] = "unlock" => cnt[t] = -1
      BY DEF IInv, Counters
    <2>3. QED
      BY <1>0, <2>1, <2>2 DEF Posting, Current, Ahead, Generating, PrachPostedOnce
  <1>4. CASE CountDown(t)
    <2>1. /\ pc[t] = "dec" /\ pc'[t] = "unlock" /\ cnt'[t] = cnt[t] - 1 /\ cnt[t] >= 0
          /\ \A s \in Thread \ {t} : pc'[s] = pc[s] /\ cnt'[s] = cnt[s]
          /\ \A i \in RxTx \ {t} : front'[i] = front[i] /\ generated'[i] = generated[i]
          /\ UNCHANGED <<fpc, rx, box, tx>>
      BY <1>0, <1>4 DEF CountDown, Cleared, IInv, Counters, Serving
    <2>2. cnt'[t] = -1
      BY <1>0, <2>1 DEF PrachPostedOnce, Thread
    <2>3. Posting' /\ PrachPostedOnce'
      BY <1>0, <2>1, <2>2 DEF Posting, PrachPostedOnce
    <2>4. Current' /\ Generating'
      BY <1>0, <2>1, <2>2 DEF Current, Ahead, Generating
    <2>5. QED
      BY <2>3, <2>4
  <1>5. QED
    BY <1>1, <1>2, <1>3, <1>4 DEF Owning

\* rxtx.
LEMMA RxTxKeepsTime ==
  ASSUME TimedInv, IInv', NEW i \in RxTx, RxTxStep(i)
  PROVE  TimedInv'
  <1> USE DEF TimedInv, fhVars, histVars, Goto
  <1>0. /\ Owner(rx) \in RxTx /\ 0 \in RxTx /\ Prach \notin RxTx /\ i \in Thread
        /\ RxTx \subseteq Thread /\ Prach \in Thread
        /\ cnt \in [Thread -> -1..MaxCount] /\ pc \in [Thread -> PC]
        /\ front \in [RxTx -> Time] /\ generated \in [RxTx -> Time] /\ box \in [Thread -> Time]
        /\ \A j \in RxTx : cnt[j] <= 0
    BY Times DEF IInv, TypeOK, Thread, RxTx, Prach
  <1>1. pc[i] \in Serving => cnt[i] = 0
    BY <1>0 DEF IInv, Counters
  <1>2. CASE Owning(i)
    BY <1>0, <1>2, OwningKeepsTime
  <1>3. CASE Fep(i)
    <2>1. /\ pc[i] = "fep" /\ pc'[i] = "prach" /\ front'[i] = rx
          /\ \A s \in Thread \ {i} : pc'[s] = pc[s]
          /\ \A j \in RxTx \ {i} : front'[j] = front[j]
          /\ UNCHANGED <<fpc, rx, cnt, box, tx, generated>>
      BY <1>0, <1>3 DEF Fep
    <2>2. box[i] = rx
      BY <1>1, <2>1 DEF Serving, Current, Ahead
    <2>3. QED
      BY <1>0, <2>1, <2>2 DEF Posting, Current, Ahead, Generating, PrachPostedOnce
  <1>4. CASE NoPrach(i) \/ HasPrach(i) \/ PrachPoll(i)
    <2>1. /\ pc[i] \in {"prach", "poll"} /\ pc'[i] \in {"poll", "post", "uespec", "exit"}
          /\ \A s \in Thread \ {i} : pc'[s] = pc[s]
          /\ UNCHANGED <<fpc, rx, cnt, box, tx, front, generated>>
      BY <1>0, <1>4 DEF NoPrach, HasPrach, PrachPoll
    <2>2. QED
      BY <1>0, <1>1, <2>1 DEF Serving, Posting, Current, Ahead, Generating, PrachPostedOnce
  <1>5. CASE PrachPost(i)
    <2>1. /\ pc[i] = "post" /\ pc'[i] = "uespec" /\ cnt'[Prach] = cnt[Prach] + 1
          /\ \A j \in RxTx \ {i} : pc'[j] = pc[j]
          /\ \A j \in RxTx : cnt'[j] = cnt[j] /\ box'[j] = box[j]
          /\ UNCHANGED <<fpc, rx, tx, front, generated>>
      BY <1>0, <1>5 DEF PrachPost
    <2>2. Ahead(i) /\ fpc = "rx" /\ box[i] = rx /\ cnt[Prach] = -1 /\ Owner(rx) = i
      BY <1>1, <2>1 DEF Serving, Current, Ahead
    <2>3. \A j \in RxTx \ {i} : ~Ahead(j)
      BY <2>2 DEF Current, Ahead
    <2>4. Posting' /\ PrachPostedOnce'
      BY <2>1, <2>2 DEF Posting, PrachPostedOnce
    <2>5. Current'
      BY <1>0, <2>1, <2>3 DEF Current, Ahead
    <2>6. Generating'
      BY <1>0, <2>1 DEF Generating
    <2>7. QED
      BY <2>4, <2>5, <2>6
  <1>6. CASE UeSpec(i)
    <2>1. /\ pc[i] = "uespec" /\ pc'[i] = "tx" /\ \A s \in Thread \ {i} : pc'[s] = pc[s]
          /\ UNCHANGED <<fpc, rx, cnt, box, tx, front, generated>>
      BY <1>0, <1>6 DEF UeSpec
    <2>2. QED
      BY <1>0, <2>1 DEF Posting, Current, Ahead, Generating, PrachPostedOnce
  <1>7. CASE Transmit(i)
    <2>1. /\ pc[i] = "tx" /\ pc'[i] = "release" /\ generated'[i] = tx[0]
          /\ \A s \in Thread \ {i} : pc'[s] = pc[s]
          /\ \A j \in RxTx \ {i} : generated'[j] = generated[j]
          /\ UNCHANGED <<fpc, rx, cnt, box, tx, front>>
      BY <1>0, <1>7 DEF Transmit
    <2>2. QED
      BY <1>0, <2>1 DEF Posting, Current, Ahead, Generating, PrachPostedOnce
  <1>8. QED
    BY <1>2, <1>3, <1>4, <1>5, <1>6, <1>7 DEF RxTxStep

LEMMA TimedStep ==
  ASSUME TimedInv, [Step /\ Pacing]_vars
  PROVE  TimedInv'
  <1>1. IInv'
    BY NextKeeps DEF TimedInv, Next
  <1>2. CASE FrontHaul /\ Pacing
    BY <1>1, <1>2, FrontHaulKeepsTime
  <1>3. CASE Detect
    <2>1. /\ \A s \in RxTx : pc'[s] = pc[s]
          /\ UNCHANGED <<fpc, rx, cnt, box, tx, front, generated>> /\ Owner(rx) \in RxTx /\ 0 \in RxTx
      BY <1>3, Times DEF Detect, Goto, TimedInv, IInv, TypeOK, Thread, RxTx, Prach, fhVars, histVars
    <2>2. QED
      BY <1>1, <2>1 DEF TimedInv, Posting, Current, Ahead, Generating, PrachPostedOnce
  <1>4. ASSUME NEW t \in Thread, Owning(t) PROVE TimedInv'
    BY <1>1, <1>4, OwningKeepsTime
  <1>5. ASSUME NEW i \in RxTx, RxTxStep(i) PROVE TimedInv'
    BY <1>1, <1>5, RxTxKeepsTime
  <1>6. CASE UNCHANGED vars
    BY <1>1, <1>6 DEF vars, fhVars, histVars, TimedInv, Posting, Current, Ahead, Generating,
          PrachPostedOnce
  <1>7. Prach \in Thread
    BY DEF Thread
  <1>8. QED
    BY <1>2, <1>3, <1>4, <1>5, <1>6, <1>7 DEF Step, PrachStep

THEOREM PacedInvariance == MCSpec => []PacedInv
  <1>1. MCInit => PacedInv
    BY TimedBegins DEF MCInit, PacedInv
  <1>2. PacedInv /\ [MCNext]_<<vars, paced>> => PacedInv'
    <2> SUFFICES ASSUME PacedInv, [MCNext]_<<vars, paced>>, paced' PROVE TimedInv'
      BY DEF PacedInv
    <2>1. TimedInv /\ [Step /\ Pacing]_vars
      BY DEF PacedInv, MCNext
    <2>2. QED
      BY <2>1, TimedStep
  <1>3. QED
    BY <1>1, <1>2, PTL DEF MCSpec

\* An RXTX thread in time works on its own subframe from the front end to the
\* transmission four later, posts a PRACH to an idle thread, and is never found
\* with its mutex held (wakeup_rxtx, rxtx, do_prach).
THEOREM HandoverInTime == MCSpec => []PacedHandover
  <1>1. PacedInv => PacedHandover
    <2> SUFFICES ASSUME paced, TimedInv
                 PROVE  FrontIsOwn /\ GeneratedOwn(0) /\ PrachPostedOnce /\ NoLockError
      BY DEF PacedInv, PacedHandover
    <2>1. FrontIsOwn
      BY DEF TimedInv, Current, FrontIsOwn, FrontOwn
    <2>2. GeneratedOwn(0)
      <3>1. box[0] \in Time
        BY DEF TimedInv, IInv, TypeOK, Thread, RxTx
      <3>2. QED
        BY <3>1, FourLater DEF TimedInv, Generating, GeneratedOwn
    <2>3. NoLockError
      <3>1. Owner(rx) \in Thread
        BY Times DEF TimedInv, IInv, TypeOK, Thread
      <3>2. QED
        BY <3>1 DEF TimedInv, IInv, Mutual, Locked, Posting, NoLockError
    <2>4. QED
      BY <2>1, <2>2, <2>3 DEF TimedInv
  <1>2. QED
    BY <1>1, PacedInvariance, PTL
=============================================================================
