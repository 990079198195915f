---------------------------- MODULE HalfWorkProofs ----------------------------
(***************************************************************************)
(* What the hand-over of half a call guarantees at any speed of the two      *)
(* threads, with spurious wake-ups and after calls that were given up while  *)
(* the helper was at work.                                                  *)
(*                                                                         *)
(* That the helper is off the caller's buffers follows from the counter      *)
(* alone, for all three helpers.  That it has done the half of this call     *)
(* needs the mutex: under it fep and td set the parameters before the helper *)
(* can see the counter.  te sets them in the open, and has no such theorem.  *)
(***************************************************************************)
EXTENDS HalfWork, TLAPS

\* The caller has its own half behind it, and has not given up.
Joining == {"join", "test", "sleep", "wait", "woken", "leave"}

\* Places a call of one segment does not come to.
Posting == {"lock", "check", "count", "params", "signal", "unlock"}

\* The mutex, which te does not keep to.
Mutex ==
    Locked =>
        /\ cpc \in {"check", "count", "params", "signal", "unlock", "test", "sleep", "leave"}
             => mutex = Caller
        /\ wpc \in {"test", "sleep", "leave", "dec", "unlock"} => mutex = Helper

\* The counter is 0 while the helper has a half in hand, and a call neither counts
\* up nor comes through its join before it is back at -1.
Counter ==
    /\ wpc \in Taken => cnt = 0
    /\ cpc \in {"count", "leave"} => cnt = -1
    /\ cpc \in {"idle", "returned"} /\ own # Abort => cnt = -1
    /\ cpc \in Joining => own # Abort

\* Between the counter and its parameters a fep or td call has the helper waiting;
\* what the helper does after them is the half of this call.
Posted ==
    Locked =>
        /\ cpc = "params" => cnt = 0 /\ wpc \notin Taken
        /\ cpc \in Posting \ {"signal", "unlock"} => ~asked
        /\ cpc \in {"signal", "unlock"} => asked
        /\ cpc \notin {"idle", "exit"} /\ cpc \notin Posting /\ kind = "split" => asked
        /\ asked /\ (cnt = -1 \/ wpc \in {"release", "dec"}) => outcome[Helper] # "none"

\* Each half that is done has left its result.
Results ==
    /\ cpc \in Joining \cup {"returned"} => outcome[Caller] = Outcome(own)
    /\ asked \/ outcome[Helper] = "none"
    /\ outcome[Helper] # "none" => outcome[Helper] = Outcome(ret)

Places == kind = "single" => cpc \notin Posting

IInv == TypeOK /\ Mutex /\ Counter /\ Posted /\ Results /\ Places
-----------------------------------------------------------------------------
LEMMA EndsFacts ==
  /\ MaxIter \in Nat \ {0} /\ Fail \in Nat /\ Fail > 1
  /\ Ends \subseteq Int
  /\ \A r \in Ends \cup {0} : Outcome(r) \in {"abort", "fail", "good"}
  BY HalfWorkAssumption DEF Ends, Fail, Abort, Outcome

LEMMA InitEstablishes == Init => IInv
  <1> USE DEF Caller, Helper, Nobody
  <1> SUFFICES ASSUME Init PROVE IInv
    OBVIOUS
  <1>1. TypeOK
    BY DEF Init, TypeOK, KindsOf
  <1>2. Mutex /\ Posted /\ Results /\ Places
    BY DEF Init, Mutex, Posted, Results, Places, Posting, Joining, Taken
  <1>3. Counter
    BY DEF Init, Counter, Joining, Taken
  <1>4. QED
    BY <1>1, <1>2, <1>3 DEF IInv

\* The caller.
LEMMA CallerKeeps ==
  ASSUME IInv, CallerStep, worker' = worker
  PROVE  IInv'
  <1> USE DEF Caller, Helper, Nobody, CGoto, WGoto, Locked
  <1>1. CASE TimedLock
    <2>1. TypeOK'
      BY <1>1 DEF TimedLock, IInv, TypeOK, Taken, Ends
    <2>2. Mutex'
      BY <1>1 DEF TimedLock, IInv, Mutex
    <2>3. Counter'
      BY <1>1 DEF TimedLock, IInv, Counter, TypeOK, Joining, Taken
    <2>4. Posted'
      BY <1>1 DEF TimedLock, IInv, Posted, Counter, Mutex, TypeOK, Places, Posting, Taken
    <2>5. Results'
      BY <1>1 DEF TimedLock, IInv, Results, TypeOK, Joining
    <2>6. Places'
      BY <1>1 DEF TimedLock, IInv, Places, Posting
    <2>7. QED
      BY <2>1, <2>2, <2>3, <2>4, <2>5, <2>6 DEF IInv
  <1>2. CASE Check
    <2>1. TypeOK'
      BY <1>2 DEF Check, IInv, TypeOK, Taken, Ends
    <2>2. Mutex'
      BY <1>2 DEF Check, IInv, Mutex
    <2>3. Counter'
      BY <1>2 DEF Check, IInv, Counter, TypeOK, Joining, Taken
    <2>4. Posted'
      BY <1>2 DEF Check, IInv, Posted, Counter, Mutex, TypeOK, Places, Posting, Taken
    <2>5. Results'
      BY <1>2 DEF Check, IInv, Results, TypeOK, Joining
    <2>6. Places'
      BY <1>2 DEF Check, IInv, Places, Posting
    <2>7. QED
      BY <2>1, <2>2, <2>3, <2>4, <2>5, <2>6 DEF IInv
  <1>3. CASE Count
    <2>1. TypeOK'
      BY <1>3 DEF Count, IInv, TypeOK, Taken, Counter, Ends
    <2>2. Mutex'
      BY <1>3 DEF Count, IInv, Mutex
    <2>3. Counter'
      BY <1>3 DEF Count, IInv, Counter, TypeOK, Joining, Taken
    <2>4. Posted'
      BY <1>3 DEF Count, IInv, Posted, Counter, Mutex, TypeOK, Places, Posting, Taken
    <2>5. Results'
      BY <1>3 DEF Count, IInv, Results, TypeOK, Joining
    <2>6. Places'
      BY <1>3 DEF Count, IInv, Places, Posting
    <2>7. QED
      BY <2>1, <2>2, <2>3, <2>4, <2>5, <2>6 DEF IInv
  <1>4. CASE Params
    <2>1. TypeOK'
      BY <1>4 DEF Params, IInv, TypeOK, Taken, Ends
    <2>2. Mutex'
      BY <1>4 DEF Params, IInv, Mutex
    <2>3. Counter'
      BY <1>4 DEF Params, IInv, Counter, TypeOK, Joining, Taken
    <2>4. Posted'
      BY <1>4 DEF Params, IInv, Posted, Counter, Mutex, TypeOK, Places, Posting, Taken
    <2>5. Results'
      BY <1>4 DEF Params, IInv, Results, TypeOK, Joining
    <2>6. Places'
      BY <1>4 DEF Params, IInv, Places, Posting
    <2>7. QED
      BY <2>1, <2>2, <2>3, <2>4, <2>5, <2>6 DEF IInv
  <1>5. CASE Signal
    <2>1. TypeOK'
      BY <1>5 DEF Signal, IInv, TypeOK, Taken, Ends
    <2>2. Mutex'
      BY <1>5 DEF Signal, IInv, Mutex
    <2>3. Counter'
      BY <1>5 DEF Signal, IInv, Counter, TypeOK, Joining, Taken
    <2>4. Posted'
      BY <1>5 DEF Signal, IInv, Posted, Counter, Mutex, TypeOK, Places, Posting, Taken
    <2>5. Results'
      BY <1>5 DEF Signal, IInv, Results, TypeOK, Joining
    <2>6. Places'
      BY <1>5 DEF Signal, IInv, Places, Posting
    <2>7. QED
      BY <2>1, <2>2, <2>3, <2>4, <2>5, <2>6 DEF IInv
  <1>6. CASE Unlock
    <2>1. TypeOK'
      BY <1>6 DEF Unlock, IInv, TypeOK, Taken, Ends
    <2>2. Mutex'
      BY <1>6 DEF Unlock, IInv, Mutex
    <2>3. Counter'
      BY <1>6 DEF Unlock, IInv, Counter, TypeOK, Joining, Taken
    <2>4. Posted'
      BY <1>6 DEF Unlock, IInv, Posted, Counter, Mutex, TypeOK, Places, Posting, Taken
    <2>5. Results'
      BY <1>6 DEF Unlock, IInv, Results, TypeOK, Joining
    <2>6. Places'
      BY <1>6 DEF Unlock, IInv, Places, Posting
    <2>7. QED
      BY <2>1, <2>2, <2>3, <2>4, <2>5, <2>6 DEF IInv
  <1>7. CASE CallerHalf
    <2>1. TypeOK'
      BY <1>7, EndsFacts DEF CallerHalf, IInv, TypeOK, Taken, Ends
    <2>2. Mutex'
      BY <1>7 DEF CallerHalf, IInv, Mutex
    <2>3. Counter'
      BY <1>7 DEF CallerHalf, IInv, Counter, TypeOK, Joining, Taken
    <2>4. Posted'
      BY <1>7 DEF CallerHalf, IInv, Posted, TypeOK, Posting, Taken, Outcome
    <2>5. Results'
      BY <1>7, EndsFacts DEF CallerHalf, IInv, Results, TypeOK, Joining
    <2>6. Places'
      BY <1>7 DEF CallerHalf, IInv, Places, Posting
    <2>7. QED
      BY <2>1, <2>2, <2>3, <2>4, <2>5, <2>6 DEF IInv
  <1>8. CASE JoinLock
    <2>1. TypeOK'
      BY <1>8 DEF JoinLock, IInv, TypeOK, Taken, Ends
    <2>2. Mutex'
      BY <1>8 DEF JoinLock, IInv, Mutex
    <2>3. Counter'
      BY <1>8 DEF JoinLock, IInv, Counter, TypeOK, Joining, Taken
    <2>4. Posted'
      BY <1>8 DEF JoinLock, IInv, Posted, Counter, Mutex, TypeOK, Places, Posting, Taken
    <2>5. Results'
      BY <1>8 DEF JoinLock, IInv, Results, TypeOK, Joining
    <2>6. Places'
      BY <1>8 DEF JoinLock, IInv, Places, Posting
    <2>7. QED
      BY <2>1, <2>2, <2>3, <2>4, <2>5, <2>6 DEF IInv
  <1>9. CASE JoinTest
    <2>1. TypeOK'
      BY <1>9 DEF JoinTest, IInv, TypeOK, Taken, Ends
    <2>2. Mutex'
      BY <1>9 DEF JoinTest, IInv, Mutex
    <2>3. Counter'
      BY <1>9 DEF JoinTest, IInv, Counter, TypeOK, Joining, Taken
    <2>4. Posted'
      BY <1>9 DEF JoinTest, IInv, Posted, Counter, Mutex, TypeOK, Places, Posting, Taken
    <2>5. Results'
      BY <1>9 DEF JoinTest, IInv, Results, TypeOK, Joining
    <2>6. Places'
      BY <1>9 DEF JoinTest, IInv, Places, Posting
    <2>7. QED
      BY <2>1, <2>2, <2>3, <2>4, <2>5, <2>6 DEF IInv
  <1>10. CASE JoinSleep
    <2>1. TypeOK'
      BY <1>10 DEF JoinSleep, IInv, TypeOK, Taken, Ends
    <2>2. Mutex'
      BY <1>10 DEF JoinSleep, IInv, Mutex
    <2>3. Counter'
      BY <1>10 DEF JoinSleep, IInv, Counter, TypeOK, Joining, Taken
    <2>4. Posted'
      BY <1>10 DEF JoinSleep, IInv, Posted, Counter, Mutex, TypeOK, Places, Posting, Taken
    <2>5. Results'
      BY <1>10 DEF JoinSleep, IInv, Results, TypeOK, Joining
    <2>6. Places'
      BY <1>10 DEF JoinSleep, IInv, Places, Posting
    <2>7. QED
      BY <2>1, <2>2, <2>3, <2>4, <2>5, <2>6 DEF IInv
  <1>11. CASE JoinUnlock
    <2>1. TypeOK'
      BY <1>11 DEF JoinUnlock, IInv, TypeOK, Taken, Ends
    <2>2. Mutex'
      BY <1>11 DEF JoinUnlock, IInv, Mutex
    <2>3. Counter'
      BY <1>11 DEF JoinUnlock, IInv, Counter, TypeOK, Joining, Taken
    <2>4. Posted'
      BY <1>11 DEF JoinUnlock, IInv, Posted, Counter, Mutex, TypeOK, Places, Posting, Taken
    <2>5. Results'
      BY <1>11 DEF JoinUnlock, IInv, Results, TypeOK, Joining
    <2>6. Places'
      BY <1>11 DEF JoinUnlock, IInv, Places, Posting
    <2>7. QED
      BY <2>1, <2>2, <2>3, <2>4, <2>5, <2>6 DEF IInv
  <1>12. CASE Return
    <2>1. TypeOK'
      BY <1>12 DEF Return, IInv, TypeOK, Taken, Ends
    <2>2. Mutex'
      BY <1>12 DEF Return, IInv, Mutex
    <2>3. Counter'
      BY <1>12 DEF Return, IInv, Counter, TypeOK, Joining, Taken
    <2>4. Posted'
      BY <1>12 DEF Return, IInv, Posted, Counter, Mutex, TypeOK, Places, Posting, Taken
    <2>5. Results'
      BY <1>12 DEF Return, IInv, Results, TypeOK, Joining
    <2>6. Places'
      BY <1>12 DEF Return, IInv, Places, Posting
    <2>7. QED
      BY <2>1, <2>2, <2>3, <2>4, <2>5, <2>6 DEF IInv
  <1>13. QED
    BY <1>1, <1>2, <1>3, <1>4, <1>5, <1>6, <1>7, <1>8, <1>9, <1>10, <1>11, <1>12 DEF CallerStep

\* The helper.
LEMMA HelperKeeps ==
  ASSUME IInv, HelperStep, worker' = worker
  PROVE  IInv'
  <1> USE DEF Caller, Helper, Nobody, CGoto, WGoto, Locked
  <1>1. CASE HelperLock
    <2>1. TypeOK'
      BY <1>1 DEF HelperLock, IInv, TypeOK, Taken, Ends
    <2>2. Mutex'
      BY <1>1 DEF HelperLock, IInv, Mutex
    <2>3. Counter'
      BY <1>1 DEF HelperLock, IInv, Counter, TypeOK, Joining, Taken
    <2>4. Posted'
      BY <1>1 DEF HelperLock, IInv, Posted, Counter, Mutex, TypeOK, Places, Posting, Taken
    <2>5. Results'
      BY <1>1 DEF HelperLock, IInv, Results, TypeOK, Joining
    <2>6. Places'
      BY <1>1 DEF HelperLock, IInv, Places, Posting
    <2>7. QED
      BY <2>1, <2>2, <2>3, <2>4, <2>5, <2>6 DEF IInv
  <1>2. CASE HelperTest
    <2>1. TypeOK'
      BY <1>2 DEF HelperTest, IInv, TypeOK, Taken, Ends
    <2>2. Mutex'
      BY <1>2 DEF HelperTest, IInv, Mutex
    <2>3. Counter'
      BY <1>2 DEF HelperTest, IInv, Counter, TypeOK, Joining, Taken
    <2>4. Posted'
      BY <1>2 DEF HelperTest, IInv, Posted, Counter, Mutex, TypeOK, Places, Posting, Taken
    <2>5. Results'
      BY <1>2 DEF HelperTest, IInv, Results, TypeOK, Joining
    <2>6. Places'
      BY <1>2 DEF HelperTest, IInv, Places, Posting
    <2>7. QED
      BY <2>1, <2>2, <2>3, <2>4, <2>5, <2>6 DEF IInv
  <1>3. CASE HelperSleep
    <2>1. TypeOK'
      BY <1>3 DEF HelperSleep, IInv, TypeOK, Taken, Ends
    <2>2. Mutex'
      BY <1>3 DEF HelperSleep, IInv, Mutex
    <2>3. Counter'
      BY <1>3 DEF HelperSleep, IInv, Counter, TypeOK, Joining, Taken
    <2>4. Posted'
      BY <1>3 DEF HelperSleep, IInv, Posted, Counter, Mutex, TypeOK, Places, Posting, Taken
    <2>5. Results'
      BY <1>3 DEF HelperSleep, IInv, Results, TypeOK, Joining
    <2>6. Places'
      BY <1>3 DEF HelperSleep, IInv, Places, Posting
    <2>7. QED
      BY <2>1, <2>2, <2>3, <2>4, <2>5, <2>6 DEF IInv
  <1>4. CASE HelperUnlock
    <2>1. TypeOK'
      BY <1>4 DEF HelperUnlock, IInv, TypeOK, Taken, Ends
    <2>2. Mutex'
      BY <1>4 DEF HelperUnlock, IInv, Mutex
    <2>3. Counter'
      BY <1>4 DEF HelperUnlock, IInv, Counter, TypeOK, Joining, Taken
    <2>4. Posted'
      BY <1>4 DEF HelperUnlock, IInv, Posted, Counter, Mutex, TypeOK, Places, Posting, Taken
    <2>5. Results'
      BY <1>4 DEF HelperUnlock, IInv, Results, TypeOK, Joining
    <2>6. Places'
      BY <1>4 DEF HelperUnlock, IInv, Places, Posting
    <2>7. QED
      BY <2>1, <2>2, <2>3, <2>4, <2>5, <2>6 DEF IInv
  <1>5. CASE HelperHalf
    <2>1. TypeOK'
      BY <1>5, EndsFacts DEF HelperHalf, IInv, TypeOK, Taken, Ends
    <2>2. Mutex'
      BY <1>5 DEF HelperHalf, IInv, Mutex
    <2>3. Counter'
      BY <1>5 DEF HelperHalf, IInv, Counter, TypeOK, Joining, Taken
    <2>4. Posted'
      BY <1>5 DEF HelperHalf, IInv, Posted, TypeOK, Posting, Taken, Outcome
    <2>5. Results'
      BY <1>5, EndsFacts DEF HelperHalf, IInv, Results, TypeOK, Joining
    <2>6. Places'
      BY <1>5 DEF HelperHalf, IInv, Places, Posting
    <2>7. QED
      BY <2>1, <2>2, <2>3, <2>4, <2>5, <2>6 DEF IInv
  <1>6. CASE CountDown
    <2>1. TypeOK'
      BY <1>6 DEF CountDown, IInv, TypeOK, Taken, Counter, Ends
    <2>2. Mutex'
      BY <1>6 DEF CountDown, IInv, Mutex
    <2>3. Counter'
      BY <1>6 DEF CountDown, IInv, Counter, TypeOK, Joining, Taken
    <2>4. Posted'
      BY <1>6 DEF CountDown, IInv, Posted, Counter, Mutex, TypeOK, Places, Posting, Taken
    <2>5. Results'
      BY <1>6 DEF CountDown, IInv, Results, TypeOK, Joining
    <2>6. Places'
      BY <1>6 DEF CountDown, IInv, Places, Posting
    <2>7. QED
      BY <2>1, <2>2, <2>3, <2>4, <2>5, <2>6 DEF IInv
  <1>7. CASE HelperSignal
    <2>1. TypeOK'
      BY <1>7 DEF HelperSignal, IInv, TypeOK, Taken, Ends
    <2>2. Mutex'
      BY <1>7 DEF HelperSignal, IInv, Mutex
    <2>3. Counter'
      BY <1>7 DEF HelperSignal, IInv, Counter, TypeOK, Joining, Taken
    <2>4. Posted'
      BY <1>7 DEF HelperSignal, IInv, Posted, Counter, Mutex, TypeOK, Places, Posting, Taken
    <2>5. Results'
      BY <1>7 DEF HelperSignal, IInv, Results, TypeOK, Joining
    <2>6. Places'
      BY <1>7 DEF HelperSignal, IInv, Places, Posting
    <2>7. QED
      BY <2>1, <2>2, <2>3, <2>4, <2>5, <2>6 DEF IInv
  <1>8. QED
    BY <1>1, <1>2, <1>3, <1>4, <1>5, <1>6, <1>7 DEF HelperStep

\* A next call, with the helper perhaps still at work for the one before.
LEMMA BeginKeeps ==
  ASSUME IInv, Begin, worker' = worker
  PROVE  IInv'
  <1> USE DEF Caller, Helper, Nobody, CGoto, WGoto, Locked
  <1>1. TypeOK'
    BY DEF Begin, IInv, TypeOK, Taken, Ends, KindsOf
  <1>2. Mutex'
    BY DEF Begin, IInv, Mutex, KindsOf
  <1>3. Counter'
    BY DEF Begin, IInv, Counter, TypeOK, Joining, Taken
  <1>4. Posted'
    BY DEF Begin, IInv, Posted, Counter, Mutex, TypeOK, Places, Posting, Taken,
           KindsOf, Joining
  <1>5. Results'
    BY DEF Begin, IInv, Results, TypeOK, Joining
  <1>6. Places'
    BY DEF Begin, IInv, Places, Posting, KindsOf
  <1>7. QED
    BY <1>1, <1>2, <1>3, <1>4, <1>5, <1>6 DEF IInv

\* Either is woken without a signal.
LEMMA SpuriousKeeps ==
  ASSUME IInv, Spurious, worker' = worker
  PROVE  IInv'
  <1> USE DEF Caller, Helper, Nobody, CGoto, WGoto, Locked
  <1>1. TypeOK'
    BY DEF Spurious, IInv, TypeOK, Taken, Ends
  <1>2. Mutex'
    BY DEF Spurious, IInv, Mutex
  <1>3. Counter'
    BY DEF Spurious, IInv, Counter, TypeOK, Joining, Taken
  <1>4. Posted'
    BY DEF Spurious, IInv, Posted, Counter, Mutex, TypeOK, Places, Posting, Taken
  <1>5. Results'
    BY DEF Spurious, IInv, Results, TypeOK, Joining
  <1>6. Places'
    BY DEF Spurious, IInv, Places, Posting
  <1>7. QED
    BY <1>1, <1>2, <1>3, <1>4, <1>5, <1>6 DEF IInv

\* The inductive invariant.
THEOREM Invariance == Spec => []IInv
  <1>1. Init => IInv
    BY InitEstablishes
  <1>2. IInv /\ [Next]_vars => IInv'
    <2> SUFFICES ASSUME IInv, [Next]_vars PROVE IInv'
      OBVIOUS
    <2>1. CASE Begin /\ UNCHANGED worker
      BY <2>1, BeginKeeps
    <2>2. CASE CallerStep /\ UNCHANGED worker
      BY <2>2, CallerKeeps
    <2>3. CASE HelperStep /\ UNCHANGED worker
      BY <2>3, HelperKeeps
    <2>4. CASE Spurious /\ UNCHANGED worker
      BY <2>4, SpuriousKeeps
    <2>5. CASE UNCHANGED vars
      BY <2>5 DEF vars, IInv, Mutex, Counter, Posted, Results, Places, TypeOK, Locked, Ends
    <2>6. QED
      BY <2>1, <2>2, <2>3, <2>4, <2>5 DEF Next, Signalled
  <1>3. QED
    BY <1>1, <1>2, PTL DEF Spec

\* A call that comes through its join finds the helper off its buffers, te's with
\* its retransmissions and its races included; a fep or td call has both halves
\* behind it (ulsch_decoding_data_2thread, eNB_fep_full_2thread).
THEOREM CallWaitsForBoth == Spec => []BothHalves
  <1>1. ASSUME IInv
        PROVE  BothHalves
    <2> USE DEF Caller, Helper
    <2>1. cpc \in {"idle", "returned"} /\ own # Abort => cnt = -1 /\ wpc \notin Taken
      BY <1>1 DEF IInv, Counter
    <2>2. ASSUME Locked, Joined, NEW h \in Full(kind)
          PROVE  outcome[h] # "none"
      <3>1. CASE h = Caller
        <4>1. outcome[Caller] = Outcome(own)
          BY <1>1, <2>2 DEF IInv, Results, Joined
        <4>2. QED
          BY <3>1, <4>1 DEF Outcome
      <3>2. CASE h = Helper
        <4>1. kind = "split" /\ cpc = "returned" /\ cnt = -1
          BY <1>1, <2>1, <2>2, <3>2 DEF IInv, TypeOK, Joined, Full, KindsOf, Locked
        <4>2. QED
          BY <1>1, <2>2, <3>2, <4>1 DEF IInv, Posted, Posting
      <3>3. QED
        BY <2>2, <3>1, <3>2 DEF Full
    <2>3. QED
      BY <2>1, <2>2 DEF BothHalves, HalvesDone
  <1>2. QED
    BY <1>1, Invariance, PTL

\* A block of several segments is reported lost exactly when a half of it is: the
\* maximum of the two results loses a helper that gives up (-1), but no failure.
THEOREM ResultOfBoth == Spec => []SplitResult
  <1>1. ASSUME IInv
        PROVE  SplitResult
    <2> SUFFICES ASSUME worker = "td", Joined, kind = "split"
                 PROVE  Value = Fail <=> \E h \in Full(kind) : outcome[h] = "fail"
      BY DEF SplitResult
    <2> USE DEF Caller, Helper
    <2>1. outcome[Caller] = Outcome(own)
      BY <1>1 DEF IInv, Results, Joined
    <2>2. outcome[Helper] = Outcome(ret)
      <3>1. cnt = -1 /\ asked
        BY <1>1 DEF IInv, Counter, Posted, Posting, Joined, Locked
      <3>2. QED
        BY <1>1, <3>1 DEF IInv, Posted, Results, Locked
    <2>3. /\ own \in Int /\ own <= Fail /\ own # Abort
          /\ ret \in Int /\ ret <= Fail
      BY <1>1, EndsFacts DEF IInv, TypeOK, Ends, Abort, Joined
    <2>4. Value = Fail <=> own = Fail \/ ret = Fail
      BY <2>3, EndsFacts DEF Value, Abort
    <2>5. Full(kind) = {Caller, Helper}
      BY DEF Full
    <2>6. /\ outcome[Caller] = "fail" <=> own = Fail
          /\ outcome[Helper] = "fail" <=> ret = Fail
      BY <2>1, <2>2, <2>3, EndsFacts DEF Outcome, Abort
    <2>7. QED
      BY <2>4, <2>5, <2>6
  <1>2. QED
    BY <1>1, Invariance, PTL

\* fep and td never write the parameters of a helper that has a half in hand, even
\* after calls given up: the counter makes the next call end the program instead.
THEOREM ParametersKept == Spec => ParamsKept
  <1>1. IInv => [Params /\ Locked => wpc \notin Taken]_vars
    BY DEF IInv, Posted, Params, CGoto
  <1>2. QED
    BY <1>1, Invariance, PTL DEF Spec, ParamsKept
=============================================================================
