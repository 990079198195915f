--------------------------- MODULE PdschPoolProofs ---------------------------
(* Theorems about PdschPool for every number of threads and UEs. *)
EXTENDS MCPdschPool, FiniteSetTheorems, TLAPS

(* The constants of the arithmetic every step rests on. *)
LEMMA Constants ==
    /\ NumThread \in Nat /\ NumUE \in Nat /\ CountMod \in Nat /\ NumSubframe \in Nat
    /\ 0 < NumThread /\ NumThread < NumUE /\ NumUE < CountMod /\ 0 < NumSubframe
    /\ \A S \in Schedules : S \subseteq UE
  BY PoolAssumption

(* A set of UEs is finite, and is all of them as soon as it counts NumUE. *)
LEMMA UECardinality ==
    ASSUME NEW S \in SUBSET UE
    PROVE  /\ IsFiniteSet(S)
           /\ Cardinality(S) \in Nat /\ Cardinality(S) <= NumUE
           /\ Cardinality(S) = NumUE => S = UE
  <1>1. IsFiniteSet(UE) /\ Cardinality(UE) = NumUE
    BY Constants, FS_Interval DEF UE
  <1>2. QED
    BY <1>1, FS_Subset, FS_CardinalityType, Constants

(* What the steps use of the index sets, so that they can stay unexpanded. *)
LEMMA Ranges ==
    /\ Worker \subseteq UE /\ Shared \subseteq UE /\ Last \in Shared
    /\ \A w \in Worker : w \in 0..NumThread /\ w # Free /\ w \notin Shared
    /\ \A u \in UE : u \in Worker \/ u \in Shared
    /\ \A u \in UE : u \in 0..NumUE /\ u + 1 \in 0..NumUE /\ (u # Last => u + 1 \in UE)
    /\ \A u \in Shared : u # Last => u + 1 \in Shared
    /\ \A w \in Worker : w # NumThread - 1 => w + 1 \in Worker
    /\ \A s \in Subframe : s # NumSubframe - 1 => s + 1 \in Subframe
    /\ 0 \in Worker /\ 0 \in Subframe /\ 0 \in 0..NumUE /\ 0 \in 0..(CountMod - 1)
    /\ NumThread \in Shared /\ NumThread \in 0..NumUE
    /\ Free \in 0..NumThread /\ Free \notin Worker
    /\ \A n \in 0..(CountMod - 1) :
          n + 1 # CountMod => n + 1 \in 0..(CountMod - 1)
  BY Constants DEF UE, Worker, Shared, Last, Subframe, Free

LEMMA AddUE == ASSUME NEW S \in SUBSET UE, NEW u \in UE PROVE S \cup {u} \in SUBSET UE
  OBVIOUS

(* Where the master leaves the barrier every UE is counted, so that no thread  *)
(* owns one or is about to.                                                   *)
LEMMA AtBarrier ==
    ASSUME IInv, PassBarrier
    PROVE  /\ handled = UE
           /\ \A w \in Worker : ~Owns(w) /\ pc[w] # "woken"
           /\ \A u \in Shared : ue_status[u] = 1
           /\ \A u \in UE : ~active[u]
           /\ encoded = asked[subframe]
  <1>1. handled = UE
    BY UECardinality DEF IInv, TypeOK, CountInv, PassBarrier
  <1>2. \A w \in Worker : ~Owns(w) /\ pc[w] # "woken"
    BY <1>1, Ranges DEF IInv, TypeOK, OwnInv, SignalInv
  <1>3. \A u \in Shared : ue_status[u] = 1
    BY <1>1, Ranges DEF IInv, StatusInv
  <1>4. ~Between
    BY DEF PassBarrier, Between
  <1>5. \A u \in UE : ~active[u]
    BY <1>1, <1>4 DEF IInv, ActiveInv
  <1>6. asked[subframe] \subseteq UE
    BY DEF IInv, TypeOK
  <1>7. encoded = asked[subframe]
    BY <1>4, <1>5, <1>6 DEF IInv, ActiveInv
  <1>8. QED
    BY <1>1, <1>2, <1>3, <1>5, <1>7

(* A UE that a thread can claim has been freed in this subframe; it is neither *)
(* counted nor owned.                                                         *)
LEMMA ClaimFree ==
    ASSUME IInv, NEW w \in Worker, Claim(w)
    PROVE  /\ idx[w] \in Shared /\ idx[w] \notin handled
           /\ \A v \in Worker : Owns(v) => UE_id[v] # idx[w]
           /\ \A v \in Worker : v # w => (Owns(v)' <=> Owns(v)) /\ UE_id'[v] = UE_id[v]
           /\ UE_id'[w] = idx[w]
           /\ pc'[w] = "unlock"
           /\ ~Between
  <1>1. idx[w] \in Shared /\ ue_status[idx[w]] = 0
    BY DEF IInv, TypeOK, Claim, StatusInv
  <1>2. idx[w] \notin handled /\ \A v \in Worker : Owns(v) => UE_id[v] # idx[w]
    BY <1>1 DEF IInv, StatusInv
  <1>3. ~Idle(w)
    BY DEF Claim, Idle
  <1>4. ~Between
    BY <1>1, <1>3 DEF IInv, StatusInv, Freed, Between
  <1>5. /\ UE_id'[w] = idx[w] /\ pc'[w] = "unlock"
        /\ \A v \in Worker : v # w => pc'[v] = pc[v] /\ UE_id'[v] = UE_id[v]
        /\ flag_wait' = flag_wait
    BY DEF IInv, TypeOK, Claim, Goto
  <1>6. QED
    BY <1>1, <1>2, <1>4, <1>5 DEF Owns, Holds

(* Every reachable state of the pool has the types declared. *)
LEMMA TypeStep == TypeOK /\ LoopInv /\ [Next]_vars => TypeOK'
  <1> SUFFICES ASSUME TypeOK, LoopInv, [Next]_vars PROVE TypeOK'
    OBVIOUS
  <1> USE Ranges DEF TypeOK, LoopInv, MasterPC, WorkerPC, masterVars, dlschVars, workerVars, sharedVars, histVars, Goto
  <1>1. CASE NextSubframe
    BY <1>1, Constants DEF NextSubframe
  <1>2. CASE ZeroCount
    BY <1>2 DEF ZeroCount
  <1>3. CASE FreeStatus
    BY <1>3 DEF FreeStatus
  <1>4. CASE SignalWorker
    BY <1>4 DEF SignalWorker
  <1>5. CASE PassBarrier
    BY <1>5, AtBarrier DEF PassBarrier
  <1>6. ASSUME NEW w \in Worker, Work(w) PROVE TypeOK'
    <2>1. CASE Top(w)
      BY <2>1 DEF Top
    <2>2. CASE Enter(w)
      BY <2>2 DEF Enter
    <2>3. CASE SkipUE(w)
      BY <2>3 DEF SkipUE
    <2>4. CASE StartEncode(w)
      BY <2>4 DEF StartEncode
    <2>5. CASE FinishEncode(w)
      <3>1. encoded' \in SUBSET UE
        BY <2>5, AddUE DEF FinishEncode
      <3>2. active' \in [UE -> BOOLEAN]
        BY <2>5 DEF FinishEncode
      <3>3. QED
        BY <2>5, <3>1, <3>2 DEF FinishEncode
    <2>6. CASE Lock(w)
      BY <2>6 DEF Lock
    <2>7. CASE LoadCount(w)
      BY <2>7 DEF LoadCount
    <2>8. CASE StoreCount(w)
      <3>1. handled' \in SUBSET UE
        BY <2>8, AddUE DEF StoreCount
      <3>2. QED
        BY <2>8, <3>1 DEF StoreCount
    <2>9. CASE ScanTaken(w)
      BY <2>9 DEF ScanTaken
    <2>10. CASE ScanLast(w)
      BY <2>10 DEF ScanLast
    <2>11. CASE Claim(w)
      BY <2>11 DEF Claim
    <2>12. CASE ScanEnd(w)
      BY <2>12 DEF ScanEnd
    <2>13. CASE Unlock(w)
      BY <2>13 DEF Unlock
    <2>14. CASE SeeFree(w)
      BY <2>14 DEF SeeFree
    <2>15. QED
      BY <1>6, <2>1, <2>2, <2>3, <2>4, <2>5, <2>6, <2>7, <2>8, <2>9, <2>10, <2>11,
         <2>12, <2>13, <2>14 DEF Work
  <1>7. CASE UNCHANGED vars
    BY <1>7 DEF vars
  <1>8. QED
    BY <1>1, <1>2, <1>3, <1>4, <1>5, <1>6, <1>7 DEF Next, Master

(* The master's loop variable stays in the range of its loop. *)
LEMMA LoopStep == IInv /\ [Next]_vars => LoopInv'
  <1> SUFFICES ASSUME IInv, [Next]_vars PROVE LoopInv'
    OBVIOUS
  <1> USE Ranges DEF IInv, TypeOK, masterVars, dlschVars, workerVars, sharedVars, histVars,
          Goto, LoopInv, MasterPC, WorkerPC
  <1>1. CASE NextSubframe
    BY <1>1 DEF NextSubframe
  <1>2. CASE ZeroCount
    BY <1>2 DEF ZeroCount
  <1>3. CASE FreeStatus
    BY <1>3 DEF FreeStatus
  <1>4. CASE SignalWorker
    BY <1>4 DEF SignalWorker
  <1>5. CASE PassBarrier
    BY <1>5, AtBarrier DEF PassBarrier
  <1>6. ASSUME NEW w \in Worker, Work(w) PROVE LoopInv'
    <2>1. CASE Top(w)
      BY <2>1 DEF Top
    <2>2. CASE Enter(w)
      BY <2>2 DEF Enter
    <2>3. CASE SkipUE(w)
      BY <2>3 DEF SkipUE
    <2>4. CASE StartEncode(w)
      BY <2>4 DEF StartEncode
    <2>5. CASE FinishEncode(w)
      BY <2>5 DEF FinishEncode
    <2>6. CASE Lock(w)
      BY <2>6 DEF Lock
    <2>7. CASE LoadCount(w)
      BY <2>7 DEF LoadCount
    <2>8. CASE StoreCount(w)
      BY <2>8 DEF StoreCount
    <2>9. CASE ScanTaken(w)
      BY <2>9 DEF ScanTaken
    <2>10. CASE ScanLast(w)
      BY <2>10 DEF ScanLast
    <2>11. CASE Claim(w)
      BY <2>11 DEF Claim
    <2>12. CASE ScanEnd(w)
      BY <2>12 DEF ScanEnd
    <2>13. CASE Unlock(w)
      BY <2>13 DEF Unlock
    <2>14. CASE SeeFree(w)
      BY <2>14 DEF SeeFree
    <2>15. QED
      BY <1>6, <2>1, <2>2, <2>3, <2>4, <2>5, <2>6, <2>7, <2>8, <2>9, <2>10, <2>11,
         <2>12, <2>13, <2>14 DEF Work
  <1>7. CASE UNCHANGED vars
    BY <1>7 DEF vars
  <1>8. QED
    BY <1>1, <1>2, <1>3, <1>4, <1>5, <1>6, <1>7 DEF Next, Master

(* uestatus_mutex is held by the thread between its lock and its unlock. *)
LEMMA MutexStep == IInv /\ [Next]_vars => MutexInv'
  <1> SUFFICES ASSUME IInv, [Next]_vars PROVE MutexInv'
    OBVIOUS
  <1> USE Ranges DEF IInv, TypeOK, masterVars, dlschVars, workerVars, sharedVars, histVars,
          Goto, MutexInv, InLock, WorkerPC
  <1>1. CASE NextSubframe
    BY <1>1 DEF NextSubframe
  <1>2. CASE ZeroCount
    BY <1>2 DEF ZeroCount
  <1>3. CASE FreeStatus
    BY <1>3 DEF FreeStatus
  <1>4. CASE SignalWorker
    BY <1>4 DEF SignalWorker
  <1>5. CASE PassBarrier
    BY <1>5, AtBarrier DEF PassBarrier
  <1>6. ASSUME NEW w \in Worker, Work(w) PROVE MutexInv'
    <2>1. CASE Top(w)
      BY <2>1 DEF Top
    <2>2. CASE Enter(w)
      BY <2>2 DEF Enter
    <2>3. CASE SkipUE(w)
      BY <2>3 DEF SkipUE
    <2>4. CASE StartEncode(w)
      BY <2>4 DEF StartEncode
    <2>5. CASE FinishEncode(w)
      BY <2>5 DEF FinishEncode
    <2>6. CASE Lock(w)
      BY <2>6 DEF Lock
    <2>7. CASE LoadCount(w)
      BY <2>7 DEF LoadCount
    <2>8. CASE StoreCount(w)
      BY <2>8 DEF StoreCount
    <2>9. CASE ScanTaken(w)
      BY <2>9 DEF ScanTaken
    <2>10. CASE ScanLast(w)
      BY <2>10 DEF ScanLast
    <2>11. CASE Claim(w)
      BY <2>11 DEF Claim
    <2>12. CASE ScanEnd(w)
      BY <2>12 DEF ScanEnd
    <2>13. CASE Unlock(w)
      BY <2>13 DEF Unlock
    <2>14. CASE SeeFree(w)
      BY <2>14 DEF SeeFree
    <2>15. QED
      BY <1>6, <2>1, <2>2, <2>3, <2>4, <2>5, <2>6, <2>7, <2>8, <2>9, <2>10, <2>11,
         <2>12, <2>13, <2>14 DEF Work
  <1>7. CASE UNCHANGED vars
    BY <1>7 DEF vars
  <1>8. QED
    BY <1>1, <1>2, <1>3, <1>4, <1>5, <1>6, <1>7 DEF Next, Master

(* A thread parks with its flag set. *)
LEMMA FlagStep == IInv /\ [Next]_vars => FlagInv'
  <1> SUFFICES ASSUME IInv, [Next]_vars PROVE FlagInv'
    OBVIOUS
  <1> USE Ranges DEF IInv, TypeOK, masterVars, dlschVars, workerVars, sharedVars, histVars,
          Goto, FlagInv, WorkerPC
  <1>1. CASE NextSubframe
    BY <1>1 DEF NextSubframe
  <1>2. CASE ZeroCount
    BY <1>2 DEF ZeroCount
  <1>3. CASE FreeStatus
    BY <1>3 DEF FreeStatus
  <1>4. CASE SignalWorker
    BY <1>4 DEF SignalWorker
  <1>5. CASE PassBarrier
    BY <1>5, AtBarrier DEF PassBarrier
  <1>6. ASSUME NEW w \in Worker, Work(w) PROVE FlagInv'
    <2>1. CASE Top(w)
      BY <2>1 DEF Top
    <2>2. CASE Enter(w)
      BY <2>2 DEF Enter
    <2>3. CASE SkipUE(w)
      BY <2>3 DEF SkipUE
    <2>4. CASE StartEncode(w)
      BY <2>4 DEF StartEncode
    <2>5. CASE FinishEncode(w)
      BY <2>5 DEF FinishEncode
    <2>6. CASE Lock(w)
      BY <2>6 DEF Lock
    <2>7. CASE LoadCount(w)
      BY <2>7 DEF LoadCount
    <2>8. CASE StoreCount(w)
      BY <2>8 DEF StoreCount
    <2>9. CASE ScanTaken(w)
      BY <2>9 DEF ScanTaken
    <2>10. CASE ScanLast(w)
      BY <2>10 DEF ScanLast
    <2>11. CASE Claim(w)
      BY <2>11 DEF Claim
    <2>12. CASE ScanEnd(w)
      BY <2>12 DEF ScanEnd
    <2>13. CASE Unlock(w)
      BY <2>13 DEF Unlock
    <2>14. CASE SeeFree(w)
      BY <2>14 DEF SeeFree
    <2>15. QED
      BY <1>6, <2>1, <2>2, <2>3, <2>4, <2>5, <2>6, <2>7, <2>8, <2>9, <2>10, <2>11,
         <2>12, <2>13, <2>14 DEF Work
  <1>7. CASE UNCHANGED vars
    BY <1>7 DEF vars
  <1>8. QED
    BY <1>1, <1>2, <1>3, <1>4, <1>5, <1>6, <1>7 DEF Next, Master

(* No UE is owned twice, nor owned once it is counted. *)
LEMMA OwnStep == IInv /\ [Next]_vars => OwnInv'
  <1> SUFFICES ASSUME IInv, [Next]_vars PROVE OwnInv'
    OBVIOUS
  <1> USE Ranges DEF IInv, TypeOK, masterVars, dlschVars, workerVars, sharedVars, histVars,
          Goto, OwnInv, Owns, Holds, FlagInv, StatusInv, SignalInv, Signalled, Between, MutexInv, InLock, WorkerPC
  <1>1. CASE NextSubframe
    BY <1>1 DEF NextSubframe
  <1>2. CASE ZeroCount
    BY <1>2 DEF ZeroCount
  <1>3. CASE FreeStatus
    BY <1>3 DEF FreeStatus
  <1>4. CASE SignalWorker
    BY <1>4 DEF SignalWorker
  <1>5. CASE PassBarrier
    BY <1>5, AtBarrier DEF PassBarrier
  <1>6. ASSUME NEW w \in Worker, Work(w) PROVE OwnInv'
    <2>1. CASE Top(w)
      BY <2>1 DEF Top
    <2>2. CASE Enter(w)
      BY <2>2 DEF Enter
    <2>3. CASE SkipUE(w)
      BY <2>3 DEF SkipUE
    <2>4. CASE StartEncode(w)
      BY <2>4 DEF StartEncode
    <2>5. CASE FinishEncode(w)
      BY <2>5 DEF FinishEncode
    <2>6. CASE Lock(w)
      BY <2>6 DEF Lock
    <2>7. CASE LoadCount(w)
      BY <2>7 DEF LoadCount
    <2>8. CASE StoreCount(w)
      BY <2>8 DEF StoreCount
    <2>9. CASE ScanTaken(w)
      BY <2>9 DEF ScanTaken
    <2>10. CASE ScanLast(w)
      BY <2>10 DEF ScanLast
    <2>11. CASE Claim(w)
      <3>1. handled' = handled
        BY <2>11 DEF Claim
      <3>2. ASSUME NEW v \in Worker, Owns(v)'
            PROVE  UE_id'[v] \notin handled' /\ (UE_id'[v] = v \/ UE_id'[v] \in Shared)
        BY <2>11, <3>1, <3>2, ClaimFree DEF OwnInv, IInv
      <3>3. ASSUME NEW u \in Worker, NEW v \in Worker, u # v, Owns(u)', Owns(v)'
            PROVE  UE_id'[u] # UE_id'[v]
        BY <2>11, <3>3, ClaimFree DEF OwnInv, IInv
      <3>4. QED
        BY <3>2, <3>3 DEF OwnInv
    <2>12. CASE ScanEnd(w)
      BY <2>12 DEF ScanEnd
    <2>13. CASE Unlock(w)
      BY <2>13 DEF Unlock
    <2>14. CASE SeeFree(w)
      BY <2>14 DEF SeeFree
    <2>15. QED
      BY <1>6, <2>1, <2>2, <2>3, <2>4, <2>5, <2>6, <2>7, <2>8, <2>9, <2>10, <2>11,
         <2>12, <2>13, <2>14 DEF Work
  <1>7. CASE UNCHANGED vars
    BY <1>7 DEF vars
  <1>8. QED
    BY <1>1, <1>2, <1>3, <1>4, <1>5, <1>6, <1>7 DEF Next, Master

(* ue_status marks what is owned or counted. *)
LEMMA StatusStep == IInv /\ [Next]_vars => StatusInv'
  <1> SUFFICES ASSUME IInv, [Next]_vars PROVE StatusInv'
    OBVIOUS
  <1> USE Ranges DEF IInv, TypeOK, masterVars, dlschVars, workerVars, sharedVars, histVars,
          Goto, MutexInv, InLock, StatusInv, Owns, Holds, Idle, Freed, LoopInv, FlagInv, SignalInv, Signalled, Between, OwnInv, WorkerPC, MasterPC
  <1>1. CASE NextSubframe
    BY <1>1 DEF NextSubframe
  <1>2. CASE ZeroCount
    BY <1>2 DEF ZeroCount
  <1>3. CASE FreeStatus
    BY <1>3 DEF FreeStatus
  <1>4. CASE SignalWorker
    BY <1>4 DEF SignalWorker
  <1>5. CASE PassBarrier
    BY <1>5, AtBarrier DEF PassBarrier
  <1>6. ASSUME NEW w \in Worker, Work(w) PROVE StatusInv'
    <2>1. CASE Top(w)
      BY <2>1 DEF Top
    <2>2. CASE Enter(w)
      BY <2>2 DEF Enter
    <2>3. CASE SkipUE(w)
      BY <2>3 DEF SkipUE
    <2>4. CASE StartEncode(w)
      BY <2>4 DEF StartEncode
    <2>5. CASE FinishEncode(w)
      BY <2>5 DEF FinishEncode
    <2>6. CASE Lock(w)
      BY <2>6 DEF Lock
    <2>7. CASE LoadCount(w)
      BY <2>7 DEF LoadCount
    <2>8. CASE StoreCount(w)
      BY <2>8 DEF StoreCount
    <2>9. CASE ScanTaken(w)
      BY <2>9 DEF ScanTaken
    <2>10. CASE ScanLast(w)
      BY <2>10 DEF ScanLast
    <2>11. CASE Claim(w)
      BY <2>11 DEF Claim
    <2>12. CASE ScanEnd(w)
      BY <2>12 DEF ScanEnd
    <2>13. CASE Unlock(w)
      BY <2>13 DEF Unlock
    <2>14. CASE SeeFree(w)
      BY <2>14 DEF SeeFree
    <2>15. QED
      BY <1>6, <2>1, <2>2, <2>3, <2>4, <2>5, <2>6, <2>7, <2>8, <2>9, <2>10, <2>11,
         <2>12, <2>13, <2>14 DEF Work
  <1>7. CASE UNCHANGED vars
    BY <1>7 DEF vars
  <1>8. QED
    BY <1>1, <1>2, <1>3, <1>4, <1>5, <1>6, <1>7 DEF Next, Master

(* Own UEs wait for their signal. *)
LEMMA SignalStep == IInv /\ [Next]_vars => SignalInv'
  <1> SUFFICES ASSUME IInv, [Next]_vars PROVE SignalInv'
    OBVIOUS
  <1> USE Ranges DEF IInv, TypeOK, masterVars, dlschVars, workerVars, sharedVars, histVars,
          Goto, SignalInv, Owns, Holds, Idle, Freed, LoopInv, FlagInv, StatusInv, Signalled, Between, OwnInv, WorkerPC, MasterPC
  <1>1. CASE NextSubframe
    BY <1>1 DEF NextSubframe
  <1>2. CASE ZeroCount
    BY <1>2 DEF ZeroCount
  <1>3. CASE FreeStatus
    BY <1>3 DEF FreeStatus
  <1>4. CASE SignalWorker
    BY <1>4 DEF SignalWorker
  <1>5. CASE PassBarrier
    BY <1>5, AtBarrier DEF PassBarrier
  <1>6. ASSUME NEW w \in Worker, Work(w) PROVE SignalInv'
    <2>1. CASE Top(w)
      BY <2>1 DEF Top
    <2>2. CASE Enter(w)
      BY <2>2 DEF Enter
    <2>3. CASE SkipUE(w)
      BY <2>3 DEF SkipUE
    <2>4. CASE StartEncode(w)
      BY <2>4 DEF StartEncode
    <2>5. CASE FinishEncode(w)
      BY <2>5 DEF FinishEncode
    <2>6. CASE Lock(w)
      BY <2>6 DEF Lock
    <2>7. CASE LoadCount(w)
      BY <2>7 DEF LoadCount
    <2>8. CASE StoreCount(w)
      BY <2>8 DEF StoreCount
    <2>9. CASE ScanTaken(w)
      BY <2>9 DEF ScanTaken
    <2>10. CASE ScanLast(w)
      BY <2>10 DEF ScanLast
    <2>11. CASE Claim(w)
      <3>1. handled' = handled /\ mpc' = mpc /\ k' = k
        BY <2>11 DEF Claim, masterVars, histVars
      <3>2. \A v \in Worker : pc'[v] = "woken" => pc[v] = "woken"
        BY <2>11 DEF Claim, Goto, IInv, TypeOK
      <3>3. \A v \in Worker : Owns(v)' /\ UE_id'[v] = v => Owns(v) /\ UE_id[v] = v
        BY <2>11, ClaimFree, Ranges
      <3>4. \A v \in Worker : Signalled(v)' <=> Signalled(v)
        BY <3>1 DEF Signalled, Between
      <3>5. ~Between'
        BY <2>11, <3>1, ClaimFree DEF Between
      <3>6. QED
        BY <3>1, <3>2, <3>3, <3>4, <3>5 DEF IInv, SignalInv
    <2>12. CASE ScanEnd(w)
      BY <2>12 DEF ScanEnd
    <2>13. CASE Unlock(w)
      BY <2>13 DEF Unlock
    <2>14. CASE SeeFree(w)
      BY <2>14 DEF SeeFree
    <2>15. QED
      BY <1>6, <2>1, <2>2, <2>3, <2>4, <2>5, <2>6, <2>7, <2>8, <2>9, <2>10, <2>11,
         <2>12, <2>13, <2>14 DEF Work
  <1>7. CASE UNCHANGED vars
    BY <1>7 DEF vars
  <1>8. QED
    BY <1>1, <1>2, <1>3, <1>4, <1>5, <1>6, <1>7 DEF Next, Master

(* Modulating a UE removes it, and only it, from the active ones. *)
LEMMA FinishEncodeActive ==
    ASSUME IInv, NEW w \in Worker, FinishEncode(w)
    PROVE  ActiveInv'
  <1>1. /\ pc \in [Worker -> WorkerPC] /\ UE_id \in [Worker -> UE]
        /\ active \in [UE -> BOOLEAN]
    BY DEF IInv, TypeOK
  <1>2. /\ UE_id[w] \in UE /\ pc[w] = "encode"
        /\ active' = [active EXCEPT ![UE_id[w]] = FALSE]
        /\ encoded' = encoded \cup {UE_id[w]} /\ pc' = [pc EXCEPT ![w] = "lock"]
        /\ mpc' = mpc /\ asked' = asked /\ subframe' = subframe /\ handled' = handled
        /\ UE_id' = UE_id
    BY <1>1 DEF FinishEncode, Goto, masterVars
  <1>3. \A u \in UE : u # UE_id[w] => active'[u] = active[u]
    BY <1>1, <1>2
  <1>4. ~active'[UE_id[w]]
    BY <1>1, <1>2, Zenon
  <1>5. \A v \in Worker : v # w /\ pc[v] = "encode" => UE_id[v] # UE_id[w]
    BY <1>2 DEF IInv, OwnInv, Owns, Holds
  <1>6. ~Between /\ ~Between'
    BY <1>2 DEF IInv, SignalInv, Between, Owns, Holds
  <1>7. ActiveInv
    BY DEF IInv
  <1>8. \A v \in Worker : UE_id[v] \in UE /\ UE_id'[v] = UE_id[v]
                        /\ (v # w => pc'[v] = pc[v])
    BY <1>1, <1>2
  <1>9. pc'[w] = "lock"
    BY <1>1, <1>2
  <1>10. ASSUME NEW v \in Worker
         PROVE  /\ pc'[v] = "encode" => active'[UE_id'[v]]
                /\ pc'[v] \in {"lock", "load", "store"} => ~active'[UE_id'[v]]
    <2>1. CASE v = w
      BY <2>1, <1>4, <1>8, <1>9
    <2>2. CASE v # w /\ UE_id[v] = UE_id[w]
      BY <2>2, <1>4, <1>5, <1>8
    <2>3. CASE v # w /\ UE_id[v] # UE_id[w]
      BY <2>3, <1>3, <1>7, <1>8 DEF ActiveInv
    <2>4. QED
      BY <2>1, <2>2, <2>3
  <1>11. encoded' \subseteq asked'[subframe']
    <2>1. UE_id[w] \in asked[subframe]
      BY <1>2, <1>6, <1>7 DEF ActiveInv
    <2>2. QED
      BY <2>1, <1>2, <1>6, <1>7 DEF ActiveInv
  <1>12. ASSUME NEW u \in UE
         PROVE  active'[u] <=> u \in asked'[subframe'] \ encoded'
    <2>1. CASE u = UE_id[w]
      BY <2>1, <1>2, <1>4
    <2>2. CASE u # UE_id[w]
      BY <2>2, <1>2, <1>3, <1>6, <1>7 DEF ActiveInv
    <2>3. QED
      BY <2>1, <2>2
  <1>13. ASSUME NEW u \in handled'
         PROVE  ~active'[u]
    <2>1. u \in UE /\ u \in handled
      BY <1>2 DEF IInv, TypeOK
    <2>2. CASE u = UE_id[w]
      BY <2>2, <1>4
    <2>3. CASE u # UE_id[w]
      BY <2>1, <2>3, <1>3, <1>6, <1>7 DEF ActiveInv
    <2>4. QED
      BY <2>2, <2>3
  <1>14. QED
    BY <1>6, <1>10, <1>11, <1>12, <1>13 DEF ActiveInv, Between

(* Active UEs are those yet to be modulated. *)
LEMMA ActiveStep == IInv /\ [Next]_vars => ActiveInv'
  <1> SUFFICES ASSUME IInv, [Next]_vars PROVE ActiveInv'
    OBVIOUS
  <1> USE Ranges DEF IInv, TypeOK, masterVars, dlschVars, workerVars, sharedVars, histVars,
          Goto, ActiveInv, Between, WorkerPC
  <1>1. CASE NextSubframe
    <2>1. PICK S \in Schedules :
            /\ asked' = [asked EXCEPT ![subframe'] = S]
            /\ active' = [u \in UE |-> active[u] \/ u \in S]
      BY <1>1 DEF NextSubframe
    <2>2. subframe' \in Subframe
      BY <1>1 DEF NextSubframe
    <2>3. asked'[subframe'] = S
      BY <2>1, <2>2
    <2>4. \A u \in UE : active'[u] <=> u \in S
      BY <1>1, <2>1 DEF NextSubframe
    <2>5. mpc' = "zero" /\ pc' = pc /\ Between /\ Between'
      BY <1>1 DEF NextSubframe, Between
    <2>6. \A w \in Worker : pc[w] \notin {"encode", "lock", "load", "store"}
      BY <2>5 DEF SignalInv, Owns, Holds
    <2>7. QED
      BY <2>3, <2>4, <2>5, <2>6
  <1>2. CASE ZeroCount
    BY <1>2 DEF ZeroCount
  <1>3. CASE FreeStatus
    BY <1>3 DEF FreeStatus
  <1>4. CASE SignalWorker
    BY <1>4 DEF SignalWorker
  <1>5. CASE PassBarrier
    BY <1>5, AtBarrier DEF PassBarrier
  <1>6. ASSUME NEW w \in Worker, Work(w) PROVE ActiveInv'
    <2>1. CASE Top(w)
      BY <2>1 DEF Top
    <2>2. CASE Enter(w)
      BY <2>2 DEF Enter
    <2>3. CASE SkipUE(w)
      BY <2>3 DEF SkipUE
    <2>4. CASE StartEncode(w)
      BY <2>4 DEF StartEncode
    <2>5. CASE FinishEncode(w)
      BY <2>5, FinishEncodeActive
    <2>6. CASE Lock(w)
      BY <2>6 DEF Lock
    <2>7. CASE LoadCount(w)
      BY <2>7 DEF LoadCount
    <2>8. CASE StoreCount(w)
      BY <2>8 DEF StoreCount
    <2>9. CASE ScanTaken(w)
      BY <2>9 DEF ScanTaken
    <2>10. CASE ScanLast(w)
      BY <2>10 DEF ScanLast
    <2>11. CASE Claim(w)
      BY <2>11 DEF Claim
    <2>12. CASE ScanEnd(w)
      BY <2>12 DEF ScanEnd
    <2>13. CASE Unlock(w)
      BY <2>13 DEF Unlock
    <2>14. CASE SeeFree(w)
      BY <2>14 DEF SeeFree
    <2>15. QED
      BY <1>6, <2>1, <2>2, <2>3, <2>4, <2>5, <2>6, <2>7, <2>8, <2>9, <2>10, <2>11,
         <2>12, <2>13, <2>14 DEF Work
  <1>7. CASE UNCHANGED vars
    BY <1>7 DEF vars
  <1>8. QED
    BY <1>1, <1>2, <1>3, <1>4, <1>5, <1>6, <1>7 DEF Next, Master

(* The count is exact. *)
LEMMA CountStep == IInv /\ [Next]_vars => CountInv'
  <1> SUFFICES ASSUME IInv, [Next]_vars PROVE CountInv'
    OBVIOUS
  <1> USE Ranges DEF IInv, TypeOK, masterVars, dlschVars, workerVars, sharedVars, histVars,
          Goto, CountInv, MutexInv, InLock
  <1>1. CASE NextSubframe
    BY <1>1 DEF NextSubframe
  <1>2. CASE ZeroCount
    BY <1>2, FS_EmptySet DEF ZeroCount, SignalInv, Between, Owns, Holds
  <1>3. CASE FreeStatus
    BY <1>3 DEF FreeStatus
  <1>4. CASE SignalWorker
    BY <1>4 DEF SignalWorker
  <1>5. CASE PassBarrier
    BY <1>5, AtBarrier DEF PassBarrier
  <1>6. ASSUME NEW w \in Worker, Work(w) PROVE CountInv'
    <2>1. CASE Top(w)
      BY <2>1 DEF Top
    <2>2. CASE Enter(w)
      BY <2>2 DEF Enter
    <2>3. CASE SkipUE(w)
      BY <2>3 DEF SkipUE
    <2>4. CASE StartEncode(w)
      BY <2>4 DEF StartEncode
    <2>5. CASE FinishEncode(w)
      BY <2>5 DEF FinishEncode
    <2>6. CASE Lock(w)
      BY <2>6 DEF Lock
    <2>7. CASE LoadCount(w)
      BY <2>7 DEF LoadCount
    <2>8. CASE StoreCount(w)
      <3>1. UE_id[w] \in UE \ handled
        BY <2>8 DEF StoreCount, OwnInv, Owns, Holds
      <3>2. handled' \in SUBSET UE /\ handled' = handled \cup {UE_id[w]}
        BY <2>8, <3>1, AddUE DEF StoreCount
      <3>3. Cardinality(handled') = complete_pdsch + 1
        BY <3>1, <3>2, UECardinality, FS_AddElement
      <3>4. Cardinality(handled') \in Nat /\ Cardinality(handled') <= NumUE
        BY <3>2, UECardinality
      <3>5. tmp[w] = complete_pdsch
        BY <2>8 DEF StoreCount
      <3>6. complete_pdsch + 1 # CountMod
        BY <3>3, <3>4, Constants
      <3>7. complete_pdsch' = Cardinality(handled')
        BY <2>8, <3>3, <3>5, <3>6 DEF StoreCount
      <3>8. \A v \in Worker : pc'[v] # "store"
        BY <2>8 DEF StoreCount
      <3>9. QED
        BY <3>7, <3>8
    <2>9. CASE ScanTaken(w)
      BY <2>9 DEF ScanTaken
    <2>10. CASE ScanLast(w)
      BY <2>10 DEF ScanLast
    <2>11. CASE Claim(w)
      BY <2>11 DEF Claim
    <2>12. CASE ScanEnd(w)
      BY <2>12 DEF ScanEnd
    <2>13. CASE Unlock(w)
      BY <2>13 DEF Unlock
    <2>14. CASE SeeFree(w)
      BY <2>14 DEF SeeFree
    <2>15. QED
      BY <1>6, <2>1, <2>2, <2>3, <2>4, <2>5, <2>6, <2>7, <2>8, <2>9, <2>10, <2>11,
         <2>12, <2>13, <2>14 DEF Work
  <1>7. CASE UNCHANGED vars
    BY <1>7 DEF vars
  <1>8. QED
    BY <1>1, <1>2, <1>3, <1>4, <1>5, <1>6, <1>7 DEF Next, Master

(***************************************************************************)
(* The theorems.                                                           *)
(***************************************************************************)

(* Before the first subframe the pool has nothing counted, owned or active. *)
LEMMA InitInv == Init => IInv
  <1> SUFFICES ASSUME Init PROVE IInv
    OBVIOUS
  <1>1. TypeOK
    BY Ranges DEF Init, TypeOK, MasterPC, WorkerPC
  <1>2. LoopInv /\ MutexInv /\ OwnInv /\ FlagInv /\ StatusInv /\ SignalInv
    BY Ranges DEF Init, LoopInv, MutexInv, InLock, OwnInv, FlagInv, StatusInv, SignalInv,
       Owns, Holds, Idle, Freed, Signalled, Between
  <1>3. CountInv
    BY FS_EmptySet DEF Init, CountInv
  <1>4. ActiveInv
    BY DEF Init, ActiveInv, Between
  <1>5. QED
    BY <1>1, <1>2, <1>3, <1>4 DEF IInv

LEMMA StepInv == IInv /\ [Next]_vars => IInv'
  <1> SUFFICES ASSUME IInv, [Next]_vars PROVE IInv'
    OBVIOUS
  <1>1. TypeOK'
    BY TypeStep DEF IInv
  <1>2. QED
    BY <1>1, LoopStep, MutexStep, CountStep, OwnStep, FlagStep, StatusStep, SignalStep,
       ActiveStep DEF IInv

(* The invariant holds in every state of every pool of threads. *)
THEOREM Invariance == Spec => []IInv
  BY InitInv, StepInv, PTL DEF Spec

(* Every variable keeps to its type: in particular complete_pdsch never wraps. *)
THEOREM TypeCorrect == Spec => []TypeOK
  <1>1. IInv => TypeOK
    BY DEF IInv
  <1>2. QED
    BY <1>1, Invariance, PTL

(* No two threads ever hold the same UE: the claims through ue_status exclude   *)
(* each other although the master frees the entries without the mutex.         *)
THEOREM NoUEShared == Spec => []NoSharedUE
  <1>1. IInv => NoSharedUE
    BY DEF IInv, OwnInv, Owns, NoSharedUE
  <1>2. QED
    BY <1>1, Invariance, PTL

(* No thread holds a UE once the master has left the barrier. *)
THEOREM QuietAfterBarrier == Spec => []QuietOutsideRound
  <1>1. IInv => QuietOutsideRound
    BY DEF IInv, SignalInv, Between, Owns, QuietOutsideRound
  <1>2. QED
    BY <1>1, Invariance, PTL

(* complete_pdsch is never advanced twice for one UE. *)
THEOREM EachCountedOnce == Spec => CountedOnce
  <1>1. IInv => \A w \in Worker : StoreCount(w) => UE_id[w] \notin handled
    BY DEF IInv, OwnInv, Owns, Holds, StoreCount
  <1>2. QED
    BY <1>1, Invariance, PTL DEF CountedOnce

(* The master leaves the barrier only when every UE has been served and exactly *)
(* the scheduled ones modulated.                                               *)
THEOREM BarrierIsComplete == Spec => BarrierComplete
  <1>1. IInv => (PassBarrier => /\ handled = UE
                                /\ encoded = asked[subframe]
                                /\ \A u \in UE : ~active[u])
    BY AtBarrier
  <1>2. QED
    BY <1>1, Invariance, PTL DEF BarrierComplete

(* Modulating and counting a UE are steps of the abstract round, the others     *)
(* that change its state open and close it.                                    *)

LEMMA RoundStep == IInv /\ [Next]_vars => [Round!Next]_(Round!vars)
  <1> SUFFICES ASSUME IInv, [Next]_vars, ~(UNCHANGED Round!vars) PROVE Round!Next
    OBVIOUS
  <1>0. active \in [UE -> BOOLEAN] /\ UE_id \in [Worker -> UE] /\ handled \subseteq UE
    BY DEF IInv, TypeOK
  <1>1. CASE NextSubframe
    <2>1. Round!Open
      BY <1>1 DEF NextSubframe, Round!Open
    <2>2. QED
      BY <2>1 DEF Round!Next
  <1>2. CASE ZeroCount
    BY <1>2 DEF ZeroCount, Round!vars, dlschVars
  <1>3. CASE FreeStatus
    BY <1>3 DEF FreeStatus, Round!vars, dlschVars, histVars
  <1>4. CASE SignalWorker
    BY <1>4 DEF SignalWorker, Round!vars, dlschVars, histVars
  <1>5. CASE PassBarrier
    <2>1. Round!Close
      BY <1>5, AtBarrier DEF PassBarrier, Round!Close, dlschVars, histVars
    <2>2. QED
      BY <2>1 DEF Round!Next
  <1>6. ASSUME NEW w \in Worker, Work(w) PROVE Round!Next
    <2>1. CASE FinishEncode(w)
      <3>1. Owns(w)
        BY <2>1 DEF FinishEncode, Owns, Holds
      <3>2. ~Between /\ UE_id[w] \in UE \ handled /\ active[UE_id[w]]
        BY <1>0, <2>1, <3>1 DEF IInv, SignalInv, OwnInv, ActiveInv, FinishEncode
      <3>3. {u \in UE : active'[u]} = {u \in UE : active[u]} \ {UE_id[w]}
        <4>1. \A u \in UE : u # UE_id[w] => active'[u] = active[u]
          BY <1>0, <2>1 DEF FinishEncode
        <4>2. ~active'[UE_id[w]]
          BY <1>0, <2>1, <3>2, Zenon DEF FinishEncode
        <4>3. QED
          BY <4>1, <4>2
      <3>4. PICK u \in UE : u = UE_id[w]
        BY <3>2
      <3>5. Round!Modulate(u)
        BY <2>1, <3>2, <3>3, <3>4 DEF FinishEncode, Round!Modulate, Between, masterVars
      <3>6. QED
        BY <3>5 DEF Round!Next
    <2>2. CASE StoreCount(w)
      <3>1. Owns(w)
        BY <2>2 DEF StoreCount, Owns, Holds
      <3>2. ~Between /\ UE_id[w] \in UE \ handled /\ ~active[UE_id[w]]
        BY <1>0, <2>2, <3>1 DEF IInv, SignalInv, OwnInv, ActiveInv, StoreCount
      <3>3. PICK u \in UE : u = UE_id[w]
        BY <3>2
      <3>4. Round!Serve(u)
        BY <2>2, <3>2, <3>3 DEF StoreCount, Round!Serve, Between, masterVars, dlschVars
      <3>5. QED
        BY <3>4 DEF Round!Next
    <2>3. CASE ~FinishEncode(w) /\ ~StoreCount(w)
      <3>1. UNCHANGED <<mpc, active, handled>>
        BY <1>6, <2>3 DEF Work, Top, Enter, SkipUE, StartEncode, Lock, LoadCount,
           ScanTaken, ScanLast, SeeFree, Claim, ScanEnd, Unlock,
           masterVars, dlschVars, histVars
      <3>2. QED
        BY <3>1 DEF Round!vars
    <2>4. QED
      BY <2>1, <2>2, <2>3
  <1>7. CASE UNCHANGED vars
    BY <1>7 DEF vars, Round!vars, masterVars, dlschVars, histVars
  <1>8. QED
    BY <1>1, <1>2, <1>3, <1>4, <1>5, <1>6, <1>7 DEF Next, Master

(* Every behaviour of the threads is, seen through the counters and the active  *)
(* flags, a behaviour of the abstract round.                                   *)
THEOREM PoolImplementsRound == Spec => RoundImplemented
  <1>1. Init => Round!Init
    BY DEF Init, Round!Init
  <1>2. QED
    BY <1>1, RoundStep, Invariance, PTL DEF Spec, RoundImplemented, Round!Spec

-----------------------------------------------------------------------------
(***************************************************************************)
(* Under the real-time assumption: MCSpec with paced.                       *)
(***************************************************************************)

(* A step of the pool in time. *)
PacedStep == [Next]_vars /\ Pacing

(* No subframe begins while a thread is out, so the one it has read stays.     *)
LEMMA SnapStep == IInv /\ SnapInv /\ PacedStep => SnapInv'
  <1> SUFFICES ASSUME IInv, SnapInv, PacedStep PROVE SnapInv'
    OBVIOUS
  <1> USE DEF SnapInv, InLock, Owns, Holds, IInv, TypeOK, masterVars, workerVars
  <1>1. CASE NextSubframe
    BY <1>1 DEF NextSubframe, PacedStep, Pacing
  <1>2. CASE ZeroCount \/ FreeStatus \/ PassBarrier \/ UNCHANGED vars
    BY <1>2 DEF ZeroCount, FreeStatus, PassBarrier, vars
  <1>3. CASE SignalWorker
    BY <1>3 DEF SignalWorker
  <1>4. ASSUME NEW w \in Worker, Work(w) PROVE SnapInv'
    <2>1. subframe' = subframe
      BY <1>4 DEF Work, Top, Enter, SkipUE, StartEncode, FinishEncode, Lock, LoadCount,
                  StoreCount, ScanTaken, ScanLast, SeeFree, Claim, ScanEnd, Unlock
    <2>2. CASE Enter(w)
      BY <2>1, <2>2 DEF Enter, Goto
    <2>3. CASE Top(w) \/ SkipUE(w) \/ StartEncode(w) \/ FinishEncode(w) \/ Lock(w)
                     \/ LoadCount(w) \/ StoreCount(w)
      BY <2>1, <2>3 DEF Top, SkipUE, StartEncode, FinishEncode, Lock, LoadCount, StoreCount,
                        Goto
    <2>4. CASE ScanTaken(w) \/ ScanLast(w) \/ SeeFree(w) \/ Claim(w) \/ ScanEnd(w)
                     \/ Unlock(w)
      BY <2>1, <2>4 DEF ScanTaken, ScanLast, SeeFree, Claim, ScanEnd, Unlock, Goto
    <2>5. QED
      BY <1>4, <2>2, <2>3, <2>4 DEF Work
  <1>5. QED
    BY <1>1, <1>2, <1>3, <1>4 DEF PacedStep, Next, Master

(* A UE goes from modulated to counted in the hands of one thread. *)
LEMMA EncodedStep == IInv /\ EncodedInv /\ [Next]_vars => EncodedInv'
  <1> SUFFICES ASSUME IInv, EncodedInv, [Next]_vars PROVE EncodedInv'
    OBVIOUS
  <1> USE DEF EncodedInv, IInv, TypeOK, histVars, workerVars
  <1>1. CASE ZeroCount
    BY <1>1 DEF ZeroCount
  <1>2. CASE NextSubframe \/ FreeStatus \/ PassBarrier \/ UNCHANGED vars
    BY <1>2 DEF NextSubframe, FreeStatus, PassBarrier, vars
  <1>3. CASE SignalWorker
    <2>1. \A w \in Worker : pc[w] \in {"lock", "load", "store"} => pc'[w] = pc[w]
      BY <1>3 DEF SignalWorker
    <2>2. QED
      BY <1>3, <2>1 DEF SignalWorker
  <1>4. ASSUME NEW w \in Worker, Work(w) PROVE EncodedInv'
    <2>1. CASE FinishEncode(w)
      <3>1. pc'[w] = "lock" /\ UE_id' = UE_id /\ handled' = handled
            /\ encoded' = encoded \cup {UE_id[w]}
        BY <2>1 DEF FinishEncode, Goto
      <3>2. \A v \in Worker \ {w} : pc'[v] = pc[v]
        BY <2>1 DEF FinishEncode, Goto
      <3>3. pc[w] = "encode"
        BY <2>1 DEF FinishEncode
      <3>4. QED
        BY <3>1, <3>2, <3>3
    <2>2. CASE StoreCount(w)
      <3>1. UE_id' = UE_id /\ handled' = handled \cup {UE_id[w]} /\ encoded' = encoded
        BY <2>2 DEF StoreCount
      <3>2. \A v \in Worker \ {w} : pc'[v] = pc[v]
        BY <2>2 DEF StoreCount, Goto
      <3>3. QED
        BY <3>1, <3>2
    <2>3. CASE Lock(w) \/ LoadCount(w)
      <3>1. UE_id' = UE_id /\ handled' = handled /\ encoded' = encoded
        BY <2>3 DEF Lock, LoadCount
      <3>2. pc'[w] \in {"lock", "load", "store"} /\ \A v \in Worker \ {w} : pc'[v] = pc[v]
        BY <2>3 DEF Lock, LoadCount, Goto
      <3>3. QED
        BY <3>1, <3>2
    <2>4. CASE \/ Top(w) \/ Enter(w) \/ SkipUE(w) \/ StartEncode(w) \/ ScanTaken(w)
               \/ ScanLast(w) \/ SeeFree(w) \/ Claim(w) \/ ScanEnd(w) \/ Unlock(w)
      <3>1. pc[w] \notin {"lock", "load", "store"}
        BY <2>4 DEF Top, Enter, SkipUE, StartEncode, ScanTaken, ScanLast, SeeFree, Claim,
                    ScanEnd, Unlock
      <3>2. /\ handled' = handled /\ encoded' = encoded
            /\ \A v \in Worker \ {w} : pc'[v] = pc[v] /\ UE_id'[v] = UE_id[v]
        BY <2>4 DEF Top, Enter, SkipUE, StartEncode, ScanTaken, ScanLast, SeeFree, Claim,
                    ScanEnd, Unlock, Goto
      <3>3. QED
        BY <3>1, <3>2
    <2>5. QED
      BY <1>4, <2>1, <2>2, <2>3, <2>4 DEF Work
  <1>5. QED
    BY <1>1, <1>2, <1>3, <1>4 DEF Next, Master

(* The branch for a UE that is not scheduled is taken for no other: the UE has  *)
(* not been modulated before, and the flag cleared is that of this subframe.   *)
LEMMA SkipIsUnscheduled ==
  ASSUME IInv, PacedInv, NEW w \in Worker, SkipUE(w)
  PROVE  snap[w] = subframe /\ UE_id[w] \notin asked[subframe]
  <1>1. Owns(w) /\ pc[w] = "test" /\ ~active[UE_id[w]]
    BY DEF SkipUE, Owns, Holds
  <1>2. UE_id[w] \in UE /\ UE_id[w] \notin handled /\ ~Between
    BY <1>1 DEF IInv, OwnInv, SignalInv, TypeOK
  <1>3. UE_id[w] \notin encoded
    BY <1>1, <1>2 DEF PacedInv, EncodedInv, IInv, OwnInv, Owns, Holds
  <1>4. QED
    BY <1>1, <1>2, <1>3 DEF IInv, ActiveInv, PacedInv, SnapInv

LEMMA RememberedStep == IInv /\ PacedInv /\ PacedStep => RememberedInv'
  <1> SUFFICES ASSUME IInv, PacedInv, PacedStep PROVE RememberedInv'
    OBVIOUS
  <1>1. CASE NextSubframe
    <2>1. subframe' \in Subframe
      BY <1>1, Constants DEF NextSubframe, IInv, TypeOK, Subframe
    <2>2. PICK S \in Schedules :
            /\ asked' = [asked EXCEPT ![subframe'] = S]
            /\ subframe_tx' = [u \in UE |-> IF u \in S
                                            THEN subframe_tx[u] \cup {subframe'}
                                            ELSE subframe_tx[u] \ {subframe'}]
      BY <1>1 DEF NextSubframe
    <2>3. asked'[subframe'] = S /\ \A s \in Subframe \ {subframe'} : asked'[s] = asked[s]
      BY <2>1, <2>2 DEF IInv, TypeOK
    <2>4. ASSUME NEW u \in UE
          PROVE  subframe_tx'[u] = {s \in Subframe : u \in asked'[s]}
      <3>1. subframe_tx[u] = {s \in Subframe : u \in asked[s]}
        BY DEF PacedInv, RememberedInv
      <3>2. subframe_tx'[u] = IF u \in S THEN subframe_tx[u] \cup {subframe'}
                                         ELSE subframe_tx[u] \ {subframe'}
        BY <2>2
      <3>3. QED
        BY <2>1, <2>3, <3>1, <3>2
    <2>5. QED
      BY <2>4 DEF RememberedInv
  <1>2. ASSUME NEW w \in Worker, SkipUE(w) PROVE RememberedInv'
    <2>1. subframe_tx'= [subframe_tx EXCEPT ![UE_id[w]] = @ \ {snap[w]}] /\ asked' = asked
      BY <1>2 DEF SkipUE, masterVars
    <2>2. subframe_tx[UE_id[w]] \ {snap[w]} = subframe_tx[UE_id[w]]
      BY <1>2, SkipIsUnscheduled DEF PacedInv, RememberedInv, IInv, TypeOK
    <2>3. subframe_tx' = subframe_tx
      BY <2>1, <2>2 DEF IInv, TypeOK
    <2>4. QED
      BY <2>1, <2>3 DEF PacedInv, RememberedInv
  <1>3. CASE UNCHANGED <<asked, subframe_tx>>
    BY <1>3 DEF PacedInv, RememberedInv
  <1>4. CASE ZeroCount \/ FreeStatus \/ SignalWorker \/ PassBarrier \/ UNCHANGED vars
    BY <1>3, <1>4 DEF ZeroCount, FreeStatus, SignalWorker, PassBarrier, vars, masterVars,
                      dlschVars
  <1>5. ASSUME NEW w \in Worker, Work(w), ~SkipUE(w) PROVE RememberedInv'
    BY <1>3, <1>5 DEF Work, Top, Enter, StartEncode, FinishEncode, Lock, LoadCount, StoreCount,
                      ScanTaken, ScanLast, SeeFree, Claim, ScanEnd, Unlock, masterVars,
                      dlschVars
  <1>6. QED
    BY <1>1, <1>2, <1>4, <1>5 DEF PacedStep, Next, Master

(* The inductive invariant of a pool in time. *)
THEOREM PacedInvariance == MCSpec => [](IInv /\ (paced => PacedInv))
  <1>1. MCInit => IInv /\ (paced => PacedInv)
    <2> SUFFICES ASSUME MCInit PROVE IInv /\ PacedInv
      OBVIOUS
    <2>1. IInv
      BY InitInv DEF MCInit
    <2>2. PacedInv
      BY DEF MCInit, Init, PacedInv, SnapInv, EncodedInv, RememberedInv, InLock, Owns, Holds
    <2>3. QED
      BY <2>1, <2>2
  <1>2. IInv /\ (paced => PacedInv) /\ [MCNext]_<<vars, paced>>
           => (IInv /\ (paced => PacedInv))'
    <2> SUFFICES ASSUME IInv, paced => PacedInv, [MCNext]_<<vars, paced>>
                 PROVE  IInv' /\ (paced' => PacedInv')
      OBVIOUS
    <2>1. [Next]_vars /\ paced' = paced
      BY DEF MCNext
    <2>2. IInv'
      BY <2>1, StepInv
    <2>3. ASSUME paced PROVE PacedInv'
      <3>1. PacedStep
        BY <2>3 DEF MCNext, PacedStep, Pacing, vars, masterVars
      <3>2. QED
        BY <2>1, <2>3, <3>1, SnapStep, EncodedStep, RememberedStep DEF PacedInv
    <2>4. QED
      BY <2>1, <2>2, <2>3
  <1>3. QED
    BY <1>1, <1>2, PTL DEF MCSpec

(* A thread in time works for the subframe the master is building. *)
THEOREM SubframeIsFresh == MCSpec => []FreshSubframe
  <1>1. paced /\ PacedInv => FreshSubframe
    BY DEF PacedInv, SnapInv, Owns, FreshSubframe
  <1>2. (paced => PacedInv) => FreshSubframe
    BY <1>1 DEF FreshSubframe
  <1>3. QED
    BY <1>2, PacedInvariance, PTL

(* subframe_tx, from which the uplink decides whether an ACK is due, is set for  *)
(* exactly the UEs scheduled, if the threads are in time.                      *)
THEOREM ScheduleRemembered == MCSpec => []FlagsRemembered
  <1>1. (paced => PacedInv) => FlagsRemembered
    BY DEF PacedInv, RememberedInv, FlagsRemembered
  <1>2. QED
    BY <1>1, PacedInvariance, PTL

=============================================================================
