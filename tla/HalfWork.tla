------------------------------ MODULE HalfWork ------------------------------
(***************************************************************************)
(* A call that is split between its caller and one helper thread: half the   *)
(* slots of a subframe (fep), half the segments of a transport block to      *)
(* decode (td) or to encode (te).  The caller counts instance_cnt up to 0,   *)
(* signals, does its own half and waits until the counter has left 0; the   *)
(* helper waits for the counter, does its half, counts down and signals.     *)
(* Both wait on the same condition variable.                                *)
(*                                                                         *)
(* fep and td count up with the mutex held; te does not take it, and then    *)
(* unlocks what it has not locked.  td and te give a call up half way, with   *)
(* -1, at a codeword size or a rate matching they do not know: such a call    *)
(* returns without the join, and the helper is still at work for it.        *)
(***************************************************************************)
EXTENDS Integers

CONSTANTS
    Workers,    \* the helper threads looked at, of "fep", "td", "te"
    Kind,       \* the calls looked at
    MaxIter     \* ulsch->max_turbo_iterations

\* split: both halves.  single: a block of one segment (td), all of it the
\* caller's.  again: a retransmission (te), for which only rate matching is done.
ASSUME HalfWorkAssumption ==
    /\ Workers \subseteq {"fep", "td", "te"}
    /\ Kind \subseteq {"split", "single", "again"} /\ "split" \in Kind
    /\ MaxIter \in Nat \ {0}

Caller == "caller"
Helper == "helper"
Nobody == "nobody"

VARIABLES
    worker,   \* the helper of this hand-over; it never changes
    cnt,      \* proc->instance_cnt_fep, _td, _te
    mutex,    \* the holder of mutex_fep, _td, _te
    cpc, wpc, \* where the caller and the helper are
    kind,     \* the call
    asked,    \* whether the helper's parameters (tdp, tep) are those of this call
    own,      \* what the caller's half came to (ret)
    ret,      \* what the helper's last half came to (proc->tdp.ret)
    outcome   \* history: how the halves of this call went

vars == <<worker, cnt, mutex, cpc, wpc, kind, asked, own, ret, outcome>>

Locked == worker # "te"      \* the caller takes the mutex to count up

KindsOf(w) == {"split"} \cup {k \in Kind : <<w, k>> \in {<<"td", "single">>, <<"te", "again">>}}

\* What a half comes to: given up; failed, the iterations being used up; or the
\* iterations it took (td), 0 where there are none to count.
Abort == -1
Fail  == MaxIter + 1
Ends  == (IF worker = "td" THEN 1 .. Fail ELSE {0})
            \cup (IF worker = "fep" THEN {} ELSE {Abort})

Outcome(r) == IF r = Abort THEN "abort" ELSE IF r = Fail THEN "fail" ELSE "good"

Full(k) == IF k = "single" THEN {Caller} ELSE {Caller, Helper}

\* The helper has a half in hand.
Taken == {"leave", "half", "release", "dec"}

TypeOK ==
    /\ worker \in Workers
    /\ cnt \in {-1, 0} /\ mutex \in {Caller, Helper, Nobody}
    /\ cpc \in {"idle", "lock", "check", "count", "params", "signal", "unlock", "half",
                "join", "test", "sleep", "wait", "woken", "leave", "returned", "exit"}
    /\ wpc \in {"enter", "test", "sleep", "wait", "woken", "unlock", "signal"} \cup Taken
    /\ kind \in KindsOf(worker) /\ asked \in BOOLEAN
    /\ own \in Ends \cup {0} /\ ret \in Ends \cup {0}
    /\ outcome \in [{Caller, Helper} -> {"none", "abort", "fail", "good"}]

\* init_td_thread and its like; the parameters are zero.
Init ==
    /\ worker \in Workers
    /\ cnt = -1 /\ mutex = Nobody
    /\ cpc = "idle" /\ wpc = "enter"
    /\ kind = "split" /\ asked = FALSE
    /\ own = 0 /\ ret = 0
    /\ outcome = [h \in {Caller, Helper} |-> "none"]

CGoto(from, to) == cpc = from /\ cpc' = to
WGoto(from, to) == wpc = from /\ wpc' = to
-----------------------------------------------------------------------------
(* The caller. *)

Begin ==
    /\ kind' \in KindsOf(worker)
    /\ \/ kind' = "single" /\ CGoto("idle", "half")
       \/ kind' = "again" /\ CGoto("idle", "params")
       \/ kind' = "split" /\ CGoto("idle", IF Locked THEN "lock" ELSE "check")
    /\ asked' = FALSE
    /\ outcome' = [h \in {Caller, Helper} |-> "none"]
    /\ UNCHANGED <<cnt, mutex, wpc, own, ret>>

\* pthread_mutex_timedlock with a time long past: error unless the mutex is free.
TimedLock ==
    /\ IF mutex = Nobody THEN CGoto("lock", "check") /\ mutex' = Caller
       ELSE CGoto("lock", "exit") /\ UNCHANGED mutex
    /\ UNCHANGED <<cnt, wpc, kind, asked, own, ret, outcome>>

\* "TD thread busy": exit_fun.
Check ==
    /\ CGoto("check", IF cnt = 0 THEN "exit" ELSE "count")
    /\ UNCHANGED <<cnt, mutex, wpc, kind, asked, own, ret, outcome>>

\* ++instance_cnt.
Count ==
    /\ CGoto("count", "params")
    /\ cnt' = cnt + 1
    /\ UNCHANGED <<mutex, wpc, kind, asked, own, ret, outcome>>

\* The parameters of the call, after the counter; te holds no mutex between them.
\* A retransmission leaves its parameters, and does not count up.
Params ==
    /\ CGoto("params", "signal")
    /\ asked' = TRUE
    /\ UNCHANGED <<cnt, mutex, wpc, kind, own, ret, outcome>>

\* pthread_cond_signal; nothing is kept for a helper that does not wait yet.
Signal ==
    /\ CGoto("signal", IF kind = "again" THEN "half" ELSE "unlock")
    /\ wpc' = IF wpc = "wait" THEN "woken" ELSE wpc
    /\ UNCHANGED <<cnt, mutex, kind, asked, own, ret, outcome>>

\* pthread_mutex_unlock; te has not locked: whoever holds the mutex loses it.
Unlock ==
    /\ CGoto("unlock", "half")
    /\ mutex' = Nobody
    /\ UNCHANGED <<cnt, wpc, kind, asked, own, ret, outcome>>

\* "Illegal codeword size", "Problem in rate matching": return(-1) on the spot.
CallerHalf ==
    /\ own' \in Ends /\ (own' = Abort => kind # "again")
    /\ CGoto("half", IF own' = Abort THEN "returned" ELSE "join")
    /\ outcome' = [outcome EXCEPT ![Caller] = Outcome(own')]
    /\ UNCHANGED <<cnt, mutex, wpc, kind, asked, ret>>

\* wait_on_busy_condition.
JoinLock ==
    /\ CGoto("join", "test") \/ CGoto("woken", "test")
    /\ mutex = Nobody /\ mutex' = Caller
    /\ UNCHANGED <<cnt, wpc, kind, asked, own, ret, outcome>>

\* Mutant: wait_on_condition instead of wait_on_busy_condition.
JoinTestIdle ==
    /\ CGoto("test", IF cnt < 0 THEN "sleep" ELSE "leave")
    /\ UNCHANGED <<cnt, mutex, wpc, kind, asked, own, ret, outcome>>

JoinTest ==
    /\ CGoto("test", IF cnt = 0 THEN "sleep" ELSE "leave")
    /\ UNCHANGED <<cnt, mutex, wpc, kind, asked, own, ret, outcome>>

JoinSleep ==
    /\ CGoto("sleep", "wait") /\ mutex' = Nobody
    /\ UNCHANGED <<cnt, wpc, kind, asked, own, ret, outcome>>

JoinUnlock ==
    /\ CGoto("leave", "returned") /\ mutex' = Nobody
    /\ UNCHANGED <<cnt, wpc, kind, asked, own, ret, outcome>>

Return ==
    /\ CGoto("returned", "idle")
    /\ UNCHANGED <<cnt, mutex, wpc, kind, asked, own, ret, outcome>>

\* What the call returns: td (ret > tdp.ret) ? ret : tdp.ret, te 0, fep nothing.
Value ==
    IF own = Abort THEN Abort
    ELSE IF worker = "td" /\ ret > own THEN ret ELSE own

CallerStep == \/ TimedLock \/ Check \/ Count \/ Params \/ Signal \/ Unlock \/ CallerHalf
              \/ JoinLock \/ JoinTest \/ JoinSleep \/ JoinUnlock \/ Return
-----------------------------------------------------------------------------
(* The helper: wait_on_condition, its half, release_thread, the signal. *)

\* Mutant: the counter is not tested again after pthread_cond_wait.
HelperLockTestOnce ==
    /\ \/ WGoto("enter", "test") \/ WGoto("woken", "leave") \/ WGoto("release", "dec")
    /\ mutex = Nobody /\ mutex' = Helper
    /\ UNCHANGED <<cnt, cpc, kind, asked, own, ret, outcome>>

HelperLock ==
    /\ \/ WGoto("enter", "test") \/ WGoto("woken", "test") \/ WGoto("release", "dec")
    /\ mutex = Nobody /\ mutex' = Helper
    /\ UNCHANGED <<cnt, cpc, kind, asked, own, ret, outcome>>

HelperTest ==
    /\ WGoto("test", IF cnt < 0 THEN "sleep" ELSE "leave")
    /\ UNCHANGED <<cnt, mutex, cpc, kind, asked, own, ret, outcome>>

HelperSleep ==
    /\ WGoto("sleep", "wait") /\ mutex' = Nobody
    /\ UNCHANGED <<cnt, cpc, kind, asked, own, ret, outcome>>

HelperUnlock ==
    /\ WGoto("leave", "half") \/ WGoto("unlock", "signal")
    /\ mutex' = Nobody
    /\ UNCHANGED <<cnt, cpc, kind, asked, own, ret, outcome>>

HelperHalf ==
    /\ WGoto("half", "release")
    /\ ret' \in Ends
    /\ outcome' = IF asked THEN [outcome EXCEPT ![Helper] = Outcome(ret')] ELSE outcome
    /\ UNCHANGED <<cnt, mutex, cpc, kind, asked, own>>

CountDown ==
    /\ WGoto("dec", "unlock")
    /\ cnt' = cnt - 1
    /\ UNCHANGED <<mutex, cpc, kind, asked, own, ret, outcome>>

\* Mutant: no signal after release_thread.
HelperSilent ==
    /\ WGoto("signal", "enter")
    /\ UNCHANGED <<cnt, mutex, cpc, kind, asked, own, ret, outcome>>

HelperSignal ==
    /\ WGoto("signal", "enter")
    /\ cpc' = IF cpc = "wait" THEN "woken" ELSE cpc
    /\ UNCHANGED <<cnt, mutex, kind, asked, own, ret, outcome>>

HelperStep == \/ HelperLock \/ HelperTest \/ HelperSleep \/ HelperUnlock \/ HelperHalf
              \/ CountDown \/ HelperSignal

\* pthread_cond_wait may return without a signal.
Spurious ==
    /\ \/ CGoto("wait", "woken") /\ UNCHANGED wpc
       \/ WGoto("wait", "woken") /\ UNCHANGED cpc
    /\ UNCHANGED <<cnt, mutex, kind, asked, own, ret, outcome>>

Signalled == (Begin \/ CallerStep \/ HelperStep) /\ UNCHANGED worker

Next == Signalled \/ (Spurious /\ UNCHANGED worker)

Spec == Init /\ [][Next]_vars
-----------------------------------------------------------------------------
(* What a split call must do. *)

\* The call has come through its join.
Joined == cpc = "returned" /\ own # Abort

HalvesDone == Joined => \A h \in Full(kind) : outcome[h] # "none"

\* "wait for worker to finish": once a call has come through its join, the helper
\* neither works nor has to until the next one: its buffers belong to the caller
\* again.  A fep or td call has both halves behind it then, even if calls given
\* up before had left the helper at work when it began.
BothHalves ==
    /\ cpc \in {"idle", "returned"} /\ own # Abort => cnt = -1 /\ wpc \notin Taken
    /\ Locked => HalvesDone

\* A block of several segments is reported lost if and only if a half of it is:
\* what td returns is of this block, not of one decoded before.
SplitResult ==
    worker = "td" /\ Joined /\ kind = "split"
        => (Value = Fail <=> \E h \in Full(kind) : outcome[h] = "fail")

\* The helper's parameters are written only while it has nothing in hand, also
\* after calls given up that left it at work.
ParamsKept == [][Params /\ Locked => wpc \notin Taken]_vars

\* "@returns 0 on success": the result of a block of one segment is its own.
ResultIsOwn ==
    worker = "td" /\ Joined /\ kind = "single" => (Value = Fail <=> outcome[Caller] = "fail")
=============================================================================
