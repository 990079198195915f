# TLA+ specifications of the multi-threaded eNB physical layer

This directory models the part of the repository that is its own: the eNB of
OpenAirInterface whose downlink and uplink processing of one subframe has been
spread over a set of POSIX threads ("Multi-Threading Architecture for Downlink
Process"). The rest of the tree (the MAC/RLC/PDCP/RRC stack, drivers, tools, the
generated `cmake_targets` trees and `Original_OAI_Codes`, a copy of the unmodified
upstream) is inherited from OpenAirInterface.

The default build of the fork runs one *master* thread (`eNB_thread_single`,
`single_thread_flag = 1`, `lte-softmodem.c:166`) that receives a subframe from the
radio, and, in the milliseconds before the radio needs the answer, hands pieces of it
to *helper* threads. There are no queues: a helper is parked in
`pthread_cond_wait`, the master clears a completion flag, signals the helper and later
spins on the flag. Everything below follows from that pattern, because

* `pthread_cond_wait` is called without its mutex locked and without a predicate, so a
  signal that comes before the helper has parked is lost;
* the flags and the tables are `volatile uint8_t` fields of the shared `PHY_VARS_eNB`,
  read and written without a lock, except for two mutexes (`uestatus_mutex`,
  `turbo_status_mutex`) which only the helpers take;
* every helper reads the subframe it works on from `proc_rxtx[0]`, after it is woken.

All line numbers are those of `src/targets/RT/USER/lte-enb.c` ("enb") and
`src/openair1/SCHED/phy_procedures_lte_eNb.c` ("phy") unless another file is given.

## 1. Inventory

### Components, state, operations

| component | state | operations | what makes it correct |
|---|---|---|---|
| PDSCH pool (enb 1788-1900, phy 1177-1200) | `ue_status[16]`, `complete_pdsch`, `uestatus_mutex`, per thread `flag_wait`, `UE_id`; per UE `dlsch->active`, `dlsch->subframe_tx[10]` | master: zero, free, signal, spin; worker: take own UE, serve, count, scan, claim, park | each UE served exactly once per subframe, with that subframe's number; barrier passed only when all is modulated; never hung |
| Downlink fan-out (enb 483-500, 566-598, 859-938, 1249-1735; phy 1090-1210) | `complete_dci`, `complete_sch_SR`, `complete_cch`, `DCI_pdu`, `txdataF`, `txdata`, `frame_tx/subframe_tx`, timestamps | MAC schedule, DCI to DLSCH (`mac2phy_proc`), control channels (`cch_proc`), PDSCH pool, OFDM (`ofdm_proc`), `rx_rf` | what is handed to the radio for a subframe is exactly what was scheduled for it; buffer not written while it is read |
| Uplink fan-out (phy 2572-3172; enb 2039-2350) | `active_UE`, `wait_decoding`, `complete_pusch[]`, `turbo_status`, `complete_turbo`, `complete_pucch`, `ret[]`, `subframe_scheduling_flag` | prepare, signal, collect; `pusch_proc`, `turbo_proc`, `pucch_proc` | one decoder per subframe; results collected are of this subframe; feedback of every connected UE processed |
| Downlink HARQ process (phy 1251-1524, 1780-1990; `dci_tools.c` 1240-1290) | `status`, `round`, `harq_ids[]`, `subframe_tx[]` | transmit, ACK, NAK, give up | round counts transmissions; a process ends idle and in round 0; at most `Mlimit` transmissions |
| Two-thread mode (enb 599-640, 1036-1086, 1137-1220) | `instance_cnt_rxtx`, `proc_rxtx[0..1]` | `wakeup_rxtx`, `wait_on_condition`, `release_thread` | no subframe is lost, doubled or overwritten in the hand-over; each thread works on the subframe it was given |
| te, td, fep helpers (`dlsch_coding.c`, `ulsch_decoding.c`, phy); called only by the link simulators, see section 3 | `instance_cnt_te/td/fep`, `tep`, `tdp` | half of the segments or slots each | helper off the buffers, both halves done and their results taken before the caller goes on |
| UE slots, Msg3, uplink HARQ, PHICH (phy, `rar_tools.c`, `phich.c`) | `UE_stats`, `ulsch->harq_processes`, `Msg3_active` | `add_ue`, `mac_phy_remove_ue`, RAR, NACK/ACK | MAC and PHY agree on the UE in a slot; what the UE is told to send is received; no retransmission or random access goes on for ever |
| Fronthaul (enb 660-858, 940-1035, 1088-1135) | `symbol_mask`, timestamps, `instance_cnt_asynch_rxtx` | IF4p5/IF5 receive, slaves | a subframe is assembled of its own symbols, or the mixture is noticed; a lost packet ends in an error, not a hang |
| PRACH thread (enb 1221-1247) | `instance_cnt_prach` | `do_prach`, `prach_procedures` | a preamble is looked for in the frame it came in |
| Start-up and shutdown (enb 2384-2735, `lte-softmodem.c`) | `oai_exit`, thread handles | `init_eNB_proc`, `kill_eNB_proc` | every thread ends; no destroyed condition variable is used |
| Radio, coding, MAC, RLC/PDCP, RRC/S1AP/NAS, UE side, simulators | | | see section 8 |

### How they interact

```
 trx_read ─► eNB_thread_single ── rxtx ──► phy_procedures_eNB_uespec_RX
                (master)                      │ signals turbo x4, PUCCH, PUSCH
                                              │ spins: complete_turbo, complete_pucch
                                              ▼
                                 MAC scheduler (DCI_pdu), in the master
                                              ▼
                                 phy_procedures_eNB_TX
                                              │ signals mac2phy; cch; PDSCH x4
                                              │ spins: complete_dci, complete_pdsch,
                                              │        complete_cch, complete_sch_SR
                                              ▼
                                 proc_tx_full: signals OFDM, does not wait
                                              ▼
 trx_write ◄─ next rx_rf, one subframe (WriteAhead) after the one received
```

* Downlink and uplink meet in the HARQ processes: the uplink's PUCCH thread and the
  master both call `process_HARQ_feedback`, which writes the `round` and the `status`
  from which the MAC (`get_ue_active_harq_pid`) and `generate_eNB_dlsch_params` build
  the downlink of the same turn of the loop.
* The PDSCH pool and the uplink meet in `dlsch->subframe_tx[s]`, which is set when a UE
  is scheduled, cleared by the pool when it is not, and read four or more subframes
  later to decide whether an ACK is to be expected.

### Hard behaviours

They are listed line by line under `hazards` in `PROJECT.json`. In short: lost signals
(no predicate); resets by the master that race with a helper that is late; flags left
set by the last subframe; a shared counter incremented by several threads; a flag that
decides who of two threads owns a piece of work, changed by one of them in between; an
equality test on a counter two threads increment; wrap-around of subframes, frames and
HARQ process numbers; four busy waits in a row in the only thread that serves the radio.

## 2. Plan

All of these exist, in the order in which they were written; each composes or refines
the ones named.

| module | models | abstract specification, composition |
|---|---|---|
| `PdschPool` | the fork's central algorithm | implements `PdschRound` |
| `DownlinkTx` | the master with mac2phy, cch and OFDM | uses the steps of `PdschRound` for the pool |
| `UplinkRx` | the master with turbo, PUSCH and PUCCH | its feedback steps are the two threads of `DlHarq` |
| `DlHarq` | one downlink HARQ process | |
| `UlHarq` | one UE slot, its random access and uplink HARQ | what a collected block of `UplinkRx` does |
| `RxTxHandoff` | two-thread mode and PRACH thread | each thread implements `Handoff` |
| `HalfWork` | te, td and fep helpers | |
| `If4p5Assembly` | IF4p5 uplink, RRU to RCC | |
| `Shutdown` | `kill_eNB_proc` against every loop | |

Left for later, most important first: `UplinkRx` and `DlHarq` with one shared feedback
step, to tell how often `Overlap` can happen; the IF5 and slave-eNB fronthaul; TDD
bundling in `DlHarq`; MAC random access (`eNB_scheduler_RA.c`); the RLC AM window.

## 3. Modules and the code

A module `X` is the code; `MCX` gives it its small instances, the assumptions on timing
and fairness, and the properties that need them; `XProofs` proves theorems about it.
Most `MC` modules hold several instances in one run: a variable that never changes
(`paced`, `use`, `single`) chooses the instance in the first state.

### PdschPool, PdschRound

One step of `PdschPool` is one access to a shared variable.

| definition | code |
|---|---|
| `NextSubframe` | the rest of the loop: the subframe advances, `mac2phy_proc` clears `subframe_tx[subframe]` of all UEs and sets up the scheduled ones |
| `ZeroCount`, `FreeStatus`, `SignalWorker`, `PassBarrier` | phy 1177-1200; `FreeStatus` and `SignalWorker` one loop turn each |
| `Top`, `Enter` | the head of `multi_sch_proc`'s loop, and what it does when `pthread_cond_wait` returns |
| `SkipUE`, `StartEncode`, `FinishEncode` | serving `UE_id`: the "not scheduled" branch, `pdsch_procedures`, which ends by clearing `active` |
| `Lock`, `LoadCount`, `StoreCount`, `ScanTaken`, `ScanLast`, `SeeFree`, `Claim`, `ScanEnd`, `Unlock` | the critical section: `complete_pdsch++` in two accesses, the scan of `ue_status`, with the second read of `ue_status[15]` the code makes |

`handled`, `encoded` and `asked` are history variables. All UE slots are treated as
connected: the code's `SkipUE` branch also tests `rnti > 0`, which only keeps
`subframe_tx` of an empty slot, read by nobody, from being cleared.

`PdschRound` is the abstract subframe: `Open` with a set of UEs to modulate, `Modulate`
and `Serve` them in any order, `Close` when all are served.

### DownlinkTx

Time is the pair (frame, subframe) as one number modulo `NumFrame * NumSubframe`. A
buffer slot holds a set of marks `<<content, subframe it is of>>`, so that content left
over, missing, or of another subframe can be told from the right one; `due[s]` is what
the schedule of `s` asks for. `RfWrite` and `RfRead` are `rx_rf` (and
`eNB_thread_single`'s advance by four subframes, `TxAhead`; the radio is written one
before that, `WriteAhead`); `NoDownlink`, `MacSchedule`, `Start*`, `Await*` are
`phy_procedures_eNB_TX` in program order, `Spin` its busy waits, `StartOfdm`
`proc_tx_full`; `M2p*`, `Cch*`, `Ofdm*` the three helper loops with the subframe each
reads for itself. The PDSCH threads are `PdschRound`.

### UplinkRx

`NewSubframe` chooses the connected UEs and those with a PUSCH; `Reset` and `Prepare`
are the master's resets, one UE a step; `SignalTurbo`, `SignalPucch`, `SignalPusch` its
signals in their order; `PassOver`, `Collect`, `PuschFeedback`, `AllCollected`,
`AwaitPucch` the loop over `wait_decoding` and the final spin. `TurboTop` to
`TurboUnlock` are `turbo_proc`, whose claim of the subframe is `Scan`; `Pusch*` and
`Pucch*` the other two loops. `ret` is "fresh" when the block was decoded after its
`rx_ulsch` and in the right HARQ process, "stale" otherwise, "zero" after the reset (the
code takes 0 for an ACK).

### DlHarq

One HARQ process in FDD: `Transmit` is the DCI path (`get_ue_active_harq_pid` tells the
MAC the round, `dci_tools.c:1255` activates a process in round 0 only) followed by
`pdsch_procedures`; `StartRx` the reception of the subframe the ACK is due in; `Guard`,
`NoSR`, `FirstSR` the PUCCH thread at phy 1800-1890; `CollectPusch` the master at 2767;
`Check` to `Limit` are `process_HARQ_feedback` in either thread, one access to `round` a
step (`Limit` compares the register or reads `round` again, as the compiler likes). Its
specification is `DLSpec`, its limit `DLMlimit`: the proofs about both directions share a
module.

`Overlap` says whether the PUSCH may be collected before the PUCCH thread has come to
the UE. `UplinkRx` shows that nothing in the code orders the two: `Collect` and the
PUCCH thread's `guard` step are enabled together. `Overlap = FALSE` is the usual
timing (decoding takes longer than the walk over 16 UEs), and under it the process is
shown correct; `Overlap = TRUE` gives the findings.

### UlHarq

One UE slot and its eight uplink HARQ processes, FDD. An iteration of the master
receives subframe *n* (`Skip`, `Fail`, `Decode`), lets the MAC choose (`Drop`,
`Schedule`) and builds *n* + 4; both, and the PUSCH of *n* + 8 that is prepared, belong
to process *n* % 8, so `now` is the only clock. Within the last part `ClearAlloc`,
`ApplyDci`, `SetFlag`, `SendRar` (m2p thread) and `Look`, `Act` (cch thread,
`generate_phich_top`) interleave; `InOrder` of `MCUlHarq` makes the PHICH wait for the
DCIs.
`Prepared` is `process_Msg3`, part of every reception. A RAR is for a process whose Msg3
comes ten subframes later.

The UE (`Hear`, `Leave`, `OnAir`) and the MAC's choices are external, the latter with
the guards of the code that makes them (`schedule_ulsch_rnti`, `UE_is_to_be_scheduled`,
`rrc_mac_remove_ue`). The UE may miss a DCI, after which its NDI is out of step, or read
a NAK as an ACK, unless `HearsAll` of `MCUlHarq` rules that out; an absent PHICH is never
read as a NAK, nor is one by a UE that has just entered the slot. After a PHICH
left over from a removed UE the eNB may listen to nobody; such a reception fails.
The PHICH resource is computed from `first_rb` and `n_DMRS`, which the new DCI has by
then overwritten; that is data, and not modelled.

### RxTxHandoff, Handoff

`FhReceive`, `FhPoll`, `FhPost` are `eNB_thread_FH` and `wakeup_rxtx`, which looks at
the counter before it takes the mutex; `FhLockError` is the timed lock with a time long
past. `Lock`, `Test`, `Spurious`, `Unlock`, `CountDown` are `wait_on_condition` and
`release_thread` for the even, the odd and the PRACH thread alike; `Fep`, `UeSpec`,
`Transmit` what an RXTX thread does in between, `PrachPoll`/`PrachPost` `do_prach`.
`front` and `generated` record which subframe the front end and the helpers worked on.
`Handoff` is a mailbox for one item: post when empty, take, finish.

### HalfWork

**The eNB program does not run this code.** `init_eNB` assigns the unsplit functions, with
the `_2thread` variants commented out (enb 2910, 2939-2941, 2959-2961, 2992-2993,
3016-3017); its helper threads (2575-2577) stay parked. Only the link simulators call it:
`ulsim -L` fep and td (`ulsim.c:1173`), `dlsim -W` te (`dlsim.c:1782`). What is said of
`HalfWork` is said of those two.

One caller, one helper, one counter and one condition variable on which both wait. A
call is "split", "single" (one segment: td is not asked) or "again" (te: a
retransmission, for which only rate matching is done and the counter is not counted up).
`worker` says which of the three helpers it is: fep and td count up and set the
parameters under the mutex, te (`Locked` false) does both in the open and then unlocks a
mutex it does not hold. A half comes to the iterations it took, to `Fail`
(`1+max_turbo_iterations`) or to -1: "Illegal codeword size" or "Problem in rate
matching" (`ulsch_decoding.c:280`, 325, 363, 542, 581; `dlsch_coding.c:285`, 454). A
caller that gives up returns at once and leaves the helper posted (`CallerHalf`); a later
call that is split finds the counter up and ends the program, or finds the helper done,
and one of a single segment waits for it. `Value` is what the call returns: for td the
integer maximum of the two results, which loses the helper's -1 (every success is
larger); for te 0, whatever the helper came to. With the segment sizes that
`lte_segmentation` yields (at most 6144 bits) and the constants the rate matching is
called with, no -1 is reached; the model has them all the same. Failures of the pthread
calls are left out.

### If4p5Assembly

`Fh*` and `Post` are the RRU's thread that sends one packet per symbol, `PrachBusy` the
end of the program when ten polls (phy 2512) found its PRACH thread at work, `Pr*` that
thread; both build their packet in `ifbuffer.tx` in two steps and send it in a third.
`ReadHeader`, `ReadShort`, `ReadPacket`, `NextSubframe`, `Timeout` are the RCC:
`recv_IF4p5`, which reads a header and then the packet, and the loop of `rx_fh_if4p5` or
(`asynch`, chosen at the start) `fh_if4p5_asynch_UL` over the mask of symbols. Frame and subframe are one
absolute number (the wrap after 10240 is not reached), samples are the name of what they
were taken from, the link keeps the order, holds `MaxNet` packets and loses `MaxLost`;
sizes matter only in that a PRACH packet is longer than a symbol. `Peek` is the raw
socket, whose header read leaves the packet and whose receive timeout is an error.

### Shutdown

`oaiExit`, the loops of all threads, and main: `Stop`, `Counts`, `Signals`, `Wake`,
`Join` are `kill_eNB_proc` in program order. Three helpers stand for their kinds: PUCCH
(signalled in the uplink part, waited for), CCH (downlink part, waited for), OFDM (not
waited for). `Polled` is the build without ITTI, in which main looks at `oai_exit` every
100 ms (`lte-softmodem.c:1875`). A helper woken by the kill does one round of stale work.
Joining a thread that was never created is undefined; in the model main stops there.

## 4. Runs

| run | instances and bounds | what it shows |
|---|---|---|
| `pool` | 2 threads, 5 UEs, 2 subframe numbers, counter cut to 3 bits, three schedules; any speed and paced | at any speed: no UE shared, each counted once, barrier complete, nobody modulating outside the round, `PdschRound` implemented, and the inductive invariant of the proofs. Paced: right subframe, `subframe_tx` as scheduled, barrier always passed. Deadlock is off: an unpaced pool really can stop, when a worker misses its signal |
| `downlink` | 3 slots (one uplink), 2 frames, 2 UEs, 3 plans; paced, and at any speed (there without the OFDM thread, which writes nothing the properties checked at any speed read) | at any speed: content at the end of the waits is what was asked, buffer quiet, DLSCHs parsed before the pool starts. Paced: the radio gets the current content, for ever |
| `uplink` | paced: 2 turbo threads, 2 UEs, 2 HARQ processes; any speed: 1 turbo thread, 1 process | at any speed: feedback neither missed nor late. Paced: one decoder, fresh results, no hang |
| `dlharq` | `Mlimit` 4, 8-bit round, no overlap | one feedback per transmission: six properties |
| `handoff` | paced: 2 frames, PRACH in subframes 1 and 6, 2 turns of the polling loop; any speed with spurious wake-ups: 1 frame, no PRACH | at any speed: both RXTX threads implement `Handoff`. Paced: no hand-over error, every subframe and PRACH served |
| `half` | fep, td and te, every kind of call, results of up to 2 iterations, calls given up half way; with spurious wake-ups, and without them and fair | helper off the buffers at the join (all three); both halves done, a lost block reported lost, every call returns (fep, td) |
| `ulharq` | 2 identities, processes 0 and 2, `Mlimit` 2, 3 Msg3; with loss and in any order; with loss, ordered and fair; ordered and without loss | in any order and loss the UE of a DCI is in its slot; ordered, everything asked for is received and nothing is left hanging; lossless, no packet is delivered twice |
| `fh` | 3 symbols, 4 subframes, PRACH in 1 and 3; without loss and with 2 losses, by either assembler; PRACH thread late with 1 loss | mixtures are noticed; without loss all is delivered; after any loss the RCC does not wait for ever |
| `shutdown` | three helpers, both thread modes, polled and paced | no destroyed condition variable used; in the two-thread mode `kill_eNB_proc` returns |
| `pool_late_worker`, `dlharq_overlap_ack`, `ulharq_race` | as above | violations, section 6 |

Deadlock is not checked where the system ends or waits for a call: `handoff` (the
program exits on an error), `half` (no next call need come), `fh` (the last subframe),
`shutdown`.

Why the bounds are enough. In the pool two threads already compete for two or three
shared UEs, and a third does nothing that a second one cannot; 5 UEs let a thread claim
twice; the counter is only ever compared with 16 and the cut one is larger than the
number of UEs, as in the code. Two subframe numbers suffice to tell a stale one. In the
downlink a slot is reused by the next frame, so two frames tell its contents apart;
three slots keep the order write < transmit < wrap of the code's ten. In the uplink one
active and one idle UE, two contenders for `turbo_status` and two HARQ process numbers
are what a wrong decision needs; at any speed one turbo thread is enough because the
properties checked there do not involve the others. `DlHarq` has the code's own numbers.
`RxTxHandoff` has all ten subframes, because parity and the wrap at `subframe > 5`
matter; two frames tell a stale subframe. In `UlHarq` processes 0 and 2 are the one a
grant is for and the one a RAR of the same iteration is for, and two transmissions reach
the limit while one is pending. In `If4p5Assembly` a mask of three symbols has a first,
a middle and a last one to lose, and two subframes with a PRACH, one of which is the
last, meet one without on either side. The theorems of section 5 lift the safety
properties to every size.

### Pacing

No completion flag tells the master that a helper has *parked*. The code relies on time:
between two subframes the master blocks about a millisecond in `trx_read`, in which
every helper is expected to get from its last shared write back to `pthread_cond_wait`.
`Pacing` states that assumption for `PdschPool`, `DownlinkTx` and `UplinkRx` (nobody
dispatches while a worker is out), in `RxTxHandoff` (when subframe *n* is received the
thread it is for and the PRACH thread are parked, and the other one is past the front
end) and, as constants
`Paced`, in `If4p5Assembly` and `Shutdown`. The instances "at any speed" do not use it,
and section 5 keeps the theorems that do apart from those that do not. What goes wrong
without it is shown by `pool_late_worker` and by the counterexamples of section 7.

### Fairness

Weak fairness of each thread as a whole, stated in the `MC` modules. It is justified by
`pthread_setaffinity_np`, which gives each thread its own CPU under
`SCHED_FIFO`/deadline scheduling, and by the bounded critical sections of the mutexes;
busy waits are steps of their own (`Spin`) so that they never count as the progress of
anybody else. `UlHarq` has one weakly fair system and, the only strong fairness, that of
`IdleGrant`: `UE_is_to_be_scheduled` grants a UE something when it has been idle long
enough. Without that assumption a UE that left silently would never be noticed. In
`HalfWork` fairness goes with the instance without spurious wake-ups: one of these could
rescue a call whose signal was lost, and hide it.

## 5. Proofs

Every theorem is checked by TLAPS for all values of the constants that satisfy the
named assumption of the module (`PoolAssumption`, `HarqAssumption`,
`DownlinkAssumption`, `UplinkAssumption`, `HandoffAssumption`, `HalfWorkAssumption`,
`SlotAssumption`, `LimitAssumption`, `ConstantsAssumption`), or the hypotheses written in the theorem. A theorem
about `Spec` holds at any speed of the threads. One about `MCSpec` is about the
specification the run checks, in which a variable chosen at the start (`paced`, `use`)
says whether the assumption of section 4 is made; its property is conditional on it, and
so is its invariant, which a proof module therefore takes from the `MC` module.

`PdschPoolProofs`, any speed. Three records say that UE *u* is dealt with: some worker
holds it, `ue_status[u]`, and `handled`/`complete_pdsch`. The properties follow once
they agree, but none is inductive alone: a worker that parks late may carry
`ue_status = 1` from one round into the next, and the master frees a shared UE while a
worker of the last round may be about to claim it. `IInv` (in `PdschPoolInv`, also an
invariant of the run `pool`) therefore relates the master's loop index, the mutex
holder's program counter and register `tmp`, the set `handled` and its cardinality, and
says which UEs may still be claimed in each phase. From it: `NoUEShared`,
`QuietAfterBarrier`, `EachCountedOnce`, `BarrierIsComplete`, and `PoolImplementsRound`,
the refinement `DownlinkTx` rests on. Paced, every worker is parked when the next
subframe is dispatched: a thread between its wake-up and its parking has read the subframe
being built (`SnapInv`), a modulated UE is counted or about to be (`EncodedInv`), and so
nobody clears a `subframe_tx` that was just set (`RememberedInv`). From it:
`SubframeIsFresh`, `ScheduleRemembered`.

`DownlinkTxProofs`, any speed. A thread that misses its signal leaves its flag at 0 and
the master in its wait. So `Quiet` says, flag by flag, that a flag that is set finds its
thread parked or parking, and `Drawn` that everything due is either in the buffer or its
thread is not through; when the master is past all four waits only the first is left.
From it: `BuiltCompletely`, `QuietWhileSent`, `PoolFindsAll`. Paced, the OFDM thread modulates the subframe
last built while the master is at the radio (`OfdmOnTime`), where `txdataF` still holds it
(`Sent`); the radio is handed the one before, which is therefore modulated already
(`Modulated`), or holds nothing when it is an uplink subframe (`UplinkEmpty`). From it:
`RadioGetsCurrent`.

`UplinkRxProofs`, any speed. Who processes a UE's feedback is decided by a flag that
the master clears in between; `Due` names the five hands a UE still to be served can be
in, and `complete_pucch` closes all of them but the master's own. From it:
`NoFeedbackMissed`, `QuietBetweenSubframes`, and `TypeCorrect`. Paced, all turbo threads
are parked at a dispatch (`Prepared`): the first to see `turbo_status` clear is the only
one to decode (`Claims`), its locals are those of this subframe (`Locals`),
`complete_pusch` means that a UE's samples of this subframe are demodulated
(`Demodulated`), and `complete_turbo` that every result is from them (`Decoded`). From it:
`OneThreadDecodes`, `ResultsAreFresh`.

`HarqProofs`, downlink (hypothesis `~Overlap`). The key fact is that at most one of the two
threads brings feedback of a reception; then `round` is what that thread loaded when it
stores it, and the conjuncts of `DLInv` (`OneFeedback`, `IdleInRound0`, `Active`,
`Knows`, `Limits`) say, by phase of the reception, how `round`, `status`, `harq_id` and
the number of transmissions hang together. Transmission limit, ACK handling, and "no
packet overwritten" follow for every `Mlimit` and width of the counter.

`RxTxHandoffProofs`, any speed (spurious wake-ups, PRACH posted by either thread). The
poster reads the counter without the mutex; `Polled` says that what it saw stays so,
because only the poster counts up, and `Counters` that the counter is 0 from the post to
the end of `release_thread`. From it `ThreadsAreSlots`: both threads implement `Handoff`. Paced, a
thread that has not yet passed the front end and `do_prach` still finds its own subframe in
the live `subframe_rx` (`Ahead`, `Current`), a received subframe finds its thread and the
PRACH thread parked (`Posting`), and `proc_rxtx[0]` holds what the even thread is to
generate (`Generating`); `FourLater` is the arithmetic of "subframe n + 4" across a frame.
From it: `HandoverInTime`.

`HalfWorkProofs`, any speed, spurious wake-ups, calls given up half way. That the helper
is off the buffers when a call comes through its join follows, for te too, from the
counter alone (`Counter`): it is 0 while the helper has a half in hand, and only the
caller counts up. That the helper has done the half of *this* call needs the mutex
(`Mutex`, `Posted`): without it the helper may see the counter before the parameters, and
te has no such theorem. `Results` ties each half to the result it leaves. From them
`CallWaitsForBoth` and `ResultOfBoth`; and `ParametersKept`, that fep and td never
overwrite the parameters of a helper that a call given up has left at work.

`HarqProofs`, uplink, any order of PHICH and DCIs, any loss. The removal of a failed Msg3
does not go through the MAC, so it must not hit a UE the MAC has in its list: `Msg3Over`
says that `Msg3_flag` is cleared with the change of mode, `RarIsFree` that a RAR being
sent is for an empty slot. From it: `DciFindsUe`, and with the ranges of the fields
`TypeCorrect`. With the PHICH in order, whatever is lost: a UE sends because of a flag of
its process, which only that process's own subframe clears, or because of a Msg3, whose
time `Msg3_subframe` is counted here from one iteration to the next. `Expectation` says
per process which of the two it is, at every point of the iteration; `Applied` and
`Answered` that the cch thread, looking after the m2p thread, clears a flag only when
nobody has been told to send. From it: `ToldIsReceived`. Without loss, `Unsent` and
`NakIsTrue` say that a UE sends only what the eNB does not have, and that the NAK it is to
hear is for such a packet: `DeliveredOnce`.

`If4p5AssemblyProofs`. `TypeCorrect` holds on any socket and at any speed. For a raw socket
(`Peek`) and a PRACH thread in time (`Paced`), any number of symbols, subframes and losses:
the packets have positions, the PRACH after the symbols of its subframe, and the RRU has a
`Frontier`; each of its steps leaves link and frontier alone or sends the packet at the
frontier (`RruSends`), because each thread has the transmit buffer to itself (`Buffer`). So
the link holds true packets in increasing positions (`Link`). `fh_if4p5_asynch_UL`, which
compares every packet, needs no more (`AsynchStored`). `rx_fh_if4p5` compares only the last
one: what it stores comes before all that is still to be read (`Past`), and once it is
aligned nothing stored or to come is of an earlier subframe than the one counted on
(`SyncStored`), so a last packet of that subframe makes it whole (`CompleteWhole`), and is
its last packet (`LastOfSubframe`). Without loss, what is missing of subframe 0 is still to
come (`FirstSubframe`), so the first subframe is whole. From it: `MixedIsCaught`.

`ShutdownProofs` (either thread mode; hypotheses `Polled` and `Paced`). Once main goes on
to the kill, the threads that signal helpers are asleep or about to look at `oai_exit`
(`NoneBegins`), so none begins a subframe: `NoneMisused`.

Only model-checked: everything about liveness (`BarrierPassed`, `RadioServed`,
`UplinkServed`, `SubframesServed`, `CallEnds`, `Settled`, `AllDelivered`, `QuietEnds`,
`KillReturns`), which is out of the prover's reach. Every safety property of a run has its
theorem.

## 6. Findings

1. **A late PDSCH worker erases `subframe_tx`** (`pool_late_worker`, enb 1877). The
   branch meant for a UE "not scheduled for PDSCH in this subframe" tests `active`, and
   clears the flag of the subframe number the worker read when it woke. The master frees
   `ue_status` of the next subframe without `uestatus_mutex`, so a worker still in its
   scan can take a UE of the new subframe with the old number. Needs a worker that is a
   subframe late.
2. **An ACK that leaves the process in round 1** (`dlharq_overlap_ack`, phy 2767). The
   master clears `subframe_scheduling_flag` of a UE it collects; the PUCCH thread, if it
   comes to the UE afterwards, takes its feedback for its own. `round++` of the one
   against `round = 0` of the other leaves the process idle and in a round it is never
   activated from.
3. **A granted PUSCH the eNB does not listen to** (`ulharq_race`, `phich.c:1498`). In the
   fork `generate_phich_top` runs in the cch thread, at the same time as the m2p thread
   applies the DCIs. Whether a format 0 DCI was sent is read from a field that thread is
   about to write: the cch thread, after an ACK, can clear the flag of a grant that has
   just been set. Upstream both run in one thread, in order.

## 7. Counterexamples

These configurations are not part of the list of runs. Each is expected to end in a
violation and shows where an assumption of section 4 is needed, or a lesser defect.

| configuration, module | violates | what it shows |
|---|---|---|
| `dlharq_overlap_limit`, `DlHarq` | `SentAtMostMlimit` | phy 1447 tests the limit by equality; after finding 2 a packet is sent more than `Mlimit` times |
| `handoff_late_front`, `RxTxHandoff` | `FrontIsOwn` | phy 2549: the RXTX thread transforms the subframe the FH thread is at, not its own (enb 570 "Common RX procedures subframe n") |
| `handoff_late_prach`, `RxTxHandoff` | `PrachPostedOnce` | phy 2511: both RXTX threads can post one PRACH, as both read the FH thread's subframe |
| `handoff_late_lock`, `RxTxHandoff` | `NoLockError` | enb 1056: `pthread_mutex_timedlock` is given 5 ms since 1970 ("up to 5ms", enb 1044): contention ends the program |
| `handoff_odd_helper`, `RxTxHandoff` | `GeneratedIsOwn` | enb 1380: helpers read `proc_rxtx[0]`; odd subframes are in `proc_rxtx[1]` |
| `half_te_hangs`, `MCHalfWork` | `AnyCallEnds` | `dlsch_coding.c:418`: te counts up without the mutex, the signal can be lost, and the caller waits for ever |
| `half_te_race`, `HalfWork` | `HalvesDone` | `dlsch_coding.c:418`-422: te counts up before it sets the parameters; a helper that is just about to wait codes the half of the block before |
| `half_te_again`, `HalfWork` | `HalvesDone` | `dlsch_coding.c:481`: a retransmission signals te without counting up: its half keeps the bits of the transmission before |
| `half_td_single`, `HalfWork` | `ResultIsOwn` | `ulsch_decoding.c:648`: a block of one segment is reported with the helper's result of an earlier one |
| `ulharq_stuck`, `MCUlHarq` | `RoundsEnd` | `phich.c:1498`: the cch thread sees an allocation of eight subframes ago and prepares no retransmission, which then is never asked for again |
| `ulharq_phich`, `UlHarq` | `PhichDone` | `ulsch_decoding.c:181` leaves `phich_active` of a removed UE |
| `ulharq_freed`, `UlHarq` | `FreedNotPusch` | phy 2979 gives the slot of a removed UE the mode PUSCH |
| `fh_first_loss`, `If4p5Assembly` | `InfoComplete` | enb 1014: a symbol of the very first subframe is lost and `first_rx` accepts the mixture |
| `fh_buffer`, `If4p5Assembly` | `InfoComplete` | `if4_tools.c:44`: a late PRACH thread and the symbols share one transmit buffer |
| `fh_late_prach`, `MCIf4p5Assembly` | `AllDelivered` | enb 1005: a PRACH packet that comes after the next subframe's first symbol is taken for that subframe |
| `fh_udp`, `MCIf4p5Assembly` | `AllDelivered` | `eth_udp.c:146` reads the header without `MSG_PEEK` (`eth_raw.c:312` has it): the packet is gone |
| `shutdown_itti`, `MCShutdown` | `KillReturns` | enb 2645 "FIXME data race!": built with ITTI main kills at once, and a thread that is not parked misses its wake-up |
| `shutdown_join`, `Shutdown` | `JoinsCreated` | enb 2715 joins RXTX and FH threads that the single-thread mode has not created (2568) |

## 8. Not modelled

* Spurious returns of `pthread_cond_wait` in the helpers of the single-thread mode, which
  have no predicate: POSIX allows them, glibc's futex makes them rare, and one starts a
  worker without a signal. `RxTxHandoff` and `HalfWork`, whose loops test again, have them.
* Error exits: `rx_rf` ends the program on a timestamp mismatch, threads end on a mutex
  error; the models have the states in which this does not happen, save where the error
  is the question (`RxTxHandoff`, `HalfWork`, `If4p5Assembly`).
* `viterbi_proc`, `TX_timing_thread` and `RX_timing_thread`, whose `pthread_create` is
  commented out (enb 2413), and `complete_m2p`, `complete_viterbi*`, which nobody waits for.
* In `DlHarq`: TDD bundling and multiplexing, rate adaptation (statistics only), removal
  of the UE. In `UplinkRx`: CBA and `RX_pressuretest`. In `UlHarq`: more than one slot
  (the slots share no state but the PHICH groups), TDD, the wrap of `Msg3_frame`.
* In the fronthaul: `fh_if4p5_asynch_DL` (the same comparison, without a PRACH), IF5 (one
  stream of samples), slave eNBs and the two readers of one socket that `synch_to_other`
  gives an RCC. The RRU's `malloc_IF4p5_buffer` after a `break` (enb 3036) is unreachable.
* Start-up: thread creation is the `Init` of the models.
* Signal processing, coding and SIMD kernels (numerical, nothing a model checker
  reaches), device drivers (`trx_read` and `trx_write` appear as `DownlinkTx` uses them),
  the MAC scheduler (its choices appear in `UlHarq` and `DownlinkTx`), RLC, PDCP, RRC,
  S1AP, GTP, NAS and ITTI (inherited unchanged), the UE softmodem and the simulators
  (but `HalfWork` models functions only ulsim and dlsim call).

The mapped lines are a small share of the tree: it holds 2.6 million lines, of which the
greater part is generated code, numerical kernels, three copies of upstream
(`Original_OAI_Codes`) and the inherited upper layers. The fork's own program is the
physical layer's threads in `lte-enb.c` and `phy_procedures_lte_eNb.c`.

## 9. Running

```
tlc -workers 2 -config pool.cfg MCPdschPool.tla
tlc -workers 2 -config handoff_late_lock.cfg RxTxHandoff.tla    # a counterexample
tlapm PdschPoolProofs.tla
```

`PROJECT.json` lists the runs, the source lines of every definition, the mutant that
breaks each property, the hazards and the theorems. The definitions commented
"Mutant:" in the modules are plausible mistakes in the code next to them; no
specification uses them.
